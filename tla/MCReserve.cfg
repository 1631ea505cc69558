\* A user, a delegated wallet, a fresh address that was funded
\* before anything is created at it, and the staking precompile.
\* After the last transaction of the bound nothing happens.
CHECK_DEADLOCK FALSE
SPECIFICATION ReserveSpec
CONSTANTS
  user = user
  wallet = wallet
  fresh = fresh
  STAKING_ADDRESS = staking
  Accounts = {user, wallet, fresh, staking}
  Fresh = {fresh}
  Senders = {user, wallet}
  Histories <- RecentBlocks
  InitialBalance <- FundedWith
  InitialCode <- WithCode
  MaxReserve = 1
  Amounts = {0, 1}
  Fees = {1, 2}
  MonadNine = TRUE
  CodeWithAccount = TRUE
  Unknown = Unknown
  Unpayable = Unpayable
  MaxDepth = 2
  MaxTx = 1
INVARIANTS
  FailedExact
  ThresholdsCurrent
PROPERTIES
  RevertRestoresVerdict
  DipsOnceInThreeBlocks
