\* The accounts of MCReserve, with a database that returns an account without
\* its code: the code is there only once something asked for it.
\* After the last transaction of the bound nothing happens.
CHECK_DEADLOCK FALSE
SPECIFICATION ReserveSpec
CONSTANTS
  user = user
  wallet = wallet
  fresh = fresh
  STAKING_ADDRESS = staking
  Accounts = {user, wallet, fresh, staking}
  Fresh = {fresh}
  Senders = {user, wallet}
  Histories <- RecentBlocks
  InitialBalance <- FundedWith
  InitialCode <- WithCode
  MaxReserve = 1
  Amounts = {0, 1}
  Fees = {1, 2}
  MonadNine = TRUE
  CodeWithAccount = FALSE
  Unknown = Unknown
  Unpayable = Unpayable
  MaxDepth = 2
  MaxTx = 1
INVARIANTS
  DippedIntoReserve
