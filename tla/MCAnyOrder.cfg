\* One account, two withdrawal ids, system calls in any order: skipped epochs,
\* epoch changes without a boundary, changing commissions, external rewards.
SPECIFICATION AnyOrderSpec
CONSTANTS
  UNIT_BIAS = 2
  MON = 2
  DUST_THRESHOLD = 1
  MIN_AUTH_ADDRESS_STAKE = 1
  ACTIVE_VALIDATOR_STAKE = 1
  MIN_EXTERNAL_REWARD = 1
  MAX_EXTERNAL_REWARD = 1
  ACTIVE_VALSET_SIZE = 1
  Addrs = {a1}
  ZERO_ADDRESS = zero
  SENTINEL_ADDRESS = sentinel
  BlsKeys = {k1}
  WithdrawIds = {0, 1}
  DelegateAmounts = {1}
  UndelegateAmounts = {1}
  Commissions = {0, 1}
  BlockRewards = {2}
  ExternalRewards = {1}
  InitialFunds = 2
  MaxValidators = 1
  MaxEpoch = 3
  MaxRewards = 2
INVARIANTS
  TypeOK
  RefcountsExact
  PendingWindow
  ContractBalanced
PROPERTIES
  StartedSnapshotsFrozen
  EpochTermsFixed
