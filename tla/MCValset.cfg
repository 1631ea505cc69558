\* Three accounts, each of which may register a validator, compete for two
\* places in the consensus set and delegate to one another.
SPECIFICATION Spec
CONSTANTS
  UNIT_BIAS = 2
  MON = 2
  DUST_THRESHOLD = 1
  MIN_AUTH_ADDRESS_STAKE = 1
  ACTIVE_VALIDATOR_STAKE = 1
  MIN_EXTERNAL_REWARD = 1
  MAX_EXTERNAL_REWARD = 1
  ACTIVE_VALSET_SIZE = 2
  Addrs = {a1, a2, a3}
  ZERO_ADDRESS = zero
  SENTINEL_ADDRESS = sentinel
  BlsKeys = {k1, k2, k3}
  WithdrawIds = {0}
  DelegateAmounts = {1}
  UndelegateAmounts = {1}
  Commissions = {0}
  BlockRewards = {}
  ExternalRewards = {}
  InitialFunds = 1
  MaxValidators = 3
  MaxEpoch = 3
  MaxRewards = 0
SYMMETRY Identities
INVARIANTS
  FlagsExact
  ExecutionSetConsistent
  ViewsMatchSets
  ListsMatchDelegations
