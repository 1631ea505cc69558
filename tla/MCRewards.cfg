\* Two accounts share the rewards of one validator, over the documented
\* epoch lifecycle.
SPECIFICATION Spec
CONSTANTS
  UNIT_BIAS = 2
  MON = 2
  DUST_THRESHOLD = 1
  MIN_AUTH_ADDRESS_STAKE = 1
  ACTIVE_VALIDATOR_STAKE = 1
  MIN_EXTERNAL_REWARD = 1
  MAX_EXTERNAL_REWARD = 1
  ACTIVE_VALSET_SIZE = 1
  Addrs = {a1, a2}
  ZERO_ADDRESS = zero
  SENTINEL_ADDRESS = sentinel
  BlsKeys = {k1}
  WithdrawIds = {0}
  DelegateAmounts = {1}
  UndelegateAmounts = {1}
  Commissions = {1}
  BlockRewards = {2}
  ExternalRewards = {1}
  InitialFunds = 1
  MaxValidators = 1
  MaxEpoch = 3
  MaxRewards = 3
SYMMETRY Identities
INVARIANTS
  NoStuckFunds
  RewardsCovered
  EarningStakeIsViewStake
PROPERTIES
  ClaimsPaidInFull
  ImplementsEscrow
