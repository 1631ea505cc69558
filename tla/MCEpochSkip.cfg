\* The boundary of an epoch that is not followed by the next number.
SPECIFICATION SkippingSpec
CONSTANTS
  UNIT_BIAS = 2
  MON = 2
  DUST_THRESHOLD = 1
  MIN_AUTH_ADDRESS_STAKE = 1
  ACTIVE_VALIDATOR_STAKE = 1
  MIN_EXTERNAL_REWARD = 1
  MAX_EXTERNAL_REWARD = 1
  ACTIVE_VALSET_SIZE = 1
  Addrs = {a1}
  ZERO_ADDRESS = zero
  SENTINEL_ADDRESS = sentinel
  BlsKeys = {k1}
  WithdrawIds = {0}
  DelegateAmounts = {1}
  UndelegateAmounts = {1}
  Commissions = {0}
  BlockRewards = {2}
  ExternalRewards = {}
  InitialFunds = 2
  MaxValidators = 1
  MaxEpoch = 3
  MaxRewards = 4
PROPERTIES
  ActivationsUseTransitionAccumulator
