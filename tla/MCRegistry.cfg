\* Three signers, two of them needed, two candidate sets for each of two epochs.
\* With every epoch of the bound executed and no time left nothing can be called.
CHECK_DEADLOCK FALSE
SPECIFICATION RegistrySpec
CONSTANTS
  Signers = {s1, s2, s3}
  PkHashes = {1, 2}
  ValidatorSets <- TwoSets
  threshold = 2
  timelockDelay = 1
  MaxEpoch = 1
  MaxTime = 4
SYMMETRY AnySigners
INVARIANTS
  TimelockFollowsQuorum
  OneProposalPerEpoch
  StakeWithinTotal
PROPERTIES
  ExecutedAfterTimelock
  EpochsFrozen
