\* One signer, so that governance is quick, and a faulty key with a third of
\* the stake of the first set.  Once every epoch is executed and every key has
\* signed, with no quorum for either root, nothing is left to do.
CHECK_DEADLOCK FALSE
SPECIFICATION OracleSpec
CONSTANTS
  Signers = {s1}
  PkHashes = {1, 2, 3}
  ValidatorSets <- TwoEpochSets
  threshold = 1
  timelockDelay = 0
  MaxEpoch = 1
  MaxTime = 1
  Blocks = {b1}
  Roots = {r1, r2}
  NoRoot = NoRoot
  Faulty = {2}
  MaxKeys = 3
INVARIANTS
  OneRootPerEpoch
  FinalizedByExecutedEpoch
  QuorumOnRecord
