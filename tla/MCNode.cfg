\* Two clients; fees and values so small that who is paid first decides what
\* is valid.
SPECIFICATION NodeSpec
CONSTANTS
  alice = alice
  bob = bob
  zero = zero
  Clients = {c1, c2}
  Accounts = {alice, bob, zero}
  Beneficiary = zero
  DEV_ACCOUNTS = {alice}
  PREFUND_WEI = 2
  Inspected = {alice}
  Txs <- TheTxs
  Malformed <- NotDecoded
  OtherChain <- ForAnother
  Panicking <- MayPanic
  NoTx = NoTx
  Free = Free
INVARIANTS
  NodeTypeOK
  OneBlockPerTransaction
  EtherConserved
PROPERTIES
  FreshAnswers
  ImplementsLedger
  MutexReleased
