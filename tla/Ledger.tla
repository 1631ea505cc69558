------------------------------- MODULE Ledger -------------------------------
(***************************************************************************)
(* What the dev node promises (crates/suwappu-node): a serial ledger.      *)
(* Transactions are applied one at a time, each at most once and only if   *)
(* it is valid then, and each makes a block of its own.  A transaction     *)
(* that is rejected leaves no trace.  A ledger that failed while it        *)
(* applied one has lost its accounts and applies no other.                 *)
(***************************************************************************)
EXTENDS Execution

CONSTANTS Genesis   \* the accounts at the start

VARIABLES
  accounts,
  height,    \* blocks made
  block,     \* number of the block of every transaction, 0 if it has none
  lost

ledgerVars == <<accounts, height, block, lost>>

LedgerInit ==
  /\ accounts = Genesis
  /\ height = 0
  /\ block = [tx \in Txs |-> 0]
  /\ lost = FALSE

Mine(tx) ==
  /\ ~ lost
  /\ block[tx] = 0
  /\ Valid(accounts, tx)
  /\ accounts' \in Outcomes(accounts, tx)
  /\ height' = height + 1
  /\ block' = [block EXCEPT ![tx] = height + 1]
  /\ UNCHANGED lost

Lose ==
  /\ ~ lost
  /\ lost' = TRUE
  /\ accounts' = EmptyDb
  /\ UNCHANGED <<height, block>>

LedgerNext == Lose \/ \E tx \in Txs : Mine(tx)

LedgerSpec == LedgerInit /\ [][LedgerNext]_ledgerVars
=============================================================================
