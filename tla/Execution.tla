------------------------------ MODULE Execution ------------------------------
(***************************************************************************)
(* What one transaction does to the accounts of the chain, as far as       *)
(* nonces and balances go: the checks and the debit of revm, and what      *)
(* crates/suwappu-revm/src/handler.rs makes of refund, reimbursement and   *)
(* reward.  Contracts, logs and encodings are left out.                    *)
(***************************************************************************)
EXTENDS Integers, FiniteSets

CONSTANTS
  Accounts,
  Beneficiary,   \* where fees go: the default beneficiary of a block
  Txs            \* transactions that may be sent

ASSUME ExecutionAssumption ==
  /\ IsFiniteSet(Accounts)       \* addresses of 160 bits
  /\ Beneficiary \in Accounts
  /\ Txs \subseteq [sender : Accounts, nonce : Nat, gasPrice : Nat,
                    gasLimit : Nat, to : Accounts, value : Nat]

Account == [nonce : Nat, balance : Nat]

NewAccount == [nonce |-> 0, balance |-> 0]

\* InMemoryDB::default(): an account that is not there has nothing.
EmptyDb == [a \in Accounts |-> NewAccount]

\* effective_gas_price * gas_limit, where there is no base fee.
Fee(tx) == tx.gasPrice * tx.gasLimit

\* A slip: the value is not part of what the sender must have.
ValidForFee(db, tx) ==
  /\ tx.nonce = db[tx.sender].nonce
  /\ db[tx.sender].balance >= Fee(tx)

Valid(db, tx) ==
  /\ tx.nonce = db[tx.sender].nonce
  /\ db[tx.sender].balance >= Fee(tx) + tx.value

Counted(db, a) == [db EXCEPT ![a].nonce = @ + 1]

Debited(db, a, amount) == [db EXCEPT ![a].balance = @ - amount]

Credited(db, a, amount) == [db EXCEPT ![a].balance = @ + amount]

\* A slip: the sender gets back the gas it did not use, one unit here, which
\* the beneficiary keeps as well.
SettledWithRefund(db, tx) ==
  Credited(Credited(db, tx.sender, tx.gasPrice), Beneficiary, Fee(tx))

\* refund is zero, reimburse_caller does nothing, and reward_beneficiary pays
\* for the whole limit.
Settled(db, tx) == Credited(db, Beneficiary, Fee(tx))

\* The accounts after a valid transaction that succeeded, or that reverted or
\* halted and moved nothing.
Outcomes(db, tx) ==
  LET charged == Debited(Counted(db, tx.sender), tx.sender, Fee(tx))
      moved   == Credited(Debited(charged, tx.sender, tx.value), tx.to, tx.value)
  IN  {Settled(charged, tx), Settled(moved, tx)}
=============================================================================
