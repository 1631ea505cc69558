--------------------------- MODULE ReserveBalance ---------------------------
(***************************************************************************)
(* The reserve-balance tracker (reserve_balance/tracker.rs) and the        *)
(* journal that drives it (journal.rs): which accounts would violate the   *)
(* reserve rule if the transaction ended now.  The tracker is incremental: *)
(* it looks at an account when the journal moves value, changes code or    *)
(* reverts a checkpoint, and it remembers the threshold it computed.       *)
(*                                                                         *)
(* The journal of revm is external: a checkpoint saves the accounts and    *)
(* collects the addresses of the entries made since.                       *)
(***************************************************************************)
EXTENDS ChainContext, FiniteSets

CONSTANTS
    Accounts,
    STAKING_ADDRESS,    \* the staking precompile, subject to no reserve
    Fresh,              \* addresses a contract can be created at
    InitialBalance, InitialCode,
    MaxReserve,         \* max_reserve_balance
    Amounts,            \* values moved
    Fees,               \* gas_limit times the gas price
    MonadNine,          \* whether the hardfork is active
    CodeWithAccount,    \* whether the database returns an account with its code
    Unknown, Unpayable, \* no threshold cached; a reserve that gas fees exceed
    MaxDepth,           \* bound: frames on the stack
    MaxTx               \* bound: transactions of the block

Codes == {"none", "eip7702", "contract"}

ASSUME ReserveAssumption ==
    /\ STAKING_ADDRESS \in Accounts
    /\ Fresh \subseteq Accounts \ {STAKING_ADDRESS}
    /\ Senders \subseteq Accounts \ (Fresh \cup {STAKING_ADDRESS})
    /\ InitialBalance \in [Accounts -> Nat]
    /\ InitialCode \in [Accounts -> Codes]
    /\ \A a \in Fresh \cup {STAKING_ADDRESS} : InitialCode[a] = "none"
    /\ MaxReserve \in Nat
    /\ Amounts \subseteq Nat
    /\ Fees \subseteq Nat
    /\ MonadNine \in BOOLEAN /\ CodeWithAccount \in BOOLEAN
    /\ Unknown \notin Nat /\ Unpayable \notin Nat /\ Unknown # Unpayable
    /\ MaxDepth \in Nat
    /\ MaxTx \in Nat

\* known: the code is in the journal's state; original: original_info.balance.
Account == [balance : Nat, original : Nat, code : Codes, known : BOOLEAN,
            warm : BOOLEAN, created : BOOLEAN, destroyed : BOOLEAN]

Tracker == [sender : Senders \cup {Unknown}, gasFees : Nat, canDip : BOOLEAN,
            thresholds : [Accounts -> Nat \cup {Unknown, Unpayable}],
            failed : SUBSET Accounts]

\* The cleared tracker; it has no sender and follows nothing.
NoTracking == [sender |-> Unknown, gasFees |-> 0, canDip |-> FALSE,
               thresholds |-> [a \in Accounts |-> Unknown], failed |-> {}]

VARIABLES
    phase,        \* "idle", "running" or "done", of the transaction
    account,      \* the accounts of the journal's state
    frames,       \* open checkpoints, each with the account its frame runs as
    tracker,
    txs           \* transactions begun, for the bound only

reserveVars == <<phase, account, frames, tracker, txs>>

-----------------------------------------------------------------------------
(* The tracker.                                                            *)

\* is_subject_account; code that is not in the state counts as a contract's.
IsSubject(acc, a) ==
    /\ a # STAKING_ADDRESS
    /\ \/ acc.code = "none"
       \/ acc.known /\ acc.code = "eip7702"

PretxReserve(acc) == IF MaxReserve < acc.original THEN MaxReserve ELSE acc.original

\* A slip: the fees are taken off although they exceed the reserve.
UncheckedThreshold(t, acc, a) ==
    IF ~IsSubject(acc, a) \/ (a = t.sender /\ t.canDip) THEN 0
    ELSE IF a = t.sender THEN PretxReserve(acc) - t.gasFees
    ELSE PretxReserve(acc)

\* compute_violation_threshold
ViolationThreshold(t, acc, a) ==
    IF ~IsSubject(acc, a) THEN 0
    ELSE IF a # t.sender THEN PretxReserve(acc)
    ELSE IF t.canDip THEN 0
    ELSE IF t.gasFees > PretxReserve(acc) THEN Unpayable
    ELSE PretxReserve(acc) - t.gasFees

Exempt(acc) == MonadNine /\ acc.destroyed /\ acc.created

Violates(threshold, balance) == threshold = Unpayable \/ balance < threshold

\* update_loaded_account, of each of the addresses.
Update(t, accs, addresses) ==
    LET threshold(a) ==
            IF Exempt(accs[a]) THEN 0
            ELSE IF t.thresholds[a] # Unknown THEN t.thresholds[a]
            ELSE ViolationThreshold(t, accs[a], a)
        violating == {a \in addresses : Violates(threshold(a), accs[a].balance)}
    IN  [t EXCEPT
            !.thresholds = [a \in Accounts |->
                               IF a \in addresses THEN threshold(a) ELSE @[a]],
            !.failed = (@ \ addresses) \cup violating]

Forget(t, addresses) ==
    [t EXCEPT !.thresholds =
        [a \in Accounts |-> IF a \in addresses THEN Unknown ELSE @[a]]]

\* A slip: who is paid is never looked at.
CreditIgnored(t, accs, a) == t

OnCredit(t, accs, a) == IF a \in t.failed THEN Update(t, accs, {a}) ELSE t

\* on_transfer: a debit, then a credit.
OnTransfer(t, accs, from, to) == OnCredit(Update(t, accs, {from}), accs, to)

\* A slip: only the balance is looked at, by the threshold from before.
SetCodeKeepingThreshold(t, accs, a) == Update(t, accs, {a})

OnSetCode(t, accs, a) ==
    IF accs[a].code = "contract"
    THEN [t EXCEPT !.thresholds[a] = 0, !.failed = @ \ {a}]
    ELSE Update(Forget(t, {a}), accs, {a})

\* A slip: the tracker does not hear of the revert.
RevertUntold(t, accs, addresses) == t

OnCheckpointRevert(t, accs, addresses) == Update(Forget(t, addresses), accs, addresses)

-----------------------------------------------------------------------------
(* The journal.                                                            *)

ReserveInit ==
    /\ phase = "idle"
    /\ account = [a \in Accounts |->
          [balance |-> InitialBalance[a], original |-> InitialBalance[a],
           code |-> InitialCode[a], known |-> CodeWithAccount,
           warm |-> FALSE, created |-> FALSE, destroyed |-> FALSE]]
    /\ frames = <<>>
    /\ tracker = NoTracking
    /\ txs = 0

Depth == Len(frames)

\* The account a frame at this depth runs as; at depth 0 the sender calls.
RunsAs(depth) == IF depth = 0 THEN tracker.sender ELSE frames[depth].self

Self == RunsAs(Depth)

\* Whether code runs: an account without code only receives.
CodeRuns ==
    /\ phase = "running"
    /\ Depth > 0
    /\ frames[Depth].creating \/ account[Self].code # "none" \/ Self = STAKING_ADDRESS

\* Journal entries made now.
Entered(addresses) ==
    IF Depth = 0 THEN frames
    ELSE [frames EXCEPT ![Depth].entries = @ \cup addresses]

\* The innermost frame ends; its entries stay in the journal if it commits.
Popped(entries) ==
    LET outer == SubSeq(frames, 1, Depth - 1)
    IN  IF Depth = 1 THEN outer
        ELSE [outer EXCEPT ![Depth - 1].entries = @ \cup entries]

Moved(accs, from, to, amount) ==
    [[accs EXCEPT ![from].balance = @ - amount] EXCEPT ![to].balance = @ + amount]

\* pre_execution: gas is paid and delegations are set, then tracking starts.
StartTx(history, place, fee, authorityCode) ==
    LET from == history.current[place].sender
        authorities == history.current[place].authorities
        started == [a \in Accounts |->
            [account[a] EXCEPT
                !.balance = IF a = from THEN @ - fee ELSE @,
                !.code = IF a \in authorities THEN authorityCode ELSE @,
                !.known = @ \/ a \in authorities \cup {from},
                !.warm = a \in authorities \cup {from, STAKING_ADDRESS}]]
    IN  /\ phase = "idle"
        /\ txs < MaxTx                                 \* bound
        /\ txs' = txs + 1
        /\ account[from].code # "contract"
        /\ fee <= account[from].balance
        /\ phase' = "running"
        /\ account' = started
        /\ tracker' = Update([NoTracking EXCEPT
                                 !.sender = from, !.gasFees = fee,
                                 !.canDip = SenderCanDip(Context(history, place), from,
                                                started[from].code = "eip7702")],
                             started, {from})
        /\ UNCHANGED frames

\* A frame runs as `to' once the value has moved to it.
Enter(to, amount, creating) ==
    LET loaded == [account EXCEPT ![to].warm = TRUE, ![to].known = TRUE]
        begun  == [Moved(loaded, Self, to, amount) EXCEPT ![to].created = @ \/ creating]
    IN  /\ phase = "running"
        /\ Depth < MaxDepth                            \* bound
        /\ Depth = 0 \/ CodeRuns
        /\ amount <= account[Self].balance
        /\ account' = begun
        /\ tracker' = OnTransfer(tracker, begun, Self, to)
        /\ frames' = Append(Entered(IF account[to].warm THEN {} ELSE {to}),
                            [self |-> to, creating |-> creating, saved |-> loaded,
                             entries |-> IF amount = 0 /\ ~creating
                                         THEN {to} ELSE {Self, to},
                             failed |-> tracker.failed])
        /\ UNCHANGED <<phase, txs>>

Call(to, amount) == Self # STAKING_ADDRESS /\ Enter(to, amount, FALSE)

\* create_account_checkpoint, at an address that no contract occupies.
Create(new, amount) ==
    /\ Self # STAKING_ADDRESS
    /\ account[new].code = "none"
    /\ ~account[new].created
    /\ Enter(new, amount, TRUE)

\* BALANCE and the like load an account without its code.
LoadAccount(a) ==
    /\ CodeRuns
    /\ Self # STAKING_ADDRESS
    /\ ~account[a].warm
    /\ account' = [account EXCEPT ![a].warm = TRUE]
    /\ frames' = Entered({a})
    /\ UNCHANGED <<phase, tracker, txs>>

\* The staking precompile pays its caller.
PayOut(amount) ==
    /\ CodeRuns
    /\ Self = STAKING_ADDRESS
    /\ amount <= account[Self].balance
    /\ account' = Moved(account, Self, RunsAs(Depth - 1), amount)
    /\ tracker' = OnTransfer(tracker, account', Self, RunsAs(Depth - 1))
    /\ frames' = Entered({Self, RunsAs(Depth - 1)})
    /\ UNCHANGED <<phase, txs>>

\* The phase once the innermost frame has ended.
PhaseAfter == IF Depth = 1 THEN "done" ELSE "running"

\* checkpoint_commit; a creation then stores what its code returned.
Return(code) ==
    /\ phase = "running"
    /\ Depth > 0
    /\ IF frames[Depth].creating
       THEN /\ account' = [account EXCEPT ![Self].code = code]
            /\ tracker' = OnSetCode(tracker, account', Self)
       ELSE UNCHANGED <<account, tracker>>
    /\ frames' = Popped(frames[Depth].entries)
    /\ phase' = PhaseAfter
    /\ UNCHANGED txs

\* selfdestruct ends the frame; what a creation returned is empty.
SelfDestruct(target) ==
    LET loaded == [account EXCEPT ![target].warm = TRUE]
        moved  == Moved(loaded, Self, target, account[Self].balance)
        burnt  == [moved EXCEPT ![Self].balance = 0, ![Self].destroyed = TRUE]
        after  == IF account[Self].created THEN burnt ELSE moved
        told   == OnTransfer(tracker, after, Self, target)
    IN  /\ CodeRuns
        /\ Self # STAKING_ADDRESS
        /\ account' = after
        /\ tracker' = IF frames[Depth].creating THEN OnSetCode(told, after, Self) ELSE told
        /\ frames' = Popped(frames[Depth].entries \cup {Self, target})
        /\ phase' = PhaseAfter
        /\ UNCHANGED txs

\* checkpoint_revert: the accounts are as saved, but code once loaded stays.
Revert ==
    LET restored == [a \in Accounts |->
            [frames[Depth].saved[a] EXCEPT !.known = account[a].known]]
    IN  /\ CodeRuns
        /\ account' = restored
        /\ tracker' = OnCheckpointRevert(tracker, restored, frames[Depth].entries)
        /\ frames' = Popped({})
        /\ phase' = PhaseAfter
        /\ UNCHANGED txs

\* reward_beneficiary credits the beneficiary, then commit_tx clears.
EndTx(beneficiary) ==
    /\ phase = "done"
    /\ phase' = "idle"
    /\ account' = [a \in Accounts |->
          LET acc == account[a]
              balance == IF acc.destroyed THEN 0 ELSE acc.balance
              paid == IF a = beneficiary THEN balance + tracker.gasFees ELSE balance
          IN  [acc EXCEPT !.balance = paid, !.original = paid, !.warm = FALSE,
                          !.code = IF acc.destroyed THEN "none" ELSE @,
                          !.created = FALSE, !.destroyed = FALSE]]
    /\ tracker' = NoTracking
    /\ UNCHANGED <<frames, txs>>

ReserveNext ==
    \/ \E history \in Histories : \E place \in DOMAIN history.current,
          fee \in Fees, authorityCode \in {"none", "eip7702"} :
          StartTx(history, place, fee, authorityCode)
    \/ \E a \in Accounts, amount \in Amounts : Call(a, amount)
    \/ \E new \in Fresh, amount \in Amounts : Create(new, amount)
    \/ \E a \in Accounts : LoadAccount(a)
    \/ \E amount \in Amounts : PayOut(amount)
    \/ \E code \in {"none", "contract"} : Return(code)
    \/ \E a \in Accounts : SelfDestruct(a)
    \/ Revert
    \/ \E a \in Accounts : EndTx(a)

ReserveSpec == ReserveInit /\ [][ReserveNext]_reserveVars

-----------------------------------------------------------------------------
(***************************************************************************)
(* The reserve rule, from the accounts alone: with the fees it has still   *)
(* to pay, nobody who is subject to the rule has less than its reserve,    *)
(* and fees beyond the reserve are never covered.                          *)
(***************************************************************************)
BelowReserve ==
    {a \in Accounts :
        LET acc  == account[a]
            fees == IF a = tracker.sender THEN tracker.gasFees ELSE 0
        IN  /\ IsSubject([acc EXCEPT !.known = TRUE], a)
            /\ ~Exempt(acc)
            /\ ~(a = tracker.sender /\ tracker.canDip)
            /\ \/ fees > PretxReserve(acc)
               \/ acc.balance + fees < PretxReserve(acc)}

\* The threshold that the account would get now.
Threshold(a) ==
    IF Exempt(account[a]) THEN 0
    ELSE ViolationThreshold(tracker, [account[a] EXCEPT !.known = TRUE], a)

(***************************************************************************)
(* Through every nesting of calls, creations, self-destructions and        *)
(* reverts, the accounts the tracker has failed are those a computation    *)
(* from scratch finds below their reserve.                                 *)
(***************************************************************************)
FailedExact == phase # "idle" => tracker.failed = BelowReserve

(***************************************************************************)
(* A cached threshold is the one that would be computed now.               *)
(***************************************************************************)
ThresholdsCurrent ==
    phase # "idle" =>
        \A a \in Accounts : tracker.thresholds[a] \in {Unknown, Threshold(a)}

(***************************************************************************)
(* A reverted call leaves the verdict of the tracker as it found it.       *)
(***************************************************************************)
RevertRestoresVerdict ==
    [][Revert => tracker'.failed = frames[Depth].failed]_reserveVars

(***************************************************************************)
(* A sender may spend its reserve exactly if it has been quiet: it took no *)
(* part in an earlier transaction of this block or of the two before,      *)
(* neither as sender nor as an authority, it authorises nothing in this    *)
(* one, and it is not delegated now.  So one account dips at most once in  *)
(* three blocks.                                                           *)
(***************************************************************************)
Earlier(history, place) ==
    history.grandparent \o history.parent \o SubSeq(history.current, 1, place - 1)

Quiet(history, place) ==
    LET tx == history.current[place]
    IN  tx.sender \notin tx.authorities \cup Involved(Earlier(history, place))

DipsOnceInThreeBlocks ==
    [][phase = "idle" /\ phase' = "running" =>
          \A history \in Histories : \A place \in DOMAIN history.current,
             fee \in Fees, authorityCode \in {"none", "eip7702"} :
                StartTx(history, place, fee, authorityCode) =>
                    (tracker'.canDip <=> /\ Quiet(history, place)
                                         /\ account'[tracker'.sender].code # "eip7702")]_reserveVars

(***************************************************************************)
(* README.md:180: dippedIntoReserve "returns true when the current         *)
(* transaction state would violate Monad reserve-balance rules if          *)
(* execution ended at that point".                                         *)
(***************************************************************************)
DippedIntoReserve == phase # "idle" => (tracker.failed # {} <=> BelowReserve # {})
=============================================================================
