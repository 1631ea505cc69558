------------------------- MODULE StakingAccounting -------------------------
(***************************************************************************)
(* The reward arithmetic of the staking precompile (staking/write.rs):     *)
(* the reference-counted accumulator snapshots and the settlement of one   *)
(* delegation, pull_delegator_up_to_date.  Pure operators: the actions of  *)
(* Staking apply them to the storage.                                      *)
(*                                                                         *)
(* Amounts are natural numbers in scaled-down units.  A checked            *)
(* subtraction that would go below zero makes the whole call revert: it is *)
(* the field `ok' of a settlement.  (Overflow of 256 bits needs more than  *)
(* 10^40 MON and is left out.)                                             *)
(***************************************************************************)
EXTENDS Integers

CONSTANTS
    UNIT_BIAS,                \* precision of the accumulator (10^36)
    MON,                      \* the unit commissions are fractions of (10^18)
    DUST_THRESHOLD,           \* least delegation, and least stake left behind
    MIN_AUTH_ADDRESS_STAKE,   \* what the auth address must keep staked
    ACTIVE_VALIDATOR_STAKE,   \* what a validator needs to be eligible
    MIN_EXTERNAL_REWARD,
    MAX_EXTERNAL_REWARD,
    ACTIVE_VALSET_SIZE        \* most validators in the consensus set

ASSUME StakingConstantsAssumption ==
    /\ UNIT_BIAS \in Nat \ {0}
    /\ MON \in Nat \ {0}
    /\ DUST_THRESHOLD \in Nat \ {0}
    /\ MIN_AUTH_ADDRESS_STAKE \in Nat \ {0}
    /\ ACTIVE_VALIDATOR_STAKE \in Nat \ {0}
    /\ DUST_THRESHOLD <= MIN_AUTH_ADDRESS_STAKE
    /\ MIN_AUTH_ADDRESS_STAKE <= ACTIVE_VALIDATOR_STAKE
    /\ MIN_EXTERNAL_REWARD \in Nat
    /\ MAX_EXTERNAL_REWARD \in Nat
    /\ ACTIVE_VALSET_SIZE \in Nat

MAX_COMMISSION == MON

WITHDRAWAL_DELAY == 1

\* The records of staking/types.rs (keys of a validator are in Staking).
Delegator == [stake : Nat, acc : Nat, rewards : Nat,
              deltaStake : Nat, nextDeltaStake : Nat,
              deltaEpoch : Nat, nextDeltaEpoch : Nat]

NoDelegator == [stake |-> 0, acc |-> 0, rewards |-> 0,
                deltaStake |-> 0, nextDeltaStake |-> 0,
                deltaEpoch |-> 0, nextDeltaEpoch |-> 0]

Accumulator == [value : Nat, refcount : Nat]

NoAccumulator == [value |-> 0, refcount |-> 0]

WithdrawalRequest == [amount : Nat, acc : Nat, epoch : Nat]

NoWithdrawal == [amount |-> 0, acc |-> 0, epoch |-> 0]

TotalStake(d) == d.stake + d.deltaStake + d.nextDeltaStake

DelegatorExists(d) == d.stake # 0 \/ d.deltaStake # 0 \/ d.nextDeltaStake # 0

-----------------------------------------------------------------------------
(* Accumulators: `accs' maps epochs to accumulators, for one validator.    *)

\* A slip: rounded up.
RewardsRoundedUp(stake, current, last) ==
    ((current - last) * stake + UNIT_BIAS - 1) \div UNIT_BIAS

CalculateRewards(stake, current, last) == ((current - last) * stake) \div UNIT_BIAS

IncrementRefcount(accs, epoch, value) ==
    [accs EXCEPT ![epoch] = [value |-> value, refcount |-> @.refcount + 1]]

\* The value read back by decrement_accumulator_refcount: zero when nothing
\* is registered for the epoch.
SnapshotValue(accs, epoch) ==
    IF accs[epoch].refcount = 0 THEN 0 ELSE accs[epoch].value

\* A slip: the snapshot is cleared although others still refer to it.
DecrementAndClear(accs, epoch) == [accs EXCEPT ![epoch] = NoAccumulator]

DecrementRefcount(accs, epoch) ==
    CASE accs[epoch].refcount = 0 -> accs
      [] accs[epoch].refcount = 1 -> [accs EXCEPT ![epoch] = NoAccumulator]
      [] accs[epoch].refcount > 1 -> [accs EXCEPT ![epoch].refcount = @ - 1]

-----------------------------------------------------------------------------
(***************************************************************************)
(* A settlement in progress: the delegator, the validator's unclaimed      *)
(* rewards and accumulators, and whether every check has passed so far.    *)
(***************************************************************************)
Settlement(d, unclaimed, accs) ==
    [ok |-> TRUE, del |-> d, unclaimed |-> unclaimed, accs |-> accs]

\* A slip: subtractions that wrap instead of failing.
CreditUnchecked(s, value) ==
    LET rewards == CalculateRewards(s.del.stake, value, s.del.acc)
    IN  [s EXCEPT !.unclaimed   = @ - rewards,
                  !.del.acc     = value,
                  !.del.rewards = @ + rewards]

\* A slip: the rewards are credited without leaving the validator's pool.
CreditTwice(s, value) ==
    LET rewards == CalculateRewards(s.del.stake, value, s.del.acc)
    IN  [s EXCEPT !.ok = @ /\ s.del.acc <= value /\ rewards <= s.unclaimed,
                  !.del.acc     = value,
                  !.del.rewards = @ + rewards]

(***************************************************************************)
(* The rewards of the active stake between the delegator's cursor and      *)
(* `value' leave the validator's pool and become the delegator's.  The     *)
(* call reverts if the cursor is ahead of `value' ("internal error") or if *)
(* the pool is too small ("solvency error").                               *)
(***************************************************************************)
Credit(s, value) ==
    LET rewards == CalculateRewards(s.del.stake, value, s.del.acc)
    IN  [s EXCEPT !.ok = @ /\ s.del.acc <= value /\ rewards <= s.unclaimed,
                  !.unclaimed   = @ - rewards,
                  !.del.acc     = value,
                  !.del.rewards = @ + rewards]

\* The first pending stake becomes active and the second one takes its place.
ShiftTracks(d) ==
    [d EXCEPT !.stake          = @ + d.deltaStake,
              !.deltaStake     = d.nextDeltaStake,
              !.deltaEpoch     = d.nextDeltaEpoch,
              !.nextDeltaStake = 0,
              !.nextDeltaEpoch = 0]

ApplyCompound(s) ==
    LET epoch == s.del.deltaEpoch
    IN  [Credit(s, SnapshotValue(s.accs, epoch)) EXCEPT
            !.accs = DecrementRefcount(@, epoch),
            !.del  = ShiftTracks(@)]

IsEpochActive(current, active) == active # 0 /\ active <= current

\* A slip: it moves up however far away its epoch is.
PromoteEarly(d, epoch) ==
    IF d.deltaEpoch = 0 /\ d.nextDeltaEpoch # 0
    THEN [d EXCEPT !.deltaStake     = d.nextDeltaStake,
                   !.deltaEpoch     = d.nextDeltaEpoch,
                   !.nextDeltaStake = 0,
                   !.nextDeltaEpoch = 0]
    ELSE d

\* A stake pending for two epochs that is now one epoch away moves up.
PromoteNext(d, epoch) ==
    IF d.deltaEpoch = 0 /\ d.nextDeltaEpoch # 0 /\ d.nextDeltaEpoch <= epoch + 1
    THEN [d EXCEPT !.deltaStake     = d.nextDeltaStake,
                   !.deltaEpoch     = d.nextDeltaEpoch,
                   !.nextDeltaStake = 0,
                   !.nextDeltaEpoch = 0]
    ELSE d

(***************************************************************************)
(* pull_delegator_up_to_date: which pending stakes have elapsed is decided *)
(* before any is applied; each application activates the first of the two  *)
(* and moves the second up; then the active stake earns up to now.         *)
(***************************************************************************)
PullDelegatorUpToDate(s, valAcc, epoch) ==
    LET promoted  == [s EXCEPT !.del = PromoteNext(@, epoch)]
        canCompound         == IsEpochActive(epoch, promoted.del.deltaEpoch)
        canCompoundBoundary == IsEpochActive(epoch, promoted.del.nextDeltaEpoch)
        boundary  == IF canCompoundBoundary THEN ApplyCompound(promoted) ELSE promoted
        compounded == IF canCompound THEN ApplyCompound(boundary) ELSE boundary
    IN  IF compounded.del.stake = 0 THEN compounded ELSE Credit(compounded, valAcc)
=============================================================================
