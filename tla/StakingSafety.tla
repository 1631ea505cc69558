--------------------------- MODULE StakingSafety ---------------------------
(***************************************************************************)
(* What the staking precompile has to keep true.  The properties of the    *)
(* reward accounting rely on the documented epoch lifecycle (Spec); the    *)
(* others hold for every order of system calls (AnyOrderSpec).             *)
(***************************************************************************)
EXTENDS Staking, Functions

Pairs == ValIds \X Addrs

\* Types of the whole storage.  The order of the arrays is the business of
\* ExecutionSetConsistent and ViewsMatchSets.
TypeOK ==
    /\ epoch \in 0 .. MaxEpoch
    /\ inBoundary \in BOOLEAN
    /\ lastValId \in 0 .. MaxValidators
    /\ proposerValId \in 0 .. MaxValidators
    /\ val \in [ValIds -> Validator]
    /\ valIdSecp \in [Addrs -> 0 .. MaxValidators]
    /\ valIdBls \in [BlsKeys -> 0 .. MaxValidators]
    /\ del \in [ValIds -> [Addrs -> Delegator]]
    /\ withdrawals \in [ValIds -> [Addrs -> [WithdrawIds -> WithdrawalRequest]]]
    /\ accs \in [ValIds -> [Epochs -> Accumulator]]
    /\ executionBits \subseteq ValIds
    /\ consensusView \in [ValIds -> View]
    /\ snapshotView \in [ValIds -> View]
    /\ wallet \in [Addrs -> Nat]
    /\ balance \in Nat
    /\ rewarded \in Nat

-----------------------------------------------------------------------------
(* Bookkeeping that holds for every order of system calls.                 *)

(***************************************************************************)
(* Every accumulator snapshot is counted exactly once by each pending      *)
(* stake and each withdrawal filed under its epoch: a count too low clears *)
(* a snapshot somebody still needs (decrement_accumulator_refcount then    *)
(* answers zero), a count too high leaks it.                               *)
(***************************************************************************)
References(v, e) ==
    Cardinality({a \in Addrs : del[v][a].deltaEpoch = e})
  + Cardinality({a \in Addrs : del[v][a].nextDeltaEpoch = e})
  + Cardinality({r \in Addrs \X WithdrawIds :
                    /\ withdrawals[v][r[1]][r[2]].amount # 0
                    /\ withdrawals[v][r[1]][r[2]].epoch = e})

RefcountsExact ==
    \A v \in ValIds, e \in Epochs \ {0} : accs[v][e].refcount = References(v, e)

(***************************************************************************)
(* The two pending stakes of a delegation stay within the two epochs ahead *)
(* and are due in consecutive epochs, and a track is empty exactly when it *)
(* has no epoch: what internal_delegate relies on when it overwrites       *)
(* delta_epoch and next_delta_epoch without looking at what they held.     *)
(***************************************************************************)
PendingInWindow(d) ==
    /\ d.deltaEpoch = 0 <=> d.deltaStake = 0
    /\ d.nextDeltaEpoch = 0 <=> d.nextDeltaStake = 0
    /\ d.deltaEpoch <= epoch + 1
    /\ d.nextDeltaEpoch <= ActivationEpoch
    /\ d.deltaEpoch # 0 /\ d.nextDeltaEpoch # 0 => d.nextDeltaEpoch = d.deltaEpoch + 1

PendingWindow == \A v \in ValIds, a \in Addrs : PendingInWindow(del[v][a])

(***************************************************************************)
(* A validator's flags say exactly what its stake is, whoever moved it:    *)
(* STAKE_TOO_LOW below the active threshold, WITHDRAWN when its auth       *)
(* address holds less than it has to, pending stake included.              *)
(***************************************************************************)
FlagsExact ==
    \A v \in ValIds : val[v].auth # ZERO_ADDRESS =>
        /\ "STAKE_TOO_LOW" \in val[v].flags <=> val[v].stake < ACTIVE_VALIDATOR_STAKE
        /\ "WITHDRAWN" \in val[v].flags <=>
              TotalStake(del[v][val[v].auth]) < MIN_AUTH_ADDRESS_STAKE

(***************************************************************************)
(* The execution array and its bitset hold the same ids, none twice,       *)
(* through appends and pop-and-swap compaction, and no eligible validator  *)
(* is missing from them.                                                   *)
(***************************************************************************)
ExecutionSetConsistent ==
    /\ Members(execution) = executionBits
    /\ NoDuplicates(execution)
    /\ \A v \in ValIds : Exists(v) /\ val[v].flags = {} => v \in executionBits

(***************************************************************************)
(* A validator has a reward view exactly while it is in the set: a stale   *)
(* view would let a validator that left the set still be rewarded.         *)
(***************************************************************************)
ViewsMatchSets ==
    /\ NoDuplicates(consensus)
    /\ Len(consensus) <= ACTIVE_VALSET_SIZE
    /\ \A v \in ValIds :
          /\ v \in Members(consensus) <=> consensusView[v].stake # 0
          /\ v \in Members(snapshot) <=> snapshotView[v].stake # 0

(***************************************************************************)
(* The precompile owns exactly what it owes: the stake of every validator  *)
(* is the sum of its delegations, and the account holds that, the          *)
(* withdrawals under way, the rewards credited and those still in pools.   *)
(***************************************************************************)
ContractBalanced ==
    /\ \A v \in ValIds :
          val[v].stake = SumFunction([a \in Addrs |-> TotalStake(del[v][a])])
    /\ balance =
          SumFunction([v \in ValIds |-> val[v].stake + val[v].unclaimed])
        + SumFunction([p \in Pairs |-> del[p[1]][p[2]].rewards])
        + SumFunction([p \in ValIds \X Addrs \X WithdrawIds |->
                          withdrawals[p[1]][p[2]][p[3]].amount])

(***************************************************************************)
(* The two linked lists are one relation: walking a validator's list meets *)
(* exactly the accounts with stake there, each once, walking an account's  *)
(* list meets exactly its validators, and every prev pointer undoes a      *)
(* next.  getDelegators and getDelegations walk these lists.               *)
(***************************************************************************)
BackLinked(list, head, nil) ==
    \A k \in DOMAIN list : list[k].next # nil => list[list[k].next].prev = k

DelegatorsOf(v) == Traversal(delegators[v], SENTINEL_ADDRESS, ZERO_ADDRESS,
                             Cardinality(Addrs) + 1)

ValidatorsOf(a) == Traversal(delegations[a], SENTINEL_VAL_ID, NO_VALIDATOR,
                             MaxValidators + 1)

ListsMatchDelegations ==
    /\ \A v \in ValIds :
          /\ Members(DelegatorsOf(v)) = {a \in Addrs : DelegatorExists(del[v][a])}
          /\ NoDuplicates(DelegatorsOf(v))
          /\ BackLinked(delegators[v], SENTINEL_ADDRESS, ZERO_ADDRESS)
    /\ \A a \in Addrs :
          /\ Members(ValidatorsOf(a)) = {v \in ValIds : DelegatorExists(del[v][a])}
          /\ NoDuplicates(ValidatorsOf(a))
          /\ BackLinked(delegations[a], SENTINEL_VAL_ID, NO_VALIDATOR)

(***************************************************************************)
(* Once its epoch has started, a snapshot somebody refers to never changes *)
(* again: whoever settles later gets what whoever settled first got.       *)
(***************************************************************************)
StartedSnapshotsFrozen ==
    [][\A v \in ValIds, e \in Epochs :
          /\ e <= epoch
          /\ accs[v][e].refcount > 0
          /\ accs'[v][e].refcount > 0
          => accs'[v][e].value = accs[v][e].value]_vars

(***************************************************************************)
(* The stake that a validator's rewards are divided by and the commission  *)
(* taken of them stay for the whole epoch what they were at its start,     *)
(* whatever is delegated, undelegated and changed, and whenever the        *)
(* boundary opens and the sets are rebuilt; and every reward given in the  *)
(* epoch is divided by them.  So a commission that its auth address        *)
(* changes (handle_change_commission, at once in the execution state) is   *)
(* not taken of any reward before the next epoch.                          *)
(***************************************************************************)
\* What the delegators share: an external reward, which its sender pays, is
\* theirs, and a block reward is without the commission.
Shared(v, reward) ==
    IF wallet' = wallet
    THEN reward - ((reward * CurrentView(v).commission) \div MON)
    ELSE reward

DividedByTerms(v, reward) ==
    /\ CurrentView(v).stake # 0
    /\ val'[v].unclaimed = val[v].unclaimed + Shared(v, reward)
    /\ val'[v].acc = val[v].acc + PerToken(Shared(v, reward), CurrentView(v).stake)

EpochTermsFixed ==
    [][/\ epoch' = epoch => \A v \in ValIds : CurrentView(v)' = CurrentView(v)
       /\ rewarded' > rewarded =>
             \E v \in ValIds : DividedByTerms(v, rewarded' - rewarded)]_vars

(***************************************************************************)
(* The precompile is an escrow (see Escrow): each of its calls moves stake *)
(* or rewards the way one step of the escrow does, or moves no money.  A   *)
(* withdrawal is due WITHDRAWAL_DELAY epochs after the epoch it is filed   *)
(* under, and the rewards of a validator are its unclaimed pool and what   *)
(* its delegators have been credited with.                                 *)
(***************************************************************************)
Entrusted == [v \in ValIds |-> [a \in Addrs |-> TotalStake(del[v][a])]]

RequestOf(r) ==
    IF r.amount = 0 THEN [amount |-> 0, due |-> 0]
    ELSE [amount |-> r.amount, due |-> r.epoch + WITHDRAWAL_DELAY]

Asked ==
    [v \in ValIds |-> [a \in Addrs |-> [w \in WithdrawIds |->
        RequestOf(withdrawals[v][a][w])]]]

RewardPots ==
    [v \in ValIds |->
        val[v].unclaimed + SumFunction([a \in Addrs |-> del[v][a].rewards])]

Esc == INSTANCE Escrow WITH
        Accounts <- Addrs, Validators <- ValIds, Tickets <- WithdrawIds,
        Funds <- InitialFunds, Minted <- BlockRewards,
        Delays <- {WITHDRAWAL_DELAY + 1, WITHDRAWAL_DELAY + 2},
        now <- epoch, stake <- Entrusted, request <- Asked, pot <- RewardPots

ImplementsEscrow == Esc!EscrowSpec

-----------------------------------------------------------------------------
(* Reward accounting under the documented lifecycle.                       *)

(***************************************************************************)
(* No funds are stuck: every delegation can be settled, so none of the     *)
(* handlers can fail with "internal error" or "solvency error", and every  *)
(* withdrawal that is due can be paid.                                     *)
(***************************************************************************)
WithdrawalPayable(v, r) ==
    /\ r.acc <= SnapshotValue(accs[v], r.epoch)
    /\ WithdrawalRewards(v, r) <= val[v].unclaimed
    /\ r.amount + WithdrawalRewards(v, r) <= balance

NoStuckFunds ==
    /\ \A v \in ValIds, a \in Addrs : Pulled(v, a).ok
    /\ \A v \in ValIds, a \in Addrs, w \in WithdrawIds :
          WithdrawalReady(withdrawals[v][a][w])
              => WithdrawalPayable(v, withdrawals[v][a][w])

(***************************************************************************)
(* All claims together are covered: if everyone settled and every          *)
(* withdrawal was paid what it has earned so far, the unclaimed rewards of *)
(* the validator would suffice, in whatever order they come.               *)
(***************************************************************************)
Pending(v, a) == Pulled(v, a).del.rewards - del[v][a].rewards

EarnedByWithdrawal(v, r) ==
    IF r.amount = 0 THEN 0
    ELSE CalculateRewards(r.amount,
            IF r.epoch <= epoch THEN SnapshotValue(accs[v], r.epoch) ELSE val[v].acc,
            r.acc)

RewardsCovered ==
    \A v \in ValIds :
        SumFunction([a \in Addrs |-> Pending(v, a)])
      + SumFunction([r \in Addrs \X WithdrawIds |->
                        EarnedByWithdrawal(v, withdrawals[v][r[1]][r[2]])])
      <= val[v].unclaimed

(***************************************************************************)
(* Rewards are divided by the stake that earns them: the view of a         *)
(* validator in the set is the stake active in this epoch, withdrawals     *)
(* that are still earning included, and, once the boundary is open, the    *)
(* next consensus view is the stake that will be active in the next epoch. *)
(***************************************************************************)
ActiveIn(d, e) ==
    d.stake + (IF IsEpochActive(e, d.deltaEpoch) THEN d.deltaStake ELSE 0)
            + (IF IsEpochActive(e, d.nextDeltaEpoch) THEN d.nextDeltaStake ELSE 0)

EarningStake(v, e) ==
    SumFunction([a \in Addrs |-> ActiveIn(del[v][a], e)])
  + SumFunction([r \in Addrs \X WithdrawIds |->
                    IF withdrawals[v][r[1]][r[2]].epoch > e
                    THEN withdrawals[v][r[1]][r[2]].amount ELSE 0])

EarningStakeIsViewStake ==
    \A v \in ValIds :
        /\ CurrentView(v).stake # 0
              => CurrentView(v).stake = EarningStake(v, epoch)
        /\ inBoundary /\ consensusView[v].stake # 0
              => consensusView[v].stake = EarningStake(v, epoch + 1)

(***************************************************************************)
(* What an account could claim never shrinks, whatever others do (anyone   *)
(* can settle anyone's delegation through getDelegator), except by being   *)
(* paid out to it or staked again in full.                                 *)
(***************************************************************************)
Claimable(d, record, snapshots, now) ==
    PullDelegatorUpToDate(Settlement(d, record.unclaimed, snapshots),
                          record.acc, now).del.rewards

ClaimsPaidInFull ==
    [][\A v \in ValIds, a \in Addrs :
          LET before == Claimable(del[v][a], val[v], accs[v], epoch)
              after  == Claimable(del'[v][a], val'[v], accs'[v], epoch')
          IN  after < before =>
                  /\ after = 0
                  /\ \/ wallet'[a] = wallet[a] + before
                     \/ val'[v].stake = val[v].stake + before]_vars

-----------------------------------------------------------------------------
(***************************************************************************)
(* The comment in handle_syscall_on_epoch_change: the update of the        *)
(* snapshots "ensures delta_stake activations use the accumulator at epoch *)
(* transition, not the stale value from delegation time".                  *)
(***************************************************************************)
ActivationsUseTransitionAccumulator ==
    [][\A v \in Members(snapshot), e \in Epochs :
          /\ epoch < e
          /\ e <= epoch'
          /\ accs[v][e].refcount > 0
          => accs'[v][e].value = val[v].acc]_vars

\* The lifecycle with the epoch numbers the handler admits: "Allow any
\* strictly increasing epoch (next > last), not just +1".
EpochSkip ==
    /\ inBoundary
    /\ \E next \in 1 .. MaxEpoch : HandleSyscallOnEpochChange(next)

SkippingNext == UserCall \/ BlockCall \/ EpochSkip

SkippingSpec == Init /\ [][SkippingNext]_vars
=============================================================================
