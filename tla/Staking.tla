------------------------------ MODULE Staking ------------------------------
(***************************************************************************)
(* The staking precompile of suwappu-revm at address 0x1000                *)
(* (staking/write.rs): validators, delegations, withdrawals, rewards and   *)
(* the epoch boundary.  One action per handler; a handler whose check      *)
(* fails reverts every write of its call, so it is a disabled action.      *)
(* Calls are executed one at a time, in the order of the block.            *)
(***************************************************************************)
EXTENDS StakingAccounting, ValidatorSets, LinkedList

CONSTANTS
    Addrs,               \* the accounts that call the precompile
    ZERO_ADDRESS,        \* the empty address
    SENTINEL_ADDRESS,    \* the head of a validator's list of delegators
    BlsKeys,             \* consensus keys a validator can register
    WithdrawIds,         \* the ids a withdrawal can be filed under
    DelegateAmounts,     \* values sent with delegate and addValidator
    UndelegateAmounts,   \* amounts asked of undelegate
    Commissions,         \* rates given to addValidator and changeCommission
    BlockRewards,        \* rewards of a block
    ExternalRewards,     \* values sent with externalReward
    InitialFunds,        \* what each account owns at the start
    MaxValidators,       \* bound: validators ever registered
    MaxEpoch,            \* bound: the last epoch
    MaxRewards           \* bound: rewards ever given to pools, of either kind

ASSUME StakingAssumption ==
    /\ ZERO_ADDRESS \notin Addrs
    /\ SENTINEL_ADDRESS \notin Addrs
    /\ ZERO_ADDRESS # SENTINEL_ADDRESS
    /\ IsFiniteSet(Addrs)
    /\ IsFiniteSet(WithdrawIds)
    /\ DelegateAmounts \subseteq Nat
    /\ UndelegateAmounts \subseteq Nat
    /\ Commissions \subseteq Nat
    /\ BlockRewards \subseteq Nat
    /\ ExternalRewards \subseteq Nat
    /\ InitialFunds \in Nat
    /\ MaxValidators \in Nat
    /\ MaxEpoch \in Nat
    /\ MaxRewards \in Nat

ValIds == 1 .. MaxValidators
NO_VALIDATOR == 0
SENTINEL_VAL_ID == MaxValidators + 1

\* Epochs a stake or a withdrawal can be filed under.
Epochs == 0 .. MaxEpoch + 2

Flags == {"STAKE_TOO_LOW", "WITHDRAWN"}

Validator == [stake : Nat, acc : Nat, commission : Nat, unclaimed : Nat,
              auth : Addrs \cup {ZERO_ADDRESS}, flags : SUBSET Flags]

NoValidator == [stake |-> 0, acc |-> 0, commission |-> 0, unclaimed |-> 0,
                auth |-> ZERO_ADDRESS, flags |-> {}]

View == [stake : Nat, commission : Nat]

NoView == [stake |-> 0, commission |-> 0]

VARIABLES
    epoch, inBoundary, lastValId, proposerValId,
    val,               \* val[v]: the validator's execution state
    valIdSecp,         \* auth address -> validator id (val_id_secp)
    valIdBls,          \* consensus key -> validator id (val_id_bls)
    del,               \* del[v][a]: the delegation of a to v
    withdrawals,       \* withdrawals[v][a][w]
    accs,              \* accs[v][e]: accumulator snapshots
    execution,         \* array of the execution set
    executionBits,     \* its membership bitset
    consensus, consensusView,
    snapshot, snapshotView,
    delegators,        \* delegators[v]: list of v's delegators
    delegations,       \* delegations[a]: list of a's validators
    wallet,            \* wallet[a]: balance of an account
    balance,           \* balance of the precompile's own account
    rewarded           \* history: rewards given to pools so far, which are bounded

clock == <<epoch, inBoundary>>
registry == <<lastValId, valIdSecp, valIdBls>>
ledger == <<val, del, withdrawals, accs>>
executionSet == <<execution, executionBits>>
epochSets == <<consensus, consensusView, snapshot, snapshotView>>
lists == <<delegators, delegations>>
money == <<wallet, balance>>

vars == <<clock, proposerValId, registry, ledger, executionSet, epochSets,
          lists, money, rewarded>>

-----------------------------------------------------------------------------

Exists(v) == v \in ValIds /\ val[v].auth # ZERO_ADDRESS

\* A slip: stake that comes after the snapshot counts in the next epoch.
NextEpoch == epoch + 1

ActivationEpoch == IF inBoundary THEN epoch + 2 ELSE epoch + 1

\* A slip: the boundary is not looked at.
ConsensusOnly(v) == consensusView[v]

\* The stake and commission rewards are computed with.
CurrentView(v) == IF inBoundary THEN snapshotView[v] ELSE consensusView[v]

\* The delegation of a to v, settled up to now.
Pulled(v, a) ==
    PullDelegatorUpToDate(Settlement(del[v][a], val[v].unclaimed, accs[v]),
                          val[v].acc, epoch)

Init ==
    /\ epoch = 0
    /\ inBoundary = FALSE
    /\ lastValId = 0
    /\ proposerValId = NO_VALIDATOR
    /\ val = [v \in ValIds |-> NoValidator]
    /\ valIdSecp = [a \in Addrs |-> NO_VALIDATOR]
    /\ valIdBls = [k \in BlsKeys |-> NO_VALIDATOR]
    /\ del = [v \in ValIds |-> [a \in Addrs |-> NoDelegator]]
    /\ withdrawals =
          [v \in ValIds |-> [a \in Addrs |-> [w \in WithdrawIds |-> NoWithdrawal]]]
    /\ accs = [v \in ValIds |-> [e \in Epochs |-> NoAccumulator]]
    /\ execution = <<>>
    /\ executionBits = {}
    /\ consensus = <<>>
    /\ consensusView = [v \in ValIds |-> NoView]
    /\ snapshot = <<>>
    /\ snapshotView = [v \in ValIds |-> NoView]
    /\ delegators =
          [v \in ValIds |-> EmptyList(Addrs \cup {SENTINEL_ADDRESS}, ZERO_ADDRESS)]
    /\ delegations =
          [a \in Addrs |-> EmptyList(ValIds \cup {SENTINEL_VAL_ID}, NO_VALIDATOR)]
    /\ wallet = [a \in Addrs |-> InitialFunds]
    /\ balance = 0
    /\ rewarded = 0

-----------------------------------------------------------------------------
(* Shared steps of the handlers.                                           *)

FlagsAfterDelegate(record, d, caller) ==
    record.flags
        \ ((IF record.stake >= ACTIVE_VALIDATOR_STAKE
            THEN {"STAKE_TOO_LOW"} ELSE {})
           \cup
           (IF caller = record.auth /\ TotalStake(d) >= MIN_AUTH_ADDRESS_STAKE
            THEN {"WITHDRAWN"} ELSE {}))

\* A slip: only the stake that is already active is compared.
FlagsIgnoringPending(record, d, caller) ==
    record.flags
        \cup (IF record.stake < ACTIVE_VALIDATOR_STAKE
              THEN {"STAKE_TOO_LOW"} ELSE {})
        \cup (IF caller = record.auth /\ d.stake < MIN_AUTH_ADDRESS_STAKE
              THEN {"WITHDRAWN"} ELSE {})

FlagsAfterUndelegate(record, d, caller) ==
    record.flags
        \cup (IF record.stake < ACTIVE_VALIDATOR_STAKE
              THEN {"STAKE_TOO_LOW"} ELSE {})
        \cup (IF caller = record.auth /\ TotalStake(d) < MIN_AUTH_ADDRESS_STAKE
              THEN {"WITHDRAWN"} ELSE {})

\* Whether the track new stake goes to has no stake pending in it yet.
TrackIsFree(d) ==
    IF inBoundary THEN d.nextDeltaEpoch = 0 ELSE d.deltaEpoch = 0

AddPending(d, amount) ==
    IF inBoundary
    THEN [d EXCEPT !.nextDeltaStake = @ + amount, !.nextDeltaEpoch = epoch + 2]
    ELSE [d EXCEPT !.deltaStake = @ + amount, !.deltaEpoch = epoch + 1]

(***************************************************************************)
(* internal_delegate: `record' is validator v as the handler has it and s  *)
(* the delegation it starts from.  The delegation is settled, the stake    *)
(* becomes pending, and the flags, the execution set and both lists        *)
(* follow.                                                                 *)
(***************************************************************************)
InternalDelegate(v, record, caller, amount, s) ==
    LET pulled  == PullDelegatorUpToDate(s, record.acc, epoch)
        d       == AddPending(pulled.del, amount)
        staked  == [record EXCEPT !.stake = @ + amount,
                                  !.unclaimed = pulled.unclaimed]
        flags   == FlagsAfterDelegate(staked, d, caller)
    IN  /\ pulled.ok
        /\ del' = [del EXCEPT ![v][caller] = d]
        /\ accs' = [accs EXCEPT ![v] =
              IF TrackIsFree(pulled.del)
              THEN IncrementRefcount(pulled.accs, ActivationEpoch, record.acc)
              ELSE pulled.accs]
        /\ val' = [val EXCEPT ![v] = [staked EXCEPT !.flags = flags]]
        /\ execution' = IF flags = {}
                        THEN AddToValset(execution, executionBits, v)
                        ELSE execution
        /\ executionBits' = IF flags = {} THEN executionBits \cup {v}
                            ELSE executionBits
        /\ delegators' = [delegators EXCEPT ![v] =
              LinkedListInsert(@, caller, SENTINEL_ADDRESS, ZERO_ADDRESS)]
        /\ delegations' = [delegations EXCEPT ![caller] =
              LinkedListInsert(@, v, SENTINEL_VAL_ID, NO_VALIDATOR)]

\* Write back a settled delegation and nothing else of the ledger.
Store(v, a, s, d) ==
    /\ del' = [del EXCEPT ![v][a] = d]
    /\ val' = [val EXCEPT ![v].unclaimed = s.unclaimed]
    /\ accs' = [accs EXCEPT ![v] = s.accs]
    /\ UNCHANGED withdrawals

\* Value sent with a call, and value the precompile pays out.
Pay(caller, value) ==
    /\ value <= wallet[caller]
    /\ wallet' = [wallet EXCEPT ![caller] = @ - value]
    /\ balance' = balance + value

PayOut(caller, value) ==
    /\ value <= balance
    /\ wallet' = [wallet EXCEPT ![caller] = @ + value]
    /\ balance' = balance - value

-----------------------------------------------------------------------------
(* Calls of users.                                                         *)

(***************************************************************************)
(* addValidator: any account may pay; the stake is delegated in the name   *)
(* of the auth address.  The secp lookup key is the auth address itself.   *)
(***************************************************************************)
HandleAddValidator(caller, auth, bls, commission, value) ==
    LET v == lastValId + 1
        record == [NoValidator EXCEPT !.commission = commission,
                                      !.auth = auth,
                                      !.flags = {"STAKE_TOO_LOW"}]
    IN  /\ v \in ValIds                              \* bound
        /\ value >= MIN_AUTH_ADDRESS_STAKE
        /\ commission <= MAX_COMMISSION
        /\ valIdSecp[auth] = NO_VALIDATOR
        /\ valIdBls[bls] = NO_VALIDATOR
        /\ lastValId' = v
        /\ valIdSecp' = [valIdSecp EXCEPT ![auth] = v]
        /\ valIdBls' = [valIdBls EXCEPT ![bls] = v]
        /\ Pay(caller, value)
        /\ InternalDelegate(v, record, auth, value,
                            Settlement(del[v][auth], 0, accs[v]))
        /\ UNCHANGED <<rewarded, clock, proposerValId, withdrawals, epochSets>>

\* delegate.  A call without value succeeds and does nothing.
HandleDelegate(v, caller, value) ==
    /\ Exists(v)
    /\ value >= DUST_THRESHOLD
    /\ Pay(caller, value)
    /\ InternalDelegate(v, val[v], caller, value,
                        Settlement(del[v][caller], val[v].unclaimed, accs[v]))
    /\ UNCHANGED <<rewarded, clock, proposerValId, registry, withdrawals, epochSets>>

\* A slip: the cursor is read after the delegation has been reset.
RequestAfterReset(pulled, d, amount) ==
    [amount |-> amount, acc |-> d.acc, epoch |-> ActivationEpoch]

\* The request remembers the cursor the stake had before it left.
UndelegateRequest(pulled, d, amount) ==
    [amount |-> amount, acc |-> pulled.acc, epoch |-> ActivationEpoch]

(***************************************************************************)
(* undelegate: only active stake can leave; what would remain below the    *)
(* dust threshold leaves with it.  The stake keeps earning, as a           *)
(* withdrawal, until the activation epoch.  The validator stays in the     *)
(* execution set until the next snapshot.                                  *)
(***************************************************************************)
HandleUndelegate(v, caller, asked, wid) ==
    LET s         == Pulled(v, caller)
        remaining == s.del.stake - asked
        amount    == IF remaining < DUST_THRESHOLD THEN s.del.stake ELSE asked
        d         == [s.del EXCEPT !.stake = @ - amount,
                                   !.acc = IF s.del.stake = amount THEN 0 ELSE @]
        staked    == [val[v] EXCEPT !.stake = @ - amount, !.unclaimed = s.unclaimed]
    IN  /\ asked # 0
        /\ Exists(v)
        /\ withdrawals[v][caller][wid].amount = 0
        /\ s.ok
        /\ asked <= s.del.stake
        /\ amount <= val[v].stake
        /\ del' = [del EXCEPT ![v][caller] = d]
        /\ val' = [val EXCEPT ![v] =
              [staked EXCEPT !.flags = FlagsAfterUndelegate(staked, d, caller)]]
        /\ withdrawals' = [withdrawals EXCEPT ![v][caller][wid] =
              UndelegateRequest(s.del, d, amount)]
        /\ accs' = [accs EXCEPT ![v] =
              IncrementRefcount(s.accs, ActivationEpoch, val[v].acc)]
        /\ delegators' = IF DelegatorExists(d) THEN delegators
              ELSE [delegators EXCEPT ![v] =
                       LinkedListRemove(@, caller, ZERO_ADDRESS)]
        /\ delegations' = IF DelegatorExists(d) THEN delegations
              ELSE [delegations EXCEPT ![caller] =
                       LinkedListRemove(@, v, NO_VALIDATOR)]
        /\ UNCHANGED <<rewarded, clock, proposerValId, registry, executionSet, epochSets,
                       money>>

WithdrawalRewards(v, r) ==
    CalculateRewards(r.amount, SnapshotValue(accs[v], r.epoch), r.acc)

\* A slip: paid as soon as the stake has stopped earning.
WithdrawalEarly(r) ==
    /\ r.amount # 0
    /\ IsEpochActive(epoch, r.epoch)

\* withdraw: one epoch after the withdrawn stake stopped earning.
WithdrawalReady(r) ==
    /\ r.amount # 0
    /\ IsEpochActive(epoch, r.epoch)
    /\ r.epoch + WITHDRAWAL_DELAY <= epoch

HandleWithdraw(v, caller, wid) ==
    LET r == withdrawals[v][caller][wid]
        rewards == WithdrawalRewards(v, r)
    IN  /\ WithdrawalReady(r)
        /\ r.acc <= SnapshotValue(accs[v], r.epoch)
        /\ rewards <= val[v].unclaimed
        /\ accs' = [accs EXCEPT ![v] = DecrementRefcount(@, r.epoch)]
        /\ val' = [val EXCEPT ![v].unclaimed = @ - rewards]
        /\ PayOut(caller, r.amount + rewards)
        /\ withdrawals' = [withdrawals EXCEPT ![v][caller][wid] = NoWithdrawal]
        /\ UNCHANGED <<rewarded, clock, proposerValId, registry, del, executionSet,
                       epochSets, lists>>

\* claimRewards.  With nothing to claim it only settles.
HandleClaimRewards(v, caller) ==
    LET s == Pulled(v, caller)
    IN  /\ s.ok
        /\ PayOut(caller, s.del.rewards)
        /\ Store(v, caller, s, [s.del EXCEPT !.rewards = 0])
        /\ UNCHANGED <<rewarded, clock, proposerValId, registry, executionSet, epochSets,
                       lists>>

(***************************************************************************)
(* compound: the rewards are delegated again, whatever their size.  The    *)
(* delegation is settled a second time on the way.                         *)
(***************************************************************************)
HandleCompound(v, caller) ==
    LET s == Pulled(v, caller)
        cleared == [s EXCEPT !.del.rewards = 0]
    IN  /\ s.ok
        /\ s.del.rewards # 0
        /\ InternalDelegate(v, val[v], caller, s.del.rewards, cleared)
        /\ UNCHANGED <<rewarded, clock, proposerValId, registry, withdrawals, epochSets,
                       money>>

\* getDelegator is a write: anyone settles any delegation.  A compound with
\* no rewards comes to the same.
HandleGetDelegator(v, a) ==
    LET s == Pulled(v, a)
    IN  /\ s.ok
        /\ Store(v, a, s, s.del)
        /\ UNCHANGED <<rewarded, clock, proposerValId, registry, executionSet, epochSets,
                       lists, money>>

HandleChangeCommission(v, caller, commission) ==
    /\ Exists(v)
    /\ caller = val[v].auth
    /\ commission <= MAX_COMMISSION
    /\ val' = [val EXCEPT ![v].commission = commission]
    /\ UNCHANGED <<rewarded, clock, proposerValId, registry, del, withdrawals, accs,
                   executionSet, epochSets, lists, money>>

\* What a reward adds to the accumulator of a pool of that stake.
PerToken(reward, stake) == (reward * UNIT_BIAS) \div stake

HandleExternalReward(v, caller, value) ==
    LET stake == CurrentView(v).stake
    IN  /\ Exists(v)
        /\ stake # 0
        /\ MIN_EXTERNAL_REWARD <= value
        /\ value <= MAX_EXTERNAL_REWARD
        /\ Pay(caller, value)
        /\ rewarded + value <= MaxRewards              \* bound
        /\ rewarded' = rewarded + value
        /\ val' = [val EXCEPT ![v].acc = @ + PerToken(value, stake),
                              ![v].unclaimed = @ + value]
        /\ UNCHANGED <<clock, proposerValId, registry, del, withdrawals, accs,
                       executionSet, epochSets, lists>>

-----------------------------------------------------------------------------
(* System calls.                                                           *)

\* A slip: the commission is read where changeCommission writes it.
DistributeByRecord(v, reward) ==
    LET commission == (reward * val[v].commission) \div MON
        shared     == reward - commission
        auth       == val[v].auth
    IN  /\ commission <= reward
        /\ del' = [del EXCEPT ![v][auth].rewards = @ + commission]
        /\ val' = [val EXCEPT ![v].unclaimed = @ + shared,
                              ![v].acc = @ + PerToken(shared, CurrentView(v).stake)]

\* The commission becomes rewards of the auth address, the rest is shared.
DistributeReward(v, reward) ==
    LET commission == (reward * CurrentView(v).commission) \div MON
        shared     == reward - commission
        auth       == val[v].auth
    IN  /\ commission <= reward
        /\ del' = [del EXCEPT ![v][auth].rewards = @ + commission]
        /\ val' = [val EXCEPT ![v].unclaimed = @ + shared,
                              ![v].acc = @ + PerToken(shared, CurrentView(v).stake)]

(***************************************************************************)
(* syscallReward.  The block executor mints the reward into the            *)
(* precompile's account before the call (api/block.rs).                    *)
(***************************************************************************)
HandleSyscallReward(blockAuthor, reward) ==
    LET v == valIdSecp[blockAuthor]
    IN  /\ v # NO_VALIDATOR
        /\ CurrentView(v).stake # 0
        /\ DistributeReward(v, reward)
        /\ proposerValId' = v
        /\ rewarded + reward <= MaxRewards             \* bound
        /\ rewarded' = rewarded + reward
        /\ balance' = balance + reward
        /\ UNCHANGED <<clock, registry, withdrawals, accs, executionSet,
                       epochSets, lists, wallet>>

Eligible == {v \in Members(execution) : val[v].flags = {}}

\* A slip: the views of those that leave the set stay.
RebuiltOver(old, oldView, set, view) ==
    [v \in ValIds |-> IF v \in Members(set) THEN view[v] ELSE oldView[v]]

\* The view of `set' with each member's entry in `view', zero for those that
\* were only in the set before, and untouched for everyone else.
Rebuilt(old, oldView, set, view) ==
    [v \in ValIds |-> IF v \in Members(set) THEN view[v]
                      ELSE IF v \in Members(old) THEN NoView
                      ELSE oldView[v]]

ExecutionView ==
    [v \in ValIds |-> [stake |-> val[v].stake, commission |-> val[v].commission]]

(***************************************************************************)
(* syscallSnapshot: the boundary opens, the consensus set becomes the      *)
(* snapshot set, the best of the execution set become the consensus set    *)
(* and the execution set is compacted.                                     *)
(***************************************************************************)
HandleSyscallSnapshot ==
    LET chosen == TopByStake(Eligible, [v \in ValIds |-> val[v].stake],
                             ACTIVE_VALSET_SIZE)
    IN  /\ ~inBoundary
        /\ inBoundary' = TRUE
        /\ snapshot' = consensus
        /\ snapshotView' = Rebuilt(snapshot, snapshotView, consensus, consensusView)
        /\ consensus' = chosen
        /\ consensusView' = Rebuilt(consensus, consensusView, chosen, ExecutionView)
        /\ execution' = CompactExecution(execution, Eligible)
        /\ executionBits' = executionBits \ (Members(execution) \ Eligible)
        /\ UNCHANGED <<rewarded, epoch, proposerValId, registry, ledger, lists, money>>

\* A slip: counted from the epoch that ends.
RefreshFromCurrent(next) ==
    [v \in ValIds |-> [e \in Epochs |->
        IF /\ v \in Members(snapshot)
           /\ e \in {epoch, epoch + 1}
           /\ accs[v][e].refcount > 0
        THEN [accs[v][e] EXCEPT !.value = val[v].acc]
        ELSE accs[v][e]]]

\* The snapshots for the epoch that starts and the one after it take the
\* accumulator of this moment, for the validators of the snapshot set.
RefreshAccumulators(next) ==
    [v \in ValIds |-> [e \in Epochs |->
        IF /\ v \in Members(snapshot)
           /\ e \in {next, next + 1}
           /\ accs[v][e].refcount > 0
        THEN [accs[v][e] EXCEPT !.value = val[v].acc]
        ELSE accs[v][e]]]

\* syscallOnEpochChange accepts any later epoch, in or out of the boundary.
HandleSyscallOnEpochChange(next) ==
    /\ next <= MaxEpoch                               \* bound
    /\ next > epoch
    /\ accs' = RefreshAccumulators(next)
    /\ inBoundary' = FALSE
    /\ epoch' = next
    /\ UNCHANGED <<rewarded, proposerValId, registry, val, del, withdrawals, executionSet,
                   epochSets, lists, money>>

-----------------------------------------------------------------------------

UserCall ==
    \E caller \in Addrs :
        \/ \E auth \in Addrs, bls \in BlsKeys, c \in Commissions,
              value \in DelegateAmounts :
                 HandleAddValidator(caller, auth, bls, c, value)
        \/ \E v \in ValIds :
              \/ \E value \in DelegateAmounts : HandleDelegate(v, caller, value)
              \/ \E amount \in UndelegateAmounts, wid \in WithdrawIds :
                    HandleUndelegate(v, caller, amount, wid)
              \/ \E wid \in WithdrawIds : HandleWithdraw(v, caller, wid)
              \/ HandleClaimRewards(v, caller)
              \/ HandleCompound(v, caller)
              \/ HandleGetDelegator(v, caller)
              \/ \E c \in Commissions : HandleChangeCommission(v, caller, c)
              \/ \E value \in ExternalRewards :
                    HandleExternalReward(v, caller, value)

BlockCall ==
    \/ \E author \in Addrs, reward \in BlockRewards :
          HandleSyscallReward(author, reward)
    \/ HandleSyscallSnapshot

(***************************************************************************)
(* The lifecycle the README documents: an epoch changes at the end of a    *)
(* boundary, and epochs are numbered one after the other.                  *)
(***************************************************************************)
EpochBoundary ==
    /\ inBoundary
    /\ HandleSyscallOnEpochChange(epoch + 1)

Next == UserCall \/ BlockCall \/ EpochBoundary

Spec == Init /\ [][Next]_vars

\* Every order of system calls the precompile accepts.
AnyOrderNext ==
    \/ UserCall
    \/ BlockCall
    \/ \E next \in 1 .. MaxEpoch : HandleSyscallOnEpochChange(next)

AnyOrderSpec == Init /\ [][AnyOrderNext]_vars
=============================================================================
