------------------------ MODULE StakingRewardProofs ------------------------
(***************************************************************************)
(* The reward accounting of the staking precompile, for every value of the *)
(* constants under the documented epoch lifecycle: rewards are divided by  *)
(* the stake that earns them, the pools cover all claims together, and     *)
(* nobody's claim can fail or shrink.                                      *)
(*                                                                         *)
(* What somebody is owed is counted before the division that rounds it     *)
(* down (Owed): that is linear in stake and accumulator, so that settling  *)
(* moves it exactly, while what is paid is never more (Pays).  A pool      *)
(* covers a debt (Covered) step by step: whatever a step takes out of it   *)
(* is no longer owed after it (Backed).                                    *)
(***************************************************************************)
EXTENDS StakingProofs

-----------------------------------------------------------------------------
(* The stake that earns, under the documented lifecycle.                   *)

\* Settling activates what has become active anyway.
SameActive(d, f) == \A e \in Nat : e >= epoch => ActiveIn(f, e) = ActiveIn(d, e)

\* Compounding a due stake moves it to the active one: whatever is active
\* from now on stays.
LEMMA CompoundKeepsActive ==
    ASSUME NEW s \in RunningSettlement, s.del.deltaEpoch \in Epochs, epoch \in Nat,
           IsEpochActive(epoch, s.del.deltaEpoch)
    PROVE  SameActive(s.del, ApplyCompound(s).del)
<1> DEFINE t == ApplyCompound(s)
<1>1. /\ t \in RunningSettlement
      /\ TotalStake(t.del) = TotalStake(s.del)
      /\ t.del.deltaEpoch = s.del.nextDeltaEpoch
      /\ t.del.deltaStake = s.del.nextDeltaStake
      /\ t.del.nextDeltaEpoch = 0
      /\ t.del.nextDeltaStake = 0
  BY ApplyCompoundSettles DEF Settles
<1> HIDE DEF t
<1>2. s.del \in RunningDelegator /\ t.del \in RunningDelegator
  BY <1>1 DEF RunningSettlement
<1>3. t.del.stake = s.del.stake + s.del.deltaStake
  <2>1. /\ s.del.stake \in Int /\ s.del.deltaStake \in Int
        /\ s.del.nextDeltaStake \in Int /\ t.del.stake \in Int
    BY <1>2 DEF RunningDelegator
  <2>2. t.del.stake + s.del.nextDeltaStake + 0
            = s.del.stake + s.del.deltaStake + s.del.nextDeltaStake
    BY <1>1 DEF TotalStake
  <2> QED
    BY ONLY <2>1, <2>2
<1>4. ASSUME NEW e \in Nat, e >= epoch
      PROVE  ActiveIn(t.del, e) = ActiveIn(s.del, e)
  <2>1. IsEpochActive(e, s.del.deltaEpoch) /\ ~IsEpochActive(e, 0)
    BY <1>2, <1>4 DEF IsEpochActive, RunningDelegator
  <2>2. ActiveIn(s.del, e) = s.del.stake + s.del.deltaStake
            + (IF IsEpochActive(e, s.del.nextDeltaEpoch) THEN s.del.nextDeltaStake ELSE 0)
    BY <2>1 DEF ActiveIn
  <2>3. ActiveIn(t.del, e) = t.del.stake
            + (IF IsEpochActive(e, s.del.nextDeltaEpoch) THEN s.del.nextDeltaStake ELSE 0)
            + 0
    BY <1>1, <2>1 DEF ActiveIn
  <2> QED
    BY <1>2, <1>3, <2>2, <2>3 DEF RunningDelegator
<1> QED
  BY <1>4 DEF t, SameActive

\* Settling changes nothing about how much is active in this epoch and the
\* later ones.
LEMMA PullKeepsActive ==
    ASSUME NEW s \in RunningSettlement, NEW valAcc \in Nat,
           epoch \in 0 .. MaxEpoch, inBoundary \in BOOLEAN, PendingInWindow(s.del)
    PROVE  SameActive(s.del, PullDelegatorUpToDate(s, valAcc, epoch).del)
<1> DEFINE p == [s EXCEPT !.del = PromoteNext(@, epoch)]
           one == IsEpochActive(epoch, p.del.deltaEpoch)
           two == IsEpochActive(epoch, p.del.nextDeltaEpoch)
           b == IF two THEN ApplyCompound(p) ELSE p
           c == IF one THEN ApplyCompound(b) ELSE b
           t == IF c.del.stake = 0 THEN c ELSE Credit(c, valAcc)
<1>1. MaxEpoch \in Nat /\ epoch \in Nat
  BY StakingAssumption
<1>2. /\ p \in RunningSettlement
      /\ PendingInWindow(p.del)
      /\ p.del.deltaEpoch = 0 =>
            p.del.nextDeltaEpoch = 0 \/ p.del.nextDeltaEpoch > epoch + 1
  BY <1>1, PromoteNextSettles DEF Settles
<1>3. PullDelegatorUpToDate(s, valAcc, epoch) = t
  BY Zenon DEF PullDelegatorUpToDate
<1>4. SameActive(s.del, p.del)
  <2>1. p.del = PromoteNext(s.del, epoch) /\ s.del \in RunningDelegator
    BY DEF RunningSettlement
  <2> HIDE DEF p
  <2>2. CASE s.del.deltaEpoch = 0 /\ s.del.nextDeltaEpoch # 0
             /\ s.del.nextDeltaEpoch <= epoch + 1
    <3>1. /\ p.del.stake = s.del.stake
          /\ p.del.deltaStake = s.del.nextDeltaStake
          /\ p.del.deltaEpoch = s.del.nextDeltaEpoch
          /\ p.del.nextDeltaEpoch = 0
      BY <2>1, <2>2 DEF PromoteNext, RunningDelegator
    <3> QED
      BY <1>1, <2>1, <2>2, <3>1 DEF SameActive, ActiveIn, IsEpochActive, RunningDelegator
  <2>3. CASE ~(s.del.deltaEpoch = 0 /\ s.del.nextDeltaEpoch # 0
               /\ s.del.nextDeltaEpoch <= epoch + 1)
    <3>1. p.del = s.del
      BY <2>1, <2>3 DEF PromoteNext
    <3> QED
      BY <3>1 DEF SameActive
  <2> QED
    BY <2>2, <2>3
<1> HIDE DEF p
<1>5. /\ p.del.deltaEpoch \in Nat /\ p.del.nextDeltaEpoch \in Nat
      /\ p.del.deltaStake \in Nat /\ p.del.nextDeltaStake \in Nat
  BY <1>2 DEF RunningSettlement, RunningDelegator
<1>6. c \in RunningSettlement /\ SameActive(p.del, c.del)
  <2>1. CASE ~one
    <3>1. ~two
      BY <1>1, <1>2, <1>5, <2>1 DEF IsEpochActive, PendingInWindow
    <3>2. c = p
      BY <2>1, <3>1
    <3> QED
      BY <1>2, <3>2 DEF SameActive
  <2>2. CASE one /\ ~two
    <3>1. c = ApplyCompound(p)
      BY <2>2
    <3>2. p.del.deltaEpoch \in Epochs
      BY <1>1, <1>5, <2>2 DEF IsEpochActive, Epochs
    <3>3. c \in RunningSettlement
      BY <1>2, <3>1, <3>2, ApplyCompoundSettles DEF Settles
    <3> QED
      BY <1>1, <1>2, <2>2, <3>1, <3>2, <3>3, CompoundKeepsActive
  <2>3. CASE one /\ two
    <3>1. b = ApplyCompound(p) /\ c = ApplyCompound(b)
      BY <2>3
    <3>2. p.del.deltaEpoch \in Epochs /\ p.del.nextDeltaEpoch \in Epochs
      BY <1>1, <1>5, <2>3 DEF IsEpochActive, Epochs
    <3> HIDE DEF b, c
    <3>3. b \in RunningSettlement /\ b.del.deltaEpoch = p.del.nextDeltaEpoch
      BY <1>2, <3>1, <3>2, ApplyCompoundSettles DEF Settles
    <3>4. SameActive(p.del, b.del)
      BY <1>1, <1>2, <2>3, <3>1, <3>2, CompoundKeepsActive
    <3>5. c \in RunningSettlement
      BY <3>1, <3>2, <3>3, ApplyCompoundSettles DEF Settles
    <3>6. SameActive(b.del, c.del)
      BY <1>1, <2>3, <3>1, <3>2, <3>3, CompoundKeepsActive
    <3> QED
      BY <3>4, <3>5, <3>6 DEF SameActive
  <2> QED
    BY <2>1, <2>2, <2>3
<1> HIDE DEF c
<1>7. SameActive(c.del, t.del)
  <2>1. CASE c.del.stake = 0
    BY <2>1 DEF SameActive
  <2>2. CASE c.del.stake # 0
    <3>1. /\ t.del.stake = c.del.stake
          /\ t.del.deltaStake = c.del.deltaStake
          /\ t.del.nextDeltaStake = c.del.nextDeltaStake
          /\ t.del.deltaEpoch = c.del.deltaEpoch
          /\ t.del.nextDeltaEpoch = c.del.nextDeltaEpoch
      BY <1>6, <2>2, CreditFields
    <3> HIDE DEF t
    <3> QED
      BY <3>1 DEF SameActive, ActiveIn
  <2> QED
    BY <2>1, <2>2
<1> HIDE DEF t
<1> QED
  BY <1>3, <1>4, <1>6, <1>7 DEF SameActive

(***************************************************************************)
(* The epochs whose earning stake is decided: what is delegated now earns  *)
(* later, and what leaves now earns until they are over.                   *)
(***************************************************************************)
Decided == {e \in Nat : epoch <= e /\ e < ActivationEpoch}

Earns(r, e) == IF r.epoch > e THEN r.amount ELSE 0

Actives(D, v, e) == [a \in Addrs |-> ActiveIn(D[v][a], e)]

Earnings(W, v, e) == [r \in Addrs \X WithdrawIds |-> Earns(W[v][r[1]][r[2]], e)]

EarningOf(D, W, v, e) ==
    SumFunction(Actives(D, v, e)) + SumFunction(Earnings(W, v, e))

EarningKept ==
    \A v \in ValIds, e \in Decided :
        EarningOf(del', withdrawals', v, e) = EarningOf(del, withdrawals, v, e)

\* Nothing moves between those epochs and later ones.
SameActives ==
    \A v \in ValIds, a \in Addrs, e \in Decided :
        ActiveIn(del'[v][a], e) = ActiveIn(del[v][a], e)

SameEarnings ==
    \A v \in ValIds, a \in Addrs, w \in WithdrawIds, e \in Decided :
        Earns(withdrawals'[v][a][w], e) = Earns(withdrawals[v][a][w], e)

\* When no summand changes, neither does what earns.
LEMMA SameSummandsKeepEarning ==
    ASSUME SameActives, SameEarnings
    PROVE  EarningKept
<1> SUFFICES ASSUME NEW v \in ValIds, NEW e \in Decided
             PROVE  EarningOf(del', withdrawals', v, e)
                       = EarningOf(del, withdrawals, v, e)
  BY DEF EarningKept
<1>1. Actives(del', v, e) = Actives(del, v, e)
  BY DEF SameActives, Actives
<1>2. Earnings(withdrawals', v, e) = Earnings(withdrawals, v, e)
  BY DEF SameEarnings, Earnings
<1> QED
  BY <1>1, <1>2, Zenon DEF EarningOf

\* One delegation replaced.
LEMMA DelegationReplacedActives ==
    ASSUME TypeOK, NEW v \in ValIds, NEW a \in Addrs, NEW d,
           del' = [del EXCEPT ![v][a] = d],
           \A e \in Decided : ActiveIn(d, e) = ActiveIn(del[v][a], e)
    PROVE  SameActives
<1>1. del \in [ValIds -> [Addrs -> Delegator]]
  BY DEF TypeOK
<1>2. \A u \in ValIds, b \in Addrs :
          del'[u][b] = del[u][b] \/ (u = v /\ b = a /\ del'[u][b] = d)
  BY <1>1
<1>3. ASSUME NEW u \in ValIds, NEW b \in Addrs, NEW e \in Decided
      PROVE  ActiveIn(del'[u][b], e) = ActiveIn(del[u][b], e)
  <2>1. CASE del'[u][b] = del[u][b]
    BY <2>1
  <2>2. CASE u = v /\ b = a /\ del'[u][b] = d
    BY <2>2
  <2> QED
    BY <1>2, <2>1, <2>2
<1> QED
  BY <1>3 DEF SameActives

\* Pending stake counts in none of them.
LEMMA AddPendingActive ==
    ASSUME NEW d \in Delegator, NEW amount, epoch \in Nat, inBoundary \in BOOLEAN,
           d.deltaEpoch \in {0, epoch + 1}, d.nextDeltaEpoch \in {0, epoch + 2},
           NEW e \in Decided
    PROVE  ActiveIn(AddPending(d, amount), e) = ActiveIn(d, e)
<1>1. CASE inBoundary
  <2> DEFINE sum == d.nextDeltaStake + amount
             t == [d EXCEPT !.nextDeltaStake = sum, !.nextDeltaEpoch = epoch + 2]
  <2>1. AddPending(d, amount) = t
    BY <1>1 DEF AddPending
  <2> HIDE DEF sum
  <2>2. /\ t.stake = d.stake /\ t.deltaStake = d.deltaStake
        /\ t.deltaEpoch = d.deltaEpoch /\ t.nextDeltaEpoch = epoch + 2
    BY DEF Delegator
  <2> HIDE DEF t
  <2>3. ~IsEpochActive(e, epoch + 2) /\ ~IsEpochActive(e, d.nextDeltaEpoch)
    BY <1>1 DEF Decided, ActivationEpoch, IsEpochActive
  <2> QED
    BY <2>1, <2>2, <2>3 DEF ActiveIn
<1>2. CASE ~inBoundary
  <2> DEFINE sum == d.deltaStake + amount
             t == [d EXCEPT !.deltaStake = sum, !.deltaEpoch = epoch + 1]
  <2>1. AddPending(d, amount) = t
    BY <1>2 DEF AddPending
  <2> HIDE DEF sum
  <2>2. /\ t.stake = d.stake /\ t.deltaEpoch = epoch + 1
        /\ t.nextDeltaStake = d.nextDeltaStake /\ t.nextDeltaEpoch = d.nextDeltaEpoch
    BY DEF Delegator
  <2> HIDE DEF t
  <2>3. ~IsEpochActive(e, epoch + 1) /\ ~IsEpochActive(e, d.deltaEpoch)
    BY <1>2 DEF Decided, ActivationEpoch, IsEpochActive
  <2> QED
    BY <2>1, <2>2, <2>3 DEF ActiveIn
<1> QED
  BY <1>1, <1>2

\* What internal_delegate adds is due after every epoch that is decided.
LEMMA DelegateKeepsEarning ==
    ASSUME Inv, NEW v \in ValIds, NEW caller \in Addrs, NEW record \in Validator,
           NEW amount, NEW s, Ready(s),
           InternalDelegate(v, record, caller, amount, s),
           withdrawals' = withdrawals, SameActive(del[v][caller], s.del)
    PROVE  EarningKept
<1> DEFINE pulled == PullDelegatorUpToDate(s, record.acc, epoch)
           d == AddPending(pulled.del, amount)
<1>1. /\ epoch \in 0 .. MaxEpoch /\ epoch \in Nat /\ inBoundary \in BOOLEAN /\ TypeOK
      /\ record.acc \in Nat
  BY StakingAssumption DEF Inv, TypeOK, Validator
<1>2. s \in RunningSettlement /\ Solvent(s) /\ PendingInWindow(s.del)
  BY DEF Ready
<1>3. /\ Settles(s, pulled)
      /\ pulled.del.deltaEpoch \in {0, epoch + 1}
      /\ pulled.del.nextDeltaEpoch \in {0, epoch + 2}
  BY <1>1, <1>2, PullSettles
<1>4. SameActive(s.del, pulled.del)
  BY <1>1, <1>2, PullKeepsActive
<1>5. /\ pulled.ok
      /\ del' = [del EXCEPT ![v][caller] = d]
  BY Zenon DEF InternalDelegate
<1> HIDE DEF pulled
<1>6. pulled.del \in Delegator
  <2>1. pulled \in RunningSettlement /\ Solvent(pulled)
    BY <1>2, <1>3 DEF Settles
  <2>2. pulled.ok = TRUE
    BY <1>5, <2>1 DEF RunningSettlement
  <2> QED
    BY <2>1, <2>2, SuccessType
<1>7. ASSUME NEW e \in Decided
      PROVE  ActiveIn(d, e) = ActiveIn(del[v][caller], e)
  <2>1. ActiveIn(d, e) = ActiveIn(pulled.del, e)
    BY <1>1, <1>3, <1>6, AddPendingActive
  <2>2. e \in Nat /\ e >= epoch
    BY <1>1 DEF Decided
  <2> QED
    BY <1>4, <2>1, <2>2 DEF SameActive
<1> HIDE DEF d
<1>8. SameActives
  BY <1>1, <1>5, <1>7, DelegationReplacedActives
<1>9. SameEarnings
  BY DEF SameEarnings
<1> QED
  BY <1>8, <1>9, SameSummandsKeepEarning

\* The same of a delegation in storage.
LEMMA PulledKeepsActive ==
    ASSUME Inv, NEW v \in ValIds, NEW a \in Addrs
    PROVE  SameActive(del[v][a], Pulled(v, a).del)
<1> DEFINE start == Settlement(del[v][a], val[v].unclaimed, accs[v])
<1>1. /\ del[v][a] \in Delegator
      /\ val[v].unclaimed \in Nat /\ val[v].acc \in Nat
      /\ accs[v] \in Accumulators
      /\ epoch \in 0 .. MaxEpoch /\ inBoundary \in BOOLEAN
      /\ PendingInWindow(del[v][a])
  BY DEF Inv, TypeOK, Validator, Accumulators, PendingWindow
<1>2. start \in RunningSettlement /\ start.del = del[v][a]
  BY <1>1, SettlementType
<1>3. Pulled(v, a) = PullDelegatorUpToDate(start, val[v].acc, epoch)
  BY DEF Pulled
<1> HIDE DEF start
<1> QED
  BY <1>1, <1>2, <1>3, PullKeepsActive

\* A new validator's first stake is due after every epoch that is decided.
LEMMA AddValidatorKeepsEarning ==
    ASSUME Inv, NEW caller \in Addrs, NEW auth \in Addrs, NEW bls \in BlsKeys,
           NEW commission \in Commissions, NEW value \in DelegateAmounts,
           HandleAddValidator(caller, auth, bls, commission, value)
    PROVE  EarningKept
<1> DEFINE v == lastValId + 1
           record == [NoValidator EXCEPT !.commission = commission,
                                         !.auth = auth,
                                         !.flags = {"STAKE_TOO_LOW"}]
           s == Settlement(del[v][auth], 0, accs[v])
<1>1. /\ v \in ValIds
      /\ InternalDelegate(v, record, auth, value, s)
      /\ withdrawals' = withdrawals
  BY Zenon DEF HandleAddValidator
<1>2. commission \in Nat
  BY StakingAssumption
<1> HIDE DEF v
<1>3. record \in Validator
  BY <1>2 DEF NoValidator, Validator, Flags
<1>4. /\ del[v][auth] \in Delegator /\ accs[v] \in Accumulators
      /\ PendingInWindow(del[v][auth])
  BY <1>1 DEF Inv, TypeOK, PendingWindow, Accumulators
<1>5. /\ s \in RunningSettlement /\ Solvent(s) /\ s.ok = TRUE
      /\ s.del = del[v][auth]
  BY <1>4, 0 \in Nat, SettlementType
<1> HIDE DEF record, s
<1>6. Ready(s) /\ SameActive(del[v][auth], s.del)
  BY <1>4, <1>5 DEF Ready, SameActive
<1> QED
  BY <1>1, <1>3, <1>6, DelegateKeepsEarning

\* So is what delegate adds.
LEMMA DelegateCallKeepsEarning ==
    ASSUME Inv, NEW v \in ValIds, NEW caller \in Addrs,
           NEW value \in DelegateAmounts, HandleDelegate(v, caller, value)
    PROVE  EarningKept
<1> DEFINE s == Settlement(del[v][caller], val[v].unclaimed, accs[v])
<1>1. /\ InternalDelegate(v, val[v], caller, value, s)
      /\ withdrawals' = withdrawals
  BY Zenon DEF HandleDelegate
<1>2. /\ del[v][caller] \in Delegator /\ accs[v] \in Accumulators
      /\ PendingInWindow(del[v][caller])
      /\ val[v] \in Validator /\ val[v].unclaimed \in Nat
  BY DEF Inv, TypeOK, PendingWindow, Accumulators, Validator
<1>3. /\ s \in RunningSettlement /\ Solvent(s) /\ s.ok = TRUE
      /\ s.del = del[v][caller]
  BY <1>2, SettlementType
<1> HIDE DEF s
<1>4. Ready(s) /\ SameActive(del[v][caller], s.del)
  BY <1>2, <1>3 DEF Ready, SameActive
<1> QED
  BY <1>1, <1>2, <1>4, DelegateKeepsEarning

\* So is what compound stakes again.
LEMMA CompoundKeepsEarning ==
    ASSUME Inv, NEW v \in ValIds, NEW caller \in Addrs, HandleCompound(v, caller)
    PROVE  EarningKept
<1> DEFINE s == Pulled(v, caller)
           cleared == [s EXCEPT !.del.rewards = 0]
           amount == s.del.rewards
<1>1. /\ s.ok
      /\ InternalDelegate(v, val[v], caller, amount, cleared)
      /\ withdrawals' = withdrawals
  BY Zenon DEF HandleCompound
<1>2. val[v] \in Validator
  BY DEF Inv, TypeOK
<1>3. /\ s \in RunningSettlement /\ Solvent(s) /\ s.ok = TRUE
      /\ PendingInWindow(s.del)
  BY <1>1, PulledFacts
<1>4. SameActive(del[v][caller], s.del)
  BY PulledKeepsActive
<1> HIDE DEF s
<1>5. /\ cleared \in RunningSettlement
      /\ cleared.ok = s.ok
      /\ cleared.unclaimed = s.unclaimed
      /\ cleared.del.rewards = 0
      /\ cleared.del.stake = s.del.stake
      /\ cleared.del.deltaStake = s.del.deltaStake
      /\ cleared.del.nextDeltaStake = s.del.nextDeltaStake
      /\ cleared.del.deltaEpoch = s.del.deltaEpoch
      /\ cleared.del.nextDeltaEpoch = s.del.nextDeltaEpoch
  BY <1>3 DEF RunningSettlement, RunningDelegator
<1> HIDE DEF cleared, amount
<1>6. Ready(cleared)
  BY <1>3, <1>5 DEF Ready, Solvent, PendingInWindow
<1>7. SameActive(del[v][caller], cleared.del)
  BY <1>4, <1>5 DEF SameActive, ActiveIn
<1> QED
  BY <1>1, <1>2, <1>6, <1>7, DelegateKeepsEarning

\* claimRewards and getDelegator settle, and settling keeps what is active.
LEMMA SettlingKeepsEarning ==
    ASSUME Inv, NEW v \in ValIds, NEW a \in Addrs,
           HandleClaimRewards(v, a) \/ HandleGetDelegator(v, a)
    PROVE  EarningKept
<1> DEFINE s == Pulled(v, a)
           claimed == [s.del EXCEPT !.rewards = 0]
<1>1. s.ok /\ (Store(v, a, s, claimed) \/ Store(v, a, s, s.del))
  BY DEF HandleClaimRewards, HandleGetDelegator
<1>2. s.del \in Delegator
  BY <1>1, PulledFacts
<1>3. SameActive(del[v][a], s.del)
  BY PulledKeepsActive
<1> HIDE DEF s
<1>4. /\ claimed.stake = s.del.stake
      /\ claimed.deltaStake = s.del.deltaStake
      /\ claimed.nextDeltaStake = s.del.nextDeltaStake
      /\ claimed.deltaEpoch = s.del.deltaEpoch
      /\ claimed.nextDeltaEpoch = s.del.nextDeltaEpoch
  BY <1>2 DEF Delegator
<1> HIDE DEF claimed
<1>5. epoch \in Int /\ TypeOK
  BY DEF Inv, TypeOK
<1>6. \A e \in Decided : /\ ActiveIn(s.del, e) = ActiveIn(del[v][a], e)
                         /\ ActiveIn(claimed, e) = ActiveIn(del[v][a], e)
  BY <1>3, <1>4, <1>5 DEF Decided, SameActive, ActiveIn
<1>7. SameActives /\ SameEarnings
  <2>1. CASE Store(v, a, s, claimed)
    BY <1>5, <1>6, <2>1, DelegationReplacedActives DEF Store, SameEarnings
  <2>2. CASE Store(v, a, s, s.del)
    <3>1. del' = [del EXCEPT ![v][a] = s.del] /\ withdrawals' = withdrawals
      BY <2>2 DEF Store
    <3>2. \A e \in Decided : ActiveIn(s.del, e) = ActiveIn(del[v][a], e)
      BY <1>6
    <3> DEFINE d == s.del
    <3> HIDE DEF d
    <3>3. SameActives
      <4>1. del' = [del EXCEPT ![v][a] = d]
        BY <3>1 DEF d
      <4>2. \A e \in Decided : ActiveIn(d, e) = ActiveIn(del[v][a], e)
        BY <3>2 DEF d
      <4> QED
        BY <1>5, <4>1, <4>2, DelegationReplacedActives
    <3> QED
      BY <3>1, <3>3 DEF SameEarnings
  <2> QED
    BY <1>1, <2>1, <2>2
<1> QED
  BY <1>7, SameSummandsKeepEarning

\* A request that is paid has stopped earning.
LEMMA WithdrawKeepsEarning ==
    ASSUME Inv, NEW v \in ValIds, NEW caller \in Addrs, NEW wid \in WithdrawIds,
           HandleWithdraw(v, caller, wid)
    PROVE  EarningKept
<1> DEFINE r == withdrawals[v][caller][wid]
<1>1. /\ IsEpochActive(epoch, r.epoch)
      /\ withdrawals' = [withdrawals EXCEPT ![v][caller][wid] = NoWithdrawal]
      /\ del' = del
  BY DEF HandleWithdraw, WithdrawalReady
<1>2. /\ withdrawals \in [ValIds -> [Addrs -> [WithdrawIds -> WithdrawalRequest]]]
      /\ epoch \in Int
  BY DEF Inv, TypeOK
<1>3. r.epoch \in Int
  BY <1>2 DEF WithdrawalRequest
<1>4. ASSUME NEW e \in Decided
      PROVE  Earns(NoWithdrawal, e) = 0 /\ Earns(r, e) = 0
  BY <1>1, <1>2, <1>3 DEF Decided, Earns, NoWithdrawal, IsEpochActive
<1>5. \A u \in ValIds, b \in Addrs, z \in WithdrawIds :
          withdrawals'[u][b][z] = withdrawals[u][b][z]
          \/ (u = v /\ b = caller /\ z = wid /\ withdrawals'[u][b][z] = NoWithdrawal)
  BY <1>1, <1>2
<1>6. ASSUME NEW u \in ValIds, NEW b \in Addrs, NEW z \in WithdrawIds, NEW e \in Decided
      PROVE  Earns(withdrawals'[u][b][z], e) = Earns(withdrawals[u][b][z], e)
  <2>1. CASE withdrawals'[u][b][z] = withdrawals[u][b][z]
    BY <2>1
  <2>2. CASE u = v /\ b = caller /\ z = wid /\ withdrawals'[u][b][z] = NoWithdrawal
    BY <1>4, <2>2
  <2> QED
    BY <1>5, <2>1, <2>2
<1>7. SameActives /\ SameEarnings
  BY <1>1, <1>6 DEF SameActives, SameEarnings
<1> QED
  BY <1>7, SameSummandsKeepEarning

\* syscallReward touches no delegation and no withdrawal.
LEMMA SyscallRewardKeepsEarning ==
    ASSUME Inv, NEW author \in Addrs, NEW reward \in BlockRewards,
           HandleSyscallReward(author, reward)
    PROVE  EarningKept
<1> DEFINE v == valIdSecp[author]
           auth == val[v].auth
           commission == (reward * CurrentView(v).commission) \div MON
<1>1. /\ del' = [del EXCEPT ![v][auth].rewards = @ + commission]
      /\ withdrawals' = withdrawals
  BY DEF HandleSyscallReward, DistributeReward
<1>2. del \in [ValIds -> [Addrs -> Delegator]]
  BY DEF Inv, TypeOK
<1> HIDE DEF v, auth, commission
<1>3. \A u \in ValIds, b \in Addrs :
              /\ del'[u][b].stake = del[u][b].stake
              /\ del'[u][b].deltaStake = del[u][b].deltaStake
              /\ del'[u][b].nextDeltaStake = del[u][b].nextDeltaStake
              /\ del'[u][b].deltaEpoch = del[u][b].deltaEpoch
              /\ del'[u][b].nextDeltaEpoch = del[u][b].nextDeltaEpoch
  BY <1>1, <1>2 DEF Delegator
<1>4. SameActives
  BY <1>3 DEF SameActives, ActiveIn
<1>5. SameEarnings
  BY <1>1 DEF SameEarnings
<1> QED
  BY <1>4, <1>5, SameSummandsKeepEarning

\* Nor do the calls that neither settle nor stake.
LEMMA OtherCallsKeepEarning ==
    ASSUME \/ \E v \in ValIds, caller \in Addrs, c \in Commissions :
                 HandleChangeCommission(v, caller, c)
           \/ \E v \in ValIds, caller \in Addrs, value \in ExternalRewards :
                 HandleExternalReward(v, caller, value)
           \/ HandleSyscallSnapshot
           \/ \E next \in 1 .. MaxEpoch : HandleSyscallOnEpochChange(next)
           \/ UNCHANGED vars
    PROVE  EarningKept
<1>1. del' = del /\ withdrawals' = withdrawals
  BY DEF HandleChangeCommission, HandleExternalReward, HandleSyscallSnapshot,
         HandleSyscallOnEpochChange, vars, ledger
<1>2. SameActives /\ SameEarnings
  BY <1>1 DEF SameActives, SameEarnings
<1> QED
  BY <1>2, SameSummandsKeepEarning

\* The summands are integers.
LEMMA EarningTypes ==
    ASSUME NEW D \in [ValIds -> [Addrs -> Delegator]],
           NEW W \in [ValIds -> [Addrs -> [WithdrawIds -> WithdrawalRequest]]],
           NEW v \in ValIds, NEW e
    PROVE  /\ Actives(D, v, e) \in [Addrs -> Int]
           /\ Earnings(W, v, e) \in [Addrs \X WithdrawIds -> Int]
<1>1. \A a \in Addrs : ActiveIn(D[v][a], e) \in Int
  <2> TAKE a \in Addrs
  <2>1. /\ D[v][a].stake \in Int /\ D[v][a].deltaStake \in Int
        /\ D[v][a].nextDeltaStake \in Int
    BY DEF Delegator
  <2> QED
    BY <2>1 DEF ActiveIn
<1>2. \A a \in Addrs, w \in WithdrawIds : Earns(W[v][a][w], e) \in Int
  BY DEF WithdrawalRequest, Earns
<1> QED
  BY <1>1, <1>2 DEF Actives, Earnings

\* What leaves a delegation goes on earning as a withdrawal.
LEMMA UndelegateKeepsEarning ==
    ASSUME Inv, Inv', NEW v \in ValIds, NEW caller \in Addrs,
           NEW asked \in UndelegateAmounts, NEW wid \in WithdrawIds,
           HandleUndelegate(v, caller, asked, wid)
    PROVE  /\ EarningKept
           /\ \E r \in WithdrawalRequest :
                 /\ r.epoch = ActivationEpoch
                 /\ withdrawals' = [withdrawals EXCEPT ![v][caller][wid] = r]
<1> DEFINE s         == Pulled(v, caller)
           remaining == s.del.stake - asked
           amount    == IF remaining < DUST_THRESHOLD THEN s.del.stake ELSE asked
           left      == s.del.stake - amount
           acc       == IF s.del.stake = amount THEN 0 ELSE s.del.acc
           d         == [s.del EXCEPT !.stake = left, !.acc = acc]
           r         == UndelegateRequest(s.del, d, amount)
           old       == withdrawals[v][caller][wid]
<1>1. /\ s.ok
      /\ asked <= s.del.stake
      /\ old.amount = 0
      /\ del' = [del EXCEPT ![v][caller] = d]
      /\ withdrawals' = [withdrawals EXCEPT ![v][caller][wid] = r]
  BY DEF HandleUndelegate
<1>2. /\ epoch \in 0 .. MaxEpoch /\ epoch \in Nat /\ inBoundary \in BOOLEAN
      /\ del \in [ValIds -> [Addrs -> Delegator]]
      /\ del' \in [ValIds -> [Addrs -> Delegator]]
      /\ withdrawals \in [ValIds -> [Addrs -> [WithdrawIds -> WithdrawalRequest]]]
      /\ withdrawals' \in [ValIds -> [Addrs -> [WithdrawIds -> WithdrawalRequest]]]
  BY StakingAssumption DEF Inv, TypeOK
<1>3. s.del \in Delegator
  BY <1>1, PulledFacts
<1>4. SameActive(del[v][caller], s.del)
  BY PulledKeepsActive
<1> HIDE DEF s, old
<1>5. amount \in Int
  BY <1>3, StakingAssumption DEF Delegator
<1> HIDE DEF amount, acc
<1>6. /\ d.stake = left
      /\ d.deltaStake = s.del.deltaStake /\ d.deltaEpoch = s.del.deltaEpoch
      /\ d.nextDeltaStake = s.del.nextDeltaStake
      /\ d.nextDeltaEpoch = s.del.nextDeltaEpoch
  BY <1>3 DEF Delegator
<1> HIDE DEF d
<1>7. /\ r.amount = amount /\ r.epoch = ActivationEpoch
      /\ withdrawals'[v][caller][wid] = r
      /\ del'[v][caller] = d
  BY <1>1, <1>2 DEF UndelegateRequest
<1> HIDE DEF r
<1>8. r \in WithdrawalRequest
  BY <1>2, <1>7
<1>9. ASSUME NEW e \in Decided
      PROVE  ActiveIn(d, e) = ActiveIn(del[v][caller], e) - amount
  <2> DEFINE first == IF IsEpochActive(e, s.del.deltaEpoch) THEN s.del.deltaStake ELSE 0
             second == IF IsEpochActive(e, s.del.nextDeltaEpoch)
                       THEN s.del.nextDeltaStake ELSE 0
             stake == s.del.stake
  <2>1. ActiveIn(d, e) = stake - amount + first + second
    BY <1>6 DEF ActiveIn
  <2>2. ActiveIn(s.del, e) = stake + first + second
    BY DEF ActiveIn
  <2>3. ActiveIn(s.del, e) = ActiveIn(del[v][caller], e)
    BY <1>2, <1>4 DEF SameActive, Decided
  <2>4. stake \in Int /\ first \in Int /\ second \in Int
    BY <1>3 DEF Delegator
  <2> HIDE DEF stake, first, second
  <2>5. stake - amount + first + second = (stake + first + second) - amount
    BY ONLY <1>5, <2>4
  <2> QED
    BY <2>1, <2>2, <2>3, <2>5, Zenon
<1>10. ASSUME NEW e \in Decided
       PROVE  Earns(r, e) = amount /\ Earns(old, e) = 0
  BY <1>1, <1>7 DEF Earns, Decided, ActivationEpoch
<1>11. ASSUME NEW u \in ValIds, NEW e \in Decided, u # v
       PROVE  /\ Actives(del', u, e) = Actives(del, u, e)
              /\ Earnings(withdrawals', u, e) = Earnings(withdrawals, u, e)
  BY <1>1, <1>11 DEF Actives, Earnings
<1>12. ASSUME NEW e \in Decided
       PROVE  SumFunction(Actives(del', v, e)) = SumFunction(Actives(del, v, e)) - amount
  <2> DEFINE f == Actives(del, v, e)
             g == Actives(del', v, e)
  <2>1. f \in [Addrs -> Int] /\ g \in [Addrs -> Int]
    BY <1>2, EarningTypes
  <2>2. \A b \in Addrs \ {caller} : g[b] = f[b]
    BY <1>1, <1>2 DEF Actives
  <2>3. f[caller] = ActiveIn(del[v][caller], e) /\ g[caller] = ActiveIn(d, e)
    BY <1>7 DEF Actives
  <2>4. g[caller] = f[caller] - amount
    BY <1>9, <2>3
  <2>5. f[caller] \in Int /\ g[caller] \in Int
    BY <2>1
  <2> HIDE DEF f, g
  <2>6. SumFunction(g) = SumFunction(f) - f[caller] + g[caller]
    BY <2>1, <2>2, FiniteDomains, SumReplaced
  <2>7. SumFunction(f) \in Int
    BY <2>1, FiniteDomains, SumFunctionType
  <2> DEFINE x == f[caller]
             y == g[caller]
             m == SumFunction(f)
  <2>8. x \in Int /\ y \in Int /\ m \in Int /\ y = x - amount /\ SumFunction(g) = m - x + y
    BY <2>4, <2>5, <2>6, <2>7
  <2> HIDE DEF x, y, m
  <2>9. SumFunction(g) = m - amount
    BY ONLY <1>5, <2>8
  <2> QED
    BY <2>9 DEF f, g, m
<1>13. ASSUME NEW e \in Decided
       PROVE  SumFunction(Earnings(withdrawals', v, e)) =
                 SumFunction(Earnings(withdrawals, v, e)) + amount
  <2> DEFINE S == Addrs \X WithdrawIds
             f == Earnings(withdrawals, v, e)
             g == Earnings(withdrawals', v, e)
             p == <<caller, wid>>
  <2>1. f \in [S -> Int] /\ g \in [S -> Int]
    BY <1>2, EarningTypes
  <2>2. \A q \in S \ {p} : g[q] = f[q]
    <3>1. SUFFICES ASSUME NEW b \in Addrs, NEW z \in WithdrawIds, <<b, z>> # p
                   PROVE  g[<<b, z>>] = f[<<b, z>>]
      OBVIOUS
    <3>2. withdrawals'[v][b][z] = withdrawals[v][b][z]
      BY <1>1, <1>2, <3>1
    <3> QED
      BY <3>2 DEF Earnings
  <2>3. p \in S /\ f[p] = Earns(old, e) /\ g[p] = Earns(r, e)
    BY <1>7 DEF Earnings, old
  <2>4. f[p] = 0 /\ g[p] = amount
    BY <1>10, <2>3
  <2>5. IsFiniteSet(S)
    BY StakingAssumption, FS_Product
  <2> HIDE DEF f, g, p, S
  <2>6. SumFunction(g) = SumFunction(f) - f[p] + g[p]
    BY <2>1, <2>2, <2>3, <2>5, SumReplaced
  <2>7. SumFunction(f) \in Int
    BY <2>1, <2>5, SumFunctionType
  <2> DEFINE m == SumFunction(f)
  <2>8. m \in Int /\ SumFunction(g) = m - 0 + amount
    BY <2>4, <2>6, <2>7
  <2> HIDE DEF m
  <2>9. SumFunction(g) = m + amount
    BY ONLY <1>5, <2>8
  <2> QED
    BY <2>9 DEF f, g, m
<1>14. ASSUME NEW u \in ValIds, NEW e \in Decided
       PROVE  EarningOf(del', withdrawals', u, e) = EarningOf(del, withdrawals, u, e)
  <2>1. CASE u # v
    BY <1>11, <2>1, Zenon DEF EarningOf
  <2>2. CASE u = v
    <3> DEFINE m == SumFunction(Actives(del, v, e))
               n == SumFunction(Earnings(withdrawals, v, e))
    <3>1. m \in Int
      BY <1>2, EarningTypes, FiniteDomains, SumFunctionType
    <3>2. n \in Int
      <4>1. IsFiniteSet(Addrs \X WithdrawIds)
        BY StakingAssumption, FS_Product
      <4> QED
        BY <1>2, <4>1, EarningTypes, SumFunctionType
    <3> HIDE DEF m, n
    <3>3. (m - amount) + (n + amount) = m + n
      BY ONLY <1>5, <3>1, <3>2
    <3>4. /\ SumFunction(Actives(del', v, e)) = m - amount
          /\ SumFunction(Earnings(withdrawals', v, e)) = n + amount
      BY <1>12, <1>13 DEF m, n
    <3>5. EarningOf(del, withdrawals, v, e) = m + n
      BY Zenon DEF m, n, EarningOf
    <3> QED
      BY <2>2, <3>3, <3>4, <3>5, Zenon DEF EarningOf
  <2> QED
    BY <2>1, <2>2
<1> QED
  BY <1>1, <1>7, <1>8, <1>14, Zenon DEF EarningKept

-----------------------------------------------------------------------------
(***************************************************************************)
(* The inductive invariant.  A snapshot takes the whole stake for what     *)
(* will earn in the next epoch: everything pending is due by then, and no  *)
(* request reaches beyond it.  The books say that the whole stake is the   *)
(* sum of the delegations.                                                 *)
(***************************************************************************)
RequestsInWindow ==
    \A v \in ValIds, a \in Addrs, w \in WithdrawIds :
        withdrawals[v][a][w].epoch <= ActivationEpoch

EarningInv ==
    BalanceInv /\ ViewsInv /\ RequestsInWindow /\ EarningStakeIsViewStake

\* The property, with its sums named, before and after a step.
LEMMA EarningTold ==
    EarningStakeIsViewStake <=>
        \A v \in ValIds :
            /\ CurrentView(v).stake # 0
                  => CurrentView(v).stake = EarningOf(del, withdrawals, v, epoch)
            /\ inBoundary /\ consensusView[v].stake # 0
                  => consensusView[v].stake = EarningOf(del, withdrawals, v, epoch + 1)
BY Zenon DEF EarningStakeIsViewStake, EarningStake, EarningOf, Actives, Earnings, Earns

\* EarningStakeIsViewStake of the next state, in terms of the two tables it
\* is about.
LEMMA EarningToldNext ==
    EarningStakeIsViewStake' <=>
        \A v \in ValIds :
            /\ CurrentView(v)'.stake # 0
                  => CurrentView(v)'.stake = EarningOf(del', withdrawals', v, epoch')
            /\ inBoundary' /\ consensusView'[v].stake # 0
                  => consensusView'[v].stake = EarningOf(del', withdrawals', v, epoch' + 1)
BY Zenon DEF EarningStakeIsViewStake, EarningStake, EarningOf, Actives, Earnings, Earns

\* Outside the boundary, what will earn in the next epoch is the whole stake.
LEMMA WholeStakeEarnsNext ==
    ASSUME BalanceInv, RequestsInWindow, ~inBoundary, NEW v \in ValIds
    PROVE  EarningOf(del, withdrawals, v, epoch + 1) = val[v].stake
<1>1. /\ epoch \in Nat
      /\ del \in [ValIds -> [Addrs -> Delegator]]
      /\ withdrawals \in [ValIds -> [Addrs -> [WithdrawIds -> WithdrawalRequest]]]
      /\ val[v].stake \in Int
  BY StakingAssumption DEF BalanceInv, Inv, TypeOK, Validator
<1>2. ASSUME NEW a \in Addrs
      PROVE  ActiveIn(del[v][a], epoch + 1) = TotalStake(del[v][a])
  <2> DEFINE d == del[v][a]
  <2>1. d \in Delegator /\ PendingInWindow(d)
    BY <1>1 DEF BalanceInv, Inv, PendingWindow
  <2> HIDE DEF d
  <2>2. /\ d.deltaEpoch <= epoch + 1 /\ d.nextDeltaEpoch <= epoch + 1
        /\ d.deltaEpoch = 0 => d.deltaStake = 0
        /\ d.nextDeltaEpoch = 0 => d.nextDeltaStake = 0
    BY <2>1 DEF PendingInWindow, ActivationEpoch
  <2>3. ActiveIn(d, epoch + 1) = TotalStake(d)
    BY <2>2 DEF ActiveIn, TotalStake, IsEpochActive
  <2> QED
    BY <2>3 DEF d
<1>3. Actives(del, v, epoch + 1) = StakesOf(del, v)
  BY <1>2 DEF Actives, StakesOf
<1>4. val[v].stake = SumFunction(StakesOf(del, v))
  BY Zenon DEF BalanceInv, ContractBalanced, StakesOf
<1>5. SumFunction(Earnings(withdrawals, v, epoch + 1)) = 0
  <2> DEFINE S == Addrs \X WithdrawIds
             f == Earnings(withdrawals, v, epoch + 1)
  <2>1. \A a \in Addrs, w \in WithdrawIds : Earns(withdrawals[v][a][w], epoch + 1) = 0
    <3> TAKE a \in Addrs, w \in WithdrawIds
    <3>1. withdrawals[v][a][w].epoch \in Int
      BY <1>1 DEF WithdrawalRequest
    <3>2. withdrawals[v][a][w].epoch <= epoch + 1
      BY DEF RequestsInWindow, ActivationEpoch
    <3> QED
      BY <1>1, <3>1, <3>2 DEF Earns
  <2>2. DOMAIN f = S /\ \A p \in S : f[p] = 0
    BY <2>1 DEF Earnings
  <2>3. IsFiniteSet(S)
    BY StakingAssumption, FS_Product
  <2> HIDE DEF f, S
  <2>4. SumFunctionOnSet(f, S) = 0
    BY <2>2, <2>3, SumZero
  <2>5. SumFunction(f) = 0
    BY <2>2, <2>4, Zenon DEF SumFunction
  <2> QED
    BY <2>5 DEF f
<1>6. EarningOf(del, withdrawals, v, epoch + 1) = val[v].stake + 0
  BY <1>3, <1>4, <1>5, Zenon DEF EarningOf
<1> QED
  BY <1>1, <1>6

\* Calls that leave the clock and the sets.
LEMMA CallsWithinEpoch ==
    ASSUME EarningInv, EarningKept, UNCHANGED <<clock, epochSets>>
    PROVE  EarningStakeIsViewStake'
<1>1. epoch \in Nat /\ epoch' = epoch /\ inBoundary' = inBoundary
      /\ consensusView' = consensusView /\ snapshotView' = snapshotView
  BY StakingAssumption DEF EarningInv, BalanceInv, Inv, TypeOK, clock, epochSets
<1>2. epoch \in Decided /\ (inBoundary => epoch + 1 \in Decided)
  BY <1>1 DEF Decided, ActivationEpoch
<1>3. ASSUME NEW v \in ValIds, NEW e \in Decided
      PROVE  EarningOf(del', withdrawals', v, e) = EarningOf(del, withdrawals, v, e)
  BY DEF EarningKept
<1>4. \A v \in ValIds : CurrentView(v)' = CurrentView(v)
  BY <1>1 DEF CurrentView
<1>5. ASSUME NEW v \in ValIds, CurrentView(v)'.stake # 0
      PROVE  CurrentView(v)'.stake = EarningOf(del', withdrawals', v, epoch')
  <2>1. CurrentView(v).stake = EarningOf(del, withdrawals, v, epoch)
    BY <1>4, <1>5, EarningTold DEF EarningInv
  <2>2. EarningOf(del', withdrawals', v, epoch') = EarningOf(del', withdrawals', v, epoch)
    BY <1>1
  <2> QED
    BY <1>2, <1>3, <1>4, <2>1, <2>2
<1>6. ASSUME NEW v \in ValIds, inBoundary', consensusView'[v].stake # 0
      PROVE  consensusView'[v].stake = EarningOf(del', withdrawals', v, epoch' + 1)
  <2>1. consensusView[v].stake = EarningOf(del, withdrawals, v, epoch + 1)
    BY <1>1, <1>6, EarningTold DEF EarningInv
  <2>2. EarningOf(del', withdrawals', v, epoch' + 1) = EarningOf(del', withdrawals', v, epoch + 1)
    BY <1>1
  <2> QED
    BY <1>1, <1>2, <1>3, <1>6, <2>1, <2>2
<1> QED
  BY <1>5, <1>6, EarningToldNext

\* The boundary opens.
LEMMA SnapshotTellsEarning ==
    ASSUME EarningInv, HandleSyscallSnapshot
    PROVE  EarningStakeIsViewStake'
<1>1. PICK chosen :
           /\ ~inBoundary /\ inBoundary' = TRUE /\ epoch' = epoch
           /\ del' = del /\ withdrawals' = withdrawals
           /\ consensus' = chosen
           /\ consensusView' = Rebuilt(consensus, consensusView, chosen, ExecutionView)
  BY DEF HandleSyscallSnapshot, ledger
<1>2. ViewsInv' /\ Terms
  BY SnapshotKeepsTerms DEF EarningInv
<1>3. ASSUME NEW v \in ValIds, CurrentView(v)'.stake # 0
      PROVE  CurrentView(v)'.stake = EarningOf(del', withdrawals', v, epoch')
  <2>1. CurrentView(v)' = CurrentView(v)
    BY <1>2 DEF Terms
  <2>2. CurrentView(v).stake = EarningOf(del, withdrawals, v, epoch)
    BY <1>3, <2>1, EarningTold DEF EarningInv
  <2>3. EarningOf(del', withdrawals', v, epoch') = EarningOf(del, withdrawals, v, epoch)
    BY <1>1
  <2> QED
    BY <2>1, <2>2, <2>3, Zenon
<1>4. ASSUME NEW v \in ValIds, consensusView'[v].stake # 0
      PROVE  consensusView'[v].stake = EarningOf(del', withdrawals', v, epoch' + 1)
  <2>1. v \in Members(chosen)
    <3>1. v \notin Members(consensus') => consensusView'[v] = NoView
      BY <1>2 DEF ViewsInv, Members
    <3> QED
      BY <1>1, <1>4, <3>1 DEF NoView
  <2>2. consensusView'[v].stake = val[v].stake
    BY <1>1, <2>1 DEF Rebuilt, ExecutionView
  <2>3. EarningOf(del, withdrawals, v, epoch + 1) = val[v].stake
    BY <1>1, WholeStakeEarnsNext DEF EarningInv
  <2>4. EarningOf(del', withdrawals', v, epoch' + 1) = EarningOf(del, withdrawals, v, epoch + 1)
    BY <1>1
  <2> QED
    BY <2>2, <2>3, <2>4, Zenon
<1> QED
  BY <1>3, <1>4, EarningToldNext

\* The boundary closes: what was said of the next epoch is of this one now.
LEMMA BoundaryTellsEarning ==
    ASSUME EarningInv, EpochBoundary
    PROVE  EarningStakeIsViewStake'
<1>1. /\ inBoundary = TRUE /\ inBoundary' = FALSE /\ epoch' = epoch + 1
      /\ del' = del /\ withdrawals' = withdrawals /\ consensusView' = consensusView
  BY DEF EpochBoundary, HandleSyscallOnEpochChange, epochSets, EarningInv, ViewsInv
<1>2. ASSUME NEW v \in ValIds, CurrentView(v)'.stake # 0
      PROVE  CurrentView(v)'.stake = EarningOf(del', withdrawals', v, epoch')
  <2>1. CurrentView(v)' = consensusView[v]
    BY <1>1 DEF CurrentView
  <2>2. consensusView[v].stake = EarningOf(del, withdrawals, v, epoch + 1)
    BY <1>1, <1>2, <2>1, EarningTold DEF EarningInv
  <2>3. EarningOf(del', withdrawals', v, epoch') = EarningOf(del, withdrawals, v, epoch + 1)
    BY <1>1
  <2> QED
    BY <2>1, <2>2, <2>3, Zenon
<1> QED
  BY <1>1, <1>2, EarningToldNext

\* Requests are made by undelegate and paid by withdraw.
LEMMA OtherRequestsStay ==
    ASSUME NEW caller
    PROVE  /\ \A auth, bls, c, value :
                 HandleAddValidator(caller, auth, bls, c, value) => withdrawals' = withdrawals
           /\ \A v, value : HandleDelegate(v, caller, value) => withdrawals' = withdrawals
           /\ \A v : HandleClaimRewards(v, caller) => withdrawals' = withdrawals
           /\ \A v : HandleCompound(v, caller) => withdrawals' = withdrawals
           /\ \A v : HandleGetDelegator(v, caller) => withdrawals' = withdrawals
           /\ \A v, c : HandleChangeCommission(v, caller, c) => withdrawals' = withdrawals
           /\ \A v, value : HandleExternalReward(v, caller, value) => withdrawals' = withdrawals
<1>1. \A auth, bls, c, value :
          HandleAddValidator(caller, auth, bls, c, value) => withdrawals' = withdrawals
  BY Zenon DEF HandleAddValidator
<1>2. \A v, value : HandleDelegate(v, caller, value) => withdrawals' = withdrawals
  BY Zenon DEF HandleDelegate
<1>3. \A v : HandleClaimRewards(v, caller) => withdrawals' = withdrawals
  BY Zenon DEF HandleClaimRewards, Store
<1>4. \A v : HandleCompound(v, caller) => withdrawals' = withdrawals
  BY Zenon DEF HandleCompound
<1>5. \A v : HandleGetDelegator(v, caller) => withdrawals' = withdrawals
  BY Zenon DEF HandleGetDelegator, Store
<1>6. \A v, c : HandleChangeCommission(v, caller, c) => withdrawals' = withdrawals
  BY Zenon DEF HandleChangeCommission
<1>7. \A v, value : HandleExternalReward(v, caller, value) => withdrawals' = withdrawals
  BY Zenon DEF HandleExternalReward
<1> QED
  BY <1>1, <1>2, <1>3, <1>4, <1>5, <1>6, <1>7

\* Requests reach no further than the activation epoch of their time.
LEMMA RequestsStep ==
    ASSUME Inv, Inv', RequestsInWindow, [Next]_vars
    PROVE  RequestsInWindow'
<1>1. /\ withdrawals \in [ValIds -> [Addrs -> [WithdrawIds -> WithdrawalRequest]]]
      /\ epoch \in Nat
  BY StakingAssumption DEF Inv, TypeOK
<1>2. ASSUME withdrawals' = withdrawals, ActivationEpoch' >= ActivationEpoch,
             ActivationEpoch \in Int, ActivationEpoch' \in Int
      PROVE  RequestsInWindow'
  <2> SUFFICES ASSUME NEW v \in ValIds, NEW a \in Addrs, NEW w \in WithdrawIds
               PROVE  withdrawals'[v][a][w].epoch <= ActivationEpoch'
    BY DEF RequestsInWindow
  <2>1. withdrawals[v][a][w].epoch \in Int
    BY <1>1 DEF WithdrawalRequest
  <2>2. withdrawals[v][a][w].epoch <= ActivationEpoch
    BY DEF RequestsInWindow
  <2> QED
    BY <1>2, <2>1, <2>2
<1>3. ASSUME UNCHANGED clock
      PROVE  ActivationEpoch' = ActivationEpoch /\ ActivationEpoch \in Int
  BY <1>1, <1>3 DEF clock, ActivationEpoch
<1>4. ASSUME UNCHANGED clock, NEW v \in ValIds, NEW a \in Addrs, NEW w \in WithdrawIds,
             NEW r \in WithdrawalRequest, r.epoch <= ActivationEpoch,
             withdrawals' = [withdrawals EXCEPT ![v][a][w] = r]
      PROVE  RequestsInWindow'
  <2> SUFFICES ASSUME NEW u \in ValIds, NEW b \in Addrs, NEW z \in WithdrawIds
               PROVE  withdrawals'[u][b][z].epoch <= ActivationEpoch'
    BY DEF RequestsInWindow
  <2>1. withdrawals'[u][b][z] = withdrawals[u][b][z] \/ withdrawals'[u][b][z] = r
    BY <1>1, <1>4
  <2>2. withdrawals[u][b][z].epoch <= ActivationEpoch
    BY DEF RequestsInWindow
  <2> QED
    BY <1>3, <1>4, <2>1, <2>2
<1>5. CASE UserCall
  <2>1. UNCHANGED clock
    BY <1>5, UserCallsKeepViews
  <2>2. \/ withdrawals' = withdrawals
        \/ \E v \in ValIds, caller \in Addrs, asked \in UndelegateAmounts,
              wid \in WithdrawIds : HandleUndelegate(v, caller, asked, wid)
        \/ \E v \in ValIds, caller \in Addrs, wid \in WithdrawIds :
              HandleWithdraw(v, caller, wid)
    BY <1>5, OtherRequestsStay DEF UserCall
  <2>3. ASSUME NEW v \in ValIds, NEW caller \in Addrs, NEW asked \in UndelegateAmounts,
               NEW wid \in WithdrawIds, HandleUndelegate(v, caller, asked, wid)
        PROVE  RequestsInWindow'
    <3>1. PICK r \in WithdrawalRequest :
              /\ r.epoch = ActivationEpoch
              /\ withdrawals' = [withdrawals EXCEPT ![v][caller][wid] = r]
      BY <2>3, UndelegateKeepsEarning
    <3>2. r.epoch <= ActivationEpoch
      BY <1>3, <2>1, <3>1
    <3> QED
      BY <1>4, <2>1, <3>1, <3>2
  <2>4. ASSUME NEW v \in ValIds, NEW caller \in Addrs, NEW wid \in WithdrawIds,
               HandleWithdraw(v, caller, wid)
        PROVE  RequestsInWindow'
    <3>1. withdrawals' = [withdrawals EXCEPT ![v][caller][wid] = NoWithdrawal]
      BY <2>4 DEF HandleWithdraw
    <3>2. NoWithdrawal \in WithdrawalRequest /\ NoWithdrawal.epoch <= ActivationEpoch
      BY <1>1 DEF NoWithdrawal, WithdrawalRequest, ActivationEpoch
    <3> QED
      BY <1>4, <2>1, <3>1, <3>2
  <2> QED
    BY <1>2, <1>3, <2>1, <2>2, <2>3, <2>4
<1>6. ASSUME NEW author \in Addrs, NEW reward \in BlockRewards,
             HandleSyscallReward(author, reward)
      PROVE  RequestsInWindow'
  <2>1. UNCHANGED clock /\ withdrawals' = withdrawals
    BY <1>6 DEF HandleSyscallReward
  <2> QED
    BY <1>2, <1>3, <2>1
<1>7. CASE HandleSyscallSnapshot \/ EpochBoundary
  <2>1. /\ withdrawals' = withdrawals
        /\ \/ ~inBoundary /\ inBoundary' = TRUE /\ epoch' = epoch
           \/ inBoundary /\ inBoundary' = FALSE /\ epoch' = epoch + 1
    BY <1>7 DEF HandleSyscallSnapshot, EpochBoundary, HandleSyscallOnEpochChange, ledger
  <2>2. /\ ActivationEpoch \in Int /\ ActivationEpoch' \in Int
        /\ ActivationEpoch' >= ActivationEpoch
    BY <1>1, <2>1 DEF ActivationEpoch
  <2> QED
    BY <1>2, <2>1, <2>2
<1>8. CASE UNCHANGED vars
  <2>1. UNCHANGED clock /\ withdrawals' = withdrawals
    BY <1>8 DEF vars, ledger
  <2> QED
    BY <1>2, <1>3, <2>1
<1> QED
  BY <1>5, <1>6, <1>7, <1>8 DEF Next, BlockCall

\* Every step of the lifecycle.
LEMMA EarningStep ==
    ASSUME EarningInv, [Next]_vars
    PROVE  EarningInv'
<1>1. Inv /\ BalanceInv /\ ViewsInv /\ RequestsInWindow
  BY DEF EarningInv, BalanceInv
<1>2. [AnyOrderNext]_vars
  BY <1>1, LifecycleStep
<1>3. BalanceInv' /\ ViewsInv' /\ Inv'
  BY <1>1, <1>2, BalanceStep, ViewsStep, AnyOrderStep
<1>4. RequestsInWindow'
  BY <1>1, <1>3, RequestsStep
<1>5. ASSUME UserCall PROVE EarningStakeIsViewStake'
  <2>1. PICK caller \in Addrs :
        \/ \E auth \in Addrs, bls \in BlsKeys, c \in Commissions,
              value \in DelegateAmounts :
                 HandleAddValidator(caller, auth, bls, c, value)
        \/ \E v \in ValIds :
              \/ \E value \in DelegateAmounts : HandleDelegate(v, caller, value)
              \/ \E amount \in UndelegateAmounts, wid \in WithdrawIds :
                    HandleUndelegate(v, caller, amount, wid)
              \/ \E wid \in WithdrawIds : HandleWithdraw(v, caller, wid)
              \/ HandleClaimRewards(v, caller)
              \/ HandleCompound(v, caller)
              \/ HandleGetDelegator(v, caller)
              \/ \E c \in Commissions : HandleChangeCommission(v, caller, c)
              \/ \E value \in ExternalRewards :
                    HandleExternalReward(v, caller, value)
    BY <1>5 DEF UserCall
  <2>2. EarningKept
    BY <1>1, <1>3, <2>1, AddValidatorKeepsEarning, DelegateCallKeepsEarning,
       UndelegateKeepsEarning, WithdrawKeepsEarning, SettlingKeepsEarning,
       CompoundKeepsEarning, OtherCallsKeepEarning, Zenon
  <2>3. UNCHANGED <<clock, epochSets>>
    BY <1>5, UserCallsKeepViews
  <2> QED
    BY <2>2, <2>3, CallsWithinEpoch
<1>6. ASSUME NEW author \in Addrs, NEW reward \in BlockRewards,
             HandleSyscallReward(author, reward)
      PROVE  EarningStakeIsViewStake'
  <2>1. EarningKept
    BY <1>1, <1>6, SyscallRewardKeepsEarning
  <2>2. UNCHANGED <<clock, epochSets>>
    BY <1>6 DEF HandleSyscallReward
  <2> QED
    BY <2>1, <2>2, CallsWithinEpoch
<1>7. ASSUME UNCHANGED vars PROVE EarningStakeIsViewStake'
  <2>1. EarningKept
    BY <1>7, OtherCallsKeepEarning
  <2>2. UNCHANGED <<clock, epochSets>>
    BY <1>7 DEF vars
  <2> QED
    BY <2>1, <2>2, CallsWithinEpoch
<1>8. EarningStakeIsViewStake'
  BY <1>5, <1>6, <1>7, SnapshotTellsEarning, BoundaryTellsEarning DEF Next, BlockCall
<1> QED
  BY <1>3, <1>4, <1>8 DEF EarningInv

\* At first nobody has stake and no view is filled.
LEMMA InitEarning ==
    ASSUME Init
    PROVE  EarningInv
<1>1. BalanceInv
  BY InitBooks
<1>2. ViewsInv
  BY DEF Init, ViewsInv, Members
<1>3. RequestsInWindow
  BY DEF Init, RequestsInWindow, NoWithdrawal, ActivationEpoch
<1>4. \A v \in ValIds : CurrentView(v).stake = 0 /\ consensusView[v].stake = 0
  BY DEF Init, CurrentView, NoView
<1>5. EarningStakeIsViewStake
  BY <1>4 DEF EarningStakeIsViewStake
<1> QED
  BY <1>1, <1>2, <1>3, <1>5 DEF EarningInv

(***************************************************************************)
(* Rewards are divided by the stake that earns them, from the start of an  *)
(* epoch to its end, whatever is delegated and withdrawn meanwhile: the    *)
(* accumulator hands out what came in, not more and not to fewer.          *)
(***************************************************************************)
THEOREM RewardsDividedByEarners == Spec => []EarningStakeIsViewStake
<1>1. Init => EarningInv
  BY InitEarning
<1>2. EarningInv /\ [Next]_vars => EarningInv'
  BY EarningStep
<1>3. EarningInv => EarningStakeIsViewStake
  BY DEF EarningInv
<1> QED
  BY <1>1, <1>2, <1>3, PTL DEF Spec

-----------------------------------------------------------------------------
(* What is owed.                                                           *)

Scaled(n) == UNIT_BIAS * n
Accrued(stake, from, to) == (to - from) * stake

\* Scaling is linear and keeps order.
LEMMA ScaledArithmetic ==
    /\ \A m \in Int : Scaled(m) \in Int
    /\ \A m, n \in Int : Scaled(m + n) = Scaled(m) + Scaled(n)
    /\ \A m, n \in Int : Scaled(m - n) = Scaled(m) - Scaled(n)
    /\ \A m, n \in Int : m <= n <=> Scaled(m) <= Scaled(n)
    /\ Scaled(0) = 0
<1>1. UNIT_BIAS \in Nat \ {0}
  BY StakingConstantsAssumption
<1> QED
  BY <1>1 DEF Scaled

\* What accrues is additive in time and in stake, and grows with the
\* accumulator.
LEMMA AccruedArithmetic ==
    ASSUME NEW from \in Int, NEW to \in Int, NEW stake \in Int
    PROVE  /\ Accrued(stake, from, to) \in Int
           /\ Accrued(0, from, to) = 0
           /\ Accrued(stake, to, to) = 0
           /\ \A mid \in Int : Accrued(stake, from, mid) + Accrued(stake, mid, to)
                                   = Accrued(stake, from, to)
           /\ \A more \in Int : Accrued(stake + more, from, to)
                                   = Accrued(stake, from, to) + Accrued(more, from, to)
           /\ \A n \in Int : Accrued(stake, from, to + n)
                                   = Accrued(stake, from, to) + n * stake
           /\ stake >= 0 /\ from <= to => Accrued(stake, from, to) >= 0
BY DEF Accrued

\* calculate_rewards rounds down: it never pays more than has accrued.
LEMMA FloorScaled ==
    ASSUME NEW stake \in Nat, NEW current \in Nat, NEW last \in Nat
    PROVE  Scaled(CalculateRewards(stake, current, last)) <= Accrued(stake, last, current)
<1> DEFINE x == (current - last) * stake
<1>1. UNIT_BIAS \in Nat \ {0} /\ x \in Int
  BY StakingConstantsAssumption
<1>2. CalculateRewards(stake, current, last) = x \div UNIT_BIAS
  BY DEF CalculateRewards
<1>3. Accrued(stake, last, current) = x
  BY DEF Accrued
<1> HIDE DEF x
<1>4. UNIT_BIAS * (x \div UNIT_BIAS) <= x
  BY <1>1
<1> QED
  BY <1>2, <1>3, <1>4 DEF Scaled

\* What a track that is due earns from its snapshot on.
OwedOn(stake, e, A, acc, now) ==
    IF IsEpochActive(now, e) THEN Accrued(stake, SnapshotValue(A, e), acc) ELSE 0

\* What a delegation has earned up to acc and has not been credited with.
Owed(d, A, acc, now) ==
    Accrued(d.stake, d.acc, acc)
  + (OwedOn(d.deltaStake, d.deltaEpoch, A, acc, now)
     + OwedOn(d.nextDeltaStake, d.nextDeltaEpoch, A, acc, now))

\* The same of a request, which earns until its epoch.
OwedTo(r, A, acc, now) ==
    Accrued(r.amount, r.acc, IF r.epoch <= now THEN SnapshotValue(A, r.epoch) ELSE acc)

\* What one stake is owed is an integer.
LEMMA OwedOnType ==
    ASSUME NEW A \in Accumulators, NEW stake \in Nat, NEW e \in Nat, NEW acc \in Nat,
           NEW now \in 0 .. MaxEpoch
    PROVE  OwedOn(stake, e, A, acc, now) \in Int
<1>1. CASE IsEpochActive(now, e)
  <2>1. e \in Epochs
    BY <1>1, StakingAssumption DEF IsEpochActive, Epochs
  <2>2. SnapshotValue(A, e) \in Int
    BY <2>1, SnapshotValueType
  <2> QED
    BY <1>1, <2>2, AccruedArithmetic DEF OwedOn
<1>2. CASE ~IsEpochActive(now, e)
  BY <1>2 DEF OwedOn
<1> QED
  BY <1>1, <1>2

\* So is what a delegation is owed.
LEMMA OwedType ==
    ASSUME NEW A \in Accumulators, NEW d \in RunningDelegator, NEW acc \in Nat,
           NEW now \in 0 .. MaxEpoch
    PROVE  Owed(d, A, acc, now) \in Int
<1>1. /\ d.stake \in Nat /\ d.deltaStake \in Nat /\ d.nextDeltaStake \in Nat
      /\ d.acc \in Nat /\ d.deltaEpoch \in Nat /\ d.nextDeltaEpoch \in Nat
  BY DEF RunningDelegator
<1>2. /\ OwedOn(d.deltaStake, d.deltaEpoch, A, acc, now) \in Int
      /\ OwedOn(d.nextDeltaStake, d.nextDeltaEpoch, A, acc, now) \in Int
  BY <1>1, OwedOnType
<1> DEFINE first == OwedOn(d.deltaStake, d.deltaEpoch, A, acc, now)
           second == OwedOn(d.nextDeltaStake, d.nextDeltaEpoch, A, acc, now)
           active == Accrued(d.stake, d.acc, acc)
           stake == d.stake
           from == d.acc
<1>3. stake \in Int /\ from \in Int /\ acc \in Int
  BY <1>1
<1> HIDE DEF stake, from
<1>4. Accrued(stake, from, acc) \in Int
  BY <1>3, AccruedArithmetic
<1>5. active \in Int /\ first \in Int /\ second \in Int
  BY <1>2, <1>4 DEF stake, from
<1>6. Owed(d, A, acc, now) = active + (first + second)
  BY DEF Owed
<1> HIDE DEF active, first, second
<1> QED
  BY <1>5, <1>6

\* What a step of settling pays is no more than what it was owing.
Pays(s, t, acc) ==
    Scaled(t.del.rewards - s.del.rewards) + Owed(t.del, t.accs, acc, epoch)
        <= Owed(s.del, s.accs, acc, epoch)

\* Two settlements in a row pay what they pay together.
LEMMA PaysTransitive ==
    ASSUME NEW s \in RunningSettlement, NEW t \in RunningSettlement,
           NEW u \in RunningSettlement, NEW acc \in Nat, epoch \in 0 .. MaxEpoch,
           Pays(s, t, acc), Pays(t, u, acc)
    PROVE  Pays(s, u, acc)
<1> DEFINE x == s.del.rewards
           y == t.del.rewards
           z == u.del.rewards
           k == Owed(s.del, s.accs, acc, epoch)
           m == Owed(t.del, t.accs, acc, epoch)
           n == Owed(u.del, u.accs, acc, epoch)
<1>1. x \in Int /\ y \in Int /\ z \in Int
  BY DEF RunningSettlement, RunningDelegator
<1>2. k \in Int /\ m \in Int /\ n \in Int
  BY OwedType DEF RunningSettlement
<1>3. Scaled(y - x) + m <= k /\ Scaled(z - y) + n <= m
  BY DEF Pays
<1> HIDE DEF x, y, z, k, m, n
<1>4. Scaled(z - x) = Scaled(y - x) + Scaled(z - y)
  <2>1. z - x = (y - x) + (z - y) /\ y - x \in Int /\ z - y \in Int
    BY <1>1
  <2> QED
    BY <2>1, ScaledArithmetic
<1>5. Scaled(y - x) \in Int /\ Scaled(z - y) \in Int
  <2>1. y - x \in Int /\ z - y \in Int
    BY <1>1
  <2> QED
    BY <2>1, ScaledArithmetic
<1>6. Scaled(z - x) + n <= k
  BY <1>2, <1>3, <1>4, <1>5
<1> QED
  BY <1>6 DEF Pays, x, z, k, n

\* Credit pays the active stake up to the given accumulator.
LEMMA CreditPays ==
    ASSUME NEW s \in RunningSettlement, NEW value \in Nat, NEW acc \in Nat,
           epoch \in 0 .. MaxEpoch
    PROVE  Pays(s, Credit(s, value), acc)
<1> DEFINE t == Credit(s, value)
           paid == CalculateRewards(s.del.stake, value, s.del.acc)
           first == OwedOn(s.del.deltaStake, s.del.deltaEpoch, s.accs, acc, epoch)
           second == OwedOn(s.del.nextDeltaStake, s.del.nextDeltaEpoch, s.accs, acc, epoch)
           due == first + second
           stake == s.del.stake
           from == s.del.acc
<1>1. /\ s.del \in RunningDelegator /\ s.accs \in Accumulators
      /\ stake \in Nat /\ from \in Nat /\ s.del.rewards \in Int
  BY DEF RunningSettlement, RunningDelegator
<1>2. /\ t.accs = s.accs
      /\ t.del.rewards = s.del.rewards + paid
      /\ t.del.acc = value
      /\ t.del.stake = s.del.stake
      /\ t.del.deltaStake = s.del.deltaStake
      /\ t.del.nextDeltaStake = s.del.nextDeltaStake
      /\ t.del.deltaEpoch = s.del.deltaEpoch
      /\ t.del.nextDeltaEpoch = s.del.nextDeltaEpoch
  BY CreditFields
<1> HIDE DEF t
<1>3. Owed(s.del, s.accs, acc, epoch) = Accrued(stake, from, acc) + due
  BY DEF Owed
<1>4. Owed(t.del, t.accs, acc, epoch) = Accrued(stake, value, acc) + due
  BY <1>2 DEF Owed
<1>5. due \in Int
  <2>1. first \in Int /\ second \in Int
    BY <1>1, OwedOnType DEF RunningDelegator
  <2> QED
    BY <2>1
<1>6. paid \in Int /\ Scaled(paid) <= Accrued(stake, from, value)
  BY <1>1, FloorScaled, CalculateRewardsType
<1>7. t.del.rewards - s.del.rewards = paid
  BY <1>1, <1>2, <1>6
<1> HIDE DEF due, paid, stake, from
<1>8. /\ Accrued(stake, from, value) \in Int /\ Accrued(stake, value, acc) \in Int
      /\ Accrued(stake, from, acc) = Accrued(stake, from, value) + Accrued(stake, value, acc)
      /\ Scaled(paid) \in Int
  <2>1. stake \in Int /\ from \in Int /\ value \in Int /\ acc \in Int
    BY <1>1
  <2>2. Accrued(stake, from, value) \in Int /\ Accrued(stake, value, acc) \in Int
    BY <2>1, AccruedArithmetic
  <2>3. Accrued(stake, from, acc) = Accrued(stake, from, value) + Accrued(stake, value, acc)
    BY <2>1, AccruedArithmetic
  <2>4. Scaled(paid) \in Int
    BY <1>6, ScaledArithmetic
  <2> QED
    BY <2>2, <2>3, <2>4
<1>9. Scaled(paid) + (Accrued(stake, value, acc) + due) <= Accrued(stake, from, acc) + due
  BY <1>5, <1>6, <1>8
<1> QED
  BY <1>3, <1>4, <1>7, <1>9 DEF Pays, t

\* What apply_compound does to each field.
LEMMA CompoundFields ==
    ASSUME NEW s \in RunningSettlement, s.del.deltaEpoch \in Epochs
    PROVE  LET value == SnapshotValue(s.accs, s.del.deltaEpoch)
               c == Credit(s, value)
               t == ApplyCompound(s)
           IN  /\ value \in Nat
               /\ t.ok = c.ok
               /\ t.unclaimed = c.unclaimed
               /\ t.accs = DecrementRefcount(s.accs, s.del.deltaEpoch)
               /\ t.del.rewards = c.del.rewards
               /\ t.del.acc = value
               /\ t.del.stake = s.del.stake + s.del.deltaStake
<1> DEFINE due == s.del.deltaEpoch
           value == SnapshotValue(s.accs, due)
           c == Credit(s, value)
           A == DecrementRefcount(c.accs, due)
           d == ShiftTracks(c.del)
           t == [c EXCEPT !.accs = A, !.del = d]
<1>1. s.accs \in Accumulators /\ s.del \in RunningDelegator
  BY DEF RunningSettlement
<1>2. value \in Nat
  BY <1>1, SnapshotValueType
<1> HIDE DEF value
<1>3. /\ c \in RunningSettlement
      /\ c.accs = s.accs
      /\ c.del.acc = value
      /\ c.del.stake = s.del.stake
      /\ c.del.deltaStake = s.del.deltaStake
  BY <1>2, CreditFields
<1> HIDE DEF c
<1>4. c.del \in RunningDelegator
  BY <1>3 DEF RunningSettlement
<1>5. /\ d.rewards = c.del.rewards
      /\ d.acc = value
      /\ d.stake = s.del.stake + s.del.deltaStake
  <2> DEFINE st == c.del.stake + c.del.deltaStake
  <2>1. d = [c.del EXCEPT !.stake          = st,
                          !.deltaStake     = c.del.nextDeltaStake,
                          !.deltaEpoch     = c.del.nextDeltaEpoch,
                          !.nextDeltaStake = 0,
                          !.nextDeltaEpoch = 0]
    BY DEF ShiftTracks
  <2>2. st = s.del.stake + s.del.deltaStake
    BY <1>3
  <2> HIDE DEF st, d
  <2>3. d.rewards = c.del.rewards /\ d.acc = c.del.acc /\ d.stake = st
    BY <1>4, <2>1 DEF RunningDelegator
  <2> QED
    BY <1>3, <2>2, <2>3
<1> HIDE DEF A, d
<1>6. t.ok = c.ok /\ t.unclaimed = c.unclaimed /\ t.accs = A /\ t.del = d
  BY <1>3 DEF RunningSettlement
<1>7. ApplyCompound(s) = t
  BY DEF ApplyCompound, value, c, A, d
<1> HIDE DEF t
<1>8. A = DecrementRefcount(s.accs, due)
  BY <1>3 DEF A
<1> QED
  BY <1>2, <1>5, <1>6, <1>7, <1>8 DEF c, value

\* A reference given back changes what is read for no other epoch.
LEMMA DecrementKeepsOtherValues ==
    ASSUME NEW A \in Accumulators, NEW e \in Epochs, NEW f \in Epochs, f # e
    PROVE  SnapshotValue(DecrementRefcount(A, e), f) = SnapshotValue(A, f)
<1>1. A[e].refcount \in Nat /\ A[e] \in Accumulator
  BY DEF Accumulators, Accumulator
<1>2. DecrementRefcount(A, e)[f] = A[f]
  <2>1. CASE A[e].refcount = 0
    BY <2>1 DEF DecrementRefcount
  <2>2. CASE A[e].refcount = 1
    BY <2>2 DEF DecrementRefcount, Accumulators
  <2>3. CASE A[e].refcount > 1
    BY <2>3 DEF DecrementRefcount, Accumulators
  <2> QED
    BY <1>1, <2>1, <2>2, <2>3
<1> QED
  BY <1>2 DEF SnapshotValue

\* apply_compound pays a due stake from the snapshot it became active at.
LEMMA CompoundPays ==
    ASSUME NEW s \in RunningSettlement, NEW acc \in Nat, epoch \in 0 .. MaxEpoch,
           IsEpochActive(epoch, s.del.deltaEpoch), s.del.nextDeltaEpoch # s.del.deltaEpoch
    PROVE  Pays(s, ApplyCompound(s), acc)
<1> DEFINE due == s.del.deltaEpoch
           next == s.del.nextDeltaEpoch
           value == SnapshotValue(s.accs, due)
           c == Credit(s, value)
           t == ApplyCompound(s)
           B == DecrementRefcount(s.accs, due)
           stake == s.del.stake
           more == s.del.deltaStake
           later == s.del.nextDeltaStake
<1>1. /\ s.del \in RunningDelegator /\ s.accs \in Accumulators
      /\ stake \in Nat /\ more \in Nat /\ later \in Nat /\ due \in Nat /\ next \in Nat
      /\ MaxEpoch \in Nat /\ epoch \in Nat
  BY StakingAssumption DEF RunningSettlement, RunningDelegator
<1>2. due \in Epochs
  BY <1>1 DEF IsEpochActive, Epochs
<1>3. /\ value \in Nat
      /\ t.accs = B
      /\ t.del.rewards = c.del.rewards
      /\ t.del.acc = value
      /\ t.del.stake = stake + more
  BY <1>2, CompoundFields
<1>4. /\ t \in RunningSettlement
      /\ t.del.deltaEpoch = next
      /\ t.del.deltaStake = later
      /\ t.del.nextDeltaEpoch = 0
      /\ t.del.nextDeltaStake = 0
  BY <1>2, ApplyCompoundSettles DEF Settles
<1>5. /\ c \in RunningSettlement
      /\ c.accs = s.accs
      /\ c.del.acc = value
      /\ c.del.stake = stake
      /\ c.del.deltaStake = more
      /\ c.del.nextDeltaStake = later
      /\ c.del.deltaEpoch = due
      /\ c.del.nextDeltaEpoch = next
  BY <1>3, CreditFields
<1>6. Pays(s, c, acc)
  BY <1>3, CreditPays
<1> DEFINE rest == OwedOn(later, next, s.accs, acc, epoch)
<1>7. OwedOn(later, next, B, acc, epoch) = rest
  <2>1. CASE IsEpochActive(epoch, next)
    <3>1. next \in Epochs
      BY <1>1, <2>1 DEF IsEpochActive, Epochs
    <3>2. SnapshotValue(B, next) = SnapshotValue(s.accs, next)
      BY <1>1, <1>2, <3>1, DecrementKeepsOtherValues
    <3> QED
      BY <3>2 DEF OwedOn
  <2>2. CASE ~IsEpochActive(epoch, next)
    BY <2>2 DEF OwedOn
  <2> QED
    BY <2>1, <2>2
<1>8. rest \in Int
  BY <1>1, OwedOnType
<1>9. Owed(c.del, c.accs, acc, epoch)
          = Accrued(stake, value, acc) + (Accrued(more, value, acc) + rest)
  BY <1>5 DEF Owed, OwedOn
<1>10. Owed(t.del, t.accs, acc, epoch) = Accrued(stake + more, value, acc) + (rest + 0)
  <2>1. OwedOn(0, 0, B, acc, epoch) = 0
    BY DEF OwedOn, IsEpochActive
  <2> QED
    BY <1>3, <1>4, <1>7, <2>1 DEF Owed
<1> HIDE DEF rest, stake, more, value
<1>11. /\ Accrued(stake, value, acc) \in Int /\ Accrued(more, value, acc) \in Int
       /\ Accrued(stake + more, value, acc)
             = Accrued(stake, value, acc) + Accrued(more, value, acc)
  <2>1. stake \in Int /\ more \in Int /\ value \in Int /\ acc \in Int
    BY <1>1, <1>3
  <2>2. Accrued(stake, value, acc) \in Int /\ Accrued(more, value, acc) \in Int
    BY <2>1, AccruedArithmetic
  <2>3. Accrued(stake + more, value, acc)
             = Accrued(stake, value, acc) + Accrued(more, value, acc)
    BY <2>1, AccruedArithmetic
  <2> QED
    BY <2>2, <2>3
<1> DEFINE x == Accrued(stake, value, acc)
           y == Accrued(more, value, acc)
           k == Owed(c.del, c.accs, acc, epoch)
           m == Owed(t.del, t.accs, acc, epoch)
<1>12. x \in Int /\ y \in Int /\ k = x + (y + rest) /\ m = (x + y) + (rest + 0)
  BY <1>9, <1>10, <1>11
<1> HIDE DEF x, y, k, m
<1>13. k = m /\ m \in Int
  BY <1>8, <1>12
<1>14. Scaled(t.del.rewards - c.del.rewards) = 0
  <2>1. c.del.rewards \in Int
    BY <1>5 DEF RunningSettlement, RunningDelegator
  <2>2. t.del.rewards - c.del.rewards = 0
    BY <1>3, <2>1
  <2> QED
    BY <2>2, ScaledArithmetic
<1>15. Pays(c, t, acc)
  <2>1. 0 + m <= k
    BY <1>13
  <2> QED
    BY <1>14, <2>1 DEF Pays, m, k
<1> HIDE DEF c, t
<1> QED
  BY <1>4, <1>5, <1>6, <1>15, PaysTransitive DEF t

\* A stake that moves up is owed the same.
LEMMA PromotePays ==
    ASSUME NEW s \in RunningSettlement, NEW acc \in Nat, epoch \in 0 .. MaxEpoch
    PROVE  Pays(s, [s EXCEPT !.del = PromoteNext(@, epoch)], acc)
<1> DEFINE d == PromoteNext(s.del, epoch)
           p == [s EXCEPT !.del = d]
<1>1. s.del \in RunningDelegator /\ s.accs \in Accumulators
  BY DEF RunningSettlement
<1>2. CASE s.del.deltaEpoch = 0 /\ s.del.nextDeltaEpoch # 0
           /\ s.del.nextDeltaEpoch <= epoch + 1
  <2> DEFINE x == Accrued(s.del.stake, s.del.acc, acc)
             y == OwedOn(s.del.nextDeltaStake, s.del.nextDeltaEpoch, s.accs, acc, epoch)
  <2>1. d = [s.del EXCEPT !.deltaStake     = s.del.nextDeltaStake,
                          !.deltaEpoch     = s.del.nextDeltaEpoch,
                          !.nextDeltaStake = 0,
                          !.nextDeltaEpoch = 0]
    BY <1>2 DEF PromoteNext
  <2> HIDE DEF d
  <2>2. /\ d.stake = s.del.stake
        /\ d.acc = s.del.acc
        /\ d.rewards = s.del.rewards
        /\ d.deltaStake = s.del.nextDeltaStake
        /\ d.deltaEpoch = s.del.nextDeltaEpoch
        /\ d.nextDeltaStake = 0
        /\ d.nextDeltaEpoch = 0
    BY <1>1, <2>1 DEF RunningDelegator
  <2>3. p.del = d /\ p.accs = s.accs
    BY DEF RunningSettlement
  <2>4. \A stake : OwedOn(stake, 0, s.accs, acc, epoch) = 0
    BY DEF OwedOn, IsEpochActive
  <2>5. Owed(d, s.accs, acc, epoch) = x + (y + 0)
    BY <2>2, <2>4 DEF Owed
  <2>6. Owed(s.del, s.accs, acc, epoch) = x + (0 + y)
    BY <1>2, <2>4 DEF Owed
  <2>7. x \in Int /\ y \in Int
    <3> DEFINE stake == s.del.stake
               from == s.del.acc
    <3>1. /\ stake \in Int /\ from \in Int /\ acc \in Int
          /\ s.del.nextDeltaStake \in Nat /\ s.del.nextDeltaEpoch \in Nat
      BY <1>1 DEF RunningDelegator
    <3>2. y \in Int
      BY <1>1, <3>1, OwedOnType
    <3> HIDE DEF stake, from
    <3>3. Accrued(stake, from, acc) \in Int
      BY <3>1, AccruedArithmetic
    <3> QED
      BY <3>2, <3>3 DEF stake, from
  <2>8. p.del.rewards - s.del.rewards = 0
    BY <1>1, <2>2, <2>3 DEF RunningDelegator
  <2> HIDE DEF x, y
  <2>9. 0 + (x + (y + 0)) <= x + (0 + y)
    BY <2>7
  <2> HIDE DEF p
  <2> QED
    BY <2>3, <2>5, <2>6, <2>8, <2>9, ScaledArithmetic DEF Pays, p, d
<1>3. CASE ~(s.del.deltaEpoch = 0 /\ s.del.nextDeltaEpoch # 0
             /\ s.del.nextDeltaEpoch <= epoch + 1)
  <2>1. d = s.del
    BY <1>3 DEF PromoteNext
  <2> HIDE DEF d
  <2>2. p = s
    BY <2>1 DEF RunningSettlement
  <2>3. s.del.rewards - s.del.rewards = 0
    BY <1>1 DEF RunningDelegator
  <2>4. Owed(s.del, s.accs, acc, epoch) \in Int
    BY <1>1, OwedType
  <2>5. Pays(s, s, acc)
    <3> DEFINE m == Owed(s.del, s.accs, acc, epoch)
    <3> HIDE DEF m
    <3>1. m \in Int
      BY <2>4 DEF m
    <3>2. 0 + m <= m
      BY <3>1
    <3> QED
      BY <2>3, <3>2, ScaledArithmetic DEF Pays, m
  <2> QED
    BY <2>2, <2>5 DEF d
<1> QED
  BY <1>2, <1>3

\* Nothing is owed to who has just been settled.
LEMMA SettledOwedNothing ==
    ASSUME NEW d \in RunningDelegator, NEW A, NEW acc \in Nat, epoch \in 0 .. MaxEpoch,
           d.deltaEpoch \in {0, epoch + 1}, d.nextDeltaEpoch \in {0, epoch + 2},
           d.stake = 0 \/ d.acc = acc
    PROVE  Owed(d, A, acc, epoch) = 0
<1>1. ~IsEpochActive(epoch, d.deltaEpoch) /\ ~IsEpochActive(epoch, d.nextDeltaEpoch)
  BY DEF IsEpochActive
<1>2. Accrued(d.stake, d.acc, acc) = 0
  <2> DEFINE stake == d.stake
             from == d.acc
  <2>1. stake \in Int /\ from \in Int /\ acc \in Int
    BY DEF RunningDelegator
  <2>2. stake = 0 \/ from = acc
    OBVIOUS
  <2> HIDE DEF stake, from
  <2>3. CASE stake = 0
    BY <2>1, <2>3, AccruedArithmetic DEF stake, from
  <2>4. CASE from = acc
    BY <2>1, <2>4, AccruedArithmetic DEF stake, from
  <2> QED
    BY <2>2, <2>3, <2>4
<1> QED
  BY <1>1, <1>2 DEF Owed, OwedOn

\* Settling pays at most what is owed, and leaves nothing owed.
LEMMA PullPays ==
    ASSUME NEW s \in RunningSettlement, NEW acc \in Nat,
           epoch \in 0 .. MaxEpoch, inBoundary \in BOOLEAN, PendingInWindow(s.del)
    PROVE  LET t == PullDelegatorUpToDate(s, acc, epoch)
           IN  /\ Pays(s, t, acc)
               /\ t.del.stake = 0 \/ t.del.acc = acc
               /\ t.del.acc \in {s.del.acc, acc}
               /\ Owed(t.del, t.accs, acc, epoch) = 0
<1> DEFINE p == [s EXCEPT !.del = PromoteNext(@, epoch)]
           one == IsEpochActive(epoch, p.del.deltaEpoch)
           two == IsEpochActive(epoch, p.del.nextDeltaEpoch)
           b == IF two THEN ApplyCompound(p) ELSE p
           c == IF one THEN ApplyCompound(b) ELSE b
           t == IF c.del.stake = 0 THEN c ELSE Credit(c, acc)
<1>1. MaxEpoch \in Nat /\ epoch \in Nat
  BY StakingAssumption
<1>2. /\ p \in RunningSettlement
      /\ PendingInWindow(p.del)
      /\ p.del.deltaEpoch = 0 =>
            p.del.nextDeltaEpoch = 0 \/ p.del.nextDeltaEpoch > epoch + 1
  BY <1>1, PromoteNextSettles DEF Settles
<1>3. PullDelegatorUpToDate(s, acc, epoch) = t
  BY Zenon DEF PullDelegatorUpToDate
<1>4. Pays(s, p, acc) /\ p.del.acc = s.del.acc
  BY PromotePays DEF RunningSettlement, RunningDelegator, PromoteNext
<1>5. /\ t \in RunningSettlement
      /\ t.del.deltaEpoch \in {0, epoch + 1}
      /\ t.del.nextDeltaEpoch \in {0, epoch + 2}
  BY <1>3, PullSettles DEF Settles
<1> HIDE DEF p
<1>6. /\ p.del.deltaEpoch \in Nat /\ p.del.nextDeltaEpoch \in Nat
      /\ p.del.deltaStake \in Nat /\ p.del.nextDeltaStake \in Nat /\ p.del.stake \in Nat
  BY <1>2 DEF RunningSettlement, RunningDelegator
<1>7. c \in RunningSettlement /\ Pays(s, c, acc)
      /\ (c.del.acc = s.del.acc \/ c.del.stake # 0)
  <2>1. CASE ~one
    <3>1. ~two
      BY <1>1, <1>2, <1>6, <2>1 DEF IsEpochActive, PendingInWindow
    <3>2. c = p
      BY <2>1, <3>1
    <3> QED
      BY <1>2, <1>4, <3>2
  <2>2. CASE one /\ ~two
    <3>1. c = ApplyCompound(p)
      BY <2>2
    <3>2. p.del.deltaEpoch \in Epochs
      BY <1>1, <1>6, <2>2 DEF IsEpochActive, Epochs
    <3>3. c \in RunningSettlement
      BY <1>2, <3>1, <3>2, ApplyCompoundSettles DEF Settles
    <3>4. p.del.nextDeltaEpoch # p.del.deltaEpoch
      BY <1>1, <1>2, <1>6, <2>2 DEF IsEpochActive, PendingInWindow
    <3> HIDE DEF c
    <3>5. Pays(p, c, acc)
      BY <1>2, <2>2, <3>1, <3>4, CompoundPays
    <3>6. c.del.stake = p.del.stake + p.del.deltaStake
      BY <1>2, <3>1, <3>2, CompoundFields
    <3>7. p.del.deltaStake # 0
      BY <1>2, <2>2 DEF PendingInWindow, IsEpochActive
    <3>8. c.del.stake # 0
      BY <1>6, <3>6, <3>7
    <3> QED
      BY <1>2, <1>4, <3>3, <3>5, <3>8, PaysTransitive
  <2>3. CASE one /\ two
    <3>1. b = ApplyCompound(p) /\ c = ApplyCompound(b)
      BY <2>3
    <3>2. p.del.deltaEpoch \in Epochs /\ p.del.nextDeltaEpoch \in Epochs
      BY <1>1, <1>6, <2>3 DEF IsEpochActive, Epochs
    <3> HIDE DEF b, c
    <3>3. /\ b \in RunningSettlement
          /\ b.del.deltaEpoch = p.del.nextDeltaEpoch
          /\ b.del.nextDeltaEpoch = 0
      BY <1>2, <3>1, <3>2, ApplyCompoundSettles DEF Settles
    <3>4. p.del.nextDeltaEpoch # p.del.deltaEpoch /\ p.del.nextDeltaEpoch # 0
      BY <1>1, <1>2, <1>6, <2>3 DEF IsEpochActive, PendingInWindow
    <3>5. Pays(p, b, acc)
      BY <1>2, <2>3, <3>1, <3>4, CompoundPays
    <3>6. c \in RunningSettlement
      BY <3>1, <3>2, <3>3, ApplyCompoundSettles DEF Settles
    <3>7. Pays(b, c, acc)
      BY <2>3, <3>1, <3>3, <3>4, CompoundPays
    <3>8. Pays(s, b, acc)
      BY <1>2, <1>4, <3>3, <3>5, PaysTransitive
    <3>9. Pays(s, c, acc)
      BY <3>3, <3>6, <3>7, <3>8, PaysTransitive
    <3>10. /\ b.del.stake = p.del.stake + p.del.deltaStake
           /\ c.del.stake = b.del.stake + b.del.deltaStake
      BY <1>2, <3>1, <3>2, <3>3, CompoundFields
    <3>11. p.del.deltaStake # 0 /\ b.del.deltaStake \in Nat
      BY <1>2, <2>3, <3>3 DEF PendingInWindow, IsEpochActive, RunningSettlement, RunningDelegator
    <3>12. c.del.stake # 0
      BY <1>6, <3>10, <3>11
    <3> QED
      BY <3>6, <3>9, <3>12
  <2> QED
    BY <2>1, <2>2, <2>3
<1> HIDE DEF c
<1>8. Pays(s, t, acc) /\ (t.del.stake = 0 \/ t.del.acc = acc)
      /\ t.del.acc \in {s.del.acc, acc}
  <2>1. CASE c.del.stake = 0
    BY <1>7, <2>1
  <2>2. CASE c.del.stake # 0
    <3>1. t = Credit(c, acc)
      BY <2>2
    <3> HIDE DEF t
    <3>2. Pays(c, t, acc) /\ t.del.acc = acc
      BY <1>7, <3>1, CreditPays, CreditFields
    <3>3. Pays(s, c, acc) /\ Pays(c, t, acc) /\ c \in RunningSettlement /\ t \in RunningSettlement
      BY <1>5, <1>7, <3>2
    <3>4. Pays(s, t, acc)
      BY <3>3, PaysTransitive
    <3> QED
      BY <3>2, <3>4
  <2> QED
    BY <2>1, <2>2
<1> HIDE DEF t
<1>9. Owed(t.del, t.accs, acc, epoch) = 0
  <2>1. t.del \in RunningDelegator
    BY <1>5 DEF RunningSettlement
  <2> DEFINE d == t.del
             A == t.accs
  <2> HIDE DEF d, A
  <2>2. Owed(d, A, acc, epoch) = 0
    BY <1>5, <1>8, <2>1, SettledOwedNothing DEF d
  <2> QED
    BY <2>2 DEF d, A
<1> QED
  BY <1>3, <1>8, <1>9

-----------------------------------------------------------------------------
\* Whoever refers to a snapshot finds it, and a snapshot is there for somebody.
Awaits(D, W, v, e) ==
    \/ \E a \in Addrs : D[v][a].deltaEpoch = e \/ D[v][a].nextDeltaEpoch = e
    \/ \E a \in Addrs, w \in WithdrawIds : W[v][a][w].amount # 0 /\ W[v][a][w].epoch = e

Referred(D, W, A) ==
    \A v \in ValIds, e \in Epochs \ {0} : A[v][e].refcount > 0 <=> Awaits(D, W, v, e)

\* A snapshot that is counted as often as it is referred to is there for all
\* who do.
LEMMA CountedReferred ==
    ASSUME NEW D, NEW W, NEW A,
           \A v \in ValIds, e \in Epochs \ {0} :
              A[v][e].refcount = Tracked(D, v, e) + Cardinality(Leaving(W, v, e))
    PROVE  Referred(D, W, A)
<1> SUFFICES ASSUME NEW v \in ValIds, NEW e \in Epochs \ {0}
             PROVE  A[v][e].refcount > 0 <=> Awaits(D, W, v, e)
  BY DEF Referred
<1> DEFINE F == First(D, v, e)
           S == Second(D, v, e)
           L == Leaving(W, v, e)
<1>1. A[v][e].refcount = Cardinality(F) + Cardinality(S) + Cardinality(L)
  BY Zenon DEF Tracked
<1>2. IsFiniteSet(F) /\ IsFiniteSet(S) /\ IsFiniteSet(L)
  <2>1. IsFiniteSet(Addrs) /\ IsFiniteSet(Addrs \X WithdrawIds)
    BY FiniteDomains, StakingAssumption, FS_Product
  <2> QED
    BY <2>1, FS_Subset DEF First, Second, Leaving
<1>3. /\ Cardinality(F) \in Nat /\ Cardinality(S) \in Nat /\ Cardinality(L) \in Nat
      /\ Cardinality(F) = 0 <=> F = {}
      /\ Cardinality(S) = 0 <=> S = {}
      /\ Cardinality(L) = 0 <=> L = {}
  BY <1>2, FS_CardinalityType, FS_EmptySet
<1>4. Awaits(D, W, v, e) <=> F # {} \/ S # {} \/ L # {}
  <2>1. /\ F # {} <=> \E a \in Addrs : D[v][a].deltaEpoch = e
        /\ S # {} <=> \E a \in Addrs : D[v][a].nextDeltaEpoch = e
    BY DEF First, Second
  <2>2. L # {} <=> \E a \in Addrs, w \in WithdrawIds :
                      W[v][a][w].amount # 0 /\ W[v][a][w].epoch = e
    <3>1. ASSUME NEW a \in Addrs, NEW w \in WithdrawIds,
                 W[v][a][w].amount # 0, W[v][a][w].epoch = e
          PROVE  L # {}
      <4>1. <<a, w>> \in L
        BY <3>1 DEF Leaving
      <4> QED
        BY <4>1
    <3>2. ASSUME NEW r \in L
          PROVE  \E a \in Addrs, w \in WithdrawIds :
                      W[v][a][w].amount # 0 /\ W[v][a][w].epoch = e
      BY DEF Leaving
    <3> QED
      BY <3>1, <3>2
  <2> QED
    BY <2>1, <2>2, Zenon DEF Awaits
<1> HIDE DEF F, S, L
<1> QED
  BY <1>1, <1>3, <1>4

\* So it is before a step.
LEMMA ReferredNow ==
    ASSUME RefcountsExact
    PROVE  Referred(del, withdrawals, accs)
BY ReferencesCount, CountedReferred, Zenon DEF RefcountsExact

\* And after it.
LEMMA ReferredNext ==
    ASSUME RefcountsExact'
    PROVE  Referred(del', withdrawals', accs')
<1>1. \A v \in ValIds, e \in Epochs \ {0} :
          accs'[v][e].refcount = Tracked(del', v, e) + Cardinality(Leaving(withdrawals', v, e))
  BY Zenon DEF RefcountsExact, References, Tracked, First, Second, Leaving
<1> QED
  BY <1>1, CountedReferred, Zenon

-----------------------------------------------------------------------------
\* What is owed to all of them.
Owings(D, v, A, acc, now) == [a \in Addrs |-> Owed(D[v][a], A, acc, now)]

OwingsTo(W, v, A, acc, now) ==
    [r \in Addrs \X WithdrawIds |-> OwedTo(W[v][r[1]][r[2]], A, acc, now)]

Debts(D, W, v, A, acc, now) ==
    SumFunction(Owings(D, v, A, acc, now)) + SumFunction(OwingsTo(W, v, A, acc, now))

Debt(v) == Debts(del, withdrawals, v, accs[v], val[v].acc, epoch)

DebtNext(v) == Debts(del', withdrawals', v, accs'[v], val'[v].acc, epoch')

Covered == \A v \in ValIds : Debt(v) <= Scaled(val[v].unclaimed)

\* What a withdrawal is owed is an integer.
LEMMA OwedToType ==
    ASSUME NEW r \in WithdrawalRequest, NEW A \in Accumulators, NEW acc \in Nat,
           NEW now \in 0 .. MaxEpoch
    PROVE  OwedTo(r, A, acc, now) \in Int
<1> DEFINE amount == r.amount
           from == r.acc
           to == IF r.epoch <= now THEN SnapshotValue(A, r.epoch) ELSE acc
<1>1. amount \in Int /\ from \in Int /\ r.epoch \in Nat
  BY DEF WithdrawalRequest
<1>2. to \in Int
  <2>1. r.epoch <= now => r.epoch \in Epochs
    BY <1>1, StakingAssumption DEF Epochs
  <2> QED
    BY <2>1, SnapshotValueType
<1>3. OwedTo(r, A, acc, now) = Accrued(amount, from, to)
  BY DEF OwedTo
<1> HIDE DEF amount, from, to
<1> QED
  BY <1>1, <1>2, <1>3, AccruedArithmetic

\* The two tables of what is owed, and their sums, are integers.
LEMMA OwingsTypes ==
    ASSUME NEW D \in [ValIds -> [Addrs -> Delegator]],
           NEW W \in [ValIds -> [Addrs -> [WithdrawIds -> WithdrawalRequest]]],
           NEW v \in ValIds, NEW A \in Accumulators, NEW acc \in Nat,
           NEW now \in 0 .. MaxEpoch
    PROVE  /\ Owings(D, v, A, acc, now) \in [Addrs -> Int]
           /\ OwingsTo(W, v, A, acc, now) \in [Addrs \X WithdrawIds -> Int]
           /\ SumFunction(Owings(D, v, A, acc, now)) \in Int
           /\ SumFunction(OwingsTo(W, v, A, acc, now)) \in Int
           /\ Debts(D, W, v, A, acc, now) \in Int
<1>1. Owings(D, v, A, acc, now) \in [Addrs -> Int]
  <2>1. \A a \in Addrs : D[v][a] \in RunningDelegator
    BY DEF Delegator, RunningDelegator
  <2>2. \A a \in Addrs : Owed(D[v][a], A, acc, now) \in Int
    <3> TAKE a \in Addrs
    <3> DEFINE d == D[v][a]
    <3>1. d \in RunningDelegator
      BY <2>1
    <3> HIDE DEF d
    <3>2. Owed(d, A, acc, now) \in Int
      BY <3>1, OwedType
    <3> QED
      BY <3>2 DEF d
  <2> QED
    BY <2>2 DEF Owings
<1>2. OwingsTo(W, v, A, acc, now) \in [Addrs \X WithdrawIds -> Int]
  <2>1. \A a \in Addrs, w \in WithdrawIds : OwedTo(W[v][a][w], A, acc, now) \in Int
    <3> TAKE a \in Addrs, w \in WithdrawIds
    <3> DEFINE r == W[v][a][w]
    <3>1. r \in WithdrawalRequest
      OBVIOUS
    <3> HIDE DEF r
    <3>2. OwedTo(r, A, acc, now) \in Int
      BY <3>1, OwedToType
    <3> QED
      BY <3>2 DEF r
  <2> QED
    BY <2>1 DEF OwingsTo
<1>3. IsFiniteSet(Addrs) /\ IsFiniteSet(Addrs \X WithdrawIds)
  BY StakingAssumption, FS_Product
<1>4. /\ SumFunction(Owings(D, v, A, acc, now)) \in Int
      /\ SumFunction(OwingsTo(W, v, A, acc, now)) \in Int
  BY <1>1, <1>2, <1>3, SumFunctionType
<1>5. Debts(D, W, v, A, acc, now) \in Int
  BY <1>4 DEF Debts
<1> QED
  BY <1>1, <1>2, <1>4, <1>5

-----------------------------------------------------------------------------
\* A withdrawal is never filed under epoch zero, which no snapshot is for.
RequestsFiled ==
    \A v \in ValIds, a \in Addrs, w \in WithdrawIds :
        withdrawals[v][a][w].amount # 0 => withdrawals[v][a][w].epoch # 0

\* What is known of a step already.
Steady ==
    /\ Inv /\ Inv'
    /\ RefcountsExact /\ RefcountsExact'
    /\ SnapshotsFrozen
    /\ RequestsFiled

\* The types a step starts from and ends in.
LEMMA SteadyTypes ==
    ASSUME Steady
    PROVE  /\ epoch \in 0 .. MaxEpoch /\ epoch' \in 0 .. MaxEpoch
           /\ inBoundary \in BOOLEAN /\ MaxEpoch \in Nat
           /\ val \in [ValIds -> Validator] /\ val' \in [ValIds -> Validator]
           /\ del \in [ValIds -> [Addrs -> Delegator]]
           /\ del' \in [ValIds -> [Addrs -> Delegator]]
           /\ withdrawals \in [ValIds -> [Addrs -> [WithdrawIds -> WithdrawalRequest]]]
           /\ withdrawals' \in [ValIds -> [Addrs -> [WithdrawIds -> WithdrawalRequest]]]
           /\ accs \in [ValIds -> [Epochs -> Accumulator]]
           /\ accs' \in [ValIds -> [Epochs -> Accumulator]]
           /\ \A v \in ValIds : accs[v] \in Accumulators /\ accs'[v] \in Accumulators
BY StakingAssumption DEF Steady, Inv, TypeOK, Accumulators

\* What both sides of a step refer to keeps its value once its epoch has begun.
LEMMA ValuesKept ==
    ASSUME Steady, NEW v \in ValIds, NEW e \in Nat, e # 0, e <= epoch,
           Awaits(del, withdrawals, v, e), Awaits(del', withdrawals', v, e)
    PROVE  SnapshotValue(accs'[v], e) = SnapshotValue(accs[v], e)
<1>1. e \in Epochs \ {0}
  BY SteadyTypes DEF Epochs
<1>2. accs[v][e].refcount > 0 /\ accs'[v][e].refcount > 0
  BY <1>1, ReferredNow, ReferredNext DEF Steady, Referred
<1>3. accs'[v][e].value = accs[v][e].value
  BY <1>1, <1>2 DEF Steady, SnapshotsFrozen
<1> QED
  BY <1>2, <1>3 DEF SnapshotValue

\* What a delegation nobody touches is owed.
LEMMA OwedKept ==
    ASSUME Steady, NEW v \in ValIds, NEW b \in Addrs, NEW acc,
           del'[v][b].stake = del[v][b].stake,
           del'[v][b].acc = del[v][b].acc,
           del'[v][b].deltaStake = del[v][b].deltaStake,
           del'[v][b].deltaEpoch = del[v][b].deltaEpoch,
           del'[v][b].nextDeltaStake = del[v][b].nextDeltaStake,
           del'[v][b].nextDeltaEpoch = del[v][b].nextDeltaEpoch
    PROVE  Owed(del'[v][b], accs'[v], acc, epoch) = Owed(del[v][b], accs[v], acc, epoch)
<1>1. del[v][b].deltaEpoch \in Nat /\ del[v][b].nextDeltaEpoch \in Nat
  BY SteadyTypes DEF Delegator
<1>2. ASSUME NEW e \in {del[v][b].deltaEpoch, del[v][b].nextDeltaEpoch},
             IsEpochActive(epoch, e)
      PROVE  SnapshotValue(accs'[v], e) = SnapshotValue(accs[v], e)
  <2>1. Awaits(del, withdrawals, v, e) /\ Awaits(del', withdrawals', v, e)
    BY DEF Awaits
  <2> QED
    BY <1>1, <1>2, <2>1, ValuesKept DEF IsEpochActive
<1>3. \A stake, e : e \in {del[v][b].deltaEpoch, del[v][b].nextDeltaEpoch} =>
          OwedOn(stake, e, accs'[v], acc, epoch) = OwedOn(stake, e, accs[v], acc, epoch)
  BY <1>2 DEF OwedOn
<1> QED
  BY <1>3 DEF Owed

\* An untouched withdrawal is owed what it was.
LEMMA OwedToKept ==
    ASSUME Steady, NEW v \in ValIds, NEW b \in Addrs, NEW w \in WithdrawIds, NEW acc \in Nat,
           withdrawals'[v][b][w] = withdrawals[v][b][w]
    PROVE  OwedTo(withdrawals'[v][b][w], accs'[v], acc, epoch)
              = OwedTo(withdrawals[v][b][w], accs[v], acc, epoch)
<1> DEFINE r == withdrawals[v][b][w]
<1>1. r.amount \in Nat /\ r.epoch \in Nat /\ r.acc \in Nat
  BY SteadyTypes DEF WithdrawalRequest
<1>2. CASE r.epoch > epoch
  <2>1. ~(r.epoch <= epoch)
    BY <1>1, <1>2, SteadyTypes
  <2> QED
    BY <2>1 DEF OwedTo
<1>3. CASE r.epoch <= epoch /\ r.amount # 0
  <2>1. Awaits(del, withdrawals, v, r.epoch) /\ Awaits(del', withdrawals', v, r.epoch)
    BY <1>3 DEF Awaits
  <2>2. r.epoch # 0
    BY <1>3 DEF Steady, RequestsFiled
  <2>3. SnapshotValue(accs'[v], r.epoch) = SnapshotValue(accs[v], r.epoch)
    BY <1>1, <1>3, <2>1, <2>2, ValuesKept
  <2> QED
    BY <2>3 DEF OwedTo
<1>4. CASE r.epoch <= epoch /\ r.amount = 0
  <2>1. r.epoch \in Epochs
    BY <1>1, <1>4, SteadyTypes DEF Epochs
  <2>2. SnapshotValue(accs'[v], r.epoch) \in Int /\ SnapshotValue(accs[v], r.epoch) \in Int
    BY <2>1, SteadyTypes, SnapshotValueType
  <2>3. \A to \in Int : Accrued(0, r.acc, to) = 0
    BY <1>1 DEF Accrued
  <2> QED
    BY <1>4, <2>2, <2>3 DEF OwedTo
<1> QED
  BY <1>1, <1>2, <1>3, <1>4, SteadyTypes

\* Nothing is owed less than the pool has if what the pools lose is no longer owed.
LEMMA CoveredStep ==
    ASSUME Covered, Steady,
           \A v \in ValIds :
              DebtNext(v) - Debt(v) <= Scaled(val'[v].unclaimed) - Scaled(val[v].unclaimed)
    PROVE  Covered'
<1>1. ASSUME NEW v \in ValIds
      PROVE  DebtNext(v) <= Scaled(val'[v].unclaimed)
  <2> DEFINE k == Debt(v)
             k1 == DebtNext(v)
             p == val[v].unclaimed
             p1 == val'[v].unclaimed
  <2>1. p \in Int /\ p1 \in Int /\ val[v].acc \in Nat /\ val'[v].acc \in Nat
    BY SteadyTypes DEF Validator
  <2>2. k \in Int /\ k1 \in Int
    BY <2>1, SteadyTypes, OwingsTypes DEF Debt, DebtNext
  <2>3. k <= Scaled(p) /\ k1 - k <= Scaled(p1) - Scaled(p)
    BY DEF Covered
  <2> HIDE DEF k, k1, p, p1
  <2>4. Scaled(p) \in Int /\ Scaled(p1) \in Int
    BY <2>1, ScaledArithmetic
  <2>5. k1 <= Scaled(p1)
    BY <2>2, <2>3, <2>4
  <2> QED
    BY <2>5 DEF k1, p1
<1> QED
  BY <1>1, Zenon DEF Covered, Debt, DebtNext

\* What a pool loses in a step is no longer owed after it.
Backed(v) ==
    DebtNext(v) - Debt(v) <= Scaled(val'[v].unclaimed) - Scaled(val[v].unclaimed)

\* A call about the delegation of a to v and the requests of a.
OnlyAbout(v, a) ==
    /\ epoch' = epoch
    /\ \A u \in ValIds \ {v} : /\ val'[u] = val[u] /\ del'[u] = del[u] /\ accs'[u] = accs[u]
                               /\ withdrawals'[u] = withdrawals[u]
    /\ \A b \in Addrs \ {a} : del'[v][b] = del[v][b]
    /\ val'[v].acc = val[v].acc

\* A validator whose storage a step leaves alone stays as covered as it was.
LEMMA OthersBacked ==
    ASSUME Steady, epoch' = epoch, NEW u \in ValIds,
           val'[u].acc = val[u].acc, val'[u].unclaimed = val[u].unclaimed,
           del'[u] = del[u], accs'[u] = accs[u], withdrawals'[u] = withdrawals[u]
    PROVE  Backed(u)
<1>1. val[u].acc \in Nat /\ val[u].unclaimed \in Int
  BY SteadyTypes DEF Validator
<1>2. DebtNext(u) = Debt(u)
  <2>1. Owings(del', u, accs'[u], val'[u].acc, epoch') = Owings(del, u, accs[u], val[u].acc, epoch)
    BY DEF Owings
  <2>2. OwingsTo(withdrawals', u, accs'[u], val'[u].acc, epoch')
           = OwingsTo(withdrawals, u, accs[u], val[u].acc, epoch)
    BY DEF OwingsTo
  <2> QED
    BY <2>1, <2>2, Zenon DEF DebtNext, Debt, Debts
<1>3. Debt(u) \in Int
  BY <1>1, SteadyTypes, OwingsTypes DEF Debt
<1>4. Scaled(val[u].unclaimed) \in Int
  BY <1>1, ScaledArithmetic
<1> DEFINE k == Debt(u)
           m == Scaled(val[u].unclaimed)
<1>5. k - k <= m - m
  <2>1. k \in Int /\ m \in Int
    BY <1>3, <1>4
  <2> HIDE DEF k, m
  <2> QED
    BY <2>1
<1>6. Scaled(val'[u].unclaimed) = m
  OBVIOUS
<1> QED
  BY <1>2, <1>5, <1>6 DEF Backed, k, m

\* A call that settles one delegation.
LEMMA SettledBacked ==
    ASSUME Steady, NEW v \in ValIds, NEW a \in Addrs, OnlyAbout(v, a),
           \A b \in Addrs, w \in WithdrawIds :
              OwedTo(withdrawals'[v][b][w], accs'[v], val[v].acc, epoch)
                 = OwedTo(withdrawals[v][b][w], accs[v], val[v].acc, epoch),
           Scaled(val[v].unclaimed - val'[v].unclaimed)
             + Owed(del'[v][a], accs'[v], val[v].acc, epoch)
                 <= Owed(del[v][a], accs[v], val[v].acc, epoch)
    PROVE  \A u \in ValIds : Backed(u)
<1> DEFINE acc == val[v].acc
           f == Owings(del, v, accs[v], acc, epoch)
           g == Owings(del', v, accs'[v], acc, epoch)
           h == OwingsTo(withdrawals, v, accs[v], acc, epoch)
           h1 == OwingsTo(withdrawals', v, accs'[v], acc, epoch)
           p == val[v].unclaimed
           p1 == val'[v].unclaimed
<1>1. /\ epoch' = epoch /\ val'[v].acc = acc
      /\ \A u \in ValIds \ {v} : /\ val'[u] = val[u] /\ del'[u] = del[u] /\ accs'[u] = accs[u]
                                 /\ withdrawals'[u] = withdrawals[u]
      /\ \A b \in Addrs \ {a} : del'[v][b] = del[v][b]
  BY DEF OnlyAbout
<1>2. acc \in Nat /\ p \in Int /\ p1 \in Int
  BY SteadyTypes DEF Validator
<1>3. \A u \in ValIds \ {v} : Backed(u)
  BY <1>1, OthersBacked
<1>4. /\ f \in [Addrs -> Int] /\ g \in [Addrs -> Int]
      /\ SumFunction(f) \in Int /\ SumFunction(h) \in Int
  BY <1>2, SteadyTypes, OwingsTypes
<1>5. h1 = h
  BY DEF OwingsTo
<1>6. \A b \in Addrs \ {a} : g[b] = f[b]
  <2> TAKE b \in Addrs \ {a}
  <2>1. Owed(del'[v][b], accs'[v], acc, epoch) = Owed(del[v][b], accs[v], acc, epoch)
    BY <1>1, OwedKept
  <2> QED
    BY <2>1 DEF Owings
<1>7. SumFunction(g) = SumFunction(f) - f[a] + g[a]
  <2> HIDE DEF f, g
  <2> QED
    BY <1>4, <1>6, FiniteDomains, SumReplaced
<1>8. Scaled(p - p1) + g[a] <= f[a]
  BY DEF Owings
<1>9. Scaled(p - p1) = Scaled(p) - Scaled(p1) /\ Scaled(p) \in Int /\ Scaled(p1) \in Int
  <2> HIDE DEF p, p1
  <2> QED
    BY <1>2, ScaledArithmetic
<1>10. f[a] \in Int /\ g[a] \in Int
  BY <1>4
<1>11. Debt(v) = SumFunction(f) + SumFunction(h)
  BY Zenon DEF Debt, Debts
<1>12. DebtNext(v) = SumFunction(g) + SumFunction(h)
  BY <1>1, <1>5, Zenon DEF DebtNext, Debts
<1> DEFINE k == SumFunction(f)
           m == SumFunction(g)
           n == SumFunction(h)
           x == f[a]
           y == g[a]
           q == Scaled(p)
           q1 == Scaled(p1)
<1>13. /\ k \in Int /\ n \in Int /\ x \in Int /\ y \in Int /\ q \in Int /\ q1 \in Int
       /\ m = k - x + y /\ (q - q1) + y <= x
       /\ Debt(v) = k + n /\ DebtNext(v) = m + n
  BY <1>4, <1>7, <1>8, <1>9, <1>10, <1>11, <1>12
<1> HIDE DEF f, g, h, k, m, n, x, y, q, q1, p, p1
<1>14. (m + n) - (k + n) <= q1 - q
  BY ONLY <1>13
<1>15. Backed(v)
  BY <1>13, <1>14 DEF Backed, q, q1, p, p1
<1> QED
  BY <1>3, <1>15

-----------------------------------------------------------------------------
\* Nothing pending is due and the cursor is at acc.
UpToDate(d, acc) ==
    /\ d.deltaEpoch \in {0, epoch + 1}
    /\ d.nextDeltaEpoch \in {0, epoch + 2}
    /\ d.stake = 0 \/ d.acc = acc

\* A snapshot is as it was or of this moment.
Snapshots(A, B, acc) ==
    \A e \in Epochs : B[e].refcount > 0 =>
        \/ A[e].refcount > 0 /\ B[e].value = A[e].value
        \/ B[e].value = acc

\* A call that settles the delegation of a to v.
SettledCall(v, a) ==
    /\ OnlyAbout(v, a)
    /\ UpToDate(del'[v][a], val[v].acc)
    /\ del'[v][a].acc \in {0, del[v][a].acc, val[v].acc}
    /\ Scaled(val[v].unclaimed - val'[v].unclaimed)
          <= Owed(del[v][a], accs[v], val[v].acc, epoch)
    /\ Snapshots(accs[v], accs'[v], val[v].acc)
    /\ \A b \in Addrs, w \in WithdrawIds :
          \/ withdrawals'[v][b][w] = withdrawals[v][b][w]
          \/ /\ withdrawals[v][b][w].amount = 0
             /\ withdrawals'[v][b][w].epoch = ActivationEpoch
             /\ withdrawals'[v][b][w].acc = val[v].acc

\* A call that settles one delegation takes no more from the pool than was
\* owed to it.
LEMMA SettledCallBacked ==
    ASSUME Steady, NEW v \in ValIds, NEW a \in Addrs, SettledCall(v, a)
    PROVE  \A u \in ValIds : Backed(u)
<1>1. /\ del'[v][a] \in RunningDelegator /\ val[v].acc \in Nat
      /\ val[v].unclaimed \in Int /\ val'[v].unclaimed \in Int
      /\ epoch \in 0 .. MaxEpoch
  BY SteadyTypes DEF Delegator, RunningDelegator, Validator
<1>2. Owed(del'[v][a], accs'[v], val[v].acc, epoch) = 0
  <2> DEFINE d == del'[v][a]
             A == accs'[v]
             acc == val[v].acc
  <2>1. UpToDate(d, acc) /\ d \in RunningDelegator /\ acc \in Nat
    BY <1>1 DEF SettledCall
  <2> HIDE DEF d, A, acc
  <2>2. Owed(d, A, acc, epoch) = 0
    BY <1>1, <2>1, SettledOwedNothing DEF UpToDate
  <2> QED
    BY <2>2 DEF d, A, acc
<1>3. ASSUME NEW b \in Addrs, NEW w \in WithdrawIds
      PROVE  OwedTo(withdrawals'[v][b][w], accs'[v], val[v].acc, epoch)
                = OwedTo(withdrawals[v][b][w], accs[v], val[v].acc, epoch)
  <2>1. CASE withdrawals'[v][b][w] = withdrawals[v][b][w]
    BY <1>1, <2>1, OwedToKept
  <2>2. CASE /\ withdrawals[v][b][w].amount = 0
             /\ withdrawals'[v][b][w].epoch = ActivationEpoch
             /\ withdrawals'[v][b][w].acc = val[v].acc
    <3> DEFINE r == withdrawals[v][b][w]
               q == withdrawals'[v][b][w]
               to == IF r.epoch <= epoch THEN SnapshotValue(accs[v], r.epoch) ELSE val[v].acc
               amount == q.amount
               acc == val[v].acc
               from == r.acc
    <3>1. r \in WithdrawalRequest /\ q \in WithdrawalRequest
      BY SteadyTypes
    <3>2. ~(q.epoch <= epoch)
      BY <1>1, <2>2 DEF ActivationEpoch
    <3>3. OwedTo(q, accs'[v], acc, epoch) = Accrued(amount, acc, acc)
      BY <2>2, <3>2 DEF OwedTo
    <3>4. OwedTo(r, accs[v], acc, epoch) = Accrued(0, from, to)
      BY <2>2 DEF OwedTo
    <3>5. to \in Int
      <4>1. r.epoch <= epoch => r.epoch \in Epochs
        BY <1>1, <3>1, SteadyTypes DEF Epochs, WithdrawalRequest
      <4> QED
        BY <1>1, <4>1, SteadyTypes, SnapshotValueType
    <3>6. amount \in Int /\ acc \in Int /\ from \in Int
      BY <1>1, <3>1 DEF WithdrawalRequest
    <3> HIDE DEF amount, acc, from, to
    <3>7. Accrued(amount, acc, acc) = 0
      BY <3>6, AccruedArithmetic
    <3>8. Accrued(0, from, to) = 0
      BY <3>5, <3>6, AccruedArithmetic
    <3> QED
      BY <3>3, <3>4, <3>7, <3>8 DEF acc
  <2> QED
    BY <2>1, <2>2 DEF SettledCall
<1>4. Scaled(val[v].unclaimed - val'[v].unclaimed) + 0
          <= Owed(del[v][a], accs[v], val[v].acc, epoch)
  <2>1. val[v].unclaimed - val'[v].unclaimed \in Int
    BY <1>1
  <2>2. Scaled(val[v].unclaimed - val'[v].unclaimed) \in Int
    BY <2>1, ScaledArithmetic
  <2> QED
    BY <2>2 DEF SettledCall
<1> QED
  BY <1>2, <1>3, <1>4, SettledBacked DEF SettledCall

\* Adding stake to a settled delegation.
LEMMA AddPendingUpToDate ==
    ASSUME NEW d \in Delegator, NEW amount, NEW acc, UpToDate(d, acc)
    PROVE  /\ UpToDate(AddPending(d, amount), acc)
           /\ AddPending(d, amount).acc = d.acc
<1>1. CASE inBoundary
  <2> DEFINE sum == d.nextDeltaStake + amount
             t == [d EXCEPT !.nextDeltaStake = sum, !.nextDeltaEpoch = epoch + 2]
  <2>1. AddPending(d, amount) = t
    BY <1>1 DEF AddPending
  <2> HIDE DEF sum
  <2>2. /\ t.stake = d.stake /\ t.acc = d.acc
        /\ t.deltaEpoch = d.deltaEpoch /\ t.nextDeltaEpoch = epoch + 2
    BY DEF Delegator
  <2> HIDE DEF t
  <2> QED
    BY <2>1, <2>2 DEF UpToDate
<1>2. CASE ~inBoundary
  <2> DEFINE sum == d.deltaStake + amount
             t == [d EXCEPT !.deltaStake = sum, !.deltaEpoch = epoch + 1]
  <2>1. AddPending(d, amount) = t
    BY <1>2 DEF AddPending
  <2> HIDE DEF sum
  <2>2. /\ t.stake = d.stake /\ t.acc = d.acc
        /\ t.deltaEpoch = epoch + 1 /\ t.nextDeltaEpoch = d.nextDeltaEpoch
    BY DEF Delegator
  <2> HIDE DEF t
  <2> QED
    BY <2>1, <2>2 DEF UpToDate
<1> QED
  BY <1>1, <1>2

\* Counting a reference keeps every snapshot that is in force.
LEMMA IncrementSnapshots ==
    ASSUME NEW A, NEW B \in Accumulators, KeepsSnapshots(A, B), NEW e, NEW acc
    PROVE  Snapshots(A, B, acc) /\ Snapshots(A, IncrementRefcount(B, e, acc), acc)
<1>1. \A f \in Epochs : IncrementRefcount(B, e, acc)[f] = B[f]
                        \/ IncrementRefcount(B, e, acc)[f].value = acc
  BY DEF IncrementRefcount, Accumulators
<1> QED
  BY <1>1 DEF Snapshots, KeepsSnapshots

\* A full settlement takes at most what is owed, and nothing is owed after
\* it.
LEMMA PulledPays ==
    ASSUME Inv, NEW v \in ValIds, NEW a \in Addrs
    PROVE  LET s == Pulled(v, a)
           IN  /\ Scaled(val[v].unclaimed - s.unclaimed)
                     <= Owed(del[v][a], accs[v], val[v].acc, epoch)
               /\ Owed(s.del, s.accs, val[v].acc, epoch) = 0
               /\ UpToDate(s.del, val[v].acc)
               /\ s.del.acc \in {del[v][a].acc, val[v].acc}
<1> DEFINE start == Settlement(del[v][a], val[v].unclaimed, accs[v])
           acc == val[v].acc
           s == Pulled(v, a)
           p == val[v].unclaimed
<1>1. /\ del[v][a] \in Delegator
      /\ p \in Nat /\ acc \in Nat
      /\ accs[v] \in Accumulators
      /\ epoch \in 0 .. MaxEpoch /\ inBoundary \in BOOLEAN
      /\ PendingInWindow(del[v][a])
  BY DEF Inv, TypeOK, Validator, Accumulators, PendingWindow
<1>2. /\ start \in RunningSettlement /\ start.del = del[v][a] /\ start.accs = accs[v]
      /\ start.unclaimed = p
  <2>1. start.unclaimed = p
    BY DEF Settlement
  <2> QED
    BY <1>1, <2>1, SettlementType
<1>3. s = PullDelegatorUpToDate(start, acc, epoch)
  BY DEF Pulled
<1> HIDE DEF start, acc, s
<1>4. /\ Pays(start, s, acc)
      /\ s.del.stake = 0 \/ s.del.acc = acc
      /\ s.del.acc \in {start.del.acc, acc}
      /\ Owed(s.del, s.accs, acc, epoch) = 0
  BY <1>1, <1>2, <1>3, PullPays
<1>5. /\ s \in RunningSettlement
      /\ s.del.rewards + s.unclaimed = del[v][a].rewards + p
      /\ s.del.deltaEpoch \in {0, epoch + 1}
      /\ s.del.nextDeltaEpoch \in {0, epoch + 2}
  BY PulledFacts DEF s
<1>6. Scaled(p - s.unclaimed) <= Owed(del[v][a], accs[v], acc, epoch)
  <2> DEFINE x == del[v][a].rewards
             y == s.del.rewards
             q == s.unclaimed
             m == Owed(del[v][a], accs[v], acc, epoch)
  <2>1. x \in Int /\ y \in Int /\ q \in Int /\ p \in Int /\ y + q = x + p
    BY <1>1, <1>5 DEF RunningSettlement, RunningDelegator, Delegator
  <2>2. Scaled(y - x) + 0 <= m
    BY <1>2, <1>4 DEF Pays
  <2> HIDE DEF x, y, q, m, p
  <2>3. p - q = y - x /\ y - x \in Int
    BY <2>1
  <2>4. Scaled(y - x) \in Int
    BY <2>3, ScaledArithmetic
  <2>5. Scaled(p - q) <= m
    BY <2>2, <2>3, <2>4
  <2> QED
    BY <2>5 DEF m, q
<1>7. UpToDate(s.del, acc) /\ s.del.acc \in {del[v][a].acc, acc}
  BY <1>2, <1>4, <1>5 DEF UpToDate
<1> QED
  BY <1>4, <1>6, <1>7 DEF s, acc

\* What internal_delegate starts from.
Starts(v, a, s) ==
    /\ Ready(s)
    /\ Scaled(val[v].unclaimed - s.unclaimed) + Owed(s.del, s.accs, val[v].acc, epoch)
          <= Owed(del[v][a], accs[v], val[v].acc, epoch)
    /\ s.del.acc \in {del[v][a].acc, val[v].acc}
    /\ KeepsSnapshots(accs[v], s.accs)

\* internal_delegate on a settled delegation is a settled call.
LEMMA DelegateSettlesCall ==
    ASSUME Steady, NEW v \in ValIds, NEW caller \in Addrs, NEW record \in Validator,
           NEW amount, NEW s, Starts(v, caller, s), record.acc = val[v].acc,
           InternalDelegate(v, record, caller, amount, s),
           withdrawals' = withdrawals, epoch' = epoch
    PROVE  SettledCall(v, caller) /\ \A u \in ValIds : val'[u].acc = val[u].acc
<1> DEFINE acc == val[v].acc
           pulled == PullDelegatorUpToDate(s, record.acc, epoch)
           d == AddPending(pulled.del, amount)
           A == IF TrackIsFree(pulled.del)
                THEN IncrementRefcount(pulled.accs, ActivationEpoch, record.acc)
                ELSE pulled.accs
           staked == [record EXCEPT !.stake = @ + amount, !.unclaimed = pulled.unclaimed]
           flags == FlagsAfterDelegate(staked, d, caller)
           new == [staked EXCEPT !.flags = flags]
           p == val[v].unclaimed
<1>1. /\ epoch \in 0 .. MaxEpoch /\ inBoundary \in BOOLEAN
      /\ acc \in Nat /\ p \in Nat
      /\ del[v][caller] \in RunningDelegator /\ accs[v] \in Accumulators
  BY SteadyTypes DEF Validator, Delegator, RunningDelegator
<1>2. s \in RunningSettlement /\ Solvent(s) /\ PendingInWindow(s.del)
  BY DEF Starts, Ready
<1>3. /\ Settles(s, pulled)
      /\ pulled.del.deltaEpoch \in {0, epoch + 1}
      /\ pulled.del.nextDeltaEpoch \in {0, epoch + 2}
      /\ Pays(s, pulled, acc)
      /\ pulled.del.stake = 0 \/ pulled.del.acc = acc
      /\ pulled.del.acc \in {s.del.acc, acc}
      /\ Owed(pulled.del, pulled.accs, acc, epoch) = 0
  BY <1>1, <1>2, PullSettles, PullPays
<1>4. /\ pulled.ok
      /\ del' = [del EXCEPT ![v][caller] = d]
      /\ accs' = [accs EXCEPT ![v] = A]
      /\ val' = [val EXCEPT ![v] = new]
  BY Zenon DEF InternalDelegate
<1>5. new.acc = acc /\ new.unclaimed = pulled.unclaimed
  <2>1. staked.acc = acc /\ staked.unclaimed = pulled.unclaimed
    BY DEF Validator
  <2>2. DOMAIN staked = DOMAIN record /\ "acc" \in DOMAIN record /\ "unclaimed" \in DOMAIN record
    BY DEF Validator
  <2> HIDE DEF staked
  <2> QED
    BY <2>1, <2>2
<1>5a. pulled.ok
  BY <1>4, Zenon
<1> HIDE DEF pulled, new
<1>6. /\ pulled \in RunningSettlement /\ Solvent(pulled)
      /\ KeepsSnapshots(s.accs, pulled.accs)
      /\ pulled.del.rewards + pulled.unclaimed = s.del.rewards + s.unclaimed
  BY <1>2, <1>3 DEF Settles
<1>7. pulled.ok = TRUE
  BY <1>5a, <1>6 DEF RunningSettlement
<1>8. pulled.del \in Delegator /\ pulled.accs \in Accumulators
  BY <1>6, <1>7, SuccessType
<1>9. UpToDate(d, acc) /\ d.acc \in {del[v][caller].acc, acc}
  <2>1. UpToDate(pulled.del, acc)
    BY <1>3 DEF UpToDate
  <2> DEFINE x == pulled.del
  <2>2. x \in Delegator /\ UpToDate(x, acc)
    BY <1>8, <2>1
  <2> HIDE DEF x, acc
  <2>3. UpToDate(AddPending(x, amount), acc) /\ AddPending(x, amount).acc = x.acc
    BY <2>2, AddPendingUpToDate
  <2> QED
    BY <1>3, <2>3 DEF x, acc, Starts
<1>10. Snapshots(accs[v], A, acc)
  <2>1. KeepsSnapshots(accs[v], pulled.accs)
    BY <1>6 DEF Starts, KeepsSnapshots
  <2> QED
    BY <1>8, <2>1, IncrementSnapshots
<1>11. Scaled(p - pulled.unclaimed) <= Owed(del[v][caller], accs[v], acc, epoch)
  <2> DEFINE q == s.unclaimed
             q1 == pulled.unclaimed
             x == s.del.rewards
             y == pulled.del.rewards
             k == Owed(del[v][caller], accs[v], acc, epoch)
             m == Owed(s.del, s.accs, acc, epoch)
  <2>1. /\ p \in Int /\ q \in Int /\ q1 \in Int /\ x \in Int /\ y \in Int
        /\ y + q1 = x + q
    BY <1>1, <1>2, <1>6 DEF RunningSettlement, RunningDelegator
  <2>2. Scaled(p - q) + m <= k
    BY DEF Starts
  <2>3. Scaled(y - x) + 0 <= m
    BY <1>3 DEF Pays
  <2>4. m \in Int /\ k \in Int
    BY <1>1, <1>2, OwedType DEF RunningSettlement
  <2> HIDE DEF p, q, q1, x, y, k, m
  <2>5. y - x \in Int /\ p - q \in Int /\ p - q1 = (p - q) + (y - x)
    BY <2>1
  <2>6. /\ Scaled(y - x) \in Int /\ Scaled(p - q) \in Int
        /\ Scaled(p - q1) = Scaled(p - q) + Scaled(y - x)
    BY <2>5, ScaledArithmetic
  <2>7. Scaled(p - q1) <= k
    BY <2>2, <2>3, <2>4, <2>6
  <2> QED
    BY <2>7 DEF k, q1
<1> HIDE DEF d, A
<1>12. /\ del'[v][caller] = d /\ accs'[v] = A /\ val'[v] = new
       /\ \A u \in ValIds \ {v} : val'[u] = val[u] /\ del'[u] = del[u] /\ accs'[u] = accs[u]
       /\ \A b \in Addrs \ {caller} : del'[v][b] = del[v][b]
  BY <1>4, SteadyTypes
<1>13. OnlyAbout(v, caller) /\ \A u \in ValIds : val'[u].acc = val[u].acc
  BY <1>5, <1>12 DEF OnlyAbout
<1>14. /\ UpToDate(del'[v][caller], acc)
       /\ del'[v][caller].acc \in {0, del[v][caller].acc, acc}
       /\ Snapshots(accs[v], accs'[v], acc)
       /\ Scaled(p - val'[v].unclaimed) <= Owed(del[v][caller], accs[v], acc, epoch)
  BY <1>5, <1>9, <1>10, <1>11, <1>12
<1>15. \A b \in Addrs, w \in WithdrawIds : withdrawals'[v][b][w] = withdrawals[v][b][w]
  OBVIOUS
<1> QED
  BY <1>13, <1>14, <1>15 DEF SettledCall

-----------------------------------------------------------------------------
(* What the calls settle.                                                  *)

\* What a handler settles first is what the storage holds.
LEMMA SettlementStarts ==
    ASSUME Inv, NEW v \in ValIds, NEW a \in Addrs, NEW unclaimed,
           unclaimed = val[v].unclaimed
    PROVE  Starts(v, a, Settlement(del[v][a], unclaimed, accs[v]))
<1> DEFINE s == Settlement(del[v][a], unclaimed, accs[v])
           p == val[v].unclaimed
           m == Owed(del[v][a], accs[v], val[v].acc, epoch)
<1>1. /\ del[v][a] \in Delegator /\ del[v][a] \in RunningDelegator
      /\ p \in Nat /\ val[v].acc \in Nat
      /\ accs[v] \in Accumulators
      /\ epoch \in 0 .. MaxEpoch
      /\ PendingInWindow(del[v][a])
  BY DEF Inv, TypeOK, Validator, Accumulators, PendingWindow, Delegator, RunningDelegator
<1>2. s.unclaimed = p
  BY DEF Settlement
<1>3. /\ s \in RunningSettlement /\ Solvent(s) /\ s.ok = TRUE
      /\ s.del = del[v][a] /\ s.accs = accs[v]
  BY <1>1, SettlementType
<1>4. m \in Int
  BY <1>1, OwedType
<1> HIDE DEF s, p, m
<1>5. Ready(s)
  BY <1>1, <1>3 DEF Ready
<1>6. Scaled(p - s.unclaimed) + m <= m
  <2>1. p - s.unclaimed = 0
    BY <1>1, <1>2
  <2>2. 0 + m <= m
    BY <1>4
  <2> QED
    BY <2>1, <2>2, ScaledArithmetic
<1>7. KeepsSnapshots(accs[v], s.accs)
  BY <1>3 DEF KeepsSnapshots
<1> QED
  BY <1>3, <1>5, <1>6, <1>7 DEF Starts, s, p, m

\* compound delegates from the settled delegation with its rewards taken out.
LEMMA ClearedStarts ==
    ASSUME Inv, NEW v \in ValIds, NEW a \in Addrs, Pulled(v, a).ok
    PROVE  Starts(v, a, [Pulled(v, a) EXCEPT !.del.rewards = 0])
<1> DEFINE s == Pulled(v, a)
           cleared == [s EXCEPT !.del.rewards = 0]
           acc == val[v].acc
<1>1. /\ s \in RunningSettlement /\ Solvent(s) /\ s.ok = TRUE
      /\ PendingInWindow(s.del)
      /\ KeepsSnapshots(accs[v], s.accs)
  BY PulledFacts
<1>2. /\ Scaled(val[v].unclaimed - s.unclaimed) <= Owed(del[v][a], accs[v], acc, epoch)
      /\ Owed(s.del, s.accs, acc, epoch) = 0
      /\ s.del.acc \in {del[v][a].acc, acc}
  BY PulledPays
<1>3. val[v].unclaimed \in Nat
  BY DEF Inv, TypeOK, Validator
<1> HIDE DEF s, acc
<1>4. /\ cleared \in RunningSettlement
      /\ cleared.ok = s.ok
      /\ cleared.unclaimed = s.unclaimed
      /\ cleared.accs = s.accs
      /\ cleared.del.rewards = 0
      /\ cleared.del.acc = s.del.acc
      /\ cleared.del.stake = s.del.stake
      /\ cleared.del.deltaStake = s.del.deltaStake
      /\ cleared.del.nextDeltaStake = s.del.nextDeltaStake
      /\ cleared.del.deltaEpoch = s.del.deltaEpoch
      /\ cleared.del.nextDeltaEpoch = s.del.nextDeltaEpoch
  BY <1>1 DEF RunningSettlement, RunningDelegator
<1> HIDE DEF cleared
<1>5. Ready(cleared)
  BY <1>1, <1>4 DEF Ready, Solvent, PendingInWindow
<1>6. Owed(cleared.del, cleared.accs, acc, epoch) = 0
  BY <1>2, <1>4 DEF Owed
<1>7. Scaled(val[v].unclaimed - s.unclaimed) + 0 <= Owed(del[v][a], accs[v], acc, epoch)
  <2> DEFINE x == val[v].unclaimed - s.unclaimed
             y == Scaled(x)
  <2>1. x \in Int
    BY <1>1, <1>3 DEF RunningSettlement
  <2> HIDE DEF x
  <2>2. y \in Int
    BY <2>1, ScaledArithmetic
  <2>3. y <= Owed(del[v][a], accs[v], acc, epoch)
    BY <1>2 DEF x
  <2> HIDE DEF y
  <2>4. y + 0 <= Owed(del[v][a], accs[v], acc, epoch)
    BY <2>2, <2>3
  <2> QED
    BY <2>4 DEF x, y
<1> QED
  BY <1>1, <1>2, <1>4, <1>5, <1>6, <1>7 DEF Starts, s, acc, cleared

\* No pool has had rewards before its validator is there.
Unborn == \A v \in ValIds : v > lastValId => val[v].acc = 0

\* addValidator settles the auth address with the validator it creates.
LEMMA AddValidatorSettles ==
    ASSUME Steady, Registered, Unborn,
           NEW caller \in Addrs, NEW auth \in Addrs, NEW bls \in BlsKeys,
           NEW commission \in Commissions, NEW value \in DelegateAmounts,
           HandleAddValidator(caller, auth, bls, commission, value)
    PROVE  SettledCall(lastValId + 1, auth) /\ lastValId + 1 \in ValIds
<1> DEFINE v == lastValId + 1
           record == [NoValidator EXCEPT !.commission = commission,
                                         !.auth = auth,
                                         !.flags = {"STAKE_TOO_LOW"}]
           s == Settlement(del[v][auth], 0, accs[v])
<1>1. /\ v \in ValIds
      /\ InternalDelegate(v, record, auth, value, s)
      /\ UNCHANGED <<withdrawals, clock>>
  BY Zenon DEF HandleAddValidator
<1>2. commission \in Nat
  BY StakingAssumption
<1>3. lastValId \in Nat /\ v > lastValId
  BY StakingAssumption DEF Steady, Inv, TypeOK
<1> HIDE DEF v
<1>4. val[v].acc = 0 /\ val[v].unclaimed = 0
  BY <1>1, <1>3 DEF Unborn, Registered, Untouched
<1>5. record \in Validator /\ record.acc = 0
  BY <1>2 DEF NoValidator, Validator, Flags
<1> HIDE DEF record
<1>6. Starts(v, auth, s)
  BY <1>1, <1>4, SettlementStarts DEF Steady
<1> HIDE DEF s
<1>7. withdrawals' = withdrawals /\ epoch' = epoch
  BY <1>1 DEF clock
<1> QED
  BY <1>1, <1>4, <1>5, <1>6, <1>7, DelegateSettlesCall DEF v

\* delegate settles its caller.
LEMMA DelegateCallSettles ==
    ASSUME Steady, NEW v \in ValIds, NEW caller \in Addrs,
           NEW value \in DelegateAmounts, HandleDelegate(v, caller, value)
    PROVE  SettledCall(v, caller)
<1> DEFINE s == Settlement(del[v][caller], val[v].unclaimed, accs[v])
<1>1. /\ InternalDelegate(v, val[v], caller, value, s)
      /\ UNCHANGED <<withdrawals, clock>>
  BY Zenon DEF HandleDelegate
<1>2. val[v] \in Validator
  BY SteadyTypes
<1>3. Starts(v, caller, s)
  BY SettlementStarts DEF Steady
<1> HIDE DEF s
<1>4. withdrawals' = withdrawals /\ epoch' = epoch
  BY <1>1 DEF clock
<1> QED
  BY <1>1, <1>2, <1>3, <1>4, DelegateSettlesCall

\* compound settles its caller, twice.
LEMMA CompoundSettles ==
    ASSUME Steady, NEW v \in ValIds, NEW caller \in Addrs, HandleCompound(v, caller)
    PROVE  SettledCall(v, caller)
<1> DEFINE s == Pulled(v, caller)
           cleared == [s EXCEPT !.del.rewards = 0]
           amount == s.del.rewards
<1>1. /\ s.ok
      /\ InternalDelegate(v, val[v], caller, amount, cleared)
      /\ UNCHANGED <<withdrawals, clock>>
  BY Zenon DEF HandleCompound
<1>2. val[v] \in Validator
  BY SteadyTypes
<1>3. Starts(v, caller, cleared)
  BY <1>1, ClearedStarts DEF Steady
<1> HIDE DEF s, cleared, amount
<1>4. withdrawals' = withdrawals /\ epoch' = epoch
  BY <1>1 DEF clock
<1> QED
  BY <1>1, <1>2, <1>3, <1>4, DelegateSettlesCall

\* claimRewards and getDelegator settle and do no more.
LEMMA SettlingSettles ==
    ASSUME Steady, NEW v \in ValIds, NEW a \in Addrs,
           HandleClaimRewards(v, a) \/ HandleGetDelegator(v, a)
    PROVE  SettledCall(v, a)
<1> DEFINE s == Pulled(v, a)
           claimed == [s.del EXCEPT !.rewards = 0]
           d == del'[v][a]
           acc == val[v].acc
<1>1. /\ s.ok
      /\ Store(v, a, s, claimed) \/ Store(v, a, s, s.del)
      /\ UNCHANGED clock
  BY DEF HandleClaimRewards, HandleGetDelegator
<1>2. Inv
  BY DEF Steady
<1>3. /\ s.del \in Delegator
      /\ KeepsSnapshots(accs[v], s.accs)
      /\ s.accs \in Accumulators
  BY <1>1, <1>2, PulledFacts
<1>4. /\ Scaled(val[v].unclaimed - s.unclaimed) <= Owed(del[v][a], accs[v], acc, epoch)
      /\ UpToDate(s.del, acc)
      /\ s.del.acc \in {del[v][a].acc, acc}
  BY <1>2, PulledPays
<1> HIDE DEF s, acc
<1>5. /\ claimed.stake = s.del.stake
      /\ claimed.acc = s.del.acc
      /\ claimed.deltaEpoch = s.del.deltaEpoch
      /\ claimed.nextDeltaEpoch = s.del.nextDeltaEpoch
  BY <1>3 DEF Delegator
<1> HIDE DEF claimed
<1>6. /\ val' = [val EXCEPT ![v].unclaimed = s.unclaimed]
      /\ accs' = [accs EXCEPT ![v] = s.accs]
      /\ withdrawals' = withdrawals
  BY <1>1, Zenon DEF Store
<1>7. \/ del' = [del EXCEPT ![v][a] = claimed]
      \/ del' = [del EXCEPT ![v][a] = s.del]
  BY <1>1, Zenon DEF Store
<1>8. d \in {claimed, s.del}
  BY <1>7, SteadyTypes
<1>9. UpToDate(d, acc) /\ d.acc \in {del[v][a].acc, acc}
  BY <1>4, <1>5, <1>8 DEF UpToDate
<1>10. /\ val'[v].unclaimed = s.unclaimed
       /\ \A u \in ValIds : val'[u].acc = val[u].acc
       /\ \A u \in ValIds \ {v} : val'[u] = val[u] /\ del'[u] = del[u] /\ accs'[u] = accs[u]
       /\ \A b \in Addrs \ {a} : del'[v][b] = del[v][b]
       /\ accs'[v] = s.accs
       /\ epoch' = epoch
  BY <1>1, <1>6, <1>7, SteadyTypes DEF Validator, clock
<1>11. OnlyAbout(v, a)
  BY <1>6, <1>10 DEF OnlyAbout
<1>12. Snapshots(accs[v], accs'[v], acc)
  BY <1>3, <1>10, IncrementSnapshots
<1>13. \A b \in Addrs, w \in WithdrawIds : withdrawals'[v][b][w] = withdrawals[v][b][w]
  BY <1>6
<1> QED
  BY <1>4, <1>9, <1>10, <1>11, <1>12, <1>13 DEF SettledCall, d, acc

\* undelegate settles its caller and files a request that is owed nothing
\* yet.
LEMMA UndelegateSettles ==
    ASSUME Steady, NEW v \in ValIds, NEW caller \in Addrs,
           NEW asked \in UndelegateAmounts, NEW wid \in WithdrawIds,
           HandleUndelegate(v, caller, asked, wid)
    PROVE  SettledCall(v, caller)
<1> DEFINE s         == Pulled(v, caller)
           remaining == s.del.stake - asked
           amount    == IF remaining < DUST_THRESHOLD THEN s.del.stake ELSE asked
           left      == s.del.stake - amount
           cursor    == IF s.del.stake = amount THEN 0 ELSE s.del.acc
           d         == [s.del EXCEPT !.stake = left, !.acc = cursor]
           r         == UndelegateRequest(s.del, d, amount)
           staked    == [val[v] EXCEPT !.stake = @ - amount, !.unclaimed = s.unclaimed]
           flags     == FlagsAfterUndelegate(staked, d, caller)
           new       == [staked EXCEPT !.flags = flags]
           A         == IncrementRefcount(s.accs, ActivationEpoch, val[v].acc)
           acc       == val[v].acc
<1>1. /\ s.ok /\ asked # 0 /\ asked <= s.del.stake
      /\ withdrawals[v][caller][wid].amount = 0
      /\ del' = [del EXCEPT ![v][caller] = d]
      /\ withdrawals' = [withdrawals EXCEPT ![v][caller][wid] = r]
      /\ val' = [val EXCEPT ![v] = new]
      /\ accs' = [accs EXCEPT ![v] = A]
      /\ UNCHANGED clock
  BY DEF HandleUndelegate
<1>2. Inv /\ val[v] \in Validator
  BY SteadyTypes DEF Steady
<1>3. /\ s.del \in Delegator /\ s.accs \in Accumulators
      /\ KeepsSnapshots(accs[v], s.accs)
  BY <1>1, <1>2, PulledFacts
<1>4. /\ Scaled(val[v].unclaimed - s.unclaimed) <= Owed(del[v][caller], accs[v], acc, epoch)
      /\ UpToDate(s.del, acc)
      /\ s.del.acc \in {del[v][caller].acc, acc}
  BY <1>2, PulledPays
<1> HIDE DEF s, acc
<1>5. asked \in Nat \ {0} /\ s.del.stake \in Nat /\ s.del.stake # 0
  BY <1>1, <1>3, StakingAssumption DEF Delegator
<1>6. s.del.acc = acc
  BY <1>4, <1>5 DEF UpToDate
<1> HIDE DEF amount
<1>7. left = 0 \/ cursor = s.del.acc
  BY <1>5
<1>8. cursor \in {0, acc}
  BY <1>6
<1> HIDE DEF left, cursor
<1>9. /\ d.stake = left /\ d.acc = cursor
      /\ d.deltaEpoch = s.del.deltaEpoch
      /\ d.nextDeltaEpoch = s.del.nextDeltaEpoch
  BY <1>3 DEF Delegator
<1> HIDE DEF d
<1>10. UpToDate(d, acc)
  BY <1>4, <1>6, <1>7, <1>9 DEF UpToDate
<1>11. new.acc = val[v].acc /\ new.unclaimed = s.unclaimed
  <2>1. /\ staked.acc = val[v].acc /\ staked.unclaimed = s.unclaimed
        /\ "acc" \in DOMAIN staked /\ "unclaimed" \in DOMAIN staked
    BY <1>2 DEF Validator
  <2> HIDE DEF staked, flags
  <2> QED
    BY <2>1
<1> HIDE DEF new
<1>12. Snapshots(accs[v], A, acc)
  BY <1>3, IncrementSnapshots DEF acc
<1>13. r.epoch = ActivationEpoch /\ r.acc = acc
  BY <1>6 DEF UndelegateRequest
<1> HIDE DEF A, r
<1>14. /\ del'[v][caller] = d /\ accs'[v] = A /\ val'[v] = new
       /\ \A u \in ValIds \ {v} : val'[u] = val[u] /\ del'[u] = del[u] /\ accs'[u] = accs[u]
       /\ \A b \in Addrs \ {caller} : del'[v][b] = del[v][b]
       /\ epoch' = epoch
  BY <1>1, SteadyTypes DEF clock
<1>15. /\ \A u \in ValIds \ {v} : withdrawals'[u] = withdrawals[u]
       /\ withdrawals'[v][caller][wid] = r
       /\ \A b \in Addrs, w \in WithdrawIds : b # caller \/ w # wid =>
             withdrawals'[v][b][w] = withdrawals[v][b][w]
  BY <1>1, SteadyTypes
<1>16. \A b \in Addrs, w \in WithdrawIds :
          \/ withdrawals'[v][b][w] = withdrawals[v][b][w]
          \/ /\ withdrawals[v][b][w].amount = 0
             /\ withdrawals'[v][b][w].epoch = ActivationEpoch
             /\ withdrawals'[v][b][w].acc = acc
  BY <1>1, <1>13, <1>15
<1>17. OnlyAbout(v, caller)
  BY <1>11, <1>14, <1>15 DEF OnlyAbout
<1> QED
  BY <1>4, <1>8, <1>9, <1>10, <1>11, <1>12, <1>14, <1>16, <1>17 DEF SettledCall, acc

\* A call that pays a withdrawal out.
PaidOut(v, a, w) ==
    LET r == withdrawals[v][a][w]
    IN  /\ r.epoch <= epoch
        /\ epoch' = epoch
        /\ del' = del
        /\ withdrawals' = [withdrawals EXCEPT ![v][a][w] = NoWithdrawal]
        /\ \A u \in ValIds \ {v} : val'[u] = val[u] /\ accs'[u] = accs[u]
        /\ val'[v].acc = val[v].acc
        /\ val'[v].unclaimed = val[v].unclaimed - WithdrawalRewards(v, r)
        /\ KeepsSnapshots(accs[v], accs'[v])

\* withdraw pays a request what it is owed and removes it.
LEMMA WithdrawPaysOut ==
    ASSUME Steady, NEW v \in ValIds, NEW a \in Addrs, NEW w \in WithdrawIds,
           HandleWithdraw(v, a, w)
    PROVE  PaidOut(v, a, w)
<1> DEFINE r == withdrawals[v][a][w]
           rewards == WithdrawalRewards(v, r)
           A == DecrementRefcount(accs[v], r.epoch)
<1>1. /\ WithdrawalReady(r)
      /\ accs' = [accs EXCEPT ![v] = A]
      /\ val' = [val EXCEPT ![v].unclaimed = @ - rewards]
      /\ withdrawals' = [withdrawals EXCEPT ![v][a][w] = NoWithdrawal]
      /\ UNCHANGED <<clock, del>>
  BY DEF HandleWithdraw
<1>2. r.epoch <= epoch /\ r.epoch \in Nat
  BY <1>1, SteadyTypes DEF WithdrawalReady, IsEpochActive, WithdrawalRequest
<1>3. r.epoch \in Epochs /\ accs[v] \in Accumulators
  BY <1>2, SteadyTypes DEF Epochs
<1> HIDE DEF r, rewards
<1>4. KeepsSnapshots(accs[v], A)
  BY <1>3, DecrementKeepsSnapshots
<1> HIDE DEF A
<1>5. /\ \A u \in ValIds \ {v} : val'[u] = val[u] /\ accs'[u] = accs[u]
      /\ val'[v].acc = val[v].acc
      /\ val'[v].unclaimed = val[v].unclaimed - rewards
      /\ accs'[v] = A
      /\ epoch' = epoch /\ del' = del
  BY <1>1, SteadyTypes DEF Validator, clock
<1> QED
  BY <1>1, <1>2, <1>4, <1>5 DEF PaidOut, r, rewards

\* What withdraw pays from the pool is no longer owed.
LEMMA PaidOutBacked ==
    ASSUME Steady, NEW v \in ValIds, NEW a \in Addrs, NEW w \in WithdrawIds,
           PaidOut(v, a, w)
    PROVE  \A u \in ValIds : Backed(u)
<1> DEFINE S == Addrs \X WithdrawIds
           i == <<a, w>>
           r == withdrawals[v][a][w]
           acc == val[v].acc
           rewards == WithdrawalRewards(v, r)
           f == Owings(del, v, accs[v], acc, epoch)
           f1 == Owings(del', v, accs'[v], acc, epoch)
           g == OwingsTo(withdrawals, v, accs[v], acc, epoch)
           g1 == OwingsTo(withdrawals', v, accs'[v], acc, epoch)
           p == val[v].unclaimed
           p1 == val'[v].unclaimed
<1>1. /\ r.epoch <= epoch /\ epoch' = epoch /\ del' = del
      /\ val'[v].acc = acc
      /\ p1 = p - rewards
      /\ withdrawals'[v][a][w] = NoWithdrawal
      /\ \A u \in ValIds \ {v} : val'[u] = val[u] /\ accs'[u] = accs[u]
      /\ \A u \in ValIds \ {v} : withdrawals'[u] = withdrawals[u]
      /\ \A b \in Addrs, z \in WithdrawIds : b # a \/ z # w =>
            withdrawals'[v][b][z] = withdrawals[v][b][z]
  BY SteadyTypes DEF PaidOut
<1>2. /\ acc \in Nat /\ p \in Int /\ p1 \in Int /\ r \in WithdrawalRequest
      /\ epoch \in 0 .. MaxEpoch
      /\ accs[v] \in Accumulators /\ accs'[v] \in Accumulators
  BY SteadyTypes DEF Validator
<1>3. \A u \in ValIds \ {v} : Backed(u)
  BY <1>1, OthersBacked
<1>4. /\ g \in [S -> Int] /\ g1 \in [S -> Int]
      /\ SumFunction(f) \in Int /\ SumFunction(g) \in Int
  BY <1>2, SteadyTypes, OwingsTypes
<1>5. f1 = f
  <2>1. \A b \in Addrs : Owed(del'[v][b], accs'[v], acc, epoch)
                            = Owed(del[v][b], accs[v], acc, epoch)
    BY <1>1, OwedKept
  <2> QED
    BY <2>1 DEF Owings
<1>6. \A j \in S \ {i} : g1[j] = g[j]
  <2>1. ASSUME NEW b \in Addrs, NEW z \in WithdrawIds, b # a \/ z # w
        PROVE  OwedTo(withdrawals'[v][b][z], accs'[v], acc, epoch)
                  = OwedTo(withdrawals[v][b][z], accs[v], acc, epoch)
    BY <1>1, <1>2, <2>1, OwedToKept
  <2> QED
    BY <2>1 DEF OwingsTo
<1>7. g1[i] = 0
  <2>1. g1[i] = OwedTo(NoWithdrawal, accs'[v], acc, epoch)
    BY <1>1 DEF OwingsTo
  <2>2. SnapshotValue(accs'[v], 0) \in Int
    BY <1>2, StakingAssumption, SnapshotValueType DEF Epochs
  <2> DEFINE to == IF 0 <= epoch THEN SnapshotValue(accs'[v], 0) ELSE acc
  <2>3. to \in Int
    BY <1>2, <2>2
  <2>4. OwedTo(NoWithdrawal, accs'[v], acc, epoch) = Accrued(0, 0, to)
    BY DEF OwedTo, NoWithdrawal
  <2> HIDE DEF to
  <2> QED
    BY <2>1, <2>3, <2>4, AccruedArithmetic
<1>8. Scaled(rewards) <= g[i] /\ rewards \in Int
  <2> DEFINE amount == r.amount
             from == r.acc
             to == SnapshotValue(accs[v], r.epoch)
  <2>1. amount \in Nat /\ from \in Nat /\ r.epoch \in Epochs
    BY <1>1, <1>2, SteadyTypes DEF WithdrawalRequest, Epochs
  <2>2. to \in Nat
    BY <1>2, <2>1, SnapshotValueType
  <2>3. rewards = CalculateRewards(amount, to, from)
    BY DEF WithdrawalRewards
  <2>4. g[i] = Accrued(amount, from, to)
    BY <1>1 DEF OwingsTo, OwedTo
  <2> HIDE DEF amount, from, to, g, i, rewards
  <2> QED
    BY <2>1, <2>2, <2>3, <2>4, FloorScaled, CalculateRewardsType
<1> HIDE DEF f, f1, g, g1, rewards, p, p1
<1>9. SumFunction(g1) = SumFunction(g) - g[i] + g1[i]
  <2>1. IsFiniteSet(S) /\ i \in S
    BY StakingAssumption, FS_Product
  <2> QED
    BY <1>4, <1>6, <2>1, SumReplaced
<1>10. Scaled(p1) = Scaled(p) - Scaled(rewards)
       /\ Scaled(p) \in Int /\ Scaled(p1) \in Int /\ Scaled(rewards) \in Int
  <2>1. p1 = p - rewards
    BY <1>1 DEF p, p1, rewards
  <2> QED
    BY <1>2, <1>8, <2>1, ScaledArithmetic
<1>11. Debt(v) = SumFunction(f) + SumFunction(g)
  BY Zenon DEF Debt, Debts, f, g
<1>12. DebtNext(v) = SumFunction(f) + SumFunction(g1)
  BY <1>1, <1>5, Zenon DEF DebtNext, Debts, f1, g1
<1> DEFINE k == SumFunction(f)
           m == SumFunction(g)
           m1 == SumFunction(g1)
           x == g[i]
           y == g1[i]
           q == Scaled(p)
           q1 == Scaled(p1)
           c == Scaled(rewards)
<1>13. x \in Int
  <2>1. i \in S
    OBVIOUS
  <2> QED
    BY <1>4, <2>1
<1>14. /\ k \in Int /\ m \in Int /\ x \in Int /\ y = 0 /\ m1 = m - x + y
       /\ q \in Int /\ c \in Int /\ q1 = q - c /\ c <= x
       /\ Debt(v) = k + m /\ DebtNext(v) = k + m1
  BY <1>4, <1>7, <1>8, <1>9, <1>10, <1>11, <1>12, <1>13
<1> HIDE DEF k, m, m1, x, y, q, q1, c
<1>15. (k + m1) - (k + m) <= q1 - q
  BY ONLY <1>14
<1>16. Backed(v)
  BY <1>14, <1>15 DEF Backed, q, q1, p, p1
<1> QED
  BY <1>3, <1>16

-----------------------------------------------------------------------------
(* What a reward adds to what is owed.                                     *)
\* Each term grows by n times another.
Grows(S, f, g, n, h) == \A x \in S : g[x] = f[x] + n * h[x]

\* Terms that grow by multiples of others make a sum that does.
LEMMA SumGrows ==
    ASSUME NEW S, IsFiniteSet(S), NEW n \in Int,
           NEW f \in [S -> Int], NEW g \in [S -> Int], NEW h \in [S -> Int],
           Grows(S, f, g, n, h)
    PROVE  SumFunction(g) = SumFunction(f) + n * SumFunction(h)
<1> DEFINE m == [x \in S |-> n * h[x]]
<1>1. /\ SumFunction(f) = SumFunctionOnSet(f, S)
      /\ SumFunction(g) = SumFunctionOnSet(g, S)
      /\ SumFunction(h) = SumFunctionOnSet(h, S)
  BY DEF SumFunction
<1>2. \A x \in S : h[x] \in Int /\ m[x] = n * h[x]
  OBVIOUS
<1>3. \A i \in Int : n * i \in Int
  OBVIOUS
<1>4. \A x \in S : f[x] \in Int /\ m[x] \in Int /\ g[x] = f[x] + m[x]
  BY <1>2, <1>3 DEF Grows
<1> HIDE DEF m
<1>5. SumFunctionOnSet(m, S) = n * SumFunctionOnSet(h, S)
  BY <1>2, SumTimes
<1>6. SumFunctionOnSet(g, S) = SumFunctionOnSet(f, S) + SumFunctionOnSet(m, S)
  BY <1>4, SumPlus
<1> QED
  BY <1>1, <1>5, <1>6

\* A reward adds to a delegation's debt in proportion to its active stake.
LEMMA OwedGrows ==
    ASSUME NEW d \in RunningDelegator, NEW A \in Accumulators, NEW acc \in Nat, NEW n \in Nat,
           NEW now \in 0 .. MaxEpoch
    PROVE  Owed(d, A, acc + n, now) = Owed(d, A, acc, now) + n * ActiveIn(d, now)
<1> DEFINE one == IsEpochActive(now, d.deltaEpoch)
           two == IsEpochActive(now, d.nextDeltaEpoch)
           i == d.stake
           j == IF one THEN d.deltaStake ELSE 0
           k == IF two THEN d.nextDeltaStake ELSE 0
           x == Accrued(d.stake, d.acc, acc)
           y == OwedOn(d.deltaStake, d.deltaEpoch, A, acc, now)
           z == OwedOn(d.nextDeltaStake, d.nextDeltaEpoch, A, acc, now)
<1>1. /\ d.stake \in Nat /\ d.deltaStake \in Nat /\ d.nextDeltaStake \in Nat
      /\ d.acc \in Nat /\ d.deltaEpoch \in Nat /\ d.nextDeltaEpoch \in Nat
      /\ i \in Int /\ j \in Int /\ k \in Int
  BY DEF RunningDelegator
<1>2. \A stake, from \in Int :
          /\ Accrued(stake, from, acc) \in Int
          /\ Accrued(stake, from, acc + n) = Accrued(stake, from, acc) + n * stake
  <2> TAKE stake, from \in Int
  <2>1. acc \in Int /\ n \in Int
    OBVIOUS
  <2>2. Accrued(stake, from, acc) \in Int
    BY <2>1, AccruedArithmetic
  <2>3. \A more \in Int : Accrued(stake, from, acc + more)
                              = Accrued(stake, from, acc) + more * stake
    <3>1. \A p, q, r \in Int : (p + q) * r = p * r + q * r
      OBVIOUS
    <3>2. \A more \in Int : (acc + more) - from = (acc - from) + more /\ acc - from \in Int
      BY <2>1
    <3> QED
      BY <3>1, <3>2 DEF Accrued
  <2> QED
    BY <2>1, <2>2, <2>3, Zenon
<1>3. \A e \in Nat : IsEpochActive(now, e) => SnapshotValue(A, e) \in Int
  <2> TAKE e \in Nat
  <2>1. IsEpochActive(now, e) => e \in Epochs
    BY StakingAssumption DEF IsEpochActive, Epochs
  <2> QED
    BY <2>1, SnapshotValueType
<1>4. x \in Int /\ Accrued(d.stake, d.acc, acc + n) = x + n * i
  <2>1. d.stake \in Int /\ d.acc \in Int
    BY <1>1
  <2> QED
    BY <1>2, <2>1, Zenon
<1>5. \A stake, e \in Nat :
          /\ OwedOn(stake, e, A, acc, now) \in Int
          /\ OwedOn(stake, e, A, acc + n, now)
                = OwedOn(stake, e, A, acc, now) + n * (IF IsEpochActive(now, e) THEN stake ELSE 0)
  <2> TAKE stake, e \in Nat
  <2> DEFINE from == SnapshotValue(A, e)
  <2>1. CASE IsEpochActive(now, e)
    <3>1. from \in Int /\ stake \in Int
      BY <1>3, <2>1
    <3>2. /\ OwedOn(stake, e, A, acc, now) = Accrued(stake, from, acc)
          /\ OwedOn(stake, e, A, acc + n, now) = Accrued(stake, from, acc + n)
      BY <2>1 DEF OwedOn
    <3> HIDE DEF from
    <3> QED
      BY <1>2, <2>1, <3>1, <3>2
  <2>2. CASE ~IsEpochActive(now, e)
    BY <2>2 DEF OwedOn
  <2> QED
    BY <2>1, <2>2
<1>6. /\ y \in Int /\ OwedOn(d.deltaStake, d.deltaEpoch, A, acc + n, now) = y + n * j
      /\ z \in Int /\ OwedOn(d.nextDeltaStake, d.nextDeltaEpoch, A, acc + n, now) = z + n * k
  BY <1>1, <1>5
<1>7. Owed(d, A, acc + n, now) = (x + n * i) + ((y + n * j) + (z + n * k))
  BY <1>4, <1>6 DEF Owed
<1>8. Owed(d, A, acc, now) = x + (y + z) /\ ActiveIn(d, now) = i + j + k
  BY DEF Owed, ActiveIn
<1> HIDE DEF i, j, k, x, y, z
<1>9. \A a, b, c \in Int : n * (a + b + c) = n * a + n * b + n * c
                           /\ n * a \in Int /\ n * b \in Int /\ n * c \in Int
  OBVIOUS
<1>10. n * (i + j + k) = n * i + n * j + n * k /\ n * i \in Int /\ n * j \in Int /\ n * k \in Int
  BY <1>1, <1>9
<1> DEFINE ni == n * i
           nj == n * j
           nk == n * k
<1>11. ni \in Int /\ nj \in Int /\ nk \in Int /\ n * (i + j + k) = ni + nj + nk
  BY <1>10
<1>12. Owed(d, A, acc + n, now) = (x + ni) + ((y + nj) + (z + nk))
  BY <1>7
<1> HIDE DEF ni, nj, nk
<1>13. x \in Int /\ y \in Int /\ z \in Int
  BY <1>4, <1>6
<1>14. (x + ni) + ((y + nj) + (z + nk)) = (x + (y + z)) + (ni + nj + nk)
  BY ONLY <1>11, <1>13
<1> QED
  BY <1>8, <1>11, <1>12, <1>14

\* And to a withdrawal's, while that still earns.
LEMMA OwedToGrows ==
    ASSUME NEW r \in WithdrawalRequest, NEW A, NEW acc \in Nat, NEW n \in Nat,
           NEW now \in 0 .. MaxEpoch, r.epoch <= now => SnapshotValue(A, r.epoch) \in Int
    PROVE  OwedTo(r, A, acc + n, now) = OwedTo(r, A, acc, now) + n * Earns(r, now)
<1> DEFINE amount == r.amount
           from == r.acc
<1>1. amount \in Int /\ from \in Int /\ r.epoch \in Nat /\ n * 0 = 0
  BY DEF WithdrawalRequest
<1>2. CASE r.epoch <= now
  <2> DEFINE x == SnapshotValue(A, r.epoch)
  <2>1. x \in Int /\ ~(r.epoch > now)
    BY <1>1, <1>2
  <2>2. /\ OwedTo(r, A, acc, now) = Accrued(amount, from, x)
        /\ OwedTo(r, A, acc + n, now) = Accrued(amount, from, x)
        /\ Earns(r, now) = 0
    BY <1>2, <2>1 DEF OwedTo, Earns
  <2> HIDE DEF amount, from, x
  <2>3. Accrued(amount, from, x) \in Int
    BY <1>1, <2>1, AccruedArithmetic
  <2> QED
    BY <1>1, <2>2, <2>3
<1>3. CASE r.epoch > now
  <2>1. ~(r.epoch <= now)
    BY <1>1, <1>3
  <2>2. /\ OwedTo(r, A, acc, now) = Accrued(amount, from, acc)
        /\ OwedTo(r, A, acc + n, now) = Accrued(amount, from, acc + n)
        /\ Earns(r, now) = amount
    BY <1>3, <2>1 DEF OwedTo, Earns
  <2> HIDE DEF amount, from
  <2> QED
    BY <1>1, <2>2, AccruedArithmetic
<1> QED
  BY <1>1, <1>2, <1>3

-----------------------------------------------------------------------------
\* What earns and what has been earned stays, whatever is paid to an account.
SameStakes(d, f) ==
    /\ f.stake = d.stake /\ f.acc = d.acc
    /\ f.deltaStake = d.deltaStake /\ f.deltaEpoch = d.deltaEpoch
    /\ f.nextDeltaStake = d.nextDeltaStake /\ f.nextDeltaEpoch = d.nextDeltaEpoch

\* A call that gives a reward to the pool of v.
Rewarded(v, shared) ==
    /\ v <= lastValId
    /\ shared \in Nat
    /\ CurrentView(v).stake # 0
    /\ UNCHANGED <<clock, registry, epochSets, withdrawals, accs>>
    /\ \A u \in ValIds \ {v} : val'[u] = val[u] /\ del'[u] = del[u]
    /\ val'[v].acc = val[v].acc + PerToken(shared, CurrentView(v).stake)
    /\ val'[v].unclaimed = val[v].unclaimed + shared
    /\ \A u \in ValIds, b \in Addrs : SameStakes(del[u][b], del'[u][b])

\* externalReward raises accumulator and pool together.
LEMMA ExternalRewardRewards ==
    ASSUME Steady, Registered, NEW v \in ValIds, NEW caller \in Addrs,
           NEW value \in ExternalRewards, HandleExternalReward(v, caller, value)
    PROVE  Rewarded(v, value)
<1> DEFINE new == val[v].acc + PerToken(value, CurrentView(v).stake)
           pool == val[v].unclaimed + value
           record == [val[v] EXCEPT !.acc = new, !.unclaimed = pool]
<1>1. /\ Exists(v)
      /\ CurrentView(v).stake # 0
      /\ val' = [val EXCEPT ![v].acc = @ + PerToken(value, CurrentView(v).stake),
                            ![v].unclaimed = @ + value]
      /\ UNCHANGED <<clock, registry, epochSets, del, withdrawals, accs>>
  BY DEF HandleExternalReward
<1>2. val \in [ValIds -> Validator] /\ val[v] \in Validator /\ value \in Nat
  BY SteadyTypes, StakingAssumption
<1>3. v <= lastValId
  <2>1. lastValId \in Int /\ v \in Int
    BY DEF Steady, Inv, TypeOK, ValIds
  <2>2. ~(v > lastValId)
    BY <1>1 DEF Registered, Untouched, Exists
  <2> QED
    BY <2>1, <2>2
<1>4. val' = [val EXCEPT ![v] = record]
  BY <1>1, <1>2 DEF Validator
<1> HIDE DEF new, pool
<1>5. record.acc = new /\ record.unclaimed = pool
  BY <1>2 DEF Validator
<1> HIDE DEF record
<1>6. val'[v].acc = new /\ val'[v].unclaimed = pool
      /\ \A u \in ValIds \ {v} : val'[u] = val[u] /\ del'[u] = del[u]
  BY <1>1, <1>2, <1>4, <1>5
<1>7. \A u \in ValIds, b \in Addrs : SameStakes(del[u][b], del'[u][b])
  BY <1>1 DEF SameStakes
<1> QED
  BY <1>1, <1>2, <1>3, <1>6, <1>7 DEF Rewarded, new, pool

\* So does syscallReward, with what is left after the commission.
LEMMA SyscallRewardRewards ==
    ASSUME Steady, Registered, NEW author \in Addrs, NEW reward \in BlockRewards,
           HandleSyscallReward(author, reward)
    PROVE  \E v \in ValIds, shared \in Nat : Rewarded(v, shared)
<1> DEFINE v == valIdSecp[author]
           view == CurrentView(v)
           commission == (reward * view.commission) \div MON
           shared == reward - commission
           auth == val[v].auth
           new == val[v].acc + PerToken(shared, view.stake)
           pool == val[v].unclaimed + shared
           record == [val[v] EXCEPT !.acc = new, !.unclaimed = pool]
           credited == del[v][auth].rewards + commission
           d == [del[v][auth] EXCEPT !.rewards = credited]
<1>1. /\ v # NO_VALIDATOR
      /\ view.stake # 0
      /\ commission <= reward
      /\ del' = [del EXCEPT ![v][auth].rewards = @ + commission]
      /\ val' = [val EXCEPT ![v].unclaimed = @ + shared,
                            ![v].acc = @ + PerToken(shared, view.stake)]
      /\ UNCHANGED <<clock, registry, epochSets, withdrawals, accs>>
  BY DEF HandleSyscallReward, DistributeReward
<1>2. v \in ValIds /\ v <= lastValId /\ v \in Int
  BY <1>1, StakingAssumption DEF Steady, Inv, TypeOK, Registered, NO_VALIDATOR, ValIds
<1>3. view.commission \in Nat
  BY <1>2 DEF Steady, Inv, TypeOK, View, CurrentView
<1> HIDE DEF v, view
<1>4. commission \in Int /\ reward \in Int
  <2>1. \A x, y \in Nat : x * y \in Nat
    OBVIOUS
  <2>2. reward \in Nat /\ MON \in Nat \ {0}
    BY StakingAssumption, StakingConstantsAssumption
  <2>3. reward * view.commission \in Nat
    BY <1>3, <2>1, <2>2
  <2>4. \A n \in Nat : n \div MON \in Nat
    BY <2>2
  <2> QED
    BY <2>2, <2>3, <2>4
<1> HIDE DEF commission
<1>5. shared \in Nat
  BY <1>1, <1>4
<1>6. /\ val \in [ValIds -> Validator] /\ del \in [ValIds -> [Addrs -> Delegator]]
      /\ val[v] \in Validator
  BY <1>2, SteadyTypes
<1>7. auth \in Addrs
  BY <1>2, <1>6 DEF Registered, Validator
<1>8. del' = [del EXCEPT ![v][auth] = d]
  BY <1>1, <1>2, <1>6, <1>7 DEF Delegator
<1>9. val' = [val EXCEPT ![v] = record]
  BY <1>1, <1>2, <1>6 DEF Validator
<1> HIDE DEF new, pool, credited, auth
<1>10. record.acc = new /\ record.unclaimed = pool
  BY <1>6 DEF Validator
<1>11. SameStakes(del[v][auth], d)
  BY <1>2, <1>6, <1>7 DEF Delegator, SameStakes
<1> HIDE DEF record, d
<1>12. /\ val'[v].acc = new /\ val'[v].unclaimed = pool
       /\ \A u \in ValIds \ {v} : val'[u] = val[u] /\ del'[u] = del[u]
  BY <1>2, <1>6, <1>8, <1>9, <1>10
<1>13. \A u \in ValIds, b \in Addrs : SameStakes(del[u][b], del'[u][b])
  <2> TAKE u \in ValIds, b \in Addrs
  <2>1. CASE u = v /\ b = auth
    <3>1. del'[u][b] = d
      BY <1>2, <1>6, <1>7, <1>8, <2>1
    <3> QED
      BY <1>11, <2>1, <3>1
  <2>2. CASE ~(u = v /\ b = auth)
    <3>1. del'[u][b] = del[u][b]
      BY <1>2, <1>6, <1>7, <1>8, <2>2
    <3> QED
      BY <3>1 DEF SameStakes
  <2> QED
    BY <2>1, <2>2
<1>14. Rewarded(v, shared)
  BY <1>1, <1>2, <1>5, <1>12, <1>13 DEF Rewarded, new, pool, view
<1> QED
  BY <1>2, <1>5, <1>14

\* A pool is never given less than what it then owes more.
LEMMA PerTokenFloor ==
    ASSUME NEW reward \in Nat, NEW stake \in Nat, stake # 0
    PROVE  PerToken(reward, stake) * stake <= Scaled(reward)
<1> DEFINE x == reward * UNIT_BIAS
<1>1. x \in Nat
  <2>1. \A i, j \in Nat : i * j \in Nat
    OBVIOUS
  <2> QED
    BY <2>1, StakingConstantsAssumption
<1>2. Scaled(reward) = x
  BY StakingConstantsAssumption DEF Scaled
<1>3. PerToken(reward, stake) = x \div stake
  BY DEF PerToken
<1> HIDE DEF x
<1>4. stake * (x \div stake) <= x /\ x \div stake \in Int
  BY <1>1
<1>5. \A i, j \in Int : i * j = j * i
  OBVIOUS
<1> QED
  BY <1>2, <1>3, <1>4, <1>5

\* A reward divided by the stake that earns it adds no more debt than it adds
\* to the pool.
LEMMA RewardedBacked ==
    ASSUME Steady, EarningStakeIsViewStake, NEW v \in ValIds, NEW shared, Rewarded(v, shared)
    PROVE  \A u \in ValIds : Backed(u)
<1> DEFINE stake == CurrentView(v).stake
           n == PerToken(shared, stake)
           acc == val[v].acc
           S == Addrs \X WithdrawIds
           A == accs[v]
           f == Owings(del, v, A, acc, epoch)
           f1 == Owings(del', v, A, acc + n, epoch)
           g == OwingsTo(withdrawals, v, A, acc, epoch)
           g1 == OwingsTo(withdrawals, v, A, acc + n, epoch)
           p == val[v].unclaimed
           p1 == val'[v].unclaimed
           actives == Actives(del, v, epoch)
           earnings == Earnings(withdrawals, v, epoch)
<1>1. /\ shared \in Nat /\ stake # 0
      /\ epoch' = epoch /\ accs' = accs /\ withdrawals' = withdrawals
      /\ \A u \in ValIds \ {v} : val'[u] = val[u] /\ del'[u] = del[u]
      /\ val'[v].acc = acc + n
      /\ p1 = p + shared
      /\ \A b \in Addrs : SameStakes(del[v][b], del'[v][b])
  BY DEF Rewarded, clock
<1>2. /\ stake \in Nat /\ acc \in Nat /\ p \in Int /\ p1 \in Int
      /\ A \in Accumulators /\ epoch \in 0 .. MaxEpoch
      /\ epoch \in Nat
  BY SteadyTypes DEF Validator, Steady, Inv, TypeOK, CurrentView, View
<1>3. n \in Nat /\ n * stake <= Scaled(shared)
  BY <1>1, <1>2, PerTokenType, PerTokenFloor
<1>4. \A u \in ValIds \ {v} : Backed(u)
  BY <1>1, OthersBacked
<1>5. stake = SumFunction(actives) + SumFunction(earnings)
  BY <1>1, EarningTold DEF EarningOf
<1>6. /\ actives \in [Addrs -> Int] /\ earnings \in [S -> Int]
  BY SteadyTypes, EarningTypes
<1> HIDE DEF n, stake
<1>7. acc + n \in Nat
  BY <1>2, <1>3
<1>8. /\ f \in [Addrs -> Int] /\ f1 \in [Addrs -> Int]
      /\ g \in [S -> Int] /\ g1 \in [S -> Int]
      /\ SumFunction(f) \in Int /\ SumFunction(g) \in Int
  <2> DEFINE m == acc + n
  <2>1. m \in Nat
    BY <1>7
  <2> HIDE DEF m
  <2>2. Owings(del', v, A, m, epoch) \in [Addrs -> Int]
        /\ OwingsTo(withdrawals, v, A, m, epoch) \in [S -> Int]
    BY <1>2, <2>1, SteadyTypes, OwingsTypes
  <2>3. /\ f \in [Addrs -> Int] /\ g \in [S -> Int]
        /\ SumFunction(f) \in Int /\ SumFunction(g) \in Int
    BY <1>2, SteadyTypes, OwingsTypes
  <2> QED
    BY <2>2, <2>3 DEF m
<1>9. \A b \in Addrs : f1[b] = f[b] + n * actives[b]
  <2> TAKE b \in Addrs
  <2> DEFINE d == del[v][b]
             d1 == del'[v][b]
  <2>1. d \in RunningDelegator /\ SameStakes(d, d1)
    BY <1>1, SteadyTypes DEF Delegator, RunningDelegator
  <2> HIDE DEF d, d1, A, acc
  <2>2. Owed(d, A, acc + n, epoch) = Owed(d, A, acc, epoch) + n * ActiveIn(d, epoch)
    BY <1>2, <1>3, <2>1, OwedGrows
  <2>3. Owed(d1, A, acc + n, epoch) = Owed(d, A, acc + n, epoch)
    BY <2>1 DEF SameStakes, Owed
  <2> QED
    BY <2>2, <2>3 DEF Owings, Actives, d, d1
<1>10. \A i \in S : g1[i] = g[i] + n * earnings[i]
  <2>1. ASSUME NEW b \in Addrs, NEW w \in WithdrawIds
        PROVE  OwedTo(withdrawals[v][b][w], A, acc + n, epoch)
                  = OwedTo(withdrawals[v][b][w], A, acc, epoch)
                    + n * Earns(withdrawals[v][b][w], epoch)
    <3> DEFINE r == withdrawals[v][b][w]
    <3>1. r \in WithdrawalRequest
      BY SteadyTypes
    <3>2. r.epoch <= epoch => r.epoch \in Epochs
      BY <1>2, <3>1, SteadyTypes DEF WithdrawalRequest, Epochs
    <3> HIDE DEF r, A, acc
    <3>3. r.epoch <= epoch => SnapshotValue(A, r.epoch) \in Int
      BY <1>2, <3>2, SnapshotValueType
    <3>4. OwedTo(r, A, acc + n, epoch) = OwedTo(r, A, acc, epoch) + n * Earns(r, epoch)
      BY <1>2, <1>3, <3>1, <3>3, OwedToGrows
    <3> QED
      BY <3>4 DEF r
  <2> QED
    BY <2>1 DEF OwingsTo, Earnings
<1> HIDE DEF f, f1, g, g1, actives, earnings, p, p1
<1>11. IsFiniteSet(Addrs) /\ IsFiniteSet(S) /\ n \in Int
  BY <1>3, StakingAssumption, FS_Product
<1>12. /\ SumFunction(f1) = SumFunction(f) + n * SumFunction(actives)
       /\ SumFunction(g1) = SumFunction(g) + n * SumFunction(earnings)
  <2> HIDE DEF S
  <2>1. Grows(Addrs, f, f1, n, actives) /\ Grows(S, g, g1, n, earnings)
    BY <1>9, <1>10, Zenon DEF Grows
  <2>2. SumFunction(f1) = SumFunction(f) + n * SumFunction(actives)
    BY <1>6, <1>8, <1>11, <2>1, SumGrows
  <2>3. SumFunction(g1) = SumFunction(g) + n * SumFunction(earnings)
    BY <1>6, <1>8, <1>11, <2>1, SumGrows
  <2> QED
    BY <2>2, <2>3
<1>13. SumFunction(actives) \in Int /\ SumFunction(earnings) \in Int
  BY <1>6, <1>11, SumFunctionType
<1>14. Debt(v) = SumFunction(f) + SumFunction(g)
  BY Zenon DEF Debt, Debts, f, g, A, acc
<1>15. DebtNext(v) = SumFunction(f1) + SumFunction(g1)
  BY <1>1, Zenon DEF DebtNext, Debts, f1, g1, A
<1>16. Scaled(p1) = Scaled(p) + Scaled(shared)
       /\ Scaled(p) \in Int /\ Scaled(shared) \in Int
  <2>1. p1 = p + shared /\ p \in Int /\ shared \in Int
    BY <1>1, <1>2 DEF p, p1
  <2> QED
    BY <2>1, ScaledArithmetic
<1> DEFINE k == SumFunction(f)
           m == SumFunction(g)
           x == SumFunction(actives)
           y == SumFunction(earnings)
           nx == n * x
           ny == n * y
           c == Scaled(shared)
           q == Scaled(p)
           q1 == Scaled(p1)
<1>17. nx \in Int /\ ny \in Int /\ nx + ny <= c
  <2>1. x \in Int /\ y \in Int
    BY <1>13
  <2> HIDE DEF x, y
  <2>2. \A i, j \in Int : n * (i + j) = n * i + n * j /\ n * i \in Int
    BY <1>11
  <2>3. n * stake = nx + ny
    BY <1>5, <2>1, <2>2 DEF x, y
  <2> QED
    BY <1>3, <2>1, <2>2, <2>3
<1>18. /\ k \in Int /\ m \in Int /\ c \in Int /\ q \in Int /\ q1 = q + c
       /\ Debt(v) = k + m /\ DebtNext(v) = (k + nx) + (m + ny)
  BY <1>8, <1>12, <1>14, <1>15, <1>16
<1> HIDE DEF k, m, x, y, nx, ny, c, q, q1
<1>19. ((k + nx) + (m + ny)) - (k + m) <= q1 - q
  BY ONLY <1>17, <1>18
<1>20. Backed(v)
  BY <1>18, <1>19 DEF Backed, q, q1, p, p1
<1> QED
  BY <1>4, <1>20

-----------------------------------------------------------------------------
\* The set whose snapshots the next epoch change brings up to date.
RefreshedSet == Members(IF inBoundary THEN snapshot ELSE consensus)

\* The snapshots of epochs to come of who is not in it are up to date already.
Fresh ==
    \A v \in ValIds, e \in Epochs :
        e > epoch /\ accs[v][e].refcount > 0 /\ v \notin RefreshedSet
            => accs[v][e].value = val[v].acc

\* A stake that becomes due finds the accumulator of the change of epoch in
\* its snapshot.
LEMMA NewlyDue ==
    ASSUME Steady, Fresh, EpochBoundary, NEW v \in ValIds,
           Awaits(del, withdrawals, v, epoch + 1)
    PROVE  SnapshotValue(accs'[v], epoch + 1) = val[v].acc
<1> DEFINE e == epoch + 1
<1>1. inBoundary /\ accs' = RefreshAccumulators(epoch + 1)
  BY DEF EpochBoundary, HandleSyscallOnEpochChange
<1>2. e \in Epochs \ {0} /\ e > epoch
  BY SteadyTypes DEF Epochs
<1>3. accs[v][e].refcount > 0
  BY <1>2, ReferredNow DEF Steady, Referred
<1>4. CASE v \in Members(snapshot)
  <2>1. accs'[v][e] = [accs[v][e] EXCEPT !.value = val[v].acc]
    BY <1>1, <1>2, <1>3, <1>4 DEF RefreshAccumulators
  <2>2. accs[v][e] \in Accumulator
    BY <1>2, SteadyTypes
  <2>3. accs'[v][e].value = val[v].acc /\ accs'[v][e].refcount = accs[v][e].refcount
    BY <2>1, <2>2 DEF Accumulator
  <2>4. accs'[v][e].refcount # 0
    BY <1>3, <2>2, <2>3 DEF Accumulator
  <2> QED
    BY <2>3, <2>4 DEF SnapshotValue
<1>5. CASE v \notin Members(snapshot)
  <2>1. accs'[v][e] = accs[v][e]
    BY <1>1, <1>2, <1>5 DEF RefreshAccumulators
  <2>2. accs[v][e].value = val[v].acc
    BY <1>1, <1>2, <1>3, <1>5 DEF Fresh, RefreshedSet
  <2>3. accs'[v][e].refcount # 0
    BY <1>2, <1>3, <2>1, SteadyTypes DEF Accumulator
  <2> QED
    BY <2>1, <2>2, <2>3 DEF SnapshotValue
<1> QED
  BY <1>4, <1>5

\* So a change of epoch adds no debt.
LEMMA BoundaryBacked ==
    ASSUME Steady, Fresh, EpochBoundary
    PROVE  \A v \in ValIds : Backed(v)
<1>1. epoch' = epoch + 1 /\ UNCHANGED <<val, del, withdrawals>>
  BY DEF EpochBoundary, HandleSyscallOnEpochChange
<1>2. epoch \in Nat /\ epoch \in 0 .. MaxEpoch
  BY SteadyTypes
<1> SUFFICES ASSUME NEW v \in ValIds PROVE Backed(v)
  OBVIOUS
<1> DEFINE acc == val[v].acc
           A == accs[v]
           B == accs'[v]
<1>3. acc \in Nat /\ val[v].unclaimed \in Int
  BY SteadyTypes DEF Validator
<1>4. ASSUME NEW b \in Addrs
      PROVE  Owed(del'[v][b], B, acc, epoch + 1) = Owed(del[v][b], A, acc, epoch)
  <2> DEFINE d == del[v][b]
  <2>1. /\ d.stake \in Nat /\ d.deltaStake \in Nat /\ d.nextDeltaStake \in Nat
        /\ d.deltaEpoch \in Nat /\ d.nextDeltaEpoch \in Nat
    BY SteadyTypes DEF Delegator
  <2>2. Owed(d, B, acc, epoch) = Owed(d, A, acc, epoch)
    BY <1>1, OwedKept
  <2>3. ASSUME NEW stake \in Nat, NEW e \in {d.deltaEpoch, d.nextDeltaEpoch}
        PROVE  OwedOn(stake, e, B, acc, epoch + 1) = OwedOn(stake, e, B, acc, epoch)
    <3>1. CASE e = epoch + 1
      <4>1. Awaits(del, withdrawals, v, e)
        BY DEF Awaits
      <4>2. SnapshotValue(B, e) = acc
        BY <3>1, <4>1, NewlyDue
      <4>3. IsEpochActive(epoch + 1, e) /\ ~IsEpochActive(epoch, e)
        BY <1>2, <3>1 DEF IsEpochActive
      <4>4. /\ OwedOn(stake, e, B, acc, epoch + 1) = Accrued(stake, acc, acc)
            /\ OwedOn(stake, e, B, acc, epoch) = 0
        BY <4>2, <4>3 DEF OwedOn
      <4> HIDE DEF acc
      <4>5. Accrued(stake, acc, acc) = 0
        BY <1>3, AccruedArithmetic
      <4> QED
        BY <4>4, <4>5
    <3>2. CASE e # epoch + 1
      <4>1. IsEpochActive(epoch + 1, e) <=> IsEpochActive(epoch, e)
        BY <1>2, <2>1, <3>2 DEF IsEpochActive
      <4> QED
        BY <4>1 DEF OwedOn
    <3> QED
      BY <3>1, <3>2
  <2>4. Owed(d, B, acc, epoch + 1) = Owed(d, B, acc, epoch)
    BY <2>1, <2>3 DEF Owed
  <2> QED
    BY <1>1, <2>2, <2>4
<1>5. ASSUME NEW b \in Addrs, NEW w \in WithdrawIds
      PROVE  OwedTo(withdrawals'[v][b][w], B, acc, epoch + 1)
                = OwedTo(withdrawals[v][b][w], A, acc, epoch)
  <2> DEFINE r == withdrawals[v][b][w]
             amount == r.amount
             from == r.acc
  <2>1. amount \in Int /\ from \in Int /\ r.epoch \in Nat
    BY SteadyTypes DEF WithdrawalRequest
  <2>2. OwedTo(r, B, acc, epoch) = OwedTo(r, A, acc, epoch)
    BY <1>1, <1>3, OwedToKept
  <2>3. OwedTo(r, B, acc, epoch + 1) = OwedTo(r, B, acc, epoch)
    <3>1. CASE r.epoch = epoch + 1 /\ amount # 0
      <4>1. Awaits(del, withdrawals, v, epoch + 1)
        BY <3>1 DEF Awaits
      <4>2. SnapshotValue(B, r.epoch) = acc
        BY <3>1, <4>1, NewlyDue
      <4> QED
        BY <4>2 DEF OwedTo
    <3>2. CASE r.epoch = epoch + 1 /\ amount = 0
      <4> DEFINE to == SnapshotValue(B, r.epoch)
      <4>1. r.epoch \in Epochs /\ B \in Accumulators
        BY <3>2, SteadyTypes DEF Epochs
      <4>2. to \in Int /\ acc \in Int
        BY <1>3, <4>1, SnapshotValueType
      <4>3. r.epoch <= epoch + 1 /\ ~(r.epoch <= epoch)
        BY <1>2, <2>1, <3>2
      <4>4. /\ OwedTo(r, B, acc, epoch + 1) = Accrued(0, from, to)
            /\ OwedTo(r, B, acc, epoch) = Accrued(0, from, acc)
        BY <3>2, <4>3 DEF OwedTo
      <4> HIDE DEF to, from, acc
      <4> QED
        BY <2>1, <4>2, <4>4, AccruedArithmetic
    <3>3. CASE r.epoch # epoch + 1
      <4>1. r.epoch <= epoch + 1 <=> r.epoch <= epoch
        BY <1>2, <2>1, <3>3
      <4> QED
        BY <4>1 DEF OwedTo
    <3> QED
      BY <3>1, <3>2, <3>3
  <2> QED
    BY <1>1, <2>2, <2>3
<1>6. Owings(del', v, B, acc, epoch + 1) = Owings(del, v, A, acc, epoch)
  BY <1>4 DEF Owings
<1>7. OwingsTo(withdrawals', v, B, acc, epoch + 1) = OwingsTo(withdrawals, v, A, acc, epoch)
  BY <1>5 DEF OwingsTo
<1>8. DebtNext(v) = Debt(v)
  BY <1>1, <1>6, <1>7, Zenon DEF DebtNext, Debt, Debts
<1>9. Debt(v) \in Int
  BY <1>3, SteadyTypes, OwingsTypes DEF Debt
<1>10. Scaled(val[v].unclaimed) \in Int /\ val'[v].unclaimed = val[v].unclaimed
  BY <1>1, <1>3, ScaledArithmetic
<1> DEFINE k == Debt(v)
           m == Scaled(val[v].unclaimed)
<1>11. k - k <= m - m
  <2>1. k \in Int /\ m \in Int
    BY <1>9, <1>10
  <2> HIDE DEF k, m
  <2> QED
    BY <2>1
<1> QED
  BY <1>8, <1>10, <1>11 DEF Backed

-----------------------------------------------------------------------------
\* Calls leave the epoch and its sets, and validators are only ever added.
Within == UNCHANGED <<clock, epochSets>> /\ lastValId <= lastValId'

\* A step that leaves every debt and every pool.
Idle ==
    /\ epoch' = epoch /\ lastValId' = lastValId
    /\ UNCHANGED <<del, withdrawals, accs>>
    /\ \A u \in ValIds : val'[u].acc = val[u].acc /\ val'[u].unclaimed = val[u].unclaimed
    /\ RefreshedSet' = RefreshedSet

\* What a step is to the books of the rewards.
StepKind ==
    \/ \E v \in ValIds, a \in Addrs : SettledCall(v, a) /\ Within
    \/ \E v \in ValIds, a \in Addrs, w \in WithdrawIds : PaidOut(v, a, w) /\ Within
    \/ \E v \in ValIds, shared \in Nat : Rewarded(v, shared)
    \/ Idle
    \/ EpochBoundary

\* Every call of a user settles one delegation, pays out, rewards or leaves
\* the pools alone.
LEMMA UserCallKind ==
    ASSUME Steady, Registered, Unborn, UserCall
    PROVE  StepKind
<1>0. UNCHANGED <<clock, epochSets>>
  BY UserCallsKeepViews
<1>1. PICK caller \in Addrs :
          \/ \E auth \in Addrs, bls \in BlsKeys, c \in Commissions,
                value \in DelegateAmounts :
                   HandleAddValidator(caller, auth, bls, c, value)
          \/ \E v \in ValIds :
                \/ \E value \in DelegateAmounts : HandleDelegate(v, caller, value)
                \/ \E amount \in UndelegateAmounts, wid \in WithdrawIds :
                      HandleUndelegate(v, caller, amount, wid)
                \/ \E wid \in WithdrawIds : HandleWithdraw(v, caller, wid)
                \/ HandleClaimRewards(v, caller)
                \/ HandleCompound(v, caller)
                \/ HandleGetDelegator(v, caller)
                \/ \E c \in Commissions : HandleChangeCommission(v, caller, c)
                \/ \E value \in ExternalRewards : HandleExternalReward(v, caller, value)
  BY DEF UserCall
<1>2. lastValId \in Int /\ lastValId <= lastValId
  BY DEF Steady, Inv, TypeOK
<1>3. UNCHANGED registry => Within
  BY <1>0, <1>2 DEF registry, Within
<1>4. ASSUME NEW auth \in Addrs, NEW bls \in BlsKeys, NEW c \in Commissions,
             NEW value \in DelegateAmounts, HandleAddValidator(caller, auth, bls, c, value)
      PROVE  StepKind
  <2>1. SettledCall(lastValId + 1, auth) /\ lastValId + 1 \in ValIds
    BY <1>4, AddValidatorSettles
  <2>2. lastValId' = lastValId + 1
    BY <1>4 DEF HandleAddValidator
  <2>3. Within
    BY <1>0, <1>2, <2>2 DEF Within
  <2> QED
    BY <2>1, <2>3 DEF StepKind
<1>5. ASSUME NEW v \in ValIds,
             \/ \E value \in DelegateAmounts : HandleDelegate(v, caller, value)
             \/ HandleCompound(v, caller)
      PROVE  StepKind
  <2>1. SettledCall(v, caller)
    BY <1>5, DelegateCallSettles, CompoundSettles
  <2>2. UNCHANGED registry
    BY <1>5 DEF HandleDelegate, HandleCompound
  <2> QED
    BY <1>3, <2>1, <2>2 DEF StepKind
<1>6. ASSUME NEW v \in ValIds, NEW amount \in UndelegateAmounts, NEW wid \in WithdrawIds,
             HandleUndelegate(v, caller, amount, wid)
      PROVE  StepKind
  <2>1. SettledCall(v, caller)
    BY <1>6, UndelegateSettles
  <2>2. UNCHANGED registry
    BY <1>6 DEF HandleUndelegate
  <2> QED
    BY <1>3, <2>1, <2>2 DEF StepKind
<1>7. ASSUME NEW v \in ValIds, NEW wid \in WithdrawIds, HandleWithdraw(v, caller, wid)
      PROVE  StepKind
  <2>1. PaidOut(v, caller, wid)
    BY <1>7, WithdrawPaysOut
  <2>2. UNCHANGED registry
    BY <1>7 DEF HandleWithdraw
  <2> QED
    BY <1>3, <2>1, <2>2 DEF StepKind
<1>8. ASSUME NEW v \in ValIds, HandleClaimRewards(v, caller) \/ HandleGetDelegator(v, caller)
      PROVE  StepKind
  <2>1. SettledCall(v, caller)
    BY <1>8, SettlingSettles
  <2>2. UNCHANGED registry
    BY <1>8 DEF HandleClaimRewards, HandleGetDelegator
  <2> QED
    BY <1>3, <2>1, <2>2 DEF StepKind
<1>9. ASSUME NEW v \in ValIds, NEW c \in Commissions, HandleChangeCommission(v, caller, c)
      PROVE  StepKind
  <2>1. /\ val' = [val EXCEPT ![v].commission = c]
        /\ UNCHANGED <<registry, clock, del, withdrawals, accs, epochSets>>
    BY <1>9 DEF HandleChangeCommission
  <2>2. \A u \in ValIds : val'[u].acc = val[u].acc /\ val'[u].unclaimed = val[u].unclaimed
    BY <2>1, SteadyTypes DEF Validator
  <2>3. RefreshedSet' = RefreshedSet
    BY <2>1 DEF RefreshedSet, clock, epochSets, Members
  <2>4. Idle
    BY <2>1, <2>2, <2>3 DEF Idle, clock, registry
  <2> QED
    BY <2>4 DEF StepKind
<1>10. ASSUME NEW v \in ValIds, NEW value \in ExternalRewards,
              HandleExternalReward(v, caller, value)
       PROVE  StepKind
  <2>1. Rewarded(v, value) /\ value \in Nat
    BY <1>10, ExternalRewardRewards, StakingAssumption
  <2> QED
    BY <2>1 DEF StepKind
<1> QED
  BY <1>1, <1>4, <1>5, <1>6, <1>7, <1>8, <1>9, <1>10, Zenon

\* Every step does, or it changes the epoch.
LEMMA AnyStepKind ==
    ASSUME Steady, Registered, Unborn, [Next]_vars
    PROVE  StepKind
<1>1. CASE UserCall
  BY <1>1, UserCallKind
<1>2. ASSUME NEW author \in Addrs, NEW reward \in BlockRewards,
             HandleSyscallReward(author, reward)
      PROVE  StepKind
  BY <1>2, SyscallRewardRewards DEF StepKind
<1>3. CASE HandleSyscallSnapshot
  <2>1. /\ ~inBoundary /\ inBoundary' = TRUE /\ snapshot' = consensus
        /\ UNCHANGED <<epoch, registry, val, del, withdrawals, accs>>
    BY <1>3 DEF HandleSyscallSnapshot, ledger
  <2>2. RefreshedSet' = RefreshedSet
    BY <2>1 DEF RefreshedSet, Members
  <2>3. Idle
    BY <2>1, <2>2 DEF Idle, registry
  <2> QED
    BY <2>3 DEF StepKind
<1>4. CASE EpochBoundary
  BY <1>4 DEF StepKind
<1>5. CASE UNCHANGED vars
  <2>1. UNCHANGED <<epoch, inBoundary, lastValId, val, del, withdrawals, accs, snapshot, consensus>>
    BY <1>5 DEF vars, clock, registry, ledger, epochSets
  <2>2. Idle
    BY <2>1 DEF Idle, RefreshedSet, Members
  <2> QED
    BY <2>2 DEF StepKind
<1> QED
  BY <1>1, <1>2, <1>3, <1>4, <1>5 DEF Next, BlockCall

-----------------------------------------------------------------------------
(* What every step keeps.                                                  *)

\* Nothing happens to any of the books.
LEMMA IdleBacked ==
    ASSUME Steady, Idle
    PROVE  \A u \in ValIds : Backed(u)
<1> SUFFICES ASSUME NEW u \in ValIds PROVE Backed(u)
  OBVIOUS
<1>1. /\ epoch' = epoch
      /\ val'[u].acc = val[u].acc /\ val'[u].unclaimed = val[u].unclaimed
      /\ del'[u] = del[u] /\ accs'[u] = accs[u] /\ withdrawals'[u] = withdrawals[u]
  BY DEF Idle
<1> QED
  BY <1>1, OthersBacked

\* No step leaves more owed than the pools have.
LEMMA CoveredKept ==
    ASSUME Steady, Covered, Fresh, EarningStakeIsViewStake, StepKind
    PROVE  Covered'
<1>1. ASSUME NEW v \in ValIds, NEW shared \in Nat, Rewarded(v, shared)
      PROVE  \A u \in ValIds : Backed(u)
  BY <1>1, RewardedBacked
<1>2. \A u \in ValIds : Backed(u)
  BY <1>1, SettledCallBacked, PaidOutBacked, IdleBacked, BoundaryBacked DEF StepKind
<1>3. \A v \in ValIds :
         DebtNext(v) - Debt(v) <= Scaled(val'[v].unclaimed) - Scaled(val[v].unclaimed)
  BY <1>2, Zenon DEF Backed
<1> QED
  BY <1>3, CoveredStep

\* New requests are filed for an epoch to come.
LEMMA FiledKept ==
    ASSUME Steady, StepKind
    PROVE  RequestsFiled'
<1>1. RequestsFiled /\ epoch \in Nat
  BY SteadyTypes DEF Steady
<1>2. ASSUME UNCHANGED withdrawals
      PROVE  RequestsFiled'
  BY <1>1, <1>2 DEF RequestsFiled
<1>3. ASSUME NEW v \in ValIds, NEW a \in Addrs, SettledCall(v, a)
      PROVE  RequestsFiled'
  <2>1. ASSUME NEW u \in ValIds \ {v}
        PROVE  withdrawals'[u] = withdrawals[u]
    BY <1>3 DEF SettledCall, OnlyAbout
  <2>2. ActivationEpoch # 0
    BY <1>1 DEF ActivationEpoch
  <2> QED
    BY <1>1, <1>3, <2>1, <2>2 DEF SettledCall, RequestsFiled
<1>4. ASSUME NEW v \in ValIds, NEW a \in Addrs, NEW w \in WithdrawIds, PaidOut(v, a, w)
      PROVE  RequestsFiled'
  <2>1. withdrawals' = [withdrawals EXCEPT ![v][a][w] = NoWithdrawal]
    BY <1>4 DEF PaidOut
  <2>2. NoWithdrawal.amount = 0
    BY DEF NoWithdrawal
  <2> QED
    BY <1>1, <2>1, <2>2, SteadyTypes DEF RequestsFiled
<1>5. ASSUME NEW v \in ValIds, NEW shared \in Nat, Rewarded(v, shared)
      PROVE  UNCHANGED withdrawals
  BY <1>5 DEF Rewarded
<1>6. Idle \/ EpochBoundary => UNCHANGED withdrawals
  BY DEF Idle, EpochBoundary, HandleSyscallOnEpochChange
<1> QED
  BY <1>2, <1>3, <1>4, <1>5, <1>6 DEF StepKind

\* Rewards only go to pools of validators that are there.
LEMMA UnbornKept ==
    ASSUME Steady, Unborn, StepKind
    PROVE  Unborn'
<1>1. lastValId \in Int /\ lastValId' \in Int
  BY DEF Steady, Inv, TypeOK
<1>2. ASSUME \A u \in ValIds : val'[u].acc = val[u].acc, lastValId <= lastValId'
      PROVE  Unborn'
  BY <1>1, <1>2 DEF Unborn, ValIds
<1>3. ASSUME NEW v \in ValIds, NEW a \in Addrs, SettledCall(v, a), Within
      PROVE  Unborn'
  <2>1. \A u \in ValIds : val'[u].acc = val[u].acc
    BY <1>3 DEF SettledCall, OnlyAbout
  <2> QED
    BY <1>2, <1>3, <2>1 DEF Within
<1>4. ASSUME NEW v \in ValIds, NEW a \in Addrs, NEW w \in WithdrawIds, PaidOut(v, a, w), Within
      PROVE  Unborn'
  <2>1. \A u \in ValIds : val'[u].acc = val[u].acc
    BY <1>4 DEF PaidOut
  <2> QED
    BY <1>2, <1>4, <2>1 DEF Within
<1>5. ASSUME NEW v \in ValIds, NEW shared \in Nat, Rewarded(v, shared)
      PROVE  Unborn'
  <2>1. /\ v <= lastValId /\ lastValId' = lastValId
        /\ \A u \in ValIds \ {v} : val'[u] = val[u]
    BY <1>5 DEF Rewarded, registry
  <2> QED
    BY <1>1, <2>1 DEF Unborn, ValIds
<1>6. CASE Idle
  BY <1>1, <1>2, <1>6 DEF Idle
<1>7. CASE EpochBoundary
  BY <1>1, <1>2, <1>7 DEF EpochBoundary, HandleSyscallOnEpochChange, registry
<1> QED
  BY <1>3, <1>4, <1>5, <1>6, <1>7 DEF StepKind

\* Nobody refers to a snapshot past the epoch new stake is filed under.
LEMMA AwaitedInWindow ==
    ASSUME Steady, RequestsInWindow, NEW v \in ValIds, NEW e \in Epochs \ {0},
           accs[v][e].refcount > 0
    PROVE  e <= epoch + 2
<1>1. Awaits(del, withdrawals, v, e)
  BY ReferredNow DEF Steady, Referred
<1>2. epoch \in Nat /\ ActivationEpoch \in Nat /\ ActivationEpoch <= epoch + 2
  BY SteadyTypes DEF ActivationEpoch
<1>3. \A a \in Addrs : /\ del[v][a].deltaEpoch <= epoch + 1
                       /\ del[v][a].nextDeltaEpoch <= ActivationEpoch
  BY DEF Steady, Inv, PendingWindow, PendingInWindow
<1>4. e \in Nat
  BY DEF Epochs
<1>5. CASE \E a \in Addrs : del[v][a].deltaEpoch = e
  BY <1>2, <1>3, <1>4, <1>5
<1>6. CASE \E a \in Addrs : del[v][a].nextDeltaEpoch = e
  BY <1>2, <1>3, <1>4, <1>6
<1>7. CASE \E a \in Addrs, w \in WithdrawIds : withdrawals[v][a][w].epoch = e
  BY <1>2, <1>4, <1>7 DEF RequestsInWindow
<1> QED
  BY <1>1, <1>5, <1>6, <1>7 DEF Awaits

\* The snapshots of the epochs to come stay up to date.
LEMMA FreshKept ==
    ASSUME Steady, Fresh, ViewsMatchSets, RequestsInWindow, StepKind
    PROVE  Fresh'
<1>1. epoch \in Nat /\ epoch' \in Nat
  BY SteadyTypes
<1>2. ASSUME UNCHANGED <<clock, epochSets>>
      PROVE  epoch' = epoch /\ RefreshedSet' = RefreshedSet
  BY <1>2 DEF clock, epochSets, RefreshedSet, Members
<1> SUFFICES ASSUME NEW v \in ValIds, NEW e \in Epochs,
                    e > epoch', accs'[v][e].refcount > 0, v \notin RefreshedSet'
             PROVE  accs'[v][e].value = val'[v].acc
  BY DEF Fresh
<1>3. ASSUME epoch' = epoch, RefreshedSet' = RefreshedSet, val'[v].acc = val[v].acc,
             \/ accs[v][e].refcount > 0 /\ accs'[v][e].value = accs[v][e].value
             \/ accs'[v][e].value = val[v].acc
      PROVE  accs'[v][e].value = val'[v].acc
  BY <1>3 DEF Fresh
<1>4. ASSUME NEW u \in ValIds, NEW a \in Addrs, SettledCall(u, a), Within
      PROVE  accs'[v][e].value = val'[v].acc
  <2>1. epoch' = epoch /\ RefreshedSet' = RefreshedSet
    BY <1>2, <1>4 DEF Within
  <2>2. CASE v = u
    <3>1. val'[v].acc = val[v].acc /\ Snapshots(accs[v], accs'[v], val[v].acc)
      BY <1>4, <2>2 DEF SettledCall, OnlyAbout
    <3> QED
      BY <1>3, <2>1, <3>1 DEF Snapshots
  <2>3. CASE v # u
    <3>1. val'[v] = val[v] /\ accs'[v] = accs[v]
      BY <1>4, <2>3 DEF SettledCall, OnlyAbout
    <3> QED
      BY <1>3, <2>1, <3>1
  <2> QED
    BY <2>2, <2>3
<1>5. ASSUME NEW u \in ValIds, NEW a \in Addrs, NEW w \in WithdrawIds, PaidOut(u, a, w), Within
      PROVE  accs'[v][e].value = val'[v].acc
  <2>1. epoch' = epoch /\ RefreshedSet' = RefreshedSet
    BY <1>2, <1>5 DEF Within
  <2>2. CASE v = u
    <3>1. val'[v].acc = val[v].acc /\ KeepsSnapshots(accs[v], accs'[v])
      BY <1>5, <2>2 DEF PaidOut
    <3> QED
      BY <1>3, <2>1, <3>1 DEF KeepsSnapshots
  <2>3. CASE v # u
    <3>1. val'[v] = val[v] /\ accs'[v] = accs[v]
      BY <1>5, <2>3 DEF PaidOut
    <3> QED
      BY <1>3, <2>1, <3>1
  <2> QED
    BY <2>2, <2>3
<1>6. ASSUME NEW u \in ValIds, NEW shared \in Nat, Rewarded(u, shared)
      PROVE  accs'[v][e].value = val'[v].acc
  <2>1. /\ UNCHANGED <<clock, epochSets, accs>> /\ CurrentView(u).stake # 0
        /\ v # u => val'[v] = val[v]
    BY <1>6 DEF Rewarded
  <2>2. epoch' = epoch /\ RefreshedSet' = RefreshedSet
    BY <1>2, <2>1
  <2>3. u \in RefreshedSet
    BY <2>1 DEF ViewsMatchSets, CurrentView, RefreshedSet
  <2> QED
    BY <1>3, <2>1, <2>2, <2>3
<1>7. CASE Idle
  BY <1>3, <1>7 DEF Idle
<1>8. CASE EpochBoundary
  <2>1. /\ inBoundary /\ accs' = RefreshAccumulators(epoch + 1)
        /\ epoch' = epoch + 1 /\ val' = val
    BY <1>8 DEF EpochBoundary, HandleSyscallOnEpochChange
  <2>2. accs[v][e] \in Accumulator /\ e \in Nat
    <3>1. accs[v] \in [Epochs -> Accumulator]
      BY SteadyTypes
    <3>2. e \in Nat
      BY StakingAssumption DEF Epochs
    <3> QED
      BY <3>1, <3>2
  <2>3. accs'[v][e].refcount = accs[v][e].refcount
    BY <2>1, <2>2 DEF RefreshAccumulators, Accumulator
  <2>4. e \in Epochs \ {0} /\ accs[v][e].refcount > 0
    BY <1>1, <2>2, <2>3
  <2>5. e = (epoch + 1) + 1
    BY <1>1, <2>1, <2>2, <2>4, AwaitedInWindow
  <2>6. CASE v \in Members(snapshot)
    <3>1. accs'[v][e] = [accs[v][e] EXCEPT !.value = val[v].acc]
      BY <2>1, <2>4, <2>5, <2>6 DEF RefreshAccumulators
    <3> QED
      BY <2>1, <2>2, <3>1 DEF Accumulator
  <2>7. CASE v \notin Members(snapshot)
    <3>1. accs'[v][e] = accs[v][e]
      BY <2>1, <2>7 DEF RefreshAccumulators
    <3>2. e > epoch
      BY <1>1, <2>5
    <3>3. accs[v][e].value = val[v].acc
      BY <2>1, <2>4, <2>7, <3>2 DEF Fresh, RefreshedSet
    <3> QED
      BY <2>1, <3>1, <3>3
  <2> QED
    BY <2>6, <2>7
<1> QED
  BY <1>4, <1>5, <1>6, <1>7, <1>8 DEF StepKind

-----------------------------------------------------------------------------
(***************************************************************************)
(* The inductive invariant.  What is owed exactly, before the division     *)
(* rounds it down, is covered by the pools (Covered); it stays so because  *)
(* rewards are divided by the stake that earns them (EarningInv), because  *)
(* who is in no set has its snapshots of the epochs to come up to date     *)
(* (Fresh), and because a snapshot is there for who refers to it (RefInv). *)
(***************************************************************************)
RewardInv ==
    /\ RefInv /\ SeatedInv /\ EarningInv
    /\ RequestsFiled /\ Unborn /\ Fresh /\ Covered

\* What is known of a step from a state of the invariant.
LEMMA RewardStepFacts ==
    ASSUME RewardInv, [Next]_vars
    PROVE  /\ RefInv' /\ SeatedInv' /\ EarningInv'
           /\ Steady /\ StepKind /\ Fresh
<1>1. Inv /\ RefInv /\ SeatedInv /\ EarningInv
  BY DEF RewardInv, RefInv
<1>2. [AnyOrderNext]_vars
  BY <1>1, LifecycleStep
<1>3. RefInv' /\ SeatedInv' /\ EarningInv'
  BY <1>1, <1>2, RefcountsStep, SeatedStep, EarningStep
<1>4. SnapshotsFrozen
  <2>1. CASE UNCHANGED vars
    BY <2>1 DEF SnapshotsFrozen, vars, ledger
  <2> QED
    BY <1>1, <1>2, <2>1, AnyOrderStep
<1>5. Steady
  BY <1>1, <1>3, <1>4 DEF Steady, RefInv, RewardInv
<1>6. Registered /\ Unborn /\ Fresh
  BY <1>1 DEF EarningInv, BalanceInv, RewardInv
<1>7. StepKind
  BY <1>5, <1>6, AnyStepKind
<1> QED
  BY <1>3, <1>5, <1>6, <1>7

\* Every step keeps the invariant of the rewards.
LEMMA RewardStep ==
    ASSUME RewardInv, [Next]_vars
    PROVE  RewardInv'
<1>1. /\ RefInv' /\ SeatedInv' /\ EarningInv'
      /\ Steady /\ StepKind
  BY RewardStepFacts
<1>2. RequestsInWindow /\ EarningStakeIsViewStake /\ Unborn /\ Fresh /\ Covered
  BY DEF EarningInv, RewardInv
<1>3. ViewsMatchSets
  BY DistinctCounts DEF RewardInv, SeatedInv, Seated, ViewsMatchSets
<1>4. RequestsFiled' /\ Unborn' /\ Fresh' /\ Covered'
  BY <1>1, <1>2, <1>3, FiledKept, UnbornKept, FreshKept, CoveredKept
<1> QED
  BY <1>1, <1>4 DEF RewardInv

\* Nothing is owed before the first call.
LEMMA InitCovered ==
    ASSUME Init
    PROVE  Covered
<1> SUFFICES ASSUME NEW v \in ValIds PROVE Debt(v) <= Scaled(val[v].unclaimed)
  BY DEF Covered
<1>1. /\ val[v].acc = 0 /\ val[v].unclaimed = 0 /\ epoch = 0
      /\ \A a \in Addrs : del[v][a] = NoDelegator
      /\ \A a \in Addrs, w \in WithdrawIds : withdrawals[v][a][w] = NoWithdrawal
      /\ accs[v] = [e \in Epochs |-> NoAccumulator]
  BY DEF Init, NoValidator
<1> DEFINE f == Owings(del, v, accs[v], val[v].acc, epoch)
           S == Addrs \X WithdrawIds
           g == OwingsTo(withdrawals, v, accs[v], val[v].acc, epoch)
<1>2. ASSUME NEW a \in Addrs PROVE f[a] = 0
  <2>1. Owed(NoDelegator, accs[v], 0, 0) = 0
    BY DEF Owed, OwedOn, Accrued, IsEpochActive, NoDelegator
  <2> QED
    BY <1>1, <2>1 DEF Owings
<1>3. ASSUME NEW r \in S PROVE g[r] = 0
  <2>1. SnapshotValue(accs[v], 0) = 0
    <3>1. 0 \in Epochs
      BY StakingAssumption DEF Epochs
    <3> QED
      BY <1>1, <3>1 DEF SnapshotValue, NoAccumulator
  <2>2. OwedTo(NoWithdrawal, accs[v], 0, 0) = 0
    BY <2>1 DEF OwedTo, Accrued, NoWithdrawal
  <2>3. r[1] \in Addrs /\ r[2] \in WithdrawIds
    OBVIOUS
  <2> QED
    BY <1>1, <2>2, <2>3 DEF OwingsTo
<1>4. IsFiniteSet(Addrs) /\ IsFiniteSet(S)
  BY StakingAssumption, FS_Product
<1>5. DOMAIN f = Addrs /\ DOMAIN g = S
  BY DEF Owings, OwingsTo
<1>6. Debt(v) = SumFunction(f) + SumFunction(g)
  BY Zenon DEF Debt, Debts
<1> HIDE DEF f, g, S
<1>7. SumFunction(f) = 0 /\ SumFunction(g) = 0
  BY <1>2, <1>3, <1>4, <1>5, SumZero DEF SumFunction
<1> QED
  BY <1>1, <1>6, <1>7, ScaledArithmetic

\* It holds at first, when there is no stake.
LEMMA InitReward ==
    ASSUME Init
    PROVE  RewardInv
<1>1. RefInv /\ EarningInv
  BY InitCounts, InitEarning
<1>2. SeatedInv
  BY InitSeated
<1>3. RequestsFiled
  BY DEF Init, RequestsFiled, NoWithdrawal
<1>4. Unborn
  BY DEF Init, Unborn, NoValidator
<1>5. Fresh
  BY DEF Init, Fresh, NoAccumulator
<1> QED
  BY <1>1, <1>2, <1>3, <1>4, <1>5, InitCovered DEF RewardInv

\* Paid out together, the claims take no more than what is owed.
LEMMA ClaimsWithinDebt ==
    ASSUME Inv, Covered
    PROVE  RewardsCovered
<1> SUFFICES ASSUME NEW v \in ValIds
             PROVE  SumFunction([a \in Addrs |-> Pending(v, a)])
                  + SumFunction([r \in Addrs \X WithdrawIds |->
                                    EarnedByWithdrawal(v, withdrawals[v][r[1]][r[2]])])
                      <= val[v].unclaimed
  BY DEF RewardsCovered
<1> DEFINE S == Addrs \X WithdrawIds
           p == val[v].unclaimed
           acc == val[v].acc
           A == accs[v]
           f == [a \in Addrs |-> Pending(v, a)]
           g == [r \in S |-> EarnedByWithdrawal(v, withdrawals[v][r[1]][r[2]])]
           i == Owings(del, v, A, acc, epoch)
           j == OwingsTo(withdrawals, v, A, acc, epoch)
           f1 == [a \in Addrs |-> UNIT_BIAS * f[a]]
           g1 == [r \in S |-> UNIT_BIAS * g[r]]
<1>1. /\ p \in Int /\ acc \in Nat /\ A \in Accumulators /\ epoch \in 0 .. MaxEpoch
      /\ MaxEpoch \in Nat
      /\ \A a \in Addrs : del[v][a] \in Delegator
      /\ \A a \in Addrs, w \in WithdrawIds : withdrawals[v][a][w] \in WithdrawalRequest
      /\ del \in [ValIds -> [Addrs -> Delegator]]
      /\ withdrawals \in [ValIds -> [Addrs -> [WithdrawIds -> WithdrawalRequest]]]
  BY StakingAssumption DEF Inv, TypeOK, Validator, Accumulators
<1>2. i \in [Addrs -> Int] /\ j \in [S -> Int]
  BY <1>1, OwingsTypes
<1>3. ASSUME NEW a \in Addrs
      PROVE  Pending(v, a) \in Int /\ Scaled(Pending(v, a)) <= i[a]
  <2> DEFINE s == Pulled(v, a)
             x == s.del.rewards
             y == del[v][a].rewards
             q == s.unclaimed
  <2>1. s \in RunningSettlement /\ x + q = y + p
    BY PulledFacts
  <2>2. x \in Int /\ y \in Int /\ q \in Int
    BY <1>1, <2>1 DEF RunningSettlement, RunningDelegator, Delegator
  <2>3. Scaled(p - q) <= i[a]
    BY PulledPays DEF Owings
  <2>4. Pending(v, a) = x - y
    BY DEF Pending
  <2> HIDE DEF s, x, y, q, p
  <2>5. p \in Int
    BY <1>1 DEF p
  <2>6. x + q = y + p
    BY <2>1
  <2>7. x - y = p - q /\ x - y \in Int
    BY ONLY <2>2, <2>5, <2>6
  <2> QED
    BY <2>3, <2>4, <2>7
<1>4. ASSUME NEW a \in Addrs, NEW w \in WithdrawIds
      PROVE  LET r == withdrawals[v][a][w]
             IN  /\ EarnedByWithdrawal(v, r) \in Int
                 /\ Scaled(EarnedByWithdrawal(v, r)) <= OwedTo(r, A, acc, epoch)
  <2> DEFINE r == withdrawals[v][a][w]
             to == IF r.epoch <= epoch THEN SnapshotValue(A, r.epoch) ELSE acc
             amount == r.amount
             from == r.acc
  <2>1. r.amount \in Nat /\ r.acc \in Nat /\ r.epoch \in Nat
    BY <1>1 DEF WithdrawalRequest
  <2>2. to \in Nat
    <3>1. r.epoch <= epoch => r.epoch \in Epochs
      BY <1>1, <2>1 DEF Epochs
    <3> QED
      BY <1>1, <3>1, SnapshotValueType
  <2>3. EarnedByWithdrawal(v, r) = IF amount = 0 THEN 0 ELSE CalculateRewards(amount, to, from)
    BY DEF EarnedByWithdrawal
  <2>4. OwedTo(r, A, acc, epoch) = Accrued(amount, from, to)
    BY DEF OwedTo
  <2>5. amount \in Nat /\ from \in Nat
    BY <2>1
  <2> HIDE DEF to, amount, from
  <2>6. CalculateRewards(amount, to, from) \in Int
    BY <2>2, <2>5, CalculateRewardsType
  <2>7. Scaled(CalculateRewards(amount, to, from)) <= Accrued(amount, from, to)
    BY <2>2, <2>5, FloorScaled
  <2>8. Scaled(0) = 0 /\ Accrued(0, from, to) = 0
    BY <2>2, <2>5, AccruedArithmetic, ScaledArithmetic
  <2>9. EarnedByWithdrawal(v, r) \in Int
    BY <2>3, <2>6
  <2>10. Scaled(EarnedByWithdrawal(v, r)) <= OwedTo(r, A, acc, epoch)
    BY <2>3, <2>4, <2>7, <2>8
  <2> QED
    BY <2>9, <2>10
<1>5. \A r \in S : g[r] \in Int /\ Scaled(g[r]) <= j[r]
  <2> SUFFICES ASSUME NEW r \in S PROVE g[r] \in Int /\ Scaled(g[r]) <= j[r]
    OBVIOUS
  <2>1. r[1] \in Addrs /\ r[2] \in WithdrawIds
    OBVIOUS
  <2> QED
    BY <1>4, <2>1 DEF OwingsTo
<1>6. \A a \in Addrs : f[a] \in Int /\ Scaled(f[a]) <= i[a]
  BY <1>3
<1>7. UNIT_BIAS \in Int /\ IsFiniteSet(Addrs) /\ IsFiniteSet(S)
  BY StakingAssumption, StakingConstantsAssumption, FS_Product
<1>8. DOMAIN f = Addrs /\ DOMAIN g = S /\ DOMAIN i = Addrs /\ DOMAIN j = S
  BY <1>2
<1>9. /\ \A a \in Addrs : f1[a] = UNIT_BIAS * f[a] /\ f1[a] \in Int /\ f1[a] <= i[a]
      /\ \A r \in S : g1[r] = UNIT_BIAS * g[r] /\ g1[r] \in Int /\ g1[r] <= j[r]
  <2> HIDE DEF f, g, i, j
  <2> QED
    BY <1>5, <1>6, <1>7 DEF Scaled
<1>10. Debt(v) = SumFunction(i) + SumFunction(j)
  BY Zenon DEF Debt, Debts
<1>11. Debt(v) <= Scaled(p)
  BY DEF Covered
<1> HIDE DEF f, g, i, j, f1, g1, S, p, A, acc
<1>12. /\ SumFunctionOnSet(f1, Addrs) = UNIT_BIAS * SumFunctionOnSet(f, Addrs)
       /\ SumFunctionOnSet(g1, S) = UNIT_BIAS * SumFunctionOnSet(g, S)
  BY <1>5, <1>6, <1>7, <1>9, SumTimes
<1>13. /\ SumFunctionOnSet(f1, Addrs) <= SumFunctionOnSet(i, Addrs)
       /\ SumFunctionOnSet(g1, S) <= SumFunctionOnSet(j, S)
  BY <1>2, <1>7, <1>9, SumLeq
<1> DEFINE k == SumFunctionOnSet(f, Addrs)
           m == SumFunctionOnSet(g, S)
           x == SumFunctionOnSet(i, Addrs)
           y == SumFunctionOnSet(j, S)
<1>14. k \in Int /\ m \in Int /\ x \in Int /\ y \in Int
  BY <1>2, <1>5, <1>6, <1>7, SumType
<1>15. Scaled(k) <= x /\ Scaled(m) <= y /\ x + y <= Scaled(p)
  BY <1>8, <1>10, <1>11, <1>12, <1>13 DEF Scaled, SumFunction
<1>16. SumFunction(f) = k /\ SumFunction(g) = m
  BY <1>8 DEF SumFunction
<1> HIDE DEF k, m, x, y
<1>17. /\ Scaled(k + m) = Scaled(k) + Scaled(m)
       /\ Scaled(k) \in Int /\ Scaled(m) \in Int /\ Scaled(p) \in Int
  BY <1>1, <1>14, ScaledArithmetic
<1>18. Scaled(k + m) <= Scaled(p)
  BY <1>14, <1>15, <1>17
<1>19. k + m <= p
  <2>1. k + m \in Int
    BY <1>14
  <2> QED
    BY <1>1, <1>18, <2>1, ScaledArithmetic
<1> QED
  BY <1>16, <1>19 DEF f, g, S, p

(***************************************************************************)
(* All claims together are covered by the pool of the validator, at every  *)
(* moment of the documented lifecycle: whoever settles first leaves enough *)
(* for the others, and what the divisions round down stays in the pool.    *)
(***************************************************************************)
THEOREM ClaimsCovered == Spec => []RewardsCovered
<1>1. Init => RewardInv
  BY InitReward
<1>2. RewardInv /\ [Next]_vars => RewardInv'
  BY RewardStep
<1>3. RewardInv => RewardsCovered
  BY ClaimsWithinDebt DEF RewardInv, RefInv
<1> QED
  BY <1>1, <1>2, <1>3, PTL DEF Spec

-----------------------------------------------------------------------------
(* No cursor is ahead of what is to be paid up to.                         *)

\* A delegation is behind the snapshots it will be settled at, these come
\* one after the other, and none is ahead of acc.
InOrder(d, A, acc, now) ==
    /\ d.acc <= acc
    /\ \A e \in {d.deltaEpoch, d.nextDeltaEpoch} : IsEpochActive(now, e) =>
          d.acc <= SnapshotValue(A, e) /\ SnapshotValue(A, e) <= acc
    /\ IsEpochActive(now, d.deltaEpoch) /\ IsEpochActive(now, d.nextDeltaEpoch) =>
          SnapshotValue(A, d.deltaEpoch) <= SnapshotValue(A, d.nextDeltaEpoch)

RequestInOrder(r, A, acc, now) ==
    r.amount # 0 =>
        /\ r.acc <= acc
        /\ r.epoch <= now => r.acc <= SnapshotValue(A, r.epoch)
                             /\ SnapshotValue(A, r.epoch) <= acc

Ordered ==
    \A v \in ValIds, a \in Addrs :
        /\ InOrder(del[v][a], accs[v], val[v].acc, epoch)
        /\ \A w \in WithdrawIds :
              RequestInOrder(withdrawals[v][a][w], accs[v], val[v].acc, epoch)

\* Nobody touches the delegation, and acc only grows.
LEMMA DelegationOrderKept ==
    ASSUME Steady, Ordered, NEW v \in ValIds, NEW b \in Addrs,
           SameStakes(del[v][b], del'[v][b]), val[v].acc <= val'[v].acc
    PROVE  InOrder(del'[v][b], accs'[v], val'[v].acc, epoch)
<1> DEFINE d == del[v][b]
           f == del'[v][b]
           acc == val[v].acc
           to == val'[v].acc
<1>1. /\ d \in Delegator /\ acc \in Nat /\ to \in Nat
      /\ accs[v] \in Accumulators /\ accs'[v] \in Accumulators
      /\ epoch \in 0 .. MaxEpoch /\ MaxEpoch \in Nat
  BY SteadyTypes DEF Validator
<1>2. d.acc \in Nat /\ d.deltaEpoch \in Nat /\ d.nextDeltaEpoch \in Nat
  BY <1>1 DEF Delegator
<1>3. /\ f.acc = d.acc /\ f.deltaEpoch = d.deltaEpoch /\ f.nextDeltaEpoch = d.nextDeltaEpoch
      /\ acc <= to
  BY DEF SameStakes
<1>4. InOrder(d, accs[v], acc, epoch)
  BY DEF Ordered
<1>5. ASSUME NEW e \in {d.deltaEpoch, d.nextDeltaEpoch}, IsEpochActive(epoch, e)
      PROVE  /\ SnapshotValue(accs'[v], e) = SnapshotValue(accs[v], e)
             /\ SnapshotValue(accs[v], e) \in Nat
  <2>1. Awaits(del, withdrawals, v, e) /\ Awaits(del', withdrawals', v, e)
    BY <1>3 DEF Awaits
  <2>2. e \in Nat /\ e # 0 /\ e <= epoch
    BY <1>2, <1>5 DEF IsEpochActive
  <2>3. e \in Epochs
    BY <1>1, <2>2 DEF Epochs
  <2> QED
    BY <1>1, <2>1, <2>2, <2>3, ValuesKept, SnapshotValueType
<1> HIDE DEF d, f, acc, to
<1>6. f.acc <= to
  BY <1>1, <1>2, <1>3, <1>4 DEF InOrder
<1>7. \A e \in {f.deltaEpoch, f.nextDeltaEpoch} : IsEpochActive(epoch, e) =>
          f.acc <= SnapshotValue(accs'[v], e) /\ SnapshotValue(accs'[v], e) <= to
  <2> SUFFICES ASSUME NEW e \in {f.deltaEpoch, f.nextDeltaEpoch}, IsEpochActive(epoch, e)
               PROVE  f.acc <= SnapshotValue(accs'[v], e) /\ SnapshotValue(accs'[v], e) <= to
    OBVIOUS
  <2>1. e \in {d.deltaEpoch, d.nextDeltaEpoch}
    BY <1>3
  <2>2. d.acc <= SnapshotValue(accs[v], e) /\ SnapshotValue(accs[v], e) <= acc
    BY <1>4, <2>1 DEF InOrder
  <2>3. SnapshotValue(accs'[v], e) = SnapshotValue(accs[v], e) /\ SnapshotValue(accs[v], e) \in Nat
    BY <1>5, <2>1
  <2> QED
    BY <1>1, <1>3, <2>2, <2>3
<1>8. IsEpochActive(epoch, f.deltaEpoch) /\ IsEpochActive(epoch, f.nextDeltaEpoch) =>
          SnapshotValue(accs'[v], f.deltaEpoch) <= SnapshotValue(accs'[v], f.nextDeltaEpoch)
  BY <1>3, <1>4, <1>5 DEF InOrder
<1>9. InOrder(f, accs'[v], to, epoch)
  BY <1>6, <1>7, <1>8 DEF InOrder
<1> QED
  BY <1>9 DEF f, to

\* An untouched request stays in order while accumulators only grow.
LEMMA RequestOrderKept ==
    ASSUME Steady, Ordered, NEW v \in ValIds, NEW b \in Addrs, NEW w \in WithdrawIds,
           withdrawals'[v][b][w] = withdrawals[v][b][w], val[v].acc <= val'[v].acc
    PROVE  RequestInOrder(withdrawals'[v][b][w], accs'[v], val'[v].acc, epoch)
<1> DEFINE r == withdrawals[v][b][w]
           acc == val[v].acc
           to == val'[v].acc
<1>1. /\ r \in WithdrawalRequest /\ acc \in Nat /\ to \in Nat
      /\ accs[v] \in Accumulators
      /\ epoch \in 0 .. MaxEpoch /\ MaxEpoch \in Nat
  BY SteadyTypes DEF Validator
<1>2. r.acc \in Nat /\ r.epoch \in Nat
  BY <1>1 DEF WithdrawalRequest
<1>3. RequestInOrder(r, accs[v], acc, epoch)
  BY DEF Ordered
<1>4. ASSUME r.amount # 0, r.epoch <= epoch
      PROVE  /\ SnapshotValue(accs'[v], r.epoch) = SnapshotValue(accs[v], r.epoch)
             /\ SnapshotValue(accs[v], r.epoch) \in Nat
  <2>1. Awaits(del, withdrawals, v, r.epoch) /\ Awaits(del', withdrawals', v, r.epoch)
    BY <1>4 DEF Awaits
  <2>2. r.epoch # 0
    BY <1>4 DEF Steady, RequestsFiled
  <2>3. r.epoch \in Epochs
    BY <1>1, <1>2, <1>4 DEF Epochs
  <2> QED
    BY <1>1, <1>2, <1>4, <2>1, <2>2, <2>3, ValuesKept, SnapshotValueType
<1> HIDE DEF r, acc, to
<1>5. acc <= to
  BY DEF acc, to
<1>6. RequestInOrder(r, accs'[v], to, epoch)
  BY <1>1, <1>2, <1>3, <1>4, <1>5 DEF RequestInOrder
<1> QED
  BY <1>6 DEF r, to

\* With nothing due, the cursor is all there is.
LEMMA UpToDateInOrder ==
    ASSUME NEW d \in Delegator, NEW A, NEW acc \in Nat, epoch \in Nat,
           UpToDate(d, acc), d.acc <= acc
    PROVE  InOrder(d, A, acc, epoch)
<1>1. ~IsEpochActive(epoch, d.deltaEpoch) /\ ~IsEpochActive(epoch, d.nextDeltaEpoch)
  BY DEF UpToDate, IsEpochActive
<1> QED
  BY <1>1 DEF InOrder

\* Within an epoch order is kept by whatever settles to the present
\* accumulator.
LEMMA OrderWithinEpoch ==
    ASSUME Steady, Ordered, epoch' = epoch,
           \A v \in ValIds : val[v].acc <= val'[v].acc,
           \A v \in ValIds, a \in Addrs :
              \/ SameStakes(del[v][a], del'[v][a])
              \/ /\ UpToDate(del'[v][a], val'[v].acc)
                 /\ del'[v][a].acc <= val'[v].acc,
           \A v \in ValIds, a \in Addrs, w \in WithdrawIds :
              \/ withdrawals'[v][a][w] = withdrawals[v][a][w]
              \/ withdrawals'[v][a][w].amount = 0
              \/ /\ withdrawals'[v][a][w].epoch > epoch
                 /\ withdrawals'[v][a][w].acc <= val'[v].acc
    PROVE  Ordered'
<1>1. ASSUME NEW v \in ValIds, NEW a \in Addrs
      PROVE  InOrder(del'[v][a], accs'[v], val'[v].acc, epoch)
  <2>1. CASE SameStakes(del[v][a], del'[v][a])
    BY <2>1, DelegationOrderKept
  <2>2. CASE UpToDate(del'[v][a], val'[v].acc) /\ del'[v][a].acc <= val'[v].acc
    <3>1. del'[v][a] \in Delegator /\ val'[v].acc \in Nat /\ epoch \in Nat
      BY SteadyTypes DEF Validator
    <3> QED
      BY <2>2, <3>1, UpToDateInOrder
  <2> QED
    BY <2>1, <2>2
<1>2. ASSUME NEW v \in ValIds, NEW a \in Addrs, NEW w \in WithdrawIds
      PROVE  RequestInOrder(withdrawals'[v][a][w], accs'[v], val'[v].acc, epoch)
  <2> DEFINE r == withdrawals'[v][a][w]
  <2>1. CASE r = withdrawals[v][a][w]
    BY <2>1, RequestOrderKept
  <2>2. CASE r.amount = 0
    BY <2>2 DEF RequestInOrder
  <2>3. CASE r.epoch > epoch /\ r.acc <= val'[v].acc
    <3>1. r.epoch \in Nat /\ epoch \in Nat
      BY SteadyTypes DEF WithdrawalRequest
    <3>2. ~(r.epoch <= epoch)
      BY <2>3, <3>1
    <3> QED
      BY <2>3, <3>2 DEF RequestInOrder
  <2> QED
    BY <2>1, <2>2, <2>3
<1> QED
  BY <1>1, <1>2 DEF Ordered

\* An epoch begins: what becomes due is due at the accumulator of this moment.
LEMMA OrderAcrossBoundary ==
    ASSUME Steady, Fresh, Ordered, EpochBoundary
    PROVE  Ordered'
<1>1. epoch' = epoch + 1 /\ val' = val /\ del' = del /\ withdrawals' = withdrawals
  BY DEF EpochBoundary, HandleSyscallOnEpochChange
<1>2. epoch \in Nat /\ epoch \in 0 .. MaxEpoch
  BY SteadyTypes
<1>3. ASSUME NEW v \in ValIds, NEW b \in Addrs
      PROVE  InOrder(del'[v][b], accs'[v], val'[v].acc, epoch')
  <2> DEFINE d == del[v][b]
             acc == val[v].acc
             B == accs'[v]
             now == epoch + 1
  <2>1. d.acc \in Nat /\ d.deltaEpoch \in Nat /\ d.nextDeltaEpoch \in Nat /\ acc \in Nat
    BY SteadyTypes DEF Delegator, Validator
  <2>2. InOrder(d, B, acc, epoch)
    <3>1. SameStakes(del[v][b], del'[v][b]) /\ val[v].acc <= val'[v].acc
      BY <1>1, <2>1 DEF SameStakes
    <3>2. InOrder(del'[v][b], accs'[v], val'[v].acc, epoch)
      BY <3>1, DelegationOrderKept
    <3> QED
      BY <1>1, <3>2
  <2>3. ASSUME NEW e \in {d.deltaEpoch, d.nextDeltaEpoch}, e = epoch + 1
        PROVE  SnapshotValue(B, e) = acc
    <3>1. Awaits(del, withdrawals, v, e)
      BY DEF Awaits
    <3> QED
      BY <2>3, <3>1, NewlyDue
  <2>4. \A e \in Nat : IsEpochActive(now, e) <=> IsEpochActive(epoch, e) \/ e = epoch + 1
    BY <1>2 DEF IsEpochActive
  <2>5. d.deltaEpoch # 0 /\ d.nextDeltaEpoch # 0 => d.nextDeltaEpoch = d.deltaEpoch + 1
    BY DEF Steady, Inv, PendingWindow, PendingInWindow
  <2> HIDE DEF d, acc, B, now
  <2>6. d.acc <= acc
    BY <2>2 DEF InOrder
  <2>7. \A e \in {d.deltaEpoch, d.nextDeltaEpoch} : IsEpochActive(now, e) =>
            d.acc <= SnapshotValue(B, e) /\ SnapshotValue(B, e) <= acc
    BY <2>1, <2>2, <2>3, <2>4, <2>6 DEF InOrder
  <2>8. IsEpochActive(now, d.deltaEpoch) /\ IsEpochActive(now, d.nextDeltaEpoch) =>
            SnapshotValue(B, d.deltaEpoch) <= SnapshotValue(B, d.nextDeltaEpoch)
    <3> SUFFICES ASSUME IsEpochActive(now, d.deltaEpoch), IsEpochActive(now, d.nextDeltaEpoch)
                 PROVE  SnapshotValue(B, d.deltaEpoch) <= SnapshotValue(B, d.nextDeltaEpoch)
      OBVIOUS
    <3>1. CASE d.nextDeltaEpoch = epoch + 1
      BY <2>3, <2>7, <3>1
    <3>2. CASE d.nextDeltaEpoch # epoch + 1
      <4>1. IsEpochActive(epoch, d.nextDeltaEpoch)
        BY <2>1, <2>4, <3>2
      <4>2. d.nextDeltaEpoch = d.deltaEpoch + 1
        BY <2>5 DEF IsEpochActive
      <4>3. IsEpochActive(epoch, d.deltaEpoch)
        BY <1>2, <2>1, <4>1, <4>2 DEF IsEpochActive, now
      <4> QED
        BY <2>2, <4>1, <4>3 DEF InOrder
    <3> QED
      BY <3>1, <3>2
  <2>9. InOrder(d, B, acc, now)
    BY <2>6, <2>7, <2>8 DEF InOrder
  <2> QED
    BY <1>1, <2>9 DEF d, acc, B, now
<1>4. ASSUME NEW v \in ValIds, NEW b \in Addrs, NEW w \in WithdrawIds
      PROVE  RequestInOrder(withdrawals'[v][b][w], accs'[v], val'[v].acc, epoch')
  <2> DEFINE r == withdrawals[v][b][w]
             acc == val[v].acc
             B == accs'[v]
  <2>1. r.acc \in Nat /\ r.epoch \in Nat /\ acc \in Nat
    BY SteadyTypes DEF WithdrawalRequest, Validator
  <2>2. RequestInOrder(r, B, acc, epoch)
    <3>1. withdrawals'[v][b][w] = withdrawals[v][b][w] /\ val[v].acc <= val'[v].acc
      BY <1>1, <2>1
    <3>2. RequestInOrder(withdrawals'[v][b][w], accs'[v], val'[v].acc, epoch)
      BY <3>1, RequestOrderKept
    <3> QED
      BY <1>1, <3>2
  <2>3. ASSUME r.amount # 0, r.epoch = epoch + 1
        PROVE  SnapshotValue(B, r.epoch) = acc
    <3>1. Awaits(del, withdrawals, v, r.epoch)
      BY <2>3 DEF Awaits
    <3> QED
      BY <2>3, <3>1, NewlyDue
  <2>4. r.epoch <= epoch + 1 => r.epoch <= epoch \/ r.epoch = epoch + 1
    BY <1>2, <2>1
  <2> HIDE DEF r, acc, B
  <2>5. RequestInOrder(r, B, acc, epoch + 1)
    BY <2>1, <2>2, <2>3, <2>4 DEF RequestInOrder
  <2> QED
    BY <1>1, <2>5 DEF r, acc, B
<1> QED
  BY <1>3, <1>4 DEF Ordered

\* Whatever the step is.
LEMMA OrderKept ==
    ASSUME Steady, Fresh, Ordered, StepKind
    PROVE  Ordered'
<1>1. /\ epoch \in Nat
      /\ \A v \in ValIds : val[v].acc \in Nat /\ val'[v].acc \in Nat
      /\ \A v \in ValIds, a \in Addrs : del[v][a].acc \in Nat
  BY SteadyTypes DEF Validator, Delegator
<1>2. \A v \in ValIds, a \in Addrs : SameStakes(del[v][a], del[v][a])
  BY DEF SameStakes
<1>3. ASSUME NEW v \in ValIds, NEW a \in Addrs, SettledCall(v, a)
      PROVE  Ordered'
  <2>1. /\ epoch' = epoch /\ val'[v].acc = val[v].acc
        /\ \A u \in ValIds \ {v} : /\ val'[u] = val[u] /\ del'[u] = del[u]
                                   /\ withdrawals'[u] = withdrawals[u]
        /\ \A b \in Addrs \ {a} : del'[v][b] = del[v][b]
    BY <1>3 DEF SettledCall, OnlyAbout
  <2>2. UpToDate(del'[v][a], val'[v].acc) /\ del'[v][a].acc <= val'[v].acc
    <3>1. del'[v][a].acc \in {0, del[v][a].acc, val[v].acc}
      BY <1>3 DEF SettledCall
    <3>2. del[v][a].acc <= val[v].acc
      BY DEF Ordered, InOrder
    <3>3. del'[v][a].acc <= val[v].acc
      BY <1>1, <3>1, <3>2
    <3> QED
      BY <1>3, <2>1, <3>3 DEF SettledCall
  <2>3. \A u \in ValIds : val[u].acc <= val'[u].acc
    BY <1>1, <2>1
  <2>4. \A u \in ValIds, b \in Addrs :
           \/ SameStakes(del[u][b], del'[u][b])
           \/ UpToDate(del'[u][b], val'[u].acc) /\ del'[u][b].acc <= val'[u].acc
    BY <1>2, <2>1, <2>2
  <2>5. ASSUME NEW u \in ValIds, NEW b \in Addrs, NEW w \in WithdrawIds
        PROVE  \/ withdrawals'[u][b][w] = withdrawals[u][b][w]
               \/ withdrawals'[u][b][w].amount = 0
               \/ /\ withdrawals'[u][b][w].epoch > epoch
                  /\ withdrawals'[u][b][w].acc <= val'[u].acc
    <3>1. ActivationEpoch > epoch
      BY <1>1 DEF ActivationEpoch
    <3>2. val[v].acc <= val'[v].acc
      BY <2>3
    <3> QED
      BY <1>3, <2>1, <3>1, <3>2 DEF SettledCall
  <2> QED
    BY <2>1, <2>3, <2>4, <2>5, OrderWithinEpoch
<1>4. ASSUME NEW v \in ValIds, NEW a \in Addrs, NEW w \in WithdrawIds, PaidOut(v, a, w)
      PROVE  Ordered'
  <2>1. /\ epoch' = epoch /\ del' = del
        /\ withdrawals' = [withdrawals EXCEPT ![v][a][w] = NoWithdrawal]
        /\ \A u \in ValIds : val[u].acc <= val'[u].acc
    BY <1>1, <1>4 DEF PaidOut
  <2>2. \A u \in ValIds, b \in Addrs, z \in WithdrawIds :
           \/ withdrawals'[u][b][z] = withdrawals[u][b][z]
           \/ withdrawals'[u][b][z].amount = 0
    BY <2>1, SteadyTypes DEF NoWithdrawal
  <2> QED
    BY <1>2, <2>1, <2>2, OrderWithinEpoch
<1>5. ASSUME NEW v \in ValIds, NEW shared \in Nat, Rewarded(v, shared)
      PROVE  Ordered'
  <2> DEFINE stake == CurrentView(v).stake
             n == PerToken(shared, stake)
  <2>1. /\ UNCHANGED <<clock, withdrawals>> /\ stake # 0
        /\ \A u \in ValIds \ {v} : val'[u] = val[u]
        /\ val'[v].acc = val[v].acc + n
        /\ \A u \in ValIds, b \in Addrs : SameStakes(del[u][b], del'[u][b])
    BY <1>5 DEF Rewarded
  <2>2. stake \in Nat
    BY DEF Steady, Inv, TypeOK, CurrentView, View
  <2> HIDE DEF stake
  <2>3. n \in Nat
    BY <2>1, <2>2, PerTokenType
  <2> HIDE DEF n
  <2>4. \A u \in ValIds : val[u].acc <= val'[u].acc
    BY <1>1, <2>1, <2>3
  <2> QED
    BY <2>1, <2>4, OrderWithinEpoch DEF clock
<1>6. CASE Idle
  BY <1>1, <1>2, <1>6, OrderWithinEpoch DEF Idle
<1> QED
  BY <1>3, <1>4, <1>5, <1>6, OrderAcrossBoundary DEF StepKind

-----------------------------------------------------------------------------
(* A settlement in order and covered cannot fail.                          *)

\* In order, what is owed is never negative, up to any point it is paid at.
LEMMA OwedInOrder ==
    ASSUME NEW d \in RunningDelegator, NEW A \in Accumulators, NEW acc \in Nat,
           NEW now \in 0 .. MaxEpoch, InOrder(d, A, acc, now),
           NEW value \in Nat, d.acc <= value, value <= acc
    PROVE  /\ Accrued(d.stake, d.acc, value) \in Int
           /\ Accrued(d.stake, d.acc, value) <= Owed(d, A, acc, now)
<1> DEFINE x == Accrued(d.stake, d.acc, value)
           y == Accrued(d.stake, value, acc)
           i == OwedOn(d.deltaStake, d.deltaEpoch, A, acc, now)
           j == OwedOn(d.nextDeltaStake, d.nextDeltaEpoch, A, acc, now)
           stake == d.stake
           from == d.acc
<1>1. /\ d.stake \in Nat /\ d.acc \in Nat /\ d.deltaStake \in Nat /\ d.nextDeltaStake \in Nat
      /\ d.deltaEpoch \in Nat /\ d.nextDeltaEpoch \in Nat
      /\ now \in Nat /\ MaxEpoch \in Nat
  BY StakingAssumption DEF RunningDelegator
<1>2. stake \in Int /\ from \in Int /\ stake >= 0 /\ value \in Int /\ acc \in Int
  BY <1>1
<1> HIDE DEF stake, from
<1>3. /\ Accrued(stake, from, value) + Accrued(stake, value, acc) = Accrued(stake, from, acc)
      /\ Accrued(stake, from, value) \in Int /\ Accrued(stake, value, acc) \in Int
  <2>1. Accrued(stake, from, value) \in Int
    BY <1>2, AccruedArithmetic
  <2>2. Accrued(stake, value, acc) \in Int
    BY <1>2, AccruedArithmetic
  <2>3. \A mid \in Int : Accrued(stake, from, mid) + Accrued(stake, mid, acc)
                            = Accrued(stake, from, acc)
    BY <1>2, AccruedArithmetic
  <2> QED
    BY <1>2, <2>1, <2>2, <2>3
<1>4. Accrued(stake, value, acc) >= 0
  BY <1>2, AccruedArithmetic
<1>5. ASSUME NEW e \in {d.deltaEpoch, d.nextDeltaEpoch}, NEW more \in Nat
      PROVE  OwedOn(more, e, A, acc, now) \in Int /\ OwedOn(more, e, A, acc, now) >= 0
  <2>1. CASE IsEpochActive(now, e)
    <3> DEFINE to == SnapshotValue(A, e)
    <3>1. e \in Epochs /\ to <= acc
      BY <1>1, <2>1 DEF IsEpochActive, Epochs, InOrder
    <3>2. to \in Nat
      BY <3>1, SnapshotValueType
    <3>3. OwedOn(more, e, A, acc, now) = Accrued(more, to, acc)
      BY <2>1 DEF OwedOn
    <3>4. to <= acc
      BY <3>1
    <3> HIDE DEF to
    <3>5. to \in Int /\ acc \in Int /\ more \in Int /\ more >= 0
      BY <3>2
    <3>6. Accrued(more, to, acc) \in Int
      BY <3>5, AccruedArithmetic
    <3>7. Accrued(more, to, acc) >= 0
      BY <3>4, <3>5, AccruedArithmetic
    <3> QED
      BY <3>3, <3>6, <3>7
  <2>2. CASE ~IsEpochActive(now, e)
    BY <2>2 DEF OwedOn
  <2> QED
    BY <2>1, <2>2
<1>6. i \in Int /\ j \in Int /\ i >= 0 /\ j >= 0
  BY <1>1, <1>5
<1>7. Owed(d, A, acc, now) = Accrued(stake, from, acc) + (i + j)
  BY DEF Owed, stake, from
<1> DEFINE z == Accrued(stake, from, acc)
<1>8. x \in Int /\ y \in Int /\ y >= 0 /\ x + y = z
  BY <1>3, <1>4 DEF stake, from
<1> HIDE DEF x, y, z, i, j
<1>9. x <= z + (i + j)
  BY ONLY <1>6, <1>8
<1> QED
  BY <1>7, <1>8, <1>9 DEF x, z

\* A settlement under way that has not failed and cannot.
Healthy(s, acc) ==
    /\ s.ok = TRUE
    /\ InOrder(s.del, s.accs, acc, epoch)
    /\ Owed(s.del, s.accs, acc, epoch) <= Scaled(s.unclaimed)

\* A cursor that is not ahead and a pool that covers the claim: no error.
LEMMA CreditSucceeds ==
    ASSUME NEW s \in RunningSettlement, NEW acc \in Nat, epoch \in 0 .. MaxEpoch,
           Healthy(s, acc), NEW value \in Nat, s.del.acc <= value, value <= acc
    PROVE  Credit(s, value).ok = TRUE
<1> DEFINE d == s.del
           A == s.accs
           rewards == CalculateRewards(d.stake, value, d.acc)
           x == Accrued(d.stake, d.acc, value)
           m == Owed(d, A, acc, epoch)
           p == s.unclaimed
<1>1. /\ d \in RunningDelegator /\ A \in Accumulators /\ p \in Int
      /\ d.stake \in Nat /\ d.acc \in Nat
  BY DEF RunningSettlement, RunningDelegator
<1>2. rewards \in Int
  BY <1>1, CalculateRewardsType
<1>3. Scaled(rewards) <= x
  BY <1>1, FloorScaled
<1>4. x \in Int /\ x <= m
  <2>1. InOrder(d, A, acc, epoch) /\ d.acc <= value
    BY DEF Healthy
  <2> HIDE DEF d, A
  <2> QED
    BY <1>1, <2>1, OwedInOrder
<1>5. m \in Int
  BY <1>1, OwedType
<1>6. m <= Scaled(p)
  BY DEF Healthy
<1>7. Scaled(rewards) \in Int /\ Scaled(p) \in Int
  BY <1>1, <1>2, ScaledArithmetic
<1>8. rewards <= p
  <2> HIDE DEF rewards, x, m, p
  <2>1. Scaled(rewards) <= Scaled(p)
    BY <1>3, <1>4, <1>5, <1>6, <1>7
  <2>2. p \in Int
    BY <1>1
  <2> QED
    BY <1>2, <2>1, <2>2, ScaledArithmetic
<1>9. s.ok = TRUE /\ s.del.acc <= value
  BY DEF Healthy
<1> QED
  BY <1>8, <1>9, CreditFields

\* What a step of settling pays out of a pool that covers what is owed.
LEMMA PaysCovered ==
    ASSUME NEW s \in RunningSettlement, NEW t \in RunningSettlement, NEW acc \in Nat,
           epoch \in 0 .. MaxEpoch, Pays(s, t, acc),
           t.del.rewards + t.unclaimed = s.del.rewards + s.unclaimed,
           Owed(s.del, s.accs, acc, epoch) <= Scaled(s.unclaimed)
    PROVE  Owed(t.del, t.accs, acc, epoch) <= Scaled(t.unclaimed)
<1> DEFINE i == s.del.rewards
           j == t.del.rewards
           p == s.unclaimed
           q == t.unclaimed
           x == Owed(s.del, s.accs, acc, epoch)
           y == Owed(t.del, t.accs, acc, epoch)
<1>1. i \in Int /\ j \in Int /\ p \in Int /\ q \in Int /\ x \in Int /\ y \in Int
  BY OwedType DEF RunningSettlement, RunningDelegator
<1>2. Scaled(j - i) + y <= x /\ x <= Scaled(p) /\ j + q = i + p
  BY DEF Pays
<1> HIDE DEF i, j, p, q, x, y
<1>3. j - i \in Int /\ j - i = p - q
  BY <1>1, <1>2
<1>4. Scaled(p - q) = Scaled(p) - Scaled(q) /\ Scaled(p) \in Int /\ Scaled(q) \in Int
  BY <1>1, ScaledArithmetic
<1> DEFINE k == Scaled(p)
           m == Scaled(q)
<1>5. (k - m) + y <= x /\ x <= k /\ k \in Int /\ m \in Int
  BY <1>2, <1>3, <1>4
<1> HIDE DEF k, m
<1>6. y <= m
  BY ONLY <1>1, <1>5
<1> QED
  BY <1>6 DEF m, q, y

\* Moving the second track up keeps a settlement healthy.
LEMMA PromoteHealthy ==
    ASSUME NEW s \in RunningSettlement, NEW acc \in Nat,
           epoch \in 0 .. MaxEpoch, inBoundary \in BOOLEAN, PendingInWindow(s.del),
           Healthy(s, acc)
    PROVE  Healthy([s EXCEPT !.del = PromoteNext(@, epoch)], acc)
<1> DEFINE d == PromoteNext(s.del, epoch)
           p == [s EXCEPT !.del = d]
<1>1. /\ s.del \in RunningDelegator
      /\ p.ok = s.ok /\ p.del = d /\ p.unclaimed = s.unclaimed /\ p.accs = s.accs
  BY DEF RunningSettlement
<1>2. InOrder(d, s.accs, acc, epoch)
  <2>1. CASE d = s.del
    BY <2>1 DEF Healthy
  <2>2. CASE d # s.del
    <3>1. /\ d.acc = s.del.acc
          /\ d.deltaEpoch = s.del.nextDeltaEpoch
          /\ d.nextDeltaEpoch = 0
      BY <1>1, <2>2 DEF PromoteNext, RunningDelegator
    <3>2. InOrder(s.del, s.accs, acc, epoch)
      BY DEF Healthy
    <3>3. ~IsEpochActive(epoch, 0)
      BY DEF IsEpochActive
    <3> HIDE DEF d
    <3> QED
      BY <3>1, <3>2, <3>3 DEF InOrder
  <2> QED
    BY <2>1, <2>2
<1>3. Owed(d, s.accs, acc, epoch) <= Scaled(s.unclaimed)
  <2>1. /\ p \in RunningSettlement
        /\ p.del.rewards + p.unclaimed = s.del.rewards + s.unclaimed
    <3>1. epoch \in Nat
      BY StakingAssumption
    <3> QED
      BY <3>1, PromoteNextSettles DEF Settles
  <2>2. Pays(s, p, acc)
    BY PromotePays
  <2>3. Owed(s.del, s.accs, acc, epoch) <= Scaled(s.unclaimed)
    BY DEF Healthy
  <2> HIDE DEF p
  <2>4. Owed(p.del, p.accs, acc, epoch) <= Scaled(p.unclaimed)
    BY <2>1, <2>2, <2>3, PaysCovered
  <2> QED
    BY <1>1, <2>4
<1> HIDE DEF p, d
<1>4. Healthy(p, acc)
  BY <1>1, <1>2, <1>3 DEF Healthy
<1> QED
  BY <1>4 DEF p, d

\* So does compounding a due stake.
LEMMA CompoundHealthy ==
    ASSUME NEW s \in RunningSettlement, NEW acc \in Nat, epoch \in 0 .. MaxEpoch,
           IsEpochActive(epoch, s.del.deltaEpoch), s.del.nextDeltaEpoch # s.del.deltaEpoch,
           Healthy(s, acc)
    PROVE  Healthy(ApplyCompound(s), acc)
<1> DEFINE due == s.del.deltaEpoch
           next == s.del.nextDeltaEpoch
           value == SnapshotValue(s.accs, due)
           t == ApplyCompound(s)
<1>1. /\ s.accs \in Accumulators /\ due \in Nat /\ next \in Nat
      /\ MaxEpoch \in Nat /\ epoch \in Nat
  BY StakingAssumption DEF RunningSettlement, RunningDelegator
<1>2. due \in Epochs
  BY <1>1 DEF IsEpochActive, Epochs
<1>3. /\ value \in Nat
      /\ t.ok = Credit(s, value).ok
      /\ t.accs = DecrementRefcount(s.accs, due)
      /\ t.del.acc = value
  BY <1>2, CompoundFields
<1>4. /\ t \in RunningSettlement
      /\ t.del.rewards + t.unclaimed = s.del.rewards + s.unclaimed
      /\ t.del.deltaEpoch = next
      /\ t.del.nextDeltaEpoch = 0
  BY <1>2, ApplyCompoundSettles DEF Settles
<1>5. s.del.acc <= value /\ value <= acc
  BY DEF Healthy, InOrder
<1>6. t.ok = TRUE
  BY <1>3, <1>5, CreditSucceeds
<1>7. Owed(t.del, t.accs, acc, epoch) <= Scaled(t.unclaimed)
  <2>1. Pays(s, t, acc)
    BY CompoundPays
  <2>2. Owed(s.del, s.accs, acc, epoch) <= Scaled(s.unclaimed)
    BY DEF Healthy
  <2> HIDE DEF t
  <2> QED
    BY <1>4, <2>1, <2>2, PaysCovered
<1>8. InOrder(t.del, t.accs, acc, epoch)
  <2>1. ASSUME IsEpochActive(epoch, next)
        PROVE  /\ SnapshotValue(t.accs, next) = SnapshotValue(s.accs, next)
               /\ value <= SnapshotValue(s.accs, next) /\ SnapshotValue(s.accs, next) <= acc
    <3>1. next \in Epochs
      BY <1>1, <2>1 DEF IsEpochActive, Epochs
    <3>2. SnapshotValue(t.accs, next) = SnapshotValue(s.accs, next)
      BY <1>1, <1>2, <1>3, <3>1, DecrementKeepsOtherValues
    <3> QED
      BY <2>1, <3>2 DEF Healthy, InOrder
  <2>2. ~IsEpochActive(epoch, 0)
    BY DEF IsEpochActive
  <2> HIDE DEF t, value, next
  <2> QED
    BY <1>3, <1>4, <1>5, <2>1, <2>2 DEF InOrder
<1> HIDE DEF t
<1>9. Healthy(t, acc)
  BY <1>6, <1>7, <1>8 DEF Healthy
<1> QED
  BY <1>9 DEF t

\* pull_delegator_up_to_date does not fail.
LEMMA PullSucceeds ==
    ASSUME NEW s \in RunningSettlement, NEW acc \in Nat,
           epoch \in 0 .. MaxEpoch, inBoundary \in BOOLEAN, PendingInWindow(s.del),
           Healthy(s, acc)
    PROVE  PullDelegatorUpToDate(s, acc, epoch).ok = TRUE
<1> DEFINE p == [s EXCEPT !.del = PromoteNext(@, epoch)]
           one == IsEpochActive(epoch, p.del.deltaEpoch)
           two == IsEpochActive(epoch, p.del.nextDeltaEpoch)
           b == IF two THEN ApplyCompound(p) ELSE p
           c == IF one THEN ApplyCompound(b) ELSE b
           t == IF c.del.stake = 0 THEN c ELSE Credit(c, acc)
<1>1. MaxEpoch \in Nat /\ epoch \in Nat
  BY StakingAssumption
<1>2. /\ p \in RunningSettlement
      /\ PendingInWindow(p.del)
      /\ p.del.deltaEpoch = 0 =>
            p.del.nextDeltaEpoch = 0 \/ p.del.nextDeltaEpoch > epoch + 1
  BY <1>1, PromoteNextSettles DEF Settles
<1>3. PullDelegatorUpToDate(s, acc, epoch) = t
  BY Zenon DEF PullDelegatorUpToDate
<1>4. Healthy(p, acc)
  BY PromoteHealthy
<1> HIDE DEF p
<1>5. p.del.deltaEpoch \in Nat /\ p.del.nextDeltaEpoch \in Nat
  BY <1>2 DEF RunningSettlement, RunningDelegator
<1>6. c \in RunningSettlement /\ Healthy(c, acc)
  <2>1. CASE ~one
    <3>1. ~two
      BY <1>1, <1>2, <1>5, <2>1 DEF IsEpochActive, PendingInWindow
    <3> QED
      BY <1>2, <1>4, <2>1, <3>1
  <2>2. CASE one /\ ~two
    <3>1. c = ApplyCompound(p)
      BY <2>2
    <3>2. p.del.deltaEpoch \in Epochs
      BY <1>1, <1>5, <2>2 DEF IsEpochActive, Epochs
    <3>3. p.del.nextDeltaEpoch # p.del.deltaEpoch
      BY <1>1, <1>2, <1>5, <2>2 DEF IsEpochActive, PendingInWindow
    <3> HIDE DEF c
    <3> QED
      BY <1>2, <1>4, <2>2, <3>1, <3>2, <3>3, ApplyCompoundSettles, CompoundHealthy DEF Settles
  <2>3. CASE one /\ two
    <3>1. b = ApplyCompound(p) /\ c = ApplyCompound(b)
      BY <2>3
    <3>2. p.del.deltaEpoch \in Epochs /\ p.del.nextDeltaEpoch \in Epochs
      BY <1>1, <1>5, <2>3 DEF IsEpochActive, Epochs
    <3> HIDE DEF b, c
    <3>3. /\ b \in RunningSettlement
          /\ b.del.deltaEpoch = p.del.nextDeltaEpoch
          /\ b.del.nextDeltaEpoch = 0
      BY <1>2, <3>1, <3>2, ApplyCompoundSettles DEF Settles
    <3>4. p.del.nextDeltaEpoch # p.del.deltaEpoch /\ p.del.nextDeltaEpoch # 0
      BY <1>1, <1>2, <1>5, <2>3 DEF IsEpochActive, PendingInWindow
    <3>5. Healthy(b, acc)
      BY <1>2, <1>4, <2>3, <3>1, <3>4, CompoundHealthy
    <3>6. c \in RunningSettlement
      BY <3>1, <3>2, <3>3, ApplyCompoundSettles DEF Settles
    <3>7. Healthy(c, acc)
      BY <2>3, <3>1, <3>3, <3>4, <3>5, CompoundHealthy
    <3> QED
      BY <3>6, <3>7
  <2> QED
    BY <2>1, <2>2, <2>3
<1> HIDE DEF c
<1>7. c.ok = TRUE /\ c.del.acc <= acc /\ acc <= acc
  BY <1>6 DEF Healthy, InOrder
<1>8. Credit(c, acc).ok = TRUE
  BY <1>6, <1>7, CreditSucceeds
<1> QED
  BY <1>3, <1>7, <1>8

-----------------------------------------------------------------------------
(* From what holds of every state to what can be done in it.               *)

\* Each claim alone is covered, since no other is negative.
LEMMA EachCovered ==
    ASSUME Inv, Covered, Ordered, NEW v \in ValIds, NEW a \in Addrs
    PROVE  /\ Owed(del[v][a], accs[v], val[v].acc, epoch) <= Scaled(val[v].unclaimed)
           /\ \A w \in WithdrawIds :
                 OwedTo(withdrawals[v][a][w], accs[v], val[v].acc, epoch)
                    <= Scaled(val[v].unclaimed)
<1> DEFINE S == Addrs \X WithdrawIds
           p == val[v].unclaimed
           acc == val[v].acc
           A == accs[v]
           i == Owings(del, v, A, acc, epoch)
           j == OwingsTo(withdrawals, v, A, acc, epoch)
<1>1. /\ p \in Nat /\ acc \in Nat /\ A \in Accumulators /\ epoch \in 0 .. MaxEpoch
      /\ MaxEpoch \in Nat /\ epoch \in Nat
      /\ \A b \in Addrs : del[v][b] \in RunningDelegator
      /\ \A b \in Addrs, w \in WithdrawIds : withdrawals[v][b][w] \in WithdrawalRequest
      /\ del \in [ValIds -> [Addrs -> Delegator]]
      /\ withdrawals \in [ValIds -> [Addrs -> [WithdrawIds -> WithdrawalRequest]]]
  BY StakingAssumption DEF Inv, TypeOK, Validator, Accumulators, Delegator, RunningDelegator
<1>2. i \in [Addrs -> Int] /\ j \in [S -> Int]
  BY <1>1, OwingsTypes
<1>3. ASSUME NEW b \in Addrs PROVE i[b] \in Nat
  <2> DEFINE d == del[v][b]
  <2>1. d \in RunningDelegator /\ InOrder(d, A, acc, epoch) /\ i[b] = Owed(d, A, acc, epoch)
    BY <1>1 DEF Ordered, Owings
  <2>2. d.acc \in Nat /\ d.stake \in Nat /\ d.acc <= acc
    BY <2>1 DEF RunningDelegator, InOrder
  <2> HIDE DEF d, i, A, acc
  <2> DEFINE from == d.acc
             stake == d.stake
  <2>3. from \in Nat /\ from <= from /\ from <= acc
    BY <2>2
  <2>4. Accrued(d.stake, d.acc, from) <= Owed(d, A, acc, epoch)
    BY <1>1, <2>1, <2>3, OwedInOrder
  <2>5. stake \in Int /\ from \in Int
    BY <2>2
  <2>6. Accrued(stake, from, from) = 0
    <3> HIDE DEF stake, from
    <3> QED
      BY <2>5, AccruedArithmetic
  <2>7. 0 <= i[b]
    BY <2>1, <2>4, <2>6
  <2> QED
    BY <1>2, <2>7
<1>4. ASSUME NEW r \in S PROVE j[r] \in Nat
  <2> DEFINE q == withdrawals[v][r[1]][r[2]]
             to == IF q.epoch <= epoch THEN SnapshotValue(A, q.epoch) ELSE acc
             amount == q.amount
             from == q.acc
  <2>1. r[1] \in Addrs /\ r[2] \in WithdrawIds
    OBVIOUS
  <2>2. q \in WithdrawalRequest /\ RequestInOrder(q, A, acc, epoch)
    BY <1>1, <2>1 DEF Ordered
  <2>3. amount \in Nat /\ from \in Nat /\ q.epoch \in Nat
    BY <2>2 DEF WithdrawalRequest
  <2>4. to \in Nat
    <3>1. q.epoch <= epoch => q.epoch \in Epochs
      BY <1>1, <2>3 DEF Epochs
    <3> QED
      BY <1>1, <3>1, SnapshotValueType
  <2>5. amount # 0 => from <= to
    BY <2>2 DEF RequestInOrder
  <2>6. j[r] = Accrued(amount, from, to)
    BY DEF OwingsTo, OwedTo
  <2> HIDE DEF amount, from, to, j
  <2>7. amount \in Int /\ from \in Int /\ to \in Int /\ amount >= 0
    BY <2>3, <2>4
  <2>8. amount = 0 => Accrued(amount, from, to) = 0
    BY <2>7, AccruedArithmetic
  <2>9. amount # 0 => Accrued(amount, from, to) >= 0
    BY <2>5, <2>7, AccruedArithmetic
  <2>10. j[r] >= 0
    BY <2>6, <2>8, <2>9
  <2> QED
    BY <1>2, <2>10
<1>5. IsFiniteSet(Addrs) /\ IsFiniteSet(S)
  BY StakingAssumption, FS_Product
<1>6. DOMAIN i = Addrs /\ DOMAIN j = S
  BY <1>2
<1>7. Debt(v) = SumFunction(i) + SumFunction(j) /\ Debt(v) <= Scaled(p)
  <2>1. Debt(v) = SumFunction(i) + SumFunction(j)
    BY Zenon DEF Debt, Debts
  <2> QED
    BY <2>1 DEF Covered
<1> HIDE DEF i, j, S, p, acc, A
<1>8. Scaled(p) \in Int
  <2>1. p \in Int
    BY <1>1
  <2> QED
    BY <2>1, ScaledArithmetic
<1> DEFINE k == SumFunctionOnSet(i, Addrs)
           m == SumFunctionOnSet(j, S)
<1>9. k \in Nat /\ m \in Nat
  BY <1>3, <1>4, <1>5, SumNat
<1>10. /\ \A b \in Addrs : i[b] <= k
       /\ \A r \in S : j[r] <= m
  BY <1>3, <1>4, <1>5, SumMember
<1>11. k + m <= Scaled(p)
  BY <1>6, <1>7 DEF SumFunction
<1> HIDE DEF k, m
<1>12. k <= Scaled(p) /\ m <= Scaled(p)
  BY <1>8, <1>9, <1>11
<1>13. \A b \in Addrs : i[b] <= Scaled(p)
  BY <1>3, <1>8, <1>9, <1>10, <1>12
<1>14. \A r \in S : j[r] <= Scaled(p)
  BY <1>4, <1>8, <1>9, <1>10, <1>12
<1>15. i[a] = Owed(del[v][a], accs[v], val[v].acc, epoch)
  BY DEF i, A, acc, Owings
<1>16. \A w \in WithdrawIds : <<a, w>> \in S /\
           j[<<a, w>>] = OwedTo(withdrawals[v][a][w], accs[v], val[v].acc, epoch)
  BY DEF j, S, A, acc, OwingsTo
<1> QED
  BY <1>13, <1>14, <1>15, <1>16 DEF p

\* Every delegation can be settled.
LEMMA PulledSucceeds ==
    ASSUME Inv, Covered, Ordered, NEW v \in ValIds, NEW a \in Addrs
    PROVE  Pulled(v, a).ok
<1> DEFINE s == Settlement(del[v][a], val[v].unclaimed, accs[v])
           acc == val[v].acc
<1>1. /\ del[v][a] \in Delegator /\ val[v].unclaimed \in Nat /\ acc \in Nat
      /\ accs[v] \in Accumulators /\ epoch \in 0 .. MaxEpoch /\ inBoundary \in BOOLEAN
      /\ PendingInWindow(del[v][a])
  BY DEF Inv, TypeOK, Validator, Accumulators, PendingWindow
<1>2. /\ s \in RunningSettlement /\ s.ok = TRUE
      /\ s.del = del[v][a] /\ s.accs = accs[v] /\ s.unclaimed = val[v].unclaimed
  <2>1. s.unclaimed = val[v].unclaimed
    BY DEF Settlement
  <2> DEFINE d == del[v][a]
             n == val[v].unclaimed
             A == accs[v]
  <2>2. d \in Delegator /\ n \in Nat /\ A \in Accumulators
    BY <1>1
  <2>3. s = Settlement(d, n, A)
    OBVIOUS
  <2> HIDE DEF s, d, n, A
  <2>4. /\ s \in RunningSettlement /\ s.ok = TRUE
        /\ s.del = d /\ s.accs = A
    BY <2>2, <2>3, SettlementType
  <2> QED
    BY <2>1, <2>4 DEF d, A
<1>3. Pulled(v, a) = PullDelegatorUpToDate(s, acc, epoch)
  BY DEF Pulled
<1> HIDE DEF s
<1>4. InOrder(del[v][a], accs[v], acc, epoch)
  BY DEF Ordered
<1>5. Owed(del[v][a], accs[v], acc, epoch) <= Scaled(val[v].unclaimed)
  BY EachCovered
<1> HIDE DEF acc
<1>6. Healthy(s, acc)
  BY <1>2, <1>4, <1>5 DEF Healthy
<1>7. PullDelegatorUpToDate(s, acc, epoch).ok = TRUE
  BY <1>1, <1>2, <1>6, PullSucceeds
<1> QED
  BY <1>3, <1>7

\* The account of the precompile holds any one request and any one pool.
LEMMA BalanceCoversRequest ==
    ASSUME TypeOK, ContractBalanced, NEW v \in ValIds, NEW a \in Addrs, NEW w \in WithdrawIds
    PROVE  withdrawals[v][a][w].amount + val[v].unclaimed <= balance
<1> DEFINE f == Pools(val)
           g == Credits(del)
           h == Filed(withdrawals)
           r == <<v, a, w>>
<1>1. /\ \A u \in ValIds : f[u] \in Nat
      /\ \A p \in Pairs : g[p] \in Nat
      /\ \A q \in Requests : h[q] \in Nat
  BY DEF TypeOK, Validator, Delegator, WithdrawalRequest, Pools, Credits, Filed, Pairs, Requests
<1>2. /\ r \in Requests
      /\ h[r] = withdrawals[v][a][w].amount
      /\ f[v] = val[v].stake + val[v].unclaimed
  BY DEF Requests, Filed, Pools
<1>3. DOMAIN f = ValIds /\ DOMAIN g = Pairs /\ DOMAIN h = Requests
  BY DEF Pools, Credits, Filed
<1>4. balance = SumFunction(f) + SumFunction(g) + SumFunction(h)
  BY Zenon DEF ContractBalanced, Pools, Credits, Filed, Requests
<1>5. val[v].stake \in Nat /\ val[v].unclaimed \in Nat /\ withdrawals[v][a][w].amount \in Nat
  BY DEF TypeOK, Validator, WithdrawalRequest
<1> HIDE DEF f, g, h, r
<1> DEFINE x == SumFunctionOnSet(f, ValIds)
           y == SumFunctionOnSet(g, Pairs)
           z == SumFunctionOnSet(h, Requests)
<1>6. x \in Nat /\ y \in Nat /\ z \in Nat
  BY <1>1, FiniteDomains, SumNat
<1>7. f[v] <= x /\ h[r] <= z
  BY <1>1, <1>2, FiniteDomains, SumMember
<1>8. balance = x + y + z
  BY <1>3, <1>4 DEF SumFunction
<1> HIDE DEF x, y, z
<1> QED
  BY <1>2, <1>5, <1>6, <1>7, <1>8

\* Every withdrawal that is due can be paid.
LEMMA DuePayable ==
    ASSUME Inv, ContractBalanced, Covered, Ordered,
           NEW v \in ValIds, NEW a \in Addrs, NEW w \in WithdrawIds,
           WithdrawalReady(withdrawals[v][a][w])
    PROVE  WithdrawalPayable(v, withdrawals[v][a][w])
<1> DEFINE r == withdrawals[v][a][w]
           value == SnapshotValue(accs[v], r.epoch)
           rewards == WithdrawalRewards(v, r)
           p == val[v].unclaimed
           acc == val[v].acc
           amount == r.amount
           from == r.acc
           m == OwedTo(r, accs[v], acc, epoch)
<1>1. /\ r \in WithdrawalRequest /\ p \in Nat /\ acc \in Nat /\ accs[v] \in Accumulators
      /\ balance \in Nat /\ epoch \in 0 .. MaxEpoch /\ epoch \in Nat /\ MaxEpoch \in Nat
  BY StakingAssumption DEF Inv, TypeOK, Validator, Accumulators
<1>2. amount \in Nat /\ from \in Nat /\ r.epoch \in Nat
  BY <1>1 DEF WithdrawalRequest
<1>3. amount # 0 /\ r.epoch <= epoch
  BY DEF WithdrawalReady, IsEpochActive
<1>4. from <= value
  BY <1>3 DEF Ordered, RequestInOrder
<1>5. value \in Nat
  <2>1. r.epoch \in Epochs
    BY <1>1, <1>2, <1>3 DEF Epochs
  <2> QED
    BY <1>1, <2>1, SnapshotValueType
<1>6. rewards = CalculateRewards(amount, value, from) /\ m = Accrued(amount, from, value)
  BY <1>3 DEF WithdrawalRewards, OwedTo
<1>7. m <= Scaled(p)
  BY EachCovered
<1>8. amount + p <= balance
  BY BalanceCoversRequest DEF Inv
<1> HIDE DEF value, rewards, p, amount, from, m
<1>9. rewards \in Int /\ Scaled(rewards) <= m
  BY <1>2, <1>5, <1>6, CalculateRewardsType, FloorScaled
<1>10. m \in Int
  BY <1>2, <1>5, <1>6, AccruedArithmetic
<1>11. p \in Int
  BY <1>1
<1>12. Scaled(rewards) \in Int /\ Scaled(p) \in Int
  BY <1>9, <1>11, ScaledArithmetic
<1>13. Scaled(rewards) <= Scaled(p)
  BY <1>7, <1>9, <1>10, <1>12
<1>14. rewards <= p
  BY <1>9, <1>11, <1>13, ScaledArithmetic
<1>15. amount + rewards <= balance
  BY <1>1, <1>2, <1>8, <1>9, <1>11, <1>14
<1> QED
  BY <1>4, <1>14, <1>15 DEF WithdrawalPayable, value, rewards, p, amount, from

(***************************************************************************)
(* The inductive invariant: what is owed is covered (RewardInv), and no    *)
(* cursor is ahead of the snapshots it is settled at (Ordered), so that    *)
(* nothing that is owed is negative and each claim alone is covered too.   *)
(***************************************************************************)
PayableInv == RewardInv /\ Ordered

\* Every step keeps everything payable.
LEMMA PayableStep ==
    ASSUME PayableInv, [Next]_vars
    PROVE  PayableInv'
<1>1. RewardInv /\ Ordered
  BY DEF PayableInv
<1>2. Steady /\ Fresh /\ StepKind
  BY <1>1, RewardStepFacts
<1>3. RewardInv'
  BY <1>1, RewardStep
<1> QED
  BY <1>1, <1>2, <1>3, OrderKept DEF PayableInv

\* At first there is nothing to pay.
LEMMA InitPayable ==
    ASSUME Init
    PROVE  PayableInv
<1>1. \A v \in ValIds, a \in Addrs : InOrder(del[v][a], accs[v], val[v].acc, epoch)
  BY DEF Init, InOrder, IsEpochActive, NoDelegator, NoValidator
<1>2. \A v \in ValIds, a \in Addrs, w \in WithdrawIds :
          RequestInOrder(withdrawals[v][a][w], accs[v], val[v].acc, epoch)
  BY DEF Init, RequestInOrder, NoWithdrawal
<1> QED
  BY <1>1, <1>2, InitReward DEF PayableInv, Ordered

(***************************************************************************)
(* No funds are stuck under the documented lifecycle: settling a           *)
(* delegation never meets the "internal error" and the "solvency error" of *)
(* pull_delegator_up_to_date, so that nobody is ever kept from claiming,   *)
(* delegating or undelegating by what others did, and every withdrawal     *)
(* whose delay is over can be paid out of the pool and the account.        *)
(***************************************************************************)
THEOREM FundsNeverStuck == Spec => []NoStuckFunds
<1>1. Init => PayableInv
  BY InitPayable
<1>2. PayableInv /\ [Next]_vars => PayableInv'
  BY PayableStep
<1>3. PayableInv => NoStuckFunds
  <2> SUFFICES ASSUME PayableInv PROVE NoStuckFunds
    OBVIOUS
  <2>1. Inv /\ ContractBalanced /\ Covered /\ Ordered
    BY DEF PayableInv, RewardInv, RefInv, EarningInv, BalanceInv
  <2> QED
    BY <2>1, PulledSucceeds, DuePayable DEF NoStuckFunds
<1> QED
  BY <1>1, <1>2, <1>3, PTL DEF Spec

-----------------------------------------------------------------------------
(* What an account can claim.                                              *)

\* The accumulator a delegation is settled at before the present one, and what
\* it earns up to there.
SettledAt(d, A, now) ==
    IF IsEpochActive(now, d.nextDeltaEpoch) THEN SnapshotValue(A, d.nextDeltaEpoch)
    ELSE IF IsEpochActive(now, d.deltaEpoch) THEN SnapshotValue(A, d.deltaEpoch)
    ELSE d.acc

DueRewards(d, A, now) ==
    LET one   == IsEpochActive(now, d.deltaEpoch)
        two   == IsEpochActive(now, d.nextDeltaEpoch)
        start == IF one THEN SnapshotValue(A, d.deltaEpoch) ELSE d.acc
        stake == d.stake + (IF one THEN d.deltaStake ELSE 0)
    IN  (IF one THEN CalculateRewards(d.stake, start, d.acc) ELSE 0)
      + (IF two THEN CalculateRewards(stake, SnapshotValue(A, d.nextDeltaEpoch), start)
         ELSE 0)

\* What settling makes of the rewards of a delegation.
Worth(d, A, acc, now) ==
    (d.rewards + DueRewards(d, A, now))
  + CalculateRewards(ActiveIn(d, now), acc, SettledAt(d, A, now))

\* Tracks that are due one after the other.
Consecutive(d) ==
    d.deltaEpoch # 0 /\ d.nextDeltaEpoch # 0 => d.nextDeltaEpoch = d.deltaEpoch + 1

\* No stake or no time, no rewards; more of an accumulator, more of them.
LEMMA RewardsOfTime ==
    ASSUME NEW stake \in Nat, NEW from \in Nat, NEW to \in Nat
    PROVE  /\ CalculateRewards(0, to, from) = 0
           /\ CalculateRewards(stake, to, to) = 0
           /\ \A later \in Nat : to <= later =>
                 CalculateRewards(stake, to, from) <= CalculateRewards(stake, later, from)
<1>1. UNIT_BIAS \in Nat \ {0}
  BY StakingConstantsAssumption
<1>2. /\ (to - from) * 0 = 0 /\ (to - to) * stake = 0
      /\ 0 \div UNIT_BIAS = 0
  BY <1>1
<1>3. ASSUME NEW later \in Nat, to <= later
      PROVE  CalculateRewards(stake, to, from) <= CalculateRewards(stake, later, from)
  <2> DEFINE x == (to - from) * stake
             y == (later - from) * stake
  <2>1. x \in Int /\ y \in Int
    OBVIOUS
  <2>2. x <= y
    <3>1. y - x = (later - to) * stake
      OBVIOUS
    <3>2. later - to \in Nat
      BY <1>3
    <3>3. \A i, j \in Nat : i * j >= 0
      OBVIOUS
    <3>4. (later - to) * stake >= 0
      BY <3>2, <3>3
    <3> HIDE DEF x, y
    <3> QED
      BY <2>1, <3>1, <3>4
  <2>3. CalculateRewards(stake, to, from) = x \div UNIT_BIAS
        /\ CalculateRewards(stake, later, from) = y \div UNIT_BIAS
    BY DEF CalculateRewards
  <2> HIDE DEF x, y
  <2>4. x \div UNIT_BIAS <= y \div UNIT_BIAS
    BY <1>1, <2>1, <2>2
  <2> QED
    BY <2>3, <2>4
<1>4. /\ CalculateRewards(0, to, from) = 0
      /\ CalculateRewards(stake, to, to) = 0
  BY <1>2 DEF CalculateRewards
<1> QED
  BY <1>3, <1>4

\* The last part of pull_delegator_up_to_date, which leaves a cursor without
\* stake where it is.
LEMMA LastCredit ==
    ASSUME NEW s \in RunningSettlement, NEW acc \in Nat
    PROVE  (IF s.del.stake = 0 THEN s ELSE Credit(s, acc)).del.rewards
              = s.del.rewards + CalculateRewards(s.del.stake, acc, s.del.acc)
<1>1. s.del.stake \in Nat /\ s.del.acc \in Nat /\ s.del.rewards \in Int
  BY DEF RunningSettlement, RunningDelegator
<1>2. CASE s.del.stake = 0
  BY <1>1, <1>2, RewardsOfTime
<1>3. CASE s.del.stake # 0
  BY <1>1, <1>3, CreditFields
<1> QED
  BY <1>2, <1>3

\* One application of apply_compound.
LEMMA CompoundWorth ==
    ASSUME NEW s \in RunningSettlement, s.del.deltaEpoch \in Epochs
    PROVE  LET value == SnapshotValue(s.accs, s.del.deltaEpoch)
               t == ApplyCompound(s)
           IN  /\ t \in RunningSettlement
               /\ value \in Nat
               /\ t.del.acc = value
               /\ t.del.stake = s.del.stake + s.del.deltaStake
               /\ t.del.rewards
                     = s.del.rewards + CalculateRewards(s.del.stake, value, s.del.acc)
               /\ t.del.deltaEpoch = s.del.nextDeltaEpoch
               /\ t.del.deltaStake = s.del.nextDeltaStake
               /\ t.accs = DecrementRefcount(s.accs, s.del.deltaEpoch)
<1> DEFINE value == SnapshotValue(s.accs, s.del.deltaEpoch)
           c == Credit(s, value)
           t == ApplyCompound(s)
<1>1. /\ value \in Nat
      /\ t.accs = DecrementRefcount(s.accs, s.del.deltaEpoch)
      /\ t.del.rewards = c.del.rewards
      /\ t.del.acc = value
      /\ t.del.stake = s.del.stake + s.del.deltaStake
  BY CompoundFields
<1>2. /\ t \in RunningSettlement
      /\ t.del.deltaEpoch = s.del.nextDeltaEpoch
      /\ t.del.deltaStake = s.del.nextDeltaStake
  BY ApplyCompoundSettles DEF Settles
<1> HIDE DEF t
<1>3. c.del.rewards = s.del.rewards + CalculateRewards(s.del.stake, value, s.del.acc)
  <2> HIDE DEF value
  <2> QED
    BY <1>1, CreditFields
<1> QED
  BY <1>1, <1>2, <1>3 DEF t

\* pull_delegator_up_to_date makes what is due of a delegation its rewards.
LEMMA PullWorth ==
    ASSUME NEW s \in RunningSettlement, NEW acc \in Nat, NEW now \in 0 .. MaxEpoch,
           Consecutive(s.del)
    PROVE  PullDelegatorUpToDate(s, acc, now).del.rewards = Worth(s.del, s.accs, acc, now)
<1> DEFINE d == s.del
           A == s.accs
           p == [s EXCEPT !.del = PromoteNext(@, now)]
           one == IsEpochActive(now, p.del.deltaEpoch)
           two == IsEpochActive(now, p.del.nextDeltaEpoch)
           b == IF two THEN ApplyCompound(p) ELSE p
           c == IF one THEN ApplyCompound(b) ELSE b
           t == IF c.del.stake = 0 THEN c ELSE Credit(c, acc)
           x == SnapshotValue(A, d.deltaEpoch)
           y == SnapshotValue(A, d.nextDeltaEpoch)
<1>1. /\ MaxEpoch \in Nat /\ now \in Nat /\ d \in RunningDelegator /\ A \in Accumulators
      /\ d.stake \in Nat /\ d.acc \in Nat /\ d.rewards \in Int
      /\ d.deltaStake \in Nat /\ d.nextDeltaStake \in Nat
      /\ d.deltaEpoch \in Nat /\ d.nextDeltaEpoch \in Nat
  BY StakingAssumption DEF RunningSettlement, RunningDelegator
<1>2. PullDelegatorUpToDate(s, acc, now) = t
  BY Zenon DEF PullDelegatorUpToDate
<1>3. CASE ~IsEpochActive(now, d.deltaEpoch) /\ ~IsEpochActive(now, d.nextDeltaEpoch)
  <2>1. /\ p \in RunningSettlement
        /\ p.del.stake = d.stake /\ p.del.acc = d.acc /\ p.del.rewards = d.rewards
        /\ ~one /\ ~two
    BY <1>1, <1>3 DEF PromoteNext, IsEpochActive, RunningSettlement, RunningDelegator
  <2>2. c = p
    BY <2>1
  <2> HIDE DEF p, c, d
  <2>3. t.del.rewards = d.rewards + CalculateRewards(d.stake, acc, d.acc)
    BY <2>1, <2>2, LastCredit
  <2>4. Worth(d, A, acc, now) = d.rewards + CalculateRewards(d.stake, acc, d.acc)
    <3>1. DueRewards(d, A, now) = 0
      BY <1>3 DEF DueRewards
    <3>2. ActiveIn(d, now) = d.stake /\ SettledAt(d, A, now) = d.acc
      BY <1>1, <1>3 DEF ActiveIn, SettledAt
    <3>3. d.rewards + 0 = d.rewards
      BY <1>1
    <3> QED
      BY <3>1, <3>2, <3>3 DEF Worth
  <2> QED
    BY <1>2, <2>3, <2>4 DEF d
<1>4. CASE IsEpochActive(now, d.deltaEpoch) /\ ~IsEpochActive(now, d.nextDeltaEpoch)
  <2>1. p = s
    BY <1>1, <1>4 DEF PromoteNext, IsEpochActive, RunningSettlement, RunningDelegator
  <2>2. c = ApplyCompound(s)
    BY <1>4, <2>1
  <2>3. d.deltaEpoch \in Epochs
    BY <1>1, <1>4 DEF IsEpochActive, Epochs
  <2>4. /\ c \in RunningSettlement /\ x \in Nat
        /\ c.del.acc = x /\ c.del.stake = d.stake + d.deltaStake
        /\ c.del.rewards = d.rewards + CalculateRewards(d.stake, x, d.acc)
    BY <2>2, <2>3, CompoundWorth
  <2> HIDE DEF c
  <2>5. t.del.rewards = c.del.rewards + CalculateRewards(c.del.stake, acc, c.del.acc)
    BY <2>4, LastCredit
  <2> DEFINE u == CalculateRewards(d.stake, x, d.acc)
             n == d.stake + d.deltaStake
  <2>6. u \in Int
    BY <1>1, <2>4, CalculateRewardsType
  <2>7. Worth(d, A, acc, now) = (d.rewards + u) + CalculateRewards(n, acc, x)
    <3>1. DueRewards(d, A, now) = u + 0
      BY <1>4 DEF DueRewards
    <3>2. ActiveIn(d, now) = n + 0 /\ SettledAt(d, A, now) = x
      BY <1>4 DEF ActiveIn, SettledAt
    <3> HIDE DEF d, u, n, x
    <3>3. n + 0 = n /\ u + 0 = u
      BY <1>1, <2>6 DEF n
    <3> QED
      BY <3>1, <3>2, <3>3 DEF Worth
  <2> QED
    BY <1>2, <2>4, <2>5, <2>7
<1>5. CASE ~IsEpochActive(now, d.deltaEpoch) /\ IsEpochActive(now, d.nextDeltaEpoch)
  <2>1. d.deltaEpoch = 0 /\ d.nextDeltaEpoch # 0 /\ d.nextDeltaEpoch <= now + 1
    BY <1>1, <1>5 DEF IsEpochActive, Consecutive
  <2>2. /\ p \in RunningSettlement
        /\ p.accs = A
        /\ p.del.stake = d.stake /\ p.del.acc = d.acc /\ p.del.rewards = d.rewards
        /\ p.del.deltaEpoch = d.nextDeltaEpoch /\ p.del.deltaStake = d.nextDeltaStake
        /\ p.del.nextDeltaEpoch = 0
    BY <1>1, <2>1 DEF PromoteNext, RunningSettlement, RunningDelegator
  <2>3. c = ApplyCompound(p)
    BY <1>5, <2>2 DEF IsEpochActive
  <2>4. d.nextDeltaEpoch \in Epochs
    BY <1>1, <1>5 DEF IsEpochActive, Epochs
  <2> HIDE DEF p
  <2>5. /\ c \in RunningSettlement /\ y \in Nat
        /\ c.del.acc = y /\ c.del.stake = d.stake + d.nextDeltaStake
        /\ c.del.rewards = d.rewards + CalculateRewards(d.stake, y, d.acc)
    <3>1. p.del.deltaEpoch \in Epochs
      BY <2>2, <2>4
    <3> HIDE DEF c, d, A
    <3> QED
      BY <2>2, <2>3, <3>1, CompoundWorth
  <2> HIDE DEF c
  <2>6. t.del.rewards = c.del.rewards + CalculateRewards(c.del.stake, acc, c.del.acc)
    BY <2>5, LastCredit
  <2> DEFINE u == CalculateRewards(d.stake, y, d.acc)
             n == d.stake + d.nextDeltaStake
  <2>7. u \in Int
    BY <1>1, <2>5, CalculateRewardsType
  <2>8. Worth(d, A, acc, now) = (d.rewards + u) + CalculateRewards(n, acc, y)
    <3>1. DueRewards(d, A, now) = 0 + u
      <4>1. d.stake + 0 = d.stake
        BY <1>1
      <4> QED
        BY <1>5, <4>1 DEF DueRewards
    <3>2. ActiveIn(d, now) = d.stake + 0 + d.nextDeltaStake /\ SettledAt(d, A, now) = y
      BY <1>5 DEF ActiveIn, SettledAt
    <3> HIDE DEF d, u, y
    <3>3. d.stake + 0 + d.nextDeltaStake = n /\ 0 + u = u
      BY <1>1, <2>7
    <3> QED
      BY <3>1, <3>2, <3>3 DEF Worth
  <2> QED
    BY <1>2, <2>5, <2>6, <2>8
<1>6. CASE IsEpochActive(now, d.deltaEpoch) /\ IsEpochActive(now, d.nextDeltaEpoch)
  <2>1. p = s
    BY <1>1, <1>6 DEF PromoteNext, IsEpochActive, RunningSettlement, RunningDelegator
  <2>2. b = ApplyCompound(s) /\ c = ApplyCompound(b)
    BY <1>6, <2>1
  <2>3. d.deltaEpoch \in Epochs /\ d.nextDeltaEpoch \in Epochs
        /\ d.nextDeltaEpoch # d.deltaEpoch
    BY <1>1, <1>6 DEF IsEpochActive, Epochs, Consecutive
  <2>4. /\ b \in RunningSettlement /\ x \in Nat
        /\ b.del.acc = x /\ b.del.stake = d.stake + d.deltaStake
        /\ b.del.rewards = d.rewards + CalculateRewards(d.stake, x, d.acc)
        /\ b.del.deltaEpoch = d.nextDeltaEpoch /\ b.del.deltaStake = d.nextDeltaStake
        /\ b.accs = DecrementRefcount(A, d.deltaEpoch)
    BY <2>2, <2>3, CompoundWorth
  <2>5. SnapshotValue(b.accs, d.nextDeltaEpoch) = y
    BY <1>1, <2>3, <2>4, DecrementKeepsOtherValues
  <2> HIDE DEF b
  <2> DEFINE u == CalculateRewards(d.stake, x, d.acc)
             n == d.stake + d.deltaStake
             w == CalculateRewards(n, y, x)
             m == n + d.nextDeltaStake
  <2>6. /\ c \in RunningSettlement /\ y \in Nat
        /\ c.del.acc = y /\ c.del.stake = m
        /\ c.del.rewards = b.del.rewards + w
    <3>1. b.del.deltaEpoch \in Epochs
      BY <2>3, <2>4
    <3> HIDE DEF c, d, A, x, y
    <3>2. /\ c \in RunningSettlement
          /\ SnapshotValue(b.accs, b.del.deltaEpoch) \in Nat
          /\ c.del.acc = SnapshotValue(b.accs, b.del.deltaEpoch)
          /\ c.del.stake = b.del.stake + b.del.deltaStake
          /\ c.del.rewards = b.del.rewards
                + CalculateRewards(b.del.stake, SnapshotValue(b.accs, b.del.deltaEpoch),
                                   b.del.acc)
      BY <2>2, <2>4, <3>1, CompoundWorth
    <3> QED
      BY <2>4, <2>5, <3>2
  <2> HIDE DEF c
  <2>7. t.del.rewards = c.del.rewards + CalculateRewards(c.del.stake, acc, c.del.acc)
    BY <2>6, LastCredit
  <2>8. u \in Int
    BY <1>1, <2>4, CalculateRewardsType
  <2>9. w \in Int
    <3>1. n \in Nat /\ x \in Nat /\ y \in Nat
      BY <1>1, <2>4, <2>6
    <3> HIDE DEF n, x, y
    <3> QED
      BY <3>1, CalculateRewardsType
  <2>10. Worth(d, A, acc, now) = (d.rewards + u + w) + CalculateRewards(m, acc, y)
    <3>1. DueRewards(d, A, now) = u + w
      BY <1>6 DEF DueRewards
    <3>2. ActiveIn(d, now) = m /\ SettledAt(d, A, now) = y
      BY <1>6 DEF ActiveIn, SettledAt
    <3> HIDE DEF d, u, w, y, m
    <3>3. d.rewards + (u + w) = d.rewards + u + w
      BY <1>1, <2>8, <2>9
    <3> QED
      BY <3>1, <3>2, <3>3 DEF Worth
  <2> HIDE DEF u, w, m
  <2>11. c.del.rewards = d.rewards + u + w
    BY <2>4, <2>6 DEF u
  <2> QED
    BY <1>2, <2>6, <2>7, <2>10, <2>11
<1> QED
  BY <1>3, <1>4, <1>5, <1>6

\* What an account could claim of a validator, as the model settles it.
LEMMA ClaimableWorth ==
    ASSUME NEW d \in Delegator, NEW record \in Validator, NEW A \in Accumulators,
           NEW now \in 0 .. MaxEpoch, Consecutive(d)
    PROVE  Claimable(d, record, A, now) = Worth(d, A, record.acc, now)
<1> DEFINE p == record.unclaimed
           acc == record.acc
           s == Settlement(d, p, A)
<1>1. p \in Nat /\ acc \in Nat
  BY DEF Validator
<1> HIDE DEF p, acc
<1>2. s \in RunningSettlement /\ s.del = d /\ s.accs = A
  BY <1>1, SettlementType
<1> HIDE DEF s
<1>3. PullDelegatorUpToDate(s, acc, now).del.rewards = Worth(s.del, s.accs, acc, now)
  BY <1>1, <1>2, PullWorth
<1> QED
  BY <1>2, <1>3 DEF Claimable, s, p, acc

\* A settled delegation has no more than its rewards to claim.
LEMMA SettledWorth ==
    ASSUME NEW d \in Delegator, NEW A, NEW acc \in Nat, epoch \in Nat, UpToDate(d, acc)
    PROVE  Worth(d, A, acc, epoch) = d.rewards
<1>1. /\ d.stake \in Nat /\ d.acc \in Nat /\ d.rewards \in Nat
      /\ d.deltaEpoch \in Nat /\ d.nextDeltaEpoch \in Nat
  BY DEF Delegator
<1>2. ~IsEpochActive(epoch, d.deltaEpoch) /\ ~IsEpochActive(epoch, d.nextDeltaEpoch)
  BY <1>1 DEF UpToDate, IsEpochActive
<1>3. DueRewards(d, A, epoch) = 0
  BY <1>2 DEF DueRewards
<1>4. ActiveIn(d, epoch) = d.stake /\ SettledAt(d, A, epoch) = d.acc
  BY <1>1, <1>2 DEF ActiveIn, SettledAt
<1>5. CalculateRewards(d.stake, acc, d.acc) = 0
  BY <1>1, RewardsOfTime DEF UpToDate
<1> QED
  BY <1>1, <1>3, <1>4, <1>5 DEF Worth

\* The parts of a claim are numbers.
LEMMA WorthParts ==
    ASSUME NEW d \in Delegator, NEW A \in Accumulators, NEW now \in 0 .. MaxEpoch
    PROVE  /\ SettledAt(d, A, now) \in Nat
           /\ ActiveIn(d, now) \in Nat
           /\ DueRewards(d, A, now) \in Int
<1> DEFINE one == IsEpochActive(now, d.deltaEpoch)
           two == IsEpochActive(now, d.nextDeltaEpoch)
           x == SnapshotValue(A, d.deltaEpoch)
           y == SnapshotValue(A, d.nextDeltaEpoch)
           from == d.acc
           active == d.stake
           start == IF one THEN x ELSE from
           stake == active + (IF one THEN d.deltaStake ELSE 0)
<1>1. /\ active \in Nat /\ from \in Nat
      /\ d.deltaStake \in Nat /\ d.nextDeltaStake \in Nat
      /\ d.deltaEpoch \in Nat /\ d.nextDeltaEpoch \in Nat
      /\ MaxEpoch \in Nat /\ now \in Nat
  BY StakingAssumption DEF Delegator
<1>2. one => x \in Nat
  <2>1. one => d.deltaEpoch \in Epochs
    BY <1>1 DEF IsEpochActive, Epochs
  <2> QED
    BY <2>1, SnapshotValueType
<1>3. two => y \in Nat
  <2>1. two => d.nextDeltaEpoch \in Epochs
    BY <1>1 DEF IsEpochActive, Epochs
  <2> QED
    BY <2>1, SnapshotValueType
<1>4. start \in Nat /\ stake \in Nat
  BY <1>1, <1>2
<1>5. SettledAt(d, A, now) \in Nat /\ ActiveIn(d, now) \in Nat
  BY <1>1, <1>2, <1>3 DEF SettledAt, ActiveIn
<1> DEFINE u == IF one THEN CalculateRewards(active, start, from) ELSE 0
           w == IF two THEN CalculateRewards(stake, y, start) ELSE 0
<1>6. DueRewards(d, A, now) = u + w
  BY DEF DueRewards
<1> HIDE DEF start, stake, x, y, active, from, one, two
<1>7. u \in Int
  BY <1>1, <1>4, CalculateRewardsType
<1>8. w \in Int
  BY <1>3, <1>4, CalculateRewardsType
<1> HIDE DEF u, w
<1> QED
  BY <1>5, <1>6, <1>7, <1>8

\* So is the claim.
LEMMA WorthType ==
    ASSUME NEW d \in Delegator, NEW A \in Accumulators, NEW acc \in Nat,
           NEW now \in 0 .. MaxEpoch
    PROVE  Worth(d, A, acc, now) \in Int
<1> DEFINE n == ActiveIn(d, now)
           from == SettledAt(d, A, now)
           due == DueRewards(d, A, now)
<1>1. n \in Nat /\ from \in Nat /\ due \in Int /\ d.rewards \in Int
  BY WorthParts DEF Delegator
<1>2. Worth(d, A, acc, now) = (d.rewards + due) + CalculateRewards(n, acc, from)
  BY DEF Worth
<1> HIDE DEF n, from, due
<1>3. CalculateRewards(n, acc, from) \in Int
  BY <1>1, CalculateRewardsType
<1> QED
  BY <1>1, <1>2, <1>3

\* The same stakes with no less of everything else.
Larger(d, f) == SameStakes(d, f) /\ d.rewards <= f.rewards

\* Snapshots that are due to d are the same in both.
SameDue(d, A, B, now) ==
    \A e \in {d.deltaEpoch, d.nextDeltaEpoch} :
        IsEpochActive(now, e) => SnapshotValue(B, e) = SnapshotValue(A, e)

\* Nobody's claim shrinks while it is left alone.
LEMMA WorthGrows ==
    ASSUME NEW d \in Delegator, NEW f \in Delegator,
           NEW A \in Accumulators, NEW B \in Accumulators,
           NEW acc \in Nat, NEW to \in Nat, acc <= to,
           NEW now \in 0 .. MaxEpoch, Larger(d, f), SameDue(d, A, B, now)
    PROVE  Worth(d, A, acc, now) <= Worth(f, B, to, now)
<1>1. /\ f.stake = d.stake /\ f.acc = d.acc
      /\ f.deltaStake = d.deltaStake /\ f.deltaEpoch = d.deltaEpoch
      /\ f.nextDeltaStake = d.nextDeltaStake /\ f.nextDeltaEpoch = d.nextDeltaEpoch
      /\ d.rewards <= f.rewards /\ d.rewards \in Int /\ f.rewards \in Int
  BY DEF Larger, SameStakes, Delegator
<1> DEFINE u == CalculateRewards(ActiveIn(d, now), acc, SettledAt(d, A, now))
           w == CalculateRewards(ActiveIn(d, now), to, SettledAt(d, A, now))
           k == DueRewards(d, A, now)
           x == d.rewards
           y == f.rewards
<1>2. /\ ActiveIn(f, now) = ActiveIn(d, now)
      /\ SettledAt(f, B, now) = SettledAt(d, A, now)
      /\ DueRewards(f, B, now) = k
  BY <1>1 DEF ActiveIn, SettledAt, DueRewards, SameDue
<1>3. /\ SettledAt(d, A, now) \in Nat /\ ActiveIn(d, now) \in Nat
      /\ k \in Int
  BY WorthParts
<1>4. u \in Int /\ w \in Int /\ u <= w
  BY <1>3, RewardsOfTime, CalculateRewardsType
<1>5. Worth(d, A, acc, now) = (x + k) + u /\ Worth(f, B, to, now) = (y + k) + w
  BY <1>2 DEF Worth
<1> HIDE DEF x, y, u, w, k
<1>6. x <= y /\ x \in Int /\ y \in Int
  BY <1>1 DEF x, y
<1> QED
  BY <1>3, <1>4, <1>5, <1>6

\* An epoch begins: a track that becomes due is worth what it was before.
LEMMA WorthAcrossBoundary ==
    ASSUME NEW d \in Delegator, NEW A \in Accumulators, NEW B \in Accumulators,
           NEW acc \in Nat, NEW now \in 0 .. MaxEpoch, now + 1 \in 0 .. MaxEpoch,
           Consecutive(d), SameDue(d, A, B, now),
           \A e \in {d.deltaEpoch, d.nextDeltaEpoch} :
              e = now + 1 => SnapshotValue(B, e) = acc
    PROVE  Worth(d, B, acc, now + 1) = Worth(d, A, acc, now)
<1> DEFINE next == now + 1
           first == d.deltaEpoch
           second == d.nextDeltaEpoch
           n == d.stake
           m == d.deltaStake
           k == d.nextDeltaStake
           from == d.acc
           i == d.rewards
           x == SnapshotValue(A, first)
           y == SnapshotValue(A, second)
<1>1. /\ n \in Nat /\ m \in Nat /\ k \in Nat /\ from \in Nat /\ i \in Int
      /\ first \in Nat /\ second \in Nat /\ now \in Nat /\ MaxEpoch \in Nat
  BY StakingAssumption DEF Delegator
<1>2. CASE first # next /\ second # next
  <2>1. /\ IsEpochActive(next, first) <=> IsEpochActive(now, first)
        /\ IsEpochActive(next, second) <=> IsEpochActive(now, second)
    BY <1>1, <1>2 DEF IsEpochActive
  <2>2. /\ DueRewards(d, B, next) = DueRewards(d, A, now)
        /\ ActiveIn(d, next) = ActiveIn(d, now)
        /\ SettledAt(d, B, next) = SettledAt(d, A, now)
    BY <2>1 DEF DueRewards, ActiveIn, SettledAt, SameDue
  <2> QED
    BY <2>2 DEF Worth
<1>3. CASE first = next
  <2>1. /\ ~IsEpochActive(now, first) /\ IsEpochActive(next, first)
        /\ ~IsEpochActive(now, second) /\ ~IsEpochActive(next, second)
    BY <1>1, <1>3 DEF IsEpochActive, Consecutive
  <2>2. SnapshotValue(B, first) = acc
    BY <1>3
  <2>3. /\ DueRewards(d, A, now) = 0 + 0
        /\ ActiveIn(d, now) = n + 0 + 0
        /\ SettledAt(d, A, now) = from
    BY <2>1 DEF DueRewards, ActiveIn, SettledAt
  <2>4. /\ DueRewards(d, B, next) = CalculateRewards(n, acc, from) + 0
        /\ ActiveIn(d, next) = n + m + 0
        /\ SettledAt(d, B, next) = acc
    BY <2>1, <2>2 DEF DueRewards, ActiveIn, SettledAt
  <2> HIDE DEF next, n, m, from, i
  <2>5. CalculateRewards(n, acc, from) \in Int
    BY <1>1, CalculateRewardsType
  <2>6. CalculateRewards(n + m, acc, acc) = 0
    <3> DEFINE sum == n + m
    <3>1. sum \in Nat
      BY <1>1
    <3> HIDE DEF sum
    <3>2. CalculateRewards(sum, acc, acc) = 0
      BY <3>1, RewardsOfTime
    <3> QED
      BY <3>2 DEF sum
  <2>7. n + 0 + 0 = n /\ n + m + 0 = n + m
    BY <1>1
  <2>8. Worth(d, A, acc, now) = (i + (0 + 0)) + CalculateRewards(n, acc, from)
    BY <2>3, <2>7 DEF Worth, i
  <2>9. Worth(d, B, acc, next) = (i + (CalculateRewards(n, acc, from) + 0)) + 0
    BY <2>4, <2>6, <2>7 DEF Worth, i
  <2>10. Worth(d, B, acc, next) = Worth(d, A, acc, now)
    BY <1>1, <2>5, <2>8, <2>9
  <2> QED
    BY <2>10 DEF next
<1>4. CASE second = next /\ first = 0
  <2>1. /\ ~IsEpochActive(now, first) /\ ~IsEpochActive(next, first)
        /\ ~IsEpochActive(now, second) /\ IsEpochActive(next, second)
    BY <1>1, <1>4 DEF IsEpochActive
  <2>2. SnapshotValue(B, second) = acc
    BY <1>4
  <2>3. /\ DueRewards(d, A, now) = 0 + 0
        /\ ActiveIn(d, now) = n + 0 + 0
        /\ SettledAt(d, A, now) = from
    BY <2>1 DEF DueRewards, ActiveIn, SettledAt
  <2>4. /\ DueRewards(d, B, next) = 0 + CalculateRewards(n + 0, acc, from)
        /\ ActiveIn(d, next) = n + 0 + k
        /\ SettledAt(d, B, next) = acc
    BY <2>1, <2>2 DEF DueRewards, ActiveIn, SettledAt
  <2> HIDE DEF next, n, k, from, i
  <2>5. CalculateRewards(n, acc, from) \in Int
    BY <1>1, CalculateRewardsType
  <2>6. CalculateRewards(n + k, acc, acc) = 0
    <3> DEFINE sum == n + k
    <3>1. sum \in Nat
      BY <1>1
    <3> HIDE DEF sum
    <3>2. CalculateRewards(sum, acc, acc) = 0
      BY <3>1, RewardsOfTime
    <3> QED
      BY <3>2 DEF sum
  <2>7. n + 0 + 0 = n /\ n + 0 = n /\ n + 0 + k = n + k
    BY <1>1
  <2>8. Worth(d, A, acc, now) = (i + (0 + 0)) + CalculateRewards(n, acc, from)
    BY <2>3, <2>7 DEF Worth, i
  <2>9. Worth(d, B, acc, next) = (i + (0 + CalculateRewards(n, acc, from))) + 0
    BY <2>4, <2>6, <2>7 DEF Worth, i
  <2>10. Worth(d, B, acc, next) = Worth(d, A, acc, now)
    BY <1>1, <2>5, <2>8, <2>9
  <2> QED
    BY <2>10 DEF next
<1>5. CASE second = next /\ first # 0
  <2>1. /\ IsEpochActive(now, first) /\ IsEpochActive(next, first)
        /\ ~IsEpochActive(now, second) /\ IsEpochActive(next, second)
    BY <1>1, <1>5 DEF IsEpochActive, Consecutive
  <2>2. SnapshotValue(B, second) = acc /\ SnapshotValue(B, first) = x
    BY <1>5, <2>1 DEF SameDue
  <2>3. x \in Nat
    <3>1. first \in Epochs
      BY <1>1, <2>1 DEF IsEpochActive, Epochs
    <3> QED
      BY <3>1, SnapshotValueType
  <2> DEFINE u == CalculateRewards(n, x, from)
             sum == n + m
             w == CalculateRewards(sum, acc, x)
  <2>4. /\ DueRewards(d, A, now) = u + 0
        /\ ActiveIn(d, now) = sum + 0
        /\ SettledAt(d, A, now) = x
    BY <2>1 DEF DueRewards, ActiveIn, SettledAt
  <2>5. /\ DueRewards(d, B, next) = u + w
        /\ ActiveIn(d, next) = sum + k
        /\ SettledAt(d, B, next) = acc
    BY <2>1, <2>2 DEF DueRewards, ActiveIn, SettledAt
  <2>6. sum \in Nat
    BY <1>1
  <2> HIDE DEF next, n, k, from, i, x, sum
  <2>7. u \in Int /\ w \in Int
    BY <1>1, <2>3, <2>6, CalculateRewardsType
  <2>8. CalculateRewards(sum + k, acc, acc) = 0
    <3> DEFINE whole == sum + k
    <3>1. whole \in Nat
      BY <1>1, <2>6
    <3> HIDE DEF whole
    <3>2. CalculateRewards(whole, acc, acc) = 0
      BY <3>1, RewardsOfTime
    <3> QED
      BY <3>2 DEF whole
  <2>9. sum + 0 = sum
    BY <2>6
  <2>10. Worth(d, A, acc, now) = (i + (u + 0)) + w
    BY <2>4, <2>9 DEF Worth, i
  <2>11. Worth(d, B, acc, next) = (i + (u + w)) + 0
    BY <2>5, <2>8 DEF Worth, i
  <2> HIDE DEF u, w
  <2>12. Worth(d, B, acc, next) = Worth(d, A, acc, now)
    BY <1>1, <2>7, <2>10, <2>11
  <2> QED
    BY <2>12 DEF next
<1> QED
  BY <1>2, <1>3, <1>4, <1>5

-----------------------------------------------------------------------------
(* What a step does to the claims.                                         *)

Claim(v, a) == Claimable(del[v][a], val[v], accs[v], epoch)

ClaimNext(v, a) == Claimable(del'[v][a], val'[v], accs'[v], epoch')

\* Claims in the terms of what settling makes of a delegation.
LEMMA ClaimsWorth ==
    ASSUME Steady, NEW v \in ValIds, NEW a \in Addrs
    PROVE  /\ Claim(v, a) = Worth(del[v][a], accs[v], val[v].acc, epoch)
           /\ ClaimNext(v, a) = Worth(del'[v][a], accs'[v], val'[v].acc, epoch')
           /\ Consecutive(del[v][a])
<1>1. Consecutive(del[v][a]) /\ Consecutive(del'[v][a])
  BY DEF Steady, Inv, PendingWindow, PendingInWindow, Consecutive
<1>2. /\ del[v][a] \in Delegator /\ val[v] \in Validator /\ accs[v] \in Accumulators
      /\ epoch \in 0 .. MaxEpoch
      /\ del'[v][a] \in Delegator /\ val'[v] \in Validator /\ accs'[v] \in Accumulators
      /\ epoch' \in 0 .. MaxEpoch
  BY SteadyTypes
<1>3. Claim(v, a) = Worth(del[v][a], accs[v], val[v].acc, epoch)
  BY <1>1, <1>2, ClaimableWorth DEF Claim
<1> DEFINE d == del'[v][a]
           record == val'[v]
           A == accs'[v]
           now == epoch'
<1>4. d \in Delegator /\ record \in Validator /\ A \in Accumulators /\ now \in 0 .. MaxEpoch
      /\ Consecutive(d)
  BY <1>1, <1>2
<1> HIDE DEF d, record, A, now
<1>5. Claimable(d, record, A, now) = Worth(d, A, record.acc, now)
  BY <1>4, ClaimableWorth
<1> QED
  BY <1>1, <1>3, <1>5 DEF d, record, A, now, ClaimNext

\* A delegation with the same stakes finds the snapshots it found.
LEMMA DueKept ==
    ASSUME Steady, NEW v \in ValIds, NEW a \in Addrs, SameStakes(del[v][a], del'[v][a])
    PROVE  SameDue(del[v][a], accs[v], accs'[v], epoch)
<1> DEFINE d == del[v][a]
<1> SUFFICES ASSUME NEW e \in {d.deltaEpoch, d.nextDeltaEpoch}, IsEpochActive(epoch, e)
             PROVE  SnapshotValue(accs'[v], e) = SnapshotValue(accs[v], e)
  BY DEF SameDue
<1>1. d.deltaEpoch \in Nat /\ d.nextDeltaEpoch \in Nat
  BY SteadyTypes DEF Delegator
<1>2. e \in Nat /\ e # 0 /\ e <= epoch
  BY <1>1 DEF IsEpochActive
<1>3. Awaits(del, withdrawals, v, e) /\ Awaits(del', withdrawals', v, e)
  BY DEF Awaits, SameStakes
<1> QED
  BY <1>2, <1>3, ValuesKept

\* Who is left alone can claim no less.
LEMMA LeftAlone ==
    ASSUME Steady, epoch' = epoch, NEW v \in ValIds, NEW a \in Addrs,
           val[v].acc <= val'[v].acc, Larger(del[v][a], del'[v][a])
    PROVE  Claim(v, a) <= ClaimNext(v, a)
<1> DEFINE d == del[v][a]
           f == del'[v][a]
           A == accs[v]
           B == accs'[v]
           acc == val[v].acc
           to == val'[v].acc
<1>1. SameDue(d, A, B, epoch)
  BY DueKept DEF Larger
<1>2. /\ d \in Delegator /\ f \in Delegator /\ A \in Accumulators /\ B \in Accumulators
      /\ acc \in Nat /\ to \in Nat /\ acc <= to /\ epoch \in 0 .. MaxEpoch
      /\ Larger(d, f)
  BY SteadyTypes DEF Validator
<1>3. Claim(v, a) = Worth(d, A, acc, epoch) /\ ClaimNext(v, a) = Worth(f, B, to, epoch)
  BY ClaimsWorth
<1> HIDE DEF d, f, A, B, acc, to
<1> QED
  BY <1>1, <1>2, <1>3, WorthGrows

\* Nor can anybody when an epoch begins.
LEMMA ClaimAcrossBoundary ==
    ASSUME Steady, Fresh, EpochBoundary, NEW v \in ValIds, NEW a \in Addrs
    PROVE  ClaimNext(v, a) = Claim(v, a)
<1>1. epoch' = epoch + 1 /\ UNCHANGED <<val, del, withdrawals>>
  BY DEF EpochBoundary, HandleSyscallOnEpochChange
<1> DEFINE d == del[v][a]
           A == accs[v]
           B == accs'[v]
           acc == val[v].acc
<1>2. /\ d \in Delegator /\ A \in Accumulators /\ B \in Accumulators /\ acc \in Nat
      /\ epoch \in 0 .. MaxEpoch /\ epoch + 1 \in 0 .. MaxEpoch
  BY <1>1, SteadyTypes DEF Validator
<1>3. SameDue(d, A, B, epoch)
  BY <1>1, DueKept DEF SameStakes
<1>4. ASSUME NEW e \in {d.deltaEpoch, d.nextDeltaEpoch}, e = epoch + 1
      PROVE  SnapshotValue(B, e) = acc
  <2>1. Awaits(del, withdrawals, v, epoch + 1)
    BY <1>4 DEF Awaits
  <2> QED
    BY <1>4, <2>1, NewlyDue
<1>5. /\ Claim(v, a) = Worth(d, A, acc, epoch)
      /\ ClaimNext(v, a) = Worth(d, B, acc, epoch + 1)
      /\ Consecutive(d)
  BY <1>1, ClaimsWorth
<1> HIDE DEF d, A, B, acc
<1> QED
  BY <1>2, <1>3, <1>4, <1>5, WorthAcrossBoundary

\* What the caller could claim is in the rewards of its delegation, or it has
\* been paid out, or it has been staked again.
ClaimHandled(v, a) ==
    \/ del'[v][a].rewards = Claim(v, a)
    \/ /\ del'[v][a].rewards = 0
       /\ \/ wallet'[a] = wallet[a] + Claim(v, a)
          \/ val'[v].stake = val[v].stake + Claim(v, a)

\* What a step is to the claims.
ClaimKind ==
    \/ \E v \in ValIds, a \in Addrs : SettledCall(v, a) /\ ClaimHandled(v, a)
    \/ /\ epoch' = epoch
       /\ \A v \in ValIds : val[v].acc <= val'[v].acc
       /\ \A v \in ValIds, a \in Addrs : Larger(del[v][a], del'[v][a])
    \/ EpochBoundary

\* internal_delegate leaves in the rewards what settling makes of them, and
\* adds the amount to the validator's stake.
LEMMA DelegateRewards ==
    ASSUME Steady, NEW v \in ValIds, NEW caller \in Addrs, NEW record \in Validator,
           NEW amount, NEW s, Ready(s), InternalDelegate(v, record, caller, amount, s)
    PROVE  /\ del'[v][caller].rewards = Worth(s.del, s.accs, record.acc, epoch)
           /\ val'[v].stake = record.stake + amount
<1> DEFINE pulled == PullDelegatorUpToDate(s, record.acc, epoch)
           d == AddPending(pulled.del, amount)
           staked == [record EXCEPT !.stake = @ + amount, !.unclaimed = pulled.unclaimed]
           flags == FlagsAfterDelegate(staked, d, caller)
           new == [staked EXCEPT !.flags = flags]
           acc == record.acc
<1>1. /\ del' = [del EXCEPT ![v][caller] = d]
      /\ val' = [val EXCEPT ![v] = new]
  BY Zenon DEF InternalDelegate
<1>2. /\ s \in RunningSettlement /\ PendingInWindow(s.del) /\ Consecutive(s.del)
      /\ epoch \in 0 .. MaxEpoch /\ inBoundary \in BOOLEAN /\ acc \in Nat
  BY SteadyTypes DEF Ready, PendingInWindow, Consecutive, Validator
<1>3. new.stake = record.stake + amount
  <2>1. staked.stake = record.stake + amount /\ "stake" \in DOMAIN staked
    BY DEF Validator
  <2> HIDE DEF staked, flags
  <2> QED
    BY <2>1
<1> HIDE DEF new, acc
<1>4. pulled.del.rewards = Worth(s.del, s.accs, record.acc, epoch)
  BY <1>2, PullWorth DEF acc
<1>5. pulled.del \in RunningDelegator
  <2>1. Settles(s, pulled)
    BY <1>2, PullSettles DEF acc
  <2> QED
    BY <2>1 DEF Settles, RunningSettlement
<1> HIDE DEF pulled
<1>6. d.rewards = pulled.del.rewards
  BY <1>5 DEF AddPending, RunningDelegator
<1> HIDE DEF d
<1>7. del'[v][caller] = d /\ val'[v] = new
  BY <1>1, SteadyTypes
<1> QED
  BY <1>3, <1>4, <1>6, <1>7

\* delegate leaves the claim in the rewards.
LEMMA DelegateClaim ==
    ASSUME Steady, NEW v \in ValIds, NEW caller \in Addrs,
           NEW value \in DelegateAmounts, HandleDelegate(v, caller, value)
    PROVE  ClaimHandled(v, caller)
<1> DEFINE s == Settlement(del[v][caller], val[v].unclaimed, accs[v])
<1>1. InternalDelegate(v, val[v], caller, value, s)
  BY Zenon DEF HandleDelegate
<1>2. val[v] \in Validator /\ Ready(s)
  BY SteadyTypes, SettlementStarts DEF Starts, Steady
<1>3. s.del = del[v][caller] /\ s.accs = accs[v]
  BY DEF Settlement
<1> HIDE DEF s
<1>4. del'[v][caller].rewards = Worth(del[v][caller], accs[v], val[v].acc, epoch)
  BY <1>1, <1>2, <1>3, DelegateRewards
<1> QED
  BY <1>4, ClaimsWorth DEF ClaimHandled

\* A new validator's auth address had nothing to claim there.
LEMMA AddValidatorClaim ==
    ASSUME Steady, Registered, Unborn,
           NEW caller \in Addrs, NEW auth \in Addrs, NEW bls \in BlsKeys,
           NEW commission \in Commissions, NEW value \in DelegateAmounts,
           HandleAddValidator(caller, auth, bls, commission, value)
    PROVE  ClaimHandled(lastValId + 1, auth)
<1> DEFINE v == lastValId + 1
           record == [NoValidator EXCEPT !.commission = commission,
                                         !.auth = auth,
                                         !.flags = {"STAKE_TOO_LOW"}]
           s == Settlement(del[v][auth], 0, accs[v])
<1>1. v \in ValIds /\ InternalDelegate(v, record, auth, value, s)
  BY Zenon DEF HandleAddValidator
<1>2. commission \in Nat
  BY StakingAssumption
<1>3. lastValId \in Nat /\ v > lastValId
  BY StakingAssumption DEF Steady, Inv, TypeOK
<1> HIDE DEF v
<1>4. val[v].acc = 0 /\ val[v].unclaimed = 0
  BY <1>1, <1>3 DEF Unborn, Registered, Untouched
<1>5. record \in Validator /\ record.acc = 0
  BY <1>2 DEF NoValidator, Validator, Flags
<1> HIDE DEF record
<1>6. Ready(s)
  BY <1>1, <1>4, SettlementStarts DEF Starts, Steady
<1>7. s.del = del[v][auth] /\ s.accs = accs[v]
  BY DEF Settlement
<1> HIDE DEF s
<1>8. del'[v][auth].rewards = Worth(del[v][auth], accs[v], val[v].acc, epoch)
  BY <1>1, <1>4, <1>5, <1>6, <1>7, DelegateRewards
<1>9. ClaimHandled(v, auth)
  BY <1>1, <1>8, ClaimsWorth DEF ClaimHandled
<1> QED
  BY <1>9 DEF v

\* compound stakes the whole claim again.
LEMMA CompoundClaim ==
    ASSUME Steady, NEW v \in ValIds, NEW caller \in Addrs, HandleCompound(v, caller)
    PROVE  ClaimHandled(v, caller)
<1> DEFINE s == Pulled(v, caller)
           cleared == [s EXCEPT !.del.rewards = 0]
           amount == s.del.rewards
           acc == val[v].acc
<1>1. s.ok /\ InternalDelegate(v, val[v], caller, amount, cleared)
  BY Zenon DEF HandleCompound
<1>2. amount = Claim(v, caller)
  BY DEF Pulled, Claim, Claimable
<1>3. val[v] \in Validator /\ acc \in Nat /\ epoch \in Nat
  BY SteadyTypes DEF Validator
<1>4. Ready(cleared)
  BY <1>1, ClearedStarts DEF Starts, Steady
<1>5. s.del \in Delegator /\ UpToDate(s.del, acc) /\ s \in RunningSettlement
  BY <1>1, PulledFacts, PulledPays DEF Steady
<1> HIDE DEF s, acc
<1>6. /\ cleared.del.rewards = 0
      /\ cleared.del \in Delegator
      /\ UpToDate(cleared.del, acc)
  <2>1. /\ cleared.del = [s.del EXCEPT !.rewards = 0]
    BY <1>5 DEF RunningSettlement
  <2> HIDE DEF cleared
  <2> QED
    BY <1>5, <2>1 DEF Delegator, UpToDate
<1> HIDE DEF cleared
<1>7. Worth(cleared.del, cleared.accs, acc, epoch) = 0
  BY <1>3, <1>6, SettledWorth
<1> HIDE DEF amount
<1>8. /\ del'[v][caller].rewards = Worth(cleared.del, cleared.accs, acc, epoch)
      /\ val'[v].stake = val[v].stake + amount
  BY <1>1, <1>3, <1>4, DelegateRewards DEF acc
<1> QED
  BY <1>2, <1>7, <1>8 DEF ClaimHandled

\* claimRewards pays the claim out; getDelegator leaves it in the rewards.
LEMMA SettlingClaim ==
    ASSUME Steady, NEW v \in ValIds, NEW a \in Addrs,
           HandleClaimRewards(v, a) \/ HandleGetDelegator(v, a)
    PROVE  ClaimHandled(v, a)
<1> DEFINE s == Pulled(v, a)
           claimed == [s.del EXCEPT !.rewards = 0]
<1>1. s.del.rewards = Claim(v, a)
  BY DEF Pulled, Claim, Claimable
<1>2. s.ok
  BY DEF HandleClaimRewards, HandleGetDelegator
<1>3. s.del \in Delegator
  BY <1>2, PulledFacts DEF Steady
<1>4. CASE HandleClaimRewards(v, a)
  <2>1. /\ del' = [del EXCEPT ![v][a] = claimed]
        /\ wallet' = [wallet EXCEPT ![a] = @ + s.del.rewards]
    BY <1>4, Zenon DEF HandleClaimRewards, PayOut, Store
  <2> HIDE DEF s
  <2>2. claimed.rewards = 0
    BY <1>3 DEF Delegator
  <2> HIDE DEF claimed
  <2>3. del'[v][a] = claimed
    BY <2>1, SteadyTypes
  <2>4. wallet'[a] = wallet[a] + s.del.rewards
    BY <2>1 DEF Steady, Inv, TypeOK
  <2> QED
    BY <1>1, <2>2, <2>3, <2>4 DEF ClaimHandled
<1>5. CASE HandleGetDelegator(v, a)
  <2>1. del' = [del EXCEPT ![v][a] = s.del]
    BY <1>5, Zenon DEF HandleGetDelegator, Store
  <2> HIDE DEF s
  <2>2. del'[v][a] = s.del
    BY <2>1, SteadyTypes
  <2> QED
    BY <1>1, <2>2 DEF ClaimHandled
<1> QED
  BY <1>4, <1>5

\* undelegate leaves the claim in the rewards.
LEMMA UndelegateClaim ==
    ASSUME Steady, NEW v \in ValIds, NEW caller \in Addrs,
           NEW asked \in UndelegateAmounts, NEW wid \in WithdrawIds,
           HandleUndelegate(v, caller, asked, wid)
    PROVE  ClaimHandled(v, caller)
<1> DEFINE s         == Pulled(v, caller)
           remaining == s.del.stake - asked
           amount    == IF remaining < DUST_THRESHOLD THEN s.del.stake ELSE asked
           left      == s.del.stake - amount
           cursor    == IF s.del.stake = amount THEN 0 ELSE s.del.acc
           d         == [s.del EXCEPT !.stake = left, !.acc = cursor]
<1>1. s.ok /\ del' = [del EXCEPT ![v][caller] = d]
  BY DEF HandleUndelegate
<1>2. s.del.rewards = Claim(v, caller)
  BY DEF Pulled, Claim, Claimable
<1>3. s.del \in Delegator
  BY <1>1, PulledFacts DEF Steady
<1> HIDE DEF s, left, cursor
<1>4. d.rewards = s.del.rewards
  BY <1>3 DEF Delegator
<1> HIDE DEF d
<1>5. del'[v][caller] = d
  BY <1>1, SteadyTypes
<1> QED
  BY <1>2, <1>4, <1>5 DEF ClaimHandled

\* A reward raises an accumulator.
LEMMA RewardRaises ==
    ASSUME Steady, NEW v \in ValIds, NEW shared \in Nat, Rewarded(v, shared)
    PROVE  /\ epoch' = epoch
           /\ \A u \in ValIds : val[u].acc <= val'[u].acc
           /\ \A u \in ValIds, b \in Addrs : SameStakes(del[u][b], del'[u][b])
<1> DEFINE stake == CurrentView(v).stake
           n == PerToken(shared, stake)
<1>1. /\ UNCHANGED clock /\ stake # 0
      /\ \A u \in ValIds \ {v} : val'[u] = val[u]
      /\ val'[v].acc = val[v].acc + n
      /\ \A u \in ValIds, b \in Addrs : SameStakes(del[u][b], del'[u][b])
  BY DEF Rewarded
<1>2. stake \in Nat
  BY DEF Steady, Inv, TypeOK, CurrentView, View
<1> HIDE DEF stake
<1>3. n \in Nat
  BY <1>1, <1>2, PerTokenType
<1> HIDE DEF n
<1>4. \A u \in ValIds : val[u].acc \in Nat
  BY SteadyTypes DEF Validator
<1> QED
  BY <1>1, <1>3, <1>4 DEF clock

\* syscallReward credits the commission and takes rewards from nobody.
LEMMA CommissionAdds ==
    ASSUME Steady, NEW author \in Addrs, NEW reward \in BlockRewards,
           HandleSyscallReward(author, reward)
    PROVE  \A u \in ValIds, b \in Addrs : del[u][b].rewards <= del'[u][b].rewards
<1> DEFINE v == valIdSecp[author]
           auth == val[v].auth
           view == CurrentView(v)
           commission == (reward * view.commission) \div MON
<1>1. /\ v # NO_VALIDATOR
      /\ del' = [del EXCEPT ![v][auth].rewards = @ + commission]
  BY DEF HandleSyscallReward, DistributeReward
<1>2. v \in ValIds
  BY <1>1, StakingAssumption DEF Steady, Inv, TypeOK, NO_VALIDATOR, ValIds
<1>3. view.commission \in Nat
  BY <1>2 DEF Steady, Inv, TypeOK, View, CurrentView
<1> HIDE DEF v, view
<1>4. commission \in Nat
  <2>1. \A x, y \in Nat : x * y \in Nat
    OBVIOUS
  <2>2. reward \in Nat /\ MON \in Nat \ {0}
    BY StakingAssumption, StakingConstantsAssumption
  <2>3. reward * view.commission \in Nat
    BY <1>3, <2>1, <2>2
  <2>4. \A n \in Nat : n \div MON \in Nat
    BY <2>2
  <2> QED
    BY <2>3, <2>4
<1> HIDE DEF commission, auth
<1>5. del \in [ValIds -> [Addrs -> Delegator]]
  BY SteadyTypes
<1> TAKE u \in ValIds, b \in Addrs
<1>6. del[u][b] \in Delegator /\ del[u][b].rewards \in Nat
  BY <1>5 DEF Delegator
<1>7. CASE u = v /\ b = auth
  <2>1. del'[u][b] = [del[u][b] EXCEPT !.rewards = @ + commission]
    BY <1>1, <1>2, <1>5, <1>7
  <2>2. del'[u][b].rewards = del[u][b].rewards + commission
    BY <1>6, <2>1 DEF Delegator
  <2> QED
    BY <1>4, <1>6, <2>2
<1>8. CASE ~(u = v /\ b = auth)
  <2>1. del'[u][b] = del[u][b]
    BY <1>1, <1>2, <1>5, <1>8
  <2> QED
    BY <1>6, <2>1
<1> QED
  BY <1>7, <1>8

\* Any step that leaves delegations and raises accumulators at most.
LEMMA UntouchedClaims ==
    ASSUME Steady, epoch' = epoch, del' = del, \A v \in ValIds : val[v].acc <= val'[v].acc
    PROVE  ClaimKind
<1>1. ASSUME NEW v \in ValIds, NEW a \in Addrs PROVE Larger(del[v][a], del'[v][a])
  <2>1. del[v][a].rewards \in Nat
    BY SteadyTypes DEF Delegator
  <2> QED
    BY <2>1 DEF Larger, SameStakes
<1> QED
  BY <1>1 DEF ClaimKind

\* Every call of a user handles one claim or lowers none.
LEMMA UserClaimKind ==
    ASSUME Steady, Registered, Unborn, UserCall
    PROVE  ClaimKind
<1>1. PICK caller \in Addrs :
          \/ \E auth \in Addrs, bls \in BlsKeys, c \in Commissions,
                value \in DelegateAmounts :
                   HandleAddValidator(caller, auth, bls, c, value)
          \/ \E v \in ValIds :
                \/ \E value \in DelegateAmounts : HandleDelegate(v, caller, value)
                \/ \E amount \in UndelegateAmounts, wid \in WithdrawIds :
                      HandleUndelegate(v, caller, amount, wid)
                \/ \E wid \in WithdrawIds : HandleWithdraw(v, caller, wid)
                \/ HandleClaimRewards(v, caller)
                \/ HandleCompound(v, caller)
                \/ HandleGetDelegator(v, caller)
                \/ \E c \in Commissions : HandleChangeCommission(v, caller, c)
                \/ \E value \in ExternalRewards : HandleExternalReward(v, caller, value)
  BY DEF UserCall
<1>2. \A u \in ValIds : val[u].acc \in Nat
  BY SteadyTypes DEF Validator
<1>3. ASSUME NEW auth \in Addrs, NEW bls \in BlsKeys, NEW c \in Commissions,
             NEW value \in DelegateAmounts, HandleAddValidator(caller, auth, bls, c, value)
      PROVE  ClaimKind
  BY <1>3, AddValidatorSettles, AddValidatorClaim DEF ClaimKind
<1>4. ASSUME NEW v \in ValIds,
             \/ \E value \in DelegateAmounts : HandleDelegate(v, caller, value)
             \/ HandleCompound(v, caller)
      PROVE  ClaimKind
  <2>1. SettledCall(v, caller) /\ ClaimHandled(v, caller)
    BY <1>4, DelegateCallSettles, CompoundSettles, DelegateClaim, CompoundClaim
  <2> QED
    BY <2>1 DEF ClaimKind
<1>5. ASSUME NEW v \in ValIds, NEW amount \in UndelegateAmounts, NEW wid \in WithdrawIds,
             HandleUndelegate(v, caller, amount, wid)
      PROVE  ClaimKind
  BY <1>5, UndelegateSettles, UndelegateClaim DEF ClaimKind
<1>6. ASSUME NEW v \in ValIds, NEW wid \in WithdrawIds, HandleWithdraw(v, caller, wid)
      PROVE  ClaimKind
  <2>1. PaidOut(v, caller, wid)
    BY <1>6, WithdrawPaysOut
  <2>2. epoch' = epoch /\ del' = del /\ \A u \in ValIds : val[u].acc <= val'[u].acc
    BY <1>2, <2>1 DEF PaidOut
  <2> QED
    BY <2>2, UntouchedClaims
<1>7. ASSUME NEW v \in ValIds, HandleClaimRewards(v, caller) \/ HandleGetDelegator(v, caller)
      PROVE  ClaimKind
  BY <1>7, SettlingSettles, SettlingClaim DEF ClaimKind
<1>8. ASSUME NEW v \in ValIds, NEW c \in Commissions, HandleChangeCommission(v, caller, c)
      PROVE  ClaimKind
  <2>1. val' = [val EXCEPT ![v].commission = c] /\ UNCHANGED <<clock, del>>
    BY <1>8 DEF HandleChangeCommission
  <2>2. \A u \in ValIds : val'[u].acc = val[u].acc
    BY <2>1, SteadyTypes DEF Validator
  <2>3. epoch' = epoch /\ del' = del /\ \A u \in ValIds : val[u].acc <= val'[u].acc
    BY <1>2, <2>1, <2>2 DEF clock
  <2> QED
    BY <2>3, UntouchedClaims
<1>9. ASSUME NEW v \in ValIds, NEW value \in ExternalRewards,
             HandleExternalReward(v, caller, value)
      PROVE  ClaimKind
  <2>1. Rewarded(v, value) /\ value \in Nat
    BY <1>9, ExternalRewardRewards, StakingAssumption
  <2>2. epoch' = epoch /\ \A u \in ValIds : val[u].acc <= val'[u].acc
    BY <2>1, RewardRaises
  <2>3. del' = del
    BY <1>9 DEF HandleExternalReward
  <2> QED
    BY <2>2, <2>3, UntouchedClaims
<1> QED
  BY <1>1, <1>3, <1>4, <1>5, <1>6, <1>7, <1>8, <1>9, Zenon

\* So does every step, or it changes the epoch.
LEMMA AnyClaimKind ==
    ASSUME Steady, Registered, Unborn, [Next]_vars
    PROVE  ClaimKind
<1>1. CASE UserCall
  BY <1>1, UserClaimKind
<1>2. ASSUME NEW author \in Addrs, NEW reward \in BlockRewards,
             HandleSyscallReward(author, reward)
      PROVE  ClaimKind
  <2>1. PICK v \in ValIds, shared \in Nat : Rewarded(v, shared)
    BY <1>2, SyscallRewardRewards
  <2>2. /\ epoch' = epoch /\ \A u \in ValIds : val[u].acc <= val'[u].acc
        /\ \A u \in ValIds, b \in Addrs : SameStakes(del[u][b], del'[u][b])
    BY <2>1, RewardRaises
  <2>3. \A u \in ValIds, b \in Addrs : del[u][b].rewards <= del'[u][b].rewards
    BY <1>2, CommissionAdds
  <2> QED
    BY <2>2, <2>3 DEF ClaimKind, Larger
<1>3. \A u \in ValIds : val[u].acc <= val[u].acc
  BY SteadyTypes DEF Validator
<1>4. CASE HandleSyscallSnapshot
  <2>1. UNCHANGED <<epoch, val, del>>
    BY <1>4 DEF HandleSyscallSnapshot, ledger
  <2> QED
    BY <1>3, <2>1, UntouchedClaims
<1>5. CASE EpochBoundary
  BY <1>5 DEF ClaimKind
<1>6. CASE UNCHANGED vars
  <2>1. UNCHANGED <<epoch, val, del>>
    BY <1>6 DEF vars, clock, ledger
  <2> QED
    BY <1>3, <2>1, UntouchedClaims
<1> QED
  BY <1>1, <1>2, <1>4, <1>5, <1>6 DEF Next, BlockCall

\* The claim that is handled, and everybody else's.
LEMMA ClaimKept ==
    ASSUME Steady, Fresh, ClaimKind, NEW v \in ValIds, NEW a \in Addrs
    PROVE  ClaimNext(v, a) < Claim(v, a) =>
               /\ ClaimNext(v, a) = 0
               /\ \/ wallet'[a] = wallet[a] + Claim(v, a)
                  \/ val'[v].stake = val[v].stake + Claim(v, a)
<1>1. Claim(v, a) \in Int /\ ClaimNext(v, a) \in Int
  <2>1. /\ del[v][a] \in Delegator /\ accs[v] \in Accumulators /\ epoch \in 0 .. MaxEpoch
        /\ del'[v][a] \in Delegator /\ accs'[v] \in Accumulators /\ epoch' \in 0 .. MaxEpoch
        /\ val[v].acc \in Nat /\ val'[v].acc \in Nat
        /\ del[v][a].rewards \in Int /\ del'[v][a].rewards \in Int
    BY SteadyTypes DEF Delegator, Validator
  <2>2. /\ Worth(del[v][a], accs[v], val[v].acc, epoch) \in Int
        /\ Worth(del'[v][a], accs'[v], val'[v].acc, epoch') \in Int
    BY <2>1, WorthType
  <2> QED
    BY <2>2, ClaimsWorth
<1>2. ASSUME NEW u \in ValIds, NEW b \in Addrs, SettledCall(u, b), ClaimHandled(u, b)
      PROVE  \/ Claim(v, a) <= ClaimNext(v, a)
             \/ /\ ClaimNext(v, a) = 0
                /\ \/ wallet'[a] = wallet[a] + Claim(v, a)
                   \/ val'[v].stake = val[v].stake + Claim(v, a)
  <2>1. /\ epoch' = epoch /\ val'[u].acc = val[u].acc
        /\ \A i \in ValIds \ {u} : val'[i] = val[i] /\ del'[i] = del[i]
        /\ \A c \in Addrs \ {b} : del'[u][c] = del[u][c]
        /\ UpToDate(del'[u][b], val[u].acc)
    BY <1>2 DEF SettledCall, OnlyAbout
  <2>2. CASE v = u /\ a = b
    <3> DEFINE d == del'[v][a]
               A == accs'[v]
               acc == val[v].acc
    <3>1. d \in Delegator /\ acc \in Nat /\ epoch \in Nat /\ UpToDate(d, acc)
      BY <2>1, <2>2, SteadyTypes DEF Validator
    <3>2. ClaimNext(v, a) = Worth(d, A, acc, epoch)
      BY <2>1, <2>2, ClaimsWorth
    <3> HIDE DEF d, A, acc
    <3>3. ClaimNext(v, a) = d.rewards
      BY <3>1, <3>2, SettledWorth
    <3>4. ClaimHandled(v, a)
      BY <1>2, <2>2
    <3> QED
      BY <1>1, <3>3, <3>4 DEF ClaimHandled, d
  <2>3. CASE ~(v = u /\ a = b)
    <3>1. del'[v][a] = del[v][a] /\ val'[v].acc = val[v].acc
      BY <2>1, <2>3
    <3>2. del[v][a].rewards \in Nat /\ val[v].acc \in Nat
      BY SteadyTypes DEF Delegator, Validator
    <3>3. Larger(del[v][a], del'[v][a]) /\ val[v].acc <= val'[v].acc
      BY <3>1, <3>2 DEF Larger, SameStakes
    <3> QED
      BY <2>1, <3>3, LeftAlone
  <2> QED
    BY <2>2, <2>3
<1>3. ASSUME /\ epoch' = epoch
             /\ \A u \in ValIds : val[u].acc <= val'[u].acc
             /\ \A u \in ValIds, b \in Addrs : Larger(del[u][b], del'[u][b])
      PROVE  Claim(v, a) <= ClaimNext(v, a)
  BY <1>3, LeftAlone
<1>4. ASSUME EpochBoundary PROVE Claim(v, a) <= ClaimNext(v, a)
  BY <1>1, <1>4, ClaimAcrossBoundary
<1>5. \/ Claim(v, a) <= ClaimNext(v, a)
      \/ /\ ClaimNext(v, a) = 0
         /\ \/ wallet'[a] = wallet[a] + Claim(v, a)
            \/ val'[v].stake = val[v].stake + Claim(v, a)
  BY <1>1, <1>2, <1>3, <1>4 DEF ClaimKind
<1> QED
  BY <1>1, <1>5

(***************************************************************************)
(* Under the documented lifecycle nobody's claim shrinks by what anybody   *)
(* does, be it through a settlement by a stranger (getDelegator), through  *)
(* snapshots that are counted by many, or through a change of epoch; only  *)
(* claimRewards and compound of the owner take from it, and these take all *)
(* of it, into the wallet or into stake.                                   *)
(***************************************************************************)
THEOREM ClaimsNeverShrink == Spec => ClaimsPaidInFull
<1> DEFINE Shrinks(v, a) ==
              LET before == Claimable(del[v][a], val[v], accs[v], epoch)
                  after  == Claimable(del'[v][a], val'[v], accs'[v], epoch')
              IN  after < before =>
                      /\ after = 0
                      /\ \/ wallet'[a] = wallet[a] + before
                         \/ val'[v].stake = val[v].stake + before
           Kept == \A v \in ValIds, a \in Addrs : Shrinks(v, a)
<1>1. Init => RewardInv
  BY InitReward
<1>2. RewardInv /\ [Next]_vars => RewardInv'
  BY RewardStep
<1>3. ASSUME RewardInv, [Next]_vars
      PROVE  Kept
  <2>1. Steady /\ Fresh
    BY <1>3, RewardStepFacts
  <2>2. Registered /\ Unborn
    BY <1>3 DEF RewardInv, EarningInv, BalanceInv
  <2>3. ClaimKind
    BY <1>3, <2>1, <2>2, AnyClaimKind
  <2>4. ASSUME NEW v \in ValIds, NEW a \in Addrs PROVE Shrinks(v, a)
    BY <2>1, <2>3, ClaimKept, Zenon DEF Claim, ClaimNext
  <2> QED
    BY <2>4
<1>4. RewardInv /\ [Next]_vars => [Kept]_vars
  BY <1>3
<1> HIDE DEF Kept
<1>5. Spec => [][Kept]_vars
  BY <1>1, <1>2, <1>4, PTL DEF Spec
<1> QED
  BY <1>5 DEF ClaimsPaidInFull, Kept
=============================================================================
