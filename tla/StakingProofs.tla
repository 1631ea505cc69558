--------------------------- MODULE StakingProofs ---------------------------
(***************************************************************************)
(* The staking precompile, for every value of the constants and every      *)
(* order of system calls.                                                  *)
(*                                                                         *)
(* First its storage and its books: types, the window stake is pending in, *)
(* snapshots that no longer change once they are due; that its account     *)
(* holds what it owes, so that its calls are the steps of an escrow, and   *)
(* that every accumulator snapshot is counted once by all who refer to it. *)
(*                                                                         *)
(* Then the validator sets: what makes a validator eligible (its flags),   *)
(* the execution array through its compaction, a loop that walks it from   *)
(* its end, who is chosen of it, and the views rewards are computed with.  *)
(* Who is chosen is a ranking: that no two share a rank and no rank is     *)
(* left out gives as many as there are seats.                              *)
(*                                                                         *)
(* Last the two linked lists, which follow who has stake with whom.        *)
(***************************************************************************)
EXTENDS StakingSafety, SequenceTheorems, DataTheorems

-----------------------------------------------------------------------------
(* The settlement of one delegation.                                       *)

\* While a settlement fails its amounts may go below zero.
RunningDelegator == [stake : Nat, acc : Nat, rewards : Int,
                     deltaStake : Nat, nextDeltaStake : Nat,
                     deltaEpoch : Nat, nextDeltaEpoch : Nat]

Accumulators == [Epochs -> Accumulator]

RunningSettlement == [ok : BOOLEAN, del : RunningDelegator,
                      unclaimed : Int, accs : Accumulators]

Solvent(s) == s.ok = TRUE => s.del.rewards >= 0 /\ s.unclaimed >= 0

\* The reward formula gives an integer, and a natural one when the cursor is
\* not ahead of the accumulator.
LEMMA CalculateRewardsType ==
    ASSUME NEW stake \in Nat, NEW current \in Nat, NEW last \in Nat
    PROVE  /\ CalculateRewards(stake, current, last) \in Int
           /\ last <= current => CalculateRewards(stake, current, last) \in Nat
<1>1. (current - last) * stake \in Int
  OBVIOUS
<1>2. last <= current => (current - last) * stake \in Nat
  <2>1. SUFFICES ASSUME last <= current PROVE (current - last) * stake \in Nat
    OBVIOUS
  <2>2. \A x, y \in Nat : x * y \in Nat
    OBVIOUS
  <2>3. current - last \in Nat
    BY <2>1
  <2> QED
    BY <2>2, <2>3
<1>3. UNIT_BIAS \in Nat /\ UNIT_BIAS > 0
  BY StakingConstantsAssumption
<1>4. \A n \in Int : n \div UNIT_BIAS \in Int
  BY <1>3
<1>5. \A n \in Nat : n \div UNIT_BIAS \in Nat
  BY <1>3
<1> QED
  BY <1>1, <1>2, <1>4, <1>5 DEF CalculateRewards

\* A snapshot that is read back is a natural number.
LEMMA SnapshotValueType ==
    ASSUME NEW A \in Accumulators, NEW e \in Epochs
    PROVE  SnapshotValue(A, e) \in Nat
BY DEF Accumulators, Accumulator, SnapshotValue

\* Giving up a reference keeps the accumulators typed.
LEMMA DecrementRefcountType ==
    ASSUME NEW A \in Accumulators, NEW e \in Epochs
    PROVE  DecrementRefcount(A, e) \in Accumulators
<1>1. A[e] \in Accumulator
  BY DEF Accumulators
<1>2. CASE A[e].refcount = 0
  BY <1>2 DEF DecrementRefcount
<1>3. CASE A[e].refcount = 1
  BY <1>3 DEF DecrementRefcount, Accumulators, Accumulator, NoAccumulator
<1>4. CASE A[e].refcount > 1
  BY <1>1, <1>4 DEF DecrementRefcount, Accumulators, Accumulator
<1> QED
  BY <1>1, <1>2, <1>3, <1>4 DEF Accumulator

\* Taking a reference keeps the accumulators typed.
LEMMA IncrementRefcountType ==
    ASSUME NEW A \in Accumulators, NEW e \in Epochs, NEW value \in Nat
    PROVE  IncrementRefcount(A, e, value) \in Accumulators
BY DEF Accumulators, Accumulator, IncrementRefcount

\* What crediting rewards does to each field.
LEMMA CreditFields ==
    ASSUME NEW s \in RunningSettlement, NEW value \in Nat
    PROVE  LET rewards == CalculateRewards(s.del.stake, value, s.del.acc)
               t == Credit(s, value)
           IN  /\ t \in RunningSettlement
               /\ t.ok = TRUE <=> /\ s.ok = TRUE
                                  /\ s.del.acc <= value
                                  /\ rewards <= s.unclaimed
               /\ t.unclaimed = s.unclaimed - rewards
               /\ t.accs = s.accs
               /\ t.del.rewards = s.del.rewards + rewards
               /\ t.del.acc = value
               /\ t.del.stake = s.del.stake
               /\ t.del.deltaStake = s.del.deltaStake
               /\ t.del.nextDeltaStake = s.del.nextDeltaStake
               /\ t.del.deltaEpoch = s.del.deltaEpoch
               /\ t.del.nextDeltaEpoch = s.del.nextDeltaEpoch
<1> DEFINE rewards == CalculateRewards(s.del.stake, value, s.del.acc)
           ok == s.ok /\ s.del.acc <= value /\ rewards <= s.unclaimed
           unclaimed == s.unclaimed - rewards
           total == s.del.rewards + rewards
           d == [s.del EXCEPT !.acc = value, !.rewards = total]
           t == [s EXCEPT !.ok = ok, !.unclaimed = unclaimed, !.del = d]
<1>1. s.del \in RunningDelegator /\ s.unclaimed \in Int /\ s.ok \in BOOLEAN
  BY DEF RunningSettlement
<1>2. rewards \in Int
  BY <1>1, CalculateRewardsType DEF RunningDelegator
<1>3. Credit(s, value) = t
  BY DEF Credit
<1>4. /\ ok \in BOOLEAN
      /\ ok = TRUE <=> s.ok = TRUE /\ s.del.acc <= value /\ rewards <= s.unclaimed
  BY <1>1
<1>5. unclaimed \in Int /\ total \in Int
  BY <1>1, <1>2 DEF RunningDelegator
<1> HIDE DEF rewards, ok, unclaimed, total
<1>6. /\ d \in RunningDelegator
      /\ d.rewards = total
      /\ d.acc = value
      /\ d.stake = s.del.stake
      /\ d.deltaStake = s.del.deltaStake
      /\ d.nextDeltaStake = s.del.nextDeltaStake
      /\ d.deltaEpoch = s.del.deltaEpoch
      /\ d.nextDeltaEpoch = s.del.nextDeltaEpoch
  BY <1>1, <1>5 DEF RunningDelegator
<1> HIDE DEF d
<1>7. /\ t \in RunningSettlement
      /\ t.ok = ok
      /\ t.unclaimed = unclaimed
      /\ t.del = d
      /\ t.accs = s.accs
  BY <1>4, <1>5, <1>6 DEF RunningSettlement
<1> HIDE DEF t
<1> QED
  BY <1>3, <1>4, <1>6, <1>7 DEF rewards, unclaimed, total

-----------------------------------------------------------------------------
(***************************************************************************)
(* What every part of a settlement keeps: its type, its solvency, the      *)
(* accumulators that are still referred to, the references others hold,    *)
(* the total stake, and the rewards of the delegator and the pool taken    *)
(* together.                                                               *)
(***************************************************************************)
KeepsSnapshots(A, B) ==
    \A e \in Epochs : B[e].refcount > 0 =>
        A[e].refcount > 0 /\ B[e].value = A[e].value

\* The references the pending stakes of a delegation hold on an epoch, and
\* that the accumulators have counted them.
Tracks(d, e) ==
    (IF d.deltaEpoch = e THEN 1 ELSE 0) + (IF d.nextDeltaEpoch = e THEN 1 ELSE 0)

Counted(d, A) == \A e \in Epochs \ {0} : Tracks(d, e) <= A[e].refcount

\* The references that are not the delegation's own.
Others(d, A, e) == A[e].refcount - Tracks(d, e)

KeepsOthers(s, t) ==
    Counted(s.del, s.accs) =>
        /\ Counted(t.del, t.accs)
        /\ \A e \in Epochs \ {0} : Others(t.del, t.accs, e) = Others(s.del, s.accs, e)

Settles(s, t) ==
    /\ t \in RunningSettlement
    /\ t.ok = TRUE => s.ok = TRUE
    /\ Solvent(s) => Solvent(t)
    /\ KeepsSnapshots(s.accs, t.accs)
    /\ KeepsOthers(s, t)
    /\ TotalStake(t.del) = TotalStake(s.del)
    /\ t.del.rewards + t.unclaimed = s.del.rewards + s.unclaimed

\* Parts of a settlement compose.
LEMMA SettlesTransitive ==
    ASSUME NEW s, NEW t, NEW u, Settles(s, t), Settles(t, u)
    PROVE  Settles(s, u)
BY DEF Settles, KeepsSnapshots, KeepsOthers

\* Nothing to settle is a settlement too.
LEMMA SettlesReflexive ==
    ASSUME NEW s \in RunningSettlement
    PROVE  Settles(s, s)
BY DEF Settles, KeepsSnapshots, KeepsOthers

\* Crediting is such a part.
LEMMA CreditSettles ==
    ASSUME NEW s \in RunningSettlement, NEW value \in Nat
    PROVE  Settles(s, Credit(s, value))
<1> DEFINE t == Credit(s, value)
           rewards == CalculateRewards(s.del.stake, value, s.del.acc)
<1>1. /\ s.del \in RunningDelegator /\ s.unclaimed \in Int
      /\ s.del.stake \in Nat /\ s.del.acc \in Nat /\ s.del.rewards \in Int
  BY DEF RunningSettlement, RunningDelegator
<1>2. rewards \in Int /\ (s.del.acc <= value => rewards \in Nat)
  BY <1>1, CalculateRewardsType
<1>3. /\ t \in RunningSettlement
      /\ t.ok = TRUE => s.ok = TRUE /\ s.del.acc <= value /\ rewards <= s.unclaimed
      /\ t.unclaimed = s.unclaimed - rewards
      /\ t.del.rewards = s.del.rewards + rewards
      /\ t.accs = s.accs
  BY CreditFields
<1>4. /\ TotalStake(t.del) = TotalStake(s.del)
      /\ t.del.deltaEpoch = s.del.deltaEpoch
      /\ t.del.nextDeltaEpoch = s.del.nextDeltaEpoch
  BY CreditFields DEF TotalStake
<1> HIDE DEF t, rewards
<1>5. Solvent(s) => Solvent(t)
  BY <1>1, <1>2, <1>3 DEF Solvent
<1>6. KeepsSnapshots(s.accs, t.accs)
  BY <1>3 DEF KeepsSnapshots
<1>7. KeepsOthers(s, t)
  BY <1>3, <1>4 DEF KeepsOthers, Counted, Others, Tracks
<1>8. t.del.rewards + t.unclaimed = s.del.rewards + s.unclaimed
  BY <1>1, <1>2, <1>3
<1> QED
  BY <1>3, <1>4, <1>5, <1>6, <1>7, <1>8 DEF Settles, t

\* Giving up a reference changes no snapshot that is still referred to.
LEMMA DecrementKeepsSnapshots ==
    ASSUME NEW A \in Accumulators, NEW e \in Epochs
    PROVE  KeepsSnapshots(A, DecrementRefcount(A, e))
<1>1. A[e].refcount \in Nat
  BY DEF Accumulators, Accumulator
<1>2. CASE A[e].refcount = 0
  BY <1>2 DEF DecrementRefcount, KeepsSnapshots
<1>3. CASE A[e].refcount = 1
  BY <1>3 DEF DecrementRefcount, KeepsSnapshots, Accumulators, Accumulator,
              NoAccumulator
<1>4. CASE A[e].refcount > 1
  BY <1>4 DEF DecrementRefcount, KeepsSnapshots, Accumulators, Accumulator
<1> QED
  BY <1>1, <1>2, <1>3, <1>4

\* Giving up a reference that is counted lowers one count by one.
LEMMA DecrementCounts ==
    ASSUME NEW A \in Accumulators, NEW e \in Epochs, A[e].refcount > 0
    PROVE  \A f \in Epochs : DecrementRefcount(A, e)[f].refcount =
              A[f].refcount - (IF f = e THEN 1 ELSE 0)
<1>1. A[e].refcount \in Nat /\ \A f \in Epochs : A[f].refcount \in Nat
  BY DEF Accumulators, Accumulator
<1>2. CASE A[e].refcount = 1
  BY <1>1, <1>2 DEF DecrementRefcount, Accumulators, Accumulator, NoAccumulator
<1>3. CASE A[e].refcount > 1
  <2> DEFINE n == A[e].refcount - 1
             new == [A[e] EXCEPT !.refcount = n]
  <2>1. n \in Nat
    BY <1>1, <1>3
  <2>2. DecrementRefcount(A, e) = [A EXCEPT ![e] = new]
    BY <1>3 DEF DecrementRefcount
  <2>3. A[e] \in Accumulator
    BY DEF Accumulators
  <2>4. n = A[e].refcount - 1
    OBVIOUS
  <2> HIDE DEF n
  <2>5. new.refcount = n
    BY <2>3 DEF Accumulator
  <2> HIDE DEF new
  <2> QED
    BY <1>1, <2>2, <2>4, <2>5 DEF Accumulators
<1> QED
  BY <1>1, <1>2, <1>3

\* Activating the first pending stake gives up the reference it held.
LEMMA CompoundKeepsOthers ==
    ASSUME NEW d \in RunningDelegator, NEW x \in RunningDelegator,
           NEW A \in Accumulators, d.deltaEpoch \in Epochs,
           x.deltaEpoch = d.nextDeltaEpoch, x.nextDeltaEpoch = 0,
           Counted(d, A)
    PROVE  LET B == DecrementRefcount(A, d.deltaEpoch)
           IN  /\ Counted(x, B)
               /\ \A e \in Epochs \ {0} : Others(x, B, e) = Others(d, A, e)
<1> DEFINE B == DecrementRefcount(A, d.deltaEpoch)
<1>1. ASSUME NEW e \in Epochs \ {0}
      PROVE  B[e].refcount = A[e].refcount - (IF e = d.deltaEpoch THEN 1 ELSE 0)
  <2>1. CASE A[d.deltaEpoch].refcount > 0
    BY <2>1, DecrementCounts
  <2>2. CASE ~(A[d.deltaEpoch].refcount > 0)
    <3>1. A[d.deltaEpoch].refcount = 0
      BY <2>2 DEF Accumulators, Accumulator
    <3>2. B = A
      BY <3>1 DEF DecrementRefcount
    <3>3. A[e].refcount \in Nat
      BY DEF Accumulators, Accumulator
    <3>4. e # d.deltaEpoch
      <4>1. CASE e = d.deltaEpoch
        <5>1. Tracks(d, e) <= 0
          BY <3>1, <4>1 DEF Counted
        <5> QED
          BY <4>1, <5>1 DEF Tracks
      <4> QED
        BY <4>1
    <3> QED
      BY <3>2, <3>3, <3>4
  <2> QED
    BY <2>1, <2>2
<1> HIDE DEF B
<1>2. ASSUME NEW e \in Epochs \ {0}
      PROVE  /\ Tracks(x, e) = Tracks(d, e) - (IF e = d.deltaEpoch THEN 1 ELSE 0)
             /\ Tracks(x, e) \in Int /\ Tracks(d, e) \in Int
  BY DEF Tracks
<1>3. \A e \in Epochs : A[e].refcount \in Nat
  BY DEF Accumulators, Accumulator
<1>4. \A e \in Epochs \ {0} : Tracks(d, e) <= A[e].refcount
  BY DEF Counted
<1>5. ASSUME NEW e \in Epochs \ {0}
      PROVE  Tracks(x, e) <= B[e].refcount /\ Others(x, B, e) = Others(d, A, e)
  BY <1>1, <1>2, <1>3, <1>4 DEF Others
<1> QED
  BY <1>5 DEF Counted, B

\* Activating a pending stake: the tracks move up by one.
LEMMA ApplyCompoundSettles ==
    ASSUME NEW s \in RunningSettlement, s.del.deltaEpoch \in Epochs
    PROVE  LET t == ApplyCompound(s)
           IN  /\ Settles(s, t)
               /\ t.del.deltaEpoch = s.del.nextDeltaEpoch
               /\ t.del.deltaStake = s.del.nextDeltaStake
               /\ t.del.nextDeltaEpoch = 0
               /\ t.del.nextDeltaStake = 0
<1> DEFINE epochDue == s.del.deltaEpoch
           value == SnapshotValue(s.accs, epochDue)
           c == Credit(s, value)
           A == DecrementRefcount(c.accs, epochDue)
           d == ShiftTracks(c.del)
           t == [c EXCEPT !.accs = A, !.del = d]
<1>1. s.accs \in Accumulators /\ s.del \in RunningDelegator
  BY DEF RunningSettlement
<1>2. value \in Nat
  BY <1>1, SnapshotValueType
<1> HIDE DEF value
<1>3. /\ Settles(s, c)
      /\ c.accs = s.accs
      /\ c.del.deltaEpoch = s.del.deltaEpoch
      /\ c.del.nextDeltaEpoch = s.del.nextDeltaEpoch
      /\ c.del.nextDeltaStake = s.del.nextDeltaStake
  BY <1>2, CreditSettles, CreditFields
<1> HIDE DEF c
<1>4. c \in RunningSettlement /\ c.accs \in Accumulators /\ c.del \in RunningDelegator
  BY <1>3 DEF Settles, RunningSettlement
<1>5. A \in Accumulators /\ KeepsSnapshots(s.accs, A)
  BY <1>1, <1>3, DecrementRefcountType, DecrementKeepsSnapshots
<1>6. /\ d \in RunningDelegator
      /\ TotalStake(d) = TotalStake(c.del)
      /\ d.rewards = c.del.rewards
      /\ d.deltaEpoch = c.del.nextDeltaEpoch
      /\ d.deltaStake = c.del.nextDeltaStake
      /\ d.nextDeltaEpoch = 0
      /\ d.nextDeltaStake = 0
  <2> DEFINE st == c.del.stake + c.del.deltaStake
  <2>1. /\ st \in Nat /\ c.del.stake \in Nat /\ c.del.deltaStake \in Nat
        /\ c.del.nextDeltaStake \in Nat /\ c.del.nextDeltaEpoch \in Nat
    BY <1>4 DEF RunningDelegator
  <2>2. d = [c.del EXCEPT !.stake          = st,
                          !.deltaStake     = c.del.nextDeltaStake,
                          !.deltaEpoch     = c.del.nextDeltaEpoch,
                          !.nextDeltaStake = 0,
                          !.nextDeltaEpoch = 0]
    BY DEF ShiftTracks
  <2>3. st = c.del.stake + c.del.deltaStake
    OBVIOUS
  <2> HIDE DEF st, d
  <2>4. /\ d \in RunningDelegator
        /\ d.stake = st
        /\ d.rewards = c.del.rewards
        /\ d.deltaEpoch = c.del.nextDeltaEpoch
        /\ d.deltaStake = c.del.nextDeltaStake
        /\ d.nextDeltaEpoch = 0
        /\ d.nextDeltaStake = 0
    BY <1>4, <2>1, <2>2 DEF RunningDelegator
  <2> QED
    BY <2>1, <2>3, <2>4 DEF TotalStake
<1> HIDE DEF A, d
<1>7. /\ t \in RunningSettlement
      /\ t.ok = c.ok
      /\ t.unclaimed = c.unclaimed
      /\ t.accs = A
      /\ t.del = d
  BY <1>4, <1>5, <1>6 DEF RunningSettlement
<1>8. ApplyCompound(s) = t
  BY DEF ApplyCompound, value, c, A, d
<1> HIDE DEF t
<1>9. KeepsOthers(c, t)
  BY <1>3, <1>4, <1>6, <1>7, CompoundKeepsOthers DEF KeepsOthers, A
<1>10. Settles(c, t)
  BY <1>3, <1>5, <1>6, <1>7, <1>9 DEF Settles, Solvent
<1>11. Settles(s, t)
  BY <1>3, <1>10, SettlesTransitive
<1> QED
  BY <1>3, <1>6, <1>7, <1>8, <1>11

\* A stake that moves up keeps its epoch; the window it has to be in stays.
LEMMA PromoteNextSettles ==
    ASSUME NEW s \in RunningSettlement, epoch \in Nat, inBoundary \in BOOLEAN,
           PendingInWindow(s.del)
    PROVE  LET p == [s EXCEPT !.del = PromoteNext(@, epoch)]
           IN  /\ Settles(s, p)
               /\ PendingInWindow(p.del)
               /\ p.del.deltaEpoch = 0 =>
                     p.del.nextDeltaEpoch = 0 \/ p.del.nextDeltaEpoch > epoch + 1
<1> DEFINE d == PromoteNext(s.del, epoch)
           p == [s EXCEPT !.del = d]
           up == /\ s.del.deltaEpoch = 0
                 /\ s.del.nextDeltaEpoch # 0
                 /\ s.del.nextDeltaEpoch <= epoch + 1
<1>1. s.del \in RunningDelegator
  BY DEF RunningSettlement
<1>2. CASE up
  <2>1. d = [s.del EXCEPT !.deltaStake     = s.del.nextDeltaStake,
                          !.deltaEpoch     = s.del.nextDeltaEpoch,
                          !.nextDeltaStake = 0,
                          !.nextDeltaEpoch = 0]
    BY <1>2 DEF PromoteNext
  <2> HIDE DEF d
  <2>2. /\ d \in RunningDelegator
        /\ d.stake = s.del.stake
        /\ d.rewards = s.del.rewards
        /\ d.deltaStake = s.del.nextDeltaStake
        /\ d.deltaEpoch = s.del.nextDeltaEpoch
        /\ d.nextDeltaStake = 0
        /\ d.nextDeltaEpoch = 0
    BY <1>1, <2>1 DEF RunningDelegator
  <2>3. TotalStake(d) = TotalStake(s.del)
    BY <1>1, <1>2, <2>2 DEF TotalStake, PendingInWindow, RunningDelegator
  <2>4. PendingInWindow(d)
    BY <1>1, <1>2, <2>2 DEF PendingInWindow, RunningDelegator, ActivationEpoch
  <2>5. /\ p \in RunningSettlement
        /\ p.del = d /\ p.ok = s.ok /\ p.unclaimed = s.unclaimed /\ p.accs = s.accs
    BY <2>2 DEF RunningSettlement
  <2>6. \A e \in Epochs \ {0} : Tracks(d, e) = Tracks(s.del, e)
    BY <1>1, <1>2, <2>2 DEF Tracks
  <2>7. KeepsOthers(s, p)
    BY <2>5, <2>6 DEF KeepsOthers, Counted, Others
  <2>8. Settles(s, p)
    BY <2>2, <2>3, <2>5, <2>7 DEF Settles, Solvent, KeepsSnapshots
  <2> QED
    BY <1>2, <2>2, <2>4, <2>5, <2>8 DEF d
<1>3. CASE ~up
  <2>1. d = s.del
    BY <1>3 DEF PromoteNext
  <2> HIDE DEF d
  <2>2. p = s
    BY <2>1 DEF RunningSettlement
  <2> QED
    BY <1>1, <1>3, <2>1, <2>2, SettlesReflexive DEF d, RunningDelegator
<1> QED
  BY <1>2, <1>3

(***************************************************************************)
(* Settling a delegation leaves pending only what has not become active:   *)
(* in the next epoch, or, in the boundary, in the one after.               *)
(***************************************************************************)
LEMMA PullSettles ==
    ASSUME NEW s \in RunningSettlement, NEW valAcc \in Nat,
           epoch \in 0 .. MaxEpoch, inBoundary \in BOOLEAN,
           PendingInWindow(s.del)
    PROVE  LET t == PullDelegatorUpToDate(s, valAcc, epoch)
           IN  /\ Settles(s, t)
               /\ PendingInWindow(t.del)
               /\ t.del.deltaEpoch \in {0, epoch + 1}
               /\ t.del.nextDeltaEpoch \in {0, epoch + 2}
<1> DEFINE p == [s EXCEPT !.del = PromoteNext(@, epoch)]
           one == IsEpochActive(epoch, p.del.deltaEpoch)
           two == IsEpochActive(epoch, p.del.nextDeltaEpoch)
           b == IF two THEN ApplyCompound(p) ELSE p
           c == IF one THEN ApplyCompound(b) ELSE b
           t == IF c.del.stake = 0 THEN c ELSE Credit(c, valAcc)
<1>1. MaxEpoch \in Nat /\ epoch \in Nat
  BY StakingAssumption
<1>2. /\ Settles(s, p)
      /\ PendingInWindow(p.del)
      /\ p.del.deltaEpoch = 0 =>
            p.del.nextDeltaEpoch = 0 \/ p.del.nextDeltaEpoch > epoch + 1
  BY <1>1, PromoteNextSettles
<1>3. PullDelegatorUpToDate(s, valAcc, epoch) = t
  BY Zenon DEF PullDelegatorUpToDate
<1> HIDE DEF p
<1>4. /\ p \in RunningSettlement
      /\ p.del.deltaEpoch \in Nat /\ p.del.nextDeltaEpoch \in Nat
      /\ p.del.deltaStake \in Nat /\ p.del.nextDeltaStake \in Nat
  BY <1>2 DEF Settles, RunningSettlement, RunningDelegator
<1>5. /\ Settles(s, c)
      /\ PendingInWindow(c.del)
      /\ c.del.deltaEpoch \in {0, epoch + 1}
      /\ c.del.nextDeltaEpoch \in {0, epoch + 2}
  <2>1. CASE ~one
    <3>1. ~two
      BY <1>1, <1>2, <1>4, <2>1 DEF IsEpochActive, PendingInWindow
    <3>2. c = p
      BY <2>1, <3>1
    <3>3. p.del.deltaEpoch \in {0, epoch + 1}
      BY <1>1, <1>2, <1>4, <2>1 DEF IsEpochActive, PendingInWindow
    <3>4. p.del.nextDeltaEpoch \in {0, epoch + 2}
      BY <1>1, <1>2, <1>4, <2>1, <3>3
         DEF IsEpochActive, PendingInWindow, ActivationEpoch
    <3> QED
      BY <1>2, <3>2, <3>3, <3>4
  <2>2. CASE one /\ ~two
    <3>1. c = ApplyCompound(p)
      BY <2>2
    <3>2. p.del.deltaEpoch \in Epochs
      BY <1>1, <1>4, <2>2 DEF IsEpochActive, Epochs
    <3>3. /\ Settles(p, c)
          /\ c.del.deltaEpoch = p.del.nextDeltaEpoch
          /\ c.del.deltaStake = p.del.nextDeltaStake
          /\ c.del.nextDeltaEpoch = 0
          /\ c.del.nextDeltaStake = 0
      BY <1>4, <3>1, <3>2, ApplyCompoundSettles
    <3>4. p.del.nextDeltaEpoch \in {0, epoch + 1}
      BY <1>1, <1>2, <1>4, <2>2 DEF IsEpochActive, PendingInWindow
    <3>5. PendingInWindow(c.del)
      BY <1>1, <1>2, <1>4, <3>3, <3>4 DEF PendingInWindow, ActivationEpoch
    <3> QED
      BY <1>2, <3>3, <3>4, <3>5, SettlesTransitive
  <2>3. CASE one /\ two
    <3>1. b = ApplyCompound(p) /\ c = ApplyCompound(b)
      BY <2>3
    <3>2. p.del.deltaEpoch \in Epochs /\ p.del.nextDeltaEpoch \in Epochs
      BY <1>1, <1>4, <2>3 DEF IsEpochActive, Epochs
    <3> HIDE DEF b, c
    <3>3. /\ Settles(p, b)
          /\ b.del.deltaEpoch = p.del.nextDeltaEpoch
          /\ b.del.nextDeltaEpoch = 0
          /\ b.del.nextDeltaStake = 0
      BY <1>4, <3>1, <3>2, ApplyCompoundSettles
    <3>4. b \in RunningSettlement
      BY <3>3 DEF Settles
    <3>5. /\ Settles(b, c)
          /\ c.del.deltaEpoch = 0
          /\ c.del.deltaStake = 0
          /\ c.del.nextDeltaEpoch = 0
          /\ c.del.nextDeltaStake = 0
      BY <3>1, <3>2, <3>3, <3>4, ApplyCompoundSettles
    <3>6. PendingInWindow(c.del)
      BY <1>1, <3>5 DEF PendingInWindow, ActivationEpoch
    <3> QED
      BY <1>2, <3>3, <3>5, <3>6, SettlesTransitive
  <2> QED
    BY <2>1, <2>2, <2>3
<1> HIDE DEF c
<1>6. c \in RunningSettlement
  BY <1>5 DEF Settles
<1>7. Settles(c, t)
  BY <1>6, SettlesReflexive, CreditSettles
<1>8. /\ t.del.deltaStake = c.del.deltaStake
      /\ t.del.nextDeltaStake = c.del.nextDeltaStake
      /\ t.del.deltaEpoch = c.del.deltaEpoch
      /\ t.del.nextDeltaEpoch = c.del.nextDeltaEpoch
  BY <1>6, CreditFields
<1> HIDE DEF t
<1>9. PendingInWindow(t.del)
  BY <1>5, <1>8 DEF PendingInWindow
<1> QED
  BY <1>3, <1>5, <1>7, <1>8, <1>9, SettlesTransitive

-----------------------------------------------------------------------------
(* The storage: its type and the window of the pending stakes.             *)

Inv == TypeOK /\ PendingWindow

\* A settlement that succeeded left a delegation and a pool of the right type.
LEMMA SuccessType ==
    ASSUME NEW s \in RunningSettlement, Solvent(s), s.ok = TRUE
    PROVE  s.del \in Delegator /\ s.unclaimed \in Nat /\ s.accs \in Accumulators
<1>1. s.del \in RunningDelegator /\ s.unclaimed \in Int /\ s.accs \in Accumulators
  BY DEF RunningSettlement
<1>2. s.del.rewards >= 0 /\ s.unclaimed >= 0
  BY DEF Solvent
<1> QED
  BY <1>1, <1>2 DEF RunningDelegator, Delegator

\* A stored delegation with the pool and the accumulators of its validator is
\* a settlement to start from.
LEMMA SettlementType ==
    ASSUME NEW d \in Delegator, NEW unclaimed \in Nat, NEW A \in Accumulators
    PROVE  LET s == Settlement(d, unclaimed, A)
           IN  /\ s \in RunningSettlement /\ Solvent(s) /\ s.ok = TRUE
               /\ s.del = d /\ s.accs = A
BY DEF Settlement, RunningSettlement, Delegator, RunningDelegator, Solvent

\* Its pool is the validator's.
LEMMA SettlementPool ==
    ASSUME NEW d, NEW unclaimed, NEW A
    PROVE  Settlement(d, unclaimed, A).unclaimed = unclaimed
BY DEF Settlement

\* Stake always activates in an epoch that has not started.
LEMMA ActivationEpochType ==
    ASSUME epoch \in 0 .. MaxEpoch, inBoundary \in BOOLEAN
    PROVE  ActivationEpoch \in Epochs /\ ActivationEpoch > epoch
BY StakingAssumption DEF ActivationEpoch, Epochs

\* Stake added to a settled delegation goes to a track that is empty or due
\* in the same epoch.
LEMMA AddPendingInWindow ==
    ASSUME NEW d \in Delegator, NEW amount \in Nat \ {0},
           epoch \in Nat, inBoundary \in BOOLEAN,
           PendingInWindow(d),
           d.deltaEpoch \in {0, epoch + 1},
           d.nextDeltaEpoch \in {0, epoch + 2}
    PROVE  /\ AddPending(d, amount) \in Delegator
           /\ PendingInWindow(AddPending(d, amount))
           /\ TotalStake(AddPending(d, amount)) = TotalStake(d) + amount
           /\ AddPending(d, amount).rewards = d.rewards
<1>1. CASE inBoundary
  <2> DEFINE sum == d.nextDeltaStake + amount
             due == epoch + 2
             t == [d EXCEPT !.nextDeltaStake = sum, !.nextDeltaEpoch = due]
  <2>1. AddPending(d, amount) = t
    BY <1>1 DEF AddPending
  <2>2. sum \in Nat \ {0} /\ sum = d.nextDeltaStake + amount
    BY DEF Delegator
  <2>2a. sum \in Nat /\ due \in Nat
    BY <2>2
  <2> HIDE DEF sum, due
  <2>3. /\ t \in Delegator
        /\ t.stake = d.stake
        /\ t.deltaStake = d.deltaStake
        /\ t.rewards = d.rewards
        /\ t.deltaEpoch = d.deltaEpoch
        /\ t.nextDeltaStake = sum
        /\ t.nextDeltaEpoch = due
    BY <2>2a DEF Delegator
  <2> HIDE DEF t
  <2>4. PendingInWindow(t)
    BY <1>1, <2>2, <2>3 DEF PendingInWindow, ActivationEpoch, due
  <2> QED
    BY <2>1, <2>2, <2>3, <2>4 DEF TotalStake, Delegator
<1>2. CASE ~inBoundary
  <2> DEFINE sum == d.deltaStake + amount
             due == epoch + 1
             t == [d EXCEPT !.deltaStake = sum, !.deltaEpoch = due]
  <2>1. AddPending(d, amount) = t
    BY <1>2 DEF AddPending
  <2>2. sum \in Nat \ {0} /\ sum = d.deltaStake + amount
    BY DEF Delegator
  <2>2a. sum \in Nat /\ due \in Nat
    BY <2>2
  <2> HIDE DEF sum, due
  <2>3. /\ t \in Delegator
        /\ t.stake = d.stake
        /\ t.deltaStake = sum
        /\ t.deltaEpoch = due
        /\ t.rewards = d.rewards
        /\ t.nextDeltaStake = d.nextDeltaStake
        /\ t.nextDeltaEpoch = d.nextDeltaEpoch
    BY <2>2a DEF Delegator
  <2> HIDE DEF t
  <2>4. PendingInWindow(t)
    BY <1>2, <2>2, <2>3 DEF PendingInWindow, ActivationEpoch, due
  <2> QED
    BY <2>1, <2>2, <2>3, <2>4 DEF TotalStake, Delegator
<1> QED
  BY <1>1, <1>2

\* Flags stay flags.
LEMMA FlagsType ==
    ASSUME NEW record \in Validator, NEW d, NEW caller
    PROVE  /\ FlagsAfterDelegate(record, d, caller) \in SUBSET Flags
           /\ FlagsAfterUndelegate(record, d, caller) \in SUBSET Flags
BY DEF Validator, Flags, FlagsAfterDelegate, FlagsAfterUndelegate

\* What internal_delegate writes: the delegation d, the validator's record
\* and its accumulators A.
DelegationWritten(v, caller, record, amount, s, d, unclaimed) ==
    LET staked == [record EXCEPT !.stake = @ + amount, !.unclaimed = unclaimed]
    IN  /\ del' = [del EXCEPT ![v][caller] = d]
        /\ PendingInWindow(d)
        /\ TotalStake(d) = TotalStake(s.del) + amount
        /\ d.rewards + unclaimed = s.del.rewards + s.unclaimed
        /\ val' = [val EXCEPT ![v] =
              [staked EXCEPT !.flags = FlagsAfterDelegate(staked, d, caller)]]

SnapshotsWritten(v, s, A) ==
    /\ accs' = [accs EXCEPT ![v] = A]
    /\ \A e \in Epochs : e <= epoch /\ A[e].refcount > 0 =>
          s.accs[e].refcount > 0 /\ A[e].value = s.accs[e].value

(***************************************************************************)
(* internal_delegate: the types of what it writes, and that the snapshots  *)
(* of epochs that have started keep their value.                           *)
(***************************************************************************)
LEMMA InternalDelegateFacts ==
    ASSUME Inv,
           NEW v \in ValIds, NEW caller \in Addrs, NEW record \in Validator,
           NEW amount \in Nat \ {0}, NEW s \in RunningSettlement,
           Solvent(s), s.ok = TRUE, PendingInWindow(s.del),
           InternalDelegate(v, record, caller, amount, s)
    PROVE  /\ \E d \in Delegator, unclaimed \in Nat :
                 DelegationWritten(v, caller, record, amount, s, d, unclaimed)
           /\ \E A \in Accumulators : SnapshotsWritten(v, s, A)
           /\ executionBits' \subseteq ValIds
<1> DEFINE pulled == PullDelegatorUpToDate(s, record.acc, epoch)
           d == AddPending(pulled.del, amount)
           A == IF TrackIsFree(pulled.del)
                THEN IncrementRefcount(pulled.accs, ActivationEpoch, record.acc)
                ELSE pulled.accs
           staked == [record EXCEPT !.stake = @ + amount,
                                    !.unclaimed = pulled.unclaimed]
           flags == FlagsAfterDelegate(staked, d, caller)
<1>1. /\ epoch \in 0 .. MaxEpoch /\ epoch \in Nat /\ inBoundary \in BOOLEAN
      /\ executionBits \subseteq ValIds
  BY StakingAssumption DEF Inv, TypeOK
<1>2. record.acc \in Nat
  BY DEF Validator
<1>3. /\ Settles(s, pulled)
      /\ PendingInWindow(pulled.del)
      /\ pulled.del.deltaEpoch \in {0, epoch + 1}
      /\ pulled.del.nextDeltaEpoch \in {0, epoch + 2}
  BY <1>1, <1>2, PullSettles
<1>4. /\ pulled.ok
      /\ del' = [del EXCEPT ![v][caller] = d]
      /\ accs' = [accs EXCEPT ![v] = A]
      /\ val' = [val EXCEPT ![v] = [staked EXCEPT !.flags = flags]]
      /\ executionBits' = IF flags = {} THEN executionBits \cup {v} ELSE executionBits
  BY Zenon DEF InternalDelegate
<1> HIDE DEF pulled
<1>5. /\ pulled \in RunningSettlement /\ Solvent(pulled)
      /\ KeepsSnapshots(s.accs, pulled.accs)
      /\ TotalStake(pulled.del) = TotalStake(s.del)
      /\ pulled.del.rewards + pulled.unclaimed = s.del.rewards + s.unclaimed
  BY <1>3 DEF Settles
<1>6. pulled.ok = TRUE
  BY <1>4, <1>5 DEF RunningSettlement
<1>7. /\ pulled.del \in Delegator /\ pulled.unclaimed \in Nat
      /\ pulled.accs \in Accumulators
  BY <1>5, <1>6, SuccessType
<1>8. /\ d \in Delegator
      /\ PendingInWindow(d)
      /\ TotalStake(d) = TotalStake(s.del) + amount
      /\ d.rewards + pulled.unclaimed = s.del.rewards + s.unclaimed
  BY <1>1, <1>3, <1>5, <1>7, AddPendingInWindow
<1>9. A \in Accumulators
  BY <1>1, <1>2, <1>7, IncrementRefcountType, ActivationEpochType
<1>10. \A e \in Epochs : e <= epoch /\ A[e].refcount > 0 =>
          s.accs[e].refcount > 0 /\ A[e].value = s.accs[e].value
  <2> SUFFICES ASSUME NEW e \in Epochs, e <= epoch, A[e].refcount > 0
               PROVE  s.accs[e].refcount > 0 /\ A[e].value = s.accs[e].value
    OBVIOUS
  <2>1. e # ActivationEpoch
    BY <1>1, ActivationEpochType, StakingAssumption DEF Epochs
  <2>2. A[e] = pulled.accs[e]
    BY <1>7, <2>1 DEF IncrementRefcount, Accumulators
  <2> QED
    BY <1>5, <2>2 DEF KeepsSnapshots
<1>11. SnapshotsWritten(v, s, A)
  BY <1>4, <1>10 DEF SnapshotsWritten
<1> HIDE DEF A, d
<1>12. DelegationWritten(v, caller, record, amount, s, d, pulled.unclaimed)
  BY <1>4, <1>8 DEF DelegationWritten
<1>13. executionBits' \subseteq ValIds
  BY <1>1, <1>4
<1> QED
  BY <1>7, <1>8, <1>9, <1>11, <1>12, <1>13

-----------------------------------------------------------------------------
(* The steps.  Each keeps Inv and the snapshots of epochs that have        *)
(* started.                                                                *)

SnapshotsFrozen ==
    \A v \in ValIds, e \in Epochs :
        /\ e <= epoch
        /\ accs[v][e].refcount > 0
        /\ accs'[v][e].refcount > 0
        => accs'[v][e].value = accs[v][e].value

\* What the handlers know of a delegation they have settled.
LEMMA PulledFacts ==
    ASSUME Inv, NEW v \in ValIds, NEW a \in Addrs
    PROVE  LET s == Pulled(v, a)
           IN  /\ s \in RunningSettlement /\ Solvent(s)
               /\ s.ok = TRUE => /\ s.del \in Delegator
                                 /\ s.unclaimed \in Nat
                                 /\ s.accs \in Accumulators
               /\ s.ok <=> s.ok = TRUE
               /\ KeepsSnapshots(accs[v], s.accs)
               /\ TotalStake(s.del) = TotalStake(del[v][a])
               /\ s.del.rewards + s.unclaimed = del[v][a].rewards + val[v].unclaimed
               /\ Counted(del[v][a], accs[v]) =>
                     /\ Counted(s.del, s.accs)
                     /\ \A e \in Epochs \ {0} :
                           Others(s.del, s.accs, e) = Others(del[v][a], accs[v], e)
               /\ PendingInWindow(s.del)
               /\ s.del.deltaEpoch \in {0, epoch + 1}
               /\ s.del.nextDeltaEpoch \in {0, epoch + 2}
<1> DEFINE start == Settlement(del[v][a], val[v].unclaimed, accs[v])
<1>1. /\ del[v][a] \in Delegator
      /\ val[v].unclaimed \in Nat /\ val[v].acc \in Nat
      /\ accs[v] \in Accumulators
      /\ epoch \in 0 .. MaxEpoch /\ inBoundary \in BOOLEAN
  BY DEF Inv, TypeOK, Validator, Accumulators
<1>2. /\ start \in RunningSettlement /\ Solvent(start) /\ start.ok = TRUE
      /\ start.del = del[v][a] /\ start.accs = accs[v]
  BY <1>1, SettlementType
<1>2a. start.unclaimed = val[v].unclaimed
  BY SettlementPool
<1>3. PendingInWindow(start.del)
  BY <1>2 DEF Inv, PendingWindow
<1> DEFINE s == Pulled(v, a)
<1>4. /\ Settles(start, s)
      /\ PendingInWindow(s.del)
      /\ s.del.deltaEpoch \in {0, epoch + 1}
      /\ s.del.nextDeltaEpoch \in {0, epoch + 2}
  <2> HIDE DEF start
  <2>1. s = PullDelegatorUpToDate(start, val[v].acc, epoch)
    BY DEF Pulled, start
  <2> HIDE DEF s
  <2> QED
    BY <1>1, <1>2, <1>3, <2>1, PullSettles
<1> HIDE DEF s, start
<1>5. s \in RunningSettlement /\ Solvent(s)
  BY <1>2, <1>4 DEF Settles
<1>6. s.ok = TRUE => /\ s.del \in Delegator
                     /\ s.unclaimed \in Nat
                     /\ s.accs \in Accumulators
  BY <1>5, SuccessType
<1>7. s.ok <=> s.ok = TRUE
  BY <1>5 DEF RunningSettlement
<1>8. /\ KeepsSnapshots(accs[v], s.accs)
      /\ TotalStake(s.del) = TotalStake(del[v][a])
      /\ s.del.rewards + s.unclaimed = del[v][a].rewards + val[v].unclaimed
  BY <1>2, <1>2a, <1>4 DEF Settles
<1>9. Counted(del[v][a], accs[v]) =>
          /\ Counted(s.del, s.accs)
          /\ \A e \in Epochs \ {0} :
                Others(s.del, s.accs, e) = Others(del[v][a], accs[v], e)
  BY <1>2, <1>4 DEF Settles, KeepsOthers
<1> QED
  BY <1>4, <1>5, <1>6, <1>7, <1>8, <1>9 DEF s

\* One delegation replaced by another of the right type and window.
LEMMA ReplaceDelegation ==
    ASSUME Inv, NEW v \in ValIds, NEW a \in Addrs, NEW d \in Delegator,
           PendingInWindow(d),
           del' = [del EXCEPT ![v][a] = d], UNCHANGED clock
    PROVE  del' \in [ValIds -> [Addrs -> Delegator]] /\ PendingWindow'
<1>1. del \in [ValIds -> [Addrs -> Delegator]]
  BY DEF Inv, TypeOK
<1>2. del' \in [ValIds -> [Addrs -> Delegator]]
  BY <1>1
<1>3. \A w \in ValIds, b \in Addrs : PendingInWindow(del'[w][b])
  BY <1>1 DEF Inv, PendingWindow
<1>4. PendingWindow'
  BY <1>3 DEF PendingWindow, PendingInWindow, ActivationEpoch, clock
<1> QED
  BY <1>2, <1>4

\* One validator's accumulators replaced.
LEMMA ReplaceAccumulators ==
    ASSUME Inv, NEW v \in ValIds, NEW A \in Accumulators,
           accs' = [accs EXCEPT ![v] = A],
           \A e \in Epochs : e <= epoch /\ A[e].refcount > 0 =>
               accs[v][e].refcount > 0 /\ A[e].value = accs[v][e].value
    PROVE  accs' \in [ValIds -> [Epochs -> Accumulator]] /\ SnapshotsFrozen
<1>1. accs \in [ValIds -> Accumulators]
  BY DEF Inv, TypeOK, Accumulators
<1>2. accs' \in [ValIds -> Accumulators]
  BY <1>1
<1>3. SnapshotsFrozen
  BY <1>1 DEF SnapshotsFrozen
<1> QED
  BY <1>2, <1>3 DEF Accumulators

\* The part of a step that internal_delegate writes.
LEMMA DelegateStep ==
    ASSUME Inv,
           NEW v \in ValIds, NEW caller \in Addrs, NEW record \in Validator,
           NEW amount \in Nat \ {0}, NEW s \in RunningSettlement,
           Solvent(s), s.ok = TRUE, PendingInWindow(s.del),
           KeepsSnapshots(accs[v], s.accs),
           InternalDelegate(v, record, caller, amount, s),
           UNCHANGED clock
    PROVE  /\ val' \in [ValIds -> Validator]
           /\ del' \in [ValIds -> [Addrs -> Delegator]]
           /\ accs' \in [ValIds -> [Epochs -> Accumulator]]
           /\ executionBits' \subseteq ValIds
           /\ PendingWindow'
           /\ SnapshotsFrozen
<1>1. PICK d \in Delegator, unclaimed \in Nat :
          DelegationWritten(v, caller, record, amount, s, d, unclaimed)
  BY InternalDelegateFacts
<1>2. del' = [del EXCEPT ![v][caller] = d] /\ PendingInWindow(d)
  BY <1>1 DEF DelegationWritten
<1>3. val' \in [ValIds -> Validator]
  <2> DEFINE sum == record.stake + amount
             staked == [record EXCEPT !.stake = sum, !.unclaimed = unclaimed]
             flags == FlagsAfterDelegate(staked, d, caller)
             new == [staked EXCEPT !.flags = flags]
  <2>1. sum \in Nat
    BY DEF Validator
  <2>2. val' = [val EXCEPT ![v] = new]
    BY <1>1 DEF DelegationWritten
  <2> HIDE DEF sum
  <2>3. staked \in Validator
    BY <2>1 DEF Validator
  <2> HIDE DEF staked
  <2>4. flags \in SUBSET Flags
    BY <2>3, FlagsType
  <2> HIDE DEF flags
  <2>5. new \in Validator
    BY <2>3, <2>4 DEF Validator
  <2> HIDE DEF new
  <2> QED
    BY <2>2, <2>5 DEF Inv, TypeOK
<1>4. PICK A \in Accumulators : SnapshotsWritten(v, s, A)
  BY InternalDelegateFacts
<1>5. executionBits' \subseteq ValIds
  BY InternalDelegateFacts
<1>6. \A e \in Epochs : e <= epoch /\ A[e].refcount > 0 =>
          accs[v][e].refcount > 0 /\ A[e].value = accs[v][e].value
  BY <1>4 DEF KeepsSnapshots, SnapshotsWritten
<1>7. accs' \in [ValIds -> [Epochs -> Accumulator]] /\ SnapshotsFrozen
  BY <1>4, <1>6, ReplaceAccumulators DEF SnapshotsWritten
<1>8. del' \in [ValIds -> [Addrs -> Delegator]] /\ PendingWindow'
  BY <1>2, ReplaceDelegation
<1> QED
  BY <1>3, <1>5, <1>7, <1>8

\* Value paid in or out moves between an account and the precompile.
LEMMA PayType ==
    ASSUME Inv, NEW caller \in Addrs, NEW value \in Nat,
           Pay(caller, value) \/ PayOut(caller, value)
    PROVE  wallet' \in [Addrs -> Nat] /\ balance' \in Nat
<1>1. wallet \in [Addrs -> Nat] /\ balance \in Nat
  BY DEF Inv, TypeOK
<1>2. wallet[caller] \in Nat
  BY <1>1
<1> QED
  BY <1>1, <1>2 DEF Pay, PayOut

\* addValidator: a validator with its auth address's first delegation.
LEMMA AddValidatorStep ==
    ASSUME Inv, NEW caller \in Addrs, NEW auth \in Addrs, NEW bls \in BlsKeys,
           NEW commission \in Commissions, NEW value \in DelegateAmounts,
           HandleAddValidator(caller, auth, bls, commission, value)
    PROVE  Inv' /\ SnapshotsFrozen
<1> DEFINE v == lastValId + 1
           record == [NoValidator EXCEPT !.commission = commission,
                                         !.auth = auth,
                                         !.flags = {"STAKE_TOO_LOW"}]
           s == Settlement(del[v][auth], 0, accs[v])
<1>1. /\ v \in ValIds
      /\ value >= MIN_AUTH_ADDRESS_STAKE
      /\ lastValId' = v
      /\ valIdSecp' = [valIdSecp EXCEPT ![auth] = v]
      /\ valIdBls' = [valIdBls EXCEPT ![bls] = v]
      /\ Pay(caller, value)
      /\ InternalDelegate(v, record, auth, value, s)
      /\ UNCHANGED <<rewarded, clock, proposerValId, withdrawals, epochSets>>
  BY Zenon DEF HandleAddValidator
<1>2. value \in Nat \ {0} /\ value \in Nat /\ commission \in Nat
  BY <1>1, StakingAssumption, StakingConstantsAssumption
<1>3. v \in 0 .. MaxValidators
  BY <1>1, StakingAssumption DEF ValIds
<1> HIDE DEF v
<1>4. record \in Validator
  BY <1>2 DEF NoValidator, Validator, Flags
<1>5. del[v][auth] \in Delegator /\ accs[v] \in Accumulators /\ PendingInWindow(del[v][auth])
  BY <1>1 DEF Inv, TypeOK, PendingWindow, Accumulators
<1>6. /\ s \in RunningSettlement /\ Solvent(s) /\ s.ok = TRUE
      /\ s.del = del[v][auth] /\ s.accs = accs[v]
  BY <1>5, 0 \in Nat, SettlementType
<1>7. KeepsSnapshots(accs[v], s.accs) /\ PendingInWindow(s.del)
  BY <1>5, <1>6 DEF KeepsSnapshots
<1>8. wallet' \in [Addrs -> Nat] /\ balance' \in Nat
  BY <1>1, <1>2, PayType
<1> HIDE DEF record, s
<1>9. UNCHANGED clock
  BY <1>1
<1>10. /\ val' \in [ValIds -> Validator]
       /\ del' \in [ValIds -> [Addrs -> Delegator]]
       /\ accs' \in [ValIds -> [Epochs -> Accumulator]]
       /\ executionBits' \subseteq ValIds
       /\ PendingWindow'
       /\ SnapshotsFrozen
  BY <1>1, <1>2, <1>4, <1>6, <1>7, <1>9, DelegateStep
<1>11. TypeOK'
  BY <1>1, <1>8, <1>3, <1>10 DEF Inv, TypeOK, clock, epochSets
<1> QED
  BY <1>10, <1>11 DEF Inv

\* delegate: settle the delegation, then add the value to it.
LEMMA DelegateCallStep ==
    ASSUME Inv, NEW v \in ValIds, NEW caller \in Addrs,
           NEW value \in DelegateAmounts, HandleDelegate(v, caller, value)
    PROVE  Inv' /\ SnapshotsFrozen
<1> DEFINE s == Settlement(del[v][caller], val[v].unclaimed, accs[v])
<1>1. /\ value >= DUST_THRESHOLD
      /\ Pay(caller, value)
      /\ InternalDelegate(v, val[v], caller, value, s)
      /\ UNCHANGED <<rewarded, clock, proposerValId, registry, withdrawals, epochSets>>
  BY Zenon DEF HandleDelegate
<1>2. value \in Nat \ {0} /\ value \in Nat
  <2>1. value \in Nat
    BY Zenon, StakingAssumption
  <2>2. DUST_THRESHOLD \in Nat \ {0}
    BY Zenon, StakingConstantsAssumption
  <2>3. value >= DUST_THRESHOLD
    BY <1>1
  <2> QED
    BY ONLY <2>1, <2>2, <2>3
<1>3. val[v] \in Validator /\ val[v].unclaimed \in Nat
  BY DEF Inv, TypeOK, Validator
<1>4. del[v][caller] \in Delegator /\ accs[v] \in Accumulators /\ PendingInWindow(del[v][caller])
  BY DEF Inv, TypeOK, PendingWindow, Accumulators
<1>5. /\ s \in RunningSettlement /\ Solvent(s) /\ s.ok = TRUE
      /\ s.del = del[v][caller] /\ s.accs = accs[v]
  BY <1>3, <1>4, SettlementType
<1>6. KeepsSnapshots(accs[v], s.accs) /\ PendingInWindow(s.del)
  BY <1>4, <1>5 DEF KeepsSnapshots
<1>7. wallet' \in [Addrs -> Nat] /\ balance' \in Nat
  BY <1>1, <1>2, PayType
<1> HIDE DEF s
<1>8. UNCHANGED clock
  BY <1>1
<1>9. /\ val' \in [ValIds -> Validator]
      /\ del' \in [ValIds -> [Addrs -> Delegator]]
      /\ accs' \in [ValIds -> [Epochs -> Accumulator]]
      /\ executionBits' \subseteq ValIds
      /\ PendingWindow'
      /\ SnapshotsFrozen
  BY <1>1, <1>2, <1>3, <1>5, <1>6, <1>8, DelegateStep
<1>10. TypeOK'
  BY <1>1, <1>7, <1>9 DEF Inv, TypeOK, clock, registry, epochSets
<1> QED
  BY <1>9, <1>10 DEF Inv

\* compound: settle the delegation, then stake the rewards it has.
LEMMA CompoundStep ==
    ASSUME Inv, NEW v \in ValIds, NEW caller \in Addrs, HandleCompound(v, caller)
    PROVE  Inv' /\ SnapshotsFrozen
<1> DEFINE s == Pulled(v, caller)
           cleared == [s EXCEPT !.del.rewards = 0]
<1>1. /\ s.ok
      /\ s.del.rewards # 0
      /\ InternalDelegate(v, val[v], caller, s.del.rewards, cleared)
      /\ UNCHANGED <<rewarded, clock, proposerValId, registry, withdrawals, epochSets, money>>
  BY Zenon DEF HandleCompound
<1>2. /\ s \in RunningSettlement /\ Solvent(s) /\ s.ok = TRUE
      /\ s.del \in Delegator
      /\ KeepsSnapshots(accs[v], s.accs)
      /\ PendingInWindow(s.del)
  BY <1>1, PulledFacts
<1> HIDE DEF s
<1>3. s.del.rewards \in Nat \ {0}
  BY <1>1, <1>2 DEF Delegator
<1>4. /\ cleared \in RunningSettlement
      /\ cleared.ok = s.ok
      /\ cleared.unclaimed = s.unclaimed
      /\ cleared.accs = s.accs
      /\ cleared.del.rewards = 0
      /\ cleared.del.deltaStake = s.del.deltaStake
      /\ cleared.del.nextDeltaStake = s.del.nextDeltaStake
      /\ cleared.del.deltaEpoch = s.del.deltaEpoch
      /\ cleared.del.nextDeltaEpoch = s.del.nextDeltaEpoch
  BY <1>2 DEF RunningSettlement, RunningDelegator
<1> HIDE DEF cleared
<1>5. Solvent(cleared) /\ cleared.ok = TRUE
  BY <1>2, <1>4 DEF Solvent
<1>6. PendingInWindow(cleared.del) /\ KeepsSnapshots(accs[v], cleared.accs)
  BY <1>2, <1>4 DEF PendingInWindow
<1>7. val[v] \in Validator
  BY DEF Inv, TypeOK
<1>8. UNCHANGED clock
  BY <1>1
<1>9. /\ val' \in [ValIds -> Validator]
      /\ del' \in [ValIds -> [Addrs -> Delegator]]
      /\ accs' \in [ValIds -> [Epochs -> Accumulator]]
      /\ executionBits' \subseteq ValIds
      /\ PendingWindow'
      /\ SnapshotsFrozen
  BY <1>1, <1>3, <1>4, <1>5, <1>6, <1>7, <1>8, DelegateStep
<1>10. TypeOK'
  BY <1>1, <1>9 DEF Inv, TypeOK, clock, registry, epochSets, money
<1> QED
  BY <1>9, <1>10 DEF Inv

\* One validator's record replaced.
LEMMA ReplaceValidator ==
    ASSUME Inv, NEW v \in ValIds, NEW record \in Validator,
           val' = [val EXCEPT ![v] = record]
    PROVE  val' \in [ValIds -> Validator]
BY DEF Inv, TypeOK

\* A new reference is filed under an epoch that has not started.
LEMMA IncrementKeepsSnapshots ==
    ASSUME Inv, NEW A \in Accumulators, NEW value \in Nat
    PROVE  LET B == IncrementRefcount(A, ActivationEpoch, value)
           IN  /\ B \in Accumulators
               /\ \A e \in Epochs : e <= epoch => B[e] = A[e]
<1>1. epoch \in 0 .. MaxEpoch /\ inBoundary \in BOOLEAN /\ MaxEpoch \in Nat
  BY StakingAssumption DEF Inv, TypeOK
<1>2. ActivationEpoch \in Epochs /\ ActivationEpoch > epoch
  BY <1>1, ActivationEpochType
<1>3. IncrementRefcount(A, ActivationEpoch, value) \in Accumulators
  BY <1>2, IncrementRefcountType
<1>4. \A e \in Epochs : e <= epoch => e # ActivationEpoch
  BY <1>1, <1>2 DEF Epochs
<1> QED
  BY <1>3, <1>4 DEF IncrementRefcount, Accumulators

\* undelegate: settle, take stake out and file a withdrawal for it.
LEMMA UndelegateStep ==
    ASSUME Inv, NEW v \in ValIds, NEW caller \in Addrs,
           NEW asked \in UndelegateAmounts, NEW wid \in WithdrawIds,
           HandleUndelegate(v, caller, asked, wid)
    PROVE  Inv' /\ SnapshotsFrozen
<1> DEFINE s         == Pulled(v, caller)
           remaining == s.del.stake - asked
           amount    == IF remaining < DUST_THRESHOLD THEN s.del.stake ELSE asked
           left      == s.del.stake - amount
           acc       == IF s.del.stake = amount THEN 0 ELSE s.del.acc
           d         == [s.del EXCEPT !.stake = left, !.acc = acc]
           stake     == val[v].stake - amount
           staked    == [val[v] EXCEPT !.stake = stake, !.unclaimed = s.unclaimed]
           flags     == FlagsAfterUndelegate(staked, d, caller)
           A         == IncrementRefcount(s.accs, ActivationEpoch, val[v].acc)
           r         == UndelegateRequest(s.del, d, amount)
<1>1. /\ s.ok
      /\ asked <= s.del.stake
      /\ amount <= val[v].stake
      /\ del' = [del EXCEPT ![v][caller] = d]
      /\ val' = [val EXCEPT ![v] = [staked EXCEPT !.flags = flags]]
      /\ withdrawals' = [withdrawals EXCEPT ![v][caller][wid] = r]
      /\ accs' = [accs EXCEPT ![v] = A]
      /\ UNCHANGED <<rewarded, clock, proposerValId, registry, executionSet, epochSets, money>>
  BY DEF HandleUndelegate
<1>2. /\ s.del \in Delegator /\ s.unclaimed \in Nat /\ s.accs \in Accumulators
      /\ KeepsSnapshots(accs[v], s.accs)
      /\ PendingInWindow(s.del)
  BY <1>1, PulledFacts
<1>3. /\ val[v] \in Validator /\ val[v].stake \in Nat /\ val[v].acc \in Nat
      /\ epoch \in 0 .. MaxEpoch /\ inBoundary \in BOOLEAN
  BY DEF Inv, TypeOK, Validator
<1>4. asked \in Nat /\ s.del.stake \in Nat /\ s.del.acc \in Nat
  BY <1>2, StakingAssumption DEF Delegator
<1> HIDE DEF s
<1>5. amount \in Nat /\ amount <= s.del.stake
  BY <1>1, <1>4
<1> HIDE DEF amount, remaining
<1>6. left \in Nat /\ acc \in Nat /\ stake \in Nat
  BY <1>1, <1>3, <1>4, <1>5
<1> HIDE DEF left, acc, stake
<1>7. /\ d \in Delegator
      /\ PendingInWindow(d)
  BY <1>2, <1>6 DEF Delegator, PendingInWindow
<1> HIDE DEF d
<1>8. staked \in Validator
  BY <1>2, <1>3, <1>6 DEF Validator
<1> HIDE DEF staked
<1>9. flags \in SUBSET Flags
  BY <1>8, FlagsType
<1> HIDE DEF flags
<1>10. [staked EXCEPT !.flags = flags] \in Validator
  BY <1>8, <1>9 DEF Validator
<1>11. val' \in [ValIds -> Validator]
  BY <1>1, <1>10, ReplaceValidator
<1>12. r \in WithdrawalRequest
  BY <1>3, <1>4, <1>5, ActivationEpochType DEF UndelegateRequest, WithdrawalRequest, Epochs
<1> HIDE DEF r
<1>13. withdrawals' \in [ValIds -> [Addrs -> [WithdrawIds -> WithdrawalRequest]]]
  BY <1>1, <1>12 DEF Inv, TypeOK
<1>14. A \in Accumulators /\ \A e \in Epochs : e <= epoch => A[e] = s.accs[e]
  BY <1>2, <1>3, IncrementKeepsSnapshots
<1> HIDE DEF A
<1>15. accs' \in [ValIds -> [Epochs -> Accumulator]] /\ SnapshotsFrozen
  <2>1. \A e \in Epochs : e <= epoch /\ A[e].refcount > 0 =>
            accs[v][e].refcount > 0 /\ A[e].value = accs[v][e].value
    BY <1>2, <1>14 DEF KeepsSnapshots
  <2> QED
    BY <1>1, <1>14, <2>1, ReplaceAccumulators
<1>16. UNCHANGED clock
  BY <1>1
<1>17. del' \in [ValIds -> [Addrs -> Delegator]] /\ PendingWindow'
  BY <1>1, <1>7, <1>16, ReplaceDelegation
<1>18. TypeOK'
  BY <1>1, <1>11, <1>13, <1>15, <1>17
     DEF Inv, TypeOK, clock, registry, executionSet, epochSets, money
<1> QED
  BY <1>15, <1>17, <1>18 DEF Inv

\* withdraw: give up the reference of the request and pay it out.
LEMMA WithdrawStep ==
    ASSUME Inv, NEW v \in ValIds, NEW caller \in Addrs, NEW wid \in WithdrawIds,
           HandleWithdraw(v, caller, wid)
    PROVE  Inv' /\ SnapshotsFrozen
<1> DEFINE r == withdrawals[v][caller][wid]
           rewards == WithdrawalRewards(v, r)
           A == DecrementRefcount(accs[v], r.epoch)
           unclaimed == val[v].unclaimed - rewards
           record == [val[v] EXCEPT !.unclaimed = unclaimed]
<1>1. /\ WithdrawalReady(r)
      /\ r.acc <= SnapshotValue(accs[v], r.epoch)
      /\ rewards <= val[v].unclaimed
      /\ accs' = [accs EXCEPT ![v] = A]
      /\ val' = [val EXCEPT ![v].unclaimed = @ - rewards]
      /\ PayOut(caller, r.amount + rewards)
      /\ withdrawals' = [withdrawals EXCEPT ![v][caller][wid] = NoWithdrawal]
      /\ UNCHANGED <<rewarded, clock, proposerValId, registry, del, executionSet,
                     epochSets, lists>>
  BY DEF HandleWithdraw
<1>2. /\ r \in WithdrawalRequest
      /\ accs[v] \in Accumulators
      /\ val[v] \in Validator /\ val[v].unclaimed \in Nat
      /\ epoch \in 0 .. MaxEpoch
  BY DEF Inv, TypeOK, Validator, Accumulators
<1> HIDE DEF r
<1>3. r.amount \in Nat /\ r.acc \in Nat /\ r.epoch \in Nat
  BY <1>2 DEF WithdrawalRequest
<1>4. r.epoch \in Epochs
  BY <1>1, <1>2, <1>3, StakingAssumption DEF WithdrawalReady, IsEpochActive, Epochs
<1>5. SnapshotValue(accs[v], r.epoch) \in Nat
  BY <1>2, <1>4, SnapshotValueType
<1>6. rewards \in Nat
  BY <1>1, <1>3, <1>5, CalculateRewardsType DEF WithdrawalRewards
<1> HIDE DEF rewards
<1>7. unclaimed \in Nat
  BY <1>1, <1>2, <1>6
<1>8. record \in Validator /\ val' = [val EXCEPT ![v] = record]
  <2> HIDE DEF unclaimed
  <2>1. record \in Validator
    BY <1>2, <1>7 DEF Validator
  <2>2. val' = [val EXCEPT ![v] = record]
    BY <1>1 DEF unclaimed
  <2> QED
    BY <2>1, <2>2
<1>9. val' \in [ValIds -> Validator]
  <2> HIDE DEF record
  <2> QED
    BY <1>8, ReplaceValidator
<1>10. r.amount + rewards \in Nat
  BY <1>3, <1>6
<1>11. wallet' \in [Addrs -> Nat] /\ balance' \in Nat
  BY <1>1, <1>10, PayType
<1>12. withdrawals' \in [ValIds -> [Addrs -> [WithdrawIds -> WithdrawalRequest]]]
  BY <1>1 DEF Inv, TypeOK, NoWithdrawal, WithdrawalRequest
<1>13. A \in Accumulators /\ KeepsSnapshots(accs[v], A)
  BY <1>2, <1>4, DecrementRefcountType, DecrementKeepsSnapshots
<1> HIDE DEF A
<1>14. accs' \in [ValIds -> [Epochs -> Accumulator]] /\ SnapshotsFrozen
  BY <1>1, <1>13, ReplaceAccumulators DEF KeepsSnapshots
<1>15. PendingWindow'
  BY <1>1 DEF Inv, PendingWindow, PendingInWindow, ActivationEpoch, clock
<1>16. TypeOK'
  BY <1>1, <1>9, <1>11, <1>12, <1>14
     DEF Inv, TypeOK, clock, registry, executionSet, epochSets
<1> QED
  BY <1>14, <1>15, <1>16 DEF Inv

\* Writing back a settled delegation.
LEMMA StoreStep ==
    ASSUME Inv, NEW v \in ValIds, NEW a \in Addrs, NEW d \in Delegator,
           Pulled(v, a).ok, PendingInWindow(d),
           Store(v, a, Pulled(v, a), d), UNCHANGED clock
    PROVE  /\ val' \in [ValIds -> Validator]
           /\ del' \in [ValIds -> [Addrs -> Delegator]]
           /\ accs' \in [ValIds -> [Epochs -> Accumulator]]
           /\ PendingWindow'
           /\ SnapshotsFrozen
<1> DEFINE s == Pulled(v, a)
           record == [val[v] EXCEPT !.unclaimed = s.unclaimed]
<1>1. /\ del' = [del EXCEPT ![v][a] = d]
      /\ val' = [val EXCEPT ![v].unclaimed = s.unclaimed]
      /\ accs' = [accs EXCEPT ![v] = s.accs]
  BY DEF Store
<1>2. /\ s.unclaimed \in Nat /\ s.accs \in Accumulators
      /\ KeepsSnapshots(accs[v], s.accs)
  BY PulledFacts
<1>3. val[v] \in Validator
  BY DEF Inv, TypeOK
<1> HIDE DEF s
<1>4. record \in Validator /\ val' = [val EXCEPT ![v] = record]
  BY <1>1, <1>2, <1>3 DEF Validator
<1> HIDE DEF record
<1>5. val' \in [ValIds -> Validator]
  BY <1>4, ReplaceValidator
<1>6. del' \in [ValIds -> [Addrs -> Delegator]] /\ PendingWindow'
  BY <1>1, ReplaceDelegation
<1>7. accs' \in [ValIds -> [Epochs -> Accumulator]] /\ SnapshotsFrozen
  BY <1>1, <1>2, ReplaceAccumulators DEF KeepsSnapshots
<1> QED
  BY <1>5, <1>6, <1>7

\* claimRewards: settle the delegation and pay its rewards out.
LEMMA ClaimRewardsStep ==
    ASSUME Inv, NEW v \in ValIds, NEW caller \in Addrs, HandleClaimRewards(v, caller)
    PROVE  Inv' /\ SnapshotsFrozen
<1> DEFINE s == Pulled(v, caller)
           d == [s.del EXCEPT !.rewards = 0]
<1>1. /\ s.ok
      /\ PayOut(caller, s.del.rewards)
      /\ Store(v, caller, s, d)
      /\ UNCHANGED <<rewarded, clock, proposerValId, registry, executionSet, epochSets, lists>>
  BY DEF HandleClaimRewards
<1>2. s.del \in Delegator /\ PendingInWindow(s.del)
  BY <1>1, PulledFacts
<1>3. wallet' \in [Addrs -> Nat] /\ balance' \in Nat
  BY <1>1, <1>2, PayType DEF Delegator
<1>4. d \in Delegator /\ PendingInWindow(d)
  BY <1>2 DEF Delegator, PendingInWindow
<1>5. UNCHANGED clock /\ UNCHANGED withdrawals
  BY <1>1 DEF Store
<1>6. /\ val' \in [ValIds -> Validator]
      /\ del' \in [ValIds -> [Addrs -> Delegator]]
      /\ accs' \in [ValIds -> [Epochs -> Accumulator]]
      /\ PendingWindow'
      /\ SnapshotsFrozen
  BY <1>1, <1>4, <1>5, StoreStep
<1>7. TypeOK'
  BY <1>1, <1>3, <1>5, <1>6 DEF Inv, TypeOK, clock, registry, executionSet, epochSets
<1> QED
  BY <1>6, <1>7 DEF Inv

\* getDelegator: settle the delegation and write it back.
LEMMA GetDelegatorStep ==
    ASSUME Inv, NEW v \in ValIds, NEW a \in Addrs, HandleGetDelegator(v, a)
    PROVE  Inv' /\ SnapshotsFrozen
<1> DEFINE s == Pulled(v, a)
<1>1. /\ s.ok
      /\ Store(v, a, s, s.del)
      /\ UNCHANGED <<rewarded, clock, proposerValId, registry, executionSet, epochSets,
                     lists, money>>
  BY DEF HandleGetDelegator
<1>2. s.del \in Delegator /\ PendingInWindow(s.del)
  BY <1>1, PulledFacts
<1>3. UNCHANGED clock /\ UNCHANGED withdrawals
  BY <1>1 DEF Store
<1>4. /\ val' \in [ValIds -> Validator]
      /\ del' \in [ValIds -> [Addrs -> Delegator]]
      /\ accs' \in [ValIds -> [Epochs -> Accumulator]]
      /\ PendingWindow'
      /\ SnapshotsFrozen
  BY <1>1, <1>2, <1>3, StoreStep
<1>5. TypeOK'
  BY <1>1, <1>3, <1>4 DEF Inv, TypeOK, clock, registry, executionSet, epochSets, money
<1> QED
  BY <1>4, <1>5 DEF Inv

\* Steps that leave the delegations' tracks, the clock and the accumulators.
LEMMA UntouchedWindow ==
    ASSUME Inv, UNCHANGED <<clock, accs>>,
           \A v \in ValIds, a \in Addrs :
              /\ del'[v][a].deltaStake = del[v][a].deltaStake
              /\ del'[v][a].nextDeltaStake = del[v][a].nextDeltaStake
              /\ del'[v][a].deltaEpoch = del[v][a].deltaEpoch
              /\ del'[v][a].nextDeltaEpoch = del[v][a].nextDeltaEpoch
    PROVE  PendingWindow' /\ SnapshotsFrozen
BY DEF Inv, PendingWindow, PendingInWindow, ActivationEpoch, clock, SnapshotsFrozen

\* changeCommission: only the rate of the record changes.
LEMMA ChangeCommissionStep ==
    ASSUME Inv, NEW v \in ValIds, NEW caller \in Addrs, NEW commission \in Commissions,
           HandleChangeCommission(v, caller, commission)
    PROVE  Inv' /\ SnapshotsFrozen
<1>1. /\ val' = [val EXCEPT ![v].commission = commission]
      /\ UNCHANGED <<rewarded, clock, proposerValId, registry, del, withdrawals, accs,
                     executionSet, epochSets, lists, money>>
  BY DEF HandleChangeCommission
<1>2. commission \in Nat
  BY StakingAssumption
<1>3. val' \in [ValIds -> Validator]
  BY <1>1, <1>2 DEF Inv, TypeOK, Validator
<1>4. PendingWindow' /\ SnapshotsFrozen
  BY <1>1, UntouchedWindow
<1>5. TypeOK'
  BY <1>1, <1>3 DEF Inv, TypeOK, clock, registry, executionSet, epochSets, money
<1> QED
  BY <1>4, <1>5 DEF Inv

\* What a reward adds to an accumulator is a natural number.
LEMMA PerTokenType ==
    ASSUME NEW reward \in Nat, NEW stake \in Nat, stake # 0
    PROVE  PerToken(reward, stake) \in Nat
<1>1. UNIT_BIAS \in Nat
  BY StakingConstantsAssumption
<1>2. \A x, y \in Nat : x * y \in Nat
  OBVIOUS
<1>3. reward * UNIT_BIAS \in Nat
  BY <1>1, <1>2
<1>4. \A n \in Nat : n \div stake \in Nat
  OBVIOUS
<1> QED
  BY <1>3, <1>4 DEF PerToken

\* externalReward: a validator's accumulator grows by a payment.
LEMMA ExternalRewardStep ==
    ASSUME Inv, NEW v \in ValIds, NEW caller \in Addrs, NEW value \in ExternalRewards,
           HandleExternalReward(v, caller, value)
    PROVE  Inv' /\ SnapshotsFrozen
<1> DEFINE stake == CurrentView(v).stake
           new == val[v].acc + PerToken(value, stake)
           pool == val[v].unclaimed + value
           record == [val[v] EXCEPT !.acc = new, !.unclaimed = pool]
<1>1. /\ stake # 0
      /\ Pay(caller, value)
      /\ rewarded' = rewarded + value
      /\ val' = [val EXCEPT ![v].acc = @ + PerToken(value, stake),
                            ![v].unclaimed = @ + value]
      /\ UNCHANGED <<clock, proposerValId, registry, del, withdrawals, accs,
                     executionSet, epochSets, lists>>
  BY DEF HandleExternalReward
<1>2. value \in Nat
  BY StakingAssumption
<1>3. /\ val \in [ValIds -> Validator] /\ val[v] \in Validator
      /\ val[v].acc \in Nat /\ val[v].unclaimed \in Nat
      /\ stake \in Nat /\ rewarded \in Nat
  BY DEF Inv, TypeOK, Validator, View, CurrentView
<1> HIDE DEF stake
<1>4. new \in Nat /\ pool \in Nat
  BY <1>1, <1>2, <1>3, PerTokenType
<1>5. val' = [val EXCEPT ![v] = record]
  BY <1>1, <1>3 DEF Validator
<1> HIDE DEF new, pool
<1>6. record \in Validator
  BY <1>3, <1>4 DEF Validator
<1> HIDE DEF record
<1>7. val' \in [ValIds -> Validator]
  BY <1>5, <1>6, ReplaceValidator
<1>8. wallet' \in [Addrs -> Nat] /\ balance' \in Nat /\ rewarded' \in Nat
  BY <1>1, <1>2, <1>3, PayType
<1>9. PendingWindow' /\ SnapshotsFrozen
  BY <1>1, UntouchedWindow
<1>10. TypeOK'
  BY <1>1, <1>7, <1>8 DEF Inv, TypeOK, clock, registry, executionSet, epochSets
<1> QED
  BY <1>9, <1>10 DEF Inv

\* syscallReward: the block author's commission and its pool's share.
LEMMA SyscallRewardStep ==
    ASSUME Inv, NEW author \in Addrs, NEW reward \in BlockRewards,
           HandleSyscallReward(author, reward)
    PROVE  Inv' /\ SnapshotsFrozen
<1> DEFINE v == valIdSecp[author]
           view == CurrentView(v)
           commission == (reward * view.commission) \div MON
           shared == reward - commission
           auth == val[v].auth
           new == val[v].acc + PerToken(shared, view.stake)
           pool == val[v].unclaimed + shared
           record == [val[v] EXCEPT !.acc = new, !.unclaimed = pool]
           credited == del[v][auth].rewards + commission
           d == [del[v][auth] EXCEPT !.rewards = credited]
<1>1. /\ v # NO_VALIDATOR
      /\ view.stake # 0
      /\ commission <= reward
      /\ del' = [del EXCEPT ![v][auth].rewards = @ + commission]
      /\ val' = [val EXCEPT ![v].unclaimed = @ + shared,
                            ![v].acc = @ + PerToken(shared, view.stake)]
      /\ proposerValId' = v
      /\ rewarded' = rewarded + reward
      /\ balance' = balance + reward
      /\ UNCHANGED <<clock, registry, withdrawals, accs, executionSet, epochSets,
                     lists, wallet>>
  BY DEF HandleSyscallReward, DistributeReward
<1>2. v \in ValIds /\ v \in 0 .. MaxValidators
  BY <1>1, StakingAssumption DEF Inv, TypeOK, NO_VALIDATOR, ValIds
<1> HIDE DEF v
<1>3. /\ val \in [ValIds -> Validator] /\ val[v] \in Validator
      /\ val[v].acc \in Nat /\ val[v].unclaimed \in Nat
      /\ del \in [ValIds -> [Addrs -> Delegator]]
      /\ view.stake \in Nat /\ view.commission \in Nat
      /\ balance \in Nat /\ rewarded \in Nat
  BY <1>2 DEF Inv, TypeOK, Validator, View, CurrentView
<1> HIDE DEF view
<1>4. reward \in Nat /\ MON \in Nat \ {0}
  BY StakingAssumption, StakingConstantsAssumption
<1>5. commission \in Nat
  <2>1. \A x, y \in Nat : x * y \in Nat
    OBVIOUS
  <2>2. reward * view.commission \in Nat
    BY <1>3, <1>4, <2>1
  <2>3. \A n \in Nat : n \div MON \in Nat
    BY <1>4
  <2> QED
    BY <2>2, <2>3
<1> HIDE DEF commission
<1>6. shared \in Nat
  BY <1>1, <1>4, <1>5
<1> HIDE DEF shared
<1>7. new \in Nat /\ pool \in Nat
  BY <1>1, <1>3, <1>6, PerTokenType
<1>8. val' = [val EXCEPT ![v] = record]
  BY <1>1, <1>2, <1>3 DEF Validator
<1> HIDE DEF new, pool
<1>9. record \in Validator
  BY <1>3, <1>7 DEF Validator
<1> HIDE DEF record
<1>10. val' \in [ValIds -> Validator]
  BY <1>2, <1>8, <1>9, ReplaceValidator
<1>11. /\ del' \in [ValIds -> [Addrs -> Delegator]]
       /\ \A w \in ValIds, b \in Addrs :
              /\ del'[w][b].deltaStake = del[w][b].deltaStake
              /\ del'[w][b].nextDeltaStake = del[w][b].nextDeltaStake
              /\ del'[w][b].deltaEpoch = del[w][b].deltaEpoch
              /\ del'[w][b].nextDeltaEpoch = del[w][b].nextDeltaEpoch
  <2>1. CASE auth \in Addrs
    <3>1. del[v][auth] \in Delegator /\ del[v][auth].rewards \in Nat
      BY <1>2, <1>3, <2>1 DEF Delegator
    <3>2. credited \in Nat
      BY <1>5, <3>1
    <3>3. del' = [del EXCEPT ![v][auth] = d]
      BY <1>1
    <3> HIDE DEF credited
    <3>4. /\ d \in Delegator
          /\ d.deltaStake = del[v][auth].deltaStake
          /\ d.nextDeltaStake = del[v][auth].nextDeltaStake
          /\ d.deltaEpoch = del[v][auth].deltaEpoch
          /\ d.nextDeltaEpoch = del[v][auth].nextDeltaEpoch
      BY <3>1, <3>2 DEF Delegator
    <3> HIDE DEF d
    <3> QED
      BY <1>2, <1>3, <2>1, <3>3, <3>4
  <2>2. CASE auth \notin Addrs
    <3>1. del' = del
      BY <1>1, <1>2, <1>3, <2>2
    <3> QED
      BY <1>3, <3>1
  <2> QED
    BY <2>1, <2>2
<1>12. rewarded' \in Nat /\ balance' \in Nat
  BY <1>1, <1>3, <1>4
<1>13. UNCHANGED <<clock, accs>>
  BY <1>1
<1>14. PendingWindow' /\ SnapshotsFrozen
  BY <1>11, <1>13, UntouchedWindow
<1>15. TypeOK'
  BY <1>1, <1>2, <1>10, <1>11, <1>12
     DEF Inv, TypeOK, clock, registry, executionSet, epochSets
<1> QED
  BY <1>14, <1>15 DEF Inv

\* syscallSnapshot: the epoch boundary opens; no delegation moves.
LEMMA SyscallSnapshotStep ==
    ASSUME Inv, HandleSyscallSnapshot
    PROVE  Inv' /\ SnapshotsFrozen
<1> DEFINE chosen == TopByStake(Eligible, [v \in ValIds |-> val[v].stake],
                                ACTIVE_VALSET_SIZE)
<1>1. /\ inBoundary' = TRUE
      /\ snapshotView' = Rebuilt(snapshot, snapshotView, consensus, consensusView)
      /\ consensusView' = Rebuilt(consensus, consensusView, chosen, ExecutionView)
      /\ executionBits' = executionBits \ (Members(execution) \ Eligible)
      /\ UNCHANGED <<rewarded, epoch, proposerValId, registry, ledger, lists, money>>
  BY DEF HandleSyscallSnapshot
<1> HIDE DEF chosen
<1>2. /\ consensusView \in [ValIds -> View] /\ snapshotView \in [ValIds -> View]
      /\ executionBits \subseteq ValIds
      /\ epoch \in Nat
  BY StakingAssumption DEF Inv, TypeOK
<1>3. ExecutionView \in [ValIds -> View] /\ NoView \in View
  BY DEF Inv, TypeOK, ExecutionView, Validator, View, NoView
<1>4. \A old, oldView, set, view :
          oldView \in [ValIds -> View] /\ view \in [ValIds -> View]
              => Rebuilt(old, oldView, set, view) \in [ValIds -> View]
  BY <1>3 DEF Rebuilt
<1>5. snapshotView' \in [ValIds -> View] /\ consensusView' \in [ValIds -> View]
  BY <1>1, <1>2, <1>3, <1>4
<1>6. executionBits' \subseteq ValIds
  BY <1>1, <1>2
\* Opening the boundary only moves the second activation epoch further.
<1>7. ActivationEpoch \in Nat /\ ActivationEpoch' = epoch + 2 /\ ActivationEpoch <= epoch + 2
  BY <1>1, <1>2 DEF ActivationEpoch
<1>8. PendingWindow'
  <2> SUFFICES ASSUME NEW v \in ValIds, NEW a \in Addrs
               PROVE  PendingInWindow(del[v][a])'
    BY DEF PendingWindow
  <2>1. PendingInWindow(del[v][a]) /\ del[v][a] \in Delegator
    BY DEF Inv, PendingWindow, TypeOK
  <2>2. del' = del /\ epoch' = epoch
    BY <1>1 DEF ledger
  <2> QED
    BY <1>2, <1>7, <2>1, <2>2 DEF PendingInWindow, Delegator
<1>9. SnapshotsFrozen
  BY <1>1 DEF SnapshotsFrozen, ledger
<1>10. TypeOK'
  BY <1>1, <1>5, <1>6 DEF Inv, TypeOK, registry, ledger, money
<1> QED
  BY <1>8, <1>9, <1>10 DEF Inv

\* An epoch change refreshes only snapshots of epochs still to come.
LEMMA EpochChangeStep ==
    ASSUME Inv, NEW next \in 1 .. MaxEpoch, HandleSyscallOnEpochChange(next)
    PROVE  Inv' /\ SnapshotsFrozen
<1>1. /\ next > epoch
      /\ accs' = RefreshAccumulators(next)
      /\ inBoundary' = FALSE
      /\ epoch' = next
      /\ UNCHANGED <<rewarded, proposerValId, registry, val, del, withdrawals,
                     executionSet, epochSets, lists, money>>
  BY DEF HandleSyscallOnEpochChange
<1>2. /\ next \in Nat /\ next \in 0 .. MaxEpoch /\ epoch \in Nat
      /\ inBoundary \in BOOLEAN /\ MaxEpoch \in Nat
  BY StakingAssumption DEF Inv, TypeOK
<1>3. \A v \in ValIds, e \in Epochs :
          /\ accs'[v][e] \in Accumulator
          /\ e <= epoch => accs'[v][e] = accs[v][e]
  <2> SUFFICES ASSUME NEW v \in ValIds, NEW e \in Epochs
               PROVE  /\ accs'[v][e] \in Accumulator
                      /\ e <= epoch => accs'[v][e] = accs[v][e]
    OBVIOUS
  <2>1. accs[v][e] \in Accumulator /\ val[v].acc \in Nat
    BY DEF Inv, TypeOK, Validator
  <2>2. [accs[v][e] EXCEPT !.value = val[v].acc] \in Accumulator
    BY <2>1 DEF Accumulator
  <2>3. accs'[v][e] =
            IF v \in Members(snapshot) /\ e \in {next, next + 1} /\ accs[v][e].refcount > 0
            THEN [accs[v][e] EXCEPT !.value = val[v].acc]
            ELSE accs[v][e]
    BY <1>1 DEF RefreshAccumulators
  <2>4. e <= epoch => e \notin {next, next + 1}
    BY <1>1, <1>2 DEF Epochs
  <2> QED
    BY <2>1, <2>2, <2>3, <2>4
<1>4. accs' \in [ValIds -> [Epochs -> Accumulator]]
  BY <1>1, <1>3 DEF RefreshAccumulators
<1>5. SnapshotsFrozen
  BY <1>3 DEF SnapshotsFrozen
<1>6. PendingWindow'
  <2> SUFFICES ASSUME NEW v \in ValIds, NEW a \in Addrs
               PROVE  PendingInWindow(del[v][a])'
    BY DEF PendingWindow
  <2>1. PendingInWindow(del[v][a]) /\ del[v][a] \in Delegator
    BY DEF Inv, PendingWindow, TypeOK
  <2>2. ActivationEpoch' = next + 1 /\ ActivationEpoch <= next + 1
    BY <1>1, <1>2 DEF ActivationEpoch
  <2> QED
    BY <1>1, <1>2, <2>1, <2>2 DEF PendingInWindow, Delegator, ActivationEpoch
<1>7. TypeOK'
  BY <1>1, <1>2, <1>4 DEF Inv, TypeOK, registry, executionSet, epochSets, money
<1> QED
  BY <1>5, <1>6, <1>7 DEF Inv

-----------------------------------------------------------------------------
(* The theorems.                                                           *)

\* The empty storage.
LEMMA InitInv ==
    ASSUME Init
    PROVE  Inv
<1>1. /\ MaxEpoch \in Nat /\ MaxValidators \in Nat /\ InitialFunds \in Nat
  BY StakingAssumption
<1>2. /\ NoValidator \in Validator /\ NoView \in View
  BY DEF NoValidator, Validator, NoView, View
<1>3. /\ NoDelegator \in Delegator
      /\ NoWithdrawal \in WithdrawalRequest
      /\ NoAccumulator \in Accumulator
  BY DEF NoDelegator, Delegator, NoWithdrawal, WithdrawalRequest, NoAccumulator,
         Accumulator
<1> HIDE DEF NoValidator, NoView, NoDelegator, NoWithdrawal, NoAccumulator
<1>4. /\ val \in [ValIds -> Validator]
      /\ consensusView \in [ValIds -> View] /\ snapshotView \in [ValIds -> View]
      /\ del \in [ValIds -> [Addrs -> Delegator]]
      /\ withdrawals \in [ValIds -> [Addrs -> [WithdrawIds -> WithdrawalRequest]]]
      /\ accs \in [ValIds -> [Epochs -> Accumulator]]
  BY <1>2, <1>3 DEF Init
<1>5. TypeOK
  <2>1. /\ epoch = 0 /\ inBoundary = FALSE /\ lastValId = 0 /\ proposerValId = 0
        /\ valIdSecp = [a \in Addrs |-> 0] /\ valIdBls = [k \in BlsKeys |-> 0]
        /\ executionBits = {} /\ balance = 0 /\ rewarded = 0
        /\ wallet = [a \in Addrs |-> InitialFunds]
    BY DEF Init, NO_VALIDATOR
  <2>2. epoch \in 0 .. MaxEpoch /\ lastValId \in 0 .. MaxValidators
        /\ proposerValId \in 0 .. MaxValidators /\ balance \in Nat /\ rewarded \in Nat
    BY <1>1, <2>1
  <2>3. /\ valIdSecp \in [Addrs -> 0 .. MaxValidators]
        /\ valIdBls \in [BlsKeys -> 0 .. MaxValidators]
        /\ wallet \in [Addrs -> Nat]
    BY <1>1, <2>1
  <2> QED
    BY <1>4, <2>1, <2>2, <2>3, Zenon DEF TypeOK
<1>6. PendingInWindow(NoDelegator)
  BY <1>1 DEF PendingInWindow, NoDelegator, ActivationEpoch, Init
<1>7. PendingWindow
  BY <1>6 DEF PendingWindow, Init
<1> QED
  BY <1>5, <1>7 DEF Inv

\* Every call of a user keeps the invariant and the started snapshots.
LEMMA UserCallStep ==
    ASSUME Inv, UserCall
    PROVE  Inv' /\ SnapshotsFrozen
<1>1. PICK caller \in Addrs :
        \/ \E auth \in Addrs, bls \in BlsKeys, c \in Commissions,
              value \in DelegateAmounts :
                 HandleAddValidator(caller, auth, bls, c, value)
        \/ \E v \in ValIds :
              \/ \E value \in DelegateAmounts : HandleDelegate(v, caller, value)
              \/ \E amount \in UndelegateAmounts, wid \in WithdrawIds :
                    HandleUndelegate(v, caller, amount, wid)
              \/ \E wid \in WithdrawIds : HandleWithdraw(v, caller, wid)
              \/ HandleClaimRewards(v, caller)
              \/ HandleCompound(v, caller)
              \/ HandleGetDelegator(v, caller)
              \/ \E c \in Commissions : HandleChangeCommission(v, caller, c)
              \/ \E value \in ExternalRewards :
                    HandleExternalReward(v, caller, value)
  BY DEF UserCall
<1>2. CASE \E auth \in Addrs, bls \in BlsKeys, c \in Commissions,
              value \in DelegateAmounts :
                 HandleAddValidator(caller, auth, bls, c, value)
  BY <1>2, AddValidatorStep
<1>3. ASSUME NEW v \in ValIds, NEW value \in DelegateAmounts,
             HandleDelegate(v, caller, value)
      PROVE  Inv' /\ SnapshotsFrozen
  BY <1>3, DelegateCallStep
<1>4. ASSUME NEW v \in ValIds, NEW amount \in UndelegateAmounts,
             NEW wid \in WithdrawIds, HandleUndelegate(v, caller, amount, wid)
      PROVE  Inv' /\ SnapshotsFrozen
  BY <1>4, UndelegateStep
<1>5. ASSUME NEW v \in ValIds, NEW wid \in WithdrawIds, HandleWithdraw(v, caller, wid)
      PROVE  Inv' /\ SnapshotsFrozen
  BY <1>5, WithdrawStep
<1>6. ASSUME NEW v \in ValIds, HandleClaimRewards(v, caller)
      PROVE  Inv' /\ SnapshotsFrozen
  BY <1>6, ClaimRewardsStep
<1>7. ASSUME NEW v \in ValIds, HandleCompound(v, caller)
      PROVE  Inv' /\ SnapshotsFrozen
  BY <1>7, CompoundStep
<1>8. ASSUME NEW v \in ValIds, HandleGetDelegator(v, caller)
      PROVE  Inv' /\ SnapshotsFrozen
  BY <1>8, GetDelegatorStep
<1>9. ASSUME NEW v \in ValIds, NEW c \in Commissions,
             HandleChangeCommission(v, caller, c)
      PROVE  Inv' /\ SnapshotsFrozen
  BY <1>9, ChangeCommissionStep
<1>10. ASSUME NEW v \in ValIds, NEW value \in ExternalRewards,
              HandleExternalReward(v, caller, value)
       PROVE  Inv' /\ SnapshotsFrozen
  BY <1>10, ExternalRewardStep
<1> QED
  BY <1>1, <1>2, <1>3, <1>4, <1>5, <1>6, <1>7, <1>8, <1>9, <1>10, Zenon

\* Every step, in any order of system calls.
LEMMA AnyOrderStep ==
    ASSUME Inv, [AnyOrderNext]_vars
    PROVE  Inv' /\ (SnapshotsFrozen \/ UNCHANGED vars)
<1>1. CASE UserCall
  BY <1>1, UserCallStep
<1>2. CASE BlockCall
  BY <1>2, SyscallRewardStep, SyscallSnapshotStep DEF BlockCall
<1>3. CASE \E next \in 1 .. MaxEpoch : HandleSyscallOnEpochChange(next)
  BY <1>3, EpochChangeStep
<1>4. CASE UNCHANGED vars
  BY <1>4 DEF Inv, TypeOK, PendingWindow, PendingInWindow, ActivationEpoch, vars,
              clock, registry, ledger, executionSet, epochSets, money
<1> QED
  BY <1>1, <1>2, <1>3, <1>4 DEF AnyOrderNext

\* The documented lifecycle is one of those orders.
LEMMA LifecycleStep ==
    ASSUME Inv, [Next]_vars
    PROVE  [AnyOrderNext]_vars
<1>1. CASE EpochBoundary
  <2>1. /\ HandleSyscallOnEpochChange(epoch + 1)
        /\ epoch + 1 <= MaxEpoch
        /\ epoch \in Nat /\ MaxEpoch \in Nat
    BY <1>1, StakingAssumption
       DEF EpochBoundary, HandleSyscallOnEpochChange, Inv, TypeOK
  <2>2. epoch + 1 \in 1 .. MaxEpoch
    BY <2>1
  <2> QED
    BY <2>1, <2>2 DEF AnyOrderNext
<1> QED
  BY <1>1 DEF Next, AnyOrderNext

(***************************************************************************)
(* The storage of the precompile stays well typed, no amount ever negative *)
(* and no epoch beyond the two ahead, whatever the order of the calls.     *)
(***************************************************************************)
THEOREM TypeCorrect == AnyOrderSpec => []TypeOK
<1>1. Init => Inv
  BY InitInv
<1>2. Inv /\ [AnyOrderNext]_vars => Inv'
  BY AnyOrderStep
<1>3. Inv => TypeOK
  BY DEF Inv
<1> QED
  BY <1>1, <1>2, <1>3, PTL DEF AnyOrderSpec

(***************************************************************************)
(* The pending stakes of every delegation stay in the two epochs ahead and *)
(* in order: internal_delegate never overwrites the epoch of other stake.  *)
(***************************************************************************)
THEOREM PendingStakeInWindow == AnyOrderSpec => []PendingWindow
<1>1. Init => Inv
  BY InitInv
<1>2. Inv /\ [AnyOrderNext]_vars => Inv'
  BY AnyOrderStep
<1>3. Inv => PendingWindow
  BY DEF Inv
<1> QED
  BY <1>1, <1>2, <1>3, PTL DEF AnyOrderSpec

(***************************************************************************)
(* A snapshot that is referred to never changes once its epoch started:    *)
(* neither new references nor epoch changes touch it.                      *)
(***************************************************************************)
THEOREM SnapshotsStayFrozen == AnyOrderSpec => StartedSnapshotsFrozen
<1>1. Init => Inv
  BY InitInv
<1>2. Inv /\ [AnyOrderNext]_vars => Inv'
  BY AnyOrderStep
<1>3. Inv /\ [AnyOrderNext]_vars => [SnapshotsFrozen]_vars
  BY AnyOrderStep
<1> QED
  BY <1>1, <1>2, <1>3, PTL DEF AnyOrderSpec, StartedSnapshotsFrozen, SnapshotsFrozen

(***************************************************************************)
(* The documented lifecycle has all three: its epoch boundary is one of    *)
(* the epoch changes AnyOrderSpec allows.                                  *)
(***************************************************************************)
THEOREM LifecycleSafe == Spec => AnyOrderSpec
<1>1. Init => Inv
  BY InitInv
<1>2. Inv /\ [Next]_vars => Inv'
  BY AnyOrderStep, LifecycleStep
<1>3. Inv /\ [Next]_vars => [AnyOrderNext]_vars
  BY LifecycleStep
<1> QED
  BY <1>1, <1>2, <1>3, PTL DEF Spec, AnyOrderSpec

-----------------------------------------------------------------------------
(* The sums ContractBalanced is made of.                                   *)

StakesOf(D, v) == [a \in Addrs |-> TotalStake(D[v][a])]

Pools(V) == [v \in ValIds |-> V[v].stake + V[v].unclaimed]

Credits(D) == [p \in Pairs |-> D[p[1]][p[2]].rewards]

Requests == ValIds \X Addrs \X WithdrawIds

Filed(W) == [p \in Requests |-> W[p[1]][p[2]][p[3]].amount]

\* What the sums range over is finite.
LEMMA FiniteDomains ==
    /\ IsFiniteSet(Addrs) /\ IsFiniteSet(ValIds)
    /\ IsFiniteSet(Pairs) /\ IsFiniteSet(Requests)
<1>1. IsFiniteSet(Addrs) /\ IsFiniteSet(WithdrawIds)
  BY StakingAssumption
<1>2. IsFiniteSet(ValIds)
  <2>1. 1 \in Int /\ MaxValidators \in Int
    BY StakingAssumption
  <2> QED
    BY <2>1, FS_Interval DEF ValIds
<1>3. IsFiniteSet(Pairs)
  BY <1>1, <1>2, FS_Product DEF Pairs
<1>4. IsFiniteSet(Requests)
  <2> DEFINE S == Pairs \X WithdrawIds
             m == [x \in S |-> <<x[1][1], x[1][2], x[2]>>]
             f == [x \in {m[y] : y \in S} |-> 0]
             g == [x \in S |-> 0]
  <2>1. IsFiniteSet(S)
    BY <1>1, <1>3, FS_Product
  <2>2. \A x, y \in S : m[x] = m[y] => x = y
    BY DEF Pairs
  <2>3. {m[x] : x \in S} = Requests
    <3>1. ASSUME NEW x \in S PROVE m[x] \in Requests
      BY DEF Pairs, Requests
    <3>2. ASSUME NEW r \in Requests PROVE \E x \in S : m[x] = r
      <4>1. PICK u \in ValIds, a \in Addrs, w \in WithdrawIds : r = <<u, a, w>>
        BY DEF Requests
      <4>2. <<<<u, a>>, w>> \in S /\ m[<<<<u, a>>, w>>] = <<u, a, w>>
        BY DEF Pairs
      <4> QED
        BY <4>1, <4>2
    <3> QED
      BY <3>1, <3>2
  <2>4. \A x \in S : g[x] \in Int /\ f[m[x]] = g[x]
    OBVIOUS
  <2> HIDE DEF S, m, f, g
  <2>5. IsFiniteSet({m[x] : x \in S})
    BY <2>1, <2>2, <2>4, SumImage
  <2> QED
    BY <2>3, <2>5, Zenon
<1> QED
  BY <1>1, <1>2, <1>3, <1>4

\* A sum in which one summand has changed.
LEMMA SumReplaced ==
    ASSUME NEW S, IsFiniteSet(S), NEW f \in [S -> Int], NEW g \in [S -> Int],
           NEW x \in S, \A y \in S \ {x} : g[y] = f[y]
    PROVE  SumFunction(g) = SumFunction(f) - f[x] + g[x]
<1>1. SumFunctionOnSet(g, S) = SumFunctionOnSet(f, S) - f[x] + g[x]
  BY SumChange
<1>2. DOMAIN f = S /\ DOMAIN g = S
  BY Zenon
<1>3. SumFunction(f) = SumFunctionOnSet(f, S) /\ SumFunction(g) = SumFunctionOnSet(g, S)
  BY <1>2, Zenon DEF SumFunction
<1> QED
  BY <1>1, <1>3, Zenon

\* A sum of integers is an integer.
LEMMA SumFunctionType ==
    ASSUME NEW S, IsFiniteSet(S), NEW f \in [S -> Int]
    PROVE  SumFunction(f) \in Int
<1>1. SumFunctionOnSet(f, S) \in Int
  BY SumType
<1>2. DOMAIN f = S
  BY Zenon
<1> QED
  BY <1>1, <1>2, Zenon DEF SumFunction

\* The summands are integers.
LEMMA SummandTypes ==
    ASSUME NEW V \in [ValIds -> Validator], NEW D \in [ValIds -> [Addrs -> Delegator]],
           NEW W \in [ValIds -> [Addrs -> [WithdrawIds -> WithdrawalRequest]]]
    PROVE  /\ \A v \in ValIds : StakesOf(D, v) \in [Addrs -> Int]
           /\ Pools(V) \in [ValIds -> Int]
           /\ Credits(D) \in [Pairs -> Int]
           /\ Filed(W) \in [Requests -> Int]
<1>1. ASSUME NEW v \in ValIds
      PROVE  StakesOf(D, v) \in [Addrs -> Int]
  <2>1. \A a \in Addrs : TotalStake(D[v][a]) \in Int
    BY DEF Delegator, TotalStake
  <2> QED
    BY <2>1 DEF StakesOf
<1>2. Pools(V) \in [ValIds -> Int]
  <2>1. \A v \in ValIds : V[v].stake + V[v].unclaimed \in Int
    BY DEF Validator
  <2> QED
    BY <2>1 DEF Pools
<1>3. Credits(D) \in [Pairs -> Int]
  <2>1. \A v \in ValIds, a \in Addrs : D[v][a].rewards \in Int
    BY DEF Delegator
  <2> QED
    BY <2>1 DEF Credits, Pairs
<1>4. Filed(W) \in [Requests -> Int]
  <2>1. \A v \in ValIds, a \in Addrs, w \in WithdrawIds : W[v][a][w].amount \in Int
    BY DEF WithdrawalRequest
  <2> QED
    BY <2>1 DEF Filed, Requests
<1> QED
  BY <1>1, <1>2, <1>3, <1>4

-----------------------------------------------------------------------------
(***************************************************************************)
(* What a call does to the books: only validator v and the delegation of a *)
(* to it change, the stake of both by the same amount, `filed' more is     *)
(* being withdrawn, and the account follows all of it.                     *)
(***************************************************************************)
Moves(v, a, filed) ==
    /\ \A u \in ValIds \ {v} :
          val'[u].stake = val[u].stake /\ val'[u].unclaimed = val[u].unclaimed
    /\ \A u \in ValIds, b \in Addrs : u # v \/ b # a =>
          /\ TotalStake(del'[u][b]) = TotalStake(del[u][b])
          /\ del'[u][b].rewards = del[u][b].rewards
    /\ val'[v].stake - val[v].stake = TotalStake(del'[v][a]) - TotalStake(del[v][a])
    /\ SumFunction(Filed(withdrawals')) = SumFunction(Filed(withdrawals)) + filed
    /\ balance' - balance =
          (val'[v].stake - val[v].stake) + (val'[v].unclaimed - val[v].unclaimed)
        + (del'[v][a].rewards - del[v][a].rewards) + filed

LEMMA MovesKeepBalance ==
    ASSUME TypeOK, TypeOK', ContractBalanced,
           NEW v \in ValIds, NEW a \in Addrs, NEW filed \in Int, Moves(v, a, filed)
    PROVE  ContractBalanced'
<1>1. /\ val \in [ValIds -> Validator] /\ val' \in [ValIds -> Validator]
      /\ del \in [ValIds -> [Addrs -> Delegator]] /\ del' \in [ValIds -> [Addrs -> Delegator]]
      /\ withdrawals \in [ValIds -> [Addrs -> [WithdrawIds -> WithdrawalRequest]]]
      /\ balance \in Int /\ balance' \in Int
  BY DEF TypeOK
<1>2. /\ \A u \in ValIds : /\ StakesOf(del, u) \in [Addrs -> Int]
                           /\ StakesOf(del', u) \in [Addrs -> Int]
      /\ Pools(val) \in [ValIds -> Int] /\ Pools(val') \in [ValIds -> Int]
      /\ Credits(del) \in [Pairs -> Int] /\ Credits(del') \in [Pairs -> Int]
      /\ Filed(withdrawals) \in [Requests -> Int]
  BY <1>1, SummandTypes, Zenon
<1>3. ASSUME NEW u \in ValIds
      PROVE  val'[u].stake = SumFunction(StakesOf(del', u))
  <2>1. val[u].stake = SumFunction(StakesOf(del, u))
    BY DEF ContractBalanced, StakesOf
  <2>2. CASE u # v
    <3>1. StakesOf(del', u) = StakesOf(del, u)
      BY <2>2 DEF Moves, StakesOf
    <3>2. val'[u].stake = val[u].stake
      BY <2>2 DEF Moves
    <3> QED
      BY <2>1, <3>1, <3>2, Zenon
  <2>3. CASE u = v
    <3> DEFINE f == StakesOf(del, v)
               g == StakesOf(del', v)
    <3>1. \A b \in Addrs \ {a} : g[b] = f[b]
      BY DEF Moves, StakesOf
    <3>2. f[a] = TotalStake(del[v][a]) /\ g[a] = TotalStake(del'[v][a])
      BY DEF StakesOf
    <3>3. f \in [Addrs -> Int] /\ g \in [Addrs -> Int]
      BY <1>2
    <3> HIDE DEF f, g
    <3>4. SumFunction(g) = SumFunction(f) - f[a] + g[a]
      BY <3>1, <3>3, FiniteDomains, SumReplaced
    <3>5. SumFunction(f) \in Int /\ f[a] \in Int /\ g[a] \in Int
      BY <3>3, FiniteDomains, SumFunctionType
    <3>6. val[v].stake = SumFunction(f)
      BY <2>1, <2>3 DEF f
    <3>7. val'[v].stake \in Int /\ val[v].stake \in Int
      BY <1>1 DEF Validator
    <3>8. val'[v].stake - val[v].stake = g[a] - f[a]
      BY <3>2 DEF Moves
    <3>9. val'[v].stake = SumFunction(g)
      BY ONLY <3>4, <3>5, <3>6, <3>7, <3>8
    <3> QED
      BY <2>3, <3>9 DEF g
  <2> QED
    BY <2>2, <2>3
<1> DEFINE P == SumFunction(Pools(val))
           C == SumFunction(Credits(del))
           F == SumFunction(Filed(withdrawals))
           pool == (val'[v].stake - val[v].stake) + (val'[v].unclaimed - val[v].unclaimed)
           credit == del'[v][a].rewards - del[v][a].rewards
<1>4. SumFunction(Pools(val')) = P + pool
  <2> DEFINE f == Pools(val)
             g == Pools(val')
  <2>1. \A u \in ValIds \ {v} : g[u] = f[u]
    BY DEF Moves, Pools
  <2>2. f[v] = val[v].stake + val[v].unclaimed /\ g[v] = val'[v].stake + val'[v].unclaimed
    BY DEF Pools
  <2>3. f \in [ValIds -> Int] /\ g \in [ValIds -> Int]
    BY <1>2
  <2>4. P = SumFunction(f)
    OBVIOUS
  <2> HIDE DEF f, g, P
  <2>5. SumFunction(g) = SumFunction(f) - f[v] + g[v]
    BY <2>1, <2>3, FiniteDomains, SumReplaced
  <2>6. SumFunction(f) \in Int
    BY <2>3, FiniteDomains, SumFunctionType
  <2>7. /\ val'[v].stake \in Int /\ val[v].stake \in Int
        /\ val'[v].unclaimed \in Int /\ val[v].unclaimed \in Int
    BY <1>1 DEF Validator
  <2>8. SumFunction(g) = P + pool
    BY ONLY <2>2, <2>4, <2>5, <2>6, <2>7 DEF pool
  <2> QED
    BY <2>8 DEF g
<1>5. SumFunction(Credits(del')) = C + credit
  <2> DEFINE f == Credits(del)
             g == Credits(del')
             x == <<v, a>>
  <2>1. \A p \in Pairs \ {x} : g[p] = f[p]
    BY DEF Moves, Credits, Pairs
  <2>2. /\ f[x] = del[v][a].rewards /\ g[x] = del'[v][a].rewards
        /\ x \in Pairs
    BY DEF Credits, Pairs
  <2>3. f \in [Pairs -> Int] /\ g \in [Pairs -> Int]
    BY <1>2
  <2>4. C = SumFunction(f)
    OBVIOUS
  <2> HIDE DEF f, g, C, x
  <2>5. SumFunction(g) = SumFunction(f) - f[x] + g[x]
    BY <2>1, <2>2, <2>3, FiniteDomains, SumReplaced
  <2>6. SumFunction(f) \in Int
    BY <2>3, FiniteDomains, SumFunctionType
  <2>7. del[v][a].rewards \in Int /\ del'[v][a].rewards \in Int
    BY <1>1 DEF Delegator
  <2>8. SumFunction(g) = C + credit
    BY ONLY <2>2, <2>4, <2>5, <2>6, <2>7 DEF credit
  <2> QED
    BY <2>8 DEF g
<1>6. P \in Int /\ C \in Int /\ F \in Int
  BY <1>2, FiniteDomains, SumFunctionType, Zenon
<1>7. balance = P + C + F
  BY Zenon DEF ContractBalanced, Pools, Credits, Filed, Requests
<1>8. balance' = balance + pool + credit + filed
  <2>1. /\ val'[v].stake \in Int /\ val[v].stake \in Int
        /\ val'[v].unclaimed \in Int /\ val[v].unclaimed \in Int
        /\ del[v][a].rewards \in Int /\ del'[v][a].rewards \in Int
    BY <1>1 DEF Validator, Delegator
  <2>2. balance' - balance = pool + credit + filed
    BY DEF Moves
  <2>3. balance \in Int /\ balance' \in Int
    BY <1>1
  <2>4. filed \in Int
    OBVIOUS
  <2> QED
    BY ONLY <2>1, <2>2, <2>3, <2>4
<1>9. SumFunction(Filed(withdrawals')) = F + filed
  BY DEF Moves
<1>10. pool \in Int /\ credit \in Int
  <2>1. /\ val'[v].stake \in Int /\ val[v].stake \in Int
        /\ val'[v].unclaimed \in Int /\ val[v].unclaimed \in Int
        /\ del[v][a].rewards \in Int /\ del'[v][a].rewards \in Int
    BY <1>1 DEF Validator, Delegator
  <2> QED
    BY <2>1
<1> HIDE DEF P, C, F, pool, credit
<1>11. balance' = (P + pool) + (C + credit) + (F + filed)
  BY ONLY <1>1, <1>6, <1>7, <1>8, <1>10, filed \in Int
<1>12. balance' = SumFunction(Pools(val')) + SumFunction(Credits(del'))
                + SumFunction(Filed(withdrawals'))
  BY <1>4, <1>5, <1>9, <1>11, Zenon
<1> QED
  BY <1>3, <1>12, Zenon DEF ContractBalanced, StakesOf, Pools, Credits, Filed, Requests

-----------------------------------------------------------------------------
(***************************************************************************)
(* The inductive invariant: also, ids are given in order, and what belongs *)
(* to an id not yet given is empty, so that settling it moves nothing.     *)
(***************************************************************************)
Untouched(V, D, v) ==
    /\ V[v].auth = ZERO_ADDRESS
    /\ V[v].stake = 0
    /\ V[v].unclaimed = 0
    /\ \A a \in Addrs : D[v][a].rewards = 0

Registered ==
    /\ \A v \in ValIds : v <= lastValId => val[v].auth # ZERO_ADDRESS
    /\ \A v \in ValIds : v > lastValId => Untouched(val, del, v)
    /\ \A a \in Addrs : valIdSecp[a] <= lastValId

BalanceInv == Inv /\ ContractBalanced /\ Registered

\* A call about a registered validator, or one that leaves an id not yet
\* given as empty as it was.
LEMMA MovesKeepRegistered ==
    ASSUME BalanceInv, NEW v \in ValIds, NEW a \in Addrs, NEW filed, Moves(v, a, filed),
           \A u \in ValIds : val'[u].auth = val[u].auth,
           UNCHANGED registry,
           v > lastValId => /\ val'[v].stake = 0
                            /\ val'[v].unclaimed = 0
                            /\ del'[v][a].rewards = 0
    PROVE  Registered'
<1>1. lastValId' = lastValId /\ valIdSecp' = valIdSecp
  BY DEF registry
<1>2. ASSUME NEW u \in ValIds, u > lastValId
      PROVE  Untouched(val', del', u)
  <2>1. Untouched(val, del, u)
    BY <1>2 DEF BalanceInv, Registered
  <2>2. CASE u # v
    BY <2>1, <2>2 DEF Untouched, Moves
  <2>3. CASE u = v
    BY <1>2, <2>1, <2>3 DEF Untouched, Moves
  <2> QED
    BY <2>2, <2>3
<1> QED
  BY <1>1, <1>2 DEF BalanceInv, Registered

\* Both, for a call that keeps the types.
LEMMA MovesKeepBooks ==
    ASSUME BalanceInv, Inv', NEW v \in ValIds, NEW a \in Addrs, NEW filed \in Int,
           Moves(v, a, filed),
           \A u \in ValIds : val'[u].auth = val[u].auth,
           UNCHANGED registry,
           v > lastValId => /\ val'[v].stake = 0
                            /\ val'[v].unclaimed = 0
                            /\ del'[v][a].rewards = 0
    PROVE  BalanceInv'
<1>1. TypeOK /\ TypeOK' /\ ContractBalanced
  BY DEF BalanceInv, Inv
<1>2. ContractBalanced'
  BY <1>1, MovesKeepBalance
<1>3. Registered'
  BY MovesKeepRegistered
<1> QED
  BY <1>2, <1>3 DEF BalanceInv

\* Withdrawals that stay leave the sum of what is being withdrawn.
LEMMA UnmovedRequests ==
    ASSUME TypeOK, UNCHANGED withdrawals
    PROVE  SumFunction(Filed(withdrawals')) = SumFunction(Filed(withdrawals)) + 0
<1>1. Filed(withdrawals) \in [Requests -> Int]
  BY SummandTypes DEF TypeOK
<1>2. SumFunction(Filed(withdrawals)) \in Int
  BY <1>1, FiniteDomains, SumFunctionType
<1>3. SumFunction(Filed(withdrawals')) = SumFunction(Filed(withdrawals))
  BY Zenon
<1> QED
  BY <1>2, <1>3

\* One withdrawal replaced.
LEMMA RequestReplaced ==
    ASSUME TypeOK, NEW v \in ValIds, NEW a \in Addrs, NEW w \in WithdrawIds,
           NEW r \in WithdrawalRequest,
           withdrawals' = [withdrawals EXCEPT ![v][a][w] = r]
    PROVE  SumFunction(Filed(withdrawals')) =
              SumFunction(Filed(withdrawals)) + (r.amount - withdrawals[v][a][w].amount)
<1> DEFINE f == Filed(withdrawals)
           g == Filed(withdrawals')
           x == <<v, a, w>>
<1>1. withdrawals \in [ValIds -> [Addrs -> [WithdrawIds -> WithdrawalRequest]]]
  BY DEF TypeOK
<1>2. withdrawals' \in [ValIds -> [Addrs -> [WithdrawIds -> WithdrawalRequest]]]
  BY <1>1
<1>3. f \in [Requests -> Int] /\ g \in [Requests -> Int]
  <2>1. \A u \in ValIds, b \in Addrs, z \in WithdrawIds :
            withdrawals[u][b][z].amount \in Int /\ withdrawals'[u][b][z].amount \in Int
    BY <1>1, <1>2 DEF WithdrawalRequest
  <2> QED
    BY <2>1 DEF Filed, Requests
<1>4. ASSUME NEW p \in Requests \ {x}
      PROVE  g[p] = f[p]
  <2>1. PICK u \in ValIds, b \in Addrs, z \in WithdrawIds : p = <<u, b, z>>
    BY DEF Requests
  <2>2. u # v \/ b # a \/ z # w
    BY <2>1
  <2>3. withdrawals'[u][b][z] = withdrawals[u][b][z]
    BY <1>1, <2>2
  <2> QED
    BY <2>1, <2>3 DEF Filed
<1>5. /\ x \in Requests
      /\ f[x] = withdrawals[v][a][w].amount
      /\ g[x] = withdrawals'[v][a][w].amount
  BY DEF Filed, Requests
<1>6. withdrawals'[v][a][w] = r
  BY <1>1
<1>7. r.amount \in Int /\ withdrawals[v][a][w].amount \in Int
  BY <1>1 DEF WithdrawalRequest
<1> HIDE DEF f, g, x
<1>8. SumFunction(g) = SumFunction(f) - f[x] + g[x]
  BY <1>3, <1>4, <1>5, FiniteDomains, SumReplaced
<1>9. SumFunction(f) \in Int
  BY <1>3, FiniteDomains, SumFunctionType
<1>10. SumFunction(g) = SumFunction(f) + (g[x] - f[x])
  <2>1. f[x] \in Int /\ g[x] \in Int
    BY <1>5, <1>6, <1>7
  <2> QED
    BY ONLY <1>8, <1>9, <2>1
<1> QED
  BY <1>5, <1>6, <1>10 DEF f, g

-----------------------------------------------------------------------------
(* The handlers.                                                           *)

\* A settlement internal_delegate may start from.
Ready(s) ==
    s \in RunningSettlement /\ Solvent(s) /\ s.ok = TRUE /\ PendingInWindow(s.del)

(***************************************************************************)
(* internal_delegate books `amount' as stake.  Of it `spent' comes out of  *)
(* rewards the delegation had, the rest was paid into the account.         *)
(***************************************************************************)
Booked(v, caller, record, amount, s, spent) ==
    /\ InternalDelegate(v, record, caller, amount, s)
    /\ withdrawals' = withdrawals
    /\ record.stake = val[v].stake
    /\ TotalStake(s.del) = TotalStake(del[v][caller])
    /\ s.del.rewards + s.unclaimed = del[v][caller].rewards + val[v].unclaimed - spent
    /\ balance' = balance + amount - spent

LEMMA DelegateMoves ==
    ASSUME Inv, Inv', NEW v \in ValIds, NEW caller \in Addrs, NEW record \in Validator,
           NEW amount \in Nat \ {0}, NEW s, NEW spent \in Int,
           Ready(s), Booked(v, caller, record, amount, s, spent)
    PROVE  /\ Moves(v, caller, 0)
           /\ val'[v].auth = record.auth
           /\ \A u \in ValIds \ {v} : val'[u] = val[u]
           /\ val'[v].stake = val[v].stake + amount
<1>1. PICK d \in Delegator, unclaimed \in Nat :
          DelegationWritten(v, caller, record, amount, s, d, unclaimed)
  BY InternalDelegateFacts DEF Ready, Booked
<1>2. /\ val \in [ValIds -> Validator] /\ del \in [ValIds -> [Addrs -> Delegator]]
      /\ balance \in Int
  BY DEF Inv, TypeOK
<1>2a. /\ withdrawals' = withdrawals
       /\ record.stake = val[v].stake
       /\ TotalStake(s.del) = TotalStake(del[v][caller])
       /\ s.del.rewards + s.unclaimed = del[v][caller].rewards + val[v].unclaimed - spent
       /\ balance' = balance + amount - spent
  BY DEF Booked
<1>3. /\ del' = [del EXCEPT ![v][caller] = d]
      /\ TotalStake(d) = TotalStake(s.del) + amount
      /\ d.rewards + unclaimed = s.del.rewards + s.unclaimed
  BY <1>1 DEF DelegationWritten
<1>4. /\ \A u \in ValIds \ {v} : val'[u] = val[u]
      /\ val'[v].stake = record.stake + amount
      /\ val'[v].unclaimed = unclaimed
      /\ val'[v].auth = record.auth
  <2> DEFINE sum == record.stake + amount
             staked == [record EXCEPT !.stake = sum, !.unclaimed = unclaimed]
             flags == FlagsAfterDelegate(staked, d, caller)
             new == [staked EXCEPT !.flags = flags]
  <2>1. val' = [val EXCEPT ![v] = new]
    BY <1>1 DEF DelegationWritten
  <2>2. /\ new.stake = sum /\ new.unclaimed = unclaimed /\ new.auth = record.auth
    BY DEF Validator
  <2> HIDE DEF new
  <2> QED
    BY <1>2, <2>1, <2>2
<1>5. del'[v][caller] = d /\ \A u \in ValIds, b \in Addrs : u # v \/ b # caller =>
          del'[u][b] = del[u][b]
  BY <1>2, <1>3
<1>6. /\ val[v].stake \in Int /\ val[v].unclaimed \in Int
      /\ del[v][caller].rewards \in Int /\ d.rewards \in Int
      /\ TotalStake(del[v][caller]) \in Int
  BY <1>2 DEF Validator, Delegator, TotalStake
<1>7. SumFunction(Filed(withdrawals')) = SumFunction(Filed(withdrawals)) + 0
  BY <1>2a, UnmovedRequests DEF Inv
<1> DEFINE before == TotalStake(del[v][caller])
           after == TotalStake(d)
           stake == val'[v].stake
<1>8. /\ after = before + amount
      /\ stake = val[v].stake + amount
      /\ before \in Int
  BY <1>2a, <1>3, <1>4, <1>6
<1> HIDE DEF before, after, stake
<1>9. stake - val[v].stake = after - before
  BY ONLY <1>6, <1>8, amount \in Int
<1>10. balance' - balance =
          (stake - val[v].stake) + (unclaimed - val[v].unclaimed)
        + (d.rewards - del[v][caller].rewards) + 0
  <2>1. d.rewards + unclaimed = del[v][caller].rewards + val[v].unclaimed - spent
    BY <1>2a, <1>3
  <2>2. amount \in Int /\ unclaimed \in Int /\ balance \in Int
    BY <1>2
  <2> QED
    BY ONLY <1>2a, <1>6, <1>8, <2>1, <2>2, spent \in Int
<1>11. Moves(v, caller, 0)
  BY <1>4, <1>5, <1>7, <1>9, <1>10 DEF Moves, before, after, stake
<1> QED
  BY <1>4, <1>8, <1>11 DEF stake

\* addValidator gives the next id; what belongs to it was empty.
LEMMA AddValidatorBooks ==
    ASSUME BalanceInv, Inv', NEW caller \in Addrs, NEW auth \in Addrs, NEW bls \in BlsKeys,
           NEW commission \in Commissions, NEW value \in DelegateAmounts,
           HandleAddValidator(caller, auth, bls, commission, value)
    PROVE  /\ BalanceInv'
           /\ Moves(lastValId + 1, auth, 0)
           /\ val'[lastValId + 1].stake = val[lastValId + 1].stake + value
<1> DEFINE v == lastValId + 1
           record == [NoValidator EXCEPT !.commission = commission,
                                         !.auth = auth,
                                         !.flags = {"STAKE_TOO_LOW"}]
           s == Settlement(del[v][auth], 0, accs[v])
<1>1. /\ v \in ValIds
      /\ value >= MIN_AUTH_ADDRESS_STAKE
      /\ lastValId' = v
      /\ valIdSecp' = [valIdSecp EXCEPT ![auth] = v]
      /\ balance' = balance + value
      /\ InternalDelegate(v, record, auth, value, s)
      /\ UNCHANGED withdrawals
  BY Zenon DEF HandleAddValidator, Pay
<1>2. value \in Nat \ {0} /\ value \in Int /\ commission \in Nat
  BY <1>1, StakingAssumption, StakingConstantsAssumption
<1>3. lastValId \in Nat /\ v \in Nat /\ v > lastValId /\ v = lastValId + 1
  BY StakingAssumption DEF BalanceInv, Inv, TypeOK
<1> HIDE DEF v
<1>4. Untouched(val, del, v)
  BY <1>1, <1>3 DEF BalanceInv, Registered
<1>5. record \in Validator /\ record.stake = 0 /\ record.auth = auth
  BY <1>2 DEF NoValidator, Validator, Flags
<1>6. /\ Inv /\ del[v][auth] \in Delegator /\ accs[v] \in Accumulators
      /\ PendingInWindow(del[v][auth])
      /\ val \in [ValIds -> Validator] /\ del \in [ValIds -> [Addrs -> Delegator]]
      /\ balance \in Int
  BY <1>1 DEF BalanceInv, Inv, TypeOK, PendingWindow, Accumulators
<1>7. /\ s \in RunningSettlement /\ Solvent(s) /\ s.ok = TRUE
      /\ s.del = del[v][auth]
  BY <1>6, 0 \in Nat, SettlementType
<1>8. s.unclaimed = 0
  BY SettlementPool
<1> HIDE DEF record, s
<1>9. /\ record.stake = val[v].stake
      /\ s.del.rewards + s.unclaimed = del[v][auth].rewards + val[v].unclaimed - 0
      /\ balance' = balance + value - 0
  BY <1>1, <1>2, <1>4, <1>5, <1>6, <1>7, <1>8 DEF Untouched
<1>10. PendingInWindow(s.del) /\ TotalStake(s.del) = TotalStake(del[v][auth])
  BY <1>6, <1>7
<1>11. /\ Moves(v, auth, 0)
       /\ val'[v].auth = auth
       /\ \A u \in ValIds \ {v} : val'[u] = val[u]
       /\ val'[v].stake = val[v].stake + value
  <2>1. 0 \in Int /\ Ready(s)
    BY <1>7, <1>10 DEF Ready
  <2>2. Booked(v, auth, record, value, s, 0)
    BY <1>1, <1>9, <1>10 DEF Booked
  <2> QED
    BY <1>1, <1>2, <1>5, <1>6, <2>1, <2>2, DelegateMoves
<1>12. ContractBalanced'
  <2>1. TypeOK /\ TypeOK' /\ ContractBalanced
    BY DEF BalanceInv, Inv
  <2> QED
    BY <1>1, <1>11, <2>1, 0 \in Int, MovesKeepBalance
<1>13. Registered'
  <2>1. ASSUME NEW u \in ValIds, u <= v
        PROVE  val'[u].auth # ZERO_ADDRESS
    <3>1. CASE u = v
      BY <1>11, <3>1, StakingAssumption
    <3>2. CASE u # v
      <4>1. u \in Int
        BY DEF ValIds
      <4>2. u <= lastValId
        BY <1>3, <2>1, <3>2, <4>1
      <4> QED
        BY <1>11, <3>2, <4>2 DEF BalanceInv, Registered
    <3> QED
      BY <3>1, <3>2
  <2>2. ASSUME NEW u \in ValIds, u > v
        PROVE  Untouched(val', del', u)
    <3>1. u \in Int
      BY DEF ValIds
    <3>2. u > lastValId /\ u # v
      BY <1>3, <2>2, <3>1
    <3>3. Untouched(val, del, u)
      BY <3>2 DEF BalanceInv, Registered
    <3> QED
      BY <1>11, <3>2, <3>3 DEF Untouched, Moves
  <2>3. \A a \in Addrs : valIdSecp'[a] <= v
    <3>1. /\ valIdSecp \in [Addrs -> 0 .. MaxValidators]
          /\ \A a \in Addrs : valIdSecp[a] <= lastValId
      BY DEF BalanceInv, Inv, TypeOK, Registered
    <3>2. \A a \in Addrs : valIdSecp[a] \in Int
      BY <3>1
    <3>3. \A a \in Addrs : valIdSecp[a] <= v
      BY <1>3, <3>1, <3>2
    <3> QED
      BY <1>1, <1>3, <3>1, <3>3
  <2> QED
    BY <1>1, <2>1, <2>2, <2>3 DEF Registered
<1> QED
  BY <1>11, <1>12, <1>13 DEF BalanceInv, v

\* delegate: what was paid in becomes stake.
LEMMA DelegateBooks ==
    ASSUME BalanceInv, Inv', NEW v \in ValIds, NEW caller \in Addrs,
           NEW value \in DelegateAmounts, HandleDelegate(v, caller, value)
    PROVE  /\ BalanceInv' /\ Moves(v, caller, 0)
           /\ val'[v].stake = val[v].stake + value
<1> DEFINE s == Settlement(del[v][caller], val[v].unclaimed, accs[v])
<1>1. /\ Exists(v)
      /\ value >= DUST_THRESHOLD
      /\ balance' = balance + value
      /\ InternalDelegate(v, val[v], caller, value, s)
      /\ UNCHANGED <<registry, withdrawals>>
  BY Zenon DEF HandleDelegate, Pay
<1>2. value \in Nat \ {0} /\ value \in Int
  BY <1>1, StakingAssumption, StakingConstantsAssumption
<1>3. /\ Inv /\ del[v][caller] \in Delegator /\ accs[v] \in Accumulators
      /\ PendingInWindow(del[v][caller])
      /\ val[v] \in Validator /\ val[v].unclaimed \in Nat
      /\ val \in [ValIds -> Validator] /\ del \in [ValIds -> [Addrs -> Delegator]]
      /\ balance \in Int /\ del[v][caller].rewards \in Int
  BY DEF BalanceInv, Inv, TypeOK, PendingWindow, Accumulators, Validator, Delegator
<1>4. /\ s \in RunningSettlement /\ Solvent(s) /\ s.ok = TRUE
      /\ s.del = del[v][caller]
  BY <1>3, SettlementType
<1>5. s.unclaimed = val[v].unclaimed
  BY SettlementPool
<1> HIDE DEF s
<1>6. /\ s.del.rewards + s.unclaimed = del[v][caller].rewards + val[v].unclaimed - 0
      /\ balance' = balance + value - 0
  BY <1>1, <1>2, <1>3, <1>4, <1>5
<1>7. PendingInWindow(s.del) /\ TotalStake(s.del) = TotalStake(del[v][caller])
  BY <1>3, <1>4
<1>7a. UNCHANGED registry /\ UNCHANGED withdrawals
  BY <1>1
<1>8. /\ Moves(v, caller, 0)
      /\ val'[v].auth = val[v].auth
      /\ \A u \in ValIds \ {v} : val'[u] = val[u]
      /\ val'[v].stake = val[v].stake + value
  <2>1. 0 \in Int /\ Ready(s)
    BY <1>4, <1>7 DEF Ready
  <2>2. Booked(v, caller, val[v], value, s, 0)
    BY <1>1, <1>6, <1>7, <1>7a DEF Booked
  <2> QED
    BY <1>2, <1>3, <2>1, <2>2, DelegateMoves
<1>9. \A u \in ValIds : val'[u].auth = val[u].auth
  BY <1>8
<1>10. ~(v > lastValId)
  BY <1>1 DEF Exists, BalanceInv, Registered, Untouched
<1> QED
  BY <1>7a, <1>8, <1>9, <1>10, 0 \in Int, MovesKeepBooks

\* Settling what belongs to an id not yet given finds nothing.
LEMMA NothingToSettle ==
    ASSUME BalanceInv, NEW v \in ValIds, NEW a \in Addrs, v > lastValId, Pulled(v, a).ok
    PROVE  Pulled(v, a).del.rewards = 0 /\ Pulled(v, a).unclaimed = 0
<1> DEFINE s == Pulled(v, a)
<1>1. Inv /\ Untouched(val, del, v)
  BY DEF BalanceInv, Registered
<1>2. /\ s.del \in Delegator /\ s.unclaimed \in Nat
      /\ s.del.rewards + s.unclaimed = del[v][a].rewards + val[v].unclaimed
  BY <1>1, PulledFacts
<1> HIDE DEF s
<1>3. s.del.rewards \in Nat /\ s.del.rewards + s.unclaimed = 0
  BY <1>1, <1>2 DEF Untouched, Delegator
<1> QED
  BY <1>2, <1>3 DEF s

\* Writing back a settled delegation, after paying out what it lost.
LEMMA StoreBooks ==
    ASSUME BalanceInv, Inv', NEW v \in ValIds, NEW a \in Addrs, NEW d \in Delegator,
           Pulled(v, a).ok, Store(v, a, Pulled(v, a), d),
           TotalStake(d) = TotalStake(Pulled(v, a).del),
           d.rewards \in {0, Pulled(v, a).del.rewards},
           balance' = balance - (Pulled(v, a).del.rewards - d.rewards),
           UNCHANGED registry
    PROVE  BalanceInv' /\ Moves(v, a, 0) /\ val'[v].stake = val[v].stake
<1> DEFINE s == Pulled(v, a)
           record == [val[v] EXCEPT !.unclaimed = s.unclaimed]
<1>1. /\ Inv
      /\ val \in [ValIds -> Validator] /\ del \in [ValIds -> [Addrs -> Delegator]]
      /\ val[v] \in Validator /\ del[v][a].rewards \in Int /\ val[v].unclaimed \in Int
      /\ balance \in Int
  BY DEF BalanceInv, Inv, TypeOK, Validator, Delegator
<1>2. /\ s.del \in Delegator /\ s.unclaimed \in Nat
      /\ TotalStake(s.del) = TotalStake(del[v][a])
      /\ s.del.rewards + s.unclaimed = del[v][a].rewards + val[v].unclaimed
  BY <1>1, PulledFacts
<1>3. v > lastValId => s.del.rewards = 0 /\ s.unclaimed = 0
  BY NothingToSettle
<1>4. /\ del' = [del EXCEPT ![v][a] = d]
      /\ val' = [val EXCEPT ![v].unclaimed = s.unclaimed]
      /\ withdrawals' = withdrawals
  BY DEF Store
<1>5. /\ d.rewards \in {0, s.del.rewards}
      /\ balance' = balance - (s.del.rewards - d.rewards)
      /\ TotalStake(d) = TotalStake(s.del)
  OBVIOUS
<1> HIDE DEF s
<1>6. s.del.rewards \in Int /\ d.rewards \in Int
  BY <1>2 DEF Delegator
<1>7. /\ \A u \in ValIds \ {v} : val'[u] = val[u]
      /\ val'[v].stake = val[v].stake
      /\ val'[v].auth = val[v].auth
      /\ val'[v].unclaimed = s.unclaimed
  <2>1. val' = [val EXCEPT ![v] = record]
    BY <1>1, <1>4
  <2>2. /\ record.stake = val[v].stake /\ record.auth = val[v].auth
        /\ record.unclaimed = s.unclaimed
    BY <1>1 DEF Validator
  <2> HIDE DEF record
  <2> QED
    BY <1>1, <2>1, <2>2
<1>8. del'[v][a] = d /\ \A u \in ValIds, b \in Addrs : u # v \/ b # a =>
          del'[u][b] = del[u][b]
  BY <1>1, <1>4
<1>9. SumFunction(Filed(withdrawals')) = SumFunction(Filed(withdrawals)) + 0
  BY <1>1, <1>4, UnmovedRequests DEF Inv
<1>10. TotalStake(del[v][a]) \in Int /\ val[v].stake \in Int
  BY <1>1 DEF TotalStake, Delegator, Validator
<1>11. /\ val'[v].stake - val[v].stake = 0
       /\ TotalStake(d) - TotalStake(del[v][a]) = 0
  BY <1>2, <1>5, <1>7, <1>10
<1>12. balance' - balance =
          0 + (s.unclaimed - val[v].unclaimed) + (d.rewards - del[v][a].rewards) + 0
  <2>1. /\ balance \in Int /\ del[v][a].rewards \in Int /\ val[v].unclaimed \in Int
        /\ s.unclaimed \in Int
    BY <1>1, <1>2
  <2>2. s.del.rewards + s.unclaimed = del[v][a].rewards + val[v].unclaimed
    BY <1>2
  <2>3. balance' = balance - (s.del.rewards - d.rewards)
    BY <1>5
  <2> QED
    BY ONLY <1>6, <2>1, <2>2, <2>3
<1>13. Moves(v, a, 0)
  BY <1>7, <1>8, <1>9, <1>11, <1>12 DEF Moves
<1>14. v > lastValId => val'[v].stake = 0 /\ val'[v].unclaimed = 0 /\ del'[v][a].rewards = 0
  BY <1>3, <1>5, <1>7, <1>8 DEF BalanceInv, Registered, Untouched
<1>15. 0 \in Int /\ \A u \in ValIds : val'[u].auth = val[u].auth
  BY <1>7
<1> QED
  BY <1>7, <1>13, <1>14, <1>15, MovesKeepBooks

\* claimRewards pays the rewards out, getDelegator pays nothing.
LEMMA SettlingBooks ==
    ASSUME BalanceInv, Inv', NEW v \in ValIds, NEW a \in Addrs,
           HandleClaimRewards(v, a) \/ HandleGetDelegator(v, a)
    PROVE  BalanceInv' /\ Moves(v, a, 0) /\ val'[v].stake = val[v].stake
<1> DEFINE s == Pulled(v, a)
           d == [s.del EXCEPT !.rewards = 0]
<1>1. s.ok
  BY DEF HandleClaimRewards, HandleGetDelegator
<1>2. s.del \in Delegator /\ s.del.rewards \in Int /\ balance \in Int
  <2>1. Inv /\ balance \in Nat
    BY DEF BalanceInv, Inv, TypeOK
  <2>2. s.del \in Delegator
    BY <1>1, <2>1, PulledFacts
  <2> HIDE DEF s
  <2> QED
    BY <2>1, <2>2 DEF Delegator
<1>3. CASE HandleClaimRewards(v, a)
  <2>1. /\ Store(v, a, s, d)
        /\ balance' = balance - s.del.rewards
        /\ UNCHANGED registry
    BY <1>3 DEF HandleClaimRewards, PayOut
  <2> HIDE DEF s
  <2>2. d \in Delegator /\ d.rewards = 0 /\ TotalStake(d) = TotalStake(s.del)
    BY <1>2 DEF Delegator, TotalStake
  <2>3. balance' = balance - (s.del.rewards - d.rewards)
    BY <1>2, <2>1, <2>2
  <2> HIDE DEF d
  <2>4. d.rewards \in {0, s.del.rewards}
    BY <2>2
  <2> QED
    BY <1>1, <2>1, <2>2, <2>3, <2>4, StoreBooks DEF s
<1>4. CASE HandleGetDelegator(v, a)
  <2>1. /\ Store(v, a, s, s.del)
        /\ balance' = balance
        /\ UNCHANGED registry
    BY <1>4 DEF HandleGetDelegator, money
  <2> HIDE DEF s
  <2>2. balance' = balance - (s.del.rewards - s.del.rewards)
    BY <1>2, <2>1
  <2> QED
    BY <1>1, <1>2, <2>1, <2>2, StoreBooks DEF s
<1> QED
  BY <1>3, <1>4

\* compound: the rewards of the delegation become its stake.
LEMMA CompoundBooks ==
    ASSUME BalanceInv, Inv', NEW v \in ValIds, NEW caller \in Addrs, HandleCompound(v, caller)
    PROVE  /\ BalanceInv' /\ Moves(v, caller, 0)
           /\ val'[v].stake = val[v].stake + Pulled(v, caller).del.rewards
<1> DEFINE s == Pulled(v, caller)
           cleared == [s EXCEPT !.del.rewards = 0]
           amount == s.del.rewards
<1>1. /\ s.ok
      /\ amount # 0
      /\ InternalDelegate(v, val[v], caller, amount, cleared)
      /\ UNCHANGED <<registry, withdrawals, money>>
  BY Zenon DEF HandleCompound
<1>2. /\ Inv
      /\ val[v] \in Validator /\ del[v][caller].rewards \in Int /\ val[v].unclaimed \in Int
      /\ val \in [ValIds -> Validator]
      /\ balance \in Int
  BY DEF BalanceInv, Inv, TypeOK, Validator, Delegator
<1>3. /\ s \in RunningSettlement /\ Solvent(s) /\ s.ok = TRUE
      /\ s.del \in Delegator /\ s.unclaimed \in Nat
      /\ PendingInWindow(s.del)
      /\ TotalStake(s.del) = TotalStake(del[v][caller])
      /\ s.del.rewards + s.unclaimed = del[v][caller].rewards + val[v].unclaimed
  BY <1>1, <1>2, PulledFacts
<1>4. v > lastValId => amount = 0
  BY <1>1, NothingToSettle
<1> HIDE DEF s
<1>5. amount \in Nat \ {0} /\ amount \in Int /\ amount = s.del.rewards
  BY <1>1, <1>3 DEF Delegator
<1>6. /\ cleared \in RunningSettlement
      /\ cleared.ok = s.ok
      /\ cleared.unclaimed = s.unclaimed
      /\ cleared.del.rewards = 0
      /\ cleared.del.stake = s.del.stake
      /\ cleared.del.deltaStake = s.del.deltaStake
      /\ cleared.del.nextDeltaStake = s.del.nextDeltaStake
      /\ cleared.del.deltaEpoch = s.del.deltaEpoch
      /\ cleared.del.nextDeltaEpoch = s.del.nextDeltaEpoch
  BY <1>3 DEF RunningSettlement, RunningDelegator
<1> HIDE DEF cleared, amount
<1>7. Ready(cleared)
  BY <1>3, <1>6 DEF Ready, Solvent, PendingInWindow
<1>8. /\ TotalStake(cleared.del) = TotalStake(del[v][caller])
      /\ cleared.del.rewards + cleared.unclaimed =
            del[v][caller].rewards + val[v].unclaimed - amount
      /\ balance' = balance + amount - amount
      /\ withdrawals' = withdrawals /\ UNCHANGED registry
  <2>1. balance' = balance /\ withdrawals' = withdrawals /\ UNCHANGED registry
    BY <1>1 DEF money
  <2>2. TotalStake(cleared.del) = TotalStake(s.del)
    BY <1>6 DEF TotalStake
  <2>3. /\ balance \in Int /\ del[v][caller].rewards \in Int /\ val[v].unclaimed \in Int
        /\ s.unclaimed \in Int
    BY <1>2, <1>3
  <2>4. /\ amount + s.unclaimed = del[v][caller].rewards + val[v].unclaimed
        /\ cleared.del.rewards + cleared.unclaimed = 0 + s.unclaimed
    BY <1>3, <1>5, <1>6
  <2>5. /\ cleared.del.rewards + cleared.unclaimed =
              del[v][caller].rewards + val[v].unclaimed - amount
        /\ balance' = balance + amount - amount
    BY ONLY <1>5, <2>1, <2>3, <2>4
  <2> QED
    BY <1>3, <2>1, <2>2, <2>5
<1>9. Booked(v, caller, val[v], amount, cleared, amount)
  BY <1>1, <1>8 DEF Booked
<1>10. /\ Moves(v, caller, 0)
       /\ val'[v].auth = val[v].auth
       /\ \A u \in ValIds \ {v} : val'[u] = val[u]
       /\ val'[v].stake = val[v].stake + amount
  BY <1>2, <1>5, <1>7, <1>9, DelegateMoves
<1>11. \A u \in ValIds : val'[u].auth = val[u].auth
  BY <1>10
<1>12. ~(v > lastValId) /\ 0 \in Int
  BY <1>4, <1>5
<1> QED
  BY <1>8, <1>10, <1>11, <1>12, MovesKeepBooks DEF amount, s

\* undelegate: stake becomes a withdrawal under way.
LEMMA UndelegateBooks ==
    ASSUME BalanceInv, Inv', NEW v \in ValIds, NEW caller \in Addrs,
           NEW asked \in UndelegateAmounts, NEW wid \in WithdrawIds,
           HandleUndelegate(v, caller, asked, wid)
    PROVE  /\ BalanceInv'
           /\ \E amount \in Nat :
                 /\ 0 < amount /\ amount <= TotalStake(del[v][caller])
                 /\ Moves(v, caller, amount)
                 /\ val'[v].stake = val[v].stake - amount
                 /\ \E r \in WithdrawalRequest :
                       /\ r.amount = amount /\ r.epoch = ActivationEpoch
                       /\ withdrawals' = [withdrawals EXCEPT ![v][caller][wid] = r]
<1> DEFINE s         == Pulled(v, caller)
           remaining == s.del.stake - asked
           amount    == IF remaining < DUST_THRESHOLD THEN s.del.stake ELSE asked
           left      == s.del.stake - amount
           acc       == IF s.del.stake = amount THEN 0 ELSE s.del.acc
           d         == [s.del EXCEPT !.stake = left, !.acc = acc]
           stake     == val[v].stake - amount
           staked    == [val[v] EXCEPT !.stake = stake, !.unclaimed = s.unclaimed]
           flags     == FlagsAfterUndelegate(staked, d, caller)
           new       == [staked EXCEPT !.flags = flags]
           r         == UndelegateRequest(s.del, d, amount)
<1>1. /\ s.ok
      /\ Exists(v)
      /\ asked # 0 /\ asked <= s.del.stake
      /\ withdrawals[v][caller][wid].amount = 0
      /\ del' = [del EXCEPT ![v][caller] = d]
      /\ val' = [val EXCEPT ![v] = new]
      /\ withdrawals' = [withdrawals EXCEPT ![v][caller][wid] = r]
      /\ UNCHANGED <<registry, money>>
  BY DEF HandleUndelegate
<1>2. /\ Inv
      /\ val \in [ValIds -> Validator] /\ del \in [ValIds -> [Addrs -> Delegator]]
      /\ val[v] \in Validator /\ val[v].stake \in Int /\ val[v].unclaimed \in Int
      /\ del[v][caller].rewards \in Int /\ TotalStake(del[v][caller]) \in Int
      /\ balance \in Int
      /\ epoch \in 0 .. MaxEpoch /\ inBoundary \in BOOLEAN
  BY DEF BalanceInv, Inv, TypeOK, Validator, Delegator, TotalStake
<1>3. /\ s.del \in Delegator /\ s.unclaimed \in Int
      /\ TotalStake(s.del) = TotalStake(del[v][caller])
      /\ s.del.rewards + s.unclaimed = del[v][caller].rewards + val[v].unclaimed
  <2>1. s.ok /\ Inv
    BY <1>1, <1>2
  <2>2. /\ s.del \in Delegator /\ s.unclaimed \in Nat
        /\ TotalStake(s.del) = TotalStake(del[v][caller])
        /\ s.del.rewards + s.unclaimed = del[v][caller].rewards + val[v].unclaimed
    BY <2>1, PulledFacts
  <2> QED
    BY <2>2
<1> HIDE DEF s
<1>4. /\ asked \in Nat /\ s.del.stake \in Nat /\ s.del.acc \in Nat /\ s.del.rewards \in Int
      /\ s.del.deltaStake \in Nat /\ s.del.nextDeltaStake \in Nat
  BY <1>3, StakingAssumption DEF Delegator
<1>5. amount \in Nat /\ amount \in Int /\ 0 < amount /\ amount <= s.del.stake
  BY <1>1, <1>4
<1>6. /\ new.stake = stake /\ new.unclaimed = s.unclaimed /\ new.auth = val[v].auth
      /\ d.stake = left /\ d.rewards = s.del.rewards
      /\ d.deltaStake = s.del.deltaStake /\ d.nextDeltaStake = s.del.nextDeltaStake
  <2> HIDE DEF amount, left, acc, stake
  <2>1. /\ d.stake = left /\ d.rewards = s.del.rewards
        /\ d.deltaStake = s.del.deltaStake /\ d.nextDeltaStake = s.del.nextDeltaStake
    BY <1>3 DEF Delegator
  <2>2. new.stake = stake /\ new.unclaimed = s.unclaimed /\ new.auth = val[v].auth
    BY <1>2 DEF Validator
  <2> QED
    BY <2>1, <2>2
<1>7. r \in WithdrawalRequest /\ r.amount = amount /\ r.epoch = ActivationEpoch
  <2> HIDE DEF amount, d
  <2> QED
    BY <1>2, <1>4, <1>5, ActivationEpochType
       DEF UndelegateRequest, WithdrawalRequest, Epochs
<1> HIDE DEF amount, d, new, r
<1>8. SumFunction(Filed(withdrawals')) = SumFunction(Filed(withdrawals)) + amount
  <2>1. SumFunction(Filed(withdrawals')) =
            SumFunction(Filed(withdrawals)) + (r.amount - withdrawals[v][caller][wid].amount)
    BY <1>1, <1>2, <1>7, RequestReplaced DEF Inv
  <2>2. r.amount - withdrawals[v][caller][wid].amount = amount
    BY <1>1, <1>5, <1>7
  <2> QED
    BY <2>1, <2>2, Zenon
<1>9. /\ \A u \in ValIds \ {v} : val'[u] = val[u]
      /\ val'[v] = new
      /\ del'[v][caller] = d
      /\ \A u \in ValIds, b \in Addrs : u # v \/ b # caller => del'[u][b] = del[u][b]
  BY <1>1, <1>2
<1>10. TotalStake(d) = TotalStake(del[v][caller]) - amount
  BY <1>3, <1>4, <1>5, <1>6 DEF TotalStake
<1>11. /\ val'[v].stake - val[v].stake = TotalStake(d) - TotalStake(del[v][caller])
       /\ balance' - balance =
             (val'[v].stake - val[v].stake) + (s.unclaimed - val[v].unclaimed)
           + (d.rewards - del[v][caller].rewards) + amount
  <2>1. val'[v].stake = val[v].stake - amount
    BY <1>6, <1>9
  <2>2. balance' = balance
    BY <1>1 DEF money
  <2>3. /\ val[v].stake \in Int /\ val[v].unclaimed \in Int
        /\ del[v][caller].rewards \in Int /\ TotalStake(del[v][caller]) \in Int
        /\ balance \in Int /\ s.unclaimed \in Int /\ d.rewards \in Int
    BY <1>2, <1>3, <1>4, <1>6
  <2>4. d.rewards + s.unclaimed = del[v][caller].rewards + val[v].unclaimed
    BY <1>3, <1>6
  <2> QED
    BY ONLY <1>5, <1>10, <2>1, <2>2, <2>3, <2>4
<1>12. Moves(v, caller, amount)
  BY <1>6, <1>8, <1>9, <1>11 DEF Moves
<1>13. \A u \in ValIds : val'[u].auth = val[u].auth
  BY <1>6, <1>9
<1>14. ~(v > lastValId) /\ UNCHANGED registry
  BY <1>1 DEF Exists, BalanceInv, Registered, Untouched
<1> QED
  <2>1. BalanceInv'
    BY <1>5, <1>12, <1>13, <1>14, MovesKeepBooks
  <2>2. amount <= TotalStake(del[v][caller])
    BY <1>3, <1>4, <1>5 DEF TotalStake
  <2>3. val'[v].stake = val[v].stake - amount
    BY <1>6, <1>9
  <2> QED
    BY <1>1, <1>5, <1>7, <1>12, <2>1, <2>2, <2>3

\* withdraw: what was under way is paid out with what it has earned.
LEMMA WithdrawBooks ==
    ASSUME BalanceInv, Inv', NEW v \in ValIds, NEW caller \in Addrs, NEW wid \in WithdrawIds,
           HandleWithdraw(v, caller, wid)
    PROVE  LET r == withdrawals[v][caller][wid]
           IN  /\ BalanceInv'
               /\ Moves(v, caller, 0 - r.amount)
               /\ val'[v].stake = val[v].stake
               /\ WithdrawalRewards(v, r) \in Nat
<1> DEFINE r == withdrawals[v][caller][wid]
           rewards == WithdrawalRewards(v, r)
           unclaimed == val[v].unclaimed - rewards
           record == [val[v] EXCEPT !.unclaimed = unclaimed]
           filed == 0 - r.amount
<1>1. /\ WithdrawalReady(r)
      /\ r.acc <= SnapshotValue(accs[v], r.epoch)
      /\ rewards <= val[v].unclaimed
      /\ val' = [val EXCEPT ![v].unclaimed = @ - rewards]
      /\ balance' = balance - (r.amount + rewards)
      /\ withdrawals' = [withdrawals EXCEPT ![v][caller][wid] = NoWithdrawal]
      /\ UNCHANGED <<registry, del>>
  BY DEF HandleWithdraw, PayOut
<1>2. /\ Inv
      /\ r \in WithdrawalRequest
      /\ accs[v] \in Accumulators
      /\ val \in [ValIds -> Validator]
      /\ val[v] \in Validator /\ val[v].unclaimed \in Nat
      /\ val[v].stake \in Int
      /\ del[v][caller].rewards \in Int /\ TotalStake(del[v][caller]) \in Int
      /\ balance \in Int
      /\ epoch \in 0 .. MaxEpoch
  BY DEF BalanceInv, Inv, TypeOK, Validator, Accumulators, Delegator, TotalStake
<1>3. SumFunction(Filed(withdrawals')) = SumFunction(Filed(withdrawals)) + filed
  <2>1. NoWithdrawal \in WithdrawalRequest /\ NoWithdrawal.amount = 0
    BY DEF NoWithdrawal, WithdrawalRequest
  <2> HIDE DEF NoWithdrawal
  <2>2. SumFunction(Filed(withdrawals')) =
            SumFunction(Filed(withdrawals)) + (NoWithdrawal.amount - r.amount)
    BY <1>1, <1>2, <2>1, RequestReplaced DEF Inv
  <2> QED
    BY <2>1, <2>2
<1> HIDE DEF r
<1>4. r.amount \in Nat /\ r.acc \in Nat /\ r.epoch \in Nat
  BY <1>2 DEF WithdrawalRequest
<1>5. r.epoch \in Epochs
  BY <1>1, <1>2, <1>4, StakingAssumption DEF WithdrawalReady, IsEpochActive, Epochs
<1>6. SnapshotValue(accs[v], r.epoch) \in Nat
  BY <1>2, <1>5, SnapshotValueType
<1>7. rewards \in Nat
  BY <1>1, <1>4, <1>6, CalculateRewardsType DEF WithdrawalRewards
<1> HIDE DEF rewards
<1>8. /\ \A u \in ValIds \ {v} : val'[u] = val[u]
      /\ val'[v].stake = val[v].stake
      /\ val'[v].auth = val[v].auth
      /\ val'[v].unclaimed = val[v].unclaimed - rewards
  <2>1. val' = [val EXCEPT ![v] = record]
    BY <1>1, <1>2
  <2>2. record.stake = val[v].stake /\ record.auth = val[v].auth
        /\ record.unclaimed = unclaimed
    BY <1>2 DEF Validator
  <2> HIDE DEF record
  <2> QED
    BY <1>2, <2>1, <2>2
<1>9. /\ val'[v].stake - val[v].stake =
            TotalStake(del[v][caller]) - TotalStake(del[v][caller])
      /\ balance' - balance =
            (val'[v].stake - val[v].stake) + (val'[v].unclaimed - val[v].unclaimed)
          + (del[v][caller].rewards - del[v][caller].rewards) + filed
  <2>1. /\ val[v].stake \in Int /\ val[v].unclaimed \in Int
        /\ del[v][caller].rewards \in Int /\ TotalStake(del[v][caller]) \in Int
        /\ balance \in Int
    BY <1>2
  <2>2. /\ val'[v].stake = val[v].stake
        /\ val'[v].unclaimed = val[v].unclaimed - rewards
        /\ balance' = balance - (r.amount + rewards)
    BY <1>1, <1>8
  <2> QED
    BY ONLY <1>4, <1>7, <2>1, <2>2
<1>10. filed \in Int
  BY <1>4
<1> HIDE DEF filed
<1>11. Moves(v, caller, filed)
  BY <1>1, <1>3, <1>8, <1>9 DEF Moves
<1>12. v > lastValId => val'[v].stake = 0 /\ val'[v].unclaimed = 0 /\ del'[v][caller].rewards = 0
  <2> SUFFICES ASSUME v > lastValId
               PROVE  val'[v].stake = 0 /\ val'[v].unclaimed = 0 /\ del'[v][caller].rewards = 0
    OBVIOUS
  <2>1. Untouched(val, del, v)
    BY DEF BalanceInv, Registered
  <2>2. val[v].unclaimed = 0 /\ rewards <= 0
    BY <1>1, <2>1 DEF Untouched
  <2>3. val'[v].unclaimed = 0
    BY ONLY <1>7, <1>8, <2>2
  <2> QED
    BY <1>1, <1>8, <2>1, <2>3 DEF Untouched
<1>13. UNCHANGED registry /\ \A u \in ValIds : val'[u].auth = val[u].auth
  BY <1>1, <1>8
<1> QED
  BY <1>7, <1>8, <1>10, <1>11, <1>12, <1>13, MovesKeepBooks DEF r, rewards, filed

\* externalReward: what was paid in joins the pool.
LEMMA ExternalRewardBooks ==
    ASSUME BalanceInv, Inv', NEW v \in ValIds, NEW caller \in Addrs,
           NEW value \in ExternalRewards, HandleExternalReward(v, caller, value)
    PROVE  BalanceInv' /\ Moves(v, caller, 0) /\ val'[v].stake = val[v].stake
<1> DEFINE new == val[v].acc + PerToken(value, CurrentView(v).stake)
           pool == val[v].unclaimed + value
           record == [val[v] EXCEPT !.acc = new, !.unclaimed = pool]
<1>1. /\ Exists(v)
      /\ balance' = balance + value
      /\ val' = [val EXCEPT ![v].acc = @ + PerToken(value, CurrentView(v).stake),
                            ![v].unclaimed = @ + value]
      /\ UNCHANGED <<registry, del, withdrawals>>
  BY DEF HandleExternalReward, Pay
<1>2. /\ Inv /\ TypeOK
      /\ val \in [ValIds -> Validator]
      /\ val[v] \in Validator /\ val[v].unclaimed \in Int
      /\ val[v].stake \in Int
      /\ del[v][caller].rewards \in Int /\ TotalStake(del[v][caller]) \in Int
      /\ balance \in Int
  BY DEF BalanceInv, Inv, TypeOK, Validator, Delegator, TotalStake
<1>3. value \in Int
  BY StakingAssumption
<1>4. val' = [val EXCEPT ![v] = record]
  BY <1>1, <1>2 DEF Validator
<1> HIDE DEF new
<1>5. /\ record.stake = val[v].stake /\ record.auth = val[v].auth
      /\ record.unclaimed = pool
  BY <1>2 DEF Validator
<1> HIDE DEF record
<1>6. /\ \A u \in ValIds \ {v} : val'[u] = val[u]
      /\ val'[v].stake = val[v].stake
      /\ val'[v].auth = val[v].auth
      /\ val'[v].unclaimed = val[v].unclaimed + value
  BY <1>2, <1>4, <1>5
<1>7. SumFunction(Filed(withdrawals')) = SumFunction(Filed(withdrawals)) + 0
  BY <1>1, <1>2, UnmovedRequests
<1>8. /\ val'[v].stake - val[v].stake =
            TotalStake(del[v][caller]) - TotalStake(del[v][caller])
      /\ balance' - balance =
            (val'[v].stake - val[v].stake) + (val'[v].unclaimed - val[v].unclaimed)
          + (del[v][caller].rewards - del[v][caller].rewards) + 0
  <2>1. /\ val[v].stake \in Int /\ val[v].unclaimed \in Int
        /\ del[v][caller].rewards \in Int /\ TotalStake(del[v][caller]) \in Int
        /\ balance \in Int
    BY <1>2
  <2>2. /\ val'[v].stake = val[v].stake
        /\ val'[v].unclaimed = val[v].unclaimed + value
        /\ balance' = balance + value
    BY <1>1, <1>6
  <2> QED
    BY ONLY <1>3, <2>1, <2>2
<1>9. Moves(v, caller, 0)
  BY <1>1, <1>6, <1>7, <1>8 DEF Moves
<1>10. ~(v > lastValId) /\ 0 \in Int
  BY <1>1 DEF Exists, BalanceInv, Registered, Untouched
<1>11. UNCHANGED registry /\ \A u \in ValIds : val'[u].auth = val[u].auth
  BY <1>1, <1>6
<1> QED
  BY <1>6, <1>9, <1>10, <1>11, MovesKeepBooks

\* syscallReward: the reward minted into the account is the commission of the
\* auth address and the share of the pool.
LEMMA SyscallRewardBooks ==
    ASSUME BalanceInv, Inv', NEW author \in Addrs, NEW reward \in BlockRewards,
           HandleSyscallReward(author, reward)
    PROVE  /\ BalanceInv'
           /\ \E v \in ValIds, a \in Addrs :
                 Moves(v, a, 0) /\ val'[v].stake = val[v].stake
<1> DEFINE v == valIdSecp[author]
           view == CurrentView(v)
           commission == (reward * view.commission) \div MON
           shared == reward - commission
           auth == val[v].auth
           new == val[v].acc + PerToken(shared, view.stake)
           pool == val[v].unclaimed + shared
           record == [val[v] EXCEPT !.acc = new, !.unclaimed = pool]
           credited == del[v][auth].rewards + commission
           d == [del[v][auth] EXCEPT !.rewards = credited]
<1>1. /\ v # NO_VALIDATOR
      /\ del' = [del EXCEPT ![v][auth].rewards = @ + commission]
      /\ val' = [val EXCEPT ![v].unclaimed = @ + shared,
                            ![v].acc = @ + PerToken(shared, view.stake)]
      /\ balance' = balance + reward
      /\ UNCHANGED <<registry, withdrawals>>
  BY DEF HandleSyscallReward, DistributeReward
<1>2. v \in ValIds /\ v <= lastValId /\ v \in Int
  BY <1>1, StakingAssumption DEF BalanceInv, Inv, TypeOK, Registered, NO_VALIDATOR, ValIds
<1>3. view.commission \in Nat
  BY <1>2 DEF BalanceInv, Inv, TypeOK, View, CurrentView
<1> HIDE DEF v, view
<1>4. commission \in Int /\ reward \in Int
  <2>1. \A x, y \in Nat : x * y \in Nat
    OBVIOUS
  <2>2. reward \in Nat /\ MON \in Nat \ {0}
    BY StakingAssumption, StakingConstantsAssumption
  <2>3. reward * view.commission \in Nat
    BY <1>3, <2>1, <2>2
  <2>4. \A n \in Nat : n \div MON \in Nat
    BY <2>2
  <2> QED
    BY <2>2, <2>3, <2>4
<1> HIDE DEF commission
<1>5. /\ Inv /\ TypeOK
      /\ val \in [ValIds -> Validator] /\ del \in [ValIds -> [Addrs -> Delegator]]
      /\ val[v] \in Validator /\ val[v].unclaimed \in Int
      /\ val[v].stake \in Int
      /\ balance \in Int
  BY <1>2 DEF BalanceInv, Inv, TypeOK, Validator
<1>6. auth \in Addrs
  BY <1>2, <1>5 DEF BalanceInv, Registered, Validator
<1>7. /\ del[v][auth] \in Delegator
      /\ del[v][auth].rewards \in Int /\ TotalStake(del[v][auth]) \in Int
  BY <1>2, <1>5, <1>6 DEF Delegator, TotalStake
<1>8. /\ val' = [val EXCEPT ![v] = record]
      /\ del' = [del EXCEPT ![v][auth] = d]
  BY <1>1, <1>2, <1>5, <1>6 DEF Validator
<1>9. /\ record.stake = val[v].stake /\ record.auth = val[v].auth
      /\ record.unclaimed = pool
  <2> HIDE DEF new, pool
  <2> QED
    BY <1>5 DEF Validator
<1>10. d.rewards = credited /\ TotalStake(d) = TotalStake(del[v][auth])
  <2> HIDE DEF credited
  <2> QED
    BY <1>7 DEF Delegator, TotalStake
<1> HIDE DEF record, d
<1>11. /\ \A u \in ValIds \ {v} : val'[u] = val[u]
       /\ val'[v].stake = val[v].stake
       /\ val'[v].auth = val[v].auth
       /\ val'[v].unclaimed = val[v].unclaimed + shared
  BY <1>2, <1>5, <1>8, <1>9
<1>12. /\ del'[v][auth] = d
       /\ \A u \in ValIds, b \in Addrs : u # v \/ b # auth => del'[u][b] = del[u][b]
  BY <1>2, <1>5, <1>6, <1>8
<1>13. SumFunction(Filed(withdrawals')) = SumFunction(Filed(withdrawals)) + 0
  BY <1>1, <1>5, UnmovedRequests
<1>14. /\ val'[v].stake - val[v].stake = TotalStake(d) - TotalStake(del[v][auth])
       /\ balance' - balance =
             (val'[v].stake - val[v].stake) + (val'[v].unclaimed - val[v].unclaimed)
           + (d.rewards - del[v][auth].rewards) + 0
  <2>1. /\ val[v].stake \in Int /\ val[v].unclaimed \in Int
        /\ del[v][auth].rewards \in Int /\ TotalStake(del[v][auth]) \in Int
        /\ balance \in Int
    BY <1>5, <1>7
  <2>2. /\ val'[v].stake = val[v].stake
        /\ val'[v].unclaimed = val[v].unclaimed + (reward - commission)
        /\ d.rewards = del[v][auth].rewards + commission
        /\ TotalStake(d) = TotalStake(del[v][auth])
        /\ balance' = balance + reward
    BY <1>1, <1>10, <1>11
  <2> QED
    BY ONLY <1>4, <2>1, <2>2
<1>15. Moves(v, auth, 0)
  BY <1>2, <1>6, <1>11, <1>12, <1>13, <1>14 DEF Moves
<1>16. ~(v > lastValId) /\ 0 \in Int
  BY <1>2 DEF BalanceInv, Inv, TypeOK
<1>17. UNCHANGED registry /\ \A u \in ValIds : val'[u].auth = val[u].auth
  BY <1>1, <1>11
<1> HIDE DEF auth
<1> QED
  BY <1>2, <1>6, <1>11, <1>15, <1>16, <1>17, MovesKeepBooks

\* Calls that move nothing.
LEMMA UnmovedBooks ==
    ASSUME BalanceInv, Inv',
           \A u \in ValIds :
              /\ val'[u].stake = val[u].stake
              /\ val'[u].unclaimed = val[u].unclaimed
              /\ val'[u].auth = val[u].auth,
           UNCHANGED <<registry, del, withdrawals, balance>>
    PROVE  BalanceInv'
<1>1. /\ lastValId' = lastValId /\ valIdSecp' = valIdSecp
      /\ del' = del /\ withdrawals' = withdrawals /\ balance' = balance
  BY DEF registry
<1>2. Pools(val') = Pools(val)
  BY DEF Pools
<1>3. balance = SumFunction(Pools(val)) + SumFunction(Credits(del))
              + SumFunction(Filed(withdrawals))
  BY Zenon DEF BalanceInv, ContractBalanced, Pools, Credits, Filed, Requests
<1>4. balance' = SumFunction(Pools(val')) + SumFunction(Credits(del'))
               + SumFunction(Filed(withdrawals'))
  BY <1>1, <1>2, <1>3, Zenon
<1>5. \A u \in ValIds : val[u].stake = SumFunction(StakesOf(del, u))
  BY Zenon DEF BalanceInv, ContractBalanced, StakesOf
<1>6. \A u \in ValIds : val'[u].stake = SumFunction(StakesOf(del', u))
  BY <1>1, <1>5, Zenon
<1>7. ContractBalanced'
  BY <1>4, <1>6, Zenon DEF ContractBalanced, StakesOf, Pools, Credits, Filed, Requests
<1>8. Registered'
  BY <1>1 DEF BalanceInv, Registered, Untouched
<1> QED
  BY <1>7, <1>8 DEF BalanceInv

LEMMA OtherBooks ==
    ASSUME BalanceInv, Inv',
           \/ \E v \in ValIds, caller \in Addrs, c \in Commissions :
                 HandleChangeCommission(v, caller, c)
           \/ HandleSyscallSnapshot
           \/ \E next \in 1 .. MaxEpoch : HandleSyscallOnEpochChange(next)
           \/ UNCHANGED vars
    PROVE  BalanceInv'
<1>1. val \in [ValIds -> Validator]
  BY DEF BalanceInv, Inv, TypeOK
<1>2. ASSUME NEW v \in ValIds, NEW caller \in Addrs, NEW c \in Commissions,
             HandleChangeCommission(v, caller, c)
      PROVE  BalanceInv'
  <2>1. /\ val' = [val EXCEPT ![v].commission = c]
        /\ UNCHANGED <<registry, del, withdrawals, balance>>
    BY <1>2 DEF HandleChangeCommission, money
  <2>2. \A u \in ValIds :
              /\ val'[u].stake = val[u].stake
              /\ val'[u].unclaimed = val[u].unclaimed
              /\ val'[u].auth = val[u].auth
    BY <1>1, <2>1 DEF Validator
  <2> QED
    BY <2>1, <2>2, UnmovedBooks
<1>3. ASSUME \/ HandleSyscallSnapshot
             \/ \E next \in 1 .. MaxEpoch : HandleSyscallOnEpochChange(next)
             \/ UNCHANGED vars
      PROVE  BalanceInv'
  <2>1. UNCHANGED <<registry, del, withdrawals, balance>> /\ val' = val
    BY <1>3 DEF HandleSyscallSnapshot, HandleSyscallOnEpochChange, vars, ledger, money
  <2> QED
    BY <2>1, UnmovedBooks
<1> QED
  BY <1>2, <1>3

\* Every step, in any order of system calls.
LEMMA BalanceStep ==
    ASSUME BalanceInv, [AnyOrderNext]_vars
    PROVE  BalanceInv'
<1>1. Inv'
  BY AnyOrderStep DEF BalanceInv
<1>2. CASE UserCall
  <2>1. PICK caller \in Addrs :
        \/ \E auth \in Addrs, bls \in BlsKeys, c \in Commissions,
              value \in DelegateAmounts :
                 HandleAddValidator(caller, auth, bls, c, value)
        \/ \E v \in ValIds :
              \/ \E value \in DelegateAmounts : HandleDelegate(v, caller, value)
              \/ \E amount \in UndelegateAmounts, wid \in WithdrawIds :
                    HandleUndelegate(v, caller, amount, wid)
              \/ \E wid \in WithdrawIds : HandleWithdraw(v, caller, wid)
              \/ HandleClaimRewards(v, caller)
              \/ HandleCompound(v, caller)
              \/ HandleGetDelegator(v, caller)
              \/ \E c \in Commissions : HandleChangeCommission(v, caller, c)
              \/ \E value \in ExternalRewards :
                    HandleExternalReward(v, caller, value)
    BY <1>2 DEF UserCall
  <2> QED
    BY <1>1, <2>1, AddValidatorBooks, DelegateBooks, UndelegateBooks, WithdrawBooks,
       SettlingBooks, CompoundBooks, ExternalRewardBooks, OtherBooks, Zenon
<1>3. CASE BlockCall
  BY <1>1, <1>3, SyscallRewardBooks, OtherBooks DEF BlockCall
<1> QED
  BY <1>1, <1>2, <1>3, OtherBooks DEF AnyOrderNext

\* Nothing is owed at the start.
LEMMA InitBooks ==
    ASSUME Init
    PROVE  BalanceInv
<1>1. Inv
  BY InitInv
<1>2. /\ lastValId = 0 /\ balance = 0
      /\ val = [v \in ValIds |-> NoValidator]
      /\ del = [v \in ValIds |-> [a \in Addrs |-> NoDelegator]]
      /\ withdrawals =
            [v \in ValIds |-> [a \in Addrs |-> [w \in WithdrawIds |-> NoWithdrawal]]]
      /\ valIdSecp = [a \in Addrs |-> 0]
  BY DEF Init, NO_VALIDATOR
<1>3. /\ \A v \in ValIds : DOMAIN StakesOf(del, v) = Addrs
      /\ DOMAIN Pools(val) = ValIds /\ DOMAIN Credits(del) = Pairs
      /\ DOMAIN Filed(withdrawals) = Requests
  BY DEF StakesOf, Pools, Credits, Filed
<1>4. \A v \in ValIds : \A a \in Addrs : StakesOf(del, v)[a] = 0
  BY <1>2 DEF StakesOf, TotalStake, NoDelegator
<1>5. \A v \in ValIds : Pools(val)[v] = 0
  BY <1>2 DEF Pools, NoValidator
<1>6. \A p \in Pairs : Credits(del)[p] = 0
  BY <1>2 DEF Credits, Pairs, NoDelegator
<1>7. \A p \in Requests : Filed(withdrawals)[p] = 0
  BY <1>2 DEF Filed, Requests, NoWithdrawal
<1>8. \A v \in ValIds : SumFunction(StakesOf(del, v)) = 0
  <2> SUFFICES ASSUME NEW v \in ValIds PROVE SumFunction(StakesOf(del, v)) = 0
    OBVIOUS
  <2> DEFINE f == StakesOf(del, v)
  <2>1. SumFunctionOnSet(f, Addrs) = 0
    BY <1>4, FiniteDomains, SumZero
  <2> QED
    BY <1>3, <2>1, Zenon DEF SumFunction
<1>9. /\ SumFunctionOnSet(Pools(val), ValIds) = 0
      /\ SumFunctionOnSet(Credits(del), Pairs) = 0
      /\ SumFunctionOnSet(Filed(withdrawals), Requests) = 0
  BY <1>5, <1>6, <1>7, FiniteDomains, SumZero
<1>10. /\ SumFunction(Pools(val)) = 0
       /\ SumFunction(Credits(del)) = 0
       /\ SumFunction(Filed(withdrawals)) = 0
  BY <1>3, <1>9, Zenon DEF SumFunction
<1>11. balance = SumFunction(Pools(val)) + SumFunction(Credits(del))
               + SumFunction(Filed(withdrawals))
  BY <1>2, <1>10
<1>12. \A v \in ValIds : val[v].stake = SumFunction(StakesOf(del, v))
  BY <1>2, <1>8 DEF NoValidator
<1>13. ContractBalanced
  BY <1>11, <1>12, Zenon DEF ContractBalanced, StakesOf, Pools, Credits, Filed, Requests
<1>14. Registered
  BY <1>2 DEF Registered, Untouched, NoValidator, NoDelegator, ValIds
<1> QED
  BY <1>1, <1>13, <1>14 DEF BalanceInv

(***************************************************************************)
(* The account of the precompile holds exactly what it owes, after every   *)
(* call: no stake, reward or withdrawal is lost, and none is promised that *)
(* nobody paid in.                                                         *)
(***************************************************************************)
THEOREM BooksBalance == AnyOrderSpec => []ContractBalanced
<1>1. Init => BalanceInv
  BY InitBooks
<1>2. BalanceInv /\ [AnyOrderNext]_vars => BalanceInv'
  BY BalanceStep
<1>3. BalanceInv => ContractBalanced
  BY DEF BalanceInv
<1> QED
  BY <1>1, <1>2, <1>3, PTL DEF AnyOrderSpec

-----------------------------------------------------------------------------
(***************************************************************************)
(* The escrow the precompile implements.  The books above say what a call  *)
(* does to one validator and one delegation; here it is read off as what   *)
(* is entrusted and what is in the pots.                                   *)
(***************************************************************************)
RewardsOf(D, v) == [a \in Addrs |-> D[v][a].rewards]

\* The types of the escrow's state.
LEMMA EscrowTypes ==
    ASSUME TypeOK
    PROVE  /\ Entrusted \in [ValIds -> [Addrs -> Nat]]
           /\ RewardPots \in [ValIds -> Int]
           /\ \A v \in ValIds : RewardsOf(del, v) \in [Addrs -> Int]
           /\ \A v \in ValIds, a \in Addrs :
                 /\ val[v].unclaimed \in Nat
                 /\ del[v][a].rewards \in Nat
                 /\ val[v].unclaimed <= RewardPots[v]
                 /\ val[v].unclaimed + del[v][a].rewards <= RewardPots[v]
<1>1. /\ val \in [ValIds -> Validator] /\ del \in [ValIds -> [Addrs -> Delegator]]
  BY DEF TypeOK
<1>2. \A v \in ValIds, a \in Addrs :
          /\ val[v].unclaimed \in Nat /\ del[v][a].rewards \in Nat
          /\ TotalStake(del[v][a]) \in Nat
  BY <1>1 DEF Validator, Delegator, TotalStake
<1>3. Entrusted \in [ValIds -> [Addrs -> Nat]]
  BY <1>2 DEF Entrusted
<1>4. ASSUME NEW v \in ValIds
      PROVE  /\ val[v].unclaimed \in Nat
             /\ RewardsOf(del, v) \in [Addrs -> Int]
             /\ SumFunction(RewardsOf(del, v)) \in Nat
             /\ \A a \in Addrs : del[v][a].rewards <= SumFunction(RewardsOf(del, v))
             /\ RewardPots[v] = val[v].unclaimed + SumFunction(RewardsOf(del, v))
  <2> DEFINE f == RewardsOf(del, v)
  <2>1. /\ f \in [Addrs -> Int] /\ \A a \in Addrs : f[a] = del[v][a].rewards /\ f[a] \in Nat
    BY <1>2 DEF RewardsOf
  <2>2. RewardPots[v] = val[v].unclaimed + SumFunction(f)
    BY Zenon DEF RewardPots, RewardsOf
  <2> HIDE DEF f
  <2>3. DOMAIN f = Addrs
    BY <2>1, Zenon
  <2>4. SumFunction(f) = SumFunctionOnSet(f, Addrs)
    BY <2>3, Zenon DEF SumFunction
  <2>5. SumFunctionOnSet(f, Addrs) \in Nat
    BY <2>1, FiniteDomains, SumNat
  <2>6. \A a \in Addrs : f[a] <= SumFunctionOnSet(f, Addrs)
    BY <2>1, FiniteDomains, SumMember
  <2>7. SumFunction(f) \in Nat /\ \A a \in Addrs : del[v][a].rewards <= SumFunction(f)
    BY <2>1, <2>4, <2>5, <2>6
  <2>8. val[v].unclaimed \in Nat
    BY <1>1 DEF Validator
  <2> QED
    BY <2>1, <2>2, <2>7, <2>8 DEF f
<1>5. \A v \in ValIds : RewardPots[v] \in Int
  BY <1>2, <1>4
<1>6. RewardPots \in [ValIds -> Int]
  BY <1>5 DEF RewardPots
<1>7. ASSUME NEW v \in ValIds, NEW a \in Addrs
      PROVE  /\ val[v].unclaimed <= RewardPots[v]
             /\ val[v].unclaimed + del[v][a].rewards <= RewardPots[v]
  <2> DEFINE sum == SumFunction(RewardsOf(del, v))
  <2>1. /\ sum \in Nat /\ del[v][a].rewards <= sum /\ RewardPots[v] = val[v].unclaimed + sum
    BY <1>4
  <2> HIDE DEF sum
  <2> QED
    BY <1>2, <2>1
<1> QED
  BY <1>2, <1>3, <1>4, <1>6, <1>7

(***************************************************************************)
(* A call that moves `staked' into the delegation and brings `paid' into   *)
(* the account, `filed' of it under way out, adds the rest to the pot.     *)
(***************************************************************************)
LEMMA MovesEscrow ==
    ASSUME TypeOK, TypeOK', NEW v \in ValIds, NEW a \in Addrs,
           NEW filed \in Int, NEW staked \in Int, NEW gained \in Int,
           Moves(v, a, filed),
           val'[v].stake = val[v].stake + staked,
           balance' = balance + staked + filed + gained
    PROVE  /\ Entrusted' = [Entrusted EXCEPT ![v][a] = Entrusted[v][a] + staked]
           /\ RewardPots' = [RewardPots EXCEPT ![v] = RewardPots[v] + gained]
<1>1. /\ val \in [ValIds -> Validator] /\ val' \in [ValIds -> Validator]
      /\ del \in [ValIds -> [Addrs -> Delegator]] /\ del' \in [ValIds -> [Addrs -> Delegator]]
      /\ balance \in Int /\ balance' \in Int
  BY DEF TypeOK
<1>2. /\ val[v].stake \in Int /\ val'[v].stake \in Int
      /\ val[v].unclaimed \in Int /\ val'[v].unclaimed \in Int
      /\ del[v][a].rewards \in Int /\ del'[v][a].rewards \in Int
      /\ TotalStake(del[v][a]) \in Int /\ TotalStake(del'[v][a]) \in Int
  BY <1>1 DEF Validator, Delegator, TotalStake
<1>3. /\ \A u \in ValIds \ {v} : val'[u].unclaimed = val[u].unclaimed
      /\ \A u \in ValIds, b \in Addrs : u # v \/ b # a =>
            /\ TotalStake(del'[u][b]) = TotalStake(del[u][b])
            /\ del'[u][b].rewards = del[u][b].rewards
  BY DEF Moves
<1>4. /\ val'[v].stake - val[v].stake = TotalStake(del'[v][a]) - TotalStake(del[v][a])
      /\ balance' - balance =
            (val'[v].stake - val[v].stake) + (val'[v].unclaimed - val[v].unclaimed)
          + (del'[v][a].rewards - del[v][a].rewards) + filed
      /\ val'[v].stake - val[v].stake = staked
      /\ balance' - balance = staked + filed + gained
  <2>1. val'[v].stake - val[v].stake = staked
    BY ONLY <1>2, staked \in Int, val'[v].stake = val[v].stake + staked
  <2>2. balance' - balance = staked + filed + gained
    BY ONLY <1>1, staked \in Int, filed \in Int, gained \in Int,
       balance' = balance + staked + filed + gained
  <2> QED
    BY <2>1, <2>2 DEF Moves
<1>5. /\ TotalStake(del'[v][a]) = TotalStake(del[v][a]) + staked
      /\ val'[v].unclaimed + del'[v][a].rewards =
            val[v].unclaimed + del[v][a].rewards + gained
  <2> DEFINE pool == val[v].unclaimed
             newPool == val'[v].unclaimed
             credit == del[v][a].rewards
             newCredit == del'[v][a].rewards
             total == TotalStake(del[v][a])
             newTotal == TotalStake(del'[v][a])
  <2>1. /\ pool \in Int /\ newPool \in Int /\ credit \in Int /\ newCredit \in Int
        /\ total \in Int /\ newTotal \in Int
    BY <1>2
  <2>2. /\ staked = newTotal - total
        /\ staked + filed + gained = staked + (newPool - pool) + (newCredit - credit) + filed
    BY <1>4
  <2> HIDE DEF pool, newPool, credit, newCredit, total, newTotal
  <2>3. newTotal = total + staked /\ newPool + newCredit = pool + credit + gained
    BY ONLY <2>1, <2>2, staked \in Int, filed \in Int, gained \in Int
  <2> QED
    BY <2>3 DEF pool, newPool, credit, newCredit, total, newTotal
<1>6. Entrusted' = [Entrusted EXCEPT ![v][a] = Entrusted[v][a] + staked]
  <2> DEFINE n == Entrusted[v][a] + staked
  <2>1. n = TotalStake(del'[v][a])
    BY <1>5 DEF Entrusted
  <2> HIDE DEF n
  <2>2. \A u \in ValIds, b \in Addrs :
            Entrusted'[u][b] = IF u = v /\ b = a THEN n ELSE Entrusted[u][b]
    BY <1>3, <2>1 DEF Entrusted
  <2>3. [Entrusted EXCEPT ![v][a] = n] =
            [u \in ValIds |-> [b \in Addrs |->
                IF u = v /\ b = a THEN n ELSE Entrusted[u][b]]]
    BY DEF Entrusted
  <2>4. Entrusted' = [u \in ValIds |-> [b \in Addrs |-> Entrusted'[u][b]]]
    BY DEF Entrusted
  <2> QED
    BY <2>2, <2>3, <2>4 DEF n
<1>7. RewardPots' = [RewardPots EXCEPT ![v] = RewardPots[v] + gained]
  <2> DEFINE sum(u) == SumFunction(RewardsOf(del, u))
             new(u) == SumFunction(RewardsOf(del', u))
  <2>1. \A u \in ValIds : /\ RewardsOf(del, u) \in [Addrs -> Int]
                          /\ RewardsOf(del', u) \in [Addrs -> Int]
    BY <1>1 DEF RewardsOf, Delegator
  <2>2. /\ RewardPots = [u \in ValIds |-> val[u].unclaimed + sum(u)]
        /\ RewardPots' = [u \in ValIds |-> val'[u].unclaimed + new(u)]
    BY Zenon DEF RewardPots, RewardsOf
  <2>3. ASSUME NEW u \in ValIds, u # v
        PROVE  val'[u].unclaimed + new(u) = val[u].unclaimed + sum(u)
    <3>1. RewardsOf(del', u) = RewardsOf(del, u)
      BY <1>3, <2>3 DEF RewardsOf
    <3>2. new(u) = sum(u)
      BY <3>1, Zenon
    <3> QED
      BY <1>3, <2>3, <3>2
  <2>4. new(v) = sum(v) - del[v][a].rewards + del'[v][a].rewards
    <3> DEFINE f == RewardsOf(del, v)
               g == RewardsOf(del', v)
    <3>1. /\ f \in [Addrs -> Int] /\ g \in [Addrs -> Int]
          /\ \A b \in Addrs \ {a} : g[b] = f[b]
          /\ f[a] = del[v][a].rewards /\ g[a] = del'[v][a].rewards
      BY <1>3, <2>1 DEF RewardsOf
    <3> HIDE DEF f, g
    <3>2. SumFunction(g) = SumFunction(f) - f[a] + g[a]
      BY <3>1, FiniteDomains, SumReplaced
    <3>3. SumFunction(g) = SumFunction(f) - del[v][a].rewards + del'[v][a].rewards
      BY <3>1, <3>2, Zenon
    <3> QED
      BY <3>3 DEF f, g
  <2>5. sum(v) \in Int
    BY <2>1, FiniteDomains, SumFunctionType
  <2> HIDE DEF sum, new
  <2>6. val'[v].unclaimed + new(v) = val[v].unclaimed + sum(v) + gained
    <3> DEFINE before == sum(v)
               after == new(v)
               pool == val[v].unclaimed
               newPool == val'[v].unclaimed
               credit == del[v][a].rewards
               newCredit == del'[v][a].rewards
    <3>1. /\ before \in Int /\ pool \in Int /\ newPool \in Int
          /\ credit \in Int /\ newCredit \in Int
          /\ after = before - credit + newCredit
          /\ newPool + newCredit = pool + credit + gained
      BY <1>2, <1>5, <2>4, <2>5
    <3> HIDE DEF before, after, pool, newPool, credit, newCredit
    <3>2. newPool + after = pool + before + gained
      BY ONLY <3>1, gained \in Int
    <3> QED
      BY <3>2 DEF before, after, pool, newPool
  <2> QED
    BY <2>2, <2>3, <2>6
<1> QED
  BY <1>6, <1>7

\* One request replaced by another.
LEMMA RequestAsked ==
    ASSUME TypeOK, NEW v \in ValIds, NEW a \in Addrs, NEW w \in WithdrawIds, NEW r,
           withdrawals' = [withdrawals EXCEPT ![v][a][w] = r]
    PROVE  Asked' = [Asked EXCEPT ![v][a][w] = RequestOf(r)]
<1>1. withdrawals \in [ValIds -> [Addrs -> [WithdrawIds -> WithdrawalRequest]]]
  BY DEF TypeOK
<1>2. \A u \in ValIds, b \in Addrs, i \in WithdrawIds :
          withdrawals'[u][b][i] =
              IF u = v /\ b = a /\ i = w THEN r ELSE withdrawals[u][b][i]
  BY <1>1
<1> DEFINE q == RequestOf(r)
<1>3. \A u \in ValIds, b \in Addrs, i \in WithdrawIds :
          Asked'[u][b][i] = IF u = v /\ b = a /\ i = w THEN q ELSE Asked[u][b][i]
  <2>1. \A u \in ValIds, b \in Addrs, i \in WithdrawIds :
            /\ Asked[u][b][i] = RequestOf(withdrawals[u][b][i])
            /\ Asked'[u][b][i] = RequestOf(withdrawals'[u][b][i])
    BY Zenon DEF Asked
  <2> SUFFICES ASSUME NEW u \in ValIds, NEW b \in Addrs, NEW i \in WithdrawIds
               PROVE  Asked'[u][b][i] =
                          IF u = v /\ b = a /\ i = w THEN q ELSE Asked[u][b][i]
    OBVIOUS
  <2>2. CASE u = v /\ b = a /\ i = w
    <3>1. withdrawals'[u][b][i] = r
      BY <1>2, <2>2
    <3>2. Asked'[u][b][i] = RequestOf(withdrawals'[u][b][i])
      BY <2>1
    <3>3. RequestOf(withdrawals'[u][b][i]) = q
      BY <3>1
    <3> QED
      BY <2>2, <3>2, <3>3
  <2>3. CASE ~(u = v /\ b = a /\ i = w)
    <3>1. withdrawals'[u][b][i] = withdrawals[u][b][i]
      BY <1>2, <2>3
    <3>2. /\ Asked'[u][b][i] = RequestOf(withdrawals'[u][b][i])
          /\ Asked[u][b][i] = RequestOf(withdrawals[u][b][i])
      BY <2>1
    <3>3. RequestOf(withdrawals'[u][b][i]) = RequestOf(withdrawals[u][b][i])
      BY <3>1
    <3> QED
      BY <2>3, <3>2, <3>3
  <2> QED
    BY <2>2, <2>3
<1> HIDE DEF q
<1>4. [Asked EXCEPT ![v][a][w] = q] =
          [u \in ValIds |-> [b \in Addrs |-> [i \in WithdrawIds |->
              IF u = v /\ b = a /\ i = w THEN q ELSE Asked[u][b][i]]]]
  BY DEF Asked
<1>5. Asked' = [u \in ValIds |-> [b \in Addrs |-> [i \in WithdrawIds |-> Asked'[u][b][i]]]]
  BY DEF Asked
<1> QED
  BY <1>3, <1>4, <1>5 DEF q

LEMMA SameAsked ==
    ASSUME withdrawals' = withdrawals
    PROVE  Asked' = Asked
BY DEF Asked

\* Moving nothing.
LEMMA NothingMoves ==
    ASSUME NEW S, NEW f \in [S -> Int], NEW x \in S
    PROVE  /\ [f EXCEPT ![x] = f[x] + 0] = f
           /\ [f EXCEPT ![x] = f[x] - 0] = f
<1>1. f[x] + 0 = f[x] /\ f[x] - 0 = f[x]
  OBVIOUS
<1>2. [f EXCEPT ![x] = f[x]] = f
  OBVIOUS
<1> QED
  BY <1>1, <1>2

LEMMA NothingStaked ==
    ASSUME TypeOK, NEW v \in ValIds, NEW a \in Addrs
    PROVE  [Entrusted EXCEPT ![v][a] = Entrusted[v][a] + 0] = Entrusted
<1>1. Entrusted \in [ValIds -> [Addrs -> Nat]]
  BY EscrowTypes
<1>2. Entrusted[v][a] + 0 = Entrusted[v][a]
  BY <1>1
<1>3. [Entrusted EXCEPT ![v][a] = Entrusted[v][a]] = Entrusted
  BY <1>1
<1> QED
  BY <1>2, <1>3, Zenon

-----------------------------------------------------------------------------
(* The calls as steps of the escrow.                                       *)

EscrowStep == Esc!EscrowNext \/ UNCHANGED Esc!escrowVars

\* Somebody pays for stake: addValidator and delegate.
LEMMA PaidStake ==
    ASSUME BalanceInv, Inv', NEW v \in ValIds, NEW a \in Addrs, NEW payer \in Addrs,
           NEW value \in Nat \ {0}, Pay(payer, value), Moves(v, a, 0),
           val'[v].stake = val[v].stake + value,
           UNCHANGED <<epoch, withdrawals>>
    PROVE  EscrowStep
<1>1. TypeOK /\ TypeOK' /\ balance \in Int /\ wallet \in [Addrs -> Nat]
  BY DEF BalanceInv, Inv, TypeOK
<1>2. /\ value <= wallet[payer] /\ wallet' = [wallet EXCEPT ![payer] = @ - value]
      /\ balance' = balance + value
  BY DEF Pay
<1>3. value \in Int /\ 0 \in Int /\ balance' = balance + value + 0 + 0
  BY <1>1, <1>2
<1>4. /\ Entrusted' = [Entrusted EXCEPT ![v][a] = Entrusted[v][a] + value]
      /\ RewardPots' = [RewardPots EXCEPT ![v] = RewardPots[v] + 0]
  BY <1>1, <1>3, MovesEscrow
<1>5. RewardPots' = RewardPots /\ Asked' = Asked
  BY <1>1, <1>4, EscrowTypes, NothingMoves, SameAsked
<1>6. Esc!Deposit(payer, v, a, value)
  BY <1>2, <1>4, <1>5 DEF Esc!Deposit
<1>7. value \in 1 .. wallet[payer]
  BY <1>1, <1>2
<1> QED
  BY <1>6, <1>7 DEF EscrowStep, Esc!EscrowNext

LEMMA AddValidatorEscrow ==
    ASSUME BalanceInv, Inv', NEW caller \in Addrs, NEW auth \in Addrs, NEW bls \in BlsKeys,
           NEW commission \in Commissions, NEW value \in DelegateAmounts,
           HandleAddValidator(caller, auth, bls, commission, value)
    PROVE  EscrowStep
<1> DEFINE v == lastValId + 1
<1>1. /\ v \in ValIds /\ value >= MIN_AUTH_ADDRESS_STAKE
      /\ Pay(caller, value)
      /\ UNCHANGED <<epoch, withdrawals>>
  BY Zenon DEF HandleAddValidator, clock
<1>2. Moves(v, auth, 0) /\ val'[v].stake = val[v].stake + value
  BY AddValidatorBooks, Zenon
<1>3. value \in Nat \ {0}
  BY <1>1, StakingAssumption, StakingConstantsAssumption
<1> HIDE DEF v
<1> QED
  BY <1>1, <1>2, <1>3, PaidStake

LEMMA DelegateEscrow ==
    ASSUME BalanceInv, Inv', NEW v \in ValIds, NEW caller \in Addrs,
           NEW value \in DelegateAmounts, HandleDelegate(v, caller, value)
    PROVE  EscrowStep
<1>1. /\ value >= DUST_THRESHOLD
      /\ Pay(caller, value)
      /\ UNCHANGED <<epoch, withdrawals>>
  BY Zenon DEF HandleDelegate, clock
<1>2. Moves(v, caller, 0) /\ val'[v].stake = val[v].stake + value
  BY DelegateBooks, Zenon
<1>3. value \in Nat \ {0}
  BY <1>1, StakingAssumption, StakingConstantsAssumption
<1> QED
  BY <1>1, <1>2, <1>3, PaidStake

\* compound stakes what the delegation has been credited with.
LEMMA CompoundEscrow ==
    ASSUME BalanceInv, Inv', NEW v \in ValIds, NEW caller \in Addrs, HandleCompound(v, caller)
    PROVE  EscrowStep
<1> DEFINE s == Pulled(v, caller)
           amount == s.del.rewards
<1>1. s.ok /\ amount # 0 /\ UNCHANGED <<epoch, withdrawals, wallet, balance>>
  BY Zenon DEF HandleCompound, clock, money
<1>2. Moves(v, caller, 0) /\ val'[v].stake = val[v].stake + amount
  BY CompoundBooks, Zenon
<1>3. Inv /\ TypeOK /\ TypeOK' /\ balance \in Int
  BY DEF BalanceInv, Inv, TypeOK
<1>4. /\ s.del \in Delegator /\ s.unclaimed \in Nat
      /\ s.del.rewards + s.unclaimed = del[v][caller].rewards + val[v].unclaimed
  BY <1>1, <1>3, PulledFacts
<1> HIDE DEF s
<1>5. amount \in Nat \ {0} /\ amount + s.unclaimed = del[v][caller].rewards + val[v].unclaimed
  BY <1>1, <1>4 DEF Delegator
<1> HIDE DEF amount
<1>6. /\ RewardPots \in [ValIds -> Int] /\ del[v][caller].rewards \in Nat
      /\ val[v].unclaimed \in Nat
      /\ val[v].unclaimed + del[v][caller].rewards <= RewardPots[v]
  BY <1>3, EscrowTypes
<1>7. amount \in 1 .. RewardPots[v]
  BY <1>4, <1>5, <1>6
<1> DEFINE gained == 0 - amount
<1>8. /\ amount \in Int /\ gained \in Int /\ 0 \in Int
      /\ balance' = balance + amount + 0 + gained
      /\ RewardPots[v] + gained = RewardPots[v] - amount
  BY <1>1, <1>3, <1>5, <1>6
<1> HIDE DEF gained
<1>9. /\ Entrusted' = [Entrusted EXCEPT ![v][caller] = Entrusted[v][caller] + amount]
      /\ RewardPots' = [RewardPots EXCEPT ![v] = RewardPots[v] + gained]
  BY <1>2, <1>3, <1>8, MovesEscrow
<1>10. RewardPots' = [RewardPots EXCEPT ![v] = RewardPots[v] - amount]
  BY <1>8, <1>9, Zenon
<1>11. Asked' = Asked
  BY <1>1, SameAsked
<1>12. Esc!Restake(v, caller, amount)
  BY <1>1, <1>9, <1>10, <1>11 DEF Esc!Restake
<1> QED
  BY <1>7, <1>12 DEF EscrowStep, Esc!EscrowNext

\* claimRewards pays them out, getDelegator moves nothing.
LEMMA SettlingEscrow ==
    ASSUME BalanceInv, Inv', NEW v \in ValIds, NEW a \in Addrs,
           HandleClaimRewards(v, a) \/ HandleGetDelegator(v, a)
    PROVE  EscrowStep
<1> DEFINE s == Pulled(v, a)
           amount == s.del.rewards
<1>1. s.ok /\ UNCHANGED <<epoch, withdrawals>>
  BY DEF HandleClaimRewards, HandleGetDelegator, Store, clock
<1>2. Moves(v, a, 0) /\ val'[v].stake = val[v].stake
  BY SettlingBooks, Zenon
<1>3. /\ Inv /\ TypeOK /\ TypeOK' /\ balance \in Int /\ val[v].stake \in Int
      /\ wallet \in [Addrs -> Nat]
  BY DEF BalanceInv, Inv, TypeOK, Validator
<1>4. /\ s.del \in Delegator /\ s.unclaimed \in Nat
      /\ s.del.rewards + s.unclaimed = del[v][a].rewards + val[v].unclaimed
  BY <1>1, <1>3, PulledFacts
<1>5. \/ UNCHANGED <<wallet, balance>>
      \/ /\ wallet' = [wallet EXCEPT ![a] = @ + amount]
         /\ balance' = balance - amount
  BY DEF HandleClaimRewards, HandleGetDelegator, PayOut, money
<1> HIDE DEF s
<1>6. amount \in Nat /\ amount + s.unclaimed = del[v][a].rewards + val[v].unclaimed
  BY <1>4 DEF Delegator
<1> HIDE DEF amount
<1>7. /\ RewardPots \in [ValIds -> Int] /\ del[v][a].rewards \in Nat
      /\ val[v].unclaimed \in Nat
      /\ val[v].unclaimed + del[v][a].rewards <= RewardPots[v]
      /\ Asked' = Asked
  BY <1>1, <1>3, EscrowTypes, SameAsked
<1>8. val'[v].stake = val[v].stake + 0 /\ 0 \in Int
  BY <1>2, <1>3
<1>9. CASE UNCHANGED <<wallet, balance>>
  <2>1. balance' = balance + 0 + 0 + 0
    BY <1>3, <1>9
  <2>2. /\ Entrusted' = [Entrusted EXCEPT ![v][a] = Entrusted[v][a] + 0]
        /\ RewardPots' = [RewardPots EXCEPT ![v] = RewardPots[v] + 0]
    BY <1>2, <1>3, <1>8, <2>1, MovesEscrow
  <2>3. Entrusted' = Entrusted /\ RewardPots' = RewardPots
    BY <1>3, <1>7, <2>2, NothingMoves, NothingStaked
  <2> QED
    BY <1>1, <1>7, <1>9, <2>3 DEF EscrowStep, Esc!escrowVars
<1>10. CASE /\ wallet' = [wallet EXCEPT ![a] = @ + amount]
            /\ balance' = balance - amount
  <2> DEFINE gained == 0 - amount
  <2>1. /\ gained \in Int /\ balance' = balance + 0 + 0 + gained
        /\ RewardPots[v] + gained = RewardPots[v] - amount
    BY <1>3, <1>6, <1>7, <1>10
  <2> HIDE DEF gained
  <2>2. /\ Entrusted' = [Entrusted EXCEPT ![v][a] = Entrusted[v][a] + 0]
        /\ RewardPots' = [RewardPots EXCEPT ![v] = RewardPots[v] + gained]
    BY <1>2, <1>3, <1>8, <2>1, MovesEscrow
  <2>3. Entrusted' = Entrusted
    BY <1>3, <2>2, NothingStaked
  <2>4. RewardPots' = [RewardPots EXCEPT ![v] = RewardPots[v] - amount]
    BY <2>1, <2>2, Zenon
  <2>5. CASE amount = 0
    <3>1. RewardPots' = RewardPots
      BY <1>7, <2>4, <2>5, NothingMoves
    <3>2. wallet' = wallet
      <4>1. [wallet EXCEPT ![a] = wallet[a] + 0] = wallet
        BY <1>3, NothingMoves
      <4> QED
        BY <1>10, <2>5, <4>1
    <3> QED
      BY <1>1, <1>7, <2>3, <3>1, <3>2 DEF EscrowStep, Esc!escrowVars
  <2>6. CASE amount # 0
    <3>1. amount \in 1 .. RewardPots[v]
      BY <1>4, <1>6, <1>7, <2>6
    <3>2. Esc!Collect(v, a, amount)
      BY <1>1, <1>7, <1>10, <2>3, <2>4 DEF Esc!Collect
    <3> QED
      BY <3>1, <3>2 DEF EscrowStep, Esc!EscrowNext
  <2> QED
    BY <2>5, <2>6
<1> QED
  BY <1>5, <1>9, <1>10

\* undelegate files what leaves under an epoch one or two ahead.
LEMMA UndelegateEscrow ==
    ASSUME BalanceInv, Inv', NEW v \in ValIds, NEW caller \in Addrs,
           NEW asked \in UndelegateAmounts, NEW wid \in WithdrawIds,
           HandleUndelegate(v, caller, asked, wid)
    PROVE  EscrowStep
<1>1. /\ withdrawals[v][caller][wid].amount = 0
      /\ UNCHANGED <<epoch, wallet, balance>>
  BY Zenon DEF HandleUndelegate, clock, money
<1>2. PICK amount \in Nat :
          /\ 0 < amount /\ amount <= TotalStake(del[v][caller])
          /\ Moves(v, caller, amount)
          /\ val'[v].stake = val[v].stake - amount
          /\ \E r \in WithdrawalRequest :
                /\ r.amount = amount /\ r.epoch = ActivationEpoch
                /\ withdrawals' = [withdrawals EXCEPT ![v][caller][wid] = r]
  BY UndelegateBooks
<1>3. PICK r \in WithdrawalRequest :
          /\ r.amount = amount /\ r.epoch = ActivationEpoch
          /\ withdrawals' = [withdrawals EXCEPT ![v][caller][wid] = r]
  BY <1>2
<1>4. /\ TypeOK /\ TypeOK' /\ balance \in Int /\ val[v].stake \in Int /\ epoch \in Nat
      /\ val \in [ValIds -> Validator]
  BY DEF BalanceInv, Inv, TypeOK, Validator
<1>5. /\ Entrusted \in [ValIds -> [Addrs -> Nat]] /\ RewardPots \in [ValIds -> Int]
      /\ Entrusted[v][caller] = TotalStake(del[v][caller])
  BY <1>4, EscrowTypes DEF Entrusted
<1> DEFINE staked == 0 - amount
<1>6. /\ staked \in Int /\ amount \in Int /\ 0 \in Int
      /\ val'[v].stake = val[v].stake + staked
      /\ balance' = balance + staked + amount + 0
      /\ Entrusted[v][caller] + staked = Entrusted[v][caller] - amount
  BY <1>1, <1>2, <1>4, <1>5
<1> HIDE DEF staked
<1>7. /\ Entrusted' = [Entrusted EXCEPT ![v][caller] = Entrusted[v][caller] + staked]
      /\ RewardPots' = [RewardPots EXCEPT ![v] = RewardPots[v] + 0]
  BY <1>2, <1>4, <1>6, MovesEscrow
<1>8. /\ Entrusted' = [Entrusted EXCEPT ![v][caller] = Entrusted[v][caller] - amount]
      /\ RewardPots' = RewardPots
  <2>1. RewardPots' = RewardPots
    BY <1>5, <1>7, NothingMoves
  <2> QED
    BY <1>6, <1>7, <2>1, Zenon
<1>9. Asked[v][caller][wid] = Esc!NoRequest
  BY <1>1 DEF Asked, RequestOf, Esc!NoRequest
<1>10. /\ Asked' = [Asked EXCEPT ![v][caller][wid] = RequestOf(r)]
       /\ RequestOf(r) = [amount |-> amount, due |-> ActivationEpoch + WITHDRAWAL_DELAY]
  <2>1. Asked' = [Asked EXCEPT ![v][caller][wid] = RequestOf(r)]
    BY <1>3, <1>4, RequestAsked
  <2>2. r.amount # 0
    BY <1>2, <1>3
  <2>3. RequestOf(r) = [amount |-> amount, due |-> ActivationEpoch + WITHDRAWAL_DELAY]
    BY <1>3, <2>2 DEF RequestOf
  <2> QED
    BY <2>1, <2>3
<1>11. \E delay \in {WITHDRAWAL_DELAY + 1, WITHDRAWAL_DELAY + 2} :
           ActivationEpoch + WITHDRAWAL_DELAY = epoch + delay
  BY <1>4 DEF ActivationEpoch, WITHDRAWAL_DELAY
<1>12. Esc!Leave(v, caller, wid, amount)
  BY <1>1, <1>8, <1>9, <1>10, <1>11 DEF Esc!Leave
<1>13. amount \in 1 .. Entrusted[v][caller]
  BY <1>2, <1>5
<1> QED
  BY <1>12, <1>13 DEF EscrowStep, Esc!EscrowNext

\* withdraw pays a request that is due, with rewards from the pool.
LEMMA WithdrawEscrow ==
    ASSUME BalanceInv, Inv', NEW v \in ValIds, NEW caller \in Addrs, NEW wid \in WithdrawIds,
           HandleWithdraw(v, caller, wid)
    PROVE  EscrowStep
<1> DEFINE r == withdrawals[v][caller][wid]
           reward == WithdrawalRewards(v, r)
           filed == 0 - r.amount
           gained == 0 - reward
<1>1. /\ WithdrawalReady(r)
      /\ reward <= val[v].unclaimed
      /\ wallet' = [wallet EXCEPT ![caller] = @ + (r.amount + reward)]
      /\ balance' = balance - (r.amount + reward)
      /\ withdrawals' = [withdrawals EXCEPT ![v][caller][wid] = NoWithdrawal]
      /\ UNCHANGED epoch
  BY DEF HandleWithdraw, PayOut, clock
<1>2. Moves(v, caller, filed) /\ val'[v].stake = val[v].stake /\ reward \in Nat
  BY WithdrawBooks
<1>3. /\ TypeOK /\ TypeOK' /\ balance \in Int /\ val[v].stake \in Int /\ epoch \in Nat
      /\ r \in WithdrawalRequest
  BY DEF BalanceInv, Inv, TypeOK, Validator
<1>4. /\ RewardPots \in [ValIds -> Int] /\ val[v].unclaimed \in Nat
      /\ val[v].unclaimed <= RewardPots[v]
  BY <1>3, EscrowTypes
<1>5. Asked' = [Asked EXCEPT ![v][caller][wid] = RequestOf(NoWithdrawal)]
  BY <1>1, <1>3, RequestAsked
<1>6. RequestOf(NoWithdrawal) = Esc!NoRequest
  BY DEF RequestOf, NoWithdrawal, Esc!NoRequest
<1>7. Asked[v][caller][wid] = RequestOf(r)
  BY DEF Asked
<1> HIDE DEF r
<1>8. r.amount \in Nat /\ r.amount # 0 /\ r.epoch + WITHDRAWAL_DELAY <= epoch
  BY <1>1, <1>3 DEF WithdrawalReady, WithdrawalRequest
<1>9. RequestOf(r) = [amount |-> r.amount, due |-> r.epoch + WITHDRAWAL_DELAY]
  BY <1>8 DEF RequestOf
<1>10. /\ Asked[v][caller][wid].amount = r.amount
       /\ Asked[v][caller][wid].due <= epoch
       /\ Asked[v][caller][wid] # Esc!NoRequest
  BY <1>7, <1>8, <1>9 DEF Esc!NoRequest
<1> HIDE DEF reward
<1>11. /\ filed \in Int /\ gained \in Int /\ 0 \in Int
       /\ val'[v].stake = val[v].stake + 0
       /\ balance' = balance + 0 + filed + gained
       /\ RewardPots[v] + gained = RewardPots[v] - reward
       /\ reward \in 0 .. RewardPots[v]
  BY <1>1, <1>2, <1>3, <1>4, <1>8
<1> HIDE DEF filed, gained
<1>12. /\ Entrusted' = [Entrusted EXCEPT ![v][caller] = Entrusted[v][caller] + 0]
       /\ RewardPots' = [RewardPots EXCEPT ![v] = RewardPots[v] + gained]
  BY <1>2, <1>3, <1>11, MovesEscrow
<1>13. /\ Entrusted' = Entrusted
       /\ RewardPots' = [RewardPots EXCEPT ![v] = RewardPots[v] - reward]
  <2>1. Entrusted' = Entrusted
    BY <1>3, <1>12, NothingStaked
  <2> QED
    BY <1>11, <1>12, <2>1, Zenon
<1>14. wallet' = [wallet EXCEPT ![caller] = @ + (Asked[v][caller][wid].amount + reward)]
  BY <1>1, <1>10
<1>15. Asked' = [Asked EXCEPT ![v][caller][wid] = Esc!NoRequest]
  BY <1>5, <1>6, Zenon
<1>16. Esc!Return(v, caller, wid, reward)
  BY <1>1, <1>10, <1>13, <1>14, <1>15 DEF Esc!Return
<1> QED
  BY <1>11, <1>16 DEF EscrowStep, Esc!EscrowNext

\* externalReward is given by an account.
LEMMA ExternalRewardEscrow ==
    ASSUME BalanceInv, Inv', NEW v \in ValIds, NEW caller \in Addrs,
           NEW value \in ExternalRewards, HandleExternalReward(v, caller, value)
    PROVE  EscrowStep
<1>1. /\ value <= wallet[caller] /\ wallet' = [wallet EXCEPT ![caller] = @ - value]
      /\ balance' = balance + value
      /\ UNCHANGED <<epoch, withdrawals>>
  BY DEF HandleExternalReward, Pay, clock
<1>2. Moves(v, caller, 0) /\ val'[v].stake = val[v].stake
  BY ExternalRewardBooks, Zenon
<1>3. /\ TypeOK /\ TypeOK' /\ balance \in Int /\ val[v].stake \in Int
      /\ wallet \in [Addrs -> Nat] /\ value \in Nat
  BY StakingAssumption DEF BalanceInv, Inv, TypeOK, Validator
<1>4. /\ 0 \in Int /\ value \in Int
      /\ val'[v].stake = val[v].stake + 0
      /\ balance' = balance + 0 + 0 + value
      /\ value \in 0 .. wallet[caller]
  BY <1>1, <1>2, <1>3
<1>5. /\ Entrusted' = [Entrusted EXCEPT ![v][caller] = Entrusted[v][caller] + 0]
      /\ RewardPots' = [RewardPots EXCEPT ![v] = RewardPots[v] + value]
  BY <1>2, <1>3, <1>4, MovesEscrow
<1>6. Entrusted' = Entrusted /\ Asked' = Asked
  BY <1>1, <1>3, <1>5, NothingStaked, SameAsked
<1>7. Esc!Donate(caller, v, value)
  BY <1>1, <1>5, <1>6 DEF Esc!Donate
<1> QED
  BY <1>4, <1>7 DEF EscrowStep, Esc!EscrowNext

\* The reward of a block is new money.
LEMMA SyscallRewardEscrow ==
    ASSUME BalanceInv, Inv', NEW author \in Addrs, NEW reward \in BlockRewards,
           HandleSyscallReward(author, reward)
    PROVE  EscrowStep
<1>1. balance' = balance + reward /\ UNCHANGED <<epoch, withdrawals, wallet>>
  BY DEF HandleSyscallReward, clock
<1>2. PICK v \in ValIds, a \in Addrs : Moves(v, a, 0) /\ val'[v].stake = val[v].stake
  BY SyscallRewardBooks, Zenon
<1>3. /\ TypeOK /\ TypeOK' /\ balance \in Int /\ val[v].stake \in Int /\ reward \in Int
  BY StakingAssumption DEF BalanceInv, Inv, TypeOK, Validator
<1>4. /\ 0 \in Int
      /\ val'[v].stake = val[v].stake + 0
      /\ balance' = balance + 0 + 0 + reward
  BY <1>1, <1>2, <1>3
<1>5. /\ Entrusted' = [Entrusted EXCEPT ![v][a] = Entrusted[v][a] + 0]
      /\ RewardPots' = [RewardPots EXCEPT ![v] = RewardPots[v] + reward]
  BY <1>2, <1>3, <1>4, MovesEscrow
<1>6. Entrusted' = Entrusted /\ Asked' = Asked
  BY <1>1, <1>3, <1>5, NothingStaked, SameAsked
<1>7. Esc!Mint(v, reward)
  BY <1>1, <1>5, <1>6 DEF Esc!Mint
<1> QED
  BY <1>7 DEF EscrowStep, Esc!EscrowNext

\* The rest moves no money; an epoch change is time passing.
LEMMA OtherEscrow ==
    ASSUME BalanceInv,
           \/ \E v \in ValIds, caller \in Addrs, c \in Commissions :
                 HandleChangeCommission(v, caller, c)
           \/ HandleSyscallSnapshot
           \/ \E next \in 1 .. MaxEpoch : HandleSyscallOnEpochChange(next)
           \/ UNCHANGED vars
    PROVE  EscrowStep
<1>1. val \in [ValIds -> Validator]
  BY DEF BalanceInv, Inv, TypeOK
<1>2. /\ UNCHANGED <<del, withdrawals, wallet>>
      /\ \A u \in ValIds : val'[u].unclaimed = val[u].unclaimed
      /\ epoch' = epoch \/ epoch' > epoch
  <2>1. CASE \E v \in ValIds, caller \in Addrs, c \in Commissions :
                HandleChangeCommission(v, caller, c)
    <3>1. PICK v \in ValIds, c \in Commissions :
              /\ val' = [val EXCEPT ![v].commission = c]
              /\ UNCHANGED <<epoch, del, withdrawals, wallet>>
      BY <2>1 DEF HandleChangeCommission, clock, money
    <3> QED
      BY <1>1, <3>1 DEF Validator
  <2>2. CASE HandleSyscallSnapshot
    BY <2>2 DEF HandleSyscallSnapshot, ledger, money
  <2>3. CASE \E next \in 1 .. MaxEpoch : HandleSyscallOnEpochChange(next)
    BY <2>3 DEF HandleSyscallOnEpochChange, money
  <2>4. CASE UNCHANGED vars
    BY <2>4 DEF vars, clock, ledger, money
  <2> QED
    BY <2>1, <2>2, <2>3, <2>4
<1>3. Entrusted' = Entrusted /\ Asked' = Asked /\ RewardPots' = RewardPots
  <2>1. Entrusted' = Entrusted /\ Asked' = Asked
    BY <1>2 DEF Entrusted, Asked
  <2>2. \A u \in ValIds :
            [a \in Addrs |-> del'[u][a].rewards] = [a \in Addrs |-> del[u][a].rewards]
    BY <1>2
  <2>3. RewardPots' = RewardPots
    BY <1>2, <2>2 DEF RewardPots
  <2> QED
    BY <2>1, <2>3
<1>4. CASE epoch' = epoch
  BY <1>2, <1>3, <1>4 DEF EscrowStep, Esc!escrowVars
<1>5. CASE epoch' > epoch
  BY <1>2, <1>3, <1>5 DEF EscrowStep, Esc!EscrowNext, Esc!Advance
<1> QED
  BY <1>2, <1>4, <1>5

LEMMA EveryStepOfEscrow ==
    ASSUME BalanceInv, [AnyOrderNext]_vars
    PROVE  EscrowStep
<1>1. Inv'
  BY AnyOrderStep DEF BalanceInv
<1>2. CASE UserCall
  <2>1. PICK caller \in Addrs :
        \/ \E auth \in Addrs, bls \in BlsKeys, c \in Commissions,
              value \in DelegateAmounts :
                 HandleAddValidator(caller, auth, bls, c, value)
        \/ \E v \in ValIds :
              \/ \E value \in DelegateAmounts : HandleDelegate(v, caller, value)
              \/ \E amount \in UndelegateAmounts, wid \in WithdrawIds :
                    HandleUndelegate(v, caller, amount, wid)
              \/ \E wid \in WithdrawIds : HandleWithdraw(v, caller, wid)
              \/ HandleClaimRewards(v, caller)
              \/ HandleCompound(v, caller)
              \/ HandleGetDelegator(v, caller)
              \/ \E c \in Commissions : HandleChangeCommission(v, caller, c)
              \/ \E value \in ExternalRewards :
                    HandleExternalReward(v, caller, value)
    BY <1>2 DEF UserCall
  <2> QED
    BY <1>1, <2>1, AddValidatorEscrow, DelegateEscrow, UndelegateEscrow, WithdrawEscrow,
       SettlingEscrow, CompoundEscrow, ExternalRewardEscrow, OtherEscrow, Zenon
<1>3. CASE BlockCall
  BY <1>1, <1>3, SyscallRewardEscrow, OtherEscrow DEF BlockCall
<1> QED
  BY <1>1, <1>2, <1>3, OtherEscrow DEF AnyOrderNext

LEMMA EscrowStart ==
    ASSUME Init
    PROVE  Esc!EscrowInit
<1>1. /\ epoch = 0 /\ wallet = [a \in Addrs |-> InitialFunds]
      /\ val = [v \in ValIds |-> NoValidator]
      /\ del = [v \in ValIds |-> [a \in Addrs |-> NoDelegator]]
      /\ withdrawals =
            [v \in ValIds |-> [a \in Addrs |-> [w \in WithdrawIds |-> NoWithdrawal]]]
  BY DEF Init
<1>2. Entrusted = [v \in ValIds |-> [a \in Addrs |-> 0]]
  <2>1. TotalStake(NoDelegator) = 0
    BY DEF TotalStake, NoDelegator
  <2>2. \A v \in ValIds, a \in Addrs : TotalStake(del[v][a]) = 0
    BY <1>1, <2>1
  <2> QED
    BY <2>2 DEF Entrusted
<1>3. Asked = [v \in ValIds |-> [a \in Addrs |-> [w \in WithdrawIds |-> Esc!NoRequest]]]
  <2>1. RequestOf(NoWithdrawal) = Esc!NoRequest
    BY DEF RequestOf, NoWithdrawal, Esc!NoRequest
  <2>2. \A v \in ValIds, a \in Addrs, w \in WithdrawIds :
            RequestOf(withdrawals[v][a][w]) = Esc!NoRequest
    <3>1. \A v \in ValIds, a \in Addrs, w \in WithdrawIds :
              withdrawals[v][a][w] = NoWithdrawal
      BY <1>1
    <3> QED
      BY <2>1, <3>1, Zenon
  <2> QED
    BY <2>2 DEF Asked
<1>4. RewardPots = [v \in ValIds |-> 0]
  <2>1. ASSUME NEW v \in ValIds
        PROVE  val[v].unclaimed + SumFunction([a \in Addrs |-> del[v][a].rewards]) = 0
    <3> DEFINE f == [a \in Addrs |-> del[v][a].rewards]
    <3>1. \A a \in Addrs : f[a] = 0
      BY <1>1 DEF NoDelegator
    <3>2. val[v].unclaimed = 0
      BY <1>1 DEF NoValidator
    <3>3. DOMAIN f = Addrs
      OBVIOUS
    <3> HIDE DEF f
    <3>4. SumFunctionOnSet(f, Addrs) = 0
      BY <3>1, FiniteDomains, SumZero
    <3>5. SumFunction(f) = 0
      BY <3>3, <3>4, Zenon DEF SumFunction
    <3> QED
      BY <3>2, <3>5 DEF f
  <2> QED
    BY <2>1 DEF RewardPots
<1> QED
  BY <1>1, <1>2, <1>3, <1>4 DEF Esc!EscrowInit

(***************************************************************************)
(* The precompile is an escrow: stake that is asked back is paid in full,  *)
(* to the account it is filed under, not before it is due; stake and       *)
(* rewards come out of nowhere else than deposits, gifts and the rewards   *)
(* of blocks, and those of one validator never pay for another.            *)
(***************************************************************************)
THEOREM StakingImplementsEscrow == AnyOrderSpec => ImplementsEscrow
<1>1. Init => BalanceInv /\ Esc!EscrowInit
  BY InitBooks, EscrowStart
<1>2. BalanceInv /\ [AnyOrderNext]_vars => BalanceInv'
  BY BalanceStep
<1>3. BalanceInv /\ [AnyOrderNext]_vars => [Esc!EscrowNext]_(Esc!escrowVars)
  BY EveryStepOfEscrow DEF EscrowStep
<1> QED
  BY <1>1, <1>2, <1>3, PTL DEF AnyOrderSpec, ImplementsEscrow, Esc!EscrowSpec

-----------------------------------------------------------------------------
(* The reference counts: what the counts of RefcountsExact count.          *)

\* The reference a withdrawal holds on an epoch.
Holds(r, e) == IF r.amount # 0 /\ r.epoch = e THEN 1 ELSE 0

First(D, v, e) == {a \in Addrs : D[v][a].deltaEpoch = e}

Second(D, v, e) == {a \in Addrs : D[v][a].nextDeltaEpoch = e}

Leaving(W, v, e) == {r \in Addrs \X WithdrawIds : /\ W[v][r[1]][r[2]].amount # 0
                                                  /\ W[v][r[1]][r[2]].epoch = e}

RefInv == Inv /\ RefcountsExact

\* Two sets that differ in one element at most.
LEMMA CountReplaced ==
    ASSUME NEW S, IsFiniteSet(S), NEW A \in SUBSET S, NEW B \in SUBSET S, NEW x \in S,
           A \ {x} = B \ {x}
    PROVE  /\ Cardinality(A) \in Nat /\ Cardinality(B) \in Nat
           /\ Cardinality(B) - Cardinality(A) =
                 (IF x \in B THEN 1 ELSE 0) - (IF x \in A THEN 1 ELSE 0)
<1>1. IsFiniteSet(A) /\ IsFiniteSet(B)
  BY FS_Subset
<1>2. Cardinality(A) \in Nat /\ Cardinality(B) \in Nat
  BY <1>1, FS_CardinalityType
<1>3. /\ Cardinality(A \ {x}) = IF x \in A THEN Cardinality(A) - 1 ELSE Cardinality(A)
      /\ Cardinality(B \ {x}) = IF x \in B THEN Cardinality(B) - 1 ELSE Cardinality(B)
  BY <1>1, FS_RemoveElement
<1>4. Cardinality(A \ {x}) = Cardinality(B \ {x})
  BY Zenon
<1> DEFINE a == Cardinality(A)
           b == Cardinality(B)
<1> HIDE DEF a, b
<1>5. /\ a \in Nat /\ b \in Nat
      /\ (IF x \in A THEN a - 1 ELSE a) = (IF x \in B THEN b - 1 ELSE b)
  BY <1>2, <1>3, <1>4, Zenon DEF a, b
<1>6. b - a = (IF x \in B THEN 1 ELSE 0) - (IF x \in A THEN 1 ELSE 0)
  BY <1>5
<1> QED
  BY <1>2, <1>6 DEF a, b

\* The references of v's delegations, and those of all but the one of a.
Tracked(D, v, e) == Cardinality(First(D, v, e)) + Cardinality(Second(D, v, e))

TrackedBut(D, v, a, e) == Tracked(D, v, e) - Tracks(D[v][a], e)

SameTracksBut(D, E, v, a) ==
    \A b \in Addrs \ {a} : /\ E[v][b].deltaEpoch = D[v][b].deltaEpoch
                           /\ E[v][b].nextDeltaEpoch = D[v][b].nextDeltaEpoch

\* One delegation changes: its two tracks are counted, and no other.
LEMMA TracksReplaced ==
    ASSUME NEW D, NEW E, NEW v, NEW a \in Addrs, NEW e, SameTracksBut(D, E, v, a)
    PROVE  /\ Tracked(D, v, e) \in Nat /\ Tracked(E, v, e) \in Nat
           /\ TrackedBut(E, v, a, e) = TrackedBut(D, v, a, e)
<1> DEFINE fD == First(D, v, e)
           sD == Second(D, v, e)
           fE == First(E, v, e)
           sE == Second(E, v, e)
<1>1. /\ fD \in SUBSET Addrs /\ sD \in SUBSET Addrs
      /\ fE \in SUBSET Addrs /\ sE \in SUBSET Addrs
      /\ fD \ {a} = fE \ {a} /\ sD \ {a} = sE \ {a}
      /\ a \in fD <=> D[v][a].deltaEpoch = e
      /\ a \in sD <=> D[v][a].nextDeltaEpoch = e
      /\ a \in fE <=> E[v][a].deltaEpoch = e
      /\ a \in sE <=> E[v][a].nextDeltaEpoch = e
  BY DEF First, Second, SameTracksBut
<1>2. IsFiniteSet(Addrs)
  BY FiniteDomains
<1> HIDE DEF fD, sD, fE, sE
<1>3. /\ Cardinality(fD) \in Nat /\ Cardinality(fE) \in Nat
      /\ Cardinality(fE) - Cardinality(fD) =
            (IF a \in fE THEN 1 ELSE 0) - (IF a \in fD THEN 1 ELSE 0)
  BY <1>1, <1>2, CountReplaced
<1>4. /\ Cardinality(sD) \in Nat /\ Cardinality(sE) \in Nat
      /\ Cardinality(sE) - Cardinality(sD) =
            (IF a \in sE THEN 1 ELSE 0) - (IF a \in sD THEN 1 ELSE 0)
  <2>1. sD \in SUBSET Addrs /\ sE \in SUBSET Addrs /\ sD \ {a} = sE \ {a}
    BY <1>1
  <2> QED
    BY <1>2, <2>1, CountReplaced
<1>5. /\ Cardinality(fE) + Cardinality(sE) \in Nat /\ Cardinality(fD) + Cardinality(sD) \in Nat
      /\ (Cardinality(fE) + Cardinality(sE)) - Tracks(E[v][a], e) =
            (Cardinality(fD) + Cardinality(sD)) - Tracks(D[v][a], e)
  <2> DEFINE t == Tracks(D[v][a], e)
             t1 == Tracks(E[v][a], e)
             i == IF a \in fD THEN 1 ELSE 0
             j == IF a \in sD THEN 1 ELSE 0
             i1 == IF a \in fE THEN 1 ELSE 0
             j1 == IF a \in sE THEN 1 ELSE 0
             m == Cardinality(fD)
             n == Cardinality(sD)
             m1 == Cardinality(fE)
             n1 == Cardinality(sE)
  <2>1. t = i + j /\ t1 = i1 + j1
    BY <1>1 DEF Tracks
  <2>2. /\ m \in Nat /\ n \in Nat /\ m1 \in Nat /\ n1 \in Nat
        /\ m1 - m = i1 - i /\ n1 - n = j1 - j
    BY <1>3, <1>4, Zenon
  <2>3. i \in Int /\ j \in Int /\ i1 \in Int /\ j1 \in Int
    OBVIOUS
  <2> HIDE DEF t, t1, i, j, i1, j1, m, n, m1, n1
  <2>4. m1 + n1 \in Nat /\ m + n \in Nat /\ (m1 + n1) - t1 = (m + n) - t
    BY <2>1, <2>2, <2>3
  <2> QED
    BY <2>4 DEF t, t1, m, n, m1, n1
<1> QED
  BY <1>5, Zenon DEF fD, sD, fE, sE, Tracked, TrackedBut

SameRequestsBut(W, X, v, a, w) ==
    \A b \in Addrs, z \in WithdrawIds : b # a \/ z # w => X[v][b][z] = W[v][b][z]

\* One withdrawal changes.
LEMMA HoldsReplaced ==
    ASSUME NEW W, NEW X, NEW v, NEW a \in Addrs, NEW w \in WithdrawIds, NEW e,
           SameRequestsBut(W, X, v, a, w)
    PROVE  /\ Cardinality(Leaving(W, v, e)) \in Nat /\ Cardinality(Leaving(X, v, e)) \in Nat
           /\ Cardinality(Leaving(X, v, e)) =
                 Cardinality(Leaving(W, v, e)) + (Holds(X[v][a][w], e) - Holds(W[v][a][w], e))
<1> DEFINE S == Addrs \X WithdrawIds
           A == Leaving(W, v, e)
           B == Leaving(X, v, e)
           x == <<a, w>>
<1>1. /\ A \in SUBSET S /\ B \in SUBSET S /\ x \in S
      /\ x \in A <=> W[v][a][w].amount # 0 /\ W[v][a][w].epoch = e
      /\ x \in B <=> X[v][a][w].amount # 0 /\ X[v][a][w].epoch = e
  BY DEF Leaving
<1>2. A \ {x} = B \ {x}
  <2> SUFFICES ASSUME NEW p \in S, p # x
               PROVE  p \in A <=> p \in B
    BY <1>1
  <2>1. PICK b \in Addrs, z \in WithdrawIds : p = <<b, z>>
    OBVIOUS
  <2>2. b # a \/ z # w
    BY <2>1
  <2> QED
    BY <2>1, <2>2 DEF Leaving, SameRequestsBut
<1>3. IsFiniteSet(S)
  BY FiniteDomains, StakingAssumption, FS_Product
<1> HIDE DEF S, A, B, x
<1>4. /\ Cardinality(A) \in Nat /\ Cardinality(B) \in Nat
      /\ Cardinality(B) - Cardinality(A) =
            (IF x \in B THEN 1 ELSE 0) - (IF x \in A THEN 1 ELSE 0)
  BY <1>1, <1>2, <1>3, CountReplaced
<1>5. Cardinality(B) = Cardinality(A) + (Holds(X[v][a][w], e) - Holds(W[v][a][w], e))
  BY <1>1, <1>4 DEF Holds
<1> QED
  BY <1>4, <1>5 DEF A, B

LEMMA LeavingFinite ==
    ASSUME NEW W, NEW v, NEW e
    PROVE  IsFiniteSet(Leaving(W, v, e))
<1>1. IsFiniteSet(Addrs \X WithdrawIds)
  BY FiniteDomains, StakingAssumption, FS_Product
<1> QED
  BY <1>1, FS_Subset DEF Leaving

LEMMA ReferencesCount ==
    ASSUME NEW v, NEW e
    PROVE  References(v, e) = Tracked(del, v, e) + Cardinality(Leaving(withdrawals, v, e))
BY Zenon DEF References, Tracked, First, Second, Leaving

\* A delegation's own references are among those counted.
LEMMA RefcountsCountTracks ==
    ASSUME RefInv, NEW v \in ValIds, NEW a \in Addrs
    PROVE  Counted(del[v][a], accs[v])
<1> SUFFICES ASSUME NEW e \in Epochs \ {0}
             PROVE  Tracks(del[v][a], e) <= accs[v][e].refcount
  BY DEF Counted
<1> DEFINE F == First(del, v, e)
           S == Second(del, v, e)
           L == Leaving(withdrawals, v, e)
<1>1. accs[v][e].refcount = Cardinality(F) + Cardinality(S) + Cardinality(L)
  BY ReferencesCount, Zenon DEF RefInv, RefcountsExact, Tracked
<1>2. IsFiniteSet(F) /\ IsFiniteSet(S) /\ IsFiniteSet(L)
  <2>1. IsFiniteSet(Addrs) /\ IsFiniteSet(Addrs \X WithdrawIds)
    BY FiniteDomains, StakingAssumption, FS_Product
  <2> QED
    BY <2>1, FS_Subset DEF First, Second, Leaving
<1>3. Cardinality(F) \in Nat /\ Cardinality(S) \in Nat /\ Cardinality(L) \in Nat
  BY <1>2, FS_CardinalityType
<1>4. del[v][a].deltaEpoch = e => Cardinality(F) # 0
  BY <1>2, FS_EmptySet DEF First
<1>5. del[v][a].nextDeltaEpoch = e => Cardinality(S) # 0
  BY <1>2, FS_EmptySet DEF Second
<1> QED
  BY <1>1, <1>3, <1>4, <1>5 DEF Tracks

(***************************************************************************)
(* What a call does to the counts: only those of validator v change, by    *)
(* what the references of one delegation have changed and by left[e] more  *)
(* withdrawals that are filed under e.                                     *)
(***************************************************************************)
Recounts(v, a, left) ==
    /\ \A u \in ValIds \ {v}, e \in Epochs :
          /\ accs'[u][e].refcount = accs[u][e].refcount
          /\ Leaving(withdrawals', u, e) = Leaving(withdrawals, u, e)
    /\ \A u \in ValIds, b \in Addrs : u # v \/ b # a =>
          /\ del'[u][b].deltaEpoch = del[u][b].deltaEpoch
          /\ del'[u][b].nextDeltaEpoch = del[u][b].nextDeltaEpoch
    /\ \A e \in Epochs \ {0} :
          /\ Cardinality(Leaving(withdrawals', v, e)) =
                Cardinality(Leaving(withdrawals, v, e)) + left[e]
          /\ Others(del'[v][a], accs'[v], e) = Others(del[v][a], accs[v], e) + left[e]

LEMMA RecountsKeepExact ==
    ASSUME RefInv, Inv', NEW v \in ValIds, NEW a \in Addrs, NEW left \in [Epochs -> Int],
           Recounts(v, a, left)
    PROVE  RefInv'
<1>1. /\ accs \in [ValIds -> [Epochs -> Accumulator]]
      /\ accs' \in [ValIds -> [Epochs -> Accumulator]]
  BY DEF RefInv, Inv, TypeOK
<1>2. ASSUME NEW u \in ValIds, NEW e \in Epochs \ {0}
      PROVE  accs'[u][e].refcount =
                Tracked(del', u, e) + Cardinality(Leaving(withdrawals', u, e))
  <2>1. accs[u][e].refcount =
            Tracked(del, u, e) + Cardinality(Leaving(withdrawals, u, e))
    BY ReferencesCount, Zenon DEF RefInv, RefcountsExact
  <2>2. CASE u # v
    <3>1. Tracked(del', u, e) = Tracked(del, u, e)
      <4>1. /\ First(del', u, e) = First(del, u, e)
            /\ Second(del', u, e) = Second(del, u, e)
        BY <2>2 DEF First, Second, Recounts
      <4> QED
        BY <4>1, Zenon DEF Tracked
    <3>2. /\ accs'[u][e].refcount = accs[u][e].refcount
          /\ Leaving(withdrawals', u, e) = Leaving(withdrawals, u, e)
      BY <2>2 DEF Recounts
    <3> QED
      BY <2>1, <3>1, <3>2, Zenon
  <2>3. CASE u = v
    <3>1. /\ Tracked(del, v, e) \in Nat /\ Tracked(del', v, e) \in Nat
          /\ TrackedBut(del', v, a, e) = TrackedBut(del, v, a, e)
      <4>1. SameTracksBut(del, del', v, a)
        BY DEF Recounts, SameTracksBut
      <4> QED
        BY <4>1, TracksReplaced
    <3>2. Cardinality(Leaving(withdrawals, v, e)) \in Nat
      BY LeavingFinite, FS_CardinalityType
    <3> DEFINE f == Tracked(del, v, e)
               l == Cardinality(Leaving(withdrawals, v, e))
               f1 == Tracked(del', v, e)
               l1 == Cardinality(Leaving(withdrawals', v, e))
               t == Tracks(del[v][a], e)
               t1 == Tracks(del'[v][a], e)
               n == accs[v][e].refcount
               n1 == accs'[v][e].refcount
               k == left[e]
    <3>3. f \in Nat /\ f1 \in Nat /\ f1 - t1 = f - t /\ l \in Nat
      BY <3>1, <3>2, Zenon DEF TrackedBut
    <3>4. l1 = l + k /\ n1 - t1 = (n - t) + k
      BY Zenon DEF Recounts, Others
    <3>5. t \in Int /\ t1 \in Int
      <4>1. \A d : Tracks(d, e) \in Int
        BY DEF Tracks
      <4> QED
        BY <4>1
    <3>6. n \in Int /\ n1 \in Int /\ k \in Int
      BY <1>1 DEF Accumulator
    <3>7. n = f + l
      BY <2>1, <2>3
    <3> HIDE DEF f, l, f1, l1, t, t1, n, n1, k
    <3>8. n1 = f1 + l1
      BY <3>3, <3>4, <3>5, <3>6, <3>7
    <3> QED
      BY <2>3, <3>8 DEF f1, l1, n1
  <2> QED
    BY <2>2, <2>3
<1>3. \A u \in ValIds, e \in Epochs \ {0} : accs'[u][e].refcount = References(u, e)'
  BY <1>2, Zenon DEF References, Tracked, First, Second, Leaving
<1> QED
  BY <1>3 DEF RefInv, RefcountsExact

\* No withdrawal is filed and none is paid.
Nothing == [e \in Epochs |-> 0]

LEMMA UnmovedLeaving ==
    ASSUME UNCHANGED withdrawals, NEW v
    PROVE  \A e \in Epochs \ {0} :
              Cardinality(Leaving(withdrawals', v, e)) =
                 Cardinality(Leaving(withdrawals, v, e)) + Nothing[e]
<1> SUFFICES ASSUME NEW e \in Epochs \ {0}
             PROVE  Cardinality(Leaving(withdrawals', v, e)) =
                       Cardinality(Leaving(withdrawals, v, e)) + Nothing[e]
  OBVIOUS
<1>1. Leaving(withdrawals', v, e) = Leaving(withdrawals, v, e)
  BY Zenon
<1>2. Cardinality(Leaving(withdrawals, v, e)) \in Nat
  BY LeavingFinite, FS_CardinalityType
<1>3. Nothing[e] = 0
  BY DEF Nothing
<1> DEFINE l == Cardinality(Leaving(withdrawals, v, e))
<1>4. Cardinality(Leaving(withdrawals', v, e)) = l
  BY <1>1, Zenon
<1> HIDE DEF l
<1>5. l = l + 0
  BY <1>2 DEF l
<1> QED
  BY <1>3, <1>4, <1>5, Zenon DEF l

\* Accumulators and a delegation replaced, the references of the others kept.
OwnMoved(v, a, d, A) ==
    /\ del' = [del EXCEPT ![v][a] = d]
    /\ accs' = [accs EXCEPT ![v] = A]
    /\ withdrawals' = withdrawals
    /\ \A e \in Epochs \ {0} : Others(d, A, e) = Others(del[v][a], accs[v], e)

LEMMA OwnReferencesMoved ==
    ASSUME RefInv, Inv', NEW v \in ValIds, NEW a \in Addrs, NEW d, NEW A,
           OwnMoved(v, a, d, A)
    PROVE  RefInv'
<1>1. /\ del \in [ValIds -> [Addrs -> Delegator]]
      /\ accs \in [ValIds -> [Epochs -> Accumulator]]
  BY DEF RefInv, Inv, TypeOK
<1>2. Nothing \in [Epochs -> Int]
  BY DEF Nothing
<1>3. /\ del'[v][a] = d /\ accs'[v] = A
      /\ \A u \in ValIds, b \in Addrs : u # v \/ b # a => del'[u][b] = del[u][b]
      /\ \A u \in ValIds \ {v} : accs'[u] = accs[u]
  BY <1>1 DEF OwnMoved
<1>4. ASSUME NEW e \in Epochs \ {0}
      PROVE  Others(del'[v][a], accs'[v], e) = Others(del[v][a], accs[v], e) + Nothing[e]
  <2> DEFINE o == Others(del[v][a], accs[v], e)
  <2>1. Others(del'[v][a], accs'[v], e) = o
    BY <1>3, Zenon DEF OwnMoved
  <2>2. o \in Int
    BY <1>1 DEF Others, Tracks, Accumulator
  <2> HIDE DEF o
  <2>3. o = o + 0
    BY <2>2
  <2>4. Nothing[e] = 0
    BY DEF Nothing
  <2> QED
    BY <2>1, <2>3, <2>4, Zenon DEF o
<1>5. \A u, e : Leaving(withdrawals', u, e) = Leaving(withdrawals, u, e)
  BY Zenon DEF OwnMoved
<1>6. Recounts(v, a, Nothing)
  BY <1>3, <1>4, <1>5, UnmovedLeaving DEF Recounts, OwnMoved
<1> QED
  BY <1>2, <1>6, RecountsKeepExact

\* A reference more at the activation epoch.
LEMMA IncrementCounts ==
    ASSUME NEW A \in Accumulators, NEW due \in Epochs, NEW value \in Nat
    PROVE  \A e \in Epochs : IncrementRefcount(A, due, value)[e].refcount =
              A[e].refcount + (IF e = due THEN 1 ELSE 0)
<1>1. \A e \in Epochs : A[e].refcount \in Nat
  BY DEF Accumulators, Accumulator
<1> QED
  BY <1>1 DEF IncrementRefcount, Accumulators

(***************************************************************************)
(* Stake that becomes pending takes a reference exactly if its track had   *)
(* none: what is pending there already is due in the same epoch.           *)
(***************************************************************************)
LEMMA PendingCounted ==
    ASSUME epoch \in 0 .. MaxEpoch, inBoundary \in BOOLEAN,
           NEW d \in Delegator, NEW amount \in Nat, NEW A \in Accumulators, NEW value \in Nat,
           d.deltaEpoch \in {0, epoch + 1},
           d.nextDeltaEpoch \in {0, epoch + 2}
    PROVE  LET B == IF TrackIsFree(d) THEN IncrementRefcount(A, ActivationEpoch, value)
                    ELSE A
           IN  \A e \in Epochs \ {0} : Others(AddPending(d, amount), B, e) = Others(d, A, e)
<1> DEFINE B == IF TrackIsFree(d) THEN IncrementRefcount(A, ActivationEpoch, value) ELSE A
           x == AddPending(d, amount)
<1>1. epoch \in Nat /\ ActivationEpoch \in Epochs
  BY StakingAssumption, ActivationEpochType
<1>2. \A e \in Epochs : B[e].refcount =
          A[e].refcount + (IF TrackIsFree(d) /\ e = ActivationEpoch THEN 1 ELSE 0)
  <2>1. CASE TrackIsFree(d)
    BY <1>1, <2>1, IncrementCounts
  <2>2. CASE ~TrackIsFree(d)
    <3>1. \A e \in Epochs : A[e].refcount \in Nat
      BY DEF Accumulators, Accumulator
    <3> QED
      BY <2>2, <3>1
  <2> QED
    BY <2>1, <2>2
<1> HIDE DEF B
<1>3. ASSUME NEW e \in Epochs \ {0}
      PROVE  Tracks(x, e) =
                Tracks(d, e) + (IF TrackIsFree(d) /\ e = ActivationEpoch THEN 1 ELSE 0)
  <2>1. CASE inBoundary
    <3> DEFINE sum == d.nextDeltaStake + amount
    <3>1. x = [d EXCEPT !.nextDeltaStake = sum, !.nextDeltaEpoch = epoch + 2]
      BY <2>1 DEF AddPending
    <3> HIDE DEF x, sum
    <3>2. x.deltaEpoch = d.deltaEpoch /\ x.nextDeltaEpoch = epoch + 2
      BY <3>1 DEF Delegator
    <3>3. ActivationEpoch = epoch + 2 /\ (TrackIsFree(d) <=> d.nextDeltaEpoch = 0)
      BY <2>1 DEF ActivationEpoch, TrackIsFree
    <3> QED
      BY <1>1, <3>2, <3>3 DEF Tracks
  <2>2. CASE ~inBoundary
    <3> DEFINE sum == d.deltaStake + amount
    <3>1. x = [d EXCEPT !.deltaStake = sum, !.deltaEpoch = epoch + 1]
      BY <2>2 DEF AddPending
    <3> HIDE DEF x, sum
    <3>2. x.deltaEpoch = epoch + 1 /\ x.nextDeltaEpoch = d.nextDeltaEpoch
      BY <3>1 DEF Delegator
    <3>3. ActivationEpoch = epoch + 1 /\ (TrackIsFree(d) <=> d.deltaEpoch = 0)
      BY <2>2 DEF ActivationEpoch, TrackIsFree
    <3> QED
      BY <1>1, <3>2, <3>3 DEF Tracks
  <2> QED
    BY <2>1, <2>2
<1> HIDE DEF x
<1>4. ASSUME NEW e \in Epochs \ {0}
      PROVE  Others(x, B, e) = Others(d, A, e)
  <2> DEFINE k == IF TrackIsFree(d) /\ e = ActivationEpoch THEN 1 ELSE 0
             n == A[e].refcount
             t == Tracks(d, e)
  <2>1. B[e].refcount = n + k /\ Tracks(x, e) = t + k
    BY <1>2, <1>3
  <2>2. n \in Int /\ k \in Int
    BY DEF Accumulators, Accumulator
  <2>3. t \in Int
    BY DEF Tracks
  <2> HIDE DEF k, n, t
  <2>4. (n + k) - (t + k) = n - t
    BY <2>2, <2>3
  <2> QED
    BY <2>1, <2>4, Zenon DEF Others, n, t
<1> QED
  BY <1>4 DEF B, x

\* A settlement in which the references of the others are those in storage.
OthersStored(v, a, s) ==
    /\ Counted(s.del, s.accs)
    /\ \A e \in Epochs \ {0} : Others(s.del, s.accs, e) = Others(del[v][a], accs[v], e)

\* internal_delegate keeps every count, from a settlement that kept them.
LEMMA DelegateCounts ==
    ASSUME RefInv, Inv', NEW v \in ValIds, NEW caller \in Addrs, NEW record \in Validator,
           NEW amount \in Nat \ {0}, NEW s, Ready(s),
           InternalDelegate(v, record, caller, amount, s),
           withdrawals' = withdrawals, OthersStored(v, caller, s)
    PROVE  RefInv'
<1> DEFINE pulled == PullDelegatorUpToDate(s, record.acc, epoch)
           d == AddPending(pulled.del, amount)
           A == IF TrackIsFree(pulled.del)
                THEN IncrementRefcount(pulled.accs, ActivationEpoch, record.acc)
                ELSE pulled.accs
<1>1. epoch \in 0 .. MaxEpoch /\ inBoundary \in BOOLEAN
  BY DEF RefInv, Inv, TypeOK
<1>2. record.acc \in Nat /\ amount \in Nat
  BY DEF Validator
<1>3. /\ Settles(s, pulled)
      /\ pulled.del.deltaEpoch \in {0, epoch + 1}
      /\ pulled.del.nextDeltaEpoch \in {0, epoch + 2}
  <2>1. s \in RunningSettlement /\ PendingInWindow(s.del)
    BY DEF Ready
  <2> QED
    BY <1>1, <1>2, <2>1, PullSettles
<1>4. /\ pulled.ok
      /\ del' = [del EXCEPT ![v][caller] = d]
      /\ accs' = [accs EXCEPT ![v] = A]
  BY Zenon DEF InternalDelegate
<1> HIDE DEF pulled
<1>5. /\ pulled.del \in Delegator /\ pulled.accs \in Accumulators
      /\ \A e \in Epochs \ {0} :
            Others(pulled.del, pulled.accs, e) = Others(s.del, s.accs, e)
  <2>1. pulled \in RunningSettlement /\ Solvent(pulled) /\ KeepsOthers(s, pulled)
    BY <1>3 DEF Settles, Ready
  <2>2. pulled.ok = TRUE
    BY <1>4, <2>1 DEF RunningSettlement
  <2>3. pulled.del \in Delegator /\ pulled.accs \in Accumulators
    BY <2>1, <2>2, SuccessType
  <2> QED
    BY <2>1, <2>3 DEF KeepsOthers, OthersStored
<1>6. \A e \in Epochs \ {0} : Others(d, A, e) = Others(pulled.del, pulled.accs, e)
  BY <1>1, <1>2, <1>3, <1>5, PendingCounted
<1>7. \A e \in Epochs \ {0} : Others(d, A, e) = Others(del[v][caller], accs[v], e)
  <2> HIDE DEF d, A
  <2> QED
    BY <1>5, <1>6, Zenon DEF OthersStored
<1> HIDE DEF d, A
<1>8. OwnMoved(v, caller, d, A)
  BY <1>4, <1>7 DEF OwnMoved
<1> QED
  BY <1>8, OwnReferencesMoved

\* What is in storage is such a settlement, and so is a pulled one.
LEMMA StoredSettlement ==
    ASSUME RefInv, NEW v \in ValIds, NEW a \in Addrs, NEW unclaimed
    PROVE  /\ OthersStored(v, a, Settlement(del[v][a], unclaimed, accs[v]))
           /\ OthersStored(v, a, Pulled(v, a))
<1>1. Inv /\ Counted(del[v][a], accs[v])
  BY RefcountsCountTracks DEF RefInv
<1>2. OthersStored(v, a, Pulled(v, a))
  BY <1>1, PulledFacts DEF OthersStored
<1>3. OthersStored(v, a, Settlement(del[v][a], unclaimed, accs[v]))
  BY <1>1 DEF OthersStored, Settlement
<1> QED
  BY <1>2, <1>3

\* addValidator and delegate start from what is in storage.
LEMMA AddValidatorCounts ==
    ASSUME RefInv, Inv', NEW caller \in Addrs, NEW auth \in Addrs, NEW bls \in BlsKeys,
           NEW commission \in Commissions, NEW value \in DelegateAmounts,
           HandleAddValidator(caller, auth, bls, commission, value)
    PROVE  RefInv'
<1> DEFINE v == lastValId + 1
           record == [NoValidator EXCEPT !.commission = commission,
                                         !.auth = auth,
                                         !.flags = {"STAKE_TOO_LOW"}]
           s == Settlement(del[v][auth], 0, accs[v])
<1>1. /\ v \in ValIds
      /\ value >= MIN_AUTH_ADDRESS_STAKE
      /\ InternalDelegate(v, record, auth, value, s)
      /\ withdrawals' = withdrawals
  BY Zenon DEF HandleAddValidator
<1>2. value \in Nat \ {0} /\ commission \in Nat
  BY <1>1, StakingAssumption, StakingConstantsAssumption
<1> HIDE DEF v
<1>3. record \in Validator
  BY <1>2 DEF NoValidator, Validator, Flags
<1>4. /\ del[v][auth] \in Delegator /\ accs[v] \in Accumulators
      /\ PendingInWindow(del[v][auth])
  BY <1>1 DEF RefInv, Inv, TypeOK, PendingWindow, Accumulators
<1>5. /\ s \in RunningSettlement /\ Solvent(s) /\ s.ok = TRUE
      /\ s.del = del[v][auth]
  BY <1>4, 0 \in Nat, SettlementType
<1>6. OthersStored(v, auth, s)
  BY <1>1, StoredSettlement
<1> HIDE DEF record, s
<1>7. Ready(s)
  BY <1>4, <1>5 DEF Ready
<1> QED
  BY <1>1, <1>2, <1>3, <1>6, <1>7, DelegateCounts

LEMMA DelegateCallCounts ==
    ASSUME RefInv, Inv', NEW v \in ValIds, NEW caller \in Addrs,
           NEW value \in DelegateAmounts, HandleDelegate(v, caller, value)
    PROVE  RefInv'
<1> DEFINE s == Settlement(del[v][caller], val[v].unclaimed, accs[v])
<1>1. /\ value >= DUST_THRESHOLD
      /\ InternalDelegate(v, val[v], caller, value, s)
      /\ withdrawals' = withdrawals
  BY Zenon DEF HandleDelegate
<1>2. value \in Nat \ {0}
  BY <1>1, StakingAssumption, StakingConstantsAssumption
<1>3. /\ del[v][caller] \in Delegator /\ accs[v] \in Accumulators
      /\ PendingInWindow(del[v][caller])
      /\ val[v] \in Validator /\ val[v].unclaimed \in Nat
  BY DEF RefInv, Inv, TypeOK, PendingWindow, Accumulators, Validator
<1>4. /\ s \in RunningSettlement /\ Solvent(s) /\ s.ok = TRUE
      /\ s.del = del[v][caller]
  BY <1>3, SettlementType
<1>5. OthersStored(v, caller, s)
  BY StoredSettlement
<1> HIDE DEF s
<1>6. Ready(s)
  BY <1>3, <1>4 DEF Ready
<1> QED
  BY <1>1, <1>2, <1>3, <1>5, <1>6, DelegateCounts

\* compound starts from the settled delegation without its rewards.
LEMMA CompoundCounts ==
    ASSUME RefInv, Inv', NEW v \in ValIds, NEW caller \in Addrs, HandleCompound(v, caller)
    PROVE  RefInv'
<1> DEFINE s == Pulled(v, caller)
           cleared == [s EXCEPT !.del.rewards = 0]
           amount == s.del.rewards
<1>1. /\ s.ok
      /\ amount # 0
      /\ InternalDelegate(v, val[v], caller, amount, cleared)
      /\ withdrawals' = withdrawals
  BY Zenon DEF HandleCompound
<1>2. Inv /\ val[v] \in Validator
  BY DEF RefInv, Inv, TypeOK
<1>3. /\ s \in RunningSettlement /\ Solvent(s) /\ s.ok = TRUE
      /\ s.del \in Delegator
      /\ PendingInWindow(s.del)
  BY <1>1, <1>2, PulledFacts
<1>4. OthersStored(v, caller, s)
  BY StoredSettlement
<1> HIDE DEF s
<1>5. amount \in Nat \ {0}
  BY <1>1, <1>3 DEF Delegator
<1>6. /\ cleared \in RunningSettlement
      /\ cleared.ok = s.ok
      /\ cleared.unclaimed = s.unclaimed
      /\ cleared.accs = s.accs
      /\ cleared.del.rewards = 0
      /\ cleared.del.deltaStake = s.del.deltaStake
      /\ cleared.del.nextDeltaStake = s.del.nextDeltaStake
      /\ cleared.del.deltaEpoch = s.del.deltaEpoch
      /\ cleared.del.nextDeltaEpoch = s.del.nextDeltaEpoch
  BY <1>3 DEF RunningSettlement, RunningDelegator
<1> HIDE DEF cleared, amount
<1>7. Ready(cleared)
  BY <1>3, <1>6 DEF Ready, Solvent, PendingInWindow
<1>8. OthersStored(v, caller, cleared)
  BY <1>4, <1>6 DEF OthersStored, Counted, Others, Tracks
<1> QED
  BY <1>1, <1>2, <1>5, <1>7, <1>8, DelegateCounts

\* claimRewards and getDelegator write back the settled delegation.
LEMMA SettlingCounts ==
    ASSUME RefInv, Inv', NEW v \in ValIds, NEW a \in Addrs,
           HandleClaimRewards(v, a) \/ HandleGetDelegator(v, a)
    PROVE  RefInv'
<1> DEFINE s == Pulled(v, a)
           claimed == [s.del EXCEPT !.rewards = 0]
<1>1. s.ok /\ (Store(v, a, s, claimed) \/ Store(v, a, s, s.del))
  BY DEF HandleClaimRewards, HandleGetDelegator
<1>2. s.del \in Delegator
  BY <1>1, PulledFacts DEF RefInv
<1>3. OthersStored(v, a, s)
  BY StoredSettlement
<1> HIDE DEF s
<1>4. claimed.deltaEpoch = s.del.deltaEpoch /\ claimed.nextDeltaEpoch = s.del.nextDeltaEpoch
  BY <1>2 DEF Delegator
<1> HIDE DEF claimed
<1>5. \A e \in Epochs \ {0} : Others(claimed, s.accs, e) = Others(s.del, s.accs, e)
  BY <1>4 DEF Others, Tracks
<1>6. OwnMoved(v, a, claimed, s.accs) \/ OwnMoved(v, a, s.del, s.accs)
  BY <1>1, <1>3, <1>5 DEF Store, OwnMoved, OthersStored
<1> QED
  BY <1>6, OwnReferencesMoved

LeavingMoved(v, old, r) ==
    /\ \A u \in ValIds \ {v}, e \in Epochs :
          Leaving(withdrawals', u, e) = Leaving(withdrawals, u, e)
    /\ \A e \in Epochs :
          Cardinality(Leaving(withdrawals', v, e)) =
             Cardinality(Leaving(withdrawals, v, e)) + (Holds(r, e) - Holds(old, e))

\* One withdrawal replaced: what it held is given up, what it holds is added.
LEMMA RequestRecounted ==
    ASSUME TypeOK, NEW v \in ValIds, NEW a \in Addrs, NEW w \in WithdrawIds, NEW r,
           withdrawals' = [withdrawals EXCEPT ![v][a][w] = r]
    PROVE  LeavingMoved(v, withdrawals[v][a][w], r)
<1>1. withdrawals \in [ValIds -> [Addrs -> [WithdrawIds -> WithdrawalRequest]]]
  BY DEF TypeOK
<1>2. /\ withdrawals'[v][a][w] = r
      /\ \A u \in ValIds \ {v} : withdrawals'[u] = withdrawals[u]
      /\ SameRequestsBut(withdrawals, withdrawals', v, a, w)
  BY <1>1 DEF SameRequestsBut
<1>3. \A u \in ValIds \ {v}, e \in Epochs :
          Leaving(withdrawals', u, e) = Leaving(withdrawals, u, e)
  BY <1>2 DEF Leaving
<1>4. ASSUME NEW e \in Epochs
      PROVE  Cardinality(Leaving(withdrawals', v, e)) =
                Cardinality(Leaving(withdrawals, v, e))
              + (Holds(r, e) - Holds(withdrawals[v][a][w], e))
  <2>1. Cardinality(Leaving(withdrawals', v, e)) =
            Cardinality(Leaving(withdrawals, v, e))
          + (Holds(withdrawals'[v][a][w], e) - Holds(withdrawals[v][a][w], e))
    <3>1. SameRequestsBut(withdrawals, withdrawals', v, a, w)
      BY <1>2
    <3> DEFINE W == withdrawals
               X == withdrawals'
    <3>2. SameRequestsBut(W, X, v, a, w)
      BY <3>1
    <3> HIDE DEF W, X
    <3>3. Cardinality(Leaving(X, v, e)) =
              Cardinality(Leaving(W, v, e)) + (Holds(X[v][a][w], e) - Holds(W[v][a][w], e))
      BY <3>2, HoldsReplaced
    <3> QED
      BY <3>3 DEF W, X
  <2> QED
    BY <1>2, <2>1, Zenon
<1> QED
  BY <1>3, <1>4, Zenon DEF LeavingMoved

\* undelegate: the request takes a reference at the activation epoch.
LEMMA UndelegateCounts ==
    ASSUME RefInv, Inv', NEW v \in ValIds, NEW caller \in Addrs,
           NEW asked \in UndelegateAmounts, NEW wid \in WithdrawIds,
           HandleUndelegate(v, caller, asked, wid)
    PROVE  RefInv'
<1> DEFINE s         == Pulled(v, caller)
           remaining == s.del.stake - asked
           amount    == IF remaining < DUST_THRESHOLD THEN s.del.stake ELSE asked
           left      == s.del.stake - amount
           acc       == IF s.del.stake = amount THEN 0 ELSE s.del.acc
           d         == [s.del EXCEPT !.stake = left, !.acc = acc]
           A         == IncrementRefcount(s.accs, ActivationEpoch, val[v].acc)
           r         == UndelegateRequest(s.del, d, amount)
           old       == withdrawals[v][caller][wid]
           more      == [e \in Epochs |-> IF e = ActivationEpoch THEN 1 ELSE 0]
<1>1. /\ s.ok
      /\ asked # 0
      /\ asked <= s.del.stake
      /\ old.amount = 0
      /\ del' = [del EXCEPT ![v][caller] = d]
      /\ withdrawals' = [withdrawals EXCEPT ![v][caller][wid] = r]
      /\ accs' = [accs EXCEPT ![v] = A]
  BY DEF HandleUndelegate
<1>2. /\ Inv /\ TypeOK
      /\ val[v].acc \in Nat
      /\ del \in [ValIds -> [Addrs -> Delegator]]
      /\ accs \in [ValIds -> [Epochs -> Accumulator]]
      /\ epoch \in 0 .. MaxEpoch /\ inBoundary \in BOOLEAN
  BY DEF RefInv, Inv, TypeOK, Validator
<1>3. s.del \in Delegator /\ s.accs \in Accumulators
  BY <1>1, <1>2, PulledFacts
<1>4. OthersStored(v, caller, s)
  BY StoredSettlement
<1> HIDE DEF s, old
<1>5. amount # 0
  <2>1. asked \in Nat /\ s.del.stake \in Nat
    BY <1>3, StakingAssumption DEF Delegator
  <2> QED
    BY <1>1, <2>1
<1> HIDE DEF amount, left, acc
<1>6. d.deltaEpoch = s.del.deltaEpoch /\ d.nextDeltaEpoch = s.del.nextDeltaEpoch
  BY <1>3 DEF Delegator
<1> HIDE DEF d
<1>7. r.amount # 0 /\ r.epoch = ActivationEpoch
  BY <1>5 DEF UndelegateRequest
<1> HIDE DEF r
<1>8. ActivationEpoch \in Epochs
  BY <1>2, ActivationEpochType
<1>9. ASSUME NEW e \in Epochs \ {0}
      PROVE  Others(d, A, e) = Others(del[v][caller], accs[v], e) + more[e]
  <2> DEFINE n == s.accs[e].refcount
             t == Tracks(s.del, e)
             k == IF e = ActivationEpoch THEN 1 ELSE 0
             o == Others(del[v][caller], accs[v], e)
  <2>1. A[e].refcount = n + k
    BY <1>2, <1>3, <1>8, IncrementCounts
  <2>2. Tracks(d, e) = t
    BY <1>6 DEF Tracks
  <2>3. n - t = o
    BY <1>4 DEF OthersStored, Others
  <2>4. n \in Int /\ k \in Int
    BY <1>3 DEF Accumulators, Accumulator
  <2>5. t \in Int
    BY DEF Tracks
  <2>6. more[e] = k
    OBVIOUS
  <2> HIDE DEF n, t, k, o, more
  <2>7. (n + k) - t = o + k
    BY <2>3, <2>4, <2>5
  <2> QED
    BY <2>1, <2>2, <2>6, <2>7, Zenon DEF Others, o
<1>a. LeavingMoved(v, old, r)
  <2>1. withdrawals' = [withdrawals EXCEPT ![v][caller][wid] = r] /\ TypeOK
    BY <1>1, <1>2
  <2> QED
    BY <2>1, RequestRecounted, Zenon DEF old
<1>10. ASSUME NEW e \in Epochs \ {0}
       PROVE  Cardinality(Leaving(withdrawals', v, e)) =
                 Cardinality(Leaving(withdrawals, v, e)) + more[e]
  <2>1. Cardinality(Leaving(withdrawals', v, e)) =
            Cardinality(Leaving(withdrawals, v, e)) + (Holds(r, e) - Holds(old, e))
    BY <1>a DEF LeavingMoved
  <2>2. Holds(old, e) = 0 /\ Holds(r, e) = more[e] /\ more[e] \in Int
    BY <1>1, <1>7 DEF Holds
  <2>3. Holds(r, e) - Holds(old, e) = more[e]
    BY <2>2
  <2> QED
    BY <2>1, <2>3, Zenon
<1>11. \A u \in ValIds \ {v}, e \in Epochs :
           Leaving(withdrawals', u, e) = Leaving(withdrawals, u, e)
  BY <1>a, Zenon DEF LeavingMoved
<1> HIDE DEF A
<1>12. /\ del'[v][caller] = d /\ accs'[v] = A
       /\ \A u \in ValIds, b \in Addrs : u # v \/ b # caller => del'[u][b] = del[u][b]
       /\ \A u \in ValIds \ {v} : accs'[u] = accs[u]
  BY <1>1, <1>2
<1>13. more \in [Epochs -> Int]
  OBVIOUS
<1> HIDE DEF more
<1>14. Recounts(v, caller, more)
  BY <1>9, <1>10, <1>11, <1>12 DEF Recounts
<1> QED
  BY <1>13, <1>14, RecountsKeepExact

\* withdraw: the reference the request held is given up with it.
LEMMA WithdrawCounts ==
    ASSUME RefInv, Inv', NEW v \in ValIds, NEW caller \in Addrs, NEW wid \in WithdrawIds,
           HandleWithdraw(v, caller, wid)
    PROVE  RefInv'
<1> DEFINE r == withdrawals[v][caller][wid]
           A == DecrementRefcount(accs[v], r.epoch)
           less == [e \in Epochs |-> IF e = r.epoch THEN -1 ELSE 0]
<1>1. /\ r.amount # 0 /\ IsEpochActive(epoch, r.epoch)
      /\ accs' = [accs EXCEPT ![v] = A]
      /\ withdrawals' = [withdrawals EXCEPT ![v][caller][wid] = NoWithdrawal]
      /\ del' = del
  BY DEF HandleWithdraw, WithdrawalReady
<1>2. /\ TypeOK
      /\ r \in WithdrawalRequest
      /\ del \in [ValIds -> [Addrs -> Delegator]]
      /\ accs \in [ValIds -> [Epochs -> Accumulator]]
      /\ accs[v] \in Accumulators
      /\ epoch \in 0 .. MaxEpoch
  BY DEF RefInv, Inv, TypeOK, Accumulators
<1>3. r.epoch \in Epochs \ {0}
  BY <1>1, <1>2, StakingAssumption DEF WithdrawalRequest, IsEpochActive, Epochs
<1>4. accs[v][r.epoch].refcount > 0
  <2> DEFINE L == Leaving(withdrawals, v, r.epoch)
             f == Tracked(del, v, r.epoch)
  <2>1. accs[v][r.epoch].refcount = f + Cardinality(L)
    BY <1>3, ReferencesCount, Zenon DEF RefInv, RefcountsExact
  <2>2. <<caller, wid>> \in L
    BY <1>1 DEF Leaving
  <2>3. f \in Nat
    <3>1. SameTracksBut(del, del, v, caller)
      BY DEF SameTracksBut
    <3> QED
      BY <3>1, TracksReplaced
  <2>4. IsFiniteSet(L)
    BY LeavingFinite
  <2> HIDE DEF L, f
  <2>5. Cardinality(L) \in Nat /\ Cardinality(L) # 0
    BY <2>2, <2>4, FS_CardinalityType, FS_EmptySet
  <2> QED
    BY <2>1, <2>3, <2>5
<1>5. ASSUME NEW e \in Epochs \ {0}
      PROVE  Others(del'[v][caller], A, e) = Others(del[v][caller], accs[v], e) + less[e]
  <2> DEFINE n == accs[v][e].refcount
             t == Tracks(del[v][caller], e)
             k == IF e = r.epoch THEN 1 ELSE 0
  <2>1. A[e].refcount = n - k
    BY <1>2, <1>3, <1>4, DecrementCounts
  <2>2. n \in Int /\ k \in Int
    BY <1>2 DEF Accumulator
  <2>3. t \in Int
    BY DEF Tracks
  <2>4. less[e] = -k
    OBVIOUS
  <2> HIDE DEF n, t, k, less, A
  <2>5. (n - k) - t = (n - t) + less[e]
    BY <2>2, <2>3, <2>4
  <2> QED
    BY <1>1, <2>1, <2>5, Zenon DEF Others, n, t
<1>a. LeavingMoved(v, r, NoWithdrawal)
  <2>1. withdrawals' = [withdrawals EXCEPT ![v][caller][wid] = NoWithdrawal] /\ TypeOK
    BY <1>1, <1>2
  <2> QED
    BY <2>1, RequestRecounted, Zenon
<1>6. ASSUME NEW e \in Epochs \ {0}
      PROVE  Cardinality(Leaving(withdrawals', v, e)) =
                Cardinality(Leaving(withdrawals, v, e)) + less[e]
  <2>1. Cardinality(Leaving(withdrawals', v, e)) =
            Cardinality(Leaving(withdrawals, v, e)) + (Holds(NoWithdrawal, e) - Holds(r, e))
    BY <1>a DEF LeavingMoved
  <2>2. Holds(NoWithdrawal, e) = 0 /\ Holds(r, e) = -less[e] /\ less[e] \in Int
    <3>1. r.amount # 0
      BY <1>1, Zenon
    <3> HIDE DEF r
    <3>2. less[e] = IF e = r.epoch THEN -1 ELSE 0
      OBVIOUS
    <3> HIDE DEF less
    <3>3. Holds(r, e) = IF e = r.epoch THEN 1 ELSE 0
      BY <3>1 DEF Holds
    <3>4. Holds(NoWithdrawal, e) = 0
      BY DEF Holds, NoWithdrawal
    <3> QED
      BY <3>2, <3>3, <3>4
  <2> HIDE DEF r, less
  <2>3. Holds(NoWithdrawal, e) - Holds(r, e) = less[e]
    BY <2>2
  <2> QED
    BY <2>1, <2>3, Zenon
<1>7. \A u \in ValIds \ {v}, e \in Epochs :
          Leaving(withdrawals', u, e) = Leaving(withdrawals, u, e)
  BY <1>a, Zenon DEF LeavingMoved
<1> HIDE DEF A
<1>8. accs'[v] = A /\ \A u \in ValIds \ {v} : accs'[u] = accs[u]
  BY <1>1, <1>2
<1>9. less \in [Epochs -> Int]
  OBVIOUS
<1> HIDE DEF less
<1>10. Recounts(v, caller, less)
  BY <1>1, <1>5, <1>6, <1>7, <1>8 DEF Recounts
<1> QED
  BY <1>9, <1>10, RecountsKeepExact

\* Steps that move no reference.
LEMMA UnmovedCounts ==
    ASSUME RefInv, Inv',
           \A u \in ValIds, e \in Epochs : accs'[u][e].refcount = accs[u][e].refcount,
           \A u \in ValIds, b \in Addrs :
              /\ del'[u][b].deltaEpoch = del[u][b].deltaEpoch
              /\ del'[u][b].nextDeltaEpoch = del[u][b].nextDeltaEpoch,
           withdrawals' = withdrawals
    PROVE  RefInv'
<1>1. ASSUME NEW u \in ValIds, NEW e \in Epochs \ {0}
      PROVE  accs'[u][e].refcount =
                Tracked(del', u, e) + Cardinality(Leaving(withdrawals', u, e))
  <2>1. accs[u][e].refcount =
            Tracked(del, u, e) + Cardinality(Leaving(withdrawals, u, e))
    BY ReferencesCount, Zenon DEF RefInv, RefcountsExact
  <2>2. First(del', u, e) = First(del, u, e) /\ Second(del', u, e) = Second(del, u, e)
    BY DEF First, Second
  <2>3. Tracked(del', u, e) = Tracked(del, u, e)
    BY <2>2, Zenon DEF Tracked
  <2>4. accs'[u][e].refcount = accs[u][e].refcount
    OBVIOUS
  <2> QED
    BY <2>1, <2>3, <2>4, Zenon
<1>2. \A u \in ValIds, e \in Epochs \ {0} : accs'[u][e].refcount = References(u, e)'
  BY <1>1, Zenon DEF References, Tracked, First, Second, Leaving
<1> QED
  BY <1>2 DEF RefInv, RefcountsExact

\* A new epoch refreshes values and leaves the counts.
LEMMA RefreshCounts ==
    ASSUME RefInv, Inv', NEW next \in 1 .. MaxEpoch, HandleSyscallOnEpochChange(next)
    PROVE  RefInv'
<1>1. accs \in [ValIds -> [Epochs -> Accumulator]]
  BY DEF RefInv, Inv, TypeOK
<1>2. \A u \in ValIds, e \in Epochs : accs'[u][e].refcount = accs[u][e].refcount
  BY <1>1 DEF HandleSyscallOnEpochChange, RefreshAccumulators, Accumulator
<1>3. del' = del /\ withdrawals' = withdrawals
  BY DEF HandleSyscallOnEpochChange, money
<1> QED
  BY <1>2, <1>3, UnmovedCounts

\* A block reward credits a delegation and moves none of its tracks.
LEMMA SyscallRewardCounts ==
    ASSUME RefInv, Inv', NEW author \in Addrs, NEW reward \in BlockRewards,
           HandleSyscallReward(author, reward)
    PROVE  RefInv'
<1> DEFINE v == valIdSecp[author]
           auth == val[v].auth
           commission == (reward * CurrentView(v).commission) \div MON
<1>1. /\ del' = [del EXCEPT ![v][auth].rewards = @ + commission]
      /\ accs' = accs
      /\ withdrawals' = withdrawals
  BY DEF HandleSyscallReward, DistributeReward
<1>2. del \in [ValIds -> [Addrs -> Delegator]]
  BY DEF RefInv, Inv, TypeOK
<1> HIDE DEF v, auth, commission
<1>3. \A u \in ValIds, b \in Addrs :
              /\ del'[u][b].deltaEpoch = del[u][b].deltaEpoch
              /\ del'[u][b].nextDeltaEpoch = del[u][b].nextDeltaEpoch
  BY <1>1, <1>2 DEF Delegator
<1> QED
  BY <1>1, <1>3, UnmovedCounts

LEMMA OtherCounts ==
    ASSUME RefInv, Inv',
           \/ \E v \in ValIds, caller \in Addrs, c \in Commissions :
                 HandleChangeCommission(v, caller, c)
           \/ \E v \in ValIds, caller \in Addrs, value \in ExternalRewards :
                 HandleExternalReward(v, caller, value)
           \/ HandleSyscallSnapshot
           \/ UNCHANGED vars
    PROVE  RefInv'
<1>1. accs' = accs /\ del' = del /\ withdrawals' = withdrawals
  BY DEF HandleChangeCommission, HandleExternalReward, HandleSyscallSnapshot, vars, ledger
<1> QED
  BY <1>1, UnmovedCounts

\* Every step, in any order of system calls.
LEMMA RefcountsStep ==
    ASSUME RefInv, [AnyOrderNext]_vars
    PROVE  RefInv'
<1>1. Inv'
  BY AnyOrderStep DEF RefInv
<1>2. CASE UserCall
  <2>1. PICK caller \in Addrs :
        \/ \E auth \in Addrs, bls \in BlsKeys, c \in Commissions,
              value \in DelegateAmounts :
                 HandleAddValidator(caller, auth, bls, c, value)
        \/ \E v \in ValIds :
              \/ \E value \in DelegateAmounts : HandleDelegate(v, caller, value)
              \/ \E amount \in UndelegateAmounts, wid \in WithdrawIds :
                    HandleUndelegate(v, caller, amount, wid)
              \/ \E wid \in WithdrawIds : HandleWithdraw(v, caller, wid)
              \/ HandleClaimRewards(v, caller)
              \/ HandleCompound(v, caller)
              \/ HandleGetDelegator(v, caller)
              \/ \E c \in Commissions : HandleChangeCommission(v, caller, c)
              \/ \E value \in ExternalRewards :
                    HandleExternalReward(v, caller, value)
    BY <1>2 DEF UserCall
  <2> QED
    BY <1>1, <2>1, AddValidatorCounts, DelegateCallCounts, UndelegateCounts,
       WithdrawCounts, SettlingCounts, CompoundCounts, OtherCounts, Zenon
<1>3. CASE BlockCall
  BY <1>1, <1>3, SyscallRewardCounts, OtherCounts DEF BlockCall
<1> QED
  BY <1>1, <1>2, <1>3, RefreshCounts, OtherCounts DEF AnyOrderNext

\* No delegation, no withdrawal, no reference.
LEMMA InitCounts ==
    ASSUME Init
    PROVE  RefInv
<1>1. /\ accs = [v \in ValIds |-> [e \in Epochs |-> NoAccumulator]]
      /\ del = [v \in ValIds |-> [a \in Addrs |-> NoDelegator]]
      /\ withdrawals =
            [v \in ValIds |-> [a \in Addrs |-> [w \in WithdrawIds |-> NoWithdrawal]]]
  BY DEF Init
<1>2. ASSUME NEW v \in ValIds, NEW e \in Epochs \ {0}
      PROVE  accs[v][e].refcount = References(v, e)
  <2>1. /\ First(del, v, e) = {} /\ Second(del, v, e) = {}
        /\ Leaving(withdrawals, v, e) = {}
    BY <1>1 DEF First, Second, Leaving, NoDelegator, NoWithdrawal
  <2>2. Cardinality({}) = 0
    BY FS_EmptySet
  <2>3. References(v, e) = 0 + 0 + 0
    BY <2>1, <2>2, ReferencesCount, Zenon DEF Tracked
  <2>4. accs[v][e].refcount = 0
    BY <1>1 DEF NoAccumulator
  <2> QED
    BY <2>3, <2>4
<1> QED
  BY <1>2, InitInv DEF RefInv, RefcountsExact

(***************************************************************************)
(* The snapshot of an epoch is counted exactly as often as delegations and *)
(* withdrawals still need it: it is not cleared while one of them does,    *)
(* and it is cleared when the last has used it.                            *)
(***************************************************************************)
THEOREM SnapshotsCounted == AnyOrderSpec => []RefcountsExact
<1>1. Init => RefInv
  BY InitCounts
<1>2. RefInv /\ [AnyOrderNext]_vars => RefInv'
  BY RefcountsStep
<1>3. RefInv => RefcountsExact
  BY DEF RefInv
<1> QED
  BY <1>1, <1>2, <1>3, PTL DEF AnyOrderSpec

-----------------------------------------------------------------------------
(* What the array operations of ValidatorSets do to the members.           *)

\* No id is in the array twice.
Distinct(array) == \A i, j \in 1 .. Len(array) : array[i] = array[j] => i = j

\* The two ways to say it.
LEMMA DistinctCounts ==
    ASSUME NEW S, NEW array \in Seq(S), Distinct(array)
    PROVE  NoDuplicates(array)
<1> DEFINE n == Len(array)
           f == [i \in 1 .. n |-> array[i]]
<1>1. n \in Nat /\ DOMAIN array = 1 .. n
  OBVIOUS
<1>2. f \in Bijection(1 .. n, Members(array))
  BY <1>1, Zenon DEF Members, Distinct, Bijection, Injection, Surjection, IsInjective
<1>3. IsFiniteSet(1 .. n) /\ Cardinality(1 .. n) = n
  BY <1>1, FS_Interval
<1>4. Cardinality(Members(array)) = n
  BY <1>2, <1>3, FS_Bijection DEF ExistsBijection
<1> QED
  BY <1>4 DEF NoDuplicates

\* Downwards from n + 1 to 1.
LEMMA DownwardInduction ==
    ASSUME NEW n \in Nat, NEW Good,
           n + 1 \in Good, \A i \in 1 .. n : i + 1 \in Good => i \in Good
    PROVE  \A i \in 1 .. n + 1 : i \in Good
<1> DEFINE Bad == {i \in 1 .. n + 1 : i \notin Good}
<1>1. SUFFICES ASSUME Bad # {} PROVE FALSE
  OBVIOUS
<1>2. IsFiniteSet(Bad) /\ Bad \subseteq Int
  <2>1. IsFiniteSet(1 .. n + 1)
    BY FS_Interval
  <2> QED
    BY <2>1, FS_Subset
<1>3. PICK m \in Bad : \A k \in Bad : k <= m
  <2> HIDE DEF Bad
  <2> QED
    BY <1>1, <1>2, FiniteHasMax
<1>4. m \in 1 .. n /\ m + 1 \notin Bad
  BY <1>3
<1> QED
  BY <1>3, <1>4

\* An id is added that is not there.
LEMMA AppendMembers ==
    ASSUME NEW S, NEW array \in Seq(S), NEW v \in S
    PROVE  /\ Append(array, v) \in Seq(S)
           /\ Members(Append(array, v)) = Members(array) \cup {v}
           /\ Distinct(array) /\ v \notin Members(array) => Distinct(Append(array, v))
<1> DEFINE longer == Append(array, v)
           n == Len(array)
<1>1. /\ longer \in Seq(S) /\ n \in Nat /\ Len(longer) = n + 1
      /\ DOMAIN array = 1 .. n /\ DOMAIN longer = 1 .. n + 1
      /\ \A i \in 1 .. n : longer[i] = array[i]
      /\ longer[n + 1] = v
  OBVIOUS
<1> HIDE DEF longer, n
<1>2. Members(longer) = Members(array) \cup {v}
  <2>1. \A i \in 1 .. n + 1 : i \in 1 .. n \/ i = n + 1
    BY <1>1
  <2>2. 1 .. n \subseteq 1 .. n + 1 /\ n + 1 \in 1 .. n + 1
    BY <1>1
  <2> QED
    BY <1>1, <2>1, <2>2 DEF Members
<1>3. ASSUME Distinct(array), v \notin Members(array)
      PROVE  Distinct(longer)
  BY <1>1, <1>3 DEF Members, Distinct, n
<1> QED
  BY <1>1, <1>2, <1>3 DEF longer

\* An id is popped, the last one taking its place.
LEMMA PopAndSwapMembers ==
    ASSUME NEW S, NEW array \in Seq(S), Distinct(array), NEW i \in 1 .. Len(array)
    PROVE  /\ PopAndSwap(array, i) \in Seq(S)
           /\ Len(PopAndSwap(array, i)) = Len(array) - 1
           /\ Distinct(PopAndSwap(array, i))
           /\ Members(PopAndSwap(array, i)) = Members(array) \ {array[i]}
           /\ \A k \in 1 .. i - 1 : PopAndSwap(array, i)[k] = array[k]
<1> DEFINE n == Len(array)
           popped == PopAndSwap(array, i)
<1>1. /\ n \in Nat /\ DOMAIN array = 1 .. n /\ i \in 1 .. n
      /\ \A k \in 1 .. n : array[k] \in S
  OBVIOUS
<1>2. popped = [k \in 1 .. n - 1 |-> IF k = i THEN array[n] ELSE array[k]]
  BY DEF PopAndSwap
<1> HIDE DEF popped, n
<1>3. popped \in Seq(S) /\ Len(popped) = n - 1 /\ DOMAIN popped = 1 .. n - 1
  <2>1. n - 1 \in Nat
    BY <1>1
  <2>2. \A k \in 1 .. n - 1 : popped[k] \in S
    BY <1>1, <1>2
  <2> QED
    <3>1. popped \in [1 .. n - 1 -> S]
      BY <1>2, <2>2
    <3> QED
      BY <2>1, <3>1, SeqDef, LenProperties
<1>4. \A k \in 1 .. n - 1 : popped[k] = IF k = i THEN array[n] ELSE array[k]
  BY <1>2
<1>5. Distinct(popped)
  BY <1>1, <1>3, <1>4 DEF Distinct, n
<1>6. Members(popped) = Members(array) \ {array[i]}
  <2>1. ASSUME NEW k \in 1 .. n - 1
        PROVE  popped[k] \in Members(array) \ {array[i]}
    BY <1>1, <1>4 DEF Members, Distinct, n
  <2>2. ASSUME NEW k \in 1 .. n, array[k] # array[i]
        PROVE  \E l \in 1 .. n - 1 : popped[l] = array[k]
    <3>1. CASE k = n
      <4>1. i \in 1 .. n - 1 /\ popped[i] = array[n]
        BY <1>1, <1>4, <2>2, <3>1
      <4> QED
        BY <3>1, <4>1
    <3>2. CASE k # n
      <4>1. k \in 1 .. n - 1 /\ popped[k] = array[k]
        BY <1>1, <1>4, <2>2, <3>2
      <4> QED
        BY <4>1
    <3> QED
      BY <3>1, <3>2
  <2>3. Members(popped) = {popped[k] : k \in 1 .. n - 1}
    BY <1>3, Zenon DEF Members
  <2>4. Members(array) = {array[k] : k \in 1 .. n}
    BY <1>1, Zenon DEF Members
  <2> QED
    BY <2>1, <2>2, <2>3, <2>4
<1>7. \A k \in 1 .. i - 1 : popped[k] = array[k]
  BY <1>1, <1>4
<1> QED
  BY <1>3, <1>5, <1>6, <1>7 DEF popped, n


-----------------------------------------------------------------------------
(* Compaction, seen as a loop from the last index down.                    *)

\* The array before and after index i is looked at.
Sweep(array, keep, next, i) ==
    IF array[i] \in keep THEN next ELSE PopAndSwap(next, i)

\* g holds the arrays of the loop from index k on.
Sweeping(array, keep, k, g) ==
    g = [i \in k .. Len(array) + 1 |->
            IF i = Len(array) + 1 THEN array
            ELSE Sweep(array, keep, g[i + 1], i)]

\* What index i leaves: the indices below it are as they were, those from it
\* on have lost what is not kept.
Swept(S, array, keep, i, w) ==
    /\ w \in Seq(S)
    /\ Distinct(w)
    /\ Len(w) >= i - 1
    /\ \A k \in 1 .. i - 1 : w[k] = array[k]
    /\ Members(w) = {array[k] : k \in 1 .. i - 1}
                    \cup {array[k] : k \in {j \in i .. Len(array) : array[j] \in keep}}

LEMMA SweptAtEnd ==
    ASSUME NEW S, NEW array \in Seq(S), Distinct(array), NEW keep
    PROVE  Swept(S, array, keep, Len(array) + 1, array)
BY DEF Swept, Members

LEMMA SweepStep ==
    ASSUME NEW S, NEW array \in Seq(S), Distinct(array), NEW keep,
           NEW i \in 1 .. Len(array), NEW w, Swept(S, array, keep, i + 1, w)
    PROVE  Swept(S, array, keep, i, Sweep(array, keep, w, i))
<1> DEFINE n == Len(array)
           next == Sweep(array, keep, w, i)
           Before(m) == {array[k] : k \in 1 .. m - 1}
           Kept(m) == {array[k] : k \in {j \in m .. n : array[j] \in keep}}
<1>1. /\ n \in Nat /\ i \in 1 .. n
      /\ w \in Seq(S) /\ Distinct(w) /\ Len(w) >= i
      /\ \A k \in 1 .. i : w[k] = array[k]
      /\ Members(w) = Before(i + 1) \cup Kept(i + 1)
  BY DEF Swept
<1>2. Before(i + 1) = Before(i) \cup {array[i]}
  <2>1. 1 .. (i + 1) - 1 = (1 .. i - 1) \cup {i}
    BY <1>1
  <2> QED
    BY <2>1
<1>3. CASE array[i] \in keep
  <2>1. Kept(i) = Kept(i + 1) \cup {array[i]}
    <3>1. {j \in i .. n : array[j] \in keep} = {j \in i + 1 .. n : array[j] \in keep} \cup {i}
      BY <1>1, <1>3
    <3> QED
      BY <3>1
  <2>2. next = w
    BY <1>3 DEF Sweep
  <2> HIDE DEF next, Before, Kept
  <2>3. Members(w) = Before(i) \cup Kept(i)
    BY <1>1, <1>2, <2>1
  <2>4. Len(w) >= i - 1 /\ \A k \in 1 .. i - 1 : w[k] = array[k]
    BY <1>1
  <2> QED
    BY <1>1, <2>2, <2>3, <2>4 DEF Swept, Before, Kept, n, next
<1>4. CASE array[i] \notin keep
  <2>1. Kept(i) = Kept(i + 1)
    <3>1. {j \in i .. n : array[j] \in keep} = {j \in i + 1 .. n : array[j] \in keep}
      BY <1>1, <1>4
    <3> QED
      BY <3>1
  <2>2. next = PopAndSwap(w, i)
    BY <1>4 DEF Sweep
  <2>3. array[i] \notin Before(i) /\ array[i] \notin Kept(i)
    BY <1>1, <1>4 DEF Distinct
  <2>4. w[i] = array[i] /\ i \in 1 .. Len(w) /\ Len(w) \in Nat
    BY <1>1
  <2> HIDE DEF next, Before, Kept
  <2>5. /\ next \in Seq(S) /\ Len(next) = Len(w) - 1 /\ Distinct(next)
        /\ Members(next) = Members(w) \ {w[i]}
        /\ \A k \in 1 .. i - 1 : next[k] = w[k]
    BY <1>1, <2>2, <2>4, PopAndSwapMembers
  <2>6. Members(next) = Before(i) \cup Kept(i)
    BY <1>1, <1>2, <2>1, <2>3, <2>4, <2>5
  <2>7. Len(next) >= i - 1 /\ \A k \in 1 .. i - 1 : next[k] = array[k]
    BY <1>1, <2>4, <2>5
  <2> QED
    BY <2>5, <2>6, <2>7 DEF Swept, Before, Kept, n, next
<1> QED
  BY <1>3, <1>4

\* The loop computes something, whatever the array.
LEMMA SweepingExists ==
    ASSUME NEW S, NEW array \in Seq(S), NEW keep
    PROVE  \E g : Sweeping(array, keep, 1, g)
<1> DEFINE n == Len(array)
           Good == {k \in 1 .. n + 1 : \E g : Sweeping(array, keep, k, g)}
<1>1. n \in Nat
  OBVIOUS
<1>2. n + 1 \in Good
  <2> DEFINE g == [i \in n + 1 .. n + 1 |-> array]
  <2>1. Sweeping(array, keep, n + 1, g)
    BY <1>1 DEF Sweeping
  <2> QED
    BY <1>1, <2>1
<1>3. ASSUME NEW k \in 1 .. n, k + 1 \in Good
      PROVE  k \in Good
  <2>1. PICK g : Sweeping(array, keep, k + 1, g)
    BY <1>3
  <2> DEFINE h == [i \in k .. n + 1 |->
                      IF i = k THEN Sweep(array, keep, g[k + 1], k) ELSE g[i]]
  <2>2. \A i \in k + 1 .. n + 1 : h[i] = g[i]
    BY <1>1, <1>3
  <2>3. ASSUME NEW i \in k .. n + 1
        PROVE  h[i] = IF i = n + 1 THEN array ELSE Sweep(array, keep, h[i + 1], i)
    <3>1. CASE i = k
      <4>1. h[i] = Sweep(array, keep, g[i + 1], i) /\ i # n + 1 /\ h[i + 1] = g[i + 1]
        BY <1>1, <2>2, <3>1
      <4> QED
        BY <4>1
    <3>2. CASE i # k
      <4>1. i \in k + 1 .. n + 1 /\ h[i] = g[i]
        BY <1>1, <2>2, <3>2
      <4>2. g[i] = IF i = n + 1 THEN array ELSE Sweep(array, keep, g[i + 1], i)
        BY <2>1, <4>1 DEF Sweeping
      <4>3. i # n + 1 => h[i + 1] = g[i + 1]
        BY <1>1, <2>2, <4>1
      <4> HIDE DEF h
      <4> QED
        BY <4>1, <4>2, <4>3
    <3> QED
      BY <3>1, <3>2
  <2>4. Sweeping(array, keep, k, h)
    <3>1. h = [i \in k .. n + 1 |->
                  IF i = n + 1 THEN array ELSE Sweep(array, keep, h[i + 1], i)]
      BY <2>3
    <3> QED
      BY <3>1 DEF Sweeping
  <2> HIDE DEF h
  <2> QED
    BY <1>1, <2>4
<1> HIDE DEF Good
<1>4. 1 \in Good
  BY <1>1, <1>2, <1>3, DownwardInduction
<1> QED
  BY <1>4 DEF Good

\* Compaction keeps what is to be kept, each once, and nothing else.
LEMMA CompactionKeeps ==
    ASSUME NEW S, NEW array \in Seq(S), Distinct(array), NEW keep
    PROVE  /\ CompactExecution(array, keep) \in Seq(S)
           /\ Distinct(CompactExecution(array, keep))
           /\ Members(CompactExecution(array, keep)) = Members(array) \cap keep
<1> DEFINE n == Len(array)
           work == CHOOSE g : Sweeping(array, keep, 1, g)
           Good == {i \in 1 .. n + 1 : Swept(S, array, keep, i, work[i])}
<1>1. n \in Nat
  OBVIOUS
<1>2. CompactExecution(array, keep) = work[1]
  BY DEF CompactExecution, Sweeping, Sweep
<1>3. Sweeping(array, keep, 1, work)
  BY SweepingExists
<1> HIDE DEF work
<1>4. /\ work[n + 1] = array
      /\ \A i \in 1 .. n : work[i] = Sweep(array, keep, work[i + 1], i)
  BY <1>1, <1>3 DEF Sweeping
<1>5. n + 1 \in Good
  BY <1>1, <1>4, SweptAtEnd
<1>6. ASSUME NEW i \in 1 .. n, i + 1 \in Good
      PROVE  i \in Good
  BY <1>1, <1>4, <1>6, SweepStep
<1> HIDE DEF Good
<1>7. 1 \in Good
  BY <1>1, <1>5, <1>6, DownwardInduction
<1>8. Swept(S, array, keep, 1, work[1])
  BY <1>7 DEF Good
<1>9. Members(work[1]) = Members(array) \cap keep
  <2>1. Members(array) = {array[k] : k \in 1 .. n}
    BY DEF Members
  <2>2. Members(work[1]) = {array[k] : k \in {j \in 1 .. n : array[j] \in keep}}
    BY <1>8 DEF Swept
  <2> QED
    BY <2>1, <2>2
<1> QED
  BY <1>2, <1>8, <1>9 DEF Swept


-----------------------------------------------------------------------------
(* The best by stake: a rank for everyone, and everyone's own.             *)

Ahead(stake, v, w) ==
    \/ stake[v] > stake[w]
    \/ stake[v] = stake[w] /\ v < w

BetterThan(eligible, stake, v) == {w \in eligible : Ahead(stake, w, v)}

RankIn(eligible, stake) ==
    [v \in eligible |-> Cardinality(BetterThan(eligible, stake, v)) + 1]

LEMMA RanksDiffer ==
    ASSUME NEW eligible \in SUBSET Int, IsFiniteSet(eligible),
           NEW stake, \A v \in eligible : stake[v] \in Int
    PROVE  RankIn(eligible, stake) \in Injection(eligible, 1 .. Cardinality(eligible))
<1> DEFINE rank == RankIn(eligible, stake)
           n == Cardinality(eligible)
           Better(v) == BetterThan(eligible, stake, v)
<1>1. ASSUME NEW v \in eligible
      PROVE  /\ Better(v) \subseteq eligible \ {v}
             /\ IsFiniteSet(Better(v)) /\ Cardinality(Better(v)) \in Nat
             /\ rank[v] = Cardinality(Better(v)) + 1
             /\ rank[v] \in 1 .. n
  <2>1. Better(v) \subseteq eligible \ {v}
    BY DEF BetterThan, Ahead
  <2>2. /\ IsFiniteSet(eligible \ {v}) /\ Cardinality(eligible \ {v}) = n - 1
        /\ n \in Nat
    BY FS_RemoveElement, FS_CardinalityType
  <2>3. /\ IsFiniteSet(Better(v)) /\ Cardinality(Better(v)) <= n - 1
        /\ Cardinality(Better(v)) \in Nat
    <3> HIDE DEF n, Better
    <3> QED
      BY <2>1, <2>2, FS_Subset, FS_CardinalityType
  <2>4. rank[v] = Cardinality(Better(v)) + 1
    BY DEF RankIn
  <2> HIDE DEF rank, n, Better
  <2> QED
    BY <2>1, <2>2, <2>3, <2>4
<1>2. ASSUME NEW v \in eligible, NEW w \in eligible, Ahead(stake, v, w)
      PROVE  rank[v] < rank[w]
  <2>1. Better(v) \cup {v} \subseteq Better(w)
    <3>1. ASSUME NEW x \in eligible, Ahead(stake, x, v)
          PROVE  Ahead(stake, x, w)
      <4>1. stake[x] \in Int /\ stake[v] \in Int /\ stake[w] \in Int
        OBVIOUS
      <4>2. x \in Int /\ v \in Int /\ w \in Int
        OBVIOUS
      <4> QED
        BY <1>2, <3>1, <4>1, <4>2 DEF Ahead
    <3> QED
      BY <1>2, <3>1 DEF BetterThan
  <2>2. v \notin Better(v)
    BY <1>1
  <2> HIDE DEF rank, n, Better
  <2>3. Cardinality(Better(v) \cup {v}) = Cardinality(Better(v)) + 1
    BY <1>1, <2>2, FS_AddElement
  <2>4. Cardinality(Better(v) \cup {v}) <= Cardinality(Better(w))
    BY <1>1, <2>1, FS_Subset
  <2> QED
    BY <1>1, <2>3, <2>4
<1>3. \A v, w \in eligible : v # w => Ahead(stake, v, w) \/ Ahead(stake, w, v)
  BY DEF Ahead
<1>4. \A v, w \in eligible : rank[v] = rank[w] => v = w
  <2> HIDE DEF rank
  <2> SUFFICES ASSUME NEW v \in eligible, NEW w \in eligible, v # w
               PROVE  rank[v] # rank[w]
    OBVIOUS
  <2>1. rank[v] < rank[w] \/ rank[w] < rank[v]
    BY <1>2, <1>3
  <2>2. rank[v] \in Int /\ rank[w] \in Int
    BY <1>1
  <2> QED
    BY <2>1, <2>2
<1>5. rank \in [eligible -> 1 .. n]
  BY <1>1 DEF RankIn
<1> QED
  BY <1>4, <1>5, Zenon DEF Injection, IsInjective

\* Each rank up to the number of the eligible is taken.
LEMMA RanksAreTaken ==
    ASSUME NEW eligible \in SUBSET Int, IsFiniteSet(eligible),
           NEW stake, \A v \in eligible : stake[v] \in Int
    PROVE  \A i \in 1 .. Cardinality(eligible) :
              \E v \in eligible : RankIn(eligible, stake)[v] = i
<1> DEFINE n == Cardinality(eligible)
           rank == RankIn(eligible, stake)
<1>1. n \in Nat /\ IsFiniteSet(1 .. n) /\ Cardinality(1 .. n) = n
  BY FS_CardinalityType, FS_Interval
<1>2. rank \in Injection(eligible, 1 .. n)
  BY RanksDiffer
<1> HIDE DEF rank
<1>3. rank \in Surjection(eligible, 1 .. n)
  BY <1>1, <1>2, FS_Injection
<1> QED
  BY <1>3 DEF Surjection, rank

\* The chosen are eligible, nobody twice, and no more than asked for.
LEMMA TopByStakeChooses ==
    ASSUME NEW eligible \in SUBSET Int, IsFiniteSet(eligible),
           NEW stake, \A v \in eligible : stake[v] \in Int, NEW size \in Nat
    PROVE  /\ TopByStake(eligible, stake, size) \in Seq(eligible)
           /\ Distinct(TopByStake(eligible, stake, size))
           /\ Len(TopByStake(eligible, stake, size)) <= size
<1> DEFINE n == Cardinality(eligible)
           m == IF n < size THEN n ELSE size
           rank == RankIn(eligible, stake)
           top == TopByStake(eligible, stake, size)
<1>1. n \in Nat /\ m \in Nat /\ m <= n /\ m <= size
  BY FS_CardinalityType
<1>2. top = [i \in 1 .. m |-> CHOOSE v \in eligible : rank[v] = i]
  <2>1. top = [i \in 1 .. m |->
                  CHOOSE v \in eligible :
                     Cardinality({w \in eligible : \/ stake[w] > stake[v]
                                                   \/ stake[w] = stake[v] /\ w < v}) + 1 = i]
    BY Zenon DEF TopByStake
  <2>2. ASSUME NEW i
        PROVE  (CHOOSE v \in eligible :
                   Cardinality({w \in eligible : \/ stake[w] > stake[v]
                                                 \/ stake[w] = stake[v] /\ w < v}) + 1 = i)
               = CHOOSE v \in eligible : rank[v] = i
    BY DEF RankIn, BetterThan, Ahead
  <2> QED
    BY <2>1, <2>2, Zenon
<1> HIDE DEF rank, top, n, m
<1>3. ASSUME NEW i \in 1 .. m
      PROVE  top[i] \in eligible /\ rank[top[i]] = i
  <2>1. \E v \in eligible : rank[v] = i
    <3>1. i \in 1 .. n
      BY <1>1
    <3> QED
      BY <3>1, RanksAreTaken DEF n, rank
  <2>2. top[i] = CHOOSE v \in eligible : rank[v] = i
    BY <1>2
  <2> QED
    BY <2>1, <2>2, Zenon
<1>4. top \in Seq(eligible) /\ Len(top) = m
  <2>1. top \in [1 .. m -> eligible]
    BY <1>2, <1>3
  <2> QED
    BY <1>1, <2>1, SeqDef, LenProperties
<1>5. Distinct(top)
  BY <1>3, <1>4 DEF Distinct
<1> QED
  BY <1>1, <1>4, <1>5 DEF top

-----------------------------------------------------------------------------
(* The flags of a validator say exactly what its stake is.                 *)

\* FlagsExact of one validator: its record, and the stake of its auth address.
StakeTold(record) ==
    "STAKE_TOO_LOW" \in record.flags <=> record.stake < ACTIVE_VALIDATOR_STAKE

AuthTold(record, total) ==
    "WITHDRAWN" \in record.flags <=> total < MIN_AUTH_ADDRESS_STAKE

FlagInv == Inv /\ FlagsExact

KeepsStake ==
    \A v \in ValIds : /\ val'[v].stake = val[v].stake
                      /\ val'[v].auth = val[v].auth
                      /\ val'[v].flags = val[v].flags

\* Calls that move no stake leave the flags exact.
LEMMA UnmovedStake ==
    ASSUME FlagInv, KeepsStake,
           \A v \in ValIds, a \in Addrs :
              TotalStake(del'[v][a]) = TotalStake(del[v][a])
    PROVE  FlagsExact'
<1> SUFFICES ASSUME NEW v \in ValIds, val'[v].auth # ZERO_ADDRESS
             PROVE  StakeTold(val'[v]) /\ AuthTold(val'[v], TotalStake(del'[v][val'[v].auth]))
  BY DEF FlagsExact, StakeTold, AuthTold
<1>1. val[v].auth \in Addrs
  BY DEF FlagInv, Inv, TypeOK, Validator, KeepsStake
<1>2. StakeTold(val[v]) /\ AuthTold(val[v], TotalStake(del[v][val[v].auth]))
  BY <1>1, StakingAssumption DEF FlagInv, FlagsExact, StakeTold, AuthTold, KeepsStake
<1> QED
  BY <1>1, <1>2 DEF StakeTold, AuthTold, KeepsStake

\* The flags after stake is added, from flags that were exact before; a new
\* validator starts with enough stake of its auth address.
LEMMA DelegationFlags ==
    ASSUME FlagInv,
           NEW v \in ValIds, NEW caller \in Addrs, NEW record \in Validator,
           NEW amount \in Nat \ {0}, NEW s, NEW d \in Delegator, NEW unclaimed \in Nat,
           DelegationWritten(v, caller, record, amount, s, d, unclaimed),
           TotalStake(s.del) = TotalStake(del[v][caller]),
           record.auth \in Addrs,
           StakeTold(record),
           \/ AuthTold(record, TotalStake(del[v][record.auth]))
           \/ /\ "WITHDRAWN" \notin record.flags
              /\ caller = record.auth
              /\ amount >= MIN_AUTH_ADDRESS_STAKE
    PROVE  FlagsExact'
<1> DEFINE staked == [record EXCEPT !.stake = @ + amount, !.unclaimed = unclaimed]
           flags == FlagsAfterDelegate(staked, d, caller)
           new == [staked EXCEPT !.flags = flags]
           before == TotalStake(del[v][caller])
<1>1. /\ val \in [ValIds -> Validator] /\ del \in [ValIds -> [Addrs -> Delegator]]
      /\ record.stake \in Nat /\ record.flags \subseteq Flags
      /\ ACTIVE_VALIDATOR_STAKE \in Nat /\ MIN_AUTH_ADDRESS_STAKE \in Nat
  BY StakingConstantsAssumption DEF FlagInv, Inv, TypeOK, Validator
<1>2. before \in Nat
  BY <1>1 DEF TotalStake, Delegator
<1>3. /\ del' = [del EXCEPT ![v][caller] = d]
      /\ TotalStake(d) = before + amount
      /\ val' = [val EXCEPT ![v] = new]
  BY DEF DelegationWritten
<1>4. /\ new.stake = record.stake + amount
      /\ new.auth = record.auth
      /\ new.flags = flags
      /\ flags = record.flags
            \ ((IF record.stake + amount >= ACTIVE_VALIDATOR_STAKE
                THEN {"STAKE_TOO_LOW"} ELSE {})
               \cup
               (IF caller = record.auth /\ TotalStake(d) >= MIN_AUTH_ADDRESS_STAKE
                THEN {"WITHDRAWN"} ELSE {}))
  BY DEF FlagsAfterDelegate, Validator
<1> HIDE DEF new, flags, before
<1>5. StakeTold(new)
  BY <1>1, <1>4 DEF StakeTold
<1>6. AuthTold(new, TotalStake(del'[v][new.auth]))
  <2>1. CASE caller = record.auth
    <3>1. del'[v][new.auth] = d
      BY <1>1, <1>3, <1>4, <2>1
    <3>2. AuthTold(new, before + amount)
      BY <1>1, <1>2, <1>3, <1>4, <2>1 DEF AuthTold, before
    <3> QED
      BY <1>3, <3>1, <3>2
  <2>2. CASE caller # record.auth
    <3>1. del'[v][new.auth] = del[v][record.auth]
      BY <1>1, <1>3, <1>4, <2>2
    <3> QED
      BY <1>4, <2>2, <3>1 DEF AuthTold
  <2> QED
    BY <2>1, <2>2
<1>7. ASSUME NEW w \in ValIds, w # v, val'[w].auth # ZERO_ADDRESS
      PROVE  StakeTold(val'[w]) /\ AuthTold(val'[w], TotalStake(del'[w][val'[w].auth]))
  <2>1. val'[w] = val[w] /\ del'[w] = del[w]
    BY <1>1, <1>3, <1>7
  <2> QED
    BY <1>7, <2>1 DEF FlagInv, FlagsExact, StakeTold, AuthTold
<1>8. val'[v] = new
  BY <1>1, <1>3
<1> QED
  BY <1>5, <1>6, <1>7, <1>8 DEF FlagsExact, StakeTold, AuthTold

\* addValidator registers a validator with exact flags.
LEMMA AddValidatorFlags ==
    ASSUME FlagInv, NEW caller \in Addrs, NEW auth \in Addrs, NEW bls \in BlsKeys,
           NEW commission \in Commissions, NEW value \in DelegateAmounts,
           HandleAddValidator(caller, auth, bls, commission, value)
    PROVE  FlagsExact'
<1> DEFINE v == lastValId + 1
           record == [NoValidator EXCEPT !.commission = commission,
                                         !.auth = auth,
                                         !.flags = {"STAKE_TOO_LOW"}]
           s == Settlement(del[v][auth], 0, accs[v])
<1>1. /\ v \in ValIds
      /\ value >= MIN_AUTH_ADDRESS_STAKE
      /\ InternalDelegate(v, record, auth, value, s)
  BY Zenon DEF HandleAddValidator
<1>2. /\ value \in Nat \ {0} /\ commission \in Nat
      /\ ACTIVE_VALIDATOR_STAKE \in Nat \ {0}
  BY <1>1, StakingAssumption, StakingConstantsAssumption
<1> HIDE DEF v
<1>3. /\ record \in Validator
      /\ record.stake = 0 /\ record.auth = auth /\ record.flags = {"STAKE_TOO_LOW"}
  BY <1>2 DEF NoValidator, Validator, Flags
<1>4. del[v][auth] \in Delegator /\ accs[v] \in Accumulators /\ PendingInWindow(del[v][auth])
  BY <1>1 DEF FlagInv, Inv, TypeOK, PendingWindow, Accumulators
<1>5. /\ s \in RunningSettlement /\ Solvent(s) /\ s.ok = TRUE
      /\ s.del = del[v][auth]
  BY <1>4, 0 \in Nat, SettlementType
<1> HIDE DEF record, s
<1>6. PICK d \in Delegator, unclaimed \in Nat :
          DelegationWritten(v, auth, record, value, s, d, unclaimed)
  BY <1>1, <1>2, <1>3, <1>4, <1>5, InternalDelegateFacts DEF FlagInv
<1>7. StakeTold(record) /\ "WITHDRAWN" \notin record.flags
  BY <1>2, <1>3 DEF StakeTold
<1> QED
  BY <1>1, <1>2, <1>3, <1>5, <1>6, <1>7, DelegationFlags

\* delegate and compound: stake added to the record a validator has.
LEMMA DelegatedFlags ==
    ASSUME FlagInv, NEW v \in ValIds, NEW caller \in Addrs,
           NEW amount \in Nat \ {0}, NEW s \in RunningSettlement,
           Solvent(s), s.ok = TRUE, PendingInWindow(s.del),
           TotalStake(s.del) = TotalStake(del[v][caller]),
           InternalDelegate(v, val[v], caller, amount, s)
    PROVE  FlagsExact'
<1>1. /\ val \in [ValIds -> Validator] /\ del \in [ValIds -> [Addrs -> Delegator]]
      /\ val[v] \in Validator
  BY DEF FlagInv, Inv, TypeOK
<1>2. PICK d \in Delegator, unclaimed \in Nat :
          DelegationWritten(v, caller, val[v], amount, s, d, unclaimed)
  BY <1>1, InternalDelegateFacts DEF FlagInv
<1>3. CASE val[v].auth # ZERO_ADDRESS
  <2>1. val[v].auth \in Addrs
    BY <1>1, <1>3 DEF Validator
  <2>2. StakeTold(val[v]) /\ AuthTold(val[v], TotalStake(del[v][val[v].auth]))
    BY <1>3 DEF FlagInv, FlagsExact, StakeTold, AuthTold
  <2> QED
    BY <1>1, <1>2, <2>1, <2>2, DelegationFlags
\* A validator that is not registered is not told about.
<1>4. CASE val[v].auth = ZERO_ADDRESS
  <2>1. val'[v].auth = ZERO_ADDRESS
    BY <1>1, <1>2, <1>4 DEF DelegationWritten, Validator
  <2>2. \A w \in ValIds : w # v => val'[w] = val[w] /\ del'[w] = del[w]
    BY <1>1, <1>2 DEF DelegationWritten
  <2> QED
    BY <2>1, <2>2 DEF FlagInv, FlagsExact
<1> QED
  BY <1>3, <1>4

\* A delegation written back with the stake it had.
LEMMA StoredFlags ==
    ASSUME FlagInv, NEW v \in ValIds, NEW a \in Addrs, NEW d,
           NEW s, Store(v, a, s, d),
           TotalStake(d) = TotalStake(del[v][a])
    PROVE  FlagsExact'
<1>1. val \in [ValIds -> Validator] /\ del \in [ValIds -> [Addrs -> Delegator]]
  BY DEF FlagInv, Inv, TypeOK
<1>2. /\ del' = [del EXCEPT ![v][a] = d]
      /\ val' = [val EXCEPT ![v].unclaimed = s.unclaimed]
  BY DEF Store
<1>3. \A w \in ValIds :
          /\ val'[w].stake = val[w].stake
          /\ val'[w].auth = val[w].auth
          /\ val'[w].flags = val[w].flags
  BY <1>1, <1>2 DEF Validator
<1>4. \A w \in ValIds, b \in Addrs : TotalStake(del'[w][b]) = TotalStake(del[w][b])
  BY <1>1, <1>2
<1> QED
  BY <1>3, <1>4, UnmovedStake DEF KeepsStake

\* undelegate: stake leaves the delegation and the validator together.
LEMMA UndelegateFlags ==
    ASSUME FlagInv, NEW v \in ValIds, NEW caller \in Addrs,
           NEW asked \in UndelegateAmounts, NEW wid \in WithdrawIds,
           HandleUndelegate(v, caller, asked, wid)
    PROVE  FlagsExact'
<1> DEFINE s         == Pulled(v, caller)
           remaining == s.del.stake - asked
           amount    == IF remaining < DUST_THRESHOLD THEN s.del.stake ELSE asked
           left      == s.del.stake - amount
           acc       == IF s.del.stake = amount THEN 0 ELSE s.del.acc
           d         == [s.del EXCEPT !.stake = left, !.acc = acc]
           stake     == val[v].stake - amount
           staked    == [val[v] EXCEPT !.stake = stake, !.unclaimed = s.unclaimed]
           flags     == FlagsAfterUndelegate(staked, d, caller)
           new       == [staked EXCEPT !.flags = flags]
           before    == TotalStake(del[v][caller])
           total     == TotalStake(d)
<1>1. /\ s.ok
      /\ Exists(v)
      /\ asked <= s.del.stake
      /\ amount <= val[v].stake
      /\ del' = [del EXCEPT ![v][caller] = d]
      /\ val' = [val EXCEPT ![v] = new]
  BY DEF HandleUndelegate
<1>2. s.del \in Delegator /\ TotalStake(s.del) = before
  BY <1>1, PulledFacts DEF FlagInv
<1>3. /\ val \in [ValIds -> Validator] /\ del \in [ValIds -> [Addrs -> Delegator]]
      /\ val[v] \in Validator /\ val[v].stake \in Nat
      /\ val[v].auth \in Addrs
      /\ ACTIVE_VALIDATOR_STAKE \in Nat /\ MIN_AUTH_ADDRESS_STAKE \in Nat
  BY <1>1, StakingConstantsAssumption DEF FlagInv, Inv, TypeOK, Validator, Exists
<1>4. asked \in Nat /\ s.del.stake \in Nat
  BY <1>2, StakingAssumption DEF Delegator
<1> HIDE DEF s
<1>5. amount \in Nat /\ amount <= s.del.stake
  BY <1>1, <1>4
<1> HIDE DEF amount, remaining
<1>6. /\ left \in Nat /\ left = s.del.stake - amount
      /\ stake \in Nat /\ stake = val[v].stake - amount
  BY <1>1, <1>3, <1>4, <1>5
<1> HIDE DEF left, acc, stake
<1>7. /\ d.stake = left
      /\ d.deltaStake = s.del.deltaStake
      /\ d.nextDeltaStake = s.del.nextDeltaStake
  BY <1>2 DEF Delegator
<1> HIDE DEF d
<1>8. total = before - amount /\ before \in Nat
  BY <1>2, <1>4, <1>5, <1>6, <1>7 DEF TotalStake, Delegator
<1>9. /\ new.stake = stake
      /\ new.auth = val[v].auth
      /\ new.flags = flags
      /\ flags = val[v].flags
            \cup (IF stake < ACTIVE_VALIDATOR_STAKE THEN {"STAKE_TOO_LOW"} ELSE {})
            \cup (IF caller = val[v].auth /\ total < MIN_AUTH_ADDRESS_STAKE
                  THEN {"WITHDRAWN"} ELSE {})
  BY <1>3 DEF FlagsAfterUndelegate, Validator
<1>10. StakeTold(val[v]) /\ AuthTold(val[v], TotalStake(del[v][val[v].auth]))
  BY <1>1 DEF Exists, FlagInv, FlagsExact, StakeTold, AuthTold
<1> HIDE DEF new, flags, before, total
<1>11. StakeTold(new)
  BY <1>3, <1>5, <1>6, <1>9, <1>10 DEF StakeTold
<1>12. AuthTold(new, TotalStake(del'[v][new.auth]))
  <2>1. CASE caller = val[v].auth
    <3>1. del'[v][new.auth] = d
      BY <1>1, <1>3, <1>9, <2>1
    <3>2. AuthTold(val[v], before)
      BY <1>10, <2>1 DEF before
    <3>3. AuthTold(new, total)
      BY <1>3, <1>5, <1>8, <1>9, <2>1, <3>2 DEF AuthTold
    <3> QED
      BY <3>1, <3>3 DEF total
  <2>2. CASE caller # val[v].auth
    <3>1. del'[v][new.auth] = del[v][val[v].auth]
      BY <1>1, <1>3, <1>9, <2>2
    <3> QED
      BY <1>9, <1>10, <2>2, <3>1 DEF AuthTold
  <2> QED
    BY <2>1, <2>2
<1>13. val'[v] = new /\ \A w \in ValIds : w # v => val'[w] = val[w] /\ del'[w] = del[w]
  BY <1>1, <1>3
<1> QED
  BY <1>11, <1>12, <1>13 DEF FlagInv, FlagsExact, StakeTold, AuthTold

\* A reward moves no stake.
LEMMA RewardFlags ==
    ASSUME FlagInv, NEW author \in Addrs, NEW reward \in BlockRewards,
           HandleSyscallReward(author, reward)
    PROVE  FlagsExact'
<1>1. PICK commission, pool, new :
        LET v == valIdSecp[author]
            auth == val[v].auth
        IN  /\ del' = [del EXCEPT ![v][auth].rewards = @ + commission]
            /\ val' = [val EXCEPT ![v].unclaimed = pool, ![v].acc = new]
  BY DEF HandleSyscallReward, DistributeReward
<1>2. val \in [ValIds -> Validator] /\ del \in [ValIds -> [Addrs -> Delegator]]
  BY DEF FlagInv, Inv, TypeOK
<1>3. \A w \in ValIds :
          /\ val'[w].stake = val[w].stake
          /\ val'[w].auth = val[w].auth
          /\ val'[w].flags = val[w].flags
  BY <1>1, <1>2 DEF Validator
<1>4. \A w \in ValIds, b \in Addrs : TotalStake(del'[w][b]) = TotalStake(del[w][b])
  BY <1>1, <1>2 DEF TotalStake, Delegator
<1> QED
  BY <1>3, <1>4, UnmovedStake DEF KeepsStake

\* The calls that settle a delegation and stake what it earned, or nothing.
LEMMA SettlingFlags ==
    ASSUME FlagInv, NEW v \in ValIds, NEW a \in Addrs,
           \/ HandleClaimRewards(v, a)
           \/ HandleCompound(v, a)
           \/ HandleGetDelegator(v, a)
    PROVE  FlagsExact'
<1> DEFINE s == Pulled(v, a)
           cleared == [s EXCEPT !.del.rewards = 0]
<1>1. s.ok
  BY DEF HandleClaimRewards, HandleCompound, HandleGetDelegator
<1>2. /\ s \in RunningSettlement /\ Solvent(s) /\ s.ok = TRUE
      /\ s.del \in Delegator
      /\ PendingInWindow(s.del)
      /\ TotalStake(s.del) = TotalStake(del[v][a])
  BY <1>1, PulledFacts DEF FlagInv
<1>3. CASE HandleClaimRewards(v, a)
  <2>1. Store(v, a, s, [s.del EXCEPT !.rewards = 0])
    BY <1>3 DEF HandleClaimRewards
  <2> HIDE DEF s
  <2>2. TotalStake([s.del EXCEPT !.rewards = 0]) = TotalStake(del[v][a])
    BY <1>2 DEF TotalStake, Delegator
  <2> QED
    BY <2>1, <2>2, StoredFlags
<1>4. CASE HandleGetDelegator(v, a)
  <2>1. Store(v, a, s, s.del)
    BY <1>4 DEF HandleGetDelegator
  <2> QED
    BY <1>2, <2>1, StoredFlags
<1>5. CASE HandleCompound(v, a)
  <2>1. /\ s.del.rewards # 0
        /\ InternalDelegate(v, val[v], a, s.del.rewards, cleared)
    BY <1>5, Zenon DEF HandleCompound
  <2> HIDE DEF s
  <2>2. s.del.rewards \in Nat \ {0}
    BY <1>2, <2>1 DEF Delegator
  <2>3. /\ cleared \in RunningSettlement
        /\ cleared.ok = s.ok
        /\ cleared.unclaimed = s.unclaimed
        /\ cleared.del.rewards = 0
        /\ cleared.del.stake = s.del.stake
        /\ cleared.del.deltaStake = s.del.deltaStake
        /\ cleared.del.nextDeltaStake = s.del.nextDeltaStake
        /\ cleared.del.deltaEpoch = s.del.deltaEpoch
        /\ cleared.del.nextDeltaEpoch = s.del.nextDeltaEpoch
    BY <1>2 DEF RunningSettlement, RunningDelegator
  <2> HIDE DEF cleared
  <2>4. Solvent(cleared) /\ cleared.ok = TRUE
    BY <1>2, <2>3 DEF Solvent
  <2>5. PendingInWindow(cleared.del) /\ TotalStake(cleared.del) = TotalStake(del[v][a])
    BY <1>2, <2>3 DEF PendingInWindow, TotalStake
  <2> QED
    BY <2>1, <2>2, <2>3, <2>4, <2>5, DelegatedFlags
<1> QED
  BY <1>3, <1>4, <1>5

\* delegate starts from the delegation as it is stored.
LEMMA DelegateCallFlags ==
    ASSUME FlagInv, NEW v \in ValIds, NEW caller \in Addrs,
           NEW value \in DelegateAmounts, HandleDelegate(v, caller, value)
    PROVE  FlagsExact'
<1> DEFINE s == Settlement(del[v][caller], val[v].unclaimed, accs[v])
<1>1. /\ value >= DUST_THRESHOLD
      /\ InternalDelegate(v, val[v], caller, value, s)
  BY Zenon DEF HandleDelegate
<1>2. value \in Nat \ {0}
  BY <1>1, StakingAssumption, StakingConstantsAssumption
<1>3. /\ val[v].unclaimed \in Nat /\ del[v][caller] \in Delegator
      /\ accs[v] \in Accumulators /\ PendingInWindow(del[v][caller])
  BY DEF FlagInv, Inv, TypeOK, Validator, PendingWindow, Accumulators
<1>4. /\ s \in RunningSettlement /\ Solvent(s) /\ s.ok = TRUE
      /\ s.del = del[v][caller]
  BY <1>3, SettlementType
<1> HIDE DEF s
<1> QED
  BY <1>1, <1>2, <1>3, <1>4, DelegatedFlags

\* Calls that write a validator's commission, accumulator or pool, or no
\* record at all, leave its stake, auth address and flags.
LEMMA OtherCallsKeepStake ==
    ASSUME val \in [ValIds -> Validator],
           \/ \E v \in ValIds, caller \in Addrs, wid \in WithdrawIds :
                 HandleWithdraw(v, caller, wid)
           \/ \E v \in ValIds, caller \in Addrs, c \in Commissions :
                 HandleChangeCommission(v, caller, c)
           \/ \E v \in ValIds, caller \in Addrs, value \in ExternalRewards :
                 HandleExternalReward(v, caller, value)
           \/ HandleSyscallSnapshot
           \/ \E next \in 1 .. MaxEpoch : HandleSyscallOnEpochChange(next)
    PROVE  KeepsStake
<1>1. ASSUME NEW v \in ValIds, NEW caller \in Addrs, NEW wid \in WithdrawIds,
             HandleWithdraw(v, caller, wid)
      PROVE  KeepsStake
  <2>1. PICK pool : val' = [val EXCEPT ![v].unclaimed = pool]
    BY <1>1, Zenon DEF HandleWithdraw
  <2> QED
    BY <2>1 DEF Validator, KeepsStake
<1>2. ASSUME NEW v \in ValIds, NEW caller \in Addrs, NEW c \in Commissions,
             HandleChangeCommission(v, caller, c)
      PROVE  KeepsStake
  BY <1>2 DEF HandleChangeCommission, Validator, KeepsStake
<1>3. ASSUME NEW v \in ValIds, NEW caller \in Addrs, NEW value \in ExternalRewards,
             HandleExternalReward(v, caller, value)
      PROVE  KeepsStake
  <2> DEFINE more == PerToken(value, CurrentView(v).stake)
  <2>1. val' = [val EXCEPT ![v].acc = @ + more, ![v].unclaimed = @ + value]
    BY <1>3, Zenon DEF HandleExternalReward
  <2> HIDE DEF more
  <2> QED
    BY <2>1 DEF Validator, KeepsStake
<1>4. HandleSyscallSnapshot => KeepsStake
  BY DEF HandleSyscallSnapshot, ledger, KeepsStake
<1>5. (\E next \in 1 .. MaxEpoch : HandleSyscallOnEpochChange(next)) => KeepsStake
  BY DEF HandleSyscallOnEpochChange, KeepsStake
<1> QED
  BY <1>1, <1>2, <1>3, <1>4, <1>5

LEMMA OtherFlags ==
    ASSUME FlagInv,
           \/ \E v \in ValIds, caller \in Addrs, wid \in WithdrawIds :
                 HandleWithdraw(v, caller, wid)
           \/ \E v \in ValIds, caller \in Addrs, c \in Commissions :
                 HandleChangeCommission(v, caller, c)
           \/ \E v \in ValIds, caller \in Addrs, value \in ExternalRewards :
                 HandleExternalReward(v, caller, value)
           \/ HandleSyscallSnapshot
           \/ \E next \in 1 .. MaxEpoch : HandleSyscallOnEpochChange(next)
    PROVE  FlagsExact'
<1>1. val \in [ValIds -> Validator]
  BY DEF FlagInv, Inv, TypeOK
<1>2. del' = del
  BY DEF HandleWithdraw, HandleChangeCommission, HandleExternalReward,
         HandleSyscallSnapshot, HandleSyscallOnEpochChange, ledger
<1>3. KeepsStake
  BY <1>1, OtherCallsKeepStake
<1> QED
  BY <1>2, <1>3, UnmovedStake

\* Every step, in any order of system calls.
LEMMA FlagStep ==
    ASSUME FlagInv, [AnyOrderNext]_vars
    PROVE  FlagInv'
<1>1. SUFFICES FlagsExact'
  BY AnyOrderStep DEF FlagInv
<1>2. CASE UserCall
  <2>1. PICK caller \in Addrs :
        \/ \E auth \in Addrs, bls \in BlsKeys, c \in Commissions,
              value \in DelegateAmounts :
                 HandleAddValidator(caller, auth, bls, c, value)
        \/ \E v \in ValIds :
              \/ \E value \in DelegateAmounts : HandleDelegate(v, caller, value)
              \/ \E amount \in UndelegateAmounts, wid \in WithdrawIds :
                    HandleUndelegate(v, caller, amount, wid)
              \/ \E wid \in WithdrawIds : HandleWithdraw(v, caller, wid)
              \/ HandleClaimRewards(v, caller)
              \/ HandleCompound(v, caller)
              \/ HandleGetDelegator(v, caller)
              \/ \E c \in Commissions : HandleChangeCommission(v, caller, c)
              \/ \E value \in ExternalRewards :
                    HandleExternalReward(v, caller, value)
    BY <1>2 DEF UserCall
  <2> QED
    BY <2>1, AddValidatorFlags, DelegateCallFlags, UndelegateFlags, SettlingFlags,
       OtherFlags, Zenon
<1>3. CASE BlockCall
  BY <1>3, RewardFlags, OtherFlags DEF BlockCall
<1>4. CASE \E next \in 1 .. MaxEpoch : HandleSyscallOnEpochChange(next)
  BY <1>4, OtherFlags
<1>5. CASE UNCHANGED vars
  BY <1>5 DEF FlagInv, FlagsExact, vars, ledger
<1> QED
  BY <1>2, <1>3, <1>4, <1>5 DEF AnyOrderNext

(***************************************************************************)
(* STAKE_TOO_LOW and WITHDRAWN always say what the stake of the validator  *)
(* and of its auth address is: no call of any account, settlement of due   *)
(* stake, reward or epoch change leaves a flag stale.                      *)
(***************************************************************************)
THEOREM FlagsAlwaysExact == AnyOrderSpec => []FlagsExact
<1>1. Init => FlagInv
  <2>1. Init => Inv
    BY InitInv
  <2>2. Init => FlagsExact
    BY DEF Init, FlagsExact, NoValidator
  <2> QED
    BY <2>1, <2>2 DEF FlagInv
<1>2. FlagInv /\ [AnyOrderNext]_vars => FlagInv'
  BY FlagStep
<1>3. FlagInv => FlagsExact
  BY DEF FlagInv
<1> QED
  BY <1>1, <1>2, <1>3, PTL DEF AnyOrderSpec

-----------------------------------------------------------------------------
(* The terms of an epoch: the views rewards are computed with change with  *)
(* the epoch and at no other moment.                                       *)

(***************************************************************************)
(* The inductive invariant.  A boundary hands the consensus view on to the *)
(* snapshot view only for members of the sets, so that a validator in      *)
(* neither must have an empty view already.                                *)
(***************************************************************************)
ViewsInv ==
    /\ inBoundary \in BOOLEAN
    /\ \A v \in ValIds : v \notin Members(consensus) => consensusView[v] = NoView
    /\ \A v \in ValIds : v \notin Members(snapshot) => snapshotView[v] = NoView

Terms == \A v \in ValIds : CurrentView(v)' = CurrentView(v)

\* No call of a user touches the clock or the sets of the epoch, and only one
\* gives a reward.
LEMMA UserCallsKeepViews ==
    ASSUME UserCall
    PROVE  /\ UNCHANGED <<clock, epochSets>>
           /\ \/ UNCHANGED rewarded
              \/ \E caller \in Addrs, v \in ValIds, value \in ExternalRewards :
                    HandleExternalReward(v, caller, value)
  <1>1. PICK caller \in Addrs :
            \/ \E auth \in Addrs, bls \in BlsKeys, c \in Commissions,
                  value \in DelegateAmounts :
                     HandleAddValidator(caller, auth, bls, c, value)
            \/ \E v \in ValIds :
                  \/ \E value \in DelegateAmounts : HandleDelegate(v, caller, value)
                  \/ \E amount \in UndelegateAmounts, wid \in WithdrawIds :
                        HandleUndelegate(v, caller, amount, wid)
                  \/ \E wid \in WithdrawIds : HandleWithdraw(v, caller, wid)
                  \/ HandleClaimRewards(v, caller)
                  \/ HandleCompound(v, caller)
                  \/ HandleGetDelegator(v, caller)
                  \/ \E c \in Commissions : HandleChangeCommission(v, caller, c)
                  \/ \E value \in ExternalRewards : HandleExternalReward(v, caller, value)
    BY DEF UserCall
  <1>2. ASSUME NEW auth, NEW bls, NEW c, NEW value,
               HandleAddValidator(caller, auth, bls, c, value)
        PROVE  UNCHANGED <<clock, epochSets, rewarded>>
    BY <1>2 DEF HandleAddValidator
  <1>3. ASSUME NEW v, NEW value, HandleDelegate(v, caller, value)
        PROVE  UNCHANGED <<clock, epochSets, rewarded>>
    BY <1>3 DEF HandleDelegate
  <1>4. ASSUME NEW v, NEW amount, NEW wid, HandleUndelegate(v, caller, amount, wid)
        PROVE  UNCHANGED <<clock, epochSets, rewarded>>
    BY <1>4 DEF HandleUndelegate
  <1>5. ASSUME NEW v, NEW wid, HandleWithdraw(v, caller, wid)
        PROVE  UNCHANGED <<clock, epochSets, rewarded>>
    BY <1>5 DEF HandleWithdraw
  <1>6. ASSUME NEW v, HandleClaimRewards(v, caller)
        PROVE  UNCHANGED <<clock, epochSets, rewarded>>
    BY <1>6 DEF HandleClaimRewards
  <1>7. ASSUME NEW v, HandleCompound(v, caller)
        PROVE  UNCHANGED <<clock, epochSets, rewarded>>
    BY <1>7 DEF HandleCompound
  <1>8. ASSUME NEW v, HandleGetDelegator(v, caller)
        PROVE  UNCHANGED <<clock, epochSets, rewarded>>
    BY <1>8 DEF HandleGetDelegator
  <1>9. ASSUME NEW v, NEW c, HandleChangeCommission(v, caller, c)
        PROVE  UNCHANGED <<clock, epochSets, rewarded>>
    BY <1>9 DEF HandleChangeCommission
  <1>10. ASSUME NEW v, NEW value, HandleExternalReward(v, caller, value)
         PROVE  UNCHANGED <<clock, epochSets>>
    BY <1>10 DEF HandleExternalReward
  <1>11. QED
    BY <1>1, <1>2, <1>3, <1>4, <1>5, <1>6, <1>7, <1>8, <1>9, <1>10

LEMMA UnmovedViews ==
    ASSUME ViewsInv, UNCHANGED <<clock, epochSets>>
    PROVE  ViewsInv' /\ Terms
  BY DEF ViewsInv, Terms, CurrentView, clock, epochSets

\* The boundary opens: what the consensus view said, the snapshot view says.
LEMMA SnapshotKeepsTerms ==
    ASSUME ViewsInv, HandleSyscallSnapshot
    PROVE  ViewsInv' /\ Terms
  <1>1. PICK chosen :
           /\ ~inBoundary /\ inBoundary' = TRUE
           /\ snapshot' = consensus
           /\ snapshotView' = Rebuilt(snapshot, snapshotView, consensus, consensusView)
           /\ consensus' = chosen
           /\ consensusView' = Rebuilt(consensus, consensusView, chosen, ExecutionView)
    BY DEF HandleSyscallSnapshot
  <1>2. ASSUME NEW v \in ValIds
        PROVE  snapshotView'[v] = consensusView[v]
    BY <1>1 DEF ViewsInv, Rebuilt
  <1>3. ASSUME NEW v \in ValIds, v \notin Members(consensus')
        PROVE  consensusView'[v] = NoView
    BY <1>1, <1>3 DEF ViewsInv, Rebuilt
  <1>4. ViewsInv'
    <2>1. \A v \in ValIds : v \notin Members(snapshot') => snapshotView'[v] = NoView
      BY <1>1, <1>2 DEF ViewsInv
    <2>2. QED BY <1>1, <1>3, <2>1 DEF ViewsInv, Members
  <1>5. Terms BY <1>1, <1>2 DEF Terms, CurrentView
  <1>6. QED BY <1>4, <1>5

\* Every step keeps the invariant, and the terms unless the epoch changes.
LEMMA ViewsStep ==
    ASSUME ViewsInv, [AnyOrderNext]_vars
    PROVE  ViewsInv' /\ (epoch' = epoch => Terms)
  <1>1. CASE UserCall BY <1>1, UserCallsKeepViews, UnmovedViews
  <1>2. ASSUME NEW author, NEW reward, HandleSyscallReward(author, reward)
        PROVE  ViewsInv' /\ Terms
    <2>1. UNCHANGED <<clock, epochSets>> BY <1>2 DEF HandleSyscallReward
    <2>2. QED BY <2>1, UnmovedViews
  <1>3. CASE HandleSyscallSnapshot BY <1>3, SnapshotKeepsTerms
  <1>4. ASSUME NEW next \in 1 .. MaxEpoch, HandleSyscallOnEpochChange(next)
        PROVE  ViewsInv' /\ epoch' # epoch
    <2>1. /\ next > epoch /\ epoch' = next /\ inBoundary' = FALSE
          /\ UNCHANGED epochSets
      BY <1>4 DEF HandleSyscallOnEpochChange
    <2>2. ViewsInv' BY <2>1 DEF ViewsInv, epochSets
    <2>3. epoch' # epoch
      <3>1. epoch' > epoch BY <2>1
      <3>2. next \in Int OBVIOUS
      <3>3. CASE epoch = next BY <2>1, <3>2, <3>3
      <3>4. QED BY <2>1, <3>3
    <2>4. QED BY <2>2, <2>3
  <1>5. CASE UNCHANGED vars
    <2>1. UNCHANGED <<clock, epochSets>> BY <1>5 DEF vars
    <2>2. QED BY <2>1, UnmovedViews
  <1>6. QED BY <1>1, <1>2, <1>3, <1>4, <1>5 DEF AnyOrderNext, BlockCall

\* An external reward is shared whole; that its sender pays tells it apart.
LEMMA ExternalRewardDivided ==
    ASSUME Inv, NEW v \in ValIds, NEW caller \in Addrs, NEW value \in ExternalRewards,
           HandleExternalReward(v, caller, value), rewarded' > rewarded
    PROVE  DividedByTerms(v, rewarded' - rewarded)
  <1> DEFINE stake == CurrentView(v).stake
             more == PerToken(value, stake)
  <1>1. /\ stake # 0 /\ Pay(caller, value) /\ rewarded' = rewarded + value
        /\ val' = [val EXCEPT ![v].acc = @ + more, ![v].unclaimed = @ + value]
    BY DEF HandleExternalReward
  <1>2. /\ value \in Int /\ rewarded \in Int /\ wallet[caller] \in Int
        /\ wallet \in [Addrs -> Nat] /\ val \in [ValIds -> Validator]
    BY StakingAssumption DEF Inv, TypeOK
  <1> HIDE DEF stake, more
  <1>3. rewarded' - rewarded = value /\ value > 0 BY <1>1, <1>2
  <1>4. wallet' # wallet
    <2>1. wallet'[caller] = wallet[caller] - value BY <1>1, <1>2 DEF Pay
    <2>2. QED BY <1>2, <1>3, <2>1
  <1>5. Shared(v, value) = value BY <1>4 DEF Shared
  <1>6. val'[v].unclaimed = val[v].unclaimed + value /\ val'[v].acc = val[v].acc + more
    BY <1>1, <1>2 DEF Validator
  <1>7. DividedByTerms(v, value)
    BY <1>1, <1>5, <1>6 DEF DividedByTerms, stake, more
  <1>8. QED BY <1>3, <1>7

\* A block reward is shared without the commission of the view.
LEMMA SyscallRewardDivided ==
    ASSUME Inv, NEW author \in Addrs, NEW reward \in BlockRewards,
           HandleSyscallReward(author, reward)
    PROVE  \E v \in ValIds : DividedByTerms(v, rewarded' - rewarded)
  <1> DEFINE v == valIdSecp[author]
             share == reward - ((reward * CurrentView(v).commission) \div MON)
             more == PerToken(share, CurrentView(v).stake)
  <1>1. /\ v # NO_VALIDATOR /\ CurrentView(v).stake # 0 /\ rewarded' = rewarded + reward
        /\ val' = [val EXCEPT ![v].unclaimed = @ + share, ![v].acc = @ + more]
        /\ wallet' = wallet
    BY DEF HandleSyscallReward, DistributeReward
  <1>2. v \in ValIds
    BY <1>1, StakingAssumption DEF Inv, TypeOK, NO_VALIDATOR, ValIds
  <1>3. /\ reward \in Int /\ rewarded \in Int /\ val \in [ValIds -> Validator]
    BY StakingAssumption DEF Inv, TypeOK
  <1>4. Shared(v, reward) = share BY <1>1 DEF Shared
  <1> HIDE DEF v
  <1>5. rewarded' - rewarded = reward BY <1>1, <1>3
  <1>6. Shared(v, reward) = share /\ CurrentView(v).stake # 0 BY <1>1, <1>4
  <1> HIDE DEF share
  <1>7. DividedByTerms(v, reward)
    <2> HIDE DEF more
    <2>1. val'[v].unclaimed = val[v].unclaimed + share /\ val'[v].acc = val[v].acc + more
      BY <1>1, <1>2, <1>3 DEF Validator
    <2>2. more = PerToken(share, CurrentView(v).stake) BY DEF more
    <2>3. QED BY <1>6, <2>1, <2>2 DEF DividedByTerms
  <1>8. QED BY <1>2, <1>5, <1>7

\* Whatever gives a reward divides it by the terms.
LEMMA RewardsDivided ==
    ASSUME Inv, [AnyOrderNext]_vars, rewarded' > rewarded
    PROVE  \E v \in ValIds : DividedByTerms(v, rewarded' - rewarded)
  <1>1. rewarded \in Int BY DEF Inv, TypeOK
  <1>2. rewarded' # rewarded BY <1>1
  <1>3. CASE UserCall
    <2>1. PICK caller \in Addrs, v \in ValIds, value \in ExternalRewards :
                 HandleExternalReward(v, caller, value)
      BY <1>2, <1>3, UserCallsKeepViews
    <2>2. QED BY <2>1, ExternalRewardDivided
  <1>4. ASSUME NEW author \in Addrs, NEW reward \in BlockRewards,
               HandleSyscallReward(author, reward)
        PROVE  \E v \in ValIds : DividedByTerms(v, rewarded' - rewarded)
    BY <1>4, SyscallRewardDivided
  <1>5. CASE HandleSyscallSnapshot BY <1>2, <1>5 DEF HandleSyscallSnapshot
  <1>6. ASSUME NEW next, HandleSyscallOnEpochChange(next)
        PROVE  FALSE
    BY <1>2, <1>6 DEF HandleSyscallOnEpochChange
  <1>7. CASE UNCHANGED vars BY <1>2, <1>7 DEF vars
  <1>8. QED BY <1>3, <1>4, <1>5, <1>6, <1>7 DEF AnyOrderNext, BlockCall

(***************************************************************************)
(* syscallReward and externalReward divide by the stake, and take the      *)
(* commission, that stood at the start of the epoch: no call of anybody,   *)
(* not changeCommission and not the snapshot that opens the boundary,      *)
(* changes within it how a reward is divided.                              *)
(***************************************************************************)
THEOREM TermsStayFixed == AnyOrderSpec => EpochTermsFixed
  <1> DEFINE Fixed == /\ epoch' = epoch => \A v \in ValIds : CurrentView(v)' = CurrentView(v)
                      /\ rewarded' > rewarded =>
                            \E v \in ValIds : DividedByTerms(v, rewarded' - rewarded)
  <1>1. Init => Inv /\ ViewsInv BY InitInv DEF Init, ViewsInv, Members
  <1>2. Inv /\ [AnyOrderNext]_vars => Inv' BY AnyOrderStep
  <1>3. ViewsInv /\ [AnyOrderNext]_vars => ViewsInv' BY ViewsStep
  <1>4. Inv /\ ViewsInv /\ [AnyOrderNext]_vars => [Fixed]_vars
    BY ViewsStep, RewardsDivided DEF Terms
  <1>5. QED
    BY <1>1, <1>2, <1>3, <1>4, PTL DEF AnyOrderSpec, EpochTermsFixed

-----------------------------------------------------------------------------
(* The execution set and its bitset.                                       *)

(***************************************************************************)
(* The inductive invariant: the array and the bitset agree, only ids that  *)
(* were given are in them, and nobody who is eligible is missing.  That a  *)
(* call cannot enter an id not yet given needs the books: settling such an *)
(* id finds no rewards to compound.                                        *)
(***************************************************************************)
Listed ==
    /\ execution \in Seq(ValIds)
    /\ Distinct(execution)
    /\ Members(execution) = executionBits
    /\ \A v \in executionBits : val[v].auth # ZERO_ADDRESS
    /\ \A v \in ValIds : Exists(v) /\ val[v].flags = {} => v \in executionBits

ListedInv == BalanceInv /\ FlagsExact /\ Listed

\* Calls that leave the array and clear no flag.
LEMMA UnlistedCalls ==
    ASSUME ListedInv, UNCHANGED executionSet,
           \A u \in ValIds : /\ val'[u].auth = val[u].auth
                             /\ val[u].flags \subseteq val'[u].flags
    PROVE  Listed'
<1>1. /\ Listed
      /\ execution' = execution /\ executionBits' = executionBits
  BY DEF ListedInv, executionSet
<1>2. executionBits \subseteq ValIds
  BY DEF ListedInv, BalanceInv, Inv, TypeOK
<1>3. \A v \in executionBits' : val'[v].auth # ZERO_ADDRESS
  BY <1>1, <1>2 DEF Listed
<1>4. \A v \in ValIds : Exists(v)' /\ val'[v].flags = {} => v \in executionBits'
  BY <1>1 DEF Listed, Exists
<1> QED
  BY <1>1, <1>3, <1>4 DEF Listed, Distinct, Members

\* internal_delegate enters the validator when its last flag is cleared.
LEMMA DelegationListed ==
    ASSUME ListedInv, NEW v \in ValIds, NEW caller \in Addrs, NEW record \in Validator,
           NEW amount, NEW s, record.auth # ZERO_ADDRESS,
           InternalDelegate(v, record, caller, amount, s)
    PROVE  Listed'
<1> DEFINE pulled == PullDelegatorUpToDate(s, record.acc, epoch)
           d == AddPending(pulled.del, amount)
           staked == [record EXCEPT !.stake = @ + amount, !.unclaimed = pulled.unclaimed]
           flags == FlagsAfterDelegate(staked, d, caller)
           new == [staked EXCEPT !.flags = flags]
<1>1. /\ val' = [val EXCEPT ![v] = new]
      /\ execution' = IF flags = {} THEN AddToValset(execution, executionBits, v)
                      ELSE execution
      /\ executionBits' = IF flags = {} THEN executionBits \cup {v} ELSE executionBits
  BY DEF InternalDelegate
<1>2. val \in [ValIds -> Validator] /\ executionBits \subseteq ValIds /\ Listed
  BY DEF ListedInv, BalanceInv, Inv, TypeOK
<1> HIDE DEF flags
<1>3. new.auth = record.auth /\ new.flags = flags
  BY DEF Validator
<1> HIDE DEF new
<1>4. val'[v] = new /\ \A u \in ValIds \ {v} : val'[u] = val[u]
  BY <1>1, <1>2
<1>5. /\ execution' \in Seq(ValIds)
      /\ Distinct(execution')
      /\ Members(execution') = executionBits'
  <2>1. CASE flags = {} /\ v \notin executionBits
    <3>1. execution' = Append(execution, v) /\ executionBits' = executionBits \cup {v}
      BY <1>1, <2>1 DEF AddToValset
    <3>2. v \notin Members(execution) /\ Distinct(execution) /\ execution \in Seq(ValIds)
      BY <1>2, <2>1 DEF Listed
    <3>3. /\ Append(execution, v) \in Seq(ValIds)
          /\ Members(Append(execution, v)) = Members(execution) \cup {v}
          /\ Distinct(Append(execution, v))
      BY <3>2, AppendMembers
    <3> QED
      BY <1>2, <3>1, <3>3 DEF Listed
  <2>2. CASE ~(flags = {} /\ v \notin executionBits)
    <3>1. execution' = execution /\ executionBits' = executionBits
      BY <1>1, <2>2 DEF AddToValset
    <3> QED
      BY <1>2, <3>1 DEF Listed
  <2> QED
    BY <2>1, <2>2
<1>6. \A u \in executionBits' : val'[u].auth # ZERO_ADDRESS
  <2> SUFFICES ASSUME NEW u \in executionBits'
               PROVE  val'[u].auth # ZERO_ADDRESS
    OBVIOUS
  <2>1. CASE u = v
    BY <1>3, <1>4, <2>1
  <2>2. CASE u # v
    BY <1>1, <1>2, <1>4, <2>2 DEF Listed
  <2> QED
    BY <2>1, <2>2
<1>7. \A u \in ValIds : Exists(u)' /\ val'[u].flags = {} => u \in executionBits'
  <2> SUFFICES ASSUME NEW u \in ValIds, Exists(u)', val'[u].flags = {}
               PROVE  u \in executionBits'
    OBVIOUS
  <2>1. CASE u = v
    BY <1>1, <1>3, <1>4, <2>1
  <2>2. CASE u # v
    BY <1>1, <1>2, <1>4, <2>2 DEF Listed, Exists
  <2> QED
    BY <2>1, <2>2
<1> QED
  BY <1>5, <1>6, <1>7 DEF Listed, Distinct, Members

LEMMA AddValidatorListed ==
    ASSUME ListedInv, NEW caller \in Addrs, NEW auth \in Addrs, NEW bls \in BlsKeys,
           NEW commission \in Commissions, NEW value \in DelegateAmounts,
           HandleAddValidator(caller, auth, bls, commission, value)
    PROVE  Listed'
<1> DEFINE v == lastValId + 1
           record == [NoValidator EXCEPT !.commission = commission,
                                         !.auth = auth,
                                         !.flags = {"STAKE_TOO_LOW"}]
           s == Settlement(del[v][auth], 0, accs[v])
<1>1. /\ v \in ValIds
      /\ InternalDelegate(v, record, auth, value, s)
  BY Zenon DEF HandleAddValidator
<1>2. commission \in Nat /\ auth # ZERO_ADDRESS
  BY StakingAssumption
<1> HIDE DEF v, s
<1>3. record \in Validator /\ record.auth # ZERO_ADDRESS
  BY <1>2 DEF NoValidator, Validator, Flags
<1> HIDE DEF record
<1> QED
  BY <1>1, <1>3, DelegationListed

LEMMA DelegateListed ==
    ASSUME ListedInv, NEW v \in ValIds, NEW caller \in Addrs,
           \/ \E value \in DelegateAmounts : HandleDelegate(v, caller, value)
           \/ HandleCompound(v, caller)
    PROVE  Listed'
<1>1. val[v] \in Validator
  BY DEF ListedInv, BalanceInv, Inv, TypeOK
<1>2. PICK amount, s : InternalDelegate(v, val[v], caller, amount, s)
  BY Zenon DEF HandleDelegate, HandleCompound
<1>3. val[v].auth # ZERO_ADDRESS
  <2>1. CASE \E value \in DelegateAmounts : HandleDelegate(v, caller, value)
    BY <2>1 DEF HandleDelegate, Exists
  <2>2. CASE HandleCompound(v, caller)
    <3>1. Pulled(v, caller).ok /\ Pulled(v, caller).del.rewards # 0
      BY <2>2, Zenon DEF HandleCompound
    <3>2. ~(v > lastValId)
      BY <3>1, NothingToSettle DEF ListedInv
    <3> QED
      BY <3>2 DEF ListedInv, BalanceInv, Registered, Inv, TypeOK, ValIds
  <2> QED
    BY <2>1, <2>2
<1> QED
  BY <1>1, <1>2, <1>3, DelegationListed

LEMMA SettlingListed ==
    ASSUME ListedInv, NEW v \in ValIds, NEW a \in Addrs,
           HandleClaimRewards(v, a) \/ HandleGetDelegator(v, a)
    PROVE  Listed'
<1>1. PICK pool : val' = [val EXCEPT ![v].unclaimed = pool]
  BY Zenon DEF HandleClaimRewards, HandleGetDelegator, Store
<1>2. UNCHANGED executionSet
  BY DEF HandleClaimRewards, HandleGetDelegator
<1>3. val \in [ValIds -> Validator]
  BY DEF ListedInv, BalanceInv, Inv, TypeOK
<1>4. \A u \in ValIds : /\ val'[u].auth = val[u].auth
                        /\ val[u].flags \subseteq val'[u].flags
  BY <1>1, <1>3 DEF Validator
<1> QED
  BY <1>2, <1>4, UnlistedCalls

\* Undelegating raises flags and does not touch the array.
LEMMA UndelegateListed ==
    ASSUME ListedInv, NEW v \in ValIds, NEW caller \in Addrs,
           NEW asked \in UndelegateAmounts, NEW wid \in WithdrawIds,
           HandleUndelegate(v, caller, asked, wid)
    PROVE  Listed'
<1>1. PICK stake, pool, d :
          val' = [val EXCEPT ![v] =
                    [[val[v] EXCEPT !.stake = stake, !.unclaimed = pool]
                        EXCEPT !.flags = FlagsAfterUndelegate(
                                  [val[v] EXCEPT !.stake = stake, !.unclaimed = pool],
                                  d, caller)]]
  BY Zenon DEF HandleUndelegate
<1>2. UNCHANGED executionSet
  BY DEF HandleUndelegate
<1>3. val \in [ValIds -> Validator]
  BY DEF ListedInv, BalanceInv, Inv, TypeOK
<1> DEFINE staked == [val[v] EXCEPT !.stake = stake, !.unclaimed = pool]
           flags == FlagsAfterUndelegate(staked, d, caller)
<1>4. staked.flags = val[v].flags /\ staked.flags \subseteq flags
  BY <1>3 DEF Validator, FlagsAfterUndelegate
<1>5. val' = [val EXCEPT ![v] = [staked EXCEPT !.flags = flags]]
  BY <1>1
<1> HIDE DEF flags
<1>6. [staked EXCEPT !.flags = flags].auth = val[v].auth
      /\ [staked EXCEPT !.flags = flags].flags = flags
  BY <1>3 DEF Validator
<1> HIDE DEF staked
<1>7. \A u \in ValIds : /\ val'[u].auth = val[u].auth
                        /\ val[u].flags \subseteq val'[u].flags
  BY <1>3, <1>4, <1>5, <1>6
<1> QED
  BY <1>2, <1>7, UnlistedCalls

LEMMA OtherListed ==
    ASSUME ListedInv,
           \/ \E v \in ValIds, caller \in Addrs, wid \in WithdrawIds :
                 HandleWithdraw(v, caller, wid)
           \/ \E v \in ValIds, caller \in Addrs, c \in Commissions :
                 HandleChangeCommission(v, caller, c)
           \/ \E v \in ValIds, caller \in Addrs, value \in ExternalRewards :
                 HandleExternalReward(v, caller, value)
           \/ \E next \in 1 .. MaxEpoch : HandleSyscallOnEpochChange(next)
    PROVE  Listed'
<1>1. val \in [ValIds -> Validator]
  BY DEF ListedInv, BalanceInv, Inv, TypeOK
<1>2. KeepsStake
  BY <1>1, OtherCallsKeepStake
<1>3. UNCHANGED executionSet
  BY DEF HandleWithdraw, HandleChangeCommission, HandleExternalReward,
         HandleSyscallOnEpochChange
<1>4. \A u \in ValIds : /\ val'[u].auth = val[u].auth
                        /\ val[u].flags \subseteq val'[u].flags
  BY <1>2 DEF KeepsStake
<1> QED
  BY <1>3, <1>4, UnlistedCalls

LEMMA RewardListed ==
    ASSUME ListedInv, NEW author \in Addrs, NEW reward \in BlockRewards,
           HandleSyscallReward(author, reward)
    PROVE  Listed'
<1>1. PICK v, pool, new : val' = [val EXCEPT ![v].unclaimed = pool, ![v].acc = new]
  BY DEF HandleSyscallReward, DistributeReward
<1>2. UNCHANGED executionSet
  BY DEF HandleSyscallReward
<1>3. val \in [ValIds -> Validator]
  BY DEF ListedInv, BalanceInv, Inv, TypeOK
<1>4. \A u \in ValIds : /\ val'[u].auth = val[u].auth
                        /\ val[u].flags \subseteq val'[u].flags
  BY <1>1, <1>3 DEF Validator
<1> QED
  BY <1>2, <1>4, UnlistedCalls

\* The snapshot takes whoever has a flag out of the array and the bitset.
LEMMA SnapshotListed ==
    ASSUME ListedInv, HandleSyscallSnapshot
    PROVE  Listed'
<1>1. /\ execution' = CompactExecution(execution, Eligible)
      /\ executionBits' = executionBits \ (Members(execution) \ Eligible)
      /\ val' = val
  BY DEF HandleSyscallSnapshot, ledger
<1>2. Listed /\ Distinct(execution) /\ execution \in Seq(ValIds)
      /\ Members(execution) = executionBits
  BY DEF ListedInv, Listed
<1>3. /\ execution' \in Seq(ValIds) /\ Distinct(execution')
      /\ Members(execution') = Members(execution) \cap Eligible
  BY <1>1, <1>2, CompactionKeeps
<1>4. Members(execution') = executionBits'
  BY <1>1, <1>2, <1>3
<1>5. \A v \in executionBits' : val'[v].auth # ZERO_ADDRESS
  BY <1>1, <1>2 DEF Listed
<1>6. \A v \in ValIds : Exists(v)' /\ val'[v].flags = {} => v \in executionBits'
  BY <1>1, <1>2 DEF Listed, Exists, Eligible
<1> QED
  BY <1>3, <1>4, <1>5, <1>6 DEF Listed, Distinct, Members

\* Every step, in any order of system calls.
LEMMA ListedStep ==
    ASSUME ListedInv, [AnyOrderNext]_vars
    PROVE  ListedInv'
<1>1. BalanceInv' /\ FlagsExact'
  BY BalanceStep, FlagStep DEF ListedInv, BalanceInv, FlagInv
<1>2. CASE UserCall
  <2>1. PICK caller \in Addrs :
        \/ \E auth \in Addrs, bls \in BlsKeys, c \in Commissions,
              value \in DelegateAmounts :
                 HandleAddValidator(caller, auth, bls, c, value)
        \/ \E v \in ValIds :
              \/ \E value \in DelegateAmounts : HandleDelegate(v, caller, value)
              \/ \E amount \in UndelegateAmounts, wid \in WithdrawIds :
                    HandleUndelegate(v, caller, amount, wid)
              \/ \E wid \in WithdrawIds : HandleWithdraw(v, caller, wid)
              \/ HandleClaimRewards(v, caller)
              \/ HandleCompound(v, caller)
              \/ HandleGetDelegator(v, caller)
              \/ \E c \in Commissions : HandleChangeCommission(v, caller, c)
              \/ \E value \in ExternalRewards :
                    HandleExternalReward(v, caller, value)
    BY <1>2 DEF UserCall
  <2>2. Listed'
    BY <2>1, AddValidatorListed, DelegateListed, UndelegateListed, SettlingListed,
       OtherListed, Zenon
  <2> QED
    BY <1>1, <2>2 DEF ListedInv
<1>3. CASE BlockCall
  BY <1>1, <1>3, RewardListed, SnapshotListed DEF BlockCall, ListedInv
<1>4. CASE \E next \in 1 .. MaxEpoch : HandleSyscallOnEpochChange(next)
  BY <1>1, <1>4, OtherListed DEF ListedInv
<1>5. CASE UNCHANGED vars
  <2>1. UNCHANGED executionSet /\ val' = val
    BY <1>5 DEF vars, ledger
  <2>2. Listed'
    BY <2>1, UnlistedCalls
  <2> QED
    BY <1>1, <2>2 DEF ListedInv
<1> QED
  BY <1>2, <1>3, <1>4, <1>5 DEF AnyOrderNext

LEMMA InitListed ==
    ASSUME Init
    PROVE  ListedInv
<1>1. BalanceInv
  BY InitBooks
<1>2. FlagsExact
  BY DEF Init, FlagsExact, NoValidator
<1>3. /\ execution = <<>> /\ executionBits = {}
      /\ val = [v \in ValIds |-> NoValidator]
  BY DEF Init
<1>4. execution \in Seq(ValIds) /\ Distinct(execution) /\ Members(execution) = {}
  BY <1>3, EmptySeq DEF Distinct, Members
<1>5. \A v \in ValIds : ~Exists(v)
  BY <1>3 DEF Exists, NoValidator
<1> QED
  BY <1>1, <1>2, <1>3, <1>4, <1>5 DEF ListedInv, Listed

(***************************************************************************)
(* The execution array and its bitset never disagree, however delegations, *)
(* withdrawals of stake and snapshots alternate: nobody is in it twice,    *)
(* and nobody eligible is left out of the next consensus set.              *)
(***************************************************************************)
THEOREM ExecutionSetStaysConsistent == AnyOrderSpec => []ExecutionSetConsistent
<1>1. Init => ListedInv
  BY InitListed
<1>2. ListedInv /\ [AnyOrderNext]_vars => ListedInv'
  BY ListedStep
<1>3. ListedInv => ExecutionSetConsistent
  BY DistinctCounts DEF ListedInv, Listed, ExecutionSetConsistent
<1> QED
  BY <1>1, <1>2, <1>3, PTL DEF AnyOrderSpec

-----------------------------------------------------------------------------
(* The sets of the epoch and the views of their members.                   *)

(***************************************************************************)
(* The inductive invariant.  A view is told from an empty one by its       *)
(* stake, so that the members of the consensus set must have some: they    *)
(* have no flag when they are chosen, and a validator without a flag has   *)
(* the active stake at least.                                              *)
(***************************************************************************)
Seated ==
    /\ consensus \in Seq(ValIds)
    /\ Distinct(consensus)
    /\ Len(consensus) <= ACTIVE_VALSET_SIZE
    /\ \A v \in ValIds :
          /\ v \in Members(consensus) <=> consensusView[v].stake # 0
          /\ v \in Members(snapshot) <=> snapshotView[v].stake # 0

SeatedInv == ListedInv /\ Seated

\* Whoever is eligible has stake to be rewarded for.
LEMMA EligibleHaveStake ==
    ASSUME ListedInv, NEW v \in Eligible
    PROVE  v \in ValIds /\ val[v].stake \in Nat \ {0}
<1>1. v \in executionBits /\ val[v].flags = {}
  BY DEF Eligible, ListedInv, Listed
<1>2. v \in ValIds /\ val[v] \in Validator
  BY <1>1 DEF ListedInv, BalanceInv, Inv, TypeOK
<1>3. val[v].auth # ZERO_ADDRESS
  BY <1>1 DEF ListedInv, Listed
<1>4. ~(val[v].stake < ACTIVE_VALIDATOR_STAKE)
  BY <1>1, <1>2, <1>3 DEF ListedInv, FlagsExact
<1>5. val[v].stake \in Nat /\ ACTIVE_VALIDATOR_STAKE \in Nat \ {0}
  BY <1>2, StakingConstantsAssumption DEF Validator
<1> QED
  BY <1>2, <1>4, <1>5

LEMMA SnapshotSeated ==
    ASSUME SeatedInv, HandleSyscallSnapshot
    PROVE  Seated'
<1> DEFINE stake == [v \in ValIds |-> val[v].stake]
           chosen == TopByStake(Eligible, stake, ACTIVE_VALSET_SIZE)
<1>1. /\ snapshot' = consensus
      /\ snapshotView' = Rebuilt(snapshot, snapshotView, consensus, consensusView)
      /\ consensus' = chosen
      /\ consensusView' = Rebuilt(consensus, consensusView, chosen, ExecutionView)
  BY DEF HandleSyscallSnapshot
<1>2. Eligible \in SUBSET Int /\ IsFiniteSet(Eligible)
  <2>1. Eligible \subseteq ValIds
    BY EligibleHaveStake DEF SeatedInv
  <2>2. IsFiniteSet(Eligible)
    BY <2>1, FiniteDomains, FS_Subset
  <2> QED
    BY <2>1, <2>2 DEF ValIds
<1>3. \A v \in Eligible : stake[v] \in Int /\ stake[v] # 0
  BY EligibleHaveStake DEF SeatedInv
<1>4. ACTIVE_VALSET_SIZE \in Nat
  BY StakingConstantsAssumption
<1> HIDE DEF stake
<1>5. /\ chosen \in Seq(Eligible)
      /\ Distinct(chosen)
      /\ Len(chosen) <= ACTIVE_VALSET_SIZE
  BY <1>2, <1>3, <1>4, TopByStakeChooses
<1> HIDE DEF chosen
<1>6. chosen \in Seq(ValIds) /\ Members(chosen) \subseteq Eligible
  <2>1. Eligible \subseteq ValIds
    BY EligibleHaveStake DEF SeatedInv
  <2>2. chosen \in Seq(ValIds)
    BY <1>5, <2>1, SeqMonotonic
  <2> QED
    BY <1>5, <2>2 DEF Members
<1>7. ASSUME NEW v \in ValIds
      PROVE  v \in Members(chosen) <=> consensusView'[v].stake # 0
  <2>1. consensusView'[v] = IF v \in Members(chosen) THEN ExecutionView[v]
                            ELSE IF v \in Members(consensus) THEN NoView
                            ELSE consensusView[v]
    BY <1>1 DEF Rebuilt
  <2>2. v \in Members(chosen) => ExecutionView[v].stake # 0
    BY <1>6, EligibleHaveStake DEF ExecutionView, SeatedInv
  <2>3. v \notin Members(consensus) => consensusView[v].stake = 0
    BY DEF SeatedInv, Seated
  <2> QED
    BY <2>1, <2>2, <2>3 DEF NoView
<1>8. ASSUME NEW v \in ValIds
      PROVE  v \in Members(consensus) <=> snapshotView'[v].stake # 0
  <2>1. snapshotView'[v] = IF v \in Members(consensus) THEN consensusView[v]
                           ELSE IF v \in Members(snapshot) THEN NoView
                           ELSE snapshotView[v]
    BY <1>1 DEF Rebuilt
  <2>2. /\ v \in Members(consensus) => consensusView[v].stake # 0
        /\ v \notin Members(snapshot) => snapshotView[v].stake = 0
    BY DEF SeatedInv, Seated
  <2> QED
    BY <2>1, <2>2 DEF NoView
<1> QED
  BY <1>1, <1>5, <1>6, <1>7, <1>8 DEF Seated, Distinct, Members

\* Every step, in any order of system calls.
LEMMA SeatedStep ==
    ASSUME SeatedInv, [AnyOrderNext]_vars
    PROVE  SeatedInv'
<1>1. ListedInv'
  BY ListedStep DEF SeatedInv
<1>2. UNCHANGED epochSets => Seated'
  BY DEF epochSets, SeatedInv, Seated, Distinct, Members
<1>3. HandleSyscallSnapshot \/ UNCHANGED epochSets
  <2>1. UserCall => UNCHANGED epochSets
    BY UserCallsKeepViews
  <2>2. (\E author \in Addrs, reward \in BlockRewards :
            HandleSyscallReward(author, reward)) => UNCHANGED epochSets
    BY DEF HandleSyscallReward
  <2>3. (\E next \in 1 .. MaxEpoch : HandleSyscallOnEpochChange(next))
            => UNCHANGED epochSets
    BY DEF HandleSyscallOnEpochChange
  <2>4. UNCHANGED vars => UNCHANGED epochSets
    BY DEF vars
  <2> QED
    BY <2>1, <2>2, <2>3, <2>4 DEF AnyOrderNext, BlockCall
<1> QED
  BY <1>1, <1>2, <1>3, SnapshotSeated DEF SeatedInv

LEMMA InitSeated ==
    ASSUME Init
    PROVE  SeatedInv
<1>1. ListedInv
  BY InitListed
<1>2. Seated
  BY EmptySeq, StakingConstantsAssumption DEF Init, Seated, Distinct, Members, NoView
<1> QED
  BY <1>1, <1>2 DEF SeatedInv

(***************************************************************************)
(* A validator has a view exactly while it is in the set, whatever         *)
(* happened to it since the set was made, and the consensus set is never   *)
(* larger than it may be: nobody is rewarded by a view that outlived its   *)
(* seat, and no seat goes without one.                                     *)
(***************************************************************************)
THEOREM ViewsFollowSets == AnyOrderSpec => []ViewsMatchSets
<1>1. Init => SeatedInv
  BY InitSeated
<1>2. SeatedInv /\ [AnyOrderNext]_vars => SeatedInv'
  BY SeatedStep
<1>3. SeatedInv => ViewsMatchSets
  BY DistinctCounts DEF SeatedInv, Seated, ViewsMatchSets
<1> QED
  BY <1>1, <1>2, <1>3, PTL DEF AnyOrderSpec

-----------------------------------------------------------------------------
(* The linked lists and the delegations they stand for.                    *)

\* Who delegates to v and whom a delegates to.
Stakers(D, v) == {a \in Addrs : DelegatorExists(D[v][a])}

Staked(D, a) == {v \in ValIds : DelegatorExists(D[v][a])}

DelegatorsHeld(list, S) == ListHolds(list, S, Addrs, SENTINEL_ADDRESS, ZERO_ADDRESS)

DelegationsHeld(list, S) == ListHolds(list, S, ValIds, SENTINEL_VAL_ID, NO_VALIDATOR)

(***************************************************************************)
(* Each list is a chain through exactly the keys with stake.               *)
(***************************************************************************)
Held ==
    /\ delegators = [v \in ValIds |-> delegators[v]]
    /\ delegations = [a \in Addrs |-> delegations[a]]
    /\ \A v \in ValIds : DelegatorsHeld(delegators[v], Stakers(del, v))
    /\ \A a \in Addrs : DelegationsHeld(delegations[a], Staked(del, a))

HeldInv == Inv /\ Held

\* The two pairs of special keys are no keys of their lists.
LEMMA ListKeys ==
    /\ SENTINEL_ADDRESS \notin Addrs /\ ZERO_ADDRESS \notin Addrs
    /\ SENTINEL_ADDRESS # ZERO_ADDRESS
    /\ SENTINEL_VAL_ID \notin ValIds /\ NO_VALIDATOR \notin ValIds
    /\ SENTINEL_VAL_ID # NO_VALIDATOR
    /\ IsFiniteSet(Addrs)
    /\ IsFiniteSet(ValIds) /\ Cardinality(ValIds) = MaxValidators
<1>1. MaxValidators \in Nat
  BY StakingAssumption
<1>2. IsFiniteSet(1 .. MaxValidators) /\ Cardinality(1 .. MaxValidators) = MaxValidators
  BY <1>1, FS_Interval
<1> QED
  BY <1>1, <1>2, StakingAssumption DEF SENTINEL_VAL_ID, NO_VALIDATOR, ValIds

\* A delegation exists if it has any stake, active or pending.
LEMMA ExistsByStake ==
    ASSUME NEW d, d.stake \in Nat, d.deltaStake \in Nat, d.nextDeltaStake \in Nat
    PROVE  DelegatorExists(d) <=> TotalStake(d) # 0
<1> DEFINE x == d.stake
           y == d.deltaStake
           z == d.nextDeltaStake
<1>1. TotalStake(d) = x + y + z /\ (DelegatorExists(d) <=> x # 0 \/ y # 0 \/ z # 0)
  BY Zenon DEF TotalStake, DelegatorExists
<1>2. x \in Nat /\ y \in Nat /\ z \in Nat
  OBVIOUS
<1> HIDE DEF x, y, z
<1>3. x + y + z # 0 <=> x # 0 \/ y # 0 \/ z # 0
  BY ONLY <1>2
<1> QED
  BY <1>1, <1>3, Zenon

\* Calls that move no stake.
LEMMA UnmovedHeld ==
    ASSUME HeldInv, Inv', UNCHANGED lists,
           \A v \in ValIds, a \in Addrs :
              TotalStake(del'[v][a]) = TotalStake(del[v][a])
    PROVE  Held'
<1>1. /\ del \in [ValIds -> [Addrs -> Delegator]]
      /\ del' \in [ValIds -> [Addrs -> Delegator]]
  BY DEF HeldInv, Inv, TypeOK
<1>2. ASSUME NEW v \in ValIds, NEW a \in Addrs
      PROVE  DelegatorExists(del'[v][a]) <=> DelegatorExists(del[v][a])
  <2>1. del[v][a] \in Delegator /\ del'[v][a] \in Delegator
    BY <1>1
  <2> QED
    BY <2>1, ExistsByStake, Zenon DEF Delegator
<1>3. \A v \in ValIds : Stakers(del', v) = Stakers(del, v)
  BY <1>2 DEF Stakers
<1>4. \A a \in Addrs : Staked(del', a) = Staked(del, a)
  BY <1>2 DEF Staked
<1>5. delegators' = delegators /\ delegations' = delegations
  BY DEF lists
<1> QED
  BY <1>3, <1>4, <1>5, Zenon DEF HeldInv, Held

\* One delegation d replaced.
LEMMA StakersReplaced ==
    ASSUME Inv, NEW v \in ValIds, NEW a \in Addrs, NEW d,
           del' = [del EXCEPT ![v][a] = d]
    PROVE  /\ \A u \in ValIds \ {v} : Stakers(del', u) = Stakers(del, u)
           /\ \A b \in Addrs \ {a} : Staked(del', b) = Staked(del, b)
           /\ DelegatorExists(d) =>
                 /\ Stakers(del', v) = Stakers(del, v) \cup {a}
                 /\ Staked(del', a) = Staked(del, a) \cup {v}
           /\ ~DelegatorExists(d) =>
                 /\ Stakers(del', v) = Stakers(del, v) \ {a}
                 /\ Staked(del', a) = Staked(del, a) \ {v}
<1>1. del \in [ValIds -> [Addrs -> Delegator]]
  BY DEF Inv, TypeOK
<1>2. /\ del'[v][a] = d
      /\ \A u \in ValIds, b \in Addrs : u # v \/ b # a => del'[u][b] = del[u][b]
  BY <1>1
<1>3. /\ \A u \in ValIds \ {v} : Stakers(del', u) = Stakers(del, u)
      /\ \A b \in Addrs \ {a} : Staked(del', b) = Staked(del, b)
  BY <1>2 DEF Stakers, Staked
<1>4. ASSUME DelegatorExists(d)
      PROVE  /\ Stakers(del', v) = Stakers(del, v) \cup {a}
             /\ Staked(del', a) = Staked(del, a) \cup {v}
  BY <1>2, <1>4 DEF Stakers, Staked
<1>5. ASSUME ~DelegatorExists(d)
      PROVE  /\ Stakers(del', v) = Stakers(del, v) \ {a}
             /\ Staked(del', a) = Staked(del, a) \ {v}
  BY <1>2, <1>5 DEF Stakers, Staked
<1> QED
  BY <1>3, <1>4, <1>5

\* internal_delegate enters both keys, whether the delegation is new or not.
LEMMA DelegationHeld ==
    ASSUME HeldInv, NEW v \in ValIds, NEW a \in Addrs, NEW d, DelegatorExists(d),
           del' = [del EXCEPT ![v][a] = d],
           delegators' = [delegators EXCEPT ![v] =
              LinkedListInsert(@, a, SENTINEL_ADDRESS, ZERO_ADDRESS)],
           delegations' = [delegations EXCEPT ![a] =
              LinkedListInsert(@, v, SENTINEL_VAL_ID, NO_VALIDATOR)]
    PROVE  Held'
<1> DEFINE one == LinkedListInsert(delegators[v], a, SENTINEL_ADDRESS, ZERO_ADDRESS)
           two == LinkedListInsert(delegations[a], v, SENTINEL_VAL_ID, NO_VALIDATOR)
<1>1. Held /\ Inv
  BY DEF HeldInv
<1>2. /\ \A u \in ValIds \ {v} : Stakers(del', u) = Stakers(del, u)
      /\ \A b \in Addrs \ {a} : Staked(del', b) = Staked(del, b)
      /\ Stakers(del', v) = Stakers(del, v) \cup {a}
      /\ Staked(del', a) = Staked(del, a) \cup {v}
  BY <1>1, StakersReplaced
<1>3. DelegatorsHeld(one, Stakers(del', v))
  <2>1. ListHolds(delegators[v], Stakers(del, v), Addrs, SENTINEL_ADDRESS, ZERO_ADDRESS)
    BY <1>1 DEF Held, DelegatorsHeld
  <2> DEFINE list == delegators[v]
             S == Stakers(del, v)
  <2>2. ListHolds(list, S, Addrs, SENTINEL_ADDRESS, ZERO_ADDRESS)
    BY <2>1
  <2> HIDE DEF list, S
  <2>4. ListHolds(LinkedListInsert(list, a, SENTINEL_ADDRESS, ZERO_ADDRESS), S \cup {a},
                  Addrs, SENTINEL_ADDRESS, ZERO_ADDRESS)
    BY <2>2, ListKeys, InsertHolds
  <2> QED
    BY <1>2, <2>4 DEF DelegatorsHeld, list, S
<1>4. DelegationsHeld(two, Staked(del', a))
  <2>1. ListHolds(delegations[a], Staked(del, a), ValIds, SENTINEL_VAL_ID, NO_VALIDATOR)
    BY <1>1 DEF Held, DelegationsHeld
  <2> DEFINE list == delegations[a]
             S == Staked(del, a)
  <2>2. ListHolds(list, S, ValIds, SENTINEL_VAL_ID, NO_VALIDATOR)
    BY <2>1
  <2> HIDE DEF list, S
  <2>4. ListHolds(LinkedListInsert(list, v, SENTINEL_VAL_ID, NO_VALIDATOR), S \cup {v},
                  ValIds, SENTINEL_VAL_ID, NO_VALIDATOR)
    BY <2>2, ListKeys, InsertHolds
  <2> QED
    BY <1>2, <2>4 DEF DelegationsHeld, list, S
<1>5. /\ delegators' = [delegators EXCEPT ![v] = one]
      /\ delegations' = [delegations EXCEPT ![a] = two]
  OBVIOUS
<1> HIDE DEF one, two
<1>6. /\ delegators'[v] = one /\ \A u \in ValIds \ {v} : delegators'[u] = delegators[u]
      /\ delegations'[a] = two /\ \A b \in Addrs \ {a} : delegations'[b] = delegations[b]
      /\ delegators' = [u \in ValIds |-> delegators'[u]]
      /\ delegations' = [b \in Addrs |-> delegations'[b]]
  BY <1>1, <1>5 DEF Held
<1>7. \A u \in ValIds : DelegatorsHeld(delegators'[u], Stakers(del', u))
  <2> TAKE u \in ValIds
  <2>1. CASE u = v
    BY <1>3, <1>6, <2>1
  <2>2. CASE u # v
    BY <1>1, <1>2, <1>6, <2>2 DEF Held
  <2> QED
    BY <2>1, <2>2
<1>8. \A b \in Addrs : DelegationsHeld(delegations'[b], Staked(del', b))
  <2> TAKE b \in Addrs
  <2>1. CASE b = a
    BY <1>4, <1>6, <2>1
  <2>2. CASE b # a
    BY <1>1, <1>2, <1>6, <2>2 DEF Held
  <2> QED
    BY <2>1, <2>2
<1> QED
  BY <1>6, <1>7, <1>8 DEF Held, DelegatorsHeld, DelegationsHeld

\* undelegate takes both keys out with the last of the stake.
LEMMA LeavingHeld ==
    ASSUME HeldInv, NEW v \in ValIds, NEW a \in Addrs, NEW d, ~DelegatorExists(d),
           DelegatorExists(del[v][a]),
           del' = [del EXCEPT ![v][a] = d],
           delegators' = [delegators EXCEPT ![v] = LinkedListRemove(@, a, ZERO_ADDRESS)],
           delegations' = [delegations EXCEPT ![a] = LinkedListRemove(@, v, NO_VALIDATOR)]
    PROVE  Held'
<1> DEFINE one == LinkedListRemove(delegators[v], a, ZERO_ADDRESS)
           two == LinkedListRemove(delegations[a], v, NO_VALIDATOR)
<1>1. Held /\ Inv
  BY DEF HeldInv
<1>2. /\ \A u \in ValIds \ {v} : Stakers(del', u) = Stakers(del, u)
      /\ \A b \in Addrs \ {a} : Staked(del', b) = Staked(del, b)
      /\ Stakers(del', v) = Stakers(del, v) \ {a}
      /\ Staked(del', a) = Staked(del, a) \ {v}
  BY <1>1, StakersReplaced
<1>2a. a \in Stakers(del, v) /\ v \in Staked(del, a)
  BY DEF Stakers, Staked
<1>3. DelegatorsHeld(one, Stakers(del', v))
  <2>1. ListHolds(delegators[v], Stakers(del, v), Addrs, SENTINEL_ADDRESS, ZERO_ADDRESS)
    BY <1>1 DEF Held, DelegatorsHeld
  <2> DEFINE list == delegators[v]
             S == Stakers(del, v)
  <2>2. ListHolds(list, S, Addrs, SENTINEL_ADDRESS, ZERO_ADDRESS)
    BY <2>1
  <2>3. a \in S
    BY <1>2a
  <2> HIDE DEF list, S
  <2>4. ListHolds(LinkedListRemove(list, a, ZERO_ADDRESS), S \ {a},
                  Addrs, SENTINEL_ADDRESS, ZERO_ADDRESS)
    BY <2>2, <2>3, ListKeys, RemoveHolds
  <2> QED
    BY <1>2, <2>4 DEF DelegatorsHeld, list, S
<1>4. DelegationsHeld(two, Staked(del', a))
  <2>1. ListHolds(delegations[a], Staked(del, a), ValIds, SENTINEL_VAL_ID, NO_VALIDATOR)
    BY <1>1 DEF Held, DelegationsHeld
  <2> DEFINE list == delegations[a]
             S == Staked(del, a)
  <2>2. ListHolds(list, S, ValIds, SENTINEL_VAL_ID, NO_VALIDATOR)
    BY <2>1
  <2>3. v \in S
    BY <1>2a
  <2> HIDE DEF list, S
  <2>4. ListHolds(LinkedListRemove(list, v, NO_VALIDATOR), S \ {v},
                  ValIds, SENTINEL_VAL_ID, NO_VALIDATOR)
    BY <2>2, <2>3, ListKeys, RemoveHolds
  <2> QED
    BY <1>2, <2>4 DEF DelegationsHeld, list, S
<1>5. /\ delegators' = [delegators EXCEPT ![v] = one]
      /\ delegations' = [delegations EXCEPT ![a] = two]
  OBVIOUS
<1> HIDE DEF one, two
<1>6. /\ delegators'[v] = one /\ \A u \in ValIds \ {v} : delegators'[u] = delegators[u]
      /\ delegations'[a] = two /\ \A b \in Addrs \ {a} : delegations'[b] = delegations[b]
      /\ delegators' = [u \in ValIds |-> delegators'[u]]
      /\ delegations' = [b \in Addrs |-> delegations'[b]]
  BY <1>1, <1>5 DEF Held
<1>7. \A u \in ValIds : DelegatorsHeld(delegators'[u], Stakers(del', u))
  <2> TAKE u \in ValIds
  <2>1. CASE u = v
    BY <1>3, <1>6, <2>1
  <2>2. CASE u # v
    BY <1>1, <1>2, <1>6, <2>2 DEF Held
  <2> QED
    BY <2>1, <2>2
<1>8. \A b \in Addrs : DelegationsHeld(delegations'[b], Staked(del', b))
  <2> TAKE b \in Addrs
  <2>1. CASE b = a
    BY <1>4, <1>6, <2>1
  <2>2. CASE b # a
    BY <1>1, <1>2, <1>6, <2>2 DEF Held
  <2> QED
    BY <2>1, <2>2
<1> QED
  BY <1>6, <1>7, <1>8 DEF Held, DelegatorsHeld, DelegationsHeld

-----------------------------------------------------------------------------
(* The handlers.                                                           *)

\* internal_delegate, for whichever record: the stake it adds is positive.
LEMMA DelegateHeld ==
    ASSUME HeldInv, NEW v \in ValIds, NEW caller \in Addrs, NEW record \in Validator,
           NEW amount \in Nat \ {0}, NEW s, Ready(s),
           TotalStake(s.del) \in Nat,
           InternalDelegate(v, record, caller, amount, s)
    PROVE  Held'
<1>1. PICK d \in Delegator, unclaimed \in Nat :
          DelegationWritten(v, caller, record, amount, s, d, unclaimed)
  BY InternalDelegateFacts DEF HeldInv, Ready
<1>2. del' = [del EXCEPT ![v][caller] = d] /\ TotalStake(d) = TotalStake(s.del) + amount
  BY <1>1 DEF DelegationWritten
<1> DEFINE after == TotalStake(d)
           before == TotalStake(s.del)
<1>3. after = before + amount /\ before \in Nat
  BY <1>2
<1> HIDE DEF after, before
<1>4. after # 0
  BY ONLY <1>3, amount \in Nat \ {0}
<1>5. d.stake \in Nat /\ d.deltaStake \in Nat /\ d.nextDeltaStake \in Nat
  BY DEF Delegator
<1>6. DelegatorExists(d)
  BY <1>4, <1>5, ExistsByStake DEF after
<1>7. /\ delegators' = [delegators EXCEPT ![v] =
            LinkedListInsert(@, caller, SENTINEL_ADDRESS, ZERO_ADDRESS)]
      /\ delegations' = [delegations EXCEPT ![caller] =
            LinkedListInsert(@, v, SENTINEL_VAL_ID, NO_VALIDATOR)]
  BY Zenon DEF InternalDelegate
<1> QED
  BY <1>2, <1>6, <1>7, DelegationHeld

\* addValidator delegates at least MIN_AUTH_ADDRESS_STAKE.
LEMMA AddValidatorHeld ==
    ASSUME HeldInv, NEW caller \in Addrs, NEW auth \in Addrs, NEW bls \in BlsKeys,
           NEW commission \in Commissions, NEW value \in DelegateAmounts,
           HandleAddValidator(caller, auth, bls, commission, value)
    PROVE  Held'
<1> DEFINE v == lastValId + 1
           record == [NoValidator EXCEPT !.commission = commission,
                                         !.auth = auth,
                                         !.flags = {"STAKE_TOO_LOW"}]
           s == Settlement(del[v][auth], 0, accs[v])
<1>1. /\ v \in ValIds
      /\ value >= MIN_AUTH_ADDRESS_STAKE
      /\ InternalDelegate(v, record, auth, value, s)
  BY Zenon DEF HandleAddValidator
<1>2. value \in Nat \ {0} /\ commission \in Nat
  BY <1>1, StakingAssumption, StakingConstantsAssumption
<1> HIDE DEF v
<1>3. record \in Validator
  BY <1>2 DEF NoValidator, Validator, Flags
<1>4. del[v][auth] \in Delegator /\ accs[v] \in Accumulators /\ PendingInWindow(del[v][auth])
  BY <1>1 DEF HeldInv, Inv, TypeOK, PendingWindow, Accumulators
<1>5. s \in RunningSettlement /\ Solvent(s) /\ s.ok = TRUE /\ s.del = del[v][auth]
  BY <1>4, 0 \in Nat, SettlementType
<1>6. TotalStake(s.del) \in Nat
  BY <1>4, <1>5 DEF TotalStake, Delegator
<1> HIDE DEF record, s
<1> QED
  BY <1>1, <1>2, <1>3, <1>4, <1>5, <1>6, DelegateHeld DEF Ready

\* delegate takes nothing below DUST_THRESHOLD.
LEMMA DelegateCallHeld ==
    ASSUME HeldInv, NEW v \in ValIds, NEW caller \in Addrs,
           NEW value \in DelegateAmounts, HandleDelegate(v, caller, value)
    PROVE  Held'
<1> DEFINE s == Settlement(del[v][caller], val[v].unclaimed, accs[v])
<1>1. /\ value >= DUST_THRESHOLD
      /\ InternalDelegate(v, val[v], caller, value, s)
  BY Zenon DEF HandleDelegate
<1>2. value \in Nat \ {0}
  BY <1>1, StakingAssumption, StakingConstantsAssumption
<1>3. /\ val[v] \in Validator /\ val[v].unclaimed \in Nat
      /\ del[v][caller] \in Delegator
      /\ accs[v] \in Accumulators /\ PendingInWindow(del[v][caller])
  BY DEF HeldInv, Inv, TypeOK, Validator, PendingWindow, Accumulators
<1>4. s \in RunningSettlement /\ Solvent(s) /\ s.ok = TRUE /\ s.del = del[v][caller]
  BY <1>3, SettlementType
<1>5. TotalStake(s.del) \in Nat
  BY <1>3, <1>4 DEF TotalStake, Delegator
<1> HIDE DEF s
<1> QED
  BY <1>1, <1>2, <1>3, <1>4, <1>5, DelegateHeld DEF Ready

\* compound stakes rewards of any size but zero.
LEMMA CompoundHeld ==
    ASSUME HeldInv, NEW v \in ValIds, NEW a \in Addrs, HandleCompound(v, a)
    PROVE  Held'
<1> DEFINE s == Pulled(v, a)
           cleared == [s EXCEPT !.del.rewards = 0]
<1>1. /\ s.ok /\ s.del.rewards # 0
      /\ InternalDelegate(v, val[v], a, s.del.rewards, cleared)
  BY Zenon DEF HandleCompound
<1>2. /\ s \in RunningSettlement /\ Solvent(s) /\ s.ok = TRUE
      /\ s.del \in Delegator
      /\ PendingInWindow(s.del)
  BY <1>1, PulledFacts DEF HeldInv
<1> HIDE DEF s
<1>3. s.del.rewards \in Nat \ {0}
  BY <1>1, <1>2 DEF Delegator
<1>4. /\ cleared \in RunningSettlement
      /\ cleared.ok = s.ok
      /\ cleared.unclaimed = s.unclaimed
      /\ cleared.del.rewards = 0
      /\ cleared.del.stake = s.del.stake
      /\ cleared.del.deltaStake = s.del.deltaStake
      /\ cleared.del.nextDeltaStake = s.del.nextDeltaStake
      /\ cleared.del.deltaEpoch = s.del.deltaEpoch
      /\ cleared.del.nextDeltaEpoch = s.del.nextDeltaEpoch
  BY <1>2 DEF RunningSettlement, RunningDelegator
<1> HIDE DEF cleared
<1>5. Solvent(cleared) /\ cleared.ok = TRUE
  BY <1>2, <1>4 DEF Solvent
<1>6. PendingInWindow(cleared.del) /\ TotalStake(cleared.del) \in Nat
  BY <1>2, <1>4 DEF PendingInWindow, TotalStake, Delegator
<1>7. val[v] \in Validator
  BY DEF HeldInv, Inv, TypeOK
<1> QED
  BY <1>1, <1>3, <1>4, <1>5, <1>6, <1>7, DelegateHeld DEF Ready

\* A settlement makes pending stake active and moves none.
LEMMA SettlingHeld ==
    ASSUME HeldInv, Inv', NEW v \in ValIds, NEW a \in Addrs,
           HandleClaimRewards(v, a) \/ HandleGetDelegator(v, a)
    PROVE  Held'
<1> DEFINE s == Pulled(v, a)
<1>1. s.ok /\ UNCHANGED lists
  BY DEF HandleClaimRewards, HandleGetDelegator
<1>2. s.del \in Delegator /\ TotalStake(s.del) = TotalStake(del[v][a])
  BY <1>1, PulledFacts DEF HeldInv
<1>3. \/ del' = [del EXCEPT ![v][a] = [s.del EXCEPT !.rewards = 0]]
      \/ del' = [del EXCEPT ![v][a] = s.del]
  BY Zenon DEF HandleClaimRewards, HandleGetDelegator, Store
<1> HIDE DEF s
<1>4. TotalStake([s.del EXCEPT !.rewards = 0]) = TotalStake(del[v][a])
  BY <1>2 DEF TotalStake, Delegator
<1>5. del \in [ValIds -> [Addrs -> Delegator]]
  BY DEF HeldInv, Inv, TypeOK
<1>6. \A w \in ValIds, b \in Addrs : TotalStake(del'[w][b]) = TotalStake(del[w][b])
  BY <1>2, <1>3, <1>4, <1>5
<1> QED
  BY <1>1, <1>6, UnmovedHeld

(***************************************************************************)
(* undelegate: what leaves was there, so the delegation was listed; it is  *)
(* taken out with the last of its stake, active or pending.                *)
(***************************************************************************)
LEMMA UndelegateHeld ==
    ASSUME HeldInv, NEW v \in ValIds, NEW caller \in Addrs,
           NEW asked \in UndelegateAmounts, NEW wid \in WithdrawIds,
           HandleUndelegate(v, caller, asked, wid)
    PROVE  Held'
<1> DEFINE s         == Pulled(v, caller)
           remaining == s.del.stake - asked
           amount    == IF remaining < DUST_THRESHOLD THEN s.del.stake ELSE asked
           left      == s.del.stake - amount
           acc       == IF s.del.stake = amount THEN 0 ELSE s.del.acc
           d         == [s.del EXCEPT !.stake = left, !.acc = acc]
<1>1. /\ s.ok
      /\ asked # 0
      /\ asked <= s.del.stake
      /\ del' = [del EXCEPT ![v][caller] = d]
      /\ delegators' = IF DelegatorExists(d) THEN delegators
            ELSE [delegators EXCEPT ![v] = LinkedListRemove(@, caller, ZERO_ADDRESS)]
      /\ delegations' = IF DelegatorExists(d) THEN delegations
            ELSE [delegations EXCEPT ![caller] = LinkedListRemove(@, v, NO_VALIDATOR)]
  BY DEF HandleUndelegate
<1>2. s.del \in Delegator /\ TotalStake(s.del) = TotalStake(del[v][caller])
  BY <1>1, PulledFacts DEF HeldInv
<1>3. del \in [ValIds -> [Addrs -> Delegator]]
  BY DEF HeldInv, Inv, TypeOK
<1> HIDE DEF s, d
<1>4. DelegatorExists(del[v][caller])
  <2>1. asked \in Nat /\ s.del.stake \in Nat
    BY <1>2, StakingAssumption DEF Delegator
  <2>2. s.del.stake # 0
    BY <1>1, <2>1
  <2>3. DelegatorExists(s.del)
    BY <2>2 DEF DelegatorExists
  <2>4. TotalStake(s.del) # 0
    BY <1>2, <2>3, ExistsByStake DEF Delegator
  <2>5. del[v][caller] \in Delegator
    BY <1>3
  <2> QED
    BY <1>2, <2>4, <2>5, ExistsByStake DEF Delegator
<1>5. CASE DelegatorExists(d)
  <2>1. /\ \A u \in ValIds \ {v} : Stakers(del', u) = Stakers(del, u)
        /\ \A b \in Addrs \ {caller} : Staked(del', b) = Staked(del, b)
        /\ Stakers(del', v) = Stakers(del, v) \cup {caller}
        /\ Staked(del', caller) = Staked(del, caller) \cup {v}
    BY <1>1, <1>5, StakersReplaced DEF HeldInv
  <2>2. caller \in Stakers(del, v) /\ v \in Staked(del, caller)
    BY <1>4 DEF Stakers, Staked
  <2>3. /\ \A u \in ValIds : Stakers(del', u) = Stakers(del, u)
        /\ \A b \in Addrs : Staked(del', b) = Staked(del, b)
    BY <2>1, <2>2
  <2>4. delegators' = delegators /\ delegations' = delegations
    BY <1>1, <1>5
  <2> QED
    BY <2>3, <2>4, Zenon DEF HeldInv, Held
<1>6. CASE ~DelegatorExists(d)
  <2>1. /\ delegators' =
              [delegators EXCEPT ![v] = LinkedListRemove(@, caller, ZERO_ADDRESS)]
        /\ delegations' =
              [delegations EXCEPT ![caller] = LinkedListRemove(@, v, NO_VALIDATOR)]
    BY <1>1, <1>6
  <2> QED
    BY <1>1, <1>4, <1>6, <2>1, LeavingHeld
<1> QED
  BY <1>5, <1>6

\* The calls that write no delegation, and rewards.
LEMMA OtherHeld ==
    ASSUME HeldInv, Inv',
           \/ \E v \in ValIds, caller \in Addrs, wid \in WithdrawIds :
                 HandleWithdraw(v, caller, wid)
           \/ \E v \in ValIds, caller \in Addrs, c \in Commissions :
                 HandleChangeCommission(v, caller, c)
           \/ \E v \in ValIds, caller \in Addrs, value \in ExternalRewards :
                 HandleExternalReward(v, caller, value)
           \/ HandleSyscallSnapshot
           \/ \E next \in 1 .. MaxEpoch : HandleSyscallOnEpochChange(next)
    PROVE  Held'
<1>1. del' = del /\ UNCHANGED lists
  BY DEF HandleWithdraw, HandleChangeCommission, HandleExternalReward,
         HandleSyscallSnapshot, HandleSyscallOnEpochChange, ledger
<1> QED
  BY <1>1, UnmovedHeld

\* A commission is no stake.
LEMMA RewardHeld ==
    ASSUME HeldInv, Inv', NEW author \in Addrs, NEW reward \in BlockRewards,
           HandleSyscallReward(author, reward)
    PROVE  Held'
<1>1. PICK v, auth, commission : del' = [del EXCEPT ![v][auth].rewards = @ + commission]
  BY DEF HandleSyscallReward, DistributeReward
<1>2. UNCHANGED lists
  BY DEF HandleSyscallReward
<1>3. del \in [ValIds -> [Addrs -> Delegator]]
  BY DEF HeldInv, Inv, TypeOK
<1>4. \A w \in ValIds, b \in Addrs : TotalStake(del'[w][b]) = TotalStake(del[w][b])
  BY <1>1, <1>3 DEF TotalStake, Delegator
<1> QED
  BY <1>2, <1>4, UnmovedHeld

\* Every step, in any order of system calls.
LEMMA HeldStep ==
    ASSUME HeldInv, [AnyOrderNext]_vars
    PROVE  HeldInv'
<1>1. Inv'
  BY AnyOrderStep DEF HeldInv
<1>2. SUFFICES Held'
  BY <1>1 DEF HeldInv
<1>3. CASE UserCall
  <2>1. PICK caller \in Addrs :
        \/ \E auth \in Addrs, bls \in BlsKeys, c \in Commissions,
              value \in DelegateAmounts :
                 HandleAddValidator(caller, auth, bls, c, value)
        \/ \E v \in ValIds :
              \/ \E value \in DelegateAmounts : HandleDelegate(v, caller, value)
              \/ \E amount \in UndelegateAmounts, wid \in WithdrawIds :
                    HandleUndelegate(v, caller, amount, wid)
              \/ \E wid \in WithdrawIds : HandleWithdraw(v, caller, wid)
              \/ HandleClaimRewards(v, caller)
              \/ HandleCompound(v, caller)
              \/ HandleGetDelegator(v, caller)
              \/ \E c \in Commissions : HandleChangeCommission(v, caller, c)
              \/ \E value \in ExternalRewards :
                    HandleExternalReward(v, caller, value)
    BY <1>3 DEF UserCall
  <2> QED
    BY <1>1, <2>1, AddValidatorHeld, DelegateCallHeld, CompoundHeld, UndelegateHeld,
       SettlingHeld, OtherHeld, Zenon
<1>4. CASE BlockCall
  BY <1>1, <1>4, RewardHeld, OtherHeld DEF BlockCall
<1>5. CASE \E next \in 1 .. MaxEpoch : HandleSyscallOnEpochChange(next)
  BY <1>1, <1>5, OtherHeld
<1>6. CASE UNCHANGED vars
  <2>1. UNCHANGED lists /\ del' = del
    BY <1>6 DEF vars, ledger
  <2> QED
    BY <1>1, <2>1, UnmovedHeld
<1> QED
  BY <1>3, <1>4, <1>5, <1>6 DEF AnyOrderNext

\* Nobody has stake and all lists are empty.
LEMMA InitHeld ==
    ASSUME Init
    PROVE  HeldInv
<1>1. Inv
  BY InitInv
<1>2. /\ del = [v \in ValIds |-> [a \in Addrs |-> NoDelegator]]
      /\ delegators =
            [v \in ValIds |-> EmptyList(Addrs \cup {SENTINEL_ADDRESS}, ZERO_ADDRESS)]
      /\ delegations =
            [a \in Addrs |-> EmptyList(ValIds \cup {SENTINEL_VAL_ID}, NO_VALIDATOR)]
  BY DEF Init
<1>3. /\ \A v \in ValIds : Stakers(del, v) = {}
      /\ \A a \in Addrs : Staked(del, a) = {}
  BY <1>2 DEF Stakers, Staked, NoDelegator, DelegatorExists
<1>4. /\ DelegatorsHeld(EmptyList(Addrs \cup {SENTINEL_ADDRESS}, ZERO_ADDRESS), {})
      /\ DelegationsHeld(EmptyList(ValIds \cup {SENTINEL_VAL_ID}, NO_VALIDATOR), {})
  BY ListKeys, EmptyHolds DEF DelegatorsHeld, DelegationsHeld
<1> QED
  BY <1>1, <1>2, <1>3, <1>4 DEF HeldInv, Held

\* What getDelegators and getDelegations find in lists that are chains.
LEMMA HeldMatches ==
    ASSUME Held
    PROVE  ListsMatchDelegations
<1>1. ASSUME NEW v \in ValIds
      PROVE  /\ Members(DelegatorsOf(v)) = {a \in Addrs : DelegatorExists(del[v][a])}
             /\ NoDuplicates(DelegatorsOf(v))
             /\ BackLinked(delegators[v], SENTINEL_ADDRESS, ZERO_ADDRESS)
  <2> DEFINE list == delegators[v]
             S == Stakers(del, v)
             size == Cardinality(Addrs) + 1
             seen == Traversal(list, SENTINEL_ADDRESS, ZERO_ADDRESS, size)
  <2>1. ListHolds(list, S, Addrs, SENTINEL_ADDRESS, ZERO_ADDRESS)
    BY DEF Held, DelegatorsHeld
  <2>2. size \in Nat /\ Cardinality(Addrs) <= size
    BY ListKeys, FS_CardinalityType
  <2>3. seen = DelegatorsOf(v) /\ S = {a \in Addrs : DelegatorExists(del[v][a])}
    BY DEF DelegatorsOf, Stakers
  <2> HIDE DEF list, S, size
  <2>4. /\ seen \in Seq(Addrs)
        /\ S = {seen[i] : i \in 1 .. Len(seen)}
        /\ \A i, j \in 1 .. Len(seen) : seen[i] = seen[j] => i = j
    BY <2>1, <2>2, ListKeys, TraversalOfHeld
  <2>5. BackLinked(list, SENTINEL_ADDRESS, ZERO_ADDRESS)
    <3>1. \A k \in DOMAIN list : list[k].next # ZERO_ADDRESS => list[list[k].next].prev = k
      BY <2>1, ListKeys, HeldBackLinked
    <3> QED
      BY <3>1, Zenon DEF BackLinked
  <2> HIDE DEF seen
  <2>6. Members(seen) = S
    BY <2>4 DEF Members
  <2>7. NoDuplicates(seen)
    BY <2>4, DistinctCounts DEF Distinct
  <2> QED
    BY <2>3, <2>5, <2>6, <2>7 DEF list
<1>2. ASSUME NEW a \in Addrs
      PROVE  /\ Members(ValidatorsOf(a)) = {v \in ValIds : DelegatorExists(del[v][a])}
             /\ NoDuplicates(ValidatorsOf(a))
             /\ BackLinked(delegations[a], SENTINEL_VAL_ID, NO_VALIDATOR)
  <2> DEFINE list == delegations[a]
             S == Staked(del, a)
             size == MaxValidators + 1
             seen == Traversal(list, SENTINEL_VAL_ID, NO_VALIDATOR, size)
  <2>1. ListHolds(list, S, ValIds, SENTINEL_VAL_ID, NO_VALIDATOR)
    BY DEF Held, DelegationsHeld
  <2>2. size \in Nat /\ Cardinality(ValIds) <= size
    BY ListKeys, StakingAssumption
  <2>3. seen = ValidatorsOf(a) /\ S = {v \in ValIds : DelegatorExists(del[v][a])}
    BY DEF ValidatorsOf, Staked
  <2> HIDE DEF list, S, size
  <2>4. /\ seen \in Seq(ValIds)
        /\ S = {seen[i] : i \in 1 .. Len(seen)}
        /\ \A i, j \in 1 .. Len(seen) : seen[i] = seen[j] => i = j
    BY <2>1, <2>2, ListKeys, TraversalOfHeld
  <2>5. BackLinked(list, SENTINEL_VAL_ID, NO_VALIDATOR)
    <3>1. \A k \in DOMAIN list : list[k].next # NO_VALIDATOR => list[list[k].next].prev = k
      BY <2>1, ListKeys, HeldBackLinked
    <3> QED
      BY <3>1, Zenon DEF BackLinked
  <2> HIDE DEF seen
  <2>6. Members(seen) = S
    BY <2>4 DEF Members
  <2>7. NoDuplicates(seen)
    BY <2>4, DistinctCounts DEF Distinct
  <2> QED
    BY <2>3, <2>5, <2>6, <2>7 DEF list
<1> QED
  BY <1>1, <1>2 DEF ListsMatchDelegations

(***************************************************************************)
(* Whoever walks a validator's list meets exactly the accounts with stake  *)
(* there, and whoever walks an account's list exactly its validators, each *)
(* once and linked both ways, after any calls of delegate, compound and    *)
(* undelegate: both lists are entered with the first stake and left with   *)
(* the last, pending stake included, and a settlement moves none.          *)
(***************************************************************************)
THEOREM ListsFollowDelegations == AnyOrderSpec => []ListsMatchDelegations
<1>1. Init => HeldInv
  BY InitHeld
<1>2. HeldInv /\ [AnyOrderNext]_vars => HeldInv'
  BY HeldStep
<1>3. HeldInv => ListsMatchDelegations
  BY HeldMatches DEF HeldInv
<1> QED
  BY <1>1, <1>2, <1>3, PTL DEF AnyOrderSpec
=============================================================================
