--------------------------- MODULE ReserveProofs ----------------------------
(***************************************************************************)
(* Proofs about the reserve-balance tracker, for any accounts, amounts,    *)
(* fees, depth of calls and histories of blocks.                           *)
(*                                                                         *)
(* With a database that returns accounts with their code, the tracker is   *)
(* exact: its failed set and its cached thresholds are what a computation  *)
(* from scratch would give, through every nesting and every revert.        *)
(***************************************************************************)
EXTENDS ReserveBalance, SequenceTheorems, TLAPS

\* Whether an account is below its reserve by the rule, given what the tracker
\* knows of the transaction.
InBelow(t, acc, a) ==
  LET fees == IF a = t.sender THEN t.gasFees ELSE 0 IN
  /\ IsSubject([acc EXCEPT !.known = TRUE], a)
  /\ ~ Exempt(acc)
  /\ ~ (a = t.sender /\ t.canDip)
  /\ \/ fees > PretxReserve(acc)
     \/ acc.balance + fees < PretxReserve(acc)

\* The threshold an account would get if it were looked at for the first time.
Due(t, acc, a) ==
  IF Exempt(acc) THEN 0 ELSE ViolationThreshold(t, [acc EXCEPT !.known = TRUE], a)

\* What is said of one account by the failed set and by the cache.
ExactAt(t, acc, a) == a \in t.failed <=> InBelow(t, acc, a)

CachedAt(t, acc, a) == t.thresholds[a] \in {Unknown, Due(t, acc, a)}

Exact(t, accs) == \A a \in Accounts : ExactAt(t, accs[a], a) /\ CachedAt(t, accs[a], a)

\* The transaction that two trackers follow is the same.
SameTerms(t, u) == u.sender = t.sender /\ u.gasFees = t.gasFees /\ u.canDip = t.canDip

\* Two states of an account that the reserve rule does not tell apart.
Same(x, y) ==
  /\ x.balance = y.balance /\ x.original = y.original /\ x.code = y.code
  /\ x.created = y.created /\ x.destroyed = y.destroyed

\* Accounts whose code is there; one is destroyed only where it was created.
AccountOK(acc) ==
  /\ acc \in Account
  /\ acc.known
  /\ acc.destroyed => acc.created

AccountsOK(accs) ==
  /\ DOMAIN accs = Accounts
  /\ accs \in [Accounts -> Account]
  /\ \A a \in Accounts : AccountOK(accs[a])

\* A frame that can be reverted: everything that was changed since it began is
\* in its entries or in those of the frames within it.
Frame == [self : Accounts, creating : BOOLEAN, saved : [Accounts -> Account],
          entries : SUBSET Accounts, failed : SUBSET Accounts]

FrameOK(t, f) ==
  /\ f \in Frame
  /\ AccountsOK(f.saved)
  /\ f.creating => f.self \in f.entries
  /\ \A a \in Accounts : a \in f.failed <=> InBelow(t, f.saved[a], a)

Reverts(later, f) == \A a \in Accounts \ f.entries : Same(later[a], f.saved[a])

StackOK(t, accs, stack) ==
  /\ stack \in Seq(Frame)
  /\ \A d \in 1 .. Len(stack) : FrameOK(t, stack[d])
  /\ \A d \in 1 .. Len(stack) - 1 : Reverts(stack[d + 1].saved, stack[d])
  /\ stack # <<>> => Reverts(accs, stack[Len(stack)])

TrackingOK ==
  /\ tracker \in Tracker
  /\ tracker.sender \in Senders
  /\ Exact(tracker, account)

\* Between transactions nobody owes anything.
Settled ==
  \A a \in Accounts :
    /\ account[a].balance = account[a].original
    /\ ~ account[a].created /\ ~ account[a].destroyed

(***************************************************************************)
(* The inductive invariant.                                                *)
(***************************************************************************)
ReserveInv ==
  /\ phase \in {"idle", "running", "done"}
  /\ AccountsOK(account)
  /\ StackOK(tracker, account, frames)
  /\ phase # "running" => frames = <<>>
  /\ phase = "idle" => Settled
  /\ phase # "idle" => TrackingOK

-----------------------------------------------------------------------------
(***************************************************************************)
(* The tracker alone.                                                      *)
(***************************************************************************)
\* The rule and the threshold look at nothing but the terms of the transaction
\* and at what Same compares.
LEMMA SameVerdict ==
  ASSUME NEW t, NEW u, SameTerms(t, u), NEW x \in Account, NEW y \in Account, Same(x, y),
         NEW a \in Accounts
  PROVE  InBelow(u, x, a) = InBelow(t, y, a) /\ Due(u, x, a) = Due(t, y, a)
  <1>1. /\ IsSubject([x EXCEPT !.known = TRUE], a)
             = IsSubject([y EXCEPT !.known = TRUE], a)
        /\ Exempt(x) = Exempt(y)
        /\ PretxReserve(x) = PretxReserve(y)
        /\ PretxReserve([x EXCEPT !.known = TRUE]) = PretxReserve([y EXCEPT !.known = TRUE])
    BY DEF IsSubject, Exempt, PretxReserve, Same, Account
  <1>2. InBelow(u, x, a) = InBelow(t, y, a)
    BY <1>1 DEF InBelow, SameTerms, Same
  <1>3. Due(u, x, a) = Due(t, y, a)
    BY <1>1 DEF Due, ViolationThreshold, SameTerms
  <1>4. QED BY <1>2, <1>3

\* The threshold decides as the rule does.
LEMMA DueJudges ==
  ASSUME NEW t \in Tracker, NEW acc, AccountOK(acc), NEW a \in Accounts
  PROVE  /\ Violates(Due(t, acc, a), acc.balance) <=> InBelow(t, acc, a)
         /\ Due(t, acc, a) \in Nat \cup {Unpayable}
  <1>1. /\ acc.balance \in Nat /\ acc.original \in Nat /\ MaxReserve \in Nat
        /\ t.gasFees \in Nat /\ Unpayable \notin Nat
    BY ReserveAssumption DEF AccountOK, Account, Tracker
  <1>2. PretxReserve(acc) \in Nat
    BY <1>1 DEF PretxReserve
  <1>3. /\ PretxReserve([acc EXCEPT !.known = TRUE]) = PretxReserve(acc)
        /\ [acc EXCEPT !.known = TRUE] = acc
    BY DEF AccountOK, Account, PretxReserve
  <1>4. QED
    BY <1>1, <1>2, <1>3 DEF Due, InBelow, Violates, ViolationThreshold

\* update_loaded_account leaves what it looked at exact, and the rest alone.
LEMMA UpdateWorks ==
  ASSUME NEW t \in Tracker, NEW accs, AccountsOK(accs), NEW A \in SUBSET Accounts,
         \A a \in A : Exempt(accs[a]) \/ CachedAt(t, accs[a], a)
  PROVE  LET u == Update(t, accs, A) IN
         /\ u \in Tracker /\ SameTerms(t, u)
         /\ \A a \in A : ExactAt(u, accs[a], a) /\ CachedAt(u, accs[a], a)
         /\ \A a \in Accounts \ A :
              u.thresholds[a] = t.thresholds[a] /\ (a \in u.failed <=> a \in t.failed)
  <1> DEFINE u == Update(t, accs, A)
             thr(a) == IF Exempt(accs[a]) THEN 0
                       ELSE IF t.thresholds[a] # Unknown THEN t.thresholds[a]
                       ELSE ViolationThreshold(t, accs[a], a)
             bad == {a \in A : Violates(thr(a), accs[a].balance)}
  <1>0. /\ t.thresholds \in [Accounts -> Nat \cup {Unknown, Unpayable}]
        /\ t.failed \in SUBSET Accounts
    BY DEF Tracker
  <1>1. u = [t EXCEPT !.thresholds = [a \in Accounts |-> IF a \in A THEN thr(a)
                                                         ELSE t.thresholds[a]],
                      !.failed = (t.failed \ A) \cup bad]
    BY DEF Update, Tracker
  <1>2. ASSUME NEW a \in A PROVE thr(a) = Due(t, accs[a], a)
    <2>1. a \in Accounts /\ accs[a] \in Account /\ accs[a].known
      BY DEF AccountsOK, AccountOK
    <2>2. [accs[a] EXCEPT !.known = TRUE] = accs[a]
      BY <2>1 DEF Account
    <2>3. QED BY <2>2 DEF Due, CachedAt
  <1>3. ASSUME NEW a \in A
        PROVE  thr(a) \in Nat \cup {Unpayable}
               /\ (Violates(thr(a), accs[a].balance) <=> InBelow(t, accs[a], a))
    BY <1>2, DueJudges DEF AccountsOK
  <1> HIDE DEF thr
  <1>4. /\ u.thresholds = [a \in Accounts |-> IF a \in A THEN thr(a) ELSE t.thresholds[a]]
        /\ u.failed = (t.failed \ A) \cup bad
        /\ SameTerms(t, u)
    BY <1>1 DEF Tracker, SameTerms
  <1>5. u \in Tracker
    <2>1. [a \in Accounts |-> IF a \in A THEN thr(a) ELSE t.thresholds[a]]
            \in [Accounts -> Nat \cup {Unknown, Unpayable}]
      BY <1>0, <1>3
    <2>2. (t.failed \ A) \cup bad \in SUBSET Accounts
      BY <1>0
    <2>3. QED BY <1>1, <2>1, <2>2 DEF Tracker
  <1>6. ASSUME NEW a \in A
        PROVE  ExactAt(u, accs[a], a) /\ CachedAt(u, accs[a], a)
    <2>1. InBelow(u, accs[a], a) = InBelow(t, accs[a], a)
          /\ Due(u, accs[a], a) = Due(t, accs[a], a)
      BY <1>4, SameVerdict DEF Same, AccountsOK
    <2>2. a \in u.failed <=> InBelow(t, accs[a], a)
      BY <1>3, <1>4
    <2>3. u.thresholds[a] = Due(t, accs[a], a)
      BY <1>2, <1>4
    <2>4. QED BY <2>1, <2>2, <2>3 DEF ExactAt, CachedAt
  <1>7. \A a \in Accounts \ A :
          u.thresholds[a] = t.thresholds[a] /\ (a \in u.failed <=> a \in t.failed)
    BY <1>4
  <1>8. QED BY <1>4, <1>5, <1>6, <1>7

\* A tracker that was exact stays so where neither the account nor its own
\* record changed in what counts.
LEMMA StaysExact ==
  ASSUME NEW t \in Tracker, NEW u \in Tracker, SameTerms(t, u),
         NEW x \in Account, NEW y \in Account, Same(x, y), NEW a \in Accounts,
         ExactAt(t, y, a), CachedAt(t, y, a),
         u.thresholds[a] = t.thresholds[a], a \in u.failed <=> a \in t.failed
  PROVE  ExactAt(u, x, a) /\ CachedAt(u, x, a)
BY SameVerdict DEF ExactAt, CachedAt

(***************************************************************************)
(* on_transfer, once the accounts are as they will be: the payer is looked *)
(* at anew.  The payee is looked at only if it is failing, which suffices, *)
(* since it is below its reserve now only if it was before.                *)
(***************************************************************************)
LEMMA TransferWorks ==
  ASSUME NEW t \in Tracker, NEW old, AccountsOK(old), Exact(t, old),
         NEW new, AccountsOK(new), NEW from \in Accounts, NEW to \in Accounts,
         Exempt(new[from]) \/ Due(t, new[from], from) = Due(t, old[from], from),
         to # from => /\ Due(t, new[to], to) = Due(t, old[to], to)
                      /\ InBelow(t, new[to], to) => InBelow(t, old[to], to),
         \A a \in Accounts \ {from, to} : Same(new[a], old[a])
  PROVE  LET u == OnTransfer(t, new, from, to) IN
         u \in Tracker /\ SameTerms(t, u) /\ Exact(u, new)
  <1> DEFINE m == Update(t, new, {from})
             u == OnTransfer(t, new, from, to)
  <1>0. \A a \in Accounts : old[a] \in Account /\ new[a] \in Account
    BY DEF AccountsOK
  <1>1. Exempt(new[from]) \/ CachedAt(t, new[from], from)
    BY DEF Exact, CachedAt
  <1>2. /\ m \in Tracker /\ SameTerms(t, m)
        /\ ExactAt(m, new[from], from) /\ CachedAt(m, new[from], from)
        /\ \A a \in Accounts \ {from} :
             m.thresholds[a] = t.thresholds[a] /\ (a \in m.failed <=> a \in t.failed)
    BY <1>1, UpdateWorks
  <1>3. ASSUME NEW a \in Accounts \ {from, to}
        PROVE  ExactAt(m, new[a], a) /\ CachedAt(m, new[a], a)
    BY <1>0, <1>2, StaysExact DEF Exact
  <1>4. u = IF to \in m.failed THEN Update(m, new, {to}) ELSE m
    BY DEF OnTransfer, OnCredit
  <1> HIDE DEF m, u
  <1>5. CachedAt(m, new[to], to)
    <2>1. CASE to = from BY <1>2, <2>1
    <2>2. CASE to # from
      <3>1. Due(m, new[to], to) = Due(t, new[to], to)
        BY <1>0, <1>2, SameVerdict DEF Same
      <3>2. QED BY <1>2, <2>2, <3>1 DEF Exact, CachedAt
    <2>3. QED BY <2>1, <2>2
  <1>6. CASE to \in m.failed
    <2>1. u = Update(m, new, {to})
      BY <1>4, <1>6
    <2>2. /\ u \in Tracker /\ SameTerms(m, u)
          /\ ExactAt(u, new[to], to) /\ CachedAt(u, new[to], to)
          /\ \A a \in Accounts \ {to} :
               u.thresholds[a] = m.thresholds[a] /\ (a \in u.failed <=> a \in m.failed)
      BY <1>2, <1>5, <2>1, UpdateWorks
    <2>3. ASSUME NEW a \in Accounts \ {to}
          PROVE  ExactAt(u, new[a], a) /\ CachedAt(u, new[a], a)
      BY <1>0, <1>2, <1>3, <2>2, StaysExact DEF Same
    <2>4. QED BY <1>2, <2>2, <2>3 DEF Exact, SameTerms, u
  <1>7. CASE to \notin m.failed
    <2>1. u = m
      BY <1>4, <1>7
    <2>2. ExactAt(m, new[to], to)
      <3>1. CASE to = from BY <1>2, <3>1
      <3>2. CASE to # from
        <4>1. InBelow(m, new[to], to) = InBelow(t, new[to], to)
          BY <1>0, <1>2, SameVerdict DEF Same
        <4>2. ~ InBelow(t, old[to], to)
          BY <1>2, <1>7, <3>2 DEF Exact, ExactAt
        <4>3. QED BY <1>7, <3>2, <4>1, <4>2 DEF ExactAt
      <3>3. QED BY <3>1, <3>2
    <2>3. QED BY <1>2, <1>3, <1>5, <2>1, <2>2 DEF Exact, u
  <1>8. QED BY <1>6, <1>7

\* on_set_code and on_checkpoint_revert look at accounts as if for the first time.
LEMMA LookedAtAnew ==
  ASSUME NEW t \in Tracker, NEW old, AccountsOK(old), Exact(t, old),
         NEW new, AccountsOK(new), NEW A \in SUBSET Accounts,
         \A a \in Accounts \ A : Same(new[a], old[a])
  PROVE  LET u == Update(Forget(t, A), new, A) IN
         u \in Tracker /\ SameTerms(t, u) /\ Exact(u, new)
  <1> DEFINE m == Forget(t, A)
             u == Update(m, new, A)
  <1>0. \A a \in Accounts : old[a] \in Account /\ new[a] \in Account
    BY DEF AccountsOK
  <1>1. /\ m \in Tracker /\ SameTerms(t, m)
        /\ m.failed = t.failed
        /\ m.thresholds = [a \in Accounts |-> IF a \in A THEN Unknown ELSE t.thresholds[a]]
    BY DEF Forget, Tracker, SameTerms
  <1> HIDE DEF m
  <1>2. \A a \in A : CachedAt(m, new[a], a)
    BY <1>1 DEF CachedAt
  <1>3. /\ u \in Tracker /\ SameTerms(m, u)
        /\ \A a \in A : ExactAt(u, new[a], a) /\ CachedAt(u, new[a], a)
        /\ \A a \in Accounts \ A :
             u.thresholds[a] = m.thresholds[a] /\ (a \in u.failed <=> a \in m.failed)
    BY <1>1, <1>2, UpdateWorks
  <1> HIDE DEF u
  <1>4. SameTerms(t, u)
    BY <1>1, <1>3 DEF SameTerms
  <1>5. ASSUME NEW a \in Accounts \ A
        PROVE  ExactAt(u, new[a], a) /\ CachedAt(u, new[a], a)
    <2>1. u.thresholds[a] = t.thresholds[a] /\ (a \in u.failed <=> a \in t.failed)
      BY <1>1, <1>3
    <2>2. QED BY <1>0, <1>3, <1>4, <2>1, StaysExact DEF Exact
  <1>6. QED BY <1>3, <1>4, <1>5 DEF Exact, u, m

\* on_set_code: what has become a contract has no threshold and never fails.
LEMMA SetCodeWorks ==
  ASSUME NEW t \in Tracker, NEW old, AccountsOK(old), Exact(t, old),
         NEW new, AccountsOK(new), NEW b \in Accounts,
         \A a \in Accounts \ {b} : Same(new[a], old[a])
  PROVE  LET u == OnSetCode(t, new, b) IN
         u \in Tracker /\ SameTerms(t, u) /\ Exact(u, new)
  <1> DEFINE u == OnSetCode(t, new, b)
  <1>1. CASE new[b].code # "contract"
    BY <1>1, LookedAtAnew DEF OnSetCode
  <1>2. CASE new[b].code = "contract"
    <2>1. u = [t EXCEPT !.thresholds[b] = 0, !.failed = t.failed \ {b}]
      BY <1>2 DEF OnSetCode
    <2>2. /\ u \in Tracker /\ SameTerms(t, u)
          /\ u.thresholds[b] = 0 /\ u.failed = t.failed \ {b}
          /\ \A a \in Accounts \ {b} : u.thresholds[a] = t.thresholds[a]
      <3> DEFINE th == [t.thresholds EXCEPT ![b] = 0]
      <3>1. u = [t EXCEPT !.thresholds = th, !.failed = t.failed \ {b}]
        BY <2>1
      <3>2. /\ t.thresholds \in [Accounts -> Nat \cup {Unknown, Unpayable}]
            /\ t.failed \in SUBSET Accounts
        BY DEF Tracker
      <3>3. /\ th \in [Accounts -> Nat \cup {Unknown, Unpayable}]
            /\ th[b] = 0
            /\ \A a \in Accounts \ {b} : th[a] = t.thresholds[a]
        BY <3>2
      <3> HIDE DEF th
      <3>4. /\ u \in Tracker /\ SameTerms(t, u)
            /\ u.thresholds = th /\ u.failed = t.failed \ {b}
        BY <3>1, <3>2, <3>3 DEF Tracker, SameTerms
      <3>5. QED BY <3>3, <3>4
    <2> HIDE DEF u
    <2>3. ~ IsSubject([new[b] EXCEPT !.known = TRUE], b)
      BY <1>2 DEF IsSubject, AccountsOK, Account
    <2>4. ExactAt(u, new[b], b) /\ CachedAt(u, new[b], b)
      BY <2>2, <2>3 DEF ExactAt, CachedAt, InBelow, Due, ViolationThreshold
    <2>5. ASSUME NEW a \in Accounts \ {b}
          PROVE  ExactAt(u, new[a], a) /\ CachedAt(u, new[a], a)
      BY <2>2, StaysExact DEF Exact, AccountsOK
    <2>6. QED BY <2>2, <2>4, <2>5 DEF Exact, u
  <1>3. QED BY <1>1, <1>2

-----------------------------------------------------------------------------
(***************************************************************************)
(* The stack of frames alone.                                              *)
(***************************************************************************)
\* A frame's claims about the tracker are about its terms only.
LEMMA FrameKept ==
  ASSUME NEW t, NEW u, SameTerms(t, u), NEW f, FrameOK(t, f)
  PROVE  FrameOK(u, f)
  <1>1. ASSUME NEW a \in Accounts PROVE InBelow(u, f.saved[a], a) = InBelow(t, f.saved[a], a)
    BY SameVerdict DEF FrameOK, AccountsOK, Same
  <1>2. QED BY <1>1 DEF FrameOK

\* More entries only make a frame easier to revert.
LEMMA FrameGrows ==
  ASSUME NEW t, NEW f, FrameOK(t, f), NEW A \in SUBSET Accounts
  PROVE  LET g == [f EXCEPT !.entries = @ \cup A] IN
         /\ FrameOK(t, g)
         /\ g.saved = f.saved /\ g.entries = f.entries \cup A
         /\ g.self = f.self /\ g.creating = f.creating /\ g.failed = f.failed
BY DEF FrameOK, Frame

\* The innermost frame is replaced by one with more entries.
Grown(stack, A) == [stack EXCEPT ![Len(stack)].entries = @ \cup A]

\* Its caller could still revert it, if nothing else changed since it began.
LEMMA TopGrows ==
  ASSUME NEW t, NEW u, SameTerms(t, u), NEW accs, NEW new,
         NEW stack, StackOK(t, accs, stack), stack # <<>>,
         NEW A \in SUBSET Accounts,
         \A a \in Accounts \ (stack[Len(stack)].entries \cup A) :
            Same(new[a], stack[Len(stack)].saved[a])
  PROVE  StackOK(u, new, Grown(stack, A))
  <1> DEFINE n == Len(stack)
             g == [stack[n] EXCEPT !.entries = @ \cup A]
             grown == Grown(stack, A)
  <1>1. stack \in Seq(Frame) /\ n \in Nat \ {0}
    BY EmptySeq DEF StackOK
  <1>2. /\ FrameOK(t, g)
        /\ g.saved = stack[n].saved /\ g.entries = stack[n].entries \cup A
    <2>1. FrameOK(t, stack[n])
      BY <1>1 DEF StackOK
    <2>2. QED BY <2>1, FrameGrows
  <1>3. g \in Frame
    BY <1>2 DEF FrameOK
  <1>4. grown = [stack EXCEPT ![n] = g]
    BY <1>1 DEF Grown
  <1> HIDE DEF g, grown
  <1>5. /\ grown \in Seq(Frame) /\ Len(grown) = n
        /\ grown[n] = g
        /\ \A d \in 1 .. n - 1 : grown[d] = stack[d]
    <2> DEFINE m == Len(stack)
    <2>1. m \in 1 .. m
      BY <1>1
    <2>2. /\ [stack EXCEPT ![m] = g] \in Seq(Frame)
          /\ Len([stack EXCEPT ![m] = g]) = m
          /\ \A j \in 1 .. m : [stack EXCEPT ![m] = g][j] = IF j = m THEN g ELSE stack[j]
      BY <1>1, <1>3, <2>1, ExceptSeq
    <2>3. QED BY <1>1, <1>4, <2>2
  <1>6. ASSUME NEW d \in 1 .. n PROVE FrameOK(u, grown[d])
    <2>1. FrameOK(t, grown[d])
      BY <1>1, <1>2, <1>5 DEF StackOK
    <2>2. QED BY <2>1, FrameKept
  <1>7. ASSUME NEW d \in 1 .. n - 1 PROVE Reverts(grown[d + 1].saved, grown[d])
    <2>1. d + 1 \in 1 .. n /\ grown[d + 1].saved = stack[d + 1].saved
      BY <1>1, <1>2, <1>5
    <2>2. QED BY <1>1, <1>5, <2>1 DEF StackOK
  <1>8. Reverts(new, grown[n])
    BY <1>2, <1>5 DEF Reverts
  <1>9. QED BY <1>5, <1>6, <1>7, <1>8 DEF StackOK, grown

\* Where nothing changed that counts, the stack is as it was.
LEMMA StackKept ==
  ASSUME NEW t, NEW u, SameTerms(t, u), NEW accs, NEW new,
         NEW stack, StackOK(t, accs, stack),
         \A a \in Accounts : Same(new[a], accs[a])
  PROVE  StackOK(u, new, stack)
  <1>1. ASSUME stack # <<>> PROVE Reverts(new, stack[Len(stack)])
    BY <1>1 DEF StackOK, Reverts, Same
  <1>2. QED BY <1>1, FrameKept DEF StackOK

\* A frame on top that saves the accounts as they are.
LEMMA Pushed ==
  ASSUME NEW t, NEW u, SameTerms(t, u), NEW new, NEW f, FrameOK(t, f), Reverts(new, f),
         NEW stack, StackOK(t, f.saved, stack)
  PROVE  StackOK(u, new, Append(stack, f))
  <1> DEFINE pushed == Append(stack, f)
             n == Len(stack)
  <1>1. stack \in Seq(Frame) /\ f \in Frame /\ n \in Nat
    BY LenProperties DEF StackOK, FrameOK
  <1>2. /\ pushed \in Seq(Frame) /\ Len(pushed) = n + 1 /\ pushed[n + 1] = f
        /\ \A d \in 1 .. n : pushed[d] = stack[d]
    BY <1>1, AppendProperties
  <1> HIDE DEF pushed
  <1>3. ASSUME NEW d \in 1 .. n + 1 PROVE FrameOK(u, pushed[d])
    <2>1. FrameOK(t, pushed[d])
      BY <1>1, <1>2 DEF StackOK
    <2>2. QED BY <2>1, FrameKept
  <1>4. ASSUME NEW d \in 1 .. n PROVE Reverts(pushed[d + 1].saved, pushed[d])
    <2>1. CASE d = n
      BY <1>1, <1>2, <2>1, EmptySeq DEF StackOK
    <2>2. CASE d # n
      <3>1. d \in 1 .. n - 1 /\ d + 1 \in 1 .. n
        BY <1>1, <2>2
      <3>2. QED BY <1>2, <3>1 DEF StackOK
    <2>3. QED BY <2>1, <2>2
  <1>5. Reverts(new, pushed[n + 1])
    BY <1>2
  <1>6. QED BY <1>1, <1>2, <1>3, <1>4, <1>5 DEF StackOK, pushed

\* New journal entries are the innermost frame's.
LEMMA EnteredWorks ==
  ASSUME NEW t, NEW u, SameTerms(t, u), NEW accs, NEW new, StackOK(t, accs, frames),
         NEW A \in SUBSET Accounts,
         \A a \in Accounts \ A : Same(new[a], accs[a])
  PROVE  StackOK(u, new, Entered(A))
  <1>1. frames \in Seq(Frame)
    BY DEF StackOK
  <1>2. CASE Depth = 0
    <2>1. frames = <<>> /\ Entered(A) = frames
      BY <1>1, <1>2, EmptySeq DEF Depth, Entered
    <2>2. QED BY <2>1 DEF StackOK
  <1>3. CASE Depth # 0
    <2>1. frames # <<>> /\ Entered(A) = Grown(frames, A)
      BY <1>3 DEF Depth, Entered, Grown
    <2>2. Reverts(accs, frames[Len(frames)])
      BY <2>1 DEF StackOK
    <2>3. \A a \in Accounts \ (frames[Len(frames)].entries \cup A) :
             Same(new[a], frames[Len(frames)].saved[a])
      BY <2>2 DEF Reverts, Same
    <2>4. QED BY <2>1, <2>3, TopGrows
  <1>4. QED BY <1>2, <1>3

\* The innermost frame ends, whichever way, and its caller could revert what is left.
LEMMA PoppedWorks ==
  ASSUME NEW t, NEW u, SameTerms(t, u), NEW accs, NEW new, StackOK(t, accs, frames),
         Depth > 0, NEW A \in SUBSET Accounts,
         \A a \in Accounts \ A : Same(new[a], frames[Depth].saved[a])
  PROVE  StackOK(u, new, Popped(A)) /\ (Depth = 1 => Popped(A) = <<>>)
  <1> DEFINE outer == SubSeq(frames, 1, Depth - 1)
             n == Len(frames)
  <1>1. frames \in Seq(Frame) /\ n \in Nat \ {0} /\ Depth = n
    BY LenProperties DEF StackOK, Depth
  <1>2. /\ outer \in Seq(Frame) /\ Len(outer) = n - 1
        /\ \A d \in 1 .. n - 1 : outer[d] = frames[d]
    BY <1>1, SubSeqProperties
  <1> HIDE DEF outer
  <1>3. CASE Depth = 1
    <2>1. outer = <<>>
      BY <1>1, <1>2, <1>3, EmptySeq
    <2>2. Popped(A) = outer
      BY <1>3 DEF Popped, outer
    <2>3. QED BY <2>1, <2>2 DEF StackOK
  <1>4. CASE Depth # 1
    <2>1. Popped(A) = Grown(outer, A)
      BY <1>1, <1>2, <1>4 DEF Popped, outer, Grown
    <2>2. n - 1 \in 1 .. n - 1 /\ (n - 1) + 1 = n
      BY <1>1, <1>4
    <2>3. outer # <<>> /\ outer[Len(outer)] = frames[n - 1]
      BY <1>2, <2>2, EmptySeq
    <2>4. Reverts(frames[n].saved, outer[Len(outer)])
      BY <2>2, <2>3 DEF StackOK
    <2>5. StackOK(t, frames[n].saved, outer)
      <3>1. \A d \in 1 .. n - 1 : FrameOK(t, outer[d])
        BY <1>1, <1>2 DEF StackOK
      <3>2. ASSUME NEW d \in 1 .. (n - 1) - 1 PROVE Reverts(outer[d + 1].saved, outer[d])
        <4>1. d \in 1 .. n - 1 /\ d + 1 \in 1 .. n - 1
          BY <1>1
        <4>2. QED BY <1>2, <4>1 DEF StackOK
      <3>3. QED BY <1>2, <2>4, <3>1, <3>2 DEF StackOK
    <2>6. \A a \in Accounts \ (outer[Len(outer)].entries \cup A) :
             Same(new[a], outer[Len(outer)].saved[a])
      BY <1>1, <2>4 DEF Reverts, Same
    <2>7. QED BY <1>4, <2>1, <2>3, <2>5, <2>6, TopGrows
  <1>5. QED BY <1>3, <1>4

-----------------------------------------------------------------------------
(***************************************************************************)
(* The operations of the journal.                                          *)
(***************************************************************************)
\* Value moves from one account to another, or to itself.
LEMMA MovedWorks ==
  ASSUME NEW accs, AccountsOK(accs), NEW from \in Accounts, NEW to \in Accounts,
         NEW amount \in Nat, amount <= accs[from].balance
  PROVE  LET new == Moved(accs, from, to, amount) IN
         /\ AccountsOK(new)
         /\ \A a \in Accounts \ {from, to} : new[a] = accs[a]
         /\ from = to => new[to] = accs[to]
         /\ from # to =>
              /\ new[from] = [accs[from] EXCEPT !.balance = accs[from].balance - amount]
              /\ new[to] = [accs[to] EXCEPT !.balance = accs[to].balance + amount]
         /\ amount = 0 => new[from] = accs[from]
  <1> DEFINE x == [accs[from] EXCEPT !.balance = accs[from].balance - amount]
             m == [accs EXCEPT ![from] = x]
             y == [m[to] EXCEPT !.balance = m[to].balance + amount]
             new == Moved(accs, from, to, amount)
  <1>1. /\ DOMAIN accs = Accounts /\ accs \in [Accounts -> Account]
        /\ \A a \in Accounts : AccountOK(accs[a])
    BY DEF AccountsOK
  <1>2. accs[from] \in Account /\ accs[to] \in Account
        /\ accs[from].balance \in Nat /\ accs[to].balance \in Nat
    BY <1>1 DEF Account
  <1>3. /\ AccountOK(x) /\ x.balance = accs[from].balance - amount
        /\ amount = 0 => x = accs[from]
    BY <1>1, <1>2 DEF AccountOK, Account
  <1>4. /\ m \in [Accounts -> Account] /\ m[from] = x
        /\ \A a \in Accounts \ {from} : m[a] = accs[a]
    BY <1>1, <1>3 DEF AccountOK
  <1>5. AccountOK(y)
    <2>1. AccountOK(m[to]) /\ m[to].balance \in Nat
      BY <1>1, <1>3, <1>4 DEF AccountOK, Account
    <2>2. QED BY <2>1 DEF AccountOK, Account
  <1>6. new = [m EXCEPT ![to] = y]
    BY <1>1, <1>4 DEF Moved
  <1>7. /\ from = to => y = accs[to]
        /\ from # to => y = [accs[to] EXCEPT !.balance = accs[to].balance + amount]
    BY <1>2, <1>3, <1>4 DEF Account
  <1> HIDE DEF x, m, y, new
  <1>8. /\ new \in [Accounts -> Account] /\ DOMAIN new = Accounts
        /\ new[to] = y
        /\ \A a \in Accounts \ {to} : new[a] = m[a]
    BY <1>4, <1>5, <1>6 DEF AccountOK
  <1>9. AccountsOK(new)
    BY <1>1, <1>3, <1>4, <1>5, <1>8 DEF AccountsOK
  <1>10. amount = 0 => new[from] = accs[from]
    BY <1>3, <1>4, <1>7, <1>8
  <1>11. QED BY <1>3, <1>4, <1>7, <1>8, <1>9, <1>10 DEF x, new

\* Value that moves changes no threshold, and who receives it is not below its
\* reserve unless it was before.
LEMMA OnlyValueMoved ==
  ASSUME NEW t \in Tracker, NEW x, AccountOK(x), NEW y, AccountOK(y), NEW a \in Accounts,
         x.original = y.original, x.code = y.code, x.destroyed = y.destroyed
  PROVE  /\ Due(t, x, a) = Due(t, y, a)
         /\ y.balance <= x.balance => (InBelow(t, x, a) => InBelow(t, y, a))
  <1>0. /\ [x EXCEPT !.known = TRUE] = x /\ [y EXCEPT !.known = TRUE] = y
        /\ x.balance \in Nat /\ y.balance \in Nat /\ x.original \in Nat
    BY DEF AccountOK, Account
  <1>1. t.gasFees \in Nat /\ MaxReserve \in Nat
    BY ReserveAssumption DEF Tracker
  <1>2. /\ IsSubject(x, a) = IsSubject(y, a)
        /\ Exempt(x) = Exempt(y)
        /\ PretxReserve(x) = PretxReserve(y) /\ PretxReserve(x) \in Nat
    <2>1. IsSubject(x, a) = IsSubject(y, a)
      BY DEF IsSubject, AccountOK, Account
    <2>2. /\ x.destroyed \in BOOLEAN /\ x.created \in BOOLEAN /\ y.created \in BOOLEAN
          /\ x.destroyed => x.created /\ y.created
      BY DEF AccountOK, Account
    <2>3. Exempt(x) = Exempt(y)
      BY <2>2 DEF Exempt
    <2>4. PretxReserve(x) = PretxReserve(y) /\ PretxReserve(x) \in Nat
      BY <1>0, <1>1 DEF PretxReserve
    <2>5. QED BY <2>1, <2>3, <2>4
  <1>3. Due(t, x, a) = Due(t, y, a)
    BY <1>0, <1>1, <1>2 DEF Due, ViolationThreshold
  <1>4. ASSUME y.balance <= x.balance, InBelow(t, x, a) PROVE InBelow(t, y, a)
    <2> DEFINE fees == IF a = t.sender THEN t.gasFees ELSE 0
    <2>1. fees \in Nat
      BY <1>1
    <2>2. /\ IsSubject(x, a) /\ ~ Exempt(x)
          /\ ~ (a = t.sender /\ t.canDip)
          /\ fees > PretxReserve(x) \/ x.balance + fees < PretxReserve(x)
      BY <1>0, <1>4 DEF InBelow
    <2>3. /\ IsSubject(y, a) /\ ~ Exempt(y)
      BY <1>2, <2>2
    <2> HIDE DEF fees
    <2>4. fees > PretxReserve(y) \/ y.balance + fees < PretxReserve(y)
      BY <1>0, <1>2, <1>4, <2>1, <2>2
    <2>5. QED BY <1>0, <2>2, <2>3, <2>4 DEF InBelow, fees
  <1>5. QED BY <1>3, <1>4

\* The frames, the accounts and the tracker while a transaction runs.
Running ==
  /\ AccountsOK(account)
  /\ StackOK(tracker, account, frames)
  /\ TrackingOK

\* Whoever a frame runs as is an account.
LEMMA FramesRunAsAccounts ==
  ASSUME Running, NEW d \in 0 .. Depth
  PROVE  RunsAs(d) \in Accounts /\ (d # 0 => frames[d] \in Frame)
  <1>1. tracker.sender \in Accounts
    BY ReserveAssumption DEF Running, TrackingOK
  <1>2. frames \in Seq(Frame)
    BY DEF Running, StackOK
  <1>3. d # 0 => frames[d] \in Frame
    BY <1>2, ElementOfSeq, LenProperties DEF Depth
  <1>4. QED BY <1>1, <1>3 DEF RunsAs, Frame

\* An account is looked up.
LEMMA LoadedWorks ==
  ASSUME NEW accs, AccountsOK(accs), NEW to \in Accounts
  PROVE  LET once == [accs EXCEPT ![to].warm = TRUE]
             full == [accs EXCEPT ![to].warm = TRUE, ![to].known = TRUE]
         IN /\ AccountsOK(once) /\ AccountsOK(full)
            /\ \A a \in Accounts : Same(once[a], accs[a]) /\ Same(full[a], accs[a])
  <1> DEFINE x == [accs[to] EXCEPT !.warm = TRUE]
             once == [accs EXCEPT ![to].warm = TRUE]
             full == [accs EXCEPT ![to].warm = TRUE, ![to].known = TRUE]
  <1>1. /\ DOMAIN accs = Accounts /\ accs \in [Accounts -> Account]
        /\ \A a \in Accounts : AccountOK(accs[a])
    BY DEF AccountsOK
  <1>2. /\ AccountOK(x) /\ Same(x, accs[to])
        /\ [x EXCEPT !.known = TRUE] = x
    BY <1>1 DEF AccountOK, Account, Same
  <1>3. once = [accs EXCEPT ![to] = x]
    BY <1>1
  <1>4. full = [once EXCEPT ![to] = [once[to] EXCEPT !.known = TRUE]]
    BY <1>1
  <1> HIDE DEF x, once, full
  <1>5. AccountsOK(once) /\ \A a \in Accounts : Same(once[a], accs[a])
    BY <1>1, <1>2, <1>3 DEF AccountsOK, AccountOK, Same
  <1>6. full = once
    BY <1>1, <1>2, <1>3, <1>4
  <1>7. QED BY <1>5, <1>6 DEF once, full

\* A call or a creation: the frame it opens could be reverted at once.
LEMMA EnterKeeps ==
  ASSUME Running, NEW to \in Accounts, NEW amount \in Nat, NEW creating \in BOOLEAN,
         Enter(to, amount, creating)
  PROVE  Running'
  <1> DEFINE loaded == [account EXCEPT ![to].warm = TRUE, ![to].known = TRUE]
             moved == Moved(loaded, Self, to, amount)
             begun == [moved EXCEPT ![to].created = @ \/ creating]
             entries == IF amount = 0 /\ ~ creating THEN {to} ELSE {Self, to}
             f == [self |-> to, creating |-> creating, saved |-> loaded,
                   entries |-> entries, failed |-> tracker.failed]
  <1>0. /\ account' = begun
        /\ tracker' = OnTransfer(tracker, begun, Self, to)
        /\ frames' = Append(Entered(IF account[to].warm THEN {} ELSE {to}), f)
        /\ amount <= account[Self].balance
    BY DEF Enter
  <1>1. /\ AccountsOK(account) /\ StackOK(tracker, account, frames)
        /\ tracker \in Tracker /\ tracker.sender \in Senders
        /\ Exact(tracker, account)
    BY DEF Running, TrackingOK
  <1>2. Self \in Accounts
    <2>1. Depth \in 0 .. Depth
      BY <1>1, LenProperties DEF StackOK, Depth
    <2>2. QED BY <2>1, FramesRunAsAccounts DEF Self
  <1>3. AccountsOK(loaded) /\ \A a \in Accounts : Same(loaded[a], account[a])
    BY <1>1, LoadedWorks
  <1> HIDE DEF loaded
  <1>4. /\ AccountsOK(moved)
        /\ \A a \in Accounts \ {Self, to} : moved[a] = loaded[a]
        /\ Self = to => moved[to] = loaded[to]
        /\ Self # to =>
              /\ moved[Self] = [loaded[Self] EXCEPT !.balance = loaded[Self].balance - amount]
              /\ moved[to] = [loaded[to] EXCEPT !.balance = loaded[to].balance + amount]
        /\ amount = 0 => moved[Self] = loaded[Self]
    BY <1>0, <1>2, <1>3, MovedWorks DEF Same
  <1> HIDE DEF moved
  <1>5. /\ AccountsOK(begun)
        /\ \A a \in Accounts \ {to} : begun[a] = moved[a]
        /\ /\ begun[to].balance = moved[to].balance
           /\ begun[to].original = moved[to].original
           /\ begun[to].code = moved[to].code
           /\ begun[to].destroyed = moved[to].destroyed
        /\ ~ creating => Same(begun[to], moved[to])
    <2> DEFINE x == [moved[to] EXCEPT !.created = moved[to].created \/ creating]
    <2>1. /\ DOMAIN moved = Accounts /\ moved \in [Accounts -> Account]
          /\ \A a \in Accounts : AccountOK(moved[a])
      BY <1>4 DEF AccountsOK
    <2>2. /\ AccountOK(x)
          /\ x.balance = moved[to].balance /\ x.original = moved[to].original
          /\ x.code = moved[to].code /\ x.destroyed = moved[to].destroyed
          /\ ~ creating => Same(x, moved[to])
      BY <2>1 DEF AccountOK, Account, Same
    <2>3. begun = [moved EXCEPT ![to] = x]
      BY <2>1
    <2> HIDE DEF x, begun
    <2>4. QED BY <2>1, <2>2, <2>3 DEF AccountsOK, AccountOK
  <1> HIDE DEF begun
  <1>6. \A a \in Accounts \ {Self, to} : Same(begun[a], account[a])
    BY <1>3, <1>4, <1>5 DEF Same
  <1>7. /\ Due(tracker, begun[Self], Self) = Due(tracker, account[Self], Self)
        /\ Due(tracker, begun[to], to) = Due(tracker, account[to], to)
        /\ to # Self => (InBelow(tracker, begun[to], to) => InBelow(tracker, account[to], to))
    <2>1. /\ AccountOK(account[Self]) /\ AccountOK(account[to])
          /\ AccountOK(begun[Self]) /\ AccountOK(begun[to])
          /\ AccountOK(loaded[Self]) /\ AccountOK(loaded[to])
      BY <1>1, <1>2, <1>3, <1>5 DEF AccountsOK
    <2>2. ASSUME NEW a \in {Self, to}
          PROVE  /\ begun[a].original = account[a].original
                 /\ begun[a].code = account[a].code
                 /\ begun[a].destroyed = account[a].destroyed
      <3>1. /\ moved[a].original = loaded[a].original
            /\ moved[a].code = loaded[a].code
            /\ moved[a].destroyed = loaded[a].destroyed
        BY <1>4, <2>1 DEF AccountOK, Account
      <3>2. QED BY <1>2, <1>3, <1>5, <3>1 DEF Same
    <2>3. to # Self => account[to].balance <= begun[to].balance
      BY <1>3, <1>4, <1>5, <2>1 DEF Same, AccountOK, Account
    <2>4. QED BY <1>1, <1>2, <2>1, <2>2, <2>3, OnlyValueMoved
  <1>8. tracker' \in Tracker /\ SameTerms(tracker, tracker') /\ Exact(tracker', begun)
    BY <1>0, <1>1, <1>2, <1>5, <1>6, <1>7, TransferWorks
  <1>9. FrameOK(tracker, f)
    <2>1. /\ f.self = to /\ f.creating = creating /\ f.saved = loaded
          /\ f.entries = entries /\ f.failed = tracker.failed
      OBVIOUS
    <2>2. f \in Frame
      <3>1. loaded \in [Accounts -> Account] /\ tracker.failed \in SUBSET Accounts
        BY <1>1, <1>3 DEF AccountsOK, Tracker
      <3>2. QED BY <1>2, <3>1 DEF Frame
    <2>3. ASSUME NEW a \in Accounts
          PROVE  a \in tracker.failed <=> InBelow(tracker, loaded[a], a)
      <3>1. InBelow(tracker, loaded[a], a) = InBelow(tracker, account[a], a)
        BY <1>1, <1>3, SameVerdict DEF SameTerms, AccountsOK
      <3>2. QED BY <1>1, <3>1 DEF Exact, ExactAt
    <2>4. creating => to \in entries
      OBVIOUS
    <2> HIDE DEF f, entries
    <2>5. QED BY <1>3, <2>1, <2>2, <2>3, <2>4 DEF FrameOK
  <1>10. Reverts(begun, f)
    <2>1. \A a \in Accounts \ entries : Same(begun[a], loaded[a])
      <3>1. CASE amount = 0 /\ ~ creating
        BY <1>2, <1>4, <1>5, <3>1 DEF Same
      <3>2. CASE ~ (amount = 0 /\ ~ creating)
        BY <1>4, <1>5, <3>2 DEF Same
      <3>3. QED BY <3>1, <3>2
    <2>2. f.entries = entries /\ f.saved = loaded
      OBVIOUS
    <2> HIDE DEF f, entries
    <2>3. QED BY <2>1, <2>2 DEF Reverts
  <1>11. StackOK(tracker', begun, frames')
    <2> DEFINE base == Entered(IF account[to].warm THEN {} ELSE {to})
    <2>1. StackOK(tracker, loaded, base)
      BY <1>1, <1>3, EnteredWorks DEF SameTerms
    <2>2. f.saved = loaded
      OBVIOUS
    <2> HIDE DEF base, f
    <2>3. StackOK(tracker', begun, Append(base, f))
      BY <1>8, <1>9, <1>10, <2>1, <2>2, Pushed
    <2>4. QED BY <1>0, <2>3 DEF base, f
  <1>12. tracker'.sender \in Senders
    BY <1>1, <1>8 DEF SameTerms
  <1>13. QED BY <1>0, <1>5, <1>8, <1>11, <1>12 DEF Running, TrackingOK

\* An account is read without its code: nothing that counts changes.
LEMMA LoadKeeps ==
  ASSUME Running, NEW b \in Accounts, LoadAccount(b)
  PROVE  Running'
  <1>1. /\ AccountsOK(account) /\ StackOK(tracker, account, frames)
        /\ tracker \in Tracker /\ tracker.sender \in Senders
        /\ Exact(tracker, account)
    BY DEF Running, TrackingOK
  <1>2. /\ AccountsOK(account') /\ \A a \in Accounts : Same(account'[a], account[a])
        /\ tracker' = tracker /\ frames' = Entered({b})
    BY <1>1, LoadedWorks DEF LoadAccount
  <1>3. StackOK(tracker, account', frames')
    BY <1>1, <1>2, EnteredWorks DEF SameTerms
  <1>4. ASSUME NEW a \in Accounts
        PROVE  ExactAt(tracker, account'[a], a) /\ CachedAt(tracker, account'[a], a)
    BY <1>1, <1>2, StaysExact DEF Exact, SameTerms, AccountsOK
  <1>5. QED BY <1>1, <1>2, <1>3, <1>4 DEF Running, TrackingOK, Exact

\* The staking precompile pays the frame that called it.
LEMMA PayOutKeeps ==
  ASSUME Running, NEW amount \in Nat, PayOut(amount)
  PROVE  Running'
  <1> DEFINE to == RunsAs(Depth - 1)
             moved == Moved(account, Self, to, amount)
  <1>1. /\ AccountsOK(account) /\ StackOK(tracker, account, frames)
        /\ tracker \in Tracker /\ tracker.sender \in Senders
        /\ Exact(tracker, account)
    BY DEF Running, TrackingOK
  <1>2. Self \in Accounts /\ to \in Accounts
    <2>1. Depth \in Nat /\ Depth > 0
      BY <1>1, LenProperties DEF StackOK, Depth, PayOut, CodeRuns
    <2>2. Depth \in 0 .. Depth /\ Depth - 1 \in 0 .. Depth
      BY <2>1
    <2>3. QED BY <2>2, FramesRunAsAccounts DEF Self
  <1>3. /\ account' = moved
        /\ tracker' = OnTransfer(tracker, moved, Self, to)
        /\ frames' = Entered({Self, to})
        /\ amount <= account[Self].balance
    BY DEF PayOut
  <1> HIDE DEF to
  <1>4. /\ AccountsOK(moved)
        /\ \A a \in Accounts \ {Self, to} : moved[a] = account[a]
        /\ Self = to => moved[to] = account[to]
        /\ Self # to =>
              /\ moved[Self] = [account[Self] EXCEPT !.balance = account[Self].balance - amount]
              /\ moved[to] = [account[to] EXCEPT !.balance = account[to].balance + amount]
    BY <1>1, <1>2, <1>3, MovedWorks
  <1> HIDE DEF moved
  <1>5. \A a \in Accounts \ {Self, to} : Same(moved[a], account[a])
    BY <1>4 DEF Same
  <1>6. /\ Due(tracker, moved[Self], Self) = Due(tracker, account[Self], Self)
        /\ Due(tracker, moved[to], to) = Due(tracker, account[to], to)
        /\ to # Self => (InBelow(tracker, moved[to], to) => InBelow(tracker, account[to], to))
    <2>1. /\ AccountOK(account[Self]) /\ AccountOK(account[to])
          /\ AccountOK(moved[Self]) /\ AccountOK(moved[to])
      BY <1>1, <1>2, <1>4 DEF AccountsOK
    <2>2. ASSUME NEW a \in {Self, to}
          PROVE  /\ moved[a].original = account[a].original
                 /\ moved[a].code = account[a].code
                 /\ moved[a].destroyed = account[a].destroyed
      BY <1>4, <2>1 DEF AccountOK, Account
    <2>3. to # Self => account[to].balance <= moved[to].balance
      BY <1>4, <2>1 DEF AccountOK, Account
    <2>4. QED BY <1>1, <1>2, <2>1, <2>2, <2>3, OnlyValueMoved
  <1>7. tracker' \in Tracker /\ SameTerms(tracker, tracker') /\ Exact(tracker', moved)
    BY <1>1, <1>2, <1>3, <1>4, <1>5, <1>6, TransferWorks
  <1>8. StackOK(tracker', moved, frames')
    BY <1>1, <1>2, <1>3, <1>5, <1>7, EnteredWorks
  <1>9. tracker'.sender \in Senders
    BY <1>1, <1>7 DEF SameTerms
  <1>10. QED BY <1>3, <1>4, <1>7, <1>8, <1>9 DEF Running, TrackingOK

\* A frame returns; a creation then stores the code it made.
LEMMA ReturnKeeps ==
  ASSUME Running, NEW code \in Codes, Return(code)
  PROVE  Running' /\ (phase' # "running" => frames' = <<>>)
  <1> DEFINE f == frames[Depth]
  <1>1. /\ AccountsOK(account) /\ StackOK(tracker, account, frames)
        /\ tracker \in Tracker /\ tracker.sender \in Senders
        /\ Exact(tracker, account)
    BY DEF Running, TrackingOK
  <1>2. /\ Depth \in Nat /\ Depth > 0 /\ frames # <<>> /\ Depth = Len(frames)
        /\ frames' = Popped(f.entries)
        /\ phase' = IF Depth = 1 THEN "done" ELSE "running"
    BY <1>1, LenProperties, EmptySeq DEF StackOK, Depth, Return, PhaseAfter
  <1>3. FrameOK(tracker, f) /\ Reverts(account, f) /\ f \in Frame
        /\ Self = f.self /\ Self \in Accounts
    BY <1>1, <1>2 DEF StackOK, FrameOK, Self, RunsAs, Frame
  <1> HIDE DEF f
  <1>4. /\ AccountsOK(account')
        /\ tracker' \in Tracker /\ SameTerms(tracker, tracker') /\ Exact(tracker', account')
        /\ \A a \in Accounts \ f.entries : Same(account'[a], account[a])
    <2>1. CASE f.creating
      <3> DEFINE x == [account[Self] EXCEPT !.code = code]
                 new == [account EXCEPT ![Self] = x]
      <3>1. account' = new /\ tracker' = OnSetCode(tracker, new, Self)
        BY <2>1 DEF Return, f
      <3>2. AccountOK(x) /\ DOMAIN account = Accounts /\ account \in [Accounts -> Account]
        BY <1>1, <1>3 DEF AccountsOK, AccountOK, Account
      <3> HIDE DEF x
      <3>3. /\ AccountsOK(new)
            /\ \A a \in Accounts \ {Self} : new[a] = account[a]
        BY <1>1, <1>3, <3>2 DEF AccountsOK, AccountOK
      <3> HIDE DEF new
      <3>4. \A a \in Accounts \ {Self} : Same(new[a], account[a])
        BY <3>3 DEF Same
      <3>5. tracker' \in Tracker /\ SameTerms(tracker, tracker') /\ Exact(tracker', new)
        BY <1>1, <1>3, <3>1, <3>3, <3>4, SetCodeWorks
      <3>6. Self \in f.entries
        BY <1>3, <2>1 DEF FrameOK
      <3>7. QED BY <3>1, <3>3, <3>4, <3>5, <3>6
    <2>2. CASE ~ f.creating
      <3>1. account' = account /\ tracker' = tracker
        BY <2>2 DEF Return, f
      <3>2. QED BY <1>1, <3>1 DEF SameTerms, Same
    <2>3. QED BY <2>1, <2>2
  <1>5. \A a \in Accounts \ f.entries : Same(account'[a], f.saved[a])
    BY <1>3, <1>4 DEF Reverts, Same
  <1>6. StackOK(tracker', account', frames') /\ (Depth = 1 => frames' = <<>>)
    <2>1. f.entries \in SUBSET Accounts
      BY <1>3 DEF Frame
    <2>2. QED BY <1>1, <1>2, <1>4, <1>5, <2>1, PoppedWorks DEF f
  <1>7. tracker'.sender \in Senders
    BY <1>1, <1>4 DEF SameTerms
  <1>8. QED BY <1>2, <1>4, <1>6, <1>7 DEF Running, TrackingOK

\* A contract gives everything away, and is destroyed if it is new.
LEMMA DestroyKeeps ==
  ASSUME Running, NEW to \in Accounts, SelfDestruct(to)
  PROVE  Running' /\ (phase' # "running" => frames' = <<>>)
  <1> DEFINE f == frames[Depth]
             loaded == [account EXCEPT ![to].warm = TRUE]
             moved == Moved(loaded, Self, to, account[Self].balance)
             burnt == [moved EXCEPT ![Self].balance = 0, ![Self].destroyed = TRUE]
             after == IF account[Self].created THEN burnt ELSE moved
             told == OnTransfer(tracker, after, Self, to)
  <1>1. /\ AccountsOK(account) /\ StackOK(tracker, account, frames)
        /\ tracker \in Tracker /\ tracker.sender \in Senders
        /\ Exact(tracker, account)
    BY DEF Running, TrackingOK
  <1>2. /\ account' = after
        /\ tracker' = IF f.creating THEN OnSetCode(told, after, Self) ELSE told
        /\ frames' = Popped(f.entries \cup {Self, to})
        /\ phase' = IF Depth = 1 THEN "done" ELSE "running"
        /\ Depth > 0
    BY DEF SelfDestruct, PhaseAfter, CodeRuns
  <1>3. Depth \in Nat /\ frames # <<>> /\ Depth = Len(frames)
    BY <1>1, <1>2, LenProperties, EmptySeq DEF StackOK, Depth
  <1>4. FrameOK(tracker, f) /\ Reverts(account, f) /\ f \in Frame
        /\ Self = f.self /\ Self \in Accounts
    <2>1. Depth > 0 /\ StackOK(tracker, account, frames)
      BY <1>1, <1>2
    <2>2. FrameOK(tracker, f) /\ Reverts(account, f)
      BY <1>3, <2>1 DEF StackOK
    <2>3. Self = f.self
      BY <1>3, <2>1 DEF Self, RunsAs
    <2>4. QED BY <2>2, <2>3 DEF FrameOK, Frame
  <1> HIDE DEF f
  <1>5. AccountsOK(loaded) /\ \A a \in Accounts : Same(loaded[a], account[a])
    BY <1>1, LoadedWorks
  <1> HIDE DEF loaded
  <1>6. /\ AccountsOK(moved)
        /\ \A a \in Accounts \ {Self, to} : moved[a] = loaded[a]
        /\ Self = to => moved[to] = loaded[to]
        /\ Self # to =>
              /\ moved[Self] = [loaded[Self] EXCEPT
                                  !.balance = loaded[Self].balance - account[Self].balance]
              /\ moved[to] = [loaded[to] EXCEPT
                                  !.balance = loaded[to].balance + account[Self].balance]
    <2>1. account[Self].balance \in Nat /\ account[Self].balance = loaded[Self].balance
      BY <1>1, <1>4, <1>5 DEF AccountsOK, AccountOK, Account, Same
    <2>2. account[Self].balance <= loaded[Self].balance
      BY <2>1
    <2>3. QED BY <1>4, <1>5, <2>1, <2>2, MovedWorks
  <1> HIDE DEF moved
  <1>7. ASSUME NEW a \in {Self, to}
        PROVE  /\ moved[a].original = account[a].original
               /\ moved[a].code = account[a].code
               /\ moved[a].created = account[a].created
               /\ moved[a].destroyed = account[a].destroyed
    <2>1. loaded[Self] \in Account /\ loaded[to] \in Account
      BY <1>4, <1>5 DEF AccountsOK
    <2>2. /\ moved[a].original = loaded[a].original
          /\ moved[a].code = loaded[a].code
          /\ moved[a].created = loaded[a].created
          /\ moved[a].destroyed = loaded[a].destroyed
      BY <1>6, <2>1 DEF Account
    <2>3. QED BY <1>4, <1>5, <2>2 DEF Same
  <1>8. /\ AccountsOK(after)
        /\ \A a \in Accounts \ {Self} : after[a] = moved[a]
        /\ ~ account[Self].created => after[Self] = moved[Self]
        /\ after[Self].original = moved[Self].original
        /\ after[Self].code = moved[Self].code
        /\ after[Self].created = moved[Self].created
        /\ account[Self].created => after[Self].destroyed
    <2>1. CASE account[Self].created
      <3> DEFINE x == [moved[Self] EXCEPT !.balance = 0, !.destroyed = TRUE]
      <3>1. /\ DOMAIN moved = Accounts /\ moved \in [Accounts -> Account]
            /\ \A a \in Accounts : AccountOK(moved[a])
        BY <1>6 DEF AccountsOK
      <3>2. burnt = [moved EXCEPT ![Self] = x]
        BY <1>4, <3>1
      <3>3. /\ AccountOK(x)
            /\ x.original = moved[Self].original /\ x.code = moved[Self].code
            /\ x.created = moved[Self].created /\ x.destroyed
        BY <1>4, <1>7, <2>1, <3>1 DEF AccountOK, Account
      <3>4. after = burnt
        BY <2>1
      <3> HIDE DEF x, burnt, after
      <3>5. QED BY <1>4, <2>1, <3>1, <3>2, <3>3, <3>4 DEF AccountsOK, AccountOK
    <2>2. CASE ~ account[Self].created
      BY <1>6, <2>2
    <2>3. QED BY <2>1, <2>2
  <1> HIDE DEF burnt, after
  <1>9. \A a \in Accounts \ {Self, to} : Same(after[a], account[a])
    BY <1>5, <1>6, <1>8 DEF Same
  <1>10. /\ AccountOK(account[Self]) /\ AccountOK(account[to])
         /\ AccountOK(after[Self]) /\ AccountOK(after[to])
    BY <1>1, <1>4, <1>8 DEF AccountsOK
  <1>11. Exempt(after[Self])
         \/ Due(tracker, after[Self], Self) = Due(tracker, account[Self], Self)
    <2>1. CASE ~ account[Self].created
      <3>1. /\ after[Self].original = account[Self].original
            /\ after[Self].code = account[Self].code
            /\ after[Self].destroyed = account[Self].destroyed
        BY <1>7, <1>8, <2>1
      <3>2. QED BY <1>1, <1>4, <1>10, <3>1, OnlyValueMoved
    <2>2. CASE account[Self].created /\ MonadNine
      BY <1>7, <1>8, <2>2 DEF Exempt
    <2>3. CASE ~ MonadNine
      <3>1. ~ Exempt(after[Self]) /\ ~ Exempt(account[Self])
        BY <2>3 DEF Exempt
      <3>2. /\ after[Self].original = account[Self].original
            /\ after[Self].code = account[Self].code
        BY <1>7, <1>8
      <3>3. /\ [after[Self] EXCEPT !.known = TRUE] = after[Self]
            /\ [account[Self] EXCEPT !.known = TRUE] = account[Self]
            /\ after[Self].known /\ account[Self].known
        BY <1>10 DEF AccountOK, Account
      <3>4. /\ IsSubject(after[Self], Self) = IsSubject(account[Self], Self)
            /\ PretxReserve(after[Self]) = PretxReserve(account[Self])
        BY <3>2, <3>3 DEF IsSubject, PretxReserve
      <3>5. QED BY <3>1, <3>3, <3>4 DEF Due, ViolationThreshold
    <2>4. QED BY <2>1, <2>2, <2>3
  <1>12. to # Self =>
           /\ Due(tracker, after[to], to) = Due(tracker, account[to], to)
           /\ InBelow(tracker, after[to], to) => InBelow(tracker, account[to], to)
    <2>1. ASSUME to # Self
          PROVE  /\ after[to].original = account[to].original
                 /\ after[to].code = account[to].code
                 /\ after[to].destroyed = account[to].destroyed
                 /\ account[to].balance <= after[to].balance
      <3>1. after[to] = moved[to]
        BY <1>8, <2>1
      <3>2. loaded[to] \in Account /\ loaded[to].balance = account[to].balance
        BY <1>5 DEF AccountsOK, Same
      <3>3. moved[to].balance = account[to].balance + account[Self].balance
        BY <1>6, <2>1, <3>2 DEF Account
      <3>4. account[to].balance \in Nat /\ account[Self].balance \in Nat
        BY <1>10 DEF AccountOK, Account
      <3>5. QED BY <1>7, <3>1, <3>3, <3>4
    <2>2. QED BY <1>1, <1>10, <2>1, OnlyValueMoved
  <1>13. told \in Tracker /\ SameTerms(tracker, told) /\ Exact(told, after)
    BY <1>1, <1>4, <1>8, <1>9, <1>11, <1>12, TransferWorks
  <1> HIDE DEF told
  <1>14. tracker' \in Tracker /\ SameTerms(tracker, tracker') /\ Exact(tracker', after)
    <2>1. OnSetCode(told, after, Self) \in Tracker
          /\ SameTerms(told, OnSetCode(told, after, Self))
          /\ Exact(OnSetCode(told, after, Self), after)
      BY <1>4, <1>8, <1>13, SetCodeWorks DEF Same
    <2>2. QED BY <1>2, <1>13, <2>1 DEF SameTerms
  <1>15. StackOK(tracker', after, frames') /\ (Depth = 1 => frames' = <<>>)
    <2>1. f.entries \cup {Self, to} \in SUBSET Accounts
      BY <1>4 DEF Frame
    <2>2. \A a \in Accounts \ (f.entries \cup {Self, to}) : Same(after[a], f.saved[a])
      BY <1>4, <1>9 DEF Reverts, Same
    <2>3. QED BY <1>1, <1>2, <1>14, <2>1, <2>2, PoppedWorks DEF f
  <1>16. tracker'.sender \in Senders
    BY <1>1, <1>14 DEF SameTerms
  <1>17. QED BY <1>2, <1>8, <1>14, <1>15, <1>16 DEF Running, TrackingOK

\* A frame is reverted: the tracker looks again at every account that differs.
LEMMA RevertKeeps ==
  ASSUME Running, Revert
  PROVE  /\ Running' /\ (phase' # "running" => frames' = <<>>)
         /\ tracker'.failed = frames[Depth].failed
  <1> DEFINE f == frames[Depth]
             restored == [a \in Accounts |-> [f.saved[a] EXCEPT !.known = account[a].known]]
  <1>1. /\ AccountsOK(account) /\ StackOK(tracker, account, frames)
        /\ tracker \in Tracker /\ tracker.sender \in Senders
        /\ Exact(tracker, account)
    BY DEF Running, TrackingOK
  <1>2. /\ account' = restored
        /\ tracker' = OnCheckpointRevert(tracker, restored, f.entries)
        /\ frames' = Popped({})
        /\ phase' = IF Depth = 1 THEN "done" ELSE "running"
        /\ Depth > 0
    BY DEF Revert, PhaseAfter, CodeRuns
  <1>3. Depth \in Nat /\ frames # <<>> /\ Depth = Len(frames)
    BY <1>1, <1>2, LenProperties, EmptySeq DEF StackOK, Depth
  <1>4. FrameOK(tracker, f) /\ Reverts(account, f) /\ f \in Frame
    BY <1>1, <1>2, <1>3 DEF StackOK, FrameOK
  <1> HIDE DEF f
  <1>5. AccountsOK(restored) /\ \A a \in Accounts : Same(restored[a], f.saved[a])
    <2>1. ASSUME NEW a \in Accounts
          PROVE  AccountOK(restored[a]) /\ Same(restored[a], f.saved[a])
      <3>1. AccountOK(f.saved[a]) /\ AccountOK(account[a])
        BY <1>1, <1>4 DEF FrameOK, AccountsOK
      <3>2. QED BY <3>1 DEF AccountOK, Account, Same
    <2>2. DOMAIN restored = Accounts
      OBVIOUS
    <2> HIDE DEF restored
    <2>3. restored \in [Accounts -> Account]
      <3>1. restored = [a \in Accounts |-> restored[a]]
        BY DEF restored
      <3>2. QED BY <2>1, <3>1 DEF AccountOK
    <2>4. QED BY <2>1, <2>2, <2>3 DEF AccountsOK
  <1> HIDE DEF restored
  <1>6. \A a \in Accounts \ f.entries : Same(restored[a], account[a])
    BY <1>4, <1>5 DEF Reverts, Same
  <1>7. f.entries \in SUBSET Accounts /\ f.failed \in SUBSET Accounts
    BY <1>4 DEF Frame
  <1>8. tracker' \in Tracker /\ SameTerms(tracker, tracker') /\ Exact(tracker', restored)
    BY <1>1, <1>2, <1>5, <1>6, <1>7, LookedAtAnew DEF OnCheckpointRevert
  <1>9. StackOK(tracker', restored, frames') /\ (Depth = 1 => frames' = <<>>)
    BY <1>1, <1>2, <1>5, <1>8, PoppedWorks DEF f
  <1>10. ASSUME NEW a \in Accounts PROVE a \in tracker'.failed <=> a \in f.failed
    <2>1. InBelow(tracker', restored[a], a) = InBelow(tracker, f.saved[a], a)
      BY <1>4, <1>5, <1>8, SameVerdict DEF FrameOK, AccountsOK
    <2>2. QED BY <1>4, <1>8, <2>1 DEF FrameOK, Exact, ExactAt
  <1>11. tracker'.failed = f.failed
    BY <1>7, <1>8, <1>10 DEF Tracker
  <1>12. tracker'.sender \in Senders
    BY <1>1, <1>8 DEF SameTerms
  <1>13. QED BY <1>2, <1>5, <1>8, <1>9, <1>11, <1>12 DEF Running, TrackingOK, f

\* The tracker a transaction begins with, and what pre_execution does to an account.
Begun(s, g, d) == [NoTracking EXCEPT !.sender = s, !.gasFees = g, !.canDip = d]

Prepared(x, b, c, w) == [x EXCEPT !.balance = b, !.code = c, !.known = TRUE, !.warm = w]

\* It follows nothing yet.
LEMMA TrackerBegun ==
  ASSUME NEW s \in Senders, NEW g \in Nat, NEW d \in BOOLEAN
  PROVE  LET t == Begun(s, g, d) IN
         /\ t \in Tracker /\ t.sender = s /\ t.gasFees = g
         /\ t.thresholds = [a \in Accounts |-> Unknown] /\ t.failed = {}
  <1> DEFINE none == [a \in Accounts |-> Unknown]
  <1>1. none \in [Accounts -> Nat \cup {Unknown, Unpayable}]
    OBVIOUS
  <1>2. NoTracking = [sender |-> Unknown, gasFees |-> 0, canDip |-> FALSE,
                      thresholds |-> none, failed |-> {}]
    BY DEF NoTracking
  <1> HIDE DEF none
  <1>3. LET t == [NoTracking EXCEPT !.sender = s, !.gasFees = g, !.canDip = d] IN
         /\ t \in Tracker /\ t.sender = s /\ t.gasFees = g
         /\ t.thresholds = none /\ t.failed = {}
    BY <1>1, <1>2 DEF Tracker
  <1>4. QED BY <1>3 DEF none, Begun

\* The account stays one, with the original balance it had.
LEMMA AccountPrepared ==
  ASSUME NEW x, AccountOK(x), NEW b \in Nat, NEW c \in Codes,
         NEW w \in BOOLEAN
  PROVE  LET y == Prepared(x, b, c, w) IN
         AccountOK(y) /\ y.original = x.original /\ y.balance = b
BY DEF AccountOK, Account, Prepared

\* Nobody but the sender owes anything when tracking starts, and the sender is looked at.
LEMMA StartKeeps ==
  ASSUME ReserveInv, NEW history \in Histories, NEW place \in DOMAIN history.current,
         NEW fee \in Fees, NEW code \in {"none", "eip7702"},
         StartTx(history, place, fee, code)
  PROVE  ReserveInv'
  <1> DEFINE from == history.current[place].sender
             authorities == history.current[place].authorities
             started == [a \in Accounts |->
                           [account[a] EXCEPT
                              !.balance = IF a = from THEN @ - fee ELSE @,
                              !.code = IF a \in authorities THEN code ELSE @,
                              !.known = @ \/ a \in authorities \cup {from},
                              !.warm = a \in authorities \cup {from, STAKING_ADDRESS}]]
             dip == SenderCanDip(Context(history, place), from, started[from].code = "eip7702")
             t == Begun(from, fee, dip)
  <1>1. /\ phase = "idle" /\ phase' = "running"
        /\ fee <= account[from].balance
        /\ account' = started /\ tracker' = Update(t, started, {from})
        /\ frames' = frames
    BY DEF StartTx, Begun
  <1>2. /\ AccountsOK(account) /\ Settled /\ frames = <<>>
    BY <1>1 DEF ReserveInv
  <1>3. from \in Senders /\ from \in Accounts /\ fee \in Nat
    <2>1. history.current \in Seq(Transactions)
      BY ChainAssumption
    <2>2. history.current[place] \in Transactions
      BY <2>1, ElementOfSeq, LenProperties
    <2>3. QED BY <2>2, ReserveAssumption DEF Transactions
  <1>4. t \in Tracker /\ t.sender = from /\ t.gasFees = fee
        /\ t.thresholds = [a \in Accounts |-> Unknown] /\ t.failed = {}
    <2>1. dip \in BOOLEAN
      BY DEF SenderCanDip
    <2> HIDE DEF dip, started, from
    <2>2. QED BY <1>3, <2>1, TrackerBegun
  <1> HIDE DEF t, dip
  <1>5. ASSUME NEW a \in Accounts
        PROVE  /\ AccountOK(started[a])
               /\ started[a].original = account[a].original
               /\ a # from => started[a].balance = account[a].balance
    <2>1. AccountOK(account[a])
      BY <1>2 DEF AccountsOK
    <2> DEFINE b == IF a = from THEN account[a].balance - fee ELSE account[a].balance
               c == IF a \in authorities THEN code ELSE account[a].code
               k == account[a].known \/ a \in authorities \cup {from}
               w == a \in authorities \cup {from, STAKING_ADDRESS}
    <2>2. started[a] = Prepared(account[a], b, c, w)
      <3>1. k = TRUE
        BY <2>1 DEF AccountOK, Account
      <3>2. started[a] = [account[a] EXCEPT !.balance = b, !.code = c, !.known = k, !.warm = w]
        OBVIOUS
      <3> HIDE DEF b, c, k, w, started
      <3>3. QED BY <3>1, <3>2 DEF Prepared
    <2>3. b \in Nat
      <3>1. account[a].balance \in Nat
        BY <2>1 DEF AccountOK, Account
      <3>2. CASE a = from
        <4>1. b = account[from].balance - fee /\ account[from].balance \in Nat
          BY <3>1, <3>2
        <4> HIDE DEF b, from, started
        <4>2. QED BY <1>1, <1>3, <4>1
      <3>3. CASE a # from
        BY <3>1, <3>3
      <3>4. QED BY <3>2, <3>3
    <2>4. c \in Codes
      BY <2>1 DEF AccountOK, Account, Codes
    <2>5. w \in BOOLEAN
      OBVIOUS
    <2>6. a # from => b = account[a].balance
      OBVIOUS
    <2> HIDE DEF b, c, k, w, from, started
    <2>7. /\ AccountOK(Prepared(account[a], b, c, w))
          /\ Prepared(account[a], b, c, w).original = account[a].original
          /\ Prepared(account[a], b, c, w).balance = b
      BY <2>1, <2>3, <2>4, <2>5, AccountPrepared
    <2>8. QED BY <2>2, <2>6, <2>7
  <1>6. AccountsOK(started)
    <2>1. DOMAIN started = Accounts /\ started = [a \in Accounts |-> started[a]]
      OBVIOUS
    <2> HIDE DEF started, from
    <2>2. QED BY <1>5, <2>1 DEF AccountsOK, AccountOK
  <1> HIDE DEF started, from
  <1>7. /\ tracker' \in Tracker /\ SameTerms(t, tracker')
        /\ ExactAt(tracker', started[from], from) /\ CachedAt(tracker', started[from], from)
        /\ \A a \in Accounts \ {from} :
             tracker'.thresholds[a] = Unknown /\ a \notin tracker'.failed
    <2>1. CachedAt(t, started[from], from)
      BY <1>3, <1>4 DEF CachedAt
    <2>2. LET u == Update(t, started, {from}) IN
            /\ u \in Tracker /\ SameTerms(t, u)
            /\ \A a \in {from} : ExactAt(u, started[a], a) /\ CachedAt(u, started[a], a)
            /\ \A a \in Accounts \ {from} :
                 u.thresholds[a] = t.thresholds[a] /\ (a \in u.failed <=> a \in t.failed)
      BY <1>3, <1>4, <1>6, <2>1, UpdateWorks
    <2>3. QED BY <1>1, <1>4, <2>2
  <1>8. ASSUME NEW a \in Accounts \ {from}
        PROVE  ExactAt(tracker', started[a], a) /\ CachedAt(tracker', started[a], a)
    <2>1. /\ a # tracker'.sender
          /\ started[a].balance = started[a].original /\ started[a].original \in Nat
      BY <1>2, <1>4, <1>5, <1>7 DEF SameTerms, Settled, AccountOK, Account
    <2>2. PretxReserve(started[a]) \in Nat /\ PretxReserve(started[a]) <= started[a].balance
      BY <2>1, ReserveAssumption DEF PretxReserve
    <2>3. ~ InBelow(tracker', started[a], a)
      BY <2>1, <2>2 DEF InBelow
    <2>4. QED BY <1>7, <2>3 DEF ExactAt, CachedAt
  <1>9. Exact(tracker', started)
    BY <1>7, <1>8 DEF Exact
  <1>10. StackOK(tracker', started, frames')
    BY <1>1, <1>2 DEF StackOK
  <1>11. tracker'.sender \in Senders
    BY <1>3, <1>4, <1>7 DEF SameTerms
  <1>12. QED BY <1>1, <1>6, <1>7, <1>9, <1>10, <1>11 DEF ReserveInv, TrackingOK

\* The transaction ends: what was destroyed is gone and everybody starts afresh.
LEMMA EndKeeps ==
  ASSUME ReserveInv, NEW beneficiary \in Accounts, EndTx(beneficiary)
  PROVE  ReserveInv'
  <1> DEFINE left(a) == IF account[a].destroyed THEN 0 ELSE account[a].balance
             paid(a) == IF a = beneficiary THEN left(a) + tracker.gasFees ELSE left(a)
             code(a) == IF account[a].destroyed THEN "none" ELSE account[a].code
             ended(a) == [account[a] EXCEPT !.balance = paid(a), !.original = paid(a),
                            !.warm = FALSE, !.code = code(a),
                            !.created = FALSE, !.destroyed = FALSE]
  <1>1. /\ phase = "done" /\ phase' = "idle" /\ frames' = frames
        /\ account' = [a \in Accounts |-> ended(a)]
    BY DEF EndTx
  <1>2. AccountsOK(account) /\ tracker \in Tracker /\ frames = <<>>
    BY <1>1 DEF ReserveInv, TrackingOK
  <1>3. ASSUME NEW a \in Accounts
        PROVE  /\ AccountOK(ended(a))
               /\ ended(a).balance = ended(a).original
               /\ ~ ended(a).created /\ ~ ended(a).destroyed
    <2>1. AccountOK(account[a]) /\ tracker.gasFees \in Nat
      BY <1>2 DEF AccountsOK, Tracker
    <2>2. paid(a) \in Nat /\ code(a) \in Codes
      BY <2>1 DEF AccountOK, Account, Codes
    <2> HIDE DEF paid, code
    <2>3. QED BY <2>1, <2>2 DEF AccountOK, Account
  <1> HIDE DEF ended
  <1>4. AccountsOK(account') /\ Settled'
    BY <1>1, <1>3 DEF AccountsOK, AccountOK, Settled
  <1>5. StackOK(tracker', account', frames')
    BY <1>1, <1>2 DEF StackOK
  <1>6. QED BY <1>1, <1>2, <1>4, <1>5 DEF ReserveInv

-----------------------------------------------------------------------------
(***************************************************************************)
(* The invariant.                                                          *)
(***************************************************************************)
\* Before the first transaction, if the database returns accounts with their code.
LEMMA InitKeeps ==
  ASSUME CodeWithAccount, ReserveInit
  PROVE  ReserveInv
  <1> DEFINE first(a) == [balance |-> InitialBalance[a], original |-> InitialBalance[a],
                          code |-> InitialCode[a], known |-> CodeWithAccount,
                          warm |-> FALSE, created |-> FALSE, destroyed |-> FALSE]
  <1>1. phase = "idle" /\ frames = <<>> /\ account = [a \in Accounts |-> first(a)]
    BY DEF ReserveInit
  <1>2. ASSUME NEW a \in Accounts
        PROVE  /\ AccountOK(first(a))
               /\ first(a).balance = first(a).original
               /\ ~ first(a).created /\ ~ first(a).destroyed
    <2>1. InitialBalance[a] \in Nat /\ InitialCode[a] \in Codes /\ CodeWithAccount \in BOOLEAN
      BY ReserveAssumption
    <2>2. QED BY <2>1 DEF AccountOK, Account
  <1> HIDE DEF first
  <1>3. AccountsOK(account) /\ Settled
    BY <1>1, <1>2 DEF AccountsOK, AccountOK, Settled
  <1>4. StackOK(tracker, account, frames)
    BY <1>1 DEF StackOK
  <1>5. QED BY <1>1, <1>3, <1>4 DEF ReserveInv

\* Every step keeps it.
LEMMA StepKeeps ==
  ASSUME ReserveInv, [ReserveNext]_reserveVars
  PROVE  ReserveInv'
  <1>1. phase = "running" => Running
    BY DEF ReserveInv, Running
  <1>2. ASSUME Running', phase' \in {"running", "done"}, phase' # "running" => frames' = <<>>
        PROVE  ReserveInv'
    BY <1>2 DEF ReserveInv, Running
  <1>3. ASSUME NEW history \in Histories, NEW place \in DOMAIN history.current,
               NEW fee \in Fees, NEW code \in {"none", "eip7702"},
               StartTx(history, place, fee, code)
        PROVE  ReserveInv'
    BY <1>3, StartKeeps
  <1>4. ASSUME NEW a \in Accounts, NEW amount \in Amounts, Call(a, amount)
        PROVE  ReserveInv'
    <2>1. Enter(a, amount, FALSE) /\ amount \in Nat
      BY <1>4, ReserveAssumption DEF Call
    <2>2. phase = "running" /\ phase' = "running"
      BY <2>1 DEF Enter
    <2>3. Running'
      BY <1>1, <2>1, <2>2, EnterKeeps
    <2>4. QED BY <1>2, <2>2, <2>3
  <1>5. ASSUME NEW new \in Fresh, NEW amount \in Amounts, Create(new, amount)
        PROVE  ReserveInv'
    <2>1. Enter(new, amount, TRUE) /\ amount \in Nat /\ new \in Accounts
      BY <1>5, ReserveAssumption DEF Create
    <2>2. phase = "running" /\ phase' = "running"
      BY <2>1 DEF Enter
    <2>3. Running'
      BY <1>1, <2>1, <2>2, EnterKeeps
    <2>4. QED BY <1>2, <2>2, <2>3
  <1>6. ASSUME NEW a \in Accounts, LoadAccount(a) PROVE ReserveInv'
    <2>1. phase = "running" /\ phase' = "running"
      BY <1>6 DEF LoadAccount, CodeRuns
    <2>2. QED BY <1>1, <1>2, <1>6, <2>1, LoadKeeps
  <1>7. ASSUME NEW amount \in Amounts, PayOut(amount) PROVE ReserveInv'
    <2>1. phase = "running" /\ phase' = "running" /\ amount \in Nat
      BY <1>7, ReserveAssumption DEF PayOut, CodeRuns
    <2>2. QED BY <1>1, <1>2, <1>7, <2>1, PayOutKeeps
  <1>8. ASSUME NEW code \in {"none", "contract"}, Return(code) PROVE ReserveInv'
    <2>1. phase = "running" /\ phase' \in {"running", "done"} /\ code \in Codes
      BY <1>8 DEF Return, PhaseAfter, Codes
    <2>2. QED BY <1>1, <1>2, <1>8, <2>1, ReturnKeeps
  <1>9. ASSUME NEW a \in Accounts, SelfDestruct(a) PROVE ReserveInv'
    <2>1. phase = "running" /\ phase' \in {"running", "done"}
      BY <1>9 DEF SelfDestruct, PhaseAfter, CodeRuns
    <2>2. QED BY <1>1, <1>2, <1>9, <2>1, DestroyKeeps
  <1>10. ASSUME Revert PROVE ReserveInv'
    <2>1. phase = "running" /\ phase' \in {"running", "done"}
      BY <1>10 DEF Revert, PhaseAfter, CodeRuns
    <2>2. QED BY <1>1, <1>2, <1>10, <2>1, RevertKeeps
  <1>11. ASSUME NEW a \in Accounts, EndTx(a) PROVE ReserveInv'
    BY <1>11, EndKeeps
  <1>12. ASSUME UNCHANGED reserveVars PROVE ReserveInv'
    BY <1>12 DEF reserveVars, ReserveInv, StackOK, Settled, TrackingOK, Depth
  <1>13. QED
    BY <1>3, <1>4, <1>5, <1>6, <1>7, <1>8, <1>9, <1>10, <1>11, <1>12 DEF ReserveNext

\* The rule and the threshold, as the invariant states them of one account.
LEMMA Verdict ==
  /\ BelowReserve = {a \in Accounts : InBelow(tracker, account[a], a)}
  /\ \A a \in Accounts : Threshold(a) = Due(tracker, account[a], a)
BY DEF BelowReserve, Threshold, InBelow, Due

(***************************************************************************)
(* The failed accounts of the tracker are those below their reserve, at    *)
(* every point of every transaction (compute_violation_threshold,          *)
(* update_loaded_account and the journal's notifications).                 *)
(***************************************************************************)
THEOREM TrackerExact ==
  ASSUME CodeWithAccount
  PROVE  ReserveSpec => []FailedExact
  <1>1. ReserveInit => ReserveInv
    BY InitKeeps
  <1>2. ReserveInv /\ [ReserveNext]_reserveVars => ReserveInv'
    BY StepKeeps
  <1>3. ReserveInv => FailedExact
    <2>1. ASSUME ReserveInv, phase # "idle" PROVE tracker.failed = BelowReserve
      <3>1. tracker.failed \in SUBSET Accounts /\ Exact(tracker, account)
        BY <2>1 DEF ReserveInv, TrackingOK, Tracker
      <3>2. QED BY <3>1, Verdict DEF Exact, ExactAt
    <2>2. QED BY <2>1 DEF FailedExact
  <1>4. QED BY <1>1, <1>2, <1>3, PTL DEF ReserveSpec

(***************************************************************************)
(* A threshold the tracker has cached is never stale (the cache of         *)
(* update_loaded_account and who clears it).                               *)
(***************************************************************************)
THEOREM CacheCurrent ==
  ASSUME CodeWithAccount
  PROVE  ReserveSpec => []ThresholdsCurrent
  <1>1. ReserveInit => ReserveInv
    BY InitKeeps
  <1>2. ReserveInv /\ [ReserveNext]_reserveVars => ReserveInv'
    BY StepKeeps
  <1>3. ReserveInv => ThresholdsCurrent
    BY Verdict DEF ReserveInv, TrackingOK, Exact, CachedAt, ThresholdsCurrent
  <1>4. QED BY <1>1, <1>2, <1>3, PTL DEF ReserveSpec

(***************************************************************************)
(* checkpoint_revert restores the verdict of the tracker with the state.   *)
(***************************************************************************)
THEOREM VerdictRestored ==
  ASSUME CodeWithAccount
  PROVE  ReserveSpec => RevertRestoresVerdict
  <1>1. ReserveInit => ReserveInv
    BY InitKeeps
  <1>2. ReserveInv /\ [ReserveNext]_reserveVars => ReserveInv'
    BY StepKeeps
  <1>3. ReserveInv /\ [ReserveNext]_reserveVars
          => [Revert => tracker'.failed = frames[Depth].failed]_reserveVars
    <2>1. ASSUME ReserveInv, Revert PROVE tracker'.failed = frames[Depth].failed
      <3>1. Running
        BY <2>1 DEF ReserveInv, Running, Revert, CodeRuns
      <3>2. QED BY <2>1, <3>1, RevertKeeps
    <2>2. QED BY <2>1
  <1>4. QED BY <1>1, <1>2, <1>3, PTL DEF ReserveSpec, RevertRestoresVerdict

-----------------------------------------------------------------------------
(***************************************************************************)
(* Who may dip.                                                            *)
(***************************************************************************)
\* Somebody is involved in two blocks, one after the other, if in either.
LEMMA InvolvedInBoth ==
  ASSUME NEW s \in Seq(Transactions), NEW t \in Seq(Transactions)
  PROVE  Involved(s \o t) = Involved(s) \cup Involved(t)
  <1> DEFINE m == Len(s)
             n == Len(t)
             p(tx) == {tx.sender} \cup tx.authorities
  <1>1. /\ DOMAIN s = 1 .. m /\ DOMAIN t = 1 .. n /\ m \in Nat /\ n \in Nat
        /\ DOMAIN (s \o t) = 1 .. m + n
        /\ \A i \in 1 .. m + n : (s \o t)[i] = IF i <= m THEN s[i] ELSE t[i - m]
    BY ConcatProperties, LenProperties
  <1>2. /\ Involved(s) = UNION {p(s[i]) : i \in 1 .. m}
        /\ Involved(t) = UNION {p(t[i]) : i \in 1 .. n}
        /\ Involved(s \o t) = UNION {p((s \o t)[i]) : i \in 1 .. m + n}
    BY <1>1 DEF Involved
  <1> HIDE DEF m, n, p
  <1>3. ASSUME NEW i \in 1 .. m + n
        PROVE  \/ \E j \in 1 .. m : (s \o t)[i] = s[j]
               \/ \E j \in 1 .. n : (s \o t)[i] = t[j]
    <2>1. CASE i <= m
      <3>1. i \in 1 .. m
        BY <1>1, <2>1
      <3>2. QED BY <1>1, <2>1, <3>1
    <2>2. CASE ~ (i <= m)
      <3>1. i - m \in 1 .. n
        BY <1>1, <2>2
      <3>2. QED BY <1>1, <2>2, <3>1
    <2>3. QED BY <2>1, <2>2
  <1>4. ASSUME NEW j \in 1 .. m PROVE \E i \in 1 .. m + n : (s \o t)[i] = s[j]
    <2>1. j \in 1 .. m + n /\ j <= m
      BY <1>1
    <2>2. QED BY <1>1, <2>1
  <1>5. ASSUME NEW j \in 1 .. n PROVE \E i \in 1 .. m + n : (s \o t)[i] = t[j]
    <2>1. j + m \in 1 .. m + n /\ ~ (j + m <= m) /\ (j + m) - m = j
      BY <1>1
    <2>2. QED BY <1>1, <2>1
  <1>6. \A x : x \in Involved(s \o t) <=> x \in Involved(s) \/ x \in Involved(t)
    BY <1>2, <1>3, <1>4, <1>5
  <1>7. QED BY <1>6

\* sender_can_dip says of the context what the rule says of the blocks.
LEMMA DipMeansQuiet ==
  ASSUME NEW history \in Histories, NEW place \in DOMAIN history.current, NEW delegated
  PROVE  SenderCanDip(Context(history, place), history.current[place].sender, delegated)
           <=> ~ delegated /\ Quiet(history, place)
  <1> DEFINE g == history.grandparent
             b == history.parent
             c == history.current
             from == c[place].sender
             begun == SubSeq(c, 1, place - 1)
             chain == Context(history, place)
  <1>1. g \in Seq(Transactions) /\ b \in Seq(Transactions) /\ c \in Seq(Transactions)
    BY ChainAssumption
  <1>2. /\ DOMAIN c = 1 .. Len(c) /\ Len(c) \in Nat /\ place \in 1 .. Len(c)
        /\ \A i \in 1 .. Len(c) : c[i] \in Transactions
    BY <1>1, LenProperties, ElementOfSeq
  <1>3. /\ begun \in Seq(Transactions) /\ DOMAIN begun = 1 .. place - 1
        /\ \A i \in 1 .. place - 1 : begun[i] = c[i]
    <2>1. /\ 1 \in Int /\ place - 1 \in Int
          /\ \A i \in 1 .. place - 1 : c[i] \in Transactions
      BY <1>2
    <2>2. /\ begun \in Seq(Transactions)
          /\ Len(begun) = IF 1 <= place - 1 THEN (place - 1) - 1 + 1 ELSE 0
          /\ \A i \in 1 .. (place - 1) - 1 + 1 : begun[i] = c[1 + i - 1]
      BY <2>1, SubSeqProperties
    <2>3. Len(begun) = place - 1
      BY <1>2, <2>2
    <2>4. QED BY <1>2, <2>2, <2>3, LenProperties
  <1> HIDE DEF begun
  <1>4. Involved(Earlier(history, place)) = Involved(g) \cup Involved(b) \cup Involved(begun)
    <2>1. Earlier(history, place) = (g \o b) \o begun
      BY DEF Earlier, begun
    <2>2. g \o b \in Seq(Transactions)
      BY <1>1, ConcatProperties
    <2>3. QED BY <1>1, <1>3, <2>1, <2>2, InvolvedInBoth
  <1>5. from \in Involved(begun)
          <=> \E i \in 1 .. place - 1 : from = c[i].sender \/ from \in c[i].authorities
    BY <1>3 DEF Involved
  <1>6. /\ chain.parent_senders_and_authorities = Involved(b)
        /\ chain.grandparent_senders_and_authorities = Involved(g)
        /\ chain.current_block_senders = [i \in 1 .. Len(c) |-> c[i].sender]
        /\ chain.current_block_authorities = [i \in 1 .. Len(c) |-> c[i].authorities]
        /\ chain.current_tx_index = place
    BY <1>2 DEF Context
  <1> HIDE DEF chain
  <1>7. SenderCanDip(chain, from, delegated)
          <=> /\ ~ delegated
              /\ from \notin Involved(g) /\ from \notin Involved(b)
              /\ \A i \in 1 .. Len(c) : i < place => c[i].sender # from
              /\ \A i \in 1 .. Len(c) : i <= place => from \notin c[i].authorities
    BY <1>6 DEF SenderCanDip
  <1>8. (/\ \A i \in 1 .. Len(c) : i < place => c[i].sender # from
         /\ \A i \in 1 .. Len(c) : i <= place => from \notin c[i].authorities)
          <=> from \notin Involved(begun) /\ from \notin c[place].authorities
    <2>1. \A i \in 1 .. Len(c) : (i < place <=> i \in 1 .. place - 1)
                                 /\ (i <= place <=> i \in 1 .. place - 1 \/ i = place)
      BY <1>2
    <2>2. \A i \in 1 .. place - 1 : i \in 1 .. Len(c)
      BY <1>2
    <2> HIDE DEF from
    <2>3. QED BY <1>2, <1>5, <2>1, <2>2
  <1>9. Quiet(history, place) <=> /\ from \notin c[place].authorities
                                  /\ from \notin Involved(Earlier(history, place))
    BY DEF Quiet
  <1>10. QED BY <1>4, <1>7, <1>8, <1>9 DEF chain

\* Tracking starts with what sender_can_dip answered.
LEMMA DipAsked ==
  ASSUME NEW history \in Histories, NEW place \in DOMAIN history.current,
         NEW fee \in Fees, NEW code \in {"none", "eip7702"},
         StartTx(history, place, fee, code)
  PROVE  LET from == history.current[place].sender IN
         /\ tracker'.sender = from
         /\ tracker'.canDip = SenderCanDip(Context(history, place), from,
                                           account'[from].code = "eip7702")
  <1> DEFINE from == history.current[place].sender
             d == SenderCanDip(Context(history, place), from, account'[from].code = "eip7702")
             t == Begun(from, fee, d)
  <1>1. tracker' = Update(t, account', {from})
    BY DEF StartTx, Begun
  <1>2. t.sender = from /\ t.canDip = d /\ DOMAIN t = DOMAIN NoTracking
    BY DEF Begun, NoTracking
  <1> HIDE DEF t, d, from
  <1>3. tracker'.sender = t.sender /\ tracker'.canDip = t.canDip
    BY <1>1, <1>2 DEF Update, NoTracking
  <1>4. QED BY <1>2, <1>3 DEF d, from

(***************************************************************************)
(* Through set_chain_context and sender_can_dip, the sender of a           *)
(* transaction may spend its reserve exactly if it was quiet.              *)
(***************************************************************************)
THEOREM OnlyTheQuietDip ==
  ReserveSpec => DipsOnceInThreeBlocks
  <1>1. ASSUME NEW history \in Histories, NEW place \in DOMAIN history.current,
               NEW fee \in Fees, NEW code \in {"none", "eip7702"},
               StartTx(history, place, fee, code)
        PROVE  tracker'.canDip <=> /\ Quiet(history, place)
                                   /\ account'[tracker'.sender].code # "eip7702"
    <2> DEFINE delegated == account'[tracker'.sender].code = "eip7702"
    <2>1. tracker'.canDip
            = SenderCanDip(Context(history, place), history.current[place].sender, delegated)
      BY <1>1, DipAsked
    <2>2. SenderCanDip(Context(history, place), history.current[place].sender, delegated)
            <=> ~ delegated /\ Quiet(history, place)
      BY DipMeansQuiet
    <2>3. QED BY <2>1, <2>2
  <1>2. [phase = "idle" /\ phase' = "running" =>
          \A history \in Histories : \A place \in DOMAIN history.current,
             fee \in Fees, authorityCode \in {"none", "eip7702"} :
                StartTx(history, place, fee, authorityCode) =>
                    (tracker'.canDip <=> /\ Quiet(history, place)
                                         /\ account'[tracker'.sender].code # "eip7702")]_reserveVars
    BY <1>1
  <1>3. QED BY <1>2, PTL DEF DipsOnceInThreeBlocks
=============================================================================
