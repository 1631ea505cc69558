-------------------------- MODULE PaginationProofs --------------------------
(***************************************************************************)
(* The paginated getters of the staking precompile, for every list, every  *)
(* page size and every interleaving of reads with insertions and removals: *)
(* what a client that goes from page to page has read, and what it missed. *)
(***************************************************************************)
EXTENDS ListPagination, DataTheorems

-----------------------------------------------------------------------------
(***************************************************************************)
(* One page.                                                               *)
(***************************************************************************)
\* The list as it stands is chained along f.
Order(n, f) == Chained(list, n, f, Keys, HEAD, NIL)

\* w[m] is the key that a page reaches after m keys.
WalkOfPage(first, w) ==
  w = [n \in 0 .. LINKED_LIST_PAGINATION |->
         IF n = 0 THEN first
         ELSE IF w[n - 1] = NIL THEN NIL
         ELSE list[w[n - 1]].next]

Reached(first) == CHOOSE w : WalkOfPage(first, w)

\* What the getter answers, in terms of the keys it reaches.
LEMMA PageIsWalk ==
  ASSUME NEW start, NEW first, first = IF start = NIL THEN list[HEAD].next ELSE start
  PROVE  LET reached == Reached(first)
             last == reached[LINKED_LIST_PAGINATION]
         IN  /\ first = NIL => Page(start) = [done |-> TRUE, next |-> NIL, keys |-> {}]
             /\ first # NIL /\ ~InList(first) =>
                  Page(start) = [done |-> TRUE, next |-> first, keys |-> {}]
             /\ first # NIL /\ InList(first) =>
                  Page(start) = [done |-> last = NIL, next |-> last,
                     keys |-> {reached[n] : n \in 0 .. LINKED_LIST_PAGINATION - 1} \ {NIL}]
  BY DEF Page, WalkOfPage, Reached

\* From its first key on, a page reaches one key after the other, and nothing
\* beyond the end.
LEMMA PageReaches ==
  ASSUME NEW n \in Nat, NEW f, Order(n, f), NEW p \in 1 .. n
  PROVE  Reached(f[p])
           = [m \in 0 .. LINKED_LIST_PAGINATION |-> IF p + m <= n THEN f[p + m] ELSE NIL]
  <1> DEFINE P == LINKED_LIST_PAGINATION
             W == [m \in 0 .. P |-> IF p + m <= n THEN f[p + m] ELSE NIL]
             After(key) == IF key = NIL THEN NIL ELSE list[key].next
             walk == Reached(f[p])
  <1>0. P \in Nat \ {0} BY PaginationAssumption
  <1>1. /\ \A i \in 1 .. n : f[i] \in Keys /\ f[i] # NIL /\ list[f[i]].next = f[i + 1]
        /\ f[n + 1] = NIL
    BY PaginationAssumption DEF Order, Chained
  <1> HIDE DEF P
  <1>2. W[0] = f[p] BY <1>0
  <1>3. ASSUME NEW m \in 1 .. P PROVE W[m] = After(W[m - 1])
    <2>1. m - 1 \in 0 .. P /\ p + (m - 1) = (p + m) - 1 /\ p + m \in Nat BY <1>0
    <2>2. CASE p + m <= n
      <3>1. (p + m) - 1 \in 1 .. n /\ ((p + m) - 1) + 1 = p + m BY <2>1, <2>2
      <3>2. W[m - 1] = f[(p + m) - 1] /\ W[m] = f[p + m] BY <2>1, <2>2, <3>1
      <3>3. QED BY <1>1, <3>1, <3>2
    <2>3. CASE p + m = n + 1
      <3>1. (p + m) - 1 = n /\ n \in 1 .. n BY <2>1, <2>3
      <3>2. W[m - 1] = f[n] /\ W[m] = NIL BY <2>1, <2>3, <3>1
      <3>3. QED BY <1>1, <3>1, <3>2
    <2>4. CASE p + m > n + 1
      <3>1. W[m - 1] = NIL /\ W[m] = NIL BY <2>1, <2>4
      <3>2. QED BY <3>1
    <2>5. QED BY <2>1, <2>2, <2>3, <2>4
  <1>4. \A w : WalkOfPage(f[p], w) <=>
                 w = [m \in 0 .. P |-> IF m = 0 THEN f[p] ELSE After(w[m - 1])]
    BY DEF WalkOfPage, P
  <1>5. W = [m \in 0 .. P |-> W[m]] OBVIOUS
  <1> HIDE DEF W, After, walk
  <1>6. WalkOfPage(f[p], W)
    <2>1. \A m \in 0 .. P : W[m] = IF m = 0 THEN f[p] ELSE After(W[m - 1]) BY <1>0, <1>2, <1>3
    <2>2. W = [m \in 0 .. P |-> IF m = 0 THEN f[p] ELSE After(W[m - 1])] BY <1>5, <2>1
    <2>3. QED BY <1>4, <2>2
  <1>7. WalkOfPage(f[p], walk) BY <1>6 DEF walk, Reached
  <1>8. walk = [m \in 0 .. P |-> IF m = 0 THEN f[p] ELSE After(walk[m - 1])] BY <1>4, <1>7
  <1> DEFINE Good == {m \in 0 .. P : walk[m] = W[m]}
  <1>9. \A m \in 0 .. P : m \in Good
    <2>1. 0 \in Good BY <1>0, <1>2, <1>8
    <2>2. ASSUME NEW m \in 0 .. P - 1, m \in Good PROVE m + 1 \in Good
      <3>1. m + 1 \in 1 .. P /\ m + 1 \in 0 .. P /\ m + 1 # 0 /\ (m + 1) - 1 = m BY <1>0
      <3>2. walk[m + 1] = After(walk[m]) BY <1>8, <3>1
      <3>3. W[m + 1] = After(W[m]) BY <1>3, <3>1
      <3>4. QED BY <2>2, <3>1, <3>2, <3>3
    <2> HIDE DEF Good
    <2>3. QED BY <1>0, <2>1, <2>2, UpwardInduction
  <1>10. walk = [m \in 0 .. P |-> walk[m]] BY <1>8
  <1>11. \A m \in 0 .. P : walk[m] = W[m] BY <1>9
  <1>12. walk = W BY <1>5, <1>10, <1>11
  <1>13. QED BY <1>12 DEF walk, W, P

\* A page from the key at p on.
LEMMA PageOfChain ==
  ASSUME NEW n \in Nat, NEW f, Order(n, f), NEW p \in 1 .. n, NEW start,
         f[p] = IF start = NIL THEN list[HEAD].next ELSE start
  PROVE  LET page == Page(start)
             end == p + LINKED_LIST_PAGINATION
         IN  /\ page.done <=> end > n
             /\ page.next = IF end <= n THEN f[end] ELSE NIL
             /\ page.keys = {f[i] : i \in {j \in p .. n : j < end}}
  <1> DEFINE P == LINKED_LIST_PAGINATION
             reached == [m \in 0 .. P |-> IF p + m <= n THEN f[p + m] ELSE NIL]
  <1>0. P \in Nat \ {0} BY PaginationAssumption
  <1>1. \A i \in 1 .. n : f[i] \in Keys /\ f[i] # NIL BY PaginationAssumption DEF Order, Chained
  <1>2. f[p] # NIL /\ InList(f[p])
    <2>1. list[f[p]].prev # NIL
      BY PaginationAssumption, <1>1, ChainedKeys DEF Order
    <2>2. QED BY <1>1, <2>1 DEF InList
  <1>3. Reached(f[p]) = reached BY PageReaches
  <1> DEFINE last == reached[P]
             keys == {reached[m] : m \in 0 .. P - 1} \ {NIL}
  <1>4. Page(start) = [done |-> last = NIL, next |-> last, keys |-> keys]
    <2> HIDE DEF reached
    <2> DEFINE first == f[p]
    <2>1. first = IF start = NIL THEN list[HEAD].next ELSE start OBVIOUS
    <2>2. first # NIL /\ InList(first) /\ Reached(first) = reached
      BY <1>2, <1>3
    <2> HIDE DEF first
    <2>3. QED BY <2>1, <2>2, PageIsWalk
  <1>5. last = IF p + P <= n THEN f[p + P] ELSE NIL BY <1>0
  <1>6. p + P <= n => p + P \in 1 .. n BY <1>0
  <1>7. last = NIL <=> p + P > n BY <1>0, <1>1, <1>5, <1>6
  <1>8. keys = {f[i] : i \in {j \in p .. n : j < p + P}}
    <2> HIDE DEF P
    <2>1. ASSUME NEW m \in 0 .. P - 1, reached[m] # NIL
          PROVE  reached[m] \in {f[i] : i \in {j \in p .. n : j < p + P}}
      <3>1. m \in 0 .. P /\ p + m <= n BY <1>0, <2>1
      <3>2. p + m \in p .. n /\ p + m < p + P /\ reached[m] = f[p + m] BY <1>0, <3>1
      <3>3. QED BY <3>2
    <2>2. ASSUME NEW i \in p .. n, i < p + P
          PROVE  f[i] # NIL /\ \E m \in 0 .. P - 1 : reached[m] = f[i]
      <3>1. i - p \in 0 .. P - 1 /\ i - p \in 0 .. P /\ p + (i - p) = i BY <1>0, <2>2
      <3>2. reached[i - p] = f[i] BY <3>1
      <3>3. f[i] # NIL BY <1>1
      <3>4. QED BY <3>1, <3>2, <3>3
    <2> HIDE DEF reached
    <2>3. QED BY <2>1, <2>2
  <1> HIDE DEF last, keys, reached
  <1>9. Page(start).done = (last = NIL) /\ Page(start).next = last /\ Page(start).keys = keys
    BY <1>4
  <1>10. QED BY <1>5, <1>7, <1>8, <1>9

\* A page from where there is nothing, and from a key that is not there.
LEMMA EmptyPage ==
  ASSUME NEW start
  PROVE  /\ start = NIL /\ list[HEAD].next = NIL =>
              Page(start) = [done |-> TRUE, next |-> NIL, keys |-> {}]
         /\ start # NIL /\ ~InList(start) =>
              Page(start) = [done |-> TRUE, next |-> start, keys |-> {}]
  BY PageIsWalk

-----------------------------------------------------------------------------
(***************************************************************************)
(* The inductive invariant.  While a client reads, what it has still to    *)
(* see of those who stayed is not in front of the key it waits with, and,  *)
(* as long as that key has not left the list, nothing it has seen is       *)
(* behind.  Insertion is at the front, and removal keeps the order.        *)
(***************************************************************************)
Waits(n, f) ==
  /\ Order(n, f)
  /\ reading => \A p, i \in 1 .. n :
       f[p] = cursor /\ f[i] \in stayed /\ seen[f[i]] = 0 => p <= i
  /\ reading /\ ~lost /\ cursor # NIL =>
       \E p \in 1 .. n : f[p] = cursor /\ \A i \in 1 .. n : seen[f[i]] > 0 => i < p

ReadInv ==
  /\ cursor \in Keys \cup {NIL}
  /\ reading \in BOOLEAN /\ lost \in BOOLEAN
  /\ seen \in [Keys -> 0 .. 2]
  /\ stayed \subseteq {k \in Keys : InList(k)}
  /\ reading /\ cursor = NIL => \A k \in Keys : seen[k] = 0
  /\ ~reading /\ cursor = NIL => \A k \in stayed : seen[k] > 0
  /\ ~lost => \A k \in Keys : seen[k] < 2

OrderInv == \E n \in Nat : \E f \in [0 .. n + 1 -> Keys \cup {HEAD, NIL}] : Waits(n, f)

PageInv == ReadInv /\ OrderInv

\* Nobody has read anything.
LEMMA InitPages ==
  ASSUME Init
  PROVE  PageInv
  <1> DEFINE f == [i \in 0 .. 1 |-> IF i = 0 THEN HEAD ELSE NIL]
  <1>1. Order(0, f) BY EmptyChained, PaginationAssumption DEF Init, Order
  <1>2. f \in [0 .. 0 + 1 -> Keys \cup {HEAD, NIL}] BY <1>1 DEF Order, Chained
  <1> HIDE DEF f
  <1>3. Waits(0, f) BY <1>1 DEF Init, Waits
  <1>4. OrderInv BY <1>2, <1>3 DEF OrderInv
  <1>5. ReadInv
    <2>1. seen \in [Keys -> 0 .. 2] /\ \A k \in Keys : seen[k] = 0 BY DEF Init
    <2>2. cursor = NIL /\ reading = FALSE /\ lost = FALSE /\ stayed = {} BY DEF Init
    <2>3. \A k \in Keys : seen[k] < 2 BY <2>1
    <2>4. stayed \subseteq {k \in Keys : InList(k)} /\ \A k \in stayed : seen[k] > 0 BY <2>2
    <2>5. QED BY <2>1, <2>2, <2>3, <2>4, Zenon DEF ReadInv
  <1>6. QED BY <1>4, <1>5 DEF PageInv

\* To be in the list is to have a place in its order.
LEMMA Places ==
  ASSUME NEW n \in Nat, NEW f, Order(n, f), NEW k \in Keys
  PROVE  InList(k) <=> \E i \in 1 .. n : f[i] = k
  BY ChainedKeys, PaginationAssumption DEF Order, InList

\* A new key goes in front, behind every client.
LEMMA InsertKeeps ==
  ASSUME PageInv, NEW k \in Keys, Insert(k)
  PROVE  PageInv'
  <1>1. PICK n \in Nat : \E f \in [0 .. n + 1 -> Keys \cup {HEAD, NIL}] : Waits(n, f)
    BY DEF PageInv, OrderInv
  <1>2. PICK f \in [0 .. n + 1 -> Keys \cup {HEAD, NIL}] : Waits(n, f) BY <1>1
  <1> DEFINE g == InFront(f, n, k)
  <1>3. /\ ~InList(k) /\ list' = LinkedListInsert(list, k, HEAD, NIL)
        /\ UNCHANGED <<cursor, reading, seen, stayed, lost>>
    BY DEF Insert
  <1>4. Order(n, f) BY <1>2 DEF Waits
  <1>5. Chained(list', n + 1, g, Keys, HEAD, NIL)
    BY <1>3, <1>4, InsertChains, PaginationAssumption DEF Order, InList
  <1>6. g[1] = k /\ \A i \in 1 .. n : g[i + 1] = f[i] /\ i + 1 \in 1 .. n + 1
    BY DEF InFront
  <1>7. g \in [0 .. (n + 1) + 1 -> Keys \cup {HEAD, NIL}] /\ n + 1 \in Nat
    BY <1>5 DEF Chained
  <1> HIDE DEF g
  <1>8. \A i \in 1 .. n + 1 : i = 1 \/ (i - 1 \in 1 .. n /\ g[i] = f[i - 1])
    <2>1. ASSUME NEW i \in 1 .. n + 1, i # 1 PROVE i - 1 \in 1 .. n /\ g[i] = f[i - 1]
      <3>1. i - 1 \in 1 .. n /\ (i - 1) + 1 = i BY <2>1
      <3>2. QED BY <1>6, <3>1
    <2>2. QED BY <2>1
  <1>9. ASSUME NEW j \in Keys, InList(j) PROVE InList(j)'
    <2>1. PICK i \in 1 .. n : f[i] = j BY <1>4, <1>9, Places
    <2>2. g[i + 1] = j /\ i + 1 \in 1 .. n + 1 BY <1>6, <2>1
    <2>3. list'[j].prev # NIL BY <1>5, <1>7, <2>2, ChainedKeys, PaginationAssumption
    <2>4. QED BY <2>3 DEF InList
  <1>10. ReadInv' BY <1>3, <1>9 DEF PageInv, ReadInv
  <1>11. \A i \in 1 .. n : f[i] # k BY <1>3, <1>4, Places
  <1>12. ASSUME reading, NEW p \in 1 .. n + 1, NEW i \in 1 .. n + 1,
                g[p] = cursor, g[i] \in stayed, seen[g[i]] = 0
         PROVE  p <= i
    <2>1. InList(g[i]) BY <1>12 DEF PageInv, ReadInv
    <2>2. i # 1 BY <1>3, <1>6, <2>1
    <2>3. i - 1 \in 1 .. n /\ g[i] = f[i - 1] BY <1>8, <2>2
    <2>4. CASE p = 1 BY <2>4
    <2>5. CASE p # 1
      <3>1. p - 1 \in 1 .. n /\ g[p] = f[p - 1] BY <1>8, <2>5
      <3>2. p - 1 <= i - 1 BY <1>2, <1>12, <2>3, <3>1 DEF Waits
      <3>3. QED BY <3>2
    <2>6. QED BY <2>4, <2>5
  <1>13. ASSUME reading, ~lost, cursor # NIL
         PROVE  \E p \in 1 .. n + 1 :
                  g[p] = cursor /\ \A i \in 1 .. n + 1 : seen[g[i]] > 0 => i < p
    <2>1. PICK p \in 1 .. n : f[p] = cursor /\ \A i \in 1 .. n : seen[f[i]] > 0 => i < p
      BY <1>2, <1>13 DEF Waits
    <2>2. g[p + 1] = cursor /\ p + 1 \in 1 .. n + 1 BY <1>6, <2>1
    <2>3. ASSUME NEW i \in 1 .. n + 1, seen[g[i]] > 0 PROVE i < p + 1
      <3>1. CASE i = 1 BY <3>1
      <3>2. CASE i # 1
        <4>1. i - 1 \in 1 .. n /\ g[i] = f[i - 1] BY <1>8, <3>2
        <4>2. i - 1 < p BY <2>1, <2>3, <4>1
        <4>3. QED BY <4>2
      <3>3. QED BY <3>1, <3>2
    <2>4. QED BY <2>2, <2>3
  <1>14. Waits(n + 1, g)' BY <1>3, <1>5, <1>12, <1>13 DEF Waits, Order
  <1>15. OrderInv' BY <1>7, <1>14 DEF OrderInv
  <1>16. QED BY <1>10, <1>15 DEF PageInv

\* Whoever leaves takes nobody along.
LEMMA RemoveKeeps ==
  ASSUME PageInv, NEW k \in Keys, Remove(k)
  PROVE  PageInv'
  <1>1. PICK n \in Nat : \E f \in [0 .. n + 1 -> Keys \cup {HEAD, NIL}] : Waits(n, f)
    BY DEF PageInv, OrderInv
  <1>2. PICK f \in [0 .. n + 1 -> Keys \cup {HEAD, NIL}] : Waits(n, f) BY <1>1
  <1>3. /\ InList(k) /\ list' = LinkedListRemove(list, k, NIL)
        /\ stayed' = stayed \ {k} /\ lost' = (lost \/ (reading /\ cursor = k))
        /\ UNCHANGED <<cursor, reading, seen>>
    BY DEF Remove
  <1>4. Order(n, f) BY <1>2 DEF Waits
  <1>5. PICK j \in 1 .. n : f[j] = k BY <1>3, <1>4, Places
  <1> DEFINE g == LeftOut(f, n, j)
             Back(i) == IF i < j THEN i ELSE i + 1
  <1>6. Chained(list', n - 1, g, Keys, HEAD, NIL)
    BY <1>3, <1>4, <1>5, RemoveChains, PaginationAssumption DEF Order
  <1>7. n - 1 \in Nat /\ g \in [0 .. (n - 1) + 1 -> Keys \cup {HEAD, NIL}]
    BY <1>6 DEF Chained
  <1>8. \A i \in 1 .. n - 1 : g[i] = f[Back(i)] /\ Back(i) \in 1 .. n /\ Back(i) # j
    BY DEF LeftOut
  <1>9. \A i, p \in 1 .. n - 1 : (i < p <=> Back(i) < Back(p)) /\ (p <= i <=> Back(p) <= Back(i))
    OBVIOUS
  <1>10. ASSUME NEW i \in 1 .. n, i # j PROVE \E m \in 1 .. n - 1 : Back(m) = i
    <2>1. CASE i < j BY <2>1
    <2>2. CASE i > j
      <3>1. i - 1 \in 1 .. n - 1 /\ Back(i - 1) = i BY <2>2
      <3>2. QED BY <3>1
    <2>3. QED BY <1>10, <2>1, <2>2
  <1> HIDE DEF g, Back
  <1>11. \A i \in 1 .. n : f[i] = k => i = j BY <1>4, <1>5 DEF Order, Chained
  <1>12. ASSUME NEW x \in Keys, InList(x), x # k PROVE InList(x)'
    <2>1. PICK i \in 1 .. n : f[i] = x BY <1>4, <1>12, Places
    <2>2. PICK m \in 1 .. n - 1 : Back(m) = i BY <1>5, <1>10, <1>12, <2>1
    <2>3. g[m] = x BY <1>8, <2>1, <2>2
    <2>4. list'[x].prev # NIL BY <1>6, <1>7, <2>3, ChainedKeys, PaginationAssumption
    <2>5. QED BY <2>4 DEF InList
  <1>13. ReadInv' BY <1>3, <1>12 DEF PageInv, ReadInv
  <1>14. ASSUME reading, NEW p \in 1 .. n - 1, NEW i \in 1 .. n - 1,
                g[p] = cursor, g[i] \in stayed, seen[g[i]] = 0
         PROVE  p <= i
    <2>1. /\ f[Back(p)] = cursor /\ f[Back(i)] \in stayed /\ seen[f[Back(i)]] = 0
          /\ Back(p) \in 1 .. n /\ Back(i) \in 1 .. n
      BY <1>8, <1>14
    <2>2. Back(p) <= Back(i) BY <1>2, <1>14, <2>1 DEF Waits
    <2>3. QED BY <1>9, <2>2
  <1>15. ASSUME reading, ~lost', cursor # NIL
         PROVE  \E p \in 1 .. n - 1 :
                  g[p] = cursor /\ \A i \in 1 .. n - 1 : seen[g[i]] > 0 => i < p
    <2>1. ~lost /\ cursor # k BY <1>3, <1>15 DEF PageInv, ReadInv
    <2>2. PICK q \in 1 .. n : f[q] = cursor /\ \A i \in 1 .. n : seen[f[i]] > 0 => i < q
      BY <1>2, <1>15, <2>1 DEF Waits
    <2>3. q # j BY <1>5, <2>1, <2>2
    <2>4. PICK p \in 1 .. n - 1 : Back(p) = q BY <1>10, <2>3
    <2>5. g[p] = cursor BY <1>8, <2>2, <2>4
    <2>6. ASSUME NEW i \in 1 .. n - 1, seen[g[i]] > 0 PROVE i < p
      <3>1. Back(i) < Back(p) BY <1>8, <2>2, <2>4, <2>6
      <3>2. QED BY <1>9, <3>1
    <2>7. QED BY <2>5, <2>6
  <1>16. Waits(n - 1, g)' BY <1>3, <1>6, <1>14, <1>15 DEF Waits, Order
  <1>17. OrderInv' BY <1>7, <1>16 DEF OrderInv
  <1>18. QED BY <1>13, <1>17 DEF PageInv

\* A client that begins has everything to see.
LEMMA BeginKeeps ==
  ASSUME PageInv, Begin
  PROVE  PageInv'
  <1>1. /\ reading' = TRUE /\ cursor' = NIL /\ seen' = [k \in Keys |-> 0]
        /\ stayed' = {k \in Keys : InList(k)} /\ lost' = FALSE /\ list' = list
    BY DEF Begin
  <1>2. ReadInv'
    <2>1. {x \in Keys : InList(x)}' = {x \in Keys : InList(x)} BY <1>1 DEF InList
    <2>2. seen' \in [Keys -> 0 .. 2] /\ \A x \in Keys : seen'[x] = 0 BY <1>1
    <2>3. \A x \in Keys : seen'[x] < 2 BY <2>2
    <2>4. stayed' \subseteq {x \in Keys : InList(x)}' BY <1>1, <2>1
    <2>5. QED BY <1>1, <2>2, <2>3, <2>4, Zenon DEF ReadInv
  <1>3. PICK n \in Nat : \E f \in [0 .. n + 1 -> Keys \cup {HEAD, NIL}] : Waits(n, f)
    BY DEF PageInv, OrderInv
  <1>4. PICK f \in [0 .. n + 1 -> Keys \cup {HEAD, NIL}] : Waits(n, f) BY <1>3
  <1>5. \A i \in 1 .. n : f[i] # NIL
    BY <1>4, PaginationAssumption DEF Waits, Order, Chained
  <1>6. Waits(n, f)' BY <1>1, <1>4, <1>5 DEF Waits, Order
  <1>7. OrderInv' BY <1>6 DEF OrderInv
  <1>8. QED BY <1>2, <1>7 DEF PageInv

\* What a page does to what was seen.
Shown(keys) ==
  /\ seen' \in [Keys -> 0 .. 2]
  /\ \A k \in Keys : k \in keys => seen'[k] > 0 /\ (seen[k] = 0 => seen'[k] = 1)
  /\ \A k \in Keys : k \notin keys => seen'[k] = seen[k]

LEMMA PageShows ==
  ASSUME ReadInv, ReadPage
  PROVE  /\ Shown(Page(cursor).keys)
         /\ cursor' = Page(cursor).next /\ reading /\ reading' = ~Page(cursor).done
         /\ UNCHANGED <<list, stayed, lost>>
  <1> DEFINE page == Page(cursor)
  <1>1. /\ seen' = [k \in Keys |->
              IF k \in page.keys /\ seen[k] < 2 THEN seen[k] + 1 ELSE seen[k]]
        /\ cursor' = page.next /\ reading /\ reading' = ~page.done
        /\ UNCHANGED <<list, stayed, lost>>
    BY DEF ReadPage, Answer
  <1>2. \A k \in Keys : seen[k] \in 0 .. 2 BY DEF ReadInv
  <1> HIDE DEF page
  <1>3. ASSUME NEW k \in Keys
        PROVE  /\ seen'[k] \in 0 .. 2
               /\ k \in page.keys => seen'[k] > 0 /\ (seen[k] = 0 => seen'[k] = 1)
               /\ k \notin page.keys => seen'[k] = seen[k]
    <2>1. seen'[k] = IF k \in page.keys /\ seen[k] < 2 THEN seen[k] + 1 ELSE seen[k]
      BY <1>1
    <2>2. QED BY <1>2, <2>1
  <1>4. seen' \in [Keys -> 0 .. 2] BY <1>1, <1>3
  <1>5. Shown(page.keys) BY <1>3, <1>4 DEF Shown
  <1>6. QED BY <1>1, <1>5 DEF page

\* A page with nothing in it ends the read.
LEMMA EmptyPageKeeps ==
  ASSUME PageInv, ReadPage,
         \/ cursor = NIL /\ list[HEAD].next = NIL
         \/ cursor # NIL /\ ~InList(cursor)
  PROVE  PageInv'
  <1>0. ReadInv BY DEF PageInv
  <1>1. /\ Shown(Page(cursor).keys)
        /\ cursor' = Page(cursor).next /\ reading' = ~Page(cursor).done
        /\ UNCHANGED <<list, stayed, lost>>
    BY <1>0, PageShows
  <1>2. Page(cursor) = [done |-> TRUE, next |-> cursor, keys |-> {}] BY EmptyPage
  <1>3. Page(cursor).done = TRUE /\ Page(cursor).next = cursor /\ Page(cursor).keys = {}
    BY <1>2
  <1>4. /\ \A k \in Keys : seen'[k] = seen[k]
        /\ seen' \in [Keys -> 0 .. 2]
        /\ cursor' = cursor /\ reading' = FALSE
    BY <1>1, <1>3 DEF Shown
  <1>5. PICK n \in Nat : \E f \in [0 .. n + 1 -> Keys \cup {HEAD, NIL}] : Waits(n, f)
    BY DEF PageInv, OrderInv
  <1>6. PICK f \in [0 .. n + 1 -> Keys \cup {HEAD, NIL}] : Waits(n, f) BY <1>5
  <1>7. Order(n, f) BY <1>6 DEF Waits
  <1>8. Waits(n, f)' BY <1>1, <1>4, <1>7 DEF Waits, Order
  <1>9. OrderInv' BY <1>8 DEF OrderInv
  <1>10. cursor = NIL => stayed = {}
    <2>1. ASSUME cursor = NIL, NEW k \in stayed PROVE FALSE
      <3>1. k \in Keys /\ InList(k) BY <1>0 DEF ReadInv
      <3>2. PICK i \in 1 .. n : f[i] = k BY <1>7, <3>1, Places
      <3>3. 1 \in 1 .. n /\ 0 \in 0 .. n BY <3>2
      <3>4. list[HEAD].next = f[1] /\ f[1] \in Keys BY <1>7, <3>3 DEF Order, Chained
      <3>5. QED BY <2>1, <3>4, PaginationAssumption
    <2>2. QED BY <2>1
  <1>11. {k \in Keys : InList(k)}' = {k \in Keys : InList(k)} BY <1>1 DEF InList
  <1>12. ReadInv' BY <1>0, <1>1, <1>4, <1>10, <1>11 DEF ReadInv
  <1>13. QED BY <1>9, <1>12 DEF PageInv

\* Otherwise the client goes on after the keys that it sees.
LEMMA FullPageKeeps ==
  ASSUME PageInv, ReadPage, NEW n \in Nat, NEW f \in [0 .. n + 1 -> Keys \cup {HEAD, NIL}],
         Waits(n, f), NEW p \in 1 .. n,
         f[p] = IF cursor = NIL THEN list[HEAD].next ELSE cursor,
         cursor = NIL => p = 1
  PROVE  PageInv'
  <1> DEFINE end == p + LINKED_LIST_PAGINATION
             page == Page(cursor)
  <1>0. ReadInv BY DEF PageInv
  <1>1. /\ Shown(page.keys) /\ cursor' = page.next /\ reading /\ reading' = ~page.done
        /\ UNCHANGED <<list, stayed, lost>>
    BY <1>0, PageShows
  <1>2. Order(n, f) BY DEF Waits
  <1>3. /\ page.done <=> end > n
        /\ page.next = IF end <= n THEN f[end] ELSE NIL
        /\ page.keys = {f[i] : i \in {j \in p .. n : j < end}}
    BY <1>2, PageOfChain
  <1>4. end \in Nat /\ end > p BY PaginationAssumption
  <1>5. /\ \A i \in 1 .. n : f[i] \in Keys /\ f[i] # NIL
        /\ \A i, j \in 1 .. n : f[i] = f[j] => i = j
    BY <1>2, PaginationAssumption DEF Order, Chained
  <1> HIDE DEF end, page
  <1>6. \A i \in 1 .. n : f[i] \in page.keys <=> p <= i /\ i < end
    <2>1. ASSUME NEW i \in 1 .. n, f[i] \in page.keys PROVE p <= i /\ i < end
      <3>1. PICK j \in p .. n : j < end /\ f[j] = f[i] BY <1>3, <2>1
      <3>2. j = i BY <1>5, <3>1
      <3>3. QED BY <3>1, <3>2
    <2>2. ASSUME NEW i \in 1 .. n, p <= i, i < end PROVE f[i] \in page.keys
      <3>1. i \in p .. n BY <2>2
      <3>2. QED BY <1>3, <2>2, <3>1
    <2>3. QED BY <2>1, <2>2
  <1>7. \A k \in page.keys : \E i \in 1 .. n : f[i] = k
    BY <1>3
  \* Nobody who stayed and has not been seen is in front of the page.
  <1>8. ASSUME NEW i \in 1 .. n, f[i] \in stayed, seen[f[i]] = 0 PROVE p <= i
    <2>1. CASE cursor = NIL BY <2>1
    <2>2. CASE cursor # NIL BY <1>1, <1>8, <2>2 DEF Waits
    <2>3. QED BY <2>1, <2>2
  \* Nobody who has been seen is in the page, or behind it.
  <1>9. ASSUME ~lost, NEW i \in 1 .. n, seen[f[i]] > 0 PROVE i < p
    <2>1. CASE cursor = NIL
      <3>1. seen[f[i]] = 0 BY <1>0, <1>1, <1>5, <2>1 DEF ReadInv
      <3>2. QED BY <1>9, <3>1
    <2>2. CASE cursor # NIL
      <3>1. PICK q \in 1 .. n : f[q] = cursor /\ \A m \in 1 .. n : seen[f[m]] > 0 => m < q
        BY <1>1, <1>9, <2>2 DEF Waits
      <3>2. q = p BY <1>5, <2>2, <3>1
      <3>3. QED BY <1>9, <3>1, <3>2
    <2>3. QED BY <2>1, <2>2
  <1>10. \A k \in Keys : seen[k] \in 0 .. 2 /\ seen'[k] \in 0 .. 2
    BY <1>0, <1>1 DEF ReadInv, Shown
  <1>11. ASSUME NEW i \in 1 .. n, f[i] \in stayed, seen'[f[i]] = 0 PROVE end <= i
    <2>1. f[i] \notin page.keys BY <1>1, <1>5, <1>11 DEF Shown
    <2>2. seen[f[i]] = 0 BY <1>1, <1>5, <1>11, <2>1 DEF Shown
    <2>3. p <= i BY <1>8, <1>11, <2>2
    <2>4. QED BY <1>4, <1>6, <2>1, <2>3
  <1>12. ASSUME ~lost, NEW i \in 1 .. n, seen'[f[i]] > 0 PROVE i < end
    <2>1. CASE f[i] \in page.keys BY <1>6, <2>1
    <2>2. CASE f[i] \notin page.keys
      <3>1. seen'[f[i]] = seen[f[i]] BY <1>1, <1>5, <2>2 DEF Shown
      <3>2. i < p BY <1>9, <1>12, <3>1
      <3>3. QED BY <1>4, <3>2
    <2>3. QED BY <2>1, <2>2
  <1>13. ASSUME ~lost, NEW k \in Keys PROVE seen'[k] < 2
    <2>1. seen[k] < 2 BY <1>0, <1>13 DEF ReadInv
    <2>2. CASE k \notin page.keys BY <1>1, <2>1, <2>2 DEF Shown
    <2>3. CASE k \in page.keys
      <3>1. PICK i \in 1 .. n : f[i] = k BY <1>7, <2>3
      <3>2. p <= i BY <1>6, <2>3, <3>1
      <3>3. ~ (seen[k] > 0) BY <1>4, <1>9, <1>13, <3>1, <3>2
      <3>4. seen[k] = 0 BY <1>10, <3>3
      <3>5. seen'[k] = 1 BY <1>1, <2>3, <3>4 DEF Shown
      <3>6. QED BY <3>5
    <2>4. QED BY <2>2, <2>3
  <1>14. end <= n => end \in 1 .. n BY <1>4
  <1>15. /\ cursor' \in Keys \cup {NIL}
         /\ cursor' = NIL => end > n
         /\ reading' <=> end <= n
         /\ reading' \in BOOLEAN
    <2>1. cursor' = IF end <= n THEN f[end] ELSE NIL BY <1>1, <1>3
    <2>2. end <= n \/ end > n BY <1>4
    <2>3. (cursor' \in Keys \cup {NIL}) /\ (cursor' = NIL => end > n)
      BY <1>5, <1>14, <2>1, <2>2
    <2>4. end <= n <=> ~ (end > n) BY <1>4
    <2>5. reading' <=> end <= n BY <1>1, <1>3, <2>4, Zenon
    <2>6. reading' \in BOOLEAN BY <1>1, Zenon
    <2>7. QED BY <2>3, <2>5, <2>6, Zenon
  <1>16. ReadInv'
    <2>1. {k \in Keys : InList(k)}' = {k \in Keys : InList(k)} BY <1>1 DEF InList
    <2>2. stayed' \subseteq {k \in Keys : InList(k)}' BY <1>0, <1>1, <2>1 DEF ReadInv
    <2>3. ASSUME cursor' = NIL, NEW k \in stayed PROVE seen'[k] > 0
      <3>1. k \in Keys /\ InList(k) BY <1>0 DEF ReadInv
      <3>2. PICK i \in 1 .. n : f[i] = k BY <1>2, <3>1, Places
      <3>3. seen'[k] # 0 BY <1>4, <1>11, <1>15, <2>3, <3>2
      <3>4. QED BY <1>10, <3>1, <3>3
    <2>4. ~ (reading' /\ cursor' = NIL) BY <1>4, <1>15
    <2>5. seen' \in [Keys -> 0 .. 2] /\ lost' \in BOOLEAN BY <1>0, <1>1 DEF Shown, ReadInv
    <2>6. QED BY <1>1, <1>13, <1>15, <2>2, <2>3, <2>4, <2>5 DEF ReadInv
  <1>17. Waits(n, f)'
    <2>1. Order(n, f)' BY <1>1, <1>2 DEF Order
    <2>2. ASSUME reading', NEW q \in 1 .. n, NEW i \in 1 .. n,
                 f[q] = cursor', f[i] \in stayed', seen'[f[i]] = 0
          PROVE  q <= i
      <3>1. end \in 1 .. n /\ f[end] = f[q] BY <1>1, <1>3, <1>14, <1>15, <2>2
      <3>2. q = end BY <1>5, <3>1
      <3>3. QED BY <1>1, <1>11, <2>2, <3>2
    <2>3. ASSUME reading', ~lost'
          PROVE  \E q \in 1 .. n : f[q] = cursor' /\ \A i \in 1 .. n : seen'[f[i]] > 0 => i < q
      <3>1. end \in 1 .. n /\ f[end] = cursor' BY <1>1, <1>3, <1>14, <1>15, <2>3
      <3>2. QED BY <1>1, <1>12, <2>3, <3>1
    <2>4. QED BY <2>1, <2>2, <2>3 DEF Waits
  <1>18. OrderInv' BY <1>17 DEF OrderInv
  <1>19. QED BY <1>16, <1>18 DEF PageInv

\* A page, empty or not.
LEMMA ReadPageKeeps ==
  ASSUME PageInv, ReadPage
  PROVE  PageInv'
  <1>1. PICK n \in Nat : \E f \in [0 .. n + 1 -> Keys \cup {HEAD, NIL}] : Waits(n, f)
    BY DEF PageInv, OrderInv
  <1>2. PICK f \in [0 .. n + 1 -> Keys \cup {HEAD, NIL}] : Waits(n, f) BY <1>1
  <1>3. Order(n, f) BY <1>2 DEF Waits
  <1>4. cursor \in Keys \cup {NIL} BY DEF PageInv, ReadInv
  <1>5. CASE cursor = NIL
    <2>1. list[HEAD].next = f[1] /\ f[n + 1] = NIL BY <1>3 DEF Order, Chained
    <2>2. CASE n = 0 BY <1>5, <2>1, <2>2, EmptyPageKeeps
    <2>3. CASE n # 0
      <3>1. 1 \in 1 .. n BY <2>3
      <3>2. f[1] = IF cursor = NIL THEN list[HEAD].next ELSE cursor BY <1>5, <2>1
      <3>3. QED BY <1>2, <3>1, <3>2, FullPageKeeps
    <2>4. QED BY <2>2, <2>3
  <1>6. CASE cursor # NIL
    <2>1. CASE ~InList(cursor) BY <1>6, <2>1, EmptyPageKeeps
    <2>2. CASE InList(cursor)
      <3>1. PICK p \in 1 .. n : f[p] = cursor BY <1>3, <1>4, <1>6, <2>2, Places
      <3>2. f[p] = IF cursor = NIL THEN list[HEAD].next ELSE cursor BY <1>6, <3>1
      <3>3. QED BY <1>2, <1>6, <3>2, FullPageKeeps
    <2>3. QED BY <2>1, <2>2
  <1>7. QED BY <1>5, <1>6

\* Every step.
LEMMA PageStep ==
  ASSUME PageInv, [Next]_vars
  PROVE  PageInv'
  <1>1. CASE Change BY <1>1, InsertKeeps, RemoveKeeps DEF Change
  <1>2. CASE Begin BY <1>2, BeginKeeps
  <1>3. CASE ReadPage BY <1>3, ReadPageKeeps
  <1>4. CASE UNCHANGED vars
    <2>1. UNCHANGED <<list, cursor, reading, seen, stayed, lost>> BY <1>4 DEF vars
    <2>2. ReadInv'
      <3>1. {k \in Keys : InList(k)}' = {k \in Keys : InList(k)} BY <2>1 DEF InList
      <3>2. QED BY <2>1, <3>1 DEF PageInv, ReadInv
    <2>3. OrderInv' BY <2>1 DEF PageInv, OrderInv, Waits, Order
    <2>4. QED BY <2>2, <2>3 DEF PageInv
  <1>5. QED BY <1>1, <1>2, <1>3, <1>4 DEF Next

LEMMA PagesInOrder == Spec => []PageInv
  <1>1. Init => PageInv BY InitPages
  <1>2. PageInv /\ [Next]_vars => PageInv' BY PageStep
  <1>3. QED BY <1>1, <1>2, PTL DEF Spec

(***************************************************************************)
(* A client of getDelegators or getDelegations that is told there is       *)
(* nothing more has been given everybody who was in the list all the time, *)
(* whoever came and left between its pages, and in however many pages.     *)
(***************************************************************************)
THEOREM ReadsAreComplete == Spec => []CompleteRead
  <1>1. PageInv => CompleteRead BY DEF PageInv, ReadInv, CompleteRead
  <1>2. QED BY <1>1, PagesInOrder, PTL

(***************************************************************************)
(* Nobody is given twice to a client whose next start key stays in the     *)
(* list: linked_list_insert puts new keys in front.                        *)
(***************************************************************************)
THEOREM NothingReadTwice == Spec => []NoRepetition
  <1>1. PageInv => NoRepetition BY DEF PageInv, ReadInv, NoRepetition
  <1>2. QED BY <1>1, PagesInOrder, PTL
=============================================================================
