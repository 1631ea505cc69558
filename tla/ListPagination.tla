--------------------------- MODULE ListPagination ---------------------------
(***************************************************************************)
(* getDelegations and getDelegators (staking/mod.rs): a client reads a     *)
(* linked list page by page, from the sentinel or from the key the page    *)
(* before named, while other transactions insert keys and remove them.     *)
(* One list of either kind; a page is read at once, between transactions.  *)
(***************************************************************************)
EXTENDS LinkedList, Naturals, Sequences, FiniteSets

CONSTANTS
    Keys,                     \* the keys that enter and leave the list
    HEAD,                     \* the sentinel key
    NIL,                      \* the empty key
    LINKED_LIST_PAGINATION    \* most keys in a page

ASSUME PaginationAssumption ==
    /\ HEAD \notin Keys
    /\ NIL \notin Keys
    /\ HEAD # NIL
    /\ LINKED_LIST_PAGINATION \in Nat \ {0}

VARIABLES
    list,       \* the list in storage
    cursor,     \* the key the next page starts from, NIL for the first
    reading,    \* whether the client has still pages to read
    seen,       \* how often each key was returned, twice standing for more
    stayed,     \* history: keys in the list since the client began
    lost        \* history: whether the cursor ever left the list

vars == <<list, cursor, reading, seen, stayed, lost>>

InList(k) == list[k].prev # NIL

(***************************************************************************)
(* traverse_delegators_for_validator.  A start key that is not in the list *)
(* ends the read with an empty page that repeats it.                       *)
(***************************************************************************)
Page(start) ==
    LET first == IF start = NIL THEN list[HEAD].next ELSE start
        reached[n \in 0 .. LINKED_LIST_PAGINATION] ==
            IF n = 0 THEN first
            ELSE IF reached[n - 1] = NIL THEN NIL
            ELSE list[reached[n - 1]].next
        last == reached[LINKED_LIST_PAGINATION]
    IN  IF first = NIL THEN [done |-> TRUE, next |-> NIL, keys |-> {}]
        ELSE IF ~InList(first) THEN [done |-> TRUE, next |-> first, keys |-> {}]
        ELSE [done |-> last = NIL,
              next |-> last,
              keys |-> {reached[n] : n \in 0 .. LINKED_LIST_PAGINATION - 1} \ {NIL}]

\* A slip: the start key is not looked at.
AlwaysFirstPage(start) == Page(NIL)

\* A slip: a page shows the key that the next page starts from.
PageTooLong(start) ==
    LET page == Page(start)
    IN  [page EXCEPT !.keys = @ \cup ({page.next} \ {NIL})]

\* A slip: the next page starts after the key it should start from.
PageSkipping(start) ==
    LET page == Page(start)
        after == IF page.done THEN page.next ELSE list[page.next].next
    IN  [page EXCEPT !.next = after, !.done = @ \/ after = NIL]

\* The page the client is answered with.
Answer(start) == Page(start)

Init ==
    /\ list = EmptyList(Keys \cup {HEAD}, NIL)
    /\ cursor = NIL
    /\ reading = FALSE
    /\ seen = [k \in Keys |-> 0]
    /\ stayed = {}
    /\ lost = FALSE

\* A first delegation of k.
Insert(k) ==
    /\ ~InList(k)
    /\ list' = LinkedListInsert(list, k, HEAD, NIL)
    /\ UNCHANGED <<cursor, reading, seen, stayed, lost>>

\* All stake of k leaves.
Remove(k) ==
    /\ InList(k)
    /\ list' = LinkedListRemove(list, k, NIL)
    /\ stayed' = stayed \ {k}
    /\ lost' = (lost \/ (reading /\ cursor = k))
    /\ UNCHANGED <<cursor, reading, seen>>

Begin ==
    /\ ~reading
    /\ reading' = TRUE
    /\ cursor' = NIL
    /\ seen' = [k \in Keys |-> 0]
    /\ stayed' = {k \in Keys : InList(k)}
    /\ lost' = FALSE
    /\ UNCHANGED list

ReadPage ==
    LET page == Answer(cursor)
    IN  /\ reading
        /\ seen' = [k \in Keys |->
              IF k \in page.keys /\ seen[k] < 2 THEN seen[k] + 1 ELSE seen[k]]
        /\ cursor' = page.next
        /\ reading' = ~page.done
        /\ UNCHANGED <<list, stayed, lost>>

Change == \E k \in Keys : Insert(k) \/ Remove(k)

Next == Change \/ Begin \/ ReadPage

Spec == Init /\ [][Next]_vars

\* A client that has begun goes on asking.
FairSpec == Spec /\ WF_vars(ReadPage)

-----------------------------------------------------------------------------
(***************************************************************************)
(* A read that ends with the empty key is complete: every delegator that   *)
(* stayed in the list was returned, whatever was inserted and removed      *)
(* between the pages.  (A read that ends with a key that left the list is  *)
(* not, and the client can tell.)                                          *)
(***************************************************************************)
CompleteRead ==
    ~reading /\ cursor = NIL => \A k \in stayed : seen[k] > 0

(***************************************************************************)
(* Nothing is returned twice as long as the key the client waits with      *)
(* stays in the list: new keys go in front, behind the client.             *)
(***************************************************************************)
NoRepetition == ~lost => \A k \in Keys : seen[k] < 2

(***************************************************************************)
(* A read comes to its end although the list keeps changing: the keys in   *)
(* front of the client are not waited for.  A read whose start key left    *)
(* while the client waited with it is excused: if the key comes back it is *)
(* at the front, and a key that does so before every call would make the   *)
(* client begin again for ever.                                            *)
(***************************************************************************)
ReadsEnd == []<>(~reading \/ lost)
=============================================================================
