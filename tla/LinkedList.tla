----------------------------- MODULE LinkedList -----------------------------
(***************************************************************************)
(* The intrusive doubly linked list of the staking precompile              *)
(* (staking/write.rs, linked_list_insert and linked_list_remove).  The     *)
(* code has two copies of the same algorithm, one whose keys are           *)
(* delegator addresses (anext/aprev, the delegators of a validator) and    *)
(* one whose keys are validator ids (inext/iprev, the validators of a      *)
(* delegator).  Here a list is a function from keys to nodes; `head' is    *)
(* the sentinel key, `nil' the empty key (address zero, id 0).             *)
(***************************************************************************)
LOCAL INSTANCE Naturals
LOCAL INSTANCE Sequences

EmptyList(keys, nil) == [k \in keys |-> [prev |-> nil, next |-> nil]]

\* A slip: the node that was first keeps pointing back at the sentinel.
InsertWithoutBackLink(list, x, head, nil) ==
    IF list[x].prev # nil
    THEN list
    ELSE [list EXCEPT ![x] = [prev |-> head, next |-> list[head].next],
                      ![head].next = x]

(***************************************************************************)
(* A key whose prev pointer is set is already in the list.  Otherwise it   *)
(* goes right after the sentinel, in front of the most recent one.         *)
(***************************************************************************)
LinkedListInsert(list, x, head, nil) ==
    LET second == list[head].next
        pushed == [list EXCEPT ![x] = [prev |-> head, next |-> second],
                               ![head].next = x]
    IN  IF list[x].prev # nil
        THEN list
        ELSE IF second # nil
             THEN [pushed EXCEPT ![second].prev = x]
             ELSE pushed

LinkedListRemove(list, x, nil) ==
    LET before  == list[x].prev
        after   == list[x].next
        skipped == [list EXCEPT ![before].next = after]
        joined  == IF after # nil
                   THEN [skipped EXCEPT ![after].prev = before]
                   ELSE skipped
    IN  IF before = nil
        THEN list
        ELSE [joined EXCEPT ![x] = [prev |-> nil, next |-> nil]]

-----------------------------------------------------------------------------
(***************************************************************************)
(* What a reader that follows the next pointers from the sentinel sees:    *)
(* walk[n] holds the first n keys at most.  A list of at most `size' keys  *)
(* ends by then; a cycle shows as a repeated key.                          *)
(***************************************************************************)
Traversal(list, head, nil, size) ==
    LET walk[n \in 0 .. size] ==
            IF n = 0
            THEN <<>>
            ELSE LET seen == walk[n - 1]
                     key  == IF seen = <<>> THEN list[head].next
                             ELSE list[seen[Len(seen)]].next
                 IN  IF key = nil \/ Len(seen) < n - 1 THEN seen
                     ELSE Append(seen, key)
    IN  walk[size]
=============================================================================
