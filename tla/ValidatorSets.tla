--------------------------- MODULE ValidatorSets ---------------------------
(***************************************************************************)
(* The arrays of validator ids the staking precompile keeps                *)
(* (staking/write.rs): the execution set, an array with a membership       *)
(* bitset beside it, and the consensus set built from it at a snapshot.    *)
(***************************************************************************)
EXTENDS Naturals, Sequences, FiniteSets

Members(array) == {array[i] : i \in DOMAIN array}

NoDuplicates(array) == Cardinality(Members(array)) = Len(array)

\* add_to_valset: the bit decides whether the id is appended.
AddToValset(array, bits, v) == IF v \in bits THEN array ELSE Append(array, v)

\* The last element takes the place of the one at i.
PopAndSwap(array, i) ==
    LET n == Len(array)
    IN  [k \in 1 .. n - 1 |-> IF k = i THEN array[n] ELSE array[k]]

\* A slip: the indices to remove were collected once, but are worked through
\* from the first to the last while the array shrinks under them.
CompactForward(array, keep) ==
    LET n == Len(array)
        work[i \in 0 .. n] ==
            IF i = 0 THEN array
            ELSE IF array[i] \in keep \/ i > Len(work[i - 1]) THEN work[i - 1]
            ELSE PopAndSwap(work[i - 1], i)
    IN  work[n]

(***************************************************************************)
(* Compaction of the execution array at a snapshot: every id outside       *)
(* `keep' is removed by pop-and-swap, the highest index first.             *)
(***************************************************************************)
CompactExecution(array, keep) ==
    LET n == Len(array)
        work[i \in 1 .. n + 1] ==
            IF i = n + 1 THEN array
            ELSE IF array[i] \in keep THEN work[i + 1]
            ELSE PopAndSwap(work[i + 1], i)
    IN  work[1]

(***************************************************************************)
(* The `size' ids of `eligible' with the most stake, more stake first and  *)
(* the lower id first among equals.                                        *)
(***************************************************************************)
TopByStake(eligible, stake, size) ==
    LET Before(v, w) == \/ stake[v] > stake[w]
                        \/ stake[v] = stake[w] /\ v < w
        Rank(v) == Cardinality({w \in eligible : Before(w, v)}) + 1
        n == Cardinality(eligible)
    IN  [i \in 1 .. (IF n < size THEN n ELSE size) |->
            CHOOSE v \in eligible : Rank(v) = i]
=============================================================================
