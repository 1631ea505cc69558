------------------------------ MODULE MCOracle ------------------------------
(***************************************************************************)
(* Three keys, one of them faulty, for TLC.                                *)
(***************************************************************************)
EXTENDS HeaderOracle

Entry(k, n) == [pkHash |-> k, stake |-> n]

\* An even set, and one that the faulty key has no part in.
TwoEpochSets == {<<Entry(1, 1), Entry(2, 1), Entry(3, 1)>>, <<Entry(3, 1), Entry(1, 2)>>}
=============================================================================
