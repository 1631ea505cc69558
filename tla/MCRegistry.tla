----------------------------- MODULE MCRegistry -----------------------------
(***************************************************************************)
(* A multisig of three signers and two candidate sets, for TLC.            *)
(***************************************************************************)
EXTENDS ValidatorRegistry, TLC

\* Signers are interchangeable.
AnySigners == Permutations(Signers)

Entry(k, n) == [pkHash |-> k, stake |-> n]

\* Two proposals compete; one of them names a key twice, with more
\* stake the second time.
TwoSets == {<<Entry(1, 1), Entry(2, 1)>>, <<Entry(1, 1), Entry(1, 2)>>}
=============================================================================
