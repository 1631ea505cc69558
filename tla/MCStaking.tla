----------------------------- MODULE MCStaking -----------------------------
(***************************************************************************)
(* Small instances of the staking precompile for TLC.  The cfg files give  *)
(* the constants their values.                                             *)
(***************************************************************************)
EXTENDS StakingSafety, TLC

\* Accounts and consensus keys are interchangeable: no definition chooses
\* among either.
Identities == Permutations(Addrs) \cup Permutations(BlsKeys)
=============================================================================
