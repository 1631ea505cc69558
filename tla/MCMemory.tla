------------------------------ MODULE MCMemory ------------------------------
(***************************************************************************)
(* Small instances of MemoryPool for TLC.                                  *)
(***************************************************************************)
EXTENDS MemoryPool

=============================================================================
