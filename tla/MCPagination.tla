---------------------------- MODULE MCPagination ----------------------------
(***************************************************************************)
(* Small lists read page by page, for TLC.                                 *)
(***************************************************************************)
EXTENDS ListPagination, TLC

=============================================================================
