------------------------------ MODULE MCPaging ------------------------------
(***************************************************************************)
(* An instance of Paging for TLC.                                          *)
(***************************************************************************)
EXTENDS Paging

Documents == 1..3
Sizes == {1, 2}
=============================================================================
