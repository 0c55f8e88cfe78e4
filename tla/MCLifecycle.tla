---------------------------- MODULE MCLifecycle ----------------------------
(***************************************************************************)
(* Instances of DocumentLifecycle for TLC.  A and B are the collections of *)
(* two indexing configurations.                                            *)
(***************************************************************************)
EXTENDS DocumentLifecycle, TLC

CONSTANTS A, B

(* The settings change once, or are changed back later on.                 *)
Forward == {<<A, B>>}
Rollback == {<<A, B>>, <<B, A>>}

(* Requests are interchangeable; used by runs of invariants only.          *)
Interchangeable == Permutations(Client)
=============================================================================
