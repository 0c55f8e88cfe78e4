------------------------------ MODULE MCUpload ------------------------------
(***************************************************************************)
(* Instances of Upload for TLC.                                            *)
(***************************************************************************)
EXTENDS Upload, TLC

(* Ids and requests are interchangeable; used by runs of invariants only.  *)
Interchangeable == Permutations(Document) \cup Permutations(Uploader)
=============================================================================
