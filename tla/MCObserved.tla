---------------------------- MODULE MCObserved ----------------------------
(***************************************************************************)
(* An instance of Observers for TLC.                                       *)
(***************************************************************************)
EXTENDS Observers, TLC

CONSTANTS A, B, d1

Forward == {<<A, B>>}

(* The points in the first collection may be lost.                         *)
Fragile == {<<A, d1>>}
=============================================================================
