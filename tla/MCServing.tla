----------------------------- MODULE MCServing -----------------------------
(***************************************************************************)
(* An instance of ChatAnswer for TLC: sessions in small teams, one         *)
(* document of two chunks, and pages of up to five words for the chunker.  *)
(***************************************************************************)
EXTENDS ChatAnswer, TLC

CONSTANTS A, d1, i1, i2, e1, s1, r1, p1, p2, a1

Everyone == {i1, i2, e1, s1, r1, p1, p2, a1}

Pages == UNION {[1..n -> {1, 2, 3, 5, 7}] : n \in 0..5}

TwoChunks == << <<2, 3>>, <<>>, <<4>> >>

(* Small teams of sessions with every configuration of the collection; and *)
(* every page for the chunker, alone.                                      *)
Scenarios ==
  {[sessions |-> team, texts |-> {TwoChunks, << <<>> >>}, sizes |-> Size] :
     team \in {{i1, i2}, {i1, e1}, {i1, a1}, {a1, e1}, {s1, r1}, {s1, p1}, {p1, p2}}}
    \cup {[sessions |-> {}, texts |-> {<<page>> : page \in Pages}, sizes |-> {"right"}]}

Questions ==
  {[words |-> w, extraction |-> x, retrieval |-> r] :
     w \in {"few", "some"}, x \in BOOLEAN, r \in BOOLEAN}
=============================================================================
