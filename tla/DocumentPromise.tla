-------------------------- MODULE DocumentPromise --------------------------
(***************************************************************************)
(* What the platform promises about a document, whatever jobs, workers and *)
(* collections implement it: the lifecycle status GET /documents/{id}      *)
(* derives, and how searchable content, the stored original and the        *)
(* reserved content hash follow it.                                        *)
(***************************************************************************)
CONSTANT Document

VARIABLES
  status,      \* the derived lifecycle status
  searchable,  \* documents some collection holds points of
  stored,      \* documents whose original can be downloaded
  reserved     \* documents whose content hash blocks a second upload

vars == <<status, searchable, stored, reserved>>

Status == {"pending", "processing", "indexed", "failed", "deleting", "deletion_failed", "deleted"}

TypeOK ==
  /\ status \in [Document -> Status]
  /\ searchable \subseteq Document
  /\ stored \subseteq Document
  /\ reserved \subseteq Document

Init ==
  /\ status = [d \in Document |-> "pending"]
  /\ searchable = {}
  /\ stored = Document
  /\ reserved = Document

Moves(d, from, to) == status[d] \in from /\ status' = [status EXCEPT ![d] = to]

Ingests(d) ==
  /\ \/ Moves(d, {"pending"}, "processing")
     \/ Moves(d, {"processing"}, "indexed")
     \/ Moves(d, {"processing"}, "failed")
     \/ Moves(d, {"processing", "failed"}, "pending")
  /\ UNCHANGED <<searchable, stored, reserved>>

(* Content is published by an ingestion, or ahead by a re-index build.     *)
Publishes(d) ==
  /\ status[d] \in {"processing", "indexed"}
  /\ searchable' = searchable \cup {d}
  /\ UNCHANGED <<status, stored, reserved>>

(* A deletion is only accepted at rest: no job is writing.                 *)
AcceptsDeletion(d) ==
  /\ Moves(d, {"indexed", "failed", "deletion_failed"}, "deleting")
  /\ UNCHANGED <<searchable, stored, reserved>>

(* Content is withdrawn by the deletion; what is left of a failed one may  *)
(* be withdrawn by a cleanup.                                              *)
Withdraws(d) ==
  /\ status[d] \in {"deleting", "deletion_failed"}
  /\ searchable' = searchable \ {d}
  /\ UNCHANGED <<status, stored, reserved>>

(* The original goes only when nothing can be found any more.              *)
ErasesOriginal(d) ==
  /\ status[d] = "deleting"
  /\ d \notin searchable
  /\ stored' = stored \ {d}
  /\ UNCHANGED <<status, searchable, reserved>>

FailsDeletion(d) ==
  /\ Moves(d, {"deleting"}, "deletion_failed")
  /\ stored' \in {stored} \cup IF d \in searchable THEN {} ELSE {stored \ {d}}
  /\ UNCHANGED <<searchable, reserved>>

Deletes(d) ==
  /\ d \notin searchable \cup stored
  /\ Moves(d, {"deleting"}, "deleted")
  /\ reserved' = reserved \ {d}
  /\ UNCHANGED <<searchable, stored>>

Next ==
  \E d \in Document :
    \/ Ingests(d)
    \/ Publishes(d)
    \/ AcceptsDeletion(d)
    \/ Withdraws(d)
    \/ ErasesOriginal(d)
    \/ FailsDeletion(d)
    \/ Deletes(d)

Spec == Init /\ [][Next]_vars
=============================================================================
