--------------------------- MODULE VectorCleanup ---------------------------
(***************************************************************************)
(* The cleanup component: process_next_vector_cleanup_job deletes a        *)
(* document's vectors from a collection an activation has vacated.  A      *)
(* cleanup job has no PROCESSING status: the claim releases its row lock   *)
(* without marking the row.                                                *)
(***************************************************************************)
EXTENDS DocumentStore

VARIABLE cleaner  \* one session per running cleanup worker

CleanerSession ==
  [at : {"idle", "claimed", "allowed", "erased"}, job : Nat, loaded : CleanupStatus \cup {None}]

NoCleanup == [at |-> "idle", job |-> 0, loaded |-> None]

CleanupType == cleaner \in [Cleaner -> CleanerSession]

CleanersValid ==
  \A w \in Cleaner : cleaner[w].at # "idle" => cleaner[w].job \in DOMAIN cleanup

CleanupInit == cleaner = [w \in Cleaner |-> NoCleanup]

CleanerAt(w, step) == cleaner[w].at = step

CleanedJob(w) == cleanup[cleaner[w].job]

CleanerMoves(w, step) == cleaner' = [cleaner EXCEPT ![w].at = step]

CleanerEnds(w) == cleaner' = [cleaner EXCEPT ![w] = NoCleanup]

(* Mutant: failed jobs are not retried.                                    *)
EligibleOnce == {i \in DOMAIN cleanup : cleanup[i].status = "pending"}

EligibleCleanup == {i \in DOMAIN cleanup : cleanup[i].status \in {"pending", "failed"}}

---------------------------------------------------------------------------
(* The session keeps the row as the claim has read it.                     *)
ClaimCleanup(w) ==
  /\ CleanerAt(w, "idle")
  /\ \E i \in EligibleCleanup :
       /\ Claimable(i, EligibleCleanup, Cleaner)
       /\ cleaner' = [cleaner EXCEPT
            ![w] = [at |-> "claimed", job |-> i, loaded |-> cleanup[i].status]]
  /\ UNCHANGED <<configured, documents, external, tables, client>>

(* Mutant: a status of another table.                                      *)
FailCleanupPartially(w) ==
  /\ cleanup' = [cleanup EXCEPT ![cleaner[w].job].status = "partially_failed"]
  /\ CleanerEnds(w)

(* Mutant: a failed delete is recorded as a success.                       *)
FailCleanupSilently(w) ==
  /\ cleanup' = [cleanup EXCEPT ![cleaner[w].job].status = "completed"]
  /\ CleanerEnds(w)

(* The ORM writes the status only if the row was loaded with another one:  *)
(* a retry that fails does not take back what another worker has COMPLETED *)
(* since, a first attempt does.                                            *)
FailCleanup(w) ==
  /\ cleanup' = IF cleaner[w].loaded = "failed" THEN cleanup
                ELSE [cleanup EXCEPT ![cleaner[w].job].status = "failed"]
  /\ CleanerEnds(w)

(* The guard: refuse the collection the document is served from now.       *)
GuardCleanup(w) ==
  /\ CleanerAt(w, "claimed")
  /\ IF collection[CleanedJob(w).document] = CleanedJob(w).collection
       THEN FailCleanup(w)
       ELSE CleanerMoves(w, "allowed") /\ UNCHANGED cleanup
  /\ UNCHANGED <<configured, documents, external, ingestion, deletion, reindex, client>>

(* Mutant: the current collection is erased instead of the vacated one.    *)
EraseCurrent(w) ==
  /\ CleanerAt(w, "allowed")
  /\ vectors' = vectors \ {<<collection[CleanedJob(w).document], CleanedJob(w).document>>}
  /\ CleanerMoves(w, "erased")
  /\ UNCHANGED <<configured, documents, object, tables, client>>

EraseVacated(w) ==
  /\ CleanerAt(w, "allowed")
  /\ vectors' = vectors \ {<<CleanedJob(w).collection, CleanedJob(w).document>>}
  /\ CleanerMoves(w, "erased")
  /\ UNCHANGED <<configured, documents, object, tables, client>>

(* The delete raised; a lossy one has removed the points nevertheless.     *)
EraseRaises(w) ==
  /\ CleanerAt(w, "allowed")
  /\ FailCleanup(w)
  /\ \/ UNCHANGED vectors
     \/ /\ w \in Lossy
        /\ vectors' = vectors \ {<<CleanedJob(w).collection, CleanedJob(w).document>>}
  /\ UNCHANGED <<configured, documents, object, ingestion, deletion, reindex, client>>

CompleteCleanup(w) ==
  /\ CleanerAt(w, "erased")
  /\ cleanup' = [cleanup EXCEPT ![cleaner[w].job].status = "completed"]
  /\ CleanerEnds(w)
  /\ UNCHANGED <<configured, documents, external, ingestion, deletion, reindex, client>>

CleanerDies(w) ==
  /\ w \in Mortal
  /\ ~CleanerAt(w, "idle")
  /\ CleanerEnds(w)
  /\ UNCHANGED <<configured, documents, external, tables, client>>

---------------------------------------------------------------------------
CleanerStep(w) ==
  \/ ClaimCleanup(w)
  \/ GuardCleanup(w)
  \/ EraseVacated(w)
  \/ EraseRaises(w)
  \/ CompleteCleanup(w)
  \/ CleanerDies(w)

CleanupStep == \E w \in Cleaner : CleanerStep(w)
=============================================================================
