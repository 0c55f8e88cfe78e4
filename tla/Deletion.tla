------------------------------ MODULE Deletion ------------------------------
(***************************************************************************)
(* The deletion component: DELETE /documents/{id} and the                  *)
(* DocumentDeletionWorker, which removes a document's vectors from every   *)
(* tracked collection, then its original, then releases its content hash.  *)
(***************************************************************************)
EXTENDS DocumentStore

VARIABLE deleter  \* one session per running DocumentDeletionWorker

DeleterSession ==
  [at : {"idle", "claimed", "cleanups_read", "erasing", "vectors_done", "object_done"},
   job : Nat, todo : SUBSET Collection, failed : BOOLEAN]

NoDeletion == [at |-> "idle", job |-> 0, todo |-> {}, failed |-> FALSE]

DeletionType == deleter \in [Deleter -> DeleterSession]

(* A worker holds an existing row that stays PROCESSING; how far it has    *)
(* got is recorded or done.                                                *)
DeletersValid ==
  \A w \in Deleter : deleter[w].at # "idle" =>
    /\ deleter[w].job \in DOMAIN deletion
    /\ deletion[deleter[w].job].status = "processing"
    /\ deleter[w].at \in {"vectors_done", "object_done"} => deletion[deleter[w].job].vectorsDone
    /\ deleter[w].at = "object_done" => deletion[deleter[w].job].document \notin object

DeletionInit == deleter = [w \in Deleter |-> NoDeletion]

DeleterAt(w, step) == deleter[w].at = step

DeleterDocument(w) == deletion[deleter[w].job].document

DeleterMoves(w, step) == deleter' = [deleter EXCEPT ![w].at = step]

DeleterEnds(w) == deleter' = [deleter EXCEPT ![w] = NoDeletion]

PendingDeletion == {i \in DOMAIN deletion : deletion[i].status = "pending"}

PendingDeletionJob(d) ==
  [document |-> d, status |-> "pending", vectorsDone |-> FALSE, storageDone |-> FALSE]

(* documents.collection_name as a set: empty when NULL.                    *)
CurrentCollection(d) == {collection[d]} \ {None}

(* get_pending_cleanup_jobs                                                *)
CleanupCollections(d) ==
  {cleanup[i].collection : i \in {j \in RowsOf(cleanup, d) : cleanup[j].status # "completed"}}

(* Mutant: builds not activated yet are forgotten.                         *)
ActivatedCollections(d) ==
  {reindex[i].target : i \in {j \in RowsOf(reindex, d) : reindex[j].activated}}

(* get_completed_reindex_target_collections                                *)
BuiltCollections(d) ==
  {reindex[i].target : i \in {j \in RowsOf(reindex, d) : reindex[j].status = "completed"}}

(* Everything delete_all_tracked_document_vectors attempts.                *)
Tracked(d) == CurrentCollection(d) \cup CleanupCollections(d) \cup BuiltCollections(d)

---------------------------------------------------------------------------
(* request_document_deletion: three reads, each of a different table, then *)
(* the insert.  The first one locks (FOR UPDATE) the deletion rows there   *)
(* are, until the transaction ends; a document without any locks nothing.  *)

DeletionRowsLocked(d) ==
  \E c \in Client :
    /\ client[c].document = d
    /\ client[c].at \in {"delete_read", "delete_ingestion_checked", "delete_reindex_checked"}
    /\ \E i \in RowsOf(deletion, d) : i <= client[c].row

DeleteReadsDeletions(c, d) ==
  /\ At(c, "idle")
  /\ ~LatestIn(deletion, d, {"completed"} \cup Active)
  /\ HasRoom(deletion, d, MaxDeletion)
  /\ client' = [client EXCEPT
       ![c].at = IF DeletionRowsLocked(d) THEN "delete_waiting" ELSE "delete_read",
       ![c].document = d, ![c].row = Len(deletion)]
  /\ UNCHANGED <<configured, documents, external, tables, deleter>>

(* The rows it waited for are the ones of its own snapshot, the latest of  *)
(* them PARTIALLY_FAILED: a row inserted meanwhile is not seen.            *)
DeleteLocksDeletions(c) ==
  /\ At(c, "delete_waiting")
  /\ ~DeletionRowsLocked(client[c].document)
  /\ Continue(c, "delete_read")
  /\ UNCHANGED <<configured, documents, external, tables, deleter>>

DeleteReadsIngestions(c) ==
  /\ At(c, "delete_read")
  /\ IF LatestIn(ingestion, client[c].document, Active)
       THEN Reply(c)
       ELSE Continue(c, "delete_ingestion_checked")
  /\ UNCHANGED <<configured, documents, external, tables, deleter>>

(* Mutant: an active build does not block the deletion.                    *)
DeleteIgnoresReindexes(c) ==
  /\ At(c, "delete_ingestion_checked")
  /\ Continue(c, "delete_reindex_checked")
  /\ UNCHANGED <<configured, documents, external, tables, deleter>>

DeleteReadsReindexes(c) ==
  /\ At(c, "delete_ingestion_checked")
  /\ IF ActiveRows(reindex, client[c].document) # {}
       THEN Reply(c)
       ELSE Continue(c, "delete_reindex_checked")
  /\ UNCHANGED <<configured, documents, external, tables, deleter>>

DeleteCommits(c) ==
  /\ At(c, "delete_reindex_checked")
  /\ LET new == Append(deletion, PendingDeletionJob(client[c].document))
     IN  deletion' = IF OneActive(new) THEN new ELSE deletion
  /\ Reply(c)
  /\ UNCHANGED <<configured, documents, external, ingestion, reindex, cleanup, deleter>>

---------------------------------------------------------------------------
(* DocumentDeletionWorker.process_next_job.                                *)

(* The claim commits PROCESSING; the Document loaded next fixes the current*)
(* collection this attempt will clean.                                     *)
ClaimDeletion(w) ==
  /\ DeleterAt(w, "idle")
  /\ \E i \in PendingDeletion :
       /\ Claimable(i, PendingDeletion, Deleter \cup Client)
       /\ deletion' = [deletion EXCEPT ![i].status = "processing"]
       /\ deleter' = [deleter EXCEPT
            ![w] = [at |-> "claimed", job |-> i, failed |-> FALSE,
                    todo |-> CurrentCollection(deletion[i].document)]]
  /\ UNCHANGED <<configured, documents, external, ingestion, reindex, cleanup, client>>

TrackCleanups(w) ==
  /\ DeleterAt(w, "claimed")
  /\ deleter' = [deleter EXCEPT ![w].at = "cleanups_read",
                                ![w].todo = @ \cup CleanupCollections(DeleterDocument(w))]
  /\ UNCHANGED <<configured, documents, external, tables, client>>

TrackBuilds(w) ==
  /\ DeleterAt(w, "cleanups_read")
  /\ deleter' = [deleter EXCEPT ![w].at = "erasing",
                                ![w].todo = @ \cup BuiltCollections(DeleterDocument(w))]
  /\ UNCHANGED <<configured, documents, external, tables, client>>

(* One delete_by_document_id; a failure is recorded and the others are     *)
(* still attempted.                                                        *)
EraseFrom(w, c) ==
  /\ DeleterAt(w, "erasing")
  /\ c \in deleter[w].todo
  /\ \/ /\ vectors' = vectors \ {<<c, DeleterDocument(w)>>}
        /\ deleter' = [deleter EXCEPT ![w].todo = @ \ {c}]
     \/ /\ UNCHANGED vectors
        /\ deleter' = [deleter EXCEPT ![w].todo = @ \ {c}, ![w].failed = TRUE]
     \/ /\ w \in Lossy
        /\ vectors' = vectors \ {<<c, DeleterDocument(w)>>}
        /\ deleter' = [deleter EXCEPT ![w].todo = @ \ {c}, ![w].failed = TRUE]
  /\ UNCHANGED <<configured, documents, object, tables, client>>

(* Mutant: a failure to clean some collection is not looked at.            *)
RecordAnyCleanup(w) ==
  /\ DeleterAt(w, "erasing")
  /\ deleter[w].todo = {}
  /\ deletion' = [deletion EXCEPT ![deleter[w].job].vectorsDone = ~deleter[w].failed]
  /\ DeleterMoves(w, "vectors_done")
  /\ UNCHANGED <<configured, documents, external, ingestion, reindex, cleanup, client>>

RecordVectorCleanup(w) ==
  /\ DeleterAt(w, "erasing")
  /\ deleter[w].todo = {}
  /\ IF deleter[w].failed
       THEN /\ deletion' = [deletion EXCEPT ![deleter[w].job].status = "partially_failed"]
            /\ DeleterEnds(w)
       ELSE /\ deletion' = [deletion EXCEPT ![deleter[w].job].vectorsDone = TRUE]
            /\ DeleterMoves(w, "vectors_done")
  /\ UNCHANGED <<configured, documents, external, ingestion, reindex, cleanup, client>>

EraseObject(w) ==
  /\ DeleterAt(w, "vectors_done")
  /\ object' = object \ {DeleterDocument(w)}
  /\ DeleterMoves(w, "object_done")
  /\ UNCHANGED <<configured, documents, vectors, tables, client>>

(* Mutant: the hash is released by a failed attempt as well.               *)
FailObjectReleasing(w) ==
  /\ DeleterAt(w, "vectors_done")
  /\ deletion' = [deletion EXCEPT ![deleter[w].job].status = "partially_failed"]
  /\ hashed' = hashed \ {DeleterDocument(w)}
  /\ DeleterEnds(w)
  /\ UNCHANGED <<configured, registered, collection, external, ingestion, reindex, cleanup, client>>

(* Mutant: the failure is not committed.                                   *)
FailObjectUnrecorded(w) ==
  /\ DeleterAt(w, "vectors_done")
  /\ DeleterEnds(w)
  /\ UNCHANGED <<configured, documents, external, tables, client>>

(* StorageError, committed as PARTIALLY_FAILED.  A lossy delete has removed*)
(* the object nevertheless.                                                *)
FailObject(w) ==
  /\ DeleterAt(w, "vectors_done")
  /\ deletion' = [deletion EXCEPT ![deleter[w].job].status = "partially_failed"]
  /\ \/ UNCHANGED object
     \/ w \in Lossy /\ object' = object \ {DeleterDocument(w)}
  /\ DeleterEnds(w)
  /\ UNCHANGED <<configured, documents, vectors, ingestion, reindex, cleanup, client>>

(* Mutant: the hash is not released.                                       *)
CompleteDeletionKeepingHash(w) ==
  /\ DeleterAt(w, "object_done")
  /\ deletion' = [deletion EXCEPT ![deleter[w].job].status = "completed",
                                  ![deleter[w].job].storageDone = TRUE]
  /\ DeleterEnds(w)
  /\ UNCHANGED <<configured, documents, external, ingestion, reindex, cleanup, client>>

(* COMPLETED and the release of the content hash are one commit.           *)
CompleteDeletion(w) ==
  /\ DeleterAt(w, "object_done")
  /\ deletion' = [deletion EXCEPT ![deleter[w].job].status = "completed",
                                  ![deleter[w].job].storageDone = TRUE]
  /\ hashed' = hashed \ {DeleterDocument(w)}
  /\ DeleterEnds(w)
  /\ UNCHANGED <<configured, registered, collection, external, ingestion, reindex, cleanup, client>>

(* Nothing recovers the PROCESSING row of a dead deletion worker.          *)
DeleterDies(w) ==
  /\ w \in Mortal
  /\ ~DeleterAt(w, "idle")
  /\ DeleterEnds(w)
  /\ UNCHANGED <<configured, documents, external, tables, client>>

---------------------------------------------------------------------------
DeleterStep(w) ==
  \/ ClaimDeletion(w)
  \/ TrackCleanups(w)
  \/ TrackBuilds(w)
  \/ \E c \in Collection : EraseFrom(w, c)
  \/ RecordVectorCleanup(w)
  \/ EraseObject(w)
  \/ FailObject(w)
  \/ CompleteDeletion(w)
  \/ DeleterDies(w)

DeleteStep(c) ==
  \/ \E d \in Document : DeleteReadsDeletions(c, d)
  \/ DeleteLocksDeletions(c)
  \/ DeleteReadsIngestions(c)
  \/ DeleteReadsReindexes(c)
  \/ DeleteCommits(c)

DeletionStep ==
  \/ \E w \in Deleter : DeleterStep(w)
  \/ \E c \in Client : DeleteStep(c)

---------------------------------------------------------------------------
(* What the deletion protocol guarantees on its own.                       *)

(* An original leaves the storage only after some deletion attempt has     *)
(* recorded that every tracked collection was cleaned.                     *)
VectorsBeforeStorage ==
  \A d \in Document \ object : \E i \in RowsOf(deletion, d) : deletion[i].vectorsDone

(* A COMPLETED deletion has done both of its steps and has released the    *)
(* hash: no later attempt, failure or second worker takes that back.       *)
DeletedMeansErased ==
  \A i \in DOMAIN deletion :
    deletion[i].status = "completed" =>
      /\ deletion[i].vectorsDone /\ deletion[i].storageDone
      /\ deletion[i].document \notin object \cup hashed

(* The content hash is released by nothing but a COMPLETED deletion, so the*)
(* same bytes are not accepted as a new document before.                   *)
HashHeldUntilDeleted ==
  \A d \in Document \ hashed :
    \E i \in RowsOf(deletion, d) : deletion[i].status = "completed"
=============================================================================
