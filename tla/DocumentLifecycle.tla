------------------------- MODULE DocumentLifecycle -------------------------
(***************************************************************************)
(* The document lifecycle: every component over the shared store, and the  *)
(* properties that span several of them.                                   *)
(***************************************************************************)
EXTENDS Ingestion, Deletion, Reindexing, VectorCleanup

workers == <<ingestor, deleter, builder, cleaner>>

vars == <<configured, documents, external, tables, client, workers>>

Init ==
  /\ StoreInit
  /\ IngestionInit
  /\ DeletionInit
  /\ ReindexingInit
  /\ CleanupInit

Next ==
  \/ IngestionStep /\ UNCHANGED <<deleter, builder, cleaner>>
  \/ DeletionStep /\ UNCHANGED <<ingestor, builder, cleaner>>
  \/ ReindexingStep /\ UNCHANGED <<ingestor, deleter, cleaner>>
  \/ CleanupStep /\ UNCHANGED <<ingestor, deleter, builder>>
  \/ Reconfigure /\ UNCHANGED workers

Spec == Init /\ [][Next]_vars

TypeOK == StoreType /\ IngestionType /\ DeletionType /\ ReindexingType /\ CleanupType

---------------------------------------------------------------------------
(* Jobs and their workers.                                                 *)

(* Two workers never process the same job.  Every claim is a SELECT ... FOR*)
(* UPDATE SKIP LOCKED followed by the commit of PROCESSING, and no path    *)
(* puts a PROCESSING row back to PENDING; a stale row is replaced instead. *)
HeldOnce == HeldOnceBy(ingestor) /\ HeldOnceBy(deleter) /\ HeldOnceBy(builder)

(* IngestionJob rows are append-only history: a FAILED attempt is never    *)
(* revived, not by the worker whose row recovery has failed meanwhile.     *)
FailedStaysFailed ==
  [][\A i \in DOMAIN ingestion :
       ingestion[i].status = "failed" => ingestion'[i].status = "failed"]_vars

(* process_next_job() resolves the job it claimed: a worker that lives to  *)
(* the end of the call, whatever was raised inside, leaves no active row.  *)
WorkersSettleTheirJobs ==
  [][\A w \in Ingestor :
       ~IngestorAt(w, "idle") /\ ingestor'[w].at = "idle"
         => ingestion'[ingestor[w].job].status \notin Active]_vars

---------------------------------------------------------------------------
(* Deletion.                                                               *)

(* A document reported as deleted is in no collection any more.            *)
DeletedMeansUnsearchable ==
  \A i \in DOMAIN deletion, c \in Collection :
    deletion[i].status = "completed" => <<c, deletion[i].document>> \notin vectors

(* A deletion never races an ingestion or a build: request_document_       *)
(* deletion refuses while one is active, retry and schedule_reindex refuse *)
(* once a deletion exists.                                                 *)
DeletionExcludesWriters ==
  \A d \in Document :
    ActiveRows(deletion, d) # {} =>
      ActiveRows(ingestion, d) = {} /\ ActiveRows(reindex, d) = {}

(* What lets delete_all_tracked_document_vectors() find every point: a     *)
(* collection holding points of a document is its current one, has an open *)
(* cleanup job or a COMPLETED build, unless a job is still writing.        *)
VectorsTracked ==
  \A d \in Document, c \in Collection :
    <<c, d>> \in vectors =>
      \/ c \in Tracked(d)
      \/ ActiveRows(ingestion, d) # {}
      \/ ActiveRows(reindex, d) # {}

(* The invariant all of the above about workers and erasing rests on: what *)
(* every session holds and has established, with the properties that need  *)
(* each other to be preserved by every step.                               *)
SessionsConsistent ==
  /\ ClientsValid /\ IngestorsValid /\ DeletersValid /\ BuildersValid /\ CleanersValid
  /\ HeldOnce /\ VectorsBeforeStorage /\ DeletedMeansErased /\ HashHeldUntilDeleted

---------------------------------------------------------------------------
(* Re-indexing.                                                            *)

(* A document is served from a collection that holds its points, through   *)
(* build, activation and cleanup, until its deletion is requested.         *)
ServingVectorsPresent ==
  \A d \in Document :
    RowsOf(deletion, d) = {} /\ collection[d] # None => <<collection[d], d>> \in vectors

(* The cleanup guard: points of the collection a document is served from   *)
(* are only ever erased by a deletion of the document.                     *)
CleanupSparesServing ==
  [][\A d \in Document :
       <<collection[d], d>> \in vectors \ vectors' => RowsOf(deletion, d) # {}]_vars

(* A COMPLETED cleanup has erased, also when two workers process its row   *)
(* and the one that fails, or is slower, records its outcome last.         *)
CleanupsErase ==
  \A i \in DOMAIN cleanup :
    cleanup[i].status = "completed" => <<cleanup[i].collection, cleanup[i].document>> \notin vectors

(* Each activated job has moved its document once: there is one cleanup    *)
(* obligation per activated build, with repeated and concurrent requests.  *)
ActivatedOnce ==
  \A d \in Document :
    Cardinality(RowsOf(cleanup, d)) = Cardinality({i \in RowsOf(reindex, d) : reindex[i].activated})

(* Once a deletion is requested the document is moved nowhere: what the    *)
(* deletion worker read as the current collection stays the current one.   *)
DeletedStaysPut ==
  [][\A d \in Document :
       RowsOf(deletion, d) # {} => collection'[d] = collection[d]]_vars

---------------------------------------------------------------------------
(* What a client of the API sees.                                          *)

(* derive_lifecycle_status(): the latest deletion job, if any, decides;    *)
(* otherwise the latest ingestion job does.                                *)
LifecycleStatus(d) ==
  CASE LatestIn(deletion, d, Active)               -> "deleting"
    [] LatestIn(deletion, d, {"partially_failed"}) -> "deletion_failed"
    [] LatestIn(deletion, d, {"completed"})        -> "deleted"
    [] RowsOf(deletion, d) = {} /\ LatestIn(ingestion, d, {"pending"})    -> "pending"
    [] RowsOf(deletion, d) = {} /\ LatestIn(ingestion, d, {"processing"}) -> "processing"
    [] RowsOf(deletion, d) = {} /\ LatestIn(ingestion, d, {"failed"})     -> "failed"
    [] RowsOf(deletion, d) = {} /\ LatestIn(ingestion, d, {"completed"})  -> "indexed"

(* A deleted document stays deleted: a DELETE that finds the latest job    *)
(* COMPLETED creates no new one.                                           *)
DeletedIsFinal ==
  [][\A d \in Document : LifecycleStatus(d) = "deleted" => LifecycleStatus(d)' = "deleted"]_vars

Promise == INSTANCE DocumentPromise WITH
  status     <- [d \in Document |-> LifecycleStatus(d)],
  searchable <- {d \in Document : \E c \in Collection : <<c, d>> \in vectors},
  stored     <- object,
  reserved   <- hashed

(* The components together keep the promise: every step of theirs is a     *)
(* step of DocumentPromise, or changes nothing of what it speaks about.    *)
KeepsPromise == Promise!Spec

---------------------------------------------------------------------------
(* Liveness: operators keep invoking the worker and recovery scripts, and  *)
(* a vector store asked again and again to erase succeeds at last.         *)

ScriptsKeepRunning ==
  /\ \A w \in Ingestor : WF_vars(IngestorStep(w) /\ UNCHANGED <<deleter, builder, cleaner>>)
  /\ WF_vars(RecoveryStep /\ UNCHANGED <<deleter, builder, cleaner>>)
  /\ \A w \in Deleter : WF_vars(DeleterStep(w) /\ UNCHANGED <<ingestor, builder, cleaner>>)
  /\ \A w \in Builder : WF_vars(BuilderStep(w) /\ UNCHANGED <<ingestor, deleter, cleaner>>)
  /\ \A w \in Cleaner :
       /\ WF_vars(CleanerStep(w) /\ UNCHANGED <<ingestor, deleter, builder>>)
       /\ SF_vars(EraseVacated(w) /\ UNCHANGED <<ingestor, deleter, builder>>)

FairSpec == Spec /\ ScriptsKeepRunning

(* An ingestion is not left pending or processing for ever: not by dead    *)
(* workers, not by a lost race to register a collection.                   *)
IngestionSettles ==
  \A d \in Document :
    ActiveRows(ingestion, d) # {} ~> ActiveRows(ingestion, d) = {}

(* Collection c owes the removal of a document that has moved elsewhere.   *)
Owes(c, d) == collection[d] # c /\ c \in CleanupCollections(d)

(* A vacated collection is cleaned at last, or serves the document again.  *)
VacatedIsCleaned == \A c \in Collection, d \in Document : Owes(c, d) ~> ~Owes(c, d)

(* An accepted deletion ends, and a document whose deletion did not fail   *)
(* is deleted.                                                             *)
DeletionSettles ==
  \A d \in Document :
    LifecycleStatus(d) = "deleting" ~> LifecycleStatus(d) \in {"deletion_failed", "deleted"}
=============================================================================
