----------------------------- MODULE Ingestion -----------------------------
(***************************************************************************)
(* The ingestion component: IngestionWorker (claim, extract, embed, upsert,*)
(* mark indexed), POST .../ingestion/retry and the recovery of stale jobs. *)
(***************************************************************************)
EXTENDS DocumentStore

VARIABLE ingestor  \* one session per running IngestionWorker

IngestorSession ==
  [at : {"idle", "claimed", "embedded", "registering", "ready", "indexed"},
   job : Nat, target : Collection \cup {None}, base : Collection \cup {None}]

NoIngestion == [at |-> "idle", job |-> 0, target |-> None, base |-> None]

IngestionType == ingestor \in [Ingestor -> IngestorSession]

(* A worker holds an existing row, which is no more offered to a claim, and*)
(* knows its target collection.                                            *)
IngestorsValid ==
  \A w \in Ingestor : ingestor[w].at # "idle" =>
    /\ ingestor[w].job \in DOMAIN ingestion
    /\ ingestion[ingestor[w].job].status # "pending"
    /\ ingestor[w].target \in Collection

IngestionInit == ingestor = [w \in Ingestor |-> NoIngestion]

IngestorAt(w, step) == ingestor[w].at = step

IngestorDocument(w) == ingestion[ingestor[w].job].document

IngestorMoves(w, step) == ingestor' = [ingestor EXCEPT ![w].at = step]

IngestorEnds(w) == ingestor' = [ingestor EXCEPT ![w] = NoIngestion]

(* A worker is processing row i, whatever the row says by now.             *)
Processed(i) == \E w \in Ingestor : ~IngestorAt(w, "idle") /\ ingestor[w].job = i

(* Mutants: a comparison the wrong way round, and one that never holds.    *)
FreshIsStale(i) == Processed(i)
NeverStale(i) == FALSE

(* updated_at is only bumped on status changes, so a slow worker looks     *)
(* dead once it exceeds the threshold.                                     *)
MayBeStale(i) == Overrun \/ ~Processed(i)

(* Mutant: rows left PROCESSING are claimed again.                         *)
UnfinishedIngestion == {i \in DOMAIN ingestion : ingestion[i].status \in Active}

PendingIngestion == {i \in DOMAIN ingestion : ingestion[i].status = "pending"}

PendingIngestionJob(d) == [document |-> d, status |-> "pending"]

---------------------------------------------------------------------------
(* IngestionWorker.process_next_job.                                       *)

(* The claim locks the oldest PENDING row (FOR UPDATE SKIP LOCKED) and     *)
(* commits PROCESSING; the Document is then loaded into the session.       *)
ClaimIngestion(w) ==
  /\ IngestorAt(w, "idle")
  /\ \E i \in PendingIngestion :
       /\ Claimable(i, PendingIngestion, Ingestor \cup Client)
       /\ ingestion' = [ingestion EXCEPT ![i].status = "processing"]
       /\ ingestor' = [ingestor EXCEPT
            ![w] = [at |-> "claimed", job |-> i, target |-> configured,
                    base |-> collection[ingestion[i].document]]]
  /\ UNCHANGED <<configured, documents, external, deletion, reindex, cleanup, client>>

(* Extraction reads the original from storage; chunking and embedding      *)
(* follow.  (Extraction refuses a text without words, and any word yields  *)
(* a chunk: see Chunking.)                                                 *)
ExtractAndEmbed(w) ==
  /\ IngestorAt(w, "claimed")
  /\ IngestorDocument(w) \in object
  /\ IngestorMoves(w, "embedded")
  /\ UNCHANGED <<configured, documents, external, tables, client>>

(* ensure_active_collection: the IndexCollection row is looked up ...      *)
FindIndexCollection(w) ==
  /\ IngestorAt(w, "embedded")
  /\ IngestorMoves(w, IF ingestor[w].target \in registered THEN "ready" ELSE "registering")
  /\ UNCHANGED <<configured, documents, external, tables, client>>

(* ... and inserted when missing.  If another session inserted it since,   *)
(* the IntegrityError leaves the session unusable: the handler's own       *)
(* commit of FAILED raises too, and the job stays PROCESSING.              *)
RegisterIndexCollection(w) ==
  /\ IngestorAt(w, "registering")
  /\ registered' = registered \cup {ingestor[w].target}
  /\ IF ingestor[w].target \in registered THEN IngestorEnds(w) ELSE IngestorMoves(w, "ready")
  /\ UNCHANGED <<configured, collection, hashed, external, tables, client>>

UpsertVectors(w) ==
  /\ IngestorAt(w, "ready")
  /\ vectors' = vectors \cup {<<ingestor[w].target, IngestorDocument(w)>>}
  /\ IngestorMoves(w, "indexed")
  /\ UNCHANGED <<configured, documents, object, tables, client>>

(* Mutant: the failure is not committed.                                   *)
FailIngestionUnrecorded(w) ==
  /\ \E at \in {"claimed", "embedded", "ready"} : IngestorAt(w, at)
  /\ IngestorEnds(w)
  /\ UNCHANGED <<configured, documents, external, tables, client>>

(* Any exception of the processing step: the row becomes FAILED whatever   *)
(* it was.  A lossy upsert has written the points nevertheless.            *)
FailIngestion(w) ==
  /\ \E at \in {"claimed", "embedded", "ready"} : IngestorAt(w, at)
  /\ ingestion' = [ingestion EXCEPT ![ingestor[w].job].status = "failed"]
  /\ \/ UNCHANGED vectors
     \/ /\ w \in Lossy
        /\ IngestorAt(w, "ready")
        /\ vectors' = vectors \cup {<<ingestor[w].target, IngestorDocument(w)>>}
  /\ IngestorEnds(w)
  /\ UNCHANGED <<configured, documents, object, deletion, reindex, cleanup, client>>

(* mark_document_indexed and the commit of COMPLETED.  The ORM only writes *)
(* collection_name when it differs from the value it loaded; a value that  *)
(* is not registered breaks the foreign key, outside any handler.          *)
CompleteIngestion(w) ==
  /\ IngestorAt(w, "indexed")
  /\ LET target == ingestor[w].target
         moves  == target # ingestor[w].base
     IN  IF moves /\ target \notin registered
           THEN UNCHANGED <<ingestion, collection>>
           ELSE /\ ingestion' = [ingestion EXCEPT ![ingestor[w].job].status = "completed"]
                /\ collection' = IF moves
                                   THEN [collection EXCEPT ![IngestorDocument(w)] = target]
                                   ELSE collection
  /\ IngestorEnds(w)
  /\ UNCHANGED <<configured, registered, hashed, external, deletion, reindex, cleanup, client>>

(* Bound: a death leaves room for its recovery, and for the recovery of a  *)
(* registration race lost afterwards.                                      *)
IngestorDies(w) ==
  /\ w \in Mortal
  /\ ~IngestorAt(w, "idle")
  /\ HasRoom(ingestion, IngestorDocument(w), MaxIngestion - 1)
  /\ IngestorEnds(w)
  /\ UNCHANGED <<configured, documents, external, tables, client>>

---------------------------------------------------------------------------
(* retry_ingestion.                                                        *)

(* Any deletion job at all answers DELETION_ACTIVE.                        *)
RetryChecksDeletion(c, d) ==
  /\ At(c, "idle")
  /\ RowsOf(deletion, d) = {}
  /\ HasRoom(ingestion, d, MaxIngestion)
  /\ client' = [client EXCEPT ![c].at = "retry_checked", ![c].document = d]
  /\ UNCHANGED <<configured, documents, external, tables, ingestor>>

(* The snapshot of SELECT ... FOR UPDATE: the rows that exist now.         *)
RetryReadsJobs(c) ==
  /\ At(c, "retry_checked")
  /\ client' = [client EXCEPT ![c].at = "retry_read", ![c].row = Len(ingestion)]
  /\ UNCHANGED <<configured, documents, external, tables, ingestor>>

(* The rows of the snapshot are locked and decided upon at their current   *)
(* values; they cannot change before the commit, so both are one step.  A  *)
(* newer active row makes the insert an IntegrityError: ALREADY_ACTIVE.    *)
RetryCommits(c) ==
  /\ At(c, "retry_read")
  /\ LET d    == client[c].document
         seen == {i \in RowsOf(ingestion, d) : i <= client[c].row}
     IN  \E i \in seen :
           /\ IsLast(i, seen)
           /\ \/ /\ \/ ingestion[i].status = "failed"
                    \/ ingestion[i].status = "processing" /\ MayBeStale(i)
                 /\ LET new == Append([ingestion EXCEPT ![i].status = "failed"],
                                      PendingIngestionJob(d))
                    IN  ingestion' = IF OneActive(new) THEN new ELSE ingestion
              \/ /\ ingestion[i].status # "failed"
                 /\ UNCHANGED ingestion
  /\ Reply(c)
  /\ UNCHANGED <<configured, documents, external, deletion, reindex, cleanup, ingestor>>

---------------------------------------------------------------------------
(* recover_stale_ingestion_jobs, for a batch of one: the rows of a larger  *)
(* batch belong to different documents.  It never looks at deletion jobs.  *)
RecoverStaleIngestion(i) ==
  /\ ingestion[i].status = "processing"
  /\ MayBeStale(i)
  /\ HasRoom(ingestion, ingestion[i].document, MaxIngestion)
  /\ LET new == Append([ingestion EXCEPT ![i].status = "failed"],
                       PendingIngestionJob(ingestion[i].document))
     IN  OneActive(new) /\ ingestion' = new
  /\ UNCHANGED <<configured, documents, external, deletion, reindex, cleanup, client, ingestor>>

---------------------------------------------------------------------------
IngestorStep(w) ==
  \/ ClaimIngestion(w)
  \/ ExtractAndEmbed(w)
  \/ FindIndexCollection(w)
  \/ RegisterIndexCollection(w)
  \/ UpsertVectors(w)
  \/ FailIngestion(w)
  \/ CompleteIngestion(w)
  \/ IngestorDies(w)

RetryStep(c) ==
  \/ \E d \in Document : RetryChecksDeletion(c, d)
  \/ RetryReadsJobs(c)
  \/ RetryCommits(c)

RecoveryStep == \E i \in DOMAIN ingestion : RecoverStaleIngestion(i)

IngestionStep ==
  \/ \E w \in Ingestor : IngestorStep(w)
  \/ \E c \in Client : RetryStep(c)
  \/ RecoveryStep
=============================================================================
