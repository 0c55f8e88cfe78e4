--------------------------- MODULE DocumentStore ---------------------------
(***************************************************************************)
(* The state the components of documents-rag share: the Postgres tables    *)
(* (app/models), the Qdrant collections and the object storage, and the    *)
(* sessions of the HTTP requests.                                          *)
(*                                                                         *)
(* A job table is the sequence of its rows in the order of their inserting *)
(* commits; a row keeps its position for ever (no row is ever deleted), so *)
(* a position is a job id and "latest by created_at" is the last row of a  *)
(* document.                                                               *)
(*                                                                         *)
(* One step is one database transaction, or one awaited call to Qdrant or  *)
(* to the storage.  Statements of one transaction under READ COMMITTED     *)
(* that read DIFFERENT tables are steps of their own, so that another      *)
(* session can commit between them.                                        *)
(***************************************************************************)
EXTENDS Naturals, Sequences, FiniteSets

CONSTANTS
  Document,        \* documents, all of them uploaded already
  Collection,      \* names of Qdrant collections, one per indexing configuration
  None,            \* SQL NULL / Python None
  Client,          \* HTTP requests in flight
  Ingestor,        \* sessions running IngestionWorker.process_next_job
  Deleter,         \* sessions running DocumentDeletionWorker.process_next_job
  Builder,         \* sessions running ReindexWorker.process_next_job
  Cleaner,         \* sessions running process_next_vector_cleanup_job
  Mortal,          \* sessions that may die between two steps
  Lossy,           \* sessions whose external writes may apply and still raise
  Overrun,         \* TRUE: a live ingestion worker may exceed the stale threshold
  Reconfiguration, \* pairs of collections: the redeployments operators perform
  MaxIngestion,    \* bounds: a request (or a recovery) that inserts a job is only
  MaxDeletion,     \* made for a document with fewer rows than this in the table
  MaxReindex

ASSUME StoreAssumption ==
  /\ IsFiniteSet(Document)
  /\ None \notin Collection \cup Document
  /\ Overrun \in BOOLEAN
  /\ Reconfiguration \subseteq Collection \X Collection
  /\ MaxIngestion \in Nat /\ MaxDeletion \in Nat /\ MaxReindex \in Nat

VARIABLES
  configured,  \* the collection the deployed settings resolve to
  registered,  \* index_collections
  collection,  \* documents.collection_name
  hashed,      \* documents whose content_hash is not NULL
  object,      \* documents whose original is in object storage
  vectors,     \* <<c, d>>: collection c holds points of document d
  ingestion,   \* ingestion_jobs
  deletion,    \* document_deletion_jobs
  reindex,     \* reindex_jobs
  cleanup,     \* vector_cleanup_jobs
  client       \* the session of each HTTP request

tables == <<ingestion, deletion, reindex, cleanup>>
documents == <<registered, collection, hashed>>
external == <<object, vectors>>

---------------------------------------------------------------------------
(* Rows.                                                                   *)

IngestionStatus == {"pending", "processing", "completed", "failed"}
DeletionStatus == {"pending", "processing", "completed", "partially_failed"}
ReindexStatus == IngestionStatus
CleanupStatus == {"pending", "failed", "completed"}
Active == {"pending", "processing"}

IngestionJob == [document : Document, status : IngestionStatus]
DeletionJob == [document : Document, status : DeletionStatus,
                vectorsDone : BOOLEAN, storageDone : BOOLEAN]
ReindexJob == [document : Document, source : Collection, target : Collection,
               status : ReindexStatus, activated : BOOLEAN]
CleanupJob == [document : Document, collection : Collection, status : CleanupStatus]

RowsOf(table, d) == {i \in DOMAIN table : table[i].document = d}

ActiveRows(table, d) == {i \in RowsOf(table, d) : table[i].status \in Active}

(* The first row of `ORDER BY created_at DESC LIMIT 1` among a set of rows. *)
IsLast(i, rows) == i \in rows /\ \A j \in rows : j <= i

(* A claim, ORDER BY created_at LIMIT 1 FOR UPDATE SKIP LOCKED: the oldest *)
(* row, or a later one when the older ones are locked by the transactions  *)
(* of other sessions, at most one row each.                                *)
Claimable(i, rows, sessions) ==
  i \in rows /\ Cardinality({j \in rows : j < i}) < Cardinality(sessions)

LatestIn(table, d, statuses) ==
  \E i \in RowsOf(table, d) : IsLast(i, RowsOf(table, d)) /\ table[i].status \in statuses

(* The partial unique indexes ix_*_one_active_per_document: what a commit  *)
(* that inserts a row must not break.                                      *)
OneActive(table) ==
  \A i, j \in DOMAIN table :
    (table[i].document = table[j].document /\ {table[i].status, table[j].status} \subseteq Active)
      => i = j

HasRoom(table, d, bound) == Cardinality(RowsOf(table, d)) < bound

(* No two worker sessions hold the same row.                               *)
HeldOnceBy(sessions) ==
  \A v, w \in DOMAIN sessions :
    sessions[v].at # "idle" /\ sessions[w].at # "idle" /\ sessions[v].job = sessions[w].job
      => v = w

---------------------------------------------------------------------------
(* Sessions of HTTP requests.                                              *)

ScheduleSteps ==
  {"schedule_read", "schedule_reindex_checked", "schedule_ingestion_checked",
   "schedule_deletion_checked", "schedule_registering", "schedule_registered",
   "schedule_lost", "schedule_winner_missing"}

ClientSteps ==
  {"idle",
   "retry_checked", "retry_read",
   "delete_waiting", "delete_read", "delete_ingestion_checked", "delete_reindex_checked",
   "activate_loaded"} \cup ScheduleSteps

ClientSession ==
  [at : ClientSteps, document : Document \cup {None}, row : Nat,
   source : Collection \cup {None}, target : Collection \cup {None},
   status : ReindexStatus \cup {None}, activated : BOOLEAN]

NoRequest ==
  [at |-> "idle", document |-> None, row |-> 0, source |-> None, target |-> None,
   status |-> None, activated |-> FALSE]

At(c, step) == client[c].at = step

Reply(c) == client' = [client EXCEPT ![c] = NoRequest]

Continue(c, step) == client' = [client EXCEPT ![c].at = step]

---------------------------------------------------------------------------
StoreType ==
  /\ configured \in Collection
  /\ registered \subseteq Collection
  /\ collection \in [Document -> Collection \cup {None}]
  /\ hashed \subseteq Document
  /\ object \subseteq Document
  /\ vectors \subseteq Collection \X Document
  /\ ingestion \in Seq(IngestionJob)
  /\ deletion \in Seq(DeletionJob)
  /\ reindex \in Seq(ReindexJob)
  /\ cleanup \in Seq(CleanupJob)
  /\ client \in [Client -> ClientSession]

(* What a request in progress has read before: later steps rely on it.     *)
ClientsValid ==
  \A c \in Client :
    /\ At(c, "activate_loaded") => client[c].row \in DOMAIN reindex
    /\ client[c].at \notin {"idle", "activate_loaded"} => client[c].document \in Document
    /\ client[c].at \in ScheduleSteps =>
         client[c].source \in Collection /\ client[c].target \in Collection

(* upload_document() commits a document with its object stored, its hash   *)
(* claimed and one PENDING ingestion job.                                  *)
StoreInit ==
  /\ configured \in Collection
  /\ registered = {}
  /\ collection = [d \in Document |-> None]
  /\ hashed = Document
  /\ object = Document
  /\ vectors = {}
  /\ \E order \in [1..Cardinality(Document) -> Document] :
       /\ \A d \in Document : \E i \in DOMAIN order : order[i] = d
       /\ ingestion = [i \in DOMAIN order |-> [document |-> order[i], status |-> "pending"]]
  /\ deletion = <<>>
  /\ reindex = <<>>
  /\ cleanup = <<>>
  /\ client = [c \in Client |-> NoRequest]

(* An operator changes the embedding or chunking settings and redeploys.   *)
Reconfigure ==
  /\ \E next \in Collection : <<configured, next>> \in Reconfiguration /\ configured' = next
  /\ UNCHANGED <<documents, external, tables, client>>
=============================================================================
