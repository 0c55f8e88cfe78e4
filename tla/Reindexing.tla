----------------------------- MODULE Reindexing -----------------------------
(***************************************************************************)
(* The re-index component: scheduling a build-ahead into the collection of *)
(* the configured settings, the ReindexWorker that builds it, and the      *)
(* activation that moves a document onto the built collection.             *)
(***************************************************************************)
EXTENDS DocumentStore

VARIABLE builder  \* one session per running ReindexWorker

BuilderSession ==
  [at : {"idle", "claimed", "allowed", "embedded", "built"}, job : Nat]

NoBuild == [at |-> "idle", job |-> 0]

ReindexingType == builder \in [Builder -> BuilderSession]

(* A worker holds an existing row that stays PROCESSING.                   *)
BuildersValid ==
  \A w \in Builder : builder[w].at # "idle" =>
    /\ builder[w].job \in DOMAIN reindex
    /\ reindex[builder[w].job].status = "processing"

ReindexingInit == builder = [w \in Builder |-> NoBuild]

BuilderAt(w, step) == builder[w].at = step

BuiltJob(w) == reindex[builder[w].job]

BuilderMoves(w, step) == builder' = [builder EXCEPT ![w].at = step]

BuilderEnds(w) == builder' = [builder EXCEPT ![w] = NoBuild]

PendingReindex == {i \in DOMAIN reindex : reindex[i].status = "pending"}

PendingReindexJob(d, source, target) ==
  [document |-> d, source |-> source, target |-> target, status |-> "pending",
   activated |-> FALSE]

---------------------------------------------------------------------------
(* schedule_reindex: the document, then the three job tables, are read one *)
(* after the other; then the target collection is registered; then the     *)
(* PENDING row is inserted with its source and target pinned.              *)

ScheduleReadsDocument(c, d) ==
  /\ At(c, "idle")
  /\ collection[d] \notin {None, configured}
  /\ HasRoom(reindex, d, MaxReindex)
  /\ client' = [client EXCEPT ![c].at = "schedule_read", ![c].document = d,
                              ![c].source = collection[d], ![c].target = configured]
  /\ UNCHANGED <<configured, documents, external, tables, builder>>

ScheduleReadsReindexes(c) ==
  /\ At(c, "schedule_read")
  /\ IF ActiveRows(reindex, client[c].document) # {}
       THEN Reply(c)
       ELSE Continue(c, "schedule_reindex_checked")
  /\ UNCHANGED <<configured, documents, external, tables, builder>>

ScheduleReadsIngestions(c) ==
  /\ At(c, "schedule_reindex_checked")
  /\ IF LatestIn(ingestion, client[c].document, Active)
       THEN Reply(c)
       ELSE Continue(c, "schedule_ingestion_checked")
  /\ UNCHANGED <<configured, documents, external, tables, builder>>

ScheduleReadsDeletions(c) ==
  /\ At(c, "schedule_ingestion_checked")
  /\ IF LatestIn(deletion, client[c].document, DeletionStatus)
       THEN Reply(c)
       ELSE Continue(c, "schedule_deletion_checked")
  /\ UNCHANGED <<configured, documents, external, tables, builder>>

ScheduleFindsCollection(c) ==
  /\ At(c, "schedule_deletion_checked")
  /\ Continue(c, IF client[c].target \in registered
                   THEN "schedule_registered" ELSE "schedule_registering")
  /\ UNCHANGED <<configured, documents, external, tables, builder>>

(* Losing the race to insert the IndexCollection row fails the request.    *)
ScheduleRegisters(c) ==
  /\ At(c, "schedule_registering")
  /\ registered' = registered \cup {client[c].target}
  /\ IF client[c].target \in registered THEN Reply(c) ELSE Continue(c, "schedule_registered")
  /\ UNCHANGED <<configured, collection, hashed, external, tables, builder>>

ScheduleCommits(c) ==
  /\ At(c, "schedule_registered")
  /\ LET new == Append(reindex, PendingReindexJob(client[c].document, client[c].source,
                                                  client[c].target))
     IN  IF OneActive(new)
           THEN reindex' = new /\ Reply(c)
           ELSE Continue(c, "schedule_lost") /\ UNCHANGED reindex
  /\ UNCHANGED <<configured, documents, external, ingestion, deletion, cleanup, builder>>

(* After the rollback the winning row is looked up again.                  *)
ScheduleReloadsWinner(c) ==
  /\ At(c, "schedule_lost")
  /\ IF ActiveRows(reindex, client[c].document) # {}
       THEN Reply(c)
       ELSE Continue(c, "schedule_winner_missing")
  /\ UNCHANGED <<configured, documents, external, tables, builder>>

(* MissingActiveReindexJobAfterRaceError, a 500 to the client: the winner   *)
(* was built, or has failed, since.                                        *)
ScheduleRaises(c) ==
  /\ At(c, "schedule_winner_missing")
  /\ Reply(c)
  /\ UNCHANGED <<configured, documents, external, tables, builder>>

---------------------------------------------------------------------------
(* ReindexWorker.process_next_job.                                         *)

ClaimReindex(w) ==
  /\ BuilderAt(w, "idle")
  /\ \E i \in PendingReindex :
       /\ Claimable(i, PendingReindex, Builder \cup Client)
       /\ reindex' = [reindex EXCEPT ![i].status = "processing"]
       /\ builder' = [builder EXCEPT ![w] = [at |-> "claimed", job |-> i]]
  /\ UNCHANGED <<configured, documents, external, ingestion, deletion, cleanup, client>>

FailBuild(w) ==
  /\ reindex' = [reindex EXCEPT ![builder[w].job].status = "failed"]
  /\ BuilderEnds(w)

(* The guards before a build: no deletion job, a registered target.  (That *)
(* the settings no longer reproduce the target is left to BuildRaises.)    *)
CheckBuildAllowed(w) ==
  /\ BuilderAt(w, "claimed")
  /\ IF /\ ~LatestIn(deletion, BuiltJob(w).document, DeletionStatus)
        /\ BuiltJob(w).target \in registered
       THEN BuilderMoves(w, "allowed") /\ UNCHANGED reindex
       ELSE FailBuild(w)
  /\ UNCHANGED <<configured, documents, external, ingestion, deletion, cleanup, client>>

ExtractForBuild(w) ==
  /\ BuilderAt(w, "allowed")
  /\ BuiltJob(w).document \in object
  /\ BuilderMoves(w, "embedded")
  /\ UNCHANGED <<configured, documents, external, tables, client>>

(* Mutant: the build writes into the collection it should replace.         *)
UpsertSource(w) ==
  /\ BuilderAt(w, "embedded")
  /\ vectors' = vectors \cup {<<BuiltJob(w).source, BuiltJob(w).document>>}
  /\ BuilderMoves(w, "built")
  /\ UNCHANGED <<configured, documents, object, tables, client>>

UpsertTarget(w) ==
  /\ BuilderAt(w, "embedded")
  /\ vectors' = vectors \cup {<<BuiltJob(w).target, BuiltJob(w).document>>}
  /\ BuilderMoves(w, "built")
  /\ UNCHANGED <<configured, documents, object, tables, client>>

(* build_reindex_target raised; a lossy upsert has written the points.     *)
BuildRaises(w) ==
  /\ BuilderAt(w, "allowed") \/ BuilderAt(w, "embedded")
  /\ FailBuild(w)
  /\ \/ UNCHANGED vectors
     \/ /\ w \in Lossy
        /\ BuilderAt(w, "embedded")
        /\ vectors' = vectors \cup {<<BuiltJob(w).target, BuiltJob(w).document>>}
  /\ UNCHANGED <<configured, documents, object, ingestion, deletion, cleanup, client>>

(* The row re-read before this commit is the session's own copy, which     *)
(* says PROCESSING whatever the table says.                                *)
CompleteBuild(w) ==
  /\ BuilderAt(w, "built")
  /\ reindex' = [reindex EXCEPT ![builder[w].job].status = "completed"]
  /\ BuilderEnds(w)
  /\ UNCHANGED <<configured, documents, external, ingestion, deletion, cleanup, client>>

(* Nothing recovers the PROCESSING row of a dead reindex worker.           *)
BuilderDies(w) ==
  /\ w \in Mortal
  /\ ~BuilderAt(w, "idle")
  /\ BuilderEnds(w)
  /\ UNCHANGED <<configured, documents, external, tables, client>>

---------------------------------------------------------------------------
(* activate_reindexed_document.                                            *)

PendingCleanupJob(job) ==
  [document |-> job.document, collection |-> job.source, status |-> "pending"]

(* Mutant: the deletion guard is forgotten.                                *)
ActivatableThoughDeleted(job, status, activated) ==
  /\ ~activated /\ status = "completed"
  /\ collection[job.document] = job.source

(* Mutant: the SOURCE_CHANGED check is forgotten.                          *)
ActivatableFromAnywhere(job, status, activated) ==
  /\ ~activated /\ status = "completed"
  /\ ~LatestIn(deletion, job.document, DeletionStatus)

(* The preconditions; status and activated are the job as the session sees *)
(* it.                                                                     *)
Activatable(job, status, activated) ==
  /\ ~activated
  /\ status = "completed"
  /\ ~LatestIn(deletion, job.document, DeletionStatus)
  /\ collection[job.document] = job.source
  /\ job.target \in registered

(* The transaction that holds the row locks of job i and of its document:  *)
(* the document moves, the vacated collection gets a cleanup job and the   *)
(* job is stamped, in one commit.  (Scheduling has made source and target  *)
(* different.)                                                             *)
Activate(i, status, activated) ==
  LET job == reindex[i]
  IN  IF Activatable(job, status, activated)
        THEN /\ collection' = [collection EXCEPT ![job.document] = job.target]
             /\ cleanup' = Append(cleanup, PendingCleanupJob(job))
             /\ reindex' = [reindex EXCEPT ![i].activated = TRUE]
        ELSE UNCHANGED <<collection, cleanup, reindex>>

(* POST /reindex/jobs/{job_id}/activate: the job is first read under its   *)
(* lock.                                                                   *)
ActivateByJob(c, i) ==
  /\ At(c, "idle")
  /\ Activate(i, reindex[i].status, reindex[i].activated)
  /\ UNCHANGED <<configured, registered, hashed, external, ingestion, deletion, client, builder>>

(* POST /documents/{id}/reindex/activate: the route loads the job first    *)
(* (by ?job_id=, or the document's latest).  The locking SELECT that       *)
(* follows returns that same object from the session, not refreshed.       *)
ActivateLoadsJob(c, i) ==
  /\ At(c, "idle")
  /\ client' = [client EXCEPT ![c].at = "activate_loaded", ![c].row = i,
                              ![c].status = reindex[i].status,
                              ![c].activated = reindex[i].activated]
  /\ UNCHANGED <<configured, documents, external, tables, builder>>

ActivateLoadedJob(c) ==
  /\ At(c, "activate_loaded")
  /\ Activate(client[c].row, client[c].status, client[c].activated)
  /\ Reply(c)
  /\ UNCHANGED <<configured, registered, hashed, external, ingestion, deletion, builder>>

---------------------------------------------------------------------------
BuilderStep(w) ==
  \/ ClaimReindex(w)
  \/ CheckBuildAllowed(w)
  \/ ExtractForBuild(w)
  \/ UpsertTarget(w)
  \/ BuildRaises(w)
  \/ CompleteBuild(w)
  \/ BuilderDies(w)

ScheduleStep(c) ==
  \/ \E d \in Document : ScheduleReadsDocument(c, d)
  \/ ScheduleReadsReindexes(c)
  \/ ScheduleReadsIngestions(c)
  \/ ScheduleReadsDeletions(c)
  \/ ScheduleFindsCollection(c)
  \/ ScheduleRegisters(c)
  \/ ScheduleCommits(c)
  \/ ScheduleReloadsWinner(c)
  \/ ScheduleRaises(c)

ActivateStep(c) ==
  \/ \E i \in DOMAIN reindex : ActivateByJob(c, i) \/ ActivateLoadsJob(c, i)
  \/ ActivateLoadedJob(c)

ReindexingStep ==
  \/ \E w \in Builder : BuilderStep(w)
  \/ \E c \in Client : ScheduleStep(c) \/ ActivateStep(c)
=============================================================================
