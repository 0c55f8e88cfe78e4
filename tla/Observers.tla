----------------------------- MODULE Observers -----------------------------
(***************************************************************************)
(* The requests that only read: document detail, download, the lifecycle   *)
(* audit of a document, the re-index inspection and the collection report. *)
(* Each makes its reads one after the other, with the jobs of              *)
(* DocumentLifecycle running in between, and decides from what it has read.*)
(***************************************************************************)
EXTENDS DocumentLifecycle

CONSTANTS
  Observer,   \* read-only requests in flight
  Losable     \* <<c, d>> or d: points and originals the services may lose, one of them

VARIABLES
  observer,   \* the session of each of them
  lost        \* what the services have lost

Error ==
  {"object_missing", "collection_missing", "vectors_missing", "metadata_incomplete",
   "deficit"}
Warning ==
  {"storage_unavailable", "vectors_unavailable", "stale_ingestion", "deletion_unfinished",
   "cleanup_incomplete", "reindex_cleanup_pending", "unmanaged"}
Info == {"ingestion_in_progress", "target_not_activated"}
Finding == Error \cup Warning \cup Info

ObserverSteps ==
  {"idle",
   "detail_loaded", "detail_ingestion_read", "detail_answered",
   "download_loaded", "download_reading", "download_answered",
   "audit_loaded", "audit_ingestion_read", "audit_deletion_read", "audit_reindex_read",
   "audit_rows_read", "audit_storage_inspected", "audit_counting", "audit_answered",
   "inspect_loaded", "inspect_job_read", "inspect_active_read", "inspect_answered",
   "report_registry_read", "report_claims_counted", "report_answered"}

(* What a request shows: a lifecycle status, the state of a re-indexing, or*)
(* the code of a download. NULL is none of these.                          *)
Shown ==
  {"indexed", "pending", "processing", "failed", "deleting", "deletion_failed", "deleted",
   "target_built", "activated", "200", "409", "410", "503"}

Response == {None} \cup Shown

ASSUME ObserverAssumption == None \notin Shown

ObserverSession ==
  [at : ObserverSteps,
   document : Document \cup {None},
   base : Collection \cup {None},      \* its collection as loaded, the one reported on, or
                                       \* the one wanted
   index : {"none", "stale", "current"}, \* whether it is indexed in the one wanted
   row : Nat,                          \* the latest re-index job as read
   active : BOOLEAN,                   \* there is an active one
   final : BOOLEAN,                    \* the latest deletion job is COMPLETED
   findings : SUBSET Finding,
   response : Response,
   since : SUBSET Response,            \* history: statuses held during the request
   changed : BOOLEAN]                  \* history: something read has changed

NoObservation ==
  [at |-> "idle", document |-> None, base |-> None, index |-> "none", row |-> 0,
   active |-> FALSE, final |-> FALSE, findings |-> {}, response |-> None, since |-> {},
   changed |-> FALSE]

Sees(o, step) == observer[o].at = step

Doc(o) == observer[o].document

Observes(o, step) == observer' = [observer EXCEPT ![o].at = step]

Finds(o, step, found) ==
  observer' = [observer EXCEPT ![o].at = step, ![o].findings = @ \cup found]

Responds(o, step, response) ==
  observer' = [observer EXCEPT ![o].at = step, ![o].response = response]

(* session.get(Document): a detail or a download only needs to know that   *)
(* it exists.                                                              *)
FindsDocument(o, step, d) ==
  /\ Sees(o, "idle")
  /\ observer' = [observer EXCEPT ![o] =
       [NoObservation EXCEPT !.at = step, !.document = d, !.since = {LifecycleStatus(d)}]]

Loads(o, step, d) ==
  /\ Sees(o, "idle")
  /\ observer' = [observer EXCEPT ![o] =
       [NoObservation EXCEPT !.at = step, !.document = d, !.base = collection[d]]]

(* The latest row of a document in a table, if there is one.               *)
Latest(table, d) == {i \in DOMAIN table : IsLast(i, RowsOf(table, d))}

---------------------------------------------------------------------------
(* GET /documents/{id}: get_document_detail_result().                      *)
DetailLoads(o, d) == FindsDocument(o, "detail_loaded", d)

(* Mutant: the status of the job is shown as it is.                        *)
JobView(d) == CHOOSE s \in IngestionStatus : LatestIn(ingestion, d, {s})

(* What the latest ingestion job says of the document.                     *)
IngestionView(d) ==
  LET s == CHOOSE s \in IngestionStatus : LatestIn(ingestion, d, {s})
  IN  IF s = "completed" THEN "indexed" ELSE s

(* Mutant: the latest FAILED job is preferred, as in the failure view.     *)
DetailPrefersFailure(o) ==
  /\ Sees(o, "detail_loaded")
  /\ Responds(o, "detail_ingestion_read",
       IF \E i \in RowsOf(ingestion, Doc(o)) : ingestion[i].status = "failed" THEN "failed"
       ELSE IngestionView(Doc(o)))

DetailReadsIngestion(o) ==
  /\ Sees(o, "detail_loaded")
  /\ Responds(o, "detail_ingestion_read", IngestionView(Doc(o)))

(* derive_lifecycle_status(): the latest deletion job, if there is one,    *)
(* decides; otherwise what the ingestion said.                             *)
StatusGiven(d, view) ==
  CASE LatestIn(deletion, d, Active)               -> "deleting"
    [] LatestIn(deletion, d, {"partially_failed"}) -> "deletion_failed"
    [] LatestIn(deletion, d, {"completed"})        -> "deleted"
    [] OTHER                                       -> view

DetailReadsDeletion(o) ==
  /\ Sees(o, "detail_ingestion_read")
  /\ Responds(o, "detail_answered", StatusGiven(Doc(o), observer[o].response))

---------------------------------------------------------------------------
(* GET /documents/{id}/download: download_document().                      *)
DownloadLoads(o, d) == FindsDocument(o, "download_loaded", d)

(* Mutant: a deletion that has only been requested counts as done.         *)
DownloadRefusesEarly(o) ==
  /\ Sees(o, "download_loaded")
  /\ IF RowsOf(deletion, Doc(o)) # {}
       THEN Responds(o, "download_answered", "410")
       ELSE Observes(o, "download_reading")

DownloadReadsDeletion(o) ==
  /\ Sees(o, "download_loaded")
  /\ IF LatestIn(deletion, Doc(o), {"completed"})
       THEN Responds(o, "download_answered", "410")
       ELSE Observes(o, "download_reading")

(* read() of the storage: the object, that there is none, or an error.     *)
ReadAnswers(d) == {IF d \in object THEN "200" ELSE "409", "503"}

DownloadReadsObject(o) ==
  /\ Sees(o, "download_reading")
  /\ \E answer \in ReadAnswers(Doc(o)) : Responds(o, "download_answered", answer)

---------------------------------------------------------------------------
(* audit_document_lifecycle(), alone or for one row of a batch, whose      *)
(* Documents are all loaded before the first is audited.                   *)
AuditLoads(o, d) == Loads(o, "audit_loaded", d)

AuditReadsIngestion(o) ==
  /\ Sees(o, "audit_loaded")
  /\ \E i \in Latest(ingestion, Doc(o)) :
       \/ /\ ingestion[i].status \in Active
          /\ Finds(o, "audit_ingestion_read", {"ingestion_in_progress"})
       \/ /\ ingestion[i].status = "processing" /\ MayBeStale(i)
          /\ Finds(o, "audit_ingestion_read", {"stale_ingestion"})
       \/ /\ ingestion[i].status \notin Active
          /\ Finds(o, "audit_ingestion_read",
                   IF ingestion[i].status = "completed" /\ observer[o].base = None
                     THEN {"metadata_incomplete"} ELSE {})

(* _deletion_finding(): anything but a COMPLETED deletion is a warning.    *)
DeletionFindings(d) ==
  IF LatestIn(deletion, d, {"partially_failed"} \cup Active) THEN {"deletion_unfinished"} ELSE {}

AuditReadsDeletion(o) ==
  /\ Sees(o, "audit_ingestion_read")
  /\ observer' = [observer EXCEPT
       ![o].at = "audit_deletion_read",
       ![o].final = LatestIn(deletion, Doc(o), {"completed"}),
       ![o].findings = @ \cup DeletionFindings(Doc(o))]

(* Only a COMPLETED job matters: one that is not activated is reported, of *)
(* the others the vacated collection is remembered.                        *)
AuditReadsReindex(o) ==
  /\ Sees(o, "audit_deletion_read")
  /\ LET built == {i \in Latest(reindex, Doc(o)) : reindex[i].status = "completed"}
     IN  observer' = [observer EXCEPT
           ![o].at = "audit_reindex_read",
           ![o].row = IF \E i \in built : reindex[i].activated
                        THEN CHOOSE i \in built : TRUE ELSE 0,
           ![o].findings = @ \cup IF \E i \in built : ~reindex[i].activated
                                    THEN {"target_not_activated"} ELSE {}]

(* get_pending_cleanup_jobs().  No more is inspected of a document that is *)
(* deleted.                                                                *)
AuditReadsCleanups(o) ==
  /\ Sees(o, "audit_reindex_read")
  /\ LET vacated == IF observer[o].row = 0 THEN {} ELSE {reindex[observer[o].row].source}
         pending == CleanupCollections(Doc(o))
     IN  Finds(o, IF observer[o].final THEN "audit_answered" ELSE "audit_rows_read",
               (IF pending \cap vacated # {} THEN {"reindex_cleanup_pending"} ELSE {})
                 \cup (IF pending \ vacated # {} THEN {"cleanup_incomplete"} ELSE {}))

(* Mutant: a storage that cannot be asked is taken for a missing object.   *)
AuditTrustsStorage(o) ==
  /\ Sees(o, "audit_rows_read")
  /\ \/ Finds(o, "audit_storage_inspected",
              IF Doc(o) \in object THEN {} ELSE {"object_missing"})
     \/ Finds(o, "audit_storage_inspected", {"object_missing"})

(* exists() of the storage says whether the object is there, or raises.    *)
StorageFindings(d) ==
  {IF d \in object THEN {} ELSE {"object_missing"}, {"storage_unavailable"}}

AuditInspectsStorage(o) ==
  /\ Sees(o, "audit_rows_read")
  /\ \E found \in StorageFindings(Doc(o)) : Finds(o, "audit_storage_inspected", found)

(* The collection of the Document as it was loaded, if it has one.  (An    *)
(* empty collection may exist or not.)                                     *)
AuditInspectsCollection(o) ==
  /\ Sees(o, "audit_storage_inspected")
  /\ \/ observer[o].base = None /\ Observes(o, "audit_answered")
     \/ observer[o].base # None /\ Observes(o, "audit_counting")
     \/ /\ observer[o].base # None
        /\ \A d \in Document : <<observer[o].base, d>> \notin vectors
        /\ Finds(o, "audit_answered", {"collection_missing"})
     \/ observer[o].base # None /\ Finds(o, "audit_answered", {"vectors_unavailable"})

(* Mutant: whatever the collection holds counts.                           *)
AuditCountsAnyVectors(o) ==
  /\ Sees(o, "audit_counting")
  /\ Observes(o, "audit_answered")

(* count_document_vectors(): none, too, if the collection is gone by now.  *)
VectorFindings(c, d) ==
  {IF <<c, d>> \in vectors THEN {} ELSE {"vectors_missing"}, {"vectors_unavailable"}}

AuditCountsVectors(o) ==
  /\ Sees(o, "audit_counting")
  /\ \E found \in VectorFindings(observer[o].base, Doc(o)) : Finds(o, "audit_answered", found)

(* classify_document_audit()                                               *)
Verdict(findings) ==
  IF findings \cap Error # {} THEN "inconsistent"
  ELSE IF findings = {} THEN "consistent"
  ELSE IF findings \subseteq Info THEN "transitional"
  ELSE "warning"

---------------------------------------------------------------------------
(* GET /documents/{id}/reindex: inspect_document_reindex_state().          *)
IndexFound(d) ==
  IF collection[d] = None THEN "none" ELSE IF collection[d] = configured THEN "current" ELSE "stale"

InspectLoads(o, d) ==
  /\ Sees(o, "idle")
  /\ observer' = [observer EXCEPT ![o] =
       [NoObservation EXCEPT !.at = "inspect_loaded", !.document = d, !.base = configured,
                             !.index = IndexFound(d)]]

BuildView(job) ==
  IF job.activated THEN "activated"
  ELSE IF job.status = "completed" THEN "target_built" ELSE job.status

(* The latest job, and how far it is.                                      *)
InspectReadsJob(o) ==
  /\ Sees(o, "inspect_loaded")
  /\ \/ Latest(reindex, Doc(o)) = {} /\ Observes(o, "inspect_job_read")
     \/ \E i \in Latest(reindex, Doc(o)) :
          observer' = [observer EXCEPT ![o].at = "inspect_job_read",
                                       ![o].row = i,
                                       ![o].response = BuildView(reindex[i])]

InspectReadsActive(o) ==
  /\ Sees(o, "inspect_job_read")
  /\ observer' = [observer EXCEPT ![o].at = "inspect_active_read",
                                  ![o].active = ActiveRows(reindex, Doc(o)) # {}]

(* Mutant: a deletion blocks a re-index once it is complete.               *)
InspectReadsFinished(o) ==
  /\ Sees(o, "inspect_active_read")
  /\ observer' = [observer EXCEPT ![o].at = "inspect_answered",
                                  ![o].final = LatestIn(deletion, Doc(o), {"completed"})]

InspectReadsDeletion(o) ==
  /\ Sees(o, "inspect_active_read")
  /\ observer' = [observer EXCEPT ![o].at = "inspect_answered",
                                  ![o].final = LatestIn(deletion, Doc(o), DeletionStatus)]

CanSchedule(o) ==
  /\ observer[o].index = "stale"
  /\ ~observer[o].active /\ ~observer[o].final

(* The latest job is built and was not activated when it was read.         *)
CanActivate(o) == observer[o].response = "target_built" /\ ~observer[o].final

(* _derive_state(): a job says something only if it targets the collection *)
(* that is wanted now.                                                     *)
InspectedState(o) ==
  IF observer[o].index = "none" THEN "not_indexed"
  ELSE IF observer[o].final THEN "deletion_blocked"
  ELSE IF observer[o].row # 0 /\ reindex[observer[o].row].target = observer[o].base
    THEN observer[o].response
  ELSE observer[o].index

---------------------------------------------------------------------------
(* build_collection_reconciliation_report(): the registry, the number of   *)
(* documents that claim the collection, then what Qdrant counts.           *)
ReportReadsRegistry(o, c) ==
  /\ Sees(o, "idle")
  /\ observer' = [observer EXCEPT ![o] =
       [NoObservation EXCEPT !.at = "report_registry_read", !.base = c,
          !.findings = IF c \in registered THEN {} ELSE {"unmanaged"}]]

Claimants(c) == {d \in Document : collection[d] = c}

ReportCountsClaims(o) ==
  /\ Sees(o, "report_registry_read")
  /\ observer' = [observer EXCEPT ![o].at = "report_claims_counted",
                                  ![o].row = Cardinality(Claimants(observer[o].base))]

(* count_collection_vectors(), counted in documents.                       *)
Stored(c) == Cardinality({d \in Document : <<c, d>> \in vectors})

(* Each document has at least one point, and only a deficit of points is   *)
(* flagged; a missing collection hides everything else.                    *)
ReportCountsVectors(o) ==
  /\ Sees(o, "report_claims_counted")
  /\ LET stored  == Stored(observer[o].base)
         managed == observer[o].findings = {}
     IN  \/ /\ stored = 0
            /\ observer' = [observer EXCEPT ![o].at = "report_answered",
                                            ![o].findings = {"collection_missing"}]
         \/ Finds(o, "report_answered",
                  IF managed /\ stored < observer[o].row THEN {"deficit"} ELSE {})
         \/ stored > 0 /\ Observes(o, "report_answered")

---------------------------------------------------------------------------
(* A request is answered, or has failed with the database or with Qdrant.  *)
Leaves(o) ==
  /\ ~Sees(o, "idle")
  /\ observer' = [observer EXCEPT ![o] = NoObservation]

ObserverStep(o) ==
  \/ \E d \in Document :
       DetailLoads(o, d) \/ DownloadLoads(o, d) \/ AuditLoads(o, d) \/ InspectLoads(o, d)
  \/ DetailReadsIngestion(o) \/ DetailReadsDeletion(o)
  \/ DownloadReadsDeletion(o) \/ DownloadReadsObject(o)
  \/ AuditReadsIngestion(o) \/ AuditReadsDeletion(o) \/ AuditReadsReindex(o)
  \/ AuditReadsCleanups(o) \/ AuditInspectsStorage(o) \/ AuditInspectsCollection(o)
  \/ AuditCountsVectors(o)
  \/ InspectReadsJob(o) \/ InspectReadsActive(o) \/ InspectReadsDeletion(o)
  \/ \E c \in Collection : ReportReadsRegistry(o, c)
  \/ ReportCountsClaims(o) \/ ReportCountsVectors(o)
  \/ Leaves(o)

(* Qdrant or the storage loses what it held.                               *)
Loses ==
  /\ lost = {}
  /\ \E it \in Losable :
       /\ it \in object \cup vectors
       /\ object' = object \ {it}
       /\ vectors' = vectors \ {it}
       /\ lost' = {it}
  /\ UNCHANGED <<configured, documents, tables, client, workers>>

---------------------------------------------------------------------------
(* Everything a request about a document may read.                         *)
Footprint(d) ==
  <<configured, collection[d], d \in object, {c \in Collection : <<c, d>> \in vectors},
    {<<i, ingestion[i]>> : i \in RowsOf(ingestion, d)},
    {<<i, deletion[i]>> : i \in RowsOf(deletion, d)},
    {<<i, reindex[i]>> : i \in RowsOf(reindex, d)},
    {<<i, cleanup[i]>> : i \in RowsOf(cleanup, d)}>>

Answered == {"detail_answered", "download_answered", "audit_answered", "inspect_answered",
             "report_answered"}

(* While others move, the histories of the requests are kept.  An answer   *)
(* is judged when it is given, and gone by then.                           *)
Remembers ==
  LET status   == [d \in Document |-> LifecycleStatus(d)']
      affected == {d \in Document : Footprint(d)' # Footprint(d)}
      shifted  == <<registered, collection, vectors>>' # <<registered, collection, vectors>>
  IN  observer' = [o \in Observer |->
        IF observer[o].at \in Answered \cup {"idle"} THEN NoObservation
        ELSE IF observer[o].since # {}
          THEN [observer[o] EXCEPT !.since = @ \cup {status[Doc(o)]}]
        ELSE IF Doc(o) # None
          THEN [observer[o] EXCEPT !.changed = @ \/ Doc(o) \in affected]
        ELSE [observer[o] EXCEPT !.changed = @ \/ shifted]]

observedVars == <<vars, observer, lost>>

ObservedInit == Init /\ observer = [o \in Observer |-> NoObservation] /\ lost = {}

ObservedNext ==
  \/ Next /\ Remembers /\ UNCHANGED lost
  \/ Loses /\ Remembers
  \/ \E o \in Observer : ObserverStep(o) /\ UNCHANGED <<vars, lost>>

ObservedSpec == ObservedInit /\ [][ObservedNext]_observedVars

ObserversType == observer \in [Observer -> ObserverSession] /\ lost \subseteq Losable

---------------------------------------------------------------------------
(* The status a client is shown held at some moment of the request, though *)
(* it is put together from reads of two tables.                            *)
StatusWasTrue ==
  \A o \in Observer : Sees(o, "detail_answered") => observer[o].response \in observer[o].since

(* Deleted content is not handed out: a download that began after the      *)
(* deletion was complete fails; 410 is only said of deleted documents; 409 *)
(* of an original that was lost or is being deleted.                       *)
DownloadsHonest ==
  \A o \in Observer : Sees(o, "download_answered") =>
    /\ observer[o].response = "200" => observer[o].since # {"deleted"}
    /\ observer[o].response = "410" => "deleted" \in observer[o].since
    /\ observer[o].response = "409" => Doc(o) \in lost \/ RowsOf(deletion, Doc(o)) # {}

(* An error of an audit or a report means a loss, a deletion under way or  *)
(* done, or something that changed between its reads: with jobs at rest    *)
(* and nothing lost there are no false alarms.                             *)
AlarmsAreReal ==
  \A o \in Observer :
    /\ Sees(o, "audit_answered") /\ Verdict(observer[o].findings) = "inconsistent" =>
         \/ lost # {} \/ observer[o].changed
         \/ RowsOf(deletion, Doc(o)) # {} /\ ~observer[o].final
    /\ Sees(o, "report_answered") /\ observer[o].row > 0 /\ observer[o].findings # {} =>
         \/ lost # {} \/ observer[o].changed
         \/ \E d \in Claimants(observer[o].base) : RowsOf(deletion, d) # {}

(* An audit that could ask every service reports what is lost.             *)
LossesReported ==
  \A o \in Observer :
    /\ Sees(o, "audit_answered") /\ ~observer[o].changed
    /\ Verdict(observer[o].findings) \in {"consistent", "transitional"}
    => LET d == Doc(o)
       IN  \/ LifecycleStatus(d) = "deleted"
           \/ /\ d \in object
              /\ RowsOf(deletion, d) = {} /\ CleanupCollections(d) = {}
              /\ collection[d] # None => <<collection[d], d>> \in vectors

(* The hints of the inspection are what the requests would answer, for as  *)
(* long as nothing changes: scheduling inserts a job, and the latest job   *)
(* can be activated unless another activation has moved the document.  A   *)
(* document shown as up to date or activated is where the settings want it *)
(* (with settings that only move forward).                                 *)
HintsHold ==
  \A o \in Observer :
    Sees(o, "inspect_answered") /\ ~observer[o].changed =>
      LET d == Doc(o)
      IN  /\ CanSchedule(o) <=>
               /\ collection[d] \notin {None, configured}
               /\ ActiveRows(reindex, d) = {} /\ ActiveRows(ingestion, d) = {}
               /\ RowsOf(deletion, d) = {}
          /\ CanActivate(o) <=>
               \E i \in Latest(reindex, d) :
                 \/ Activatable(reindex[i], reindex[i].status, reindex[i].activated)
                 \/ /\ collection[d] # reindex[i].source /\ RowsOf(deletion, d) = {}
                    /\ reindex[i].status = "completed" /\ ~reindex[i].activated
          /\ InspectedState(o) \in {"current", "activated"} => collection[d] = configured
=============================================================================
