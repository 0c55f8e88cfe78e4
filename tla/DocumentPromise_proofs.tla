----------------------- MODULE DocumentPromise_proofs -----------------------
(***************************************************************************)
(* What the platform guarantees to clients that do not have two requests   *)
(* about one document in flight at once: each request checks the other job *)
(* tables before it inserts, and nothing serialises these checks.          *)
(***************************************************************************)
EXTENDS DocumentLifecycle_proofs

OneRequestPerDocument ==
  \A c, e \in Client :
    c # e /\ client[c].document = client[e].document => client[c].document = None

DeletionChecks == {"delete_ingestion_checked", "delete_reindex_checked"}

(* Where a retry or a schedule request has found no deletion job.          *)
Undeleted ==
  {"retry_checked", "retry_read",
   "schedule_deletion_checked", "schedule_registering", "schedule_registered"}

(* What a request has checked still holds.                                 *)
ChecksHold ==
  \A c \in Client :
    /\ client[c].at \in DeletionChecks => ActiveRows(ingestion, client[c].document) = {}
    /\ At(c, "delete_reindex_checked") => ActiveRows(reindex, client[c].document) = {}
    /\ client[c].at \in Undeleted => RowsOf(deletion, client[c].document) = {}

WritersExcluded ==
  \A d \in Document :
    RowsOf(deletion, d) # {} => ActiveRows(ingestion, d) = {} /\ ActiveRows(reindex, d) = {}

ExclusionInv == IInv /\ Standing /\ ChecksHold /\ WritersExcluded

---------------------------------------------------------------------------
(* How a document gets active rows.                                        *)

(* An ingestion of a document without active one comes from a retry or a   *)
(* recovery ...                                                            *)
LEMMA IngestionsBegin ==
  ASSUME Event, NEW d, ActiveRows(ingestion, d) = {}
  PROVE  ActiveRows(ingestion, d)' = {} \/ \E i, n : AttemptReplaced(i, n, d)
<1>1. ASSUME NEW w \in Ingestor, IngestorActs(w)
      PROVE  ActiveRows(ingestion, d)' = {}
  <2>1. ASSUME NEW i, NEW s, SetsStatus(ingestion, ingestion', i, s),
               s \in Active => ingestion[i].status \in Active
        PROVE  ActiveRows(ingestion, d)' = {}
    <3>1. ActiveRows(ingestion', d) = {}
      BY <2>1, ActiveRowsSet
    <3> QED
      BY <3>1 DEF ActiveRows, RowsOf
  <2>2. CASE \E i : IngestorClaims(w, i)
    BY <2>1, <2>2 DEF IngestorClaims, Active
  <2>3. CASE IngestorFails(w) \/ IngestorCompletes(w)
    BY <2>1, <2>3 DEF IngestorFails, IngestorCompletes, Active
  <2>4. CASE UNCHANGED ingestion
    BY <2>4 DEF ActiveRows, RowsOf
  <2> QED
    BY <1>1, <2>2, <2>3, <2>4
    DEF IngestorActs, IngestorEffect, IngestorProceeds, IngestorUpserts, IngestorLeaves
<1>2. ASSUME NEW i, NEW n, NEW e, AttemptReplaced(i, n, e), e # d
      PROVE  ActiveRows(ingestion, d)' = {}
  <2>1. PICK m : SetsStatus(ingestion, m, i, "failed") /\ Inserts(m, ingestion', n, e)
    BY <1>2 DEF AttemptReplaced, IngestionReplaced, Replaces
  <2>2. ActiveRows(m, d) = {}
    BY <2>1, ActiveRowsSet DEF Active
  <2> QED
    BY <1>2, <2>1, <2>2 DEF Inserts, ActiveRows, RowsOf
<1>3. CASE UNCHANGED ingestion
  BY <1>3 DEF ActiveRows, RowsOf
<1> QED
  BY <1>1, <1>2, <1>3, WhoIngests

(* ... a build from a schedule request ...                                 *)
LEMMA BuildsBegin ==
  ASSUME Event, NEW d, ActiveRows(reindex, d) = {}
  PROVE  \/ ActiveRows(reindex, d)' = {}
         \/ \E c \in Client : client[c].document = d /\ \E n : BuildScheduled(c, n)
<1>1. ASSUME NEW w \in Builder, BuilderActs(w)
      PROVE  ActiveRows(reindex, d)' = {}
  <2>1. ASSUME NEW i, NEW s, SetsStatus(reindex, reindex', i, s),
               s \in Active => reindex[i].status \in Active
        PROVE  ActiveRows(reindex, d)' = {}
    <3>1. ActiveRows(reindex', d) = {}
      BY <2>1, ActiveRowsSet
    <3> QED
      BY <3>1 DEF ActiveRows, RowsOf
  <2>2. CASE \E i : BuilderClaims(w, i)
    BY <2>1, <2>2 DEF BuilderClaims, ReindexSetsOf, Active
  <2>3. CASE BuilderFails(w) \/ BuilderCompletes(w)
    BY <2>1, <2>3 DEF BuilderFails, BuilderCompletes, ReindexSetsOf, Active
  <2>4. CASE UNCHANGED reindex
    BY <2>4 DEF ActiveRows, RowsOf
  <2> QED
    BY <1>1, <2>2, <2>3, <2>4
    DEF BuilderActs, BuilderEffect, BuilderProceeds, BuilderUpserts, BuilderLeaves
<1>2. ASSUME NEW c \in Client, NEW n, BuildScheduled(c, n), client[c].document # d
      PROVE  ActiveRows(reindex, d)' = {}
  BY <1>2 DEF BuildScheduled, ScheduleInserts, Inserts, ActiveRows, RowsOf
<1>3. ASSUME NEW i, NEW n, DocumentMoved(i, n)
      PROVE  ActiveRows(reindex, d)' = {}
  BY <1>3 DEF DocumentMoved, Activates, ActiveRows, RowsOf
<1>4. CASE UNCHANGED reindex
  BY <1>4 DEF ActiveRows, RowsOf
<1> QED
  BY <1>1, <1>2, <1>3, <1>4, WhoBuilds

(* ... and the first deletion job from a DELETE.                           *)
LEMMA DeletionsBegin ==
  ASSUME Event, NEW d, RowsOf(deletion, d) = {}
  PROVE  \/ RowsOf(deletion, d)' = {}
         \/ \E c \in Client : client[c].document = d /\ \E n : DeletionRequested(c, n)
<1>1. ASSUME NEW w \in Deleter, DeleterActs(w)
      PROVE  RowsOf(deletion, d)' = {}
  <2>1. /\ DOMAIN deletion' = DOMAIN deletion
        /\ \A j \in DOMAIN deletion : deletion'[j].document = deletion[j].document
    BY <1>1 DEF DeleterActs, DeleterEffect, DeleterClaims, DeleterTracks, DeleterErases,
       DeleterRecords, DeleterErasesObject, DeleterFails, DeleterCompletes, DeleterLeaves,
       DeletionSetsOf, SetsStatus
  <2> QED
    BY <2>1 DEF RowsOf
<1>2. ASSUME NEW c \in Client, NEW n, DeletionRequested(c, n), client[c].document # d
      PROVE  RowsOf(deletion, d)' = {}
  BY <1>2 DEF DeletionRequested, DeleteInserts, Inserts, RowsOf
<1>3. CASE UNCHANGED deletion
  BY <1>3 DEF RowsOf
<1> QED
  BY <1>1, <1>2, <1>3, WhoDeletes

---------------------------------------------------------------------------
(* The checks are still true when the row is inserted.                     *)

(* A document without a latest deletion job has no deletion job.           *)
LEMMA NeverDeleted ==
  ASSUME StoreType, NEW d, ~LatestIn(deletion, d, DeletionStatus)
  PROVE  RowsOf(deletion, d) = {}
<1>1. deletion \in Seq(DeletionJob)
  BY DEF StoreType
<1>2. \A i \in DOMAIN deletion : deletion[i] \in DeletionJob
  BY <1>1, TableRow
<1>3. \A i \in DOMAIN deletion : deletion[i].status \in DeletionStatus
  BY <1>2 DEF DeletionJob
<1> QED
  BY <1>1, <1>3, LatestExists

(* Requests in progress about one document are one request.                *)
LEMMA OnlyRequest ==
  ASSUME IInv, OneRequestPerDocument, NEW c \in Client, NEW e \in Client,
         client[c].at \notin {"idle", "activate_loaded"}, client[e].document = client[c].document
  PROVE  e = c
<1>1. client[c].document \in Document
  BY DEF IInv, SessionsHold, ClientsValid
<1> QED
  BY <1>1, StoreAssumption DEF OneRequestPerDocument

(* A new attempt is inserted for a document without deletion jobs, and     *)
(* while no DELETE relies on there being none ...                          *)
LEMMA AttemptAllowed ==
  ASSUME ExclusionInv, OneRequestPerDocument, NEW i, NEW n, NEW d, AttemptReplaced(i, n, d)
  PROVE  /\ RowsOf(deletion, d) = {}
         /\ \A c \in Client : client[c].document = d => client[c].at \notin DeletionChecks
<1>0. StoreType
  BY DEF ExclusionInv, IInv, TypeOK
<1>1. i \in RowsOf(ingestion, d) /\ d \in Document
  <2>1. i \in DOMAIN ingestion /\ ingestion[i].document = d
    BY DEF AttemptReplaced, IngestionReplaced, RowsOf
  <2> QED
    BY <1>0, <2>1, IngestionRow DEF RowsOf
<1>2. CASE ingestion[i].status = "processing"
  <2>1. i \in ActiveRows(ingestion, d)
    BY <1>1, <1>2 DEF ActiveRows, Active
  <2> QED
    BY <1>1, <2>1 DEF ExclusionInv, WritersExcluded, ChecksHold
<1>3. ASSUME NEW c \in Client, At(c, "retry_read"), client[c].document = d
      PROVE  /\ RowsOf(deletion, d) = {}
             /\ \A e \in Client : client[e].document = d => client[e].at \notin DeletionChecks
  <2>1. RowsOf(deletion, d) = {}
    BY <1>3 DEF ExclusionInv, ChecksHold, Undeleted, At
  <2>2. \A e \in Client : client[e].document = d => e = c
    BY <1>3, OnlyRequest DEF ExclusionInv, At
  <2> QED
    BY <1>3, <2>1, <2>2 DEF DeletionChecks, At
<1> QED
  BY <1>2, <1>3 DEF AttemptReplaced

(* ... a new build likewise ...                                            *)
LEMMA BuildAllowed ==
  ASSUME ExclusionInv, OneRequestPerDocument, NEW c \in Client, NEW n, BuildScheduled(c, n)
  PROVE  /\ RowsOf(deletion, client[c].document) = {}
         /\ \A e \in Client : client[e].document = client[c].document
                                => client[e].at \notin DeletionChecks
<1>1. At(c, "schedule_registered")
  BY DEF BuildScheduled, ScheduleInserts
<1>2. \A e \in Client : client[e].document = client[c].document => e = c
  BY <1>1, OnlyRequest DEF ExclusionInv, At
<1>3. RowsOf(deletion, client[c].document) = {}
  BY <1>1 DEF ExclusionInv, ChecksHold, Undeleted, At
<1> QED
  BY <1>1, <1>2, <1>3 DEF DeletionChecks, At

(* ... and a new deletion while nothing is active and no other request     *)
(* relies on there being no deletion.                                      *)
LEMMA DeletionAllowed ==
  ASSUME ExclusionInv, OneRequestPerDocument, NEW c \in Client, NEW n, DeletionRequested(c, n)
  PROVE  /\ ActiveRows(ingestion, client[c].document) = {}
         /\ ActiveRows(reindex, client[c].document) = {}
         /\ \A e \in Client : client[e].document = client[c].document => client[e].at \notin Undeleted
<1>1. At(c, "delete_reindex_checked")
  BY DEF DeletionRequested, DeleteInserts
<1>2. \A e \in Client : client[e].document = client[c].document => e = c
  BY <1>1, OnlyRequest DEF ExclusionInv, At
<1>3. ActiveRows(ingestion, client[c].document) = {} /\ ActiveRows(reindex, client[c].document) = {}
  BY <1>1 DEF ExclusionInv, ChecksHold, DeletionChecks, At
<1> QED
  BY <1>1, <1>2, <1>3 DEF Undeleted, At

(* A row is inserted while the checks of its request hold, so deletions    *)
(* and writers exclude each other.                                         *)
LEMMA WritersExcludedKept ==
  ASSUME ExclusionInv, OneRequestPerDocument, Event
  PROVE  WritersExcluded'
<1>0. IInv
  BY DEF ExclusionInv
<1> SUFFICES ASSUME NEW d \in Document, RowsOf(deletion, d)' # {}
             PROVE  ActiveRows(ingestion, d)' = {} /\ ActiveRows(reindex, d)' = {}
  BY DEF WritersExcluded
<1>1. CASE RowsOf(deletion, d) = {}
  <2>1. PICK c \in Client : client[c].document = d /\ \E n : DeletionRequested(c, n)
    BY <1>1, DeletionsBegin
  <2>2. UNCHANGED <<ingestion, reindex>>
    BY <2>1 DEF DeletionRequested
  <2>3. ActiveRows(ingestion, d) = {} /\ ActiveRows(reindex, d) = {}
    BY <2>1, DeletionAllowed
  <2> QED
    BY <2>2, <2>3 DEF ActiveRows, RowsOf
<1>2. CASE RowsOf(deletion, d) # {}
  <2>1. ActiveRows(ingestion, d) = {} /\ ActiveRows(reindex, d) = {}
    BY <1>2 DEF ExclusionInv, WritersExcluded
  <2>2. ActiveRows(ingestion, d)' = {}
    BY <1>2, <2>1, IngestionsBegin, AttemptAllowed
  <2>3. ActiveRows(reindex, d)' = {}
    BY <1>2, <2>1, BuildsBegin, BuildAllowed
  <2> QED
    BY <2>2, <2>3
<1> QED
  BY <1>1, <1>2

(* What a request has checked stays true: it is the only one about its     *)
(* document.                                                               *)
LEMMA ChecksHoldKept ==
  ASSUME ExclusionInv, OneRequestPerDocument, Event
  PROVE  ChecksHold'
<1>0. IInv /\ StoreType
  BY DEF ExclusionInv, IInv, TypeOK
<1>1. ASSUME NEW c \in Client, client'[c] = client[c]
      PROVE  /\ client[c].at \in DeletionChecks => ActiveRows(ingestion, client[c].document)' = {}
             /\ At(c, "delete_reindex_checked") => ActiveRows(reindex, client[c].document)' = {}
             /\ client[c].at \in Undeleted => RowsOf(deletion, client[c].document)' = {}
  <2>0. PICK d : d = client[c].document
    OBVIOUS
  <2>1. client[c].at \in DeletionChecks => ActiveRows(ingestion, d)' = {}
    BY <2>0, IngestionsBegin, AttemptAllowed DEF ExclusionInv, ChecksHold
  <2>2. At(c, "delete_reindex_checked") => ActiveRows(reindex, d)' = {}
    BY <2>0, BuildsBegin, BuildAllowed DEF ExclusionInv, ChecksHold, DeletionChecks, At
  <2>3. client[c].at \in Undeleted => RowsOf(deletion, d)' = {}
    BY <2>0, DeletionsBegin, DeletionAllowed DEF ExclusionInv, ChecksHold
  <2>4. client'[c].document = d
    BY <1>1, <2>0
  <2> QED
    BY <2>1, <2>2, <2>3, <2>4 DEF ActiveRows, RowsOf
<1>2. CASE RequestsStay
  <2>1. "idle" \notin DeletionChecks \cup Undeleted
    BY DEF DeletionChecks, Undeleted
  <2> QED
    BY <1>1, <1>2, <2>1 DEF RequestsStay, ChecksHold, At
<1>3. ASSUME NEW c \in Client, NEW s, RequestProceeds(c, s)
      PROVE  ChecksHold'
  <2>1. UNCHANGED <<ingestion, reindex, deletion>>
        /\ \A e \in Client : client'[e] = IF e = c THEN s ELSE client[e]
    BY <1>3 DEF RequestProceeds, StoreUnchanged, ClientBecomes
  <2>2. s.at \in DeletionChecks => ActiveRows(ingestion, s.document) = {}
    <3>1. CASE s.at = "delete_ingestion_checked"
      BY <1>3, <3>1, ActiveIsLatest DEF RequestProceeds, ScheduleSteps, ExclusionInv, Standing
    <3>2. CASE s.at = "delete_reindex_checked"
      BY <1>3, <3>2 DEF RequestProceeds, ScheduleSteps, SameRequest, ExclusionInv, ChecksHold,
                        DeletionChecks, At
    <3> QED
      BY <3>1, <3>2 DEF DeletionChecks
  <2>3. s.at = "delete_reindex_checked" => ActiveRows(reindex, s.document) = {}
    BY <1>3 DEF RequestProceeds, ScheduleSteps
  <2>4. s.at \in Undeleted => RowsOf(deletion, s.document) = {}
    <3>1. CASE s.at = "retry_checked"
      BY <1>3, <3>1 DEF RequestProceeds, ScheduleSteps
    <3>2. CASE s.at = "retry_read"
      BY <1>3, <3>2 DEF RequestProceeds, ScheduleSteps, SameRequest, ExclusionInv, ChecksHold,
                        Undeleted, At
    <3>3. CASE s.at = "schedule_deletion_checked"
      <4>1. ~LatestIn(deletion, s.document, DeletionStatus)
        BY <1>3, <3>3 DEF RequestProceeds, ScheduleSteps
      <4> QED
        BY <1>0, <4>1, NeverDeleted
    <3>4. CASE s.at \in {"schedule_registering", "schedule_registered"}
      <4>1. /\ client[c].at \in {"schedule_deletion_checked", "schedule_registering"}
            /\ SameRequest(c, s)
        BY <1>3, <3>4 DEF RequestProceeds, ScheduleSteps
      <4> QED
        BY <4>1 DEF SameRequest, ExclusionInv, ChecksHold, Undeleted
    <3> QED
      BY <3>1, <3>2, <3>3, <3>4 DEF Undeleted
  <2> QED
    BY <1>1, <2>1, <2>2, <2>3, <2>4 DEF ChecksHold, ActiveRows, RowsOf, At
<1> QED
  BY <1>2, <1>3, WhoRequests

---------------------------------------------------------------------------
(* Initially nothing is requested or deleted ...                           *)
LEMMA ExclusionInit == Init => ExclusionInv
<1> SUFFICES ASSUME Init PROVE ChecksHold /\ WritersExcluded
  BY InitInv, StandingInit DEF ExclusionInv
<1>1. deletion = <<>> /\ \A c \in Client : client[c].at = "idle"
  BY DEF Init, StoreInit, NoRequest
<1> QED
  BY <1>1, EmptySeq DEF ChecksHold, WritersExcluded, DeletionChecks, Undeleted, At, RowsOf

(* ... and every step keeps the exclusion.                                 *)
LEMMA ExclusionStep ==
  ASSUME ExclusionInv, OneRequestPerDocument, [Next]_vars
  PROVE  Event /\ ExclusionInv'
<1>1. IInv'
  BY StepInv DEF ExclusionInv
<1>2. Event /\ Standing'
  BY <1>1, StandingStep DEF ExclusionInv
<1> QED
  BY <1>1, <1>2, ChecksHoldKept, WritersExcludedKept DEF ExclusionInv

(* While a deletion is pending or running no ingestion and no build of the *)
(* document is, for clients with one request per document at a time.       *)
(* (Two requests at once break it: each checks before the other inserts.)  *)
THEOREM DeletionsExclusive == Spec /\ []OneRequestPerDocument => []DeletionExcludesWriters
<1>1. ExclusionInv /\ OneRequestPerDocument /\ [Next]_vars => ExclusionInv'
  BY ExclusionStep
<1>2. ExclusionInv => DeletionExcludesWriters
  BY DEF ExclusionInv, WritersExcluded, DeletionExcludesWriters, ActiveRows
<1> QED
  BY <1>1, <1>2, ExclusionInit, PTL DEF Spec

(* A document with a deletion job is not moved: an ingestion that ends is  *)
(* an active one, and an activation finds the deletion job.                *)
LEMMA DeletedStays ==
  ASSUME ExclusionInv, LiveInv, Event, NEW d \in Document, RowsOf(deletion, d) # {}
  PROVE  collection'[d] = collection[d]
<1>1. IInv /\ StoreType
  BY DEF LiveInv, IInv, TypeOK
<1>2. ASSUME NEW w \in Ingestor, IngestorCompletes(w), collection'[d] # collection[d]
      PROVE  FALSE
  <2>1. d = IngestorDocument(w) /\ ~IngestorAt(w, "idle")
    BY <1>1, <1>2, CompletesTo DEF IngestorCompletes, IngestorAt
  <2>2. ingestor[w].job \in DOMAIN ingestion
    BY <1>1, <2>1 DEF IInv, SessionsHold, IngestorsValid, IngestorAt
  <2>3. ingestor[w].job \in ActiveRows(ingestion, d)
    BY <2>1, <2>2 DEF LiveInv, AttemptsHeld, ActiveRows, RowsOf, Active, IngestorDocument
  <2> QED
    BY <2>3 DEF ExclusionInv, WritersExcluded
<1>3. ASSUME NEW i, NEW n, DocumentMoved(i, n), collection'[d] # collection[d]
      PROVE  FALSE
  <2>1. d = reindex[i].document
    BY <1>1, <1>3, MovesTo
  <2>2. ~LatestIn(deletion, d, DeletionStatus)
    BY <1>3, <2>1 DEF DocumentMoved, Activates
  <2> QED
    BY <1>1, <2>2, NeverDeleted
<1> QED
  BY <1>2, <1>3, WhoMoves

(* What a deletion worker read as the current collection stays the current *)
(* one: mark_document_indexed and activate_reindexed_document move no      *)
(* document with a deletion job.                                           *)
THEOREM DeletedUnmoved ==
  ASSUME ~Overrun
  PROVE  Spec /\ []OneRequestPerDocument => DeletedStaysPut
<1> DEFINE Inv == ExclusionInv /\ LiveInv
<1>1. Init => Inv
  BY ExclusionInit, LiveInit
<1>2. Inv /\ OneRequestPerDocument /\ [Next]_vars => Inv'
  BY ExclusionStep, LiveStep
<1>3. Inv /\ OneRequestPerDocument /\ [Next]_vars =>
        [\A d \in Document : RowsOf(deletion, d) # {} => collection'[d] = collection[d]]_vars
  BY LiveStep, DeletedStays
<1> QED
  BY <1>1, <1>2, <1>3, PTL DEF Spec, DeletedStaysPut

---------------------------------------------------------------------------
(* Where the points of a document are.                                     *)

(* An ingestion worker that dies, or whose upsert fails having written     *)
(* points, leaves points that no table tells of; so does such a build.     *)
WritersReliable == Ingestor \cap (Mortal \cup Lossy) = {} /\ Builder \cap Lossy = {}

(* A retry decides on the rows of its snapshot: no attempt has been added  *)
(* since.                                                                  *)
RetriesCurrent ==
  \A c \in Client : At(c, "retry_read") =>
    \A i \in RowsOf(ingestion, client[c].document) : i <= client[c].row

(* A document that has been indexed is not ingested again.                 *)
IndexedOnce == \A d \in Document : collection[d] # None => LatestIn(ingestion, d, {"completed"})

(* A worker has found its document without a collection.                   *)
AttemptsFirst == \A w \in Ingestor : ingestor[w].base = None

(* A build of d in c that is not finished, and does not fail any more.     *)
Pending(c, d) ==
  \E i \in RowsOf(reindex, d) :
    /\ reindex[i].status = "processing" /\ reindex[i].target = c
    /\ \A w \in Builder : ~BuilderAt(w, "idle") /\ builder[w].job = i => BuilderAt(w, "built")

(* Who accounts for the points of d in c.                                  *)
Accounted(c, d) ==
  \/ /\ collection[d] = None
     /\ \E w \in Ingestor : IngestorAt(w, "indexed") /\ IngestorDocument(w) = d
                            /\ ingestor[w].target = c
  \/ collection[d] # None /\ (c \in Tracked(d) \/ Pending(c, d))

PointsAccounted ==
  \A c \in Collection, d \in Document : <<c, d>> \in vectors => Accounted(c, d)

(* A cleanup that is done has left nothing.                                *)
CleanedEmpty ==
  /\ \A w \in Cleaner : CleanerAt(w, "erased") =>
       <<CleanedJob(w).collection, CleanedJob(w).document>> \notin vectors
  /\ \A i \in DOMAIN cleanup : cleanup[i].status = "completed" =>
       <<cleanup[i].collection, cleanup[i].document>> \notin vectors

(* A deletion worker misses no collection: not in the lists it has read,   *)
(* nor among those it has still to erase from.                             *)
DeletersTrack ==
  \A w \in Deleter : ~DeleterAt(w, "idle") =>
    LET d == DeleterDocument(w)
    IN  \A c \in Collection : <<c, d>> \in vectors =>
          /\ deleter[w].at \in {"claimed", "cleanups_read"} /\ c \in CurrentCollection(d)
               => c \in deleter[w].todo
          /\ DeleterAt(w, "cleanups_read") /\ c \in CleanupCollections(d) => c \in deleter[w].todo
          /\ DeleterAt(w, "erasing") /\ ~deleter[w].failed => c \in deleter[w].todo

(* What is recorded as cleaned is clean.                                   *)
RecordedEmpty ==
  \A i \in DOMAIN deletion, c \in Collection :
    deletion[i].vectorsDone => <<c, deletion[i].document>> \notin vectors

PointsInv ==
  /\ ForwardInv /\ ExclusionInv
  /\ IndexedOnce /\ AttemptsFirst /\ PointsAccounted /\ CleanedEmpty /\ DeletersTrack /\ RecordedEmpty

---------------------------------------------------------------------------
(* Who writes points, and of which documents.                              *)

(* The latest row is the only one that can be active.                      *)
LEMMA IndexedRests ==
  ASSUME StoreType, ActiveIsLast(ingestion), NEW d, LatestIn(ingestion, d, {"completed"})
  PROVE  ActiveRows(ingestion, d) = {}
<1>1. DOMAIN ingestion \subseteq Nat
  BY IngestionRow
<1>2. PICK k \in RowsOf(ingestion, d) :
        (\A j \in RowsOf(ingestion, d) : j <= k) /\ ingestion[k].status = "completed"
  BY DEF LatestIn, IsLast
<1>3. ASSUME NEW i \in ActiveRows(ingestion, d)
      PROVE  FALSE
  <2>1. i \in RowsOf(ingestion, d) /\ ingestion[i].status \in Active
    BY DEF ActiveRows
  <2>2. k <= i /\ i <= k
    BY <1>2, <2>1 DEF ActiveIsLast, RowsOf
  <2>3. i = k
    BY <1>1, <1>2, <2>1, <2>2 DEF RowsOf
  <2> QED
    BY <1>2, <2>1, <2>3 DEF Active
<1> QED
  BY <1>3

(* A job that a live worker is processing is the active attempt of a       *)
(* document that has never been indexed.                                   *)
LEMMA AttemptUnindexed ==
  ASSUME LiveInv, IndexedOnce, NEW w \in Ingestor, ~IngestorAt(w, "idle")
  PROVE  /\ ingestor[w].job \in ActiveRows(ingestion, IngestorDocument(w))
         /\ IngestorDocument(w) \in Document
         /\ collection[IngestorDocument(w)] = None
<1>1. StoreType /\ ingestor[w].job \in DOMAIN ingestion
  BY DEF LiveInv, IInv, TypeOK, SessionsHold, IngestorsValid, IngestorAt
<1>2. PICK d \in Document : d = IngestorDocument(w)
  BY <1>1, IngestionRow DEF IngestorDocument
<1>3. ingestor[w].job \in ActiveRows(ingestion, d)
  BY <1>1, <1>2 DEF LiveInv, AttemptsHeld, ActiveRows, RowsOf, Active, IngestorDocument
<1>4. collection[d] # None => ActiveRows(ingestion, d) = {}
  BY <1>1, IndexedRests DEF LiveInv, Standing, IndexedOnce
<1> QED
  BY <1>2, <1>3, <1>4

(* Points are only written by a worker of an ingestion or a build, to the  *)
(* collection and of the document of its job ...                           *)
LEMMA PointsFrom ==
  ASSUME IInv, Event, NEW c, NEW d, <<c, d>> \in vectors', <<c, d>> \notin vectors
  PROVE  \/ \E w \in Ingestor : /\ ~IngestorAt(w, "idle")
                                /\ d = IngestorDocument(w) /\ c = ingestor[w].target
         \/ \E w \in Builder : /\ ~BuilderAt(w, "idle")
                               /\ d = BuiltJob(w).document /\ c = BuiltJob(w).target
<1>1. ASSUME NEW w \in Ingestor, IngestorActs(w)
      PROVE  ~IngestorAt(w, "idle") /\ d = IngestorDocument(w) /\ c = ingestor[w].target
  <2>1. UNCHANGED vectors \/ IngestorUpserts(w) \/ IngestorFails(w)
    BY <1>1 DEF IngestorActs, IngestorEffect, IngestorClaims, IngestorProceeds,
                IngestorLeaves, IngestorCompletes
  <2> QED
    BY <2>1 DEF IngestorUpserts, IngestorFails, IngestorAt
<1>2. ASSUME NEW w \in Builder, BuilderActs(w)
      PROVE  ~BuilderAt(w, "idle") /\ d = BuiltJob(w).document /\ c = BuiltJob(w).target
  <2>1. UNCHANGED vectors \/ BuilderUpserts(w) \/ BuilderFails(w)
    BY <1>2 DEF BuilderActs, BuilderEffect, BuilderClaims, BuilderProceeds,
                BuilderCompletes, BuilderLeaves
  <2> QED
    BY <2>1 DEF BuilderUpserts, BuilderFails, BuilderAt
<1>3. ASSUME NEW w \in Deleter, DeleterActs(w)
      PROVE  FALSE
  BY <1>3 DEF DeleterActs, DeleterEffect, DeleterClaims, DeleterTracks, DeleterErases,
              DeleterRecords, DeleterErasesObject, DeleterFails, DeleterCompletes, DeleterLeaves
<1>4. ASSUME NEW w \in Cleaner, CleanerActs(w)
      PROVE  FALSE
  BY <1>4 DEF CleanerActs, CleanerEffect, CleanerClaims, CleanerProceeds, CleanerErases,
              CleanerFails, CleanerCompletes, CleanerLeaves
<1> QED
  BY <1>1, <1>2, <1>3, <1>4, WhoWrites

(* ... by its upsert, where no upsert fails having written them ...        *)
LEMMA PointsWritten ==
  ASSUME IInv, WritersReliable, Event, NEW c, NEW d, <<c, d>> \in vectors', <<c, d>> \notin vectors
  PROVE  \/ \E w \in Ingestor : /\ IngestorActs(w) /\ IngestorUpserts(w)
                                /\ d = IngestorDocument(w) /\ c = ingestor[w].target
         \/ \E w \in Builder : /\ BuilderActs(w) /\ BuilderUpserts(w)
                               /\ d = BuiltJob(w).document /\ c = BuiltJob(w).target
<1>1. ASSUME NEW w \in Ingestor, IngestorActs(w)
      PROVE  IngestorUpserts(w) /\ d = IngestorDocument(w) /\ c = ingestor[w].target
  <2>1. w \notin Lossy
    BY DEF WritersReliable
  <2>2. UNCHANGED vectors \/ IngestorUpserts(w)
    BY <1>1, <2>1 DEF IngestorActs, IngestorEffect, IngestorClaims, IngestorProceeds,
                      IngestorLeaves, IngestorFails, IngestorCompletes
  <2> QED
    BY <2>2 DEF IngestorUpserts
<1>2. ASSUME NEW w \in Builder, BuilderActs(w)
      PROVE  BuilderUpserts(w) /\ d = BuiltJob(w).document /\ c = BuiltJob(w).target
  <2>1. w \notin Lossy
    BY DEF WritersReliable
  <2>2. UNCHANGED vectors \/ BuilderUpserts(w)
    BY <1>2, <2>1 DEF BuilderActs, BuilderEffect, BuilderClaims, BuilderProceeds,
                      BuilderFails, BuilderCompletes, BuilderLeaves
  <2> QED
    BY <2>2 DEF BuilderUpserts
<1>3. ASSUME NEW w \in Deleter, DeleterActs(w)
      PROVE  FALSE
  BY <1>3 DEF DeleterActs, DeleterEffect, DeleterClaims, DeleterTracks, DeleterErases,
              DeleterRecords, DeleterErasesObject, DeleterFails, DeleterCompletes, DeleterLeaves
<1>4. ASSUME NEW w \in Cleaner, CleanerActs(w)
      PROVE  FALSE
  BY <1>4 DEF CleanerActs, CleanerEffect, CleanerClaims, CleanerProceeds, CleanerErases,
              CleanerFails, CleanerCompletes, CleanerLeaves
<1> QED
  BY <1>1, <1>2, <1>3, <1>4, WhoWrites

(* ... never to a collection that their document has left ...             *)
LEMMA WrittenAhead ==
  ASSUME ForwardInv, IndexedOnce, Event,
         NEW c, NEW d, <<c, d>> \in vectors', <<c, d>> \notin vectors
  PROVE  collection[d] = None \/ c \notin Left
<1>0. IInv /\ LiveInv /\ StoreType /\ MovesForward
  BY DEF ForwardInv, LiveInv, IInv, TypeOK
<1>1. ASSUME NEW w \in Ingestor, ~IngestorAt(w, "idle"), d = IngestorDocument(w)
      PROVE  collection[d] = None
  BY <1>0, <1>1, AttemptUnindexed
<1>2. ASSUME NEW w \in Builder, ~BuilderAt(w, "idle"), c = BuiltJob(w).target
      PROVE  c \notin Left
  BY <1>0, <1>2 DEF IInv, SessionsHold, BuildersValid, BuilderAt, MovesForward, BuildsAhead, Ahead,
                    BuiltJob
<1> QED
  BY <1>0, <1>1, <1>2, PointsFrom

(* ... and of a document without deletion job.                             *)
LEMMA WrittenInPlace ==
  ASSUME PointsInv, WritersReliable, Event,
         NEW c, NEW d, <<c, d>> \in vectors', <<c, d>> \notin vectors
  PROVE  RowsOf(deletion, d) = {} /\ (collection[d] = None \/ c \notin Left)
<1>0. IInv /\ LiveInv /\ StoreType /\ MovesForward /\ WritersExcluded /\ IndexedOnce
  BY DEF PointsInv, ForwardInv, LiveInv, IInv, TypeOK, ExclusionInv
<1>1. ASSUME NEW w \in Ingestor, IngestorUpserts(w), d = IngestorDocument(w)
      PROVE  RowsOf(deletion, d) = {} /\ collection[d] = None
  <2>1. ~IngestorAt(w, "idle")
    BY <1>1 DEF IngestorUpserts, IngestorAt
  <2> QED
    BY <1>0, <1>1, <2>1, AttemptUnindexed DEF WritersExcluded
<1>2. ASSUME NEW w \in Builder, BuilderUpserts(w),
             d = BuiltJob(w).document, c = BuiltJob(w).target
      PROVE  RowsOf(deletion, d) = {} /\ c \notin Left
  <2>1. builder[w].job \in DOMAIN reindex /\ reindex[builder[w].job].status = "processing"
    BY <1>0, <1>2 DEF IInv, SessionsHold, BuildersValid, BuilderUpserts, BuilderAt
  <2>2. PICK e \in Document : e = d
    BY <1>0, <1>2, <2>1, ReindexRow DEF BuiltJob
  <2>3. builder[w].job \in ActiveRows(reindex, e)
    BY <1>2, <2>1, <2>2 DEF ActiveRows, RowsOf, Active, BuiltJob
  <2>4. c \notin Left
    BY <1>0, <1>2, <2>1 DEF MovesForward, BuildsAhead, Ahead, BuiltJob
  <2> QED
    BY <1>0, <2>2, <2>3, <2>4 DEF WritersExcluded
<1> QED
  BY <1>0, <1>1, <1>2, PointsWritten

---------------------------------------------------------------------------
(* A document that has been indexed is not ingested again.                 *)

(* The latest status of a document whose rows are left alone stays.        *)
LEMMA LatestStays ==
  ASSUME NEW t, NEW u, NEW d, NEW statuses, LatestIn(t, d, statuses),
         RowsOf(u, d) = RowsOf(t, d), \A j \in RowsOf(t, d) : u[j].status = t[j].status
  PROVE  LatestIn(u, d, statuses)
  BY DEF LatestIn, IsLast

(* A retry that decides on a current snapshot, and a recovery, replace no  *)
(* attempt of a document that has been indexed.                            *)
LEMMA ReplacedUnindexed ==
  ASSUME LiveInv, IndexedOnce, RetriesCurrent, NEW i, NEW n, NEW d, AttemptReplaced(i, n, d)
  PROVE  d \in Document /\ collection[d] = None
<1>1. /\ i \in RowsOf(ingestion, d) /\ ingestion[i].status \in {"failed", "processing"}
      /\ StoreType /\ DOMAIN ingestion \subseteq Nat
  BY IngestionRow DEF LiveInv, IInv, TypeOK, AttemptReplaced, IngestionReplaced, Replaceable
<1>2. d \in Document
  BY <1>1, IngestionRow DEF RowsOf
<1>3. ASSUME LatestIn(ingestion, d, {"completed"})
      PROVE  FALSE
  <2>1. ActiveRows(ingestion, d) = {}
    BY <1>1, <1>3, IndexedRests DEF LiveInv, Standing
  <2>2. ingestion[i].status # "processing"
    BY <1>1, <2>1 DEF ActiveRows, Active
  <2>3. PICK c \in Client : /\ At(c, "retry_read") /\ client[c].document = d
                            /\ IsLast(i, {j \in RowsOf(ingestion, d) : j <= client[c].row})
    BY <2>2 DEF AttemptReplaced
  <2>4. \A j \in RowsOf(ingestion, d) : j <= i
    BY <2>3 DEF RetriesCurrent, IsLast
  <2>5. PICK k \in RowsOf(ingestion, d) :
          (\A j \in RowsOf(ingestion, d) : j <= k) /\ ingestion[k].status = "completed"
    BY <1>3 DEF LatestIn, IsLast
  <2>6. i = k
    BY <1>1, <2>4, <2>5 DEF RowsOf
  <2> QED
    BY <1>1, <2>5, <2>6
<1> QED
  BY <1>2, <1>3 DEF IndexedOnce

(* The ingestion that has indexed a document stays its latest.             *)
LEMMA IndexedOnceKept ==
  ASSUME LiveInv, LiveInv', IndexedOnce, RetriesCurrent, Event
  PROVE  IndexedOnce'
<1>0. IInv /\ StoreType /\ Standing /\ collection \in [Document -> Collection \cup {None}]
  BY DEF LiveInv, IInv, TypeOK, StoreType
<1> SUFFICES ASSUME NEW d \in Document, collection'[d] # None
             PROVE  LatestIn(ingestion, d, {"completed"})'
  BY DEF IndexedOnce
<1>1. ASSUME collection[d] # None
      PROVE  LatestIn(ingestion', d, {"completed"})
  <2>1. LatestIn(ingestion, d, {"completed"}) /\ ActiveRows(ingestion, d) = {}
    BY <1>0, <1>1, IndexedRests DEF IndexedOnce, Standing
  <2>2. CASE UNCHANGED ingestion
    BY <2>1, <2>2
  <2>3. ASSUME NEW i, NEW s, SetsStatus(ingestion, ingestion', i, s), ingestion[i].document # d
        PROVE  LatestIn(ingestion', d, {"completed"})
    <3>1. RowsOf(ingestion', d) = RowsOf(ingestion, d)
          /\ \A j \in RowsOf(ingestion, d) : ingestion'[j].status = ingestion[j].status
      BY <2>3 DEF SetsStatus, RowsOf
    <3> QED
      BY <2>1, <3>1, LatestStays
  <2>4. ASSUME NEW w \in Ingestor, IngestorActs(w)
        PROVE  LatestIn(ingestion', d, {"completed"})
    <3>1. CASE \E i : IngestorClaims(w, i)
      <4>1. PICK i : IngestorClaims(w, i)
        BY <3>1
      <4>2. ingestion[i].document # d
        BY <2>1, <4>1 DEF IngestorClaims, ActiveRows, RowsOf, Active
      <4> QED
        BY <2>3, <4>1, <4>2 DEF IngestorClaims
    <3>2. CASE IngestorFails(w) \/ IngestorCompletes(w)
      <4>1. ~IngestorAt(w, "idle")
        BY <3>2 DEF IngestorFails, IngestorCompletes, IngestorAt
      <4>2. ingestion[ingestor[w].job].document # d
        BY <1>1, <4>1, AttemptUnindexed DEF IngestorDocument
      <4> QED
        BY <2>3, <3>2, <4>2 DEF IngestorFails, IngestorCompletes
    <3>3. CASE UNCHANGED ingestion
      BY <2>2, <3>3
    <3> QED
      BY <2>4, <3>1, <3>2, <3>3
      DEF IngestorActs, IngestorEffect, IngestorProceeds, IngestorUpserts, IngestorLeaves
  <2>5. ASSUME NEW i, NEW n, NEW e, AttemptReplaced(i, n, e)
        PROVE  LatestIn(ingestion', d, {"completed"})
    <3>1. e # d
      BY <1>1, <2>5, ReplacedUnindexed
    <3>2. PICK m : SetsStatus(ingestion, m, i, "failed") /\ Inserts(m, ingestion', n, e)
      BY <2>5 DEF AttemptReplaced, IngestionReplaced, Replaces
    <3>3. ingestion[i].document = e
      BY <2>5 DEF AttemptReplaced, IngestionReplaced, RowsOf
    <3>4. RowsOf(ingestion', d) = RowsOf(ingestion, d)
          /\ \A j \in RowsOf(ingestion, d) : ingestion'[j].status = ingestion[j].status
      BY <3>1, <3>2, <3>3 DEF SetsStatus, Inserts, RowsOf
    <3> QED
      BY <2>1, <3>4, LatestStays
  <2> QED
    BY <2>2, <2>4, <2>5, WhoIngests
<1>2. ASSUME NEW w \in Ingestor, IngestorActs(w), IngestorCompletes(w), collection[d] = None
      PROVE  LatestIn(ingestion', d, {"completed"})
  <2>1. d = IngestorDocument(w) /\ ~IngestorAt(w, "idle")
    BY <1>0, <1>2, CompletesTo DEF IngestorCompletes, IngestorAt
  <2>2. PICK i \in ActiveRows(ingestion, d) : i = ingestor[w].job
    BY <2>1, AttemptUnindexed
  <2>3. \A j \in RowsOf(ingestion, d) : j <= i
    BY <1>0, <2>2 DEF Standing, ActiveIsLast, ActiveRows, RowsOf
  <2>4. RowsOf(ingestion', d) = RowsOf(ingestion, d) /\ ingestion'[i].status = "completed"
    BY <1>2, <2>2 DEF IngestorCompletes, SetsStatus, RowsOf
  <2> QED
    BY <2>2, <2>3, <2>4 DEF LatestIn, IsLast, ActiveRows
<1>3. ASSUME NEW i, NEW n, DocumentMoved(i, n), collection[d] = None
      PROVE  FALSE
  BY <1>0, <1>3, MovedFromSome
<1>4. LatestIn(ingestion', d, {"completed"})
  BY <1>1, <1>2, <1>3, WhoMoves
<1> QED
  BY <1>4 DEF LatestIn, IsLast, RowsOf

(* Hence a worker never finds its document in a collection.                *)
LEMMA AttemptsFirstKept ==
  ASSUME LiveInv, IndexedOnce, AttemptsFirst, Event
  PROVE  AttemptsFirst'
<1> SUFFICES ASSUME NEW w \in Ingestor, IngestorActs(w)
             PROVE  ingestor'[w].base = None
  BY WorkersAlone DEF LiveInv, AttemptsFirst
<1>0. /\ ingestor[w] \in IngestorSession /\ ingestor[w].base = None
      /\ IInv /\ StoreType /\ ActiveIsLast(ingestion)
  BY DEF LiveInv, IInv, TypeOK, IngestionType, AttemptsFirst, Standing
<1>1. CASE \E i : IngestorClaims(w, i)
  <2>1. PICK i : IngestorClaims(w, i)
    BY <1>1
  <2>2. PICK d \in Document : d = ingestion[i].document
    BY <1>0, <2>1, IngestionRow DEF IngestorClaims
  <2>3. i \in ActiveRows(ingestion, d)
    BY <2>1, <2>2 DEF IngestorClaims, ActiveRows, RowsOf, Active
  <2>4. collection[d] = None
    BY <1>0, <2>3, IndexedRests DEF IndexedOnce
  <2> QED
    BY <2>1, <2>2, <2>4 DEF IngestorClaims, IngestorBecomes
<1>2. CASE \E step \in {"embedded", "registering", "ready"} : IngestorProceeds(w, step)
  <2>0. PICK step \in {"embedded", "registering", "ready"} : IngestorProceeds(w, step)
    BY <1>2
  <2> DEFINE s == [ingestor[w] EXCEPT !.at = step]
  <2>1. s.base = None
    BY <1>0 DEF IngestorSession
  <2>2. IngestorBecomes(w, s)
    BY <2>0 DEF IngestorProceeds
  <2> HIDE DEF s
  <2> QED
    BY <2>1, <2>2 DEF IngestorBecomes
<1>3. CASE IngestorUpserts(w)
  <2> DEFINE s == [ingestor[w] EXCEPT !.at = "indexed"]
  <2>1. s.base = None
    BY <1>0 DEF IngestorSession
  <2>2. IngestorBecomes(w, s)
    BY <1>3 DEF IngestorUpserts
  <2> HIDE DEF s
  <2> QED
    BY <2>1, <2>2 DEF IngestorBecomes
<1>4. CASE IngestorLeaves(w) \/ IngestorFails(w) \/ IngestorCompletes(w)
  BY <1>4 DEF IngestorLeaves, IngestorFails, IngestorCompletes, IngestorBecomes, NoIngestion
<1> QED
  BY <1>1, <1>2, <1>3, <1>4 DEF IngestorActs, IngestorEffect

---------------------------------------------------------------------------
(* The points of a document remain accounted for.                          *)

(* A finished build stays one of the collections a deletion looks at.      *)
LEMMA BuildsStay ==
  ASSUME IInv, Event, NEW i \in DOMAIN reindex, reindex[i].status = "completed"
  PROVE  i \in DOMAIN reindex' /\ reindex'[i].status = "completed"
<1>1. ASSUME NEW j, NEW s, ReindexSetsOf(j, s), reindex[j].status # "completed"
      PROVE  i \in DOMAIN reindex' /\ reindex'[i].status = "completed"
  BY <1>1 DEF ReindexSetsOf, SetsStatus
<1>2. ASSUME NEW w \in Builder, BuilderActs(w)
      PROVE  i \in DOMAIN reindex' /\ reindex'[i].status = "completed"
  <2>1. ~BuilderAt(w, "idle") => reindex[builder[w].job].status = "processing"
    BY DEF IInv, SessionsHold, BuildersValid, BuilderAt
  <2>2. CASE \E j : BuilderClaims(w, j)
    BY <1>1, <2>2 DEF BuilderClaims
  <2>3. CASE BuilderFails(w) \/ BuilderCompletes(w)
    BY <1>1, <2>1, <2>3 DEF BuilderFails, BuilderCompletes, BuilderAt
  <2>4. CASE UNCHANGED reindex
    BY <2>4
  <2> QED
    BY <1>2, <2>2, <2>3, <2>4
    DEF BuilderActs, BuilderEffect, BuilderProceeds, BuilderUpserts, BuilderLeaves
<1>3. ASSUME NEW c \in Client, NEW n, BuildScheduled(c, n)
      PROVE  i \in DOMAIN reindex' /\ reindex'[i].status = "completed"
  BY <1>3 DEF BuildScheduled, ScheduleInserts, Inserts
<1>4. ASSUME NEW j, NEW n, DocumentMoved(j, n)
      PROVE  i \in DOMAIN reindex' /\ reindex'[i].status = "completed"
  BY <1>4 DEF DocumentMoved, Activates
<1> QED
  BY <1>2, <1>3, <1>4, WhoBuilds

(* A build whose worker has written its points goes on, or is finished.    *)
LEMMA PendingStays ==
  ASSUME IInv, Event, NEW c, NEW d, Pending(c, d)
  PROVE  Pending(c, d)' \/ c \in BuiltCollections(d)'
<1>1. PICK i \in RowsOf(reindex, d) :
        /\ reindex[i].status = "processing" /\ reindex[i].target = c
        /\ \A w \in Builder : ~BuilderAt(w, "idle") /\ builder[w].job = i => BuilderAt(w, "built")
  BY DEF Pending
<1>2. i \in RowsOf(reindex', d) /\ reindex'[i].target = c
  BY <1>1, TablesGrow, BuildsPinned DEF Grows, RowsOf
<1>3. CASE reindex'[i].status = "completed"
  BY <1>2, <1>3 DEF BuiltCollections, RowsOf
<1>4. ASSUME reindex'[i].status = "processing", UNCHANGED builder
      PROVE  Pending(c, d)'
  BY <1>1, <1>2, <1>4 DEF Pending, RowsOf, BuilderAt
<1>5. ASSUME NEW w \in Builder, BuilderActs(w), NEW s, BuilderBecomes(w, s),
             s.at \in {"idle", "built"} \/ s.job # i,
             reindex'[i].status = "processing"
      PROVE  Pending(c, d)'
  <2>1. \A v \in Builder : ~BuilderAt(v, "idle")' /\ builder'[v].job = i => BuilderAt(v, "built")'
    BY <1>1, <1>5 DEF BuilderBecomes, BuilderAt
  <2> QED
    BY <1>2, <1>5, <2>1 DEF Pending, RowsOf
<1>6. ASSUME NEW w \in Builder, BuilderActs(w)
      PROVE  Pending(c, d)' \/ c \in BuiltCollections(d)'
  <2>0. builder[w] \in BuilderSession
    BY DEF IInv, TypeOK, ReindexingType
  <2>1. CASE \E j : BuilderClaims(w, j)
    <3>1. PICK j : BuilderClaims(w, j)
      BY <2>1
    <3>2. j # i
      BY <1>1, <3>1 DEF BuilderClaims
    <3>3. reindex'[i].status = "processing"
      BY <1>1, <3>1, <3>2 DEF BuilderClaims, ReindexSetsOf, SetsStatus, RowsOf
    <3>4. BuilderBecomes(w, [at |-> "claimed", job |-> j])
      BY <3>1 DEF BuilderClaims
    <3> QED
      BY <1>5, <1>6, <3>2, <3>3, <3>4
  <2>2. CASE \E step : BuilderProceeds(w, step)
    <3>1. PICK step : BuilderProceeds(w, step)
      BY <2>2
    <3> DEFINE s == [builder[w] EXCEPT !.at = step]
    <3>2. s.job = builder[w].job
      BY <2>0 DEF BuilderSession
    <3>3. builder[w].job # i
      BY <1>1, <3>1 DEF BuilderProceeds, BuilderAt
    <3>4. BuilderBecomes(w, s) /\ reindex'[i].status = "processing"
      BY <1>1, <3>1 DEF BuilderProceeds
    <3> HIDE DEF s
    <3> QED
      BY <1>5, <1>6, <3>2, <3>3, <3>4
  <2>3. CASE BuilderUpserts(w)
    <3> DEFINE s == [builder[w] EXCEPT !.at = "built"]
    <3>1. s.at = "built"
      BY <2>0 DEF BuilderSession
    <3>2. BuilderBecomes(w, s) /\ reindex'[i].status = "processing"
      BY <1>1, <2>3 DEF BuilderUpserts
    <3> HIDE DEF s
    <3> QED
      BY <1>5, <1>6, <3>1, <3>2
  <2>4. CASE BuilderFails(w)
    <3>1. builder[w].job # i
      BY <1>1, <2>4 DEF BuilderFails, BuilderAt
    <3>2. reindex'[i].status = "processing" /\ BuilderBecomes(w, NoBuild)
      BY <1>1, <2>4, <3>1 DEF BuilderFails, ReindexSetsOf, SetsStatus, RowsOf
    <3> QED
      BY <1>5, <1>6, <3>2 DEF NoBuild
  <2>5. CASE BuilderCompletes(w)
    <3>1. reindex'[i].status \in {"processing", "completed"} /\ BuilderBecomes(w, NoBuild)
      BY <1>1, <2>5 DEF BuilderCompletes, ReindexSetsOf, SetsStatus, RowsOf
    <3> QED
      BY <1>3, <1>5, <1>6, <3>1 DEF NoBuild
  <2>6. CASE BuilderLeaves(w)
    <3>1. reindex'[i].status = "processing" /\ BuilderBecomes(w, NoBuild)
      BY <1>1, <2>6 DEF BuilderLeaves
    <3> QED
      BY <1>5, <1>6, <3>1 DEF NoBuild
  <2> QED
    BY <1>6, <2>1, <2>2, <2>3, <2>4, <2>5, <2>6 DEF BuilderActs, BuilderEffect
<1>7. ASSUME NEW b \in Client, NEW n, BuildScheduled(b, n)
      PROVE  Pending(c, d)'
  <2>1. reindex'[i].status = "processing" /\ UNCHANGED builder
    BY <1>1, <1>7 DEF BuildScheduled, ScheduleInserts, Inserts, WorkersUnchanged, RowsOf
  <2> QED
    BY <1>4, <2>1
<1>8. ASSUME NEW j, NEW n, DocumentMoved(j, n)
      PROVE  Pending(c, d)'
  <2>1. reindex'[i].status = "processing" /\ UNCHANGED builder
    BY <1>1, <1>8 DEF DocumentMoved, Activates, WorkersUnchanged, RowsOf
  <2> QED
    BY <1>4, <2>1
<1>9. CASE UNCHANGED <<builder, reindex>>
  BY <1>1, <1>4, <1>9
<1> QED
  BY <1>6, <1>7, <1>8, <1>9, WhoBuilds

(* An open cleanup row stays open until its collection has been erased.    *)
LEMMA CleanupsStay ==
  ASSUME IInv, Event, CleanedEmpty, NEW c, NEW d, c \in CleanupCollections(d)
  PROVE  c \in CleanupCollections(d)' \/ <<c, d>> \notin vectors
<1>1. PICK i \in DOMAIN cleanup : cleanup[i].document = d /\ cleanup[i].collection = c
                                  /\ cleanup[i].status # "completed"
  BY DEF CleanupCollections, RowsOf
<1>2. ASSUME i \in DOMAIN cleanup', cleanup'[i].document = d, cleanup'[i].collection = c,
             cleanup'[i].status # "completed"
      PROVE  c \in CleanupCollections(d)'
  BY <1>2 DEF CleanupCollections, RowsOf
<1>3. ASSUME NEW w \in Cleaner, CleanerActs(w)
      PROVE  c \in CleanupCollections(d)' \/ <<c, d>> \notin vectors
  <2>1. CASE UNCHANGED cleanup
    BY <1>1, <1>2, <2>1
  <2>2. CASE CleanerFails(w)
    BY <1>1, <1>2, <2>2 DEF CleanerFails, CleanupSetsOf
  <2>3. CASE CleanerCompletes(w) /\ cleaner[w].job # i
    BY <1>1, <1>2, <2>3 DEF CleanerCompletes, CleanupSetsOf
  <2>4. CASE CleanerCompletes(w) /\ cleaner[w].job = i
    BY <1>1, <2>4 DEF CleanerCompletes, CleanedEmpty, CleanedJob
  <2> QED
    BY <1>3, <2>1, <2>2, <2>3, <2>4 DEF CleanerActs, CleanerEffect, CleanerClaims, CleanerProceeds,
       CleanerErases, CleanerLeaves
<1>4. ASSUME NEW j, NEW n, DocumentMoved(j, n)
      PROVE  c \in CleanupCollections(d)'
  BY <1>1, <1>2, <1>4 DEF DocumentMoved, Activates
<1> QED
  BY <1>1, <1>2, <1>3, <1>4, WhoCleans

(* The first points of a document: their worker makes the collection the   *)
(* document's, or goes on holding them.                                    *)
LEMMA FirstPointsKept ==
  ASSUME LiveInv, WritersReliable, AttemptsFirst, Event,
         NEW c, NEW d \in Document, collection[d] = None,
         NEW w \in Ingestor, IngestorAt(w, "indexed"), IngestorDocument(w) = d, ingestor[w].target = c
  PROVE  Accounted(c, d)'
<1>0. IInv /\ Standing /\ AttemptsHeld /\ ~IngestorAt(w, "idle")
  BY DEF LiveInv, IngestorAt
<1>1. IngestorDocument(w)' = d \/ ingestor'[w] # ingestor[w]
  BY <1>0, TablesGrow DEF Grows, IInv, SessionsHold, IngestorsValid, IngestorAt, IngestorDocument
<1>2. ASSUME NEW v \in Ingestor, IngestorActs(v), IngestorCompletes(v), collection'[d] # None
      PROVE  c = collection'[d]
  <2>1. d = IngestorDocument(v) /\ collection'[d] = ingestor[v].target /\ ~IngestorAt(v, "idle")
    BY <1>0, <1>2, CompletesTo DEF IngestorCompletes, IngestorAt
  <2> QED
    BY <1>0, <2>1, OneAttempt
<1>3. CASE collection'[d] # None
  <2>1. c = collection'[d]
    BY <1>0, <1>2, <1>3, WhoMoves, MovedFromSome
  <2> QED
    BY <1>3, <2>1 DEF Accounted, Tracked, CurrentCollection
<1>4. CASE collection'[d] = None /\ ingestor'[w] = ingestor[w]
  BY <1>1, <1>4 DEF Accounted, IngestorAt
<1>5. ASSUME IngestorActs(w)
      PROVE  collection'[d] # None
  <2>1. IngestorLeaves(w) \/ IngestorCompletes(w)
    BY <1>5 DEF IngestorActs, IngestorEffect, IngestorClaims, IngestorProceeds, IngestorUpserts,
                IngestorFails, IngestorAt
  <2>2. ~IngestorLeaves(w)
    BY <1>0 DEF IngestorLeaves, IngestorAt, WritersReliable, Standing, TargetsRegistered
  <2>3. ingestor[w].target # None
    BY <1>0, StoreAssumption DEF IInv, SessionsHold, IngestorsValid, IngestorAt
  <2>4. collection \in [Document -> Collection \cup {None}]
    BY <1>0 DEF IInv, TypeOK, StoreType
  <2> QED
    BY <2>1, <2>2, <2>3, <2>4 DEF IngestorCompletes, AttemptsFirst
<1> QED
  BY <1>0, <1>3, <1>4, <1>5, WorkersAlone

(* Points just written are accounted for by their writer ...               *)
LEMMA NewPointAccounted ==
  ASSUME PointsInv, WritersReliable, Event,
         NEW c, NEW d \in Document, <<c, d>> \in vectors', <<c, d>> \notin vectors
  PROVE  Accounted(c, d)'
<1>0. IInv /\ LiveInv /\ IndexedOnce /\ BuildsIndexed /\ StoreType
  BY DEF PointsInv, ForwardInv, LiveInv, IInv, TypeOK, Standing
<1>1. ASSUME NEW w \in Ingestor, IngestorUpserts(w), d = IngestorDocument(w), c = ingestor[w].target
      PROVE  Accounted(c, d)'
  <2>1. collection[d] = None
    BY <1>0, <1>1, AttemptUnindexed DEF IngestorUpserts, IngestorAt
  <2>2. ingestor[w] \in IngestorSession
    BY <1>0 DEF IInv, TypeOK, IngestionType
  <2> DEFINE s == [ingestor[w] EXCEPT !.at = "indexed"]
  <2>3. s.at = "indexed" /\ s.job = ingestor[w].job /\ s.target = ingestor[w].target
    BY <2>2 DEF IngestorSession
  <2>4. ingestor'[w] = s /\ UNCHANGED <<collection, ingestion>>
    BY <1>1 DEF IngestorUpserts, IngestorBecomes
  <2> HIDE DEF s
  <2>5. IngestorAt(w, "indexed")' /\ IngestorDocument(w)' = d /\ ingestor'[w].target = c
    BY <1>1, <2>3, <2>4 DEF IngestorAt, IngestorDocument
  <2> QED
    BY <2>1, <2>4, <2>5 DEF Accounted
<1>2. ASSUME NEW w \in Builder, BuilderActs(w), BuilderUpserts(w),
             d = BuiltJob(w).document, c = BuiltJob(w).target
      PROVE  Accounted(c, d)'
  <2>1. PICK i \in DOMAIN reindex : i = builder[w].job /\ reindex[i].status = "processing"
    BY <1>0, <1>2 DEF IInv, SessionsHold, BuildersValid, BuilderUpserts, BuilderAt
  <2>2. collection[d] # None
    BY <1>0, <1>2, <2>1 DEF BuildsIndexed, BuiltJob
  <2>3. builder[w] \in BuilderSession /\ DOMAIN builder = Builder
    BY <1>0 DEF IInv, TypeOK, ReindexingType
  <2> DEFINE s == [builder[w] EXCEPT !.at = "built"]
  <2>4. s.at = "built"
    BY <2>3 DEF BuilderSession
  <2>5. BuilderBecomes(w, s) /\ UNCHANGED <<collection, reindex>>
    BY <1>2 DEF BuilderUpserts, BuilderActs
  <2> HIDE DEF s
  <2>6. ASSUME NEW v \in Builder, ~BuilderAt(v, "idle")', builder'[v].job = i
        PROVE  BuilderAt(v, "built")'
    <3>1. CASE v = w
      BY <2>4, <2>5, <3>1 DEF BuilderBecomes, BuilderAt
    <3>2. CASE v # w
      <4>1. builder[v].at # "idle" /\ builder[v].job = builder[w].job /\ builder[w].at # "idle"
        BY <1>2, <2>1, <2>5, <2>6, <3>2 DEF BuilderBecomes, BuilderAt, BuilderUpserts
      <4> QED
        BY <1>0, <2>3, <3>2, <4>1 DEF IInv, SessionsHold, HeldOnce, HeldOnceBy
    <3> QED
      BY <3>1, <3>2
  <2>7. Pending(c, d)'
    BY <1>2, <2>1, <2>5, <2>6 DEF Pending, RowsOf, BuiltJob
  <2> QED
    BY <2>2, <2>5, <2>7 DEF Accounted
<1> QED
  BY <1>0, <1>1, <1>2, PointsWritten

(* ... and points that are left alone as before, or by the cleanup row of  *)
(* the activation that moves their document.                               *)
LEMMA OldPointAccounted ==
  ASSUME PointsInv, WritersReliable, Event,
         NEW c \in Collection, NEW d \in Document, <<c, d>> \in vectors
  PROVE  Accounted(c, d)'
<1>0. IInv /\ LiveInv /\ IndexedOnce /\ AttemptsFirst /\ CleanedEmpty /\ StoreType /\ Accounted(c, d)
  BY DEF PointsInv, ForwardInv, LiveInv, IInv, TypeOK, PointsAccounted
<1>1. CASE collection[d] = None
  BY <1>0, <1>1, FirstPointsKept DEF Accounted
<1>2. CASE collection[d] # None
  <2>1. collection'[d] # None
    BY <1>0, <1>2, StaysIndexed
  <2>2. CASE c = collection[d]
    <3>1. CASE collection'[d] = collection[d]
      BY <1>2, <2>2, <3>1 DEF Accounted, Tracked, CurrentCollection
    <3>2. ASSUME NEW w \in Ingestor, IngestorCompletes(w), collection'[d] # collection[d]
          PROVE  FALSE
      <4>1. d = IngestorDocument(w) /\ ~IngestorAt(w, "idle")
        BY <1>0, <3>2, CompletesTo DEF IngestorCompletes, IngestorAt
      <4> QED
        BY <1>0, <1>2, <4>1, AttemptUnindexed
    <3>3. ASSUME NEW i, NEW n, DocumentMoved(i, n), collection'[d] # collection[d]
          PROVE  c \in CleanupCollections(d)'
      <4>1. d = reindex[i].document /\ c = reindex[i].source
        BY <1>0, <2>2, <3>3, MovesTo DEF DocumentMoved, Activates
      <4>2. n \in RowsOf(cleanup', d) /\ cleanup'[n].status # "completed" /\ cleanup'[n].collection = c
        BY <3>3, <4>1 DEF DocumentMoved, Activates, PendingCleanupJob, RowsOf
      <4> QED
        BY <4>2 DEF CleanupCollections, RowsOf
    <3> QED
      BY <2>1, <3>1, <3>2, <3>3, WhoMoves DEF Accounted, Tracked
  <2>3. CASE c \in CleanupCollections(d)
    BY <1>0, <2>1, <2>3, CleanupsStay DEF Accounted, Tracked
  <2>4. CASE c \in BuiltCollections(d)
    <3>1. PICK i \in DOMAIN reindex : reindex[i].document = d /\ reindex[i].target = c
                                      /\ reindex[i].status = "completed"
      BY <2>4 DEF BuiltCollections, RowsOf
    <3>2. i \in DOMAIN reindex' /\ reindex'[i].document = d /\ reindex'[i].target = c
          /\ reindex'[i].status = "completed"
      BY <1>0, <3>1, BuildsStay, BuildsPinned
    <3>3. c \in BuiltCollections(d)'
      BY <3>2 DEF BuiltCollections, RowsOf
    <3> QED
      BY <2>1, <3>3 DEF Accounted, Tracked
  <2>5. CASE Pending(c, d)
    BY <1>0, <2>1, <2>5, PendingStays DEF Accounted, Tracked
  <2>6. CASE c \in CurrentCollection(d)
    BY <2>2, <2>6 DEF CurrentCollection
  <2> QED
    BY <1>0, <1>2, <2>3, <2>4, <2>5, <2>6 DEF Accounted, Tracked
<1> QED
  BY <1>1, <1>2

(* Every point remains accounted for.                                      *)
LEMMA PointsAccountedKept ==
  ASSUME PointsInv, WritersReliable, Event
  PROVE  PointsAccounted'
  BY NewPointAccounted, OldPointAccounted DEF PointsAccounted

---------------------------------------------------------------------------
(* What has been cleaned remains so.                                       *)

(* A cleanup row keeps its document and its collection.                    *)
LEMMA CleanupsPinned ==
  ASSUME IInv, Event, NEW i \in DOMAIN cleanup
  PROVE  i \in DOMAIN cleanup' /\ cleanup'[i].document = cleanup[i].document
         /\ cleanup'[i].collection = cleanup[i].collection
<1>1. ASSUME NEW w \in Cleaner, CleanerActs(w)
      PROVE  UNCHANGED cleanup \/ \E j, s : CleanupSetsOf(j, s)
  BY <1>1 DEF CleanerActs, CleanerEffect, CleanerClaims, CleanerProceeds, CleanerErases,
              CleanerFails, CleanerCompletes, CleanerLeaves
<1> QED
  BY <1>1, WhoCleans DEF CleanupSetsOf, DocumentMoved, Activates

(* A cleanup worker goes on by its own steps only.                         *)
LEMMA CleanersAlone ==
  ASSUME Event, NEW w \in Cleaner
  PROVE  cleaner'[w] = cleaner[w] \/ CleanerActs(w)
<1>1. ASSUME NEW v \in Cleaner, CleanerActs(v), w # v
      PROVE  cleaner'[w] = cleaner[w]
  BY <1>1 DEF CleanerActs, CleanerEffect, CleanerClaims, CleanerProceeds, CleanerErases,
              CleanerFails, CleanerCompletes, CleanerLeaves, CleanerBecomes
<1> QED
  BY <1>1, WhoCleans DEF DocumentMoved, WorkersUnchanged

(* Nobody writes to a collection that a document has been moved out of.    *)
LEMMA StaysErased ==
  ASSUME ForwardInv, IndexedOnce, Event, NEW i \in DOMAIN cleanup,
         <<cleanup[i].collection, cleanup[i].document>> \notin vectors
  PROVE  <<cleanup[i].collection, cleanup[i].document>> \notin vectors'
<1>1. cleanup[i].collection \in Left /\ collection[cleanup[i].document] # None
  BY DEF ForwardInv, MovesForward, ActivatedMoved, Moved
<1> QED
  BY <1>1, WrittenAhead

(* A collection that has been cleaned of a document stays so.              *)
LEMMA CleanedEmptyKept ==
  ASSUME ForwardInv, IndexedOnce, CleanedEmpty, Event
  PROVE  CleanedEmpty'
<1>0. IInv
  BY DEF ForwardInv, LiveInv
<1>1. ASSUME NEW w \in Cleaner, CleanerAt(w, "erased")'
      PROVE  (<<CleanedJob(w).collection, CleanedJob(w).document>> \notin vectors)'
  <2>1. CASE cleaner'[w] = cleaner[w]
    <3>1. PICK i \in DOMAIN cleanup : i = cleaner[w].job
      BY <1>0, <1>1, <2>1 DEF IInv, SessionsHold, CleanersValid, CleanerAt
    <3>2. <<cleanup[i].collection, cleanup[i].document>> \notin vectors
      BY <1>0, <1>1, <2>1, <3>1 DEF CleanedEmpty, CleanerAt, CleanedJob
    <3>3. <<cleanup[i].collection, cleanup[i].document>> \notin vectors'
      BY <3>2, StaysErased
    <3>4. cleanup'[i].collection = cleanup[i].collection /\ cleanup'[i].document = cleanup[i].document
      BY <1>0, CleanupsPinned
    <3> QED
      BY <2>1, <3>1, <3>3, <3>4 DEF CleanedJob
  <2>2. ASSUME CleanerActs(w)
        PROVE  (<<CleanedJob(w).collection, CleanedJob(w).document>> \notin vectors)'
    <3>1. cleaner[w] \in CleanerSession
      BY <1>0 DEF IInv, TypeOK, CleanupType
    <3>2. CASE CleanerErases(w)
      <4> DEFINE s == [cleaner[w] EXCEPT !.at = "erased"]
      <4>1. s.job = cleaner[w].job
        BY <3>1 DEF CleanerSession
      <4>2. cleaner'[w] = s /\ UNCHANGED cleanup
            /\ vectors' = vectors \ {<<CleanedJob(w).collection, CleanedJob(w).document>>}
        BY <3>2 DEF CleanerErases, CleanerBecomes
      <4> HIDE DEF s
      <4> QED
        BY <4>1, <4>2 DEF CleanedJob
    <3>3. CASE CleanerProceeds(w)
      <4> DEFINE s == [cleaner[w] EXCEPT !.at = "allowed"]
      <4>1. s.at = "allowed"
        BY <3>1 DEF CleanerSession
      <4>2. cleaner'[w] = s
        BY <3>3 DEF CleanerProceeds, CleanerBecomes
      <4> HIDE DEF s
      <4> QED
        BY <1>1, <4>1, <4>2 DEF CleanerAt
    <3>4. CASE \E i : CleanerClaims(w, i)
      BY <1>1, <3>4 DEF CleanerClaims, CleanerBecomes, CleanerAt
    <3>5. CASE CleanerFails(w) \/ CleanerCompletes(w) \/ CleanerLeaves(w)
      BY <1>1, <3>5 DEF CleanerFails, CleanerCompletes, CleanerLeaves, CleanerBecomes, NoCleanup,
                        CleanerAt
    <3> QED
      BY <2>2, <3>2, <3>3, <3>4, <3>5 DEF CleanerActs, CleanerEffect
  <2> QED
    BY <1>0, <2>1, <2>2, CleanersAlone
<1>2. ASSUME NEW i \in DOMAIN cleanup', cleanup'[i].status = "completed"
      PROVE  <<cleanup'[i].collection, cleanup'[i].document>> \notin vectors'
  <2>1. ASSUME i \in DOMAIN cleanup, <<cleanup[i].collection, cleanup[i].document>> \notin vectors
        PROVE  <<cleanup'[i].collection, cleanup'[i].document>> \notin vectors'
    BY <1>0, <2>1, CleanupsPinned, StaysErased
  <2>2. CASE i \in DOMAIN cleanup /\ cleanup[i].status = "completed"
    BY <1>0, <2>1, <2>2 DEF CleanedEmpty
  <2>3. ASSUME NEW w \in Cleaner, CleanerCompletes(w), cleaner[w].job = i
        PROVE  <<cleanup'[i].collection, cleanup'[i].document>> \notin vectors'
    BY <1>0, <2>1, <2>3 DEF CleanedEmpty, CleanerCompletes, CleanupSetsOf, CleanedJob
  <2>4. ASSUME NEW w \in Cleaner, CleanerActs(w), ~(CleanerCompletes(w) /\ cleaner[w].job = i)
        PROVE  i \in DOMAIN cleanup /\ cleanup[i].status = "completed"
    BY <1>2, <2>4 DEF CleanerActs, CleanerEffect, CleanerClaims, CleanerProceeds, CleanerErases,
       CleanerFails, CleanerCompletes, CleanerLeaves, CleanupSetsOf
  <2>5. ASSUME NEW j, NEW n, DocumentMoved(j, n)
        PROVE  i \in DOMAIN cleanup /\ cleanup[i].status = "completed"
    BY <1>2, <2>5 DEF DocumentMoved, Activates, PendingCleanupJob
  <2> QED
    BY <1>2, <2>2, <2>3, <2>4, <2>5, WhoCleans
<1> QED
  BY <1>1, <1>2 DEF CleanedEmpty

(* The invariant about cleanups: nothing is assumed of the writers.        *)
CleanedInv == ForwardInv /\ IndexedOnce /\ CleanedEmpty

(* It holds initially, when there are no points ...                        *)
LEMMA CleanedInit == Init => CleanedInv
<1> SUFFICES ASSUME Init PROVE IndexedOnce /\ CleanedEmpty
  BY ForwardInit DEF CleanedInv
<1>1. vectors = {} /\ \A d \in Document : collection[d] = None
  BY DEF Init, StoreInit
<1> QED
  BY <1>1 DEF IndexedOnce, CleanedEmpty

(* ... and every step keeps it.                                            *)
LEMMA CleanedStep ==
  ASSUME ~Overrun, OneRedeployment, CleanedInv, RetriesCurrent, [Next]_vars
  PROVE  CleanedInv'
<1>1. Event /\ ForwardInv'
  BY ForwardStep DEF CleanedInv
<1>2. LiveInv /\ LiveInv'
  BY <1>1 DEF CleanedInv, ForwardInv
<1> QED
  BY <1>1, <1>2, IndexedOnceKept, CleanedEmptyKept DEF CleanedInv

(* A COMPLETED cleanup row tells the truth although its claim marks nothing*)
(* and two workers may process it: whatever outcome is recorded last, and  *)
(* whatever dies or raises having written, the points of the document are  *)
(* gone from the collection, and nobody puts them back.                    *)
THEOREM CleanupsTruthful ==
  ASSUME ~Overrun, OneRedeployment
  PROVE  Spec /\ []RetriesCurrent => []CleanupsErase
<1>1. CleanedInv /\ RetriesCurrent /\ [Next]_vars => CleanedInv'
  BY CleanedStep
<1>2. CleanedInv => CleanupsErase
  BY DEF CleanedInv, CleanedEmpty, CleanupsErase
<1> QED
  BY <1>1, <1>2, CleanedInit, PTL DEF Spec

---------------------------------------------------------------------------
(* A deletion finds every point.                                           *)

(* Once a document has a deletion job, it gets no points ...               *)
LEMMA DeletedUnwritten ==
  ASSUME PointsInv, WritersReliable, Event,
         NEW c, NEW d, RowsOf(deletion, d) # {}, <<c, d>> \in vectors'
  PROVE  <<c, d>> \in vectors
  BY WrittenInPlace

(* ... and no cleanup of collections that hold some.                       *)
LEMMA DeletedCleanups ==
  ASSUME PointsInv, WritersReliable, Event,
         NEW c, NEW d, RowsOf(deletion, d) # {}, <<c, d>> \in vectors',
         c \in CleanupCollections(d)'
  PROVE  c \in CleanupCollections(d)
<1>0. IInv /\ CleanedEmpty /\ StoreType /\ <<c, d>> \in vectors
  BY DeletedUnwritten DEF PointsInv, ForwardInv, LiveInv, IInv, TypeOK
<1>1. PICK j \in DOMAIN cleanup' : cleanup'[j].document = d /\ cleanup'[j].collection = c
                                   /\ cleanup'[j].status # "completed"
  BY DEF CleanupCollections, RowsOf
<1>2. CASE j \in DOMAIN cleanup
  <2>1. cleanup[j].document = d /\ cleanup[j].collection = c
    BY <1>0, <1>1, <1>2, CleanupsPinned
  <2>2. cleanup[j].status # "completed"
    BY <1>0, <1>2, <2>1 DEF CleanedEmpty
  <2> QED
    BY <1>2, <2>1, <2>2 DEF CleanupCollections, RowsOf
<1>3. ASSUME NEW w \in Cleaner, CleanerActs(w)
      PROVE  j \in DOMAIN cleanup
  BY <1>1, <1>3 DEF CleanerActs, CleanerEffect, CleanerClaims, CleanerProceeds, CleanerErases,
                    CleanerFails, CleanerCompletes, CleanerLeaves, CleanupSetsOf
<1>4. ASSUME NEW i, NEW n, DocumentMoved(i, n), j \notin DOMAIN cleanup
      PROVE  FALSE
  <2>1. reindex[i].document = d
    BY <1>1, <1>4 DEF DocumentMoved, Activates, PendingCleanupJob
  <2>2. ~LatestIn(deletion, d, DeletionStatus)
    BY <1>4, <2>1 DEF DocumentMoved, Activates
  <2> QED
    BY <1>0, <2>2, NeverDeleted
<1> QED
  BY <1>1, <1>2, <1>3, <1>4, WhoCleans

(* A deletion worker goes on by its own steps only.                        *)
LEMMA DeletersAlone ==
  ASSUME Event, NEW w \in Deleter
  PROVE  deleter'[w] = deleter[w] \/ DeleterActs(w)
<1>1. ASSUME NEW v \in Deleter, DeleterActs(v), w # v
      PROVE  deleter'[w] = deleter[w]
  BY <1>1 DEF DeleterActs, DeleterEffect, DeleterClaims, DeleterTracks, DeleterErases,
              DeleterRecords, DeleterErasesObject, DeleterFails, DeleterCompletes, DeleterLeaves,
              DeleterBecomes
<1> QED
  BY <1>1, WhoDeletes DEF DeletionRequested, WorkersUnchanged

(* A deleted document's points are in the collections that are tracked: no *)
(* job is active that could still be writing some.                         *)
LEMMA DeletedTracked ==
  ASSUME PointsInv, NEW c \in Collection, NEW d \in Document, RowsOf(deletion, d) # {},
         <<c, d>> \in vectors
  PROVE  c \in Tracked(d)
<1>0. LiveInv /\ IndexedOnce /\ Accounted(c, d)
      /\ ActiveRows(ingestion, d) = {} /\ ActiveRows(reindex, d) = {}
  BY DEF PointsInv, ForwardInv, ExclusionInv, WritersExcluded, PointsAccounted
<1>1. \A w \in Ingestor : IngestorAt(w, "indexed") => IngestorDocument(w) # d
  BY <1>0, AttemptUnindexed DEF IngestorAt
<1>2. ~Pending(c, d)
  BY <1>0 DEF Pending, ActiveRows, Active
<1> QED
  BY <1>0, <1>1, <1>2 DEF Accounted

(* A worker holds a deletion job of a document, which keeps its document.  *)
LEMMA DeleterHolds ==
  ASSUME IInv, NEW w \in Deleter, ~DeleterAt(w, "idle")
  PROVE  /\ DeleterDocument(w) \in Document /\ deleter[w].job \in DOMAIN deletion
         /\ RowsOf(deletion, DeleterDocument(w)) # {}
<1>1. deleter[w].job \in DOMAIN deletion /\ StoreType
  BY DEF IInv, TypeOK, SessionsHold, DeletersValid, DeleterAt
<1> QED
  BY <1>1, DeletionRow DEF DeleterDocument, RowsOf

(* The lists a worker reads one after the other miss no collection: while  *)
(* it works, no point is written and none of the lists loses a collection  *)
(* that holds points.                                                      *)
LEMMA DeletersTrackKept ==
  ASSUME PointsInv, IInv', WritersReliable, Event
  PROVE  DeletersTrack'
<1>0. IInv /\ LiveInv /\ ExclusionInv /\ DeletersTrack
  BY DEF PointsInv, ForwardInv, LiveInv
<1>1. ASSUME NEW w \in Deleter, deleter'[w] = deleter[w], ~DeleterAt(w, "idle"),
             NEW c \in Collection, <<c, DeleterDocument(w)>> \in vectors',
             NEW d \in Document, d = DeleterDocument(w)
      PROVE  /\ deleter[w].at \in {"claimed", "cleanups_read"} /\ c \in CurrentCollection(d)'
                  => c \in deleter[w].todo
             /\ DeleterAt(w, "cleanups_read") /\ c \in CleanupCollections(d)' => c \in deleter[w].todo
             /\ DeleterAt(w, "erasing") /\ ~deleter[w].failed => c \in deleter[w].todo
  <2>1. RowsOf(deletion, d) # {}
    BY <1>0, <1>1, DeleterHolds
  <2>2. <<c, d>> \in vectors /\ collection'[d] = collection[d]
    BY <1>0, <1>1, <2>1, DeletedUnwritten, DeletedStays
  <2>3. c \in CleanupCollections(d)' => c \in CleanupCollections(d)
    BY <1>1, <2>1, DeletedCleanups
  <2> QED
    BY <1>0, <1>1, <2>2, <2>3 DEF DeletersTrack, CurrentCollection
<1>2. ASSUME NEW w \in Deleter, NEW s, deleter'[w] = s, s.at # "idle",
             NEW d \in Document, d = deletion'[s.job].document,
             NEW c \in Collection, <<c, d>> \in vectors', UNCHANGED <<collection, cleanup>>,
             s.at \in {"claimed", "cleanups_read"} /\ c \in CurrentCollection(d) => c \in s.todo,
             s.at = "cleanups_read" /\ c \in CleanupCollections(d) => c \in s.todo,
             s.at = "erasing" /\ ~s.failed => c \in s.todo
      PROVE  /\ deleter'[w].at \in {"claimed", "cleanups_read"} /\ c \in CurrentCollection(d)'
                  => c \in deleter'[w].todo
             /\ DeleterAt(w, "cleanups_read")' /\ c \in CleanupCollections(d)' => c \in deleter'[w].todo
             /\ DeleterAt(w, "erasing")' /\ ~deleter'[w].failed => c \in deleter'[w].todo
  BY <1>2 DEF DeleterAt, CurrentCollection, CleanupCollections, RowsOf
<1>3. ASSUME NEW w \in Deleter, DeleterActs(w), ~DeleterAt(w, "idle")',
             NEW c \in Collection, NEW d \in Document, d = DeleterDocument(w)', <<c, d>> \in vectors'
      PROVE  /\ deleter'[w].at \in {"claimed", "cleanups_read"} /\ c \in CurrentCollection(d)'
                  => c \in deleter'[w].todo
             /\ DeleterAt(w, "cleanups_read")' /\ c \in CleanupCollections(d)' => c \in deleter'[w].todo
             /\ DeleterAt(w, "erasing")' /\ ~deleter'[w].failed => c \in deleter'[w].todo
  <2>0. deleter[w] \in DeleterSession /\ UNCHANGED <<collection, cleanup>>
    BY <1>0, <1>3 DEF IInv, TypeOK, DeletionType, DeleterActs
  <2>1. CASE \E i : DeleterClaims(w, i)
    <3>1. PICK i : DeleterClaims(w, i)
      BY <2>1
    <3> DEFINE s == [at |-> "claimed", job |-> i, failed |-> FALSE,
                     todo |-> CurrentCollection(deletion[i].document)]
    <3>2. s.at = "claimed" /\ s.job = i /\ s.todo = CurrentCollection(deletion[i].document)
      OBVIOUS
    <3>3. deleter'[w] = s /\ deletion'[i].document = deletion[i].document
      BY <3>1 DEF DeleterClaims, DeleterBecomes, DeletionSetsOf, SetsStatus
    <3> HIDE DEF s
    <3>4. d = deletion'[s.job].document /\ d = deletion[i].document
      BY <1>3, <3>2, <3>3 DEF DeleterDocument
    <3> QED
      BY <1>2, <1>3, <2>0, <3>2, <3>3, <3>4
  <2>2. CASE DeleterTracks(w)
    <3>0. UNCHANGED <<vectors, deletion>> /\ ~DeleterAt(w, "idle")
      BY <2>2 DEF DeleterTracks, DeleterAt
    <3>1. CASE DeleterAt(w, "claimed") /\ deleter'[w] = [deleter[w] EXCEPT
                 !.at = "cleanups_read", !.todo = @ \cup CleanupCollections(DeleterDocument(w))]
      <4> DEFINE s == [deleter[w] EXCEPT
                 !.at = "cleanups_read", !.todo = @ \cup CleanupCollections(DeleterDocument(w))]
      <4>1. s.at = "cleanups_read" /\ s.job = deleter[w].job
            /\ s.todo = deleter[w].todo \cup CleanupCollections(DeleterDocument(w))
        BY <2>0 DEF DeleterSession
      <4>2. deleter'[w] = s
        BY <3>1
      <4> HIDE DEF s
      <4>3. d = deletion'[s.job].document /\ d = DeleterDocument(w)
        BY <1>3, <3>0, <4>1, <4>2 DEF DeleterDocument
      <4>4. c \in CurrentCollection(d) => c \in deleter[w].todo
        BY <1>0, <1>3, <3>0, <3>1, <4>3 DEF DeletersTrack, DeleterAt
      <4> QED
        BY <1>2, <1>3, <2>0, <4>1, <4>2, <4>3, <4>4
    <3>2. CASE DeleterAt(w, "cleanups_read") /\ deleter'[w] = [deleter[w] EXCEPT
                 !.at = "erasing", !.todo = @ \cup BuiltCollections(DeleterDocument(w))]
      <4> DEFINE s == [deleter[w] EXCEPT
                 !.at = "erasing", !.todo = @ \cup BuiltCollections(DeleterDocument(w))]
      <4>1. s.at = "erasing" /\ s.job = deleter[w].job
            /\ s.todo = deleter[w].todo \cup BuiltCollections(DeleterDocument(w))
        BY <2>0 DEF DeleterSession
      <4>2. deleter'[w] = s
        BY <3>2
      <4> HIDE DEF s
      <4>3. d = deletion'[s.job].document /\ d = DeleterDocument(w)
        BY <1>3, <3>0, <4>1, <4>2 DEF DeleterDocument
      <4>4. c \in CurrentCollection(d) \cup CleanupCollections(d) => c \in deleter[w].todo
        BY <1>0, <1>3, <3>0, <3>2, <4>3 DEF DeletersTrack, DeleterAt
      <4>5. c \in Tracked(d)
        BY <1>0, <1>3, <3>0, <4>3, DeleterHolds, DeletedTracked
      <4> QED
        BY <1>2, <1>3, <2>0, <4>1, <4>2, <4>3, <4>4, <4>5 DEF Tracked
    <3> QED
      BY <2>2, <3>1, <3>2 DEF DeleterTracks, DeleterBecomes
  <2>3. CASE \E k \in Collection : DeleterErases(w, k)
    <3>1. PICK k \in Collection : DeleterErases(w, k)
      BY <2>3
    <3> DEFINE s == [deleter[w] EXCEPT !.todo = @ \ {k}]
               t == [deleter[w] EXCEPT !.todo = @ \ {k}, !.failed = TRUE]
    <3>2. /\ s.at = deleter[w].at /\ s.job = deleter[w].job /\ s.todo = deleter[w].todo \ {k}
          /\ s.failed = deleter[w].failed
          /\ t.at = deleter[w].at /\ t.job = deleter[w].job /\ t.failed
      BY <2>0 DEF DeleterSession
    <3>3. \/ deleter'[w] = s /\ vectors' = vectors \ {<<k, DeleterDocument(w)>>}
          \/ deleter'[w] = t /\ vectors' \subseteq vectors
      BY <3>1 DEF DeleterErases, DeleterBecomes
    <3> HIDE DEF s, t
    <3>4. UNCHANGED deletion /\ DeleterAt(w, "erasing")
      BY <3>1 DEF DeleterErases
    <3>5. d = DeleterDocument(w) /\ <<c, d>> \in vectors
      BY <1>3, <3>2, <3>3, <3>4 DEF DeleterDocument
    <3>6. ~deleter[w].failed => c \in deleter[w].todo
      BY <1>0, <3>4, <3>5 DEF DeletersTrack, DeleterAt
    <3>7. deleter'[w] = s /\ ~deleter[w].failed => c # k
      BY <1>3, <3>2, <3>3, <3>5
    <3> QED
      BY <3>2, <3>3, <3>4, <3>6, <3>7 DEF DeleterAt
  <2>4. CASE DeleterRecords(w)
    <3> DEFINE s == [deleter[w] EXCEPT !.at = "vectors_done"]
    <3>1. s.at = "vectors_done"
      BY <2>0 DEF DeleterSession
    <3>2. deleter'[w] = s
      BY <2>4 DEF DeleterRecords, DeleterBecomes
    <3> HIDE DEF s
    <3> QED
      BY <3>1, <3>2 DEF DeleterAt
  <2>5. CASE DeleterErasesObject(w)
    <3> DEFINE s == [deleter[w] EXCEPT !.at = "object_done"]
    <3>1. s.at = "object_done"
      BY <2>0 DEF DeleterSession
    <3>2. deleter'[w] = s
      BY <2>5 DEF DeleterErasesObject, DeleterBecomes
    <3> HIDE DEF s
    <3> QED
      BY <3>1, <3>2 DEF DeleterAt
  <2>6. CASE DeleterFails(w) \/ DeleterCompletes(w) \/ DeleterLeaves(w)
    BY <1>3, <2>6 DEF DeleterFails, DeleterCompletes, DeleterLeaves, DeleterBecomes, NoDeletion,
                      DeleterAt
  <2> QED
    BY <1>3, <2>1, <2>2, <2>3, <2>4, <2>5, <2>6 DEF DeleterActs, DeleterEffect
<1>4. ASSUME NEW w \in Deleter, ~DeleterAt(w, "idle")'
      PROVE  DeleterDocument(w)' \in Document
  <2>1. deleter'[w].job \in DOMAIN deletion' /\ deletion' \in Seq(DeletionJob)
    BY <1>4 DEF IInv, TypeOK, StoreType, SessionsHold, DeletersValid, DeleterAt
  <2>2. deletion'[deleter'[w].job] \in DeletionJob
    BY <2>1, TableRow
  <2> QED
    BY <2>2 DEF DeletionJob, DeleterDocument
<1>5. ASSUME NEW w \in Deleter, deleter'[w] = deleter[w], ~DeleterAt(w, "idle")'
      PROVE  ~DeleterAt(w, "idle") /\ DeleterDocument(w)' = DeleterDocument(w)
  <2>1. ~DeleterAt(w, "idle")
    BY <1>5 DEF DeleterAt
  <2> QED
    BY <1>0, <1>5, <2>1, TablesGrow, DeleterHolds DEF Grows, DeleterDocument
<1> SUFFICES ASSUME NEW w \in Deleter, ~DeleterAt(w, "idle")', NEW c \in Collection,
                    NEW d \in Document, d = DeleterDocument(w)', <<c, d>> \in vectors'
             PROVE  /\ deleter'[w].at \in {"claimed", "cleanups_read"} /\ c \in CurrentCollection(d)'
                         => c \in deleter'[w].todo
                    /\ DeleterAt(w, "cleanups_read")' /\ c \in CleanupCollections(d)'
                         => c \in deleter'[w].todo
                    /\ DeleterAt(w, "erasing")' /\ ~deleter'[w].failed => c \in deleter'[w].todo
  BY <1>4 DEF DeletersTrack, CurrentCollection, CleanupCollections, RowsOf
<1>6. CASE deleter'[w] = deleter[w]
  <2>1. ~DeleterAt(w, "idle") /\ d = DeleterDocument(w)
    BY <1>5, <1>6
  <2> QED
    BY <1>1, <1>6, <2>1 DEF DeleterAt
<1> QED
  BY <1>3, <1>6, DeletersAlone

(* What a worker records as cleaned is: it has erased all it had to.       *)
LEMMA RecordedEmptyKept ==
  ASSUME PointsInv, WritersReliable, Event
  PROVE  RecordedEmpty'
<1>0. IInv /\ DeletersTrack /\ RecordedEmpty
  BY DEF PointsInv, ForwardInv, LiveInv
<1> SUFFICES ASSUME NEW i \in DOMAIN deletion', NEW c \in Collection, deletion'[i].vectorsDone,
                    <<c, deletion'[i].document>> \in vectors'
             PROVE  FALSE
  BY DEF RecordedEmpty
<1>1. ASSUME i \in DOMAIN deletion
      PROVE  <<c, deletion[i].document>> \in vectors
  <2>1. deletion'[i].document = deletion[i].document /\ RowsOf(deletion, deletion[i].document) # {}
    BY <1>0, <1>1, TablesGrow DEF Grows, RowsOf
  <2> QED
    BY <2>1, DeletedUnwritten
<1>2. CASE i \in DOMAIN deletion /\ deletion[i].vectorsDone
  BY <1>0, <1>1, <1>2 DEF RecordedEmpty
<1>3. ASSUME NEW w \in Deleter, DeleterRecords(w), deleter[w].job = i
      PROVE  FALSE
  <2>1. /\ DeleterAt(w, "erasing") /\ deleter[w].todo = {} /\ ~deleter[w].failed
        /\ i \in DOMAIN deletion /\ ~DeleterAt(w, "idle")
    BY <1>3 DEF DeleterRecords, DeleterAt
  <2>2. <<c, DeleterDocument(w)>> \in vectors
    BY <1>1, <1>3, <2>1 DEF DeleterDocument
  <2> QED
    BY <1>0, <2>1, <2>2 DEF DeletersTrack
<1>4. ASSUME NEW w \in Deleter, DeleterActs(w), ~(DeleterRecords(w) /\ deleter[w].job = i)
      PROVE  i \in DOMAIN deletion /\ deletion[i].vectorsDone
  BY <1>4 DEF DeleterActs, DeleterEffect, DeleterClaims, DeleterTracks, DeleterErases,
     DeleterRecords, DeleterErasesObject, DeleterFails, DeleterCompletes, DeleterLeaves,
     DeletionSetsOf, SetsStatus
<1>5. ASSUME NEW b \in Client, NEW n, DeletionRequested(b, n)
      PROVE  i \in DOMAIN deletion /\ deletion[i].vectorsDone
  BY <1>5 DEF DeletionRequested, DeleteInserts, Inserts
<1> QED
  BY <1>2, <1>3, <1>4, <1>5, WhoDeletes

---------------------------------------------------------------------------
(* The invariant about points holds initially ...                          *)
LEMMA PointsInit == Init => PointsInv
<1> SUFFICES ASSUME Init
             PROVE  /\ IndexedOnce /\ AttemptsFirst /\ PointsAccounted /\ CleanedEmpty
                    /\ DeletersTrack /\ RecordedEmpty
  BY ForwardInit, ExclusionInit DEF PointsInv
<1>1. /\ vectors = {} /\ cleanup = <<>> /\ deletion = <<>>
      /\ \A d \in Document : collection[d] = None
  BY DEF Init, StoreInit
<1>2. /\ \A w \in Ingestor : ingestor[w].base = None
      /\ \A w \in Deleter : deleter[w].at = "idle"
  BY DEF Init, IngestionInit, NoIngestion, DeletionInit, NoDeletion
<1>3. IndexedOnce /\ AttemptsFirst /\ DeletersTrack
  BY <1>1, <1>2 DEF IndexedOnce, AttemptsFirst, DeletersTrack, DeleterAt
<1>4. PointsAccounted /\ CleanedEmpty /\ RecordedEmpty
  BY <1>1, EmptySeq DEF PointsAccounted, CleanedEmpty, RecordedEmpty
<1> QED
  BY <1>3, <1>4

(* ... and every step keeps it.                                            *)
LEMMA PointsStep ==
  ASSUME ~Overrun, OneRedeployment, WritersReliable,
         PointsInv, OneRequestPerDocument, RetriesCurrent, [Next]_vars
  PROVE  PointsInv'
<1>1. Event /\ ForwardInv' /\ ExclusionInv'
  BY ForwardStep, ExclusionStep DEF PointsInv
<1>2. LiveInv /\ LiveInv' /\ IInv'
  BY <1>1 DEF PointsInv, ForwardInv, LiveInv
<1>3. IndexedOnce' /\ AttemptsFirst'
  BY <1>1, <1>2, IndexedOnceKept, AttemptsFirstKept DEF PointsInv
<1>4. PointsAccounted' /\ CleanedEmpty' /\ DeletersTrack' /\ RecordedEmpty'
  BY <1>1, <1>2, PointsAccountedKept, CleanedEmptyKept, DeletersTrackKept, RecordedEmptyKept
     DEF PointsInv
<1> QED
  BY <1>1, <1>3, <1>4 DEF PointsInv

(* delete_all_tracked_document_vectors can find every point there is: it is*)
(* in the document's collection, in one with an open cleanup or a finished *)
(* build, or a job is active whose worker accounts for it.                 *)
THEOREM PointsTracked ==
  ASSUME ~Overrun, OneRedeployment, WritersReliable
  PROVE  Spec /\ [](OneRequestPerDocument /\ RetriesCurrent) => []VectorsTracked
<1>1. PointsInv /\ OneRequestPerDocument /\ RetriesCurrent /\ [Next]_vars => PointsInv'
  BY PointsStep
<1>2. PointsInv => VectorsTracked
  <2> SUFFICES ASSUME PointsInv, NEW d \in Document, NEW c \in Collection, <<c, d>> \in vectors
               PROVE  \/ c \in Tracked(d) \/ ActiveRows(ingestion, d) # {}
                      \/ ActiveRows(reindex, d) # {}
    BY DEF VectorsTracked
  <2>0. LiveInv /\ IndexedOnce /\ Accounted(c, d)
    BY DEF PointsInv, ForwardInv, PointsAccounted
  <2>1. ASSUME NEW w \in Ingestor, IngestorAt(w, "indexed"), IngestorDocument(w) = d
        PROVE  ActiveRows(ingestion, d) # {}
    BY <2>0, <2>1, AttemptUnindexed DEF IngestorAt
  <2>2. Pending(c, d) => ActiveRows(reindex, d) # {}
    BY DEF Pending, ActiveRows, Active
  <2> QED
    BY <2>0, <2>1, <2>2 DEF Accounted
<1> QED
  BY <1>1, <1>2, PointsInit, PTL DEF Spec

(* A document reported as deleted is in no collection: its deletion worker *)
(* has erased every point before it recorded so, whatever was being built, *)
(* activated or cleaned when the deletion was requested.                   *)
THEOREM DeletedUnsearchable ==
  ASSUME ~Overrun, OneRedeployment, WritersReliable
  PROVE  Spec /\ [](OneRequestPerDocument /\ RetriesCurrent) => []DeletedMeansUnsearchable
<1>1. PointsInv /\ OneRequestPerDocument /\ RetriesCurrent /\ [Next]_vars => PointsInv'
  BY PointsStep
<1>2. PointsInv => DeletedMeansUnsearchable
  BY DEF PointsInv, ForwardInv, LiveInv, IInv, SessionsHold, DeletedMeansErased,
         RecordedEmpty, DeletedMeansUnsearchable
<1> QED
  BY <1>1, <1>2, PointsInit, PTL DEF Spec

---------------------------------------------------------------------------
(* What a client sees.  The lifecycle status, as a function of the tables: *)

StatusOf(t, x, d) ==
  CASE LatestIn(x, d, Active)               -> "deleting"
    [] LatestIn(x, d, {"partially_failed"}) -> "deletion_failed"
    [] LatestIn(x, d, {"completed"})        -> "deleted"
    [] RowsOf(x, d) = {} /\ LatestIn(t, d, {"pending"})    -> "pending"
    [] RowsOf(x, d) = {} /\ LatestIn(t, d, {"processing"}) -> "processing"
    [] RowsOf(x, d) = {} /\ LatestIn(t, d, {"failed"})     -> "failed"
    [] RowsOf(x, d) = {} /\ LatestIn(t, d, {"completed"})  -> "indexed"

(* It is the status of the model, before and after a step.                 *)
LEMMA StatusIsOf ==
  ASSUME NEW d
  PROVE  /\ LifecycleStatus(d) = StatusOf(ingestion, deletion, d)
         /\ LifecycleStatus(d)' = StatusOf(ingestion', deletion', d)
  BY DEF LifecycleStatus, StatusOf, LatestIn, IsLast, RowsOf

(* The last row of a document decides what LatestIn tells of it.           *)
LEMMA LastDecides ==
  ASSUME NEW t, NEW d, NEW k \in RowsOf(t, d), \A j \in RowsOf(t, d) : j <= k,
         DOMAIN t \subseteq Nat
  PROVE  \A statuses : LatestIn(t, d, statuses) <=> t[k].status \in statuses
<1>1. \A i \in RowsOf(t, d) : i <= k /\ k <= i => i = k
  BY DEF RowsOf
<1> QED
  BY <1>1 DEF LatestIn, IsLast

(* The last deletion job decides, ...                                      *)
LEMMA DeletionDecides ==
  ASSUME NEW t, NEW x, NEW d, NEW k \in RowsOf(x, d), \A j \in RowsOf(x, d) : j <= k,
         DOMAIN x \subseteq Nat
  PROVE  /\ x[k].status \in Active => StatusOf(t, x, d) = "deleting"
         /\ x[k].status = "partially_failed" => StatusOf(t, x, d) = "deletion_failed"
         /\ x[k].status = "completed" => StatusOf(t, x, d) = "deleted"
<1>1. \A statuses : LatestIn(x, d, statuses) <=> x[k].status \in statuses
  BY LastDecides
<1>2. RowsOf(x, d) # {}
  OBVIOUS
<1> QED
  BY <1>1, <1>2 DEF StatusOf, Active

(* ... or the last ingestion job when there is none.                       *)
LEMMA IngestionDecides ==
  ASSUME NEW t, NEW x, NEW d, NEW k \in RowsOf(t, d), \A j \in RowsOf(t, d) : j <= k,
         DOMAIN t \subseteq Nat, RowsOf(x, d) = {}
  PROVE  /\ t[k].status = "pending" => StatusOf(t, x, d) = "pending"
         /\ t[k].status = "processing" => StatusOf(t, x, d) = "processing"
         /\ t[k].status = "failed" => StatusOf(t, x, d) = "failed"
         /\ t[k].status = "completed" => StatusOf(t, x, d) = "indexed"
<1>1. \A statuses : LatestIn(t, d, statuses) <=> t[k].status \in statuses
  BY LastDecides
<1>2. \A statuses : ~LatestIn(x, d, statuses)
  BY DEF LatestIn
<1> QED
  BY <1>1, <1>2 DEF StatusOf

(* A document has a last job of one of the two kinds.                      *)
LEMMA StatusDecided ==
  ASSUME StoreType, Standing, NEW d \in Document
  PROVE  \/ LatestIn(deletion, d, DeletionStatus)
         \/ RowsOf(deletion, d) = {} /\ LatestIn(ingestion, d, IngestionStatus)
<1>1. ingestion \in Seq(IngestionJob)
  BY DEF StoreType
<1>2. \A i \in DOMAIN ingestion : ingestion[i] \in IngestionJob
  BY <1>1, TableRow
<1>3. \A i \in DOMAIN ingestion : ingestion[i].status \in IngestionStatus
  BY <1>2 DEF IngestionJob
<1>4. LatestIn(ingestion, d, IngestionStatus)
  BY <1>1, <1>3, LatestExists DEF Standing
<1> QED
  BY <1>4, NeverDeleted

(* The status of a document stays when the statuses of its rows do.        *)
LEMMA StatusStays ==
  ASSUME NEW t, NEW u, NEW x, NEW y, NEW d,
         DOMAIN t \subseteq Nat, DOMAIN u \subseteq Nat, DOMAIN x \subseteq Nat, DOMAIN y \subseteq Nat,
         LatestIn(x, d, DeletionStatus) \/ (RowsOf(x, d) = {} /\ LatestIn(t, d, IngestionStatus)),
         RowsOf(u, d) = RowsOf(t, d), \A j \in RowsOf(t, d) : u[j].status = t[j].status,
         RowsOf(y, d) = RowsOf(x, d), \A j \in RowsOf(x, d) : y[j].status = x[j].status
  PROVE  StatusOf(u, y, d) = StatusOf(t, x, d)
<1>1. CASE LatestIn(x, d, DeletionStatus)
  <2>1. PICK k \in RowsOf(x, d) : (\A j \in RowsOf(x, d) : j <= k) /\ x[k].status \in DeletionStatus
    BY <1>1 DEF LatestIn, IsLast
  <2>2. CASE x[k].status \in Active
    <3>1. StatusOf(t, x, d) = "deleting" /\ StatusOf(u, y, d) = "deleting"
      BY <2>1, <2>2, DeletionDecides
    <3> QED
      BY <3>1
  <2>3. CASE x[k].status = "partially_failed"
    <3>1. StatusOf(t, x, d) = "deletion_failed" /\ StatusOf(u, y, d) = "deletion_failed"
      BY <2>1, <2>3, DeletionDecides
    <3> QED
      BY <3>1
  <2>4. CASE x[k].status = "completed"
    <3>1. StatusOf(t, x, d) = "deleted" /\ StatusOf(u, y, d) = "deleted"
      BY <2>1, <2>4, DeletionDecides
    <3> QED
      BY <3>1
  <2> QED
    BY <2>1, <2>2, <2>3, <2>4 DEF DeletionStatus, Active
<1>2. CASE RowsOf(x, d) = {} /\ LatestIn(t, d, IngestionStatus)
  <2>1. PICK k \in RowsOf(t, d) : (\A j \in RowsOf(t, d) : j <= k) /\ t[k].status \in IngestionStatus
    BY <1>2 DEF LatestIn, IsLast
  <2>2. \A s \in IngestionStatus : t[k].status = s =>
          StatusOf(t, x, d) = IF s = "completed" THEN "indexed" ELSE s
    BY <1>2, <2>1, IngestionDecides DEF IngestionStatus
  <2>3. \A s \in IngestionStatus : u[k].status = s =>
          StatusOf(u, y, d) = IF s = "completed" THEN "indexed" ELSE s
    BY <1>2, <2>1, IngestionDecides DEF IngestionStatus
  <2> QED
    BY <2>1, <2>2, <2>3
<1> QED
  BY <1>1, <1>2

---------------------------------------------------------------------------
(* A DELETE has found the last deletion of its document failed, or none.   *)

DeleteSteps == {"delete_waiting", "delete_read"} \cup DeletionChecks

RequestsAtRest ==
  \A c \in Client :
    client[c].at \in DeleteSteps => ~LatestIn(deletion, client[c].document, {"completed"} \cup Active)

PromiseInv == PointsInv /\ ServingInv /\ RequestsAtRest

(* The deletion jobs of a document without an active one are left alone    *)
(* until a further deletion is requested: workers only change the status   *)
(* of the active job they hold or claim.                                   *)
LEMMA RestingDeletions ==
  ASSUME IInv, Event, NEW d, ActiveRows(deletion, d) = {}
  PROVE  \/ /\ RowsOf(deletion', d) = RowsOf(deletion, d)
            /\ \A j \in RowsOf(deletion, d) : deletion'[j].status = deletion[j].status
         \/ \E c \in Client : client[c].document = d /\ \E n : DeletionRequested(c, n)
<1> DEFINE Rests == /\ RowsOf(deletion', d) = RowsOf(deletion, d)
                    /\ \A j \in RowsOf(deletion, d) : deletion'[j].status = deletion[j].status
<1>1. ASSUME NEW i, NEW s, SetsStatus(deletion, deletion', i, s), deletion[i].status \in Active
      PROVE  Rests
  <2>1. deletion[i].document # d
    BY <1>1 DEF SetsStatus, ActiveRows, RowsOf
  <2> QED
    BY <1>1, <2>1 DEF SetsStatus, RowsOf
<1>2. ASSUME NEW w \in Deleter, DeleterActs(w)
      PROVE  Rests
  <2>1. ~DeleterAt(w, "idle") => deletion[deleter[w].job].status = "processing"
    BY DEF IInv, SessionsHold, DeletersValid, DeleterAt
  <2>2. CASE \E i : DeleterClaims(w, i)
    BY <1>1, <2>2 DEF DeleterClaims, DeletionSetsOf, Active
  <2>3. CASE DeleterFails(w)
    BY <1>1, <2>1, <2>3 DEF DeleterFails, DeletionSetsOf, Active
  <2>4. CASE DeleterCompletes(w)
    BY <1>1, <2>1, <2>4 DEF DeleterCompletes, DeletionSetsOf, Active, DeleterAt
  <2>5. CASE DeleterRecords(w)
    BY <2>5 DEF DeleterRecords, RowsOf
  <2>6. CASE UNCHANGED deletion
    BY <2>6
  <2> QED
    BY <1>2, <2>2, <2>3, <2>4, <2>5, <2>6 DEF DeleterActs, DeleterEffect, DeleterTracks,
       DeleterErases, DeleterErasesObject, DeleterLeaves
<1>3. ASSUME NEW c \in Client, NEW n, DeletionRequested(c, n), client[c].document # d
      PROVE  Rests
  BY <1>3 DEF DeletionRequested, DeleteInserts, Inserts, RowsOf
<1> QED
  BY <1>2, <1>3, WhoDeletes

(* What the last deletion job of a document tells, when it is not active,  *)
(* remains so until then.                                                  *)
LEMMA DeletionsRest ==
  ASSUME IInv, Standing, Event, NEW d, ~LatestIn(deletion, d, Active)
  PROVE  \/ \A statuses : LatestIn(deletion', d, statuses) <=> LatestIn(deletion, d, statuses)
         \/ \E c \in Client : client[c].document = d /\ \E n : DeletionRequested(c, n)
<1>1. ActiveRows(deletion, d) = {}
  BY DEF Standing, ActiveIsLast, ActiveRows, RowsOf, LatestIn, IsLast
<1> QED
  BY <1>1, RestingDeletions DEF LatestIn, IsLast

(* A DELETE in progress still finds the last deletion of its document      *)
(* failed, or none.                                                        *)
LEMMA RequestsAtRestKept ==
  ASSUME ExclusionInv, OneRequestPerDocument, RequestsAtRest, Event
  PROVE  RequestsAtRest'
<1>0. IInv /\ Standing
  BY DEF ExclusionInv
<1>1. "idle" \notin DeleteSteps
  BY DEF DeleteSteps, DeletionChecks
<1>2. ASSUME NEW c \in Client, client'[c] = client[c], client[c].at \in DeleteSteps,
             NEW d, d = client[c].document
      PROVE  ~LatestIn(deletion', d, {"completed"} \cup Active)
  <2>1. ~LatestIn(deletion, d, {"completed"} \cup Active) /\ ~LatestIn(deletion, d, Active)
    BY <1>2 DEF RequestsAtRest, LatestIn
  <2>2. ASSUME NEW e \in Client, client[e].document = d, NEW n, DeletionRequested(e, n)
        PROVE  FALSE
    <3>1. client[c].at \notin {"idle", "activate_loaded"}
      BY <1>2 DEF DeleteSteps, DeletionChecks
    <3>2. e = c
      BY <1>0, <1>2, <2>2, <3>1, OnlyRequest
    <3>3. client'[c].at = "idle"
      BY <2>2, <3>2 DEF DeletionRequested, DeleteInserts, ClientBecomes, NoRequest
    <3> QED
      BY <1>1, <1>2, <3>3
  <2> QED
    BY <1>0, <2>1, <2>2, DeletionsRest
<1>3. ASSUME NEW c \in Client, NEW s, RequestProceeds(c, s)
      PROVE  RequestsAtRest'
  <2>1. UNCHANGED deletion /\ \A e \in Client : client'[e] = IF e = c THEN s ELSE client[e]
    BY <1>3 DEF RequestProceeds, StoreUnchanged, ClientBecomes
  <2>2. ASSUME s.at \in DeleteSteps
        PROVE  ~LatestIn(deletion, s.document, {"completed"} \cup Active)
    <3>1. \/ ~LatestIn(deletion, s.document, {"completed"} \cup Active)
          \/ client[c].at \in DeleteSteps /\ s.document = client[c].document
      BY <1>3, <2>2 DEF RequestProceeds, SameRequest, DeleteSteps, DeletionChecks, ScheduleSteps, At
    <3> QED
      BY <3>1 DEF RequestsAtRest
  <2> QED
    BY <2>1, <2>2 DEF RequestsAtRest, LatestIn, IsLast, RowsOf
<1>4. CASE RequestsStay
  <2> SUFFICES ASSUME NEW c \in Client, client'[c].at \in DeleteSteps, NEW d, d = client'[c].document
               PROVE  ~LatestIn(deletion', d, {"completed"} \cup Active)
    BY DEF RequestsAtRest, LatestIn, IsLast, RowsOf
  <2> QED
    BY <1>1, <1>2, <1>4 DEF RequestsStay
<1> QED
  BY <1>3, <1>4, WhoRequests

(* The invariant the promise rests on holds initially ...                  *)
LEMMA PromiseInit == Init => PromiseInv
<1>1. Init => RequestsAtRest
  BY DEF Init, StoreInit, NoRequest, RequestsAtRest, DeleteSteps, DeletionChecks
<1> QED
  BY <1>1, PointsInit, ServingInit DEF PromiseInv

(* ... and every step keeps it.                                            *)
LEMMA PromiseStep ==
  ASSUME ~Overrun, OneRedeployment, WritersReliable,
         PromiseInv, OneRequestPerDocument, RetriesCurrent, [Next]_vars
  PROVE  Event /\ PromiseInv'
<1>1. Event
  BY ForwardStep DEF PromiseInv, PointsInv
<1> QED
  BY <1>1, PointsStep, ServingStep, RequestsAtRestKept DEF PromiseInv, PointsInv

---------------------------------------------------------------------------
(* The steps of the components as steps of DocumentPromise.                *)

Statuses == [d \in Document |-> LifecycleStatus(d)]

Searchable == {d \in Document : \E c \in Collection : <<c, d>> \in vectors}

(* The status of d goes from one to another, the others stay.              *)
StatusGoes(d, from, to) ==
  /\ LifecycleStatus(d) \in from /\ LifecycleStatus(d)' = to
  /\ \A e \in Document : e # d => LifecycleStatus(e)' = LifecycleStatus(e)

StatusesStay == \A e \in Document : LifecycleStatus(e)' = LifecycleStatus(e)

PromiseActs == Promise!Next \/ UNCHANGED <<Statuses, Searchable, object, hashed>>

(* The status of one document moves.                                       *)
LEMMA StatusMoved ==
  ASSUME NEW d \in Document, NEW from, NEW to, StatusGoes(d, from, to)
  PROVE  Promise!Moves(d, from, to)
  BY DEF StatusGoes, Promise!Moves

(* No status moves.                                                        *)
LEMMA StatusUnmoved ==
  ASSUME StatusesStay
  PROVE  UNCHANGED Statuses
  BY DEF StatusesStay, Statuses

(* Points written to a collection make a document searchable, ...          *)
LEMMA PointsGained ==
  ASSUME NEW c \in Collection, NEW d \in Document, vectors' = vectors \cup {<<c, d>>}
  PROVE  Searchable' = Searchable \cup {d}
  BY DEF Searchable

(* ... and points erased from one leave it so or not.                      *)
LEMMA PointsLost ==
  ASSUME NEW c, NEW d, vectors' \in {vectors, vectors \ {<<c, d>>}}
  PROVE  Searchable' = Searchable \/ Searchable' = Searchable \ {d}
  BY DEF Searchable

(* The tables number their rows.                                           *)
LEMMA RowsNumbered ==
  ASSUME StoreType
  PROVE  DOMAIN ingestion \subseteq Nat /\ DOMAIN deletion \subseteq Nat
  BY IngestionRow, DeletionRow

(* The status of a document stays with its rows.                           *)
LEMMA OtherStatus ==
  ASSUME IInv, Standing, DOMAIN ingestion' \subseteq Nat, DOMAIN deletion' \subseteq Nat,
         NEW d \in Document,
         RowsOf(ingestion', d) = RowsOf(ingestion, d),
         \A j \in RowsOf(ingestion, d) : ingestion'[j].status = ingestion[j].status,
         RowsOf(deletion', d) = RowsOf(deletion, d),
         \A j \in RowsOf(deletion, d) : deletion'[j].status = deletion[j].status
  PROVE  LifecycleStatus(d)' = LifecycleStatus(d)
<1>1. StoreType
  BY DEF IInv, TypeOK
<1>2. StatusOf(ingestion', deletion', d) = StatusOf(ingestion, deletion, d)
  BY <1>1, RowsNumbered, StatusDecided, StatusStays
<1> QED
  BY <1>2, StatusIsOf

(* Steps that leave the ingestion and the deletion jobs alone leave the    *)
(* statuses alone.                                                         *)
LEMMA SameStatuses ==
  ASSUME IInv, Standing, UNCHANGED <<ingestion, deletion>>
  PROVE  StatusesStay
<1>1. DOMAIN ingestion' \subseteq Nat /\ DOMAIN deletion' \subseteq Nat
  BY RowsNumbered DEF IInv, TypeOK
<1>2. \A d \in Document : RowsOf(ingestion', d) = RowsOf(ingestion, d)
                          /\ RowsOf(deletion', d) = RowsOf(deletion, d)
  BY DEF RowsOf
<1> QED
  BY <1>1, <1>2, OtherStatus DEF StatusesStay

(* The active ingestion of a document without deletion jobs gives it its   *)
(* status, before and after a change of the row.                           *)
StatusName(s) == IF s = "completed" THEN "indexed" ELSE s

(* The active ingestion of a document without deletion jobs gives it its   *)
(* status, before and after a change of the row.                           *)
LEMMA IngestionGoes ==
  ASSUME IInv, Standing, NEW d \in Document, RowsOf(deletion, d) = {}, UNCHANGED deletion,
         NEW i \in ActiveRows(ingestion, d), NEW s \in IngestionStatus,
         SetsStatus(ingestion, ingestion', i, s)
  PROVE  StatusGoes(d, {ingestion[i].status}, StatusName(s))
<1>0. DOMAIN ingestion \subseteq Nat /\ DOMAIN deletion \subseteq Nat
  BY RowsNumbered DEF IInv, TypeOK
<1>1. /\ i \in RowsOf(ingestion, d) /\ \A j \in RowsOf(ingestion, d) : j <= i
      /\ ingestion[i].status \in Active
  BY DEF Standing, ActiveIsLast, ActiveRows, RowsOf
<1>2. /\ RowsOf(ingestion', d) = RowsOf(ingestion, d) /\ ingestion'[i].status = s
      /\ DOMAIN ingestion' = DOMAIN ingestion
  BY <1>1 DEF SetsStatus, RowsOf
<1>3. RowsOf(deletion', d) = {}
  OBVIOUS
<1>4. StatusOf(ingestion, deletion, d) = ingestion[i].status
  BY <1>0, <1>1, IngestionDecides DEF Active
<1>5. StatusOf(ingestion', deletion', d) = StatusName(s)
  BY <1>0, <1>1, <1>2, <1>3, IngestionDecides DEF StatusName, IngestionStatus
<1>6. ASSUME NEW e \in Document, e # d
      PROVE  LifecycleStatus(e)' = LifecycleStatus(e)
  <2>1. /\ RowsOf(ingestion', e) = RowsOf(ingestion, e)
        /\ \A j \in RowsOf(ingestion, e) : ingestion'[j].status = ingestion[j].status
    BY <1>1, <1>6 DEF SetsStatus, RowsOf
  <2> QED
    BY <1>0, <1>2, <2>1, OtherStatus
<1> QED
  BY <1>4, <1>5, <1>6, StatusIsOf DEF StatusGoes

(* The active deletion of a document likewise.                             *)
LEMMA DeletionGoes ==
  ASSUME IInv, Standing, NEW d \in Document, UNCHANGED ingestion,
         NEW i \in ActiveRows(deletion, d), NEW s,
         SetsStatus(deletion, deletion', i, s)
  PROVE  /\ s \in Active => StatusGoes(d, {"deleting"}, "deleting")
         /\ s = "partially_failed" => StatusGoes(d, {"deleting"}, "deletion_failed")
         /\ s = "completed" => StatusGoes(d, {"deleting"}, "deleted")
<1>0. DOMAIN ingestion \subseteq Nat /\ DOMAIN deletion \subseteq Nat
  BY RowsNumbered DEF IInv, TypeOK
<1>1. /\ i \in RowsOf(deletion, d) /\ \A j \in RowsOf(deletion, d) : j <= i
      /\ deletion[i].status \in Active
  BY DEF Standing, ActiveIsLast, ActiveRows, RowsOf
<1>2. /\ RowsOf(deletion', d) = RowsOf(deletion, d) /\ deletion'[i].status = s
      /\ DOMAIN deletion' = DOMAIN deletion
  BY <1>1 DEF SetsStatus, RowsOf
<1>4. StatusOf(ingestion, deletion, d) = "deleting"
  BY <1>0, <1>1, DeletionDecides
<1>5. /\ s \in Active => StatusOf(ingestion', deletion', d) = "deleting"
      /\ s = "partially_failed" => StatusOf(ingestion', deletion', d) = "deletion_failed"
      /\ s = "completed" => StatusOf(ingestion', deletion', d) = "deleted"
  BY <1>0, <1>1, <1>2, DeletionDecides
<1>6. ASSUME NEW e \in Document, e # d
      PROVE  LifecycleStatus(e)' = LifecycleStatus(e)
  <2>1. /\ RowsOf(deletion', e) = RowsOf(deletion, e)
        /\ \A j \in RowsOf(deletion, e) : deletion'[j].status = deletion[j].status
    BY <1>1, <1>6 DEF SetsStatus, RowsOf
  <2>2. RowsOf(ingestion', e) = RowsOf(ingestion, e)
    BY DEF RowsOf
  <2> QED
    BY <1>0, <1>2, <2>1, <2>2, OtherStatus
<1> QED
  BY <1>4, <1>5, <1>6, StatusIsOf DEF StatusGoes

(* Steps that touch nothing a client sees.                                 *)
LEMMA UnseenSteps ==
  ASSUME IInv, Standing, UNCHANGED <<ingestion, deletion, vectors, object, hashed>>
  PROVE  PromiseActs
<1>1. UNCHANGED Statuses
  BY SameStatuses, StatusUnmoved
<1>2. UNCHANGED Searchable
  BY DEF Searchable
<1> QED
  BY <1>1, <1>2 DEF PromiseActs

(* An ingestion worker makes its document pass through "processing", and   *)
(* publishes its content then.                                             *)
LEMMA IngestorsKeepPromise ==
  ASSUME PromiseInv, WritersReliable, NEW w \in Ingestor, IngestorActs(w)
  PROVE  PromiseActs
<1>0. /\ IInv /\ Standing /\ LiveInv /\ IndexedOnce /\ WritersExcluded /\ StoreType
      /\ UNCHANGED <<object, hashed, deletion>>
  BY DEF PromiseInv, PointsInv, ForwardInv, LiveInv, IInv, TypeOK, ExclusionInv, IngestorActs
<1>1. ASSUME NEW d \in Document, NEW i \in ActiveRows(ingestion, d), NEW s \in IngestionStatus,
             SetsStatus(ingestion, ingestion', i, s), UNCHANGED vectors,
             \/ ingestion[i].status = "pending" /\ s = "processing"
             \/ ingestion[i].status = "processing" /\ s \in {"failed", "completed"}
      PROVE  PromiseActs
  <2>1. RowsOf(deletion, d) = {}
    BY <1>0, <1>1 DEF WritersExcluded
  <2>2. StatusGoes(d, {ingestion[i].status}, StatusName(s))
    BY <1>0, <1>1, <2>1, IngestionGoes
  <2>3. Promise!Moves(d, {ingestion[i].status}, StatusName(s))
    BY <2>2, StatusMoved
  <2>4. UNCHANGED Searchable
    BY <1>1 DEF Searchable
  <2>5. Promise!Ingests(d)
    BY <1>0, <1>1, <2>3, <2>4 DEF Promise!Ingests, StatusName, Searchable
  <2> QED
    BY <2>5 DEF PromiseActs, Promise!Next
<1>2. ASSUME ~IngestorAt(w, "idle")
      PROVE  /\ IngestorDocument(w) \in Document
             /\ ingestor[w].job \in ActiveRows(ingestion, IngestorDocument(w))
             /\ ingestion[ingestor[w].job].status = "processing"
             /\ ingestor[w].target \in Collection
  BY <1>0, <1>2, AttemptUnindexed
     DEF LiveInv, AttemptsHeld, IInv, SessionsHold, IngestorsValid, IngestorAt
<1>3. CASE \E i : IngestorClaims(w, i)
  <2>1. PICK i : IngestorClaims(w, i)
    BY <1>3
  <2>2. PICK d \in Document : d = ingestion[i].document
    BY <1>0, <2>1, IngestionRow DEF IngestorClaims
  <2>3. i \in ActiveRows(ingestion, d) /\ ingestion[i].status = "pending"
    BY <2>1, <2>2 DEF IngestorClaims, ActiveRows, RowsOf, Active
  <2> QED
    BY <1>1, <2>1, <2>3 DEF IngestorClaims, IngestionStatus
<1>4. CASE IngestorFails(w)
  <2>1. ~IngestorAt(w, "idle") /\ UNCHANGED vectors
    BY <1>4 DEF IngestorFails, IngestorAt, WritersReliable
  <2> QED
    BY <1>1, <1>2, <1>4, <2>1 DEF IngestorFails, IngestionStatus
<1>5. CASE IngestorCompletes(w)
  <2>1. ~IngestorAt(w, "idle") /\ UNCHANGED vectors
    BY <1>5 DEF IngestorCompletes, IngestorAt
  <2> QED
    BY <1>1, <1>2, <1>5, <2>1 DEF IngestorCompletes, IngestionStatus
<1>6. CASE IngestorUpserts(w)
  <2>1. ~IngestorAt(w, "idle") /\ UNCHANGED ingestion
        /\ vectors' = vectors \cup {<<ingestor[w].target, IngestorDocument(w)>>}
    BY <1>6 DEF IngestorUpserts, IngestorAt
  <2>2. PICK d \in Document : d = IngestorDocument(w)
    BY <1>2, <2>1
  <2>3. Searchable' = Searchable \cup {d}
    BY <1>2, <2>1, <2>2, PointsGained
  <2>4. UNCHANGED Statuses
    BY <1>0, <2>1, SameStatuses, StatusUnmoved
  <2>5. LifecycleStatus(d) = "processing"
    <3>1. RowsOf(deletion, d) = {}
      BY <1>0, <1>2, <2>1, <2>2 DEF WritersExcluded
    <3>2. PICK i \in RowsOf(ingestion, d) : /\ \A j \in RowsOf(ingestion, d) : j <= i
                                            /\ ingestion[i].status = "processing"
      BY <1>0, <1>2, <2>1, <2>2 DEF Standing, ActiveIsLast, ActiveRows, RowsOf
    <3> QED
      BY <1>0, <3>1, <3>2, RowsNumbered, IngestionDecides, StatusIsOf
  <2>6. Promise!Publishes(d)
    BY <1>0, <2>3, <2>4, <2>5 DEF Promise!Publishes, Statuses, Searchable
  <2> QED
    BY <2>6 DEF PromiseActs, Promise!Next
<1>7. CASE UNCHANGED <<ingestion, vectors>>
  BY <1>0, <1>7, UnseenSteps
<1> QED
  BY <1>3, <1>4, <1>5, <1>6, <1>7 DEF IngestorActs, IngestorEffect, IngestorProceeds, IngestorLeaves

(* A retry or a recovery makes the document "pending" again.               *)
LEMMA ReplacementsKeepPromise ==
  ASSUME PromiseInv, OneRequestPerDocument, RetriesCurrent,
         NEW i, NEW n, NEW d, AttemptReplaced(i, n, d)
  PROVE  PromiseActs
<1>0. /\ IInv /\ Standing /\ StoreType /\ ExclusionInv
      /\ UNCHANGED <<object, hashed, deletion, vectors>>
      /\ DOMAIN ingestion \subseteq Nat /\ DOMAIN deletion \subseteq Nat
  BY RowsNumbered
     DEF PromiseInv, PointsInv, ForwardInv, LiveInv, IInv, TypeOK, ExclusionInv, AttemptReplaced
<1>1. /\ i \in RowsOf(ingestion, d) /\ ingestion[i].status \in {"failed", "processing"}
      /\ d \in Document /\ RowsOf(deletion, d) = {}
  <2>1. i \in RowsOf(ingestion, d) /\ ingestion[i].status \in {"failed", "processing"}
    BY DEF AttemptReplaced, IngestionReplaced, Replaceable
  <2>2. d \in Document
    BY <1>0, <2>1, IngestionRow DEF RowsOf
  <2> QED
    BY <1>0, <2>1, <2>2, AttemptAllowed
<1>2. \A j \in RowsOf(ingestion, d) : j <= i
  <2>1. CASE ingestion[i].status = "processing"
    BY <1>0, <1>1, <2>1 DEF Standing, ActiveIsLast, RowsOf, Active
  <2>2. CASE ingestion[i].status # "processing"
    BY <2>2 DEF AttemptReplaced, RetriesCurrent, IsLast
  <2> QED
    BY <2>1, <2>2
<1>3. PICK m : SetsStatus(ingestion, m, i, "failed") /\ Inserts(m, ingestion', n, d)
  BY DEF AttemptReplaced, IngestionReplaced, Replaces
<1>4. /\ DOMAIN ingestion' \subseteq Nat
      /\ n \in RowsOf(ingestion', d) /\ ingestion'[n].status = "pending"
      /\ \A j \in RowsOf(ingestion', d) : j <= n
  BY <1>0, <1>3 DEF SetsStatus, Inserts, RowsOf
<1>5. StatusOf(ingestion, deletion, d) \in {"failed", "processing"}
  BY <1>0, <1>1, <1>2, IngestionDecides
<1>6. StatusOf(ingestion', deletion', d) = "pending"
  BY <1>0, <1>1, <1>4, IngestionDecides
<1>7. ASSUME NEW e \in Document, e # d
      PROVE  LifecycleStatus(e)' = LifecycleStatus(e)
  <2>1. /\ RowsOf(ingestion', e) = RowsOf(ingestion, e)
        /\ \A j \in RowsOf(ingestion, e) : ingestion'[j].status = ingestion[j].status
    BY <1>1, <1>3, <1>7 DEF SetsStatus, Inserts, RowsOf
  <2>2. RowsOf(deletion', e) = RowsOf(deletion, e)
    BY <1>0
  <2> QED
    BY <1>0, <1>4, <2>1, <2>2, OtherStatus
<1>8. StatusGoes(d, {"processing", "failed"}, "pending")
  BY <1>5, <1>6, <1>7, StatusIsOf DEF StatusGoes
<1>9. Promise!Moves(d, {"processing", "failed"}, "pending")
  BY <1>1, <1>8, StatusMoved
<1>10. UNCHANGED Searchable
  BY <1>0 DEF Searchable
<1>11. Promise!Ingests(d)
  BY <1>0, <1>9, <1>10 DEF Promise!Ingests, Searchable
<1> QED
  BY <1>1, <1>11 DEF PromiseActs, Promise!Next

(* A DELETE is accepted for a document at rest: its last ingestion has     *)
(* ended, and so has its last deletion, in failure.                        *)
LEMMA RequestsKeepPromise ==
  ASSUME PromiseInv, OneRequestPerDocument, NEW c \in Client, NEW n, DeletionRequested(c, n)
  PROVE  PromiseActs
<1>0. /\ IInv /\ Standing /\ StoreType /\ ExclusionInv
      /\ UNCHANGED <<object, hashed, ingestion, vectors>>
      /\ DOMAIN ingestion \subseteq Nat /\ DOMAIN deletion \subseteq Nat
  BY RowsNumbered
     DEF PromiseInv, PointsInv, ForwardInv, LiveInv, IInv, TypeOK, ExclusionInv, DeletionRequested
<1>1. PICK d \in Document : d = client[c].document
  BY <1>0 DEF IInv, SessionsHold, ClientsValid, DeletionRequested, DeleteInserts, At
<1>2. /\ Inserts(deletion, deletion', n, d)
      /\ ActiveRows(ingestion, d) = {}
      /\ ~LatestIn(deletion, d, {"completed"} \cup Active)
  BY <1>0, <1>1, DeletionAllowed
     DEF DeletionRequested, DeleteInserts, PromiseInv, RequestsAtRest, DeleteSteps, DeletionChecks, At
<1>3. StatusOf(ingestion, deletion, d) \in {"indexed", "failed", "deletion_failed"}
  <2>1. CASE LatestIn(deletion, d, DeletionStatus)
    <3>1. PICK k \in RowsOf(deletion, d) : /\ \A j \in RowsOf(deletion, d) : j <= k
                                           /\ deletion[k].status \in DeletionStatus
      BY <2>1 DEF LatestIn, IsLast
    <3>2. deletion[k].status = "partially_failed"
      BY <1>0, <1>2, <3>1, LastDecides DEF DeletionStatus, Active
    <3> QED
      BY <1>0, <3>1, <3>2, DeletionDecides
  <2>2. CASE RowsOf(deletion, d) = {} /\ LatestIn(ingestion, d, IngestionStatus)
    <3>1. PICK k \in RowsOf(ingestion, d) : /\ \A j \in RowsOf(ingestion, d) : j <= k
                                            /\ ingestion[k].status \in IngestionStatus
      BY <2>2 DEF LatestIn, IsLast
    <3>2. ingestion[k].status \in {"failed", "completed"}
      BY <1>2, <3>1 DEF IngestionStatus, ActiveRows, Active
    <3> QED
      BY <1>0, <2>2, <3>1, <3>2, IngestionDecides
  <2> QED
    BY <1>0, <2>1, <2>2, StatusDecided
<1>4. /\ DOMAIN deletion' \subseteq Nat
      /\ n \in RowsOf(deletion', d) /\ deletion'[n].status = "pending"
      /\ \A j \in RowsOf(deletion', d) : j <= n
  BY <1>0, <1>2 DEF Inserts, RowsOf
<1>5. StatusOf(ingestion', deletion', d) = "deleting"
  BY <1>4, DeletionDecides DEF Active
<1>6. ASSUME NEW e \in Document, e # d
      PROVE  LifecycleStatus(e)' = LifecycleStatus(e)
  <2>1. /\ RowsOf(deletion', e) = RowsOf(deletion, e)
        /\ \A j \in RowsOf(deletion, e) : deletion'[j].status = deletion[j].status
    BY <1>2, <1>6 DEF Inserts, RowsOf
  <2>2. RowsOf(ingestion', e) = RowsOf(ingestion, e)
    BY <1>0
  <2> QED
    BY <1>0, <1>4, <2>1, <2>2, OtherStatus
<1>7. StatusGoes(d, {"indexed", "failed", "deletion_failed"}, "deleting")
  BY <1>3, <1>5, <1>6, StatusIsOf DEF StatusGoes
<1>8. Promise!Moves(d, {"indexed", "failed", "deletion_failed"}, "deleting")
  BY <1>7, StatusMoved
<1>9. UNCHANGED Searchable
  BY <1>0 DEF Searchable
<1>10. Promise!AcceptsDeletion(d)
  BY <1>0, <1>8, <1>9 DEF Promise!AcceptsDeletion, Searchable
<1> QED
  BY <1>10 DEF PromiseActs, Promise!Next

(* The document whose deletion a worker is processing is being deleted.    *)
LEMMA HeldDeletion ==
  ASSUME IInv, Standing, NEW w \in Deleter, ~DeleterAt(w, "idle"),
         NEW d, d = DeleterDocument(w)
  PROVE  /\ d \in Document /\ deleter[w].job \in ActiveRows(deletion, d)
         /\ LifecycleStatus(d) = "deleting"
<1>1. /\ deleter[w].job \in DOMAIN deletion
      /\ deletion[deleter[w].job].status = "processing"
  BY DEF IInv, SessionsHold, DeletersValid, DeleterAt
<1>2. d \in Document /\ StoreType
  BY DeleterHolds DEF IInv, TypeOK
<1>3. PICK i \in ActiveRows(deletion, d) : i = deleter[w].job
  BY <1>1 DEF ActiveRows, RowsOf, Active, DeleterDocument
<1>4. /\ i \in RowsOf(deletion, d) /\ \A j \in RowsOf(deletion, d) : j <= i
      /\ deletion[i].status \in Active
  BY <1>3 DEF Standing, ActiveIsLast, ActiveRows, RowsOf
<1>5. StatusOf(ingestion, deletion, d) = "deleting"
  BY <1>2, <1>4, RowsNumbered, DeletionDecides
<1> QED
  BY <1>2, <1>3, <1>5, StatusIsOf

(* A deletion worker withdraws the content, then the original, and then    *)
(* releases the hash; when it gives up, the deletion has failed.           *)
LEMMA DeletersKeepPromise ==
  ASSUME PromiseInv, NEW w \in Deleter, DeleterActs(w)
  PROVE  PromiseActs
<1>0. /\ IInv /\ Standing /\ StoreType /\ RecordedEmpty
      /\ DOMAIN ingestion \subseteq Nat /\ DOMAIN deletion \subseteq Nat
      /\ UNCHANGED ingestion
  BY RowsNumbered DEF PromiseInv, PointsInv, ForwardInv, LiveInv, IInv, TypeOK, DeleterActs
<1>1. ASSUME UNCHANGED vectors
      PROVE  UNCHANGED Searchable
  BY <1>1 DEF Searchable
<1>2. ASSUME UNCHANGED deletion
      PROVE  UNCHANGED Statuses
  BY <1>0, <1>2, SameStatuses, StatusUnmoved
<1>3. PICK d : d = DeleterDocument(w)
  OBVIOUS
<1>4. ASSUME ~DeleterAt(w, "idle")
      PROVE  /\ d \in Document /\ deleter[w].job \in ActiveRows(deletion, d)
             /\ LifecycleStatus(d) = "deleting"
  BY <1>0, <1>3, <1>4, HeldDeletion
<1>5. ASSUME deleter[w].at \in {"vectors_done", "object_done"}
      PROVE  d \notin Searchable
  <2>1. deleter[w].job \in DOMAIN deletion /\ deletion[deleter[w].job].vectorsDone
    BY <1>0, <1>5 DEF IInv, SessionsHold, DeletersValid
  <2> QED
    BY <1>0, <1>3, <2>1 DEF RecordedEmpty, Searchable, DeleterDocument
<1>6. CASE \E i : DeleterClaims(w, i)
  <2>1. PICK i : DeleterClaims(w, i)
    BY <1>6
  <2>2. PICK e \in Document : e = deletion[i].document
    BY <1>0, <2>1, DeletionRow DEF DeleterClaims
  <2>3. i \in ActiveRows(deletion, e)
    BY <2>1, <2>2 DEF DeleterClaims, ActiveRows, RowsOf, Active
  <2>4. StatusGoes(e, {"deleting"}, "deleting")
    BY <1>0, <2>1, <2>3, DeletionGoes DEF DeleterClaims, DeletionSetsOf, Active
  <2>5. UNCHANGED Statuses
    BY <2>4, StatusUnmoved DEF StatusGoes, StatusesStay
  <2> QED
    BY <1>1, <2>1, <2>5 DEF DeleterClaims, PromiseActs
<1>7. CASE DeleterTracks(w) \/ DeleterLeaves(w)
  BY <1>0, <1>7, UnseenSteps DEF DeleterTracks, DeleterLeaves
<1>8. CASE \E k \in Collection : DeleterErases(w, k)
  <2>1. PICK k \in Collection : DeleterErases(w, k)
    BY <1>8
  <2>2. /\ ~DeleterAt(w, "idle") /\ UNCHANGED <<object, hashed, deletion>>
        /\ vectors' \in {vectors, vectors \ {<<k, d>>}}
    BY <1>3, <2>1 DEF DeleterErases, DeleterAt
  <2>3. Searchable' = Searchable \/ Searchable' = Searchable \ {d}
    BY <2>2, PointsLost
  <2>4. CASE Searchable' = Searchable \ {d}
    <3>1. Promise!Withdraws(d)
      BY <1>2, <1>4, <2>2, <2>4 DEF Promise!Withdraws, Searchable, Statuses
    <3> QED
      BY <1>4, <2>2, <3>1 DEF PromiseActs, Promise!Next
  <2> QED
    BY <1>2, <2>2, <2>3, <2>4 DEF PromiseActs
<1>9. CASE DeleterRecords(w)
  <2>1. /\ DOMAIN deletion' = DOMAIN deletion
        /\ \A j \in DOMAIN deletion : deletion'[j].document = deletion[j].document
                                      /\ deletion'[j].status = deletion[j].status
    BY <1>9 DEF DeleterRecords
  <2>2. ASSUME NEW e \in Document
        PROVE  LifecycleStatus(e)' = LifecycleStatus(e)
    <3>1. /\ RowsOf(deletion', e) = RowsOf(deletion, e)
          /\ \A j \in RowsOf(deletion, e) : deletion'[j].status = deletion[j].status
          /\ RowsOf(ingestion', e) = RowsOf(ingestion, e)
      BY <1>0, <2>1 DEF RowsOf
    <3> QED
      BY <1>0, <2>1, <3>1, OtherStatus
  <2>3. UNCHANGED Statuses
    BY <2>2, StatusUnmoved DEF StatusesStay
  <2> QED
    BY <1>1, <1>9, <2>3 DEF DeleterRecords, PromiseActs
<1>10. CASE DeleterErasesObject(w)
  <2>1. /\ DeleterAt(w, "vectors_done") /\ object' = object \ {d}
        /\ UNCHANGED <<vectors, hashed, deletion>>
    BY <1>3, <1>10 DEF DeleterErasesObject
  <2>2. d \in Document /\ LifecycleStatus(d) = "deleting" /\ d \notin Searchable
    BY <1>4, <1>5, <2>1 DEF DeleterAt
  <2>3. Promise!ErasesOriginal(d)
    BY <1>1, <1>2, <2>1, <2>2 DEF Promise!ErasesOriginal, Searchable, Statuses
  <2> QED
    BY <2>2, <2>3 DEF PromiseActs, Promise!Next
<1>11. CASE DeleterFails(w)
  <2>1. /\ ~DeleterAt(w, "idle") /\ UNCHANGED <<vectors, hashed>>
        /\ SetsStatus(deletion, deletion', deleter[w].job, "partially_failed")
        /\ UNCHANGED object \/ (DeleterAt(w, "vectors_done") /\ object' = object \ {d})
    BY <1>3, <1>11 DEF DeleterFails, DeletionSetsOf
  <2>2. d \in Document /\ deleter[w].job \in ActiveRows(deletion, d)
    BY <1>4, <2>1
  <2>3. StatusGoes(d, {"deleting"}, "deletion_failed")
    BY <1>0, <2>1, <2>2, DeletionGoes
  <2>4. Promise!Moves(d, {"deleting"}, "deletion_failed")
    BY <2>2, <2>3, StatusMoved
  <2>5. object' = object \/ (object' = object \ {d} /\ d \notin Searchable)
    BY <1>5, <2>1 DEF DeleterAt
  <2>6. Promise!FailsDeletion(d)
    BY <1>1, <2>1, <2>4, <2>5 DEF Promise!FailsDeletion, Searchable
  <2> QED
    BY <2>2, <2>6 DEF PromiseActs, Promise!Next
<1>12. CASE DeleterCompletes(w)
  <2>1. /\ DeleterAt(w, "object_done") /\ UNCHANGED <<vectors, object>>
        /\ SetsStatus(deletion, deletion', deleter[w].job, "completed")
        /\ hashed' = hashed \ {d}
    BY <1>3, <1>12 DEF DeleterCompletes, DeletionSetsOf
  <2>2. d \in Document /\ deleter[w].job \in ActiveRows(deletion, d)
    BY <1>4, <2>1 DEF DeleterAt
  <2>3. StatusGoes(d, {"deleting"}, "deleted")
    BY <1>0, <2>1, <2>2, DeletionGoes
  <2>4. Promise!Moves(d, {"deleting"}, "deleted")
    BY <2>2, <2>3, StatusMoved
  <2>5. d \notin object /\ d \notin Searchable
    BY <1>0, <1>3, <1>5, <2>1
       DEF IInv, SessionsHold, DeletersValid, DeleterAt, DeleterDocument
  <2>6. Promise!Deletes(d)
    BY <1>1, <2>1, <2>4, <2>5 DEF Promise!Deletes, Searchable
  <2> QED
    BY <2>2, <2>6 DEF PromiseActs, Promise!Next
<1> QED
  BY <1>6, <1>7, <1>8, <1>9, <1>10, <1>11, <1>12 DEF DeleterActs, DeleterEffect

(* A build publishes content ahead for a document that is indexed.         *)
LEMMA BuildersKeepPromise ==
  ASSUME PromiseInv, WritersReliable, NEW w \in Builder, BuilderActs(w)
  PROVE  PromiseActs
<1>0. /\ IInv /\ Standing /\ StoreType /\ BuildsIndexed /\ IndexedOnce /\ WritersExcluded
      /\ UNCHANGED <<object, hashed, ingestion, deletion>>
  BY DEF PromiseInv, PointsInv, ForwardInv, LiveInv, IInv, TypeOK, ExclusionInv, Standing,
         BuilderActs
<1>1. CASE BuilderUpserts(w)
  <2>1. PICK i \in DOMAIN reindex : i = builder[w].job /\ reindex[i].status = "processing"
    BY <1>0, <1>1 DEF IInv, SessionsHold, BuildersValid, BuilderUpserts, BuilderAt
  <2>2. PICK d \in Document, c \in Collection : d = reindex[i].document /\ c = reindex[i].target
    BY <1>0, <2>1, ReindexRow
  <2>3. vectors' = vectors \cup {<<c, d>>}
    BY <1>1, <2>1, <2>2 DEF BuilderUpserts, BuiltJob
  <2>4. RowsOf(deletion, d) = {}
    <3>1. i \in ActiveRows(reindex, d)
      BY <2>1, <2>2 DEF ActiveRows, RowsOf, Active
    <3> QED
      BY <1>0, <3>1 DEF WritersExcluded
  <2>5. PICK k \in RowsOf(ingestion, d) : /\ \A j \in RowsOf(ingestion, d) : j <= k
                                          /\ ingestion[k].status = "completed"
    BY <1>0, <2>1, <2>2 DEF BuildsIndexed, IndexedOnce, LatestIn, IsLast
  <2>6. LifecycleStatus(d) = "indexed"
    BY <1>0, <2>4, <2>5, RowsNumbered, IngestionDecides, StatusIsOf
  <2>7. UNCHANGED Statuses
    BY <1>0, SameStatuses, StatusUnmoved
  <2>8. Searchable' = Searchable \cup {d}
    BY <2>3, PointsGained
  <2>9. Promise!Publishes(d)
    BY <1>0, <2>6, <2>7, <2>8 DEF Promise!Publishes, Statuses, Searchable
  <2> QED
    BY <2>9 DEF PromiseActs, Promise!Next
<1>2. CASE ~BuilderUpserts(w)
  <2>1. UNCHANGED vectors
    BY <1>2 DEF BuilderActs, BuilderEffect, BuilderClaims, BuilderProceeds, BuilderFails,
                BuilderCompletes, BuilderLeaves, WritersReliable
  <2> QED
    BY <1>0, <2>1, UnseenSteps
<1> QED
  BY <1>1, <1>2

(* A cleanup erases the points of a collection that a document has left:   *)
(* the document remains searchable where it is served, unless a deletion   *)
(* that has failed erased its points there.                                *)
LEMMA CleanersKeepPromise ==
  ASSUME PromiseInv, NEW w \in Cleaner, CleanerActs(w)
  PROVE  PromiseActs
<1>0. /\ IInv /\ Standing /\ StoreType /\ MovesForward /\ ServingVectorsPresent /\ RecordedEmpty
      /\ DOMAIN ingestion \subseteq Nat /\ DOMAIN deletion \subseteq Nat
      /\ UNCHANGED <<object, hashed, ingestion, deletion>>
  BY RowsNumbered
     DEF PromiseInv, PointsInv, ForwardInv, ServingInv, LiveInv, IInv, TypeOK, CleanerActs
<1>1. CASE UNCHANGED vectors
  BY <1>0, <1>1, UnseenSteps
<1>2. CASE CleanerAt(w, "allowed")
           /\ vectors' = vectors \ {<<CleanedJob(w).collection, CleanedJob(w).document>>}
  <2>1. PICK i \in DOMAIN cleanup : i = cleaner[w].job
    BY <1>0, <1>2 DEF IInv, SessionsHold, CleanersValid, CleanerAt
  <2>2. PICK d \in Document, c \in Left : d = cleanup[i].document /\ c = cleanup[i].collection
    <3>1. cleanup[i] \in CleanupJob
      BY <1>0, <2>1, TableRow DEF StoreType
    <3> QED
      BY <1>0, <2>1, <3>1 DEF CleanupJob, MovesForward, ActivatedMoved
  <2>3. vectors' = vectors \ {<<c, d>>} /\ collection[d] \notin {c, None}
    BY <1>0, <1>2, <2>1, <2>2 DEF CleanedJob, MovesForward, ActivatedMoved, Moved
  <2>4. Searchable' = Searchable \/ Searchable' = Searchable \ {d}
    BY <2>3, PointsLost
  <2>5. UNCHANGED Statuses
    BY <1>0, SameStatuses, StatusUnmoved
  <2>6. CASE RowsOf(deletion, d) = {}
    <3>1. collection[d] \in Collection
      BY <1>0, <2>3 DEF StoreType
    <3>2. <<collection[d], d>> \in vectors'
      BY <1>0, <2>3, <2>6 DEF ServingVectorsPresent
    <3>3. d \in Searchable'
      BY <3>1, <3>2 DEF Searchable
    <3>4. UNCHANGED Searchable
      BY <2>4, <3>3
    <3> QED
      BY <1>0, <2>5, <3>4 DEF PromiseActs
  <2>7. CASE LatestIn(deletion, d, DeletionStatus)
    <3>1. PICK k \in RowsOf(deletion, d) : /\ \A j \in RowsOf(deletion, d) : j <= k
                                           /\ deletion[k].status \in DeletionStatus
      BY <2>7 DEF LatestIn, IsLast
    <3>2. CASE deletion[k].status = "completed"
      <4>1. deletion[k].vectorsDone /\ deletion[k].document = d
        BY <1>0, <3>1, <3>2 DEF IInv, SessionsHold, DeletedMeansErased, RowsOf
      <4>2. d \notin Searchable
        BY <1>0, <3>1, <4>1 DEF RecordedEmpty, Searchable, RowsOf
      <4>3. UNCHANGED Searchable
        BY <2>4, <4>2
      <4> QED
        BY <1>0, <2>5, <4>3 DEF PromiseActs
    <3>3. CASE deletion[k].status # "completed"
      <4>1. LifecycleStatus(d) \in {"deleting", "deletion_failed"}
        BY <1>0, <3>1, <3>3, DeletionDecides, StatusIsOf DEF DeletionStatus, Active
      <4>2. CASE Searchable' = Searchable \ {d}
        <5>1. Promise!Withdraws(d)
          BY <1>0, <2>5, <4>1, <4>2 DEF Promise!Withdraws, Searchable, Statuses
        <5> QED
          BY <5>1 DEF PromiseActs, Promise!Next
      <4> QED
        BY <1>0, <2>4, <2>5, <4>2 DEF PromiseActs
    <3> QED
      BY <3>2, <3>3
  <2> QED
    BY <1>0, <2>6, <2>7, StatusDecided
<1> QED
  BY <1>1, <1>2 DEF CleanerActs, CleanerEffect, CleanerClaims, CleanerProceeds, CleanerErases,
                    CleanerFails, CleanerCompletes, CleanerLeaves


(* Every step of the system is a step of the promise, or changes nothing   *)
(* of what it speaks about.                                                *)
LEMMA EventsKeepPromise ==
  ASSUME WritersReliable, PromiseInv, OneRequestPerDocument, RetriesCurrent, Event
  PROVE  PromiseActs
<1>0. IInv /\ Standing
  BY DEF PromiseInv, PointsInv, ForwardInv, LiveInv
<1>1. CASE \E c \in Client : \E s : RequestProceeds(c, s)
  BY <1>0, <1>1, UnseenSteps DEF RequestProceeds, StoreUnchanged
<1>2. CASE \E c \in Client : \E n : BuildScheduled(c, n)
  BY <1>0, <1>2, UnseenSteps DEF BuildScheduled
<1>3. CASE \E i, n : DocumentMoved(i, n)
  BY <1>0, <1>3, UnseenSteps DEF DocumentMoved
<1>4. CASE NothingRecorded
  BY <1>0, <1>4, UnseenSteps DEF NothingRecorded
<1> QED
  BY <1>1, <1>2, <1>3, <1>4, IngestorsKeepPromise, ReplacementsKeepPromise, RequestsKeepPromise,
     DeletersKeepPromise, BuildersKeepPromise, CleanersKeepPromise DEF Event

(* Uploaded documents are pending, stored, and not searchable yet.         *)
LEMMA PromiseStarts == Init => Promise!Init
<1> SUFFICES ASSUME Init PROVE Promise!Init
  OBVIOUS
<1>0. StoreType /\ Standing
  BY InitInv, StandingInit DEF IInv, TypeOK
<1>1. /\ deletion = <<>> /\ vectors = {} /\ object = Document /\ hashed = Document
      /\ \A i \in DOMAIN ingestion : ingestion[i].status = "pending"
  BY DEF Init, StoreInit
<1>2. ASSUME NEW d \in Document
      PROVE  LifecycleStatus(d) = "pending"
  <2>1. RowsOf(deletion, d) = {}
    BY <1>1 DEF RowsOf
  <2>2. PICK k : k \in RowsOf(ingestion, d)
    BY <1>0 DEF Standing
  <2>3. \A j \in RowsOf(ingestion, d) : j <= k
    BY <1>0, <1>1, <2>2 DEF Standing, ActiveIsLast, RowsOf, Active
  <2>4. DOMAIN ingestion \subseteq Nat /\ ingestion[k].status = "pending"
    BY <1>0, <1>1, <2>2, RowsNumbered DEF RowsOf
  <2>5. StatusOf(ingestion, deletion, d) = "pending"
    BY <2>1, <2>2, <2>3, <2>4, IngestionDecides
  <2> QED
    BY <2>5, StatusIsOf
<1> QED
  BY <1>1, <1>2 DEF Promise!Init

(* The components together implement the promise: whatever jobs, workers,  *)
(* collections and redeployments there are, a document's status, content,  *)
(* original and content hash change as DocumentPromise says, for clients   *)
(* without overlapping requests.                                           *)
THEOREM PromiseKept ==
  ASSUME ~Overrun, OneRedeployment, WritersReliable
  PROVE  Spec /\ [](OneRequestPerDocument /\ RetriesCurrent) => KeepsPromise
<1>1. PromiseInv /\ OneRequestPerDocument /\ RetriesCurrent /\ [Next]_vars => PromiseInv'
  BY PromiseStep
<1>2. PromiseInv /\ OneRequestPerDocument /\ RetriesCurrent /\ [Next]_vars
        => [Promise!Next]_Promise!vars
  <2> SUFFICES ASSUME PromiseInv, OneRequestPerDocument, RetriesCurrent, [Next]_vars
               PROVE  [Promise!Next]_Promise!vars
    OBVIOUS
  <2>1. PromiseActs
    BY PromiseStep, EventsKeepPromise
  <2> QED
    BY <2>1 DEF PromiseActs, Promise!vars, Statuses, Searchable
<1> QED
  BY <1>1, <1>2, PromiseInit, PromiseStarts, PTL DEF Spec, KeepsPromise, Promise!Spec

(* A deleted document stays deleted: a DELETE that found an earlier attempt*)
(* failed inserts a job while that is still the latest.                    *)
THEOREM DeletedFinal == Spec /\ []OneRequestPerDocument => DeletedIsFinal
<1> DEFINE Inv == ExclusionInv /\ RequestsAtRest
<1>1. Init => Inv
  BY ExclusionInit, PromiseInit DEF PromiseInv
<1>2. Inv /\ OneRequestPerDocument /\ [Next]_vars => Inv'
  BY ExclusionStep, RequestsAtRestKept
<1>3. ASSUME Inv, OneRequestPerDocument, [Next]_vars,
             NEW d \in Document, LifecycleStatus(d) = "deleted"
      PROVE  LifecycleStatus(d)' = "deleted"
  <2>0. /\ IInv /\ Standing /\ StoreType /\ Event
        /\ StoreType' /\ DOMAIN deletion \subseteq Nat /\ DOMAIN ingestion \subseteq Nat
    BY <1>3, ExclusionStep, RowsNumbered DEF ExclusionInv, IInv, TypeOK
  <2>1. LatestIn(deletion, d, {"completed"})
    <3>1. CASE LatestIn(deletion, d, DeletionStatus)
      <4>1. PICK k \in RowsOf(deletion, d) : /\ \A j \in RowsOf(deletion, d) : j <= k
                                             /\ deletion[k].status \in DeletionStatus
        BY <3>1 DEF LatestIn, IsLast
      <4>2. deletion[k].status = "completed"
        BY <1>3, <2>0, <4>1, DeletionDecides, StatusIsOf DEF DeletionStatus, Active
      <4> QED
        BY <4>1, <4>2 DEF LatestIn, IsLast
    <3>2. CASE RowsOf(deletion, d) = {} /\ LatestIn(ingestion, d, IngestionStatus)
      <4>1. PICK k \in RowsOf(ingestion, d) : /\ \A j \in RowsOf(ingestion, d) : j <= k
                                              /\ ingestion[k].status \in IngestionStatus
        BY <3>2 DEF LatestIn, IsLast
      <4>2. LifecycleStatus(d) # "deleted"
        BY <2>0, <3>2, <4>1, IngestionDecides, StatusIsOf DEF IngestionStatus
      <4> QED
        BY <1>3, <4>2
    <3> QED
      BY <2>0, <3>1, <3>2, StatusDecided
  <2>2. ~LatestIn(deletion, d, Active)
    BY <2>0, <2>1, LastDecides DEF LatestIn, IsLast, Active
  <2>3. ASSUME NEW c \in Client, client[c].document = d, NEW n, DeletionRequested(c, n)
        PROVE  FALSE
    <3>1. ~LatestIn(deletion, d, {"completed"} \cup Active)
      BY <1>3, <2>3 DEF RequestsAtRest, DeleteSteps, DeletionChecks, DeletionRequested, DeleteInserts, At
    <3> QED
      BY <2>1, <3>1 DEF LatestIn
  <2>4. LatestIn(deletion', d, {"completed"})
    BY <2>0, <2>1, <2>2, <2>3, DeletionsRest
  <2>5. PICK k \in RowsOf(deletion', d) : /\ \A j \in RowsOf(deletion', d) : j <= k
                                          /\ deletion'[k].status = "completed"
    BY <2>4 DEF LatestIn, IsLast
  <2>6. DOMAIN deletion' \subseteq Nat
    <3>1. deletion' \in Seq(DeletionJob)
      BY <2>0 DEF StoreType
    <3> QED
      BY <3>1, TableRow
  <2> QED
    BY <2>5, <2>6, DeletionDecides, StatusIsOf
<1>4. Inv /\ OneRequestPerDocument /\ [Next]_vars =>
        [\A d \in Document : LifecycleStatus(d) = "deleted" => LifecycleStatus(d)' = "deleted"]_vars
  BY <1>3
<1> QED
  BY <1>1, <1>2, <1>4, PTL DEF Spec, DeletedIsFinal
=============================================================================
