-------------------------- MODULE Observers_proofs --------------------------
(***************************************************************************)
(* What the read-only requests answer is right, although the jobs go on    *)
(* between their reads and the services may lose what they hold.           *)
(***************************************************************************)
EXTENDS Observers, DocumentPromise_proofs

(* A COMPLETED ingestion has left its document in a collection.            *)
CompletedIndexed ==
  /\ \A i \in DOMAIN ingestion :
       ingestion[i].status = "completed" => collection[ingestion[i].document] # None
  /\ \A w \in Ingestor :
       ~IngestorAt(w, "idle") /\ ingestor[w].base # None => collection[IngestorDocument(w)] # None

(* An original is gone because it was lost, or by a deletion.              *)
OriginalsAccounted ==
  \A d \in Document \ object : d \in lost \/ \E i \in RowsOf(deletion, d) : deletion[i].vectorsDone

WorldInv ==
  IInv /\ Standing /\ NamesRegistered /\ CompletedIndexed /\ OriginalsAccounted /\ lost \subseteq Losable

---------------------------------------------------------------------------
(* What the jobs keep.                                                     *)

LEMMA CompletedIndexedKept ==
  ASSUME IInv, CompletedIndexed, Event
  PROVE  CompletedIndexed'
<1>0. /\ StoreType /\ IngestorsValid
      /\ \A d \in Document : collection[d] # None => collection'[d] # None
  BY StaysIndexed DEF IInv, TypeOK, SessionsHold
<1>1. \A i \in DOMAIN ingestion : ingestion[i].document \in Document
  BY <1>0, IngestionRow
<1>2. DOMAIN ingestion \subseteq DOMAIN ingestion'
      /\ \A i \in DOMAIN ingestion : ingestion'[i].document = ingestion[i].document
  BY TablesGrow DEF Grows
<1>3. ASSUME NEW i \in DOMAIN ingestion', ingestion'[i].status = "completed",
             i \notin DOMAIN ingestion \/ ingestion[i].status # "completed"
      PROVE  \E w \in Ingestor : IngestorCompletes(w) /\ i = ingestor[w].job
  <2>1. ASSUME NEW w \in Ingestor, IngestorActs(w)
        PROVE  IngestorCompletes(w) /\ i = ingestor[w].job
    BY <1>3, <2>1 DEF IngestorActs, IngestorEffect, IngestorClaims, IngestorProceeds,
       IngestorUpserts, IngestorLeaves, IngestorFails, IngestorCompletes, SetsStatus
  <2>2. ASSUME NEW j, NEW n, NEW d, AttemptReplaced(j, n, d)
        PROVE  FALSE
    BY <1>3, <2>2 DEF AttemptReplaced, IngestionReplaced, Replaces, SetsStatus, Inserts
  <2> QED
    BY <1>3, <2>1, <2>2, WhoIngests
<1>4. ASSUME NEW w \in Ingestor, IngestorCompletes(w)
      PROVE  collection'[IngestorDocument(w)] # None
  <2>1. ingestor[w].job \in DOMAIN ingestion /\ ingestor[w].target \in Collection
    BY <1>0, <1>4 DEF IngestorCompletes, IngestorsValid, IngestorAt
  <2>2. IngestorDocument(w) \in Document /\ ingestor[w].target # None
    BY <1>1, <2>1, StoreAssumption DEF IngestorDocument
  <2>3. CASE ingestor[w].target = ingestor[w].base
    BY <1>0, <1>4, <2>2, <2>3 DEF IngestorCompletes, CompletedIndexed, IngestorAt
  <2>4. CASE ingestor[w].target # ingestor[w].base
    BY <1>0, <1>4, <2>2, <2>4 DEF IngestorCompletes, StoreType
  <2> QED
    BY <2>3, <2>4
<1>5. ASSUME NEW i \in DOMAIN ingestion', ingestion'[i].status = "completed"
      PROVE  collection'[ingestion'[i].document] # None
  <2>1. CASE i \in DOMAIN ingestion /\ ingestion[i].status = "completed"
    BY <1>0, <1>1, <1>2, <2>1 DEF CompletedIndexed
  <2>2. CASE i \notin DOMAIN ingestion \/ ingestion[i].status # "completed"
    <3>1. PICK w \in Ingestor : IngestorCompletes(w) /\ i = ingestor[w].job
      BY <1>3, <1>5, <2>2
    <3>2. ingestion'[i].document = IngestorDocument(w)
      BY <1>0, <1>2, <3>1 DEF IngestorCompletes, IngestorsValid, IngestorAt, IngestorDocument
    <3> QED
      BY <1>4, <3>1, <3>2
  <2> QED
    BY <2>1, <2>2
<1>6. ASSUME NEW w \in Ingestor, ingestor'[w].at # "idle", ingestor'[w].base # None
      PROVE  collection'[ingestion'[ingestor'[w].job].document] # None
  <2>1. CASE ingestor[w].at # "idle" /\ ingestor'[w].job = ingestor[w].job
             /\ ingestor'[w].base = ingestor[w].base
    <3>1. ingestor[w].job \in DOMAIN ingestion
      BY <1>0, <2>1 DEF IngestorsValid
    <3> QED
      BY <1>0, <1>1, <1>2, <1>6, <2>1, <3>1 DEF CompletedIndexed, IngestorAt, IngestorDocument
  <2>2. ASSUME NEW i, IngestorClaims(w, i)
        PROVE  collection'[ingestion'[ingestor'[w].job].document] # None
    BY <1>2, <1>6, <2>2 DEF IngestorClaims, IngestorBecomes
  <2>3. CASE ingestor'[w] = ingestor[w]
    BY <1>6, <2>1, <2>3
  <2>4. CASE IngestorActs(w)
    <3>1. ingestor[w] \in IngestorSession
      BY DEF IInv, TypeOK, IngestionType
    <3>2. CASE IngestorLeaves(w) \/ IngestorFails(w) \/ IngestorCompletes(w)
      BY <1>6, <3>2 DEF IngestorLeaves, IngestorFails, IngestorCompletes, IngestorBecomes, NoIngestion
    <3>3. ASSUME NEW step, IngestorProceeds(w, step) \/ IngestorUpserts(w)
          PROVE  ingestor[w].at # "idle" /\ ingestor'[w].job = ingestor[w].job
                 /\ ingestor'[w].base = ingestor[w].base
      BY <3>1, <3>3 DEF IngestorProceeds, IngestorUpserts, IngestorBecomes, IngestorSession, IngestorAt
    <3> QED
      BY <2>1, <2>2, <2>4, <3>2, <3>3 DEF IngestorActs, IngestorEffect
  <2> QED
    BY <2>3, <2>4, WorkersAlone
<1> QED
  BY <1>5, <1>6 DEF CompletedIndexed, IngestorAt, IngestorDocument

(* A loss only takes an original or points away.                           *)
LEMMA LossesSpare ==
  ASSUME Loses, IInv, Standing
  PROVE  /\ IInv' /\ Standing'
         /\ object' \subseteq object /\ vectors' \subseteq vectors
         /\ object \ object' \subseteq lost' /\ lost' \subseteq Losable
         /\ UNCHANGED <<configured, documents, tables, client, workers>>
<1>1. /\ object' \subseteq object /\ vectors' \subseteq vectors
      /\ object \ object' \subseteq lost' /\ lost' \subseteq Losable
      /\ UNCHANGED <<configured, documents, tables, client, workers>>
  BY DEF Loses
<1>2. /\ UNCHANGED <<configured, registered, collection, hashed, client>>
      /\ UNCHANGED <<ingestion, deletion, reindex, cleanup, ingestor, deleter, builder, cleaner>>
  BY <1>1 DEF documents, tables, workers
<1>3. TypeOK'
  BY <1>1, <1>2 DEF IInv, TypeOK, StoreType, IngestionType, DeletionType, ReindexingType, CleanupType
<1>4. SessionsHold'
  BY <1>1, <1>2 DEF IInv, SessionsHold, ClientsValid, IngestorsValid, DeletersValid, BuildersValid,
     CleanersValid, HeldOnce, HeldOnceBy, DeletedMeansErased, HashHeldUntilDeleted, RowsOf, At
<1>5. Standing'
  BY <1>2 DEF Standing, ActiveIsLast, BuildsIndexed, TargetsRegistered, LoadedIsTrue, RowsOf, At
<1> QED
  BY <1>1, <1>3, <1>4, <1>5 DEF IInv

(* What the requests read is consistent initially ...                      *)
LEMMA WorldInit == ObservedInit => WorldInv
<1> SUFFICES ASSUME ObservedInit PROVE WorldInv
  OBVIOUS
<1>1. Init /\ lost = {}
  BY DEF ObservedInit
<1>2. NamesRegistered /\ OriginalsAccounted
  BY <1>1, EmptySeq DEF Init, StoreInit, NoRequest, At, NamesRegistered, OriginalsAccounted
<1>3. CompletedIndexed
  BY <1>1 DEF Init, StoreInit, IngestionInit, NoIngestion, IngestorAt, CompletedIndexed
<1> QED
  BY <1>1, <1>2, <1>3, InitInv, StandingInit DEF WorldInv

(* ... and stays so, whatever the jobs do and the services lose.           *)
LEMMA WorldStep ==
  ASSUME WorldInv, \/ [Next]_vars /\ UNCHANGED lost
                   \/ Loses
  PROVE  WorldInv' /\ (Event \/ Loses)
<1>1. CASE [Next]_vars /\ UNCHANGED lost
  <2>1. IInv'
    BY <1>1, StepInv DEF WorldInv
  <2>2. Event /\ Standing'
    BY <1>1, <2>1, StandingStep DEF WorldInv
  <2>3. NamesRegistered' /\ CompletedIndexed'
    BY <2>2, NamesRegisteredKept, CompletedIndexedKept DEF WorldInv
  <2>4. OriginalsAccounted'
    <3>1. ASSUME NEW d \in Document, d \notin object', d \notin lost'
          PROVE  \E i \in RowsOf(deletion', d) : deletion'[i].vectorsDone
      BY <1>1, <2>2, <3>1, OriginalsErased DEF WorldInv, OriginalsAccounted
    <3> QED
      BY <3>1 DEF OriginalsAccounted, RowsOf
  <2> QED
    BY <1>1, <2>1, <2>2, <2>3, <2>4 DEF WorldInv
<1>2. CASE Loses
  <2>1. /\ IInv' /\ Standing'
        /\ object \ object' \subseteq lost' /\ lost' \subseteq Losable
        /\ UNCHANGED <<configured, documents, tables, client, workers>>
    BY <1>2, LossesSpare DEF WorldInv
  <2>2. UNCHANGED <<registered, collection, client, ingestor, ingestion, deletion, reindex>>
    BY <2>1 DEF documents, tables, workers
  <2>3. NamesRegistered' /\ CompletedIndexed'
    BY <2>2 DEF WorldInv, NamesRegistered, CompletedIndexed, At, IngestorAt, IngestorDocument
  <2>4. lost = {}
    BY <1>2 DEF Loses
  <2>5. OriginalsAccounted'
    BY <2>1, <2>2, <2>4 DEF WorldInv, OriginalsAccounted, RowsOf
  <2> QED
    BY <1>2, <2>1, <2>3, <2>5 DEF WorldInv
<1> QED
  BY <1>1, <1>2

---------------------------------------------------------------------------
(* What a request does to the sessions: its own changes, and the others    *)
(* wait for their turn; when others move, they only remember.              *)

ObserverBecomes(o, s) == \A p \in Observer : observer'[p] = IF p = o THEN s ELSE observer[p]

(* An update of one session is an update of one session.                   *)
LEMMA OwnSession ==
  ASSUME observer \in [Observer -> ObserverSession], NEW o \in Observer, NEW s,
         s \in ObserverSession, observer' = [observer EXCEPT ![o] = s]
  PROVE  observer' \in [Observer -> ObserverSession] /\ ObserverBecomes(o, s)
  BY DEF ObserverBecomes

(* The statuses a request has seen hold are those of its answers.          *)
View == {"indexed", "pending", "processing", "failed", "deleting", "deletion_failed", "deleted"}

(* What the latest rows of a document make of its status.                  *)
LEMMA StatusRead ==
  ASSUME StoreType, Standing, NEW d \in Document
  PROVE  /\ LifecycleStatus(d) \in View /\ IngestionView(d) \in View
         /\ LatestIn(deletion, d, {"completed"}) <=> LifecycleStatus(d) = "deleted"
         /\ LatestIn(deletion, d, {"completed"}) => RowsOf(deletion, d) # {}
         /\ RowsOf(deletion, d) = {} => IngestionView(d) = LifecycleStatus(d)
         /\ \A view : StatusGiven(d, view) =
                        IF RowsOf(deletion, d) = {} THEN view ELSE LifecycleStatus(d)
<1>1. LifecycleStatus(d) = StatusOf(ingestion, deletion, d)
  BY StatusIsOf
<1>2. DOMAIN ingestion \subseteq Nat /\ DOMAIN deletion \subseteq Nat
  BY RowsNumbered
<1>3. ingestion \in Seq(IngestionJob) /\ deletion \in Seq(DeletionJob)
  BY DEF StoreType
<1>4. \A i \in DOMAIN ingestion : ingestion[i].status \in IngestionStatus
  <2>1. \A i \in DOMAIN ingestion : ingestion[i] \in IngestionJob
    BY <1>3, TableRow
  <2> QED
    BY <2>1 DEF IngestionJob
<1>5. PICK k \in RowsOf(ingestion, d) :
        (\A j \in RowsOf(ingestion, d) : j <= k) /\ ingestion[k].status \in IngestionStatus
  <2>1. LatestIn(ingestion, d, IngestionStatus)
    BY <1>3, <1>4, LatestExists DEF Standing
  <2> QED
    BY <2>1 DEF LatestIn, IsLast
<1>6. IngestionView(d) = StatusName(ingestion[k].status)
  <2>1. \A statuses : LatestIn(ingestion, d, statuses) <=> ingestion[k].status \in statuses
    BY <1>2, <1>5, LastDecides
  <2>2. \A s : LatestIn(ingestion, d, {s}) <=> ingestion[k].status = s
    BY <2>1
  <2> DEFINE s == CHOOSE s \in IngestionStatus : LatestIn(ingestion, d, {s})
  <2>3. s = ingestion[k].status
    BY <1>5, <2>2
  <2> QED
    BY <2>3 DEF IngestionView, StatusName
<1>7. IngestionView(d) \in View
  BY <1>5, <1>6 DEF StatusName, IngestionStatus, View
<1>8. CASE RowsOf(deletion, d) = {}
  <2>1. \A statuses : ~LatestIn(deletion, d, statuses)
    BY <1>8 DEF LatestIn
  <2>2. LifecycleStatus(d) = StatusName(ingestion[k].status)
    BY <1>1, <1>2, <1>5, <1>8, IngestionDecides DEF StatusName, IngestionStatus
  <2>3. StatusName(ingestion[k].status) # "deleted"
    BY <1>5 DEF StatusName, IngestionStatus
  <2>4. \A view : StatusGiven(d, view) = view
    BY <2>1 DEF StatusGiven
  <2> QED
    BY <1>6, <1>7, <1>8, <2>1, <2>2, <2>3, <2>4
<1>9. CASE RowsOf(deletion, d) # {}
  <2>1. PICK x \in RowsOf(deletion, d) :
          (\A j \in RowsOf(deletion, d) : j <= x) /\ deletion[x].status \in DeletionStatus
    <3>1. LatestIn(deletion, d, DeletionStatus)
      BY <1>9, StatusDecided
    <3> QED
      BY <3>1 DEF LatestIn, IsLast
  <2>2. \A statuses : LatestIn(deletion, d, statuses) <=> deletion[x].status \in statuses
    BY <1>2, <2>1, LastDecides
  <2>3. CASE deletion[x].status \in Active
    <3>1. LifecycleStatus(d) = "deleting"
      BY <1>1, <1>2, <2>1, <2>3, DeletionDecides
    <3>2. \A view : StatusGiven(d, view) = "deleting"
      BY <2>2, <2>3 DEF StatusGiven, Active
    <3> QED
      BY <1>7, <1>9, <2>2, <2>3, <3>1, <3>2 DEF View, Active
  <2>4. CASE deletion[x].status = "partially_failed"
    <3>1. LifecycleStatus(d) = "deletion_failed"
      BY <1>1, <1>2, <2>1, <2>4, DeletionDecides
    <3>2. \A view : StatusGiven(d, view) = "deletion_failed"
      BY <2>2, <2>4 DEF StatusGiven, Active
    <3> QED
      BY <1>7, <1>9, <2>2, <2>4, <3>1, <3>2 DEF View
  <2>5. CASE deletion[x].status = "completed"
    <3>1. LifecycleStatus(d) = "deleted"
      BY <1>1, <1>2, <2>1, <2>5, DeletionDecides
    <3>2. \A view : StatusGiven(d, view) = "deleted"
      BY <2>2, <2>5 DEF StatusGiven, Active
    <3> QED
      BY <1>7, <1>9, <2>2, <2>5, <3>1, <3>2 DEF View
  <2> QED
    BY <2>1, <2>3, <2>4, <2>5 DEF DeletionStatus, Active
<1> QED
  BY <1>8, <1>9

---------------------------------------------------------------------------
(* Detail and download: what has been read was true during the request.    *)

FollowSteps == {"detail_loaded", "detail_ingestion_read", "download_loaded", "download_reading"}

(* The status a request has seen includes the present one, and what has    *)
(* been read of it.                                                        *)
StatusSeen(o) ==
  LET d == Doc(o)
  IN  /\ observer[o].at \in FollowSteps => d \in Document /\ LifecycleStatus(d) \in observer[o].since
      /\ observer[o].at \notin FollowSteps \cup {"detail_answered", "download_answered"} =>
           observer[o].since = {}
      /\ Sees(o, "detail_ingestion_read") /\ RowsOf(deletion, d) = {} =>
           observer[o].response \in observer[o].since
      /\ Sees(o, "detail_answered") => observer[o].response \in observer[o].since
      /\ Sees(o, "download_reading") => observer[o].since # {"deleted"}
      /\ Sees(o, "download_answered") =>
           /\ observer[o].response = "200" => observer[o].since # {"deleted"}
           /\ observer[o].response = "410" => "deleted" \in observer[o].since
           /\ observer[o].response = "409" => d \in lost \/ RowsOf(deletion, d) # {}

(* A request about nothing has read nothing.                               *)
LEMMA NoObservationTyped ==
  /\ NoObservation \in ObserverSession
  /\ NoObservation.at = "idle" /\ NoObservation.since = {} /\ NoObservation.document = None
  BY DEF NoObservation, ObserverSession, ObserverSteps, Response

(* Every step of a request leaves it with a session ...                    *)
LEMMA DetailStepSees ==
  ASSUME WorldInv, observer \in [Observer -> ObserverSession], UNCHANGED <<vars, lost>>,
         NEW o \in Observer, StatusSeen(o),
         \/ \E d \in Document : DetailLoads(o, d) \/ DownloadLoads(o, d)
         \/ DetailReadsIngestion(o) \/ DetailReadsDeletion(o)
         \/ DownloadReadsDeletion(o) \/ DownloadReadsObject(o)
  PROVE  /\ ObserverBecomes(o, observer'[o]) /\ observer' \in [Observer -> ObserverSession]
         /\ StatusSeen(o)' /\ observer'[o].at \in FollowSteps \cup {"detail_answered", "download_answered"}
<1>0. StoreType /\ Standing /\ OriginalsAccounted /\ observer[o] \in ObserverSession
  BY DEF WorldInv, IInv, TypeOK
<1>1. \A d \in Document :
        /\ LifecycleStatus(d) \in View /\ IngestionView(d) \in View
        /\ LatestIn(deletion, d, {"completed"}) <=> LifecycleStatus(d) = "deleted"
        /\ RowsOf(deletion, d) = {} => IngestionView(d) = LifecycleStatus(d)
        /\ \A view : StatusGiven(d, view) =
                       IF RowsOf(deletion, d) = {} THEN view ELSE LifecycleStatus(d)
  BY <1>0, StatusRead
<1>2. /\ \A d : LifecycleStatus(d)' = LifecycleStatus(d) /\ RowsOf(deletion', d) = RowsOf(deletion, d)
      /\ lost' = lost
  <2>1. UNCHANGED <<ingestion, deletion, lost>>
    BY DEF vars, tables
  <2> QED
    BY <2>1, StatusIsOf
<1>3. View \subseteq Response
  BY DEF View, Response, Shown
<1>4. ASSUME NEW d \in Document, NEW step \in FollowSteps \ {"download_reading", "detail_ingestion_read"},
             FindsDocument(o, step, d)
      PROVE  /\ ObserverBecomes(o, observer'[o]) /\ observer' \in [Observer -> ObserverSession]
             /\ StatusSeen(o)' /\ observer'[o].at = step
  <2> DEFINE s == [NoObservation EXCEPT !.at = step, !.document = d, !.since = {LifecycleStatus(d)}]
  <2>1. s \in ObserverSession /\ s.at = step /\ s.document = d /\ s.since = {LifecycleStatus(d)}
    BY <1>1, <1>3, <1>4, NoObservationTyped DEF ObserverSession, NoObservation, FollowSteps, ObserverSteps
  <2>2. observer' \in [Observer -> ObserverSession] /\ ObserverBecomes(o, s) /\ observer'[o] = s
    BY <1>4, <2>1, OwnSession DEF FindsDocument, ObserverBecomes
  <2> QED
    BY <1>2, <2>1, <2>2 DEF StatusSeen, Doc, Sees, FollowSteps
<1>5. ASSUME NEW step, step \in {"detail_ingestion_read", "detail_answered", "download_answered"},
             NEW response \in Response, Responds(o, step, response)
      PROVE  /\ ObserverBecomes(o, observer'[o]) /\ observer' \in [Observer -> ObserverSession]
             /\ observer'[o] = [observer[o] EXCEPT !.at = step, !.response = response]
  <2> DEFINE s == [observer[o] EXCEPT !.at = step, !.response = response]
  <2>1. s \in ObserverSession
    BY <1>0, <1>5 DEF ObserverSession, ObserverSteps
  <2>2. observer' = [observer EXCEPT ![o] = s]
    BY <1>5 DEF Responds
  <2> QED
    BY <2>1, <2>2, OwnSession DEF ObserverBecomes
<1>6. ASSUME Observes(o, "download_reading")
      PROVE  /\ ObserverBecomes(o, observer'[o]) /\ observer' \in [Observer -> ObserverSession]
             /\ observer'[o] = [observer[o] EXCEPT !.at = "download_reading"]
  <2> DEFINE s == [observer[o] EXCEPT !.at = "download_reading"]
  <2>1. s \in ObserverSession
    BY <1>0 DEF ObserverSession, ObserverSteps
  <2>2. observer' = [observer EXCEPT ![o] = s]
    BY <1>6 DEF Observes
  <2> QED
    BY <2>1, <2>2, OwnSession DEF ObserverBecomes
<1>7. CASE \E d \in Document : DetailLoads(o, d) \/ DownloadLoads(o, d)
  BY <1>4, <1>7 DEF DetailLoads, DownloadLoads, FollowSteps
<1>8. observer[o].at \in FollowSteps =>
        Doc(o) \in Document /\ LifecycleStatus(Doc(o)) \in observer[o].since
  BY DEF StatusSeen
<1>9. CASE DetailReadsIngestion(o)
  <2>1. Doc(o) \in Document /\ LifecycleStatus(Doc(o)) \in observer[o].since
    BY <1>8, <1>9 DEF DetailReadsIngestion, Sees, FollowSteps
  <2>2. /\ ObserverBecomes(o, observer'[o]) /\ observer' \in [Observer -> ObserverSession]
        /\ observer'[o] = [observer[o] EXCEPT !.at = "detail_ingestion_read", !.response = IngestionView(Doc(o))]
    BY <1>1, <1>3, <1>5, <1>9, <2>1 DEF DetailReadsIngestion
  <2>3. /\ observer'[o].at = "detail_ingestion_read" /\ observer'[o].response = IngestionView(Doc(o))
        /\ observer'[o].document = Doc(o) /\ observer'[o].since = observer[o].since
    BY <1>0, <2>2 DEF ObserverSession, Doc
  <2> QED
    BY <1>1, <1>2, <2>1, <2>2, <2>3 DEF StatusSeen, Doc, Sees, FollowSteps
<1>10. CASE DetailReadsDeletion(o)
  <2>1. Doc(o) \in Document /\ LifecycleStatus(Doc(o)) \in observer[o].since
    BY <1>8, <1>10 DEF DetailReadsDeletion, Sees, FollowSteps
  <2> DEFINE r == StatusGiven(Doc(o), observer[o].response)
  <2>2. r \in observer[o].since /\ r \in Response
    BY <1>0, <1>1, <1>10, <2>1 DEF DetailReadsDeletion, StatusSeen, ObserverSession
  <2>3. /\ ObserverBecomes(o, observer'[o]) /\ observer' \in [Observer -> ObserverSession]
        /\ observer'[o] = [observer[o] EXCEPT !.at = "detail_answered", !.response = r]
    BY <1>5, <1>10, <2>2 DEF DetailReadsDeletion
  <2>4. /\ observer'[o].at = "detail_answered" /\ observer'[o].response = r
        /\ observer'[o].document = Doc(o) /\ observer'[o].since = observer[o].since
    BY <1>0, <2>3 DEF ObserverSession, Doc
  <2> QED
    BY <2>2, <2>3, <2>4 DEF StatusSeen, Doc, Sees, FollowSteps
<1>11. CASE DownloadReadsDeletion(o)
  <2>1. Doc(o) \in Document /\ LifecycleStatus(Doc(o)) \in observer[o].since
    BY <1>8, <1>11 DEF DownloadReadsDeletion, Sees, FollowSteps
  <2>2. CASE LatestIn(deletion, Doc(o), {"completed"})
    <3>1. /\ ObserverBecomes(o, observer'[o]) /\ observer' \in [Observer -> ObserverSession]
          /\ observer'[o] = [observer[o] EXCEPT !.at = "download_answered", !.response = "410"]
      BY <1>5, <1>11, <2>2 DEF DownloadReadsDeletion, Response, Shown
    <3>2. /\ observer'[o].at = "download_answered" /\ observer'[o].response = "410"
          /\ observer'[o].document = Doc(o) /\ observer'[o].since = observer[o].since
      BY <1>0, <3>1 DEF ObserverSession, Doc
    <3>3. "deleted" \in observer[o].since
      BY <1>1, <2>1, <2>2
    <3> QED
      BY <3>1, <3>2, <3>3 DEF StatusSeen, Doc, Sees, FollowSteps
  <2>3. CASE ~LatestIn(deletion, Doc(o), {"completed"})
    <3>1. /\ ObserverBecomes(o, observer'[o]) /\ observer' \in [Observer -> ObserverSession]
          /\ observer'[o] = [observer[o] EXCEPT !.at = "download_reading"]
      BY <1>6, <1>11, <2>3 DEF DownloadReadsDeletion
    <3>2. /\ observer'[o].at = "download_reading"
          /\ observer'[o].document = Doc(o) /\ observer'[o].since = observer[o].since
      BY <1>0, <3>1 DEF ObserverSession, Doc
    <3>3. observer[o].since # {"deleted"}
      BY <1>1, <2>1, <2>3
    <3> QED
      BY <1>2, <2>1, <3>1, <3>2, <3>3 DEF StatusSeen, Doc, Sees, FollowSteps
  <2> QED
    BY <2>2, <2>3
<1>12. CASE DownloadReadsObject(o)
  <2>1. Doc(o) \in Document /\ LifecycleStatus(Doc(o)) \in observer[o].since /\ observer[o].since # {"deleted"}
    BY <1>8, <1>12 DEF DownloadReadsObject, Sees, FollowSteps, StatusSeen
  <2>2. PICK answer \in ReadAnswers(Doc(o)) : Responds(o, "download_answered", answer)
    BY <1>12 DEF DownloadReadsObject
  <2>3. answer \in Response /\ answer # "410" /\ (answer = "409" => Doc(o) \notin object)
    BY <2>2 DEF ReadAnswers, Response, Shown
  <2>4. /\ ObserverBecomes(o, observer'[o]) /\ observer' \in [Observer -> ObserverSession]
        /\ observer'[o] = [observer[o] EXCEPT !.at = "download_answered", !.response = answer]
    BY <1>5, <2>2, <2>3
  <2>5. /\ observer'[o].at = "download_answered" /\ observer'[o].response = answer
        /\ observer'[o].document = Doc(o) /\ observer'[o].since = observer[o].since
    BY <1>0, <2>4 DEF ObserverSession, Doc
  <2>6. answer = "409" => Doc(o) \in lost \/ RowsOf(deletion, Doc(o)) # {}
    BY <1>0, <2>1, <2>3 DEF OriginalsAccounted
  <2> QED
    BY <1>2, <2>1, <2>3, <2>4, <2>5, <2>6 DEF StatusSeen, Doc, Sees, FollowSteps
<1> QED
  BY <1>7, <1>9, <1>10, <1>11, <1>12

---------------------------------------------------------------------------
(* What has not changed of a document reads the same.                      *)

LEMMA SameRows ==
  ASSUME NEW t, NEW u, NEW d,
         {<<i, u[i]>> : i \in RowsOf(u, d)} = {<<i, t[i]>> : i \in RowsOf(t, d)}
  PROVE  /\ RowsOf(u, d) = RowsOf(t, d) /\ \A i \in RowsOf(t, d) : u[i] = t[i]
         /\ \A statuses : LatestIn(u, d, statuses) <=> LatestIn(t, d, statuses)
         /\ ActiveRows(u, d) = ActiveRows(t, d)
         /\ Latest(u, d) = Latest(t, d)
<1>1. \A i \in RowsOf(t, d) : i \in RowsOf(u, d) /\ u[i] = t[i]
  <2>1. ASSUME NEW i \in RowsOf(t, d)
        PROVE  i \in RowsOf(u, d) /\ u[i] = t[i]
    <3>1. <<i, t[i]>> \in {<<j, u[j]>> : j \in RowsOf(u, d)}
      BY <2>1
    <3> QED
      BY <3>1
  <2> QED
    BY <2>1
<1>2. \A i \in RowsOf(u, d) : i \in RowsOf(t, d)
  <2>1. ASSUME NEW i \in RowsOf(u, d)
        PROVE  i \in RowsOf(t, d)
    <3>1. <<i, u[i]>> \in {<<j, t[j]>> : j \in RowsOf(t, d)}
      BY <2>1
    <3> QED
      BY <3>1
  <2> QED
    BY <2>1
<1>3. RowsOf(u, d) = RowsOf(t, d)
  BY <1>1, <1>2
<1>4. \A statuses : LatestIn(u, d, statuses) <=> LatestIn(t, d, statuses)
  BY <1>1, <1>3 DEF LatestIn, IsLast
<1>5. ActiveRows(u, d) = ActiveRows(t, d)
  BY <1>1, <1>3 DEF ActiveRows
<1>6. Latest(u, d) = Latest(t, d)
  BY <1>3 DEF Latest, IsLast, RowsOf
<1> QED
  BY <1>1, <1>3, <1>4, <1>5, <1>6

LEMMA SameFootprint ==
  ASSUME NEW d, Footprint(d)' = Footprint(d)
  PROVE  /\ configured' = configured /\ collection'[d] = collection[d]
         /\ d \in object' <=> d \in object
         /\ \A c \in Collection : <<c, d>> \in vectors' <=> <<c, d>> \in vectors
         /\ RowsOf(deletion', d) = RowsOf(deletion, d) /\ ActiveRows(reindex', d) = ActiveRows(reindex, d)
         /\ \A statuses : LatestIn(deletion', d, statuses) <=> LatestIn(deletion, d, statuses)
         /\ Latest(reindex', d) = Latest(reindex, d)
         /\ \A i \in Latest(reindex, d) : reindex'[i] = reindex[i]
         /\ RowsOf(cleanup', d) = RowsOf(cleanup, d)
         /\ \A i \in RowsOf(cleanup, d) : cleanup'[i] = cleanup[i]
<1>1. /\ configured' = configured /\ collection'[d] = collection[d]
      /\ (d \in object') = (d \in object)
      /\ {c \in Collection : <<c, d>> \in vectors'} = {c \in Collection : <<c, d>> \in vectors}
      /\ {<<i, deletion'[i]>> : i \in RowsOf(deletion', d)} = {<<i, deletion[i]>> : i \in RowsOf(deletion, d)}
      /\ {<<i, reindex'[i]>> : i \in RowsOf(reindex', d)} = {<<i, reindex[i]>> : i \in RowsOf(reindex, d)}
      /\ {<<i, cleanup'[i]>> : i \in RowsOf(cleanup', d)} = {<<i, cleanup[i]>> : i \in RowsOf(cleanup, d)}
  BY DEF Footprint, RowsOf
<1>2. \A c \in Collection : <<c, d>> \in vectors' <=> <<c, d>> \in vectors
  BY <1>1
<1>3. RowsOf(cleanup', d) = RowsOf(cleanup, d) /\ \A i \in RowsOf(cleanup, d) : cleanup'[i] = cleanup[i]
  BY <1>1, SameRows
<1>4. \A i \in Latest(reindex, d) : i \in RowsOf(reindex, d)
  BY DEF Latest, IsLast
<1>5. /\ RowsOf(reindex', d) = RowsOf(reindex, d) /\ \A i \in RowsOf(reindex, d) : reindex'[i] = reindex[i]
      /\ ActiveRows(reindex', d) = ActiveRows(reindex, d) /\ Latest(reindex', d) = Latest(reindex, d)
  BY <1>1, SameRows
<1>6. /\ RowsOf(deletion', d) = RowsOf(deletion, d)
      /\ \A statuses : LatestIn(deletion', d, statuses) <=> LatestIn(deletion, d, statuses)
  BY <1>1, SameRows
<1> QED
  BY <1>1, <1>2, <1>3, <1>4, <1>5, <1>6

---------------------------------------------------------------------------
(* The audit: what it has found is what there is, as long as nothing       *)
(* changes, and what it could not find out it says.                        *)

AuditSteps ==
  {"audit_loaded", "audit_ingestion_read", "audit_deletion_read", "audit_reindex_read",
   "audit_rows_read", "audit_storage_inspected", "audit_counting", "audit_answered"}

Unsuspected(s) == s.findings \cap (Error \cup Warning) = {}

AuditTrue(s) ==
  LET d == s.document
  IN  /\ s.base = collection[d]
      /\ s.at \notin {"audit_loaded", "audit_ingestion_read"} =>
           /\ s.final <=> LatestIn(deletion, d, {"completed"})
           /\ Unsuspected(s) /\ ~s.final => RowsOf(deletion, d) = {}
      /\ s.at \in {"audit_rows_read", "audit_storage_inspected", "audit_counting"} => ~s.final
      /\ s.at \in {"audit_rows_read", "audit_storage_inspected", "audit_counting", "audit_answered"} =>
           (Unsuspected(s) => CleanupCollections(d) = {})
      /\ s.at \in {"audit_storage_inspected", "audit_counting", "audit_answered"} =>
           (Unsuspected(s) /\ ~s.final => d \in object)
      /\ s.at = "audit_counting" => s.base # None
      /\ s.at = "audit_answered" =>
           (Unsuspected(s) /\ ~s.final => s.base = None \/ <<s.base, d>> \in vectors)
      /\ s.findings \cap {"metadata_incomplete", "deficit"} = {}
      /\ s.findings \cap Error # {} =>
           s.at \notin {"audit_loaded", "audit_ingestion_read", "audit_deletion_read", "audit_reindex_read"}
           /\ ~s.final
      /\ "object_missing" \in s.findings => d \notin object
      /\ s.findings \cap {"collection_missing", "vectors_missing"} # {} =>
           s.base # None /\ <<s.base, d>> \notin vectors

AuditSeen(o) ==
  observer[o].at \in AuditSteps =>
    /\ Doc(o) \in Document
    /\ ~observer[o].changed => AuditTrue(observer[o])

(* A step of an audit or a report changes its own session only; an audit   *)
(* adds findings.                                                          *)
Reads(o, step) ==
  /\ ObserverBecomes(o, observer'[o]) /\ observer' \in [Observer -> ObserverSession]
  /\ observer'[o].at = step
  /\ observer'[o].document = observer[o].document /\ observer'[o].base = observer[o].base
  /\ observer'[o].since = observer[o].since /\ observer'[o].changed = observer[o].changed

Audits(o, step, found) ==
  Reads(o, step) /\ observer'[o].findings = observer[o].findings \cup found

LEMMA FindsAudits ==
  ASSUME observer \in [Observer -> ObserverSession], NEW o \in Observer, NEW step \in ObserverSteps
  PROVE  /\ \A found \in SUBSET Finding : Finds(o, step, found) =>
              Audits(o, step, found) /\ observer'[o].final = observer[o].final
                /\ observer'[o].row = observer[o].row
         /\ Observes(o, step) =>
              Audits(o, step, {}) /\ observer'[o].final = observer[o].final
                /\ observer'[o].row = observer[o].row
<1>0. observer[o] \in ObserverSession
  OBVIOUS
<1>1. ASSUME NEW found \in SUBSET Finding, Finds(o, step, found)
      PROVE  Audits(o, step, found) /\ observer'[o].final = observer[o].final
             /\ observer'[o].row = observer[o].row
  <2> DEFINE s == [observer[o] EXCEPT !.at = step, !.findings = @ \cup found]
  <2>1. s \in ObserverSession /\ observer' = [observer EXCEPT ![o] = s]
    BY <1>0, <1>1 DEF ObserverSession, Finds
  <2>2. ObserverBecomes(o, s) /\ observer' \in [Observer -> ObserverSession] /\ observer'[o] = s
    BY <2>1, OwnSession DEF ObserverBecomes
  <2> QED
    BY <1>0, <2>2 DEF Audits, Reads, ObserverBecomes, ObserverSession
<1>2. ASSUME Observes(o, step)
      PROVE  Audits(o, step, {}) /\ observer'[o].final = observer[o].final
             /\ observer'[o].row = observer[o].row
  <2> DEFINE s == [observer[o] EXCEPT !.at = step]
  <2>1. s \in ObserverSession /\ observer' = [observer EXCEPT ![o] = s]
    BY <1>0, <1>2 DEF ObserverSession, Observes
  <2>2. ObserverBecomes(o, s) /\ observer' \in [Observer -> ObserverSession] /\ observer'[o] = s
    BY <2>1, OwnSession DEF ObserverBecomes
  <2> QED
    BY <1>0, <2>2 DEF Audits, Reads, ObserverBecomes, ObserverSession
<1> QED
  BY <1>1, <1>2

(* What an audit steps on leaves what it has found true: every step.       *)
LEMMA AuditStepSees ==
  ASSUME WorldInv, observer \in [Observer -> ObserverSession], UNCHANGED <<vars, lost>>,
         NEW o \in Observer, AuditSeen(o),
         \/ \E d \in Document : AuditLoads(o, d)
         \/ AuditReadsIngestion(o) \/ AuditReadsDeletion(o) \/ AuditReadsReindex(o)
         \/ AuditReadsCleanups(o) \/ AuditInspectsStorage(o) \/ AuditInspectsCollection(o)
         \/ AuditCountsVectors(o)
  PROVE  /\ ObserverBecomes(o, observer'[o]) /\ observer' \in [Observer -> ObserverSession]
         /\ observer'[o].at \in AuditSteps /\ AuditSeen(o)'
         /\ observer'[o].since = IF Sees(o, "idle") THEN {} ELSE observer[o].since
         /\ ~Sees(o, "idle") => observer[o].at \in AuditSteps
<1>0. /\ StoreType /\ Standing /\ OriginalsAccounted /\ CompletedIndexed /\ observer[o] \in ObserverSession
      /\ ObserverSteps = ObserverSteps \cup AuditSteps
  BY DEF WorldInv, IInv, TypeOK, ObserverSteps, AuditSteps
<1>1. UNCHANGED <<collection, object, vectors, ingestion, deletion, reindex, cleanup, lost>>
  BY DEF vars, tables, documents, external
<1>2. AuditTrue(observer[o])' <=> AuditTrue(observer'[o])
  BY <1>1 DEF AuditTrue, Unsuspected, LatestIn, RowsOf, CleanupCollections, IsLast
<1>3. ~Sees(o, "idle") => observer[o].at \in AuditSteps /\ Doc(o) \in Document
                          /\ (~observer[o].changed => AuditTrue(observer[o]))
  BY DEF AuditSeen, Sees, AuditLoads, Loads, AuditReadsIngestion, AuditReadsDeletion,
     AuditReadsReindex, AuditReadsCleanups, AuditInspectsStorage, AuditInspectsCollection,
     AuditCountsVectors, AuditSteps
<1>4. CASE \E d \in Document : AuditLoads(o, d)
  <2>1. PICK d \in Document : AuditLoads(o, d)
    BY <1>4
  <2> DEFINE s == [NoObservation EXCEPT !.at = "audit_loaded", !.document = d, !.base = collection[d]]
  <2>2. collection[d] \in Collection \cup {None}
    BY <1>0 DEF StoreType
  <2>3. /\ s \in ObserverSession /\ s.at = "audit_loaded" /\ s.document = d /\ s.since = {}
        /\ s.base = collection[d] /\ s.findings = {}
    BY <2>2, NoObservationTyped DEF ObserverSession, NoObservation, ObserverSteps
  <2>4. observer' \in [Observer -> ObserverSession] /\ ObserverBecomes(o, s) /\ observer'[o] = s
    BY <2>1, <2>3, OwnSession DEF AuditLoads, Loads, ObserverBecomes
  <2>5. AuditTrue(observer'[o])
    BY <2>3, <2>4 DEF AuditTrue, Unsuspected
  <2> QED
    BY <1>2, <2>1, <2>3, <2>4, <2>5 DEF AuditSeen, AuditLoads, Loads, AuditSteps, Sees, Doc
<1>5. ASSUME ~Sees(o, "idle"), NEW step \in AuditSteps, NEW found, Audits(o, step, found),
             ~observer[o].changed => AuditTrue(observer'[o])
      PROVE  /\ ObserverBecomes(o, observer'[o]) /\ observer' \in [Observer -> ObserverSession]
             /\ observer'[o].at \in AuditSteps /\ AuditSeen(o)'
             /\ observer'[o].since = observer[o].since
  BY <1>2, <1>3, <1>5 DEF Audits, Reads, AuditSeen, Doc
<1>6. CASE AuditReadsIngestion(o)
  <2>1. Sees(o, "audit_loaded") /\ ~Sees(o, "idle")
    BY <1>6 DEF AuditReadsIngestion, Sees
  <2>2. PICK found \in SUBSET {"ingestion_in_progress", "stale_ingestion", "metadata_incomplete"} :
          /\ Finds(o, "audit_ingestion_read", found)
          /\ "metadata_incomplete" \in found =>
               \E i \in Latest(ingestion, Doc(o)) : ingestion[i].status = "completed" /\ observer[o].base = None
    BY <1>6 DEF AuditReadsIngestion
  <2>3. Audits(o, "audit_ingestion_read", found) /\ observer'[o].final = observer[o].final
    BY <2>2, FindsAudits DEF Finding, Info, Warning, Error, ObserverSteps
  <2>4. ASSUME ~observer[o].changed
        PROVE  AuditTrue(observer'[o])
    <3>1. AuditTrue(observer[o]) /\ observer[o].base = collection[Doc(o)]
      BY <1>3, <2>1, <2>4 DEF AuditTrue, Doc
    <3>2. "metadata_incomplete" \notin found
      BY <1>0, <2>2, <3>1 DEF Latest, IsLast, RowsOf, CompletedIndexed
    <3> QED
      BY <2>1, <2>2, <2>3, <3>1, <3>2 DEF AuditTrue, Unsuspected, Audits, Reads, Sees, Doc, Error
  <2> QED
    BY <1>5, <2>1, <2>3, <2>4 DEF AuditSteps, Sees
<1>7. CASE AuditReadsDeletion(o)
  <2>1. Sees(o, "audit_ingestion_read") /\ ~Sees(o, "idle") /\ Doc(o) \in Document
    BY <1>3, <1>7 DEF AuditReadsDeletion, Sees
  <2> DEFINE final == LatestIn(deletion, Doc(o), {"completed"})
             found == DeletionFindings(Doc(o))
             s == [observer[o] EXCEPT !.at = "audit_deletion_read", !.final = final,
                                      !.findings = @ \cup found]
  <2>2. final \in BOOLEAN /\ found \in SUBSET {"deletion_unfinished"}
    BY DEF LatestIn, DeletionFindings
  <2>3. s \in ObserverSession /\ observer' = [observer EXCEPT ![o] = s]
    BY <1>0, <1>7, <2>2 DEF AuditReadsDeletion, ObserverSession, ObserverSteps, Finding, Warning
  <2>4. observer' \in [Observer -> ObserverSession] /\ ObserverBecomes(o, s) /\ observer'[o] = s
    BY <2>3, OwnSession DEF ObserverBecomes
  <2>5. Audits(o, "audit_deletion_read", found) /\ observer'[o].final = final
    BY <1>0, <2>4 DEF Audits, Reads, ObserverBecomes, ObserverSession
  <2>6. ~final /\ found = {} => RowsOf(deletion, Doc(o)) = {}
    <3>1. LatestIn(deletion, Doc(o), DeletionStatus) \/ RowsOf(deletion, Doc(o)) = {}
      BY <1>0, <2>1, StatusDecided
    <3> QED
      BY <3>1 DEF LatestIn, DeletionFindings, DeletionStatus, Active
  <2>7. ~observer[o].changed => AuditTrue(observer'[o])
    BY <1>3, <2>1, <2>2, <2>5, <2>6 DEF AuditTrue, Unsuspected, Audits, Reads, Sees, Doc, Error, Warning
  <2> QED
    BY <1>5, <2>1, <2>5, <2>7 DEF AuditSteps, Sees
<1>8. CASE AuditReadsReindex(o)
  <2>1. Sees(o, "audit_deletion_read") /\ ~Sees(o, "idle")
    BY <1>8 DEF AuditReadsReindex, Sees
  <2> DEFINE built == {i \in Latest(reindex, Doc(o)) : reindex[i].status = "completed"}
             row == IF \E i \in built : reindex[i].activated THEN CHOOSE i \in built : TRUE ELSE 0
             found == IF \E i \in built : ~reindex[i].activated THEN {"target_not_activated"} ELSE {}
             s == [observer[o] EXCEPT !.at = "audit_reindex_read", !.row = row,
                                      !.findings = @ \cup found]
  <2>2. row \in Nat /\ found \in SUBSET {"target_not_activated"}
    <3>1. built \subseteq Nat
      BY <1>0, ReindexRow DEF Latest, IsLast, RowsOf
    <3>2. (\E i \in built : reindex[i].activated) => (CHOOSE i \in built : TRUE) \in built
      OBVIOUS
    <3> QED
      BY <3>1, <3>2
  <2>3. s \in ObserverSession /\ observer' = [observer EXCEPT ![o] = s]
    <3>1. observer' = [observer EXCEPT ![o] = s]
      BY <1>8 DEF AuditReadsReindex
    <3>2. s \in ObserverSession
      <4> HIDE DEF row, found
      <4> QED
        BY <1>0, <2>2 DEF ObserverSession, ObserverSteps, Finding, Info
    <3> QED
      BY <3>1, <3>2
  <2>4. observer' \in [Observer -> ObserverSession] /\ ObserverBecomes(o, s) /\ observer'[o] = s
    <3> HIDE DEF s
    <3> QED
      BY <2>3, OwnSession DEF ObserverBecomes
  <2> HIDE DEF row, found
  <2>5. Audits(o, "audit_reindex_read", found) /\ observer'[o].final = observer[o].final
    BY <1>0, <2>4 DEF Audits, Reads, ObserverBecomes, ObserverSession
  <2>6. ~observer[o].changed => AuditTrue(observer'[o])
    BY <1>3, <2>1, <2>2, <2>5 DEF AuditTrue, Unsuspected, Audits, Reads, Sees, Doc, Error, Warning
  <2> QED
    BY <1>5, <2>1, <2>5, <2>6 DEF AuditSteps, Sees
<1>9. CASE AuditReadsCleanups(o)
  <2>1. Sees(o, "audit_reindex_read") /\ ~Sees(o, "idle")
    BY <1>9 DEF AuditReadsCleanups, Sees
  <2>2. PICK found \in SUBSET {"reindex_cleanup_pending", "cleanup_incomplete"} :
          /\ Finds(o, IF observer[o].final THEN "audit_answered" ELSE "audit_rows_read", found)
          /\ found = {} => CleanupCollections(Doc(o)) = {}
    BY <1>9 DEF AuditReadsCleanups
  <2> DEFINE step == IF observer[o].final THEN "audit_answered" ELSE "audit_rows_read"
  <2>3. step \in AuditSteps /\ step \in ObserverSteps /\ found \in SUBSET Finding
    BY DEF AuditSteps, ObserverSteps, Finding, Warning
  <2>4. Audits(o, step, found) /\ observer'[o].final = observer[o].final
    BY <2>2, <2>3, FindsAudits
  <2>5. ~observer[o].changed => AuditTrue(observer'[o])
    BY <1>3, <2>1, <2>2, <2>4 DEF AuditTrue, Unsuspected, Audits, Reads, Sees, Doc, Error, Warning
  <2> HIDE DEF step
  <2> QED
    BY <1>3, <1>5, <2>1, <2>3, <2>4, <2>5
<1>10. CASE AuditInspectsStorage(o)
  <2>1. Sees(o, "audit_rows_read") /\ ~Sees(o, "idle")
    BY <1>10 DEF AuditInspectsStorage, Sees
  <2>2. PICK found \in StorageFindings(Doc(o)) : Finds(o, "audit_storage_inspected", found)
    BY <1>10 DEF AuditInspectsStorage
  <2>3. /\ found \in SUBSET {"object_missing", "storage_unavailable"}
        /\ found = {} => Doc(o) \in object
        /\ "object_missing" \in found => Doc(o) \notin object
    BY <2>2 DEF StorageFindings
  <2>4. Audits(o, "audit_storage_inspected", found) /\ observer'[o].final = observer[o].final
    BY <2>2, <2>3, FindsAudits DEF Finding, Warning, Error, ObserverSteps
  <2>5. ~observer[o].changed => AuditTrue(observer'[o])
    BY <1>3, <2>1, <2>3, <2>4 DEF AuditTrue, Unsuspected, Audits, Reads, Sees, Doc, Error, Warning
  <2> QED
    BY <1>5, <2>1, <2>4, <2>5 DEF AuditSteps, Sees
<1>11. CASE AuditInspectsCollection(o)
  <2>1. Sees(o, "audit_storage_inspected") /\ ~Sees(o, "idle") /\ Doc(o) \in Document
    BY <1>3, <1>11 DEF AuditInspectsCollection, Sees
  <2>2. CASE observer[o].base = None /\ Observes(o, "audit_answered")
    <3>1. Audits(o, "audit_answered", {}) /\ observer'[o].final = observer[o].final
      BY <2>2, FindsAudits DEF ObserverSteps
    <3>2. ~observer[o].changed => AuditTrue(observer'[o])
      BY <1>3, <2>1, <2>2, <3>1 DEF AuditTrue, Unsuspected, Audits, Reads, Sees, Doc, Error, Warning
    <3> QED
      BY <1>5, <2>1, <3>1, <3>2 DEF AuditSteps, Sees
  <2>3. CASE observer[o].base # None /\ Observes(o, "audit_counting")
    <3>1. Audits(o, "audit_counting", {}) /\ observer'[o].final = observer[o].final
      BY <2>3, FindsAudits DEF ObserverSteps
    <3>2. ~observer[o].changed => AuditTrue(observer'[o])
      BY <1>3, <2>1, <2>3, <3>1 DEF AuditTrue, Unsuspected, Audits, Reads, Sees, Doc, Error, Warning
    <3> QED
      BY <1>5, <2>1, <3>1, <3>2 DEF AuditSteps, Sees
  <2>4. ASSUME NEW found, observer[o].base # None, Finds(o, "audit_answered", found),
               \/ found = {"collection_missing"} /\ <<observer[o].base, Doc(o)>> \notin vectors
               \/ found = {"vectors_unavailable"}
        PROVE  /\ ObserverBecomes(o, observer'[o]) /\ observer' \in [Observer -> ObserverSession]
               /\ observer'[o].at \in AuditSteps /\ AuditSeen(o)'
               /\ observer'[o].since = observer[o].since
    <3>1. Audits(o, "audit_answered", found) /\ observer'[o].final = observer[o].final
      BY <2>4, FindsAudits DEF Finding, Warning, Error, ObserverSteps
    <3>2. ~observer[o].changed => AuditTrue(observer'[o])
      BY <1>3, <2>1, <2>4, <3>1 DEF AuditTrue, Unsuspected, Audits, Reads, Sees, Doc, Error, Warning
    <3> QED
      BY <1>5, <2>1, <3>1, <3>2 DEF AuditSteps, Sees
  <2> QED
    BY <1>3, <1>11, <2>1, <2>2, <2>3, <2>4 DEF AuditInspectsCollection
<1>12. CASE AuditCountsVectors(o)
  <2>1. Sees(o, "audit_counting") /\ ~Sees(o, "idle")
    BY <1>12 DEF AuditCountsVectors, Sees
  <2>2. PICK found \in VectorFindings(observer[o].base, Doc(o)) : Finds(o, "audit_answered", found)
    BY <1>12 DEF AuditCountsVectors
  <2>3. /\ found \in SUBSET {"vectors_missing", "vectors_unavailable"}
        /\ found = {} => <<observer[o].base, Doc(o)>> \in vectors
        /\ "vectors_missing" \in found => <<observer[o].base, Doc(o)>> \notin vectors
    BY <2>2 DEF VectorFindings
  <2>4. Audits(o, "audit_answered", found) /\ observer'[o].final = observer[o].final
    BY <2>2, <2>3, FindsAudits DEF Finding, Warning, Error, ObserverSteps
  <2>5. ~observer[o].changed => AuditTrue(observer'[o])
    BY <1>3, <2>1, <2>3, <2>4 DEF AuditTrue, Unsuspected, Audits, Reads, Sees, Doc, Error, Warning
  <2> QED
    BY <1>5, <2>1, <2>4, <2>5 DEF AuditSteps, Sees
<1> QED
  BY <1>3, <1>4, <1>6, <1>7, <1>8, <1>9, <1>10, <1>11, <1>12

---------------------------------------------------------------------------
(* The inspection: what it has read of the latest job and of the deletions *)
(* is so, as long as nothing changes.                                      *)

InspectSteps == {"inspect_loaded", "inspect_job_read", "inspect_active_read", "inspect_answered"}

InspectTrue(s) ==
  LET d == s.document
  IN  /\ s.base = configured /\ s.index = IndexFound(d)
      /\ IF s.at = "inspect_loaded"
           THEN s.response = None /\ s.row = 0
           ELSE \/ s.response = None /\ s.row = 0 /\ Latest(reindex, d) = {}
                \/ s.row \in Latest(reindex, d) /\ s.response = BuildView(reindex[s.row])
      /\ s.at \in {"inspect_active_read", "inspect_answered"} =>
           (s.active <=> ActiveRows(reindex, d) # {})
      /\ s.at = "inspect_answered" => (s.final <=> LatestIn(deletion, d, DeletionStatus))

InspectSeen(o) ==
  observer[o].at \in InspectSteps =>
    /\ Doc(o) \in Document
    /\ ~observer[o].changed => InspectTrue(observer[o])

(* Every step of an inspection keeps to that.                              *)
LEMMA InspectStepSees ==
  ASSUME WorldInv, observer \in [Observer -> ObserverSession], UNCHANGED <<vars, lost>>,
         NEW o \in Observer, InspectSeen(o),
         \/ \E d \in Document : InspectLoads(o, d)
         \/ InspectReadsJob(o) \/ InspectReadsActive(o) \/ InspectReadsDeletion(o)
  PROVE  /\ ObserverBecomes(o, observer'[o]) /\ observer' \in [Observer -> ObserverSession]
         /\ observer'[o].at \in InspectSteps /\ InspectSeen(o)'
         /\ observer'[o].since = IF Sees(o, "idle") THEN {} ELSE observer[o].since
         /\ ~Sees(o, "idle") => observer[o].at \in InspectSteps
<1>0. StoreType /\ observer[o] \in ObserverSession /\ InspectSteps \subseteq ObserverSteps
  BY DEF WorldInv, IInv, TypeOK, ObserverSteps, InspectSteps
<1>1. UNCHANGED <<configured, collection, deletion, reindex>>
  BY DEF vars, tables, documents
<1>2. InspectTrue(observer[o])' <=> InspectTrue(observer'[o])
  BY <1>1 DEF InspectTrue, Latest, LatestIn, RowsOf, ActiveRows, IsLast, IndexFound, BuildView
<1>3. ~Sees(o, "idle") => observer[o].at \in InspectSteps /\ Doc(o) \in Document
                          /\ (~observer[o].changed => InspectTrue(observer[o]))
  BY DEF InspectSeen, Sees, InspectLoads, InspectReadsJob, InspectReadsActive, InspectReadsDeletion,
     InspectSteps
<1>4. ASSUME NEW s \in ObserverSession, observer' = [observer EXCEPT ![o] = s], s.at \in InspectSteps,
             s.document \in Document, s.since = IF Sees(o, "idle") THEN {} ELSE observer[o].since,
             ~s.changed => InspectTrue(s)
      PROVE  /\ ObserverBecomes(o, observer'[o]) /\ observer' \in [Observer -> ObserverSession]
             /\ observer'[o].at \in InspectSteps /\ InspectSeen(o)'
             /\ observer'[o].since = IF Sees(o, "idle") THEN {} ELSE observer[o].since
  <2>1. observer' \in [Observer -> ObserverSession] /\ ObserverBecomes(o, s) /\ observer'[o] = s
    BY <1>4, OwnSession DEF ObserverBecomes
  <2> QED
    BY <1>2, <1>4, <2>1 DEF InspectSeen, Doc
<1>5. CASE \E d \in Document : InspectLoads(o, d)
  <2>1. PICK d \in Document : InspectLoads(o, d)
    BY <1>5
  <2> DEFINE s == [NoObservation EXCEPT !.at = "inspect_loaded", !.document = d, !.base = configured,
                                        !.index = IndexFound(d)]
  <2>2. configured \in Collection \cup {None} /\ IndexFound(d) \in {"none", "stale", "current"}
    BY <1>0 DEF StoreType, IndexFound
  <2>3. /\ s \in ObserverSession /\ s.at = "inspect_loaded" /\ s.document = d /\ s.since = {}
        /\ s.base = configured /\ s.index = IndexFound(d) /\ s.response = None /\ s.row = 0
    BY <2>2, NoObservationTyped DEF ObserverSession, NoObservation, ObserverSteps
  <2>4. observer' = [observer EXCEPT ![o] = s] /\ Sees(o, "idle")
    BY <2>1 DEF InspectLoads
  <2>5. InspectTrue(s)
    BY <2>3 DEF InspectTrue
  <2> HIDE DEF s
  <2> QED
    BY <1>4, <2>3, <2>4, <2>5 DEF InspectSteps
<1>6. CASE InspectReadsJob(o)
  <2>1. Sees(o, "inspect_loaded") /\ ~Sees(o, "idle") /\ Doc(o) \in Document
        /\ (~observer[o].changed => InspectTrue(observer[o]))
    BY <1>3, <1>6 DEF InspectReadsJob, Sees
  <2>2. CASE Latest(reindex, Doc(o)) = {} /\ Observes(o, "inspect_job_read")
    <3> DEFINE s == [observer[o] EXCEPT !.at = "inspect_job_read"]
    <3>1. s \in ObserverSession /\ observer' = [observer EXCEPT ![o] = s]
      BY <1>0, <2>2 DEF ObserverSession, Observes, InspectSteps
    <3>2. /\ s.at = "inspect_job_read" /\ s.document = Doc(o) /\ s.since = observer[o].since
          /\ s.changed = observer[o].changed /\ s.base = observer[o].base
          /\ s.index = observer[o].index /\ s.response = observer[o].response
          /\ s.row = observer[o].row
      BY <1>0 DEF ObserverSession, Doc
    <3>3. ~s.changed => InspectTrue(s)
      BY <2>1, <2>2, <3>2 DEF InspectTrue, Sees, Doc
    <3> HIDE DEF s
    <3> QED
      BY <1>3, <1>4, <2>1, <3>1, <3>2, <3>3 DEF InspectSteps
  <2>3. ASSUME NEW i \in Latest(reindex, Doc(o)),
               observer' = [observer EXCEPT ![o].at = "inspect_job_read", ![o].row = i,
                                            ![o].response = BuildView(reindex[i])]
        PROVE  /\ ObserverBecomes(o, observer'[o]) /\ observer' \in [Observer -> ObserverSession]
               /\ observer'[o].at \in InspectSteps /\ InspectSeen(o)'
               /\ observer'[o].since = IF Sees(o, "idle") THEN {} ELSE observer[o].since
    <3> DEFINE s == [observer[o] EXCEPT !.at = "inspect_job_read", !.row = i,
                                        !.response = BuildView(reindex[i])]
    <3>1. i \in Nat /\ BuildView(reindex[i]) \in Response
      <4>1. i \in DOMAIN reindex
        BY DEF Latest, IsLast, RowsOf
      <4>2. reindex[i] \in ReindexJob /\ i \in Nat
        BY <1>0, <4>1, TableRow DEF StoreType
      <4> QED
        BY <4>2 DEF ReindexJob, ReindexStatus, IngestionStatus, BuildView, Response, Shown
    <3>2. observer' = [observer EXCEPT ![o] = s]
      BY <2>3
    <3>3. s \in ObserverSession
      BY <1>0, <3>1 DEF ObserverSession, InspectSteps
    <3>4. /\ s.at = "inspect_job_read" /\ s.document = Doc(o) /\ s.since = observer[o].since
          /\ s.changed = observer[o].changed /\ s.base = observer[o].base
          /\ s.index = observer[o].index /\ s.response = BuildView(reindex[i]) /\ s.row = i
      BY <1>0 DEF ObserverSession, Doc
    <3>5. ~s.changed => InspectTrue(s)
      BY <2>1, <2>3, <3>4 DEF InspectTrue, Sees, Doc
    <3> HIDE DEF s
    <3> QED
      BY <1>4, <2>1, <3>2, <3>3, <3>4, <3>5 DEF InspectSteps
  <2> QED
    BY <1>3, <1>6, <2>1, <2>2, <2>3 DEF InspectReadsJob
<1>7. CASE InspectReadsActive(o)
  <2>1. Sees(o, "inspect_job_read") /\ ~Sees(o, "idle") /\ Doc(o) \in Document
        /\ (~observer[o].changed => InspectTrue(observer[o]))
    BY <1>3, <1>7 DEF InspectReadsActive, Sees
  <2> DEFINE active == ActiveRows(reindex, Doc(o)) # {}
             s == [observer[o] EXCEPT !.at = "inspect_active_read", !.active = active]
  <2>2. active \in BOOLEAN
    OBVIOUS
  <2>3. observer' = [observer EXCEPT ![o] = s]
    BY <1>7 DEF InspectReadsActive
  <2>4. /\ s \in ObserverSession
        /\ s.at = "inspect_active_read" /\ s.document = Doc(o) /\ s.since = observer[o].since
        /\ s.changed = observer[o].changed /\ s.base = observer[o].base
        /\ s.index = observer[o].index /\ s.response = observer[o].response
        /\ s.row = observer[o].row /\ s.active = active
    <3> HIDE DEF active
    <3> QED
      BY <1>0, <2>2 DEF ObserverSession, Doc, InspectSteps
  <2>5. ~s.changed => InspectTrue(s)
    BY <2>1, <2>4 DEF InspectTrue, Sees, Doc
  <2> HIDE DEF s
  <2> QED
    BY <1>3, <1>4, <2>1, <2>3, <2>4, <2>5 DEF InspectSteps
<1>8. CASE InspectReadsDeletion(o)
  <2>1. Sees(o, "inspect_active_read") /\ ~Sees(o, "idle") /\ Doc(o) \in Document
        /\ (~observer[o].changed => InspectTrue(observer[o]))
    BY <1>3, <1>8 DEF InspectReadsDeletion, Sees
  <2> DEFINE final == LatestIn(deletion, Doc(o), DeletionStatus)
             s == [observer[o] EXCEPT !.at = "inspect_answered", !.final = final]
  <2>2. final \in BOOLEAN
    BY DEF LatestIn
  <2>3. observer' = [observer EXCEPT ![o] = s]
    BY <1>8 DEF InspectReadsDeletion
  <2>4. /\ s \in ObserverSession
        /\ s.at = "inspect_answered" /\ s.document = Doc(o) /\ s.since = observer[o].since
        /\ s.changed = observer[o].changed /\ s.base = observer[o].base
        /\ s.index = observer[o].index /\ s.response = observer[o].response
        /\ s.row = observer[o].row /\ s.active = observer[o].active /\ s.final = final
    <3> HIDE DEF final
    <3> QED
      BY <1>0, <2>2 DEF ObserverSession, Doc, InspectSteps
  <2>5. ~s.changed => InspectTrue(s)
    BY <2>1, <2>4 DEF InspectTrue, Sees, Doc
  <2> HIDE DEF s
  <2> QED
    BY <1>3, <1>4, <2>1, <2>3, <2>4, <2>5 DEF InspectSteps
<1> QED
  BY <1>3, <1>5, <1>6, <1>7, <1>8

---------------------------------------------------------------------------
(* The report: a collection it flags lacks points of a document that       *)
(* claims it, as long as nothing changes.                                  *)

ReportSteps == {"report_registry_read", "report_claims_counted", "report_answered"}

ReportTrue(s) ==
  /\ s.at # "report_answered" => s.findings = IF s.base \in registered THEN {} ELSE {"unmanaged"}
  /\ s.at # "report_registry_read" => s.row = Cardinality(Claimants(s.base))
  /\ s.at = "report_answered" /\ s.row > 0 /\ s.findings # {} =>
       \E d \in Claimants(s.base) : <<s.base, d>> \notin vectors

ReportSeen(o) ==
  observer[o].at \in ReportSteps =>
    /\ Doc(o) = None /\ observer[o].base \in Collection
    /\ ~observer[o].changed => ReportTrue(observer[o])

(* Every step of a report keeps to that.                                   *)
LEMMA ReportStepSees ==
  ASSUME WorldInv, observer \in [Observer -> ObserverSession], UNCHANGED <<vars, lost>>,
         NEW o \in Observer, ReportSeen(o),
         \/ \E c \in Collection : ReportReadsRegistry(o, c)
         \/ ReportCountsClaims(o) \/ ReportCountsVectors(o)
  PROVE  /\ ObserverBecomes(o, observer'[o]) /\ observer' \in [Observer -> ObserverSession]
         /\ observer'[o].at \in ReportSteps /\ ReportSeen(o)'
         /\ observer'[o].since = IF Sees(o, "idle") THEN {} ELSE observer[o].since
         /\ ~Sees(o, "idle") => observer[o].at \in ReportSteps
<1>0. StoreType /\ NamesRegistered /\ observer[o] \in ObserverSession /\ ReportSteps \subseteq ObserverSteps
  BY DEF WorldInv, IInv, TypeOK, ObserverSteps, ReportSteps
<1>1. UNCHANGED <<registered, collection, vectors>>
  BY DEF vars, documents, external
<1>2. ReportTrue(observer[o])' <=> ReportTrue(observer'[o])
  BY <1>1 DEF ReportTrue, Claimants
<1>3. ~Sees(o, "idle") => observer[o].at \in ReportSteps /\ Doc(o) = None /\ observer[o].base \in Collection
                          /\ (~observer[o].changed => ReportTrue(observer[o]))
  BY DEF ReportSeen, Sees, ReportReadsRegistry, ReportCountsClaims, ReportCountsVectors, ReportSteps
<1>4. ASSUME NEW s \in ObserverSession, observer' = [observer EXCEPT ![o] = s], s.at \in ReportSteps,
             s.document = None, s.base \in Collection,
             s.since = IF Sees(o, "idle") THEN {} ELSE observer[o].since,
             ~s.changed => ReportTrue(s)
      PROVE  /\ ObserverBecomes(o, observer'[o]) /\ observer' \in [Observer -> ObserverSession]
             /\ observer'[o].at \in ReportSteps /\ ReportSeen(o)'
             /\ observer'[o].since = IF Sees(o, "idle") THEN {} ELSE observer[o].since
  <2>1. observer' \in [Observer -> ObserverSession] /\ ObserverBecomes(o, s) /\ observer'[o] = s
    BY <1>4, OwnSession DEF ObserverBecomes
  <2> QED
    BY <1>2, <1>4, <2>1 DEF ReportSeen, Doc
<1>5. \A c : Claimants(c) \subseteq Document /\ IsFiniteSet(Claimants(c)) /\ Cardinality(Claimants(c)) \in Nat
  BY StoreAssumption, FS_Subset, FS_CardinalityType DEF Claimants
<1>6. CASE \E c \in Collection : ReportReadsRegistry(o, c)
  <2>1. PICK c \in Collection : ReportReadsRegistry(o, c)
    BY <1>6
  <2> DEFINE found == IF c \in registered THEN {} ELSE {"unmanaged"}
             s == [NoObservation EXCEPT !.at = "report_registry_read", !.base = c, !.findings = found]
  <2>2. found \in SUBSET Finding
    BY DEF Finding, Warning
  <2>3. observer' = [observer EXCEPT ![o] = s] /\ Sees(o, "idle")
    BY <2>1 DEF ReportReadsRegistry
  <2>4. /\ s \in ObserverSession /\ s.at = "report_registry_read" /\ s.document = None /\ s.since = {}
        /\ s.base = c /\ s.findings = found
    <3> HIDE DEF found
    <3> QED
      BY <2>2, NoObservationTyped DEF ObserverSession, NoObservation, ObserverSteps
  <2>5. ReportTrue(s)
    BY <2>4 DEF ReportTrue
  <2> HIDE DEF s
  <2> QED
    BY <1>4, <2>3, <2>4, <2>5 DEF ReportSteps
<1>7. CASE ReportCountsClaims(o)
  <2>1. Sees(o, "report_registry_read") /\ ~Sees(o, "idle") /\ Doc(o) = None /\ observer[o].base \in Collection
        /\ (~observer[o].changed => ReportTrue(observer[o]))
    BY <1>3, <1>7 DEF ReportCountsClaims, Sees
  <2> DEFINE row == Cardinality(Claimants(observer[o].base))
             s == [observer[o] EXCEPT !.at = "report_claims_counted", !.row = row]
  <2>2. row \in Nat
    BY <1>5
  <2>3. observer' = [observer EXCEPT ![o] = s]
    BY <1>7 DEF ReportCountsClaims
  <2>4. /\ s \in ObserverSession
        /\ s.at = "report_claims_counted" /\ s.document = Doc(o) /\ s.since = observer[o].since
        /\ s.changed = observer[o].changed /\ s.base = observer[o].base
        /\ s.findings = observer[o].findings /\ s.row = row
    <3> HIDE DEF row
    <3> QED
      BY <1>0, <2>2 DEF ObserverSession, Doc, ReportSteps
  <2>5. ~s.changed => ReportTrue(s)
    BY <2>1, <2>4 DEF ReportTrue, Sees
  <2> HIDE DEF s
  <2> QED
    BY <1>3, <1>4, <2>1, <2>3, <2>4, <2>5 DEF ReportSteps
<1>8. CASE ReportCountsVectors(o)
  <2>1. Sees(o, "report_claims_counted") /\ ~Sees(o, "idle") /\ Doc(o) = None /\ observer[o].base \in Collection
        /\ (~observer[o].changed => ReportTrue(observer[o]))
    BY <1>3, <1>8 DEF ReportCountsVectors, Sees
  <2> DEFINE c == observer[o].base
             held == {d \in Document : <<c, d>> \in vectors}
  <2>2. IsFiniteSet(held) /\ Stored(c) = Cardinality(held) /\ Cardinality(held) \in Nat
    BY StoreAssumption, FS_Subset, FS_CardinalityType DEF Stored
  <2>3. Cardinality(held) < Cardinality(Claimants(c)) => \E d \in Claimants(c) : d \notin held
    <3>1. Claimants(c) \subseteq held => Cardinality(Claimants(c)) <= Cardinality(held)
      BY <2>2, FS_Subset
    <3> QED
      BY <1>5, <2>2, <3>1
  <2>4. ASSUME Reads(o, "report_answered"), observer'[o].row = observer[o].row,
               \/ observer'[o].findings = observer[o].findings
               \/ Stored(c) = 0 \/ Stored(c) < observer[o].row
        PROVE  /\ ObserverBecomes(o, observer'[o]) /\ observer' \in [Observer -> ObserverSession]
               /\ observer'[o].at \in ReportSteps /\ ReportSeen(o)'
               /\ observer'[o].since = observer[o].since
    <3> DEFINE s == observer'[o]
    <3>1. /\ s.at = "report_answered" /\ s.document = Doc(o) /\ s.since = observer[o].since
          /\ s.changed = observer[o].changed /\ s.base = c /\ s.row = observer[o].row
      BY <2>4 DEF Reads, Doc
    <3>2. ASSUME ~s.changed
          PROVE  ReportTrue(s)
      <4>1. observer[o].row = Cardinality(Claimants(c))
            /\ observer[o].findings = IF c \in registered THEN {} ELSE {"unmanaged"}
        BY <2>1, <3>1, <3>2 DEF ReportTrue, Sees
      <4>2. ASSUME s.row > 0, s.findings # {}
            PROVE  \E d \in Claimants(c) : <<c, d>> \notin vectors
        <5>1. Claimants(c) # {}
          BY <3>1, <4>1, <4>2, FS_EmptySet
        <5>2. c \in registered
          BY <1>0, <2>1, <5>1, StoreAssumption DEF NamesRegistered, Claimants
        <5>3. Stored(c) < Cardinality(Claimants(c))
          BY <1>5, <2>2, <2>4, <3>1, <4>1, <4>2, <5>2
        <5> QED
          BY <1>5, <2>2, <2>3, <5>3
      <4> QED
        BY <3>1, <4>1, <4>2 DEF ReportTrue
    <3>3. ReportSeen(o)'
      BY <1>2, <2>1, <3>1, <3>2 DEF ReportSeen, Doc, Sees
    <3> QED
      BY <2>4, <3>1, <3>3 DEF Reads, ReportSteps
  <2>5. CASE /\ Stored(c) = 0
             /\ observer' = [observer EXCEPT ![o].at = "report_answered",
                                             ![o].findings = {"collection_missing"}]
    <3> DEFINE s == [observer[o] EXCEPT !.at = "report_answered", !.findings = {"collection_missing"}]
    <3>1. s \in ObserverSession /\ observer' = [observer EXCEPT ![o] = s]
      BY <1>0, <2>5 DEF ObserverSession, ReportSteps, Finding, Error
    <3>2. ObserverBecomes(o, s) /\ observer' \in [Observer -> ObserverSession] /\ observer'[o] = s
      BY <3>1, OwnSession DEF ObserverBecomes
    <3>3. Reads(o, "report_answered") /\ observer'[o].row = observer[o].row
      BY <1>0, <3>2 DEF Reads, ObserverBecomes, ObserverSession
    <3> QED
      BY <1>3, <2>1, <2>4, <2>5, <3>3
  <2>6. ASSUME NEW found \in SUBSET {"deficit"}, found = {} \/ Stored(c) < observer[o].row,
               Finds(o, "report_answered", found)
        PROVE  /\ ObserverBecomes(o, observer'[o]) /\ observer' \in [Observer -> ObserverSession]
               /\ observer'[o].at \in ReportSteps /\ ReportSeen(o)'
               /\ observer'[o].since = observer[o].since
    <3>1. Audits(o, "report_answered", found) /\ observer'[o].row = observer[o].row
      BY <2>6, FindsAudits DEF Finding, Error, ObserverSteps
    <3> QED
      BY <2>4, <2>6, <3>1 DEF Audits
  <2>7. CASE Observes(o, "report_answered")
    <3>1. Audits(o, "report_answered", {}) /\ observer'[o].row = observer[o].row
      BY <2>7, FindsAudits DEF ObserverSteps
    <3> QED
      BY <1>3, <2>1, <2>4, <3>1 DEF Audits
  <2>8. \/ /\ Stored(c) = 0
           /\ observer' = [observer EXCEPT ![o].at = "report_answered",
                                           ![o].findings = {"collection_missing"}]
        \/ \E found \in SUBSET {"deficit"} :
             (found = {} \/ Stored(c) < observer[o].row) /\ Finds(o, "report_answered", found)
        \/ Observes(o, "report_answered")
    BY <1>8 DEF ReportCountsVectors
  <2> QED
    BY <1>3, <2>1, <2>5, <2>6, <2>7, <2>8
<1> QED
  BY <1>3, <1>6, <1>7, <1>8

---------------------------------------------------------------------------
(* All the sessions together.                                              *)

Seen(o) == StatusSeen(o) /\ AuditSeen(o) /\ InspectSeen(o) /\ ReportSeen(o)

ObserversInv == observer \in [Observer -> ObserverSession] /\ \A o \in Observer : Seen(o)

(* Each step belongs to one kind of request.                               *)
LEMMA KindsOfSteps ==
  /\ ObserverSteps = {"idle", "detail_answered", "download_answered"} \cup FollowSteps
                       \cup AuditSteps \cup InspectSteps \cup ReportSteps
  /\ AuditSteps \cap InspectSteps = {} /\ AuditSteps \cap ReportSteps = {}
  /\ InspectSteps \cap ReportSteps = {}
  /\ ({"idle", "detail_answered", "download_answered"} \cup FollowSteps)
        \cap (AuditSteps \cup InspectSteps \cup ReportSteps) = {}
  BY DEF ObserverSteps, FollowSteps, AuditSteps, InspectSteps, ReportSteps

(* A request that is over, or not made yet, claims nothing.                *)
LEMMA IdleSees ==
  ASSUME NEW o, observer'[o] = NoObservation
  PROVE  Seen(o)'
<1>1. observer'[o].at = "idle" /\ observer'[o].since = {}
  BY NoObservationTyped
<1> QED
  BY <1>1 DEF Seen, StatusSeen, AuditSeen, InspectSeen, ReportSeen, Sees, FollowSteps, AuditSteps,
     InspectSteps, ReportSteps

(* A request that waits while another goes on.                             *)
LEMMA WaitingSees ==
  ASSUME NEW o, Seen(o), UNCHANGED <<vars, lost>>, observer'[o] = observer[o]
  PROVE  Seen(o)'
<1>1. UNCHANGED <<configured, registered, collection, object, vectors,
                  ingestion, deletion, reindex, cleanup, lost>>
  BY DEF vars, tables, documents, external
<1>2. LifecycleStatus(Doc(o))' = LifecycleStatus(Doc(o))
  BY <1>1, StatusIsOf DEF LifecycleStatus, Doc, LatestIn, RowsOf, IsLast
<1>3. StatusSeen(o)'
  BY <1>1, <1>2 DEF Seen, StatusSeen, Sees, Doc, RowsOf
<1>4. AuditSeen(o)'
  BY <1>1 DEF Seen, AuditSeen, AuditTrue, Unsuspected, Doc, LatestIn, RowsOf, IsLast, CleanupCollections
<1>5. InspectSeen(o)'
  BY <1>1 DEF Seen, InspectSeen, InspectTrue, Doc, Latest, LatestIn, RowsOf, ActiveRows, IsLast,
     IndexFound, BuildView
<1>6. ReportSeen(o)'
  BY <1>1 DEF Seen, ReportSeen, ReportTrue, Doc, Claimants
<1> QED
  BY <1>3, <1>4, <1>5, <1>6 DEF Seen

(* A request goes on: its own session remains true, and those of others.   *)
LEMMA OwnStepSees ==
  ASSUME WorldInv, ObserversInv, UNCHANGED <<vars, lost>>, NEW o \in Observer, ObserverStep(o)
  PROVE  ObserversInv'
<1>0. observer \in [Observer -> ObserverSession] /\ Seen(o) /\ observer[o] \in ObserverSession
  BY DEF ObserversInv
<1>1. StatusSeen(o) /\ AuditSeen(o) /\ InspectSeen(o) /\ ReportSeen(o)
  BY <1>0 DEF Seen
<1>2. ASSUME ObserverBecomes(o, observer'[o]), observer' \in [Observer -> ObserverSession], Seen(o)'
      PROVE  ObserversInv'
  <2>1. \A p \in Observer : p # o => observer'[p] = observer[p]
    BY <1>2 DEF ObserverBecomes
  <2>2. \A p \in Observer : Seen(p)'
    BY <1>2, <2>1, WaitingSees DEF ObserversInv
  <2> QED
    BY <1>2, <2>2 DEF ObserversInv
<1>3. ASSUME observer'[o].since = IF Sees(o, "idle") THEN {} ELSE observer[o].since,
             ~Sees(o, "idle") => observer[o].at \in AuditSteps \cup InspectSteps \cup ReportSteps,
             observer'[o].at \in AuditSteps \cup InspectSteps \cup ReportSteps
      PROVE  StatusSeen(o)'
  <2>1. observer[o].at \notin FollowSteps \cup {"detail_answered", "download_answered"}
        => observer[o].since = {}
    BY <1>1 DEF StatusSeen
  <2>2. observer'[o].since = {}
    BY <1>3, <2>1, KindsOfSteps DEF Sees
  <2> QED
    BY <1>3, <2>2, KindsOfSteps DEF StatusSeen, Sees, FollowSteps
<1>4. CASE \/ \E d \in Document : DetailLoads(o, d) \/ DownloadLoads(o, d)
           \/ DetailReadsIngestion(o) \/ DetailReadsDeletion(o)
           \/ DownloadReadsDeletion(o) \/ DownloadReadsObject(o)
  <2>1. /\ ObserverBecomes(o, observer'[o]) /\ observer' \in [Observer -> ObserverSession]
        /\ StatusSeen(o)' /\ observer'[o].at \in FollowSteps \cup {"detail_answered", "download_answered"}
    BY <1>0, <1>1, <1>4, DetailStepSees
  <2>2. AuditSeen(o)' /\ InspectSeen(o)' /\ ReportSeen(o)'
    BY <2>1, KindsOfSteps DEF AuditSeen, InspectSeen, ReportSeen
  <2> QED
    BY <1>2, <2>1, <2>2 DEF Seen
<1>5. CASE \/ \E d \in Document : AuditLoads(o, d)
           \/ AuditReadsIngestion(o) \/ AuditReadsDeletion(o) \/ AuditReadsReindex(o)
           \/ AuditReadsCleanups(o) \/ AuditInspectsStorage(o) \/ AuditInspectsCollection(o)
           \/ AuditCountsVectors(o)
  <2>1. /\ ObserverBecomes(o, observer'[o]) /\ observer' \in [Observer -> ObserverSession]
        /\ observer'[o].at \in AuditSteps /\ AuditSeen(o)'
        /\ observer'[o].since = IF Sees(o, "idle") THEN {} ELSE observer[o].since
        /\ ~Sees(o, "idle") => observer[o].at \in AuditSteps
    BY <1>0, <1>1, <1>5, AuditStepSees
  <2>2. InspectSeen(o)' /\ ReportSeen(o)'
    BY <2>1, KindsOfSteps DEF InspectSeen, ReportSeen
  <2> QED
    BY <1>2, <1>3, <2>1, <2>2 DEF Seen
<1>6. CASE \/ \E d \in Document : InspectLoads(o, d)
           \/ InspectReadsJob(o) \/ InspectReadsActive(o) \/ InspectReadsDeletion(o)
  <2>1. /\ ObserverBecomes(o, observer'[o]) /\ observer' \in [Observer -> ObserverSession]
        /\ observer'[o].at \in InspectSteps /\ InspectSeen(o)'
        /\ observer'[o].since = IF Sees(o, "idle") THEN {} ELSE observer[o].since
        /\ ~Sees(o, "idle") => observer[o].at \in InspectSteps
    BY <1>0, <1>1, <1>6, InspectStepSees
  <2>2. AuditSeen(o)' /\ ReportSeen(o)'
    BY <2>1, KindsOfSteps DEF AuditSeen, ReportSeen
  <2> QED
    BY <1>2, <1>3, <2>1, <2>2 DEF Seen
<1>7. CASE \/ \E c \in Collection : ReportReadsRegistry(o, c)
           \/ ReportCountsClaims(o) \/ ReportCountsVectors(o)
  <2>1. /\ ObserverBecomes(o, observer'[o]) /\ observer' \in [Observer -> ObserverSession]
        /\ observer'[o].at \in ReportSteps /\ ReportSeen(o)'
        /\ observer'[o].since = IF Sees(o, "idle") THEN {} ELSE observer[o].since
        /\ ~Sees(o, "idle") => observer[o].at \in ReportSteps
    BY <1>0, <1>1, <1>7, ReportStepSees
  <2>2. AuditSeen(o)' /\ InspectSeen(o)'
    BY <2>1, KindsOfSteps DEF AuditSeen, InspectSeen
  <2> QED
    BY <1>2, <1>3, <2>1, <2>2 DEF Seen
<1>8. CASE Leaves(o)
  <2>1. observer' = [observer EXCEPT ![o] = NoObservation]
    BY <1>8 DEF Leaves
  <2>2. /\ ObserverBecomes(o, NoObservation) /\ observer' \in [Observer -> ObserverSession]
        /\ observer'[o] = NoObservation
    BY <1>0, <2>1, OwnSession, NoObservationTyped DEF ObserverBecomes
  <2> QED
    BY <1>2, <2>2, IdleSees
<1> QED
  BY <1>4, <1>5, <1>6, <1>7, <1>8 DEF ObserverStep
(* The status of a document is one of those a client is shown.             *)
LEMMA StatusShown ==
  StoreType /\ Standing => \A d \in Document : LifecycleStatus(d) \in View
  BY StatusRead

(* A session that only remembers what happens meanwhile.                   *)
OnlyRemembers(o) ==
  /\ observer'[o].at = observer[o].at /\ observer'[o].document = observer[o].document
  /\ observer'[o].base = observer[o].base /\ observer'[o].index = observer[o].index
  /\ observer'[o].row = observer[o].row /\ observer'[o].active = observer[o].active
  /\ observer'[o].final = observer[o].final /\ observer'[o].findings = observer[o].findings
  /\ observer'[o].response = observer[o].response

(* An audit remains true of a document whose rows, points and original     *)
(* are not touched, ...                                                    *)
LEMMA AuditStays ==
  ASSUME NEW o, NEW d \in Document, d = Doc(o), observer[o] \in ObserverSession,
         Footprint(d)' = Footprint(d), AuditTrue(observer[o]), OnlyRemembers(o)
  PROVE  AuditTrue(observer[o])'
<1>1. /\ collection'[d] = collection[d]
      /\ d \in object' <=> d \in object
      /\ \A c \in Collection : <<c, d>> \in vectors' <=> <<c, d>> \in vectors
      /\ RowsOf(deletion', d) = RowsOf(deletion, d)
      /\ \A statuses : LatestIn(deletion', d, statuses) <=> LatestIn(deletion, d, statuses)
  BY SameFootprint
<1>2. CleanupCollections(d)' = CleanupCollections(d)
  <2>1. RowsOf(cleanup', d) = RowsOf(cleanup, d) /\ \A i \in RowsOf(cleanup, d) : cleanup'[i] = cleanup[i]
    BY SameFootprint
  <2> QED
    BY <2>1 DEF CleanupCollections, RowsOf
<1>3. observer[o].base \in Collection \cup {None} /\ observer'[o].document = d /\ observer[o].document = d
  BY DEF ObserverSession, Doc, OnlyRemembers
<1> QED
  BY <1>1, <1>2, <1>3 DEF AuditTrue, Unsuspected, OnlyRemembers, CleanupCollections

(* ... and so does an inspection, ...                                      *)
LEMMA InspectStays ==
  ASSUME NEW o, NEW d \in Document, d = Doc(o),
         Footprint(d)' = Footprint(d), InspectTrue(observer[o]), OnlyRemembers(o)
  PROVE  InspectTrue(observer[o])'
<1>1. /\ configured' = configured /\ collection'[d] = collection[d]
      /\ \A statuses : LatestIn(deletion', d, statuses) <=> LatestIn(deletion, d, statuses)
      /\ ActiveRows(reindex', d) = ActiveRows(reindex, d) /\ Latest(reindex', d) = Latest(reindex, d)
      /\ \A i \in Latest(reindex, d) : reindex'[i] = reindex[i]
  BY SameFootprint
<1>2. observer'[o].document = d /\ observer[o].document = d
  BY DEF Doc, OnlyRemembers
<1> QED
  BY <1>1, <1>2 DEF InspectTrue, OnlyRemembers, IndexFound, BuildView

(* ... and a report while nothing it counts is touched.                    *)
LEMMA ReportStays ==
  ASSUME NEW o, UNCHANGED <<registered, collection, vectors>>, ReportTrue(observer[o]), OnlyRemembers(o)
  PROVE  ReportTrue(observer[o])'
  BY DEF ReportTrue, OnlyRemembers, Claimants

(* While the others go on and services lose what they hold, the requests   *)
(* remember what happens, and all they have read remains true.             *)
LEMMA RemembersSees ==
  ASSUME WorldInv, WorldInv', ObserversInv, Event \/ Loses, lost \subseteq lost', Remembers
  PROVE  ObserversInv'
<1>0. StoreType /\ Standing /\ IInv
  BY DEF WorldInv, IInv, TypeOK
<1>1. \A d \in Document : LifecycleStatus(d)' \in View
  <2>1. (StoreType /\ Standing)' => (\A d \in Document : LifecycleStatus(d) \in View)'
    BY StatusShown, PTL
  <2>2. (StoreType /\ Standing)'
    BY DEF WorldInv, IInv, TypeOK
  <2> QED
    BY <2>1, <2>2
<1>2. \A d : RowsOf(deletion', d) = {} => RowsOf(deletion, d) = {}
  <2>1. CASE Event
    BY <1>0, <2>1, UndeletedBefore DEF RowsOf
  <2>2. CASE Loses
    BY <2>2 DEF Loses, tables, RowsOf
  <2> QED
    BY <2>1, <2>2
<1>3. ASSUME NEW o \in Observer
      PROVE  observer'[o] \in ObserverSession /\ Seen(o)'
  <2> DEFINE s == observer[o]
  <2>0. /\ s \in ObserverSession
        /\ StatusSeen(o) /\ AuditSeen(o) /\ InspectSeen(o) /\ ReportSeen(o)
    BY <1>3 DEF ObserversInv, Seen
  <2>1. CASE s.at \in Answered \cup {"idle"}
    <3>1. observer'[o] = NoObservation
      BY <1>3, <2>1 DEF Remembers
    <3> QED
      BY <3>1, NoObservationTyped, IdleSees
  <2>2. CASE s.at \notin Answered \cup {"idle"} /\ s.since # {}
    <3>1. s.at \in FollowSteps /\ Doc(o) \in Document /\ LifecycleStatus(Doc(o)) \in s.since
      BY <2>0, <2>2 DEF StatusSeen, Answered
    <3>2. PICK d \in Document : d = Doc(o)
      BY <3>1
    <3>3. observer'[o] = [s EXCEPT !.since = @ \cup {LifecycleStatus(d)'}]
      BY <1>3, <2>2, <3>2 DEF Remembers
    <3>4. View \subseteq Response /\ LifecycleStatus(d)' \in View
      BY <1>1 DEF View, Response, Shown
    <3>5. observer'[o] \in ObserverSession
      BY <2>0, <3>3, <3>4 DEF ObserverSession
    <3>6. OnlyRemembers(o) /\ observer'[o].since = s.since \cup {LifecycleStatus(d)'}
      BY <2>0, <3>3 DEF ObserverSession, OnlyRemembers
    <3>7. LifecycleStatus(Doc(o))' = LifecycleStatus(d)'
      BY <3>2, <3>6 DEF Doc, OnlyRemembers, LifecycleStatus, LatestIn, RowsOf, IsLast
    <3>8. StatusSeen(o)'
      BY <1>2, <2>0, <3>1, <3>2, <3>6, <3>7 DEF StatusSeen, OnlyRemembers, Doc, Sees, FollowSteps
    <3>9. AuditSeen(o)' /\ InspectSeen(o)' /\ ReportSeen(o)'
      BY <3>1, <3>6, KindsOfSteps DEF AuditSeen, InspectSeen, ReportSeen, OnlyRemembers
    <3> QED
      BY <3>5, <3>8, <3>9 DEF Seen
  <2>3. CASE s.at \notin Answered \cup {"idle"} /\ s.since = {} /\ Doc(o) # None
    <3>1. PICK d \in Document : d = Doc(o)
      BY <2>0, <2>3 DEF ObserverSession, Doc
    <3> DEFINE touched == Footprint(d)' # Footprint(d)
    <3>2. observer'[o] = [s EXCEPT !.changed = @ \/ touched]
      BY <1>3, <2>3, <3>1 DEF Remembers
    <3>3. /\ observer'[o] \in ObserverSession /\ OnlyRemembers(o) /\ observer'[o].since = {}
          /\ ~observer'[o].changed => ~s.changed /\ ~touched
      <4> HIDE DEF touched
      <4> QED
        BY <2>0, <2>3, <3>2 DEF ObserverSession, OnlyRemembers
    <3>4. observer'[o].document = Doc(o)
      BY <3>3 DEF OnlyRemembers, Doc
    <3>5. s.at \notin FollowSteps
      BY <2>0, <2>3 DEF StatusSeen
    <3>6. StatusSeen(o)'
      BY <2>3, <3>3, <3>5 DEF StatusSeen, OnlyRemembers, Sees, Answered, FollowSteps
    <3>7. AuditSeen(o)'
      BY <2>0, <3>1, <3>3, <3>4, AuditStays DEF AuditSeen, OnlyRemembers, Doc
    <3>8. InspectSeen(o)'
      BY <2>0, <3>1, <3>3, <3>4, InspectStays DEF InspectSeen, OnlyRemembers, Doc
    <3>9. ReportSeen(o)'
      BY <2>0, <2>3, <3>3 DEF ReportSeen, OnlyRemembers
    <3> QED
      BY <3>3, <3>6, <3>7, <3>8, <3>9 DEF Seen
  <2>4. CASE s.at \notin Answered \cup {"idle"} /\ s.since = {} /\ Doc(o) = None
    <3> DEFINE shifted == <<registered, collection, vectors>>' # <<registered, collection, vectors>>
    <3>1. observer'[o] = [s EXCEPT !.changed = @ \/ shifted]
      BY <1>3, <2>4 DEF Remembers
    <3>2. /\ observer'[o] \in ObserverSession /\ OnlyRemembers(o) /\ observer'[o].since = {}
          /\ ~observer'[o].changed => ~s.changed /\ ~shifted
      <4> HIDE DEF shifted
      <4> QED
        BY <2>0, <2>4, <3>1 DEF ObserverSession, OnlyRemembers
    <3>3. s.at \notin FollowSteps
      BY <2>0, <2>4 DEF StatusSeen
    <3>4. StatusSeen(o)'
      BY <2>4, <3>2, <3>3 DEF StatusSeen, OnlyRemembers, Sees, Answered, FollowSteps
    <3>5. s.at \notin AuditSteps \cup InspectSteps
      BY <2>0, <2>4, StoreAssumption DEF AuditSeen, InspectSeen
    <3>6. AuditSeen(o)' /\ InspectSeen(o)'
      BY <3>2, <3>5 DEF AuditSeen, InspectSeen, OnlyRemembers
    <3>7. ReportSeen(o)'
      BY <2>0, <3>2, ReportStays DEF ReportSeen, OnlyRemembers, Doc
    <3> QED
      BY <3>2, <3>4, <3>6, <3>7 DEF Seen
  <2> QED
    BY <2>1, <2>2, <2>3, <2>4
<1>4. observer' \in [Observer -> ObserverSession]
  BY <1>3 DEF Remembers
<1> QED
  BY <1>3, <1>4 DEF ObserversInv

---------------------------------------------------------------------------
ObservedInv == WorldInv /\ ObserversInv

(* The invariant of the requests holds initially, ...                      *)
LEMMA ObservedStart == ObservedInit => ObservedInv
<1> SUFFICES ASSUME ObservedInit PROVE ObservedInv
  OBVIOUS
<1>1. WorldInv
  BY WorldInit
<1>2. observer = [o \in Observer |-> NoObservation]
  BY DEF ObservedInit
<1>3. observer \in [Observer -> ObserverSession]
  BY <1>2, NoObservationTyped
<1>4. \A o \in Observer : Seen(o)
  BY <1>2, NoObservationTyped DEF Seen, StatusSeen, AuditSeen, InspectSeen, ReportSeen, Sees,
     FollowSteps, AuditSteps, InspectSteps, ReportSteps
<1> QED
  BY <1>1, <1>3, <1>4 DEF ObservedInv, ObserversInv

(* ... and whoever moves, it is kept.                                      *)
LEMMA ObservedStep == ObservedInv /\ [ObservedNext]_observedVars => ObservedInv'
<1> SUFFICES ASSUME ObservedInv, [ObservedNext]_observedVars PROVE ObservedInv'
  OBVIOUS
<1>0. WorldInv /\ ObserversInv
  BY DEF ObservedInv
<1>1. ASSUME (Next /\ UNCHANGED lost) \/ Loses, Remembers
      PROVE  ObservedInv'
  <2>1. WorldInv' /\ (Event \/ Loses)
    BY <1>0, <1>1, WorldStep
  <2>2. lost \subseteq lost'
    BY <1>1 DEF Loses
  <2> QED
    BY <1>0, <1>1, <2>1, <2>2, RemembersSees DEF ObservedInv
<1>2. ASSUME UNCHANGED <<vars, lost>>
      PROVE  WorldInv'
  BY <1>0, <1>2, WorldStep
<1>3. ASSUME NEW o \in Observer, ObserverStep(o), UNCHANGED <<vars, lost>>
      PROVE  ObservedInv'
  BY <1>0, <1>2, <1>3, OwnStepSees DEF ObservedInv
<1>4. CASE UNCHANGED observedVars
  <2>1. UNCHANGED <<vars, lost>> /\ UNCHANGED observer
    BY <1>4 DEF observedVars
  <2>2. ObserversInv'
    BY <1>0, <2>1, WaitingSees DEF ObserversInv
  <2> QED
    BY <1>2, <2>1, <2>2 DEF ObservedInv
<1> QED
  BY <1>1, <1>3, <1>4 DEF ObservedNext

(* What read-only requests observe, in every reachable state.              *)
LEMMA ObservedHolds == ObservedSpec => []ObservedInv
  BY ObservedStart, ObservedStep, PTL DEF ObservedSpec

(* The sessions of the read-only requests have the states the handlers     *)
(* can be in, and only what may be lost is.                                *)
THEOREM ObserversTyped == ObservedSpec => []ObserversType
<1>1. ObservedInv => ObserversType
  BY DEF ObservedInv, ObserversInv, WorldInv, ObserversType
<1> QED
  BY <1>1, ObservedHolds, PTL

(* The lifecycle status of a detail, put together from the latest ingestion*)
(* and the latest deletion as two reads, held at a moment of the request.  *)
THEOREM StatusTrue == ObservedSpec => []StatusWasTrue
<1>1. ObservedInv => StatusWasTrue
  BY DEF ObservedInv, ObserversInv, Seen, StatusSeen, StatusWasTrue, Sees
<1> QED
  BY <1>1, ObservedHolds, PTL

(* A download answers 200 unless the document was deleted all along, 410   *)
(* only if it was deleted, and 409 only of an original lost or in deletion.*)
THEOREM DownloadsTrue == ObservedSpec => []DownloadsHonest
<1>1. ObservedInv => DownloadsHonest
  BY DEF ObservedInv, ObserversInv, Seen, StatusSeen, DownloadsHonest, Sees, Doc
<1> QED
  BY <1>1, ObservedHolds, PTL

(* An audit that found nothing but transitions has found the original and  *)
(* the points where they have to be, unless it was outdated meanwhile:     *)
(* whatever Qdrant or the storage has lost, an audit reports it.           *)
THEOREM LossesFound == ObservedSpec => []LossesReported
<1>1. ObservedInv => LossesReported
  <2> SUFFICES ASSUME ObservedInv, NEW o \in Observer,
                      Sees(o, "audit_answered"), ~observer[o].changed,
                      Verdict(observer[o].findings) \in {"consistent", "transitional"}
               PROVE  \/ LifecycleStatus(Doc(o)) = "deleted"
                      \/ /\ Doc(o) \in object
                         /\ RowsOf(deletion, Doc(o)) = {} /\ CleanupCollections(Doc(o)) = {}
                         /\ collection[Doc(o)] # None => <<collection[Doc(o)], Doc(o)>> \in vectors
    BY DEF LossesReported
  <2>1. Doc(o) \in Document /\ AuditTrue(observer[o])
    BY DEF ObservedInv, ObserversInv, Seen, AuditSeen, Sees, AuditSteps
  <2>2. Unsuspected(observer[o])
    BY DEF Verdict, Unsuspected, Info, Error, Warning
  <2>3. LatestIn(deletion, Doc(o), {"completed"}) => LifecycleStatus(Doc(o)) = "deleted"
    BY <2>1, StatusRead DEF ObservedInv, WorldInv, IInv, TypeOK
  <2> QED
    BY <2>1, <2>2, <2>3 DEF AuditTrue, Sees, Doc
<1> QED
  BY <1>1, ObservedHolds, PTL

---------------------------------------------------------------------------
(* Alarms, with settings that move forward.                                *)

(* The points a document is served from are there unless some were lost.   *)
AlarmsInv == ObservedInv /\ (lost = {} => ServingInv)

LEMMA AlarmsStep ==
  ASSUME ~Overrun, OneRedeployment, AlarmsInv, [ObservedNext]_observedVars
  PROVE  AlarmsInv'
<1>1. ObservedInv'
  BY ObservedStep DEF AlarmsInv
<1>2. ASSUME lost' = {}
      PROVE  ServingInv'
  <2>1. lost' = lost /\ [Next]_vars
    BY <1>2 DEF ObservedNext, Loses, observedVars
  <2> QED
    BY <1>2, <2>1, ServingStep DEF AlarmsInv
<1> QED
  BY <1>1, <1>2 DEF AlarmsInv

(* No false alarms: an error of an audit or a report means a loss, a       *)
(* deletion, or something that changed between its reads.                  *)
THEOREM AlarmsReal ==
  ASSUME ~Overrun, OneRedeployment
  PROVE  ObservedSpec => []AlarmsAreReal
<1>1. ObservedInit => AlarmsInv
  BY ObservedStart, ServingInit DEF ObservedInit, AlarmsInv
<1>2. AlarmsInv /\ [ObservedNext]_observedVars => AlarmsInv'
  BY AlarmsStep
<1>3. AlarmsInv => AlarmsAreReal
  <2> SUFFICES ASSUME AlarmsInv, NEW o \in Observer, lost = {}, ~observer[o].changed
               PROVE  /\ Sees(o, "audit_answered") /\ Verdict(observer[o].findings) = "inconsistent" =>
                           RowsOf(deletion, Doc(o)) # {} /\ ~observer[o].final
                      /\ Sees(o, "report_answered") /\ observer[o].row > 0 /\ observer[o].findings # {} =>
                           \E d \in Claimants(observer[o].base) : RowsOf(deletion, d) # {}
    BY DEF AlarmsAreReal
  <2>0. /\ AuditSeen(o) /\ ReportSeen(o) /\ observer[o] \in ObserverSession
        /\ OriginalsAccounted /\ ServingVectorsPresent
    BY DEF AlarmsInv, ServingInv, ObservedInv, ObserversInv, Seen, WorldInv
  <2>1. ASSUME Sees(o, "audit_answered"), Verdict(observer[o].findings) = "inconsistent"
        PROVE  RowsOf(deletion, Doc(o)) # {} /\ ~observer[o].final
    <3>1. Doc(o) \in Document /\ AuditTrue(observer[o]) /\ observer[o].findings \cap Error # {}
      BY <2>0, <2>1 DEF AuditSeen, Sees, AuditSteps, Verdict
    <3>2. ~observer[o].final /\ observer[o].base = collection[Doc(o)]
      BY <3>1 DEF AuditTrue, Doc
    <3>3. CASE "object_missing" \in observer[o].findings
      BY <2>0, <3>1, <3>2, <3>3 DEF AuditTrue, Doc, OriginalsAccounted
    <3>4. CASE observer[o].findings \cap {"collection_missing", "vectors_missing"} # {}
      BY <2>0, <3>1, <3>2, <3>4 DEF AuditTrue, Doc, ServingVectorsPresent
    <3>5. observer[o].findings \cap {"metadata_incomplete", "deficit"} = {}
      BY <3>1 DEF AuditTrue
    <3> QED
      BY <3>1, <3>3, <3>4, <3>5 DEF Error
  <2>2. ASSUME Sees(o, "report_answered"), observer[o].row > 0, observer[o].findings # {}
        PROVE  \E d \in Claimants(observer[o].base) : RowsOf(deletion, d) # {}
    <3>1. ReportTrue(observer[o]) /\ observer[o].base \in Collection
      BY <2>0, <2>2 DEF ReportSeen, Sees, ReportSteps
    <3>2. PICK d \in Claimants(observer[o].base) : <<observer[o].base, d>> \notin vectors
      BY <2>2, <3>1 DEF ReportTrue, Sees
    <3> QED
      BY <2>0, <3>1, <3>2, StoreAssumption DEF Claimants, ServingVectorsPresent
  <2> QED
    BY <2>1, <2>2
<1> QED
  BY <1>1, <1>2, <1>3, PTL DEF ObservedSpec

---------------------------------------------------------------------------
(* Hints, with settings that move forward.                                 *)

HintsInv == ObservedInv /\ ForwardInv /\ IndexedOnce

LEMMA HintsStep ==
  ASSUME ~Overrun, OneRedeployment, HintsInv, RetriesCurrent, [ObservedNext]_observedVars
  PROVE  HintsInv'
<1>1. ObservedInv'
  BY ObservedStep DEF HintsInv
<1>2. CASE [Next]_vars
  <2>1. Event /\ ForwardInv'
    BY <1>2, ForwardStep DEF HintsInv
  <2>2. IndexedOnce'
    BY <2>1, IndexedOnceKept DEF HintsInv, ForwardInv
  <2> QED
    BY <1>1, <2>1, <2>2 DEF HintsInv
<1>3. CASE Loses
  <2>1. IInv' /\ Standing'
    BY <1>1 DEF ObservedInv, WorldInv
  <2>2. UNCHANGED <<configured, collection, client, ingestion, reindex, cleanup, ingestor>>
    BY <1>3 DEF Loses, documents, tables, workers
  <2>3. AttemptsHeld'
    BY <2>2 DEF HintsInv, ForwardInv, LiveInv, AttemptsHeld, IngestorAt, IngestorDocument
  <2>4. MovesForward'
    BY <2>2 DEF HintsInv, ForwardInv, MovesForward, CollectionsSettled, AttemptsForward, BuildsAhead,
       ActivatedMoved, Settled, Ahead, Moved, IngestorAt
  <2>5. IndexedOnce'
    BY <2>2 DEF HintsInv, IndexedOnce, LatestIn, RowsOf
  <2> QED
    BY <1>1, <2>1, <2>3, <2>4, <2>5 DEF HintsInv, ForwardInv, LiveInv
<1> QED
  BY <1>2, <1>3 DEF ObservedNext, observedVars

(* The hints of the inspection are what scheduling and activation would    *)
(* answer: the registry, the pinned source and the settings cannot refuse  *)
(* what the inspection, which does not look at them, offers.               *)
THEOREM HintsTrue ==
  ASSUME ~Overrun, OneRedeployment
  PROVE  ObservedSpec /\ []RetriesCurrent => []HintsHold
<1>1. ObservedInit => HintsInv
  <2>1. Init => ForwardInv /\ IndexedOnce
    BY ForwardInit, StoreAssumption DEF Init, StoreInit, IndexedOnce
  <2> QED
    BY <2>1, ObservedStart DEF ObservedInit, HintsInv
<1>2. HintsInv /\ RetriesCurrent /\ [ObservedNext]_observedVars => HintsInv'
  BY HintsStep
<1>3. HintsInv => HintsHold
  <2> SUFFICES ASSUME HintsInv, NEW o \in Observer, Sees(o, "inspect_answered"), ~observer[o].changed,
                      NEW d, d = Doc(o)
               PROVE  /\ CanSchedule(o) <=>
                           /\ collection[d] \notin {None, configured}
                           /\ ActiveRows(reindex, d) = {} /\ ActiveRows(ingestion, d) = {}
                           /\ RowsOf(deletion, d) = {}
                      /\ CanActivate(o) <=>
                           \E i \in Latest(reindex, d) :
                             \/ Activatable(reindex[i], reindex[i].status, reindex[i].activated)
                             \/ /\ collection[d] # reindex[i].source /\ RowsOf(deletion, d) = {}
                                /\ reindex[i].status = "completed" /\ ~reindex[i].activated
                      /\ InspectedState(o) \in {"current", "activated"} => collection[d] = configured
    BY DEF HintsHold
  <2>0. /\ StoreType /\ Standing /\ NamesRegistered /\ MovesForward /\ IndexedOnce
        /\ InspectSeen(o)
    BY DEF HintsInv, ForwardInv, ObservedInv, ObserversInv, Seen, WorldInv, IInv, TypeOK
  <2>1. d \in Document /\ InspectTrue(observer[o])
    BY <2>0 DEF InspectSeen, Sees, InspectSteps
  <2>2. /\ observer[o].base = configured /\ observer[o].index = IndexFound(d)
        /\ observer[o].active <=> ActiveRows(reindex, d) # {}
        /\ observer[o].final <=> LatestIn(deletion, d, DeletionStatus)
        /\ \/ observer[o].response = None /\ observer[o].row = 0 /\ Latest(reindex, d) = {}
           \/ /\ observer[o].row \in Latest(reindex, d)
              /\ observer[o].response = BuildView(reindex[observer[o].row])
    BY <2>1 DEF InspectTrue, Sees, Doc
  <2>3. LatestIn(deletion, d, DeletionStatus) <=> RowsOf(deletion, d) # {}
    BY <2>0, <2>1, NeverDeleted DEF LatestIn
  <2>4. \A i, j \in Latest(reindex, d) : i = j
    <3>1. \A i \in DOMAIN reindex : i \in Nat
      BY <2>0, ReindexRow
    <3> QED
      BY <3>1 DEF Latest, IsLast, RowsOf
  <2>5. CanSchedule(o) <=>
          /\ collection[d] \notin {None, configured}
          /\ ActiveRows(reindex, d) = {} /\ ActiveRows(ingestion, d) = {}
          /\ RowsOf(deletion, d) = {}
    <3>1. collection[d] # None => ActiveRows(ingestion, d) = {}
      BY <2>0, <2>1, IndexedRests DEF IndexedOnce, Standing
    <3> QED
      BY <2>2, <2>3, <3>1 DEF CanSchedule, IndexFound
  <2>6. CanActivate(o) <=>
          \E i \in Latest(reindex, d) :
            \/ Activatable(reindex[i], reindex[i].status, reindex[i].activated)
            \/ /\ collection[d] # reindex[i].source /\ RowsOf(deletion, d) = {}
               /\ reindex[i].status = "completed" /\ ~reindex[i].activated
    <3>1. \A i \in Latest(reindex, d) :
            reindex[i].document = d /\ reindex[i].target \in registered
              /\ reindex[i].status \in ReindexStatus /\ reindex[i].activated \in BOOLEAN
      <4>1. \A i \in Latest(reindex, d) : i \in DOMAIN reindex /\ reindex[i].document = d
        BY DEF Latest, IsLast, RowsOf
      <4>2. \A i \in DOMAIN reindex : reindex[i] \in ReindexJob
        BY <2>0, TableRow DEF StoreType
      <4> QED
        BY <2>0, <4>1, <4>2 DEF NamesRegistered, ReindexJob
    <3>2. \A i \in Latest(reindex, d) :
            BuildView(reindex[i]) = "target_built" <=> reindex[i].status = "completed" /\ ~reindex[i].activated
      BY <3>1 DEF BuildView, ReindexStatus, IngestionStatus
    <3>3. \A i \in Latest(reindex, d) :
            (RowsOf(deletion, d) = {} /\ reindex[i].status = "completed" /\ ~reindex[i].activated)
              <=> \/ Activatable(reindex[i], reindex[i].status, reindex[i].activated)
                  \/ /\ collection[d] # reindex[i].source /\ RowsOf(deletion, d) = {}
                     /\ reindex[i].status = "completed" /\ ~reindex[i].activated
      BY <2>3, <3>1 DEF Activatable
    <3>4. None # "target_built"
      BY ObserverAssumption DEF Shown
    <3> QED
      BY <2>2, <2>3, <2>4, <3>2, <3>3, <3>4 DEF CanActivate
  <2>7. InspectedState(o) \in {"current", "activated"} => collection[d] = configured
    <3> DEFINE i == observer[o].row
    <3>1. CASE observer[o].index = "current"
      BY <2>2, <3>1 DEF IndexFound
    <3>2. CASE i \in Latest(reindex, d) /\ BuildView(reindex[i]) = "activated"
      <4>1. i \in DOMAIN reindex /\ reindex[i].document = d /\ reindex[i] \in ReindexJob
        BY <2>0, <3>2, TableRow DEF Latest, IsLast, RowsOf, StoreType
      <4>2. reindex[i].activated
        BY <3>2, <4>1 DEF BuildView, ReindexJob, ReindexStatus, IngestionStatus
      <4> QED
        BY <2>0, <2>1, <4>1, <4>2 DEF MovesForward, ActivatedMoved, CollectionsSettled, Moved, Settled
    <3>3. \A j \in Latest(reindex, d) : BuildView(reindex[j]) # "current"
      <4>1. \A j \in Latest(reindex, d) : reindex[j] \in ReindexJob
        BY <2>0, TableRow DEF Latest, IsLast, RowsOf, StoreType
      <4> QED
        BY <4>1 DEF BuildView, ReindexJob, ReindexStatus, IngestionStatus
    <3> QED
      BY <2>2, <3>1, <3>2, <3>3 DEF InspectedState, IndexFound
  <2> QED
    BY <2>5, <2>6, <2>7
<1> QED
  BY <1>1, <1>2, <1>3, PTL DEF ObservedSpec
==============================================================================
