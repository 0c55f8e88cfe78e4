---------------------- MODULE DocumentLifecycle_proofs ----------------------
(***************************************************************************)
(* The invariants of the whole system, from what each component keeps and  *)
(* what it leaves to the others.                                           *)
(***************************************************************************)
EXTENDS DocumentLifecycle, JobSteps_proofs

(* What the sessions hold and what a COMPLETED deletion has done: all of   *)
(* SessionsConsistent but the order of erasing, which rests on it.         *)
SessionsHold ==
  /\ ClientsValid /\ IngestorsValid /\ DeletersValid /\ BuildersValid /\ CleanersValid
  /\ HeldOnce /\ DeletedMeansErased /\ HashHeldUntilDeleted

(* The inductive invariant.                                                *)
IInv == TypeOK /\ SessionsHold

(* The invariant is the conjunction of the invariants of the components.    *)
LEMMA InvOfComponents ==
  IInv <=> IngestionInv /\ DeletionInv /\ ReindexingInv /\ CleanupInv
  BY DEF IInv, TypeOK, SessionsHold, HeldOnce, IngestionInv, DeletionInv, ErasingInOrder,
         ReindexingInv, CleanupInv

---------------------------------------------------------------------------
(* Initially every document is uploaded, with its PENDING job, and every   *)
(* worker and every request is idle.                                       *)
LEMMA InitInv == Init => IInv
<1> SUFFICES ASSUME Init PROVE IInv
  OBVIOUS
<1> USE DEF Init, StoreInit
<1>1. ingestion \in Seq(IngestionJob)
  <2>1. PICK order \in [1..Cardinality(Document) -> Document] :
          ingestion = [i \in DOMAIN order |-> [document |-> order[i], status |-> "pending"]]
    OBVIOUS
  <2>2. Cardinality(Document) \in Nat
    BY StoreAssumption, FS_CardinalityType
  <2>3. ingestion \in [1..Cardinality(Document) -> IngestionJob]
    BY <2>1 DEF IngestionJob, IngestionStatus
  <2> QED
    BY <2>2, <2>3, IsASeq
<1>2. StoreType
  <2>1. deletion \in Seq(DeletionJob) /\ reindex \in Seq(ReindexJob) /\ cleanup \in Seq(CleanupJob)
    BY EmptySeq
  <2>2. client \in [Client -> ClientSession]
    BY DEF NoRequest, ClientSession, ClientSteps
  <2> QED
    BY <1>1, <2>1, <2>2 DEF StoreType
<1>3. TypeOK
  BY <1>2 DEF TypeOK, IngestionInit, IngestionType, IngestorSession, NoIngestion,
              DeletionInit, DeletionType, DeleterSession, NoDeletion,
              ReindexingInit, ReindexingType, BuilderSession, NoBuild,
              CleanupInit, CleanupType, CleanerSession, NoCleanup
<1>4. ClientsValid /\ IngestorsValid /\ DeletersValid /\ BuildersValid /\ CleanersValid
  BY DEF ClientsValid, At, ScheduleSteps, NoRequest,
         IngestorsValid, IngestionInit, NoIngestion, DeletersValid, DeletionInit, NoDeletion,
         BuildersValid, ReindexingInit, NoBuild, CleanersValid, CleanupInit, NoCleanup
<1>5. HeldOnce
  BY DEF HeldOnce, HeldOnceBy, IngestionInit, NoIngestion, DeletionInit, NoDeletion,
         ReindexingInit, NoBuild
<1>6. DeletedMeansErased /\ HashHeldUntilDeleted
  BY EmptySeq DEF DeletedMeansErased, HashHeldUntilDeleted
<1> QED
  BY <1>3, <1>4, <1>5, <1>6 DEF IInv, SessionsHold

---------------------------------------------------------------------------
(* What a component's workers hold does not depend on the others' steps:   *)
(* they read and write the component's own table, and nothing puts an      *)
(* object or a hash back.                                                  *)

(* Steps of other components keep the ingestion's invariant.               *)
LEMMA IngestorsFrame ==
  ASSUME IngestionInv, UNCHANGED <<ingestor, ingestion>>, StoreType', ClientsValid'
  PROVE  IngestionInv'
  BY DEF IngestionInv, IngestionType, IngestorsValid, HeldOnceBy

(* Steps of other components keep the deletion's invariant ...              *)
LEMMA DeletersFrame ==
  ASSUME DeletionInv, UNCHANGED <<deleter, deletion, object, hashed>>, StoreType', ClientsValid'
  PROVE  DeletionInv'
  BY DEF DeletionInv, DeletionType, DeletersValid, HeldOnceBy, ErasingInOrder,
         DeletedMeansErased, HashHeldUntilDeleted, RowsOf

(* ... that of the builds ...                                               *)
LEMMA BuildersFrame ==
  ASSUME ReindexingInv, UNCHANGED <<builder, reindex>>, StoreType', ClientsValid'
  PROVE  ReindexingInv'
  BY DEF ReindexingInv, ReindexingType, BuildersValid, HeldOnceBy

(* ... and that of the cleanups, while the table of cleanup jobs may grow.  *)
LEMMA CleanersFrame ==
  ASSUME CleanupInv, UNCHANGED cleaner, DOMAIN cleanup \subseteq DOMAIN cleanup',
         StoreType', ClientsValid'
  PROVE  CleanupInv'
  BY DEF CleanupInv, CleanupType, CleanersValid

(* Every step of the system preserves the invariant: by cases on Next.      *)
LEMMA StepInv == IInv /\ [Next]_vars => IInv'
<1> SUFFICES ASSUME IInv, [Next]_vars PROVE IInv'
  OBVIOUS
<1>1. IngestionInv /\ DeletionInv /\ ReindexingInv /\ CleanupInv
  BY InvOfComponents
<1>2. SUFFICES IngestionInv' /\ DeletionInv' /\ ReindexingInv' /\ CleanupInv'
  BY DEF IInv, TypeOK, SessionsHold, HeldOnce, IngestionInv, DeletionInv, ErasingInOrder,
         ReindexingInv, CleanupInv
<1>3. CASE IngestionStep /\ UNCHANGED <<deleter, builder, cleaner>>
  <2>1. IngestionInv' /\ UNCHANGED <<deletion, reindex, cleanup, object, hashed>>
    BY <1>1, <1>3, IngestionStepKeeps
  <2>2. StoreType' /\ ClientsValid'
    BY <2>1 DEF IngestionInv
  <2> QED
    BY <1>1, <1>3, <2>1, <2>2, DeletersFrame, BuildersFrame, CleanersFrame
<1>4. CASE DeletionStep /\ UNCHANGED <<ingestor, builder, cleaner>>
  <2>1. DeletionInv' /\ UNCHANGED <<ingestion, reindex, cleanup>>
    BY <1>1, <1>4, DeletionStepKeeps
  <2>2. StoreType' /\ ClientsValid'
    BY <2>1 DEF DeletionInv
  <2> QED
    BY <1>1, <1>4, <2>1, <2>2, IngestorsFrame, BuildersFrame, CleanersFrame
<1>5. CASE ReindexingStep /\ UNCHANGED <<ingestor, deleter, cleaner>>
  <2>1. ReindexingInv' /\ ReindexingFrame
    BY <1>1, <1>5, ReindexingStepKeeps
  <2>2. StoreType' /\ ClientsValid'
    BY <2>1 DEF ReindexingInv
  <2> QED
    BY <1>1, <1>5, <2>1, <2>2, IngestorsFrame, DeletersFrame, CleanersFrame DEF ReindexingFrame
<1>6. CASE CleanupStep /\ UNCHANGED <<ingestor, deleter, builder>>
  <2>1. CleanupInv' /\ UNCHANGED <<ingestion, deletion, reindex, object, hashed>>
    BY <1>1, <1>6, CleanupStepKeeps
  <2>2. StoreType' /\ ClientsValid'
    BY <2>1 DEF CleanupInv
  <2> QED
    BY <1>1, <1>6, <2>1, <2>2, IngestorsFrame, DeletersFrame, BuildersFrame
<1>7. CASE Reconfigure /\ UNCHANGED workers
  <2>1. /\ UNCHANGED <<registered, collection, hashed, object, vectors,
                       ingestion, deletion, reindex, cleanup, client>>
        /\ UNCHANGED <<ingestor, deleter, builder, cleaner>>
        /\ configured' \in Collection
    BY <1>7 DEF Reconfigure, workers, documents, external, tables
  <2>2. StoreType' /\ ClientsValid'
    BY <1>1, <2>1 DEF IngestionInv, StoreType, ClientsValid, At
  <2> QED
    BY <1>1, <2>1, <2>2, IngestorsFrame, DeletersFrame, BuildersFrame, CleanersFrame
<1>8. CASE UNCHANGED vars
  <2>1. /\ UNCHANGED <<configured, registered, collection, hashed, object, vectors,
                       ingestion, deletion, reindex, cleanup, client>>
        /\ UNCHANGED <<ingestor, deleter, builder, cleaner>>
    BY <1>8 DEF vars, workers, documents, external, tables
  <2>2. StoreType' /\ ClientsValid'
    BY <1>1, <2>1 DEF IngestionInv, StoreType, ClientsValid, At
  <2> QED
    BY <1>1, <2>1, <2>2, IngestorsFrame, DeletersFrame, BuildersFrame, CleanersFrame
<1> QED
  BY <1>3, <1>4, <1>5, <1>6, <1>7, <1>8 DEF Next

---------------------------------------------------------------------------
(* Every session only ever holds rows that exist, in the states it relies  *)
(* on, whatever the other sessions do: the invariant is inductive.         *)
LEMMA SessionsHeld == Spec => []IInv
BY InitInv, StepInv, PTL DEF Spec

(* Type correctness.                                                       *)
THEOREM TypeCorrectness == Spec => []TypeOK
<1>1. IInv => TypeOK
  BY DEF IInv
<1> QED
  BY SessionsHeld, <1>1, PTL

(* No job is ever processed by two workers at once, with any number of     *)
(* workers, deaths, recoveries and retries.                                *)
THEOREM JobsHeldOnce == Spec => []HeldOnce
<1>1. IInv => HeldOnce
  BY DEF IInv, SessionsHold
<1> QED
  BY SessionsHeld, <1>1, PTL

(* A COMPLETED deletion has erased the original and released the hash.     *)
THEOREM CompletedErasure == Spec => []DeletedMeansErased
<1>1. IInv => DeletedMeansErased
  BY DEF IInv, SessionsHold
<1> QED
  BY SessionsHeld, <1>1, PTL

(* The content hash stays reserved until a deletion has COMPLETED.         *)
THEOREM HashReservation == Spec => []HashHeldUntilDeleted
<1>1. IInv => HashHeldUntilDeleted
  BY DEF IInv, SessionsHold
<1> QED
  BY SessionsHeld, <1>1, PTL

---------------------------------------------------------------------------
(* The steps of the system as the components' effects, with what each      *)
(* leaves alone.                                                           *)

IngestorActs(w) ==
  /\ IngestorEffect(w)
  /\ UNCHANGED <<configured, hashed, object, deletion, reindex, cleanup, client,
                 deleter, builder, cleaner>>

RetryActs(c) ==
  /\ RetryEffect(c)
  /\ UNCHANGED <<configured, registered, collection, hashed, object, vectors,
                 deletion, reindex, cleanup, ingestor, deleter, builder, cleaner>>

RecoveryActs ==
  /\ RecoveryEffect
  /\ UNCHANGED <<configured, registered, collection, hashed, object, vectors,
                 deletion, reindex, cleanup, ingestor, deleter, builder, cleaner>>

DeleterActs(w) ==
  /\ DeleterEffect(w)
  /\ UNCHANGED <<configured, registered, collection, ingestion, reindex, cleanup, client,
                 ingestor, builder, cleaner>>

DeleteActs(c) ==
  /\ DeleteEffect(c)
  /\ UNCHANGED <<configured, registered, collection, hashed, object, vectors,
                 ingestion, reindex, cleanup, ingestor, deleter, builder, cleaner>>

BuilderActs(w) ==
  /\ BuilderEffect(w)
  /\ UNCHANGED <<configured, registered, collection, hashed, object, ingestion, deletion,
                 cleanup, client, ingestor, deleter, cleaner>>

ScheduleActs(c) ==
  /\ ScheduleEffect(c)
  /\ UNCHANGED <<configured, collection, hashed, object, vectors, ingestion, deletion,
                 cleanup, ingestor, deleter, builder, cleaner>>

ActivateActs(c) ==
  /\ ActivateEffect(c)
  /\ UNCHANGED <<configured, registered, hashed, object, vectors, ingestion, deletion,
                 ingestor, deleter, builder, cleaner>>

CleanerActs(w) ==
  /\ CleanerEffect(w)
  /\ UNCHANGED <<configured, registered, collection, hashed, object, ingestion, deletion,
                 reindex, client, ingestor, deleter, builder>>

(* An operator's redeployment, or nothing at all.                          *)
OperatorActs ==
  /\ configured' = configured \/ <<configured, configured'>> \in Reconfiguration
  /\ UNCHANGED <<registered, collection, hashed, object, vectors, ingestion, deletion,
                 reindex, cleanup, client, ingestor, deleter, builder, cleaner>>

SomeoneActs ==
  \/ \E w \in Ingestor : IngestorActs(w)
  \/ \E c \in Client : RetryActs(c)
  \/ RecoveryActs
  \/ \E w \in Deleter : DeleterActs(w)
  \/ \E c \in Client : DeleteActs(c)
  \/ \E w \in Builder : BuilderActs(w)
  \/ \E c \in Client : ScheduleActs(c)
  \/ \E c \in Client : ActivateActs(c)
  \/ \E w \in Cleaner : CleanerActs(w)
  \/ OperatorActs

(* The job a route has loaded is not more complete than the row.           *)
LoadedIsTrue ==
  \A c \in Client :
    At(c, "activate_loaded") /\ client[c].status = "completed"
      => reindex[client[c].row].status = "completed"

(* Every step of the system is such a step of one session.                 *)
LEMMA StepKinds ==
  ASSUME IInv, LoadedIsTrue, [Next]_vars
  PROVE  SomeoneActs
<1>1. IngestionInv /\ DeletionInv /\ ReindexingInv /\ CleanupInv
  BY InvOfComponents
<1>2. CASE IngestionStep /\ UNCHANGED <<deleter, builder, cleaner>>
  <2>1. UNCHANGED <<deletion, reindex, cleanup, object, hashed>>
    BY <1>1, <1>2, IngestionStepKeeps
  <2>2. ASSUME NEW w \in Ingestor, IngestorStep(w)
        PROVE  IngestorActs(w)
    <3>1. UNCHANGED <<configured, client>>
      BY <2>2 DEF IngestorStep, ClaimIngestion, ExtractAndEmbed, FindIndexCollection,
                  RegisterIndexCollection, UpsertVectors, FailIngestion, CompleteIngestion,
                  IngestorDies
    <3>2. IngestorEffect(w)
      BY <1>1, <2>2, IngestorEffects DEF IngestionInv
    <3> QED
      BY <1>2, <2>1, <3>1, <3>2 DEF IngestorActs
  <2>3. ASSUME NEW c \in Client, RetryStep(c)
        PROVE  RetryActs(c)
    BY <1>1, <1>2, <2>1, <2>3, RetryEffects DEF IngestionInv, RetryActs, IngestorsLeftAlone
  <2>4. ASSUME RecoveryStep
        PROVE  RecoveryActs
    BY <1>1, <1>2, <2>1, <2>4, RecoveryEffects DEF IngestionInv, RecoveryActs, IngestorsLeftAlone
  <2> QED
    BY <1>2, <2>2, <2>3, <2>4 DEF IngestionStep, SomeoneActs
<1>3. CASE DeletionStep /\ UNCHANGED <<ingestor, builder, cleaner>>
  <2>1. UNCHANGED <<ingestion, reindex, cleanup>>
    BY <1>1, <1>3, DeletionStepKeeps
  <2>2. ASSUME NEW w \in Deleter, DeleterStep(w)
        PROVE  DeleterActs(w)
    BY <1>1, <1>3, <2>1, <2>2, DeleterEffects DEF DeletionInv, DeleterActs
  <2>3. ASSUME NEW c \in Client, DeleteStep(c)
        PROVE  DeleteActs(c)
    BY <1>1, <1>3, <2>1, <2>3, DeleteEffects DEF DeletionInv, DeleteActs
  <2> QED
    BY <1>3, <2>2, <2>3 DEF DeletionStep, SomeoneActs
<1>4. CASE ReindexingStep /\ UNCHANGED <<ingestor, deleter, cleaner>>
  <2>1. UNCHANGED <<ingestion, deletion, object, hashed>>
    BY <1>1, <1>4, ReindexingStepKeeps DEF ReindexingFrame
  <2>2. ASSUME NEW w \in Builder, BuilderStep(w)
        PROVE  BuilderActs(w)
    BY <1>1, <1>4, <2>1, <2>2, BuilderEffects DEF ReindexingInv, BuilderActs
  <2>3. ASSUME NEW c \in Client, ScheduleStep(c)
        PROVE  ScheduleActs(c)
    BY <1>1, <1>4, <2>1, <2>3, ScheduleEffects DEF ReindexingInv, ScheduleActs
  <2>4. ASSUME NEW c \in Client, ActivateStep(c)
        PROVE  ActivateActs(c)
    <3>1. ActivateEffect(c) /\ UNCHANGED <<configured, registered, vectors, builder>>
      BY <1>1, <2>4, ActivateEffects DEF ReindexingInv, LoadedIsTrue
    <3> QED
      BY <1>4, <2>1, <3>1 DEF ActivateActs
  <2> QED
    BY <1>4, <2>2, <2>3, <2>4 DEF ReindexingStep, SomeoneActs
<1>5. CASE CleanupStep /\ UNCHANGED <<ingestor, deleter, builder>>
  <2>1. UNCHANGED <<ingestion, deletion, reindex, object, hashed>>
    BY <1>1, <1>5, CleanupStepKeeps
  <2>2. ASSUME NEW w \in Cleaner, CleanerStep(w)
        PROVE  CleanerActs(w)
    BY <1>1, <1>5, <2>1, <2>2, CleanerEffects DEF CleanupInv, CleanerActs
  <2> QED
    BY <1>5, <2>2 DEF CleanupStep, SomeoneActs
<1>6. CASE Reconfigure /\ UNCHANGED workers
  BY <1>6 DEF Reconfigure, workers, documents, external, tables, OperatorActs, SomeoneActs
<1>7. CASE UNCHANGED vars
  BY <1>7 DEF vars, workers, documents, external, tables, OperatorActs, SomeoneActs
<1> QED
  BY <1>2, <1>3, <1>4, <1>5, <1>6, <1>7 DEF Next

---------------------------------------------------------------------------
(* The same steps seen from the shared store: a request either goes on, and*)
(* writes nothing but index_collections, or it is answered, with at most   *)
(* one commit.                                                             *)

StoreUnchanged ==
  UNCHANGED <<configured, collection, hashed, object, vectors, ingestion, deletion, reindex, cleanup>>

WorkersUnchanged == UNCHANGED <<ingestor, deleter, builder, cleaner>>

SameRequest(c, s) ==
  /\ s.document = client[c].document
  /\ s.source = client[c].source /\ s.target = client[c].target

(* Session s of request c, as its step has read the tables.                *)
RequestProceeds(c, s) ==
  /\ ClientBecomes(c, s) /\ s.at # "idle"
  /\ StoreUnchanged /\ WorkersUnchanged /\ registered \subseteq registered'
  /\ \/ s.at = "retry_checked" /\ RowsOf(deletion, s.document) = {}
     \/ s.at = "retry_read" /\ At(c, "retry_checked") /\ SameRequest(c, s) /\ s.row = Len(ingestion)
     \/ /\ s.at \in {"delete_waiting", "delete_read"}
        /\ ~LatestIn(deletion, s.document, {"completed"} \cup Active)
     \/ s.at = "delete_read" /\ At(c, "delete_waiting") /\ SameRequest(c, s)
     \/ /\ s.at = "delete_ingestion_checked" /\ At(c, "delete_read") /\ SameRequest(c, s)
        /\ ~LatestIn(ingestion, s.document, Active)
     \/ /\ s.at = "delete_reindex_checked" /\ At(c, "delete_ingestion_checked") /\ SameRequest(c, s)
        /\ ActiveRows(reindex, s.document) = {}
     \/ /\ s.at = "schedule_read"
        /\ s.document \in Document /\ s.source = collection[s.document] /\ s.target = configured
        /\ s.source \notin {None, configured}
     \/ /\ s.at \in ScheduleSteps \ {"schedule_read"}
        /\ client[c].at \in ScheduleSteps /\ SameRequest(c, s)
        /\ s.at = "schedule_deletion_checked" => ~LatestIn(deletion, s.document, DeletionStatus)
        /\ s.at \in {"schedule_registering", "schedule_registered"} =>
             client[c].at \in {"schedule_deletion_checked", "schedule_registering"}
        /\ s.at = "schedule_registered" => s.target \in registered'
     \/ /\ s.at = "activate_loaded"
        /\ \E i \in DOMAIN reindex :
             s.row = i /\ s.status = reindex[i].status /\ s.activated = reindex[i].activated

(* Requests are answered or go on waiting.                                 *)
RequestsStay == \A e \in Client : client'[e] = client[e] \/ client'[e].at = "idle"

AttemptReplaced(i, n, d) ==
  /\ IngestionReplaced(i, n, d)
  /\ \/ ingestion[i].status = "processing"
     \/ \E c \in Client :
          /\ At(c, "retry_read") /\ client[c].document = d
          /\ IsLast(i, {j \in RowsOf(ingestion, d) : j <= client[c].row})
  /\ RequestsStay /\ WorkersUnchanged
  /\ UNCHANGED <<configured, registered, collection, hashed, object, vectors,
                 deletion, reindex, cleanup>>

DeletionRequested(c, n) ==
  /\ DeleteInserts(c, n)
  /\ RequestsStay /\ WorkersUnchanged
  /\ UNCHANGED <<configured, registered, collection, hashed, object, vectors,
                 ingestion, reindex, cleanup>>

BuildScheduled(c, n) ==
  /\ ScheduleInserts(c, n)
  /\ RequestsStay /\ WorkersUnchanged
  /\ UNCHANGED <<configured, registered, collection, hashed, object, vectors,
                 ingestion, deletion, cleanup>>

DocumentMoved(i, n) ==
  /\ Activates(i, n)
  /\ \/ ~reindex[i].activated
     \/ \E c \in Client : At(c, "activate_loaded") /\ client[c].row = i /\ ~client[c].activated
  /\ RequestsStay /\ WorkersUnchanged
  /\ UNCHANGED <<configured, registered, hashed, object, vectors, ingestion, deletion>>

(* Answers without a commit, redeployments, and steps of nobody.           *)
NothingRecorded ==
  /\ configured' = configured \/ <<configured, configured'>> \in Reconfiguration
  /\ RequestsStay /\ WorkersUnchanged
  /\ registered \subseteq registered'
  /\ UNCHANGED <<collection, hashed, object, vectors, ingestion, deletion, reindex, cleanup>>

Event ==
  \/ \E c \in Client : \E s : RequestProceeds(c, s)
  \/ \E w \in Ingestor : IngestorActs(w)
  \/ \E i, n, d : AttemptReplaced(i, n, d)
  \/ \E w \in Deleter : DeleterActs(w)
  \/ \E c \in Client : \E n : DeletionRequested(c, n)
  \/ \E w \in Builder : BuilderActs(w)
  \/ \E c \in Client : \E n : BuildScheduled(c, n)
  \/ \E i, n : DocumentMoved(i, n)
  \/ \E w \in Cleaner : CleanerActs(w)
  \/ NothingRecorded

(* An answered request is idle, the others stay.                           *)
LEMMA AnswersStay ==
  ASSUME NEW c, ClientBecomes(c, NoRequest) \/ UNCHANGED client
  PROVE  RequestsStay
  BY DEF ClientBecomes, NoRequest, RequestsStay

(* The steps of a retry as events.                                         *)
LEMMA RetryEvents ==
  ASSUME StoreType, NEW c \in Client, RetryActs(c)
  PROVE  Event
<1>0. client[c] \in ClientSession
  BY DEF StoreType
<1>1. /\ UNCHANGED <<configured, registered, collection, hashed, object, vectors,
                     deletion, reindex, cleanup>>
      /\ WorkersUnchanged
  BY DEF RetryActs, WorkersUnchanged
<1>2. CASE \E d \in Document : RetryBegins(c, d)
  <2>1. PICK d \in Document : RetryBegins(c, d)
    BY <1>2
  <2> DEFINE s == [client[c] EXCEPT !.at = "retry_checked", !.document = d]
  <2>2. s.at = "retry_checked" /\ s.document = d
    BY <1>0 DEF ClientSession, SameRequest
  <2>3. ClientBecomes(c, s) /\ RowsOf(deletion, d) = {} /\ UNCHANGED ingestion
    BY <2>1 DEF RetryBegins
  <2> HIDE DEF s
  <2>4. RequestProceeds(c, s)
    BY <1>1, <2>2, <2>3 DEF RequestProceeds, StoreUnchanged
  <2> QED
    BY <2>4 DEF Event
<1>3. CASE RetryReads(c)
  <2> DEFINE s == [client[c] EXCEPT !.at = "retry_read", !.row = Len(ingestion)]
  <2>1. s.at = "retry_read" /\ SameRequest(c, s) /\ s.row = Len(ingestion)
    BY <1>0 DEF ClientSession, SameRequest
  <2>2. ClientBecomes(c, s) /\ At(c, "retry_checked") /\ UNCHANGED ingestion
    BY <1>3 DEF RetryReads
  <2> HIDE DEF s
  <2>3. RequestProceeds(c, s)
    BY <1>1, <2>1, <2>2 DEF RequestProceeds, StoreUnchanged
  <2> QED
    BY <2>3 DEF Event
<1>4. CASE RetryEnds(c)
  BY <1>1, <1>4, AnswersStay DEF RetryEnds, NothingRecorded, Event
<1>5. CASE \E i, n : RetryReplaces(c, i, n)
  <2>1. PICK i, n : RetryReplaces(c, i, n)
    BY <1>5
  <2>2. RequestsStay
    BY <2>1, AnswersStay DEF RetryReplaces
  <2>3. AttemptReplaced(i, n, client[c].document)
    BY <1>1, <2>1, <2>2 DEF RetryReplaces, AttemptReplaced
  <2> QED
    BY <2>3 DEF Event
<1> QED
  BY <1>2, <1>3, <1>4, <1>5 DEF RetryActs, RetryEffect

(* The steps of a DELETE as events.                                        *)
LEMMA DeleteEvents ==
  ASSUME StoreType, NEW c \in Client, DeleteActs(c)
  PROVE  Event
<1>0. client[c] \in ClientSession
  BY DEF StoreType
<1>1. /\ UNCHANGED <<configured, registered, collection, hashed, object, vectors,
                     ingestion, reindex, cleanup>>
      /\ WorkersUnchanged
  BY DEF DeleteActs, WorkersUnchanged
<1>2. CASE \E d \in Document : DeleteBegins(c, d)
  <2>1. PICK d \in Document, step \in {"delete_waiting", "delete_read"}, n \in Nat :
          /\ ~LatestIn(deletion, d, {"completed"} \cup Active) /\ UNCHANGED deletion
          /\ ClientBecomes(c, [client[c] EXCEPT !.at = step, !.document = d, !.row = n])
    BY <1>2 DEF DeleteBegins
  <2> DEFINE s == [client[c] EXCEPT !.at = step, !.document = d, !.row = n]
  <2>2. s.at = step /\ s.document = d
    BY <1>0 DEF ClientSession, SameRequest
  <2>3. ClientBecomes(c, s)
    BY <2>1
  <2> HIDE DEF s
  <2>4. RequestProceeds(c, s)
    BY <1>1, <2>1, <2>2, <2>3 DEF RequestProceeds, StoreUnchanged
  <2> QED
    BY <2>4 DEF Event
<1>3. CASE \E step : DeleteProceeds(c, step)
  <2>1. PICK step : DeleteProceeds(c, step)
    BY <1>3
  <2> DEFINE s == [client[c] EXCEPT !.at = step]
  <2>2. s.at = step /\ SameRequest(c, s)
    BY <1>0 DEF ClientSession, SameRequest
  <2>3. ClientBecomes(c, s)
    BY <2>1 DEF DeleteProceeds
  <2> HIDE DEF s
  <2>4. RequestProceeds(c, s)
    BY <1>1, <2>1, <2>2, <2>3 DEF DeleteProceeds, RequestProceeds, SameRequest, StoreUnchanged
  <2> QED
    BY <2>4 DEF Event
<1>4. CASE DeleteEnds(c)
  BY <1>1, <1>4, AnswersStay DEF DeleteEnds, NothingRecorded, Event
<1>5. CASE \E n : DeleteInserts(c, n)
  <2>1. PICK n : DeleteInserts(c, n)
    BY <1>5
  <2>2. RequestsStay
    BY <2>1, AnswersStay DEF DeleteInserts
  <2>3. DeletionRequested(c, n)
    BY <1>1, <2>1, <2>2 DEF DeletionRequested
  <2> QED
    BY <2>3 DEF Event
<1> QED
  BY <1>2, <1>3, <1>4, <1>5 DEF DeleteActs, DeleteEffect

(* The steps of a schedule request as events.                              *)
LEMMA ScheduleEvents ==
  ASSUME StoreType, NEW c \in Client, ScheduleActs(c)
  PROVE  Event
<1>0. client[c] \in ClientSession
  BY DEF StoreType
<1>1. /\ UNCHANGED <<configured, collection, hashed, object, vectors, ingestion, deletion, cleanup>>
      /\ WorkersUnchanged
  BY DEF ScheduleActs, WorkersUnchanged
<1>2. CASE \E d \in Document : ScheduleBegins(c, d)
  <2>1. PICK d \in Document : ScheduleBegins(c, d)
    BY <1>2
  <2> DEFINE s == [client[c] EXCEPT !.at = "schedule_read", !.document = d,
                                    !.source = collection[d], !.target = configured]
  <2>2. s.at = "schedule_read" /\ s.document = d /\ s.source = collection[d] /\ s.target = configured
    BY <1>0 DEF ClientSession, SameRequest
  <2>3. ClientBecomes(c, s) /\ collection[d] \notin {None, configured} /\ UNCHANGED <<registered, reindex>>
    BY <2>1 DEF ScheduleBegins
  <2> HIDE DEF s
  <2>4. RequestProceeds(c, s)
    BY <1>1, <2>2, <2>3 DEF RequestProceeds, StoreUnchanged
  <2> QED
    BY <2>4 DEF Event
<1>3. CASE \E step \in ScheduleSteps : ScheduleProceeds(c, step)
  <2>1. PICK step \in ScheduleSteps : ScheduleProceeds(c, step)
    BY <1>3
  <2> DEFINE s == [client[c] EXCEPT !.at = step]
  <2>2. s.at = step /\ SameRequest(c, s) /\ step # "idle"
    BY <1>0 DEF ClientSession, SameRequest, ScheduleSteps
  <2>3. ClientBecomes(c, s) /\ client[c].at \in ScheduleSteps /\ registered \subseteq registered'
        /\ UNCHANGED reindex
    BY <2>1 DEF ScheduleProceeds
  <2>4. /\ step # "schedule_read"
        /\ step = "schedule_deletion_checked" => ~LatestIn(deletion, client[c].document, DeletionStatus)
        /\ step \in {"schedule_registering", "schedule_registered"} =>
             client[c].at \in {"schedule_deletion_checked", "schedule_registering"}
        /\ step = "schedule_registered" => client[c].target \in registered'
    BY <2>1 DEF ScheduleProceeds
  <2> HIDE DEF s
  <2>5. RequestProceeds(c, s)
    BY <1>1, <2>1, <2>2, <2>3, <2>4 DEF RequestProceeds, SameRequest, StoreUnchanged
  <2> QED
    BY <2>5 DEF Event
<1>4. CASE ScheduleEnds(c)
  BY <1>1, <1>4, AnswersStay DEF ScheduleEnds, NothingRecorded, Event
<1>5. CASE \E n : ScheduleInserts(c, n)
  <2>1. PICK n : ScheduleInserts(c, n)
    BY <1>5
  <2>2. RequestsStay /\ UNCHANGED registered
    BY <2>1, AnswersStay DEF ScheduleInserts
  <2>3. BuildScheduled(c, n)
    BY <1>1, <2>1, <2>2 DEF BuildScheduled
  <2> QED
    BY <2>3 DEF Event
<1> QED
  BY <1>2, <1>3, <1>4, <1>5 DEF ScheduleActs, ScheduleEffect

(* The steps of an activation as events.                                   *)
LEMMA ActivateEvents ==
  ASSUME StoreType, NEW c \in Client, ActivateActs(c)
  PROVE  Event
<1>0. client[c] \in ClientSession
  BY DEF StoreType
<1>1. /\ UNCHANGED <<configured, registered, hashed, object, vectors, ingestion, deletion>>
      /\ WorkersUnchanged
  BY DEF ActivateActs, WorkersUnchanged
<1>2. CASE ActivateMoves(c)
  <2>1. PICK i, n :
          /\ Activates(i, n)
          /\ \/ ~reindex[i].activated /\ UNCHANGED client
             \/ /\ At(c, "activate_loaded") /\ client[c].row = i /\ ~client[c].activated
                /\ ClientBecomes(c, NoRequest)
    BY <1>2 DEF ActivateMoves
  <2>2. RequestsStay
    BY <2>1, AnswersStay
  <2>3. DocumentMoved(i, n)
    BY <1>1, <2>1, <2>2 DEF DocumentMoved
  <2> QED
    BY <2>3 DEF Event
<1>3. CASE ActivateLoads(c)
  <2>1. PICK i \in DOMAIN reindex :
          ClientBecomes(c, [client[c] EXCEPT !.at = "activate_loaded", !.row = i,
                                             !.status = reindex[i].status,
                                             !.activated = reindex[i].activated])
    BY <1>3 DEF ActivateLoads
  <2> DEFINE s == [client[c] EXCEPT !.at = "activate_loaded", !.row = i,
                                    !.status = reindex[i].status,
                                    !.activated = reindex[i].activated]
  <2>2. /\ s.at = "activate_loaded" /\ s.row = i
        /\ s.status = reindex[i].status /\ s.activated = reindex[i].activated
    BY <1>0 DEF ClientSession, SameRequest
  <2>3. ClientBecomes(c, s) /\ UNCHANGED <<collection, cleanup, reindex>>
    BY <1>3, <2>1 DEF ActivateLoads
  <2> HIDE DEF s
  <2>4. RequestProceeds(c, s)
    BY <1>1, <2>2, <2>3 DEF RequestProceeds, StoreUnchanged
  <2> QED
    BY <2>4 DEF Event
<1>4. CASE ActivateAnswers(c)
  BY <1>1, <1>4, AnswersStay DEF ActivateAnswers, NothingRecorded, Event
<1> QED
  BY <1>2, <1>3, <1>4 DEF ActivateActs, ActivateEffect

(* Every step of the system is one of these events.                        *)
LEMMA Events ==
  ASSUME IInv, LoadedIsTrue, [Next]_vars
  PROVE  Event
<1>1. StoreType
  BY DEF IInv, TypeOK
<1>2. SomeoneActs
  BY StepKinds
<1>3. CASE RecoveryActs
  <2>1. PICK i, n : ingestion[i].status = "processing" /\ IngestionReplaced(i, n, ingestion[i].document)
    BY <1>3 DEF RecoveryActs, RecoveryEffect
  <2>2. AttemptReplaced(i, n, ingestion[i].document)
    BY <1>3, <2>1 DEF RecoveryActs, RecoveryEffect, AttemptReplaced, RequestsStay, WorkersUnchanged
  <2> QED
    BY <2>2 DEF Event
<1>4. CASE OperatorActs
  BY <1>4 DEF OperatorActs, NothingRecorded, RequestsStay, WorkersUnchanged, Event
<1> QED
  BY <1>1, <1>2, <1>3, <1>4, RetryEvents, DeleteEvents, ScheduleEvents, ActivateEvents
     DEF SomeoneActs, Event

---------------------------------------------------------------------------
(* What holds whatever is deployed, stale or concurrent.                   *)

(* Rows stay where they are, with their documents.                         *)
Grows(t, u) == DOMAIN t \subseteq DOMAIN u /\ \A i \in DOMAIN t : u[i].document = t[i].document

(* No row of a job table goes away or changes its document.                *)
LEMMA TablesGrow ==
  ASSUME IInv, Event
  PROVE  /\ Grows(ingestion, ingestion') /\ Grows(deletion, deletion')
         /\ Grows(reindex, reindex') /\ Grows(cleanup, cleanup')
<1> USE DEF Grows
<1>1. CASE \E c \in Client : \E s : RequestProceeds(c, s)
  BY <1>1 DEF RequestProceeds, StoreUnchanged
<1>2. CASE \E w \in Ingestor : IngestorActs(w)
  BY <1>2 DEF IngestorActs, IngestorEffect, IngestorClaims, IngestorProceeds, IngestorUpserts,
              IngestorLeaves, IngestorFails, IngestorCompletes, SetsStatus
<1>3. CASE \E i, n, d : AttemptReplaced(i, n, d)
  BY <1>3 DEF AttemptReplaced, IngestionReplaced, Replaces, SetsStatus, Inserts
<1>4. CASE \E w \in Deleter : DeleterActs(w)
  BY <1>4 DEF DeleterActs, DeleterEffect, DeleterClaims, DeleterTracks, DeleterErases,
              DeleterRecords, DeleterErasesObject, DeleterFails, DeleterCompletes, DeleterLeaves,
              DeletionSetsOf, SetsStatus
<1>5. CASE \E c \in Client : \E n : DeletionRequested(c, n)
  BY <1>5 DEF DeletionRequested, DeleteInserts, Inserts
<1>6. CASE \E w \in Builder : BuilderActs(w)
  BY <1>6 DEF BuilderActs, BuilderEffect, BuilderClaims, BuilderProceeds, BuilderUpserts,
              BuilderFails, BuilderCompletes, BuilderLeaves, ReindexSetsOf, SetsStatus
<1>7. CASE \E c \in Client : \E n : BuildScheduled(c, n)
  BY <1>7 DEF BuildScheduled, ScheduleInserts, Inserts
<1>8. CASE \E i, n : DocumentMoved(i, n)
  BY <1>8 DEF DocumentMoved, Activates
<1>9. CASE \E w \in Cleaner : CleanerActs(w)
  BY <1>9 DEF CleanerActs, CleanerEffect, CleanerClaims, CleanerProceeds, CleanerErases,
              CleanerFails, CleanerCompletes, CleanerLeaves, CleanupSetsOf
<1>10. CASE NothingRecorded
  BY <1>10 DEF NothingRecorded
<1> QED
  BY <1>1, <1>2, <1>3, <1>4, <1>5, <1>6, <1>7, <1>8, <1>9, <1>10 DEF Event

(* Only the last ingestion of a document can be active.                    *)
LEMMA IngestionsInOrder ==
  ASSUME IInv, Event, ActiveIsLast(ingestion)
  PROVE  ActiveIsLast(ingestion')
<1>1. CASE UNCHANGED ingestion
  BY <1>1
<1>2. ASSUME NEW w \in Ingestor, IngestorActs(w)
      PROVE  ActiveIsLast(ingestion')
  <2>1. CASE \E i : IngestorClaims(w, i)
    <3>1. PICK i : IngestorClaims(w, i)
      BY <2>1
    <3> QED
      BY <3>1, ActiveLastSet DEF IngestorClaims, Active
  <2>2. CASE IngestorFails(w)
    BY <2>2, ActiveLastSet DEF IngestorFails, Active
  <2>3. CASE IngestorCompletes(w)
    BY <2>3, ActiveLastSet DEF IngestorCompletes, Active
  <2> QED
    BY <1>1, <1>2, <2>1, <2>2, <2>3 DEF IngestorActs, IngestorEffect, IngestorProceeds,
                                        IngestorUpserts, IngestorLeaves
<1>3. ASSUME NEW i, NEW n, NEW d, AttemptReplaced(i, n, d)
      PROVE  ActiveIsLast(ingestion')
  BY <1>3, ActiveLastReplace DEF AttemptReplaced, IngestionReplaced
<1> QED
  BY <1>1, <1>2, <1>3 DEF Event, RequestProceeds, StoreUnchanged, DeleterActs, DeletionRequested,
     BuilderActs, BuildScheduled, DocumentMoved, CleanerActs, NothingRecorded

(* ... only the last deletion ...                                          *)
LEMMA DeletionsInOrder ==
  ASSUME IInv, Event, ActiveIsLast(deletion)
  PROVE  ActiveIsLast(deletion')
<1>1. CASE UNCHANGED deletion
  BY <1>1
<1>2. ASSUME NEW w \in Deleter, DeleterActs(w)
      PROVE  ActiveIsLast(deletion')
  <2>1. CASE \E i : DeleterClaims(w, i)
    <3>1. PICK i : DeleterClaims(w, i)
      BY <2>1
    <3> QED
      BY <3>1, ActiveLastSet DEF DeleterClaims, DeletionSetsOf, Active
  <2>2. CASE DeleterFails(w)
    BY <2>2, ActiveLastSet DEF DeleterFails, DeletionSetsOf, Active
  <2>3. CASE DeleterCompletes(w)
    BY <2>3, ActiveLastSet DEF DeleterCompletes, DeletionSetsOf, Active
  <2>4. CASE DeleterRecords(w)
    BY <2>4 DEF DeleterRecords, ActiveIsLast
  <2> QED
    BY <1>1, <1>2, <2>1, <2>2, <2>3, <2>4 DEF DeleterActs, DeleterEffect, DeleterTracks,
                                   DeleterErases, DeleterErasesObject, DeleterLeaves
<1>3. ASSUME NEW c \in Client, NEW n, DeletionRequested(c, n)
      PROVE  ActiveIsLast(deletion')
  BY <1>3, ActiveLastInsert DEF DeletionRequested, DeleteInserts
<1> QED
  BY <1>1, <1>2, <1>3 DEF Event, RequestProceeds, StoreUnchanged, IngestorActs, AttemptReplaced,
     BuilderActs, BuildScheduled, DocumentMoved, CleanerActs, NothingRecorded

(* ... and only the last build.                                            *)
LEMMA BuildsInOrder ==
  ASSUME IInv, Event, ActiveIsLast(reindex)
  PROVE  ActiveIsLast(reindex')
<1>1. CASE UNCHANGED reindex
  BY <1>1
<1>2. ASSUME NEW w \in Builder, BuilderActs(w)
      PROVE  ActiveIsLast(reindex')
  <2>1. CASE \E i : BuilderClaims(w, i)
    <3>1. PICK i : BuilderClaims(w, i)
      BY <2>1
    <3> QED
      BY <3>1, ActiveLastSet DEF BuilderClaims, ReindexSetsOf, Active
  <2>2. CASE BuilderFails(w)
    BY <2>2, ActiveLastSet DEF BuilderFails, ReindexSetsOf, Active
  <2>3. CASE BuilderCompletes(w)
    BY <2>3, ActiveLastSet DEF BuilderCompletes, ReindexSetsOf, Active
  <2> QED
    BY <1>1, <1>2, <2>1, <2>2, <2>3 DEF BuilderActs, BuilderEffect, BuilderProceeds,
                                        BuilderUpserts, BuilderLeaves
<1>3. ASSUME NEW c \in Client, NEW n, BuildScheduled(c, n)
      PROVE  ActiveIsLast(reindex')
  BY <1>3, ActiveLastInsert DEF BuildScheduled, ScheduleInserts
<1>4. ASSUME NEW i, NEW n, DocumentMoved(i, n)
      PROVE  ActiveIsLast(reindex')
  BY <1>4 DEF DocumentMoved, Activates, ActiveIsLast
<1> QED
  BY <1>1, <1>2, <1>3, <1>4 DEF Event, RequestProceeds, StoreUnchanged, IngestorActs, DeleterActs,
     AttemptReplaced, DeletionRequested, CleanerActs, NothingRecorded

(* A document once indexed stays in some collection.                       *)
LEMMA StaysIndexed ==
  ASSUME IInv, Event, NEW d \in Document, collection[d] # None
  PROVE  collection'[d] # None
<1>1. StoreType /\ IngestorsValid
  BY DEF IInv, TypeOK, SessionsHold
<1>2. None \notin Collection /\ collection \in [Document -> Collection \cup {None}]
  BY <1>1, StoreAssumption DEF StoreType
<1>3. CASE UNCHANGED collection
  BY <1>3
<1>4. ASSUME NEW w \in Ingestor, IngestorActs(w)
      PROVE  collection'[d] # None
  <2>1. CASE IngestorCompletes(w)
    <3>1. ingestor[w].target \in Collection
      BY <1>1, <2>1 DEF IngestorsValid, IngestorCompletes, IngestorAt
    <3> QED
      BY <1>2, <2>1, <3>1 DEF IngestorCompletes
  <2> QED
    BY <1>3, <1>4, <2>1 DEF IngestorActs, IngestorEffect, IngestorClaims, IngestorProceeds,
                            IngestorUpserts, IngestorLeaves, IngestorFails
<1>5. ASSUME NEW i, NEW n, DocumentMoved(i, n)
      PROVE  collection'[d] # None
  <2>1. i \in DOMAIN reindex
    BY <1>5 DEF DocumentMoved, Activates
  <2>2. reindex[i].target \in Collection
    BY <1>1, <2>1, ReindexRow
  <2> QED
    BY <1>2, <1>5, <2>2 DEF DocumentMoved, Activates
<1> QED
  BY <1>3, <1>4, <1>5 DEF Event, RequestProceeds, StoreUnchanged, AttemptReplaced, DeleterActs,
     DeletionRequested, BuilderActs, BuildScheduled, CleanerActs, NothingRecorded

(* A build, and a request for one, is about a document indexed before.     *)
BuildsIndexed ==
  /\ \A i \in DOMAIN reindex : collection[reindex[i].document] # None
  /\ \A c \in Client : client[c].at \in ScheduleSteps => collection[client[c].document] # None

(* ensure_active_collection precedes the upsert.                           *)
TargetsRegistered ==
  \A w \in Ingestor :
    ingestor[w].at \in {"ready", "indexed"} => ingestor[w].target \in registered

Standing ==
  /\ ActiveIsLast(ingestion) /\ ActiveIsLast(deletion) /\ ActiveIsLast(reindex)
  /\ \A d \in Document : RowsOf(ingestion, d) # {}
  /\ BuildsIndexed /\ TargetsRegistered /\ LoadedIsTrue

(* A document stays indexed, and only an indexed one is scheduled.         *)
LEMMA BuildsIndexedKept ==
  ASSUME IInv, IInv', Event, BuildsIndexed
  PROVE  BuildsIndexed'
<1>1. StoreType /\ ClientsValid /\ StoreType' /\ ClientsValid'
  BY DEF IInv, TypeOK, SessionsHold
<1>2. \A i \in DOMAIN reindex : collection'[reindex'[i].document] # None
  BY <1>1, TablesGrow, StaysIndexed, ReindexRow DEF BuildsIndexed, Grows
<1>3. "idle" \notin ScheduleSteps /\ "activate_loaded" \notin ScheduleSteps
  BY DEF ScheduleSteps
<1>4. ASSUME RequestsStay
      PROVE  \A c \in Client : client'[c].at \in ScheduleSteps => collection'[client'[c].document] # None
  BY <1>1, <1>3, <1>4, StaysIndexed DEF BuildsIndexed, RequestsStay, ClientsValid
<1>5. CASE \E c \in Client : \E s : RequestProceeds(c, s)
  <2>0. PICK c \in Client : \E s : RequestProceeds(c, s)
    BY <1>5
  <2>1. PICK s : RequestProceeds(c, s)
    BY <2>0
  <2>2. UNCHANGED <<collection, reindex>> /\ \A e \in Client : client'[e] = IF e = c THEN s ELSE client[e]
    BY <2>1 DEF RequestProceeds, StoreUnchanged, ClientBecomes
  <2>3. s.at \in ScheduleSteps => collection[s.document] # None
    BY <2>1 DEF RequestProceeds, SameRequest, BuildsIndexed, ScheduleSteps
  <2> QED
    BY <2>2, <2>3 DEF BuildsIndexed
<1>6. CASE \E c \in Client : \E n : BuildScheduled(c, n)
  <2>0. PICK c \in Client : \E n : BuildScheduled(c, n)
    BY <1>6
  <2>1. PICK n : BuildScheduled(c, n)
    BY <2>0
  <2>2. RequestsStay /\ UNCHANGED collection /\ DOMAIN reindex' = DOMAIN reindex \cup {n}
        /\ reindex'[n].document = client[c].document /\ client[c].at \in ScheduleSteps
    BY <2>1 DEF BuildScheduled, ScheduleInserts, Inserts, At, ScheduleSteps
  <2>3. collection'[reindex'[n].document] # None
    BY <2>2 DEF BuildsIndexed
  <2> QED
    BY <1>2, <1>4, <2>2, <2>3 DEF BuildsIndexed
<1>7. CASE RequestsStay /\ DOMAIN reindex' = DOMAIN reindex
  BY <1>2, <1>4, <1>7 DEF BuildsIndexed
<1> QED
  BY <1>5, <1>6, <1>7 DEF Event, IngestorActs, AttemptReplaced, DeleterActs, DeletionRequested,
     BuilderActs, BuilderEffect, BuilderClaims, BuilderProceeds, BuilderUpserts,
     BuilderFails, BuilderCompletes, BuilderLeaves, ReindexSetsOf, SetsStatus,
     DocumentMoved, Activates, CleanerActs, NothingRecorded, RequestsStay

(* A registered collection stays so, and a worker registers its own        *)
(* before the upsert.                                                      *)
LEMMA TargetsRegisteredKept ==
  ASSUME IInv, Event, TargetsRegistered
  PROVE  TargetsRegistered'
<1>1. CASE UNCHANGED ingestor /\ registered \subseteq registered'
  BY <1>1 DEF TargetsRegistered
<1>2. ASSUME NEW w \in Ingestor, IngestorActs(w)
      PROVE  TargetsRegistered'
  <2>1. ingestor[w] \in IngestorSession
    BY DEF IInv, TypeOK, IngestionType
  <2>2. PICK s : /\ IngestorBecomes(w, s) /\ registered \subseteq registered'
                 /\ s.at \in {"ready", "indexed"} => s.target \in registered'
    <3>1. CASE \E i : IngestorClaims(w, i)
      BY <3>1 DEF IngestorClaims
    <3>2. CASE \E step \in {"embedded", "registering", "ready"} : IngestorProceeds(w, step)
      <4>1. PICK step \in {"embedded", "registering", "ready"} : IngestorProceeds(w, step)
        BY <3>2
      <4> DEFINE s == [ingestor[w] EXCEPT !.at = step]
      <4>2. s.at = step /\ s.target = ingestor[w].target
        BY <2>1 DEF IngestorSession
      <4>3. IngestorBecomes(w, s) /\ registered \subseteq registered'
            /\ (step = "ready" => ingestor[w].target \in registered')
        BY <4>1 DEF IngestorProceeds
      <4> HIDE DEF s
      <4> QED
        BY <4>2, <4>3
    <3>3. CASE IngestorUpserts(w)
      <4> DEFINE s == [ingestor[w] EXCEPT !.at = "indexed"]
      <4>1. s.at = "indexed" /\ s.target = ingestor[w].target
        BY <2>1 DEF IngestorSession
      <4>2. IngestorBecomes(w, s) /\ UNCHANGED registered /\ ingestor[w].target \in registered
        BY <3>3 DEF IngestorUpserts, TargetsRegistered, IngestorAt
      <4> HIDE DEF s
      <4> QED
        BY <4>1, <4>2
    <3>4. CASE IngestorLeaves(w) \/ IngestorFails(w) \/ IngestorCompletes(w)
      <4>1. IngestorBecomes(w, NoIngestion) /\ registered \subseteq registered'
        BY <3>4 DEF IngestorLeaves, IngestorFails, IngestorCompletes
      <4> QED
        BY <4>1 DEF NoIngestion
    <3> QED
      BY <1>2, <3>1, <3>2, <3>3, <3>4 DEF IngestorActs, IngestorEffect
  <2> QED
    BY <2>2 DEF TargetsRegistered, IngestorBecomes
<1> QED
  BY <1>1, <1>2 DEF Event, RequestProceeds, StoreUnchanged, WorkersUnchanged, AttemptReplaced,
     DeleterActs, DeletionRequested, BuilderActs, BuildScheduled, DocumentMoved, CleanerActs,
     NothingRecorded

(* A completed build stays completed.                                      *)
LEMMA BuiltStaysBuilt ==
  ASSUME IInv, Event, NEW i \in DOMAIN reindex, reindex[i].status = "completed"
  PROVE  reindex'[i].status = "completed"
<1>1. CASE UNCHANGED reindex
  BY <1>1
<1>2. ASSUME NEW w \in Builder, BuilderActs(w)
      PROVE  reindex'[i].status = "completed"
  <2>1. ~BuilderAt(w, "idle") => reindex[builder[w].job].status = "processing"
    BY DEF IInv, SessionsHold, BuildersValid, BuilderAt
  <2> QED
    BY <1>1, <1>2, <2>1 DEF BuilderActs, BuilderEffect, BuilderClaims, BuilderProceeds,
       BuilderUpserts, BuilderFails, BuilderCompletes, BuilderLeaves, ReindexSetsOf, SetsStatus,
       BuilderAt
<1> QED
  BY <1>1, <1>2 DEF Event, RequestProceeds, StoreUnchanged, IngestorActs, AttemptReplaced,
     DeleterActs, DeletionRequested, BuildScheduled, ScheduleInserts, Inserts,
     DocumentMoved, Activates, CleanerActs, NothingRecorded

(* A completed build stays completed.                                      *)
LEMMA LoadedIsTrueKept ==
  ASSUME IInv, Event, LoadedIsTrue
  PROVE  LoadedIsTrue'
<1>1. \A c \in Client : At(c, "activate_loaded") => client[c].row \in DOMAIN reindex
  BY DEF IInv, SessionsHold, ClientsValid
<1>2. CASE RequestsStay
  BY <1>1, <1>2, BuiltStaysBuilt DEF RequestsStay, LoadedIsTrue, At
<1>3. CASE \E c \in Client : \E s : RequestProceeds(c, s)
  <2>0. PICK c \in Client : \E s : RequestProceeds(c, s)
    BY <1>3
  <2>1. PICK s : RequestProceeds(c, s)
    BY <2>0
  <2>2. UNCHANGED reindex /\ \A e \in Client : client'[e] = IF e = c THEN s ELSE client[e]
    BY <2>1 DEF RequestProceeds, StoreUnchanged, ClientBecomes
  <2>3. s.at = "activate_loaded" /\ s.status = "completed" => reindex[s.row].status = "completed"
    BY <2>1 DEF RequestProceeds, ScheduleSteps
  <2> QED
    BY <2>2, <2>3 DEF LoadedIsTrue, At
<1> QED
  BY <1>2, <1>3 DEF Event, IngestorActs, AttemptReplaced, DeleterActs, DeletionRequested,
     BuilderActs, BuildScheduled, DocumentMoved, CleanerActs, NothingRecorded, RequestsStay

(* Every document has exactly one job at first: an enumeration of a finite *)
(* set by as many positions as it has elements repeats none.               *)
LEMMA OrderIsInjective ==
  ASSUME IsFiniteSet(Document), NEW order \in [1..Cardinality(Document) -> Document],
         \A d \in Document : \E i \in DOMAIN order : order[i] = d,
         NEW i \in 1..Cardinality(Document), NEW j \in 1..Cardinality(Document),
         order[i] = order[j]
  PROVE  i = j
<1> DEFINE N == Cardinality(Document)
<1>1. N \in Nat
  BY FS_CardinalityType
<1>2. IsFiniteSet(1..N) /\ Cardinality(1..N) = N
  BY <1>1, FS_Interval
<1>3. order \in Surjection(1..N, Document)
  BY DEF Surjection
<1>4. order \in Injection(1..N, Document)
  BY <1>2, <1>3, FS_SurjSameCardinalityImpliesInj
<1> QED
  BY <1>4 DEF Injection, IsInjective

(* Initially each document has one ingestion job, and nothing else.        *)
LEMMA StandingInit == Init => Standing
<1> SUFFICES ASSUME Init PROVE Standing
  OBVIOUS
<1> USE DEF Init, StoreInit
<1>1. PICK order \in [1..Cardinality(Document) -> Document] :
        /\ \A d \in Document : \E i \in DOMAIN order : order[i] = d
        /\ ingestion = [i \in DOMAIN order |-> [document |-> order[i], status |-> "pending"]]
  OBVIOUS
<1>2. \A d \in Document : RowsOf(ingestion, d) # {}
  BY <1>1 DEF RowsOf
<1>3. ActiveIsLast(ingestion)
  <2>1. Cardinality(Document) \in Nat
    BY StoreAssumption, FS_CardinalityType
  <2>2. \A i, j \in 1..Cardinality(Document) : order[i] = order[j] => i = j
    BY <2>1, <1>1, StoreAssumption, OrderIsInjective
  <2> QED
    BY <1>1, <2>1, <2>2 DEF ActiveIsLast
<1>4. ActiveIsLast(deletion) /\ ActiveIsLast(reindex) /\ BuildsIndexed
  BY DEF ActiveIsLast, BuildsIndexed, NoRequest, ScheduleSteps
<1>5. TargetsRegistered /\ LoadedIsTrue
  BY DEF TargetsRegistered, IngestionInit, NoIngestion, LoadedIsTrue, NoRequest, At
<1> QED
  BY <1>2, <1>3, <1>4, <1>5 DEF Standing

(* What stands is kept by every step, which is one of the events.          *)
LEMMA StandingStep ==
  ASSUME IInv, IInv', Standing, [Next]_vars
  PROVE  Event /\ Standing'
<1>1. Event
  BY Events DEF Standing
<1>2. \A d \in Document : (RowsOf(ingestion, d) # {})'
  BY <1>1, TablesGrow DEF Standing, RowsOf, Grows
<1> QED
  BY <1>1, <1>2, IngestionsInOrder, DeletionsInOrder, BuildsInOrder, BuildsIndexedKept,
     TargetsRegisteredKept, LoadedIsTrueKept DEF Standing

(* So it holds in every reachable state, whatever is deployed, stale or     *)
(* concurrent.                                                             *)
LEMMA Stands == Spec => [](IInv /\ Standing)
<1>1. Init => IInv /\ Standing
  BY InitInv, StandingInit
<1>2. IInv /\ Standing /\ [Next]_vars => (IInv /\ Standing)'
  <2> SUFFICES ASSUME IInv, Standing, [Next]_vars PROVE IInv' /\ Standing'
    OBVIOUS
  <2>1. IInv'
    BY StepInv
  <2> QED
    BY <2>1, StandingStep
<1> QED
  BY <1>1, <1>2, PTL DEF Spec

---------------------------------------------------------------------------
(* Who writes what.                                                        *)

(* Ingestions are written by their workers, retries and recoveries ...     *)
LEMMA WhoIngests ==
  ASSUME Event
  PROVE  \/ UNCHANGED <<ingestor, ingestion>>
         \/ \E w \in Ingestor : IngestorActs(w)
         \/ \E i, n, d : AttemptReplaced(i, n, d)
  BY DEF Event, RequestProceeds, StoreUnchanged, WorkersUnchanged, DeleterActs, DeletionRequested,
         BuilderActs, BuildScheduled, DocumentMoved, CleanerActs, NothingRecorded

(* ... deletions by their workers and requests ...                         *)
LEMMA WhoDeletes ==
  ASSUME Event
  PROVE  \/ UNCHANGED <<deleter, deletion>>
         \/ \E w \in Deleter : DeleterActs(w)
         \/ \E c \in Client : \E n : DeletionRequested(c, n)
  BY DEF Event, RequestProceeds, StoreUnchanged, WorkersUnchanged, IngestorActs, AttemptReplaced,
         BuilderActs, BuildScheduled, DocumentMoved, CleanerActs, NothingRecorded

(* ... builds by their workers, by scheduling and by activation ...        *)
LEMMA WhoBuilds ==
  ASSUME Event
  PROVE  \/ UNCHANGED <<builder, reindex>>
         \/ \E w \in Builder : BuilderActs(w)
         \/ \E c \in Client : \E n : BuildScheduled(c, n)
         \/ \E i, n : DocumentMoved(i, n)
  BY DEF Event, RequestProceeds, StoreUnchanged, WorkersUnchanged, IngestorActs, AttemptReplaced,
         DeleterActs, DeletionRequested, CleanerActs, NothingRecorded

(* ... cleanups by their workers and by activation ...                     *)
LEMMA WhoCleans ==
  ASSUME Event
  PROVE  \/ UNCHANGED <<cleaner, cleanup>>
         \/ \E w \in Cleaner : CleanerActs(w)
         \/ \E i, n : DocumentMoved(i, n)
  BY DEF Event, RequestProceeds, StoreUnchanged, WorkersUnchanged, IngestorActs, AttemptReplaced,
         DeleterActs, DeletionRequested, BuilderActs, BuildScheduled, NothingRecorded

(* ... the collection of a document by the end of an ingestion and by      *)
(* activation ...                                                          *)
LEMMA WhoMoves ==
  ASSUME Event
  PROVE  \/ UNCHANGED collection
         \/ \E w \in Ingestor : IngestorActs(w) /\ IngestorCompletes(w)
         \/ \E i, n : DocumentMoved(i, n)
  BY DEF Event, RequestProceeds, StoreUnchanged, IngestorActs, IngestorEffect, IngestorClaims,
         IngestorProceeds, IngestorUpserts, IngestorLeaves, IngestorFails, AttemptReplaced,
         DeleterActs, DeletionRequested, BuilderActs, BuildScheduled, CleanerActs, NothingRecorded

(* ... points by the four workers ...                                      *)
LEMMA WhoWrites ==
  ASSUME Event
  PROVE  \/ UNCHANGED vectors
         \/ \E w \in Ingestor : IngestorActs(w)
         \/ \E w \in Deleter : DeleterActs(w)
         \/ \E w \in Builder : BuilderActs(w)
         \/ \E w \in Cleaner : CleanerActs(w)
  BY DEF Event, RequestProceeds, StoreUnchanged, AttemptReplaced, DeletionRequested,
         BuildScheduled, DocumentMoved, NothingRecorded

(* ... and requests proceed one at a time, or are answered.                *)
LEMMA WhoRequests ==
  ASSUME Event
  PROVE  RequestsStay \/ \E c \in Client : \E s : RequestProceeds(c, s)
  BY DEF Event, IngestorActs, AttemptReplaced, DeleterActs, DeletionRequested,
         BuilderActs, BuildScheduled, DocumentMoved, CleanerActs, NothingRecorded, RequestsStay

---------------------------------------------------------------------------
(* The collections that the tables name.                                   *)

(* What a finished ingestion, or an activation, makes of a collection.     *)
LEMMA CompletesTo ==
  ASSUME IInv, NEW w \in Ingestor, IngestorCompletes(w), NEW d \in Document
  PROVE  \/ collection'[d] = collection[d]
         \/ /\ d = IngestorDocument(w) /\ collection'[d] = ingestor[w].target
            /\ ingestor[w].base # ingestor[w].target
  BY DEF IInv, TypeOK, StoreType, IngestorCompletes

(* An activation moves its document to the target of the build.            *)
LEMMA MovesTo ==
  ASSUME IInv, NEW i, NEW n, DocumentMoved(i, n), NEW d \in Document
  PROVE  collection'[d] = IF d = reindex[i].document THEN reindex[i].target ELSE collection[d]
  BY DEF IInv, TypeOK, StoreType, DocumentMoved, Activates

(* Every collection that is served from, or built, is registered.          *)
NamesRegistered ==
  /\ \A d \in Document : collection[d] # None => collection[d] \in registered
  /\ \A i \in DOMAIN reindex : reindex[i].target \in registered
  /\ \A c \in Client : At(c, "schedule_registered") => client[c].target \in registered

(* A build leads to another collection than it starts from, and a cleanup  *)
(* names the one that an activated build of its document has started from. *)
NamesApart ==
  /\ \A i \in DOMAIN reindex : reindex[i].source # reindex[i].target
  /\ \A c \in Client : client[c].at \in ScheduleSteps => client[c].source # client[c].target
  /\ \A k \in DOMAIN cleanup :
       \E i \in RowsOf(reindex, cleanup[k].document) :
         reindex[i].activated /\ reindex[i].source = cleanup[k].collection

(* ensure_active_collection(), or the request to build, registers a        *)
(* collection before anything is recorded of it.                           *)
LEMMA NamesRegisteredKept ==
  ASSUME IInv, Standing, NamesRegistered, Event
  PROVE  NamesRegistered'
<1>0. registered \subseteq registered'
  <2>1. ASSUME NEW w \in Ingestor, IngestorActs(w)
        PROVE  registered \subseteq registered'
    BY <2>1 DEF IngestorActs, IngestorEffect, IngestorClaims, IngestorProceeds, IngestorUpserts,
       IngestorLeaves, IngestorFails, IngestorCompletes
  <2> QED
    BY <2>1 DEF Event, RequestProceeds, AttemptReplaced, DeleterActs, DeletionRequested,
       BuilderActs, BuildScheduled, DocumentMoved, CleanerActs, NothingRecorded
<1>1. ASSUME NEW d \in Document, collection'[d] # None
      PROVE  collection'[d] \in registered'
  <2>1. ASSUME NEW w \in Ingestor, IngestorCompletes(w)
        PROVE  collection'[d] = collection[d] \/ collection'[d] \in registered'
    <3>1. ingestor[w].target \in registered
      BY <2>1 DEF IngestorCompletes, Standing, TargetsRegistered, IngestorAt
    <3> QED
      BY <1>0, <2>1, <3>1, CompletesTo
  <2>2. ASSUME NEW i, NEW n, DocumentMoved(i, n)
        PROVE  collection'[d] = collection[d] \/ collection'[d] \in registered'
    BY <1>0, <2>2, MovesTo DEF DocumentMoved, Activates, NamesRegistered
  <2> QED
    BY <1>0, <1>1, <2>1, <2>2, WhoMoves DEF NamesRegistered
<1>2. \A i \in DOMAIN reindex' : reindex'[i].target \in registered'
  <2>1. ASSUME NEW w \in Builder, BuilderActs(w)
        PROVE  \A i \in DOMAIN reindex' : i \in DOMAIN reindex /\ reindex'[i].target = reindex[i].target
    BY <2>1 DEF BuilderActs, BuilderEffect, BuilderClaims, BuilderProceeds, BuilderUpserts,
       BuilderLeaves, BuilderFails, BuilderCompletes, ReindexSetsOf, SetsStatus, PinsKept
  <2>2. ASSUME NEW c \in Client, NEW n, BuildScheduled(c, n)
        PROVE  \A i \in DOMAIN reindex' :
                 \/ i \in DOMAIN reindex /\ reindex'[i].target = reindex[i].target
                 \/ reindex'[i].target \in registered
    BY <2>2 DEF BuildScheduled, ScheduleInserts, Inserts, PinsKept, NamesRegistered
  <2>3. ASSUME NEW i, NEW n, DocumentMoved(i, n)
        PROVE  \A j \in DOMAIN reindex' : j \in DOMAIN reindex /\ reindex'[j].target = reindex[j].target
    BY <2>3 DEF DocumentMoved, Activates
  <2> QED
    BY <1>0, <2>1, <2>2, <2>3, WhoBuilds DEF NamesRegistered
<1>3. ASSUME NEW c \in Client, client'[c].at = "schedule_registered"
      PROVE  client'[c].target \in registered'
  <2>1. CASE client'[c] = client[c]
    BY <1>0, <1>3, <2>1 DEF NamesRegistered, At
  <2>2. ASSUME NEW e \in Client, NEW s, RequestProceeds(e, s), client'[c] # client[c]
        PROVE  client'[c].target \in registered'
    BY <1>3, <2>2 DEF RequestProceeds, ClientBecomes, ScheduleSteps
  <2>3. CASE RequestsStay
    BY <1>3, <2>1, <2>3 DEF RequestsStay
  <2> QED
    BY <2>1, <2>2, <2>3, WhoRequests
<1> QED
  BY <1>1, <1>2, <1>3 DEF NamesRegistered, At

(* The settings have changed before a build is scheduled, and a cleanup is *)
(* inserted by the activation of one.                                      *)
LEMMA NamesApartKept ==
  ASSUME IInv, NamesApart, Event
  PROVE  NamesApart'
<1>1. /\ DOMAIN reindex \subseteq DOMAIN reindex'
      /\ \A i \in DOMAIN reindex :
           /\ reindex'[i].document = reindex[i].document
           /\ reindex'[i].source = reindex[i].source /\ reindex'[i].target = reindex[i].target
           /\ reindex[i].activated => reindex'[i].activated
  <2>1. ASSUME NEW w \in Builder, BuilderActs(w)
        PROVE  /\ DOMAIN reindex' = DOMAIN reindex /\ PinsKept(reindex, reindex')
               /\ \A i \in DOMAIN reindex : reindex'[i].document = reindex[i].document
    BY <2>1 DEF BuilderActs, BuilderEffect, BuilderClaims, BuilderProceeds, BuilderUpserts,
       BuilderLeaves, BuilderFails, BuilderCompletes, ReindexSetsOf, SetsStatus, PinsKept
  <2>2. ASSUME NEW c \in Client, NEW n, BuildScheduled(c, n)
        PROVE  /\ DOMAIN reindex \subseteq DOMAIN reindex' /\ PinsKept(reindex, reindex')
               /\ \A i \in DOMAIN reindex : reindex'[i].document = reindex[i].document
    BY <2>2 DEF BuildScheduled, ScheduleInserts, Inserts
  <2>3. ASSUME NEW j, NEW n, DocumentMoved(j, n)
        PROVE  /\ DOMAIN reindex' = DOMAIN reindex
               /\ \A i \in DOMAIN reindex :
                    /\ reindex'[i].document = reindex[i].document
                    /\ reindex'[i].source = reindex[i].source
                    /\ reindex'[i].target = reindex[i].target
                    /\ reindex[i].activated => reindex'[i].activated
    BY <2>3 DEF DocumentMoved, Activates
  <2> QED
    BY <2>1, <2>2, <2>3, WhoBuilds DEF PinsKept
<1>2. ASSUME NEW c \in Client, client'[c].at \in ScheduleSteps
      PROVE  client'[c].source # client'[c].target
  <2>1. CASE client'[c] = client[c]
    BY <1>2, <2>1 DEF NamesApart
  <2>2. ASSUME NEW e \in Client, NEW s, RequestProceeds(e, s), client'[c] # client[c]
        PROVE  client'[c].source # client'[c].target
    BY <1>2, <2>2 DEF RequestProceeds, ClientBecomes, ScheduleSteps, SameRequest, NamesApart
  <2>3. CASE RequestsStay
    BY <1>2, <2>1, <2>3 DEF RequestsStay, ScheduleSteps
  <2> QED
    BY <2>1, <2>2, <2>3, WhoRequests
<1>3. \A i \in DOMAIN reindex' : reindex'[i].source # reindex'[i].target
  <2>1. ASSUME NEW c \in Client, NEW n, BuildScheduled(c, n)
        PROVE  /\ DOMAIN reindex' = DOMAIN reindex \cup {n}
               /\ reindex'[n].source # reindex'[n].target
    BY <2>1 DEF BuildScheduled, ScheduleInserts, Inserts, NamesApart, At, ScheduleSteps
  <2>2. ASSUME NEW w \in Builder, BuilderActs(w)
        PROVE  DOMAIN reindex' = DOMAIN reindex
    BY <2>2 DEF BuilderActs, BuilderEffect, BuilderClaims, BuilderProceeds, BuilderUpserts,
       BuilderLeaves, BuilderFails, BuilderCompletes, ReindexSetsOf, SetsStatus
  <2>3. ASSUME NEW j, NEW n, DocumentMoved(j, n)
        PROVE  DOMAIN reindex' = DOMAIN reindex
    BY <2>3 DEF DocumentMoved, Activates
  <2>4. DOMAIN reindex' = DOMAIN reindex \/ \E n : /\ DOMAIN reindex' = DOMAIN reindex \cup {n}
                                                  /\ reindex'[n].source # reindex'[n].target
    BY <2>1, <2>2, <2>3, WhoBuilds
  <2>5. \A i \in DOMAIN reindex : reindex'[i].source # reindex'[i].target
    BY <1>1 DEF NamesApart
  <2> QED
    BY <2>4, <2>5
<1>4. ASSUME NEW k \in DOMAIN cleanup'
      PROVE  \E i \in DOMAIN reindex' :
               /\ reindex'[i].document = cleanup'[k].document
               /\ reindex'[i].activated /\ reindex'[i].source = cleanup'[k].collection
  <2>1. CASE /\ k \in DOMAIN cleanup
             /\ cleanup'[k].document = cleanup[k].document
             /\ cleanup'[k].collection = cleanup[k].collection
    <3>1. PICK i \in DOMAIN reindex :
            /\ reindex[i].document = cleanup[k].document
            /\ reindex[i].activated /\ reindex[i].source = cleanup[k].collection
      BY <2>1 DEF NamesApart, RowsOf
    <3> QED
      BY <1>1, <2>1, <3>1
  <2>2. ASSUME NEW w \in Cleaner, CleanerActs(w)
        PROVE  /\ k \in DOMAIN cleanup
               /\ cleanup'[k].document = cleanup[k].document
               /\ cleanup'[k].collection = cleanup[k].collection
    BY <2>2 DEF CleanerActs, CleanerEffect, CleanerClaims, CleanerProceeds, CleanerErases,
       CleanerFails, CleanerCompletes, CleanerLeaves, CleanupSetsOf
  <2>3. ASSUME NEW j, NEW n, DocumentMoved(j, n), k \notin DOMAIN cleanup
        PROVE  \E i \in DOMAIN reindex' :
                 /\ reindex'[i].document = cleanup'[k].document
                 /\ reindex'[i].activated /\ reindex'[i].source = cleanup'[k].collection
    <3>1. k = n /\ cleanup'[k] = PendingCleanupJob(reindex[j]) /\ j \in DOMAIN reindex
      BY <2>3 DEF DocumentMoved, Activates
    <3>2. cleanup'[k].document = reindex[j].document /\ cleanup'[k].collection = reindex[j].source
      BY <3>1 DEF PendingCleanupJob
    <3>3. j \in DOMAIN reindex' /\ reindex'[j].activated
      BY <1>1, <2>3, <3>1 DEF DocumentMoved, Activates
    <3> QED
      BY <1>1, <3>1, <3>2, <3>3
  <2>4. ASSUME NEW j, NEW n, DocumentMoved(j, n), k \in DOMAIN cleanup
        PROVE  cleanup'[k] = cleanup[k]
    BY <2>4 DEF DocumentMoved, Activates
  <2> QED
    BY <2>1, <2>2, <2>3, <2>4, WhoCleans
<1> QED
  BY <1>2, <1>3, <1>4 DEF NamesApart, RowsOf

(* What holds between the tables in every reachable state, whatever is     *)
(* deployed, stale or concurrent: the last rows of a document are its only *)
(* active ones, what is served from or built is registered, and a build    *)
(* leads away from the collection that a cleanup of it names.              *)
THEOREM StandingFacts == Spec => [](Standing /\ NamesRegistered /\ NamesApart)
<1>1. Init => NamesRegistered /\ NamesApart
  BY EmptySeq DEF Init, StoreInit, NoRequest, At, ScheduleSteps, NamesRegistered, NamesApart
<1>2. IInv /\ Standing /\ NamesRegistered /\ NamesApart /\ [Next]_vars =>
        (NamesRegistered /\ NamesApart)'
  <2> SUFFICES ASSUME IInv, Standing, NamesRegistered, NamesApart, [Next]_vars
               PROVE  NamesRegistered' /\ NamesApart'
    OBVIOUS
  <2>1. Event
    BY Events DEF Standing
  <2> QED
    BY <2>1, NamesRegisteredKept, NamesApartKept
<1> QED
  BY <1>1, <1>2, Stands, PTL DEF Spec

---------------------------------------------------------------------------
(* The order of erasing.                                                   *)

(* A deletion job that has recorded the end of the vector cleanup keeps    *)
(* saying so, and an original only goes after such a record.               *)
LEMMA OriginalsErased ==
  ASSUME IInv, Event, NEW d \in Document
  PROVE  /\ d \notin object => d \notin object'
         /\ d \in object /\ d \notin object' => \E i \in RowsOf(deletion, d) : deletion[i].vectorsDone
         /\ (\E i \in RowsOf(deletion, d) : deletion[i].vectorsDone)
              => (\E i \in RowsOf(deletion', d) : deletion'[i].vectorsDone)
<1>1. CASE UNCHANGED <<deletion, object>>
  BY <1>1
<1>2. ASSUME NEW c \in Client, NEW n, DeletionRequested(c, n)
      PROVE  /\ UNCHANGED object
             /\ \A i \in RowsOf(deletion, d) :
                  i \in RowsOf(deletion', d) /\ deletion'[i].vectorsDone = deletion[i].vectorsDone
  BY <1>2 DEF DeletionRequested, DeleteInserts, Inserts, RowsOf
<1>3. ASSUME NEW w \in Deleter, DeleterActs(w)
      PROVE  /\ \A i \in RowsOf(deletion, d) :
                  i \in RowsOf(deletion', d) /\ (deletion[i].vectorsDone => deletion'[i].vectorsDone)
             /\ d \notin object => d \notin object'
             /\ d \in object /\ d \notin object' =>
                  \E i \in RowsOf(deletion, d) : deletion[i].vectorsDone
  <2>1. \A i \in RowsOf(deletion, d) :
          i \in RowsOf(deletion', d) /\ (deletion[i].vectorsDone => deletion'[i].vectorsDone)
    BY <1>3 DEF DeleterActs, DeleterEffect, DeleterClaims, DeleterTracks, DeleterErases,
       DeleterRecords, DeleterErasesObject, DeleterFails, DeleterCompletes, DeleterLeaves,
       DeletionSetsOf, SetsStatus, RowsOf
  <2>2. UNCHANGED object \/ (DeleterAt(w, "vectors_done") /\ object' = object \ {DeleterDocument(w)})
    BY <1>3 DEF DeleterActs, DeleterEffect, DeleterClaims, DeleterTracks, DeleterErases,
       DeleterRecords, DeleterErasesObject, DeleterFails, DeleterCompletes, DeleterLeaves
  <2>3. DeleterAt(w, "vectors_done") =>
          \E i \in RowsOf(deletion, DeleterDocument(w)) : deletion[i].vectorsDone
    BY DEF IInv, SessionsHold, DeletersValid, DeleterAt, DeleterDocument, RowsOf
  <2> QED
    BY <2>1, <2>2, <2>3
<1>4. UNCHANGED object \/ \E w \in Deleter : DeleterActs(w)
  BY DEF Event, RequestProceeds, StoreUnchanged, IngestorActs, AttemptReplaced, DeletionRequested,
         BuilderActs, BuildScheduled, DocumentMoved, CleanerActs, NothingRecorded
<1> QED
  BY <1>1, <1>2, <1>3, <1>4, WhoDeletes

(* The worker erases an original only after all tracked vectors are erased *)
(* and that is recorded, whatever fails, dies or runs concurrently.        *)
THEOREM ErasingOrder == Spec => []VectorsBeforeStorage
<1>1. Init => VectorsBeforeStorage
  BY DEF Init, StoreInit, VectorsBeforeStorage
<1>2. IInv /\ Standing /\ VectorsBeforeStorage /\ IInv' /\ [Next]_vars => VectorsBeforeStorage'
  <2> SUFFICES ASSUME IInv, Standing, IInv', VectorsBeforeStorage, [Next]_vars
               PROVE  VectorsBeforeStorage'
    OBVIOUS
  <2>1. Event
    BY StandingStep
  <2>2. ASSUME NEW d \in Document, d \notin object'
        PROVE  \E i \in RowsOf(deletion', d) : deletion'[i].vectorsDone
    BY <2>1, <2>2, OriginalsErased DEF VectorsBeforeStorage
  <2> QED
    BY <2>2 DEF VectorsBeforeStorage, RowsOf
<1> QED
  BY <1>1, <1>2, Stands, PTL DEF Spec

(* All of it together: what the sessions hold and the order of erasing.    *)
THEOREM Consistency == Spec => [](TypeOK /\ SessionsConsistent)
<1>1. IInv /\ VectorsBeforeStorage => TypeOK /\ SessionsConsistent
  BY DEF IInv, SessionsHold, SessionsConsistent
<1> QED
  BY <1>1, SessionsHeld, ErasingOrder, PTL

---------------------------------------------------------------------------
(* Attempts that are not overtaken.  When recovery only ever takes the     *)
(* rows of dead workers, a live worker's row stays PROCESSING, and a       *)
(* document it found in no collection is put into none meanwhile.          *)

AttemptsHeld ==
  \A w \in Ingestor : ~IngestorAt(w, "idle") =>
    /\ ingestion[ingestor[w].job].status = "processing"
    /\ ingestor[w].base = None => collection[IngestorDocument(w)] = None

(* A document has one live attempt.                                        *)
LEMMA OneAttempt ==
  ASSUME IInv, Standing, AttemptsHeld, NEW v \in Ingestor, NEW w \in Ingestor,
         ~IngestorAt(v, "idle"), ~IngestorAt(w, "idle"),
         ingestor[v].job = ingestor[w].job \/ IngestorDocument(v) = IngestorDocument(w)
  PROVE  v = w
<1>1. StoreType /\ IngestionType /\ IngestorsValid /\ HeldOnceBy(ingestor)
  BY DEF IInv, TypeOK, SessionsHold, HeldOnce
<1>2. /\ ingestor[v].job \in DOMAIN ingestion /\ ingestor[w].job \in DOMAIN ingestion
      /\ DOMAIN ingestion \subseteq Nat /\ DOMAIN ingestor = Ingestor
  BY <1>1, IngestionRow DEF IngestorsValid, IngestorAt, IngestionType
<1>3. ingestor[v].job = ingestor[w].job
  BY <1>2, ActiveIsUnique DEF Standing, AttemptsHeld, IngestorDocument, Active
<1> QED
  BY <1>1, <1>2, <1>3 DEF HeldOnceBy, IngestorAt

(* An activation moves a document that is in some collection.              *)
LEMMA MovedFromSome ==
  ASSUME IInv, NEW i, NEW n, DocumentMoved(i, n), NEW d, collection[d] = None
  PROVE  collection'[d] = None
<1>1. StoreType
  BY DEF IInv, TypeOK
<1>2. reindex[i].source \in Collection /\ collection[reindex[i].document] = reindex[i].source
  BY <1>1, ReindexRow DEF DocumentMoved, Activates
<1>3. collection \in [Document -> Collection \cup {None}]
  BY <1>1 DEF StoreType
<1> QED
  BY <1>2, <1>3, StoreAssumption DEF DocumentMoved, Activates

(* Unless live workers overrun, only its worker takes a claimed job out    *)
(* of processing.                                                          *)
LEMMA AttemptsHeldKept ==
  ASSUME IInv, Standing, ~Overrun, AttemptsHeld, Event
  PROVE  AttemptsHeld'
<1>1. StoreType /\ IngestionType /\ IngestorsValid
  BY DEF IInv, TypeOK, SessionsHold
<1>2. \A v \in Ingestor : ~IngestorAt(v, "idle") => ingestor[v].job \in DOMAIN ingestion
  BY <1>1 DEF IngestorsValid, IngestorAt
<1>3. \A i \in DOMAIN ingestion : ingestion'[i].document = ingestion[i].document
  BY TablesGrow DEF Grows
<1>4. CASE UNCHANGED <<ingestor, ingestion>>
  <2>1. ASSUME NEW w \in Ingestor, IngestorActs(w) /\ IngestorCompletes(w)
        PROVE  FALSE
    <3>1. ~IngestorAt(w, "idle") /\ ingestion'[ingestor[w].job].status = "completed"
      BY <2>1 DEF IngestorCompletes, IngestorAt, SetsStatus
    <3> QED
      BY <1>4, <3>1 DEF AttemptsHeld
  <2>2. \A d : collection[d] = None => collection'[d] = None
    BY <2>1, WhoMoves, MovedFromSome
  <2> QED
    BY <1>4, <2>2 DEF AttemptsHeld, IngestorAt, IngestorDocument
<1>5. ASSUME NEW w \in Ingestor, IngestorActs(w)
      PROVE  AttemptsHeld'
  <2> PICK s : /\ IngestorBecomes(w, s)
               /\ s.at # "idle" =>
                    /\ s.job \in DOMAIN ingestion
                    /\ ingestion'[s.job].status = "processing"
                    /\ s.base = None => collection[ingestion[s.job].document] = None
               /\ s.at # "idle" => UNCHANGED collection
               /\ \A v \in Ingestor : v # w /\ ~IngestorAt(v, "idle") =>
                    /\ ingestion'[ingestor[v].job].status = ingestion[ingestor[v].job].status
                    /\ collection'[IngestorDocument(v)] = collection[IngestorDocument(v)]
    <3>1. CASE \E i : IngestorClaims(w, i)
      <4>1. PICK i : IngestorClaims(w, i)
        BY <3>1
      <4> QED
        BY <1>2, <4>1 DEF IngestorClaims, SetsStatus, AttemptsHeld
    <3>2. CASE \E step \in {"embedded", "registering", "ready"} : IngestorProceeds(w, step)
      <4>1. PICK step \in {"embedded", "registering", "ready"} : IngestorProceeds(w, step)
        BY <3>2
      <4> DEFINE s == [ingestor[w] EXCEPT !.at = step]
      <4>2. s.job = ingestor[w].job /\ s.base = ingestor[w].base
        BY <1>1 DEF IngestionType, IngestorSession
      <4>3. IngestorBecomes(w, s) /\ ~IngestorAt(w, "idle") /\ UNCHANGED <<collection, ingestion>>
        BY <4>1 DEF IngestorProceeds, IngestorAt
      <4> HIDE DEF s
      <4> QED
        BY <1>2, <4>2, <4>3 DEF AttemptsHeld, IngestorDocument
    <3>3. CASE IngestorUpserts(w)
      <4> DEFINE s == [ingestor[w] EXCEPT !.at = "indexed"]
      <4>2. s.job = ingestor[w].job /\ s.base = ingestor[w].base
        BY <1>1 DEF IngestionType, IngestorSession
      <4>3. IngestorBecomes(w, s) /\ ~IngestorAt(w, "idle") /\ UNCHANGED <<collection, ingestion>>
        BY <3>3 DEF IngestorUpserts, IngestorAt
      <4> HIDE DEF s
      <4> QED
        BY <1>2, <4>2, <4>3 DEF AttemptsHeld, IngestorDocument
    <3>4. CASE IngestorLeaves(w)
      BY <3>4 DEF IngestorLeaves, NoIngestion
    <3>5. CASE IngestorFails(w)
      <4>1. ~IngestorAt(w, "idle")
        BY <3>5 DEF IngestorFails, IngestorAt
      <4> QED
        BY <1>2, <3>5, <4>1, OneAttempt DEF IngestorFails, SetsStatus, NoIngestion
    <3>6. CASE IngestorCompletes(w)
      <4>1. ~IngestorAt(w, "idle")
        BY <3>6 DEF IngestorCompletes, IngestorAt
      <4>2. \A v \in Ingestor : v # w /\ ~IngestorAt(v, "idle") =>
              collection'[IngestorDocument(v)] = collection[IngestorDocument(v)]
        BY <1>1, <3>6, <4>1, OneAttempt DEF IngestorCompletes, StoreType
      <4> QED
        BY <1>2, <3>6, <4>1, <4>2, OneAttempt DEF IngestorCompletes, SetsStatus, NoIngestion
    <3> QED
      BY <1>5, <3>1, <3>2, <3>3, <3>4, <3>5, <3>6 DEF IngestorActs, IngestorEffect
  <2> QED
    BY <1>2, <1>3 DEF AttemptsHeld, IngestorBecomes, IngestorAt, IngestorDocument
<1>6. ASSUME NEW i, NEW n, NEW d, AttemptReplaced(i, n, d)
      PROVE  AttemptsHeld'
  <2>1. \A v \in Ingestor : ~IngestorAt(v, "idle") => ingestor[v].job # i
    BY <1>6 DEF AttemptReplaced, IngestionReplaced, Replaceable, MayBeStale, Processed, AttemptsHeld
  <2>2. \A j \in DOMAIN ingestion : j # i => ingestion'[j].status = ingestion[j].status
    BY <1>6 DEF AttemptReplaced, IngestionReplaced, Replaces, SetsStatus, Inserts
  <2>3. UNCHANGED <<ingestor, collection>>
    BY <1>6 DEF AttemptReplaced, WorkersUnchanged
  <2> QED
    BY <1>2, <1>3, <2>1, <2>2, <2>3 DEF AttemptsHeld, IngestorAt, IngestorDocument
<1> QED
  BY <1>4, <1>5, <1>6, WhoIngests

(* The invariant with live attempts that are not overtaken.                *)
LiveInv == IInv /\ Standing /\ AttemptsHeld

(* The invariant for workers that are not overrun holds initially ...      *)
LEMMA LiveInit == Init => LiveInv
<1>1. Init => AttemptsHeld
  BY DEF Init, IngestionInit, NoIngestion, AttemptsHeld, IngestorAt
<1> QED
  BY <1>1, InitInv, StandingInit DEF LiveInv

(* ... and every step keeps it.                                            *)
LEMMA LiveStep ==
  ASSUME ~Overrun, LiveInv, [Next]_vars
  PROVE  Event /\ LiveInv'
<1>1. IInv'
  BY StepInv DEF LiveInv
<1>2. Event /\ Standing'
  BY <1>1, StandingStep DEF LiveInv
<1> QED
  BY <1>1, <1>2, AttemptsHeldKept DEF LiveInv

(* A step revives no FAILED attempt.                                       *)
LEMMA FailedKept ==
  ASSUME LiveInv, Event, NEW i \in DOMAIN ingestion, ingestion[i].status = "failed"
  PROVE  ingestion'[i].status = "failed"
<1>1. CASE UNCHANGED <<ingestor, ingestion>>
  BY <1>1
<1>2. ASSUME NEW w \in Ingestor, IngestorActs(w)
      PROVE  ingestion'[i].status = "failed"
  <2>1. ~IngestorAt(w, "idle") => ingestor[w].job # i
    BY DEF LiveInv, AttemptsHeld
  <2> QED
    BY <1>2, <2>1 DEF IngestorActs, IngestorEffect, IngestorClaims, IngestorProceeds,
       IngestorUpserts, IngestorLeaves, IngestorFails, IngestorCompletes, SetsStatus, IngestorAt
<1>3. ASSUME NEW j, NEW n, NEW d, AttemptReplaced(j, n, d)
      PROVE  ingestion'[i].status = "failed"
  BY <1>3 DEF AttemptReplaced, IngestionReplaced, Replaces, SetsStatus, Inserts
<1> QED
  BY <1>1, <1>2, <1>3, WhoIngests

(* The history of attempts is append-only: a FAILED job is never revived,  *)
(* neither by its worker (fail_ingestion_job, mark_ingestion_completed) nor*)
(* by a retry or a recovery, if recovery takes no live worker's row.       *)
THEOREM FailedIsFinal ==
  ASSUME ~Overrun
  PROVE  Spec => FailedStaysFailed
<1>1. LiveInv /\ [Next]_vars => LiveInv'
  BY LiveStep
<1>2. LiveInv /\ [Next]_vars =>
        [\A i \in DOMAIN ingestion :
           ingestion[i].status = "failed" => ingestion'[i].status = "failed"]_vars
  BY LiveStep, FailedKept
<1> QED
  BY <1>1, <1>2, LiveInit, PTL DEF Spec, FailedStaysFailed

---------------------------------------------------------------------------
(* Workers that live to the end of the call.                               *)

(* Nobody registers a worker's collection between its lookup and its       *)
(* insert: the race ensure_active_collection() can lose.                   *)
RegistrationsAlone ==
  \A w \in Ingestor : IngestorAt(w, "registering") => ingestor[w].target \notin registered

(* A worker that ends its call resolves its row, unless it dies or loses   *)
(* that race: once its collection is registered, the commit of COMPLETED   *)
(* breaks no foreign key.                                                  *)
LEMMA EndsResolved ==
  ASSUME IInv, Standing, RegistrationsAlone, Event,
         NEW w \in Ingestor, w \notin Mortal, ~IngestorAt(w, "idle"), ingestor'[w].at = "idle"
  PROVE  ingestion'[ingestor[w].job].status \notin Active
<1>1. ingestor[w].job \in DOMAIN ingestion /\ ingestor[w] \in IngestorSession
  BY DEF IInv, SessionsHold, IngestorsValid, IngestorAt, TypeOK, IngestionType
<1>2. CASE IngestorFails(w) \/ IngestorCompletes(w)
  BY <1>1, <1>2 DEF IngestorFails, IngestorCompletes, SetsStatus, Active
<1>3. ~IngestorLeaves(w)
  BY DEF IngestorLeaves, RegistrationsAlone, Standing, TargetsRegistered, IngestorAt
<1>4. ASSUME NEW v \in Ingestor, IngestorActs(v)
      PROVE  v = w
  BY <1>4 DEF IngestorActs, IngestorEffect, IngestorClaims, IngestorProceeds, IngestorUpserts,
              IngestorLeaves, IngestorFails, IngestorCompletes, IngestorBecomes, IngestorAt
<1>5. ASSUME IngestorActs(w)
      PROVE  IngestorFails(w) \/ IngestorCompletes(w)
  <2>1. ASSUME NEW step \in {"embedded", "registering", "ready"}, IngestorProceeds(w, step)
        PROVE  FALSE
    BY <1>1, <2>1 DEF IngestorProceeds, IngestorBecomes, IngestorSession
  <2>2. ~IngestorUpserts(w)
    BY <1>1 DEF IngestorUpserts, IngestorBecomes, IngestorSession
  <2>3. \A i : ~IngestorClaims(w, i)
    BY DEF IngestorClaims
  <2> QED
    BY <1>3, <1>5, <2>1, <2>2, <2>3 DEF IngestorActs, IngestorEffect
<1>6. CASE UNCHANGED ingestor
  BY <1>6 DEF IngestorAt
<1> QED
  BY <1>2, <1>4, <1>5, <1>6, WhoIngests DEF AttemptReplaced, WorkersUnchanged

(* process_next_job() resolves the job it claimed: whatever is raised on   *)
(* the way, a worker that is not killed leaves no active row behind, unless*)
(* it loses the race to register its collection.                           *)
THEOREM JobsSettled ==
  ASSUME Ingestor \cap Mortal = {}
  PROVE  Spec /\ []RegistrationsAlone => WorkersSettleTheirJobs
<1>1. IInv /\ Standing /\ RegistrationsAlone /\ [Next]_vars =>
        [\A w \in Ingestor :
           ~IngestorAt(w, "idle") /\ ingestor'[w].at = "idle"
             => ingestion'[ingestor[w].job].status \notin Active]_vars
  BY StepInv, StandingStep, EndsResolved
<1> QED
  BY <1>1, Stands, PTL DEF Spec, WorkersSettleTheirJobs

---------------------------------------------------------------------------
(* Re-indexing forward.  Redeployments are such that no settings are left  *)
(* for others that are left in their turn: collections are either left by  *)
(* the redeployment or reached by it, and documents only move from the     *)
(* former to the latter.                                                   *)

OneRedeployment == \A p, q \in Reconfiguration : p[2] # q[1]

Left == {q[1] : q \in Reconfiguration}

(* A collection the settings resolve to, or did before.                    *)
Settled(k) == k = configured \/ (k \in Left /\ configured \notin Left)

(* From a collection that has been left to the one of the settings.        *)
Ahead(source, target) == source \in Left /\ target = configured /\ target \notin Left

Moved(d) == collection[d] \notin Left \cup {None}

CollectionsSettled == \A d \in Document : collection[d] # None => Settled(collection[d])

AttemptsForward ==
  \A w \in Ingestor : ~IngestorAt(w, "idle") =>
    /\ Settled(ingestor[w].target)
    /\ ingestor[w].base \in {None, ingestor[w].target} \/ ingestor[w].target \notin Left

BuildsAhead ==
  /\ \A c \in Client : client[c].at \in ScheduleSteps => Ahead(client[c].source, client[c].target)
  /\ \A i \in DOMAIN reindex : Ahead(reindex[i].source, reindex[i].target)

ActivatedMoved ==
  /\ \A i \in DOMAIN reindex : reindex[i].activated => Moved(reindex[i].document)
  /\ \A i \in DOMAIN cleanup : cleanup[i].collection \in Left /\ Moved(cleanup[i].document)

MovesForward == CollectionsSettled /\ AttemptsForward /\ BuildsAhead /\ ActivatedMoved

(* The settings are changed once at most.                                  *)
LEMMA DeployedOnce ==
  ASSUME OneRedeployment, Event
  PROVE  configured' = configured \/ (configured \in Left /\ configured' \notin Left)
<1>1. configured' = configured \/ <<configured, configured'>> \in Reconfiguration
  BY DEF Event, RequestProceeds, StoreUnchanged, IngestorActs, AttemptReplaced, DeleterActs,
         DeletionRequested, BuilderActs, BuildScheduled, DocumentMoved, CleanerActs, NothingRecorded
<1>2. ASSUME <<configured, configured'>> \in Reconfiguration
      PROVE  configured \in Left /\ configured' \notin Left
  <2> DEFINE p == <<configured, configured'>>
  <2>1. p \in Reconfiguration /\ p[1] = configured /\ p[2] = configured'
    BY <1>2
  <2> HIDE DEF p
  <2> QED
    BY <2>1 DEF Left, OneRedeployment
<1> QED
  BY <1>1, <1>2

(* What they resolved to before stays so.                                  *)
LEMMA SettledKept ==
  ASSUME OneRedeployment, Event
  PROVE  \A k : Settled(k) => k = configured' \/ (k \in Left /\ configured' \notin Left)
  BY DeployedOnce DEF Settled

(* Documents stay in collections of the settings, present or past ...      *)
LEMMA CollectionsSettledKept ==
  ASSUME OneRedeployment, IInv, MovesForward, Event
  PROVE  CollectionsSettled'
<1> SUFFICES ASSUME NEW d \in Document, collection'[d] # None
             PROVE  Settled(collection[d])'
  BY DEF CollectionsSettled
<1>1. collection'[d] = collection[d] \/ Settled(collection'[d])
  <2>1. ASSUME NEW w \in Ingestor, IngestorCompletes(w)
        PROVE  collection'[d] = collection[d] \/ Settled(collection'[d])
    BY <2>1, CompletesTo DEF MovesForward, AttemptsForward, IngestorCompletes, IngestorAt
  <2>2. ASSUME NEW i, NEW n, DocumentMoved(i, n)
        PROVE  collection'[d] = collection[d] \/ Settled(collection'[d])
    <3>1. i \in DOMAIN reindex
      BY <2>2 DEF DocumentMoved, Activates
    <3> QED
      BY <2>2, <3>1, MovesTo DEF MovesForward, BuildsAhead, Ahead, Settled
  <2> QED
    BY <2>1, <2>2, WhoMoves
<1> QED
  BY <1>1, SettledKept DEF MovesForward, CollectionsSettled, Settled

(* ... attempts only move a document on to a collection not left ...       *)
LEMMA AttemptsForwardKept ==
  ASSUME OneRedeployment, IInv, MovesForward, Event
  PROVE  AttemptsForward'
<1>1. StoreType /\ IngestionType
  BY DEF IInv, TypeOK
<1>2. CASE UNCHANGED ingestor
  BY <1>2, SettledKept DEF MovesForward, AttemptsForward, IngestorAt, Settled
<1>3. ASSUME NEW w \in Ingestor, IngestorActs(w)
      PROVE  AttemptsForward'
  <2> PICK s : /\ IngestorBecomes(w, s)
               /\ s.at # "idle" =>
                    /\ Settled(s.target)
                    /\ s.base \in {None, s.target} \/ s.target \notin Left
    <3>1. CASE \E i : IngestorClaims(w, i)
      <4>1. PICK i : IngestorClaims(w, i)
        BY <3>1
      <4>2. ingestion[i].document \in Document
        BY <1>1, <4>1, IngestionRow DEF IngestorClaims
      <4> DEFINE s == [at |-> "claimed", job |-> i, target |-> configured,
                       base |-> collection[ingestion[i].document]]
      <4>3. Settled(s.target) /\ (s.base \in {None, s.target} \/ s.target \notin Left)
        BY <4>2 DEF MovesForward, CollectionsSettled, Settled
      <4> QED
        BY <4>1, <4>3 DEF IngestorClaims
    <3>2. CASE \E step \in {"embedded", "registering", "ready"} : IngestorProceeds(w, step)
      <4>1. PICK step \in {"embedded", "registering", "ready"} : IngestorProceeds(w, step)
        BY <3>2
      <4> DEFINE s == [ingestor[w] EXCEPT !.at = step]
      <4>2. s.target = ingestor[w].target /\ s.base = ingestor[w].base
        BY <1>1 DEF IngestionType, IngestorSession
      <4>3. IngestorBecomes(w, s) /\ ~IngestorAt(w, "idle")
        BY <4>1 DEF IngestorProceeds, IngestorAt
      <4> HIDE DEF s
      <4> QED
        BY <4>2, <4>3 DEF MovesForward, AttemptsForward
    <3>3. CASE IngestorUpserts(w)
      <4> DEFINE s == [ingestor[w] EXCEPT !.at = "indexed"]
      <4>2. s.target = ingestor[w].target /\ s.base = ingestor[w].base
        BY <1>1 DEF IngestionType, IngestorSession
      <4>3. IngestorBecomes(w, s) /\ ~IngestorAt(w, "idle")
        BY <3>3 DEF IngestorUpserts, IngestorAt
      <4> HIDE DEF s
      <4> QED
        BY <4>2, <4>3 DEF MovesForward, AttemptsForward
    <3>4. CASE IngestorLeaves(w) \/ IngestorFails(w) \/ IngestorCompletes(w)
      <4>1. IngestorBecomes(w, NoIngestion)
        BY <3>4 DEF IngestorLeaves, IngestorFails, IngestorCompletes
      <4> QED
        BY <4>1 DEF NoIngestion
    <3> QED
      BY <1>3, <3>1, <3>2, <3>3, <3>4 DEF IngestorActs, IngestorEffect
  <2>1. UNCHANGED configured
    BY <1>3 DEF IngestorActs
  <2> QED
    BY <2>1 DEF MovesForward, AttemptsForward, IngestorBecomes, IngestorAt, Settled
<1> QED
  BY <1>2, <1>3, WhoIngests DEF AttemptReplaced, WorkersUnchanged

(* ... builds, and requests for one, lead from a collection left to the    *)
(* one of the settings ...                                                 *)
LEMMA BuildsAheadKept ==
  ASSUME OneRedeployment, IInv, MovesForward, Event
  PROVE  BuildsAhead'
<1>1. \A a, b : Ahead(a, b) => a \in Left /\ b = configured' /\ b \notin Left
  BY DeployedOnce DEF Ahead
<1>2. "idle" \notin ScheduleSteps /\ "activate_loaded" \notin ScheduleSteps
  BY DEF ScheduleSteps
<1>3. \A c \in Client : client'[c].at \in ScheduleSteps => Ahead(client'[c].source, client'[c].target)
  <2>1. ASSUME NEW c \in Client, NEW s, RequestProceeds(c, s), s.at \in ScheduleSteps
        PROVE  Ahead(s.source, s.target)
    <3>1. CASE s.at = "schedule_read"
      <4>1. s.document \in Document /\ s.source = collection[s.document] /\ s.target = configured
            /\ s.source \notin {None, configured}
        BY <2>1, <3>1 DEF RequestProceeds, ScheduleSteps
      <4> QED
        BY <4>1 DEF MovesForward, CollectionsSettled, Settled, Ahead
    <3>2. CASE s.at # "schedule_read"
      <4>1. client[c].at \in ScheduleSteps /\ SameRequest(c, s)
        BY <2>1, <3>2 DEF RequestProceeds, ScheduleSteps
      <4> QED
        BY <4>1 DEF MovesForward, BuildsAhead, SameRequest
    <3> QED
      BY <3>1, <3>2
  <2>2. CASE RequestsStay
    BY <1>2, <2>2 DEF RequestsStay, MovesForward, BuildsAhead
  <2>3. CASE \E c \in Client : \E s : RequestProceeds(c, s)
    BY <2>1, <2>3 DEF RequestProceeds, ClientBecomes, MovesForward, BuildsAhead
  <2> QED
    BY <2>2, <2>3, WhoRequests
<1>4. \A i \in DOMAIN reindex' : Ahead(reindex'[i].source, reindex'[i].target)
  <2>1. CASE UNCHANGED reindex
    BY <2>1 DEF MovesForward, BuildsAhead
  <2>2. ASSUME NEW w \in Builder, BuilderActs(w)
        PROVE  \A i \in DOMAIN reindex' : Ahead(reindex'[i].source, reindex'[i].target)
    <3>1. UNCHANGED reindex \/ \E i, s : ReindexSetsOf(i, s)
      BY <2>2 DEF BuilderActs, BuilderEffect, BuilderClaims, BuilderProceeds, BuilderUpserts,
                  BuilderFails, BuilderCompletes, BuilderLeaves
    <3> QED
      BY <2>1, <3>1 DEF ReindexSetsOf, SetsStatus, PinsKept, MovesForward, BuildsAhead
  <2>3. ASSUME NEW c \in Client, NEW n, BuildScheduled(c, n)
        PROVE  \A i \in DOMAIN reindex' : Ahead(reindex'[i].source, reindex'[i].target)
    <3>1. client[c].at \in ScheduleSteps
      BY <2>3 DEF BuildScheduled, ScheduleInserts, At, ScheduleSteps
    <3> QED
      BY <2>3, <3>1 DEF BuildScheduled, ScheduleInserts, Inserts, PinsKept, MovesForward, BuildsAhead
  <2>4. ASSUME NEW j, NEW n, DocumentMoved(j, n)
        PROVE  \A i \in DOMAIN reindex' : Ahead(reindex'[i].source, reindex'[i].target)
    BY <2>4 DEF DocumentMoved, Activates, MovesForward, BuildsAhead
  <2> QED
    BY <2>1, <2>2, <2>3, <2>4, WhoBuilds
<1> QED
  BY <1>1, <1>3, <1>4 DEF BuildsAhead, Ahead

(* ... and what was moved is not moved back.                               *)
LEMMA MovedStays ==
  ASSUME IInv, AttemptsHeld, MovesForward, Event, NEW d \in Document, Moved(d)
  PROVE  Moved(d)'
<1>1. ASSUME NEW w \in Ingestor, IngestorCompletes(w)
      PROVE  Moved(d)'
  <2>1. ~IngestorAt(w, "idle")
    BY <1>1 DEF IngestorCompletes, IngestorAt
  <2>2. ingestor[w].target \in Collection
    BY <2>1 DEF IInv, SessionsHold, IngestorsValid, IngestorAt
  <2> QED
    BY <1>1, <2>1, <2>2, CompletesTo, StoreAssumption
       DEF AttemptsHeld, MovesForward, AttemptsForward, Moved
<1>2. ASSUME NEW i, NEW n, DocumentMoved(i, n)
      PROVE  Moved(d)'
  <2>1. i \in DOMAIN reindex
    BY <1>2 DEF DocumentMoved, Activates
  <2>2. reindex[i].target \in Collection
    BY <2>1, ReindexRow DEF IInv, TypeOK
  <2> QED
    BY <1>2, <2>1, <2>2, MovesTo, StoreAssumption DEF MovesForward, BuildsAhead, Ahead, Moved
<1> QED
  BY <1>1, <1>2, WhoMoves DEF Moved

(* A document that an activation moves has been moved forward, and is      *)
(* moved no more.                                                          *)
LEMMA ActivatedMovedKept ==
  ASSUME IInv, IInv', AttemptsHeld, MovesForward, Event
  PROVE  ActivatedMoved'
<1>1. StoreType /\ StoreType'
  BY DEF IInv, TypeOK
<1>2. /\ \A i \in DOMAIN reindex : reindex[i].document \in Document
      /\ \A i \in DOMAIN cleanup : cleanup[i].document \in Document
  <2>1. \A i \in DOMAIN cleanup : cleanup[i] \in CleanupJob
    BY <1>1, TableRow DEF StoreType
  <2> QED
    BY <1>1, <2>1, ReindexRow DEF CleanupJob
<1>3. \A d \in Document : Moved(d) => Moved(d)'
  BY MovedStays
<1>4. ASSUME NEW i, NEW n, DocumentMoved(i, n)
      PROVE  /\ i \in DOMAIN reindex /\ Moved(reindex[i].document)'
             /\ reindex[i].source \in Left
  <2>1. i \in DOMAIN reindex
    BY <1>4 DEF DocumentMoved, Activates
  <2>2. reindex[i].document \in Document /\ reindex[i].target \in Collection
    BY <1>1, <2>1, ReindexRow
  <2>3. collection'[reindex[i].document] = reindex[i].target
    BY <1>4, <2>2, MovesTo
  <2>4. UNCHANGED (reindex[i].document)
    BY <1>4, <2>1 DEF DocumentMoved, Activates
  <2> QED
    BY <2>1, <2>2, <2>3, <2>4, StoreAssumption DEF MovesForward, BuildsAhead, Ahead, Moved
<1>5. \A i \in DOMAIN reindex' : reindex'[i].activated => Moved(reindex[i].document)'
  <2>1. CASE \A i \in DOMAIN reindex' : reindex'[i].activated =>
               /\ i \in DOMAIN reindex /\ reindex[i].activated
               /\ reindex'[i].document = reindex[i].document
    BY <1>2, <1>3, <2>1 DEF MovesForward, ActivatedMoved, Moved
  <2>2. ASSUME NEW w \in Builder, BuilderActs(w)
        PROVE  \A i \in DOMAIN reindex' : reindex'[i].activated =>
               /\ i \in DOMAIN reindex /\ reindex[i].activated
               /\ reindex'[i].document = reindex[i].document
    BY <2>2 DEF BuilderActs, BuilderEffect, BuilderClaims, BuilderProceeds, BuilderUpserts,
                BuilderFails, BuilderCompletes, BuilderLeaves, ReindexSetsOf, SetsStatus, PinsKept
  <2>3. ASSUME NEW c \in Client, NEW n, BuildScheduled(c, n)
        PROVE  \A i \in DOMAIN reindex' : reindex'[i].activated =>
               /\ i \in DOMAIN reindex /\ reindex[i].activated
               /\ reindex'[i].document = reindex[i].document
    BY <2>3 DEF BuildScheduled, ScheduleInserts, Inserts, PinsKept
  <2>4. ASSUME NEW j, NEW n, DocumentMoved(j, n)
        PROVE  \A i \in DOMAIN reindex' : reindex'[i].activated => Moved(reindex[i].document)'
    <3>1. /\ Moved(reindex[j].document)'
          /\ DOMAIN reindex' = DOMAIN reindex
          /\ \A i \in DOMAIN reindex : /\ reindex'[i].document = reindex[i].document
                                       /\ i # j /\ reindex'[i].activated => reindex[i].activated
      BY <1>4, <2>4 DEF DocumentMoved, Activates
    <3>2. ASSUME NEW i \in DOMAIN reindex, i # j, reindex'[i].activated
          PROVE  Moved(reindex[i].document)'
      <4>1. PICK d \in Document : d = reindex[i].document
        BY <1>2
      <4>2. reindex'[i].document = d
        BY <3>1, <4>1
      <4>5. reindex[i].activated
        BY <3>1, <3>2
      <4>3. Moved(d)
        BY <4>1, <4>5 DEF MovesForward, ActivatedMoved
      <4>4. Moved(d)'
        BY <1>3, <4>3
      <4> QED
        BY <4>2, <4>4 DEF Moved
    <3> QED
      BY <3>1, <3>2
  <2> QED
    BY <2>1, <2>2, <2>3, <2>4, WhoBuilds
<1>6. \A i \in DOMAIN cleanup' : cleanup'[i].collection \in Left /\ Moved(cleanup[i].document)'
  <2>1. CASE \A i \in DOMAIN cleanup' :
               /\ i \in DOMAIN cleanup /\ cleanup'[i].collection = cleanup[i].collection
               /\ cleanup'[i].document = cleanup[i].document
    BY <1>2, <1>3, <2>1 DEF MovesForward, ActivatedMoved, Moved
  <2>2. ASSUME NEW w \in Cleaner, CleanerActs(w)
        PROVE  \A i \in DOMAIN cleanup' :
               /\ i \in DOMAIN cleanup /\ cleanup'[i].collection = cleanup[i].collection
               /\ cleanup'[i].document = cleanup[i].document
    BY <2>2 DEF CleanerActs, CleanerEffect, CleanerClaims, CleanerProceeds, CleanerErases,
                CleanerFails, CleanerCompletes, CleanerLeaves, CleanupSetsOf
  <2>3. ASSUME NEW j, NEW n, DocumentMoved(j, n)
        PROVE  \A i \in DOMAIN cleanup' : cleanup'[i].collection \in Left /\ Moved(cleanup[i].document)'
    <3>1. cleanup'[n].collection = reindex[j].source /\ cleanup'[n].document = reindex[j].document
      BY <2>3 DEF DocumentMoved, Activates, PendingCleanupJob
    <3>2. Moved(cleanup[n].document)' /\ cleanup'[n].collection \in Left
      BY <1>4, <2>3, <3>1 DEF Moved, DocumentMoved, Activates
    <3> QED
      BY <1>2, <1>3, <2>3, <3>2 DEF DocumentMoved, Activates, MovesForward, ActivatedMoved, Moved
  <2> QED
    BY <2>1, <2>2, <2>3, WhoCleans
<1> QED
  BY <1>5, <1>6 DEF ActivatedMoved

ForwardInv == LiveInv /\ MovesForward

(* The invariant for settings that move forward holds initially ...        *)
LEMMA ForwardInit == Init => ForwardInv
<1> SUFFICES ASSUME Init PROVE MovesForward
  BY LiveInit DEF ForwardInv
<1> USE DEF Init, StoreInit
<1>1. CollectionsSettled /\ AttemptsForward
  BY DEF CollectionsSettled, AttemptsForward, IngestionInit, NoIngestion, IngestorAt
<1>2. BuildsAhead /\ ActivatedMoved
  BY DEF BuildsAhead, ActivatedMoved, NoRequest, ScheduleSteps
<1> QED
  BY <1>1, <1>2 DEF MovesForward

(* ... and every step keeps it.                                            *)
LEMMA ForwardStep ==
  ASSUME ~Overrun, OneRedeployment, ForwardInv, [Next]_vars
  PROVE  Event /\ ForwardInv'
<1>1. LiveInv /\ Event /\ LiveInv'
  BY LiveStep DEF ForwardInv
<1>2. IInv /\ IInv' /\ AttemptsHeld
  BY <1>1 DEF LiveInv
<1>3. CollectionsSettled' /\ AttemptsForward'
  BY <1>1, <1>2, CollectionsSettledKept, AttemptsForwardKept DEF ForwardInv
<1>4. BuildsAhead' /\ ActivatedMoved'
  BY <1>1, <1>2, BuildsAheadKept, ActivatedMovedKept DEF ForwardInv
<1> QED
  BY <1>1, <1>3, <1>4 DEF ForwardInv, MovesForward

---------------------------------------------------------------------------
(* Activation.                                                             *)

ActivatedRows(d) == {i \in RowsOf(reindex, d) : reindex[i].activated}

(* What other steps than an activation leave alone.                        *)
LEMMA ActivationsStay ==
  ASSUME IInv, Event, NEW d, ~ \E i, n : DocumentMoved(i, n)
  PROVE  RowsOf(cleanup, d)' = RowsOf(cleanup, d) /\ ActivatedRows(d)' = ActivatedRows(d)
<1>1. RowsOf(cleanup, d)' = RowsOf(cleanup, d)
  <2>1. ASSUME NEW w \in Cleaner, CleanerActs(w)
        PROVE  RowsOf(cleanup, d)' = RowsOf(cleanup, d)
    <3>1. UNCHANGED cleanup \/ \E i, s : CleanupSetsOf(i, s)
      BY <2>1 DEF CleanerActs, CleanerEffect, CleanerClaims, CleanerProceeds, CleanerErases,
                  CleanerFails, CleanerCompletes, CleanerLeaves
    <3> QED
      BY <3>1 DEF CleanupSetsOf, RowsOf
  <2> QED
    BY <2>1, WhoCleans DEF RowsOf
<1>2. ActivatedRows(d)' = ActivatedRows(d)
  <2>1. ASSUME NEW w \in Builder, BuilderActs(w)
        PROVE  ActivatedRows(d)' = ActivatedRows(d)
    <3>1. UNCHANGED reindex \/ \E i, s : ReindexSetsOf(i, s)
      BY <2>1 DEF BuilderActs, BuilderEffect, BuilderClaims, BuilderProceeds, BuilderUpserts,
                  BuilderFails, BuilderCompletes, BuilderLeaves
    <3> QED
      BY <3>1 DEF ReindexSetsOf, SetsStatus, PinsKept, ActivatedRows, RowsOf
  <2>2. ASSUME NEW c \in Client, NEW n, BuildScheduled(c, n)
        PROVE  ActivatedRows(d)' = ActivatedRows(d)
    BY <2>2 DEF BuildScheduled, ScheduleInserts, Inserts, PinsKept, ActivatedRows, RowsOf
  <2> QED
    BY <2>1, <2>2, WhoBuilds DEF ActivatedRows, RowsOf
<1> QED
  BY <1>1, <1>2

(* An activation stamps a job that was not, and adds one cleanup job.      *)
LEMMA ActivationAdds ==
  ASSUME ForwardInv, NEW i, NEW n, DocumentMoved(i, n), NEW d
  PROVE  IF d = reindex[i].document
           THEN /\ n \notin RowsOf(cleanup, d) /\ RowsOf(cleanup, d)' = RowsOf(cleanup, d) \cup {n}
                /\ i \notin ActivatedRows(d) /\ ActivatedRows(d)' = ActivatedRows(d) \cup {i}
           ELSE RowsOf(cleanup, d)' = RowsOf(cleanup, d) /\ ActivatedRows(d)' = ActivatedRows(d)
<1>1. /\ i \in DOMAIN reindex /\ DOMAIN reindex' = DOMAIN reindex
      /\ collection[reindex[i].document] = reindex[i].source
      /\ reindex'[i].activated
      /\ \A j \in DOMAIN reindex :
           /\ reindex'[j].document = reindex[j].document
           /\ j # i => (reindex'[j].activated <=> reindex[j].activated)
  BY DEF DocumentMoved, Activates
<1>2. ~reindex[i].activated
  BY <1>1 DEF ForwardInv, MovesForward, ActivatedMoved, BuildsAhead, Ahead, Moved
<1>3. /\ n \notin DOMAIN cleanup /\ DOMAIN cleanup' = DOMAIN cleanup \cup {n}
      /\ \A j \in DOMAIN cleanup : cleanup'[j] = cleanup[j]
      /\ cleanup'[n].document = reindex[i].document
  BY DEF DocumentMoved, Activates, PendingCleanupJob
<1>4. CASE d = reindex[i].document
  <2>1. n \notin RowsOf(cleanup, d) /\ RowsOf(cleanup, d)' = RowsOf(cleanup, d) \cup {n}
    BY <1>3, <1>4 DEF RowsOf
  <2>2. i \notin ActivatedRows(d) /\ ActivatedRows(d)' = ActivatedRows(d) \cup {i}
    BY <1>1, <1>2, <1>4 DEF ActivatedRows, RowsOf
  <2> QED
    BY <1>4, <2>1, <2>2
<1>5. CASE d # reindex[i].document
  <2>1. RowsOf(cleanup, d)' = RowsOf(cleanup, d)
    BY <1>3, <1>5 DEF RowsOf
  <2>2. ActivatedRows(d)' = ActivatedRows(d)
    BY <1>1, <1>5 DEF ActivatedRows, RowsOf
  <2> QED
    BY <1>5, <2>1, <2>2
<1> QED
  BY <1>4, <1>5

(* An activation adds one stamp and one cleanup job, other steps none.     *)
LEMMA ActivatedOnceKept ==
  ASSUME ForwardInv, Event, ActivatedOnce
  PROVE  ActivatedOnce'
<1> SUFFICES ASSUME NEW d \in Document
             PROVE  Cardinality(RowsOf(cleanup, d)') = Cardinality(ActivatedRows(d)')
  BY DEF ActivatedOnce, ActivatedRows
<1>1. Cardinality(RowsOf(cleanup, d)) = Cardinality(ActivatedRows(d))
  BY DEF ActivatedOnce, ActivatedRows
<1>2. IInv /\ StoreType
  BY DEF ForwardInv, LiveInv, IInv, TypeOK
<1>3. CASE ~ \E i, n : DocumentMoved(i, n)
  BY <1>1, <1>2, <1>3, ActivationsStay
<1>4. ASSUME NEW i, NEW n, DocumentMoved(i, n)
      PROVE  Cardinality(RowsOf(cleanup, d)') = Cardinality(ActivatedRows(d)')
  <2>1. IsFiniteSet(RowsOf(cleanup, d)) /\ IsFiniteSet(ActivatedRows(d))
    <3>1. /\ cleanup \in Seq(CleanupJob) /\ reindex \in Seq(ReindexJob)
      BY <1>2 DEF StoreType
    <3>2. /\ Len(cleanup) \in Nat /\ DOMAIN cleanup = 1..Len(cleanup)
          /\ Len(reindex) \in Nat /\ DOMAIN reindex = 1..Len(reindex)
      BY <3>1, LenProperties
    <3>3. IsFiniteSet(1..Len(cleanup)) /\ IsFiniteSet(1..Len(reindex))
      BY <3>2, FS_Interval
    <3>4. RowsOf(cleanup, d) \subseteq 1..Len(cleanup) /\ ActivatedRows(d) \subseteq 1..Len(reindex)
      BY <3>2 DEF RowsOf, ActivatedRows
    <3> QED
      BY <3>3, <3>4, FS_Subset
  <2>2. CASE d = reindex[i].document
    <3>1. /\ n \notin RowsOf(cleanup, d) /\ RowsOf(cleanup, d)' = RowsOf(cleanup, d) \cup {n}
          /\ i \notin ActivatedRows(d) /\ ActivatedRows(d)' = ActivatedRows(d) \cup {i}
      BY <1>4, <2>2, ActivationAdds
    <3>2. /\ Cardinality(RowsOf(cleanup, d) \cup {n}) = Cardinality(RowsOf(cleanup, d)) + 1
          /\ Cardinality(ActivatedRows(d) \cup {i}) = Cardinality(ActivatedRows(d)) + 1
      BY <2>1, <3>1, FS_AddElement
    <3> QED
      BY <1>1, <3>1, <3>2
  <2>3. CASE d # reindex[i].document
    BY <1>1, <1>4, <2>3, ActivationAdds
  <2> QED
    BY <2>2, <2>3
<1> QED
  BY <1>3, <1>4

(* There is one cleanup obligation per activated build, whatever requests  *)
(* for it are repeated or overlap (activate_reindexed_document), if the    *)
(* settings move forward.  (With a rollback the stale read of the job's    *)
(* status activates it twice.)                                             *)
THEOREM OneActivation ==
  ASSUME ~Overrun, OneRedeployment
  PROVE  Spec => []ActivatedOnce
<1>1. Init => ForwardInv /\ ActivatedOnce
  <2>1. Init => ActivatedOnce
    <3> SUFFICES ASSUME Init PROVE ActivatedOnce
      OBVIOUS
    <3>1. cleanup = <<>> /\ reindex = <<>>
      BY DEF Init, StoreInit
    <3>2. \A d : RowsOf(cleanup, d) = {} /\ {i \in RowsOf(reindex, d) : reindex[i].activated} = {}
      BY <3>1, EmptySeq DEF RowsOf
    <3> QED
      BY <3>2 DEF ActivatedOnce
  <2> QED
    BY <2>1, ForwardInit
<1>2. ForwardInv /\ ActivatedOnce /\ [Next]_vars => (ForwardInv /\ ActivatedOnce)'
  BY ForwardStep, ActivatedOnceKept
<1> QED
  BY <1>1, <1>2, PTL DEF Spec

---------------------------------------------------------------------------
(* Serving.                                                                *)

(* Points are erased from a document being deleted, or from a collection   *)
(* the document has been moved away from.                                  *)
LEMMA ErasedOnly ==
  ASSUME ForwardInv, Event, NEW c, NEW d, <<c, d>> \in vectors, <<c, d>> \notin vectors'
  PROVE  RowsOf(deletion, d) # {} \/ (c \in Left /\ Moved(d))
<1>0. IInv /\ MovesForward
  BY DEF ForwardInv, LiveInv
<1>1. ASSUME NEW w \in Deleter, DeleterActs(w)
      PROVE  RowsOf(deletion, d) # {}
  <2>1. PICK k : DeleterErases(w, k)
    BY <1>1 DEF DeleterActs, DeleterEffect, DeleterClaims, DeleterTracks, DeleterRecords,
                DeleterErasesObject, DeleterFails, DeleterCompletes, DeleterLeaves
  <2>2. d = deletion[deleter[w].job].document
    BY <2>1 DEF DeleterErases, DeleterDocument
  <2>3. deleter[w].job \in DOMAIN deletion
    BY <1>0, <2>1 DEF IInv, SessionsHold, DeletersValid, DeleterErases, DeleterAt
  <2> QED
    BY <2>2, <2>3 DEF RowsOf
<1>2. ASSUME NEW w \in Cleaner, CleanerActs(w)
      PROVE  c \in Left /\ Moved(d)
  <2>1. ~CleanerAt(w, "idle") /\ c = CleanedJob(w).collection /\ d = CleanedJob(w).document
    BY <1>2 DEF CleanerActs, CleanerEffect, CleanerClaims, CleanerProceeds, CleanerErases,
                CleanerFails, CleanerCompletes, CleanerLeaves, CleanerAt
  <2>2. cleaner[w].job \in DOMAIN cleanup
    BY <1>0, <2>1 DEF IInv, SessionsHold, CleanersValid, CleanerAt
  <2> QED
    BY <1>0, <2>1, <2>2 DEF MovesForward, ActivatedMoved, CleanedJob
<1>3. ASSUME NEW w \in Ingestor, IngestorActs(w)
      PROVE  FALSE
  BY <1>3 DEF IngestorActs, IngestorEffect, IngestorClaims, IngestorProceeds, IngestorUpserts,
              IngestorLeaves, IngestorFails, IngestorCompletes
<1>4. ASSUME NEW w \in Builder, BuilderActs(w)
      PROVE  FALSE
  BY <1>4 DEF BuilderActs, BuilderEffect, BuilderClaims, BuilderProceeds, BuilderUpserts,
              BuilderFails, BuilderCompletes, BuilderLeaves
<1> QED
  BY <1>1, <1>2, <1>3, <1>4, WhoWrites

(* A cleanup never erases what a document is served from: that is only     *)
(* done by a deletion (the guard of process_next_vector_cleanup_job, read  *)
(* before the delete, holds until then), if the settings move forward.     *)
THEOREM ServingSpared ==
  ASSUME ~Overrun, OneRedeployment
  PROVE  Spec => CleanupSparesServing
<1>1. ForwardInv /\ [Next]_vars => ForwardInv'
  BY ForwardStep
<1>2. ForwardInv /\ [Next]_vars =>
        [\A d \in Document :
           <<collection[d], d>> \in vectors \ vectors' => RowsOf(deletion, d) # {}]_vars
  BY ForwardStep, ErasedOnly DEF Moved
<1> QED
  BY <1>1, <1>2, ForwardInit, PTL DEF Spec, CleanupSparesServing

BuiltPresent ==
  /\ \A i \in DOMAIN reindex :
       reindex[i].status = "completed" /\ RowsOf(deletion, reindex[i].document) = {}
         => <<reindex[i].target, reindex[i].document>> \in vectors
  /\ \A w \in Builder :
       BuilderAt(w, "built") /\ RowsOf(deletion, BuiltJob(w).document) = {}
         => <<BuiltJob(w).target, BuiltJob(w).document>> \in vectors

IndexedPresent ==
  \A w \in Ingestor :
    IngestorAt(w, "indexed") /\ RowsOf(deletion, IngestorDocument(w)) = {}
      /\ (ingestor[w].target \notin Left \/ collection[IngestorDocument(w)] = None)
      => <<ingestor[w].target, IngestorDocument(w)>> \in vectors

(* A document without deletion jobs had none before.                       *)
LEMMA UndeletedBefore ==
  ASSUME IInv, Event, NEW d, RowsOf(deletion, d)' = {}
  PROVE  RowsOf(deletion, d) = {}
  BY TablesGrow DEF Grows, RowsOf

(* A worker goes on by its own steps only.                                 *)
LEMMA WorkersAlone ==
  ASSUME IInv, Event
  PROVE  /\ \A w \in Ingestor : ingestor'[w] = ingestor[w] \/ IngestorActs(w)
         /\ \A w \in Builder : builder'[w] = builder[w] \/ BuilderActs(w)
<1>1. ASSUME NEW v \in Ingestor, IngestorActs(v), NEW w \in Ingestor, w # v
      PROVE  ingestor'[w] = ingestor[w]
  BY <1>1 DEF IngestorActs, IngestorEffect, IngestorClaims, IngestorProceeds, IngestorUpserts,
              IngestorLeaves, IngestorFails, IngestorCompletes, IngestorBecomes
<1>2. ASSUME NEW v \in Builder, BuilderActs(v), NEW w \in Builder, w # v
      PROVE  builder'[w] = builder[w]
  BY <1>2 DEF BuilderActs, BuilderEffect, BuilderClaims, BuilderProceeds, BuilderUpserts,
              BuilderFails, BuilderCompletes, BuilderLeaves, BuilderBecomes
<1>3. \A w \in Ingestor : ingestor'[w] = ingestor[w] \/ IngestorActs(w)
  BY <1>1, WhoIngests DEF AttemptReplaced, WorkersUnchanged
<1>4. \A w \in Builder : builder'[w] = builder[w] \/ BuilderActs(w)
  BY <1>2, WhoBuilds DEF BuildScheduled, DocumentMoved, WorkersUnchanged
<1> QED
  BY <1>3, <1>4

(* What a build is pinned to is not changed ...                            *)
LEMMA BuildsPinned ==
  ASSUME IInv, Event, NEW i \in DOMAIN reindex
  PROVE  /\ reindex'[i].document = reindex[i].document
         /\ reindex'[i].target = reindex[i].target
         /\ reindex'[i].source = reindex[i].source
<1>1. ASSUME NEW w \in Builder, BuilderActs(w)
      PROVE  UNCHANGED reindex \/ \E j, s : ReindexSetsOf(j, s)
  BY <1>1 DEF BuilderActs, BuilderEffect, BuilderClaims, BuilderProceeds, BuilderUpserts,
              BuilderFails, BuilderCompletes, BuilderLeaves
<1>2. UNCHANGED reindex \/ (\E j, s : ReindexSetsOf(j, s))
      \/ (\E c \in Client : \E n : BuildScheduled(c, n)) \/ \E j, n : DocumentMoved(j, n)
  BY <1>1, WhoBuilds
<1> QED
  BY <1>2 DEF ReindexSetsOf, SetsStatus, PinsKept, BuildScheduled, ScheduleInserts, Inserts,
              DocumentMoved, Activates

(* ... and a build only completes by a worker that has written its points. *)
LEMMA CompletedByWorker ==
  ASSUME IInv, Event, NEW i \in DOMAIN reindex', reindex'[i].status = "completed"
  PROVE  /\ i \in DOMAIN reindex
         /\ \/ reindex[i].status = "completed"
            \/ \E w \in Builder : BuilderActs(w) /\ BuilderCompletes(w) /\ builder[w].job = i
<1>1. ASSUME NEW w \in Builder, BuilderActs(w)
      PROVE  /\ i \in DOMAIN reindex
             /\ \/ reindex[i].status = "completed"
                \/ BuilderCompletes(w) /\ builder[w].job = i
  BY <1>1 DEF BuilderActs, BuilderEffect, BuilderClaims, BuilderProceeds, BuilderUpserts,
              BuilderFails, BuilderCompletes, BuilderLeaves, ReindexSetsOf, SetsStatus
<1>2. ASSUME NEW c \in Client, NEW n, BuildScheduled(c, n)
      PROVE  i \in DOMAIN reindex /\ reindex[i].status = "completed"
  BY <1>2 DEF BuildScheduled, ScheduleInserts, Inserts
<1>3. ASSUME NEW j, NEW n, DocumentMoved(j, n)
      PROVE  i \in DOMAIN reindex /\ reindex[i].status = "completed"
  BY <1>3 DEF DocumentMoved, Activates
<1> QED
  BY <1>1, <1>2, <1>3, WhoBuilds

(* Nothing but a deletion erases what a finished build has written.        *)
LEMMA BuiltPresentKept ==
  ASSUME ForwardInv, ForwardInv', Event, BuiltPresent
  PROVE  BuiltPresent'
<1>0. /\ IInv /\ MovesForward
      /\ \A w \in Builder : ~BuilderAt(w, "idle") => builder[w].job \in DOMAIN reindex
  BY DEF ForwardInv, LiveInv, IInv, SessionsHold, BuildersValid, BuilderAt
<1>1. ASSUME NEW i \in DOMAIN reindex, RowsOf(deletion, reindex[i].document) = {},
             <<reindex[i].target, reindex[i].document>> \in vectors
      PROVE  <<reindex[i].target, reindex[i].document>> \in vectors'
  BY <1>0, <1>1, ErasedOnly DEF MovesForward, BuildsAhead, Ahead
<1>2. ASSUME NEW i \in DOMAIN reindex', reindex'[i].status = "completed",
             RowsOf(deletion, reindex[i].document)' = {}
      PROVE  <<reindex'[i].target, reindex'[i].document>> \in vectors'
  <2>1. i \in DOMAIN reindex
    BY <1>0, <1>2, CompletedByWorker
  <2>2. /\ reindex'[i].document = reindex[i].document
        /\ reindex'[i].target = reindex[i].target
    BY <1>0, <2>1, BuildsPinned
  <2>3. RowsOf(deletion, reindex[i].document) = {}
    <3>1. PICK d : d = reindex[i].document
      OBVIOUS
    <3>2. RowsOf(deletion, d)' = {}
      BY <1>2, <2>2, <3>1 DEF RowsOf
    <3> QED
      BY <1>0, <3>1, <3>2, UndeletedBefore
  <2>4. CASE reindex[i].status = "completed"
    BY <1>1, <2>1, <2>2, <2>3, <2>4 DEF BuiltPresent
  <2>5. ASSUME NEW w \in Builder, BuilderCompletes(w), builder[w].job = i
        PROVE  <<reindex[i].target, reindex[i].document>> \in vectors
    BY <2>3, <2>5 DEF BuiltPresent, BuilderCompletes, BuiltJob
  <2> QED
    BY <1>0, <1>1, <1>2, <2>1, <2>2, <2>3, <2>4, <2>5, CompletedByWorker
<1>3. ASSUME NEW w \in Builder, BuilderAt(w, "built")', RowsOf(deletion, BuiltJob(w).document)' = {}
      PROVE  (<<BuiltJob(w).target, BuiltJob(w).document>> \in vectors)'
  <2>0. builder[w] \in BuilderSession
    BY <1>0 DEF IInv, TypeOK, ReindexingType
  <2>1. CASE builder'[w] = builder[w]
    <3>1. PICK i \in DOMAIN reindex : i = builder[w].job
      BY <1>0, <1>3, <2>1 DEF BuilderAt
    <3>2. /\ reindex'[i].document = reindex[i].document
          /\ reindex'[i].target = reindex[i].target
      BY <1>0, BuildsPinned
    <3>3. RowsOf(deletion, reindex[i].document) = {}
      <4>1. PICK d : d = reindex[i].document
        OBVIOUS
      <4>2. RowsOf(deletion, d)' = {}
        BY <1>3, <2>1, <3>1, <3>2, <4>1 DEF RowsOf, BuiltJob
      <4> QED
        BY <1>0, <4>1, <4>2, UndeletedBefore
    <3>4. <<reindex[i].target, reindex[i].document>> \in vectors
      BY <1>3, <2>1, <3>1, <3>3 DEF BuiltPresent, BuilderAt, BuiltJob
    <3> QED
      BY <1>1, <2>1, <3>1, <3>2, <3>3, <3>4 DEF BuiltJob
  <2>2. CASE BuilderActs(w)
    <3>1. BuilderUpserts(w)
      <4>1. CASE \E step : BuilderProceeds(w, step)
        <5>0. PICK step : BuilderProceeds(w, step)
          BY <4>1
        <5> DEFINE s == [builder[w] EXCEPT !.at = step]
        <5>1. s.at = step
          BY <2>0 DEF BuilderSession
        <5>2. BuilderBecomes(w, s) /\ step # "built"
          BY <5>0 DEF BuilderProceeds
        <5> HIDE DEF s
        <5> QED
          BY <1>3, <5>1, <5>2 DEF BuilderBecomes, BuilderAt
      <4>2. CASE \E i : BuilderClaims(w, i)
        BY <1>3, <4>2 DEF BuilderClaims, BuilderBecomes, BuilderAt
      <4>3. CASE BuilderFails(w) \/ BuilderCompletes(w) \/ BuilderLeaves(w)
        BY <1>3, <4>3 DEF BuilderFails, BuilderCompletes, BuilderLeaves, BuilderBecomes,
                          BuilderAt, NoBuild
      <4> QED
        BY <2>2, <4>1, <4>2, <4>3 DEF BuilderActs, BuilderEffect
    <3>2. [builder[w] EXCEPT !.at = "built"].job = builder[w].job
      BY <2>0 DEF BuilderSession
    <3> QED
      BY <3>1, <3>2 DEF BuilderUpserts, BuilderBecomes, BuiltJob
  <2> QED
    BY <1>0, <2>1, <2>2, WorkersAlone
<1> QED
  BY <1>2, <1>3 DEF BuiltPresent

(* Only an upsert brings an ingestion worker to "indexed".                 *)
LEMMA IndexedByUpsert ==
  ASSUME IInv, NEW w \in Ingestor, IngestorActs(w), IngestorAt(w, "indexed")'
  PROVE  /\ IngestorUpserts(w)
         /\ ingestor'[w].job = ingestor[w].job /\ ingestor'[w].target = ingestor[w].target
         /\ ingestor'[w].base = ingestor[w].base
<1>0. ingestor[w] \in IngestorSession
  BY DEF IInv, TypeOK, IngestionType
<1>1. CASE \E step \in {"embedded", "registering", "ready"} : IngestorProceeds(w, step)
  <2>0. PICK step \in {"embedded", "registering", "ready"} : IngestorProceeds(w, step)
    BY <1>1
  <2> DEFINE s == [ingestor[w] EXCEPT !.at = step]
  <2>1. s.at = step
    BY <1>0 DEF IngestorSession
  <2>2. IngestorBecomes(w, s)
    BY <2>0 DEF IngestorProceeds
  <2> HIDE DEF s
  <2> QED
    BY <2>1, <2>2 DEF IngestorBecomes, IngestorAt
<1>5. CASE \E i : IngestorClaims(w, i)
  BY <1>5 DEF IngestorClaims, IngestorBecomes, IngestorAt
<1>6. CASE IngestorLeaves(w) \/ IngestorFails(w) \/ IngestorCompletes(w)
  BY <1>6 DEF IngestorLeaves, IngestorFails, IngestorCompletes, IngestorBecomes, IngestorAt,
              NoIngestion
<1>2. IngestorUpserts(w)
  BY <1>1, <1>5, <1>6 DEF IngestorActs, IngestorEffect
<1> DEFINE s == [ingestor[w] EXCEPT !.at = "indexed"]
<1>3. s.job = ingestor[w].job /\ s.target = ingestor[w].target /\ s.base = ingestor[w].base
  BY <1>0 DEF IngestorSession
<1>4. ingestor'[w] = s
  BY <1>2 DEF IngestorUpserts, IngestorBecomes
<1> HIDE DEF s
<1> QED
  BY <1>2, <1>3, <1>4

(* Nothing but a deletion erases what an ingestion has written, before it  *)
(* makes the collection the current one.                                   *)
LEMMA IndexedPresentKept ==
  ASSUME ForwardInv, ForwardInv', Event, IndexedPresent
  PROVE  IndexedPresent'
<1>0. /\ IInv /\ StoreType
      /\ \A w \in Ingestor : ~IngestorAt(w, "idle") => ingestor[w].job \in DOMAIN ingestion
  BY DEF ForwardInv, LiveInv, IInv, TypeOK, SessionsHold, IngestorsValid, IngestorAt
<1> SUFFICES ASSUME NEW w \in Ingestor, IngestorAt(w, "indexed")',
                    RowsOf(deletion, IngestorDocument(w))' = {},
                    (ingestor[w].target \notin Left \/ collection[IngestorDocument(w)] = None)'
             PROVE  (<<ingestor[w].target, IngestorDocument(w)>> \in vectors)'
  BY DEF IndexedPresent
<1>1. CASE ingestor'[w] = ingestor[w]
  <2>1. IngestorAt(w, "indexed") /\ ingestor[w].job \in DOMAIN ingestion
    BY <1>0, <1>1 DEF IngestorAt
  <2>2. PICK d \in Document : d = IngestorDocument(w)
    BY <1>0, <2>1, IngestionRow DEF IngestorDocument
  <2>3. IngestorDocument(w)' = d
    BY <1>0, <1>1, <2>1, <2>2, TablesGrow DEF Grows, IngestorDocument
  <2>4. RowsOf(deletion, d) = {}
    <3>1. RowsOf(deletion, d)' = {}
      BY <2>3 DEF RowsOf
    <3> QED
      BY <1>0, <3>1, UndeletedBefore
  <2>5. ingestor[w].target \notin Left \/ collection[d] = None
    BY <1>0, <1>1, <2>3, StaysIndexed
  <2>6. <<ingestor[w].target, d>> \in vectors
    BY <2>1, <2>2, <2>4, <2>5 DEF IndexedPresent
  <2>7. <<ingestor[w].target, d>> \in vectors'
    BY <2>4, <2>5, <2>6, ErasedOnly DEF Moved
  <2> QED
    BY <1>1, <2>3, <2>7
<1>2. CASE IngestorActs(w)
  <2>1. /\ IngestorUpserts(w)
        /\ ingestor'[w].job = ingestor[w].job /\ ingestor'[w].target = ingestor[w].target
    BY <1>0, <1>2, IndexedByUpsert
  <2> QED
    BY <2>1 DEF IngestorUpserts, IngestorDocument
<1> QED
  BY <1>0, <1>1, <1>2, WorkersAlone

(* A document is moved only to a collection that holds its points, and     *)
(* these are spared.                                                       *)
LEMMA ServingKept ==
  ASSUME ForwardInv, ForwardInv', Event, BuiltPresent, IndexedPresent, ServingVectorsPresent
  PROVE  ServingVectorsPresent'
<1>0. /\ IInv /\ StoreType /\ AttemptsHeld /\ MovesForward
      /\ collection \in [Document -> Collection \cup {None}]
  BY DEF ForwardInv, LiveInv, IInv, TypeOK, StoreType
<1> SUFFICES ASSUME NEW d \in Document, RowsOf(deletion, d)' = {}, collection'[d] # None
             PROVE  <<collection'[d], d>> \in vectors'
  BY DEF ServingVectorsPresent
<1>1. RowsOf(deletion, d) = {}
  BY <1>0, UndeletedBefore
<1>2. CASE collection'[d] = collection[d]
  BY <1>1, <1>2, ErasedOnly DEF ServingVectorsPresent, Moved
<1>3. ASSUME NEW w \in Ingestor, IngestorActs(w), IngestorCompletes(w), collection'[d] # collection[d]
      PROVE  <<collection'[d], d>> \in vectors'
  <2>1. /\ d = IngestorDocument(w) /\ collection'[d] = ingestor[w].target
        /\ ingestor[w].base # ingestor[w].target
    BY <1>0, <1>3, CompletesTo
  <2>2. IngestorAt(w, "indexed") /\ ~IngestorAt(w, "idle") /\ UNCHANGED vectors
    BY <1>3 DEF IngestorCompletes, IngestorAt
  <2>3. ingestor[w].target \notin Left \/ collection[d] = None
    BY <1>0, <2>1, <2>2 DEF AttemptsHeld, MovesForward, AttemptsForward
  <2> QED
    BY <1>1, <2>1, <2>2, <2>3 DEF IndexedPresent
<1>4. ASSUME NEW i, NEW n, DocumentMoved(i, n), collection'[d] # collection[d]
      PROVE  <<collection'[d], d>> \in vectors'
  <2>1. d = reindex[i].document /\ collection'[d] = reindex[i].target
    BY <1>0, <1>4, MovesTo
  <2>2. i \in DOMAIN reindex /\ reindex[i].status = "completed" /\ UNCHANGED vectors
    BY <1>4 DEF DocumentMoved, Activates
  <2> QED
    BY <1>1, <2>1, <2>2 DEF BuiltPresent
<1> QED
  BY <1>2, <1>3, <1>4, WhoMoves

(* The invariant of serving: the points of finished builds and ingestions  *)
(* are there.                                                              *)
ServingInv == ForwardInv /\ BuiltPresent /\ IndexedPresent /\ ServingVectorsPresent

(* The invariant about serving holds initially ...                         *)
LEMMA ServingInit == Init => ServingInv
<1> SUFFICES ASSUME Init PROVE BuiltPresent /\ IndexedPresent /\ ServingVectorsPresent
  BY ForwardInit DEF ServingInv
<1>1. BuiltPresent
  BY EmptySeq DEF Init, StoreInit, ReindexingInit, NoBuild, BuilderAt, BuiltPresent
<1>2. IndexedPresent
  BY DEF Init, IngestionInit, NoIngestion, IngestorAt, IndexedPresent
<1>3. ServingVectorsPresent
  BY DEF Init, StoreInit, ServingVectorsPresent
<1> QED
  BY <1>1, <1>2, <1>3

(* ... and every step keeps it.                                            *)
LEMMA ServingStep ==
  ASSUME ~Overrun, OneRedeployment, ServingInv, [Next]_vars
  PROVE  ServingInv'
<1>1. Event /\ ForwardInv'
  BY ForwardStep DEF ServingInv
<1> QED
  BY <1>1, BuiltPresentKept, IndexedPresentKept, ServingKept DEF ServingInv

(* A document is served from a collection that holds its points, through   *)
(* ingestion, build, activation, cleanup and re-ingestion, until its       *)
(* deletion is requested, if the settings move forward and recovery takes  *)
(* no live worker's row.                                                   *)
THEOREM ServedFromVectors ==
  ASSUME ~Overrun, OneRedeployment
  PROVE  Spec => []ServingVectorsPresent
<1>1. ServingInv /\ [Next]_vars => ServingInv'
  BY ServingStep
<1>2. ServingInv => ServingVectorsPresent
  BY DEF ServingInv
<1> QED
  BY <1>1, <1>2, ServingInit, PTL DEF Spec
=============================================================================
