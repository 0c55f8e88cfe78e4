-------------------------- MODULE JobSteps_proofs -------------------------
(***************************************************************************)
(* Lemmas about the tables of the shared store, and then: every step of    *)
(* the components keeps the types, what the sessions hold, and that no two *)
(* workers of a kind hold the same job: first the two that write points,   *)
(* ingestion and re-indexing, then the two that erase, deletion and vector *)
(* cleanup.                                                                *)
(***************************************************************************)
EXTENDS Ingestion, Reindexing, Deletion, VectorCleanup,
        SequenceTheorems, FiniteSetTheorems, TLAPS

---------------------------------------------------------------------------
(* The shared store: what appending a row and updating a row do to a       *)
(* table, and what a request's session may become.                         *)

(* Inserting a row keeps every other row at its position.                  *)
LEMMA TableAppend ==
  ASSUME NEW S, NEW t \in Seq(S), NEW e \in S
  PROVE  /\ Append(t, e) \in Seq(S)
         /\ DOMAIN t \subseteq DOMAIN Append(t, e)
         /\ \A j \in DOMAIN t : Append(t, e)[j] = t[j]
         /\ \A j \in DOMAIN Append(t, e) \ DOMAIN t : Append(t, e)[j] = e
<1>1. Append(t, e) \in Seq(S) /\ Len(Append(t, e)) = Len(t) + 1
  OBVIOUS
<1>2. /\ Len(t) \in Nat
      /\ DOMAIN t = 1 .. Len(t)
      /\ DOMAIN Append(t, e) = 1 .. Len(t) + 1
  BY <1>1, LenProperties
<1>3. \A j \in 1 .. Len(t) + 1 : Append(t, e)[j] = IF j = Len(t) + 1 THEN e ELSE t[j]
  BY <1>2
<1> QED
  BY <1>1, <1>2, <1>3

(* Replacing a row keeps the table's type and positions.                   *)
LEMMA TableExcept ==
  ASSUME NEW S, NEW t \in Seq(S), NEW i \in DOMAIN t, NEW e \in S
  PROVE  /\ [t EXCEPT ![i] = e] \in Seq(S)
         /\ DOMAIN [t EXCEPT ![i] = e] = DOMAIN t
         /\ \A j \in DOMAIN t : [t EXCEPT ![i] = e][j] = IF j = i THEN e ELSE t[j]
<1>1. DOMAIN t = 1 .. Len(t)
  BY LenProperties
<1> QED
  BY <1>1, ExceptSeq

(* A row of a table has the type of the table's rows.                      *)
LEMMA TableRow ==
  ASSUME NEW S, NEW t \in Seq(S), NEW i \in DOMAIN t
  PROVE  t[i] \in S /\ i \in Nat
  BY LenProperties, ElementOfSeq

---------------------------------------------------------------------------
(* UPDATE of one column of one row, table by table.                        *)

(* A row of ingestion_jobs after a change of status, and the rest of the   *)
(* table.                                                                  *)
LEMMA IngestionStatusSet ==
  ASSUME NEW t \in Seq(IngestionJob), NEW i \in DOMAIN t, NEW s \in IngestionStatus
  PROVE  LET u == [t EXCEPT ![i].status = s]
         IN  /\ u \in Seq(IngestionJob)
             /\ DOMAIN u = DOMAIN t
             /\ \A j \in DOMAIN t : /\ u[j].document = t[j].document
                                    /\ u[j].status = IF j = i THEN s ELSE t[j].status
<1> DEFINE e == [t[i] EXCEPT !.status = s]
<1>1. \A j \in DOMAIN t : t[j] \in IngestionJob
  BY TableRow
<1>2. e \in IngestionJob /\ e.document = t[i].document /\ e.status = s
  BY <1>1 DEF IngestionJob
<1>3. [t EXCEPT ![i].status = s] = [t EXCEPT ![i] = e]
  OBVIOUS
<1> HIDE DEF e
<1> QED
  BY <1>2, <1>3, TableExcept

(* A change of status keeps the rest of the table: deletion jobs.           *)
LEMMA DeletionStatusSet ==
  ASSUME NEW t \in Seq(DeletionJob), NEW i \in DOMAIN t, NEW s \in DeletionStatus
  PROVE  LET u == [t EXCEPT ![i].status = s]
         IN  /\ u \in Seq(DeletionJob)
             /\ DOMAIN u = DOMAIN t
             /\ \A j \in DOMAIN t : /\ u[j].document = t[j].document
                                    /\ u[j].vectorsDone = t[j].vectorsDone
                                    /\ u[j].storageDone = t[j].storageDone
                                    /\ u[j].status = IF j = i THEN s ELSE t[j].status
<1> DEFINE e == [t[i] EXCEPT !.status = s]
<1>1. \A j \in DOMAIN t : t[j] \in DeletionJob
  BY TableRow
<1>2. /\ e \in DeletionJob /\ e.document = t[i].document /\ e.status = s
      /\ e.vectorsDone = t[i].vectorsDone /\ e.storageDone = t[i].storageDone
  BY <1>1 DEF DeletionJob
<1>3. [t EXCEPT ![i].status = s] = [t EXCEPT ![i] = e]
  OBVIOUS
<1> HIDE DEF e
<1> QED
  BY <1>2, <1>3, TableExcept

(* Recording the vector cleanup of a job changes nothing else of the table. *)
LEMMA DeletionVectorsRecorded ==
  ASSUME NEW t \in Seq(DeletionJob), NEW i \in DOMAIN t
  PROVE  LET u == [t EXCEPT ![i].vectorsDone = TRUE]
         IN  /\ u \in Seq(DeletionJob)
             /\ DOMAIN u = DOMAIN t
             /\ \A j \in DOMAIN t : /\ u[j].document = t[j].document
                                    /\ u[j].status = t[j].status
                                    /\ u[j].storageDone = t[j].storageDone
                                    /\ t[j].vectorsDone \/ j = i => u[j].vectorsDone
                                    /\ u[j].vectorsDone /\ j # i => t[j].vectorsDone
<1> DEFINE e == [t[i] EXCEPT !.vectorsDone = TRUE]
<1>1. \A j \in DOMAIN t : t[j] \in DeletionJob
  BY TableRow
<1>2. /\ e \in DeletionJob /\ e.document = t[i].document /\ e.status = t[i].status
      /\ e.vectorsDone /\ e.storageDone = t[i].storageDone
  BY <1>1 DEF DeletionJob
<1>3. [t EXCEPT ![i].vectorsDone = TRUE] = [t EXCEPT ![i] = e]
  OBVIOUS
<1> HIDE DEF e
<1> QED
  BY <1>2, <1>3, TableExcept

(* The final commit of a deletion: its status and its storage flag.         *)
LEMMA DeletionCompleted ==
  ASSUME NEW t \in Seq(DeletionJob), NEW i \in DOMAIN t
  PROVE  LET u == [t EXCEPT ![i].status = "completed", ![i].storageDone = TRUE]
         IN  /\ u \in Seq(DeletionJob)
             /\ DOMAIN u = DOMAIN t
             /\ \A j \in DOMAIN t : /\ u[j].document = t[j].document
                                    /\ u[j].vectorsDone = t[j].vectorsDone
                                    /\ t[j].storageDone \/ j = i => u[j].storageDone
                                    /\ u[j].status = IF j = i THEN "completed" ELSE t[j].status
<1> DEFINE e == [t[i] EXCEPT !.status = "completed", !.storageDone = TRUE]
<1>1. \A j \in DOMAIN t : t[j] \in DeletionJob
  BY TableRow
<1>2. /\ e \in DeletionJob /\ e.document = t[i].document /\ e.status = "completed"
      /\ e.vectorsDone = t[i].vectorsDone /\ e.storageDone
  BY <1>1 DEF DeletionJob, DeletionStatus
<1>3. [t EXCEPT ![i].status = "completed", ![i].storageDone = TRUE] = [t EXCEPT ![i] = e]
  OBVIOUS
<1> HIDE DEF e
<1> QED
  BY <1>2, <1>3, TableExcept

(* A change of status keeps the rest of the table: re-index jobs.           *)
LEMMA ReindexStatusSet ==
  ASSUME NEW t \in Seq(ReindexJob), NEW i \in DOMAIN t, NEW s \in ReindexStatus
  PROVE  LET u == [t EXCEPT ![i].status = s]
         IN  /\ u \in Seq(ReindexJob)
             /\ DOMAIN u = DOMAIN t
             /\ \A j \in DOMAIN t : /\ u[j].document = t[j].document
                                    /\ u[j].source = t[j].source
                                    /\ u[j].target = t[j].target
                                    /\ u[j].activated = t[j].activated
                                    /\ u[j].status = IF j = i THEN s ELSE t[j].status
<1> DEFINE e == [t[i] EXCEPT !.status = s]
<1>1. \A j \in DOMAIN t : t[j] \in ReindexJob
  BY TableRow
<1>2. /\ e \in ReindexJob /\ e.document = t[i].document /\ e.status = s
      /\ e.source = t[i].source /\ e.target = t[i].target /\ e.activated = t[i].activated
  BY <1>1 DEF ReindexJob
<1>3. [t EXCEPT ![i].status = s] = [t EXCEPT ![i] = e]
  OBVIOUS
<1> HIDE DEF e
<1> QED
  BY <1>2, <1>3, TableExcept

(* Stamping a job as activated changes nothing else of the table.           *)
LEMMA ReindexActivated ==
  ASSUME NEW t \in Seq(ReindexJob), NEW i \in DOMAIN t
  PROVE  LET u == [t EXCEPT ![i].activated = TRUE]
         IN  /\ u \in Seq(ReindexJob)
             /\ DOMAIN u = DOMAIN t
             /\ \A j \in DOMAIN t : /\ u[j].document = t[j].document
                                    /\ u[j].source = t[j].source
                                    /\ u[j].target = t[j].target
                                    /\ u[j].status = t[j].status
<1> DEFINE e == [t[i] EXCEPT !.activated = TRUE]
<1>1. \A j \in DOMAIN t : t[j] \in ReindexJob
  BY TableRow
<1>2. /\ e \in ReindexJob /\ e.document = t[i].document /\ e.status = t[i].status
      /\ e.source = t[i].source /\ e.target = t[i].target
  BY <1>1 DEF ReindexJob
<1>3. [t EXCEPT ![i].activated = TRUE] = [t EXCEPT ![i] = e]
  OBVIOUS
<1> HIDE DEF e
<1> QED
  BY <1>2, <1>3, TableExcept

(* A change of status keeps the rest of the table: cleanup jobs.            *)
LEMMA CleanupStatusSet ==
  ASSUME NEW t \in Seq(CleanupJob), NEW i \in DOMAIN t, NEW s \in CleanupStatus
  PROVE  LET u == [t EXCEPT ![i].status = s]
         IN  /\ u \in Seq(CleanupJob)
             /\ DOMAIN u = DOMAIN t
             /\ \A j \in DOMAIN t : /\ u[j].document = t[j].document
                                    /\ u[j].collection = t[j].collection
                                    /\ u[j].status = IF j = i THEN s ELSE t[j].status
<1> DEFINE e == [t[i] EXCEPT !.status = s]
<1>1. \A j \in DOMAIN t : t[j] \in CleanupJob
  BY TableRow
<1>2. /\ e \in CleanupJob /\ e.document = t[i].document /\ e.status = s
      /\ e.collection = t[i].collection
  BY <1>1 DEF CleanupJob
<1>3. [t EXCEPT ![i].status = s] = [t EXCEPT ![i] = e]
  OBVIOUS
<1> HIDE DEF e
<1> QED
  BY <1>2, <1>3, TableExcept

---------------------------------------------------------------------------
(* Sessions of requests.  reindex may only grow meanwhile.                 *)

(* Sessions that are left alone stay valid.                                *)
LEMMA OtherSessions ==
  ASSUME StoreType, ClientsValid, client' = client, DOMAIN reindex \subseteq DOMAIN reindex'
  PROVE  client' \in [Client -> ClientSession] /\ ClientsValid'
  BY DEF StoreType, ClientsValid, At

(* A request that is answered leaves the other sessions as they were.       *)
LEMMA RequestEnds ==
  ASSUME StoreType, ClientsValid, NEW c \in Client, Reply(c),
         DOMAIN reindex \subseteq DOMAIN reindex'
  PROVE  client' \in [Client -> ClientSession] /\ ClientsValid'
<1>1. NoRequest \in ClientSession /\ NoRequest.at = "idle"
  BY DEF NoRequest, ClientSession, ClientSteps
<1>2. client' \in [Client -> ClientSession]
  BY <1>1 DEF StoreType, Reply
<1>3. \A x \in Client : client'[x] = IF x = c THEN NoRequest ELSE client[x]
  BY DEF StoreType, Reply
<1>4. ClientsValid'
  BY <1>1, <1>3 DEF ClientsValid, At, ScheduleSteps
<1> QED
  BY <1>2, <1>4

(* A request goes on to a step that needs no more than its last one.       *)
LEMMA RequestContinues ==
  ASSUME StoreType, ClientsValid, NEW c \in Client, NEW step \in ClientSteps,
         client[c].at \notin {"idle", "activate_loaded"},
         step \notin {"idle", "activate_loaded"},
         step \in ScheduleSteps => client[c].at \in ScheduleSteps,
         Continue(c, step),
         DOMAIN reindex \subseteq DOMAIN reindex'
  PROVE  client' \in [Client -> ClientSession] /\ ClientsValid'
<1> DEFINE s == [client[c] EXCEPT !.at = step]
<1>1. client[c] \in ClientSession
  BY DEF StoreType
<1>2. s \in ClientSession /\ s.at = step /\ s.document = client[c].document
      /\ s.source = client[c].source /\ s.target = client[c].target
  BY <1>1 DEF ClientSession
<1>3. client' = [client EXCEPT ![c] = s]
  BY DEF Continue
<1> HIDE DEF s
<1>4. client' \in [Client -> ClientSession]
  BY <1>2, <1>3 DEF StoreType
<1>5. \A x \in Client : client'[x] = IF x = c THEN s ELSE client[x]
  BY <1>3 DEF StoreType
<1>6. ClientsValid'
  BY <1>2, <1>5 DEF ClientsValid, At
<1> QED
  BY <1>4, <1>6

---------------------------------------------------------------------------
(* What a commit makes of a job table t, as far as documents and statuses  *)
(* go: u is the table after it.                                            *)

SetsStatus(t, u, i, s) ==
  /\ i \in DOMAIN t /\ DOMAIN u = DOMAIN t /\ DOMAIN t \subseteq Nat
  /\ \A j \in DOMAIN t : /\ u[j].document = t[j].document
                         /\ u[j].status = IF j = i THEN s ELSE t[j].status

Inserts(t, u, n, d) ==
  /\ n \in Nat /\ n \notin DOMAIN t
  /\ DOMAIN u = DOMAIN t \cup {n} /\ DOMAIN t \subseteq Nat
  /\ \A j \in DOMAIN t : j < n /\ u[j].document = t[j].document /\ u[j].status = t[j].status
  /\ u[n].document = d /\ u[n].status = "pending"

(* Row i is ended and replaced by a new one.                               *)
Replaces(t, u, i, n, d) ==
  \E m : SetsStatus(t, m, i, "failed") /\ Inserts(m, u, n, d)

(* Only the last row of a document can be active: a row is inserted when   *)
(* no other is active, and no row becomes active again.                    *)
ActiveIsLast(t) ==
  \A i, j \in DOMAIN t :
    t[i].document = t[j].document /\ t[i].status \in Active => j <= i

(* A change of status that makes no row active again keeps that ...        *)
LEMMA ActiveLastSet ==
  ASSUME NEW t, NEW u, NEW i, NEW s, SetsStatus(t, u, i, s), ActiveIsLast(t),
         s \in Active => t[i].status \in Active
  PROVE  ActiveIsLast(u)
  BY DEF SetsStatus, ActiveIsLast

(* ... and so does an insert that the partial unique index admits ...      *)
LEMMA ActiveLastInsert ==
  ASSUME NEW t, NEW u, NEW n, NEW d, Inserts(t, u, n, d), ActiveIsLast(t), OneActive(u)
  PROVE  ActiveIsLast(u)
<1> SUFFICES ASSUME NEW i \in DOMAIN u, NEW j \in DOMAIN u,
                    u[i].document = u[j].document, u[i].status \in Active
             PROVE  j <= i
  BY DEF ActiveIsLast
<1>1. CASE i = n
  BY <1>1 DEF Inserts
<1>2. CASE i # n /\ j # n
  BY <1>2 DEF Inserts, ActiveIsLast
<1>3. CASE i # n /\ j = n
  <2>1. u[j].status \in Active
    BY <1>3 DEF Inserts, Active
  <2>2. i = j
    BY <2>1 DEF OneActive
  <2> QED
    BY <1>3, <2>2
<1> QED
  BY <1>1, <1>2, <1>3

(* ... or the two in one commit.                                           *)
LEMMA ActiveLastReplace ==
  ASSUME NEW t, NEW u, NEW i, NEW n, NEW d, Replaces(t, u, i, n, d), ActiveIsLast(t),
         OneActive(u)
  PROVE  ActiveIsLast(u)
<1>1. PICK m : SetsStatus(t, m, i, "failed") /\ Inserts(m, u, n, d)
  BY DEF Replaces
<1>2. ActiveIsLast(m)
  BY <1>1, ActiveLastSet DEF Active
<1> QED
  BY <1>1, <1>2, ActiveLastInsert

(* At most one row of a document is active.                                *)
LEMMA ActiveIsUnique ==
  ASSUME NEW t, ActiveIsLast(t), DOMAIN t \subseteq Nat,
         NEW i \in DOMAIN t, NEW j \in DOMAIN t, t[i].document = t[j].document,
         t[i].status \in Active, t[j].status \in Active
  PROVE  i = j
<1>1. i <= j /\ j <= i
  BY DEF ActiveIsLast
<1> QED
  BY <1>1

(* Appending a PENDING row is an insert in this sense.                     *)
LEMMA AppendInserts ==
  ASSUME NEW S, NEW t \in Seq(S), NEW e \in S, NEW d, e.document = d, e.status = "pending"
  PROVE  Inserts(t, Append(t, e), Len(t) + 1, d)
<1>1. /\ Len(t) \in Nat
      /\ DOMAIN t = 1 .. Len(t)
      /\ DOMAIN Append(t, e) = 1 .. Len(t) + 1
  BY LenProperties
<1>2. \A j \in 1 .. Len(t) + 1 : Append(t, e)[j] = IF j = Len(t) + 1 THEN e ELSE t[j]
  BY <1>1
<1> QED
  BY <1>1, <1>2 DEF Inserts

(* What an UPDATE of one status does, table by table.                      *)
LEMMA IngestionSets ==
  ASSUME NEW t \in Seq(IngestionJob), NEW i \in DOMAIN t, NEW s \in IngestionStatus
  PROVE  SetsStatus(t, [t EXCEPT ![i].status = s], i, s)
<1>1. DOMAIN t \subseteq Nat
  BY LenProperties
<1> QED
  BY <1>1, IngestionStatusSet DEF SetsStatus

(* Two tables agree on what a re-index row has been pinned to.             *)
PinsKept(t, u) ==
  \A j \in DOMAIN t : /\ u[j].source = t[j].source
                      /\ u[j].target = t[j].target
                      /\ u[j].activated = t[j].activated

(* The same for builds, with the rest of the row.                         *)
LEMMA ReindexSets ==
  ASSUME NEW t \in Seq(ReindexJob), NEW i \in DOMAIN t, NEW s \in ReindexStatus
  PROVE  LET u == [t EXCEPT ![i].status = s]
         IN  SetsStatus(t, u, i, s) /\ PinsKept(t, u)
<1>1. DOMAIN t \subseteq Nat
  BY LenProperties
<1> QED
  BY <1>1, ReindexStatusSet DEF SetsStatus, PinsKept

(* The session of request c becomes s, the others stay.                    *)
ClientBecomes(c, s) == \A e \in Client : client'[e] = IF e = c THEN s ELSE client[e]

(* An answer, and a step forward, of a request change its own session only.*)
LEMMA ClientChanges ==
  ASSUME StoreType, NEW c \in Client
  PROVE  /\ Reply(c) => ClientBecomes(c, NoRequest)
         /\ \A step : Continue(c, step) => ClientBecomes(c, [client[c] EXCEPT !.at = step])
  BY DEF StoreType, Reply, Continue, ClientBecomes

---------------------------------------------------------------------------
(* The latest row of a document.                                           *)

(* Positions of a table that are not none have a last one among them.      *)
LEMMA HasLast ==
  ASSUME NEW n \in Nat, NEW S, S \subseteq 1..n, S # {}
  PROVE  \E i \in S : \A j \in S : j <= i
<1> DEFINE Later(i) == {j \in S : i < j}
           T == {Later(i) : i \in S}
<1>1. IsFiniteSet(S)
  <2>1. IsFiniteSet(1..n)
    BY FS_Interval
  <2> QED
    BY <2>1, FS_Subset
<1>2. IsWellFoundedOn(StrictSubsetOrdering(S), FiniteSubsetsOf(S))
  BY FS_StrictSubsetOrderingWellFounded
<1>3. T \subseteq FiniteSubsetsOf(S) /\ T # {}
  <2>1. \A i \in S : Later(i) \subseteq S /\ IsFiniteSet(Later(i))
    BY <1>1, FS_Subset
  <2>2. \A i \in S : Later(i) \in FiniteSubsetsOf(S)
    BY <2>1 DEF FiniteSubsetsOf
  <2> QED
    BY <2>2
<1>4. \A U, V \in T : U \subseteq V /\ U # V => <<U, V>> \in StrictSubsetOrdering(S)
  BY DEF StrictSubsetOrdering
<1>5. PICK U \in T : \A V \in T : <<V, U>> \notin StrictSubsetOrdering(S)
  BY <1>2, <1>3, WFMin
<1>6. PICK i \in S : U = Later(i)
  BY <1>5
<1>7. ASSUME NEW j \in S, i < j
      PROVE  FALSE
  <2>1. S \subseteq Nat
    OBVIOUS
  <2>2. \A k \in Later(j) : k \in S /\ i < k
    <3> SUFFICES ASSUME NEW k \in S, j < k PROVE i < k
      OBVIOUS
    <3>1. i \in Nat /\ j \in Nat /\ k \in Nat
      BY <2>1
    <3> QED
      BY <1>7, <3>1
  <2>3. Later(j) \subseteq Later(i)
    BY <2>2
  <2>4. j \in Later(i) /\ j \notin Later(j)
    <3>1. j \in Nat
      BY <2>1
    <3>2. ~(j < j)
      BY <3>1
    <3> QED
      BY <1>7, <3>2
  <2>5. Later(j) \in T
    OBVIOUS
  <2> HIDE DEF Later, T
  <2> QED
    BY <1>4, <1>5, <1>6, <2>3, <2>4, <2>5
<1> QED
  BY <1>7

(* So a document with rows has a latest row, whatever its status.          *)
LEMMA LatestExists ==
  ASSUME NEW S, NEW t \in Seq(S), NEW d, NEW statuses,
         \A i \in DOMAIN t : t[i].status \in statuses, ~LatestIn(t, d, statuses)
  PROVE  RowsOf(t, d) = {}
<1> SUFFICES ASSUME RowsOf(t, d) # {} PROVE FALSE
  OBVIOUS
<1>1. Len(t) \in Nat /\ RowsOf(t, d) \subseteq 1..Len(t)
  BY LenProperties DEF RowsOf
<1>2. PICK i \in RowsOf(t, d) : \A j \in RowsOf(t, d) : j <= i
  BY <1>1, HasLast
<1> QED
  BY <1>2 DEF LatestIn, IsLast, RowsOf

(* An active row is the latest of its document.                            *)
LEMMA ActiveIsLatest ==
  ASSUME NEW t, NEW d, ActiveIsLast(t), ~LatestIn(t, d, Active)
  PROVE  ActiveRows(t, d) = {}
  BY DEF ActiveIsLast, ActiveRows, RowsOf, LatestIn, IsLast

(* A change of status that makes no row active again leaves a document     *)
(* without active rows without any.                                        *)
LEMMA ActiveRowsSet ==
  ASSUME NEW t, NEW u, NEW i, NEW s, SetsStatus(t, u, i, s),
         s \in Active => t[i].status \in Active, NEW d, ActiveRows(t, d) = {}
  PROVE  ActiveRows(u, d) = {}
  BY DEF SetsStatus, ActiveRows, RowsOf

---------------------------------------------------------------------------

(* Ingestion.                                                              *)

IngestionInv ==
  StoreType /\ ClientsValid /\ IngestionType /\ IngestorsValid /\ HeldOnceBy(ingestor)

WorkersInv == IngestionType /\ IngestorsValid /\ HeldOnceBy(ingestor)

(* The parts of StoreType a step of this component may disturb.            *)
LEMMA IngestionStores ==
  ASSUME StoreType
  PROVE  /\ configured \in Collection
         /\ registered \subseteq Collection
         /\ collection \in [Document -> Collection \cup {None}]
         /\ vectors \subseteq Collection \X Document
         /\ ingestion \in Seq(IngestionJob)
         /\ client \in [Client -> ClientSession]
  BY DEF StoreType

(* A row of the table is typed.                                             *)
LEMMA IngestionRow ==
  ASSUME StoreType, NEW i \in DOMAIN ingestion
  PROVE  i \in Nat /\ ingestion[i].document \in Document
<1>1. i \in Nat /\ ingestion[i] \in IngestionJob
  BY IngestionStores, TableRow
<1> QED
  BY <1>1 DEF IngestionJob

(* What every step does to the table: rows stay, keep their documents, and *)
(* never return to PENDING.                                                *)
IngestionGrows ==
  /\ ingestion' \in Seq(IngestionJob)
  /\ DOMAIN ingestion \subseteq DOMAIN ingestion'
  /\ \A i \in DOMAIN ingestion :
       ingestion[i].status # "pending" => ingestion'[i].status # "pending"

(* A step that leaves the table alone makes no held row PENDING.            *)
LEMMA IngestionRowsKept ==
  ASSUME StoreType, UNCHANGED ingestion
  PROVE  IngestionGrows
  BY DEF StoreType, IngestionGrows

(* A commit that ends attempt i.                                           *)
LEMMA IngestionRowResolved ==
  ASSUME StoreType, NEW i \in DOMAIN ingestion, NEW s \in IngestionStatus \ {"pending"},
         ingestion' = [ingestion EXCEPT ![i].status = s]
  PROVE  IngestionGrows /\ i \in DOMAIN ingestion' /\ ingestion'[i].status = s
<1>1. ingestion \in Seq(IngestionJob)
  BY DEF StoreType
<1>2. /\ ingestion' \in Seq(IngestionJob) /\ DOMAIN ingestion' = DOMAIN ingestion
      /\ \A j \in DOMAIN ingestion : ingestion'[j].status = IF j = i THEN s ELSE ingestion[j].status
  BY <1>1, IngestionStatusSet
<1>3. s # "pending"
  OBVIOUS
<1>4. i \in DOMAIN ingestion' /\ ingestion'[i].status = s
  BY <1>2
<1>5. IngestionGrows
  BY <1>2, <1>3 DEF IngestionGrows
<1> QED
  BY <1>4, <1>5

(* A retry or a recovery: attempt i has failed, a new one is PENDING.      *)
LEMMA IngestionRowReplaced ==
  ASSUME StoreType, NEW i \in DOMAIN ingestion, NEW d \in Document,
         ingestion' = Append([ingestion EXCEPT ![i].status = "failed"], PendingIngestionJob(d))
  PROVE  IngestionGrows
<1> DEFINE t == [ingestion EXCEPT ![i].status = "failed"]
           e == PendingIngestionJob(d)
<1>1. ingestion \in Seq(IngestionJob)
  BY DEF StoreType
<1>2. /\ t \in Seq(IngestionJob) /\ DOMAIN t = DOMAIN ingestion
      /\ \A j \in DOMAIN t : t[j].status = IF j = i THEN "failed" ELSE ingestion[j].status
  BY <1>1, IngestionStatusSet DEF IngestionStatus
<1>3. e \in IngestionJob
  BY DEF PendingIngestionJob, IngestionJob, IngestionStatus
<1> HIDE DEF t, e
<1>4. /\ Append(t, e) \in Seq(IngestionJob)
      /\ DOMAIN t \subseteq DOMAIN Append(t, e)
      /\ \A j \in DOMAIN t : Append(t, e)[j] = t[j]
  BY <1>2, <1>3, TableAppend
<1>5. ingestion' = Append(t, e)
  BY DEF t, e
<1> QED
  BY <1>2, <1>4, <1>5 DEF IngestionGrows

---------------------------------------------------------------------------
(* Sessions of workers.                                                    *)

(* Ingestion workers stay valid while the table only grows.                *)
LEMMA IngestorsUnmoved ==
  ASSUME WorkersInv, IngestionGrows, UNCHANGED ingestor
  PROVE  WorkersInv'
  BY DEF WorkersInv, IngestionType, IngestorsValid, HeldOnceBy, IngestionGrows

(* A worker whose call ends, for whatever reason, holds nothing any more.   *)
LEMMA IngestorEnding ==
  ASSUME WorkersInv, IngestionGrows, NEW w \in Ingestor, IngestorEnds(w)
  PROVE  WorkersInv'
<1>1. NoIngestion \in IngestorSession /\ NoIngestion.at = "idle"
  BY DEF NoIngestion, IngestorSession
<1>2. ingestor' \in [Ingestor -> IngestorSession]
  BY <1>1 DEF WorkersInv, IngestionType, IngestorEnds
<1>3. \A v \in Ingestor : ingestor'[v] = IF v = w THEN NoIngestion ELSE ingestor[v]
  BY DEF WorkersInv, IngestionType, IngestorEnds
<1>4. DOMAIN ingestor = Ingestor /\ DOMAIN ingestor' = Ingestor
  BY <1>2 DEF WorkersInv, IngestionType
<1>5. IngestorsValid'
  BY <1>1, <1>3 DEF WorkersInv, IngestorsValid, IngestionGrows
<1>6. HeldOnceBy(ingestor)'
  BY <1>1, <1>3, <1>4 DEF WorkersInv, HeldOnceBy
<1> QED
  BY <1>2, <1>5, <1>6 DEF WorkersInv, IngestionType

(* A worker that goes on with its job holds the same row.                   *)
LEMMA IngestorMoving ==
  ASSUME WorkersInv, IngestionGrows, NEW w \in Ingestor, ~IngestorAt(w, "idle"),
         NEW step \in {"embedded", "registering", "ready", "indexed"}, IngestorMoves(w, step)
  PROVE  WorkersInv'
<1> DEFINE s == [ingestor[w] EXCEPT !.at = step]
<1>1. ingestor[w] \in IngestorSession
  BY DEF WorkersInv, IngestionType
<1>2. /\ s \in IngestorSession /\ s.at # "idle"
      /\ s.job = ingestor[w].job /\ s.target = ingestor[w].target
  BY <1>1 DEF IngestorSession
<1>3. ingestor' = [ingestor EXCEPT ![w] = s]
  BY DEF IngestorMoves
<1> HIDE DEF s
<1>4. /\ ingestor' \in [Ingestor -> IngestorSession]
      /\ \A v \in Ingestor : ingestor'[v] = IF v = w THEN s ELSE ingestor[v]
      /\ DOMAIN ingestor = Ingestor /\ DOMAIN ingestor' = Ingestor
  BY <1>2, <1>3 DEF WorkersInv, IngestionType
<1>5. IngestorsValid'
  BY <1>2, <1>4 DEF WorkersInv, IngestorsValid, IngestionGrows, IngestorAt
<1>6. HeldOnceBy(ingestor)'
  BY <1>2, <1>4 DEF WorkersInv, HeldOnceBy, IngestorAt
<1> QED
  BY <1>4, <1>5, <1>6 DEF WorkersInv, IngestionType

(* A claim takes a PENDING row, which no session holds.                    *)
LEMMA IngestorClaiming ==
  ASSUME StoreType, WorkersInv, NEW w \in Ingestor, ClaimIngestion(w)
  PROVE  IngestionGrows /\ WorkersInv'
<1>1. PICK i \in PendingIngestion :
        /\ ingestion' = [ingestion EXCEPT ![i].status = "processing"]
        /\ ingestor' = [ingestor EXCEPT
             ![w] = [at |-> "claimed", job |-> i, target |-> configured,
                     base |-> collection[ingestion[i].document]]]
  BY DEF ClaimIngestion
<1> DEFINE s == [at |-> "claimed", job |-> i, target |-> configured,
                 base |-> collection[ingestion[i].document]]
<1>2. i \in DOMAIN ingestion /\ ingestion[i].status = "pending"
  BY DEF PendingIngestion
<1>3. IngestionGrows /\ i \in DOMAIN ingestion' /\ ingestion'[i].status # "pending"
  <2>1. "processing" \in IngestionStatus \ {"pending"}
    BY DEF IngestionStatus
  <2>2. ingestion' = [ingestion EXCEPT ![i].status = "processing"]
    BY <1>1
  <2> QED
    BY <1>2, <2>1, <2>2, IngestionRowResolved
<1>4. i \in Nat /\ ingestion[i].document \in Document
  BY <1>2, IngestionRow
<1>5. /\ s \in IngestorSession /\ s.at # "idle" /\ s.job = i
      /\ s.target \in Collection
  BY <1>2, <1>4, IngestionStores DEF IngestorSession
<1>6. ingestor' = [ingestor EXCEPT ![w] = s]
  BY <1>1
<1> HIDE DEF s
<1>8. /\ ingestor' \in [Ingestor -> IngestorSession]
      /\ \A v \in Ingestor : ingestor'[v] = IF v = w THEN s ELSE ingestor[v]
      /\ DOMAIN ingestor = Ingestor /\ DOMAIN ingestor' = Ingestor
  BY <1>5, <1>6 DEF WorkersInv, IngestionType
<1>9. IngestorsValid'
  BY <1>3, <1>5, <1>8 DEF WorkersInv, IngestorsValid, IngestionGrows
<1>10. \A v \in Ingestor : ingestor[v].at # "idle" => ingestor[v].job # i
  BY <1>2 DEF WorkersInv, IngestorsValid
<1>11. HeldOnceBy(ingestor)'
  BY <1>5, <1>8, <1>10 DEF WorkersInv, HeldOnceBy
<1> QED
  BY <1>3, <1>8, <1>9, <1>11 DEF WorkersInv, IngestionType

---------------------------------------------------------------------------
(* Steps of a worker leave the requests alone.                             *)

(* Every action of an ingestion worker keeps the component's invariant.    *)
LEMMA IngestorStepKeeps ==
  ASSUME IngestionInv, NEW w \in Ingestor, IngestorStep(w)
  PROVE  IngestionInv' /\ UNCHANGED <<deletion, reindex, cleanup, object, hashed>>
<1> USE DEF IngestionInv
<1>1. WorkersInv
  BY DEF WorkersInv
<1>2. UNCHANGED <<deletion, reindex, cleanup, object, hashed, client, configured>>
  BY DEF IngestorStep, ClaimIngestion, ExtractAndEmbed, FindIndexCollection,
         RegisterIndexCollection, UpsertVectors, FailIngestion, CompleteIngestion, IngestorDies,
         documents, external, tables
<1>3. ~IngestorAt(w, "idle") =>
        /\ ingestor[w].job \in DOMAIN ingestion
        /\ ingestor[w].target \in Collection
        /\ IngestorDocument(w) \in Document
  BY IngestionRow DEF IngestorsValid, IngestorAt, IngestorDocument
<1>4. ASSUME IngestionGrows,
             registered' \subseteq Collection,
             collection' \in [Document -> Collection \cup {None}],
             vectors' \subseteq Collection \X Document,
             WorkersInv'
      PROVE  IngestionInv'
  BY <1>2, <1>4, OtherSessions DEF StoreType, WorkersInv, IngestionGrows
<1>5. CASE ClaimIngestion(w)
  BY <1>1, <1>4, <1>5, IngestorClaiming, IngestionStores DEF ClaimIngestion, documents, external
<1>6. CASE ExtractAndEmbed(w)
  <2>1. IngestionGrows
    BY <1>6, IngestionRowsKept DEF ExtractAndEmbed, tables
  <2>2. WorkersInv'
    BY <1>1, <1>6, <2>1, IngestorMoving DEF ExtractAndEmbed, IngestorAt
  <2> QED
    BY <1>2, <1>4, <1>6, <2>1, <2>2, IngestionStores DEF ExtractAndEmbed, documents, external
<1>7. CASE FindIndexCollection(w)
  <2>1. IngestionGrows
    BY <1>7, IngestionRowsKept DEF FindIndexCollection, tables
  <2>2. WorkersInv'
    BY <1>1, <1>7, <2>1, IngestorMoving DEF FindIndexCollection, IngestorAt
  <2> QED
    BY <1>2, <1>4, <1>7, <2>1, <2>2, IngestionStores DEF FindIndexCollection, documents, external
<1>8. CASE RegisterIndexCollection(w)
  <2>1. IngestionGrows
    BY <1>8, IngestionRowsKept DEF RegisterIndexCollection, tables
  <2>2. WorkersInv'
    BY <1>1, <1>8, <2>1, IngestorMoving, IngestorEnding DEF RegisterIndexCollection, IngestorAt
  <2>3. registered' \subseteq Collection
    BY <1>3, <1>8, IngestionStores DEF RegisterIndexCollection, IngestorAt
  <2> QED
    BY <1>2, <1>4, <1>8, <2>1, <2>2, <2>3, IngestionStores DEF RegisterIndexCollection, external
<1>9. CASE UpsertVectors(w)
  <2>1. IngestionGrows
    BY <1>9, IngestionRowsKept DEF UpsertVectors, tables
  <2>2. WorkersInv'
    BY <1>1, <1>9, <2>1, IngestorMoving DEF UpsertVectors, IngestorAt
  <2>3. vectors' \subseteq Collection \X Document
    BY <1>3, <1>9, IngestionStores DEF UpsertVectors, IngestorAt
  <2> QED
    BY <1>2, <1>4, <1>9, <2>1, <2>2, <2>3, IngestionStores DEF UpsertVectors, documents
<1>10. CASE FailIngestion(w)
  <2>0. ~IngestorAt(w, "idle")
    BY <1>10 DEF FailIngestion, IngestorAt
  <2>1. IngestionGrows
    <3>1. PICK i \in DOMAIN ingestion : ingestion' = [ingestion EXCEPT ![i].status = "failed"]
      BY <1>3, <1>10, <2>0 DEF FailIngestion
    <3> QED
      BY <3>1, IngestionRowResolved DEF IngestionStatus
  <2>2. WorkersInv'
    BY <1>1, <1>10, <2>1, IngestorEnding DEF FailIngestion
  <2>3. vectors' \subseteq Collection \X Document
    BY <1>3, <1>10, <2>0, IngestionStores DEF FailIngestion
  <2> QED
    BY <1>2, <1>4, <1>10, <2>1, <2>2, <2>3, IngestionStores DEF FailIngestion, documents
<1>11. CASE CompleteIngestion(w)
  <2>0. ~IngestorAt(w, "idle")
    BY <1>11 DEF CompleteIngestion, IngestorAt
  <2>1. IngestionGrows
    <3>1. CASE UNCHANGED ingestion
      BY <3>1, IngestionRowsKept
    <3>2. CASE ingestion' = [ingestion EXCEPT ![ingestor[w].job].status = "completed"]
      <4>1. PICK i \in DOMAIN ingestion : ingestion' = [ingestion EXCEPT ![i].status = "completed"]
        BY <1>3, <2>0, <3>2
      <4> QED
        BY <4>1, IngestionRowResolved DEF IngestionStatus
    <3> QED
      BY <1>11, <3>1, <3>2 DEF CompleteIngestion
  <2>2. WorkersInv'
    BY <1>1, <1>11, <2>1, IngestorEnding DEF CompleteIngestion
  <2>3. collection' \in [Document -> Collection \cup {None}]
    <3>1. \/ collection' = collection
          \/ collection' = [collection EXCEPT ![IngestorDocument(w)] = ingestor[w].target]
      BY <1>11 DEF CompleteIngestion
    <3> QED
      BY <1>3, <2>0, <3>1, IngestionStores
  <2> QED
    BY <1>2, <1>4, <1>11, <2>1, <2>2, <2>3, IngestionStores DEF CompleteIngestion, external
<1>12. CASE IngestorDies(w)
  <2>1. IngestionGrows
    BY <1>12, IngestionRowsKept DEF IngestorDies, tables
  <2>2. WorkersInv'
    BY <1>1, <1>12, <2>1, IngestorEnding DEF IngestorDies
  <2> QED
    BY <1>2, <1>4, <1>12, <2>1, <2>2, IngestionStores DEF IngestorDies, documents, external
<1> QED
  BY <1>2, <1>5, <1>6, <1>7, <1>8, <1>9, <1>10, <1>11, <1>12 DEF IngestorStep

(* Every step of retry_ingestion.                                           *)
LEMMA RetryStepKeeps ==
  ASSUME IngestionInv, NEW c \in Client, RetryStep(c)
  PROVE  IngestionInv' /\ UNCHANGED <<deletion, reindex, cleanup, object, hashed>>
<1> USE DEF IngestionInv
<1>1. WorkersInv
  BY DEF WorkersInv
<1>2. UNCHANGED <<deletion, reindex, cleanup, object, hashed, configured, registered,
                  collection, vectors, ingestor>>
  BY DEF RetryStep, RetryChecksDeletion, RetryReadsJobs, RetryCommits,
         documents, external, tables
<1>3. ASSUME IngestionGrows, client' \in [Client -> ClientSession], ClientsValid'
      PROVE  IngestionInv'
  BY <1>1, <1>2, <1>3, IngestorsUnmoved DEF StoreType, WorkersInv, IngestionGrows
<1>4. ASSUME NEW d \in Document, RetryChecksDeletion(c, d)
      PROVE  IngestionInv'
  <2> DEFINE s == [client[c] EXCEPT !.at = "retry_checked", !.document = d]
  <2>1. client[c] \in ClientSession
    BY DEF StoreType
  <2>2. s \in ClientSession /\ s.at = "retry_checked" /\ s.document = d
    BY <2>1 DEF ClientSession, ClientSteps
  <2>3. client' = [client EXCEPT ![c] = s]
    BY <1>4 DEF RetryChecksDeletion
  <2> HIDE DEF s
  <2>4. /\ client' \in [Client -> ClientSession]
        /\ \A x \in Client : client'[x] = IF x = c THEN s ELSE client[x]
    BY <2>2, <2>3 DEF StoreType
  <2>5. ClientsValid'
    BY <1>2, <2>2, <2>4 DEF ClientsValid, At, ScheduleSteps
  <2> QED
    BY <1>2, <1>3, <1>4, <2>4, <2>5, IngestionRowsKept DEF RetryChecksDeletion, tables
<1>5. CASE RetryReadsJobs(c)
  <2> DEFINE s == [client[c] EXCEPT !.at = "retry_read", !.row = Len(ingestion)]
  <2>1. client[c] \in ClientSession /\ client[c].document \in Document
    BY <1>5 DEF StoreType, ClientsValid, RetryReadsJobs, At
  <2>2. Len(ingestion) \in Nat
    BY LenProperties DEF StoreType
  <2>3. s \in ClientSession /\ s.at = "retry_read" /\ s.document \in Document
    BY <2>1, <2>2 DEF ClientSession, ClientSteps
  <2>4. client' = [client EXCEPT ![c] = s]
    BY <1>5 DEF RetryReadsJobs
  <2> HIDE DEF s
  <2>5. /\ client' \in [Client -> ClientSession]
        /\ \A x \in Client : client'[x] = IF x = c THEN s ELSE client[x]
    BY <2>3, <2>4 DEF StoreType
  <2>6. ClientsValid'
    BY <1>2, <2>3, <2>5 DEF ClientsValid, At, ScheduleSteps
  <2> QED
    BY <1>2, <1>3, <1>5, <2>5, <2>6, IngestionRowsKept DEF RetryReadsJobs, tables
<1>6. CASE RetryCommits(c)
  <2>1. client' \in [Client -> ClientSession] /\ ClientsValid'
    BY <1>2, <1>6, RequestEnds DEF RetryCommits
  <2>2. client[c].document \in Document
    BY <1>6 DEF ClientsValid, RetryCommits, At
  <2>3. IngestionGrows
    <3>1. CASE UNCHANGED ingestion
      BY <3>1, IngestionRowsKept
    <3>2. ASSUME NEW i \in DOMAIN ingestion,
                 ingestion' = Append([ingestion EXCEPT ![i].status = "failed"],
                                     PendingIngestionJob(client[c].document))
          PROVE  IngestionGrows
      BY <2>2, <3>2, IngestionRowReplaced
    <3> QED
      BY <1>6, <3>1, <3>2 DEF RetryCommits, RowsOf
  <2> QED
    BY <1>2, <1>3, <2>1, <2>3
<1> QED
  BY <1>2, <1>4, <1>5, <1>6 DEF RetryStep

(* Every step of recover_stale_ingestion_jobs.                              *)
LEMMA RecoveryStepKeeps ==
  ASSUME IngestionInv, RecoveryStep
  PROVE  IngestionInv' /\ UNCHANGED <<deletion, reindex, cleanup, object, hashed>>
<1> USE DEF IngestionInv
<1>1. UNCHANGED <<deletion, reindex, cleanup, object, hashed, configured, registered,
                  collection, vectors, client, ingestor>>
  BY DEF RecoveryStep, RecoverStaleIngestion, documents, external
<1>2. PICK i \in DOMAIN ingestion :
        ingestion' = Append([ingestion EXCEPT ![i].status = "failed"],
                            PendingIngestionJob(ingestion[i].document))
  BY DEF RecoveryStep, RecoverStaleIngestion
<1>3. ingestion[i].document \in Document
  BY IngestionRow
<1>4. IngestionGrows
  BY <1>2, <1>3, IngestionRowReplaced
<1> QED
  BY <1>1, <1>4, IngestorsUnmoved, OtherSessions DEF StoreType, WorkersInv, IngestionGrows

(* IngestionInv is preserved by every step of the component, which writes  *)
(* no other job table, no object and no hash.                              *)
THEOREM IngestionStepKeeps ==
  ASSUME IngestionInv, IngestionStep
  PROVE  IngestionInv' /\ UNCHANGED <<deletion, reindex, cleanup, object, hashed>>
  BY IngestorStepKeeps, RetryStepKeeps, RecoveryStepKeeps DEF IngestionStep

---------------------------------------------------------------------------
(* The steps of the component as changes of rows and sessions: what the    *)
(* invariants of the whole system need to know of them.                    *)

IngestorBecomes(w, s) == \A v \in Ingestor : ingestor'[v] = IF v = w THEN s ELSE ingestor[v]

IngestorClaims(w, i) ==
  /\ IngestorAt(w, "idle")
  /\ i \in DOMAIN ingestion /\ ingestion[i].status = "pending"
  /\ SetsStatus(ingestion, ingestion', i, "processing")
  /\ IngestorBecomes(w, [at |-> "claimed", job |-> i, target |-> configured,
                         base |-> collection[ingestion[i].document]])
  /\ UNCHANGED <<registered, collection, vectors>>

IngestorProceeds(w, step) ==
  /\ \E at \in {"claimed", "embedded", "registering"} : IngestorAt(w, at)
  /\ IngestorBecomes(w, [ingestor[w] EXCEPT !.at = step])
  /\ registered \subseteq registered'
  /\ step = "ready" => ingestor[w].target \in registered'
  /\ UNCHANGED <<collection, vectors, ingestion>>

IngestorUpserts(w) ==
  /\ IngestorAt(w, "ready")
  /\ IngestorBecomes(w, [ingestor[w] EXCEPT !.at = "indexed"])
  /\ vectors' = vectors \cup {<<ingestor[w].target, IngestorDocument(w)>>}
  /\ UNCHANGED <<registered, collection, ingestion>>

IngestorLeaves(w) ==
  /\ ~IngestorAt(w, "idle")
  /\ \/ w \in Mortal
     \/ IngestorAt(w, "registering") /\ ingestor[w].target \in registered
     \/ IngestorAt(w, "indexed") /\ ingestor[w].target \notin registered
  /\ IngestorBecomes(w, NoIngestion)
  /\ registered \subseteq registered'
  /\ UNCHANGED <<collection, vectors, ingestion>>

IngestorFails(w) ==
  /\ \E at \in {"claimed", "embedded", "ready"} : IngestorAt(w, at)
  /\ SetsStatus(ingestion, ingestion', ingestor[w].job, "failed")
  /\ IngestorBecomes(w, NoIngestion)
  /\ \/ UNCHANGED vectors
     \/ w \in Lossy /\ vectors' = vectors \cup {<<ingestor[w].target, IngestorDocument(w)>>}
  /\ UNCHANGED <<registered, collection>>

IngestorCompletes(w) ==
  /\ IngestorAt(w, "indexed")
  /\ SetsStatus(ingestion, ingestion', ingestor[w].job, "completed")
  /\ IngestorBecomes(w, NoIngestion)
  /\ collection' = IF ingestor[w].target = ingestor[w].base THEN collection
                   ELSE [collection EXCEPT ![IngestorDocument(w)] = ingestor[w].target]
  /\ UNCHANGED <<registered, vectors>>

IngestorEffect(w) ==
  \/ \E i : IngestorClaims(w, i)
  \/ \E step \in {"embedded", "registering", "ready"} : IngestorProceeds(w, step)
  \/ IngestorUpserts(w)
  \/ IngestorLeaves(w)
  \/ IngestorFails(w)
  \/ IngestorCompletes(w)

(* Every action of an ingestion worker has one of these effects.           *)
LEMMA IngestorEffects ==
  ASSUME StoreType, IngestionType, IngestorsValid, NEW w \in Ingestor, IngestorStep(w)
  PROVE  IngestorEffect(w)
<1>1. /\ \A step : IngestorMoves(w, step) => IngestorBecomes(w, [ingestor[w] EXCEPT !.at = step])
      /\ IngestorEnds(w) => IngestorBecomes(w, NoIngestion)
  BY DEF IngestionType, IngestorMoves, IngestorEnds, IngestorBecomes
<1>2. ASSUME ~IngestorAt(w, "idle"), NEW s \in IngestionStatus,
             ingestion' = [ingestion EXCEPT ![ingestor[w].job].status = s]
      PROVE  SetsStatus(ingestion, ingestion', ingestor[w].job, s)
  <2>1. ingestor[w].job \in DOMAIN ingestion
    BY <1>2 DEF IngestorsValid, IngestorAt
  <2> QED
    BY <1>2, <2>1, IngestionStores, IngestionSets
<1>3. CASE ClaimIngestion(w)
  <2>1. PICK i \in PendingIngestion :
          /\ ingestion' = [ingestion EXCEPT ![i].status = "processing"]
          /\ ingestor' = [ingestor EXCEPT
               ![w] = [at |-> "claimed", job |-> i, target |-> configured,
                       base |-> collection[ingestion[i].document]]]
    BY <1>3 DEF ClaimIngestion
  <2>2. i \in DOMAIN ingestion /\ ingestion[i].status = "pending"
    BY DEF PendingIngestion
  <2>3. SetsStatus(ingestion, ingestion', i, "processing")
    BY <2>1, <2>2, IngestionStores, IngestionSets DEF IngestionStatus
  <2>4. IngestorBecomes(w, [at |-> "claimed", job |-> i, target |-> configured,
                            base |-> collection[ingestion[i].document]])
    BY <2>1 DEF IngestionType, IngestorBecomes
  <2>5. IngestorClaims(w, i)
    BY <1>3, <2>2, <2>3, <2>4 DEF ClaimIngestion, IngestorClaims, documents, external
  <2> QED
    BY <2>5 DEF IngestorEffect
<1>4. CASE ExtractAndEmbed(w)
  <2>1. IngestorProceeds(w, "embedded")
    BY <1>1, <1>4 DEF ExtractAndEmbed, IngestorProceeds, documents, external, tables
  <2> QED
    BY <2>1 DEF IngestorEffect
<1>5. CASE FindIndexCollection(w)
  <2>1. CASE ingestor[w].target \in registered
    <3>1. IngestorProceeds(w, "ready")
      BY <1>1, <1>5, <2>1 DEF FindIndexCollection, IngestorProceeds, documents, external, tables
    <3> QED
      BY <3>1 DEF IngestorEffect
  <2>2. CASE ingestor[w].target \notin registered
    <3>1. IngestorProceeds(w, "registering")
      BY <1>1, <1>5, <2>2 DEF FindIndexCollection, IngestorProceeds, documents, external, tables
    <3> QED
      BY <3>1 DEF IngestorEffect
  <2> QED
    BY <2>1, <2>2
<1>6. CASE RegisterIndexCollection(w)
  <2>1. CASE ingestor[w].target \in registered
    <3>1. IngestorLeaves(w)
      BY <1>1, <1>6, <2>1 DEF RegisterIndexCollection, IngestorLeaves, IngestorAt, external, tables
    <3> QED
      BY <3>1 DEF IngestorEffect
  <2>2. CASE ingestor[w].target \notin registered
    <3>1. IngestorProceeds(w, "ready")
      BY <1>1, <1>6, <2>2 DEF RegisterIndexCollection, IngestorProceeds, external, tables
    <3> QED
      BY <3>1 DEF IngestorEffect
  <2> QED
    BY <2>1, <2>2
<1>7. CASE UpsertVectors(w)
  <2>1. IngestorUpserts(w)
    BY <1>1, <1>7 DEF UpsertVectors, IngestorUpserts, documents, tables
  <2> QED
    BY <2>1 DEF IngestorEffect
<1>8. CASE FailIngestion(w)
  <2>1. ~IngestorAt(w, "idle") /\ ingestion' = [ingestion EXCEPT ![ingestor[w].job].status = "failed"]
    BY <1>8 DEF FailIngestion, IngestorAt
  <2>2. SetsStatus(ingestion, ingestion', ingestor[w].job, "failed")
    BY <1>2, <2>1 DEF IngestionStatus
  <2>3. IngestorFails(w)
    BY <1>1, <1>8, <2>2 DEF FailIngestion, IngestorFails, documents
  <2> QED
    BY <2>3 DEF IngestorEffect
<1>9. CASE CompleteIngestion(w)
  <2>1. ~IngestorAt(w, "idle") /\ IngestorBecomes(w, NoIngestion)
    BY <1>1, <1>9 DEF CompleteIngestion, IngestorAt
  <2>2. CASE ingestor[w].target # ingestor[w].base /\ ingestor[w].target \notin registered
    <3>1. IngestorLeaves(w)
      BY <1>9, <2>1, <2>2 DEF CompleteIngestion, IngestorLeaves, external
    <3> QED
      BY <3>1 DEF IngestorEffect
  <2>3. CASE ~(ingestor[w].target # ingestor[w].base /\ ingestor[w].target \notin registered)
    <3>1. ingestion' = [ingestion EXCEPT ![ingestor[w].job].status = "completed"]
      BY <1>9, <2>3 DEF CompleteIngestion
    <3>2. SetsStatus(ingestion, ingestion', ingestor[w].job, "completed")
      BY <1>2, <2>1, <3>1 DEF IngestionStatus
    <3>3. IngestorCompletes(w)
      BY <1>9, <2>1, <2>3, <3>2 DEF CompleteIngestion, IngestorCompletes, external
    <3> QED
      BY <3>3 DEF IngestorEffect
  <2> QED
    BY <2>2, <2>3
<1>10. CASE IngestorDies(w)
  <2>1. IngestorLeaves(w)
    BY <1>1, <1>10 DEF IngestorDies, IngestorLeaves, documents, external, tables
  <2> QED
    BY <2>1 DEF IngestorEffect
<1> QED
  BY <1>3, <1>4, <1>5, <1>6, <1>7, <1>8, <1>9, <1>10 DEF IngestorStep

(* A request of retry_ingestion.  A row inserted gets position n.          *)
Replaceable(i) ==
  \/ ingestion[i].status = "failed"
  \/ ingestion[i].status = "processing" /\ MayBeStale(i)

IngestionReplaced(i, n, d) ==
  /\ i \in RowsOf(ingestion, d)
  /\ Replaceable(i)
  /\ Replaces(ingestion, ingestion', i, n, d)
  /\ OneActive(ingestion')

RetryBegins(c, d) ==
  /\ At(c, "idle")
  /\ RowsOf(deletion, d) = {}
  /\ ClientBecomes(c, [client[c] EXCEPT !.at = "retry_checked", !.document = d])
  /\ UNCHANGED ingestion

RetryReads(c) ==
  /\ At(c, "retry_checked")
  /\ ClientBecomes(c, [client[c] EXCEPT !.at = "retry_read", !.row = Len(ingestion)])
  /\ UNCHANGED ingestion

RetryEnds(c) == ClientBecomes(c, NoRequest) /\ UNCHANGED ingestion

RetryReplaces(c, i, n) ==
  /\ At(c, "retry_read")
  /\ IsLast(i, {j \in RowsOf(ingestion, client[c].document) : j <= client[c].row})
  /\ IngestionReplaced(i, n, client[c].document)
  /\ ClientBecomes(c, NoRequest)

RetryEffect(c) ==
  \/ \E d \in Document : RetryBegins(c, d)
  \/ RetryReads(c)
  \/ RetryEnds(c)
  \/ \E i, n : RetryReplaces(c, i, n)

(* What retries and recoveries leave to the others.                        *)
IngestorsLeftAlone == UNCHANGED <<configured, registered, collection, vectors, ingestor>>

(* The commit that ends an attempt and inserts its successor.              *)
LEMMA IngestionReplaces ==
  ASSUME StoreType, NEW i \in DOMAIN ingestion, NEW d \in Document,
         ingestion' = Append([ingestion EXCEPT ![i].status = "failed"], PendingIngestionJob(d))
  PROVE  Replaces(ingestion, ingestion', i, Len(ingestion) + 1, d)
<1> DEFINE t == [ingestion EXCEPT ![i].status = "failed"]
           e == PendingIngestionJob(d)
<1>1. t \in Seq(IngestionJob) /\ SetsStatus(ingestion, t, i, "failed")
  BY IngestionStores, IngestionStatusSet, IngestionSets DEF IngestionStatus
<1>2. e \in IngestionJob /\ e.document = d /\ e.status = "pending"
  BY DEF PendingIngestionJob, IngestionJob, IngestionStatus
<1>3. Len(t) = Len(ingestion)
  BY <1>1, IngestionStores, LenProperties
<1>4. ingestion' = Append(t, e)
  OBVIOUS
<1> HIDE DEF t, e
<1>5. Inserts(t, Append(t, e), Len(t) + 1, d)
  BY <1>1, <1>2, AppendInserts
<1> QED
  BY <1>1, <1>3, <1>4, <1>5 DEF Replaces

(* Every step of a retry has one of these effects.                         *)
LEMMA RetryEffects ==
  ASSUME StoreType, ClientsValid, NEW c \in Client, RetryStep(c)
  PROVE  RetryEffect(c) /\ IngestorsLeftAlone
<1>1. IngestorsLeftAlone
  BY DEF RetryStep, RetryChecksDeletion, RetryReadsJobs, RetryCommits, documents, external,
         IngestorsLeftAlone
<1>2. CASE \E d \in Document : RetryChecksDeletion(c, d)
  <2>1. PICK d \in Document : RetryChecksDeletion(c, d)
    BY <1>2
  <2>2. ClientBecomes(c, [client[c] EXCEPT !.at = "retry_checked", !.document = d])
    BY <2>1 DEF RetryChecksDeletion, StoreType, ClientBecomes
  <2>3. RetryBegins(c, d)
    BY <2>1, <2>2 DEF RetryChecksDeletion, RetryBegins, tables
  <2> QED
    BY <1>1, <2>3 DEF RetryEffect
<1>3. CASE RetryReadsJobs(c)
  <2>1. ClientBecomes(c, [client[c] EXCEPT !.at = "retry_read", !.row = Len(ingestion)])
    BY <1>3 DEF RetryReadsJobs, StoreType, ClientBecomes
  <2>2. RetryReads(c)
    BY <1>3, <2>1 DEF RetryReadsJobs, RetryReads, tables
  <2> QED
    BY <1>1, <2>2 DEF RetryEffect
<1>4. CASE RetryCommits(c)
  <2>1. At(c, "retry_read") /\ ClientBecomes(c, NoRequest)
    BY <1>4, ClientChanges DEF RetryCommits
  <2>2. CASE UNCHANGED ingestion
    BY <1>1, <2>1, <2>2 DEF RetryEnds, RetryEffect
  <2>3. CASE ~ UNCHANGED ingestion
    <3> DEFINE d == client[c].document
               seen == {j \in RowsOf(ingestion, d) : j <= client[c].row}
               new(i) == Append([ingestion EXCEPT ![i].status = "failed"], PendingIngestionJob(d))
    <3>1. PICK i \in seen :
            /\ IsLast(i, seen)
            /\ \/ /\ Replaceable(i)
                  /\ ingestion' = IF OneActive(new(i)) THEN new(i) ELSE ingestion
               \/ UNCHANGED ingestion
      BY <1>4 DEF RetryCommits, Replaceable
    <3>2. /\ ingestion' = Append([ingestion EXCEPT ![i].status = "failed"], PendingIngestionJob(d))
          /\ OneActive(ingestion')
          /\ Replaceable(i)
      BY <2>3, <3>1
    <3>3. d \in Document
      BY <2>1 DEF ClientsValid, At
    <3>4. i \in RowsOf(ingestion, d) /\ i \in DOMAIN ingestion
      BY <3>1 DEF RowsOf
    <3> HIDE DEF d, seen, new
    <3>5. Replaces(ingestion, ingestion', i, Len(ingestion) + 1, d)
      BY <3>2, <3>3, <3>4, IngestionReplaces
    <3>6. IngestionReplaced(i, Len(ingestion) + 1, d)
      BY <3>1, <3>2, <3>4, <3>5 DEF IngestionReplaced
    <3>7. RetryReplaces(c, i, Len(ingestion) + 1)
      BY <2>1, <3>1, <3>6 DEF RetryReplaces, d, seen
    <3> QED
      BY <1>1, <3>7 DEF RetryEffect
  <2> QED
    BY <2>2, <2>3
<1> QED
  BY <1>2, <1>3, <1>4 DEF RetryStep

RecoveryEffect ==
  /\ \E i, n : ingestion[i].status = "processing" /\ IngestionReplaced(i, n, ingestion[i].document)
  /\ UNCHANGED client

(* The recovery of a stale job has this effect.                            *)
LEMMA RecoveryEffects ==
  ASSUME StoreType, RecoveryStep
  PROVE  RecoveryEffect /\ IngestorsLeftAlone
<1>1. PICK i \in DOMAIN ingestion : RecoverStaleIngestion(i)
  BY DEF RecoveryStep
<1>2. ingestion[i].document \in Document
  BY IngestionRow
<1>3. /\ ingestion' = Append([ingestion EXCEPT ![i].status = "failed"],
                             PendingIngestionJob(ingestion[i].document))
      /\ OneActive(ingestion')
  BY <1>1 DEF RecoverStaleIngestion
<1>4. Replaces(ingestion, ingestion', i, Len(ingestion) + 1, ingestion[i].document)
  BY <1>2, <1>3, IngestionReplaces
<1>5. IngestionReplaced(i, Len(ingestion) + 1, ingestion[i].document)
  BY <1>1, <1>3, <1>4 DEF IngestionReplaced, Replaceable, RecoverStaleIngestion, RowsOf
<1> QED
  BY <1>1, <1>5 DEF RecoverStaleIngestion, RecoveryEffect, IngestorsLeftAlone, documents, external

---------------------------------------------------------------------------
(* Re-indexing.                                                            *)

ReindexingInv ==
  StoreType /\ ClientsValid /\ ReindexingType /\ BuildersValid /\ HeldOnceBy(builder)

BuildsInv == ReindexingType /\ BuildersValid /\ HeldOnceBy(builder)

(* The parts of StoreType a step of this component may disturb.            *)
LEMMA ReindexingStores ==
  ASSUME StoreType
  PROVE  /\ configured \in Collection
         /\ registered \subseteq Collection
         /\ collection \in [Document -> Collection \cup {None}]
         /\ vectors \subseteq Collection \X Document
         /\ reindex \in Seq(ReindexJob)
         /\ cleanup \in Seq(CleanupJob)
         /\ client \in [Client -> ClientSession]
  BY DEF StoreType

(* A row of the table is typed.                                             *)
LEMMA ReindexRow ==
  ASSUME StoreType, NEW i \in DOMAIN reindex
  PROVE  /\ i \in Nat
         /\ reindex[i].document \in Document
         /\ reindex[i].source \in Collection
         /\ reindex[i].target \in Collection
         /\ reindex[i].status \in ReindexStatus
         /\ reindex[i].activated \in BOOLEAN
<1>1. i \in Nat /\ reindex[i] \in ReindexJob
  BY ReindexingStores, TableRow
<1> QED
  BY <1>1 DEF ReindexJob

(* What a step does to the table: it keeps the rows, and the builds in     *)
(* progress, but the one of worker w, stay so.                             *)
ReindexGrows(w) ==
  /\ reindex' \in Seq(ReindexJob)
  /\ DOMAIN reindex \subseteq DOMAIN reindex'
  /\ \A i \in DOMAIN reindex :
       reindex[i].status = "processing" =>
         reindex'[i].status = "processing" \/ builder[w].job = i

(* ... and when no worker ends, all of them do.                            *)
ReindexOnlyGrows ==
  /\ reindex' \in Seq(ReindexJob)
  /\ DOMAIN reindex \subseteq DOMAIN reindex'
  /\ \A i \in DOMAIN reindex :
       reindex[i].status = "processing" => reindex'[i].status = "processing"

(* A step that leaves the table alone lets it only grow.                    *)
LEMMA ReindexRowsKept ==
  ASSUME StoreType, UNCHANGED reindex
  PROVE  ReindexOnlyGrows
  BY ReindexingStores DEF ReindexOnlyGrows

(* A table that only grows keeps the rows of all workers, of w as well.     *)
LEMMA OnlyGrowsGrows ==
  ASSUME ReindexOnlyGrows, NEW w
  PROVE  ReindexGrows(w)
  BY DEF ReindexOnlyGrows, ReindexGrows

(* The build of worker w is resolved.                                      *)
LEMMA ReindexRowResolved ==
  ASSUME StoreType, NEW w \in Builder, NEW i \in DOMAIN reindex, i = builder[w].job,
         NEW s \in ReindexStatus, reindex' = [reindex EXCEPT ![i].status = s]
  PROVE  ReindexGrows(w)
<1>1. /\ reindex' \in Seq(ReindexJob) /\ DOMAIN reindex' = DOMAIN reindex
      /\ \A j \in DOMAIN reindex : reindex'[j].status = IF j = i THEN s ELSE reindex[j].status
  BY ReindexingStores, ReindexStatusSet
<1> QED
  BY <1>1 DEF ReindexGrows

(* The insert of a PENDING job lets the table only grow.                    *)
LEMMA ReindexRowInserted ==
  ASSUME StoreType, NEW d \in Document, NEW source \in Collection, NEW target \in Collection,
         reindex' = Append(reindex, PendingReindexJob(d, source, target))
  PROVE  ReindexOnlyGrows
<1> DEFINE e == PendingReindexJob(d, source, target)
<1>1. e \in ReindexJob
  BY DEF PendingReindexJob, ReindexJob, ReindexStatus, IngestionStatus
<1>2. reindex' = Append(reindex, e)
  OBVIOUS
<1> HIDE DEF e
<1>3. /\ reindex' \in Seq(ReindexJob)
      /\ DOMAIN reindex \subseteq DOMAIN reindex'
      /\ \A j \in DOMAIN reindex : reindex'[j] = reindex[j]
  BY <1>1, <1>2, ReindexingStores, TableAppend
<1> QED
  BY <1>3 DEF ReindexOnlyGrows

---------------------------------------------------------------------------
(* Sessions of workers.                                                    *)

(* Builders stay valid while the table only grows.                         *)
LEMMA BuildersUnmoved ==
  ASSUME BuildsInv, ReindexOnlyGrows, UNCHANGED builder
  PROVE  BuildsInv'
  BY DEF BuildsInv, ReindexingType, BuildersValid, HeldOnceBy, ReindexOnlyGrows

(* A worker whose call ends, for whatever reason, holds nothing any more.   *)
LEMMA BuilderEnding ==
  ASSUME BuildsInv, NEW w \in Builder, ~BuilderAt(w, "idle"), ReindexGrows(w), BuilderEnds(w)
  PROVE  BuildsInv'
<1>1. NoBuild \in BuilderSession /\ NoBuild.at = "idle"
  BY DEF NoBuild, BuilderSession
<1>2. /\ builder' \in [Builder -> BuilderSession]
      /\ \A v \in Builder : builder'[v] = IF v = w THEN NoBuild ELSE builder[v]
      /\ DOMAIN builder = Builder /\ DOMAIN builder' = Builder
  BY <1>1 DEF BuildsInv, ReindexingType, BuilderEnds
<1>3. \A v \in Builder : builder[v].at # "idle" /\ builder[v].job = builder[w].job => v = w
  BY <1>2 DEF BuildsInv, HeldOnceBy, BuilderAt
<1>4. BuildersValid'
  BY <1>1, <1>2, <1>3 DEF BuildsInv, BuildersValid, ReindexGrows
<1>5. HeldOnceBy(builder)'
  BY <1>1, <1>2 DEF BuildsInv, HeldOnceBy
<1> QED
  BY <1>2, <1>4, <1>5 DEF BuildsInv, ReindexingType

(* A worker that goes on with its build holds the same row.                 *)
LEMMA BuilderMoving ==
  ASSUME BuildsInv, NEW w \in Builder, ~BuilderAt(w, "idle"), ReindexOnlyGrows,
         NEW step \in {"allowed", "embedded", "built"}, BuilderMoves(w, step)
  PROVE  BuildsInv'
<1> DEFINE s == [builder[w] EXCEPT !.at = step]
<1>1. builder[w] \in BuilderSession
  BY DEF BuildsInv, ReindexingType
<1>2. s \in BuilderSession /\ s.at # "idle" /\ s.job = builder[w].job
  BY <1>1 DEF BuilderSession
<1>3. builder' = [builder EXCEPT ![w] = s]
  BY DEF BuilderMoves
<1> HIDE DEF s
<1>4. /\ builder' \in [Builder -> BuilderSession]
      /\ \A v \in Builder : builder'[v] = IF v = w THEN s ELSE builder[v]
      /\ DOMAIN builder = Builder /\ DOMAIN builder' = Builder
  BY <1>2, <1>3 DEF BuildsInv, ReindexingType
<1>5. BuildersValid'
  BY <1>2, <1>4 DEF BuildsInv, BuildersValid, ReindexOnlyGrows, BuilderAt
<1>6. HeldOnceBy(builder)'
  BY <1>2, <1>4 DEF BuildsInv, HeldOnceBy, BuilderAt
<1> QED
  BY <1>4, <1>5, <1>6 DEF BuildsInv, ReindexingType

(* A claim takes a PENDING row, which no session holds.                    *)
LEMMA BuilderClaiming ==
  ASSUME StoreType, BuildsInv, NEW w \in Builder, ClaimReindex(w)
  PROVE  ReindexOnlyGrows /\ BuildsInv'
<1>1. PICK i \in PendingReindex :
        /\ reindex' = [reindex EXCEPT ![i].status = "processing"]
        /\ builder' = [builder EXCEPT ![w] = [at |-> "claimed", job |-> i]]
  BY DEF ClaimReindex
<1> DEFINE s == [at |-> "claimed", job |-> i]
<1>2. i \in DOMAIN reindex /\ reindex[i].status = "pending"
  BY DEF PendingReindex
<1>3. /\ reindex' \in Seq(ReindexJob) /\ DOMAIN reindex' = DOMAIN reindex
      /\ \A j \in DOMAIN reindex :
           reindex'[j].status = IF j = i THEN "processing" ELSE reindex[j].status
  <2>1. "processing" \in ReindexStatus
    BY DEF ReindexStatus, IngestionStatus
  <2>2. reindex' = [reindex EXCEPT ![i].status = "processing"]
    BY <1>1
  <2> QED
    BY <1>2, <2>1, <2>2, ReindexingStores, ReindexStatusSet
<1>4. ReindexOnlyGrows
  BY <1>3 DEF ReindexOnlyGrows
<1>5. s \in BuilderSession /\ s.at # "idle" /\ s.job = i
  BY <1>2, ReindexRow DEF BuilderSession
<1>6. builder' = [builder EXCEPT ![w] = s]
  BY <1>1
<1> HIDE DEF s
<1>7. /\ builder' \in [Builder -> BuilderSession]
      /\ \A v \in Builder : builder'[v] = IF v = w THEN s ELSE builder[v]
      /\ DOMAIN builder = Builder /\ DOMAIN builder' = Builder
  BY <1>5, <1>6 DEF BuildsInv, ReindexingType
<1>8. BuildersValid'
  BY <1>2, <1>3, <1>5, <1>7 DEF BuildsInv, BuildersValid
<1>9. \A v \in Builder : builder[v].at # "idle" => builder[v].job # i
  BY <1>2 DEF BuildsInv, BuildersValid
<1>10. HeldOnceBy(builder)'
  BY <1>5, <1>7, <1>9 DEF BuildsInv, HeldOnceBy
<1> QED
  BY <1>4, <1>7, <1>8, <1>10 DEF BuildsInv, ReindexingType

---------------------------------------------------------------------------
(* What a step of this component never touches.                            *)
ReindexingFrame ==
  UNCHANGED <<ingestion, deletion, object, hashed>> /\ DOMAIN cleanup \subseteq DOMAIN cleanup'

(* Every step of ReindexWorker.process_next_job.                            *)
LEMMA BuilderStepKeeps ==
  ASSUME ReindexingInv, NEW w \in Builder, BuilderStep(w)
  PROVE  ReindexingInv' /\ ReindexingFrame
<1> USE DEF ReindexingInv
<1>1. BuildsInv
  BY DEF BuildsInv
<1>2. /\ UNCHANGED <<ingestion, deletion, cleanup, object, hashed, configured, registered,
                     collection, client>>
      /\ ReindexingFrame
  BY DEF BuilderStep, ClaimReindex, CheckBuildAllowed, ExtractForBuild, UpsertTarget,
         BuildRaises, CompleteBuild, BuilderDies, documents, external, tables, ReindexingFrame
<1>3. ASSUME ReindexGrows(w), vectors' \subseteq Collection \X Document, BuildsInv'
      PROVE  ReindexingInv'
  BY <1>2, <1>3, OtherSessions DEF StoreType, BuildsInv, ReindexGrows
<1>4. ~BuilderAt(w, "idle") =>
        /\ builder[w].job \in DOMAIN reindex
        /\ BuiltJob(w).target \in Collection
        /\ BuiltJob(w).document \in Document
  BY ReindexRow DEF BuildersValid, BuilderAt, BuiltJob
<1>5. ASSUME ~BuilderAt(w, "idle"), BuilderEnds(w),
             NEW s \in ReindexStatus,
             reindex' = [reindex EXCEPT ![builder[w].job].status = s]
      PROVE  ReindexGrows(w) /\ BuildsInv'
  <2>1. PICK i \in DOMAIN reindex : i = builder[w].job /\ reindex' = [reindex EXCEPT ![i].status = s]
    BY <1>4, <1>5
  <2>2. ReindexGrows(w)
    BY <2>1, ReindexRowResolved
  <2> QED
    BY <1>1, <1>5, <2>2, BuilderEnding
<1>6. ASSUME ~BuilderAt(w, "idle"), FailBuild(w)
      PROVE  ReindexGrows(w) /\ BuildsInv'
  <2>1. "failed" \in ReindexStatus
    BY DEF ReindexStatus, IngestionStatus
  <2> QED
    BY <1>5, <1>6, <2>1 DEF FailBuild
<1>7. CASE ClaimReindex(w)
  <2>1. UNCHANGED vectors
    BY <1>7 DEF ClaimReindex, external
  <2> QED
    BY <1>1, <1>2, <1>3, <1>7, <2>1, BuilderClaiming, OnlyGrowsGrows, ReindexingStores
<1>8. CASE CheckBuildAllowed(w)
  <2>1. ~BuilderAt(w, "idle") /\ UNCHANGED vectors
    BY <1>8 DEF CheckBuildAllowed, BuilderAt, external
  <2>2. CASE BuilderMoves(w, "allowed") /\ UNCHANGED reindex
    <3>1. ReindexOnlyGrows /\ ReindexGrows(w)
      BY <2>2, ReindexRowsKept, OnlyGrowsGrows
    <3>2. BuildsInv'
      BY <1>1, <2>1, <2>2, <3>1, BuilderMoving
    <3> QED
      BY <1>2, <1>3, <2>1, <3>1, <3>2, ReindexingStores
  <2>3. CASE FailBuild(w)
    BY <1>2, <1>3, <1>6, <2>1, <2>3, ReindexingStores
  <2> QED
    BY <1>8, <2>2, <2>3 DEF CheckBuildAllowed
<1>9. CASE ExtractForBuild(w)
  <2>1. ~BuilderAt(w, "idle") /\ UNCHANGED <<vectors, reindex>>
    BY <1>9 DEF ExtractForBuild, BuilderAt, external, tables
  <2>2. ReindexOnlyGrows /\ ReindexGrows(w)
    BY <2>1, ReindexRowsKept, OnlyGrowsGrows
  <2>3. BuildsInv'
    BY <1>1, <1>9, <2>1, <2>2, BuilderMoving DEF ExtractForBuild
  <2> QED
    BY <1>2, <1>3, <2>1, <2>2, <2>3, ReindexingStores
<1>10. CASE UpsertTarget(w)
  <2>1. ~BuilderAt(w, "idle") /\ UNCHANGED reindex
    BY <1>10 DEF UpsertTarget, BuilderAt, tables
  <2>2. ReindexOnlyGrows /\ ReindexGrows(w)
    BY <2>1, ReindexRowsKept, OnlyGrowsGrows
  <2>3. BuildsInv'
    BY <1>1, <1>10, <2>1, <2>2, BuilderMoving DEF UpsertTarget
  <2>4. vectors' \subseteq Collection \X Document
    BY <1>4, <1>10, <2>1, ReindexingStores DEF UpsertTarget
  <2> QED
    BY <1>2, <1>3, <2>2, <2>3, <2>4
<1>11. CASE BuildRaises(w)
  <2>1. ~BuilderAt(w, "idle") /\ FailBuild(w)
    BY <1>11 DEF BuildRaises, BuilderAt
  <2>2. vectors' \subseteq Collection \X Document
    BY <1>4, <1>11, <2>1, ReindexingStores DEF BuildRaises
  <2> QED
    BY <1>2, <1>3, <1>6, <2>1, <2>2
<1>12. CASE CompleteBuild(w)
  <2>1. ~BuilderAt(w, "idle") /\ UNCHANGED vectors
    BY <1>12 DEF CompleteBuild, BuilderAt, external
  <2>2. "completed" \in ReindexStatus
    BY DEF ReindexStatus, IngestionStatus
  <2>3. ReindexGrows(w) /\ BuildsInv'
    BY <1>5, <1>12, <2>1, <2>2 DEF CompleteBuild
  <2> QED
    BY <1>2, <1>3, <2>1, <2>3, ReindexingStores
<1>13. CASE BuilderDies(w)
  <2>1. ~BuilderAt(w, "idle") /\ UNCHANGED <<vectors, reindex>> /\ BuilderEnds(w)
    BY <1>13 DEF BuilderDies, external, tables
  <2>2. ReindexGrows(w)
    BY <2>1, ReindexRowsKept, OnlyGrowsGrows
  <2> QED
    BY <1>1, <1>2, <1>3, <2>1, <2>2, BuilderEnding, ReindexingStores
<1> QED
  BY <1>2, <1>7, <1>8, <1>9, <1>10, <1>11, <1>12, <1>13 DEF BuilderStep

---------------------------------------------------------------------------
(* Every step of schedule_reindex.                                          *)
LEMMA ScheduleStepKeeps ==
  ASSUME ReindexingInv, NEW c \in Client, ScheduleStep(c)
  PROVE  ReindexingInv' /\ ReindexingFrame
<1> USE DEF ReindexingInv
<1>1. BuildsInv
  BY DEF BuildsInv
<1>2. /\ UNCHANGED <<ingestion, deletion, cleanup, object, hashed, configured,
                     collection, vectors, builder>>
      /\ ReindexingFrame
  BY DEF ScheduleStep, ScheduleReadsDocument, ScheduleReadsReindexes, ScheduleReadsIngestions,
         ScheduleReadsDeletions, ScheduleFindsCollection, ScheduleRegisters, ScheduleCommits,
         ScheduleReloadsWinner, ScheduleRaises, documents, external, tables, ReindexingFrame
<1>3. ASSUME ReindexOnlyGrows, registered' \subseteq Collection,
             client' \in [Client -> ClientSession], ClientsValid'
      PROVE  ReindexingInv'
  <2>1. BuildsInv'
    BY <1>1, <1>2, <1>3, BuildersUnmoved
  <2> QED
    BY <1>2, <1>3, <2>1 DEF StoreType, BuildsInv, ReindexOnlyGrows
<1>4. ASSUME UNCHANGED <<registered, reindex>>, client' \in [Client -> ClientSession], ClientsValid'
      PROVE  ReindexingInv'
  BY <1>3, <1>4, ReindexRowsKept, ReindexingStores
<1>5. ASSUME ReindexOnlyGrows, Reply(c)
      PROVE  client' \in [Client -> ClientSession] /\ ClientsValid'
  BY <1>5, RequestEnds DEF ReindexOnlyGrows
<1>6. ASSUME ReindexOnlyGrows, client[c].at \in ScheduleSteps,
             NEW step \in ScheduleSteps, Continue(c, step)
      PROVE  client' \in [Client -> ClientSession] /\ ClientsValid'
  <2>1. step \in ClientSteps /\ {step, client[c].at} \cap {"idle", "activate_loaded"} = {}
    BY <1>6 DEF ClientSteps, ScheduleSteps
  <2> QED
    BY <1>6, <2>1, RequestContinues DEF ReindexOnlyGrows
<1>7. client[c].at \in ScheduleSteps =>
        /\ client[c].document \in Document
        /\ client[c].source \in Collection
        /\ client[c].target \in Collection
  <2>1. {"idle", "activate_loaded"} \cap ScheduleSteps = {}
    BY DEF ScheduleSteps
  <2> QED
    BY <2>1 DEF ClientsValid
<1>8. ASSUME client[c].at \in ScheduleSteps, UNCHANGED <<registered, reindex>>,
             Reply(c) \/ \E step \in ScheduleSteps : Continue(c, step)
      PROVE  ReindexingInv'
  BY <1>4, <1>5, <1>6, <1>8, ReindexRowsKept
<1>9. ASSUME NEW d \in Document, ScheduleReadsDocument(c, d)
      PROVE  ReindexingInv'
  <2> DEFINE s == [client[c] EXCEPT !.at = "schedule_read", !.document = d,
                                    !.source = collection[d], !.target = configured]
  <2>1. client[c] \in ClientSession /\ collection[d] \in Collection /\ configured \in Collection
    BY <1>9, ReindexingStores DEF ScheduleReadsDocument
  <2>2. /\ s \in ClientSession /\ s.at = "schedule_read" /\ s.document = d
        /\ s.source = collection[d] /\ s.target = configured
    BY <2>1 DEF ClientSession, ClientSteps, ScheduleSteps
  <2>3. client' = [client EXCEPT ![c] = s] /\ UNCHANGED <<registered, reindex>>
    BY <1>9 DEF ScheduleReadsDocument, documents, tables
  <2> HIDE DEF s
  <2>4. /\ client' \in [Client -> ClientSession]
        /\ \A x \in Client : client'[x] = IF x = c THEN s ELSE client[x]
    BY <2>2, <2>3, ReindexingStores
  <2>5. ClientsValid'
    BY <2>1, <2>2, <2>3, <2>4 DEF ClientsValid, At
  <2> QED
    BY <1>4, <2>3, <2>4, <2>5
<1>10. CASE \/ ScheduleReadsReindexes(c) \/ ScheduleReadsIngestions(c) \/ ScheduleReadsDeletions(c)
            \/ ScheduleFindsCollection(c) \/ ScheduleReloadsWinner(c) \/ ScheduleRaises(c)
  <2>1. UNCHANGED <<registered, reindex>>
    BY <1>10 DEF ScheduleReadsReindexes, ScheduleReadsIngestions, ScheduleReadsDeletions,
                 ScheduleFindsCollection, ScheduleReloadsWinner, ScheduleRaises, documents, tables
  <2>2. client[c].at \in ScheduleSteps
    BY <1>10 DEF ScheduleReadsReindexes, ScheduleReadsIngestions, ScheduleReadsDeletions,
                 ScheduleFindsCollection, ScheduleReloadsWinner, ScheduleRaises, At, ScheduleSteps
  <2>3. Reply(c) \/ \E step \in ScheduleSteps : Continue(c, step)
    BY <1>10 DEF ScheduleReadsReindexes, ScheduleReadsIngestions, ScheduleReadsDeletions,
                 ScheduleFindsCollection, ScheduleReloadsWinner, ScheduleRaises, ScheduleSteps
  <2> QED
    BY <1>2, <1>8, <2>1, <2>2, <2>3
<1>11. CASE ScheduleRegisters(c)
  <2>1. client[c].at \in ScheduleSteps /\ "schedule_registered" \in ScheduleSteps
    BY <1>11 DEF ScheduleRegisters, At, ScheduleSteps
  <2>2. ReindexOnlyGrows
    BY <1>11, ReindexRowsKept DEF ScheduleRegisters, tables
  <2>3. client' \in [Client -> ClientSession] /\ ClientsValid'
    BY <1>5, <1>6, <1>11, <2>1, <2>2 DEF ScheduleRegisters
  <2>4. registered' \subseteq Collection
    BY <1>7, <1>11, <2>1, ReindexingStores DEF ScheduleRegisters
  <2> QED
    BY <1>2, <1>3, <2>2, <2>3, <2>4
<1>12. CASE ScheduleCommits(c)
  <2>1. client[c].at \in ScheduleSteps /\ "schedule_lost" \in ScheduleSteps
    BY <1>12 DEF ScheduleCommits, At, ScheduleSteps
  <2>2. ReindexOnlyGrows
    <3>1. CASE UNCHANGED reindex
      BY <3>1, ReindexRowsKept
    <3>2. CASE reindex' = Append(reindex, PendingReindexJob(client[c].document, client[c].source,
                                                            client[c].target))
      BY <1>7, <2>1, <3>2, ReindexRowInserted
    <3> QED
      BY <1>12, <3>1, <3>2 DEF ScheduleCommits
  <2>3. client' \in [Client -> ClientSession] /\ ClientsValid'
    BY <1>5, <1>6, <1>12, <2>1, <2>2 DEF ScheduleCommits
  <2>4. registered' \subseteq Collection
    BY <1>12, ReindexingStores DEF ScheduleCommits, documents
  <2> QED
    BY <1>2, <1>3, <2>2, <2>3, <2>4
<1> QED
  BY <1>2, <1>9, <1>10, <1>11, <1>12 DEF ScheduleStep

---------------------------------------------------------------------------
(* An activation moves a document to a known collection and adds a cleanup *)
(* row; no build in progress is touched.                                   *)
LEMMA ActivateKeeps ==
  ASSUME StoreType, NEW i \in DOMAIN reindex, NEW status, NEW activated,
         Activate(i, status, activated)
  PROVE  /\ collection' \in [Document -> Collection \cup {None}]
         /\ cleanup' \in Seq(CleanupJob)
         /\ DOMAIN cleanup \subseteq DOMAIN cleanup'
         /\ ReindexOnlyGrows
<1>1. CASE UNCHANGED <<collection, cleanup, reindex>>
  BY <1>1, ReindexingStores, ReindexRowsKept
<1>2. CASE /\ collection' = [collection EXCEPT ![reindex[i].document] = reindex[i].target]
           /\ cleanup' = Append(cleanup, PendingCleanupJob(reindex[i]))
           /\ reindex' = [reindex EXCEPT ![i].activated = TRUE]
  <2>1. collection' \in [Document -> Collection \cup {None}]
    BY <1>2, ReindexRow, ReindexingStores
  <2>2. cleanup' \in Seq(CleanupJob) /\ DOMAIN cleanup \subseteq DOMAIN cleanup'
    <3> DEFINE e == PendingCleanupJob(reindex[i])
    <3>1. e \in CleanupJob
      BY ReindexRow DEF PendingCleanupJob, CleanupJob, CleanupStatus
    <3>2. cleanup' = Append(cleanup, e)
      BY <1>2
    <3> HIDE DEF e
    <3> QED
      BY <3>1, <3>2, ReindexingStores, TableAppend
  <2>3. ReindexOnlyGrows
    <3>1. /\ reindex' \in Seq(ReindexJob) /\ DOMAIN reindex' = DOMAIN reindex
          /\ \A j \in DOMAIN reindex : reindex'[j].status = reindex[j].status
      BY <1>2, ReindexingStores, ReindexActivated
    <3> QED
      BY <3>1 DEF ReindexOnlyGrows
  <2> QED
    BY <2>1, <2>2, <2>3
<1> QED
  BY <1>1, <1>2 DEF Activate

(* Every step of activate_reindexed_document, behind either route.          *)
LEMMA ActivateStepKeeps ==
  ASSUME ReindexingInv, NEW c \in Client, ActivateStep(c)
  PROVE  ReindexingInv' /\ ReindexingFrame
<1> USE DEF ReindexingInv
<1>1. BuildsInv
  BY DEF BuildsInv
<1>2. UNCHANGED <<ingestion, deletion, object, hashed, configured, registered, vectors, builder>>
  BY DEF ActivateStep, ActivateByJob, ActivateLoadsJob, ActivateLoadedJob,
         documents, external, tables
<1>3. ASSUME collection' \in [Document -> Collection \cup {None}],
             cleanup' \in Seq(CleanupJob), DOMAIN cleanup \subseteq DOMAIN cleanup',
             ReindexOnlyGrows, client' \in [Client -> ClientSession], ClientsValid'
      PROVE  ReindexingInv' /\ ReindexingFrame
  <2>1. BuildsInv'
    BY <1>1, <1>2, <1>3, BuildersUnmoved
  <2> QED
    BY <1>2, <1>3, <2>1 DEF StoreType, BuildsInv, ReindexOnlyGrows, ReindexingFrame
<1>4. ASSUME NEW i \in DOMAIN reindex, ActivateByJob(c, i)
      PROVE  ReindexingInv' /\ ReindexingFrame
  <2>1. Activate(i, reindex[i].status, reindex[i].activated) /\ UNCHANGED client
    BY <1>4 DEF ActivateByJob
  <2>2. /\ collection' \in [Document -> Collection \cup {None}]
        /\ cleanup' \in Seq(CleanupJob) /\ DOMAIN cleanup \subseteq DOMAIN cleanup'
        /\ ReindexOnlyGrows
    BY <2>1, ActivateKeeps
  <2>3. client' \in [Client -> ClientSession] /\ ClientsValid'
    BY <2>1, <2>2, OtherSessions DEF ReindexOnlyGrows
  <2> QED
    BY <1>3, <2>2, <2>3
<1>5. ASSUME NEW i \in DOMAIN reindex, ActivateLoadsJob(c, i)
      PROVE  ReindexingInv' /\ ReindexingFrame
  <2> DEFINE s == [client[c] EXCEPT !.at = "activate_loaded", !.row = i,
                                    !.status = reindex[i].status,
                                    !.activated = reindex[i].activated]
  <2>1. client[c] \in ClientSession
    BY ReindexingStores
  <2>2. s \in ClientSession /\ s.at = "activate_loaded" /\ s.row = i
    BY <2>1, ReindexRow DEF ClientSession, ClientSteps
  <2>3. client' = [client EXCEPT ![c] = s] /\ UNCHANGED <<collection, cleanup, reindex>>
    BY <1>5 DEF ActivateLoadsJob, documents, tables
  <2> HIDE DEF s
  <2>4. /\ client' \in [Client -> ClientSession]
        /\ \A x \in Client : client'[x] = IF x = c THEN s ELSE client[x]
    BY <2>2, <2>3, ReindexingStores
  <2>5. ClientsValid'
    BY <2>2, <2>3, <2>4 DEF ClientsValid, At, ScheduleSteps
  <2>6. ReindexOnlyGrows
    BY <2>3, ReindexRowsKept
  <2> QED
    BY <1>3, <2>3, <2>4, <2>5, <2>6, ReindexingStores
<1>6. CASE ActivateLoadedJob(c)
  <2>1. client[c].row \in DOMAIN reindex
    BY <1>6 DEF ActivateLoadedJob, ClientsValid
  <2>2. /\ collection' \in [Document -> Collection \cup {None}]
        /\ cleanup' \in Seq(CleanupJob) /\ DOMAIN cleanup \subseteq DOMAIN cleanup'
        /\ ReindexOnlyGrows
    BY <1>6, <2>1, ActivateKeeps DEF ActivateLoadedJob
  <2>3. client' \in [Client -> ClientSession] /\ ClientsValid'
    BY <1>6, <2>2, RequestEnds DEF ActivateLoadedJob, ReindexOnlyGrows
  <2> QED
    BY <1>3, <2>2, <2>3
<1> QED
  BY <1>4, <1>5, <1>6 DEF ActivateStep

(* ReindexingInv is preserved by every step of the component, which writes *)
(* no ingestion or deletion row, no object and no hash, and keeps the rows *)
(* of vector_cleanup_jobs.                                                 *)
THEOREM ReindexingStepKeeps ==
  ASSUME ReindexingInv, ReindexingStep
  PROVE  ReindexingInv' /\ ReindexingFrame
  BY BuilderStepKeeps, ScheduleStepKeeps, ActivateStepKeeps DEF ReindexingStep

---------------------------------------------------------------------------
(* The steps of a build as changes of rows and sessions.                   *)

BuilderBecomes(w, s) == \A v \in Builder : builder'[v] = IF v = w THEN s ELSE builder[v]

ReindexSetsOf(i, s) == SetsStatus(reindex, reindex', i, s) /\ PinsKept(reindex, reindex')

BuilderClaims(w, i) ==
  /\ BuilderAt(w, "idle")
  /\ i \in DOMAIN reindex /\ reindex[i].status = "pending"
  /\ ReindexSetsOf(i, "processing")
  /\ BuilderBecomes(w, [at |-> "claimed", job |-> i])
  /\ UNCHANGED vectors

BuilderProceeds(w, step) ==
  /\ \/ /\ BuilderAt(w, "claimed") /\ step = "allowed"
        /\ ~LatestIn(deletion, BuiltJob(w).document, DeletionStatus)
     \/ BuilderAt(w, "allowed") /\ step = "embedded"
  /\ BuilderBecomes(w, [builder[w] EXCEPT !.at = step])
  /\ UNCHANGED <<vectors, reindex>>

BuilderUpserts(w) ==
  /\ BuilderAt(w, "embedded")
  /\ vectors' = vectors \cup {<<BuiltJob(w).target, BuiltJob(w).document>>}
  /\ BuilderBecomes(w, [builder[w] EXCEPT !.at = "built"])
  /\ UNCHANGED reindex

BuilderFails(w) ==
  /\ \E at \in {"claimed", "allowed", "embedded"} : BuilderAt(w, at)
  /\ ReindexSetsOf(builder[w].job, "failed")
  /\ \/ UNCHANGED vectors
     \/ w \in Lossy /\ vectors' = vectors \cup {<<BuiltJob(w).target, BuiltJob(w).document>>}
  /\ BuilderBecomes(w, NoBuild)

BuilderCompletes(w) ==
  /\ BuilderAt(w, "built")
  /\ ReindexSetsOf(builder[w].job, "completed")
  /\ BuilderBecomes(w, NoBuild)
  /\ UNCHANGED vectors

BuilderLeaves(w) == BuilderBecomes(w, NoBuild) /\ UNCHANGED <<vectors, reindex>>

BuilderEffect(w) ==
  \/ \E i : BuilderClaims(w, i)
  \/ \E step : BuilderProceeds(w, step)
  \/ BuilderUpserts(w)
  \/ BuilderFails(w)
  \/ BuilderCompletes(w)
  \/ BuilderLeaves(w)

(* Setting the status of a row leaves its collections and its stamp        *)
(* alone.                                                                  *)
LEMMA ReindexRowSets ==
  ASSUME StoreType, NEW i \in DOMAIN reindex, NEW s \in ReindexStatus,
         reindex' = [reindex EXCEPT ![i].status = s]
  PROVE  ReindexSetsOf(i, s)
  BY ReindexingStores, ReindexSets DEF ReindexSetsOf

(* Every action of a builder has one of these effects.                     *)
LEMMA BuilderEffects ==
  ASSUME StoreType, ReindexingType, BuildersValid, NEW w \in Builder, BuilderStep(w)
  PROVE  BuilderEffect(w) /\ UNCHANGED <<configured, registered, collection, cleanup, client>>
<1>1. /\ \A step : BuilderMoves(w, step) => BuilderBecomes(w, [builder[w] EXCEPT !.at = step])
      /\ BuilderEnds(w) => BuilderBecomes(w, NoBuild)
      /\ \A s : builder' = [builder EXCEPT ![w] = s] => BuilderBecomes(w, s)
  BY DEF ReindexingType, BuilderMoves, BuilderEnds, BuilderBecomes
<1>2. ASSUME ~BuilderAt(w, "idle"), NEW s \in ReindexStatus,
             reindex' = [reindex EXCEPT ![builder[w].job].status = s]
      PROVE  ReindexSetsOf(builder[w].job, s)
  <2>1. PICK i \in DOMAIN reindex : i = builder[w].job
    BY <1>2 DEF BuildersValid, BuilderAt
  <2>2. reindex' = [reindex EXCEPT ![i].status = s]
    BY <1>2, <2>1
  <2>3. ReindexSetsOf(i, s)
    BY <2>2, ReindexRowSets
  <2> QED
    BY <2>1, <2>3
<1>3. UNCHANGED <<configured, registered, collection, cleanup, client>>
  BY DEF BuilderStep, ClaimReindex, CheckBuildAllowed, ExtractForBuild, UpsertTarget,
         BuildRaises, CompleteBuild, BuilderDies, documents, tables
<1>4. ASSUME ~BuilderAt(w, "idle"), FailBuild(w)
      PROVE  ReindexSetsOf(builder[w].job, "failed") /\ BuilderBecomes(w, NoBuild)
  BY <1>1, <1>2, <1>4 DEF FailBuild, ReindexStatus, IngestionStatus
<1>5. CASE ClaimReindex(w)
  <2>1. PICK i \in PendingReindex :
          /\ reindex' = [reindex EXCEPT ![i].status = "processing"]
          /\ builder' = [builder EXCEPT ![w] = [at |-> "claimed", job |-> i]]
    BY <1>5 DEF ClaimReindex
  <2>2. i \in DOMAIN reindex /\ reindex[i].status = "pending"
    BY DEF PendingReindex
  <2>3. ReindexSetsOf(i, "processing")
    BY <2>1, <2>2, ReindexRowSets DEF ReindexStatus, IngestionStatus
  <2>4. BuilderClaims(w, i)
    BY <1>1, <1>5, <2>1, <2>2, <2>3 DEF ClaimReindex, BuilderClaims, external
  <2> QED
    BY <1>3, <2>4 DEF BuilderEffect
<1>6. CASE CheckBuildAllowed(w)
  <2>1. CASE FailBuild(w)
    <3>1. BuilderAt(w, "claimed") /\ ~BuilderAt(w, "idle") /\ UNCHANGED vectors
      BY <1>6 DEF CheckBuildAllowed, BuilderAt, external
    <3>2. BuilderFails(w)
      BY <1>4, <2>1, <3>1 DEF BuilderFails
    <3> QED
      BY <1>3, <3>2 DEF BuilderEffect
  <2>2. CASE ~FailBuild(w)
    <3>1. BuilderProceeds(w, "allowed")
      BY <1>1, <1>6, <2>2 DEF CheckBuildAllowed, BuilderProceeds, external
    <3> QED
      BY <1>3, <3>1 DEF BuilderEffect
  <2> QED
    BY <2>1, <2>2
<1>7. CASE ExtractForBuild(w)
  <2>1. BuilderProceeds(w, "embedded")
    BY <1>1, <1>7 DEF ExtractForBuild, BuilderProceeds, external, tables
  <2> QED
    BY <1>3, <2>1 DEF BuilderEffect
<1>8. CASE UpsertTarget(w)
  <2>1. BuilderUpserts(w)
    BY <1>1, <1>8 DEF UpsertTarget, BuilderUpserts, tables
  <2> QED
    BY <1>3, <2>1 DEF BuilderEffect
<1>9. CASE BuildRaises(w)
  <2>1. ~BuilderAt(w, "idle")
    BY <1>9 DEF BuildRaises, BuilderAt
  <2>2. BuilderFails(w)
    BY <1>4, <1>9, <2>1 DEF BuildRaises, BuilderFails
  <2> QED
    BY <1>3, <2>2 DEF BuilderEffect
<1>10. CASE CompleteBuild(w)
  <2>1. ~BuilderAt(w, "idle")
    BY <1>10 DEF CompleteBuild, BuilderAt
  <2>2. ReindexSetsOf(builder[w].job, "completed")
    BY <1>2, <1>10, <2>1 DEF CompleteBuild, ReindexStatus, IngestionStatus
  <2>3. BuilderCompletes(w)
    BY <1>1, <1>10, <2>2 DEF CompleteBuild, BuilderCompletes, external
  <2> QED
    BY <1>3, <2>3 DEF BuilderEffect
<1>11. CASE BuilderDies(w)
  <2>1. BuilderLeaves(w)
    BY <1>1, <1>11 DEF BuilderDies, BuilderLeaves, external, tables
  <2> QED
    BY <1>3, <2>1 DEF BuilderEffect
<1> QED
  BY <1>5, <1>6, <1>7, <1>8, <1>9, <1>10, <1>11 DEF BuilderStep

---------------------------------------------------------------------------
(* A request of schedule_reindex.                                          *)

ScheduleBegins(c, d) ==
  /\ At(c, "idle")
  /\ collection[d] \notin {None, configured}
  /\ ClientBecomes(c, [client[c] EXCEPT !.at = "schedule_read", !.document = d,
                                        !.source = collection[d], !.target = configured])
  /\ UNCHANGED <<registered, reindex>>

ScheduleProceeds(c, step) ==
  /\ client[c].at \in ScheduleSteps
  /\ \/ step \in {"schedule_reindex_checked", "schedule_ingestion_checked", "schedule_lost",
                  "schedule_winner_missing"}
     \/ /\ step = "schedule_deletion_checked"
        /\ ~LatestIn(deletion, client[c].document, DeletionStatus)
     \/ /\ step \in {"schedule_registering", "schedule_registered"}
        /\ client[c].at \in {"schedule_deletion_checked", "schedule_registering"}
        /\ step = "schedule_registered" => client[c].target \in registered'
  /\ ClientBecomes(c, [client[c] EXCEPT !.at = step])
  /\ registered \subseteq registered'
  /\ UNCHANGED reindex

ScheduleEnds(c) ==
  /\ client[c].at \in ScheduleSteps
  /\ ClientBecomes(c, NoRequest)
  /\ registered \subseteq registered'
  /\ UNCHANGED reindex

ScheduleInserts(c, n) ==
  /\ At(c, "schedule_registered")
  /\ Inserts(reindex, reindex', n, client[c].document)
  /\ PinsKept(reindex, reindex')
  /\ reindex'[n].source = client[c].source /\ reindex'[n].target = client[c].target
  /\ ~reindex'[n].activated
  /\ OneActive(reindex')
  /\ ClientBecomes(c, NoRequest)
  /\ UNCHANGED registered

ScheduleEffect(c) ==
  \/ \E d \in Document : ScheduleBegins(c, d)
  \/ \E step \in ScheduleSteps : ScheduleProceeds(c, step)
  \/ ScheduleEnds(c)
  \/ \E n : ScheduleInserts(c, n)

(* Every step of a schedule request has one of these effects.              *)
LEMMA ScheduleEffects ==
  ASSUME StoreType, ClientsValid, NEW c \in Client, ScheduleStep(c)
  PROVE  ScheduleEffect(c) /\ UNCHANGED <<configured, collection, vectors, cleanup, builder>>
<1>1. UNCHANGED <<configured, collection, vectors, cleanup, builder>>
  BY DEF ScheduleStep, ScheduleReadsDocument, ScheduleReadsReindexes, ScheduleReadsIngestions,
         ScheduleReadsDeletions, ScheduleFindsCollection, ScheduleRegisters, ScheduleCommits,
         ScheduleReloadsWinner, ScheduleRaises, documents, external, tables
<1>2. CASE \E d \in Document : ScheduleReadsDocument(c, d)
  <2>1. PICK d \in Document : ScheduleReadsDocument(c, d)
    BY <1>2
  <2>2. ClientBecomes(c, [client[c] EXCEPT !.at = "schedule_read", !.document = d,
                                           !.source = collection[d], !.target = configured])
    BY <2>1 DEF ScheduleReadsDocument, StoreType, ClientBecomes
  <2>3. ScheduleBegins(c, d)
    BY <2>1, <2>2 DEF ScheduleReadsDocument, ScheduleBegins, documents, tables
  <2> QED
    BY <1>1, <2>3 DEF ScheduleEffect
<1>3. ASSUME client[c].at \in ScheduleSteps, UNCHANGED <<registered, reindex>>, Reply(c)
      PROVE  ScheduleEffect(c)
  BY <1>3, ClientChanges DEF ScheduleEnds, ScheduleEffect
<1>4. ASSUME client[c].at \in ScheduleSteps, registered \subseteq registered', UNCHANGED reindex,
             NEW step \in ScheduleSteps, Continue(c, step),
             \/ step \in {"schedule_reindex_checked", "schedule_ingestion_checked", "schedule_lost",
                          "schedule_winner_missing"}
             \/ /\ step = "schedule_deletion_checked"
                /\ ~LatestIn(deletion, client[c].document, DeletionStatus)
             \/ /\ step \in {"schedule_registering", "schedule_registered"}
                /\ client[c].at \in {"schedule_deletion_checked", "schedule_registering"}
                /\ step = "schedule_registered" => client[c].target \in registered'
      PROVE  ScheduleEffect(c)
  <2>1. ClientBecomes(c, [client[c] EXCEPT !.at = step])
    BY <1>4, ClientChanges
  <2>2. ScheduleProceeds(c, step)
    BY <1>4, <2>1 DEF ScheduleProceeds
  <2> QED
    BY <2>2 DEF ScheduleEffect
<1>5. CASE ScheduleReadsReindexes(c) \/ ScheduleReadsIngestions(c) \/ ScheduleReadsDeletions(c)
           \/ ScheduleReloadsWinner(c) \/ ScheduleRaises(c)
  <2>1. client[c].at \in ScheduleSteps /\ UNCHANGED <<registered, reindex>>
    BY <1>5 DEF ScheduleReadsReindexes, ScheduleReadsIngestions, ScheduleReadsDeletions,
                ScheduleReloadsWinner, ScheduleRaises, At, ScheduleSteps, documents, tables
  <2>2. CASE Reply(c)
    BY <1>1, <1>3, <2>1, <2>2
  <2>3. CASE ~Reply(c)
    <3>1. PICK step \in ScheduleSteps :
            /\ Continue(c, step)
            /\ \/ step \in {"schedule_reindex_checked", "schedule_ingestion_checked",
                            "schedule_winner_missing"}
               \/ /\ step = "schedule_deletion_checked"
                  /\ ~LatestIn(deletion, client[c].document, DeletionStatus)
      BY <1>5, <2>3 DEF ScheduleReadsReindexes, ScheduleReadsIngestions, ScheduleReadsDeletions,
                        ScheduleReloadsWinner, ScheduleRaises, ScheduleSteps
    <3> QED
      BY <1>1, <1>4, <2>1, <3>1
  <2> QED
    BY <2>2, <2>3
<1>6. CASE ScheduleFindsCollection(c)
  <2>1. /\ client[c].at \in ScheduleSteps /\ client[c].at = "schedule_deletion_checked"
        /\ UNCHANGED <<registered, reindex>>
    BY <1>6 DEF ScheduleFindsCollection, At, ScheduleSteps, documents, tables
  <2>2. PICK step \in {"schedule_registering", "schedule_registered"} :
          Continue(c, step) /\ (step = "schedule_registered" => client[c].target \in registered)
    BY <1>6 DEF ScheduleFindsCollection
  <2>3. step \in ScheduleSteps
    BY DEF ScheduleSteps
  <2> QED
    BY <1>1, <1>4, <2>1, <2>2, <2>3
<1>7. CASE ScheduleRegisters(c)
  <2>1. /\ client[c].at \in ScheduleSteps /\ client[c].at = "schedule_registering"
        /\ registered \subseteq registered' /\ client[c].target \in registered' /\ UNCHANGED reindex
    BY <1>7 DEF ScheduleRegisters, At, ScheduleSteps, tables
  <2>2. Reply(c) \/ Continue(c, "schedule_registered")
    BY <1>7 DEF ScheduleRegisters
  <2>3. CASE Reply(c)
    BY <1>1, <2>1, <2>3, ClientChanges DEF ScheduleEnds, ScheduleEffect
  <2>4. CASE Continue(c, "schedule_registered")
    BY <1>1, <1>4, <2>1, <2>4 DEF ScheduleSteps
  <2> QED
    BY <2>2, <2>3, <2>4
<1>8. CASE ScheduleCommits(c)
  <2>1. /\ client[c].at \in ScheduleSteps /\ client[c].at = "schedule_registered"
        /\ UNCHANGED registered
    BY <1>8 DEF ScheduleCommits, At, ScheduleSteps, documents
  <2> DEFINE e == PendingReindexJob(client[c].document, client[c].source, client[c].target)
  <2>2. CASE UNCHANGED reindex /\ Continue(c, "schedule_lost")
    BY <1>1, <1>4, <2>1, <2>2 DEF ScheduleSteps
  <2>3. CASE reindex' = Append(reindex, e) /\ OneActive(reindex') /\ Reply(c)
    <3>1. /\ client[c].document \in Document
          /\ client[c].source \in Collection /\ client[c].target \in Collection
      BY <2>1 DEF ClientsValid, ScheduleSteps
    <3>2. /\ e \in ReindexJob /\ e.document = client[c].document /\ e.status = "pending"
          /\ e.source = client[c].source /\ e.target = client[c].target /\ ~e.activated
      BY <3>1 DEF PendingReindexJob, ReindexJob, ReindexStatus, IngestionStatus
    <3> HIDE DEF e
    <3>3. reindex \in Seq(ReindexJob)
      BY ReindexingStores
    <3>4. Inserts(reindex, reindex', Len(reindex) + 1, client[c].document)
      BY <2>3, <3>2, <3>3, AppendInserts
    <3>5. PinsKept(reindex, reindex') /\ reindex'[Len(reindex) + 1] = e
      BY <2>3, <3>2, <3>3, LenProperties DEF PinsKept
    <3>6. ScheduleInserts(c, Len(reindex) + 1)
      BY <2>1, <2>3, <3>2, <3>4, <3>5, ClientChanges DEF ScheduleInserts, At
    <3> QED
      BY <1>1, <3>6 DEF ScheduleEffect
  <2> QED
    BY <1>8, <2>2, <2>3 DEF ScheduleCommits
<1> QED
  BY <1>1, <1>2, <1>5, <1>6, <1>7, <1>8 DEF ScheduleStep

---------------------------------------------------------------------------
(* Activations.  The cleanup row of the vacated collection gets position n.*)

Activates(i, n) ==
  LET job == reindex[i]
  IN  /\ i \in DOMAIN reindex
      /\ job.status = "completed"
      /\ ~LatestIn(deletion, job.document, DeletionStatus)
      /\ collection[job.document] = job.source
      /\ collection' = [collection EXCEPT ![job.document] = job.target]
      /\ n \notin DOMAIN cleanup /\ DOMAIN cleanup' = DOMAIN cleanup \cup {n}
      /\ \A j \in DOMAIN cleanup : cleanup'[j] = cleanup[j]
      /\ cleanup'[n] = PendingCleanupJob(job)
      /\ DOMAIN reindex' = DOMAIN reindex
      /\ \A j \in DOMAIN reindex :
           /\ reindex'[j].document = reindex[j].document
           /\ reindex'[j].source = reindex[j].source
           /\ reindex'[j].target = reindex[j].target
           /\ reindex'[j].status = reindex[j].status
           /\ IF j = i THEN reindex'[j].activated
                       ELSE reindex'[j].activated = reindex[j].activated

ActivateMoves(c) ==
  \E i, n :
    /\ Activates(i, n)
    /\ \/ ~reindex[i].activated /\ UNCHANGED client
       \/ /\ At(c, "activate_loaded") /\ client[c].row = i /\ ~client[c].activated
          /\ ClientBecomes(c, NoRequest)

ActivateLoads(c) ==
  /\ At(c, "idle")
  /\ \E i \in DOMAIN reindex :
       ClientBecomes(c, [client[c] EXCEPT !.at = "activate_loaded", !.row = i,
                                          !.status = reindex[i].status,
                                          !.activated = reindex[i].activated])
  /\ UNCHANGED <<collection, cleanup, reindex>>

ActivateAnswers(c) ==
  /\ UNCHANGED client \/ ClientBecomes(c, NoRequest)
  /\ UNCHANGED <<collection, cleanup, reindex>>

ActivateEffect(c) == ActivateMoves(c) \/ ActivateLoads(c) \/ ActivateAnswers(c)

(* What one of these transactions has done, once it moved the document.    *)
LEMMA ActivationMoves ==
  ASSUME StoreType, NEW i \in DOMAIN reindex, NEW status, NEW activated,
         status = "completed" => reindex[i].status = "completed",
         Activate(i, status, activated), Activatable(reindex[i], status, activated)
  PROVE  Activates(i, Len(cleanup) + 1)
<1>1. /\ collection' = [collection EXCEPT ![reindex[i].document] = reindex[i].target]
      /\ cleanup' = Append(cleanup, PendingCleanupJob(reindex[i]))
      /\ reindex' = [reindex EXCEPT ![i].activated = TRUE]
  BY DEF Activate
<1>2. /\ reindex[i].status = "completed"
      /\ ~LatestIn(deletion, reindex[i].document, DeletionStatus)
      /\ collection[reindex[i].document] = reindex[i].source
  BY DEF Activatable
<1>3. /\ Len(cleanup) + 1 \notin DOMAIN cleanup
      /\ DOMAIN cleanup' = DOMAIN cleanup \cup {Len(cleanup) + 1}
      /\ \A j \in DOMAIN cleanup : cleanup'[j] = cleanup[j]
      /\ cleanup'[Len(cleanup) + 1] = PendingCleanupJob(reindex[i])
  <2> DEFINE e == PendingCleanupJob(reindex[i])
  <2>1. e \in CleanupJob /\ cleanup' = Append(cleanup, e)
    BY <1>1, ReindexRow DEF PendingCleanupJob, CleanupJob, CleanupStatus
  <2> HIDE DEF e
  <2>2. cleanup \in Seq(CleanupJob)
    BY ReindexingStores
  <2>3. /\ Len(cleanup) \in Nat
        /\ DOMAIN cleanup = 1 .. Len(cleanup)
        /\ DOMAIN cleanup' = 1 .. Len(cleanup) + 1
    BY <2>1, <2>2, LenProperties
  <2>4. \A j \in 1 .. Len(cleanup) + 1 : cleanup'[j] = IF j = Len(cleanup) + 1 THEN e ELSE cleanup[j]
    BY <2>1, <2>2, <2>3
  <2> QED
    BY <2>3, <2>4 DEF e
<1>4. /\ DOMAIN reindex' = DOMAIN reindex
      /\ \A j \in DOMAIN reindex :
           /\ reindex'[j].document = reindex[j].document
           /\ reindex'[j].source = reindex[j].source
           /\ reindex'[j].target = reindex[j].target
           /\ reindex'[j].status = reindex[j].status
  BY <1>1, ReindexingStores, ReindexActivated
<1>5. \A j \in DOMAIN reindex : IF j = i THEN reindex'[j].activated
                                ELSE reindex'[j].activated = reindex[j].activated
  <2>1. reindex[i] \in ReindexJob
    BY ReindexingStores, TableRow
  <2>2. [reindex[i] EXCEPT !.activated = TRUE].activated
    BY <2>1 DEF ReindexJob
  <2>3. reindex' = [reindex EXCEPT ![i] = [reindex[i] EXCEPT !.activated = TRUE]]
    BY <1>1
  <2> QED
    BY <2>2, <2>3
<1> QED
  BY <1>2, <1>1, <1>3, <1>4, <1>5 DEF Activates

(* Every step of an activation has one of these effects.                   *)
LEMMA ActivateEffects ==
  ASSUME StoreType, ClientsValid, NEW c \in Client, ActivateStep(c),
         At(c, "activate_loaded") /\ client[c].status = "completed"
           => reindex[client[c].row].status = "completed"
  PROVE  ActivateEffect(c) /\ UNCHANGED <<configured, registered, vectors, builder>>
<1>1. UNCHANGED <<configured, registered, vectors, builder>>
  BY DEF ActivateStep, ActivateByJob, ActivateLoadsJob, ActivateLoadedJob, documents, external
<1>2. ASSUME NEW i \in DOMAIN reindex, ActivateByJob(c, i)
      PROVE  ActivateEffect(c)
  <2>1. Activate(i, reindex[i].status, reindex[i].activated) /\ UNCHANGED client
    BY <1>2 DEF ActivateByJob
  <2>2. CASE Activatable(reindex[i], reindex[i].status, reindex[i].activated)
    <3>1. Activates(i, Len(cleanup) + 1) /\ ~reindex[i].activated
      BY <2>1, <2>2, ActivationMoves DEF Activatable
    <3>2. ActivateMoves(c)
      BY <2>1, <3>1 DEF ActivateMoves
    <3> QED
      BY <3>2 DEF ActivateEffect
  <2>3. CASE ~Activatable(reindex[i], reindex[i].status, reindex[i].activated)
    BY <2>1, <2>3 DEF Activate, ActivateAnswers, ActivateEffect
  <2> QED
    BY <2>2, <2>3
<1>3. ASSUME NEW i \in DOMAIN reindex, ActivateLoadsJob(c, i)
      PROVE  ActivateEffect(c)
  <2>1. ClientBecomes(c, [client[c] EXCEPT !.at = "activate_loaded", !.row = i,
                                           !.status = reindex[i].status,
                                           !.activated = reindex[i].activated])
    BY <1>3 DEF ActivateLoadsJob, StoreType, ClientBecomes
  <2>2. ActivateLoads(c)
    BY <1>3, <2>1 DEF ActivateLoadsJob, ActivateLoads, documents, tables
  <2> QED
    BY <2>2 DEF ActivateEffect
<1>4. CASE ActivateLoadedJob(c)
  <2>1. PICK i \in DOMAIN reindex : i = client[c].row
    BY <1>4 DEF ActivateLoadedJob, ClientsValid
  <2>2. /\ Activate(i, client[c].status, client[c].activated)
        /\ At(c, "activate_loaded") /\ ClientBecomes(c, NoRequest)
    BY <1>4, <2>1, ClientChanges DEF ActivateLoadedJob
  <2>3. CASE Activatable(reindex[i], client[c].status, client[c].activated)
    <3>1. Activates(i, Len(cleanup) + 1) /\ ~client[c].activated
      BY <2>1, <2>2, <2>3, ActivationMoves DEF Activatable
    <3>2. ActivateMoves(c)
      BY <2>1, <2>2, <3>1 DEF ActivateMoves
    <3> QED
      BY <1>1, <3>2 DEF ActivateEffect
  <2>4. CASE ~Activatable(reindex[i], client[c].status, client[c].activated)
    BY <1>1, <2>2, <2>4 DEF Activate, ActivateAnswers, ActivateEffect
  <2> QED
    BY <2>3, <2>4
<1> QED
  BY <1>1, <1>2, <1>3, <1>4 DEF ActivateStep

---------------------------------------------------------------------------
(* Deletion.                                                               *)

ErasingInOrder == DeletedMeansErased /\ HashHeldUntilDeleted

DeletionInv ==
  /\ StoreType /\ ClientsValid /\ DeletionType /\ DeletersValid /\ HeldOnceBy(deleter)
  /\ ErasingInOrder

DeletersInv == DeletionType /\ DeletersValid /\ HeldOnceBy(deleter)

(* The parts of StoreType a step of this component may disturb.            *)
LEMMA DeletionStores ==
  ASSUME StoreType
  PROVE  /\ collection \in [Document -> Collection \cup {None}]
         /\ hashed \subseteq Document
         /\ object \subseteq Document
         /\ vectors \subseteq Collection \X Document
         /\ deletion \in Seq(DeletionJob)
         /\ reindex \in Seq(ReindexJob)
         /\ cleanup \in Seq(CleanupJob)
         /\ client \in [Client -> ClientSession]
  BY DEF StoreType

(* A row of the table is typed.                                             *)
LEMMA DeletionRow ==
  ASSUME StoreType, NEW i \in DOMAIN deletion
  PROVE  i \in Nat /\ deletion[i].document \in Document
<1>1. i \in Nat /\ deletion[i] \in DeletionJob
  BY DeletionStores, TableRow
<1> QED
  BY <1>1 DEF DeletionJob

(* The collections to clean are collections.                               *)
LEMMA TrackedCollections ==
  ASSUME StoreType, NEW d \in Document
  PROVE  /\ CurrentCollection(d) \subseteq Collection
         /\ CleanupCollections(d) \subseteq Collection
         /\ BuiltCollections(d) \subseteq Collection
<1>1. CurrentCollection(d) \subseteq Collection
  BY DeletionStores DEF CurrentCollection
<1>2. \A i \in DOMAIN cleanup : cleanup[i].collection \in Collection
  <2>1. \A i \in DOMAIN cleanup : cleanup[i] \in CleanupJob
    BY DeletionStores, TableRow
  <2> QED
    BY <2>1 DEF CleanupJob
<1>3. \A i \in DOMAIN reindex : reindex[i].target \in Collection
  <2>1. \A i \in DOMAIN reindex : reindex[i] \in ReindexJob
    BY DeletionStores, TableRow
  <2> QED
    BY <2>1 DEF ReindexJob
<1> QED
  BY <1>1, <1>2, <1>3 DEF CleanupCollections, BuiltCollections, RowsOf

---------------------------------------------------------------------------
(* What a step does to the table.  Rows stay, with their documents; what   *)
(* is recorded as done stays recorded; COMPLETED is final.                 *)
DeletionGrows ==
  /\ deletion' \in Seq(DeletionJob)
  /\ DOMAIN deletion \subseteq DOMAIN deletion'
  /\ \A i \in DOMAIN deletion :
       /\ deletion'[i].document = deletion[i].document
       /\ deletion[i].vectorsDone => deletion'[i].vectorsDone
       /\ deletion[i].storageDone => deletion'[i].storageDone
       /\ deletion[i].status = "completed" => deletion'[i].status = "completed"

(* Attempts in progress, but the one of worker w, stay so ...              *)
OthersProceed(w) ==
  \A i \in DOMAIN deletion :
    deletion[i].status = "processing" =>
      deletion'[i].status = "processing" \/ deleter[w].job = i

(* ... or all of them do.                                                  *)
AllProceed ==
  \A i \in DOMAIN deletion :
    deletion[i].status = "processing" => deletion'[i].status = "processing"

NoneCompletes ==
  \A i \in DOMAIN deletion' :
    deletion'[i].status = "completed" => i \in DOMAIN deletion /\ deletion[i].status = "completed"

(* A step that leaves the table alone keeps all that is asked of the table. *)
LEMMA DeletionRowsKept ==
  ASSUME StoreType, UNCHANGED deletion
  PROVE  DeletionGrows /\ AllProceed /\ NoneCompletes
  BY DeletionStores DEF DeletionGrows, AllProceed, NoneCompletes

(* So does the insert of a PENDING job.                                     *)
LEMMA DeletionRowInserted ==
  ASSUME StoreType, NEW d \in Document, deletion' = Append(deletion, PendingDeletionJob(d))
  PROVE  DeletionGrows /\ AllProceed /\ NoneCompletes
<1> DEFINE e == PendingDeletionJob(d)
<1>1. e \in DeletionJob /\ e.status = "pending"
  BY DEF PendingDeletionJob, DeletionJob, DeletionStatus
<1>2. deletion' = Append(deletion, e)
  OBVIOUS
<1> HIDE DEF e
<1>3. /\ deletion' \in Seq(DeletionJob)
      /\ DOMAIN deletion \subseteq DOMAIN deletion'
      /\ \A j \in DOMAIN deletion : deletion'[j] = deletion[j]
      /\ \A j \in DOMAIN deletion' \ DOMAIN deletion : deletion'[j] = e
  BY <1>1, <1>2, DeletionStores, TableAppend
<1>4. NoneCompletes
  BY <1>1, <1>3 DEF NoneCompletes
<1> QED
  BY <1>3, <1>4 DEF DeletionGrows, AllProceed

(* A claim of row i, or its failure: it was not COMPLETED, nor is it now.  *)
LEMMA DeletionRowSet ==
  ASSUME StoreType, NEW i \in DOMAIN deletion, deletion[i].status # "completed",
         NEW s \in DeletionStatus, s # "completed",
         deletion' = [deletion EXCEPT ![i].status = s]
  PROVE  /\ DeletionGrows /\ NoneCompletes
         /\ i \in DOMAIN deletion' /\ deletion'[i].status = s
         /\ \A j \in DOMAIN deletion : j # i => deletion'[j].status = deletion[j].status
<1>1. /\ deletion' \in Seq(DeletionJob)
      /\ DOMAIN deletion' = DOMAIN deletion
      /\ \A j \in DOMAIN deletion :
           /\ deletion'[j].document = deletion[j].document
           /\ deletion'[j].vectorsDone = deletion[j].vectorsDone
           /\ deletion'[j].storageDone = deletion[j].storageDone
           /\ deletion'[j].status = IF j = i THEN s ELSE deletion[j].status
  BY DeletionStores, DeletionStatusSet
<1>2. DeletionGrows
  BY <1>1 DEF DeletionGrows
<1>3. NoneCompletes
  BY <1>1 DEF NoneCompletes
<1> QED
  BY <1>1, <1>2, <1>3

---------------------------------------------------------------------------
(* Sessions of workers.                                                    *)

(* Deletion workers stay valid while the table only grows and no original  *)
(* is stored again.                                                        *)
LEMMA DeletersUnmoved ==
  ASSUME DeletersInv, DeletionGrows, AllProceed, UNCHANGED <<deleter, object>>
  PROVE  DeletersInv'
  BY DEF DeletersInv, DeletionType, DeletersValid, HeldOnceBy, DeletionGrows, AllProceed

(* A worker whose call ends, for whatever reason, holds nothing any more.   *)
LEMMA DeleterEnding ==
  ASSUME DeletersInv, NEW w \in Deleter, ~DeleterAt(w, "idle"), DeletionGrows,
         OthersProceed(w), object' \subseteq object, DeleterEnds(w)
  PROVE  DeletersInv'
<1>1. NoDeletion \in DeleterSession /\ NoDeletion.at = "idle"
  BY DEF NoDeletion, DeleterSession
<1>2. /\ deleter' \in [Deleter -> DeleterSession]
      /\ \A v \in Deleter : deleter'[v] = IF v = w THEN NoDeletion ELSE deleter[v]
      /\ DOMAIN deleter = Deleter /\ DOMAIN deleter' = Deleter
  BY <1>1 DEF DeletersInv, DeletionType, DeleterEnds
<1>3. \A v \in Deleter : deleter[v].at # "idle" /\ deleter[v].job = deleter[w].job => v = w
  BY <1>2 DEF DeletersInv, HeldOnceBy, DeleterAt
<1>4. DeletersValid'
  BY <1>1, <1>2, <1>3 DEF DeletersInv, DeletersValid, DeletionGrows, OthersProceed
<1>5. HeldOnceBy(deleter)'
  BY <1>1, <1>2 DEF DeletersInv, HeldOnceBy
<1> QED
  BY <1>2, <1>4, <1>5 DEF DeletersInv, DeletionType

(* Worker w goes on with session s, having done what s.at says.            *)
LEMMA DeleterMoving ==
  ASSUME DeletersInv, NEW w \in Deleter, ~DeleterAt(w, "idle"), DeletionGrows, AllProceed,
         object' \subseteq object,
         NEW s \in DeleterSession, s.at # "idle", s.job = deleter[w].job,
         deleter' = [deleter EXCEPT ![w] = s],
         s.at \in {"vectors_done", "object_done"} => deletion'[s.job].vectorsDone,
         s.at = "object_done" => deletion[s.job].document \notin object'
  PROVE  DeletersInv'
<1>1. /\ deleter' \in [Deleter -> DeleterSession]
      /\ \A v \in Deleter : deleter'[v] = IF v = w THEN s ELSE deleter[v]
      /\ DOMAIN deleter = Deleter /\ DOMAIN deleter' = Deleter
  BY DEF DeletersInv, DeletionType
<1>2. DeletersValid'
  BY <1>1 DEF DeletersInv, DeletersValid, DeletionGrows, AllProceed, DeleterAt
<1>3. HeldOnceBy(deleter)'
  BY <1>1 DEF DeletersInv, HeldOnceBy, DeleterAt
<1> QED
  BY <1>1, <1>2, <1>3 DEF DeletersInv, DeletionType

---------------------------------------------------------------------------
(* The order of erasing.                                                   *)

(* The order of the erasing stays while rows keep what is done, and no     *)
(* hash goes.                                                              *)
LEMMA ErasingUndisturbed ==
  ASSUME ErasingInOrder, DeletionGrows, NoneCompletes, UNCHANGED hashed,
         object' \subseteq object
  PROVE  ErasingInOrder'
<1> USE DEF ErasingInOrder
<1>1. DeletedMeansErased'
  BY DEF DeletedMeansErased, DeletionGrows, NoneCompletes
<1>2. HashHeldUntilDeleted'
  BY DEF HashHeldUntilDeleted, DeletionGrows, RowsOf
<1> QED
  BY <1>1, <1>2

(* The completion of row i, whose vectors and original are gone.           *)
LEMMA ErasingCompleted ==
  ASSUME StoreType, ErasingInOrder, NEW i \in DOMAIN deletion, deletion[i].vectorsDone,
         deletion[i].document \notin object, UNCHANGED object,
         hashed' = hashed \ {deletion[i].document},
         deletion' = [deletion EXCEPT ![i].status = "completed", ![i].storageDone = TRUE]
  PROVE  /\ DeletionGrows
         /\ \A j \in DOMAIN deletion : j # i => deletion'[j].status = deletion[j].status
         /\ ErasingInOrder'
<1> USE DEF ErasingInOrder
<1>1. /\ deletion' \in Seq(DeletionJob)
      /\ DOMAIN deletion' = DOMAIN deletion
      /\ \A j \in DOMAIN deletion :
           /\ deletion'[j].document = deletion[j].document
           /\ deletion'[j].vectorsDone = deletion[j].vectorsDone
           /\ deletion[j].storageDone \/ j = i => deletion'[j].storageDone
           /\ deletion'[j].status = IF j = i THEN "completed" ELSE deletion[j].status
  BY DeletionStores, DeletionCompleted
<1>2. DeletionGrows
  BY <1>1 DEF DeletionGrows
<1>3. DeletedMeansErased'
  BY <1>1 DEF DeletedMeansErased
<1>4. HashHeldUntilDeleted'
  BY <1>1 DEF HashHeldUntilDeleted, RowsOf
<1> QED
  BY <1>1, <1>2, <1>3, <1>4

---------------------------------------------------------------------------
(* The claim: the row it takes was PENDING, so no worker held it.           *)
LEMMA DeleterClaiming ==
  ASSUME DeletionInv, NEW w \in Deleter, ClaimDeletion(w)
  PROVE  DeletionGrows /\ NoneCompletes /\ DeletersInv'
<1> USE DEF DeletionInv
<1>1. PICK i \in PendingDeletion :
        /\ deletion' = [deletion EXCEPT ![i].status = "processing"]
        /\ deleter' = [deleter EXCEPT
             ![w] = [at |-> "claimed", job |-> i, failed |-> FALSE,
                     todo |-> CurrentCollection(deletion[i].document)]]
  BY DEF ClaimDeletion
<1> DEFINE s == [at |-> "claimed", job |-> i, failed |-> FALSE,
                 todo |-> CurrentCollection(deletion[i].document)]
<1>2. i \in DOMAIN deletion /\ deletion[i].status = "pending"
  BY DEF PendingDeletion
<1>3. /\ DeletionGrows /\ NoneCompletes
      /\ i \in DOMAIN deletion' /\ deletion'[i].status = "processing"
      /\ \A j \in DOMAIN deletion : j # i => deletion'[j].status = deletion[j].status
  <2>1. "processing" \in DeletionStatus /\ "processing" # "completed"
    BY DEF DeletionStatus
  <2>2. deletion' = [deletion EXCEPT ![i].status = "processing"]
    BY <1>1
  <2> QED
    BY <1>2, <2>1, <2>2, DeletionRowSet
<1>4. i \in Nat /\ CurrentCollection(deletion[i].document) \subseteq Collection
  BY <1>2, DeletionRow, TrackedCollections
<1>5. s \in DeleterSession /\ s.at = "claimed" /\ s.job = i
  BY <1>4 DEF DeleterSession
<1>6. deleter' = [deleter EXCEPT ![w] = s] /\ UNCHANGED object
  BY <1>1 DEF ClaimDeletion, external
<1> HIDE DEF s
<1>7. /\ deleter' \in [Deleter -> DeleterSession]
      /\ \A v \in Deleter : deleter'[v] = IF v = w THEN s ELSE deleter[v]
      /\ DOMAIN deleter = Deleter /\ DOMAIN deleter' = Deleter
  BY <1>5, <1>6 DEF DeletionType
<1>8. \A v \in Deleter : deleter[v].at # "idle" => deleter[v].job # i
  BY <1>2 DEF DeletersValid
<1>9. DeletersValid'
  BY <1>3, <1>5, <1>6, <1>7, <1>8 DEF DeletersValid, DeletionGrows
<1>10. HeldOnceBy(deleter)'
  BY <1>5, <1>7, <1>8 DEF HeldOnceBy
<1> QED
  BY <1>3, <1>7, <1>9, <1>10 DEF DeletersInv, DeletionType

(* Every step of DocumentDeletionWorker.process_next_job.                   *)
LEMMA DeleterStepKeeps ==
  ASSUME DeletionInv, NEW w \in Deleter, DeleterStep(w)
  PROVE  DeletionInv' /\ UNCHANGED <<ingestion, reindex, cleanup>>
<1> USE DEF DeletionInv
<1>1. DeletersInv
  BY DEF DeletersInv
<1>2. UNCHANGED <<ingestion, reindex, cleanup, configured, registered, collection, client>>
  BY DEF DeleterStep, ClaimDeletion, TrackCleanups, TrackBuilds, EraseFrom,
         RecordVectorCleanup, EraseObject, FailObject, CompleteDeletion, DeleterDies,
         documents, external, tables
<1>3. ASSUME DeletionGrows, vectors' \subseteq Collection \X Document,
             object' \subseteq object, hashed' \subseteq hashed, DeletersInv', ErasingInOrder'
      PROVE  DeletionInv'
  BY <1>2, <1>3, OtherSessions DEF StoreType, DeletersInv, DeletionGrows
<1>4. ~DeleterAt(w, "idle") =>
        /\ deleter[w].job \in DOMAIN deletion
        /\ deletion[deleter[w].job].status = "processing"
        /\ DeleterDocument(w) \in Document
  BY DeletionRow DEF DeletersValid, DeleterAt, DeleterDocument
<1>5. deleter[w] \in DeleterSession
  BY DEF DeletionType
<1>6. ASSUME UNCHANGED <<deletion, hashed, object>>
      PROVE  DeletionGrows /\ AllProceed /\ OthersProceed(w) /\ ErasingInOrder'
  <2>1. DeletionGrows /\ AllProceed /\ NoneCompletes
    BY <1>6, DeletionRowsKept
  <2> QED
    BY <1>6, <2>1, ErasingUndisturbed DEF AllProceed, OthersProceed
<1>7. ASSUME UNCHANGED <<deletion, hashed, object>>, vectors' \subseteq Collection \X Document,
             ~DeleterAt(w, "idle"),
             NEW s \in DeleterSession, s.at \in {"claimed", "cleanups_read", "erasing"},
             s.job = deleter[w].job, deleter' = [deleter EXCEPT ![w] = s]
      PROVE  DeletionInv'
  BY <1>1, <1>3, <1>6, <1>7, DeleterMoving
<1>8. ASSUME ~DeleterAt(w, "idle"), DeleterEnds(w), UNCHANGED <<vectors, hashed>>,
             object' \subseteq object,
             deletion' = [deletion EXCEPT ![deleter[w].job].status = "partially_failed"]
      PROVE  DeletionInv'
  <2>1. PICK i \in DOMAIN deletion :
          i = deleter[w].job /\ deletion' = [deletion EXCEPT ![i].status = "partially_failed"]
    BY <1>4, <1>8
  <2>2. /\ DeletionGrows /\ NoneCompletes
        /\ \A j \in DOMAIN deletion : j # i => deletion'[j].status = deletion[j].status
    <3>1. /\ "partially_failed" \in DeletionStatus /\ "partially_failed" # "completed"
          /\ deletion[i].status # "completed"
      BY <1>4, <1>8, <2>1 DEF DeletionStatus
    <3> QED
      BY <2>1, <3>1, DeletionRowSet
  <2>3. OthersProceed(w)
    BY <2>1, <2>2 DEF OthersProceed
  <2>4. DeletersInv'
    BY <1>1, <1>8, <2>2, <2>3, DeleterEnding
  <2>5. ErasingInOrder'
    BY <1>8, <2>2, ErasingUndisturbed
  <2> QED
    BY <1>3, <1>8, <2>2, <2>4, <2>5, DeletionStores
<1>9. CASE ClaimDeletion(w)
  <2>1. DeletionGrows /\ NoneCompletes /\ DeletersInv'
    BY <1>9, DeleterClaiming
  <2>2. UNCHANGED <<hashed, object, vectors>>
    BY <1>9 DEF ClaimDeletion, documents, external
  <2>3. ErasingInOrder'
    BY <2>1, <2>2, ErasingUndisturbed
  <2> QED
    BY <1>2, <1>3, <2>1, <2>2, <2>3, DeletionStores
<1>10. CASE TrackCleanups(w)
  <2>1. ~DeleterAt(w, "idle") /\ UNCHANGED <<deletion, hashed, object, vectors>>
    BY <1>10 DEF TrackCleanups, DeleterAt, documents, external, tables
  <2> DEFINE s == [deleter[w] EXCEPT !.at = "cleanups_read",
                                     !.todo = @ \cup CleanupCollections(DeleterDocument(w))]
  <2>2. CleanupCollections(DeleterDocument(w)) \subseteq Collection
    BY <1>4, <2>1, TrackedCollections
  <2>3. s \in DeleterSession /\ s.at = "cleanups_read" /\ s.job = deleter[w].job
    BY <1>5, <2>2 DEF DeleterSession
  <2>4. deleter' = [deleter EXCEPT ![w] = s]
    BY <1>10 DEF TrackCleanups
  <2> HIDE DEF s
  <2> QED
    BY <1>2, <1>7, <2>1, <2>3, <2>4, DeletionStores
<1>11. CASE TrackBuilds(w)
  <2>1. ~DeleterAt(w, "idle") /\ UNCHANGED <<deletion, hashed, object, vectors>>
    BY <1>11 DEF TrackBuilds, DeleterAt, documents, external, tables
  <2> DEFINE s == [deleter[w] EXCEPT !.at = "erasing",
                                     !.todo = @ \cup BuiltCollections(DeleterDocument(w))]
  <2>2. BuiltCollections(DeleterDocument(w)) \subseteq Collection
    BY <1>4, <2>1, TrackedCollections
  <2>3. s \in DeleterSession /\ s.at = "erasing" /\ s.job = deleter[w].job
    BY <1>5, <2>2 DEF DeleterSession
  <2>4. deleter' = [deleter EXCEPT ![w] = s]
    BY <1>11 DEF TrackBuilds
  <2> HIDE DEF s
  <2> QED
    BY <1>2, <1>7, <2>1, <2>3, <2>4, DeletionStores
<1>12. ASSUME NEW c \in Collection, EraseFrom(w, c)
       PROVE  DeletionInv'
  <2>1. ~DeleterAt(w, "idle") /\ UNCHANGED <<deletion, hashed, object>> /\ DeleterAt(w, "erasing")
    BY <1>12 DEF EraseFrom, DeleterAt, documents, tables
  <2>2. vectors' \subseteq Collection \X Document
    BY <1>12, DeletionStores DEF EraseFrom
  <2> DEFINE done   == [deleter[w] EXCEPT !.todo = @ \ {c}]
             failed == [deleter[w] EXCEPT !.todo = @ \ {c}, !.failed = TRUE]
  <2>3. /\ done \in DeleterSession /\ done.at = "erasing" /\ done.job = deleter[w].job
        /\ failed \in DeleterSession /\ failed.at = "erasing" /\ failed.job = deleter[w].job
    BY <1>5, <2>1 DEF DeleterSession, DeleterAt
  <2>4. \/ deleter' = [deleter EXCEPT ![w] = done]
        \/ deleter' = [deleter EXCEPT ![w] = failed]
    BY <1>12 DEF EraseFrom
  <2> HIDE DEF done, failed
  <2> QED
    BY <1>7, <2>1, <2>2, <2>3, <2>4
<1>13. CASE RecordVectorCleanup(w)
  <2>1. ~DeleterAt(w, "idle") /\ UNCHANGED <<hashed, object, vectors>>
    BY <1>13 DEF RecordVectorCleanup, DeleterAt, documents, external
  <2>2. CASE deleter[w].failed
    BY <1>8, <1>13, <2>1, <2>2 DEF RecordVectorCleanup
  <2>3. CASE ~deleter[w].failed
    <3> DEFINE s == [deleter[w] EXCEPT !.at = "vectors_done"]
    <3>1. s \in DeleterSession /\ s.at = "vectors_done" /\ s.job = deleter[w].job
      BY <1>5 DEF DeleterSession
    <3>2. deleter' = [deleter EXCEPT ![w] = s]
      BY <1>13, <2>3 DEF RecordVectorCleanup, DeleterMoves
    <3> HIDE DEF s
    <3>3. PICK i \in DOMAIN deletion :
            i = deleter[w].job /\ deletion' = [deletion EXCEPT ![i].vectorsDone = TRUE]
      BY <1>4, <1>13, <2>1, <2>3 DEF RecordVectorCleanup
    <3>4. /\ deletion' \in Seq(DeletionJob)
          /\ DOMAIN deletion' = DOMAIN deletion
          /\ \A j \in DOMAIN deletion :
               /\ deletion'[j].document = deletion[j].document
               /\ deletion'[j].status = deletion[j].status
               /\ deletion'[j].storageDone = deletion[j].storageDone
               /\ deletion[j].vectorsDone \/ j = i => deletion'[j].vectorsDone
      BY <3>3, DeletionStores, DeletionVectorsRecorded
    <3>5. DeletionGrows /\ AllProceed /\ NoneCompletes
      BY <3>4 DEF DeletionGrows, AllProceed, NoneCompletes
    <3>6. DeletersInv'
      BY <1>1, <2>1, <3>1, <3>2, <3>3, <3>4, <3>5, DeleterMoving
    <3>7. ErasingInOrder'
      BY <2>1, <3>5, ErasingUndisturbed
    <3> QED
      BY <1>2, <1>3, <2>1, <3>5, <3>6, <3>7, DeletionStores
  <2> QED
    BY <2>2, <2>3
<1>14. CASE EraseObject(w)
  <2>1. ~DeleterAt(w, "idle") /\ UNCHANGED <<hashed, vectors, deletion>>
    BY <1>14 DEF EraseObject, DeleterAt, documents, tables
  <2>2. DeletionGrows /\ AllProceed /\ NoneCompletes
    BY <2>1, DeletionRowsKept
  <2> DEFINE s == [deleter[w] EXCEPT !.at = "object_done"]
  <2>3. s \in DeleterSession /\ s.at = "object_done" /\ s.job = deleter[w].job
    BY <1>5 DEF DeleterSession
  <2>4. deleter' = [deleter EXCEPT ![w] = s]
    BY <1>14 DEF EraseObject, DeleterMoves
  <2> HIDE DEF s
  <2>5. deletion'[s.job].vectorsDone /\ deletion[s.job].document \notin object'
    BY <1>14, <2>1, <2>3 DEF EraseObject, DeleterAt, DeletersValid, DeleterDocument
  <2>6. object' \subseteq object
    BY <1>14 DEF EraseObject
  <2>7. DeletersInv'
    BY <1>1, <2>1, <2>2, <2>3, <2>4, <2>5, <2>6, DeleterMoving
  <2>8. ErasingInOrder'
    BY <1>14, <2>1, <2>2, <2>6, ErasingUndisturbed DEF EraseObject
  <2> QED
    BY <1>2, <1>3, <2>1, <2>2, <2>6, <2>7, <2>8, DeletionStores
<1>15. CASE FailObject(w)
  <2>1. ~DeleterAt(w, "idle") /\ UNCHANGED <<hashed, vectors>> /\ DeleterEnds(w)
    BY <1>15 DEF FailObject, DeleterAt, documents
  <2>2. object' = object \/ object' = object \ {DeleterDocument(w)}
    BY <1>15 DEF FailObject
  <2> QED
    BY <1>8, <1>15, <2>1, <2>2 DEF FailObject
<1>16. CASE CompleteDeletion(w)
  <2>1. ~DeleterAt(w, "idle") /\ UNCHANGED <<object, vectors>> /\ DeleterEnds(w)
    BY <1>16 DEF CompleteDeletion, DeleterAt, external
  <2>2. PICK i \in DOMAIN deletion :
          /\ i = deleter[w].job
          /\ deletion' = [deletion EXCEPT ![i].status = "completed", ![i].storageDone = TRUE]
          /\ hashed' = hashed \ {deletion[i].document}
    BY <1>4, <1>16, <2>1 DEF CompleteDeletion, DeleterDocument
  <2>3. deletion[i].vectorsDone /\ deletion[i].document \notin object
    BY <1>16, <2>2 DEF CompleteDeletion, DeleterAt, DeletersValid
  <2>4. /\ DeletionGrows /\ ErasingInOrder'
        /\ \A j \in DOMAIN deletion : j # i => deletion'[j].status = deletion[j].status
    BY <2>1, <2>2, <2>3, ErasingCompleted
  <2>5. DeletersInv'
    BY <1>1, <2>1, <2>2, <2>4, DeleterEnding DEF OthersProceed
  <2> QED
    BY <1>2, <1>3, <2>1, <2>2, <2>4, <2>5, DeletionStores
<1>17. CASE DeleterDies(w)
  <2>1. ~DeleterAt(w, "idle") /\ UNCHANGED <<deletion, hashed, object, vectors>> /\ DeleterEnds(w)
    BY <1>17 DEF DeleterDies, documents, external, tables
  <2> QED
    BY <1>1, <1>2, <1>3, <1>6, <2>1, DeleterEnding, DeletionStores
<1> QED
  BY <1>2, <1>9, <1>10, <1>11, <1>12, <1>13, <1>14, <1>15, <1>16, <1>17 DEF DeleterStep

---------------------------------------------------------------------------
(* Every step of request_document_deletion.                                 *)
LEMMA DeleteStepKeeps ==
  ASSUME DeletionInv, NEW c \in Client, DeleteStep(c)
  PROVE  DeletionInv' /\ UNCHANGED <<ingestion, reindex, cleanup>>
<1> USE DEF DeletionInv
<1>1. DeletersInv
  BY DEF DeletersInv
<1>2. UNCHANGED <<ingestion, reindex, cleanup, configured, registered, collection, hashed,
                  object, vectors, deleter>>
  BY DEF DeleteStep, DeleteReadsDeletions, DeleteLocksDeletions, DeleteReadsIngestions,
         DeleteReadsReindexes, DeleteCommits, documents, external, tables
<1>3. ASSUME DeletionGrows, AllProceed, NoneCompletes,
             client' \in [Client -> ClientSession], ClientsValid'
      PROVE  DeletionInv'
  <2>1. DeletersInv'
    BY <1>1, <1>2, <1>3, DeletersUnmoved
  <2>2. ErasingInOrder'
    BY <1>2, <1>3, ErasingUndisturbed
  <2> QED
    BY <1>2, <1>3, <2>1, <2>2 DEF StoreType, DeletersInv, DeletionGrows
<1>4. ASSUME UNCHANGED deletion, client' \in [Client -> ClientSession], ClientsValid'
      PROVE  DeletionInv'
  BY <1>3, <1>4, DeletionRowsKept
<1>5. ASSUME NEW d \in Document, DeleteReadsDeletions(c, d)
      PROVE  DeletionInv'
  <2> DEFINE step == IF DeletionRowsLocked(d) THEN "delete_waiting" ELSE "delete_read"
             s == [client[c] EXCEPT !.at = step, !.document = d, !.row = Len(deletion)]
  <2>1. client[c] \in ClientSession /\ Len(deletion) \in Nat
    BY DeletionStores, LenProperties
  <2>2. step \in {"delete_waiting", "delete_read"}
    OBVIOUS
  <2>3. client' = [client EXCEPT ![c] = s] /\ UNCHANGED deletion
    BY <1>5 DEF DeleteReadsDeletions, tables
  <2> HIDE DEF step
  <2>4. s \in ClientSession /\ s.at \in {"delete_waiting", "delete_read"} /\ s.document = d
    BY <2>1, <2>2 DEF ClientSession, ClientSteps
  <2> HIDE DEF s
  <2>5. /\ client' \in [Client -> ClientSession]
        /\ \A x \in Client : client'[x] = IF x = c THEN s ELSE client[x]
    BY <2>3, <2>4, DeletionStores
  <2>6. ClientsValid'
    BY <1>2, <2>4, <2>5 DEF ClientsValid, At, ScheduleSteps
  <2> QED
    BY <1>4, <2>3, <2>5, <2>6
<1>6. CASE DeleteLocksDeletions(c) \/ DeleteReadsIngestions(c) \/ DeleteReadsReindexes(c)
  <2>1. UNCHANGED deletion
    BY <1>6 DEF DeleteLocksDeletions, DeleteReadsIngestions, DeleteReadsReindexes, tables
  <2>2. client[c].at \notin {"idle", "activate_loaded"}
    BY <1>6 DEF DeleteLocksDeletions, DeleteReadsIngestions, DeleteReadsReindexes, At
  <2>3. CASE Reply(c)
    BY <1>2, <1>4, <2>1, <2>3, RequestEnds
  <2>4. ASSUME NEW step \in {"delete_read", "delete_ingestion_checked", "delete_reindex_checked"},
               Continue(c, step)
        PROVE  DeletionInv'
    <3>1. step \in ClientSteps /\ step \notin {"idle", "activate_loaded"} \cup ScheduleSteps
      BY DEF ClientSteps, ScheduleSteps
    <3> QED
      BY <1>2, <1>4, <2>1, <2>2, <2>4, <3>1, RequestContinues
  <2> QED
    BY <1>2, <1>6, <2>3, <2>4 DEF DeleteLocksDeletions, DeleteReadsIngestions, DeleteReadsReindexes
<1>7. CASE DeleteCommits(c)
  <2>1. client[c].document \in Document
    BY <1>7 DEF DeleteCommits, ClientsValid, At
  <2>2. client' \in [Client -> ClientSession] /\ ClientsValid'
    BY <1>2, <1>7, RequestEnds DEF DeleteCommits
  <2>3. \/ UNCHANGED deletion
        \/ deletion' = Append(deletion, PendingDeletionJob(client[c].document))
    BY <1>7 DEF DeleteCommits
  <2> QED
    BY <1>2, <1>3, <1>4, <2>1, <2>2, <2>3, DeletionRowInserted
<1> QED
  BY <1>2, <1>5, <1>6, <1>7 DEF DeleteStep

(* DeletionInv, the order of erasing with it, is preserved by every step   *)
(* of the component, which writes no other job table.                      *)
THEOREM DeletionStepKeeps ==
  ASSUME DeletionInv, DeletionStep
  PROVE  DeletionInv' /\ UNCHANGED <<ingestion, reindex, cleanup>>
  BY DeleterStepKeeps, DeleteStepKeeps DEF DeletionStep

---------------------------------------------------------------------------
(* The steps of the component as changes of rows and sessions.             *)

DeleterBecomes(w, s) == \A v \in Deleter : deleter'[v] = IF v = w THEN s ELSE deleter[v]

DeletionSetsOf(i, s) ==
  /\ SetsStatus(deletion, deletion', i, s)
  /\ \A j \in DOMAIN deletion : deletion'[j].vectorsDone = deletion[j].vectorsDone

DeleterClaims(w, i) ==
  /\ DeleterAt(w, "idle")
  /\ i \in DOMAIN deletion /\ deletion[i].status = "pending"
  /\ DeletionSetsOf(i, "processing")
  /\ DeleterBecomes(w, [at |-> "claimed", job |-> i, failed |-> FALSE,
                        todo |-> CurrentCollection(deletion[i].document)])
  /\ UNCHANGED <<vectors, object, hashed>>

DeleterTracks(w) ==
  /\ \/ /\ DeleterAt(w, "claimed")
        /\ DeleterBecomes(w, [deleter[w] EXCEPT
             !.at = "cleanups_read", !.todo = @ \cup CleanupCollections(DeleterDocument(w))])
     \/ /\ DeleterAt(w, "cleanups_read")
        /\ DeleterBecomes(w, [deleter[w] EXCEPT
             !.at = "erasing", !.todo = @ \cup BuiltCollections(DeleterDocument(w))])
  /\ UNCHANGED <<vectors, object, hashed, deletion>>

DeleterErases(w, c) ==
  /\ DeleterAt(w, "erasing") /\ c \in deleter[w].todo
  /\ \/ /\ vectors' = vectors \ {<<c, DeleterDocument(w)>>}
        /\ DeleterBecomes(w, [deleter[w] EXCEPT !.todo = @ \ {c}])
     \/ /\ vectors' \in {vectors, vectors \ {<<c, DeleterDocument(w)>>}}
        /\ DeleterBecomes(w, [deleter[w] EXCEPT !.todo = @ \ {c}, !.failed = TRUE])
  /\ UNCHANGED <<object, hashed, deletion>>

DeleterRecords(w) ==
  /\ DeleterAt(w, "erasing") /\ deleter[w].todo = {} /\ ~deleter[w].failed
  /\ DOMAIN deletion' = DOMAIN deletion
  /\ \A j \in DOMAIN deletion : /\ deletion'[j].document = deletion[j].document
                                /\ deletion'[j].status = deletion[j].status
                                /\ deletion[j].vectorsDone => deletion'[j].vectorsDone
                                /\ deletion'[j].vectorsDone /\ j # deleter[w].job
                                     => deletion[j].vectorsDone
  /\ DeleterBecomes(w, [deleter[w] EXCEPT !.at = "vectors_done"])
  /\ UNCHANGED <<vectors, object, hashed>>

DeleterErasesObject(w) ==
  /\ DeleterAt(w, "vectors_done")
  /\ object' = object \ {DeleterDocument(w)}
  /\ DeleterBecomes(w, [deleter[w] EXCEPT !.at = "object_done"])
  /\ UNCHANGED <<vectors, hashed, deletion>>

DeleterFails(w) ==
  /\ ~DeleterAt(w, "idle")
  /\ DeletionSetsOf(deleter[w].job, "partially_failed")
  /\ \/ UNCHANGED object
     \/ DeleterAt(w, "vectors_done") /\ object' = object \ {DeleterDocument(w)}
  /\ DeleterBecomes(w, NoDeletion)
  /\ UNCHANGED <<vectors, hashed>>

DeleterCompletes(w) ==
  /\ DeleterAt(w, "object_done")
  /\ DeletionSetsOf(deleter[w].job, "completed")
  /\ hashed' = hashed \ {DeleterDocument(w)}
  /\ DeleterBecomes(w, NoDeletion)
  /\ UNCHANGED <<vectors, object>>

DeleterLeaves(w) == DeleterBecomes(w, NoDeletion) /\ UNCHANGED <<vectors, object, hashed, deletion>>

DeleterEffect(w) ==
  \/ \E i : DeleterClaims(w, i)
  \/ DeleterTracks(w)
  \/ \E c \in Collection : DeleterErases(w, c)
  \/ DeleterRecords(w)
  \/ DeleterErasesObject(w)
  \/ DeleterFails(w)
  \/ DeleterCompletes(w)
  \/ DeleterLeaves(w)

(* Setting the status of a row leaves what it records, and the other       *)
(* rows.                                                                   *)
LEMMA DeletionRowSets ==
  ASSUME StoreType, NEW i \in DOMAIN deletion, NEW s \in DeletionStatus,
         deletion' = [deletion EXCEPT ![i].status = s]
  PROVE  DeletionSetsOf(i, s)
<1>1. /\ DOMAIN deletion' = DOMAIN deletion
      /\ \A j \in DOMAIN deletion :
           /\ deletion'[j].document = deletion[j].document
           /\ deletion'[j].vectorsDone = deletion[j].vectorsDone
           /\ deletion'[j].status = IF j = i THEN s ELSE deletion[j].status
  BY DeletionStores, DeletionStatusSet
<1>2. DOMAIN deletion \subseteq Nat
  BY DeletionStores, LenProperties
<1> QED
  BY <1>1, <1>2 DEF DeletionSetsOf, SetsStatus

(* So does completing it, which also records that the original is gone.    *)
LEMMA DeletionRowCompletes ==
  ASSUME StoreType, NEW i \in DOMAIN deletion,
         deletion' = [deletion EXCEPT ![i].status = "completed", ![i].storageDone = TRUE]
  PROVE  DeletionSetsOf(i, "completed")
<1>1. /\ DOMAIN deletion' = DOMAIN deletion
      /\ \A j \in DOMAIN deletion :
           /\ deletion'[j].document = deletion[j].document
           /\ deletion'[j].vectorsDone = deletion[j].vectorsDone
           /\ deletion'[j].status = IF j = i THEN "completed" ELSE deletion[j].status
  BY DeletionStores, DeletionCompleted
<1>2. DOMAIN deletion \subseteq Nat
  BY DeletionStores, LenProperties
<1> QED
  BY <1>1, <1>2 DEF DeletionSetsOf, SetsStatus

(* Every action of a deletion worker has one of these effects.             *)
LEMMA DeleterEffects ==
  ASSUME StoreType, DeletionType, DeletersValid, NEW w \in Deleter, DeleterStep(w)
  PROVE  DeleterEffect(w) /\ UNCHANGED <<configured, registered, collection, client>>
<1>1. /\ \A step : DeleterMoves(w, step) => DeleterBecomes(w, [deleter[w] EXCEPT !.at = step])
      /\ DeleterEnds(w) => DeleterBecomes(w, NoDeletion)
      /\ \A s : deleter' = [deleter EXCEPT ![w] = s] => DeleterBecomes(w, s)
  BY DEF DeletionType, DeleterMoves, DeleterEnds, DeleterBecomes
<1>2. ASSUME ~DeleterAt(w, "idle"), NEW s \in DeletionStatus,
             deletion' = [deletion EXCEPT ![deleter[w].job].status = s]
      PROVE  DeletionSetsOf(deleter[w].job, s)
  <2>1. PICK i \in DOMAIN deletion : i = deleter[w].job
    BY <1>2 DEF DeletersValid, DeleterAt
  <2>2. deletion' = [deletion EXCEPT ![i].status = s]
    BY <1>2, <2>1
  <2>3. DeletionSetsOf(i, s)
    BY <2>2, DeletionRowSets
  <2> QED
    BY <2>1, <2>3
<1>3. UNCHANGED <<configured, registered, collection, client>>
  BY DEF DeleterStep, ClaimDeletion, TrackCleanups, TrackBuilds, EraseFrom, RecordVectorCleanup,
         EraseObject, FailObject, CompleteDeletion, DeleterDies, documents
<1>4. CASE ClaimDeletion(w)
  <2>1. PICK i \in PendingDeletion :
          /\ deletion' = [deletion EXCEPT ![i].status = "processing"]
          /\ deleter' = [deleter EXCEPT
               ![w] = [at |-> "claimed", job |-> i, failed |-> FALSE,
                       todo |-> CurrentCollection(deletion[i].document)]]
    BY <1>4 DEF ClaimDeletion
  <2>2. i \in DOMAIN deletion /\ deletion[i].status = "pending"
    BY DEF PendingDeletion
  <2>3. DeletionSetsOf(i, "processing")
    BY <2>1, <2>2, DeletionRowSets DEF DeletionStatus
  <2>4. DeleterClaims(w, i)
    BY <1>1, <1>4, <2>1, <2>2, <2>3 DEF ClaimDeletion, DeleterClaims, documents, external
  <2> QED
    BY <1>3, <2>4 DEF DeleterEffect
<1>5. CASE TrackCleanups(w)
  <2>1. DeleterBecomes(w, [deleter[w] EXCEPT
             !.at = "cleanups_read", !.todo = @ \cup CleanupCollections(DeleterDocument(w))])
    BY <1>5 DEF TrackCleanups, DeletionType, DeleterBecomes
  <2>2. DeleterTracks(w)
    BY <1>5, <2>1 DEF TrackCleanups, DeleterTracks, documents, external, tables
  <2> QED
    BY <1>3, <2>2 DEF DeleterEffect
<1>6. CASE TrackBuilds(w)
  <2>1. DeleterBecomes(w, [deleter[w] EXCEPT
             !.at = "erasing", !.todo = @ \cup BuiltCollections(DeleterDocument(w))])
    BY <1>6 DEF TrackBuilds, DeletionType, DeleterBecomes
  <2>2. DeleterTracks(w)
    BY <1>6, <2>1 DEF TrackBuilds, DeleterTracks, documents, external, tables
  <2> QED
    BY <1>3, <2>2 DEF DeleterEffect
<1>7. ASSUME NEW c \in Collection, EraseFrom(w, c)
      PROVE  DeleterErases(w, c)
  <2>1. UNCHANGED <<object, hashed, deletion>> /\ DeleterAt(w, "erasing") /\ c \in deleter[w].todo
    BY <1>7 DEF EraseFrom, documents, tables
  <2>2. \A s : /\ deleter' = [deleter EXCEPT ![w].todo = @ \ {c}]
                    => DeleterBecomes(w, [deleter[w] EXCEPT !.todo = @ \ {c}])
               /\ deleter' = [deleter EXCEPT ![w].todo = @ \ {c}, ![w].failed = TRUE]
                    => DeleterBecomes(w, [deleter[w] EXCEPT !.todo = @ \ {c}, !.failed = TRUE])
    BY DEF DeletionType, DeleterBecomes
  <2> QED
    BY <1>7, <2>1, <2>2 DEF EraseFrom, DeleterErases
<1>8. CASE RecordVectorCleanup(w)
  <2>1. ~DeleterAt(w, "idle") /\ deleter[w].job \in DOMAIN deletion
    BY <1>8 DEF RecordVectorCleanup, DeleterAt, DeletersValid
  <2>2. CASE deleter[w].failed
    <3>1. DeletionSetsOf(deleter[w].job, "partially_failed")
      BY <1>2, <1>8, <2>1, <2>2 DEF RecordVectorCleanup, DeletionStatus
    <3>2. DeleterFails(w)
      BY <1>1, <1>8, <2>1, <2>2, <3>1 DEF RecordVectorCleanup, DeleterFails, documents, external
    <3> QED
      BY <1>3, <3>2 DEF DeleterEffect
  <2>3. CASE ~deleter[w].failed
    <3>1. deletion' = [deletion EXCEPT ![deleter[w].job].vectorsDone = TRUE]
      BY <1>8, <2>3 DEF RecordVectorCleanup
    <3>2. /\ DOMAIN deletion' = DOMAIN deletion
          /\ \A j \in DOMAIN deletion : /\ deletion'[j].document = deletion[j].document
                                        /\ deletion'[j].status = deletion[j].status
                                        /\ deletion[j].vectorsDone => deletion'[j].vectorsDone
                                        /\ deletion'[j].vectorsDone /\ j # deleter[w].job
                                             => deletion[j].vectorsDone
      BY <2>1, <3>1, DeletionStores, DeletionVectorsRecorded
    <3>3. DeleterRecords(w)
      BY <1>1, <1>8, <2>3, <3>2 DEF RecordVectorCleanup, DeleterRecords, documents, external
    <3> QED
      BY <1>3, <3>3 DEF DeleterEffect
  <2> QED
    BY <2>2, <2>3
<1>9. CASE EraseObject(w)
  <2>1. DeleterErasesObject(w)
    BY <1>1, <1>9 DEF EraseObject, DeleterErasesObject, documents, tables
  <2> QED
    BY <1>3, <2>1 DEF DeleterEffect
<1>10. CASE FailObject(w)
  <2>1. ~DeleterAt(w, "idle")
    BY <1>10 DEF FailObject, DeleterAt
  <2>2. DeletionSetsOf(deleter[w].job, "partially_failed")
    BY <1>2, <1>10, <2>1 DEF FailObject, DeletionStatus
  <2>3. DeleterFails(w)
    BY <1>1, <1>10, <2>1, <2>2 DEF FailObject, DeleterFails, documents
  <2> QED
    BY <1>3, <2>3 DEF DeleterEffect
<1>11. CASE CompleteDeletion(w)
  <2>1. PICK i \in DOMAIN deletion :
          /\ i = deleter[w].job
          /\ deletion' = [deletion EXCEPT ![i].status = "completed", ![i].storageDone = TRUE]
    BY <1>11 DEF CompleteDeletion, DeletersValid, DeleterAt
  <2>2. DeletionSetsOf(i, "completed")
    BY <2>1, DeletionRowCompletes
  <2>3. DeletionSetsOf(deleter[w].job, "completed")
    BY <2>1, <2>2
  <2>4. DeleterCompletes(w)
    BY <1>1, <1>11, <2>3 DEF CompleteDeletion, DeleterCompletes, external
  <2> QED
    BY <1>3, <2>4 DEF DeleterEffect
<1>12. CASE DeleterDies(w)
  <2>1. DeleterLeaves(w)
    BY <1>1, <1>12 DEF DeleterDies, DeleterLeaves, documents, external, tables
  <2> QED
    BY <1>3, <2>1 DEF DeleterEffect
<1> QED
  BY <1>3, <1>4, <1>5, <1>6, <1>7, <1>8, <1>9, <1>10, <1>11, <1>12 DEF DeleterStep, DeleterEffect

---------------------------------------------------------------------------
(* A request of request_document_deletion.                                 *)

DeleteBegins(c, d) ==
  /\ At(c, "idle")
  /\ ~LatestIn(deletion, d, {"completed"} \cup Active)
  /\ \E step \in {"delete_waiting", "delete_read"}, n \in Nat :
       ClientBecomes(c, [client[c] EXCEPT !.at = step, !.document = d, !.row = n])
  /\ UNCHANGED deletion

DeleteProceeds(c, step) ==
  /\ \/ At(c, "delete_waiting") /\ step = "delete_read"
     \/ /\ At(c, "delete_read") /\ step = "delete_ingestion_checked"
        /\ ~LatestIn(ingestion, client[c].document, Active)
     \/ /\ At(c, "delete_ingestion_checked") /\ step = "delete_reindex_checked"
        /\ ActiveRows(reindex, client[c].document) = {}
  /\ ClientBecomes(c, [client[c] EXCEPT !.at = step])
  /\ UNCHANGED deletion

DeleteEnds(c) == ClientBecomes(c, NoRequest) /\ UNCHANGED deletion

DeleteInserts(c, n) ==
  /\ At(c, "delete_reindex_checked")
  /\ Inserts(deletion, deletion', n, client[c].document)
  /\ \A j \in DOMAIN deletion : deletion'[j].vectorsDone = deletion[j].vectorsDone
  /\ ~deletion'[n].vectorsDone
  /\ OneActive(deletion')
  /\ ClientBecomes(c, NoRequest)

DeleteEffect(c) ==
  \/ \E d \in Document : DeleteBegins(c, d)
  \/ \E step : DeleteProceeds(c, step)
  \/ DeleteEnds(c)
  \/ \E n : DeleteInserts(c, n)

(* Every step of a DELETE request has one of these effects.                *)
LEMMA DeleteEffects ==
  ASSUME StoreType, ClientsValid, NEW c \in Client, DeleteStep(c)
  PROVE  /\ DeleteEffect(c)
         /\ UNCHANGED <<configured, registered, collection, vectors, object, hashed, deleter>>
<1>1. UNCHANGED <<configured, registered, collection, vectors, object, hashed, deleter>>
  BY DEF DeleteStep, DeleteReadsDeletions, DeleteLocksDeletions, DeleteReadsIngestions,
         DeleteReadsReindexes, DeleteCommits, documents, external
<1>2. CASE \E d \in Document : DeleteReadsDeletions(c, d)
  <2>1. PICK d \in Document : DeleteReadsDeletions(c, d)
    BY <1>2
  <2> DEFINE step == IF DeletionRowsLocked(d) THEN "delete_waiting" ELSE "delete_read"
  <2>2. /\ client' = [client EXCEPT ![c].at = step, ![c].document = d, ![c].row = Len(deletion)]
        /\ step \in {"delete_waiting", "delete_read"}
    BY <2>1 DEF DeleteReadsDeletions
  <2> HIDE DEF step
  <2>3. Len(deletion) \in Nat
    BY DeletionStores, LenProperties
  <2>4. ClientBecomes(c, [client[c] EXCEPT !.at = step, !.document = d, !.row = Len(deletion)])
    BY <2>2 DEF StoreType, ClientBecomes
  <2>5. DeleteBegins(c, d)
    BY <2>1, <2>2, <2>3, <2>4 DEF DeleteReadsDeletions, DeleteBegins, tables
  <2> QED
    BY <1>1, <2>5 DEF DeleteEffect
<1>3. CASE DeleteLocksDeletions(c)
  <2>1. DeleteProceeds(c, "delete_read")
    BY <1>3, ClientChanges DEF DeleteLocksDeletions, DeleteProceeds, tables
  <2> QED
    BY <1>1, <2>1 DEF DeleteEffect
<1>4. CASE DeleteReadsIngestions(c)
  <2>1. CASE LatestIn(ingestion, client[c].document, Active)
    BY <1>1, <1>4, <2>1, ClientChanges DEF DeleteReadsIngestions, DeleteEnds, DeleteEffect, tables
  <2>2. CASE ~LatestIn(ingestion, client[c].document, Active)
    <3>1. DeleteProceeds(c, "delete_ingestion_checked")
      BY <1>4, <2>2, ClientChanges DEF DeleteReadsIngestions, DeleteProceeds, tables
    <3> QED
      BY <1>1, <3>1 DEF DeleteEffect
  <2> QED
    BY <2>1, <2>2
<1>5. CASE DeleteReadsReindexes(c)
  <2>1. CASE ActiveRows(reindex, client[c].document) # {}
    BY <1>1, <1>5, <2>1, ClientChanges DEF DeleteReadsReindexes, DeleteEnds, DeleteEffect, tables
  <2>2. CASE ActiveRows(reindex, client[c].document) = {}
    <3>1. DeleteProceeds(c, "delete_reindex_checked")
      BY <1>5, <2>2, ClientChanges DEF DeleteReadsReindexes, DeleteProceeds, tables
    <3> QED
      BY <1>1, <3>1 DEF DeleteEffect
  <2> QED
    BY <2>1, <2>2
<1>6. CASE DeleteCommits(c)
  <2>1. At(c, "delete_reindex_checked") /\ ClientBecomes(c, NoRequest)
    BY <1>6, ClientChanges DEF DeleteCommits
  <2>2. CASE UNCHANGED deletion
    BY <1>1, <2>1, <2>2 DEF DeleteEnds, DeleteEffect
  <2>3. CASE ~ UNCHANGED deletion
    <3> DEFINE e == PendingDeletionJob(client[c].document)
    <3>1. deletion' = Append(deletion, e) /\ OneActive(deletion')
      BY <1>6, <2>3 DEF DeleteCommits
    <3>2. client[c].document \in Document
      BY <2>1 DEF ClientsValid, At
    <3>3. /\ e \in DeletionJob /\ e.document = client[c].document /\ e.status = "pending"
          /\ ~e.vectorsDone
      BY <3>2 DEF PendingDeletionJob, DeletionJob, DeletionStatus
    <3> HIDE DEF e
    <3>4. deletion \in Seq(DeletionJob)
      BY DeletionStores
    <3>5. Inserts(deletion, deletion', Len(deletion) + 1, client[c].document)
      BY <3>1, <3>3, <3>4, AppendInserts
    <3>6. /\ \A j \in DOMAIN deletion : deletion'[j] = deletion[j]
          /\ deletion'[Len(deletion) + 1] = e
      BY <3>1, <3>3, <3>4, LenProperties
    <3>7. DeleteInserts(c, Len(deletion) + 1)
      BY <2>1, <3>1, <3>3, <3>5, <3>6 DEF DeleteInserts
    <3> QED
      BY <1>1, <3>7 DEF DeleteEffect
  <2> QED
    BY <2>2, <2>3
<1> QED
  BY <1>2, <1>3, <1>4, <1>5, <1>6 DEF DeleteStep

---------------------------------------------------------------------------
(* Vector cleanup.                                                         *)

CleanupInv == StoreType /\ ClientsValid /\ CleanupType /\ CleanersValid

(* What the cleanup writes to is typed.                                     *)
LEMMA CleanupStores ==
  ASSUME StoreType
  PROVE  /\ vectors \subseteq Collection \X Document
         /\ cleanup \in Seq(CleanupJob)
  BY DEF StoreType

(* The table keeps its type and its rows.                                  *)
CleanupRowsStay == cleanup' \in Seq(CleanupJob) /\ DOMAIN cleanup' = DOMAIN cleanup

(* Recording an outcome keeps the rows.                                     *)
LEMMA CleanupRowResolved ==
  ASSUME StoreType, NEW i \in DOMAIN cleanup, NEW s \in CleanupStatus,
         cleanup' = [cleanup EXCEPT ![i].status = s]
  PROVE  CleanupRowsStay
  BY CleanupStores, CleanupStatusSet DEF CleanupRowsStay

(* A worker whose call ends, for whatever reason, holds nothing any more.   *)
LEMMA CleanerEnding ==
  ASSUME CleanupType, CleanersValid, CleanupRowsStay, NEW w \in Cleaner, CleanerEnds(w)
  PROVE  CleanupType' /\ CleanersValid'
<1>1. NoCleanup \in CleanerSession /\ NoCleanup.at = "idle"
  BY DEF NoCleanup, CleanerSession
<1>2. /\ cleaner' \in [Cleaner -> CleanerSession]
      /\ \A v \in Cleaner : cleaner'[v] = IF v = w THEN NoCleanup ELSE cleaner[v]
  BY <1>1 DEF CleanupType, CleanerEnds
<1> QED
  BY <1>1, <1>2 DEF CleanupType, CleanersValid, CleanupRowsStay

(* A worker that goes on with its job holds the same row.                   *)
LEMMA CleanerMoving ==
  ASSUME CleanupType, CleanersValid, CleanupRowsStay, NEW w \in Cleaner, ~CleanerAt(w, "idle"),
         NEW step \in {"allowed", "erased"}, CleanerMoves(w, step)
  PROVE  CleanupType' /\ CleanersValid'
<1> DEFINE s == [cleaner[w] EXCEPT !.at = step]
<1>1. cleaner[w] \in CleanerSession
  BY DEF CleanupType
<1>2. s \in CleanerSession /\ s.job = cleaner[w].job
  BY <1>1 DEF CleanerSession
<1>3. cleaner' = [cleaner EXCEPT ![w] = s]
  BY DEF CleanerMoves
<1> HIDE DEF s
<1>4. /\ cleaner' \in [Cleaner -> CleanerSession]
      /\ \A v \in Cleaner : cleaner'[v] = IF v = w THEN s ELSE cleaner[v]
  BY <1>2, <1>3 DEF CleanupType
<1> QED
  BY <1>2, <1>4 DEF CleanupType, CleanersValid, CleanupRowsStay, CleanerAt

(* The claim takes a row that exists.                                       *)
LEMMA CleanerClaiming ==
  ASSUME StoreType, CleanupType, CleanersValid, CleanupRowsStay,
         NEW w \in Cleaner, ClaimCleanup(w)
  PROVE  CleanupType' /\ CleanersValid'
<1>1. PICK i \in EligibleCleanup :
        cleaner' = [cleaner EXCEPT ![w] = [at |-> "claimed", job |-> i, loaded |-> cleanup[i].status]]
  BY DEF ClaimCleanup
<1>2. i \in DOMAIN cleanup
  BY DEF EligibleCleanup
<1>3. i \in Nat /\ cleanup[i].status \in CleanupStatus
  <2>1. i \in Nat /\ cleanup[i] \in CleanupJob
    BY <1>2, CleanupStores, TableRow
  <2> QED
    BY <2>1 DEF CleanupJob
<1> DEFINE s == [at |-> "claimed", job |-> i, loaded |-> cleanup[i].status]
<1>4. s \in CleanerSession /\ s.job = i
  BY <1>3 DEF CleanerSession
<1>5. cleaner' = [cleaner EXCEPT ![w] = s]
  BY <1>1
<1> HIDE DEF s
<1>6. /\ cleaner' \in [Cleaner -> CleanerSession]
      /\ \A v \in Cleaner : cleaner'[v] = IF v = w THEN s ELSE cleaner[v]
  BY <1>4, <1>5 DEF CleanupType
<1> QED
  BY <1>2, <1>4, <1>6 DEF CleanupType, CleanersValid, CleanupRowsStay

(* CleanupInv is preserved by every step of the component, which writes no *)
(* other job table, no object and no hash.                                 *)
THEOREM CleanupStepKeeps ==
  ASSUME CleanupInv, CleanupStep
  PROVE  CleanupInv' /\ UNCHANGED <<ingestion, deletion, reindex, object, hashed>>
<1> USE DEF CleanupInv
<1>1. PICK w \in Cleaner : CleanerStep(w)
  BY DEF CleanupStep
<1>2. UNCHANGED <<ingestion, deletion, reindex, object, hashed, configured, registered,
                  collection, client>>
  BY <1>1 DEF CleanerStep, ClaimCleanup, GuardCleanup, EraseVacated, EraseRaises,
              CompleteCleanup, CleanerDies, documents, external, tables
<1>3. ASSUME CleanupRowsStay, vectors' \subseteq Collection \X Document,
             CleanupType', CleanersValid'
      PROVE  CleanupInv'
  BY <1>2, <1>3, OtherSessions DEF StoreType, CleanupRowsStay
<1>4. ~CleanerAt(w, "idle") => cleaner[w].job \in DOMAIN cleanup
  BY DEF CleanersValid, CleanerAt
<1>5. ASSUME ~CleanerAt(w, "idle"), FailCleanup(w)
      PROVE  CleanupRowsStay /\ CleanupType' /\ CleanersValid'
  <2>1. UNCHANGED cleanup \/ \E i \in DOMAIN cleanup : cleanup' = [cleanup EXCEPT ![i].status = "failed"]
    BY <1>4, <1>5 DEF FailCleanup
  <2>2. CleanupRowsStay
    BY <2>1, CleanupStores, CleanupRowResolved DEF CleanupStatus, CleanupRowsStay
  <2> QED
    BY <1>5, <2>2, CleanerEnding DEF FailCleanup
<1>6. ASSUME UNCHANGED cleanup
      PROVE  CleanupRowsStay
  BY <1>6, CleanupStores DEF CleanupRowsStay
<1>7. CASE ClaimCleanup(w)
  <2>1. CleanupRowsStay /\ UNCHANGED vectors
    BY <1>6, <1>7 DEF ClaimCleanup, tables, external
  <2> QED
    BY <1>2, <1>3, <1>7, <2>1, CleanerClaiming, CleanupStores
<1>8. CASE GuardCleanup(w)
  <2>1. ~CleanerAt(w, "idle") /\ UNCHANGED vectors
    BY <1>8 DEF GuardCleanup, CleanerAt, external
  <2>2. CASE FailCleanup(w)
    BY <1>2, <1>3, <1>5, <2>1, <2>2, CleanupStores
  <2>3. CASE CleanerMoves(w, "allowed") /\ UNCHANGED cleanup
    BY <1>2, <1>3, <1>6, <2>1, <2>3, CleanerMoving, CleanupStores
  <2> QED
    BY <1>8, <2>2, <2>3 DEF GuardCleanup
<1>9. CASE EraseVacated(w)
  <2>1. ~CleanerAt(w, "idle") /\ CleanupRowsStay /\ CleanerMoves(w, "erased")
    BY <1>6, <1>9 DEF EraseVacated, CleanerAt, tables
  <2>2. vectors' \subseteq Collection \X Document
    BY <1>9, CleanupStores DEF EraseVacated
  <2> QED
    BY <1>2, <1>3, <2>1, <2>2, CleanerMoving
<1>10. CASE EraseRaises(w)
  <2>1. ~CleanerAt(w, "idle") /\ FailCleanup(w)
    BY <1>10 DEF EraseRaises, CleanerAt
  <2>2. vectors' \subseteq Collection \X Document
    BY <1>10, CleanupStores DEF EraseRaises
  <2> QED
    BY <1>2, <1>3, <1>5, <2>1, <2>2
<1>11. CASE CompleteCleanup(w)
  <2>1. ~CleanerAt(w, "idle") /\ CleanerEnds(w) /\ UNCHANGED vectors
    BY <1>11 DEF CompleteCleanup, CleanerAt, external
  <2>2. PICK i \in DOMAIN cleanup : cleanup' = [cleanup EXCEPT ![i].status = "completed"]
    BY <1>4, <1>11, <2>1 DEF CompleteCleanup
  <2>3. CleanupRowsStay
    BY <2>2, CleanupRowResolved DEF CleanupStatus
  <2> QED
    BY <1>2, <1>3, <2>1, <2>3, CleanerEnding, CleanupStores
<1>12. CASE CleanerDies(w)
  <2>1. CleanupRowsStay /\ CleanerEnds(w) /\ UNCHANGED vectors
    BY <1>6, <1>12 DEF CleanerDies, tables, external
  <2> QED
    BY <1>2, <1>3, <2>1, CleanerEnding, CleanupStores
<1> QED
  BY <1>1, <1>7, <1>8, <1>9, <1>10, <1>11, <1>12 DEF CleanerStep

---------------------------------------------------------------------------
(* Steps of the cleanup.                                                   *)

CleanerBecomes(w, s) == \A v \in Cleaner : cleaner'[v] = IF v = w THEN s ELSE cleaner[v]

CleanupSetsOf(i, s) ==
  /\ i \in DOMAIN cleanup /\ DOMAIN cleanup' = DOMAIN cleanup
  /\ \A j \in DOMAIN cleanup : /\ cleanup'[j].document = cleanup[j].document
                               /\ cleanup'[j].collection = cleanup[j].collection
                               /\ cleanup'[j].status = IF j = i THEN s ELSE cleanup[j].status

CleanerClaims(w, i) ==
  /\ i \in DOMAIN cleanup
  /\ CleanerBecomes(w, [at |-> "claimed", job |-> i, loaded |-> cleanup[i].status])
  /\ UNCHANGED <<vectors, cleanup>>

CleanerProceeds(w) ==
  /\ CleanerAt(w, "claimed")
  /\ collection[CleanedJob(w).document] # CleanedJob(w).collection
  /\ CleanerBecomes(w, [cleaner[w] EXCEPT !.at = "allowed"])
  /\ UNCHANGED <<vectors, cleanup>>

CleanerErases(w) ==
  /\ CleanerAt(w, "allowed")
  /\ vectors' = vectors \ {<<CleanedJob(w).collection, CleanedJob(w).document>>}
  /\ CleanerBecomes(w, [cleaner[w] EXCEPT !.at = "erased"])
  /\ UNCHANGED cleanup

CleanerFails(w) ==
  /\ ~CleanerAt(w, "idle")
  /\ UNCHANGED cleanup \/ CleanupSetsOf(cleaner[w].job, "failed")
  /\ \/ UNCHANGED vectors
     \/ /\ CleanerAt(w, "allowed")
        /\ vectors' = vectors \ {<<CleanedJob(w).collection, CleanedJob(w).document>>}
  /\ CleanerBecomes(w, NoCleanup)

CleanerCompletes(w) ==
  /\ CleanerAt(w, "erased")
  /\ CleanupSetsOf(cleaner[w].job, "completed")
  /\ CleanerBecomes(w, NoCleanup)
  /\ UNCHANGED vectors

CleanerLeaves(w) == CleanerBecomes(w, NoCleanup) /\ UNCHANGED <<vectors, cleanup>>

CleanerEffect(w) ==
  \/ \E i : CleanerClaims(w, i)
  \/ CleanerProceeds(w)
  \/ CleanerErases(w)
  \/ CleanerFails(w)
  \/ CleanerCompletes(w)
  \/ CleanerLeaves(w)

(* Setting the status of a cleanup row leaves its document and its         *)
(* collection alone.                                                       *)
LEMMA CleanupRowSets ==
  ASSUME StoreType, NEW i \in DOMAIN cleanup, NEW s \in CleanupStatus,
         cleanup' = [cleanup EXCEPT ![i].status = s]
  PROVE  CleanupSetsOf(i, s)
  BY CleanupStores, CleanupStatusSet DEF CleanupSetsOf

(* Every action of a cleanup worker has one of these effects.              *)
LEMMA CleanerEffects ==
  ASSUME StoreType, CleanupType, CleanersValid, NEW w \in Cleaner, CleanerStep(w)
  PROVE  CleanerEffect(w) /\ UNCHANGED <<configured, registered, collection, client>>
<1>1. /\ \A step : CleanerMoves(w, step) => CleanerBecomes(w, [cleaner[w] EXCEPT !.at = step])
      /\ CleanerEnds(w) => CleanerBecomes(w, NoCleanup)
      /\ \A s : cleaner' = [cleaner EXCEPT ![w] = s] => CleanerBecomes(w, s)
  BY DEF CleanupType, CleanerMoves, CleanerEnds, CleanerBecomes
<1>2. UNCHANGED <<configured, registered, collection, client>>
  BY DEF CleanerStep, ClaimCleanup, GuardCleanup, EraseVacated, EraseRaises, CompleteCleanup,
         CleanerDies, documents
<1>3. ASSUME ~CleanerAt(w, "idle"), NEW s \in CleanupStatus,
             cleanup' = [cleanup EXCEPT ![cleaner[w].job].status = s]
      PROVE  CleanupSetsOf(cleaner[w].job, s)
  <2>1. PICK i \in DOMAIN cleanup : i = cleaner[w].job
    BY <1>3 DEF CleanersValid, CleanerAt
  <2>2. cleanup' = [cleanup EXCEPT ![i].status = s]
    BY <1>3, <2>1
  <2>3. CleanupSetsOf(i, s)
    BY <2>2, CleanupRowSets
  <2> QED
    BY <2>1, <2>3
<1>4. ASSUME ~CleanerAt(w, "idle"), FailCleanup(w)
      PROVE  /\ UNCHANGED cleanup \/ CleanupSetsOf(cleaner[w].job, "failed")
             /\ CleanerBecomes(w, NoCleanup)
  BY <1>1, <1>3, <1>4 DEF FailCleanup, CleanupStatus
<1>5. CASE ClaimCleanup(w)
  <2>1. PICK i \in EligibleCleanup :
          cleaner' = [cleaner EXCEPT ![w] = [at |-> "claimed", job |-> i, loaded |-> cleanup[i].status]]
    BY <1>5 DEF ClaimCleanup
  <2>2. CleanerClaims(w, i)
    BY <1>1, <1>5, <2>1 DEF ClaimCleanup, CleanerClaims, EligibleCleanup, external, tables
  <2> QED
    BY <1>2, <2>2 DEF CleanerEffect
<1>6. CASE GuardCleanup(w)
  <2>1. CASE FailCleanup(w)
    <3>1. ~CleanerAt(w, "idle") /\ UNCHANGED vectors
      BY <1>6 DEF GuardCleanup, CleanerAt, external
    <3>2. CleanerFails(w)
      BY <1>4, <2>1, <3>1 DEF CleanerFails
    <3> QED
      BY <1>2, <3>2 DEF CleanerEffect
  <2>2. CASE ~FailCleanup(w)
    <3>1. CleanerProceeds(w)
      BY <1>1, <1>6, <2>2 DEF GuardCleanup, CleanerProceeds, external
    <3> QED
      BY <1>2, <3>1 DEF CleanerEffect
  <2> QED
    BY <2>1, <2>2
<1>7. CASE EraseVacated(w)
  <2>1. CleanerErases(w)
    BY <1>1, <1>7 DEF EraseVacated, CleanerErases, tables
  <2> QED
    BY <1>2, <2>1 DEF CleanerEffect
<1>8. CASE EraseRaises(w)
  <2>1. ~CleanerAt(w, "idle")
    BY <1>8 DEF EraseRaises, CleanerAt
  <2>2. CleanerFails(w)
    BY <1>4, <1>8, <2>1 DEF EraseRaises, CleanerFails
  <2> QED
    BY <1>2, <2>2 DEF CleanerEffect
<1>9. CASE CompleteCleanup(w)
  <2>1. ~CleanerAt(w, "idle")
    BY <1>9 DEF CompleteCleanup, CleanerAt
  <2>2. CleanupSetsOf(cleaner[w].job, "completed")
    BY <1>3, <1>9, <2>1 DEF CompleteCleanup, CleanupStatus
  <2>3. CleanerCompletes(w)
    BY <1>1, <1>9, <2>2 DEF CompleteCleanup, CleanerCompletes, external
  <2> QED
    BY <1>2, <2>3 DEF CleanerEffect
<1>10. CASE CleanerDies(w)
  <2>1. CleanerLeaves(w)
    BY <1>1, <1>10 DEF CleanerDies, CleanerLeaves, external, tables
  <2> QED
    BY <1>2, <2>1 DEF CleanerEffect
<1> QED
  BY <1>5, <1>6, <1>7, <1>8, <1>9, <1>10 DEF CleanerStep
=============================================================================
