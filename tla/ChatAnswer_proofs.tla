-------------------------- MODULE ChatAnswer_proofs -------------------------
(***************************************************************************)
(* What lasts of the calls to Qdrant and MinIO, whatever is repeated,      *)
(* refused or served late, what the clients of POST /chat are sent, and    *)
(* how the chunks cover the text of the documents that are indexed.        *)
(***************************************************************************)
EXTENDS ChatAnswer, Chunking_proofs

IndexerSteps == {"reading", "embedding", "sizing", "probing", "creating", "upserting"}
ProberSteps == {"bucket_checking", "bucket_creating", "gathering"}

(* Each session is in a step of its own kind.                              *)
Belongs(s, step) ==
  /\ step \in IndexerSteps => s \in Indexer
  /\ step \in {"erase_sizing", "erasing"} => s \in Eraser
  /\ step = "saving" => s \in Saver
  /\ step = "removing" => s \in Remover
  /\ step \in ProberSteps => s \in Prober
  /\ step \in Over => s \in Indexer \cup Eraser \cup Saver \cup Remover \cup Prober
  /\ step \in AskerStep \ {"idle"} => s \in Asker

StepsApart ==
  \A s \in Session : Belongs(s, at[s]) /\ (at[s] # "idle" => job[s].document # None)

(* Points are in collections that exist.                                   *)
CollectionsExist == \A c \in Collection, d \in Document : <<c, d>> \in points => size[c] # "absent"

(* Whoever erases found the writers of the same work finished.             *)
WritersOver ==
  /\ \A e \in Eraser, i \in Indexer : at[e] # "idle" /\ Work(i) = Work(e) => at[i] \in Over
  /\ \A r \in Remover, k \in Saver :
       at[r] # "idle" /\ job[k].document = job[r].document => at[k] \in Over

(* A late request to erase comes from a session that has begun to erase.   *)
ErasuresBegun ==
  \A q \in wire :
    /\ q.op = "delete" =>
         \E e \in Eraser : at[e] # "idle" /\ Work(e) = <<q.collection, q.document>>
    /\ q.op = "remove" =>
         \E r \in Remover : at[r] # "idle" /\ job[r].document = q.document

(* A probe that found or created the bucket was right.                     *)
BucketFound == \A s \in Prober : at[s] \in {"gathering", "returned"} => bucket

CallsInv ==
  /\ TypeOK /\ StepsApart
  /\ CollectionsExist /\ WritersOver /\ ErasuresBegun /\ BucketFound
  /\ WritesLast /\ ErasuresLast

---------------------------------------------------------------------------
(* What a request does when it is served.                                  *)
LEMMA EffectOf ==
  ASSUME TypeOK, NEW q \in Request, Effect(q)
  PROVE  /\ size' \in [Collection -> Size] /\ points' \subseteq Collection \X Document
         /\ bucket' \in BOOLEAN /\ object' \subseteq Document
         /\ bucket => bucket'
         /\ q.op = "make_bucket" => bucket'
         /\ \A c \in Collection : size[c] # "absent" => size'[c] # "absent"
         /\ \A c, d : <<c, d>> \in points' =>
              \/ <<c, d>> \in points
              \/ q.op = "upsert" /\ c = q.collection /\ d = q.document /\ size[c] = "right"
         /\ \A c, d : <<c, d>> \in points =>
              <<c, d>> \in points' \/ (q.op = "delete" /\ c = q.collection /\ d = q.document)
         /\ q.op = "upsert" /\ size[q.collection] = "right"
              => <<q.collection, q.document>> \in points'
         /\ q.op = "delete" => <<q.collection, q.document>> \notin points'
         /\ \A d : d \in object' => d \in object \/ (q.op = "put" /\ d = q.document)
         /\ \A d : d \in object => d \in object' \/ (q.op = "remove" /\ d = q.document)
         /\ q.op = "put" /\ bucket => q.document \in object'
         /\ q.op = "remove" => q.document \notin object'
<1>1. /\ q.op \in Operation /\ q.document \in Document /\ q.collection \in Collection
      /\ "right" \in Size
  BY DEF Request, Size
<1>2. /\ size \in [Collection -> Size] /\ points \subseteq Collection \X Document
      /\ bucket \in BOOLEAN /\ object \subseteq Document
  BY DEF TypeOK
<1>3. /\ size' \in [Collection -> Size]
      /\ \A c \in Collection : size[c] # "absent" => size'[c] # "absent"
  BY <1>1, <1>2 DEF Effect
<1>4. /\ points' \subseteq Collection \X Document
      /\ \A c, d : <<c, d>> \in points' =>
           \/ <<c, d>> \in points
           \/ q.op = "upsert" /\ c = q.collection /\ d = q.document /\ size[c] = "right"
      /\ \A c, d : <<c, d>> \in points =>
           <<c, d>> \in points' \/ (q.op = "delete" /\ c = q.collection /\ d = q.document)
      /\ q.op = "upsert" /\ size[q.collection] = "right"
           => <<q.collection, q.document>> \in points'
      /\ q.op = "delete" => <<q.collection, q.document>> \notin points'
  BY <1>1, <1>2 DEF Effect
<1>5. bucket' \in BOOLEAN /\ (bucket => bucket') /\ (q.op = "make_bucket" => bucket')
  BY DEF Effect
<1>6. /\ object' \subseteq Document
      /\ \A d : d \in object' => d \in object \/ (q.op = "put" /\ d = q.document)
      /\ \A d : d \in object => d \in object' \/ (q.op = "remove" /\ d = q.document)
      /\ q.op = "put" /\ bucket => q.document \in object'
      /\ q.op = "remove" => q.document \notin object'
  BY <1>1, <1>2 DEF Effect
<1> QED
  BY <1>3, <1>4, <1>5, <1>6

---------------------------------------------------------------------------
(* The steps of the clients, by what they do: a session moves on without   *)
(* writing, makes a write, or gives up on one that is on its way.          *)
Moves(s, step) ==
  /\ at' = [at EXCEPT ![s] = step]
  /\ attempt' \in [Session -> 0..(MaxAttempts - 1)]
  /\ UNCHANGED job
  /\ job[s].document # None /\ at[s] \notin Over /\ Belongs(s, step)
  /\ step \in ClientStep \ {"idle"} /\ (at[s] = "idle" => step \notin Over)

Quiet(s, step) ==
  /\ Moves(s, step)
  /\ UNCHANGED <<world, wire, late>>
  /\ at[s] = "idle" /\ s \in Eraser =>
       \A i \in Indexer : Work(i) = Work(s) => at[i] \in Over
  /\ at[s] = "idle" /\ s \in Remover =>
       \A k \in Saver : job[k].document = job[s].document => at[k] \in Over
  /\ s \in Indexer \cup Saver \cup Remover => step # "returned"
  /\ s \in Eraser /\ step = "returned" => size[job[s].collection] = "absent"
  /\ s \in Prober /\ step \in {"gathering", "returned"} => bucket \/ at[s] = "gathering"

Made(s, op, step) ==
  /\ Moves(s, step)
  /\ <<at[s], op>> \in Writes
  /\ Effect(RequestOf(s, op)) /\ UNCHANGED <<wire, late>>
  /\ \/ step = "raised"
     \/ op = "create" /\ step = "upserting"
     \/ op = "upsert" /\ step = "returned" /\ size[job[s].collection] = "right"
     \/ op \in {"delete", "remove"} /\ step = "returned"
     \/ op = "put" /\ step = "returned" /\ bucket
     \/ op = "make_bucket" /\ step = "gathering"

Abandoned(s, op, step) ==
  /\ Moves(s, step)
  /\ <<at[s], op>> \in Writes /\ step \in {at[s], "raised"}
  /\ wire' = wire \cup {RequestOf(s, op)}
  /\ UNCHANGED <<world, late>>

SessionActs(s) ==
  \E step : Quiet(s, step) \/ \E op : Made(s, op, step) \/ Abandoned(s, op, step)

(* What a session may be doing, by its kind.                               *)
LEMMA KindsApart ==
  ASSUME TypeOK, StepsApart, NEW s \in Session
  PROVE  /\ s \in Indexer => at[s] \in {"idle"} \cup IndexerSteps \cup Over
         /\ s \in Eraser => at[s] \in {"idle", "erase_sizing", "erasing"} \cup Over
         /\ s \in Saver => at[s] \in {"idle", "saving"} \cup Over
         /\ s \in Remover => at[s] \in {"idle", "removing"} \cup Over
         /\ s \in Prober => at[s] \in {"idle"} \cup ProberSteps \cup Over
         /\ s \in Asker => at[s] \in AskerStep
<1>1. Belongs(s, at[s]) /\ at[s] \in ClientStep \cup AskerStep
  BY DEF StepsApart, TypeOK
<1> QED
  BY <1>1, ClientsAssumption, ChatAssumption
  DEF Belongs, ClientStep, AskerStep, IndexerSteps, ProberSteps, Over

(* A session goes on to another step ...                                   *)
LEMMA GoesMoves ==
  ASSUME TypeOK, NEW s \in Session, NEW step, Goes(s, step),
         job[s].document # None, at[s] \notin Over, Belongs(s, step), step \in ClientStep \ {"idle"},
         at[s] = "idle" => step \notin Over
  PROVE  Moves(s, step)
BY CallsAssumption DEF TypeOK, Goes, Moves

(* ... or repeats its call, or raises.                                     *)
LEMMA RetriesMove ==
  ASSUME TypeOK, StepsApart, NEW s \in Session, RetriesOrRaises(s),
         at[s] \in ClientStep \ ({"idle"} \cup Over), s \notin Asker
  PROVE  Moves(s, at[s]) \/ Moves(s, "raised")
<1>1. Belongs(s, at[s]) /\ job[s].document # None
  BY DEF StepsApart
<1>2. Belongs(s, "raised")
  BY <1>1 DEF TypeOK, Belongs, ClientStep, Over, AskerStep, IndexerSteps, ProberSteps
<1>3. CASE Goes(s, "raised")
  BY <1>1, <1>2, <1>3, GoesMoves DEF ClientStep, Over
<1>4. CASE attempt[s] + 1 < MaxAttempts /\ attempt' = [attempt EXCEPT ![s] = @ + 1]
           /\ UNCHANGED <<at, job>>
  <2>1. attempt' \in [Session -> 0..(MaxAttempts - 1)]
    BY <1>4, CallsAssumption DEF TypeOK
  <2>2. at' = [at EXCEPT ![s] = at[s]]
    BY <1>4 DEF TypeOK
  <2> QED
    BY <1>1, <1>4, <2>1, <2>2 DEF Moves
<1> QED
  BY <1>3, <1>4 DEF RetriesOrRaises

(* Sessions begin with a call that writes nothing.                         *)
LEMMA SessionsBegin ==
  ASSUME TypeOK, StepsApart, NEW s \in Session, Begins(s)
  PROVE  SessionActs(s) /\ embedded' \in [Indexer -> Nat]
<1>0. /\ at[s] = "idle" /\ job[s].document # None /\ "idle" \notin Over
      /\ embedded \in [Indexer -> Nat]
  BY DEF Begins, BeginIndexing, BeginErasing, BeginSaving, BeginRemoving, BeginProbe, Over, TypeOK
<1> USE ClientsAssumption DEF IndexerSteps, ProberSteps, ClientStep, AskerStep, Over, Belongs
<1>1. CASE s \in Indexer /\ BeginIndexing(s)
  <2>1. Moves(s, "reading")
    BY <1>0, <1>1, GoesMoves DEF BeginIndexing, Answers
  <2>2. Quiet(s, "reading")
    BY <1>1, <2>1 DEF BeginIndexing, Answers, Quiet
  <2> QED
    BY <1>0, <1>1, <2>2 DEF BeginIndexing, SessionActs
<1>2. CASE s \in Eraser /\ BeginErasing(s)
  <2>1. Moves(s, "erase_sizing")
    BY <1>0, <1>2, GoesMoves DEF BeginErasing, Answers
  <2>2. Quiet(s, "erase_sizing")
    BY <1>2, <2>1 DEF BeginErasing, Answers, Quiet
  <2> QED
    BY <1>0, <1>2, <2>2 DEF BeginErasing, SessionActs
<1>3. CASE s \in Saver /\ BeginSaving(s)
  <2>1. Moves(s, "saving")
    BY <1>0, <1>3, GoesMoves DEF BeginSaving, Answers
  <2>2. Quiet(s, "saving")
    BY <1>3, <2>1 DEF BeginSaving, Answers, Quiet
  <2> QED
    BY <1>0, <1>3, <2>2 DEF BeginSaving, SessionActs
<1>4. CASE s \in Remover /\ BeginRemoving(s)
  <2>1. Moves(s, "removing")
    BY <1>0, <1>4, GoesMoves DEF BeginRemoving, Answers
  <2>2. Quiet(s, "removing")
    BY <1>4, <2>1 DEF BeginRemoving, Answers, Quiet
  <2> QED
    BY <1>0, <1>4, <2>2 DEF BeginRemoving, SessionActs
<1>5. CASE s \in Prober /\ BeginProbe(s)
  <2>1. Moves(s, "bucket_checking")
    BY <1>0, <1>5, GoesMoves DEF BeginProbe, Answers
  <2>2. Quiet(s, "bucket_checking")
    BY <1>5, <2>1 DEF BeginProbe, Answers, Quiet
  <2> QED
    BY <1>0, <1>5, <2>2 DEF BeginProbe, SessionActs
<1> QED
  BY <1>1, <1>2, <1>3, <1>4, <1>5 DEF Begins

(* A session that has begun: what holds of it in each of its steps.        *)
LEMMA Underway ==
  ASSUME TypeOK, StepsApart, NEW s \in Session, at[s] \in ClientStep \ ({"idle"} \cup Over)
  PROVE  /\ job[s].document # None /\ s \notin Asker
         /\ at[s] \in IndexerSteps <=> s \in Indexer
         /\ at[s] \in {"erase_sizing", "erasing"} <=> s \in Eraser
         /\ at[s] = "saving" <=> s \in Saver
         /\ at[s] = "removing" <=> s \in Remover
         /\ at[s] \in ProberSteps <=> s \in Prober
<1>1. Belongs(s, at[s]) /\ job[s].document # None
  BY DEF StepsApart
<1> QED
  BY <1>1, KindsApart, ChatAssumption
  DEF Belongs, ClientStep, AskerStep, IndexerSteps, ProberSteps, Over

(* A call that only reads, and is answered.                                *)
LEMMA QuietCall ==
  ASSUME TypeOK, StepsApart, NEW s \in Session,
         at[s] \in ClientStep \ ({"idle"} \cup Over), NEW step, Answers(s, step),
         Belongs(s, step), step \in ClientStep \ {"idle", "returned", "gathering"}
  PROVE  SessionActs(s)
<1>1. Moves(s, step)
  BY Underway, GoesMoves DEF Answers
<1> QED
  BY <1>1 DEF Answers, Quiet, SessionActs

(* A call that writes, and is answered or not, its effect made.            *)
LEMMA WritingCall ==
  ASSUME TypeOK, StepsApart, NEW s \in Session,
         at[s] \in ClientStep \ ({"idle"} \cup Over), NEW step, NEW op,
         Serves(s, RequestOf(s, op), step), <<at[s], op>> \in Writes,
         Belongs(s, step), step \in ClientStep \ {"idle"},
         \/ step = "raised"
         \/ op = "create" /\ step = "upserting"
         \/ op = "upsert" /\ step = "returned" /\ size[job[s].collection] = "right"
         \/ op \in {"delete", "remove"} /\ step = "returned"
         \/ op = "put" /\ step = "returned" /\ bucket
         \/ op = "make_bucket" /\ step = "gathering"
  PROVE  SessionActs(s)
<1>1. Moves(s, step)
  BY Underway, GoesMoves DEF Serves
<1> QED
  BY <1>1 DEF Serves, Made, SessionActs

(* A call that fails, with effect, without, or on its way.                 *)
LEMMA SessionsFail ==
  ASSUME TypeOK, StepsApart, NEW s \in Session, CallFails(s)
  PROVE  SessionActs(s) /\ embedded' \in [Indexer -> Nat]
<1>1. at[s] \in ClientStep \ ({"idle"} \cup Over)
  BY DEF CallFails, ClientStep, Writes, Over
<1>2. /\ s \notin Asker /\ job[s].document # None
      /\ s \in Indexer \cup Eraser \cup Saver \cup Remover \cup Prober
  BY <1>1, Underway DEF IndexerSteps, ProberSteps, ClientStep, Over
<1>3. Belongs(s, "raised") /\ Belongs(s, at[s])
  BY <1>2 DEF Belongs, Over, IndexerSteps, ProberSteps, AskerStep, StepsApart
<1>4. embedded' \in [Indexer -> Nat]
  BY DEF CallFails, TypeOK
<1>5. ASSUME Unavailable(s), at[s] # "gathering" PROVE SessionActs(s)
  <2>1. Moves(s, at[s]) \/ Moves(s, "raised")
    BY <1>1, <1>2, <1>5, RetriesMove DEF Unavailable
  <2>2. UNCHANGED <<world, wire, late>>
    BY <1>5 DEF Unavailable
  <2>3. at[s] \notin {"idle", "returned", "gathering"}
    BY <1>1, <1>5 DEF Over
  <2> QED
    BY <2>1, <2>2, <2>3 DEF Quiet, SessionActs
<1>6. ASSUME Refused(s) PROVE SessionActs(s)
  BY <1>1, <1>3, <1>6, QuietCall DEF Refused, Answers, ClientStep, Over
<1>7. at[s] # "gathering"
  BY DEF CallFails, Writes
<1>8. ASSUME NEW op, <<at[s], op>> \in Writes, TimesOut(s, RequestOf(s, op)) PROVE SessionActs(s)
  <2>1. Moves(s, at[s]) \/ Moves(s, "raised")
    BY <1>1, <1>2, <1>8, RetriesMove DEF TimesOut
  <2> QED
    BY <1>8, <2>1 DEF TimesOut, Abandoned, SessionActs
<1>9. ASSUME NEW op, <<at[s], op>> \in Writes, ServedButRefused(s, RequestOf(s, op))
      PROVE  SessionActs(s)
  BY <1>1, <1>3, <1>9, WritingCall DEF ServedButRefused, Serves, ClientStep, Over
<1>10. ASSUME NEW write \in Writes, at[s] = write[1], WriteFails(s, write[2])
       PROVE  SessionActs(s)
  <2> DEFINE op == write[2]
  <2>1. <<at[s], op>> \in Writes
    BY <1>10 DEF Writes
  <2>2. \/ Unavailable(s) \/ Refused(s)
        \/ TimesOut(s, RequestOf(s, op)) \/ ServedButRefused(s, RequestOf(s, op))
    BY <1>10 DEF WriteFails
  <2> HIDE DEF op
  <2> QED
    BY <1>5, <1>6, <1>7, <1>8, <1>9, <2>1, <2>2
<1>11. ReadFails(s) => SessionActs(s)
  BY <1>5, <1>6, <1>7 DEF ReadFails
<1>12. \/ ReadFails(s) \/ Unavailable(s)
       \/ \E write \in Writes : at[s] = write[1] /\ WriteFails(s, write[2])
  BY DEF CallFails
<1> QED
  BY <1>4, <1>5, <1>7, <1>10, <1>11, <1>12

(* The calls of an indexer.                                                *)
LEMMA IndexersAct ==
  ASSUME TypeOK, StepsApart, NEW s \in Indexer, IndexerStep(s)
  PROVE  SessionActs(s) /\ embedded' \in [Indexer -> Nat]
<1>1. s \in Session
  BY ClientsAssumption
<1>2. /\ at[s] \in ClientStep \ ({"idle"} \cup Over)
      /\ embedded \in [Indexer -> Nat]
  BY DEF IndexerStep, ReadOriginal, EmbedChunk, ValidateEmbeddings, CheckDimension,
         ProbeCollection, CreateCollection, UpsertPoints, ClientStep, Over, TypeOK
<1>3. \A step \in IndexerSteps \cup Over :
        Belongs(s, step) /\ step \in ClientStep \ {"idle", "gathering"}
  BY DEF Belongs, IndexerSteps, ProberSteps, Over, AskerStep, ClientStep
<1>4. \A step \in IndexerSteps \cup {"raised"} : Answers(s, step) => SessionActs(s)
  <2> SUFFICES ASSUME NEW step \in IndexerSteps \cup {"raised"}, Answers(s, step)
               PROVE  SessionActs(s)
    OBVIOUS
  <2>1. Belongs(s, step) /\ step \in ClientStep \ {"idle", "returned", "gathering"}
    BY <1>3 DEF IndexerSteps, Over
  <2> QED
    BY <1>1, <1>2, <2>1, QuietCall
<1> USE DEF IndexerSteps
<1>5. CASE ReadOriginal(s)
  BY <1>2, <1>4, <1>5 DEF ReadOriginal
<1>6. CASE EmbedChunk(s)
  <2>1. embedded' \in [Indexer -> Nat]
    BY <1>2, <1>6 DEF EmbedChunk
  <2> QED
    BY <1>4, <1>6, <2>1 DEF EmbedChunk
<1>7. CASE ValidateEmbeddings(s)
  BY <1>2, <1>4, <1>7 DEF ValidateEmbeddings
<1>8. CASE CheckDimension(s)
  BY <1>2, <1>4, <1>8 DEF CheckDimension
<1>9. CASE ProbeCollection(s)
  BY <1>2, <1>4, <1>9 DEF ProbeCollection
<1>10. CASE CreateCollection(s)
  <2>1. CASE size[job[s].collection] = "absent"
    <3>1. Serves(s, RequestOf(s, "create"), "upserting") /\ <<at[s], "create">> \in Writes
      BY <1>10, <2>1 DEF CreateCollection, Writes
    <3> QED
      BY <1>1, <1>2, <1>3, <1>10, <3>1, WritingCall DEF CreateCollection
  <2>2. CASE size[job[s].collection] # "absent"
    BY <1>2, <1>4, <1>10, <2>2 DEF CreateCollection, Refused, Answers
  <2> QED
    BY <2>1, <2>2
<1>11. CASE UpsertPoints(s)
  <2>1. CASE size[job[s].collection] = "right"
    <3>1. Serves(s, RequestOf(s, "upsert"), "returned") /\ <<at[s], "upsert">> \in Writes
      BY <1>11, <2>1 DEF UpsertPoints, Writes
    <3> QED
      BY <1>1, <1>2, <1>3, <1>11, <2>1, <3>1, WritingCall DEF UpsertPoints, Over
  <2>2. CASE size[job[s].collection] # "right"
    BY <1>2, <1>4, <1>11, <2>2 DEF UpsertPoints, Refused, Answers
  <2> QED
    BY <2>1, <2>2
<1> QED
  BY <1>5, <1>6, <1>7, <1>8, <1>9, <1>10, <1>11 DEF IndexerStep

(* The calls of the erasers ...                                            *)
LEMMA ErasersAct ==
  ASSUME TypeOK, StepsApart, NEW s \in Eraser, FindErasable(s) \/ ErasePoints(s)
  PROVE  SessionActs(s) /\ UNCHANGED embedded
<1>1. /\ s \in Session
      /\ at[s] \in ClientStep \ ({"idle"} \cup Over)
  BY ClientsAssumption DEF FindErasable, ErasePoints, ClientStep, Over
<1>2. UNCHANGED embedded
  BY DEF FindErasable, ErasePoints
<1>3. \A step \in {"erasing", "returned"} : Belongs(s, step) /\ step \in ClientStep \ {"idle"}
  BY DEF Belongs, IndexerSteps, ProberSteps, Over, AskerStep, ClientStep
<1>4. CASE FindErasable(s)
  <2>1. CASE size[job[s].collection] = "absent"
    <3>1. Answers(s, "returned")
      BY <1>4, <2>1 DEF FindErasable
    <3>2. Moves(s, "returned")
      BY <1>1, <1>3, <3>1, Underway, GoesMoves DEF Answers
    <3>3. s \notin Indexer \cup Saver \cup Remover \cup Prober
      BY ClientsAssumption
    <3>4. Quiet(s, "returned")
      BY <1>1, <2>1, <3>1, <3>2, <3>3 DEF Quiet, Answers
    <3> QED
      BY <1>2, <3>4 DEF SessionActs
  <2>2. CASE size[job[s].collection] # "absent"
    BY <1>1, <1>2, <1>3, <1>4, <2>2, QuietCall DEF FindErasable
  <2> QED
    BY <2>1, <2>2
<1>5. CASE ErasePoints(s)
  <2>1. Serves(s, RequestOf(s, "delete"), "returned") /\ <<at[s], "delete">> \in Writes
    BY <1>5 DEF ErasePoints, Writes
  <2> QED
    BY <1>1, <1>2, <1>3, <2>1, WritingCall
<1> QED
  BY <1>4, <1>5

(* ... those of the originals ...                                          *)
LEMMA ObjectsAct ==
  ASSUME TypeOK, StepsApart, NEW s,
         (s \in Saver /\ SaveObject(s)) \/ (s \in Remover /\ RemoveObject(s))
  PROVE  SessionActs(s) /\ UNCHANGED embedded
<1>1. /\ s \in Session
      /\ at[s] \in ClientStep \ ({"idle"} \cup Over)
  BY ClientsAssumption DEF SaveObject, RemoveObject, ClientStep, Over
<1>2. UNCHANGED embedded
  BY DEF SaveObject, RemoveObject
<1>3. \A step \in Over : Belongs(s, step) /\ step \in ClientStep \ {"idle", "gathering"}
  BY DEF Belongs, IndexerSteps, ProberSteps, Over, AskerStep, ClientStep
<1>4. Refused(s) => SessionActs(s)
  BY <1>1, <1>3, QuietCall DEF Refused, Answers, Over
<1>5. CASE s \in Saver /\ SaveObject(s) /\ bucket
  <2>1. Serves(s, RequestOf(s, "put"), "returned") /\ <<at[s], "put">> \in Writes
    BY <1>5 DEF SaveObject, Writes
  <2> QED
    BY <1>1, <1>2, <1>3, <1>5, <2>1, WritingCall DEF Over
<1>6. CASE s \in Remover /\ RemoveObject(s) /\ bucket
  <2>1. Serves(s, RequestOf(s, "remove"), "returned") /\ <<at[s], "remove">> \in Writes
    BY <1>6 DEF RemoveObject, Writes
  <2> QED
    BY <1>1, <1>2, <1>3, <2>1, WritingCall DEF Over
<1>7. CASE ~bucket
  BY <1>2, <1>4, <1>7 DEF SaveObject, RemoveObject
<1> QED
  BY <1>5, <1>6, <1>7

(* ... and the readiness probes.                                           *)
LEMMA ProbersAct ==
  ASSUME TypeOK, StepsApart, NEW s \in Prober, ProberStep(s)
  PROVE  SessionActs(s) /\ UNCHANGED embedded
<1>1. /\ s \in Session
      /\ at[s] \in ClientStep \ ({"idle"} \cup Over)
      /\ s \notin Indexer \cup Eraser \cup Saver \cup Remover
  BY ClientsAssumption
  DEF ProberStep, CheckBucket, MakeBucket, ProbeGivesUp, BuildReadiness, ClientStep, Over
<1>2. UNCHANGED embedded
  BY DEF ProberStep, CheckBucket, MakeBucket, ProbeGivesUp, BuildReadiness
<1>3. \A step \in {"gathering", "bucket_creating"} \cup Over :
        Belongs(s, step) /\ step \in ClientStep \ {"idle"}
  BY DEF Belongs, IndexerSteps, ProberSteps, Over, AskerStep, ClientStep
<1>4. ASSUME NEW step \in {"gathering", "returned"}, Answers(s, step),
             bucket \/ at[s] = "gathering"
      PROVE  SessionActs(s)
  <2>1. Moves(s, step)
    BY <1>1, <1>3, <1>4, Underway, GoesMoves DEF Answers, Over
  <2>2. Quiet(s, step)
    BY <1>1, <1>4, <2>1 DEF Quiet, Answers, ClientStep
  <2> QED
    BY <2>2 DEF SessionActs
<1>5. CASE CheckBucket(s)
  <2>1. CASE bucket
    BY <1>2, <1>4, <1>5, <2>1 DEF CheckBucket
  <2>2. PICK step \in {"bucket_creating", "raised"} : ~bucket => Answers(s, step)
    BY <1>5 DEF CheckBucket
  <2>3. CASE ~bucket
    BY <1>1, <1>2, <1>3, <2>2, <2>3, QuietCall DEF Over
  <2> QED
    BY <2>1, <2>3
<1>6. CASE MakeBucket(s)
  <2>1. Serves(s, RequestOf(s, "make_bucket"), "gathering") /\ <<at[s], "make_bucket">> \in Writes
    BY <1>6 DEF MakeBucket, Writes
  <2> QED
    BY <1>1, <1>2, <1>3, <2>1, WritingCall
<1>7. CASE ProbeGivesUp(s)
  <2>1. Moves(s, "raised")
    BY <1>1, <1>3, <1>7, Underway, GoesMoves DEF ProbeGivesUp, Over
  <2>2. CASE at[s] = "bucket_creating"
    <3>1. Abandoned(s, "make_bucket", "raised")
      BY <1>7, <2>1, <2>2 DEF ProbeGivesUp, Abandoned, Writes
    <3> QED
      BY <1>2, <3>1 DEF SessionActs
  <2>3. CASE at[s] # "bucket_creating"
    <3>1. Quiet(s, "raised")
      BY <1>1, <1>7, <2>1, <2>3 DEF ProbeGivesUp, Quiet
    <3> QED
      BY <1>2, <3>1 DEF SessionActs
  <2> QED
    BY <2>2, <2>3
<1>8. CASE BuildReadiness(s)
  <2>1. CASE Answers(s, "returned")
    BY <1>2, <1>4, <1>8, <2>1 DEF BuildReadiness
  <2>2. CASE Answers(s, "raised")
    BY <1>1, <1>2, <1>3, <2>2, QuietCall DEF Over
  <2> QED
    BY <1>8, <2>1, <2>2 DEF BuildReadiness
<1> QED
  BY <1>5, <1>6, <1>7, <1>8 DEF ProberStep

(* What moves the services and those who call them.                        *)
LEMMA ClientsAct ==
  ASSUME TypeOK, StepsApart, ClientSteps
  PROVE  /\ (\E s \in Session : SessionActs(s)) \/ DeliverLate
         /\ embedded' \in [Indexer -> Nat]
<1>1. embedded \in [Indexer -> Nat]
  BY DEF TypeOK
<1>2. ASSUME NEW s \in Session, Begins(s) \/ Proceeds(s)
      PROVE  SessionActs(s) /\ embedded' \in [Indexer -> Nat]
  BY <1>1, <1>2, SessionsBegin, SessionsFail, IndexersAct, ErasersAct, ObjectsAct, ProbersAct
  DEF Proceeds
<1> QED
  BY <1>1, <1>2 DEF ClientSteps

---------------------------------------------------------------------------
(* The invariant of the calls.  A session that has begun does not go back, *)
(* one that is over stays over.                                            *)
LEMMA MovedOn ==
  ASSUME TypeOK, NEW s \in Session, NEW step, Moves(s, step)
  PROVE  /\ at'[s] = step /\ step # "idle" /\ at[s] \notin Over
         /\ \A r \in Session : r # s => at'[r] = at[r]
         /\ \A r \in Session : at[r] # "idle" => at'[r] # "idle"
         /\ \A r \in Session : at[r] \in Over => r # s
         /\ job' = job /\ \A r : Work(r)' = Work(r)
BY DEF TypeOK, Moves, Work

(* Who writes what.                                                        *)
LEMMA WritersOf ==
  ASSUME TypeOK, StepsApart, NEW s \in Session, NEW op, <<at[s], op>> \in Writes
  PROVE  /\ RequestOf(s, op) \in Request
         /\ RequestOf(s, op).op = op
         /\ <<RequestOf(s, op).collection, RequestOf(s, op).document>> = Work(s)
         /\ RequestOf(s, op).collection = job[s].collection
         /\ RequestOf(s, op).document = job[s].document
         /\ job[s].document \in Document /\ job[s].collection \in Collection
         /\ at[s] \notin {"idle", "gathering"} \cup Over
         /\ op \in {"create", "upsert"} <=> s \in Indexer
         /\ op = "delete" <=> s \in Eraser
         /\ op = "put" <=> s \in Saver
         /\ op = "remove" <=> s \in Remover
         /\ op = "make_bucket" <=> s \in Prober
<1>1. /\ at[s] \in ClientStep \ ({"idle", "gathering"} \cup Over)
      /\ op \in Operation
  BY DEF Writes, ClientStep, Over, Operation
<1>2. job[s] \in Job /\ job[s].document # None
  BY <1>1, Underway DEF TypeOK
<1>3. job[s].document \in Document /\ job[s].collection \in Collection
  BY <1>2 DEF Job
<1>4. /\ op \in {"create", "upsert"} <=> at[s] \in IndexerSteps
      /\ op = "delete" <=> at[s] \in {"erase_sizing", "erasing"}
      /\ op = "put" <=> at[s] = "saving"
      /\ op = "remove" <=> at[s] = "removing"
      /\ op = "make_bucket" <=> at[s] \in ProberSteps
  BY DEF Writes, IndexerSteps, ProberSteps
<1>5. /\ at[s] \in IndexerSteps <=> s \in Indexer
      /\ at[s] \in {"erase_sizing", "erasing"} <=> s \in Eraser
      /\ at[s] = "saving" <=> s \in Saver
      /\ at[s] = "removing" <=> s \in Remover
      /\ at[s] \in ProberSteps <=> s \in Prober
  BY <1>1, Underway
<1>6. /\ RequestOf(s, op) \in Request
      /\ RequestOf(s, op).op = op
      /\ RequestOf(s, op).collection = job[s].collection
      /\ RequestOf(s, op).document = job[s].document
      /\ <<RequestOf(s, op).collection, RequestOf(s, op).document>> = Work(s)
  BY <1>1, <1>3 DEF RequestOf, Request, Work
<1> QED
  BY <1>1, <1>3, <1>4, <1>5, <1>6

(* The steps of a session keep the types, and sessions in their steps.     *)
LEMMA SessionsKeepTypes ==
  ASSUME TypeOK, StepsApart, NEW s \in Session, SessionActs(s),
         embedded' \in [Indexer -> Nat], UNCHANGED chatVars
  PROVE  TypeOK' /\ StepsApart'
<1>1. PICK step : Quiet(s, step) \/ \E op : Made(s, op, step) \/ Abandoned(s, op, step)
  BY DEF SessionActs
<1>2. Moves(s, step)
  BY <1>1 DEF Quiet, Made, Abandoned
<1>3. step \in ClientStep \cup AskerStep
  BY <1>2 DEF Moves
<1>4. at' \in [Session -> ClientStep \cup AskerStep]
  BY <1>2, <1>3 DEF Moves, TypeOK
<1>5. StepsApart'
  BY <1>2, MovedOn DEF Moves, StepsApart, Belongs
<1>6. /\ size' \in [Collection -> Size] /\ points' \subseteq Collection \X Document
      /\ bucket' \in BOOLEAN /\ object' \subseteq Document
      /\ wire' \subseteq Request /\ late' \subseteq Request
  <2>1. CASE Quiet(s, step)
    BY <2>1 DEF Quiet, world, TypeOK
  <2>2. ASSUME NEW op, Made(s, op, step)
        PROVE  /\ size' \in [Collection -> Size] /\ points' \subseteq Collection \X Document
               /\ bucket' \in BOOLEAN /\ object' \subseteq Document
               /\ wire' \subseteq Request /\ late' \subseteq Request
    <3>1. RequestOf(s, op) \in Request /\ Effect(RequestOf(s, op))
      BY <2>2, WritersOf DEF Made
    <3>2. /\ size' \in [Collection -> Size] /\ points' \subseteq Collection \X Document
          /\ bucket' \in BOOLEAN /\ object' \subseteq Document
      BY <3>1, EffectOf
    <3> QED
      BY <2>2, <3>2 DEF Made, TypeOK
  <2>3. ASSUME NEW op, Abandoned(s, op, step)
        PROVE  /\ UNCHANGED world /\ late' = late /\ wire' \subseteq Request
    <3>1. RequestOf(s, op) \in Request
      BY <2>3, WritersOf DEF Abandoned
    <3> QED
      BY <2>3, <3>1 DEF Abandoned, TypeOK
  <2> QED
    BY <1>1, <2>1, <2>2, <2>3 DEF world, TypeOK
<1> QED
  BY <1>2, <1>4, <1>5, <1>6 DEF Moves, chatVars, TypeOK

(* Writers stay over once an erasure has begun, and what it erases stays   *)
(* traceable to it.                                                        *)
LEMMA SessionsKeepOrder ==
  ASSUME CallsInv, NEW s \in Session, SessionActs(s)
  PROVE  WritersOver' /\ ErasuresBegun'
<1>0. TypeOK /\ StepsApart /\ WritersOver /\ ErasuresBegun
  BY DEF CallsInv
<1>1. PICK step : Quiet(s, step) \/ \E op : Made(s, op, step) \/ Abandoned(s, op, step)
  BY DEF SessionActs
<1>2. Moves(s, step)
  BY <1>1 DEF Quiet, Made, Abandoned
<1>3. /\ at'[s] = step /\ step # "idle" /\ at[s] \notin Over
      /\ \A r \in Session : r # s => at'[r] = at[r]
      /\ \A r \in Session : at[r] # "idle" => at'[r] # "idle"
      /\ \A r \in Session : at[r] \in Over => r # s
      /\ job' = job /\ \A r : Work(r)' = Work(r)
  BY <1>0, <1>2, MovedOn
<1>4. /\ Indexer \subseteq Session /\ Eraser \subseteq Session
      /\ Saver \subseteq Session /\ Remover \subseteq Session
  BY ClientsAssumption
<1>5. at[s] = "idle" => Quiet(s, step)
  BY <1>0, <1>1, WritersOf DEF Made, Abandoned
<1>6. WritersOver'
  <2>1. ASSUME NEW e \in Eraser, NEW i \in Indexer, at'[e] # "idle", Work(i)' = Work(e)'
        PROVE  at'[i] \in Over
    <3>1. at[i] \in Over
      <4>1. CASE at[e] # "idle"
        BY <1>0, <1>3, <2>1, <4>1 DEF WritersOver
      <4>2. CASE at[e] = "idle"
        BY <1>3, <1>4, <1>5, <2>1, <4>2 DEF Quiet
      <4> QED
        BY <4>1, <4>2
    <3> QED
      BY <1>3, <1>4, <3>1
  <2>2. ASSUME NEW r \in Remover, NEW k \in Saver, at'[r] # "idle",
               job'[k].document = job'[r].document
        PROVE  at'[k] \in Over
    <3>1. at[k] \in Over
      <4>1. CASE at[r] # "idle"
        BY <1>0, <1>3, <2>2, <4>1 DEF WritersOver
      <4>2. CASE at[r] = "idle"
        BY <1>3, <1>4, <1>5, <2>2, <4>2 DEF Quiet
      <4> QED
        BY <4>1, <4>2
    <3> QED
      BY <1>3, <1>4, <3>1
  <2> QED
    BY <2>1, <2>2 DEF WritersOver
<1>7. ErasuresBegun'
  <2> SUFFICES ASSUME NEW q \in wire'
      PROVE /\ q.op = "delete" =>
                 \E e \in Eraser : at'[e] # "idle" /\ Work(e)' = <<q.collection, q.document>>
            /\ q.op = "remove" =>
                 \E r \in Remover : at'[r] # "idle" /\ job'[r].document = q.document
    BY DEF ErasuresBegun
  <2>1. CASE q \in wire
    BY <1>0, <1>3, <1>4, <2>1 DEF ErasuresBegun
  <2>2. ASSUME NEW op, Abandoned(s, op, step), q = RequestOf(s, op)
        PROVE  /\ q.op = "delete" => s \in Eraser /\ Work(s) = <<q.collection, q.document>>
               /\ q.op = "remove" => s \in Remover /\ job[s].document = q.document
    BY <1>0, <2>2, WritersOf DEF Abandoned
  <2>3. q \notin wire => \E op : Abandoned(s, op, step) /\ q = RequestOf(s, op)
    BY <1>1 DEF Quiet, Made, Abandoned
  <2> QED
    BY <1>3, <2>1, <2>2, <2>3
<1> QED
  BY <1>6, <1>7

(* Points are in collections that exist, and a ready platform has its      *)
(* bucket.                                                                 *)
LEMMA SessionsKeepWorld ==
  ASSUME CallsInv, NEW s \in Session, SessionActs(s)
  PROVE  CollectionsExist' /\ BucketFound'
<1>0. TypeOK /\ StepsApart /\ CollectionsExist /\ BucketFound
  BY DEF CallsInv
<1>1. PICK step : Quiet(s, step) \/ \E op : Made(s, op, step) \/ Abandoned(s, op, step)
  BY DEF SessionActs
<1>2. Moves(s, step)
  BY <1>1 DEF Quiet, Made, Abandoned
<1>3. at'[s] = step /\ \A r \in Session : r # s => at'[r] = at[r]
  BY <1>0, <1>2, MovedOn
<1>4. CASE Quiet(s, step) \/ \E op : Abandoned(s, op, step)
  <2>1. UNCHANGED world
    BY <1>4 DEF Quiet, Abandoned
  <2>2. \A op : Abandoned(s, op, step) => step \notin {"gathering", "returned"}
    BY <1>0, WritersOf DEF Abandoned, Over
  <2>3. ASSUME NEW r \in Prober, at'[r] \in {"gathering", "returned"} PROVE bucket'
    <3>1. r \in Session
      BY ClientsAssumption
    <3>2. CASE r # s
      BY <1>0, <1>3, <2>1, <2>3, <3>1, <3>2 DEF BucketFound, world
    <3>3. CASE r = s
      BY <1>0, <1>3, <1>4, <2>1, <2>2, <2>3, <3>3 DEF BucketFound, world, Quiet
    <3> QED
      BY <3>2, <3>3
  <2> QED
    BY <1>0, <2>1, <2>3 DEF world, CollectionsExist, BucketFound
<1>5. ASSUME NEW op, Made(s, op, step) PROVE CollectionsExist' /\ BucketFound'
  <2> DEFINE q == RequestOf(s, op)
  <2>1. q \in Request /\ q.op = op /\ Effect(q) /\ (op = "make_bucket" <=> s \in Prober)
    BY <1>0, <1>5, WritersOf DEF Made
  <2> HIDE DEF q
  <2>2. CollectionsExist'
    BY <1>0, <2>1, EffectOf DEF CollectionsExist, Request
  <2>3. ASSUME NEW r \in Prober, at'[r] \in {"gathering", "returned"} PROVE bucket'
    <3>1. r \in Session
      BY ClientsAssumption
    <3>2. CASE r # s
      BY <1>0, <1>3, <2>1, <2>3, <3>1, <3>2, EffectOf DEF BucketFound
    <3>3. CASE r = s
      BY <1>0, <2>1, <3>3, EffectOf
    <3> QED
      BY <3>2, <3>3
  <2> QED
    BY <2>2, <2>3 DEF BucketFound
<1> QED
  BY <1>1, <1>4, <1>5

(* What was written is there until its erasure begins.                     *)
LEMMA SessionsKeepWrites ==
  ASSUME CallsInv, NEW s \in Session, SessionActs(s)
  PROVE  WritesLast'
<1>0. TypeOK /\ StepsApart /\ WritesLast
  BY DEF CallsInv
<1>1. PICK step : Quiet(s, step) \/ \E op : Made(s, op, step) \/ Abandoned(s, op, step)
  BY DEF SessionActs
<1>2. Moves(s, step)
  BY <1>1 DEF Quiet, Made, Abandoned
<1>3. /\ at'[s] = step /\ at[s] \notin Over /\ "returned" \in Over
      /\ \A r \in Session : r # s => at'[r] = at[r]
      /\ \A r \in Session : at[r] # "idle" => at'[r] # "idle"
      /\ job' = job /\ \A r : Work(r)' = Work(r)
  BY <1>0, <1>2, MovedOn DEF Over
<1>4. Indexer \cup Eraser \cup Saver \cup Remover \subseteq Session
  BY ClientsAssumption
<1>5. ASSUME NEW op, Made(s, op, step)
      PROVE  /\ \A c, d : <<c, d>> \in points =>
                  <<c, d>> \in points' \/ (s \in Eraser /\ Work(s) = <<c, d>> /\ at'[s] # "idle")
             /\ \A d : d \in object =>
                  d \in object' \/ (s \in Remover /\ job[s].document = d /\ at'[s] # "idle")
             /\ step = "returned" /\ s \in Indexer => Work(s) \in points'
             /\ step = "returned" /\ s \in Saver => job[s].document \in object'
  <2> DEFINE q == RequestOf(s, op)
  <2>1. /\ q \in Request /\ q.op = op /\ Effect(q)
        /\ <<q.collection, q.document>> = Work(s)
        /\ q.collection = job[s].collection /\ q.document = job[s].document
        /\ op \in {"create", "upsert"} <=> s \in Indexer
        /\ op = "delete" <=> s \in Eraser
        /\ op = "put" <=> s \in Saver
        /\ op = "remove" <=> s \in Remover
        /\ at[s] # "idle"
    BY <1>0, <1>5, WritersOf DEF Made
  <2>2. at'[s] # "idle"
    BY <1>3, <2>1
  <2> HIDE DEF q
  <2>3. step = "returned" /\ s \in Indexer => op = "upsert" /\ size[q.collection] = "right"
    BY <1>5, <2>1 DEF Made
  <2>4. step = "returned" /\ s \in Saver => op = "put" /\ bucket
    BY <1>5, <2>1 DEF Made
  <2> QED
    BY <1>0, <2>1, <2>2, <2>3, <2>4, EffectOf
<1>6. CASE Quiet(s, step) \/ \E op : Abandoned(s, op, step)
  <2>1. UNCHANGED world
    BY <1>6 DEF Quiet, Abandoned
  <2>2. s \in Indexer \cup Saver => step # "returned"
    BY <1>0, <1>3, <1>6, WritersOf DEF Quiet, Abandoned, Over
  <2>3. ASSUME NEW i \in Indexer, at'[i] = "returned",
               \A e \in Eraser : Work(e)' = Work(i)' => at'[e] = "idle"
        PROVE  Work(i) \in points'
    BY <1>0, <1>3, <1>4, <2>1, <2>2, <2>3 DEF WritesLast, world
  <2>4. ASSUME NEW k \in Saver, at'[k] = "returned",
               \A r \in Remover : job'[r].document = job'[k].document => at'[r] = "idle"
        PROVE  job[k].document \in object'
    BY <1>0, <1>3, <1>4, <2>1, <2>2, <2>4 DEF WritesLast, world
  <2> QED
    BY <1>3, <2>3, <2>4 DEF WritesLast
<1>7. ASSUME NEW op, Made(s, op, step) PROVE WritesLast'
  <2>1. ASSUME NEW i \in Indexer, at'[i] = "returned",
               \A e \in Eraser : Work(e)' = Work(i)' => at'[e] = "idle"
        PROVE  Work(i) \in points'
    <3>1. CASE i = s
      BY <1>3, <1>5, <1>7, <2>1, <3>1
    <3>2. CASE i # s
      <4>1. Work(i) \in points /\ Work(i) = <<job[i].collection, job[i].document>>
        BY <1>0, <1>3, <1>4, <2>1, <3>2 DEF WritesLast, Work
      <4> QED
        BY <1>3, <1>5, <1>7, <2>1, <4>1
    <3> QED
      BY <3>1, <3>2
  <2>2. ASSUME NEW k \in Saver, at'[k] = "returned",
               \A r \in Remover : job'[r].document = job'[k].document => at'[r] = "idle"
        PROVE  job[k].document \in object'
    <3>1. CASE k = s
      BY <1>3, <1>5, <1>7, <2>2, <3>1
    <3>2. CASE k # s
      <4>1. job[k].document \in object
        BY <1>0, <1>3, <1>4, <2>2, <3>2 DEF WritesLast
      <4> QED
        BY <1>3, <1>5, <1>7, <2>2, <4>1
    <3> QED
      BY <3>1, <3>2
  <2> QED
    BY <1>3, <2>1, <2>2 DEF WritesLast
<1> QED
  BY <1>1, <1>6, <1>7

(* What was erased stays erased: its writers are over.                     *)
LEMMA SessionsKeepErasures ==
  ASSUME CallsInv, NEW s \in Session, SessionActs(s)
  PROVE  ErasuresLast'
<1>0. /\ TypeOK /\ StepsApart /\ CollectionsExist /\ WritersOver /\ ErasuresLast
  BY DEF CallsInv
<1>1. PICK step : Quiet(s, step) \/ \E op : Made(s, op, step) \/ Abandoned(s, op, step)
  BY DEF SessionActs
<1>2. Moves(s, step)
  BY <1>1 DEF Quiet, Made, Abandoned
<1>3. /\ at'[s] = step /\ at[s] \notin Over /\ "returned" \in Over /\ "idle" \notin Over
      /\ \A r \in Session : r # s => at'[r] = at[r]
      /\ job' = job /\ \A r : Work(r)' = Work(r)
  BY <1>0, <1>2, MovedOn DEF Over
<1>4. Indexer \cup Eraser \cup Saver \cup Remover \subseteq Session
  BY ClientsAssumption
<1>5. late' = late
  BY <1>1 DEF Quiet, Made, Abandoned
<1>6. \A r \in Session : Work(r) = <<job[r].collection, job[r].document>>
                         /\ job[r].collection \in Collection
  BY <1>0 DEF Work, TypeOK, Job
<1>7. ASSUME NEW op, Made(s, op, step)
      PROVE  /\ \A c, d : <<c, d>> \in points' =>
                  <<c, d>> \in points \/ (s \in Indexer /\ Work(s) = <<c, d>>)
             /\ \A d : d \in object' => d \in object \/ (s \in Saver /\ job[s].document = d)
             /\ s \in Eraser => Work(s) \notin points'
             /\ s \in Remover => job[s].document \notin object'
  <2> DEFINE q == RequestOf(s, op)
  <2>1. /\ q \in Request /\ q.op = op /\ Effect(q)
        /\ <<q.collection, q.document>> = Work(s) /\ q.document = job[s].document
        /\ op \in {"create", "upsert"} <=> s \in Indexer
        /\ op = "delete" <=> s \in Eraser
        /\ op = "put" <=> s \in Saver
        /\ op = "remove" <=> s \in Remover
    BY <1>0, <1>7, WritersOf DEF Made
  <2> HIDE DEF q
  <2> QED
    BY <1>0, <2>1, EffectOf
<1>8. CASE Quiet(s, step) \/ \E op : Abandoned(s, op, step)
  <2>1. UNCHANGED world
    BY <1>8 DEF Quiet, Abandoned
  <2>2. /\ s \in Remover => step # "returned"
        /\ s \in Eraser /\ step = "returned" => Quiet(s, step)
    BY <1>0, <1>3, <1>8, WritersOf DEF Quiet, Abandoned, Over
  <2>3. s \in Eraser /\ step = "returned" => Work(s) \notin points
    <3>1. s \in Eraser /\ step = "returned" => size[job[s].collection] = "absent"
      BY <2>2 DEF Quiet
    <3> QED
      BY <1>0, <1>6, <3>1 DEF CollectionsExist, TypeOK
  <2>4. ASSUME NEW e \in Eraser, at'[e] = "returned", Work(e) \in points'
        PROVE  \E q \in late : q.op = "upsert" /\ <<q.collection, q.document>> = Work(e)
    BY <1>0, <1>3, <1>4, <2>1, <2>3, <2>4 DEF ErasuresLast, world
  <2>5. ASSUME NEW r \in Remover, at'[r] = "returned", job[r].document \in object'
        PROVE  \E q \in late : q.op = "put" /\ q.document = job[r].document
    BY <1>0, <1>3, <1>4, <2>1, <2>2, <2>5 DEF ErasuresLast, world
  <2> QED
    BY <1>3, <1>5, <2>4, <2>5 DEF ErasuresLast
<1>9. ASSUME NEW op, Made(s, op, step) PROVE ErasuresLast'
  <2>1. ASSUME NEW e \in Eraser, at'[e] = "returned", Work(e) \in points'
        PROVE  \E q \in late : q.op = "upsert" /\ <<q.collection, q.document>> = Work(e)
    <3>1. e # s
      BY <1>7, <1>9, <2>1
    <3>2. at[e] = "returned"
      BY <1>3, <1>4, <2>1, <3>1
    <3>3. ~(s \in Indexer /\ Work(s) = Work(e))
      BY <1>0, <1>3, <3>2 DEF WritersOver
    <3>4. Work(e) \in points
      BY <1>4, <1>6, <1>7, <1>9, <2>1, <3>3
    <3> QED
      BY <1>0, <3>2, <3>4 DEF ErasuresLast
  <2>2. ASSUME NEW r \in Remover, at'[r] = "returned", job[r].document \in object'
        PROVE  \E q \in late : q.op = "put" /\ q.document = job[r].document
    <3>1. r # s
      BY <1>7, <1>9, <2>2
    <3>2. at[r] = "returned"
      BY <1>3, <1>4, <2>2, <3>1
    <3>3. ~(s \in Saver /\ job[s].document = job[r].document)
      BY <1>0, <1>3, <3>2 DEF WritersOver
    <3>4. job[r].document \in object
      BY <1>7, <1>9, <2>2, <3>3
    <3> QED
      BY <1>0, <3>2, <3>4 DEF ErasuresLast
  <2> QED
    BY <1>3, <1>5, <2>1, <2>2 DEF ErasuresLast
<1> QED
  BY <1>1, <1>8, <1>9

(* A request served late: what it erases, somebody has begun to erase, and *)
(* what it writes is remembered as late.                                   *)
LEMMA LateKeeps ==
  ASSUME CallsInv, DeliverLate, embedded' \in [Indexer -> Nat], UNCHANGED chatVars
  PROVE  CallsInv'
<1>0. /\ TypeOK /\ StepsApart /\ CollectionsExist /\ WritersOver /\ ErasuresBegun
      /\ BucketFound /\ WritesLast /\ ErasuresLast
  BY DEF CallsInv
<1>1. PICK q \in wire : /\ Effect(q) /\ wire' = wire \ {q} /\ late' = late \cup {q}
                        /\ at' = at /\ attempt' = attempt /\ job' = job
  BY DEF DeliverLate
<1>2. q \in Request /\ q.collection \in Collection /\ q.document \in Document
  BY <1>0 DEF TypeOK, Request
<1>3. /\ size' \in [Collection -> Size] /\ points' \subseteq Collection \X Document
      /\ bucket' \in BOOLEAN /\ object' \subseteq Document
      /\ bucket => bucket'
      /\ \A c \in Collection : size[c] # "absent" => size'[c] # "absent"
      /\ \A c, d : <<c, d>> \in points' =>
           \/ <<c, d>> \in points
           \/ q.op = "upsert" /\ c = q.collection /\ d = q.document /\ size[c] = "right"
      /\ \A c, d : <<c, d>> \in points =>
           <<c, d>> \in points' \/ (q.op = "delete" /\ c = q.collection /\ d = q.document)
      /\ \A d : d \in object' => d \in object \/ (q.op = "put" /\ d = q.document)
      /\ \A d : d \in object => d \in object' \/ (q.op = "remove" /\ d = q.document)
  BY <1>0, <1>1, <1>2, EffectOf
<1>4. \A r : Work(r) = <<job[r].collection, job[r].document>> /\ Work(r)' = Work(r)
  BY <1>1 DEF Work
<1>5. TypeOK'
  BY <1>0, <1>1, <1>2, <1>3 DEF TypeOK, chatVars
<1>6. StepsApart' /\ WritersOver' /\ ErasuresBegun' /\ BucketFound'
  BY <1>0, <1>1, <1>3, <1>4 DEF StepsApart, Belongs, WritersOver, ErasuresBegun, BucketFound
<1>7. CollectionsExist'
  BY <1>0, <1>3 DEF CollectionsExist
<1>8. WritesLast'
  <2>1. ASSUME NEW i \in Indexer, at[i] = "returned",
               \A e \in Eraser : Work(e) = Work(i) => at[e] = "idle"
        PROVE  Work(i) \in points'
    <3>1. Work(i) \in points
      BY <1>0, <2>1 DEF WritesLast
    <3>2. ~(q.op = "delete" /\ Work(i) = <<q.collection, q.document>>)
      BY <1>0, <2>1 DEF ErasuresBegun
    <3> QED
      BY <1>3, <1>4, <3>1, <3>2
  <2>2. ASSUME NEW k \in Saver, at[k] = "returned",
               \A r \in Remover : job[r].document = job[k].document => at[r] = "idle"
        PROVE  job[k].document \in object'
    <3>1. job[k].document \in object
      BY <1>0, <2>2 DEF WritesLast
    <3>2. ~(q.op = "remove" /\ job[k].document = q.document)
      BY <1>0, <2>2 DEF ErasuresBegun
    <3> QED
      BY <1>3, <3>1, <3>2
  <2> QED
    BY <1>1, <1>4, <2>1, <2>2 DEF WritesLast
<1>9. ErasuresLast'
  <2>1. ASSUME NEW e \in Eraser, at[e] = "returned", Work(e) \in points'
        PROVE  \E w \in late' : w.op = "upsert" /\ <<w.collection, w.document>> = Work(e)
    <3>1. CASE Work(e) \in points
      BY <1>0, <1>1, <2>1, <3>1 DEF ErasuresLast
    <3>2. CASE Work(e) \notin points
      BY <1>1, <1>3, <1>4, <2>1, <3>2
    <3> QED
      BY <3>1, <3>2
  <2>2. ASSUME NEW r \in Remover, at[r] = "returned", job[r].document \in object'
        PROVE  \E w \in late' : w.op = "put" /\ w.document = job[r].document
    BY <1>0, <1>1, <1>3, <2>2 DEF ErasuresLast
  <2> QED
    BY <1>1, <1>4, <2>1, <2>2 DEF ErasuresLast
<1> QED
  BY <1>5, <1>6, <1>7, <1>8, <1>9 DEF CallsInv

---------------------------------------------------------------------------
(* The requests of POST /chat.  They leave the stores, and everyone else,  *)
(* alone.                                                                  *)
Asks(s, step) ==
  /\ at' = [at EXCEPT ![s] = step]
  /\ attempt' \in [Session -> 0..(MaxAttempts - 1)]
  /\ job[s].document # None
  /\ UNCHANGED <<job, world, wire, late, embedded, question>>

ChatType ==
  /\ events \in [Asker -> Seq({"metadata", "token", "done", "error"})]
  /\ asked \in [Asker -> SUBSET {"embedding", "search", "llm"}]
  /\ found \in [Asker -> SUBSET Document]
  /\ complete \in [Asker -> BOOLEAN]

(* An asker goes on to a step ...                                          *)
LEMMA AskerMoves ==
  ASSUME TypeOK, NEW s \in Asker, NEW step, AskerGoes(s, step),
         job[s].document # None, UNCHANGED question
  PROVE  Asks(s, step)
<1>1. s \in Session
  BY ChatAssumption
<1> QED
  BY <1>1, CallsAssumption DEF TypeOK, AskerGoes, Goes, Asks

(* ... or repeats its call.                                                *)
LEMMA AskerRetries ==
  ASSUME TypeOK, NEW s \in Asker, RetryQuery(s), job[s].document # None
  PROVE  Asks(s, at[s])
<1>1. s \in Session /\ attempt[s] + 1 < MaxAttempts
  BY ChatAssumption DEF RetryQuery
<1>2. attempt[s] \in Nat /\ MaxAttempts \in Nat /\ attempt[s] + 1 # MaxAttempts
  BY <1>1, CallsAssumption DEF TypeOK
<1>3. attempt' = [attempt EXCEPT ![s] = @ + 1] /\ UNCHANGED <<at, job>>
  BY <1>2 DEF RetryQuery, RetriesOrRaises
<1>4. attempt' \in [Session -> 0..(MaxAttempts - 1)]
  BY <1>1, <1>2, <1>3 DEF TypeOK
<1>5. at' = [at EXCEPT ![s] = at[s]]
  BY <1>3 DEF TypeOK
<1> QED
  BY <1>3, <1>4, <1>5 DEF RetryQuery, Asks, chatVars

(* Each step of an answer, by the step it leads to.                        *)
LEMMA AskersAct ==
  ASSUME TypeOK, StepsApart, NEW s \in Asker, BeginAnswer(s) \/ AskerProceeds(s)
  PROVE  (\E step \in AskerStep \ {"idle"} : Asks(s, step)) /\ ChatType'
<1>0. /\ s \in Session /\ at[s] \in AskerStep /\ question' = question
  BY ChatAssumption, KindsApart
  DEF BeginAnswer, AskerProceeds, DecideRoute, EmbedQuery, SearchActive, BuildPrompt, SendFixed,
      Connect, StreamLine, EndStream, FailAnswer, RetryQuery, Disconnect, chatVars
<1>1. job[s].document # None
  BY <1>0
  DEF StepsApart, BeginAnswer, AskerProceeds, DecideRoute, EmbedQuery, SearchActive, BuildPrompt,
      SendFixed, Connect, StreamLine, EndStream, FailAnswer, RetryQuery, Disconnect
<1>2. ChatType
  BY DEF TypeOK, ChatType
<1>3. \A step : AskerGoes(s, step) => Asks(s, step)
  BY <1>0, <1>1, AskerMoves
<1>4. CASE BeginAnswer(s)
  BY <1>2, <1>3, <1>4 DEF BeginAnswer, chatVars, ChatType, AskerStep
<1>5. CASE DecideRoute(s)
  <2>1. CASE AnswerFixed(s)
    BY <1>2, <1>3, <1>5, <2>1 DEF DecideRoute, AnswerFixed, Send, ChatType, AskerStep
  <2>2. CASE RetrieveFirst(s)
    BY <1>2, <1>3, <1>5, <2>2 DEF DecideRoute, RetrieveFirst, Calls, ChatType, AskerStep
  <2>3. CASE AskDirectly(s)
    BY <1>2, <1>3, <1>5, <2>3 DEF DecideRoute, AskDirectly, Send, Calls, ChatType, AskerStep
  <2> QED
    BY <1>5, <2>1, <2>2, <2>3 DEF DecideRoute
<1>6. CASE EmbedQuery(s)
  BY <1>2, <1>3, <1>6 DEF EmbedQuery, Calls, ChatType, AskerStep
<1>7. CASE SearchActive(s)
  BY <1>2, <1>3, <1>7 DEF SearchActive, ChatType, AskerStep
<1>8. CASE BuildPrompt(s)
  BY <1>2, <1>3, <1>8 DEF BuildPrompt, Send, Calls, ChatType, AskerStep
<1>9. CASE SendFixed(s)
  BY <1>2, <1>3, <1>9 DEF SendFixed, Send, ChatType, AskerStep
<1>10. CASE Connect(s)
  BY <1>2, <1>3, <1>10 DEF Connect, chatVars, ChatType, AskerStep
<1>11. CASE StreamLine(s)
  <2>1. \E step \in AskerStep \ {"idle"} : Asks(s, step)
    BY <1>3, <1>11 DEF StreamLine, AskerStep
  <2>2. complete' \in [Asker -> BOOLEAN]
    BY <1>2, <1>11 DEF StreamLine, ChatType
  <2>3. events' \in [Asker -> Seq({"metadata", "token", "done", "error"})]
    <3>1. CASE Send(s, "token")
      BY <1>2, <3>1 DEF Send, ChatType
    <3>2. CASE UNCHANGED events
      BY <1>2, <3>2 DEF ChatType
    <3> QED
      BY <1>11, <3>1, <3>2 DEF StreamLine
  <2> QED
    BY <1>2, <1>11, <2>1, <2>2, <2>3 DEF StreamLine, ChatType
<1>12. CASE EndStream(s)
  BY <1>2, <1>3, <1>12 DEF EndStream, Send, ChatType, AskerStep
<1>13. CASE FailAnswer(s)
  BY <1>2, <1>3, <1>13 DEF FailAnswer, Send, ChatType, AskerStep
<1>14. CASE RetryQuery(s)
  <2>1. Asks(s, at[s]) /\ at[s] \in AskerStep \ {"idle"}
    BY <1>0, <1>1, <1>14, AskerRetries DEF RetryQuery
  <2> QED
    BY <1>2, <1>14, <2>1 DEF RetryQuery, chatVars, ChatType
<1>15. CASE Disconnect(s)
  BY <1>2, <1>3, <1>15 DEF Disconnect, chatVars, ChatType, AskerStep
<1> QED
  BY <1>4, <1>5, <1>6, <1>7, <1>8, <1>9, <1>10, <1>11, <1>12, <1>13, <1>14, <1>15
  DEF AskerProceeds

(* The calls of the others keep their invariant meanwhile.                 *)
LEMMA AskersKeepCalls ==
  ASSUME CallsInv, NEW s \in Asker, NEW step \in AskerStep \ {"idle"}, Asks(s, step), ChatType'
  PROVE  CallsInv'
<1>0. /\ TypeOK /\ StepsApart /\ CollectionsExist /\ WritersOver /\ ErasuresBegun
      /\ BucketFound /\ WritesLast /\ ErasuresLast
  BY DEF CallsInv
<1>1. /\ s \in Session /\ s \notin Indexer \cup Eraser \cup Saver \cup Remover \cup Prober
      /\ Indexer \cup Eraser \cup Saver \cup Remover \cup Prober \subseteq Session
  BY ChatAssumption, ClientsAssumption
<1>2. /\ at'[s] = step /\ at[s] \in ClientStep \cup AskerStep
      /\ \A r \in Session : r # s => at'[r] = at[r]
      /\ at' \in [Session -> ClientStep \cup AskerStep]
      /\ \A r : Work(r) = <<job[r].collection, job[r].document>> /\ Work(r)' = Work(r)
  BY <1>0, <1>1 DEF TypeOK, Asks, Work
<1>3. /\ \A r \in Indexer \cup Eraser \cup Saver \cup Remover \cup Prober : at'[r] = at[r]
      /\ UNCHANGED <<job, size, points, bucket, object, wire, late>>
  BY <1>1, <1>2 DEF Asks, world
<1>4. TypeOK'
  BY <1>0, <1>2 DEF TypeOK, ChatType, Asks, world
<1>5. StepsApart'
  <2>1. Belongs(s, step)
    BY DEF Belongs, AskerStep, IndexerSteps, ProberSteps, Over
  <2>2. job[s].document # None
    BY DEF Asks
  <2> QED
    BY <1>0, <1>2, <1>3, <2>1, <2>2 DEF StepsApart, Belongs
<1>6. WritersOver' /\ ErasuresBegun' /\ BucketFound' /\ CollectionsExist'
  BY <1>0, <1>2, <1>3 DEF WritersOver, ErasuresBegun, BucketFound, CollectionsExist
<1>7. WritesLast'
  BY <1>0, <1>2, <1>3 DEF WritesLast
<1>8. ErasuresLast'
  BY <1>0, <1>2, <1>3 DEF ErasuresLast
<1> QED
  BY <1>4, <1>5, <1>6, <1>7, <1>8 DEF CallsInv

---------------------------------------------------------------------------
(* Nothing is sent before the model is asked or a fixed text chosen, the   *)
(* model is not asked before what it is to read is found, an answer under  *)
(* way has begun and not ended; and what was refused asked nobody.         *)
Silent == {"idle", "deciding", "query_embedding", "searching", "building"}

AnswerOf(s) ==
  /\ at[s] \in Silent => events[s] = <<>> /\ ~complete[s] /\ "llm" \notin asked[s]
  /\ at[s] \in {"idle", "deciding"} => asked[s] = {}
  /\ at[s] \in Silent \ {"idle", "deciding"} => Decide(question[s]) = "needs_retrieval"
  /\ at[s] \in {"fixed", "connecting", "generating"} => events[s] # <<>> /\ ~Contract!Ended(s)
  /\ question[s].words # "some" \/ question[s].extraction => asked[s] = {}
  /\ "llm" \in asked[s] /\ question[s].retrieval => found[s] # {}

AnswerInv == \A s \in Asker : AnswerOf(s)

(* What a decision says of the question.                                   *)
LEMMA Decided ==
  ASSUME TypeOK, NEW s \in Asker
  PROVE  /\ Decide(question[s]) = "needs_retrieval" =>
              question[s].words = "some" /\ ~question[s].extraction
         /\ Decide(question[s]) = "direct_llm" =>
              question[s].words = "some" /\ ~question[s].extraction /\ ~question[s].retrieval
<1> DEFINE q == question[s]
<1>1. q.words \in {"few", "some"} /\ q.extraction \in BOOLEAN /\ q.retrieval \in BOOLEAN
  <2>1. q \in Question \cup {NoQuestion}
    BY DEF TypeOK
  <2>2. NoQuestion \in [words : {"few", "some"}, extraction : BOOLEAN, retrieval : BOOLEAN]
    BY DEF NoQuestion
  <2>3. q \in [words : {"few", "some"}, extraction : BOOLEAN, retrieval : BOOLEAN]
    BY <2>1, <2>2, ChatAssumption
  <2> QED
    BY <2>3
<1>2. "few" # "some"
  OBVIOUS
<1> HIDE DEF q
<1>3. q.words = "few" => Decide(q) = "clarification_needed"
  BY <1>2, Zenon DEF Decide
<1>4. q.words = "some" /\ q.extraction => Decide(q) = "out_of_scope"
  BY <1>2, Zenon DEF Decide
<1>5. q.words = "some" /\ ~q.extraction /\ q.retrieval => Decide(q) = "needs_retrieval"
  BY <1>2, Zenon DEF Decide
<1>6. q.words = "some" /\ ~q.extraction /\ ~q.retrieval => Decide(q) = "direct_llm"
  BY <1>2, Zenon DEF Decide
<1>7. /\ Decide(q) = "needs_retrieval" => q.words = "some" /\ ~q.extraction
      /\ Decide(q) = "direct_llm" => q.words = "some" /\ ~q.extraction /\ ~q.retrieval
  BY <1>1, <1>3, <1>4, <1>5, <1>6
<1> QED
  BY <1>7 DEF q

(* What sending an event does to its answer, and to the others.            *)
LEMMA Sent ==
  ASSUME ChatType, NEW s \in Asker, NEW event \in {"metadata", "token", "done", "error"},
         Send(s, event)
  PROVE  /\ events'[s] # <<>> /\ events' = [events EXCEPT ![s] = Append(@, event)]
         /\ Contract!Ended(s)' <=> event \in {"done", "error"}
         /\ \A r \in Asker : r # s => events'[r] = events[r]
<1>1. /\ events[s] \in Seq({"metadata", "token", "done", "error"})
      /\ events' = [events EXCEPT ![s] = Append(@, event)]
      /\ events'[s] = Append(events[s], event)
      /\ \A r \in Asker : r # s => events'[r] = events[r]
  BY DEF ChatType, Send
<1>2. /\ Len(events'[s]) = Len(events[s]) + 1 /\ Len(events[s]) \in Nat
      /\ events'[s][Len(events'[s])] = event
      /\ events'[s] # <<>>
  BY <1>1
<1> QED
  BY <1>1, <1>2 DEF Contract!Ended

(* An answer that a step leaves alone.                                     *)
LEMMA AnswerKept ==
  ASSUME NEW r \in Asker, AnswerOf(r), at'[r] = at[r], question' = question,
         events'[r] = events[r], asked'[r] = asked[r], found'[r] = found[r],
         complete'[r] = complete[r]
  PROVE  AnswerOf(r)'
BY DEF AnswerOf, Contract!Ended

(* A step of an answer, as the clients see it.                             *)
Shows(s) ==
  \/ Contract!Opens(s) \/ Contract!Streams(s) \/ Contract!EndsQuietly(s)
  \/ Contract!SendsDone(s) \/ Contract!SendsError(s)
  \/ UNCHANGED <<events, complete>>

(* The first event opens the answer, and the model is asked only of what   *)
(* was found.                                                              *)
LEMMA AnswersOpen ==
  ASSUME TypeOK, NEW s \in Asker, AnswerOf(s), DecideRoute(s) \/ BuildPrompt(s)
  PROVE  AnswerOf(s)' /\ Shows(s)
<1>0. /\ s \in Session /\ ChatType
      /\ at \in [Session -> ClientStep \cup AskerStep]
      /\ at[s] \in {"deciding", "building"} /\ question' = question
  BY ChatAssumption DEF TypeOK, ChatType, DecideRoute, BuildPrompt
<1>1. events[s] = <<>> /\ ~complete[s] /\ "llm" \notin asked[s]
  BY <1>0 DEF AnswerOf, Silent
<1>2. \A step : AskerGoes(s, step) => at'[s] = step
  BY <1>0 DEF AskerGoes, Goes
<1>3. Send(s, "metadata") => events'[s] # <<>> /\ ~Contract!Ended(s)'
  BY <1>0, Sent
<1>4. \A service : Calls(s, service) => asked'[s] = asked[s] \cup {service}
  BY <1>0 DEF Calls, ChatType
<1>5. CASE DecideRoute(s)
  <2>1. asked[s] = {} /\ found' = found
    BY <1>5 DEF DecideRoute, AnswerOf
  <2>2. CASE AnswerFixed(s)
    <3>1. at'[s] = "fixed" /\ asked'[s] = {} /\ Send(s, "metadata")
          /\ complete' = [complete EXCEPT ![s] = TRUE]
      BY <1>2, <2>1, <2>2 DEF AnswerFixed
    <3>2. Shows(s)
      BY <1>1, <3>1 DEF Shows, Contract!Opens, Contract!Sends, Contract!Completes, Send
    <3> QED
      BY <1>3, <3>1, <3>2 DEF AnswerOf, Silent
  <2>3. CASE RetrieveFirst(s)
    <3>1. /\ at'[s] = "query_embedding" /\ asked'[s] = {"embedding"}
          /\ UNCHANGED <<events, complete>> /\ Decide(question[s]) = "needs_retrieval"
      BY <1>2, <1>4, <2>1, <2>3 DEF RetrieveFirst
    <3>2. question[s].words = "some" /\ ~question[s].extraction
      BY <3>1, Decided
    <3>3. (Decide(question[s]) = "needs_retrieval")'
      BY <1>0, <3>1 DEF Decide
    <3> QED
      BY <1>0, <1>1, <3>1, <3>2, <3>3 DEF AnswerOf, Silent, Shows
  <2>4. CASE AskDirectly(s)
    <3>1. /\ at'[s] = "connecting" /\ asked'[s] = {"llm"} /\ complete' = complete
          /\ Send(s, "metadata") /\ Decide(question[s]) = "direct_llm"
      BY <1>2, <1>4, <2>1, <2>4 DEF AskDirectly
    <3>2. question[s].words = "some" /\ ~question[s].extraction /\ ~question[s].retrieval
      BY <3>1, Decided
    <3>3. Shows(s)
      BY <1>1, <3>1 DEF Shows, Contract!Opens, Contract!Sends, Contract!Completes, Send
    <3> QED
      BY <1>0, <1>3, <3>1, <3>2, <3>3 DEF AnswerOf, Silent
  <2> QED
    BY <1>5, <2>2, <2>3, <2>4 DEF DecideRoute
<1>6. CASE BuildPrompt(s)
  <2>1. /\ Decide(question[s]) = "needs_retrieval"
        /\ question[s].words = "some" /\ ~question[s].extraction
    BY <1>6, Decided DEF BuildPrompt, AnswerOf, Silent
  <2>2. /\ at'[s] = IF found[s] = {} THEN "fixed" ELSE "connecting"
        /\ found' = found /\ Send(s, "metadata")
        /\ found[s] = {} => asked'[s] = asked[s]
    BY <1>2, <1>6 DEF BuildPrompt
  <2>3. complete' \in {complete, [complete EXCEPT ![s] = TRUE]}
    BY <1>0, <1>1, <1>6 DEF BuildPrompt, ChatType
  <2>4. Shows(s)
    BY <1>1, <2>2, <2>3 DEF Shows, Contract!Opens, Contract!Sends, Contract!Completes, Send
  <2> QED
    BY <1>0, <1>1, <1>3, <2>1, <2>2, <2>4 DEF AnswerOf, Silent
<1> QED
  BY <1>5, <1>6

(* Until the first event nothing is sent, except that retrieval failed.    *)
LEMMA AnswersRetrieve ==
  ASSUME TypeOK, NEW s \in Asker, AnswerOf(s),
         BeginAnswer(s) \/ EmbedQuery(s) \/ SearchActive(s) \/ RetryQuery(s)
  PROVE  AnswerOf(s)' /\ Shows(s)
<1>0. /\ s \in Session /\ ChatType
      /\ at \in [Session -> ClientStep \cup AskerStep]
      /\ at[s] \in {"idle", "query_embedding", "searching"}
      /\ question' = question /\ events' = events /\ complete' = complete
  BY ChatAssumption
  DEF TypeOK, ChatType, BeginAnswer, EmbedQuery, SearchActive, RetryQuery, chatVars
<1>1. \A step : AskerGoes(s, step) => at'[s] = step
  BY <1>0 DEF AskerGoes, Goes
<1>2. Shows(s)
  BY <1>0 DEF Shows
<1>3. at[s] # "idle" => /\ (Decide(question[s]) = "needs_retrieval")'
                        /\ question[s].words = "some" /\ ~question[s].extraction
  BY <1>0, Decided DEF AnswerOf, Silent, Decide
<1>4. CASE BeginAnswer(s)
  BY <1>0, <1>1, <1>2, <1>4 DEF BeginAnswer, AnswerOf, Silent, chatVars
<1>5. CASE EmbedQuery(s)
  <2>1. at'[s] = "searching" /\ asked'[s] = asked[s] \cup {"search"} /\ found' = found
    BY <1>0, <1>1, <1>5 DEF EmbedQuery, Calls, ChatType
  <2> QED
    BY <1>0, <1>2, <1>3, <1>5, <2>1 DEF EmbedQuery, AnswerOf, Silent
<1>6. CASE SearchActive(s)
  <2>1. at'[s] = "building" /\ asked' = asked
    BY <1>1, <1>6 DEF SearchActive
  <2> QED
    BY <1>0, <1>2, <1>3, <1>6, <2>1 DEF SearchActive, AnswerOf, Silent
<1>7. CASE RetryQuery(s)
  <2>1. at' = at
    <3>1. attempt[s] \in Nat /\ MaxAttempts \in Nat /\ attempt[s] + 1 # MaxAttempts
      BY <1>0, <1>7, CallsAssumption DEF TypeOK, RetryQuery
    <3> QED
      BY <1>7, <3>1 DEF RetryQuery, RetriesOrRaises
  <2> QED
    BY <1>2, <1>7, <2>1, AnswerKept DEF RetryQuery, chatVars
<1> QED
  BY <1>4, <1>5, <1>6, <1>7, <1>2

(* What follows the first event: tokens, then one end.                     *)
LEMMA AnswersStream ==
  ASSUME TypeOK, NEW s \in Asker, AnswerOf(s),
         \/ SendFixed(s) \/ Connect(s) \/ StreamLine(s) \/ EndStream(s)
         \/ FailAnswer(s) \/ Disconnect(s)
  PROVE  AnswerOf(s)' /\ Shows(s)
<1>0. /\ s \in Session /\ ChatType
      /\ at \in [Session -> ClientStep \cup AskerStep]
      /\ question' = question /\ asked' = asked /\ found' = found
  BY ChatAssumption
  DEF TypeOK, ChatType, SendFixed, Connect, StreamLine, EndStream, FailAnswer, Disconnect, chatVars
<1>1. \A step : AskerGoes(s, step) => at'[s] = step
  BY <1>0 DEF AskerGoes, Goes
<1>2. \A event \in {"metadata", "token", "done", "error"} :
        Send(s, event) => events'[s] # <<>> /\ (Contract!Ended(s)' <=> event \in {"done", "error"})
  BY <1>0, Sent
<1>3. ASSUME at'[s] \in {"generating", "closed"},
             at'[s] = "generating" => events'[s] # <<>> /\ ~Contract!Ended(s)'
      PROVE  AnswerOf(s)'
  BY <1>0, <1>3 DEF AnswerOf, Silent
<1>4. CASE SendFixed(s)
  <2>1. at'[s] = "generating" /\ Send(s, "token") /\ complete' = complete
        /\ events[s] # <<>> /\ ~Contract!Ended(s)
    BY <1>1, <1>4 DEF SendFixed, AnswerOf
  <2>2. Shows(s)
    BY <2>1 DEF Shows, Contract!Streams, Contract!Sends, Contract!Completes, Send
  <2> QED
    BY <1>2, <1>3, <2>1, <2>2
<1>5. CASE Connect(s)
  <2>1. at'[s] = "generating" /\ events' = events /\ complete' = complete
        /\ events[s] # <<>> /\ ~Contract!Ended(s)
    BY <1>1, <1>5 DEF Connect, AnswerOf, chatVars
  <2>2. events'[s] # <<>> /\ ~Contract!Ended(s)'
    BY <2>1 DEF Contract!Ended
  <2> QED
    BY <1>3, <2>1, <2>2 DEF Shows
<1>6. CASE StreamLine(s)
  <2>1. at'[s] = "generating" /\ events[s] # <<>> /\ ~Contract!Ended(s)
    BY <1>1, <1>6 DEF StreamLine, AnswerOf
  <2>2. complete' \in {complete, [complete EXCEPT ![s] = TRUE]}
    BY <1>6 DEF StreamLine
  <2>3. CASE Send(s, "token")
    <3>1. Shows(s)
      BY <2>1, <2>2, <2>3 DEF Shows, Contract!Streams, Contract!Sends, Contract!Completes, Send
    <3> QED
      BY <1>2, <1>3, <2>1, <2>3, <3>1
  <2>4. CASE UNCHANGED events
    <3>1. events'[s] # <<>> /\ ~Contract!Ended(s)'
      BY <2>1, <2>4 DEF Contract!Ended
    <3>2. Shows(s)
      BY <2>1, <2>2, <2>4 DEF Shows, Contract!EndsQuietly, Contract!Completes
    <3> QED
      BY <1>3, <2>1, <3>1, <3>2
  <2> QED
    BY <1>6, <2>3, <2>4 DEF StreamLine
<1>7. CASE EndStream(s)
  <2>1. at'[s] = "closed" /\ Send(s, "done") /\ complete' = complete /\ complete[s]
        /\ events[s] # <<>> /\ ~Contract!Ended(s)
    BY <1>1, <1>7 DEF EndStream, AnswerOf
  <2>2. Shows(s)
    BY <2>1 DEF Shows, Contract!SendsDone, Contract!Sends, Send
  <2> QED
    BY <1>3, <2>1, <2>2
<1>8. CASE FailAnswer(s)
  <2>1. at'[s] = "closed" /\ Send(s, "error") /\ complete' = complete /\ ~complete[s]
    BY <1>1, <1>8 DEF FailAnswer
  <2>2. ~Contract!Ended(s)
    BY <1>8 DEF FailAnswer, AnswerOf, Silent, Contract!Ended
  <2>3. Shows(s)
    BY <2>1, <2>2 DEF Shows, Contract!SendsError, Contract!Sends, Send
  <2> QED
    BY <1>3, <2>1, <2>3
<1>9. CASE Disconnect(s)
  <2>1. at'[s] = "closed" /\ events' = events /\ complete' = complete
    BY <1>1, <1>9 DEF Disconnect, chatVars
  <2> QED
    BY <1>3, <2>1 DEF Shows
<1> QED
  BY <1>4, <1>5, <1>6, <1>7, <1>8, <1>9

(* An answer under way touches no other.                                   *)
LEMMA OneAnswer ==
  ASSUME TypeOK, StepsApart, NEW s \in Asker, BeginAnswer(s) \/ AskerProceeds(s),
         NEW r \in Asker, r # s
  PROVE  /\ at'[r] = at[r] /\ question' = question
         /\ events'[r] = events[r] /\ asked'[r] = asked[r]
         /\ found'[r] = found[r] /\ complete'[r] = complete[r]
<1>0. ChatType /\ r \in Session /\ at \in [Session -> ClientStep \cup AskerStep]
  BY ChatAssumption DEF TypeOK, ChatType
<1>1. at'[r] = at[r] /\ question' = question
  BY <1>0, AskersAct DEF Asks
<1>2. \A event : Send(s, event) => events'[r] = events[r]
  BY <1>0 DEF Send, ChatType
<1>3. \A service : Calls(s, service) => asked'[r] = asked[r]
  BY <1>0 DEF Calls, ChatType
<1>4. events'[r] = events[r]
  BY <1>2
  DEF BeginAnswer, AskerProceeds, DecideRoute, AnswerFixed, RetrieveFirst, AskDirectly,
      EmbedQuery, SearchActive, BuildPrompt, SendFixed, Connect, StreamLine, EndStream,
      FailAnswer, RetryQuery, Disconnect, chatVars
<1>5. asked'[r] = asked[r]
  BY <1>3
  DEF BeginAnswer, AskerProceeds, DecideRoute, AnswerFixed, RetrieveFirst, AskDirectly,
      EmbedQuery, SearchActive, BuildPrompt, SendFixed, Connect, StreamLine, EndStream,
      FailAnswer, RetryQuery, Disconnect, chatVars
<1>6. found'[r] = found[r]
  BY <1>0
  DEF ChatType, BeginAnswer, AskerProceeds, DecideRoute, EmbedQuery, SearchActive, BuildPrompt,
      SendFixed, Connect, StreamLine, EndStream, FailAnswer, RetryQuery, Disconnect, chatVars
<1>7. complete'[r] = complete[r]
  <2>1. \A v : complete' = [complete EXCEPT ![s] = v] => complete'[r] = complete[r]
    BY <1>0 DEF ChatType
  <2> QED
    BY <2>1
    DEF BeginAnswer, AskerProceeds, DecideRoute, AnswerFixed, RetrieveFirst, AskDirectly,
        EmbedQuery, SearchActive, BuildPrompt, SendFixed, Connect, StreamLine, EndStream,
        FailAnswer, RetryQuery, Disconnect, chatVars
<1> QED
  BY <1>1, <1>4, <1>5, <1>6, <1>7

(* The steps of the askers keep both invariants and the contract ...       *)
LEMMA AskersKeep ==
  ASSUME CallsInv, AnswerInv, NEW s \in Asker, BeginAnswer(s) \/ AskerProceeds(s)
  PROVE  CallsInv' /\ AnswerInv' /\ Shows(s)
<1>1. TypeOK /\ StepsApart /\ AnswerOf(s)
  BY DEF CallsInv, AnswerInv
<1>2. CallsInv'
  BY <1>1, AskersAct, AskersKeepCalls
<1>3. AnswerOf(s)' /\ Shows(s)
  BY <1>1, AnswersOpen, AnswersRetrieve, AnswersStream DEF AskerProceeds
<1>4. ASSUME NEW r \in Asker, r # s PROVE AnswerOf(r)'
  BY <1>1, <1>4, OneAnswer, AnswerKept DEF AnswerInv
<1> QED
  BY <1>2, <1>3, <1>4 DEF AnswerInv

(* ... and those of the clients keep the answers as they are.              *)
LEMMA ClientsKeep ==
  ASSUME CallsInv, AnswerInv, ClientSteps, UNCHANGED chatVars
  PROVE  CallsInv' /\ AnswerInv'
<1>1. TypeOK /\ StepsApart
  BY DEF CallsInv
<1>2. embedded' \in [Indexer -> Nat] /\ ((\E s \in Session : SessionActs(s)) \/ DeliverLate)
  BY <1>1, ClientsAct
<1>3. ASSUME NEW s \in Session, SessionActs(s)
      PROVE  CallsInv' /\ \A r \in Asker : at'[r] = at[r]
  <2>1. CallsInv'
    BY <1>1, <1>2, <1>3, SessionsKeepTypes, SessionsKeepOrder, SessionsKeepWorld,
       SessionsKeepWrites, SessionsKeepErasures
    DEF CallsInv
  <2>2. PICK step : Moves(s, step)
    BY <1>3 DEF SessionActs, Quiet, Made, Abandoned
  <2>3. s \notin Asker
    BY <2>2, ClientsAssumption, ChatAssumption
    DEF Moves, Belongs, ClientStep, IndexerSteps, ProberSteps, Over
  <2> QED
    BY <1>1, <2>1, <2>2, <2>3, MovedOn, ChatAssumption
<1>4. DeliverLate => CallsInv' /\ at' = at
  BY <1>2, LateKeeps DEF DeliverLate
<1>5. CallsInv' /\ \A r \in Asker : at'[r] = at[r]
  BY <1>2, <1>3, <1>4
<1>6. ASSUME NEW r \in Asker PROVE AnswerOf(r)'
  BY <1>5, <1>6, AnswerKept DEF AnswerInv, chatVars
<1> QED
  BY <1>5, <1>6 DEF AnswerInv

---------------------------------------------------------------------------
(* All sessions are idle, the collections empty and the answers not begun. *)
LEMMA ServingInit ==
  Init => CallsInv /\ AnswerInv /\ Contract!Init
<1> SUFFICES ASSUME Init PROVE CallsInv /\ AnswerInv /\ Contract!Init
  OBVIOUS
<1>1. /\ at = [s \in Session |-> "idle"] /\ points = {} /\ wire = {} /\ late = {}
      /\ Indexer \cup Eraser \cup Saver \cup Remover \cup Prober \cup Asker \subseteq Session
      /\ \A s \in Session : at[s] = "idle"
  BY ClientsAssumption, ChatAssumption DEF Init, ClientInit
<1>2. TypeOK
  <2>1. PICK scenario \in Scenario :
          job \in [Session -> Job] /\ size \in [Collection -> scenario.sizes]
    BY DEF Init, ClientInit
  <2>2. size \in [Collection -> Size]
    BY <2>1, ClientsAssumption
  <2>3. attempt \in [Session -> 0..(MaxAttempts - 1)]
    BY CallsAssumption DEF Init, ClientInit
  <2>4. embedded \in [Indexer -> Nat]
    BY DEF Init, ClientInit
  <2>5. /\ question \in [Asker -> Question \cup {NoQuestion}]
        /\ events \in [Asker -> Seq({"metadata", "token", "done", "error"})]
        /\ asked \in [Asker -> SUBSET {"embedding", "search", "llm"}]
        /\ found \in [Asker -> SUBSET Document]
        /\ complete \in [Asker -> BOOLEAN]
    BY DEF Init
  <2>6. at \in [Session -> ClientStep \cup AskerStep]
    BY <1>1 DEF ClientStep
  <2>7. bucket \in BOOLEAN /\ object \subseteq Document
    BY DEF Init, ClientInit
  <2> QED
    BY <1>1, <2>1, <2>2, <2>3, <2>4, <2>5, <2>6, <2>7 DEF TypeOK
<1>3. StepsApart
  BY <1>1 DEF StepsApart, Belongs, IndexerSteps, ProberSteps, Over
<1>4. /\ CollectionsExist /\ WritersOver /\ ErasuresBegun /\ BucketFound
      /\ WritesLast /\ ErasuresLast
  BY <1>1 DEF CollectionsExist, WritersOver, ErasuresBegun, BucketFound, WritesLast, ErasuresLast
<1>5. AnswerInv
  BY <1>1 DEF AnswerInv, AnswerOf, Silent, Init
<1>6. Contract!Init
  BY DEF Init, Contract!Init
<1> QED
  BY <1>2, <1>3, <1>4, <1>5, <1>6 DEF CallsInv

(* The calls and the answers, step by step, keep what they rest on, and    *)
(* the clients see a step of the contract, or none.                        *)
LEMMA ServingStep ==
  CallsInv /\ AnswerInv /\ [Next]_vars
    => CallsInv' /\ AnswerInv' /\ [Contract!Next]_(Contract!answerVars)
<1> SUFFICES ASSUME CallsInv, AnswerInv, [Next]_vars
    PROVE CallsInv' /\ AnswerInv' /\ [Contract!Next]_(Contract!answerVars)
  OBVIOUS
<1>1. CASE ClientSteps /\ UNCHANGED chatVars
  BY <1>1, ClientsKeep DEF chatVars, Contract!answerVars
<1>2. ASSUME NEW s \in Asker, BeginAnswer(s) \/ AskerProceeds(s)
      PROVE  CallsInv' /\ AnswerInv' /\ [Contract!Next]_(Contract!answerVars)
  BY <1>2, AskersKeep DEF Shows, Contract!Next, Contract!answerVars
<1>3. CASE UNCHANGED vars
  <2>1. UNCHANGED <<at, attempt, job, size, points, bucket, object, wire, late, embedded,
                    question, events, asked, found, complete>>
    BY <1>3 DEF vars, callVars, world, chatVars
  <2>2. \A r : Work(r)' = Work(r)
    BY <2>1 DEF Work
  <2>3. CallsInv'
    BY <2>1, <2>2
    DEF CallsInv, TypeOK, StepsApart, Belongs, CollectionsExist, WritersOver, ErasuresBegun,
        BucketFound, WritesLast, ErasuresLast
  <2>4. AnswerInv'
    BY <2>1, AnswerKept DEF AnswerInv
  <2> QED
    BY <2>1, <2>3, <2>4 DEF Contract!answerVars
<1> QED
  BY <1>1, <1>2, <1>3 DEF Next

(* TypeOK, of the services, the calls and the answers.                     *)
THEOREM ServingTypes == Spec => []TypeOK
<1>1. CallsInv /\ AnswerInv => TypeOK
  BY DEF CallsInv
<1> QED
  BY <1>1, ServingInit, ServingStep, PTL DEF Spec

(* WritesLast: what upsert or save() returned for is there, however often  *)
(* retry_async() repeated the call and whatever was served late, until its *)
(* erasure begins.                                                         *)
THEOREM WritesKept == Spec => []WritesLast
<1>1. CallsInv /\ AnswerInv => WritesLast
  BY DEF CallsInv
<1> QED
  BY <1>1, ServingInit, ServingStep, PTL DEF Spec

(* ErasuresLast: what delete_by_document_id() or FileStorage.delete()      *)
(* returned for stays erased, unless a write that had timed out was served *)
(* after all.                                                              *)
THEOREM ErasuresKept == Spec => []ErasuresLast
<1>1. CallsInv /\ AnswerInv => ErasuresLast
  BY DEF CallsInv
<1> QED
  BY <1>1, ServingInit, ServingStep, PTL DEF Spec

(* ReadyMeansBucket: GET /health/ready answers 200 only with a bucket,     *)
(* with any number of probes racing to create it.                          *)
THEOREM ReadyHasBucket == Spec => []ReadyMeansBucket
<1>1. CallsInv /\ AnswerInv => ReadyMeansBucket
  BY DEF CallsInv, BucketFound, ReadyMeansBucket
<1> QED
  BY <1>1, ServingInit, ServingStep, PTL DEF Spec

(* RefusedStaysLocal: decide() tries extraction intent before references   *)
(* to documents, and what it refuses reaches no service.                   *)
THEOREM RefusalsAskNobody == Spec => []RefusedStaysLocal
<1>1. CallsInv /\ AnswerInv => RefusedStaysLocal
  BY DEF AnswerInv, AnswerOf, RefusedStaysLocal
<1> QED
  BY <1>1, ServingInit, ServingStep, PTL DEF Spec

(* AnswersAreGrounded: the model is not asked about documents when         *)
(* retrieval, whatever it repeats or finds, has found none.                *)
THEOREM AnswersRestOnFinds == Spec => []AnswersAreGrounded
<1>1. CallsInv /\ AnswerInv => AnswersAreGrounded
  BY DEF AnswerInv, AnswerOf, AnswersAreGrounded
<1> QED
  BY <1>1, ServingInit, ServingStep, PTL DEF Spec

(* KeepsContract: POST /chat implements AnswerStream.  The state of the    *)
(* contract is that of the answers, and every step of any session is a     *)
(* step of the contract or leaves the answers alone.                       *)
THEOREM AnswersKeepContract == Spec => KeepsContract
<1>1. CallsInv /\ AnswerInv /\ [Next]_vars => [Contract!Next]_(Contract!answerVars)
  BY ServingStep
<1>2. Spec => [](CallsInv /\ AnswerInv)
  BY ServingInit, ServingStep, PTL DEF Spec
<1> QED
  BY <1>1, <1>2, ServingInit, PTL DEF Spec, KeepsContract, Contract!Spec

---------------------------------------------------------------------------
(* No step changes the texts of the documents.                             *)
LEMMA TextsStay == Spec => []Texts
<1>1. Init => Texts
  <2> SUFFICES ASSUME Init PROVE Texts
    OBVIOUS
  <2>1. PICK scenario \in Scenario : text \in [Document -> scenario.texts]
    BY DEF Init, ClientInit
  <2>2. scenario.texts \subseteq Seq(Seq(Nat))
    BY ClientsAssumption
  <2> QED
    BY <2>1, <2>2 DEF Texts
<1>2. Texts /\ [Next]_vars => Texts'
  BY DEF Texts, Next, vars
<1> QED
  BY <1>1, <1>2, PTL DEF Spec

(* ChunksCoverText: the chunks of DocumentChunker leave no word of a page  *)
(* out and each brings a new one, for pages and words of any length and    *)
(* any chunk size and overlap.                                             *)
THEOREM ChunksCover == Spec => []ChunksCoverText
<1>1. Texts => ChunksCoverText
  BY TextsCovered
<1> QED
  BY <1>1, TextsStay, PTL

(* ChunksBounded: the overlap is the longest that fits, and only a last    *)
(* word that does not fit behind it makes a chunk longer than the size.    *)
THEOREM ChunksInBounds == Spec => []ChunksBounded
<1>1. Texts => ChunksBounded
  BY TextsBounded
<1> QED
  BY <1>1, TextsStay, PTL
=============================================================================
