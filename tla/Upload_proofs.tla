---------------------------- MODULE Upload_proofs ----------------------------
(***************************************************************************)
(* The invariant of uploads, for any number of documents, contents and     *)
(* requests, with processes that die and writes that apply and still raise.*)
(***************************************************************************)
EXTENDS Upload, TLAPS

USE UploadAssumption

(* A document holds its hash exactly while it is live.                     *)
HashFollowsStatus == \A d \in Document : hash[d] # None <=> Live(d)

(* The hash kept is that of the bytes stored.                              *)
HashOfContent == \A d \in Hashed : hash[d] = content[d]

(* What the unique index enforces.                                         *)
HashUnique == \A d, e \in Hashed : hash[d] = hash[e] => d = e

(* Requests draw different ids.                                            *)
OwnIds == \A u, v \in Uploader :
  upload[u].document # None /\ upload[u].document = upload[v].document => u = v

(* Between the save and the commit the id is the request's alone: no row   *)
(* has it, and its object is there.                                        *)
SavedIsOwn == \A u \in Uploader : At(u, "saved") =>
  LET d == upload[u].document
  IN  d \in object /\ status[d] = "absent" /\ content[d] = upload[u].content

(* A request knows what it uploads, and from the save on, under which id.  *)
SessionComplete == \A u \in Uploader :
  /\ ~At(u, "idle") => upload[u].content \in Content
  /\ At(u, "saved") \/ At(u, "lost") \/ At(u, "undoing") => upload[u].document \in Document

(* What a request is about to clean up belongs to no document, unless its  *)
(* commit has raised after it was applied.                                 *)
UndoneIsUnused == \A u \in Uploader : At(u, "lost") \/ At(u, "undoing") =>
  status[upload[u].document] = "absent" \/ upload[u].document \in doubtful

Holds == HashFollowsStatus /\ HashOfContent /\ HashUnique
Sessions == OwnIds /\ SavedIsOwn /\ SessionComplete /\ UndoneIsUnused

UploadInvariant == TypeOK /\ Holds /\ Sessions /\ OriginalKept
---------------------------------------------------------------------------
(* Init: there is neither a document nor a request.                        *)
LEMMA NothingUploaded == Init => UploadInvariant
<1> SUFFICES ASSUME Init PROVE UploadInvariant
  OBVIOUS
<1>1. TypeOK
  BY DEF Init, TypeOK, UploadSession, NoUpload, Promise!Status
<1>2. Holds
  BY DEF Init, Holds, HashFollowsStatus, HashOfContent, HashUnique, Hashed, Live
<1>3. Sessions
  BY DEF Init, Sessions, OwnIds, SavedIsOwn, SessionComplete, UndoneIsUnused, NoUpload, At
<1>4. OriginalKept
  BY DEF Init, OriginalKept
<1>. QED BY <1>1, <1>2, <1>3, <1>4 DEF UploadInvariant

(* decide_upload() and the answers change nothing but the session, which   *)
(* neither holds a saved object nor is about to remove one.                *)
LEMMA DecisionKeeps ==
  ASSUME UploadInvariant, NEW u \in Uploader,
         \/ \E c \in Content : Receives(u, c)
         \/ LooksUpHash(u) \/ ReadsDeletion(u) \/ Raises(u) \/ SaveRaises(u) \/ Dies(u)
  PROVE  UploadInvariant'
<1>0. UNCHANGED <<status, searchable, object, content, hash, doubtful>>
  BY DEF Receives, LooksUpHash, ReadsDeletion, Raises, SaveRaises, Dies
<1> DEFINE s == upload'[u]
<1>1. /\ s \in UploadSession
      /\ upload' = [upload EXCEPT ![u] = s]
      /\ s.at \notin {"saved", "lost", "undoing"}
      /\ s.document \in {None, upload[u].document}
      /\ s.at # "idle" => s.content \in Content
  <2>1. upload \in [Uploader -> UploadSession] /\ (~At(u, "idle") => upload[u].content \in Content)
    BY DEF UploadInvariant, TypeOK, Sessions, SessionComplete
  <2>2. ASSUME NEW c \in Content, Receives(u, c) PROVE <1>1!:
    <3>1. s = [at |-> "deciding", content |-> c, document |-> None, match |-> None]
      BY <2>1, <2>2 DEF Receives, NoUpload
    <3>. QED BY <2>1, <2>2, <3>1 DEF Receives, UploadSession
  <2>3. CASE LooksUpHash(u)
    BY <2>1, <2>3 DEF LooksUpHash, Holders, At, Continue, UploadSession
  <2>4. CASE ReadsDeletion(u)
    BY <2>1, <2>4 DEF ReadsDeletion, At, Continue, Reply, NoUpload, UploadSession
  <2>5. CASE Raises(u) \/ SaveRaises(u) \/ Dies(u)
    BY <2>1, <2>5 DEF Raises, SaveRaises, Dies, Reply, NoUpload, UploadSession
  <2>. QED BY <2>2, <2>3, <2>4, <2>5
<1>2. TypeOK'
  BY <1>0, <1>1 DEF UploadInvariant, TypeOK
<1>3. Holds'
  BY <1>0 DEF UploadInvariant, Holds, HashFollowsStatus, HashOfContent, HashUnique, Hashed, Live
<1>4. Sessions'
  BY <1>0, <1>1 DEF UploadInvariant, TypeOK, Sessions, OwnIds, SavedIsOwn, SessionComplete,
                    UndoneIsUnused, At, UploadSession
<1>5. OriginalKept'
  BY <1>0 DEF UploadInvariant, OriginalKept
<1>. QED BY <1>2, <1>3, <1>4, <1>5 DEF UploadInvariant

(* storage.save() under a fresh id.                                        *)
LEMMA SavesObjectKeeps ==
  ASSUME UploadInvariant, NEW u \in Uploader, SavesObject(u)
  PROVE  UploadInvariant'
<1>1. PICK d \in Document :
        /\ Fresh(d)
        /\ object' = object \cup {d}
        /\ content' = [content EXCEPT ![d] = upload[u].content]
        /\ \/ upload' = [upload EXCEPT ![u].at = "saved", ![u].document = d]
           \/ Reply(u)
  BY DEF SavesObject
<1>2. upload[u].content \in Content /\ UNCHANGED <<status, searchable, hash, doubtful>>
  BY DEF SavesObject, UploadInvariant, Sessions, SessionComplete, At
<1>3. TypeOK'
  BY <1>1, <1>2 DEF UploadInvariant, TypeOK, UploadSession, NoUpload, Reply
<1>4. Holds'
  BY <1>1, <1>2 DEF UploadInvariant, TypeOK, Holds, HashFollowsStatus, HashOfContent, HashUnique,
                    Hashed, Live, Fresh
<1>5. Sessions'
  BY <1>1, <1>2 DEF UploadInvariant, TypeOK, Sessions, OwnIds, SavedIsOwn, SessionComplete,
                    UndoneIsUnused, At, Reply, NoUpload, Fresh, UploadSession
<1>6. OriginalKept'
  BY <1>1, <1>2 DEF UploadInvariant, OriginalKept
<1>. QED BY <1>3, <1>4, <1>5, <1>6 DEF UploadInvariant

(* session.commit(): it inserts, loses the race, or raises.                *)
LEMMA CommitKeeps ==
  ASSUME UploadInvariant, NEW u \in Uploader, Commits(u) \/ CommitRaises(u)
  PROVE  UploadInvariant'
<1> DEFINE d == upload[u].document
<1>1. /\ d \in Document /\ d \in object /\ status[d] = "absent"
      /\ content[d] = upload[u].content /\ upload[u].content \in Content
      /\ At(u, "saved")
  BY DEF Commits, CommitRaises, UploadInvariant, Sessions, SavedIsOwn, SessionComplete, At
<1>2. UNCHANGED <<searchable, object, content>>
  BY DEF Commits, CommitRaises
<1>3. UNCHANGED <<status, hash>> \/ Creates(u)
  BY DEF Commits, CommitRaises
<1>4. doubtful' = doubtful \/ doubtful' = doubtful \cup {d}
  BY DEF Commits, CommitRaises
<1>5. PICK s \in UploadSession :
        /\ upload' = [upload EXCEPT ![u] = s]
        /\ s.at \in {"idle", "lost", "undoing"}
        /\ s.document \in {None, d}
        /\ s.at # "idle" => s.document = d /\ s.content \in Content
        /\ s.at # "idle" => status' = status \/ d \in doubtful'
  BY <1>1 DEF UploadInvariant, TypeOK, UploadSession, NoUpload, At, Continue, Reply, Commits,
              CommitRaises
<1>6. TypeOK'
  BY <1>1, <1>2, <1>3, <1>4, <1>5 DEF UploadInvariant, TypeOK, Creates, Promise!Status
<1>7. Holds'
  BY <1>1, <1>2, <1>3 DEF UploadInvariant, TypeOK, Holds, HashFollowsStatus, HashOfContent,
                          HashUnique, Hashed, Live, Creates, Holders
<1>8. \A e \in Document : e # d => status'[e] = status[e]
  BY <1>3 DEF Creates, UploadInvariant, TypeOK
<1>9. Sessions'
  BY <1>1, <1>2, <1>4, <1>5, <1>8 DEF UploadInvariant, TypeOK, Sessions, OwnIds, SavedIsOwn,
     SessionComplete, UndoneIsUnused, At, UploadSession
<1>10. OriginalKept'
  BY <1>1, <1>2, <1>4, <1>8 DEF UploadInvariant, OriginalKept
<1>. QED BY <1>6, <1>7, <1>9, <1>10 DEF UploadInvariant

(* _delete_best_effort() removes the own object or nothing.                *)
LEMMA UndoesKeeps ==
  ASSUME UploadInvariant, NEW u \in Uploader, Undoes(u)
  PROVE  UploadInvariant'
<1> DEFINE d == upload[u].document
<1>1. /\ d \in Document
      /\ status[d] = "absent" \/ d \in doubtful
      /\ At(u, "lost") \/ At(u, "undoing")
  BY DEF Undoes, UploadInvariant, Sessions, SessionComplete, UndoneIsUnused, At
<1>2. /\ UNCHANGED <<status, searchable, content, hash, doubtful>>
      /\ object' = object \/ object' = object \ {d}
  BY DEF Undoes
<1>3. PICK s \in UploadSession :
        /\ upload' = [upload EXCEPT ![u] = s]
        /\ s.at \in {"idle", "redeciding"}
        /\ s.document \in {None, d}
        /\ s.at # "idle" => s.content \in Content
  BY <1>1 DEF UploadInvariant, TypeOK, Sessions, SessionComplete, UploadSession, NoUpload, At,
              Continue, Reply, Undoes
<1>4. TypeOK'
  BY <1>2, <1>3 DEF UploadInvariant, TypeOK
<1>5. Holds'
  BY <1>2 DEF UploadInvariant, Holds, HashFollowsStatus, HashOfContent, HashUnique, Hashed, Live
<1>6. Sessions'
  BY <1>1, <1>2, <1>3 DEF UploadInvariant, TypeOK, Sessions, OwnIds, SavedIsOwn, SessionComplete,
                          UndoneIsUnused, At, UploadSession
<1>7. OriginalKept'
  BY <1>1, <1>2 DEF UploadInvariant, OriginalKept
<1>. QED BY <1>4, <1>5, <1>6, <1>7 DEF UploadInvariant

(* What the promise allows after the upload: a hash goes with a deletion,  *)
(* an original while deleting, and what is absent stays so.                *)
LEMMA LifecycleKeeps ==
  ASSUME UploadInvariant, LifecycleStep
  PROVE  UploadInvariant'
<1>0. UNCHANGED <<content, doubtful, upload>>
  BY DEF LifecycleStep
<1>1. PICK d \in Document :
        \/ Promise!Ingests(d) \/ Promise!Publishes(d) \/ Promise!AcceptsDeletion(d)
        \/ Promise!Withdraws(d) \/ Promise!ErasesOriginal(d) \/ Promise!FailsDeletion(d)
        \/ Promise!Deletes(d)
  BY DEF LifecycleStep, Promise!Next
<1>2. PICK new \in Promise!Status :
        /\ status' = [status EXCEPT ![d] = new]
        /\ status[d] \notin {"absent", "deleted"}
        /\ new = "deleted" <=> Promise!Deletes(d)
        /\ object' # object => object' = object \ {d} /\ status[d] = "deleting"
        /\ status[d] \in {"deleting", "deletion_failed"} =>
             new \in {"deleting", "deletion_failed", "deleted"}
        /\ searchable' \subseteq Document
  BY <1>1 DEF UploadInvariant, TypeOK, Promise!Status, Promise!Moves, Promise!Ingests,
     Promise!Publishes, Promise!AcceptsDeletion, Promise!Withdraws, Promise!ErasesOriginal,
     Promise!FailsDeletion, Promise!Deletes
<1>3. /\ hash' \in [Document -> Content \cup {None}]
      /\ \A e \in Document : hash'[e] \in {hash[e], None}
  BY DEF LifecycleStep, UploadInvariant, TypeOK
<1>4. Hashed' = IF new = "deleted" THEN Hashed \ {d} ELSE Hashed
  BY <1>1, <1>2 DEF Promise!Ingests, Promise!Publishes, Promise!AcceptsDeletion,
     Promise!Withdraws, Promise!ErasesOriginal, Promise!FailsDeletion, Promise!Deletes
<1>5. TypeOK'
  BY <1>0, <1>2, <1>3 DEF UploadInvariant, TypeOK
<1>6. Holds'
  BY <1>0, <1>2, <1>3, <1>4 DEF UploadInvariant, TypeOK, Holds, HashFollowsStatus, HashOfContent,
     HashUnique, Hashed, Live, Promise!Status
<1>7. Sessions'
  BY <1>0, <1>2 DEF UploadInvariant, TypeOK, Sessions, OwnIds, SavedIsOwn, SessionComplete,
     UndoneIsUnused, At
<1>8. OriginalKept'
  BY <1>0, <1>2 DEF UploadInvariant, TypeOK, OriginalKept, Promise!Status
<1>. QED BY <1>5, <1>6, <1>7, <1>8 DEF UploadInvariant

(* The invariant holds for ever.                                           *)
THEOREM UploadConsistency == Spec => []UploadInvariant
<1>1. UploadInvariant /\ [Next]_vars => UploadInvariant'
  <2> SUFFICES ASSUME UploadInvariant, [Next]_vars PROVE UploadInvariant'
    OBVIOUS
  <2>1. CASE UNCHANGED vars
    BY <2>1 DEF vars, UploadInvariant, TypeOK, Holds, HashFollowsStatus, HashOfContent, HashUnique,
       Sessions, OwnIds, SavedIsOwn, SessionComplete, UndoneIsUnused, OriginalKept, Hashed, Live, At
  <2>2. CASE LifecycleStep
    BY <2>2, LifecycleKeeps
  <2>3. ASSUME NEW u \in Uploader, UploadStep(u) PROVE UploadInvariant'
    BY <2>3, DecisionKeeps, SavesObjectKeeps, CommitKeeps, UndoesKeeps DEF UploadStep
  <2>. QED BY <2>1, <2>2, <2>3 DEF Next
<1>. QED BY <1>1, NothingUploaded, PTL DEF Spec

(* The documents table, the storage and the sessions are well typed.       *)
THEOREM UploadTypes == Spec => []TypeOK
<1>1. UploadInvariant => TypeOK
  BY DEF UploadInvariant
<1>. QED BY <1>1, UploadConsistency, PTL

(* Whatever uploads race, crash or are told of a failure that was none,    *)
(* no bytes are held by two live documents.                                *)
THEOREM NoDuplicates == Spec => []LiveContentUnique
<1>1. UploadInvariant => LiveContentUnique
  BY DEF UploadInvariant, Holds, HashFollowsStatus, HashOfContent, HashUnique, Hashed,
         LiveContentUnique
<1>. QED BY <1>1, UploadConsistency, PTL

(* The cleanup of an upload never takes the original of a document, its    *)
(* own included unless the commit was applied and raised.                  *)
THEOREM CleanupSparesDocuments == Spec => []OriginalKept
<1>1. UploadInvariant => OriginalKept
  BY DEF UploadInvariant
<1>. QED BY <1>1, UploadConsistency, PTL
=============================================================================
