------------------------------- MODULE Upload -------------------------------
(***************************************************************************)
(* POST /documents: content-hash deduplication, storing the                *)
(* original, and the race of two uploads of the same bytes.  What happens  *)
(* to a document once it exists is left to DocumentPromise: its lifecycle  *)
(* is any that the promise allows.                                         *)
(***************************************************************************)
CONSTANTS
  Document,  \* ids, drawn at random by the uploads
  Content,   \* uploaded bytes, identified by their SHA-256 digest
  None,      \* SQL NULL
  Uploader,  \* upload requests in flight
  Mortal,    \* those whose process may die between two steps
  Lossy      \* those whose writes may apply and still raise

ASSUME UploadAssumption == None \notin Content \cup Document

VARIABLES
  status,      \* lifecycle status of a document, "absent" before its commit
  searchable,  \* documents some collection holds points of
  object,      \* documents whose key holds an object, committed or not
  content,     \* the bytes stored under the key of a document
  hash,        \* documents.content_hash
  doubtful,    \* history: documents whose commit was applied and still raised
  upload       \* the session of each request

vars == <<status, searchable, object, content, hash, doubtful, upload>>

Hashed == {d \in Document : hash[d] # None}

Promise == INSTANCE DocumentPromise WITH stored <- object, reserved <- Hashed

UploadSession ==
  [at : {"idle", "deciding", "matched", "release_missing", "new", "saved", "lost",
         "undoing", "redeciding", "winner_missing"},
   content : Content \cup {None}, document : Document \cup {None},
   match : Document \cup {None}]

NoUpload == [at |-> "idle", content |-> None, document |-> None, match |-> None]

TypeOK ==
  /\ status \in [Document -> Promise!Status \cup {"absent"}]
  /\ searchable \subseteq Document
  /\ object \subseteq Document
  /\ content \in [Document -> Content \cup {None}]
  /\ hash \in [Document -> Content \cup {None}]
  /\ doubtful \subseteq Document
  /\ upload \in [Uploader -> UploadSession]

Init ==
  /\ status = [d \in Document |-> "absent"]
  /\ searchable = {}
  /\ object = {}
  /\ content = [d \in Document |-> None]
  /\ hash = [d \in Document |-> None]
  /\ doubtful = {}
  /\ upload = [u \in Uploader |-> NoUpload]

At(u, step) == upload[u].at = step

Continue(u, step) == upload' = [upload EXCEPT ![u].at = step]

Reply(u) == upload' = [upload EXCEPT ![u] = NoUpload]

(* uq_documents_content_hash: the documents an insert would collide with.  *)
Holders(c) == {d \in Document : hash[d] = c}

(* uuid4: an id nobody has used.                                           *)
Fresh(d) == status[d] = "absent" /\ d \notin object /\ \A u \in Uploader : upload[u].document # d

---------------------------------------------------------------------------
Receives(u, c) ==
  /\ At(u, "idle")
  /\ upload' = [upload EXCEPT ![u] = [NoUpload EXCEPT !.at = "deciding", !.content = c]]
  /\ UNCHANGED <<status, searchable, object, content, hash, doubtful>>

(* decide_upload: first the document is looked up by the hash.  After a    *)
(* lost race it must be there.                                             *)
LooksUpHash(u) ==
  /\ \/ \E d \in Holders(upload[u].content) :
          /\ At(u, "deciding") \/ At(u, "redeciding")
          /\ upload' = [upload EXCEPT ![u].at = "matched", ![u].match = d]
     \/ /\ Holders(upload[u].content) = {}
        /\ \/ At(u, "deciding") /\ Continue(u, "new")
           \/ At(u, "redeciding") /\ Continue(u, "winner_missing")
  /\ UNCHANGED <<status, searchable, object, content, hash, doubtful>>

(* Then its latest deletion job is read: one in the way is a 409, none     *)
(* means reuse (the latest ingestion job only words the answer), and a     *)
(* COMPLETED one is taken for a hash that was never released.              *)
ReadsDeletion(u) ==
  /\ At(u, "matched")
  /\ IF status[upload[u].match] = "deleted" THEN Continue(u, "release_missing") ELSE Reply(u)
  /\ UNCHANGED <<status, searchable, object, content, hash, doubtful>>

(* DeletionInvariantViolationError, MissingWinnerAfterRaceError: a 500.    *)
Raises(u) ==
  /\ At(u, "release_missing") \/ At(u, "winner_missing")
  /\ Reply(u)
  /\ UNCHANGED <<status, searchable, object, content, hash, doubtful>>

SavesObject(u) ==
  /\ At(u, "new")
  /\ \E d \in Document :
       /\ Fresh(d)
       /\ object' = object \cup {d}
       /\ content' = [content EXCEPT ![d] = upload[u].content]
       /\ \/ upload' = [upload EXCEPT ![u].at = "saved", ![u].document = d]
          \/ u \in Lossy /\ Reply(u)
  /\ UNCHANGED <<status, searchable, hash, doubtful>>

(* Nothing was stored: nothing is to be undone.                            *)
SaveRaises(u) ==
  /\ At(u, "new")
  /\ Reply(u)
  /\ UNCHANGED <<status, searchable, object, content, hash, doubtful>>

(* The Document, its hash and its PENDING job are one commit.              *)
Creates(u) ==
  LET d == upload[u].document
  IN  /\ Holders(upload[u].content) = {}
      /\ status' = [status EXCEPT ![d] = "pending"]
      /\ hash' = [hash EXCEPT ![d] = upload[u].content]

(* Mutant: the job is left to a commit of its own.                         *)
CommitsWithoutJob(u) ==
  /\ At(u, "saved")
  /\ Holders(upload[u].content) = {}
  /\ status' = [status EXCEPT ![upload[u].document] = "uploaded"]
  /\ Reply(u)
  /\ UNCHANGED <<searchable, object, content, hash, doubtful>>

(* Mutant: the hash is not stored with the document.                       *)
CommitsUnhashed(u) ==
  /\ At(u, "saved")
  /\ status' = [status EXCEPT ![upload[u].document] = "pending"]
  /\ Reply(u)
  /\ UNCHANGED <<searchable, object, content, hash, doubtful>>

Commits(u) ==
  /\ At(u, "saved")
  /\ \/ Creates(u) /\ Reply(u)
     \/ /\ Holders(upload[u].content) # {}
        /\ Continue(u, "lost")
        /\ UNCHANGED <<status, hash>>
  /\ UNCHANGED <<searchable, object, content, doubtful>>

(* Any other failure of the commit, which may have been applied.           *)
CommitRaises(u) ==
  /\ At(u, "saved")
  /\ \/ UNCHANGED <<status, hash>>
     \/ u \in Lossy /\ Creates(u)
  /\ doubtful' = IF status' = status THEN doubtful ELSE doubtful \cup {upload[u].document}
  /\ Continue(u, "undoing")
  /\ UNCHANGED <<searchable, object, content>>

(* Mutant: the key is derived from the bytes, so it is the winner's too.   *)
UndoesWinner(u) ==
  /\ At(u, "lost")
  /\ object' = object \ Holders(upload[u].content)
  /\ Continue(u, "redeciding")
  /\ UNCHANGED <<status, searchable, content, hash, doubtful>>

(* _delete_best_effort: a failure to delete the own object is swallowed.   *)
(* The loser of a race then decides again, any other failure is raised.    *)
Undoes(u) ==
  /\ \/ At(u, "lost") /\ Continue(u, "redeciding")
     \/ At(u, "undoing") /\ Reply(u)
  /\ object' \in {object, object \ {upload[u].document}}
  /\ UNCHANGED <<status, searchable, content, hash, doubtful>>

Dies(u) ==
  /\ u \in Mortal
  /\ ~At(u, "idle")
  /\ Reply(u)
  /\ UNCHANGED <<status, searchable, object, content, hash, doubtful>>

(* Ingestion and deletion; only a deletion changes a hash, to NULL.        *)
LifecycleStep ==
  /\ hash' \in {hash} \cup {[hash EXCEPT ![d] = None] : d \in Hashed}
  /\ Promise!Next
  /\ UNCHANGED <<content, doubtful, upload>>

---------------------------------------------------------------------------
UploadStep(u) ==
  \/ \E c \in Content : Receives(u, c)
  \/ LooksUpHash(u)
  \/ ReadsDeletion(u)
  \/ Raises(u)
  \/ SavesObject(u)
  \/ SaveRaises(u)
  \/ Commits(u)
  \/ CommitRaises(u)
  \/ Undoes(u)
  \/ Dies(u)

Next == (\E u \in Uploader : UploadStep(u)) \/ LifecycleStep

Spec == Init /\ [][Next]_vars

Live(d) == status[d] \notin {"absent", "deleted"}

(* The same bytes are not held twice: whatever uploads race and whatever   *)
(* becomes of the documents, two live ones have different contents.        *)
LiveContentUnique ==
  \A d, e \in Document : Live(d) /\ Live(e) /\ content[d] = content[e] => d = e

(* A document has its original until its deletion: the cleanup after a     *)
(* lost race or a failed commit only removes what no document refers to,   *)
(* unless the commit was applied and raised all the same.                  *)
OriginalKept ==
  \A d \in Document \ doubtful :
    status[d] \in {"pending", "processing", "indexed", "failed"} => d \in object
=============================================================================
