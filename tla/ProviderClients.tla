-------------------------- MODULE ProviderClients --------------------------
(***************************************************************************)
(* The workers and requests behind ProviderCalls, call by call: indexing a *)
(* document into a collection, erasing it from one, saving and removing    *)
(* the original, and the readiness probe, which creates the bucket.        *)
(***************************************************************************)
EXTENDS ProviderCalls, Chunking

CONSTANTS
  Indexer,            \* _default_process_document() / build_reindex_target()
  Eraser,             \* delete_by_document_id()
  Saver, Remover,     \* FileStorage.save() and FileStorage.delete()
  Prober,             \* GET /health/ready
  CreateIfMissing,    \* settings.minio_create_bucket_if_missing
  Scenario            \* the sessions that take part together, the texts of the
                      \* documents and the vector sizes of the collections

ASSUME ClientsAssumption ==
  /\ Indexer \cup Eraser \cup Saver \cup Remover \cup Prober \subseteq Session
  /\ Indexer \cap Eraser = {} /\ (Indexer \cup Eraser) \cap (Saver \cup Remover) = {}
  /\ Saver \cap Remover = {} /\ (Indexer \cup Eraser \cup Saver \cup Remover) \cap Prober = {}
  /\ CreateIfMissing \in BOOLEAN
  /\ \A scenario \in Scenario :
       scenario.sizes \subseteq Size /\ scenario.texts \subseteq Seq(Seq(Nat))

VARIABLE embedded     \* chunks an indexer has embedded

ClientStep ==
  {"idle", "reading", "embedding", "sizing", "probing", "creating", "upserting",
   "erase_sizing", "erasing", "saving", "removing",
   "bucket_checking", "bucket_creating", "gathering"} \cup Over

(* The calls that write, with what they ask of the server.                 *)
Writes ==
  {<<"creating", "create">>, <<"upserting", "upsert">>, <<"erasing", "delete">>,
   <<"saving", "put">>, <<"removing", "remove">>, <<"bucket_creating", "make_bucket">>}

---------------------------------------------------------------------------
(* A document is indexed and erased one after the other: the job tables    *)
(* admit no deletion while a job writes, and no job after it.              *)

Work(s) == <<job[s].collection, job[s].document>>

BeginIndexing(s) ==
  /\ at[s] = "idle"
  /\ \A e \in Eraser : Work(e) = Work(s) => at[e] = "idle"
  /\ embedded' = [embedded EXCEPT ![s] = 0]
  /\ Answers(s, "reading")

(* DocumentTextExtractor.extract(): the object is read; a missing one, or  *)
(* one without text, is an error.                                          *)
ReadOriginal(s) ==
  /\ at[s] = "reading"
  /\ Answers(s, IF /\ bucket /\ job[s].document \in object
                   /\ Extractable(text[job[s].document])
                  THEN "embedding" ELSE "raised")
  /\ UNCHANGED embedded

(* embed_texts(): one call for each chunk, each with attempts of its own;  *)
(* validate_embeddings() then wants a vector of the right size for each.   *)
EmbedChunk(s) ==
  /\ at[s] = "embedding"
  /\ embedded[s] < Len(Chunks(text[job[s].document]))
  /\ embedded' = [embedded EXCEPT ![s] = @ + 1]
  /\ Answers(s, "embedding")

ValidateEmbeddings(s) ==
  /\ at[s] = "embedding"
  /\ embedded[s] = Len(Chunks(text[job[s].document]))
  /\ Answers(s, "sizing") \/ Answers(s, "raised")
  /\ UNCHANGED embedded

(* ensure_active_collection(): a collection of another size is an error.   *)
CheckDimension(s) ==
  /\ at[s] = "sizing"
  /\ Answers(s, IF size[job[s].collection] = "wrong" THEN "raised" ELSE "probing")
  /\ UNCHANGED embedded

(* create_collection_if_not_exists(): GET; only 200 counts as existing, so *)
(* any other final status leads on to the PUT as well.                     *)
ProbeCollection(s) ==
  /\ at[s] = "probing"
  /\ \/ Answers(s, IF size[job[s].collection] = "absent" THEN "creating" ELSE "upserting")
     \/ Answers(s, "creating")
  /\ UNCHANGED embedded

(* The PUT is answered with an error when the collection exists by then.   *)
CreateCollection(s) ==
  /\ at[s] = "creating"
  /\ IF size[job[s].collection] = "absent"
       THEN Serves(s, RequestOf(s, "create"), "upserting")
       ELSE Refused(s)
  /\ UNCHANGED embedded

(* Mutant: a call that timed out is taken for an indexed document.         *)
UpsertUnlessSlow(s) ==
  /\ at[s] = "upserting"
  /\ \/ Serves(s, RequestOf(s, "upsert"), "returned")
     \/ Answers(s, "returned")
  /\ UNCHANGED embedded

UpsertPoints(s) ==
  /\ at[s] = "upserting"
  /\ IF size[job[s].collection] = "right"
       THEN Serves(s, RequestOf(s, "upsert"), "returned")
       ELSE Refused(s)
  /\ UNCHANGED embedded

IndexerStep(s) ==
  \/ ReadOriginal(s) \/ EmbedChunk(s) \/ ValidateEmbeddings(s) \/ CheckDimension(s)
  \/ ProbeCollection(s) \/ CreateCollection(s) \/ UpsertPoints(s)

---------------------------------------------------------------------------
BeginErasing(s) ==
  /\ at[s] = "idle"
  /\ \A i \in Indexer : Work(i) = Work(s) => at[i] \in Over
  /\ Answers(s, "erase_sizing")
  /\ UNCHANGED embedded

(* Mutant: a call that timed out is taken for an erased document.          *)
EraseUnlessSlow(s) ==
  /\ at[s] = "erasing"
  /\ \/ Serves(s, RequestOf(s, "delete"), "returned")
     \/ Answers(s, "returned")
  /\ UNCHANGED embedded

(* delete_by_document_id(): nothing to do in a collection that is absent.  *)
FindErasable(s) ==
  /\ at[s] = "erase_sizing"
  /\ Answers(s, IF size[job[s].collection] = "absent" THEN "returned" ELSE "erasing")
  /\ UNCHANGED embedded

ErasePoints(s) ==
  /\ at[s] = "erasing"
  /\ Serves(s, RequestOf(s, "delete"), "returned")
  /\ UNCHANGED embedded

---------------------------------------------------------------------------
(* MinioFileStorage.save() and .delete().  A bucket that does not exist is *)
(* an error for both; a missing object is none.                            *)
BeginSaving(s) ==
  /\ at[s] = "idle"
  /\ \A r \in Remover : job[r].document = job[s].document => at[r] = "idle"
  /\ Answers(s, "saving")
  /\ UNCHANGED embedded

BeginRemoving(s) ==
  /\ at[s] = "idle"
  /\ \A k \in Saver : job[k].document = job[s].document => at[k] \in Over
  /\ Answers(s, "removing")
  /\ UNCHANGED embedded

SaveObject(s) ==
  /\ at[s] = "saving"
  /\ IF bucket THEN Serves(s, RequestOf(s, "put"), "returned") ELSE Refused(s)
  /\ UNCHANGED embedded

RemoveObject(s) ==
  /\ at[s] = "removing"
  /\ IF bucket THEN Serves(s, RequestOf(s, "remove"), "returned") ELSE Refused(s)
  /\ UNCHANGED embedded

---------------------------------------------------------------------------
(* check_file_storage() of a readiness probe: MinioFileStorage.ensure_     *)
(* bucket(); the checks of Postgres, Qdrant and Ollama run beside it.      *)
BeginProbe(s) ==
  /\ at[s] = "idle"
  /\ Answers(s, "bucket_checking")
  /\ UNCHANGED embedded

(* Mutant: the bucket need not be created for the probe to succeed.        *)
CheckBucketOnly(s) ==
  /\ at[s] = "bucket_checking"
  /\ Answers(s, "gathering")
  /\ UNCHANGED embedded

CheckBucket(s) ==
  /\ at[s] = "bucket_checking"
  /\ Answers(s, IF bucket THEN "gathering" ELSE
                IF CreateIfMissing THEN "bucket_creating" ELSE "raised")
  /\ UNCHANGED embedded

(* BucketAlreadyOwnedByYou and BucketAlreadyExists count as success.       *)
MakeBucket(s) ==
  /\ at[s] = "bucket_creating"
  /\ Serves(s, RequestOf(s, "make_bucket"), "gathering")
  /\ UNCHANGED embedded

(* The check's own timeout gives up on a call whose thread goes on.        *)
ProbeGivesUp(s) ==
  /\ at[s] \in {"bucket_checking", "bucket_creating"}
  /\ Goes(s, "raised")
  /\ wire' = IF at[s] = "bucket_creating" THEN wire \cup {RequestOf(s, "make_bucket")} ELSE wire
  /\ UNCHANGED <<world, late, embedded>>

(* run_all_checks(), build_readiness_result(): any required check that has *)
(* failed makes it 503.                                                    *)
BuildReadiness(s) ==
  /\ at[s] = "gathering"
  /\ Answers(s, "returned") \/ Answers(s, "raised")
  /\ UNCHANGED embedded

ProberStep(s) == CheckBucket(s) \/ MakeBucket(s) \/ ProbeGivesUp(s) \/ BuildReadiness(s)

---------------------------------------------------------------------------
(* A failing call of any of them.                                          *)
CallFails(s) ==
  /\ \/ at[s] \in {"reading", "sizing", "erase_sizing", "bucket_checking"} /\ ReadFails(s)
     \/ /\ at[s] = "embedding" /\ embedded[s] < Len(Chunks(text[job[s].document]))
        /\ ReadFails(s)
     \/ at[s] = "probing" /\ Unavailable(s)
     \/ \E write \in Writes : at[s] = write[1] /\ WriteFails(s, write[2])
  /\ UNCHANGED embedded

ClientInit ==
  /\ at = [s \in Session |-> "idle"]
  /\ attempt = [s \in Session |-> 0]
  /\ \E scenario \in Scenario :
       /\ job \in {f \in [Session -> Job] :
                    \A s \in Session : f[s].document = None <=> s \notin scenario.sessions}
       /\ text \in [Document -> scenario.texts]
       /\ size \in [Collection -> scenario.sizes]
  /\ points = {}
  /\ bucket \in BOOLEAN
  /\ object \in SUBSET Document /\ (object # {} => bucket)
  /\ wire = {} /\ late = {}
  /\ embedded = [s \in Indexer |-> 0]

Begins(s) ==
  /\ job[s].document # None
  /\ \/ s \in Indexer /\ BeginIndexing(s)
     \/ s \in Eraser /\ BeginErasing(s)
     \/ s \in Saver /\ BeginSaving(s)
     \/ s \in Remover /\ BeginRemoving(s)
     \/ s \in Prober /\ BeginProbe(s)

Proceeds(s) ==
  \/ s \in Indexer /\ IndexerStep(s)
  \/ s \in Eraser /\ (FindErasable(s) \/ ErasePoints(s))
  \/ s \in Saver /\ SaveObject(s)
  \/ s \in Remover /\ RemoveObject(s)
  \/ s \in Prober /\ ProberStep(s)
  \/ CallFails(s)

ClientSteps == (\E s \in Session : Begins(s) \/ Proceeds(s)) \/ (DeliverLate /\ UNCHANGED embedded)

---------------------------------------------------------------------------
(* A write that returned has been made, whatever was repeated, was served  *)
(* late or raced for the collection or the bucket, and lasts until its     *)
(* erasure begins.                                                         *)
WritesLast ==
  /\ \A s \in Indexer :
       at[s] = "returned" /\ (\A e \in Eraser : Work(e) = Work(s) => at[e] = "idle")
         => Work(s) \in points
  /\ \A s \in Saver :
       at[s] = "returned" /\ (\A r \in Remover : job[r].document = job[s].document => at[r] = "idle")
         => job[s].document \in object

(* An erasure that returned lasts, unless a write that had timed out was   *)
(* served after all.                                                       *)
ErasuresLast ==
  /\ \A s \in Eraser :
       at[s] = "returned" /\ Work(s) \in points =>
         \E q \in late : q.op = "upsert" /\ <<q.collection, q.document>> = Work(s)
  /\ \A s \in Remover :
       at[s] = "returned" /\ job[s].document \in object =>
         \E q \in late : q.op = "put" /\ q.document = job[s].document

(* A ready platform has its bucket, with probes racing to create it.       *)
ReadyMeansBucket == \A s \in Prober : at[s] = "returned" => bucket
=============================================================================
