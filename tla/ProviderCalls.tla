--------------------------- MODULE ProviderCalls ---------------------------
(***************************************************************************)
(* Calls to the external services: Qdrant (collections and points), MinIO  *)
(* (a bucket and its objects), Ollama.  A session makes one call at a time *)
(* and is in the step named after the call.  retry_async() repeats a call  *)
(* after a transient failure; a call that timed out may still be served    *)
(* later, or never.                                                        *)
(***************************************************************************)
EXTENDS Naturals, FiniteSets

CONSTANTS
  Session, Document, Collection,
  None,
  MaxAttempts   \* settings.provider_retry_max_attempts

ASSUME CallsAssumption ==
  /\ MaxAttempts \in Nat \ {0}
  /\ None \notin Document

VARIABLES
  at,       \* the step of each session
  attempt,  \* failed attempts of its current call
  job,      \* the document and the collection it works on, if it takes part
  size,     \* vector size of each Qdrant collection: "absent" if there is none
  points,   \* <<c, d>>: collection c holds the points of document d
  bucket,   \* the MinIO bucket exists
  object,   \* documents whose object is stored
  wire,     \* requests that timed out and may still be served
  late      \* history: those that were served after all

world == <<size, points, bucket, object>>
callVars == <<at, attempt, job, world, wire, late>>

Job == [document : Document \cup {None}, collection : Collection]

Size == {"absent", "right", "wrong"}

Operation == {"create", "upsert", "delete", "make_bucket", "put", "remove"}

Request == [op : Operation, document : Document, collection : Collection]

Over == {"returned", "raised"}

---------------------------------------------------------------------------
(* The servers.                                                            *)

Effect(q) ==
  LET point == <<q.collection, q.document>>
  IN  /\ size' = IF q.op = "create" /\ size[q.collection] = "absent"
                   THEN [size EXCEPT ![q.collection] = "right"] ELSE size
      /\ points' = (points \ {p \in {point} : q.op = "delete"})
                     \cup {p \in {point} : q.op = "upsert" /\ size[q.collection] = "right"}
      /\ bucket' = (bucket \/ q.op = "make_bucket")
      /\ object' = (object \ {d \in {q.document} : q.op = "remove"})
                     \cup {d \in {q.document} : q.op = "put" /\ bucket}

(* The network delivers a request whose sender has given up on it.         *)
DeliverLate ==
  \E q \in wire :
    /\ Effect(q)
    /\ wire' = wire \ {q}
    /\ late' = late \cup {q}
    /\ UNCHANGED <<at, attempt, job>>

---------------------------------------------------------------------------
(* The client side: what becomes of the call a session is in.              *)

(* The call ends and the session goes on to its next step.                 *)
Goes(s, step) ==
  /\ at' = [at EXCEPT ![s] = step]
  /\ attempt' = [attempt EXCEPT ![s] = 0]
  /\ UNCHANGED job

(* Mutant: the count starts again instead of ending the call.              *)
RetriesForEver(s) ==
  /\ attempt' = [attempt EXCEPT ![s] = (@ + 1) % MaxAttempts]
  /\ UNCHANGED <<at, job>>

(* Mutant: the attempts are not limited.                                   *)
RetriesWithoutEnd(s) ==
  /\ attempt' = [attempt EXCEPT ![s] = @ + 1]
  /\ UNCHANGED <<at, job>>

(* retry_async() after a transient failure: again, or the error is raised. *)
RetriesOrRaises(s) ==
  \/ /\ attempt[s] + 1 < MaxAttempts
     /\ attempt' = [attempt EXCEPT ![s] = @ + 1]
     /\ UNCHANGED <<at, job>>
  \/ /\ attempt[s] + 1 = MaxAttempts
     /\ Goes(s, "raised")

(* No connection, 429, 502 to 504, SlowDown, ...: not served.              *)
Unavailable(s) == RetriesOrRaises(s) /\ UNCHANGED <<world, wire, late>>

(* No answer in time: the request is on its way.                           *)
TimesOut(s, request) ==
  /\ RetriesOrRaises(s)
  /\ wire' = wire \cup {request}
  /\ UNCHANGED <<world, late>>

(* Any other status, or an answer that cannot be parsed: not retried.  The *)
(* request may have been served.                                           *)
Refused(s) == Goes(s, "raised") /\ UNCHANGED <<world, wire, late>>

ServedButRefused(s, request) ==
  /\ Goes(s, "raised")
  /\ Effect(request)
  /\ UNCHANGED <<wire, late>>

(* A call that changes nothing is answered from the server's state.        *)
Answers(s, step) == Goes(s, step) /\ UNCHANGED <<world, wire, late>>

Serves(s, request, step) ==
  /\ Goes(s, step)
  /\ Effect(request)
  /\ UNCHANGED <<wire, late>>

RequestOf(s, op) == [op |-> op, document |-> job[s].document, collection |-> job[s].collection]

ReadFails(s) == Unavailable(s) \/ Refused(s)

WriteFails(s, op) ==
  \/ Unavailable(s)
  \/ Refused(s)
  \/ TimesOut(s, RequestOf(s, op))
  \/ ServedButRefused(s, RequestOf(s, op))
=============================================================================
