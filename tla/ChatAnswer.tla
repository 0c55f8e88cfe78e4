----------------------------- MODULE ChatAnswer -----------------------------
(***************************************************************************)
(* POST /chat: RuleBasedRagDecider, RagOrchestrator (behind                *)
(* CustomRagEngine; LangChainRagEngine makes the same calls),              *)
(* RetrievalService, OllamaLLMProvider.stream_generate() and               *)
(* _stream_chat_events().                                                  *)
(***************************************************************************)
EXTENDS ProviderClients

CONSTANTS
  Asker,      \* requests of POST /chat
  Question,   \* what decide() tells apart: [words, extraction, retrieval]
  Active,     \* the collection of the active configuration
  MaxTokens   \* bound on the chunks of one completion

ASSUME ChatAssumption ==
  /\ Asker \subseteq Session
  /\ Asker \cap (Indexer \cup Eraser \cup Saver \cup Remover \cup Prober) = {}
  /\ Question \subseteq [words : {"few", "some"}, extraction : BOOLEAN, retrieval : BOOLEAN]
  /\ Active \in Collection

VARIABLES
  question,   \* of each request
  events,     \* the server-sent events of its answer
  asked,      \* services it has called: "embedding", "search", "llm"
  found,      \* documents among the results that RetrievalService returned
  complete    \* the answer is a fixed text, or the LLM has said done

chatVars == <<question, events, asked, found, complete>>

(* The question of a request that is not made.                             *)
NoQuestion == [words |-> "few", extraction |-> FALSE, retrieval |-> FALSE]

AskerStep ==
  {"idle", "deciding", "query_embedding", "searching", "building", "fixed",
   "connecting", "generating", "closed"}

Send(s, event) == events' = [events EXCEPT ![s] = Append(@, event)]

AskerGoes(s, step) == Goes(s, step) /\ UNCHANGED <<world, wire, late, embedded>>

(* A call counts when it is made, answered or not.                         *)
Calls(s, service) == asked' = [asked EXCEPT ![s] = @ \cup {service}]

---------------------------------------------------------------------------
(* Mutant: the patterns for documents are tried first.                     *)
DecideRetrievalFirst(q) ==
  CASE q.words = "few" -> "clarification_needed"
    [] q.words = "some" /\ q.retrieval -> "needs_retrieval"
    [] q.words = "some" /\ ~q.retrieval /\ q.extraction -> "out_of_scope"
    [] OTHER -> "direct_llm"

(* RuleBasedRagDecider.decide(): length, then extraction intent, then      *)
(* references to documents.                                                *)
Decide(q) ==
  CASE q.words = "few" -> "clarification_needed"
    [] q.words = "some" /\ q.extraction -> "out_of_scope"
    [] q.words = "some" /\ ~q.extraction /\ q.retrieval -> "needs_retrieval"
    [] OTHER -> "direct_llm"

BeginAnswer(s) ==
  /\ at[s] = "idle" /\ job[s].document # None
  /\ AskerGoes(s, "deciding")
  /\ UNCHANGED chatVars

(* stream_answer() up to its first await or event: a fixed text is all of  *)
(* the answer, or the question is embedded for retrieval, or the model is  *)
(* asked directly.                                                         *)
AnswerFixed(s) ==
  /\ Decide(question[s]) \in {"clarification_needed", "out_of_scope"}
  /\ Send(s, "metadata")
  /\ complete' = [complete EXCEPT ![s] = TRUE]
  /\ AskerGoes(s, "fixed")
  /\ UNCHANGED asked

RetrieveFirst(s) ==
  /\ Decide(question[s]) = "needs_retrieval"
  /\ AskerGoes(s, "query_embedding")
  /\ Calls(s, "embedding")
  /\ UNCHANGED <<events, complete>>

AskDirectly(s) ==
  /\ Decide(question[s]) = "direct_llm"
  /\ Send(s, "metadata")
  /\ AskerGoes(s, "connecting")
  /\ Calls(s, "llm")
  /\ UNCHANGED complete

DecideRoute(s) ==
  /\ at[s] = "deciding"
  /\ AnswerFixed(s) \/ RetrieveFirst(s) \/ AskDirectly(s)
  /\ UNCHANGED <<question, found>>

(* RetrievalService.retrieve(): the question is embedded, a vector of the  *)
(* wrong size being an error, ...                                          *)
EmbedQuery(s) ==
  /\ at[s] = "query_embedding"
  /\ AskerGoes(s, "searching")
  /\ Calls(s, "search")
  /\ UNCHANGED <<question, events, found, complete>>

(* ... and the active collection searched; the limit and the threshold on  *)
(* the score may leave out any of the documents.                           *)
SearchActive(s) ==
  /\ at[s] = "searching"
  /\ size[Active] # "absent"
  /\ \E results \in SUBSET {d \in Document : <<Active, d>> \in points} :
       found' = [found EXCEPT ![s] = results]
  /\ AskerGoes(s, "building")
  /\ UNCHANGED <<question, events, asked, complete>>

(* Mutant: the model is asked although nothing was found.                  *)
BuildAnyPrompt(s) ==
  /\ at[s] = "building"
  /\ Send(s, "metadata")
  /\ AskerGoes(s, "connecting")
  /\ Calls(s, "llm")
  /\ UNCHANGED <<question, found, complete>>

(* RagPromptBuilder.build(): without sources a fixed text is the answer.   *)
BuildPrompt(s) ==
  /\ at[s] = "building"
  /\ Send(s, "metadata")
  /\ AskerGoes(s, IF found[s] = {} THEN "fixed" ELSE "connecting")
  /\ complete' = [complete EXCEPT ![s] = (found[s] = {})]
  /\ IF found[s] = {} THEN UNCHANGED asked ELSE Calls(s, "llm")
  /\ UNCHANGED <<question, found>>

(* A fixed answer is one token.                                            *)
SendFixed(s) ==
  /\ at[s] = "fixed"
  /\ Send(s, "token")
  /\ AskerGoes(s, "generating")
  /\ UNCHANGED <<question, asked, found, complete>>

---------------------------------------------------------------------------
(* OllamaLLMProvider.stream_generate(): one request, never repeated.       *)
Connect(s) ==
  /\ at[s] = "connecting"
  /\ AskerGoes(s, "generating")
  /\ UNCHANGED chatVars

(* A line with text, the last one if it says done; a line may have none.   *)
StreamLine(s) ==
  /\ at[s] = "generating" /\ ~complete[s]
  /\ \/ /\ Len(events[s]) <= MaxTokens
        /\ Send(s, "token")
        /\ complete' \in {complete, [complete EXCEPT ![s] = TRUE]}
     \/ /\ complete' = [complete EXCEPT ![s] = TRUE]
        /\ UNCHANGED events
  /\ AskerGoes(s, "generating")
  /\ UNCHANGED <<question, asked, found>>

(* Mutant: a stream that stops without done counts as an answer.           *)
EndAnyStream(s) ==
  /\ at[s] = "generating"
  /\ Send(s, "done")
  /\ AskerGoes(s, "closed")
  /\ UNCHANGED <<question, asked, found, complete>>

(* The generator is exhausted: after the fixed text, or the line with done.*)
EndStream(s) ==
  /\ at[s] = "generating" /\ complete[s]
  /\ Send(s, "done")
  /\ AskerGoes(s, "closed")
  /\ UNCHANGED <<question, asked, found, complete>>

(* _stream_chat_events(): whatever is raised becomes one error event.  A   *)
(* malformed line, a broken connection and a stream without done raise.    *)
FailAnswer(s) ==
  /\ at[s] \in {"query_embedding", "searching", "connecting", "generating"}
  /\ ~complete[s]
  /\ Send(s, "error")
  /\ AskerGoes(s, "closed")
  /\ UNCHANGED <<question, asked, found, complete>>

(* Embedding and search go through retry_async(); exhausted, they raise.   *)
RetryQuery(s) ==
  /\ at[s] \in {"query_embedding", "searching"}
  /\ attempt[s] + 1 < MaxAttempts
  /\ RetriesOrRaises(s)
  /\ UNCHANGED <<world, wire, late, embedded, chatVars>>

(* The client is gone: the generator is cancelled.                         *)
Disconnect(s) ==
  /\ at[s] \notin {"idle", "closed"}
  /\ AskerGoes(s, "closed")
  /\ UNCHANGED chatVars

AskerProceeds(s) ==
  \/ DecideRoute(s) \/ EmbedQuery(s) \/ SearchActive(s) \/ BuildPrompt(s) \/ SendFixed(s)
  \/ Connect(s) \/ StreamLine(s) \/ EndStream(s) \/ FailAnswer(s) \/ RetryQuery(s)
  \/ Disconnect(s)

---------------------------------------------------------------------------
vars == <<callVars, text, embedded, chatVars>>

Init ==
  /\ ClientInit
  /\ question \in {f \in [Asker -> Question \cup {NoQuestion}] :
                      \A s \in Asker : f[s] = NoQuestion <=> job[s].document = None}
  /\ events = [s \in Asker |-> <<>>]
  /\ asked = [s \in Asker |-> {}]
  /\ found = [s \in Asker |-> {}]
  /\ complete = [s \in Asker |-> FALSE]

Next ==
  /\ \/ ClientSteps /\ UNCHANGED chatVars
     \/ \E s \in Asker : BeginAnswer(s) \/ AskerProceeds(s)
  /\ UNCHANGED text

Spec == Init /\ [][Next]_vars

FairSpec ==
  /\ Spec
  /\ \A s \in Session \ Asker : WF_vars(Proceeds(s) /\ UNCHANGED <<text, chatVars>>)
  /\ \A s \in Asker : WF_vars(AskerProceeds(s) /\ UNCHANGED text)

TypeOK ==
  /\ at \in [Session -> ClientStep \cup AskerStep]
  /\ attempt \in [Session -> 0..(MaxAttempts - 1)]
  /\ job \in [Session -> Job]
  /\ size \in [Collection -> Size]
  /\ points \subseteq Collection \X Document
  /\ bucket \in BOOLEAN
  /\ object \subseteq Document
  /\ wire \subseteq Request /\ late \subseteq Request
  /\ embedded \in [Indexer -> Nat]
  /\ question \in [Asker -> Question \cup {NoQuestion}]
  /\ events \in [Asker -> Seq({"metadata", "token", "done", "error"})]
  /\ asked \in [Asker -> SUBSET {"embedding", "search", "llm"}]
  /\ found \in [Asker -> SUBSET Document]
  /\ complete \in [Asker -> BOOLEAN]

(* Every answer keeps the contract of the event stream.                    *)
Contract == INSTANCE AnswerStream WITH Asker <- Asker, events <- events, complete <- complete

KeepsContract == Contract!Spec

(* A question that asks for secrets, or for nothing, leaves the process in *)
(* no form: neither Ollama nor Qdrant see it, even if it names documents.  *)
RefusedStaysLocal ==
  \A s \in Asker :
    question[s].words # "some" \/ question[s].extraction => asked[s] = {}

(* The model answers a question about documents only from what was found.  *)
AnswersAreGrounded ==
  \A s \in Asker :
    "llm" \in asked[s] /\ question[s].retrieval => found[s] # {}

(* Every call, probe and answer comes to an end, however the services fail.*)
EverythingReturns ==
  \A s \in Session : at[s] # "idle" ~> at[s] \in Over \cup {"closed"}
=============================================================================
