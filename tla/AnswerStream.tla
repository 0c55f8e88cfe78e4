---------------------------- MODULE AnswerStream ----------------------------
(***************************************************************************)
(* What the clients of POST /chat are promised of the events of an answer: *)
(* metadata first and once, then tokens, then done or error, once, and     *)
(* nothing after it.  An error may come at any point before; done only     *)
(* when the answer is complete.  The connection may break at any point.    *)
(***************************************************************************)
EXTENDS Sequences, Naturals

CONSTANT Asker  \* the requests

VARIABLES
  events,    \* what has been sent in answer to each
  complete   \* the source of the answer has come to its proper end

answerVars == <<events, complete>>

Ended(s) == events[s] # <<>> /\ events[s][Len(events[s])] \in {"done", "error"}

Sends(s, event) == events' = [events EXCEPT ![s] = Append(@, event)]

Init ==
  /\ events = [s \in Asker |-> <<>>]
  /\ complete = [s \in Asker |-> FALSE]

(* The answer may be known in full from the start, or with a last token.   *)
Completes(s) == complete' \in {complete, [complete EXCEPT ![s] = TRUE]}

Opens(s)     == events[s] = <<>> /\ Sends(s, "metadata") /\ Completes(s)

Streams(s)   == events[s] # <<>> /\ ~Ended(s) /\ Sends(s, "token") /\ Completes(s)

EndsQuietly(s) == events[s] # <<>> /\ ~Ended(s) /\ Completes(s) /\ UNCHANGED events

SendsDone(s) ==
  /\ events[s] # <<>> /\ ~Ended(s) /\ complete[s]
  /\ Sends(s, "done") /\ UNCHANGED complete

SendsError(s) ==
  /\ ~Ended(s) /\ ~complete[s]
  /\ Sends(s, "error") /\ UNCHANGED complete

Next ==
  \E s \in Asker :
    Opens(s) \/ Streams(s) \/ EndsQuietly(s) \/ SendsDone(s) \/ SendsError(s)

Spec == Init /\ [][Next]_answerVars
=============================================================================
