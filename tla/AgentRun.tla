------------------------------- MODULE AgentRun -------------------------------
(***************************************************************************)
(* One conversation's messages, one after the other: Agent.Run with its    *)
(* tool-use loop, Agent.stream with its single retry and Agent.callTool    *)
(* (internal/agent/agent.go), classifyModelError (internal/agent/          *)
(* limits.go), and what the server's handleChat does with the outcome.     *)
(*                                                                         *)
(* The model and the tools may do anything their protocols allow. Texts,   *)
(* tool inputs and tool results are left out: a history is a sequence of   *)
(* turns, of which an assistant's carries the number of its tool calls and *)
(* a result turn the number of calls it answers.                           *)
(***************************************************************************)
EXTENDS Naturals, Sequences, SequencesExt, FiniteSetsExt

CONSTANTS
  MaxTurns,     \* MAX_TURNS
  MaxMessages,  \* bound: messages of the conversation
  MaxText,      \* bound: text deltas in one response
  MaxTools,     \* bound: tool calls in one response
  CutsToolUse   \* TRUE: a response may stop for another reason than tool_use
                \* (such as max_tokens) and still hold tool calls

ASSUME RunAssumption ==
  /\ {MaxTurns, MaxMessages, MaxText, MaxTools} \subseteq Nat
  /\ CutsToolUse \in BOOLEAN

VARIABLES
  pc,         \* "idle", "turn", "calling", "backoff", "tools", "inTool"
  asked,      \* messages so far
  kept,       \* sess.History
  history,    \* Run's history
  turn,       \* turn of the loop
  attempt,    \* attempt of stream
  emitted,    \* text of this attempt has reached the user
  todo,       \* tool calls of this turn still to be made
  completed,  \* the loop ended because the model was done
  expired,    \* the context's deadline has passed
  events,     \* what this message's client has been sent
  calls       \* model calls made for this message (history variable)

runVars  == <<history, turn, completed>>
callVars == <<attempt, emitted, calls>>
vars == <<pc, asked, kept, runVars, callVars, todo, expired, events>>

User == [role |-> "user", n |-> 0]
Assistant(n) == [role |-> "assistant", n |-> n]
Results(n) == [role |-> "results", n |-> n]
Turns == [role : {"user", "assistant", "results"}, n : 0..MaxTools]

\* A token event carries where its text came from.
Event == [type : {"token", "start", "finish", "done", "error"},
          turn : 0..MaxTurns, attempt : 0..1]
Sent(type) == [type |-> type, turn |-> turn, attempt |-> attempt]

TypeOK ==
  /\ pc \in {"idle", "turn", "calling", "backoff", "tools", "inTool"}
  /\ asked \in 0..MaxMessages
  /\ kept \in Seq(Turns) /\ history \in Seq(Turns)
  /\ turn \in 0..MaxTurns /\ attempt \in 0..1
  /\ emitted \in BOOLEAN /\ completed \in BOOLEAN /\ expired \in BOOLEAN
  /\ todo \in 0..MaxTools
  /\ events \in Seq(Event)
  /\ calls \in Nat

Init ==
  /\ pc = "idle" /\ asked = 0
  /\ kept = <<>> /\ history = <<>>
  /\ turn = 0 /\ attempt = 0 /\ todo = 0
  /\ emitted = FALSE /\ completed = FALSE /\ expired = FALSE
  /\ events = <<>> /\ calls = 0

-----------------------------------------------------------------------------
(* The Messages API *)

\* It refuses a conversation in which a tool call has no result.
Accepts(h) ==
  \A i \in 1..Len(h) : h[i].role = "assistant" /\ h[i].n > 0 =>
    /\ i < Len(h)
    /\ h[i + 1] = Results(h[i].n)

-----------------------------------------------------------------------------
(* Run *)

\* handleChat hands the message and the session's history to Run.
Ask ==
  /\ pc = "idle" /\ asked < MaxMessages
  /\ pc' = "turn" /\ asked' = asked + 1
  /\ history' = Append(kept, User)
  /\ turn' = 0 /\ completed' = FALSE /\ expired' = FALSE
  /\ events' = <<>> /\ calls' = 0
  /\ UNCHANGED <<kept, attempt, emitted, todo>>

\* The context of the message ends: its timeout passes, or its caller hangs up.
Deadline ==
  /\ pc # "idle" /\ ~expired
  /\ expired' = TRUE
  /\ UNCHANGED <<pc, asked, kept, runVars, callVars, todo, events>>

\* Seeded bug: the model and the tools are called without the message's context.
NeverCutOff == FALSE

\* Whether a call in progress is cut off: each is made with that context.
CutOff == expired

\* stream sends the request.
NewStream(n) ==
  /\ pc' = "calling" /\ attempt' = n
  /\ emitted' = FALSE /\ calls' = calls + 1
  /\ UNCHANGED <<asked, kept, runVars, todo, expired, events>>

\* The next turn of the loop.
BeginTurn ==
  /\ pc = "turn" /\ turn < MaxTurns /\ ~completed
  /\ NewStream(0)

\* The loop is over: an error event if it hit the cap, and the done event;
\* handleChat stores the history.
Finish ==
  /\ pc = "turn" /\ (turn = MaxTurns \/ completed)
  /\ events' = events \o (IF completed THEN <<>> ELSE <<Sent("error")>>)
                      \o <<Sent("done")>>
  /\ kept' = history
  /\ pc' = "idle"
  /\ UNCHANGED <<asked, runVars, callVars, todo, expired>>

\* Seeded bug: handleChat stores what Run returned with its error.
KeptAnyway == history

KeptAfterFailure == kept

\* Run fails: handleChat sends an error event and drops the history.
Abort ==
  /\ events' = Append(events, Sent("error"))
  /\ kept' = KeptAfterFailure
  /\ pc' = "idle"
  /\ UNCHANGED <<asked, runVars, callVars, todo, expired>>

-----------------------------------------------------------------------------
(* stream *)

\* A text delta goes straight to the user.
Delta ==
  /\ pc = "calling" /\ Accepts(history)
  /\ Cardinality({i \in 1..Len(events) : events[i] = Sent("token")}) < MaxText
  /\ events' = Append(events, Sent("token"))
  /\ emitted' = TRUE
  /\ UNCHANGED <<pc, asked, kept, runVars, attempt, calls, todo, expired>>

\* The response is complete, with n tool calls. Only the stop reason tool_use
\* makes Run go on with them.
Reply(n, toolUse) ==
  /\ pc = "calling" /\ Accepts(history)
  /\ toolUse => n > 0
  /\ n > 0 => toolUse \/ CutsToolUse
  /\ history' = Append(history, Assistant(n))
  /\ IF toolUse THEN pc' = "tools" /\ todo' = n /\ UNCHANGED completed
                ELSE pc' = "turn" /\ completed' = TRUE /\ UNCHANGED todo
  /\ UNCHANGED <<asked, kept, turn, callVars, expired, events>>

\* The ways a call may fail: a 429, a 5xx, a transport error, another status or
\* a stream that cannot be read, or the context's deadline. A history it
\* refuses is always a 400.
Failures ==
  (IF Accepts(history) THEN {"busy", "server", "transport", "client"} ELSE {"client"})
    \cup (IF CutOff THEN {"deadline"} ELSE {})

\* classifyModelError: worth one immediate retry.
Retryable(kind) == kind \in {"server", "transport"}

\* Seeded bug: text that has reached the user does not stop the retry.
RetriesAnyway(kind) == Retryable(kind) /\ attempt = 0

\* Seeded bug: any number of retries.
RetriesForever(kind) == Retryable(kind) /\ ~emitted

\* stream's own condition for that retry.
Retries(kind) == Retryable(kind) /\ ~emitted /\ attempt = 0

\* The call fails and is retried after a second.
FailAndRetry(kind) ==
  /\ pc = "calling" /\ kind \in Failures
  /\ Retries(kind)
  /\ pc' = "backoff"
  /\ UNCHANGED <<asked, kept, runVars, callVars, todo, expired, events>>

\* It fails for good, as a BusyError or another one.
FailForGood(kind) ==
  /\ pc = "calling" /\ kind \in Failures
  /\ ~Retries(kind)
  /\ Abort

\* The second is over, or the deadline cuts it short.
Retry ==
  /\ pc = "backoff"
  /\ NewStream(attempt + 1)
GiveUp ==
  /\ pc = "backoff" /\ expired
  /\ Abort

-----------------------------------------------------------------------------
(* The tool calls of a turn *)

StartTool ==
  /\ pc = "tools" /\ todo > 0
  /\ events' = Append(events, Sent("start"))
  /\ pc' = "inTool"
  /\ UNCHANGED <<asked, kept, runVars, callVars, todo, expired>>

\* Seeded bug: a tool call that fails does not report its end.
ToolEndedQuietly(failed) == IF failed THEN events ELSE Append(events, Sent("finish"))

ToolEnded(failed) == Append(events, Sent("finish"))

\* callTool returns: an input that cannot be decoded, and whatever goes wrong in
\* the MCP client, has become a result.
FinishTool(failed) ==
  /\ pc = "inTool"
  /\ events' = ToolEnded(failed)
  /\ todo' = todo - 1
  /\ pc' = "tools"
  /\ UNCHANGED <<asked, kept, runVars, callVars, expired>>

\* Seeded bug: results are appended to the history as one turn per call.
ResultTurnsSplit(n) == [i \in 1..n |-> Results(1)]

ResultTurns(n) == <<Results(n)>>

\* All results go back in one turn.
EndTools ==
  /\ pc = "tools" /\ todo = 0
  /\ history' = history \o ResultTurns(Last(history).n)
  /\ turn' = turn + 1
  /\ pc' = "turn"
  /\ UNCHANGED <<asked, kept, completed, callVars, todo, expired, events>>

Next ==
  \/ Ask \/ Deadline \/ BeginTurn \/ Finish \/ Delta
  \/ \E n \in 0..MaxTools, toolUse \in BOOLEAN : Reply(n, toolUse)
  \/ \E kind \in Failures : FailAndRetry(kind) \/ FailForGood(kind)
  \/ Retry \/ GiveUp
  \/ StartTool \/ (\E failed \in BOOLEAN : FinishTool(failed)) \/ EndTools

Spec == Init /\ [][Next]_vars

\* The handler's goroutine runs on, timers fire, and a call whose context is
\* over returns. Neither the model nor a tool need ever answer.
Fairness ==
  /\ WF_vars(Deadline)
  /\ WF_vars(BeginTurn \/ Finish \/ StartTool \/ EndTools)
  /\ WF_vars(Retry \/ GiveUp)
  /\ WF_vars(FailForGood("deadline"))
  /\ WF_vars(CutOff /\ FinishTool(TRUE))

FairSpec == Spec /\ Fairness

-----------------------------------------------------------------------------
(* Properties *)

\* The user never reads the beginning of an answer twice: in each turn of the
\* loop, all text that was shown comes from one attempt. The retry decides
\* with a flag that stream resets for each attempt.
NoRepeatedText ==
  \A i, j \in 1..Len(events) :
    (events[i].type = "token" /\ events[j].type = "token"
       /\ events[i].turn = events[j].turn)
      => events[i].attempt = events[j].attempt

\* What a client of the event stream can rely on whatever fails: a tool's
\* start is followed at once by its end, unless that tool is still running;
\* nothing follows done; only done follows an error; and the stream of a
\* message that is over ends with one of the two.
EventProtocol ==
  LET n == Len(events) IN
  /\ \A i \in 1..n :
       CASE events[i].type = "start" ->
              IF i = n THEN pc = "inTool" ELSE events[i + 1].type = "finish"
         [] events[i].type = "done" -> i = n
         [] events[i].type = "error" -> i = n \/ events[i + 1].type = "done"
         [] OTHER -> TRUE
  /\ (pc = "idle" /\ asked > 0) => n > 0 /\ events[n].type \in {"done", "error"}

\* No history that Run builds, and none that the server has kept from earlier
\* messages, however they ended, is refused by the API: each request answers
\* every tool call it contains. Were it refused, the session would be stuck,
\* since every later message re-sends the same history.
RequestsAccepted == pc = "calling" => Accepts(history)

\* One message costs at most two model calls per turn, whatever fails.
ModelCallsBounded == calls <= 2 * MaxTurns

\* The last event tells the client what the session remembers: after done the
\* exchange follows whatever the history was, and after an error nothing has
\* changed and the message can be sent again, however far its turns, tool
\* calls and retries had come.
LastEventTells ==
  [][(pc # "idle" /\ pc' = "idle") =>
       IF Last(events').type = "done" THEN IsStrictPrefix(Append(kept, User), kept')
                                      ELSE kept' = kept]_vars

\* Each message ends, and with it the lock on its session, although the model
\* and the tools may hang: REQUEST_TIMEOUT cuts off whatever call is in
\* progress and no retry follows it.
EndsByDeadline == pc # "idle" ~> pc = "idle"
==============================================================================
