---------------------------- MODULE AgentRunProofs ----------------------------
(***************************************************************************)
(* Theorems about AgentRun, for any cap on turns, any number of messages   *)
(* of the conversation and of tool calls in a response, and whatever the   *)
(* model, the tools and the deadline do. The type invariant is proved      *)
(* first; each property has an invariant of its own beside it.             *)
(***************************************************************************)
EXTENDS AgentRun, SequenceTheorems, TLAPS

\* Where the loop is tells what its variables may be: it is inside a turn, a
\* retry waits after a first attempt only, and the tool calls are made for the
\* last turn of the history, the assistant's.
Control ==
  /\ pc \in {"calling", "backoff", "tools", "inTool"} => turn < MaxTurns /\ ~completed
  /\ pc = "turn" /\ completed => turn < MaxTurns
  /\ pc = "backoff" => attempt = 0
  /\ pc = "inTool" => todo > 0
  /\ pc \in {"tools", "inTool"} =>
       Len(history) > 0 /\ history[Len(history)].role = "assistant"

Typed == TypeOK /\ Control

\* The calls a message has been charged with, by where it is in a turn.
Charged ==
  /\ calls <= 2 * MaxTurns
  /\ pc = "turn" /\ ~completed => calls <= 2 * turn
  /\ pc = "calling" => calls <= 2 * turn + attempt + 1
  /\ pc = "backoff" => calls <= 2 * turn + 1
  /\ pc \in {"tools", "inTool"} => calls <= 2 * turn + 2

\* The text shown in the current turn comes from the current attempt, of which
\* emitted says so; a turn or an attempt that is still to begin has shown none.
TextOfAttempt ==
  \A i \in 1..Len(events) : events[i].type = "token" =>
    /\ events[i].turn <= turn
    /\ events[i].turn = turn =>
         /\ pc = "calling" => emitted /\ events[i].attempt = attempt
         /\ pc # "backoff"
         /\ pc = "turn" => completed

\* A message that is not over has sent neither error nor done, and a tool that
\* runs has just sent its start.
Open ==
  /\ pc # "idle" =>
       \A i \in 1..Len(events) : events[i].type \notin {"done", "error"}
  /\ pc = "inTool" => Len(events) > 0 /\ events[Len(events)].type = "start"

\* The tool calls of the first k turns have their results.
Answered(h, k) ==
  \A i \in 1..k : h[i].role = "assistant" /\ h[i].n > 0 =>
    /\ i < Len(h)
    /\ h[i + 1] = Results(h[i].n)

\* Only the tool calls that are being made are without results.
AllAnswered ==
  /\ Accepts(kept)
  /\ pc \in {"turn", "calling", "backoff"} => Accepts(history)
  /\ pc \in {"tools", "inTool"} => Answered(history, Len(history) - 1)

\* Run builds on what the session has kept and the new message, and has added
\* a turn to it as soon as one response is complete.
BuildsOnKept ==
  pc # "idle" =>
    /\ Len(history) > Len(kept)
    /\ \A i \in 1..Len(kept) : history[i] = kept[i]
    /\ history[Len(kept) + 1] = User
    /\ (turn > 0 \/ completed \/ pc \in {"tools", "inTool"}) =>
         Len(history) > Len(kept) + 1

-----------------------------------------------------------------------------
(* The type invariant *)

LEMMA Bounds ==
  /\ MaxTurns \in Nat /\ MaxMessages \in Nat /\ MaxTools \in Nat
  BY RunAssumption

LEMMA TurnsTyped ==
  /\ User \in Turns
  /\ \A n \in 0..MaxTools : Assistant(n) \in Turns /\ Results(n) \in Turns
  BY Bounds DEF User, Assistant, Results, Turns

LEMMA SentTyped ==
  ASSUME TypeOK, NEW type \in {"token", "start", "finish", "done", "error"}
  PROVE  Sent(type) \in Event
  BY DEF TypeOK, Sent, Event

\* What Finish sends: the error if the loop has hit its cap, and done.
LEMMA FinishSends ==
  ASSUME TypeOK, Finish
  PROVE  /\ events' \in Seq(Event)
         /\ Len(events') = Len(events) + (IF completed THEN 1 ELSE 2)
         /\ \A i \in 1..Len(events) : events'[i] = events[i]
         /\ events'[Len(events')] = Sent("done")
         /\ ~completed => events'[Len(events) + 1] = Sent("error")
  <1>1. events \in Seq(Event) /\ Sent("done") \in Event /\ Sent("error") \in Event
    BY SentTyped DEF TypeOK
  <1>2. CASE completed
    <2>1. events' = Append(events, Sent("done"))
      BY <1>1, <1>2 DEF Finish
    <2> QED
      BY <1>1, <1>2, <2>1
  <1>3. CASE ~completed
    <2>1. events' = (events \o <<Sent("error")>>) \o <<Sent("done")>>
      BY <1>1, <1>3 DEF Finish
    <2>2. /\ events \o <<Sent("error")>> \in Seq(Event)
          /\ Len(events \o <<Sent("error")>>) = Len(events) + 1
          /\ \A i \in 1..Len(events) : (events \o <<Sent("error")>>)[i] = events[i]
          /\ (events \o <<Sent("error")>>)[Len(events) + 1] = Sent("error")
      BY <1>1
    <2> QED
      BY <1>1, <1>3, <2>1, <2>2
  <1> QED
    BY <1>2, <1>3

\* What EndTools adds to the history: the results of the last turn's calls.
LEMMA EndToolsAdds ==
  ASSUME Typed, EndTools
  PROVE  /\ history[Len(history)].n \in 0..MaxTools
         /\ history' = Append(history, Results(history[Len(history)].n))
  <1>1. history \in Seq(Turns) /\ Len(history) \in 1..Len(history)
    BY DEF Typed, TypeOK, Control, EndTools
  <1>2. history[Len(history)] \in Turns
    BY <1>1, ElementOfSeq
  <1>3. history[Len(history)].n \in 0..MaxTools
    BY <1>2 DEF Turns
  <1> QED
    BY <1>1, <1>3, TurnsTyped DEF EndTools, ResultTurns, Last

LEMMA InitTyped == Init => Typed
  <1>1. <<>> \in Seq(Turns) /\ <<>> \in Seq(Event)
    OBVIOUS
  <1>2. Init => emitted \in BOOLEAN /\ completed \in BOOLEAN /\ expired \in BOOLEAN
    BY DEF Init
  <1> QED
    BY <1>1, <1>2, Bounds DEF Init, Typed, TypeOK, Control

LEMMA StepTyped == Typed /\ [Next]_vars => Typed'
  <1> SUFFICES ASSUME Typed, [Next]_vars PROVE Typed'
    OBVIOUS
  <1> USE Bounds DEF Typed
  <1>1. CASE Ask
    <2>1. Append(kept, User) \in Seq(Turns) /\ <<>> \in Seq(Event)
      BY TurnsTyped DEF TypeOK
    <2>2. completed' \in BOOLEAN /\ expired' \in BOOLEAN
      BY <1>1 DEF Ask
    <2> QED
      BY <1>1, <2>1, <2>2 DEF Ask, TypeOK, Control
  <1>2. CASE Deadline
    BY <1>2 DEF Deadline, TypeOK, Control, runVars, callVars
  <1>3. CASE BeginTurn
    <2>1. emitted' \in BOOLEAN
      BY <1>3 DEF BeginTurn, NewStream
    <2> QED
      BY <1>3, <2>1 DEF BeginTurn, NewStream, TypeOK, Control, runVars
  <1>4. CASE Finish
    <2>1. events' \in Seq(Event)
      BY <1>4, FinishSends
    <2> QED
      BY <1>4, <2>1 DEF Finish, TypeOK, Control, runVars, callVars
  <1>5. CASE Abort
    <2>1. events' \in Seq(Event)
      BY <1>5, SentTyped DEF Abort, TypeOK
    <2> QED
      BY <1>5, <2>1 DEF Abort, KeptAfterFailure, TypeOK, Control, runVars, callVars
  <1>6. CASE Delta
    <2>1. events' \in Seq(Event)
      BY <1>6, SentTyped DEF Delta, TypeOK
    <2> QED
      BY <1>6, <2>1 DEF Delta, TypeOK, Control, runVars
  <1>7. ASSUME NEW n \in 0..MaxTools, NEW toolUse \in BOOLEAN, Reply(n, toolUse)
        PROVE  Typed'
    <2>1. /\ history' \in Seq(Turns)
          /\ Len(history') > 0
          /\ history'[Len(history')].role = "assistant"
      BY <1>7, TurnsTyped DEF Reply, TypeOK, Assistant
    <2> QED
      BY <1>7, <2>1 DEF Reply, TypeOK, Control, callVars
  <1>8. ASSUME NEW kind \in Failures, FailAndRetry(kind) PROVE Typed'
    BY <1>8 DEF FailAndRetry, Retries, TypeOK, Control, runVars, callVars
  <1>9. CASE Retry
    <2>1. emitted' \in BOOLEAN
      BY <1>9 DEF Retry, NewStream
    <2> QED
      BY <1>9, <2>1 DEF Retry, NewStream, TypeOK, Control, runVars
  <1>10. CASE StartTool
    <2>1. events' \in Seq(Event)
      BY <1>10, SentTyped DEF StartTool, TypeOK
    <2> QED
      BY <1>10, <2>1 DEF StartTool, TypeOK, Control, runVars, callVars
  <1>11. ASSUME NEW failed \in BOOLEAN, FinishTool(failed) PROVE Typed'
    <2>1. events' \in Seq(Event)
      BY <1>11, SentTyped DEF FinishTool, ToolEnded, TypeOK
    <2> QED
      BY <1>11, <2>1 DEF FinishTool, TypeOK, Control, runVars, callVars
  <1>12. CASE EndTools
    <2>1. history' = Append(history, Results(history[Len(history)].n))
      BY <1>12, EndToolsAdds
    <2>2. Results(history[Len(history)].n) \in Turns
      BY <1>12, EndToolsAdds, TurnsTyped
    <2>3. history' \in Seq(Turns)
      BY <2>1, <2>2 DEF TypeOK
    <2> QED
      BY <1>12, <2>3 DEF EndTools, TypeOK, Control, callVars
  <1>13. CASE UNCHANGED vars
    BY <1>13 DEF vars, runVars, callVars, TypeOK, Control
  <1> QED
    BY <1>1, <1>2, <1>3, <1>4, <1>5, <1>6, <1>7, <1>8, <1>9, <1>10, <1>11,
      <1>12, <1>13 DEF Next, FailForGood, GiveUp

LEMMA AlwaysTyped == Spec => []Typed
  BY InitTyped, StepTyped, PTL DEF Spec

\* The loop, its stream and its tool calls keep to their types.
THEOREM TypeCorrect == Spec => []TypeOK
  <1>1. Typed => TypeOK
    BY DEF Typed
  <1> QED
    BY <1>1, AlwaysTyped, PTL

-----------------------------------------------------------------------------
(* What a message costs *)

LEMMA StepCharged == Typed /\ Charged /\ [Next]_vars => Charged'
  <1> SUFFICES ASSUME Typed, Charged, [Next]_vars PROVE Charged'
    OBVIOUS
  <1> USE Bounds DEF Typed, TypeOK, Control, Charged
  <1>1. CASE BeginTurn
    BY <1>1 DEF BeginTurn, NewStream, runVars
  <1>2. CASE Retry
    BY <1>2 DEF Retry, NewStream, runVars
  <1>3. CASE EndTools
    BY <1>3 DEF EndTools, callVars
  <1>4. ASSUME NEW n \in 0..MaxTools, NEW toolUse \in BOOLEAN, Reply(n, toolUse)
        PROVE  Charged'
    BY <1>4 DEF Reply, callVars
  <1>5. ASSUME NEW kind \in Failures, FailAndRetry(kind) PROVE Charged'
    BY <1>5 DEF FailAndRetry, Retries, runVars, callVars
  <1>6. CASE Ask
    BY <1>6 DEF Ask
  <1>7. CASE Finish \/ Abort
    BY <1>7 DEF Finish, Abort, runVars, callVars
  <1>8. CASE Deadline \/ Delta
    BY <1>8 DEF Deadline, Delta, runVars, callVars
  <1>9. CASE StartTool \/ \E failed \in BOOLEAN : FinishTool(failed)
    BY <1>9 DEF StartTool, FinishTool, runVars, callVars
  <1>10. CASE UNCHANGED vars
    BY <1>10 DEF vars, runVars, callVars
  <1> QED
    BY <1>1, <1>2, <1>3, <1>4, <1>5, <1>6, <1>7, <1>8, <1>9, <1>10
      DEF Next, FailForGood, GiveUp

\* One message costs at most two model calls per turn of the loop, whatever
\* fails: the attempts of stream do not add up over the turns.
THEOREM CostBounded == Spec => []ModelCallsBounded
  <1>1. Init => Charged
    BY Bounds DEF Init, Charged
  <1>2. Charged => ModelCallsBounded
    BY DEF Charged, ModelCallsBounded
  <1> QED
    BY <1>1, <1>2, StepCharged, AlwaysTyped, PTL DEF Spec

-----------------------------------------------------------------------------
(* The text of an answer *)

\* Only Ask forgets events; the other steps that send none leave them.
LEMMA StepText ==
  Typed /\ TextOfAttempt /\ NoRepeatedText /\ [Next]_vars
    => (TextOfAttempt /\ NoRepeatedText)'
  <1> DEFINE Inv == TextOfAttempt /\ NoRepeatedText
  <1> SUFFICES ASSUME Typed, Inv, [Next]_vars PROVE Inv'
    OBVIOUS
  <1>T. /\ events \in Seq(Event) /\ Len(events) \in Nat
        /\ turn \in 0..MaxTurns /\ attempt \in 0..1 /\ MaxTurns \in Nat
    BY Bounds DEF Typed, TypeOK
  <1>1. CASE Ask
    BY <1>1 DEF Ask, TextOfAttempt, NoRepeatedText
  <1>2. CASE Delta
    <2>1. /\ events' = Append(events, Sent("token"))
          /\ pc = "calling" /\ pc' = pc /\ turn' = turn /\ attempt' = attempt /\ emitted'
      BY <1>2 DEF Delta, runVars
    <2>2. /\ Len(events') = Len(events) + 1
          /\ \A i \in 1..Len(events) : events'[i] = events[i]
          /\ events'[Len(events) + 1] = Sent("token")
      BY <1>T, <2>1
    <2>3. /\ Sent("token").type = "token"
          /\ Sent("token").turn = turn /\ Sent("token").attempt = attempt
      BY DEF Sent
    <2>4. TextOfAttempt'
      BY <1>T, <2>1, <2>2, <2>3 DEF TextOfAttempt
    <2>5. NoRepeatedText'
      BY <1>T, <2>1, <2>2, <2>3 DEF TextOfAttempt, NoRepeatedText
    <2> QED
      BY <2>4, <2>5
  <1>3. \* no text is added
        ASSUME Len(events') \in Nat, Len(events') >= Len(events),
               \A i \in 1..Len(events) : events'[i] = events[i],
               \A i \in Len(events) + 1..Len(events') : events'[i].type # "token",
               TextOfAttempt => \A i \in 1..Len(events) :
                 events[i].type = "token" =>
                   /\ events[i].turn <= turn'
                   /\ events[i].turn = turn' =>
                        /\ pc' = "calling" => emitted' /\ events[i].attempt = attempt'
                        /\ pc' # "backoff"
                        /\ pc' = "turn" => completed'
        PROVE  Inv'
    BY <1>T, <1>3 DEF TextOfAttempt, NoRepeatedText
  <1>4. CASE Finish
    <2>1. \A i \in Len(events) + 1..Len(events') : events'[i].type # "token"
      <3>1. Sent("done").type = "done" /\ Sent("error").type = "error"
        BY DEF Sent
      <3> QED
        BY <1>T, <1>4, <3>1, FinishSends DEF Typed
    <2>2. Len(events') \in Nat /\ Len(events') >= Len(events)
      BY <1>T, <1>4, FinishSends DEF Typed
    <2> QED
      BY <1>3, <1>4, <2>1, <2>2, FinishSends
        DEF Typed, Finish, TextOfAttempt, runVars, callVars
  <1>5. ASSUME NEW type \in {"start", "finish", "error"},
               events' = Append(events, Sent(type)), UNCHANGED <<runVars, callVars>>,
               pc' \notin {"calling", "backoff", "turn"}
        PROVE  Inv'
    <2>1. /\ Len(events') = Len(events) + 1
          /\ \A i \in 1..Len(events) : events'[i] = events[i]
          /\ events'[Len(events) + 1] = Sent(type)
      BY <1>T, <1>5
    <2>2. Sent(type).type = type
      BY DEF Sent
    <2> QED
      BY <1>T, <1>3, <1>5, <2>1, <2>2 DEF TextOfAttempt, runVars
  <1>6. CASE Abort
    BY <1>5, <1>6 DEF Abort
  <1>7. CASE StartTool
    BY <1>5, <1>7 DEF StartTool
  <1>8. ASSUME NEW failed \in BOOLEAN, FinishTool(failed) PROVE Inv'
    BY <1>5, <1>8 DEF FinishTool, ToolEnded
  <1>9. CASE BeginTurn
    BY <1>T, <1>3, <1>9 DEF BeginTurn, NewStream, TextOfAttempt, runVars
  <1>10. CASE Retry
    BY <1>T, <1>3, <1>10 DEF Retry, NewStream, TextOfAttempt, runVars
  <1>11. CASE EndTools
    <2>1. ASSUME NEW i \in 1..Len(events) PROVE events[i].turn \in Nat
      <3>1. events[i] \in Event
        BY <1>T, ElementOfSeq
      <3> QED
        BY <1>T, <3>1 DEF Event
    <2> QED
      BY <1>T, <1>3, <1>11, <2>1 DEF EndTools, TextOfAttempt
  <1>12. ASSUME NEW n \in 0..MaxTools, NEW toolUse \in BOOLEAN, Reply(n, toolUse)
         PROVE  Inv'
    BY <1>T, <1>3, <1>12 DEF Reply, TextOfAttempt, callVars
  <1>13. ASSUME NEW kind \in Failures, FailAndRetry(kind) PROVE Inv'
    BY <1>T, <1>3, <1>13 DEF FailAndRetry, Retries, TextOfAttempt, runVars, callVars
  <1>14. CASE Deadline \/ UNCHANGED vars
    BY <1>14 DEF Deadline, vars, runVars, callVars, TextOfAttempt, NoRepeatedText
  <1> QED
    BY <1>1, <1>2, <1>4, <1>6, <1>7, <1>8, <1>9, <1>10, <1>11, <1>12, <1>13,
      <1>14 DEF Next, FailForGood, GiveUp

\* All text a user is shown in one turn of the loop comes from one attempt of
\* stream: the retry never repeats the beginning of an answer.
THEOREM AnswersShownOnce == Spec => []NoRepeatedText
  <1>1. Init => TextOfAttempt /\ NoRepeatedText
    BY DEF Init, TextOfAttempt, NoRepeatedText
  <1> QED
    BY <1>1, StepText, AlwaysTyped, PTL DEF Spec

-----------------------------------------------------------------------------
(* The event stream *)

LEMMA StepProtocol ==
  Typed /\ Open /\ EventProtocol /\ [Next]_vars => (Open /\ EventProtocol)'
  <1> DEFINE Inv == Open /\ EventProtocol
  <1> SUFFICES ASSUME Typed, Inv, [Next]_vars PROVE Inv'
    OBVIOUS
  <1>T. events \in Seq(Event) /\ Len(events) \in Nat
    BY DEF Typed, TypeOK
  <1>S. \A type \in {"token", "start", "finish", "done", "error"} :
          Sent(type).type = type
    BY DEF Sent
  <1>1. CASE Ask
    BY <1>1 DEF Ask, Open, EventProtocol
  <1>2. ASSUME NEW type \in {"token", "start", "finish", "error"},
               events' = Append(events, Sent(type)), pc # "idle",
               type = "start" <=> pc' = "inTool",
               type = "finish" <=> pc = "inTool",
               type = "error" <=> pc' = "idle"
        PROVE  Inv'
    <2>1. /\ Len(events') = Len(events) + 1
          /\ \A i \in 1..Len(events) : events'[i] = events[i]
          /\ events'[Len(events) + 1].type = type
      BY <1>T, <1>S, <1>2
    <2>2. Open'
      BY <1>T, <1>2, <2>1 DEF Open
    <2>3. \A i \in 1..Len(events) : events[i].type \notin {"done", "error"}
      BY <1>2 DEF Open
    <2>4. ASSUME NEW i \in 1..Len(events), events[i].type = "start"
          PROVE  events'[i + 1].type = "finish"
      BY <1>T, <1>2, <2>1, <2>4 DEF EventProtocol
    <2>5. EventProtocol'
      BY <1>T, <1>2, <2>1, <2>3, <2>4 DEF EventProtocol
    <2> QED
      BY <2>2, <2>5
  <1>3. CASE Finish
    <2>1. /\ events' \in Seq(Event) /\ Len(events') \in Nat
          /\ Len(events') = Len(events) + (IF completed THEN 1 ELSE 2)
          /\ \A i \in 1..Len(events) : events'[i] = events[i]
          /\ events'[Len(events')].type = "done"
          /\ ~completed => events'[Len(events) + 1].type = "error"
      BY <1>T, <1>S, <1>3, FinishSends DEF Typed
    <2>2. pc = "turn" /\ pc' = "idle"
      BY <1>3 DEF Finish
    <2>3. \A i \in 1..Len(events) : events[i].type \notin {"done", "error"}
      BY <2>2 DEF Open
    <2>4. ASSUME NEW i \in 1..Len(events), events[i].type = "start"
          PROVE  i + 1 \in 1..Len(events) /\ events[i + 1].type = "finish"
      BY <1>T, <2>2, <2>4 DEF EventProtocol
    <2>5. Open'
      BY <2>2 DEF Open
    <2>6. ASSUME NEW i \in 1..Len(events')
          PROVE  /\ events'[i].type = "start" =>
                      i # Len(events') /\ events'[i + 1].type = "finish"
                 /\ events'[i].type = "done" => i = Len(events')
                 /\ events'[i].type = "error" =>
                      i = Len(events') \/ events'[i + 1].type = "done"
      <3>1. CASE i \in 1..Len(events)
        BY <1>T, <2>1, <2>3, <2>4, <3>1
      <3>2. CASE completed /\ i \notin 1..Len(events)
        BY <1>T, <2>1, <3>2
      <3>3. CASE ~completed /\ i \notin 1..Len(events)
        BY <1>T, <2>1, <3>3
      <3> QED
        BY <3>1, <3>2, <3>3
    <2>7. EventProtocol'
      BY <1>T, <2>1, <2>2, <2>6 DEF EventProtocol
    <2> QED
      BY <2>5, <2>7
  <1>4. CASE Abort /\ pc \in {"calling", "backoff"}
    BY <1>2, <1>4 DEF Abort
  <1>5. CASE Delta
    BY <1>2, <1>5 DEF Delta
  <1>6. CASE StartTool
    BY <1>2, <1>6 DEF StartTool
  <1>7. ASSUME NEW failed \in BOOLEAN, FinishTool(failed) PROVE Inv'
    BY <1>2, <1>7 DEF FinishTool, ToolEnded
  <1>8. ASSUME UNCHANGED <<events, asked>>, pc # "idle" \/ pc' = "idle",
               pc # "inTool", pc' # "inTool", pc' = "idle" => pc = "idle"
        PROVE  Inv'
    BY <1>8 DEF Open, EventProtocol
  <1>9. CASE BeginTurn \/ Retry
    BY <1>8, <1>9 DEF BeginTurn, Retry, NewStream
  <1>10. CASE EndTools
    BY <1>8, <1>10 DEF EndTools
  <1>11. ASSUME NEW n \in 0..MaxTools, NEW toolUse \in BOOLEAN, Reply(n, toolUse)
         PROVE  Inv'
    BY <1>8, <1>11 DEF Reply
  <1>12. ASSUME NEW kind \in Failures, FailAndRetry(kind) PROVE Inv'
    BY <1>8, <1>12 DEF FailAndRetry
  <1>13. CASE Deadline \/ UNCHANGED vars
    BY <1>13 DEF Deadline, vars, Open, EventProtocol
  <1> QED
    BY <1>1, <1>3, <1>4, <1>5, <1>6, <1>7, <1>9, <1>10, <1>11, <1>12, <1>13
      DEF Next, FailForGood, GiveUp

\* Whatever fails, a client that reads the stream of a message sees each
\* tool's end right after its start, one outcome at the end, and nothing after
\* it.
THEOREM EventsInOrder == Spec => []EventProtocol
  <1>1. Init => Open /\ EventProtocol
    BY DEF Init, Open, EventProtocol
  <1> QED
    BY <1>1, StepProtocol, AlwaysTyped, PTL DEF Spec

-----------------------------------------------------------------------------
(* The requests to the model *)

\* A turn that asks for no tool keeps a history acceptable.
LEMMA AcceptsAppend ==
  ASSUME NEW h \in Seq(Turns), NEW t \in Turns, Accepts(h),
         t.role # "assistant" \/ t.n = 0
  PROVE  Accepts(Append(h, t))
  <1>1. /\ Len(h) \in Nat /\ Len(Append(h, t)) = Len(h) + 1
        /\ \A i \in 1..Len(h) : Append(h, t)[i] = h[i]
        /\ Append(h, t)[Len(h) + 1] = t
    OBVIOUS
  <1> QED
    BY <1>1 DEF Accepts

\* A turn that asks for tools leaves only itself to be answered.
LEMMA AnsweredAppend ==
  ASSUME NEW h \in Seq(Turns), NEW t \in Turns, Accepts(h)
  PROVE  Answered(Append(h, t), Len(Append(h, t)) - 1)
  <1>1. /\ Len(h) \in Nat /\ Len(Append(h, t)) = Len(h) + 1
        /\ \A i \in 1..Len(h) : Append(h, t)[i] = h[i]
    OBVIOUS
  <1> QED
    BY <1>1 DEF Accepts, Answered

\* The results of its tool calls complete a history.
LEMMA ResultsComplete ==
  ASSUME NEW h \in Seq(Turns), Len(h) > 0, Answered(h, Len(h) - 1),
         NEW t \in Turns, t = Results(h[Len(h)].n)
  PROVE  Accepts(Append(h, t))
  <1>1. /\ Len(h) \in Nat /\ Len(Append(h, t)) = Len(h) + 1
        /\ \A i \in 1..Len(h) : Append(h, t)[i] = h[i]
        /\ Append(h, t)[Len(h) + 1] = t
    OBVIOUS
  <1>2. t.role = "results"
    BY DEF Results
  <1> QED
    BY <1>1, <1>2 DEF Accepts, Answered

LEMMA StepAnswered ==
  ASSUME ~CutsToolUse
  PROVE  Typed /\ AllAnswered /\ [Next]_vars => AllAnswered'
  <1> SUFFICES ASSUME Typed, AllAnswered, [Next]_vars PROVE AllAnswered'
    OBVIOUS
  <1>T. kept \in Seq(Turns) /\ history \in Seq(Turns)
    BY DEF Typed, TypeOK
  <1>1. CASE Ask
    <2>1. User \in Turns /\ User.role = "user"
      BY TurnsTyped DEF User
    <2>2. Accepts(Append(kept, User))
      BY <1>T, <2>1, AcceptsAppend DEF AllAnswered
    <2> QED
      BY <1>1, <2>2 DEF Ask, AllAnswered
  <1>2. ASSUME NEW n \in 0..MaxTools, NEW toolUse \in BOOLEAN, Reply(n, toolUse)
        PROVE  AllAnswered'
    <2>1. Assistant(n) \in Turns /\ Assistant(n).n = n
      BY TurnsTyped DEF Assistant
    <2>2. /\ history' = Append(history, Assistant(n))
          /\ Accepts(history) /\ kept' = kept
      BY <1>2 DEF Reply
    <2>3. CASE toolUse
      <3>1. Answered(history', Len(history') - 1)
        BY <1>T, <2>1, <2>2, AnsweredAppend
      <3> QED
        BY <1>2, <2>2, <2>3, <3>1 DEF Reply, AllAnswered
    <2>4. CASE ~toolUse
      <3>1. n = 0
        BY <1>2, <2>4, Bounds DEF Reply
      <3>2. Accepts(history')
        BY <1>T, <2>1, <2>2, <3>1, AcceptsAppend
      <3> QED
        BY <1>2, <2>2, <2>4, <3>2 DEF Reply, AllAnswered
    <2> QED
      BY <2>3, <2>4
  <1>3. CASE EndTools
    <2>1. history' = Append(history, Results(history[Len(history)].n))
      BY <1>3, EndToolsAdds
    <2>2. Results(history[Len(history)].n) \in Turns
      BY <1>3, EndToolsAdds, TurnsTyped
    <2>3. Len(history) > 0 /\ Answered(history, Len(history) - 1)
      BY <1>3 DEF EndTools, Typed, Control, AllAnswered
    <2>4. Accepts(history')
      BY <1>T, <2>1, <2>2, <2>3, ResultsComplete
    <2> QED
      BY <1>3, <2>4 DEF EndTools, AllAnswered
  <1>4. CASE Finish
    BY <1>4 DEF Finish, AllAnswered
  <1>5. CASE Abort
    BY <1>5 DEF Abort, KeptAfterFailure, AllAnswered
  <1>6. CASE Deadline
    BY <1>6 DEF Deadline, AllAnswered, runVars
  <1>7. CASE BeginTurn \/ Retry
    BY <1>7 DEF BeginTurn, Retry, NewStream, AllAnswered, runVars
  <1>8. CASE Delta
    BY <1>8 DEF Delta, AllAnswered, runVars
  <1>9. ASSUME NEW kind \in Failures, FailAndRetry(kind) PROVE AllAnswered'
    BY <1>9 DEF FailAndRetry, AllAnswered, runVars
  <1>10. CASE StartTool \/ \E failed \in BOOLEAN : FinishTool(failed)
    BY <1>10 DEF StartTool, FinishTool, AllAnswered, runVars
  <1>11. CASE UNCHANGED vars
    BY <1>11 DEF vars, AllAnswered, runVars
  <1> QED
    BY <1>1, <1>2, <1>3, <1>4, <1>5, <1>6, <1>7, <1>8, <1>9, <1>10, <1>11
      DEF Next, FailForGood, GiveUp

\* As long as a response that holds tool calls stops for them, no session gets
\* stuck: every request answers each tool call it contains, whatever became of
\* the messages before.
THEOREM NoRequestRefused ==
  ASSUME ~CutsToolUse
  PROVE  Spec => []RequestsAccepted
  <1>1. Init => AllAnswered
    BY DEF Init, AllAnswered, Accepts
  <1>2. AllAnswered => RequestsAccepted
    BY DEF AllAnswered, RequestsAccepted
  <1> QED
    BY <1>1, <1>2, StepAnswered, AlwaysTyped, PTL DEF Spec

-----------------------------------------------------------------------------
(* What the session remembers *)

\* A turn that is appended leaves what is built on.
LEMMA AppendBuildsOn ==
  ASSUME Typed, BuildsOnKept, pc # "idle", NEW t \in Turns,
         history' = Append(history, t), kept' = kept
  PROVE  BuildsOnKept' /\ Len(history') > Len(kept') + 1
  <1>1. /\ kept \in Seq(Turns) /\ history \in Seq(Turns)
        /\ Len(history) \in Nat /\ Len(kept) \in Nat
    BY DEF Typed, TypeOK
  <1>2. /\ Len(history') = Len(history) + 1
        /\ \A i \in 1..Len(history) : history'[i] = history[i]
    BY <1>1
  <1> QED
    BY <1>1, <1>2 DEF BuildsOnKept

LEMMA StepBuildsOn == Typed /\ BuildsOnKept /\ [Next]_vars => BuildsOnKept'
  <1> SUFFICES ASSUME Typed, BuildsOnKept, [Next]_vars PROVE BuildsOnKept'
    OBVIOUS
  <1>1. CASE Ask
    <2>1. /\ kept \in Seq(Turns) /\ User \in Turns
          /\ history' = Append(kept, User) /\ kept' = kept
          /\ turn' = 0 /\ pc' = "turn" /\ ~completed'
      BY <1>1, TurnsTyped DEF Typed, TypeOK, Ask
    <2>2. /\ Len(kept) \in Nat /\ Len(history') = Len(kept) + 1
          /\ \A i \in 1..Len(kept) : history'[i] = kept[i]
          /\ history'[Len(kept) + 1] = User
      BY <2>1
    <2> QED
      BY <2>1, <2>2 DEF BuildsOnKept
  <1>2. ASSUME NEW n \in 0..MaxTools, NEW toolUse \in BOOLEAN, Reply(n, toolUse)
        PROVE  BuildsOnKept'
    BY <1>2, TurnsTyped, AppendBuildsOn DEF Reply
  <1>3. CASE EndTools
    <2>1. /\ history' = Append(history, Results(history[Len(history)].n))
          /\ Results(history[Len(history)].n) \in Turns
      BY <1>3, EndToolsAdds, TurnsTyped
    <2> QED
      BY <1>3, <2>1, AppendBuildsOn DEF EndTools
  <1>4. CASE Finish \/ Abort
    BY <1>4 DEF Finish, Abort, BuildsOnKept
  <1>5. CASE Deadline \/ Delta \/ UNCHANGED vars
    BY <1>5 DEF Deadline, Delta, vars, runVars, BuildsOnKept
  <1>6. CASE BeginTurn \/ Retry
    BY <1>6 DEF BeginTurn, Retry, NewStream, BuildsOnKept, runVars
  <1>7. ASSUME NEW kind \in Failures, FailAndRetry(kind) PROVE BuildsOnKept'
    BY <1>7 DEF FailAndRetry, BuildsOnKept, runVars
  <1>8. CASE StartTool \/ \E failed \in BOOLEAN : FinishTool(failed)
    BY <1>8 DEF StartTool, FinishTool, BuildsOnKept, runVars
  <1> QED
    BY <1>1, <1>2, <1>3, <1>4, <1>5, <1>6, <1>7, <1>8 DEF Next, FailForGood, GiveUp

\* A longer sequence that begins with kept and the message extends them.
LEMMA ExtendsKept ==
  ASSUME NEW h \in Seq(Turns), NEW k \in Seq(Turns),
         Len(h) > Len(k) + 1, \A i \in 1..Len(k) : h[i] = k[i],
         h[Len(k) + 1] = User
  PROVE  IsStrictPrefix(Append(k, User), h)
  <1> DEFINE s == Append(k, User)
  <1>1. /\ s \in Seq(Turns) /\ Len(s) = Len(k) + 1 /\ Len(k) \in Nat /\ Len(h) \in Nat
        /\ \A i \in 1..Len(k) : s[i] = k[i]
        /\ s[Len(k) + 1] = User
    BY TurnsTyped
  <1>2. \A i \in 1..Len(s) : h[i] \in Turns
    BY <1>1
  <1>3. /\ SubSeq(h, 1, Len(s)) \in Seq(Turns)
        /\ Len(SubSeq(h, 1, Len(s))) = Len(s)
        /\ \A i \in 1..Len(s) : SubSeq(h, 1, Len(s))[i] = h[i]
    BY <1>1, <1>2
  <1>4. SubSeq(s, 1, Len(s)) = s
    BY <1>1, SubSeqFull
  <1>5. \A i \in 1..Len(s) : s[i] = SubSeq(h, 1, Len(s))[i]
    BY <1>1, <1>3
  <1>6. SubSeq(h, 1, Len(s)) = s
    BY <1>1, <1>3, <1>5, SeqEqual
  <1> QED
    BY <1>1, <1>4, <1>6 DEF IsStrictPrefix, IsPrefix

\* What a client is told is what the session remembers: after done the whole
\* exchange has been added to the history, after an error nothing has changed.
\* With a cap of no turns done would be sent for an exchange without an answer.
THEOREM OutcomeTold ==
  ASSUME MaxTurns > 0
  PROVE  Spec => LastEventTells
  <1> DEFINE Tells ==
        pc # "idle" /\ pc' = "idle" =>
          IF Last(events').type = "done" THEN IsStrictPrefix(Append(kept, User), kept')
                                         ELSE kept' = kept
  <1>1. Init => BuildsOnKept
    BY DEF Init, BuildsOnKept
  <1>2. Typed /\ BuildsOnKept /\ [Next]_vars => [Tells]_vars
    <2> SUFFICES ASSUME Typed, BuildsOnKept, Next, pc # "idle", pc' = "idle"
                 PROVE  IF Last(events').type = "done"
                          THEN IsStrictPrefix(Append(kept, User), kept')
                          ELSE kept' = kept
      OBVIOUS
    <2>1. CASE Finish
      <3>1. Last(events').type = "done"
        BY <2>1, FinishSends DEF Typed, Last, Sent
      <3>2. kept' = history /\ (turn > 0 \/ completed)
        BY <2>1, Bounds DEF Finish
      <3>3. kept \in Seq(Turns) /\ history \in Seq(Turns)
        BY DEF Typed, TypeOK
      <3>4. IsStrictPrefix(Append(kept, User), history)
        BY <3>2, <3>3, ExtendsKept DEF BuildsOnKept
      <3> QED
        BY <3>1, <3>2, <3>4
    <2>2. CASE Abort
      <3>1. events \in Seq(Event) /\ Sent("error") \in Event
        BY SentTyped DEF Typed, TypeOK
      <3>2. Last(events').type = "error"
        BY <2>2, <3>1 DEF Abort, Last, Sent
      <3> QED
        BY <2>2, <3>2 DEF Abort, KeptAfterFailure
    <2> QED
      BY <2>1, <2>2 DEF Next, Ask, Deadline, BeginTurn, NewStream, Delta, Reply,
        FailAndRetry, FailForGood, Retry, GiveUp, StartTool, FinishTool, EndTools
  <1> QED
    BY <1>1, <1>2, StepBuildsOn, AlwaysTyped, PTL DEF Spec, LastEventTells
==============================================================================
