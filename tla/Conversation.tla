----------------------------- MODULE Conversation -----------------------------
(***************************************************************************)
(* The agent's conversations: session.Store (internal/session/session.go)  *)
(* with its TTL reaper, and the part of the server's handleChat            *)
(* (internal/server/server.go) that looks a conversation up, waits for its *)
(* mutex, runs the model loop on its history and writes the history back.  *)
(*                                                                         *)
(* A *Session is a heap object that may outlive its entry of the store, so *)
(* objects are members of Objs, each allocated at most once. Nothing is    *)
(* persisted: conversations end with the process that holds them.          *)
(***************************************************************************)
EXTENDS Naturals, Sequences, FiniteSets

CONSTANTS
  Ids,        \* session ids
  Messages,   \* chat requests, each sent at most once
  Objs,       \* *Session objects
  None,       \* no message
  TTL,        \* SESSION_TTL, in ticks
  Timeout     \* REQUEST_TIMEOUT, in ticks

ASSUME ConversationAssumption ==
  /\ None \notin Messages
  /\ TTL \in Nat
  /\ Timeout \in Nat

VARIABLES
  sessions,   \* Store.sessions: id -> [obj, idle]
  history,    \* obj -> History, as the messages it answers
  holder,     \* obj -> the message that holds Mu, or None
  msg,        \* handlers in flight: message -> [at, id, obj, base, age]
  sent,       \* messages that have been sent
  answered    \* the messages of each id that this process has answered, in
              \* order (history variable, read by the properties only)

vars == <<sessions, history, holder, msg, sent, answered>>

Entry == [obj : Objs, idle : 0..(TTL + 1)]
Handler == [at : {"waiting", "running"}, id : Ids, obj : Objs,
            base : Seq(Messages), age : 0..Timeout]

TypeOK ==
  /\ DOMAIN sessions \subseteq Ids
  /\ sessions \in [DOMAIN sessions -> Entry]
  /\ DOMAIN history \subseteq Objs
  /\ history \in [DOMAIN history -> Seq(Messages)]
  /\ holder \in [DOMAIN history -> Messages \cup {None}]
  /\ DOMAIN msg \subseteq sent
  /\ msg \in [DOMAIN msg -> Handler]
  /\ sent \subseteq Messages
  /\ answered \in [Ids -> Seq(Messages)]

Put(f, k, v) == [x \in DOMAIN f \cup {k} |-> IF x = k THEN v ELSE f[x]]
Without(f, S) == [x \in DOMAIN f \ S |-> f[x]]

Init ==
  /\ sessions = [i \in {} |-> None]
  /\ history = [o \in {} |-> <<>>]
  /\ holder = [o \in {} |-> None]
  /\ msg = [m \in {} |-> None]
  /\ sent = {}
  /\ answered = [i \in Ids |-> <<>>]

-----------------------------------------------------------------------------
(* handleChat *)

\* The handler goes to wait for Mu of the object Get gave it.
Waits(m, i, o) ==
  /\ m \notin sent
  /\ sent' = sent \cup {m}
  /\ msg' = Put(msg, m, [at |-> "waiting", id |-> i, obj |-> o, base |-> <<>>,
                         age |-> 0])
  /\ UNCHANGED answered

\* Get finds the conversation and marks it seen.
GetHit(m, i) ==
  /\ i \in DOMAIN sessions
  /\ Waits(m, i, sessions[i].obj)
  /\ sessions' = [sessions EXCEPT ![i].idle = 0]
  /\ UNCHANGED <<history, holder>>

\* Get makes a new one.
GetMiss(m, i, o) ==
  /\ i \notin DOMAIN sessions
  /\ o \notin DOMAIN history
  /\ Waits(m, i, o)
  /\ sessions' = Put(sessions, i, [obj |-> o, idle |-> 0])
  /\ history' = Put(history, o, <<>>)
  /\ holder' = Put(holder, o, None)

\* Seeded bug: the handler does not take Mu.
CanRunUnlocked(m) == m \in DOMAIN msg /\ msg[m].at = "waiting"

CanRun(m) ==
  /\ m \in DOMAIN msg
  /\ msg[m].at = "waiting"
  /\ holder[msg[m].obj] = None

\* Mu is acquired; the timeout starts, and Run is given the history as it is.
Lock(m) ==
  /\ CanRun(m)
  /\ holder' = [holder EXCEPT ![msg[m].obj] = m]
  /\ msg' = [msg EXCEPT ![m].at = "running", ![m].base = history[msg[m].obj]]
  /\ UNCHANGED <<sessions, history, sent, answered>>

Running(m) == m \in DOMAIN msg /\ msg[m].at = "running"

\* Seeded bug: a handler that returns does not release Mu.
StillHeld(m) == holder

Released(m) == [holder EXCEPT ![msg[m].obj] = None]

\* Mu is released and the handler returns.
Unlock(m) ==
  /\ holder' = Released(m)
  /\ msg' = Without(msg, {m})
  /\ UNCHANGED <<sessions, sent>>

\* Run returns a history: what it was given plus this exchange.
Succeed(m) ==
  /\ Running(m)
  /\ history' = [history EXCEPT ![msg[m].obj] = Append(msg[m].base, m)]
  /\ answered' = [answered EXCEPT ![msg[m].id] = Append(@, m)]
  /\ Unlock(m)

\* Seeded bug: the exchange is stored although Run failed.
StoredAnyway(m) == [history EXCEPT ![msg[m].obj] = Append(msg[m].base, m)]

AfterFailure(m) == history

\* Run fails, at the latest when the timeout is over.
Fail(m) ==
  /\ Running(m)
  /\ history' = AfterFailure(m)
  /\ Unlock(m)
  /\ UNCHANGED answered

\* The process that serves these ids ends: by a crash, or after a SIGTERM when
\* its handlers are done or have used up the drain. Its successor knows nothing.
ProcessEnds(I) ==
  LET cut == {m \in DOMAIN msg : msg[m].id \in I} IN
    /\ sessions' = Without(sessions, I)
    /\ msg' = Without(msg, cut)
    /\ holder' = [o \in DOMAIN holder |-> IF holder[o] \in cut THEN None ELSE holder[o]]
    /\ answered' = [i \in Ids |-> IF i \in I THEN <<>> ELSE answered[i]]
    /\ UNCHANGED <<history, sent>>

-----------------------------------------------------------------------------
(* Store.reap *)

\* Seeded bug: a conversation is dropped as soon as it reaches its TTL.
ExpiredEarly(i) == sessions[i].idle >= TTL

Expired(i) == sessions[i].idle > TTL

\* The reaper of the process that serves these ids looks at all its entries.
Reap(I) ==
  /\ \E i \in DOMAIN sessions \cap I : Expired(i)
  /\ sessions' = Without(sessions, {i \in DOMAIN sessions \cap I : Expired(i)})
  /\ UNCHANGED <<history, holder, msg, sent, answered>>

\* Seeded bug: the run has no timeout.
Untimed(m) == TRUE

InTime(m) == msg[m].age < Timeout

\* Time passes for the entries and the runs. A free mutex is taken before it
\* does, and a run is over by its timeout.
Tick ==
  /\ \A m \in DOMAIN msg : ~CanRun(m) /\ (Running(m) => InTime(m))
  /\ sessions' = [i \in DOMAIN sessions |->
       [sessions[i] EXCEPT !.idle = IF @ > TTL THEN @ ELSE @ + 1]]
  /\ msg' = [m \in DOMAIN msg |->
       IF Running(m) THEN [msg[m] EXCEPT !.age = @ + 1] ELSE msg[m]]
  /\ UNCHANGED <<history, holder, sent, answered>>

Next ==
  \/ \E m \in Messages, i \in Ids :
       GetHit(m, i) \/ \E o \in Objs : GetMiss(m, i, o)
  \/ \E m \in Messages : Lock(m) \/ Succeed(m) \/ Fail(m)
  \/ Reap(Ids)
  \/ ProcessEnds(Ids)
  \/ Tick

Spec == Init /\ [][Next]_vars

\* Go's mutex hands itself to a waiter that has waited too long, so no waiter
\* is passed over for ever; a run ends by its timeout.
Fairness ==
  /\ \A m \in Messages : SF_vars(Lock(m)) /\ WF_vars(Succeed(m) \/ Fail(m))

FairSpec == Spec /\ Fairness

-----------------------------------------------------------------------------
(* Properties *)

\* One message at a time per session, as the server's comment has it: not per
\* object only, but also when the reaper has replaced the object meanwhile.
\* Needs a TTL that outlasts every queue: lastSeen is not updated while
\* messages wait and run.
OneRunPerSession ==
  \A m, n \in DOMAIN msg :
    Running(m) /\ Running(n) /\ msg[m].id = msg[n].id => m = n

\* No answer is lost or repeated: the conversation in the store is exactly its
\* latest answered messages, in the order they were answered.
IsSuffix(s, t) ==
  /\ Len(s) <= Len(t)
  /\ s = SubSeq(t, Len(t) - Len(s) + 1, Len(t))
HistoryFaithful ==
  \A i \in DOMAIN sessions : IsSuffix(history[sessions[i].obj], answered[i])

\* No update is lost: whatever happens to the store, the history of a
\* conversation object only ever gains one exchange at its end. Run works on
\* the history it read when it took Mu and the handler writes the whole slice
\* back, so a second writer in between would be overwritten.
HistoryOnlyGrows ==
  [][\A o \in DOMAIN history :
       \/ history'[o] = history[o]
       \/ \E m \in Messages : history'[o] = Append(history[o], m)]_vars

\* The conversation is not forgotten in the middle: while a message of a
\* session waits or runs, the session's entry is the one it is working on.
NotForgotten ==
  \A m \in DOMAIN msg :
    msg[m].id \in DOMAIN sessions /\ sessions[msg[m].id].obj = msg[m].obj

\* Every message sent is answered or fails: no one waits for Mu for ever.
EveryMessageEnds == \A m \in Messages : (m \in sent) ~> (m \notin DOMAIN msg)
==============================================================================
