-------------------------- MODULE ConversationProofs --------------------------
(***************************************************************************)
(* Theorems about Conversation, for any number of sessions and messages.   *)
(* The first hold whatever the TTL: objects may be evicted under their     *)
(* messages. Those that follow assume a TTL that outlasts every queue.     *)
(***************************************************************************)
EXTENDS Conversation, FiniteSetTheorems, SequenceTheorems, TLAPS

\* Every object somebody refers to has been allocated.
Linked ==
  /\ \A i \in DOMAIN sessions : sessions[i].obj \in DOMAIN history
  /\ \A m \in DOMAIN msg : msg[m].obj \in DOMAIN history

\* A message that runs holds its object's mutex.
Held == \A m \in DOMAIN msg : Running(m) => holder[msg[m].obj] = m

\* It builds on the current history of its object: nothing writes that while
\* it runs.
RunsOnCurrent ==
  \A m \in DOMAIN msg : Running(m) => msg[m].base = history[msg[m].obj]

IInv == TypeOK /\ Linked /\ Held /\ RunsOnCurrent

\* The steps of Next when the process that reaps or ends serves these ids.
Steps(I) ==
  \/ \E m \in Messages, i \in Ids :
       GetHit(m, i) \/ \E o \in Objs : GetMiss(m, i, o)
  \/ \E m \in Messages : Lock(m) \/ Succeed(m) \/ Fail(m)
  \/ Reap(I)
  \/ ProcessEnds(I)
  \/ Tick

LEMMA NextSteps == Next => Steps(Ids)
  BY DEF Next, Steps

-----------------------------------------------------------------------------
(* The invariant *)

LEMMA InitEstablishes == Init => IInv
  <1> SUFFICES ASSUME Init PROVE IInv
    OBVIOUS
  <1>1. DOMAIN sessions = {} /\ DOMAIN history = {} /\ DOMAIN msg = {}
    BY DEF Init
  <1>2. TypeOK
    BY <1>1 DEF Init, TypeOK
  <1>3. Linked /\ Held /\ RunsOnCurrent
    BY <1>1 DEF Linked, Held, RunsOnCurrent
  <1> QED
    BY <1>2, <1>3 DEF IInv

\* Get, on a hit or a miss, adds a message that waits.
LEMMA GetPreserves ==
  ASSUME IInv, NEW m \in Messages, NEW i \in Ids,
         GetHit(m, i) \/ \E o \in Objs : GetMiss(m, i, o)
  PROVE  IInv'
  <1> USE DEF IInv
  <1>1. PICK o \in Objs :
          /\ Waits(m, i, o)
          /\ o \in DOMAIN history'
          /\ DOMAIN history \subseteq DOMAIN history'
          /\ \A p \in DOMAIN history : history'[p] = history[p] /\ holder'[p] = holder[p]
          /\ history' \in [DOMAIN history' -> Seq(Messages)]
          /\ DOMAIN history' \subseteq Objs
          /\ holder' \in [DOMAIN history' -> Messages \cup {None}]
          /\ DOMAIN sessions' \subseteq Ids
          /\ sessions' \in [DOMAIN sessions' -> Entry]
          /\ \A j \in DOMAIN sessions' : sessions'[j].obj \in DOMAIN history'
    <2>1. CASE GetHit(m, i)
      <3>1. sessions[i] \in Entry /\ sessions[i].obj \in DOMAIN history
        BY <2>1 DEF GetHit, TypeOK, Linked
      <3>2. [sessions[i] EXCEPT !.idle = 0] \in Entry
        BY <3>1, ConversationAssumption DEF Entry
      <3>3. /\ DOMAIN sessions' = DOMAIN sessions
            /\ sessions' \in [DOMAIN sessions -> Entry]
            /\ \A j \in DOMAIN sessions : sessions'[j].obj = sessions[j].obj
        BY <2>1, <3>1, <3>2 DEF GetHit, TypeOK, Entry
      <3> QED
        BY <2>1, <3>1, <3>3 DEF GetHit, TypeOK, Linked, Entry
    <2>2. CASE \E o \in Objs : GetMiss(m, i, o)
      <3>1. PICK o \in Objs : GetMiss(m, i, o)
        BY <2>2
      <3>2. [obj |-> o, idle |-> 0] \in Entry
        BY ConversationAssumption DEF Entry
      <3>3. /\ DOMAIN sessions' = DOMAIN sessions \cup {i}
            /\ sessions' \in [DOMAIN sessions \cup {i} -> Entry]
            /\ sessions'[i].obj = o
            /\ \A j \in DOMAIN sessions : j # i => sessions'[j] = sessions[j]
        BY <3>1, <3>2 DEF GetMiss, TypeOK, Put
      <3>4. /\ DOMAIN history' = DOMAIN history \cup {o}
            /\ history' \in [DOMAIN history \cup {o} -> Seq(Messages)]
            /\ \A p \in DOMAIN history : history'[p] = history[p]
        <4>1. <<>> \in Seq(Messages)
          OBVIOUS
        <4> QED
          BY <3>1, <4>1 DEF GetMiss, TypeOK, Put
      <3>5. /\ holder' \in [DOMAIN history \cup {o} -> Messages \cup {None}]
            /\ \A p \in DOMAIN history : holder'[p] = holder[p]
        <4>1. DOMAIN holder = DOMAIN history
          BY DEF TypeOK
        <4> QED
          BY <3>1, <4>1 DEF GetMiss, TypeOK, Put
      <3> QED
        BY <3>1, <3>3, <3>4, <3>5 DEF GetMiss, TypeOK, Linked
    <2> QED
      BY <2>1, <2>2
  <1>2. /\ DOMAIN msg' = DOMAIN msg \cup {m}
        /\ m \notin DOMAIN msg
        /\ msg'[m] = [at |-> "waiting", id |-> i, obj |-> o, base |-> <<>>, age |-> 0]
        /\ \A n \in DOMAIN msg : msg'[n] = msg[n]
    BY <1>1 DEF Waits, TypeOK, Put
  <1>3. msg' \in [DOMAIN msg' -> Handler]
    <2>1. msg'[m] \in Handler
      BY <1>2, ConversationAssumption DEF Handler
    <2> QED
      BY <1>1, <1>2, <2>1 DEF Waits, TypeOK, Put
  <1>4. TypeOK'
    BY <1>1, <1>2, <1>3 DEF TypeOK, Waits
  <1>5. Linked'
    BY <1>1, <1>2 DEF Linked
  <1>6. ASSUME NEW n \in DOMAIN msg', Running(n)'
        PROVE  holder'[msg'[n].obj] = n /\ msg'[n].base = history'[msg'[n].obj]
    <2>1. n \in DOMAIN msg /\ msg'[n] = msg[n]
      BY <1>2, <1>6 DEF Running
    <2>2. Running(n)
      BY <1>6, <2>1 DEF Running
    <2> QED
      BY <1>1, <2>1, <2>2 DEF Held, RunsOnCurrent, Linked
  <1> QED
    BY <1>4, <1>5, <1>6 DEF Held, RunsOnCurrent

\* Lock: nobody else runs on the object.
LEMMA LockPreserves ==
  ASSUME IInv, NEW m \in Messages, Lock(m)
  PROVE  IInv'
  <1> USE DEF IInv
  <1> DEFINE o == msg[m].obj
  <1>1. /\ m \in DOMAIN msg /\ msg[m].at = "waiting" /\ holder[o] = None
        /\ msg[m] \in Handler /\ o \in DOMAIN history
    BY DEF Lock, CanRun, TypeOK, Linked
  <1>2. /\ DOMAIN msg' = DOMAIN msg
        /\ msg'[m] = [msg[m] EXCEPT !.at = "running", !.base = history[o]]
        /\ \A n \in DOMAIN msg : n # m => msg'[n] = msg[n]
        /\ DOMAIN holder' = DOMAIN holder
        /\ holder'[o] = m
        /\ \A p \in DOMAIN holder : p # o => holder'[p] = holder[p]
    BY <1>1 DEF Lock, TypeOK
  <1>3. history[o] \in Seq(Messages)
    BY <1>1 DEF TypeOK
  <1>4. msg'[m] \in Handler /\ msg'[m].obj = o /\ msg'[m].base = history[o]
    BY <1>1, <1>2, <1>3 DEF Handler
  <1>5. TypeOK'
    <2>1. msg' \in [DOMAIN msg' -> Handler]
      BY <1>2, <1>4 DEF TypeOK, Lock
    <2>2. holder' \in [DOMAIN history -> Messages \cup {None}]
      BY <1>1 DEF TypeOK, Lock
    <2> QED
      BY <1>2, <2>1, <2>2 DEF TypeOK, Lock
  <1>6. Linked'
    BY <1>1, <1>2, <1>4 DEF Linked, Lock
  <1>7. ASSUME NEW n \in DOMAIN msg', Running(n)'
        PROVE  holder'[msg'[n].obj] = n /\ msg'[n].base = history'[msg'[n].obj]
    <2>1. CASE n = m
      BY <1>2, <1>4, <2>1 DEF Lock
    <2>2. CASE n # m
      <3>1. n \in DOMAIN msg /\ msg'[n] = msg[n] /\ Running(n)
        BY <1>2, <1>7, <2>2 DEF Running
      <3>2. holder[msg[n].obj] = n /\ n # None /\ msg[n].obj \in DOMAIN holder
        BY <3>1, ConversationAssumption DEF Held, TypeOK, Linked
      <3>3. msg[n].obj # o
        BY <1>1, <3>2
      <3> QED
        BY <1>2, <3>1, <3>2, <3>3 DEF RunsOnCurrent, Lock
    <2> QED
      BY <2>1, <2>2
  <1> QED
    BY <1>5, <1>6, <1>7 DEF Held, RunsOnCurrent

\* What the end of a run leaves: the others, none of which is on its object.
AfterEnd(m) ==
  /\ m \in DOMAIN msg
  /\ msg[m].obj \in DOMAIN history
  /\ DOMAIN msg' = DOMAIN msg \ {m}
  /\ \A n \in DOMAIN msg' : msg'[n] = msg[n]
  /\ msg' \in [DOMAIN msg' -> Handler]
  /\ holder' \in [DOMAIN history -> Messages \cup {None}]
  /\ sessions' = sessions /\ sent' = sent
  /\ \A n \in DOMAIN msg' : Running(n)' =>
       /\ msg[n].obj # msg[m].obj
       /\ holder'[msg[n].obj] = n
       /\ msg[n].base = history[msg[n].obj]

LEMMA EndFacts ==
  ASSUME IInv, NEW m \in Messages, Running(m), Unlock(m)
  PROVE  AfterEnd(m)
  <1> USE DEF IInv
  <1>1. m \in DOMAIN msg /\ msg[m].obj \in DOMAIN history /\ holder[msg[m].obj] = m
    BY DEF Running, Linked, Held
  <1>2. DOMAIN msg' = DOMAIN msg \ {m} /\ \A n \in DOMAIN msg' : msg'[n] = msg[n]
    BY DEF Unlock, Released, Without
  <1>3. msg' \in [DOMAIN msg' -> Handler]
    BY <1>2 DEF Unlock, Released, TypeOK, Without
  <1>4. holder' \in [DOMAIN history -> Messages \cup {None}]
    BY DEF Unlock, Released, TypeOK
  <1>5. ASSUME NEW n \in DOMAIN msg', Running(n)'
        PROVE  /\ msg[n].obj # msg[m].obj
               /\ holder'[msg[n].obj] = n
               /\ msg[n].base = history[msg[n].obj]
    <2>1. n \in DOMAIN msg /\ n # m /\ Running(n)
      BY <1>2, <1>5 DEF Running
    <2>2. /\ holder[msg[n].obj] = n /\ msg[n].obj \in DOMAIN history
          /\ msg[n].base = history[msg[n].obj]
      BY <2>1 DEF Held, Linked, RunsOnCurrent
    <2> QED
      BY <1>1, <2>1, <2>2 DEF Unlock, Released, TypeOK
  <1> QED
    BY <1>1, <1>2, <1>3, <1>4, <1>5 DEF AfterEnd, Unlock, Released

\* Succeed writes the history of an object on which nobody else runs.
LEMMA SucceedPreserves ==
  ASSUME IInv, NEW m \in Messages, Succeed(m)
  PROVE  /\ IInv'
         /\ history' = [history EXCEPT ![msg[m].obj] = Append(history[msg[m].obj], m)]
  <1> USE DEF IInv
  <1>1. Running(m) /\ AfterEnd(m)
    BY EndFacts DEF Succeed
  <1>2. m \in DOMAIN msg /\ msg[m].obj \in DOMAIN history /\ msg[m].id \in Ids
    BY <1>1 DEF Running, Linked, TypeOK, Handler
  <1>3. msg[m].base = history[msg[m].obj]
    BY <1>1, <1>2 DEF RunsOnCurrent
  <1>4. history' = [history EXCEPT ![msg[m].obj] = Append(history[msg[m].obj], m)]
    BY <1>3 DEF Succeed
  <1>5. history' \in [DOMAIN history -> Seq(Messages)]
    <2>1. history[msg[m].obj] \in Seq(Messages)
      BY <1>2 DEF TypeOK
    <2>2. Append(history[msg[m].obj], m) \in Seq(Messages)
      BY <2>1
    <2> QED
      BY <1>4, <2>2 DEF TypeOK
  <1>6. answered' \in [Ids -> Seq(Messages)]
    <2>1. Append(answered[msg[m].id], m) \in Seq(Messages)
      BY <1>2 DEF TypeOK
    <2> QED
      BY <1>2, <2>1 DEF Succeed, TypeOK
  <1>7. TypeOK'
    BY <1>1, <1>5, <1>6 DEF TypeOK, AfterEnd
  <1>8. Linked'
    BY <1>1, <1>4, <1>5 DEF Linked, AfterEnd
  <1>9. Held' /\ RunsOnCurrent'
    BY <1>1, <1>2, <1>4 DEF Held, RunsOnCurrent, TypeOK, Linked, AfterEnd
  <1> QED
    BY <1>4, <1>7, <1>8, <1>9

LEMMA FailPreserves ==
  ASSUME IInv, NEW m \in Messages, Fail(m)
  PROVE  IInv'
  <1> USE DEF IInv
  <1>1. AfterEnd(m) /\ history' = history /\ answered' = answered
    BY EndFacts DEF Fail, AfterFailure
  <1>2. TypeOK'
    BY <1>1 DEF TypeOK, AfterEnd
  <1>3. Linked'
    BY <1>1 DEF Linked, AfterEnd
  <1>4. Held' /\ RunsOnCurrent'
    BY <1>1 DEF Held, RunsOnCurrent, AfterEnd
  <1> QED
    BY <1>2, <1>3, <1>4

\* The reaper only drops entries of the map.
LEMMA ReapPreserves ==
  ASSUME IInv, NEW I \in SUBSET Ids, Reap(I)
  PROVE  IInv'
  <1> USE DEF IInv
  <1>1. /\ DOMAIN sessions' \subseteq DOMAIN sessions
        /\ \A i \in DOMAIN sessions' : sessions'[i] = sessions[i]
        /\ sessions' \in [DOMAIN sessions' -> Entry]
    BY DEF Reap, TypeOK, Without
  <1>2. TypeOK'
    BY <1>1 DEF Reap, TypeOK
  <1>3. Linked'
    BY <1>1 DEF Reap, Linked
  <1>4. Held' /\ RunsOnCurrent'
    BY DEF Reap, Held, RunsOnCurrent, Running
  <1> QED
    BY <1>2, <1>3, <1>4

\* The end of a process drops its entries and handlers, and frees the mutexes
\* of these handlers only.
LEMMA ProcessEndsPreserves ==
  ASSUME IInv, NEW I \in SUBSET Ids, ProcessEnds(I)
  PROVE  IInv'
  <1> USE DEF IInv
  <1> DEFINE cut == {m \in DOMAIN msg : msg[m].id \in I}
  <1>1. /\ DOMAIN sessions' \subseteq DOMAIN sessions
        /\ \A i \in DOMAIN sessions' : sessions'[i] = sessions[i]
        /\ sessions' \in [DOMAIN sessions' -> Entry]
    BY DEF ProcessEnds, TypeOK, Without
  <1>2. /\ DOMAIN msg' = DOMAIN msg \ cut
        /\ \A m \in DOMAIN msg' : msg'[m] = msg[m]
        /\ msg' \in [DOMAIN msg' -> Handler]
    BY DEF ProcessEnds, TypeOK, Without
  <1>3. holder' \in [DOMAIN history -> Messages \cup {None}]
    BY DEF ProcessEnds, TypeOK
  <1>4. answered' \in [Ids -> Seq(Messages)]
    <2>1. <<>> \in Seq(Messages)
      OBVIOUS
    <2> QED
      BY <2>1 DEF ProcessEnds, TypeOK
  <1>5. TypeOK'
    BY <1>1, <1>2, <1>3, <1>4 DEF ProcessEnds, TypeOK
  <1>6. Linked'
    BY <1>1, <1>2 DEF ProcessEnds, Linked
  <1>7. ASSUME NEW m \in DOMAIN msg', Running(m)'
        PROVE  holder'[msg'[m].obj] = m /\ msg'[m].base = history'[msg'[m].obj]
    <2>1. m \in DOMAIN msg /\ m \notin cut /\ msg'[m] = msg[m] /\ Running(m)
      BY <1>2, <1>7 DEF Running
    <2>2. /\ holder[msg[m].obj] = m /\ msg[m].base = history[msg[m].obj]
          /\ msg[m].obj \in DOMAIN holder
      BY <2>1 DEF Held, RunsOnCurrent, Linked, TypeOK
    <2>3. holder'[msg[m].obj] = m
      BY <2>1, <2>2 DEF ProcessEnds
    <2> QED
      BY <2>1, <2>2, <2>3 DEF ProcessEnds
  <1> QED
    BY <1>5, <1>6, <1>7 DEF Held, RunsOnCurrent

\* Time changes idle times and ages only.
LEMMA TickPreserves ==
  ASSUME IInv, Tick
  PROVE  IInv'
  <1> USE DEF IInv
  <1>1. /\ DOMAIN sessions' = DOMAIN sessions
        /\ \A i \in DOMAIN sessions : sessions'[i] \in Entry /\ sessions'[i].obj = sessions[i].obj
    <2>1. DOMAIN sessions' = DOMAIN sessions
      BY DEF Tick, InTime
    <2>2. ASSUME NEW i \in DOMAIN sessions
          PROVE  sessions'[i] \in Entry /\ sessions'[i].obj = sessions[i].obj
      BY ConversationAssumption DEF Tick, InTime, TypeOK, Entry
    <2> QED
      BY <2>1, <2>2
  <1>2. /\ DOMAIN msg' = DOMAIN msg
        /\ \A m \in DOMAIN msg :
             /\ msg'[m] \in Handler
             /\ msg'[m].at = msg[m].at
             /\ msg'[m].obj = msg[m].obj
             /\ msg'[m].base = msg[m].base
    <2>1. DOMAIN msg' = DOMAIN msg
      BY DEF Tick, InTime
    <2>2. ASSUME NEW m \in DOMAIN msg
          PROVE  /\ msg'[m] \in Handler
                 /\ msg'[m].at = msg[m].at
                 /\ msg'[m].obj = msg[m].obj
                 /\ msg'[m].base = msg[m].base
      <3>1. msg[m] \in Handler
        BY DEF TypeOK
      <3>2. CASE Running(m)
        <4>1. msg'[m] = [msg[m] EXCEPT !.age = @ + 1] /\ msg[m].age < Timeout
          BY <3>2 DEF Tick, InTime
        <4> QED
          BY <3>1, <4>1, ConversationAssumption DEF Handler
      <3>3. CASE ~Running(m)
        BY <3>1, <3>3 DEF Tick, InTime
      <3> QED
        BY <3>2, <3>3
    <2> QED
      BY <2>1, <2>2
  <1>3. TypeOK'
    <2>1. sessions' \in [DOMAIN sessions' -> Entry]
      BY <1>1 DEF Tick, InTime
    <2>2. msg' \in [DOMAIN msg' -> Handler]
      BY <1>2 DEF Tick, InTime
    <2> QED
      BY <1>1, <1>2, <2>1, <2>2 DEF TypeOK, Tick, InTime
  <1>4. Linked'
    BY <1>1, <1>2 DEF Linked, Tick, InTime
  <1>5. Held' /\ RunsOnCurrent'
    BY <1>2 DEF Held, RunsOnCurrent, Running, Tick, InTime
  <1> QED
    BY <1>3, <1>4, <1>5

LEMMA StepPreserves ==
  ASSUME IInv, NEW I \in SUBSET Ids, Steps(I) \/ UNCHANGED vars
  PROVE  IInv'
  <1>1. ASSUME NEW m \in Messages, NEW i \in Ids,
               GetHit(m, i) \/ \E o \in Objs : GetMiss(m, i, o)
        PROVE  IInv'
    BY <1>1, GetPreserves
  <1>2. ASSUME NEW m \in Messages, Lock(m) PROVE IInv'
    BY <1>2, LockPreserves
  <1>3. ASSUME NEW m \in Messages, Succeed(m) PROVE IInv'
    BY <1>3, SucceedPreserves
  <1>4. ASSUME NEW m \in Messages, Fail(m) PROVE IInv'
    BY <1>4, FailPreserves
  <1>5. CASE Reap(I)
    BY <1>5, ReapPreserves
  <1>6. CASE ProcessEnds(I)
    BY <1>6, ProcessEndsPreserves
  <1>7. CASE Tick
    BY <1>7, TickPreserves
  <1>8. CASE UNCHANGED vars
    BY <1>8 DEF IInv, TypeOK, Linked, Held, RunsOnCurrent, Running, vars
  <1> QED
    BY <1>1, <1>2, <1>3, <1>4, <1>5, <1>6, <1>7, <1>8 DEF Steps

LEMMA InvariantHolds == Spec => []IInv
  <1>1. IInv /\ [Next]_vars => IInv'
    BY StepPreserves, NextSteps
  <1> QED
    BY InitEstablishes, <1>1, PTL DEF Spec

-----------------------------------------------------------------------------
(* The theorems *)

\* Store, handlers and mutexes have their types; no run outlasts its timeout.
THEOREM TypeCorrect == Spec => []TypeOK
  <1>1. IInv => TypeOK
    BY DEF IInv
  <1> QED
    BY <1>1, InvariantHolds, PTL

\* On one conversation object no two messages run at a time, even when the
\* reaper has dropped it from the store.
OneRunPerObject ==
  \A m, n \in DOMAIN msg :
    Running(m) /\ Running(n) /\ msg[m].obj = msg[n].obj => m = n

THEOREM ObjectsAreExclusive == Spec => []OneRunPerObject
  <1>1. IInv => OneRunPerObject
    BY DEF IInv, Held, OneRunPerObject
  <1> QED
    BY <1>1, InvariantHolds, PTL

\* The write-back of handleChat loses no exchange: a history is only ever
\* extended, by the message that read it.
THEOREM NoUpdateLost == Spec => HistoryOnlyGrows
  <1> DEFINE Grows ==
        \A o \in DOMAIN history :
          \/ history'[o] = history[o]
          \/ \E m \in Messages : history'[o] = Append(history[o], m)
  <1>1. IInv /\ [Next]_vars => [Grows]_vars
    <2> SUFFICES ASSUME IInv, Next PROVE Grows
      OBVIOUS
    <2>1. ASSUME NEW m \in Messages, NEW i \in Ids, NEW o \in Objs, GetMiss(m, i, o)
          PROVE  Grows
      BY <2>1 DEF GetMiss, Put
    <2>2. ASSUME NEW m \in Messages, Succeed(m) PROVE Grows
      <3>1. history' = [history EXCEPT ![msg[m].obj] = Append(history[msg[m].obj], m)]
        BY <2>2, SucceedPreserves
      <3> QED
        BY <3>1
    <2>3. CASE history' = history
      BY <2>3
    <2> QED
      BY <2>1, <2>2, <2>3 DEF Next, GetHit, Lock, Fail, AfterFailure, Reap,
        ProcessEnds, Tick, InTime
  <1> QED
    BY <1>1, InvariantHolds, PTL DEF Spec, HistoryOnlyGrows

-----------------------------------------------------------------------------
(* Sessions that keep their object while they have messages *)

\* A mutex is held by a message that runs on its object.
HoldersRun ==
  \A o \in DOMAIN holder : holder[o] # None =>
    Running(holder[o]) /\ msg[holder[o]].obj = o

\* No two entries share an object.
OwnObjects ==
  \A i, j \in DOMAIN sessions : sessions[i].obj = sessions[j].obj => i = j

Kept == NotForgotten /\ OwnObjects /\ HoldersRun

\* What the TTL is for: the reaper finds no session that has messages.
BusySafe == \A m \in DOMAIN msg : ~Expired(msg[m].id)

LEMMA InitKept == Init => Kept
  BY DEF Init, Kept, NotForgotten, OwnObjects, HoldersRun

\* The messages of a session work on one object, so one of them runs at most.
LEMMA OneRuns ==
  ASSUME IInv, Kept, NEW m \in DOMAIN msg, NEW n \in DOMAIN msg, msg[m].id = msg[n].id
  PROVE  /\ msg[m].obj = msg[n].obj
         /\ Running(m) => m # None /\ holder[msg[n].obj] = m
         /\ Running(m) /\ Running(n) => m = n
  <1>1. m \in Messages /\ n \in Messages
    BY DEF IInv, TypeOK
  <1>2. msg[m].obj = msg[n].obj
    BY DEF Kept, NotForgotten
  <1> QED
    BY <1>1, <1>2, ConversationAssumption DEF IInv, Held

\* A new message works on the object of its entry, which is a new one if the
\* entry is.
NewMessage(m, i, o) ==
  /\ m \notin DOMAIN msg /\ DOMAIN msg' = DOMAIN msg \cup {m}
  /\ msg'[m] = [at |-> "waiting", id |-> i, obj |-> o, base |-> <<>>, age |-> 0]
  /\ \A n \in DOMAIN msg : msg'[n] = msg[n]
  /\ \A n : /\ Running(n)' <=> Running(n)
            /\ Running(n) => n \in DOMAIN msg /\ msg'[n] = msg[n]
  /\ DOMAIN sessions' = DOMAIN sessions \cup {i}
  /\ sessions'[i].obj = o /\ sessions'[i].idle = 0
  /\ \A j \in DOMAIN sessions : j # i => sessions'[j] = sessions[j]
  /\ i \in DOMAIN sessions => sessions[i].obj = o
  /\ i \notin DOMAIN sessions => o \notin DOMAIN history

LEMMA GetFacts ==
  ASSUME IInv, NEW m \in Messages, NEW i \in Ids, NEW o \in Objs, Waits(m, i, o),
         \/ GetHit(m, i) /\ o = sessions[i].obj
         \/ GetMiss(m, i, o)
  PROVE  NewMessage(m, i, o)
  <1>1. /\ m \notin DOMAIN msg /\ DOMAIN msg' = DOMAIN msg \cup {m}
        /\ msg'[m] = [at |-> "waiting", id |-> i, obj |-> o, base |-> <<>>, age |-> 0]
        /\ \A n \in DOMAIN msg : msg'[n] = msg[n]
    BY DEF Waits, Put, IInv, TypeOK
  <1>2. /\ DOMAIN sessions' = DOMAIN sessions \cup {i}
        /\ sessions'[i].obj = o /\ sessions'[i].idle = 0
        /\ \A j \in DOMAIN sessions : j # i => sessions'[j] = sessions[j]
        /\ i \in DOMAIN sessions => sessions[i].obj = o
        /\ i \notin DOMAIN sessions => o \notin DOMAIN history
    <2>1. CASE GetHit(m, i) /\ o = sessions[i].obj
      <3>1. sessions[i] \in Entry
        BY <2>1 DEF GetHit, IInv, TypeOK
      <3> QED
        BY <2>1, <3>1 DEF GetHit, Entry
    <2>2. CASE GetMiss(m, i, o)
      BY <2>2 DEF GetMiss, Put
    <2> QED
      BY <2>1, <2>2
  <1>3. \A n : /\ Running(n)' <=> Running(n)
               /\ Running(n) => n \in DOMAIN msg /\ msg'[n] = msg[n]
    BY <1>1 DEF Running
  <1> QED
    BY <1>1, <1>2, <1>3 DEF NewMessage

LEMMA GetKept ==
  ASSUME IInv, Kept, NEW m \in Messages, NEW i \in Ids, NEW o \in Objs, Waits(m, i, o),
         \/ GetHit(m, i) /\ o = sessions[i].obj
         \/ GetMiss(m, i, o)
  PROVE  Kept'
  <1>0. NewMessage(m, i, o)
    BY GetFacts
  <1>1. /\ DOMAIN holder \subseteq DOMAIN holder'
        /\ \A p \in DOMAIN holder : holder'[p] = holder[p]
        /\ \A p \in DOMAIN holder' : p \notin DOMAIN holder => holder'[p] = None
    <2>1. CASE GetHit(m, i)
      BY <2>1 DEF GetHit
    <2>2. CASE GetMiss(m, i, o)
      BY <2>2 DEF GetMiss, Put, IInv, TypeOK
    <2> QED
      BY <2>1, <2>2
  <1>2. NotForgotten'
    BY <1>0 DEF NewMessage, NotForgotten, Kept
  <1>3. OwnObjects'
    <2>1. \A j \in DOMAIN sessions : sessions[j].obj \in DOMAIN history
      BY DEF IInv, Linked
    <2> QED
      BY <1>0, <2>1 DEF NewMessage, OwnObjects, Kept
  <1>4. HoldersRun'
    BY <1>0, <1>1 DEF NewMessage, HoldersRun, Kept
  <1> QED
    BY <1>2, <1>3, <1>4 DEF Kept

LEMMA LockFacts ==
  ASSUME IInv, NEW m \in Messages, Lock(m)
  PROVE  /\ m \in DOMAIN msg /\ holder[msg[m].obj] = None /\ msg[m].obj \in DOMAIN holder
         /\ DOMAIN msg' = DOMAIN msg
         /\ \A n \in DOMAIN msg :
              /\ msg'[n].id = msg[n].id /\ msg'[n].obj = msg[n].obj
              /\ msg'[n].age = msg[n].age
              /\ Running(n)' <=> Running(n) \/ n = m
  <1>1. msg[m] \in Handler /\ m \in DOMAIN msg /\ msg[m].at = "waiting"
    BY DEF Lock, CanRun, IInv, TypeOK
  <1>2. msg' = [msg EXCEPT ![m] = [msg[m] EXCEPT !.at = "running",
                                     !.base = history[msg[m].obj]]]
    BY <1>1 DEF Lock
  <1> QED
    BY <1>1, <1>2 DEF Handler, Running, Lock, CanRun, IInv, TypeOK, Linked

LEMMA LockKept ==
  ASSUME IInv, Kept, NEW m \in Messages, Lock(m)
  PROVE  Kept'
  <1> USE LockFacts
  <1>1. /\ DOMAIN holder' = DOMAIN holder /\ holder'[msg[m].obj] = m
        /\ \A o \in DOMAIN holder : o # msg[m].obj => holder'[o] = holder[o]
        /\ sessions' = sessions
    BY DEF Lock
  <1>2. NotForgotten' /\ OwnObjects'
    BY <1>1 DEF Kept, NotForgotten, OwnObjects
  <1>3. ASSUME NEW o \in DOMAIN holder, holder'[o] # None
        PROVE  Running(holder[o])' /\ msg'[holder'[o]].obj = o
    <2>1. CASE o = msg[m].obj
      BY <1>1, <2>1
    <2>2. CASE o # msg[m].obj
      <3>1. Running(holder[o]) /\ msg[holder[o]].obj = o /\ holder'[o] = holder[o]
        BY <1>1, <1>3, <2>2 DEF Kept, HoldersRun
      <3>2. holder[o] \in DOMAIN msg
        BY <3>1 DEF Running
      <3> QED
        BY <3>1, <3>2
    <2> QED
      BY <2>1, <2>2
  <1> QED
    BY <1>1, <1>2, <1>3 DEF Kept, HoldersRun

LEMMA EndKept ==
  ASSUME IInv, Kept, NEW m \in Messages, Running(m), Unlock(m)
  PROVE  Kept'
  <1>1. /\ DOMAIN msg' = DOMAIN msg \ {m} /\ sessions' = sessions
        /\ \A n \in DOMAIN msg' : msg'[n] = msg[n]
        /\ \A n \in DOMAIN msg' : Running(n)' <=> Running(n)
    BY EndFacts DEF AfterEnd, Running
  <1>2. NotForgotten' /\ OwnObjects'
    BY <1>1 DEF Kept, NotForgotten, OwnObjects
  <1>3. ASSUME NEW o \in DOMAIN holder', holder'[o] # None
        PROVE  Running(holder[o])' /\ msg'[holder'[o]].obj = o
    <2>1. o \in DOMAIN holder /\ o # msg[m].obj /\ holder'[o] = holder[o]
      BY <1>3 DEF Unlock, Released
    <2>2. Running(holder[o]) /\ msg[holder[o]].obj = o
      BY <1>3, <2>1 DEF Kept, HoldersRun
    <2>3. holder[o] \in DOMAIN msg'
      BY <1>1, <2>1, <2>2 DEF Running
    <2> QED
      BY <1>1, <2>1, <2>2, <2>3
  <1> QED
    BY <1>2, <1>3 DEF Kept, HoldersRun

LEMMA ReapKept ==
  ASSUME Kept, BusySafe, NEW I, Reap(I)
  PROVE  Kept'
  <1>1. /\ msg' = msg /\ holder' = holder
        /\ DOMAIN sessions' = {i \in DOMAIN sessions : ~(i \in I /\ Expired(i))}
        /\ \A i \in DOMAIN sessions' : sessions'[i] = sessions[i]
    BY DEF Reap, Without
  <1> QED
    BY <1>1 DEF Kept, NotForgotten, OwnObjects, HoldersRun, Running, BusySafe

\* With a process its entries, its handlers and their locks are gone.
LEMMA ProcessEndsKept ==
  ASSUME Kept, NEW I, ProcessEnds(I)
  PROVE  Kept'
  <1>1. /\ DOMAIN sessions' = DOMAIN sessions \ I
        /\ \A i \in DOMAIN sessions' : sessions'[i] = sessions[i]
        /\ DOMAIN msg' = {m \in DOMAIN msg : msg[m].id \notin I}
        /\ \A m \in DOMAIN msg' : msg'[m] = msg[m]
    BY DEF ProcessEnds, Without
  <1>2. NotForgotten' /\ OwnObjects'
    BY <1>1 DEF Kept, NotForgotten, OwnObjects
  <1>3. ASSUME NEW o \in DOMAIN holder', holder'[o] # None
        PROVE  Running(holder[o])' /\ msg'[holder'[o]].obj = o
    <2>1. o \in DOMAIN holder /\ holder'[o] = holder[o]
          /\ ~(holder[o] \in DOMAIN msg /\ msg[holder[o]].id \in I)
      BY <1>3 DEF ProcessEnds
    <2>2. Running(holder[o]) /\ msg[holder[o]].obj = o /\ holder[o] \in DOMAIN msg
      BY <1>3, <2>1 DEF Kept, HoldersRun, Running
    <2> QED
      BY <1>1, <2>1, <2>2 DEF Running
  <1> QED
    BY <1>2, <1>3 DEF Kept, HoldersRun

LEMMA TickFacts ==
  ASSUME IInv, Tick
  PROVE  /\ holder' = holder /\ DOMAIN msg' = DOMAIN msg
         /\ DOMAIN sessions' = DOMAIN sessions
         /\ \A i \in DOMAIN sessions :
              /\ sessions[i].idle \in Nat /\ sessions'[i].idle \in Nat
              /\ sessions'[i].idle <= sessions[i].idle + 1
              /\ sessions'[i].obj = sessions[i].obj
         /\ \A m \in DOMAIN msg :
              /\ msg'[m].id = msg[m].id /\ msg'[m].obj = msg[m].obj
              /\ Running(m)' <=> Running(m)
              /\ msg[m].age \in Nat
              /\ msg'[m].age = IF Running(m) THEN msg[m].age + 1 ELSE msg[m].age
  <1>1. /\ holder' = holder /\ DOMAIN msg' = DOMAIN msg
        /\ DOMAIN sessions' = DOMAIN sessions
    BY DEF Tick, InTime
  <1>2. ASSUME NEW i \in DOMAIN sessions
        PROVE  /\ sessions[i].idle \in Nat /\ sessions'[i].idle \in Nat
               /\ sessions'[i].idle <= sessions[i].idle + 1
               /\ sessions'[i].obj = sessions[i].obj
    BY ConversationAssumption DEF Tick, InTime, IInv, TypeOK, Entry
  <1>3. ASSUME NEW m \in DOMAIN msg
        PROVE  /\ msg'[m].id = msg[m].id /\ msg'[m].obj = msg[m].obj
               /\ Running(m)' <=> Running(m)
               /\ msg[m].age \in Nat
               /\ msg'[m].age = IF Running(m) THEN msg[m].age + 1 ELSE msg[m].age
    <2>1. msg[m] \in Handler
      BY DEF IInv, TypeOK
    <2>2. msg'[m] = IF Running(m) THEN [msg[m] EXCEPT !.age = @ + 1] ELSE msg[m]
      BY DEF Tick, InTime
    <2> QED
      BY <1>1, <2>1, <2>2, ConversationAssumption DEF Handler, Running
  <1> QED
    BY <1>1, <1>2, <1>3

LEMMA TickKept ==
  ASSUME IInv, Kept, Tick
  PROVE  Kept'
  <1> USE TickFacts
  <1>1. NotForgotten' /\ OwnObjects'
    BY DEF Kept, NotForgotten, OwnObjects
  <1>2. ASSUME NEW o \in DOMAIN holder, holder[o] # None
        PROVE  Running(holder[o])' /\ msg'[holder[o]].obj = o
    <2>1. Running(holder[o]) /\ msg[holder[o]].obj = o
      BY <1>2 DEF Kept, HoldersRun
    <2>2. holder[o] \in DOMAIN msg
      BY <2>1 DEF Running
    <2> QED
      BY <2>1, <2>2
  <1> QED
    BY <1>1, <1>2 DEF Kept, HoldersRun

\* Time only passes for a session with messages while one of them runs.
LEMMA TickRuns ==
  ASSUME IInv, Kept, Tick, NEW m \in DOMAIN msg
  PROVE  \E n \in DOMAIN msg : Running(n) /\ msg[n].id = msg[m].id
  <1>1. msg[m] \in Handler /\ msg[m].obj \in DOMAIN holder /\ ~CanRun(m)
    BY DEF IInv, TypeOK, Linked, Tick
  <1>2. CASE Running(m)
    BY <1>2
  <1>3. CASE ~Running(m)
    <2>1. holder[msg[m].obj] # None
      BY <1>1, <1>3 DEF CanRun, Running, Handler
    <2>2. PICK n : n = holder[msg[m].obj]
      OBVIOUS
    <2>3. Running(n) /\ n \in DOMAIN msg /\ msg[n].obj = msg[m].obj
      BY <1>1, <2>1, <2>2 DEF Kept, HoldersRun, Running
    <2>4. msg[n].id = msg[m].id
      BY <2>3 DEF Kept, NotForgotten, OwnObjects
    <2> QED
      BY <2>3, <2>4
  <1> QED
    BY <1>2, <1>3

LEMMA StepKept ==
  ASSUME IInv, Kept, BusySafe, NEW I, Steps(I) \/ UNCHANGED vars
  PROVE  Kept'
  <1>1. ASSUME NEW m \in Messages, NEW i \in Ids, GetHit(m, i) PROVE Kept'
    <2>1. PICK o \in Objs : o = sessions[i].obj
      BY <1>1 DEF GetHit, IInv, TypeOK, Entry
    <2> QED
      BY <1>1, <2>1, GetKept DEF GetHit
  <1>2. ASSUME NEW m \in Messages, NEW i \in Ids, NEW o \in Objs, GetMiss(m, i, o)
        PROVE  Kept'
    BY <1>2, GetKept DEF GetMiss
  <1>3. ASSUME NEW m \in Messages, Lock(m) PROVE Kept'
    BY <1>3, LockKept
  <1>4. ASSUME NEW m \in Messages, Succeed(m) \/ Fail(m) PROVE Kept'
    BY <1>4, EndKept DEF Succeed, Fail
  <1>5. CASE Reap(I)
    BY <1>5, ReapKept
  <1>6. CASE ProcessEnds(I)
    BY <1>6, ProcessEndsKept
  <1>7. CASE Tick
    BY <1>7, TickKept
  <1>8. CASE UNCHANGED vars
    BY <1>8 DEF vars, Kept, NotForgotten, OwnObjects, HoldersRun, Running
  <1> QED
    BY <1>1, <1>2, <1>3, <1>4, <1>5, <1>6, <1>7, <1>8 DEF Steps

\* Mu of the object is then Mu of the session.
LEMMA KeptExcludes == IInv /\ Kept => OneRunPerSession
  BY OneRuns DEF OneRunPerSession

\* What a step answers goes to the object of its session's entry; an entry that
\* is new has an empty history.
LEMMA AnswerStep ==
  ASSUME IInv, Kept, NEW I, Steps(I), NEW i \in DOMAIN sessions'
  PROVE  \/ /\ i \notin DOMAIN sessions
            /\ history'[sessions'[i].obj] = <<>>
            /\ answered'[i] = answered[i]
         \/ /\ i \in DOMAIN sessions
            /\ history'[sessions'[i].obj] = history[sessions[i].obj]
            /\ answered'[i] = answered[i]
         \/ /\ i \in DOMAIN sessions
            /\ \E m \in Messages :
                 /\ history'[sessions'[i].obj] = Append(history[sessions[i].obj], m)
                 /\ answered'[i] = Append(answered[i], m)
  <1>1. /\ DOMAIN sessions \subseteq Ids
        /\ \A j \in DOMAIN sessions : sessions[j].obj \in DOMAIN history
    BY DEF IInv, TypeOK, Linked
  <1>2. ASSUME NEW m \in Messages, NEW j \in Ids, GetHit(m, j)
        PROVE  /\ i \in DOMAIN sessions
               /\ history'[sessions'[i].obj] = history[sessions[i].obj]
               /\ answered'[i] = answered[i]
    BY <1>2 DEF GetHit, Waits, IInv, TypeOK, Entry
  <1>3. ASSUME NEW m \in Messages, NEW j \in Ids, NEW o \in Objs, GetMiss(m, j, o)
        PROVE  /\ answered' = answered
               /\ \/ i \notin DOMAIN sessions /\ history'[sessions'[i].obj] = <<>>
                  \/ /\ i \in DOMAIN sessions
                     /\ history'[sessions'[i].obj] = history[sessions[i].obj]
    <2>1. /\ DOMAIN sessions' = DOMAIN sessions \cup {j} /\ j \notin DOMAIN sessions
          /\ sessions'[j].obj = o /\ history'[o] = <<>>
          /\ \A k \in DOMAIN sessions : sessions'[k] = sessions[k]
          /\ \A p \in DOMAIN history : history'[p] = history[p]
          /\ answered' = answered
      BY <1>3 DEF GetMiss, Waits, Put
    <2> QED
      BY <1>1, <2>1
  <1>4. ASSUME NEW m \in Messages, Succeed(m)
        PROVE  /\ i \in DOMAIN sessions
               /\ \/ /\ history'[sessions'[i].obj] = history[sessions[i].obj]
                     /\ answered'[i] = answered[i]
                  \/ /\ history'[sessions'[i].obj] = Append(history[sessions[i].obj], m)
                     /\ answered'[i] = Append(answered[i], m)
    <2>1. /\ history' = [history EXCEPT ![msg[m].obj] = Append(history[msg[m].obj], m)]
          /\ answered' = [answered EXCEPT ![msg[m].id] = Append(answered[msg[m].id], m)]
          /\ sessions' = sessions
      BY <1>4, SucceedPreserves DEF Succeed, Unlock
    <2>2. m \in DOMAIN msg /\ msg[m].id \in DOMAIN sessions
          /\ sessions[msg[m].id].obj = msg[m].obj
      BY <1>4 DEF Succeed, Running, Kept, NotForgotten
    <2>3. CASE i = msg[m].id
      BY <1>1, <2>1, <2>2, <2>3 DEF IInv, TypeOK
    <2>4. CASE i # msg[m].id
      <3>1. sessions[i].obj # msg[m].obj
        BY <2>1, <2>2, <2>4 DEF Kept, OwnObjects
      <3> QED
        BY <1>1, <2>1, <2>4, <3>1 DEF IInv, TypeOK
    <2> QED
      BY <2>3, <2>4
  <1>5. ASSUME \/ \E m \in Messages : Lock(m) \/ Fail(m)
               \/ Reap(I)
               \/ ProcessEnds(I)
               \/ Tick
        PROVE  /\ i \in DOMAIN sessions
               /\ history'[sessions'[i].obj] = history[sessions[i].obj]
               /\ answered'[i] = answered[i]
    <2>1. CASE \E m \in Messages : Lock(m) \/ Fail(m)
      BY <2>1 DEF Lock, Fail, AfterFailure, Unlock
    <2>2. CASE Reap(I)
      BY <2>2 DEF Reap, Without
    <2>3. CASE ProcessEnds(I)
      BY <1>1, <2>3 DEF ProcessEnds, Without
    <2>4. CASE Tick
      BY <2>4, TickFacts DEF Tick
    <2> QED
      BY <1>5, <2>1, <2>2, <2>3, <2>4
  <1> QED
    BY <1>2, <1>3, <1>4, <1>5 DEF Steps

LEMMA SuffixGrows ==
  ASSUME NEW S, NEW s \in Seq(S), NEW t \in Seq(S), NEW x \in S, IsSuffix(s, t)
  PROVE  IsSuffix(Append(s, x), Append(t, x))
  <1> DEFINE u == Append(s, x)
             v == Append(t, x)
             w == SubSeq(v, Len(v) - Len(u) + 1, Len(v))
  <1>1. /\ Len(s) \in Nat /\ Len(t) \in Nat /\ Len(s) <= Len(t)
        /\ u \in Seq(S) /\ v \in Seq(S)
        /\ Len(u) = Len(s) + 1 /\ Len(v) = Len(t) + 1
    BY DEF IsSuffix
  <1>2. w \in Seq(S) /\ Len(w) = Len(u)
    BY <1>1
  <1>3. ASSUME NEW k \in 1..Len(u) PROVE w[k] = u[k]
    <2>1. w[k] = v[Len(t) - Len(s) + k]
      BY <1>1
    <2>2. CASE k = Len(u)
      BY <1>1, <2>1, <2>2
    <2>3. CASE k # Len(u)
      <3>1. k \in 1..Len(s) /\ s[k] = t[Len(t) - Len(s) + k]
        BY <1>1, <2>3 DEF IsSuffix
      <3> QED
        BY <1>1, <2>1, <3>1
    <2> QED
      BY <2>2, <2>3
  <1>4. w = u
    BY <1>1, <1>2, <1>3, SeqEqual
  <1> QED
    BY <1>1, <1>4 DEF IsSuffix

LEMMA EmptySuffix ==
  ASSUME NEW S, NEW t \in Seq(S)
  PROVE  IsSuffix(<<>>, t)
  <1>1. Len(t) \in Nat /\ Len(<<>>) = 0
    OBVIOUS
  <1>2. Len(<<>>) <= Len(t) /\ Len(t) - Len(<<>>) + 1 = Len(t) + 1
    BY <1>1
  <1>3. SubSeq(t, Len(t) + 1, Len(t)) = <<>>
    BY <1>1
  <1>4. SubSeq(t, Len(t) - Len(<<>>) + 1, Len(t)) = <<>>
    BY ONLY <1>2, <1>3, Zenon
  <1> QED
    BY ONLY <1>2, <1>4, Zenon DEF IsSuffix

LEMMA HistoryStep ==
  ASSUME IInv, Kept, HistoryFaithful, NEW I \in SUBSET Ids, Steps(I)
  PROVE  HistoryFaithful'
  <1>1. ASSUME NEW i \in DOMAIN sessions'
        PROVE  IsSuffix(history'[sessions'[i].obj], answered'[i])
    <2>1. CASE i \notin DOMAIN sessions
      <3>1. i \in Ids /\ answered[i] \in Seq(Messages)
        BY StepPreserves DEF IInv, TypeOK
      <3> QED
        BY <2>1, <3>1, AnswerStep, EmptySuffix
    <2>2. CASE i \in DOMAIN sessions
      <3>1. /\ history[sessions[i].obj] \in Seq(Messages) /\ answered[i] \in Seq(Messages)
            /\ IsSuffix(history[sessions[i].obj], answered[i])
        BY <2>2 DEF IInv, TypeOK, Linked, HistoryFaithful
      <3>2. CASE /\ history'[sessions'[i].obj] = history[sessions[i].obj]
                 /\ answered'[i] = answered[i]
        BY <3>1, <3>2
      <3>3. ASSUME NEW m \in Messages,
                   history'[sessions'[i].obj] = Append(history[sessions[i].obj], m),
                   answered'[i] = Append(answered[i], m)
            PROVE  IsSuffix(history'[sessions'[i].obj], answered'[i])
        BY <3>1, <3>3, SuffixGrows
      <3> QED
        BY <2>2, <3>2, <3>3, AnswerStep
    <2> QED
      BY <2>1, <2>2
  <1> QED
    BY <1>1 DEF HistoryFaithful

-----------------------------------------------------------------------------
(* A TTL that outlasts every queue *)

Queue(i) == {m \in DOMAIN msg : msg[m].id = i}

\* No session ever has more than Q messages that wait or run.
QueuesBounded(Q) == \A i \in Ids : Cardinality(Queue(i)) <= Q

\* How long the messages that have left the queue, or never came, would take.
Room(Q, i) == Timeout * (Q - Cardinality(Queue(i)))

\* The entry of a session that has messages has been idle for no longer than
\* those that are done may have taken, and the running one has.
IdleBounded(Q) ==
  /\ IsFiniteSet(DOMAIN msg)
  /\ \A m \in DOMAIN msg : ~Running(m) => msg[m].age = 0
  /\ \A i \in Ids : \A m \in Queue(i) :
       /\ Running(m) => sessions[i].idle <= Room(Q, i) + msg[m].age
       /\ (\A n \in Queue(i) : ~Running(n)) => sessions[i].idle <= Room(Q, i)

KeepInv(Q) == Kept /\ IdleBounded(Q)

LEMMA RoomArithmetic ==
  ASSUME NEW T \in Nat, NEW Q \in Nat, NEW n \in Nat, n <= Q
  PROVE  /\ T * (Q - n) \in Nat
         /\ n > 0 => /\ T * (Q - n) + T <= Q * T
                     /\ T * (Q - (n - 1)) = T * (Q - n) + T
  <1>1. T * (Q - n) \in Nat
    OBVIOUS
  <1>2. ASSUME n > 0 PROVE T * (Q - n) + T <= Q * T
    <2>1. n - 1 \in Nat /\ T * (n - 1) \in Nat
      BY <1>2
    <2>2. Q * T = T * (Q - n) + T * (n - 1) + T
      OBVIOUS
    <2>3. T * (Q - n) \in Int
      OBVIOUS
    <2> QED
      BY <2>1, <2>2, <2>3
  <1>3. T * (Q - (n - 1)) = T * (Q - n) + T
    OBVIOUS
  <1> QED
    BY <1>1, <1>2, <1>3

LEMMA QueueFacts ==
  ASSUME NEW i, IsFiniteSet(DOMAIN msg)
  PROVE  /\ IsFiniteSet(Queue(i)) /\ Cardinality(Queue(i)) \in Nat
         /\ Cardinality(Queue(i)) = 0 <=> Queue(i) = {}
  <1>1. IsFiniteSet(Queue(i))
    BY FS_Subset DEF Queue
  <1> QED
    BY <1>1, FS_CardinalityType, FS_EmptySet

LEMMA RoomType ==
  ASSUME NEW Q \in Nat, NEW i, IsFiniteSet(DOMAIN msg)
  PROVE  Room(Q, i) \in Int
  BY QueueFacts, ConversationAssumption DEF Room

LEMMA SameRoom ==
  ASSUME NEW Q, DOMAIN msg' = DOMAIN msg, \A m \in DOMAIN msg : msg'[m].id = msg[m].id,
         NEW i
  PROVE  Queue(i)' = Queue(i) /\ Room(Q, i)' = Room(Q, i)
  <1>1. Queue(i)' = Queue(i)
    BY DEF Queue
  <1> QED
    BY <1>1 DEF Room

\* There is no message whose entry may be reaped.
LEMMA BusyNotExpired ==
  ASSUME NEW Q \in Nat, TTL >= Q * Timeout, IInv, KeepInv(Q), QueuesBounded(Q)
  PROVE  BusySafe
  <1> SUFFICES ASSUME NEW m \in DOMAIN msg, NEW i, i = msg[m].id PROVE ~Expired(i)
    BY DEF BusySafe
  <1>1. i \in Ids /\ m \in Queue(i) /\ i \in DOMAIN sessions /\ sessions[i].idle \in Nat
    BY ConversationAssumption DEF KeepInv, Kept, NotForgotten, Queue, IInv, TypeOK, Handler, Entry
  <1>2. /\ Cardinality(Queue(i)) \in Nat /\ Cardinality(Queue(i)) > 0
        /\ Cardinality(Queue(i)) <= Q
    BY <1>1, QueueFacts DEF KeepInv, IdleBounded, QueuesBounded
  <1>3. /\ Room(Q, i) \in Nat /\ Room(Q, i) + Timeout <= Q * Timeout
        /\ Timeout \in Nat /\ TTL \in Nat /\ Q * Timeout \in Nat
    BY <1>2, RoomArithmetic, ConversationAssumption DEF Room
  <1>4. CASE \E n \in Queue(i) : Running(n)
    <2>1. PICK n \in Queue(i) : Running(n)
      BY <1>4
    <2>2. msg[n].age \in Nat /\ msg[n].age <= Timeout
      BY ConversationAssumption DEF Queue, IInv, TypeOK, Handler
    <2>3. sessions[i].idle <= Room(Q, i) + msg[n].age
      BY <1>1, <2>1 DEF KeepInv, IdleBounded
    <2> QED
      BY <1>1, <1>3, <2>2, <2>3 DEF Expired
  <1>5. CASE \A n \in Queue(i) : ~Running(n)
    <2>1. sessions[i].idle <= Room(Q, i)
      BY <1>1, <1>5 DEF KeepInv, IdleBounded
    <2> QED
      BY <1>1, <1>3, <2>1 DEF Expired
  <1> QED
    BY <1>4, <1>5

\* A new message sets the idle time of its entry to zero.
LEMMA GetBounded ==
  ASSUME NEW Q \in Nat, IInv, KeepInv(Q), QueuesBounded(Q)',
         NEW m \in Messages, NEW i \in Ids, NEW o \in Objs, Waits(m, i, o),
         \/ GetHit(m, i) /\ o = sessions[i].obj
         \/ GetMiss(m, i, o)
  PROVE  IdleBounded(Q)'
  <1>0. NewMessage(m, i, o)
    BY GetFacts
  <1>1. IsFiniteSet(DOMAIN msg')
    BY <1>0, FS_AddElement DEF NewMessage, KeepInv, IdleBounded
  <1>2. ASSUME NEW n \in DOMAIN msg', ~Running(n)' PROVE msg'[n].age = 0
    BY <1>0, <1>2 DEF NewMessage, KeepInv, IdleBounded
  <1>3. ASSUME NEW n \in Queue(i)'
        PROVE  /\ Running(n)' => sessions'[i].idle <= Room(Q, i)' + msg'[n].age
               /\ sessions'[i].idle <= Room(Q, i)'
    <2>1. Cardinality(Queue(i)') \in Nat /\ Cardinality(Queue(i)') <= Q
      <3>1. IsFiniteSet(Queue(i)')
        BY <1>1, FS_Subset DEF Queue
      <3> QED
        BY <3>1, FS_CardinalityType DEF QueuesBounded
    <2>2. Room(Q, i)' \in Nat
      BY <2>1, RoomArithmetic, ConversationAssumption DEF Room
    <2>3. Running(n)' => msg'[n].age \in Nat
      BY <1>0, ConversationAssumption DEF NewMessage, IInv, TypeOK, Handler
    <2> QED
      BY <1>0, <2>2, <2>3 DEF NewMessage
  <1>4. ASSUME NEW j \in Ids, NEW n \in Queue(j)', j # i
        PROVE  /\ Running(n)' => sessions'[j].idle <= Room(Q, j)' + msg'[n].age
               /\ (\A k \in Queue(j)' : ~Running(k)') => sessions'[j].idle <= Room(Q, j)'
    <2>1. Queue(j)' = Queue(j)
      BY <1>0, <1>4 DEF NewMessage, Queue
    <2>2. Room(Q, j)' = Room(Q, j)
      BY <2>1 DEF Room
    <2>3. n \in Queue(j) /\ n \in DOMAIN msg /\ j \in DOMAIN sessions
      BY <1>4, <2>1 DEF Queue, KeepInv, Kept, NotForgotten
    <2> QED
      BY <1>0, <1>4, <2>1, <2>2, <2>3 DEF NewMessage, IdleBounded, KeepInv
  <1> QED
    BY <1>1, <1>2, <1>3, <1>4 DEF IdleBounded

\* The message that takes Mu is the first of its queue to run.
LEMMA LockBounded ==
  ASSUME NEW Q \in Nat, IInv, KeepInv(Q), NEW m \in Messages, Lock(m)
  PROVE  IdleBounded(Q)'
  <1> USE LockFacts
  <1>1. sessions' = sessions
    BY DEF Lock
  <1>2. ASSUME NEW j \in Ids, NEW n \in Queue(j)
        PROVE  /\ Running(n)' => sessions[j].idle <= Room(Q, j) + msg[n].age
               /\ (\A k \in Queue(j) : ~Running(k)') => sessions[j].idle <= Room(Q, j)
    <2>1. n \in DOMAIN msg /\ \A k \in Queue(j) : k \in DOMAIN msg
      BY DEF Queue
    <2>2. CASE n = m
      <3>1. \A k \in Queue(j) : ~Running(k)
        BY <2>2, OneRuns DEF Queue, KeepInv
      <3>2. sessions[j].idle <= Room(Q, j) /\ msg[n].age = 0
        BY <2>1, <3>1 DEF KeepInv, IdleBounded
      <3>3. Room(Q, j) \in Int
        BY RoomType DEF KeepInv, IdleBounded
      <3> QED
        BY <3>2, <3>3
    <2>3. CASE n # m
      BY <2>1, <2>3 DEF KeepInv, IdleBounded
    <2> QED
      BY <2>2, <2>3
  <1>3. \A j : Queue(j)' = Queue(j) /\ Room(Q, j)' = Room(Q, j)
    BY SameRoom
  <1>4. IsFiniteSet(DOMAIN msg') /\ \A n \in DOMAIN msg' : ~Running(n)' => msg'[n].age = 0
    BY DEF KeepInv, IdleBounded
  <1> QED
    BY <1>1, <1>2, <1>3, <1>4 DEF IdleBounded, Queue

\* A message that is done leaves room for its whole timeout.
LEMMA EndBounded ==
  ASSUME NEW Q \in Nat, IInv, KeepInv(Q), QueuesBounded(Q),
         NEW m \in Messages, Running(m), Unlock(m), NEW id, id = msg[m].id
  PROVE  IdleBounded(Q)'
  <1>1. /\ AfterEnd(m) /\ m \in DOMAIN msg /\ id \in Ids
        /\ msg[m].age \in Nat /\ msg[m].age <= Timeout
    <2>1. AfterEnd(m) /\ m \in DOMAIN msg
      BY EndFacts DEF AfterEnd
    <2>2. msg[m] \in Handler
      BY <2>1 DEF IInv, TypeOK
    <2> QED
      BY <2>1, <2>2, ConversationAssumption DEF Handler
  <1>2. /\ DOMAIN msg' = DOMAIN msg \ {m} /\ sessions' = sessions
        /\ \A n \in DOMAIN msg' : n # m /\ msg'[n] = msg[n]
        /\ \A n \in DOMAIN msg' : Running(n)' <=> Running(n)
    BY <1>1 DEF AfterEnd, Running
  <1>3. IsFiniteSet(DOMAIN msg')
    BY <1>2, FS_Subset DEF KeepInv, IdleBounded
  <1>4. ASSUME NEW n \in DOMAIN msg', ~Running(n)' PROVE msg'[n].age = 0
    BY <1>2, <1>4 DEF KeepInv, IdleBounded
  <1>5. m \in Queue(id) /\ Queue(id)' = Queue(id) \ {m}
    BY <1>1, <1>2 DEF Queue
  <1>6. Room(Q, id)' = Room(Q, id) + Timeout
    <2>1. /\ Cardinality(Queue(id)) \in Nat /\ Cardinality(Queue(id)) > 0
          /\ Cardinality(Queue(id)) <= Q /\ IsFiniteSet(Queue(id))
      BY <1>1, <1>5, QueueFacts DEF KeepInv, IdleBounded, QueuesBounded
    <2>2. Cardinality(Queue(id)') = Cardinality(Queue(id)) - 1
      BY <1>5, <2>1, FS_RemoveElement
    <2> QED
      BY <2>1, <2>2, RoomArithmetic, ConversationAssumption DEF Room
  <1>7. ASSUME NEW n \in Queue(id)'
        PROVE  ~Running(n)' /\ sessions[id].idle <= Room(Q, id)'
    <2>1. n \in Queue(id) /\ n # m /\ n \in DOMAIN msg'
      BY <1>2, <1>5 DEF Queue
    <2>2. ~Running(n)'
      BY <1>2, <1>5, <2>1, OneRuns DEF Queue, KeepInv
    <2>3. sessions[id].idle <= Room(Q, id) + msg[m].age
      BY <1>1, <1>5 DEF KeepInv, IdleBounded
    <2>4. Room(Q, id) \in Int /\ sessions[id].idle \in Nat
      <3>1. id \in DOMAIN sessions
        BY <1>1 DEF KeepInv, Kept, NotForgotten
      <3> QED
        BY <3>1, RoomType, ConversationAssumption DEF KeepInv, IdleBounded, IInv, TypeOK, Entry
    <2> QED
      BY <1>1, <1>6, <2>2, <2>3, <2>4, ConversationAssumption
  <1>8. ASSUME NEW j \in Ids, NEW n \in Queue(j)', j # id
        PROVE  /\ Running(n)' => sessions[j].idle <= Room(Q, j)' + msg'[n].age
               /\ (\A k \in Queue(j)' : ~Running(k)') => sessions[j].idle <= Room(Q, j)'
    <2>1. Queue(j)' = Queue(j)
      BY <1>1, <1>2, <1>8 DEF Queue
    <2>2. Room(Q, j)' = Room(Q, j)
      BY <2>1 DEF Room
    <2>3. n \in Queue(j) /\ \A k \in Queue(j) : k \in DOMAIN msg'
      BY <1>1, <1>2, <1>8, <2>1 DEF Queue
    <2> QED
      BY <1>2, <1>8, <2>1, <2>2, <2>3 DEF KeepInv, IdleBounded
  <1> QED
    BY <1>1, <1>2, <1>3, <1>4, <1>7, <1>8 DEF IdleBounded

LEMMA ReapBounded ==
  ASSUME NEW Q \in Nat, IInv, KeepInv(Q), BusySafe, Reap(Ids)
  PROVE  IdleBounded(Q)'
  <1>1. /\ msg' = msg
        /\ DOMAIN sessions' = {i \in DOMAIN sessions : ~(i \in Ids /\ Expired(i))}
        /\ \A i \in DOMAIN sessions' : sessions'[i] = sessions[i]
    BY DEF Reap, Without
  <1>2. \A i : Queue(i)' = Queue(i) /\ Room(Q, i)' = Room(Q, i)
    BY <1>1 DEF Room, Queue
  <1>3. \A i \in Ids : \A m \in Queue(i) : sessions'[i] = sessions[i]
    BY <1>1 DEF Queue, BusySafe, KeepInv, Kept, NotForgotten
  <1> QED
    BY <1>1, <1>2, <1>3 DEF KeepInv, IdleBounded, Running

LEMMA ProcessEndsBounded ==
  ASSUME NEW Q, IInv, ProcessEnds(Ids)
  PROVE  IdleBounded(Q)'
  <1>1. DOMAIN msg' = {}
    BY DEF ProcessEnds, Without, IInv, TypeOK, Handler
  <1>2. IsFiniteSet(DOMAIN msg')
    BY <1>1, FS_EmptySet
  <1> QED
    BY <1>1, <1>2 DEF IdleBounded, Queue

LEMMA TickBounded ==
  ASSUME NEW Q \in Nat, IInv, KeepInv(Q), Tick
  PROVE  IdleBounded(Q)'
  <1> USE TickFacts
  <1>1. ASSUME NEW n \in DOMAIN msg', ~Running(n)' PROVE msg'[n].age = 0
    BY <1>1 DEF KeepInv, IdleBounded
  <1>2. \A i \in Ids : \A m \in Queue(i) : \E n \in Queue(i) : Running(n)
    BY TickRuns DEF Queue, KeepInv
  <1>3. \A i : Queue(i)' = Queue(i) /\ Room(Q, i)' = Room(Q, i)
    BY SameRoom
  <1>4. ASSUME NEW i \in Ids, NEW m \in Queue(i), Running(m)
        PROVE  sessions'[i].idle <= Room(Q, i) + msg'[m].age
    <2>1. m \in DOMAIN msg /\ i \in DOMAIN sessions
      BY DEF Queue, KeepInv, Kept, NotForgotten
    <2>2. sessions[i].idle <= Room(Q, i) + msg[m].age
      BY <1>4 DEF KeepInv, IdleBounded
    <2>3. Room(Q, i) \in Int
      BY RoomType DEF KeepInv, IdleBounded
    <2> QED
      BY <1>4, <2>1, <2>2, <2>3
  <1>5. \A i \in Ids : \A m \in Queue(i) : m \in DOMAIN msg
    BY DEF Queue
  <1>6. IsFiniteSet(DOMAIN msg')
    BY DEF KeepInv, IdleBounded
  <1> QED
    BY <1>1, <1>2, <1>3, <1>4, <1>5, <1>6 DEF IdleBounded

LEMMA InitBounded == ASSUME NEW Q, Init PROVE KeepInv(Q)
  <1>1. DOMAIN msg = {}
    BY DEF Init
  <1>2. IsFiniteSet(DOMAIN msg)
    BY <1>1, FS_EmptySet
  <1> QED
    BY <1>1, <1>2, InitKept DEF KeepInv, IdleBounded, Queue

LEMMA StepKeeps ==
  ASSUME NEW Q \in Nat, TTL >= Q * Timeout,
         IInv, KeepInv(Q), QueuesBounded(Q), QueuesBounded(Q)', [Next]_vars
  PROVE  KeepInv(Q)'
  <1>1. BusySafe
    BY BusyNotExpired
  <1>2. Kept'
    BY <1>1, StepKept, NextSteps DEF KeepInv
  <1>3. ASSUME NEW m \in Messages, NEW i \in Ids, GetHit(m, i) PROVE IdleBounded(Q)'
    <2>1. PICK o \in Objs : o = sessions[i].obj
      BY <1>3 DEF GetHit, IInv, TypeOK, Entry
    <2> QED
      BY <1>3, <2>1, GetBounded DEF GetHit
  <1>4. ASSUME NEW m \in Messages, NEW i \in Ids, NEW o \in Objs, GetMiss(m, i, o)
        PROVE  IdleBounded(Q)'
    BY <1>4, GetBounded DEF GetMiss
  <1>5. ASSUME NEW m \in Messages, Lock(m) PROVE IdleBounded(Q)'
    BY <1>5, LockBounded
  <1>6. ASSUME NEW m \in Messages, Succeed(m) \/ Fail(m) PROVE IdleBounded(Q)'
    BY <1>6, EndBounded DEF Succeed, Fail
  <1>7. ASSUME Reap(Ids) PROVE IdleBounded(Q)'
    BY <1>1, <1>7, ReapBounded
  <1>8. ASSUME ProcessEnds(Ids) PROVE IdleBounded(Q)'
    BY <1>8, ProcessEndsBounded
  <1>9. ASSUME Tick PROVE IdleBounded(Q)'
    BY <1>9, TickBounded
  <1>10. ASSUME UNCHANGED vars PROVE IdleBounded(Q)'
    <2>1. \A i : Queue(i)' = Queue(i) /\ Room(Q, i)' = Room(Q, i)
      BY <1>10 DEF vars, Queue, Room
    <2> QED
      BY <1>10, <2>1 DEF vars, KeepInv, IdleBounded, Running
  <1>11. IdleBounded(Q)'
    BY <1>3, <1>4, <1>5, <1>6, <1>7, <1>8, <1>9, <1>10 DEF Next
  <1> QED
    BY <1>2, <1>11 DEF KeepInv

LEMMA KeptWhileBounded ==
  ASSUME NEW Q \in Nat, TTL >= Q * Timeout
  PROVE  Spec /\ []QueuesBounded(Q) => [](IInv /\ KeepInv(Q))
  <1> DEFINE B == QueuesBounded(Q)
             K == KeepInv(Q)
  <1>1. Init => K
    BY InitBounded
  <1>2. IInv /\ K /\ B /\ B' /\ [Next]_vars => K'
    BY StepKeeps
  <1> HIDE DEF B, K
  <1>3. Spec /\ []B => []K
    BY <1>1, <1>2, InvariantHolds, PTL DEF Spec
  <1> QED
    BY <1>3, InvariantHolds, PTL DEF B, K

\* A TTL as long as the timeouts of all messages that queue on a session:
\* reap drops no session whose messages are waiting or being answered.
THEOREM KeptWhileBusy ==
  ASSUME NEW Q \in Nat, TTL >= Q * Timeout
  PROVE  Spec /\ []QueuesBounded(Q) => []NotForgotten
  <1> DEFINE B == QueuesBounded(Q)
             K == KeepInv(Q)
  <1>1. K => NotForgotten
    BY DEF KeepInv, Kept
  <1>2. Spec /\ []B => [](IInv /\ K)
    BY KeptWhileBounded
  <1> HIDE DEF B, K
  <1> QED
    BY <1>1, <1>2, PTL DEF B, K

\* Then Mu of the object is Mu of the session: handleChat runs one message of
\* a session at a time.
THEOREM SessionsAreExclusive ==
  ASSUME NEW Q \in Nat, TTL >= Q * Timeout
  PROVE  Spec /\ []QueuesBounded(Q) => []OneRunPerSession
  <1> DEFINE B == QueuesBounded(Q)
             K == KeepInv(Q)
  <1>1. IInv /\ K => OneRunPerSession
    BY KeptExcludes DEF KeepInv
  <1>2. Spec /\ []B => [](IInv /\ K)
    BY KeptWhileBounded
  <1> HIDE DEF B, K
  <1> QED
    BY <1>1, <1>2, PTL DEF B, K

\* Under that TTL the history in the store is the session's latest answers, in
\* order: none is lost between an eviction and a write-back.
THEOREM AnswersKept ==
  ASSUME NEW Q \in Nat, TTL >= Q * Timeout
  PROVE  Spec /\ []QueuesBounded(Q) => []HistoryFaithful
  <1> DEFINE B == QueuesBounded(Q)
             K == KeepInv(Q)
  <1>1. Init => HistoryFaithful
    BY DEF Init, HistoryFaithful
  <1>2. IInv /\ K /\ HistoryFaithful /\ [Next]_vars => HistoryFaithful'
    BY HistoryStep, NextSteps DEF KeepInv, vars, HistoryFaithful
  <1>3. Spec /\ []B => [](IInv /\ K)
    BY KeptWhileBounded
  <1> HIDE DEF B, K
  <1> QED
    BY <1>1, <1>2, <1>3, PTL DEF Spec, B, K

==============================================================================
