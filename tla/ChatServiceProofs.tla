--------------------------- MODULE ChatServiceProofs ---------------------------
(***************************************************************************)
(* Theorems about ChatService, where the clocks of the broker, of its      *)
(* agents and of the streams between them meet: what SandboxProvider and   *)
(* Conversation keep, they keep together, and what only the two together   *)
(* promise.                                                                *)
(***************************************************************************)
EXTENDS ChatService, SandboxRoutingProofs

\* The agents, with what is proved of Conversation.
Conv == INSTANCE ConversationProofs WITH
  Ids <- Claims \X Sessions, Messages <- Requests, Objs <- Requests,
  TTL <- SessionTTL, sessions <- store

\* A stream ends before its entry, at the broker or at an agent, has been idle
\* for too long.
StreamsFit ==
  /\ MaxStream <= IdleTTL
  /\ MaxStream <= SessionTTL
  /\ ~CallsRelease

\* Moreover an agent keeps a conversation for as long as the broker may still
\* route to it: an entry is reaped within a tick of its TTL, and a request that
\* was routed before that is on its way for no longer than a stream lasts.
TimesFit == StreamsFit /\ IdleTTL + 1 + MaxStream <= SessionTTL

LEMMA SameActions ==
  /\ \A m, i : Agent!GetHit(m, i) <=> Conv!GetHit(m, i)
  /\ \A m, i, o : Agent!GetMiss(m, i, o) <=> Conv!GetMiss(m, i, o)
  /\ \A m : /\ Agent!Lock(m) <=> Conv!Lock(m)
            /\ Agent!Succeed(m) <=> Conv!Succeed(m)
            /\ Agent!Fail(m) <=> Conv!Fail(m)
            /\ Agent!Running(m) <=> Conv!Running(m)
  /\ \A I : /\ Agent!Reap(I) <=> Conv!Reap(I)
            /\ Agent!ProcessEnds(I) <=> Conv!ProcessEnds(I)
  /\ Agent!Tick <=> Conv!Tick
  /\ Agent!Init <=> Conv!Init
  /\ Agent!TypeOK <=> Conv!TypeOK
  <1>1. \A m, i : Agent!GetHit(m, i) <=> Conv!GetHit(m, i)
    BY DEF Agent!GetHit, Conv!GetHit, Agent!Waits, Conv!Waits, Agent!Put, Conv!Put
  <1>2. \A m, i, o : Agent!GetMiss(m, i, o) <=> Conv!GetMiss(m, i, o)
    BY DEF Agent!GetMiss, Conv!GetMiss, Agent!Waits, Conv!Waits, Agent!Put, Conv!Put
  <1>3. \A m : Agent!Lock(m) <=> Conv!Lock(m)
    BY Zenon DEF Agent!Lock, Conv!Lock, Agent!CanRun, Conv!CanRun
  <1>4. \A m : Agent!Running(m) <=> Conv!Running(m)
    BY DEF Agent!Running, Conv!Running
  <1>5. \A m : (Agent!Succeed(m) <=> Conv!Succeed(m)) /\ (Agent!Fail(m) <=> Conv!Fail(m))
    BY DEF Agent!Succeed, Conv!Succeed, Agent!Fail, Conv!Fail, Agent!Running, Conv!Running,
      Agent!Unlock, Conv!Unlock, Agent!Released, Conv!Released, Agent!Without, Conv!Without,
      Agent!AfterFailure, Conv!AfterFailure
  <1>6. \A I : Agent!Reap(I) <=> Conv!Reap(I)
    BY DEF Agent!Reap, Conv!Reap, Agent!Expired, Conv!Expired, Agent!Without, Conv!Without
  <1>7. \A I : Agent!ProcessEnds(I) <=> Conv!ProcessEnds(I)
    BY DEF Agent!ProcessEnds, Conv!ProcessEnds, Agent!Without, Conv!Without
  <1>8. Agent!Tick <=> Conv!Tick
    BY Zenon DEF Agent!Tick, Conv!Tick, Agent!CanRun, Conv!CanRun, Agent!Running, Conv!Running,
      Agent!InTime, Conv!InTime
  <1>9. Agent!Init <=> Conv!Init
    BY DEF Agent!Init, Conv!Init
  <1>10. Agent!TypeOK <=> Conv!TypeOK
    BY DEF Agent!TypeOK, Conv!TypeOK, Agent!Entry, Conv!Entry, Agent!Handler, Conv!Handler
  <1> QED
    BY <1>1, <1>2, <1>3, <1>4, <1>5, <1>6, <1>7, <1>8, <1>9, <1>10

-----------------------------------------------------------------------------
(* The steps of the service *)

\* Every step is one of the broker or leaves it alone: what is proved of the
\* provider holds with the agents behind it.
LEMMA BrokerSteps == ASSUME [ServiceNext]_serviceVars PROVE [Next]_vars
  <1>1. ASSUME NEW r \in Requests, Deliver(r) \/ Answer(r) PROVE UNCHANGED vars
    BY <1>1 DEF Deliver, Answer
  <1>2. CASE BrokerStep
    <2>1. ASSUME NEW r \in Requests, NEW s \in Sessions, AcquireHit(r, s) \/ AcquireMiss(r, s)
          PROVE  Next
      BY <2>1 DEF Next
    <2>2. ASSUME NEW r \in Requests,
                 \/ \E c \in Claims, ip \in IPs \cup {None} :
                      CreateReturns(r, c, ip) \/ CreateOrphans(r, c, ip)
                 \/ CreateFails(r) \/ Discard(r) \/ Store(r) \/ StreamEnds(r)
          PROVE  Next
      BY <2>2 DEF Next
    <2>3. Reap \/ (\E c \in Claims : DeleteClaim(c) \/ CloseDeletes(c)) \/ Stop => Next
      BY DEF Next
    <2>4. (\E list \in SUBSET Claims : CloseLists(list)) => Next
      BY DEF Next
    <2>5. (\E born \in SUBSET Claims : Exits(born) \/ Crash(born)) => Next
      BY DEF Next
    <2> QED
      BY <1>2, <2>1, <2>2, <2>3, <2>4, <2>5 DEF BrokerStep
  <1>3. ASSUME NEW c \in Claims, AgentReaps(c) \/ PodLost(c) PROVE [Next]_vars
    BY <1>3 DEF AgentReaps, PodLost, Next
  <1>4. CASE TimePasses
    BY <1>4 DEF TimePasses, Next
  <1>5. CASE UNCHANGED serviceVars
    BY <1>5 DEF serviceVars
  <1>6. ASSUME NEW r \in Requests, NotTaken(r) PROVE Next
    BY <1>6 DEF NotTaken, Next
  <1> QED
    BY <1>1, <1>2, <1>3, <1>4, <1>5, <1>6 DEF ServiceNext

\* A request has been sent and no agent takes it.
LEMMA NotTakenFacts ==
  ASSUME NEW r \in Requests, NotTaken(r)
  PROVE  /\ UNCHANGED <<sessions, stale, released, procVars, clusterVars, historyVars>>
         /\ UNCHANGED <<store, history, holder, msg, answered, podLost>>
         /\ r \in DOMAIN req /\ req[r].at = "streaming"
         /\ DOMAIN req' = DOMAIN req \ {r} /\ \A q \in DOMAIN req' : req'[q] = req[q]
         /\ r \notin sent /\ sent' = sent \cup {r}
         /\ unheard' = unheard \cup {req[r].claim}
  BY DEF NotTaken, StreamEnds, Fresh, Without

\* For the agents a message has gone, and nothing else changed.
Unread ==
  /\ UNCHANGED <<store, history, holder, msg, answered>>
  /\ sent \subseteq sent' /\ sent' \subseteq sent \cup Requests

LEMMA UnreadKeeps ==
  ASSUME Conv!IInv, Unread
  PROVE  Conv!IInv' /\ (Conv!Kept => Conv!Kept')
  <1>1. Conv!TypeOK'
    BY DEF Unread, Conv!IInv, Conv!TypeOK, Conv!Entry, Conv!Handler
  <1>2. Conv!Linked' /\ Conv!Held' /\ Conv!RunsOnCurrent'
    BY DEF Unread, Conv!IInv, Conv!Linked, Conv!Held, Conv!RunsOnCurrent, Conv!Running
  <1>3. Conv!Kept => Conv!Kept'
    BY DEF Unread, Conv!Kept, Conv!NotForgotten, Conv!OwnObjects, Conv!HoldersRun, Conv!Running
  <1> QED
    BY <1>1, <1>2, <1>3 DEF Conv!IInv

\* Every step is one of the agents: the process of some of them reaps or ends,
\* or a handler takes a step, or time passes. Or they take no notice.
LEMMA AgentSteps ==
  ASSUME TypeOK, ServiceNext
  PROVE  Unread \/ \E I \in SUBSET (Claims \X Sessions) : Conv!Steps(I)
  <1> USE SameActions
  <1>0. {} \in SUBSET (Claims \X Sessions) /\ LostWithPods \in SUBSET (Claims \X Sessions)
    BY DEF LostWithPods
  <1>1. ASSUME NEW r \in Requests, Deliver(r) PROVE Conv!Steps({})
    <2>1. PICK c \in Claims :
            Agent!GetHit(r, <<c, req[r].session>>) \/ Agent!GetMiss(r, <<c, req[r].session>>, r)
      BY <1>1 DEF Deliver
    <2>2. <<c, req[r].session>> \in Claims \X Sessions
      BY <1>1 DEF Deliver, TypeOK, Handler
    <2> QED
      BY <2>1, <2>2 DEF Conv!Steps
  <1>2. ASSUME NEW r \in Requests, Answer(r) PROVE Conv!Steps({})
    BY <1>2 DEF Answer, Conv!Steps
  <1>3. ASSUME BrokerStep \/ \E c \in Claims : PodLost(c) PROVE Conv!Steps(LostWithPods)
    BY <1>3 DEF BrokerStep, PodLost, Conv!Steps
  <1>4. ASSUME NEW c \in Claims, AgentReaps(c) PROVE Conv!Steps({c} \X Sessions)
    BY <1>4 DEF AgentReaps, Conv!Steps
  <1>5. ASSUME TimePasses PROVE Conv!Steps({})
    BY <1>5 DEF TimePasses, Conv!Steps
  <1>6. ASSUME NEW r \in Requests, NotTaken(r) PROVE Unread
    BY <1>6, NotTakenFacts DEF Unread
  <1> QED
    BY <1>0, <1>1, <1>2, <1>3, <1>4, <1>5, <1>6 DEF ServiceNext

\* So the agents' invariants hold, as long as their reapers spare the busy.
LEMMA AgentsKeep ==
  ASSUME TypeOK, Conv!IInv, ServiceNext
  PROVE  Conv!IInv' /\ (Conv!Kept /\ Conv!BusySafe => Conv!Kept')
  <1>1. CASE Unread
    BY <1>1, UnreadKeeps
  <1>2. ASSUME NEW I \in SUBSET (Claims \X Sessions), Conv!Steps(I)
        PROVE  Conv!IInv' /\ (Conv!Kept /\ Conv!BusySafe => Conv!Kept')
    BY <1>2, Conv!StepPreserves, Conv!StepKept, ServiceAssumption
  <1> QED
    BY <1>1, <1>2, AgentSteps

\* A request reaches an agent, which has its conversation or makes one.
Delivered(r, c) ==
  /\ UNCHANGED <<vars, podLost, answered>>
  /\ r \in DOMAIN req /\ req[r].at = "streaming" /\ podIP[c] = req[r].baseURL
  /\ r \notin sent /\ sent' = sent \cup {r}
  /\ r \notin DOMAIN msg /\ DOMAIN msg' = DOMAIN msg \cup {r}
  /\ msg'[r].id = <<c, req[r].session>>
  /\ \A m \in DOMAIN msg : msg'[m] = msg[m]
  /\ DOMAIN store' = DOMAIN store \cup {<<c, req[r].session>>}
  /\ store'[<<c, req[r].session>>].idle = 0
  /\ \A i \in DOMAIN store : i # <<c, req[r].session>> => store'[i] = store[i]

LEMMA DeliverFacts ==
  ASSUME Conv!IInv, TypeOK, NEW r \in Requests, Deliver(r)
  PROVE  \E c \in Claims : Delivered(r, c)
  <1>1. PICK c \in Claims :
          /\ podIP[c] = req[r].baseURL
          /\ \/ Conv!GetHit(r, <<c, req[r].session>>)
             \/ Conv!GetMiss(r, <<c, req[r].session>>, r)
    BY SameActions DEF Deliver
  <1> DEFINE i == <<c, req[r].session>>
  <1>2. r \in DOMAIN req /\ req[r].at = "streaming" /\ i \in Claims \X Sessions
    BY DEF Deliver, TypeOK, Handler
  <1>3. PICK o \in Requests :
          /\ Conv!Waits(r, i, o)
          /\ \/ Conv!GetHit(r, i) /\ o = store[i].obj
             \/ Conv!GetMiss(r, i, o)
    <2>1. CASE Conv!GetHit(r, i)
      <3>1. store[i].obj \in Requests /\ Conv!Waits(r, i, store[i].obj)
        BY <2>1 DEF Conv!GetHit, Conv!IInv, Conv!TypeOK, Conv!Entry
      <3> QED
        BY <2>1, <3>1
    <2>2. CASE Conv!GetMiss(r, i, r)
      BY <2>2 DEF Conv!GetMiss
    <2> QED
      BY <1>1, <2>1, <2>2
  <1>4. Conv!NewMessage(r, i, o)
    BY <1>2, <1>3, Conv!GetFacts, ServiceAssumption
  <1>5. Delivered(r, c)
    BY <1>1, <1>2, <1>3, <1>4 DEF Deliver, Delivered, Conv!NewMessage, Conv!Waits
  <1> QED
    BY <1>5

\* A handler of an agent takes a step: no entry changes and no message comes.
LEMMA AnswerFacts ==
  ASSUME Conv!IInv, NEW r \in Requests, Answer(r)
  PROVE  /\ UNCHANGED <<vars, podLost, store, sent>>
         /\ DOMAIN msg' \subseteq DOMAIN msg
         /\ \A m \in DOMAIN msg' : msg'[m].id = msg[m].id
  <1>1. CASE Conv!Lock(r)
    <2>1. /\ DOMAIN msg' = DOMAIN msg
          /\ \A m \in DOMAIN msg : msg'[m].id = msg[m].id
      BY <1>1, Conv!LockFacts, ServiceAssumption
    <2> QED
      BY <1>1, <2>1 DEF Answer, Conv!Lock
  <1>2. CASE Conv!Succeed(r) \/ Conv!Fail(r)
    BY <1>2 DEF Answer, Conv!Succeed, Conv!Fail, Conv!Unlock, Conv!Without
  <1> QED
    BY <1>1, <1>2, SameActions DEF Answer

\* The broker or the cluster takes a step: the agents whose pods are lost go,
\* with all they know.
LEMMA LostFacts ==
  ASSUME Conv!IInv, BrokerStep \/ \E c \in Claims : PodLost(c)
  PROVE  /\ sent' = sent
         /\ DOMAIN store' = DOMAIN store \ LostWithPods
         /\ \A i \in DOMAIN store' : store'[i] = store[i]
         /\ DOMAIN msg' = {m \in DOMAIN msg : msg[m].id \notin LostWithPods}
         /\ \A m \in DOMAIN msg' : msg'[m] = msg[m]
         /\ \A i \in Claims \X Sessions :
              answered'[i] = IF i \in LostWithPods THEN <<>> ELSE answered[i]
  <1>1. Conv!ProcessEnds(LostWithPods)
    BY SameActions DEF BrokerStep, PodLost
  <1> QED
    BY <1>1 DEF Conv!ProcessEnds, Conv!Without

\* An agent reaps.
LEMMA AgentReapsFacts ==
  ASSUME NEW c \in Claims, AgentReaps(c)
  PROVE  /\ UNCHANGED <<vars, podLost, msg, sent, answered>>
         /\ DOMAIN store' \subseteq DOMAIN store
         /\ \A i \in DOMAIN store' : store'[i] = store[i]
         /\ \A i \in DOMAIN store : i \notin DOMAIN store' => store[i].idle > SessionTTL
  <1>1. Conv!Reap({c} \X Sessions)
    BY SameActions DEF AgentReaps
  <1> QED
    BY <1>1 DEF AgentReaps, Conv!Reap, Conv!Without, Conv!Expired

-----------------------------------------------------------------------------
(* Streams and conversations *)

\* A message whose stream is still open was delivered while it was, so its
\* agent has seen the session since the stream began.
InFlight ==
  \A m \in DOMAIN msg \cap DOMAIN req :
    /\ req[m].at = "streaming"
    /\ msg[m].id[2] = req[m].session
    /\ store[msg[m].id].idle <= req[m].age

\* The agent of a message has seen its session no longer ago than a stream
\* may last.
BusyRecent == \A m \in DOMAIN msg : store[msg[m].id].idle <= MaxStream

\* Only a pod of a live claim has conversations.
PodsBacked ==
  /\ \A c \in Claims : podIP[c] # None => cluster[c] = "live"
  /\ \A i \in DOMAIN store : podIP[i[1]] # None
  /\ \A c \in Claims, s \in Sessions : podIP[c] = None => answered[<<c, s>>] = <<>>

\* A claim that Close may miss has been created, and until Close runs, no
\* handler holds one.
HeldKnown ==
  /\ \A c \in missed : cluster[c] # "unused"
  /\ ~Closing => \A r \in DOMAIN req : Holding(r) => req[r].claim \notin missed

Base ==
  /\ TypeOK /\ OneOwner /\ StreamsHeld /\ Listed /\ HeldKnown
  /\ Conv!IInv /\ Conv!Kept
  /\ InFlight /\ BusyRecent /\ PodsBacked

LEMMA BaseInit == ServiceInit => Base
  <1> SUFFICES ASSUME ServiceInit PROVE Base
    OBVIOUS
  <1>1. Conv!Init /\ Init
    BY SameActions DEF ServiceInit
  <1>2. DOMAIN msg = {} /\ DOMAIN store = {} /\ answered = [i \in Claims \X Sessions |-> <<>>]
    BY <1>1 DEF Conv!Init
  <1>3. Conv!IInv /\ Conv!Kept
    BY <1>1, Conv!InitEstablishes, Conv!InitKept, ServiceAssumption
  <1>4. TypeOK /\ OneOwner /\ StreamsHeld /\ Listed /\ HeldKnown
    BY <1>1, TypeInit, OwnerInit, AccountedInit DEF Init, StreamsHeld, HeldKnown
  <1>5. InFlight /\ BusyRecent /\ PodsBacked
    BY <1>1, <1>2 DEF Init, InFlight, BusyRecent, PodsBacked
  <1> QED
    BY <1>3, <1>4, <1>5 DEF Base

\* A request is sent once: what the broker does with the streams of messages
\* that agents have is to end them.
LEMMA SentStreams ==
  ASSUME TypeOK, BrokerStep \/ \E c \in Claims : PodLost(c)
  PROVE  \A m \in DOMAIN req' : m \in sent =>
           /\ m \in DOMAIN req
           /\ req[m].at = "streaming" => req'[m] = req[m]
  <1>1. ASSUME NEW r \in Requests, NEW s \in Sessions, Fresh(r),
               AcquireHit(r, s) \/ AcquireMiss(r, s)
        PROVE  \A m \in DOMAIN req' : m \in sent => m \in DOMAIN req /\ req'[m] = req[m]
    BY <1>1 DEF AcquireHit, AcquireMiss, Known, Seen, Put, Fresh
  <1>2. ASSUME NEW r \in Requests, NEW c \in Claims, NEW ip \in IPs \cup {None},
               CreateReturns(r, c, ip)
        PROVE  \A m \in DOMAIN req' : /\ m \in DOMAIN req
                                      /\ req[m].at = "streaming" => req'[m] = req[m]
    <2>1. /\ DOMAIN req' = DOMAIN req /\ req[r].at = "creating"
          /\ \A q \in DOMAIN req : q # r => req'[q] = req[q]
      <3>1. req' = [req EXCEPT ![r] =
                      [req[r] EXCEPT !.at = IF ip = None THEN "discarding" ELSE "created",
                                     !.claim = c, !.baseURL = ip]]
        BY <1>2 DEF CreateReturns, ClaimFor, HasAddress
      <3> QED
        BY <1>2, <3>1 DEF CreateReturns, ClaimFor
    <2> QED
      BY <2>1
  <1>3. ASSUME NEW r \in Requests,
               \/ CreateFails(r) \/ Discard(r) \/ StreamEnds(r)
               \/ \E c \in Claims, ip \in IPs \cup {None} : CreateOrphans(r, c, ip)
        PROVE  \A m \in DOMAIN req' : m \in DOMAIN req /\ req'[m] = req[m]
    BY <1>3 DEF CreateFails, CreateOrphans, Discard, StreamEnds, Without
  <1>4. ASSUME NEW r \in Requests, Store(r)
        PROVE  \A m \in DOMAIN req' : /\ m \in DOMAIN req
                                      /\ req[m].at = "streaming" => req'[m] = req[m]
    BY <1>4 DEF Store
  <1>5. ASSUME \/ Reap \/ Stop \/ \E list \in SUBSET Claims : CloseLists(list)
               \/ \E c \in Claims : DeleteClaim(c) \/ CloseDeletes(c) \/ PodFails(c)
        PROVE  req' = req
    BY <1>5 DEF Reap, Stop, CloseLists, DeleteClaim, CloseDeletes, PodFails, Collected, Kept,
      brokerVars
  <1>6. ASSUME NEW born, Exits(born) \/ Crash(born)
        PROVE  DOMAIN req' = {}
    BY <1>6 DEF Exits, Crash, Restart
  <1>7. CASE BrokerStep
    BY <1>1, <1>2, <1>3, <1>4, <1>5, <1>6, <1>7 DEF BrokerStep
  <1>8. CASE \E c \in Claims : PodLost(c)
    BY <1>5, <1>8 DEF PodLost
  <1> QED
    BY <1>7, <1>8

LEMMA MessageTypes ==
  ASSUME Base, NEW m \in DOMAIN msg
  PROVE  /\ m \in sent /\ msg[m].id \in DOMAIN store /\ msg[m].id \in Claims \X Sessions
         /\ store[msg[m].id].idle \in Nat
  <1>1. m \in sent /\ msg[m].id \in DOMAIN store /\ msg[m].id \in Claims \X Sessions
    BY DEF Base, Conv!IInv, Conv!TypeOK, Conv!Handler, Conv!Kept, Conv!NotForgotten
  <1>2. store[msg[m].id].idle \in Nat
    BY <1>1, ServiceAssumption DEF Base, Conv!IInv, Conv!TypeOK, Conv!Entry
  <1> QED
    BY <1>1, <1>2

\* No agent reaps a session that has messages.
LEMMA BusyNotReaped == ASSUME StreamsFit, Base PROVE Conv!BusySafe
  <1> SUFFICES ASSUME NEW m \in DOMAIN msg PROVE ~Conv!Expired(msg[m].id)
    BY DEF Conv!BusySafe
  <1>1. store[msg[m].id].idle \in Nat /\ store[msg[m].id].idle <= MaxStream
    BY MessageTypes DEF Base, BusyRecent
  <1>2. MaxStream \in Nat /\ SessionTTL \in Nat /\ MaxStream <= SessionTTL
    BY ProviderAssumption, ServiceAssumption DEF StreamsFit
  <1> QED
    BY <1>1, <1>2 DEF Conv!Expired

LEMMA FlightStep ==
  ASSUME Base, ServiceNext, Conv!Kept'
  PROVE  InFlight' /\ BusyRecent'
  <1> USE MessageTypes, ProviderAssumption
  <1>0. \A q \in DOMAIN req : req[q].age \in Nat /\ req[q].age <= MaxStream
    BY DEF Base, TypeOK, Handler
  <1>1. ASSUME NEW r \in Requests, Deliver(r) PROVE InFlight' /\ BusyRecent'
    <2>1. PICK c \in Claims : Delivered(r, c)
      BY <1>1, DeliverFacts DEF Base
    <2>2. ASSUME NEW m \in DOMAIN msg
          PROVE  store'[msg[m].id].idle \in {0, store[msg[m].id].idle}
      BY <2>1 DEF Delivered
    <2>3. InFlight'
      <3>1. ASSUME NEW m \in DOMAIN msg' \cap DOMAIN req'
            PROVE  /\ req'[m].at = "streaming"
                   /\ msg'[m].id[2] = req'[m].session
                   /\ store'[msg'[m].id].idle <= req'[m].age
        <4>1. CASE m = r
          BY <1>0, <2>1, <4>1 DEF Delivered, vars
        <4>2. CASE m # r
          BY <1>0, <2>1, <2>2, <4>2 DEF Delivered, vars, Base, InFlight
        <4> QED
          BY <4>1, <4>2
      <3> QED
        BY <3>1 DEF InFlight
    <2>4. BusyRecent'
      BY <2>1, <2>2 DEF Delivered, Base, BusyRecent
    <2> QED
      BY <2>3, <2>4
  <1>2. ASSUME NEW r \in Requests, Answer(r) PROVE InFlight' /\ BusyRecent'
    <2>1. /\ UNCHANGED <<vars, podLost, store, sent>>
          /\ DOMAIN msg' \subseteq DOMAIN msg
          /\ \A m \in DOMAIN msg' : msg'[m].id = msg[m].id
      BY <1>2, AnswerFacts DEF Base
    <2> QED
      BY <2>1 DEF vars, Base, InFlight, BusyRecent
  <1>3. ASSUME BrokerStep \/ \E c \in Claims : PodLost(c) PROVE InFlight' /\ BusyRecent'
    <2>1. /\ DOMAIN msg' \subseteq DOMAIN msg
          /\ \A m \in DOMAIN msg' : msg'[m] = msg[m] /\ msg[m].id \notin LostWithPods
          /\ \A m \in DOMAIN msg' : store'[msg[m].id] = store[msg[m].id]
      BY <1>3, LostFacts DEF Base
    <2>2. ASSUME NEW m \in DOMAIN msg' \cap DOMAIN req'
          PROVE  m \in DOMAIN req /\ req'[m] = req[m]
      BY <1>3, <2>1, SentStreams DEF Base, InFlight
    <2> QED
      BY <2>1, <2>2 DEF Base, InFlight, BusyRecent
  <1>4. ASSUME NEW c \in Claims, AgentReaps(c) PROVE InFlight' /\ BusyRecent'
    <2>1. \A m \in DOMAIN msg' : msg'[m].id \in DOMAIN store'
      BY DEF Conv!Kept, Conv!NotForgotten
    <2> QED
      BY <1>4, <2>1, AgentReapsFacts DEF vars, Base, InFlight, BusyRecent
  <1>5. ASSUME TimePasses PROVE InFlight' /\ BusyRecent'
    <2>1. Conv!Tick /\ Tick /\ \A m \in DOMAIN msg : Conv!Running(m) => m \in DOMAIN req
      BY <1>5, SameActions DEF TimePasses
    <2>2. /\ DOMAIN msg' = DOMAIN msg
          /\ \A m \in DOMAIN msg : msg'[m].id = msg[m].id
          /\ \A i \in DOMAIN store : /\ store[i].idle \in Nat /\ store'[i].idle \in Nat
                                     /\ store'[i].idle <= store[i].idle + 1
      BY <2>1, Conv!TickFacts, ServiceAssumption DEF Base
    <2>3. /\ DOMAIN req' = DOMAIN req
          /\ \A q \in DOMAIN req : req[q].at = "streaming" =>
               /\ req[q].age < MaxStream
               /\ req'[q].at = "streaming" /\ req'[q].session = req[q].session
               /\ req'[q].age = req[q].age + 1
      BY <2>1 DEF Tick, Base, TypeOK, Handler
    <2>4. ASSUME NEW m \in DOMAIN msg PROVE store[msg[m].id].idle < MaxStream
      <3>1. PICK n \in DOMAIN msg : Conv!Running(n) /\ msg[n].id = msg[m].id
        BY <2>1, Conv!TickRuns, ServiceAssumption DEF Base
      <3>2. n \in DOMAIN req /\ req[n].at = "streaming" /\ store[msg[n].id].idle <= req[n].age
        BY <2>1, <3>1 DEF Base, InFlight
      <3> QED
        BY <1>0, <2>3, <3>1, <3>2
    <2>5. InFlight'
      BY <1>0, <2>2, <2>3 DEF Base, InFlight
    <2>6. BusyRecent'
      BY <2>2, <2>4 DEF BusyRecent
    <2> QED
      BY <2>5, <2>6
  <1>6. ASSUME NEW r \in Requests, NotTaken(r) PROVE InFlight' /\ BusyRecent'
    BY <1>6, NotTakenFacts DEF Base, InFlight, BusyRecent
  <1> QED
    BY <1>1, <1>2, <1>3, <1>4, <1>5, <1>6 DEF ServiceNext

\* A pod that runs belongs to a live claim.
LEMMA PodStep ==
  ASSUME TypeOK, \A c \in Claims : podIP[c] # None => cluster[c] = "live",
         BrokerStep \/ \E c \in Claims : PodLost(c)
  PROVE  \A c \in Claims : podIP'[c] # None => cluster'[c] = "live"
  <1>1. ASSUME NEW c \in Claims, DeleteSandbox(c)
        PROVE  \A d \in Claims : podIP'[d] # None => cluster'[d] = "live"
    BY <1>1 DEF DeleteSandbox, ClusterDelete, clusterVars
  <1>2. ASSUME NEW r \in Requests, NEW c \in Claims, NEW ip \in IPs \cup {None},
               CreateReturns(r, c, ip) \/ CreateOrphans(r, c, ip)
        PROVE  \A d \in Claims : podIP'[d] # None => cluster'[d] = "live"
    BY <1>2 DEF CreateReturns, CreateOrphans, ClaimFor, TypeOK
  <1>3. ASSUME NEW r \in Requests, Discard(r)
        PROVE  \A d \in Claims : podIP'[d] # None => cluster'[d] = "live"
    BY <1>1, <1>3 DEF Discard, TypeOK, HoldsWhatItShould
  <1>4. ASSUME NEW c \in Claims, DeleteClaim(c) \/ CloseDeletes(c)
        PROVE  \A d \in Claims : podIP'[d] # None => cluster'[d] = "live"
    BY <1>1, <1>4 DEF DeleteClaim, CloseDeletes
  <1>5. ASSUME NEW c \in Claims, PodFails(c)
        PROVE  \A d \in Claims : podIP'[d] # None => cluster'[d] = "live"
    BY <1>5 DEF PodFails, TypeOK
  <1>6. ASSUME NEW born, Exits(born) \/ Crash(born)
        PROVE  \A d \in Claims : podIP'[d] # None => cluster'[d] = "live"
    BY <1>6 DEF Exits, Crash, BornLate
  <1>7. ASSUME \/ \E r \in Requests :
                    \/ \E s \in Sessions : AcquireHit(r, s) \/ AcquireMiss(r, s)
                    \/ CreateFails(r) \/ Store(r) \/ StreamEnds(r)
               \/ Reap \/ Stop \/ \E list \in SUBSET Claims : CloseLists(list)
        PROVE  UNCHANGED clusterVars
    BY <1>7 DEF AcquireHit, AcquireMiss, CreateFails, Store, StreamEnds, Reap, Stop, CloseLists
  <1>8. CASE BrokerStep
    BY <1>2, <1>3, <1>4, <1>6, <1>7, <1>8 DEF BrokerStep, clusterVars
  <1>9. CASE \E c \in Claims : PodLost(c)
    BY <1>5, <1>9 DEF PodLost
  <1> QED
    BY <1>8, <1>9

LEMMA BackedStep ==
  ASSUME Base, ServiceNext
  PROVE  PodsBacked'
  <1>0. /\ \A c \in Claims : podIP[c] # None => cluster[c] = "live"
        /\ \A i \in DOMAIN store : i \in Claims \X Sessions /\ podIP[i[1]] # None
        /\ \A c \in Claims, s \in Sessions : podIP[c] = None => answered[<<c, s>>] = <<>>
    BY DEF Base, PodsBacked, Conv!IInv, Conv!TypeOK
  <1>1. ASSUME NEW r \in Requests, Deliver(r) PROVE PodsBacked'
    <2>1. PICK c \in Claims : Delivered(r, c)
      BY <1>1, DeliverFacts DEF Base
    <2>2. podIP[c] # None
      BY <2>1, ProviderAssumption DEF Delivered, Base, TypeOK, HoldsWhatItShould
    <2> QED
      BY <1>0, <2>1, <2>2 DEF Delivered, vars, PodsBacked
  <1>2. ASSUME NEW r \in Requests, Answer(r) PROVE PodsBacked'
    <2>1. UNCHANGED <<vars, store>>
      BY <1>2, AnswerFacts DEF Base
    <2>2. ASSUME NEW c \in Claims, NEW s \in Sessions, podIP[c] = None
          PROVE  answered'[<<c, s>>] = <<>>
      <3>1. <<c, s>> \notin DOMAIN store /\ <<c, s>> \in DOMAIN answered
        BY <1>0, <2>2 DEF Base, Conv!IInv, Conv!TypeOK
      <3>2. \A m \in DOMAIN msg : msg[m].id # <<c, s>>
        BY <3>1 DEF Base, Conv!Kept, Conv!NotForgotten
      <3>3. CASE Conv!Succeed(r)
        BY <1>0, <2>2, <3>1, <3>2, <3>3 DEF Conv!Succeed, Conv!Running
      <3>4. CASE Conv!Lock(r) \/ Conv!Fail(r)
        BY <1>0, <2>2, <3>4 DEF Conv!Lock, Conv!Fail
      <3> QED
        BY <1>2, <3>3, <3>4, SameActions DEF Answer
    <2> QED
      BY <1>0, <2>1, <2>2 DEF vars, PodsBacked
  <1>3. ASSUME BrokerStep \/ \E c \in Claims : PodLost(c) PROVE PodsBacked'
    <2>1. \A c \in Claims : podIP'[c] # None => cluster'[c] = "live"
      BY <1>0, <1>3, PodStep DEF Base
    <2>2. ASSUME NEW i \in DOMAIN store' PROVE podIP'[i[1]] # None
      <3>1. i \in DOMAIN store /\ i \notin LostWithPods
        BY <1>3, LostFacts DEF Base
      <3> QED
        BY <1>0, <3>1 DEF LostWithPods
    <2>3. ASSUME NEW c \in Claims, NEW s \in Sessions, podIP'[c] = None
          PROVE  answered'[<<c, s>>] = <<>>
      <3>1. answered'[<<c, s>>] = IF <<c, s>> \in LostWithPods THEN <<>> ELSE answered[<<c, s>>]
        BY <1>3, LostFacts DEF Base
      <3> QED
        BY <1>0, <2>3, <3>1 DEF LostWithPods
    <2> QED
      BY <2>1, <2>2, <2>3 DEF PodsBacked
  <1>4. ASSUME NEW c \in Claims, AgentReaps(c) PROVE PodsBacked'
    BY <1>0, <1>4, AgentReapsFacts DEF vars, PodsBacked
  <1>5. ASSUME TimePasses PROVE PodsBacked'
    <2>1. DOMAIN store' = DOMAIN store /\ answered' = answered
      BY <1>5, SameActions DEF TimePasses, Conv!Tick
    <2>2. UNCHANGED clusterVars
      BY <1>5 DEF TimePasses, Tick
    <2> QED
      BY <1>0, <2>1, <2>2 DEF clusterVars, PodsBacked
  <1>6. ASSUME NEW r \in Requests, NotTaken(r) PROVE PodsBacked'
    <2>1. UNCHANGED <<cluster, podIP, store, answered>>
      BY <1>6, NotTakenFacts DEF clusterVars
    <2> QED
      BY <1>0, <2>1 DEF PodsBacked
  <1> QED
    BY <1>1, <1>2, <1>3, <1>4, <1>5, <1>6 DEF ServiceNext

\* A claim is missed as it is created, and while the broker serves or drains,
\* that claim is in nobody's hands.
LEMMA HeldKnownStep ==
  ASSUME TypeOK, OneOwner, HeldKnown, [Next]_vars
  PROVE  HeldKnown'
  <1> USE DEF HeldKnown, Holding, Closing, procVars
  <1>1. ASSUME NEW r \in Requests, NEW s \in Sessions, AcquireHit(r, s) \/ AcquireMiss(r, s)
        PROVE  HeldKnown'
    <2>1. UNCHANGED <<cluster, missed, phase>>
      BY <1>1 DEF AcquireHit, AcquireMiss, clusterVars, historyVars
    <2>2. \A q \in DOMAIN req' : Holding(q)' => q \in DOMAIN req /\ req'[q] = req[q]
      BY <1>1 DEF AcquireHit, AcquireMiss, Put
    <2> QED
      BY <2>1, <2>2
  <1>2. ASSUME NEW r \in Requests, NEW c \in Claims, NEW ip \in IPs \cup {None},
               CreateReturns(r, c, ip)
        PROVE  HeldKnown'
    <2> DEFINE h == [req[r] EXCEPT !.at = IF ip = None THEN "discarding" ELSE "created",
                                   !.claim = c, !.baseURL = ip]
    <2>1. r \in DOMAIN req /\ req[r] \in Handler /\ req' = [req EXCEPT ![r] = h]
      BY <1>2 DEF CreateReturns, ClaimFor, HasAddress, TypeOK
    <2>2. h.claim = c
      BY <2>1 DEF Handler
    <2>3. /\ cluster[c] = "unused" /\ cluster' = [cluster EXCEPT ![c] = "live"]
          /\ phase' = phase /\ missed' = missed \cup (IF Closing THEN {c} ELSE {})
      BY <1>2 DEF CreateReturns, ClaimFor
    <2> HIDE DEF h
    <2>4. \A q \in DOMAIN req' : req'[q].claim = c \/ (q \in DOMAIN req /\ req'[q] = req[q])
      BY <2>1, <2>2
    <2>5. c \notin missed
      BY <2>3
    <2> QED
      BY <2>3, <2>4, <2>5 DEF TypeOK
  <1>3. ASSUME NEW r \in Requests, NEW c \in Claims, NEW ip \in IPs \cup {None},
               CreateOrphans(r, c, ip)
        PROVE  HeldKnown'
    <2>1. /\ cluster[c] = "unused" /\ cluster' = [cluster EXCEPT ![c] = "live"]
          /\ phase' = phase /\ missed' = missed \cup {c}
          /\ \A q \in DOMAIN req' : q \in DOMAIN req /\ req'[q] = req[q]
      BY <1>3 DEF CreateOrphans, ClaimFor, Without
    <2>2. \A q \in DOMAIN req : Holding(q) => req[q].claim # c
      BY <2>1 DEF OneOwner
    <2> QED
      BY <2>1, <2>2 DEF TypeOK
  <1>4. ASSUME NEW c \in Claims, DeleteSandbox(c)
        PROVE  \A d \in Claims : cluster[d] # "unused" => cluster'[d] # "unused"
    BY <1>4 DEF DeleteSandbox, ClusterDelete, clusterVars
  <1>5. ASSUME NEW r \in Requests, CreateFails(r) \/ Discard(r) \/ StreamEnds(r)
        PROVE  HeldKnown'
    <2>1. /\ \A q \in DOMAIN req' : q \in DOMAIN req /\ req'[q] = req[q]
          /\ UNCHANGED <<missed, phase>>
      BY <1>5 DEF CreateFails, Discard, StreamEnds, Without, historyVars
    <2>2. \A d \in Claims : cluster[d] # "unused" => cluster'[d] # "unused"
      BY <1>4, <1>5 DEF CreateFails, Discard, StreamEnds, clusterVars, TypeOK, HoldsWhatItShould
    <2> QED
      BY <2>1, <2>2 DEF TypeOK
  <1>6. ASSUME NEW r \in Requests, Store(r) PROVE HeldKnown'
    BY <1>6 DEF Store, clusterVars
  <1>7. CASE \/ Reap \/ Stop
             \/ \E list \in SUBSET Claims : CloseLists(list)
             \/ \E s \in Sessions : Release(s)
    BY <1>7 DEF Reap, Stop, Serving, CloseLists, Release, clusterVars, historyVars
  <1>8. ASSUME NEW c \in Claims, DeleteClaim(c) \/ CloseDeletes(c) PROVE HeldKnown'
    <2>1. UNCHANGED <<req, missed, phase>>
      BY <1>8 DEF DeleteClaim, CloseDeletes
    <2> QED
      BY <1>4, <1>8, <2>1 DEF DeleteClaim, CloseDeletes, TypeOK
  <1>9. ASSUME NEW c \in Claims, PodFails(c) PROVE HeldKnown'
    BY <1>9 DEF PodFails, brokerVars, historyVars
  <1>10. ASSUME NEW born, Exits(born) \/ Crash(born) PROVE HeldKnown'
    BY <1>10 DEF Exits, Crash, BornLate, Restart, TypeOK
  <1>11. CASE Tick
    <2>1. /\ DOMAIN req' = DOMAIN req
          /\ \A q \in DOMAIN req : req'[q].at = req[q].at /\ req'[q].claim = req[q].claim
      BY <1>11 DEF Tick, TypeOK, Handler
    <2> QED
      BY <1>11, <2>1 DEF Tick, clusterVars, historyVars
  <1>12. CASE UNCHANGED vars
    BY <1>12 DEF vars
  <1> QED
    BY <1>1, <1>2, <1>3, <1>5, <1>6, <1>7, <1>8, <1>9, <1>10, <1>11, <1>12 DEF Next

LEMMA BaseStep ==
  ASSUME StreamsFit, Base, [ServiceNext]_serviceVars
  PROVE  Base'
  <1>1. TypeOK' /\ OneOwner' /\ StreamsHeld' /\ Listed' /\ HeldKnown'
    BY BrokerSteps, TypeStep, OwnerStep, StreamStep, ListedStep, HeldKnownStep
      DEF Base, StreamsFit
  <1>2. CASE ServiceNext
    <2>1. Conv!IInv' /\ Conv!Kept'
      BY <1>2, BusyNotReaped, AgentsKeep DEF Base
    <2>2. InFlight' /\ BusyRecent' /\ PodsBacked'
      BY <1>2, <2>1, FlightStep, BackedStep
    <2> QED
      BY <1>1, <2>1, <2>2 DEF Base
  <1>3. CASE UNCHANGED serviceVars
    <2>1. UNCHANGED convVars /\ UNCHANGED vars
      BY <1>3 DEF serviceVars
    <2>2. UNCHANGED Conv!vars
      BY <2>1 DEF convVars, Conv!vars
    <2>3. Conv!IInv' /\ Conv!Kept'
      BY <2>2, BusyNotReaped, Conv!StepPreserves, Conv!StepKept, ServiceAssumption DEF Base
    <2>4. InFlight' /\ BusyRecent' /\ PodsBacked'
      BY <2>1 DEF vars, convVars, Base, InFlight, BusyRecent, PodsBacked
    <2> QED
      BY <1>1, <2>3, <2>4 DEF Base
  <1> QED
    BY <1>2, <1>3

-----------------------------------------------------------------------------
(* One session per agent *)

Streaming == {r \in DOMAIN req : req[r].at = "streaming"}

\* The session has to do with the agent: it is routed there, has a stream from
\* there or a conversation there.
Serves(c, s) ==
  \/ s \in DOMAIN sessions /\ sessions[s].claimName = c
  \/ \E r \in Streaming : req[r].claim = c /\ req[r].session = s
  \/ <<c, s>> \in DOMAIN store

\* Until Close runs, a stream's address is still that of the pod it was opened
\* to. A message is with the agent of its claim, or of one that came up at the
\* address of a sandbox that Close had deleted.
Direct ==
  /\ ~Closing => \A r \in Streaming : req[r].baseURL = podIP[req[r].claim]
  /\ \A m \in DOMAIN msg \cap DOMAIN req : msg[m].id[1] \in {req[m].claim} \cup missed

\* Who listens at an address that was the claim's.
Homes(c, ip) == \A d \in Claims : podIP[d] = ip => d = c \/ d \in missed

Homed ==
  /\ \A s \in DOMAIN sessions : Homes(sessions[s].claimName, sessions[s].baseURL)
  /\ \A r \in DOMAIN req : req[r].at \in {"created", "streaming"} =>
       Homes(req[r].claim, req[r].baseURL)

\* An agent serves one session, and a sandbox in the hands of Acquire none,
\* unless it is one that Close may have missed.
Exclusive ==
  /\ \A c \in Claims \ missed, s, t \in Sessions : Serves(c, s) /\ Serves(c, t) => s = t
  /\ \A r \in DOMAIN req : Holding(r) /\ req[r].claim \notin missed => \A s \in Sessions :
       /\ ~Serves(req[r].claim, s)
       /\ answered[<<req[r].claim, s>>] = <<>>

Private == Addressed /\ Direct /\ Homed /\ Exclusive

\* Where the streams, the entries and the sandboxes in hand after a step of
\* the broker come from.
Origins ==
  /\ \A r \in Streaming' :
       \/ /\ r \in Streaming
          /\ req'[r].claim = req[r].claim /\ req'[r].session = req[r].session
          /\ req'[r].baseURL = req[r].baseURL
       \/ /\ req'[r].session \in DOMAIN sessions /\ podIP' = podIP
          /\ req'[r].claim = sessions[req'[r].session].claimName
          /\ req'[r].baseURL = sessions[req'[r].session].baseURL
       \/ /\ r \in DOMAIN req /\ req[r].at = "created" /\ podIP' = podIP
          /\ req'[r].claim = req[r].claim /\ req'[r].session = req[r].session
          /\ req'[r].baseURL = req[r].baseURL
  /\ \A s \in DOMAIN sessions' :
       \/ /\ s \in DOMAIN sessions /\ sessions'[s].claimName = sessions[s].claimName
          /\ sessions'[s].baseURL = sessions[s].baseURL
       \/ \E r \in DOMAIN req \cap Streaming' :
            /\ req[r].at = "created" /\ req[r].session = s
            /\ sessions'[s].claimName = req[r].claim
            /\ sessions'[s].baseURL = req[r].baseURL
  /\ \A r \in DOMAIN req' : Holding(r)' =>
       \/ r \in DOMAIN req /\ Holding(r) /\ req'[r].claim = req[r].claim
       \/ req'[r].claim \in Claims /\ cluster[req'[r].claim] = "unused"
  /\ \A r \in DOMAIN req' : req'[r].at = "created" =>
       \/ /\ r \in DOMAIN req /\ req[r].at = "created"
          /\ req'[r].claim = req[r].claim /\ req'[r].baseURL = req[r].baseURL
       \/ \A d \in Claims : podIP'[d] = req'[r].baseURL => d = req'[r].claim

LEMMA BrokerOrigins ==
  ASSUME TypeOK, BrokerStep \/ Tick
  PROVE  Origins
  <1> USE DEF Origins, Streaming, Holding
  <1>1. ASSUME NEW r \in Requests, NEW s \in Sessions, AcquireHit(r, s) PROVE Origins
    <2>1. /\ DOMAIN sessions' = DOMAIN sessions /\ s \in DOMAIN sessions
          /\ \A t \in DOMAIN sessions : /\ sessions'[t].claimName = sessions[t].claimName
                                        /\ sessions'[t].baseURL = sessions[t].baseURL
      BY <1>1 DEF AcquireHit, Seen, Known, TypeOK, Entry
    <2>2. /\ DOMAIN req' = DOMAIN req \cup {r}
          /\ req'[r].at = "streaming" /\ req'[r].session = s
          /\ req'[r].claim = sessions[s].claimName /\ req'[r].baseURL = sessions[s].baseURL
          /\ \A q \in DOMAIN req : q # r => req'[q] = req[q]
          /\ podIP' = podIP
      BY <1>1 DEF AcquireHit, Seen, Known, Put, clusterVars
    <2> QED
      BY <2>1, <2>2
  <1>2. ASSUME NEW r \in Requests, NEW s \in Sessions, AcquireMiss(r, s) PROVE Origins
    <2>1. /\ DOMAIN req' = DOMAIN req \cup {r} /\ req'[r].at = "creating"
          /\ \A q \in DOMAIN req : q # r => req'[q] = req[q]
          /\ sessions' = sessions
      BY <1>2 DEF AcquireMiss, Known, Put
    <2> QED
      BY <2>1
  <1>3. ASSUME NEW r \in Requests, NEW c \in Claims, NEW ip \in IPs \cup {None},
               CreateReturns(r, c, ip)
        PROVE  Origins
    <2> DEFINE h == [req[r] EXCEPT !.at = IF ip = None THEN "discarding" ELSE "created",
                                   !.claim = c, !.baseURL = ip]
    <2>1. r \in DOMAIN req /\ req[r] \in Handler /\ req' = [req EXCEPT ![r] = h]
      BY <1>3 DEF CreateReturns, ClaimFor, HasAddress, TypeOK
    <2>2. /\ h.at # "streaming" /\ h.claim = c /\ h.baseURL = ip
          /\ h.at = "created" => ip # None
      BY <2>1 DEF Handler
    <2>3. sessions' = sessions /\ cluster[c] = "unused"
      BY <1>3 DEF CreateReturns, ClaimFor
    <2>4. ip # None => \A d \in Claims : podIP'[d] = ip => d = c
      BY <1>3 DEF CreateReturns, ClaimFor, FreeIPs, TypeOK
    <2> HIDE DEF h
    <2> QED
      BY <2>1, <2>2, <2>3, <2>4
  <1>4. ASSUME NEW r \in Requests,
               \/ CreateFails(r) \/ Discard(r) \/ StreamEnds(r)
               \/ \E c \in Claims, ip \in IPs \cup {None} : CreateOrphans(r, c, ip)
        PROVE  Origins
    BY <1>4 DEF CreateFails, CreateOrphans, Discard, StreamEnds, Without
  <1>5. ASSUME NEW r \in Requests, Store(r) PROVE Origins
    <2> DEFINE s == req[r].session
    <2>1. /\ r \in DOMAIN req /\ req[r].at = "created"
          /\ DOMAIN req' = DOMAIN req
          /\ req'[r].at = "streaming" /\ req'[r].claim = req[r].claim
          /\ req'[r].session = req[r].session /\ req'[r].baseURL = req[r].baseURL
          /\ \A q \in DOMAIN req : q # r => req'[q] = req[q]
          /\ podIP' = podIP
      BY <1>5 DEF Store, TypeOK, Handler, clusterVars
    <2>2. /\ DOMAIN sessions' = DOMAIN sessions \cup {s}
          /\ sessions'[s].claimName = req[r].claim
          /\ sessions'[s].baseURL = req[r].baseURL
          /\ \A t \in DOMAIN sessions : t # s => sessions'[t] = sessions[t]
      BY <1>5 DEF Store, Put
    <2> QED
      BY <2>1, <2>2
  <1>6. ASSUME \/ Reap \/ Stop \/ \E list \in SUBSET Claims : CloseLists(list)
               \/ \E c \in Claims : DeleteClaim(c) \/ CloseDeletes(c)
        PROVE  Origins
    <2>1. /\ DOMAIN sessions' \subseteq DOMAIN sessions
          /\ \A s \in DOMAIN sessions' : sessions'[s] = sessions[s]
          /\ req' = req
      BY <1>6 DEF Reap, Collected, Kept, Stop, CloseLists, DeleteClaim, CloseDeletes, Without
    <2> QED
      BY <2>1
  <1>7. ASSUME NEW born, Exits(born) \/ Crash(born) PROVE Origins
    <2>1. DOMAIN req' = {} /\ DOMAIN sessions' = {}
      BY <1>7 DEF Exits, Crash, Restart
    <2> QED
      BY <2>1
  <1>8. ASSUME Tick PROVE Origins
    <2>1. /\ DOMAIN sessions' = DOMAIN sessions /\ DOMAIN req' = DOMAIN req
          /\ \A t \in DOMAIN sessions : /\ sessions'[t].claimName = sessions[t].claimName
                                        /\ sessions'[t].baseURL = sessions[t].baseURL
          /\ \A q \in DOMAIN req :
               /\ req'[q].at = req[q].at /\ req'[q].claim = req[q].claim
               /\ req'[q].session = req[q].session /\ req'[q].baseURL = req[q].baseURL
      BY <1>8 DEF Tick, TypeOK, Entry, Handler
    <2> QED
      BY <2>1
  <1>9. BrokerStep => Origins
    BY <1>1, <1>2, <1>3, <1>4, <1>5, <1>6, <1>7 DEF BrokerStep
  <1> QED
    BY <1>8, <1>9

\* The process comes back from a shutdown, or from anything else, with nothing.
LEMMA PhaseStep ==
  ASSUME [Next]_vars
  PROVE  \/ (Serving' => Serving) /\ (~Closing' => ~Closing)
         \/ DOMAIN sessions' = {} /\ DOMAIN req' = {}
  <1> USE DEF Serving, Closing, procVars
  <1>1. ASSUME NEW r \in Requests,
               \/ \E s \in Sessions : AcquireHit(r, s) \/ AcquireMiss(r, s)
               \/ \E c \in Claims, ip \in IPs \cup {None} :
                    CreateReturns(r, c, ip) \/ CreateOrphans(r, c, ip)
               \/ CreateFails(r) \/ Discard(r) \/ Store(r) \/ StreamEnds(r)
        PROVE  phase' = phase
    BY <1>1 DEF AcquireHit, AcquireMiss, CreateReturns, CreateOrphans, CreateFails, Discard,
      Store, StreamEnds
  <1>2. ASSUME \/ Reap \/ Tick \/ UNCHANGED vars \/ \E s \in Sessions : Release(s)
               \/ \E c \in Claims : DeleteClaim(c) \/ CloseDeletes(c) \/ PodFails(c)
        PROVE  phase' = phase
    BY <1>2 DEF Reap, Tick, Release, DeleteClaim, CloseDeletes, PodFails, brokerVars, vars
  <1>3. ASSUME Stop \/ \E list \in SUBSET Claims : CloseLists(list)
        PROVE  ~Serving' /\ ~Closing
    BY <1>3 DEF Stop, CloseLists
  <1>4. ASSUME NEW born, Exits(born) \/ Crash(born)
        PROVE  DOMAIN sessions' = {} /\ DOMAIN req' = {}
    BY <1>4 DEF Exits, Crash, Restart
  <1> QED
    BY <1>1, <1>2, <1>3, <1>4 DEF Next

\* A claim that Close may miss stays one, and an address that is given out was
\* free. While Close runs, only such claims are given one.
LEMMA AddressGiven ==
  ASSUME TypeOK, [Next]_vars
  PROVE  /\ missed \subseteq missed'
         /\ \A d \in Claims :
              \/ podIP'[d] \in {podIP[d], None}
              \/ d \in missed'
              \/ ~Closing /\ \A e \in Claims : podIP[e] # podIP'[d]
  <1> DEFINE Given == \A d \in Claims :
               \/ podIP'[d] \in {podIP[d], None}
               \/ d \in missed'
               \/ ~Closing /\ \A e \in Claims : podIP[e] # podIP'[d]
  <1>1. ASSUME NEW r \in Requests, NEW c \in Claims, NEW ip \in IPs \cup {None},
               CreateReturns(r, c, ip) \/ CreateOrphans(r, c, ip)
        PROVE  missed \subseteq missed' /\ Given
    <2>1. /\ ip \in FreeIPs \cup {None}
          /\ \A d \in Claims : podIP'[d] = IF d = c THEN ip ELSE podIP[d]
          /\ missed' = missed \/ missed' = missed \cup {c}
          /\ Closing => c \in missed'
      BY <1>1 DEF CreateReturns, CreateOrphans, ClaimFor, TypeOK
    <2> QED
      BY <2>1 DEF FreeIPs
  <1>2. ASSUME NEW c \in Claims, DeleteSandbox(c)
        PROVE  Given
    BY <1>2, DeleteAddress
  <1>3. ASSUME \/ \E r \in Requests : Discard(r)
               \/ \E c \in Claims : DeleteClaim(c) \/ CloseDeletes(c)
        PROVE  missed' = missed /\ Given
    BY <1>2, <1>3 DEF Discard, DeleteClaim, CloseDeletes, TypeOK, HoldsWhatItShould
  <1>4. ASSUME \/ \E r \in Requests :
                    \/ \E s \in Sessions : AcquireHit(r, s) \/ AcquireMiss(r, s)
                    \/ CreateFails(r) \/ Store(r) \/ StreamEnds(r)
               \/ Reap \/ Stop \/ Tick \/ UNCHANGED vars
               \/ \E s \in Sessions : Release(s)
               \/ \E list \in SUBSET Claims : CloseLists(list)
        PROVE  missed' = missed /\ podIP' = podIP
    BY <1>4 DEF AcquireHit, AcquireMiss, CreateFails, Store, StreamEnds, Reap, Stop, Tick, vars,
      Release, CloseLists, clusterVars, historyVars
  <1>5. ASSUME NEW c \in Claims, PodFails(c) PROVE missed' = missed /\ Given
    BY <1>5 DEF PodFails, historyVars, TypeOK
  <1>6. ASSUME NEW born, Exits(born) \/ Crash(born)
        PROVE  missed' = missed /\ podIP' = podIP
    BY <1>6 DEF Exits, Crash, BornLate
  <1> HIDE DEF Given
  <1>7. missed \subseteq missed' /\ (Given \/ podIP' = podIP)
    BY <1>1, <1>3, <1>4, <1>5, <1>6 DEF Next
  <1> QED
    BY <1>7 DEF Given

\* A pod's address is only lost with its claim: not while a stream comes from
\* it, until Close takes it.
LEMMA StreamAddress ==
  ASSUME TypeOK, OneOwner, StreamsHeld, BrokerStep, ~Closing,
         NEW r \in Streaming, r \in Streaming'
  PROVE  podIP'[req[r].claim] = podIP[req[r].claim]
  <1> DEFINE c == req[r].claim
  <1>1. /\ c \in Claims /\ cluster[c] # "unused" /\ c \notin Condemned
        /\ \A q \in DOMAIN req : Holding(q) => req[q].claim # c
    <2>1. c \in Claims
      BY DEF TypeOK, HoldsWhatItShould, Streaming
    <2> QED
      BY <2>1 DEF StreamsHeld, Streaming, OneOwner, EntryBacked, Condemned
  <1>2. ASSUME NEW q \in Requests, NEW d \in Claims, NEW ip \in IPs \cup {None},
               CreateReturns(q, d, ip) \/ CreateOrphans(q, d, ip)
        PROVE  podIP'[c] = podIP[c]
    BY <1>1, <1>2 DEF CreateReturns, CreateOrphans, ClaimFor, TypeOK
  <1>3. ASSUME NEW q \in Requests, Discard(q) PROVE podIP'[c] = podIP[c]
    <2>1. req[q].claim \in Claims /\ DeleteSandbox(req[q].claim) /\ req[q].claim # c
      BY <1>1, <1>3 DEF Discard, TypeOK, HoldsWhatItShould, Holding
    <2> QED
      BY <1>1, <2>1, DeleteAddress
  <1>4. ASSUME NEW d \in Claims, DeleteClaim(d) PROVE podIP'[c] = podIP[c]
    <2>1. DeleteSandbox(d) /\ d # c
      BY <1>1, <1>4 DEF DeleteClaim, Condemned
    <2> QED
      BY <1>1, <2>1, DeleteAddress
  <1>5. ASSUME NEW born, Exits(born) \/ Crash(born) PROVE FALSE
    BY <1>5 DEF Exits, Crash, Restart, Streaming
  <1>6. ASSUME NEW d \in Claims, CloseDeletes(d) PROVE FALSE
    BY <1>6 DEF CloseDeletes, OneOwner
  <1>7. ASSUME \/ \E q \in Requests :
                    \/ \E s \in Sessions : AcquireHit(q, s) \/ AcquireMiss(q, s)
                    \/ CreateFails(q) \/ Store(q) \/ StreamEnds(q)
               \/ Reap \/ Stop \/ \E list \in SUBSET Claims : CloseLists(list)
        PROVE  podIP' = podIP
    BY <1>7 DEF AcquireHit, AcquireMiss, CreateFails, Store, StreamEnds, Reap, Stop,
      CloseLists, clusterVars
  <1> QED
    BY <1>2, <1>3, <1>4, <1>5, <1>6, <1>7 DEF BrokerStep

\* A step of the broker is not the failure of a pod.
LEMMA NotPodFails ==
  ASSUME TypeOK, NEW c \in Claims, PodFails(c)
  PROVE  ~BrokerStep /\ podIP' # podIP
  <1>1. /\ UNCHANGED <<sessions, req, stale, released, phase, doomed, cluster>>
        /\ podIP'[c] # podIP[c]
    BY DEF PodFails, brokerVars, procVars, TypeOK
  <1>2. ASSUME NEW r \in Requests,
               \/ \E s \in Sessions : AcquireHit(r, s) \/ AcquireMiss(r, s)
               \/ \E d \in Claims, ip \in IPs \cup {None} :
                    CreateReturns(r, d, ip) \/ CreateOrphans(r, d, ip)
               \/ CreateFails(r) \/ Discard(r) \/ Store(r) \/ StreamEnds(r)
        PROVE  FALSE
    <2>1. ASSUME Discard(r) PROVE FALSE
      BY <1>1, <2>1 DEF Discard, Without
    <2>2. ASSUME NEW d \in Claims, NEW ip \in IPs \cup {None},
                 CreateReturns(r, d, ip) \/ CreateOrphans(r, d, ip)
          PROVE  FALSE
      BY <1>1, <2>2 DEF CreateReturns, CreateOrphans, ClaimFor, TypeOK
    <2> QED
      BY <1>1, <1>2, <2>1, <2>2 DEF AcquireHit, AcquireMiss, CreateFails, Store, StreamEnds,
        clusterVars
  <1>3. ASSUME \/ Reap \/ Stop \/ \E list \in SUBSET Claims : CloseLists(list)
               \/ \E d \in Claims : DeleteClaim(d) \/ CloseDeletes(d)
        PROVE  FALSE
    <2>1. ASSUME NEW d \in Claims, DeleteClaim(d) \/ CloseDeletes(d) PROVE FALSE
      BY <1>1, <2>1 DEF DeleteClaim, CloseDeletes
    <2> QED
      BY <1>1, <1>3, <2>1 DEF Reap, Stop, CloseLists, clusterVars
  <1>4. ASSUME NEW born, Exits(born) \/ Crash(born) PROVE FALSE
    BY <1>1, <1>4 DEF Exits, Crash, BornLate
  <1> QED
    BY <1>1, <1>2, <1>3, <1>4 DEF BrokerStep

\* A session comes to an agent with the sandbox that Acquire had created for it.
LEMMA ServesOrigin ==
  ASSUME Origins, DOMAIN store' \subseteq DOMAIN store, NEW c, NEW s, Serves(c, s)'
  PROVE  \/ Serves(c, s)
         \/ \E r \in DOMAIN req \cap Streaming' :
              req[r].at = "created" /\ req[r].claim = c /\ req[r].session = s
  <1>1. CASE s \in DOMAIN sessions' /\ sessions'[s].claimName = c
    BY <1>1 DEF Origins, Serves
  <1>2. CASE \E r \in Streaming' : req'[r].claim = c /\ req'[r].session = s
    <2>1. PICK r \in Streaming' : req'[r].claim = c /\ req'[r].session = s
      BY <1>2
    <2> QED
      BY <2>1 DEF Origins, Serves
  <1>3. CASE <<c, s>> \in DOMAIN store'
    BY <1>3 DEF Serves
  <1> QED
    BY <1>1, <1>2, <1>3 DEF Serves

\* A sandbox that serves has been created.
LEMMA ServesCreated ==
  ASSUME Base, NEW c \in Claims, NEW s, Serves(c, s)
  PROVE  cluster[c] # "unused"
  <1>1. CASE s \in DOMAIN sessions /\ sessions[s].claimName = c
    BY <1>1 DEF Base, OneOwner
  <1>2. CASE \E r \in Streaming : req[r].claim = c /\ req[r].session = s
    BY <1>2 DEF Base, StreamsHeld, Streaming, OneOwner
  <1>3. CASE <<c, s>> \in DOMAIN store
    BY <1>3 DEF Base, PodsBacked
  <1> QED
    BY <1>1, <1>2, <1>3 DEF Serves

LEMMA ExclusiveMove ==
  ASSUME Base, Exclusive, Origins, missed \subseteq missed', DOMAIN store' \subseteq DOMAIN store,
         \A i \in Claims \X Sessions : answered'[i] \in {answered[i], <<>>}
  PROVE  Exclusive'
  <1>1. \A r \in DOMAIN req : Holding(r) => req[r].claim \in Claims
    BY DEF Base, TypeOK, HoldsWhatItShould, Holding
  <1>2. \A r \in DOMAIN req : Holding(r) => cluster[req[r].claim] # "unused"
    BY DEF Base, OneOwner
  <1>3. ASSUME NEW c \in Claims \ missed', NEW s \in Sessions, NEW t \in Sessions,
               Serves(c, s)', Serves(c, t)'
        PROVE  s = t
    <2>1. CASE Serves(c, s) /\ Serves(c, t)
      BY <2>1 DEF Exclusive
    <2>2. ASSUME NEW r \in DOMAIN req, req[r].at = "created", req[r].claim = c
          PROVE  ~Serves(c, s) /\ ~Serves(c, t)
      BY <2>2 DEF Exclusive, Holding
    <2>3. ASSUME NEW r \in DOMAIN req, req[r].at = "created", req[r].claim = c,
                 NEW q \in DOMAIN req, req[q].at = "created", req[q].claim = c
          PROVE  r = q
      BY <2>3 DEF Base, OneOwner, Holding
    <2> QED
      BY <1>3, <2>1, <2>2, <2>3, ServesOrigin
  <1>4. ASSUME NEW r \in DOMAIN req', Holding(r)', NEW s \in Sessions,
               NEW c, c = req'[r].claim, c \notin missed'
        PROVE  ~Serves(c, s)' /\ answered'[<<c, s>>] = <<>>
    <2>1. CASE r \in DOMAIN req /\ Holding(r) /\ req'[r].claim = req[r].claim
      <3>1. /\ c \in Claims /\ ~Serves(c, s)
            /\ answered[<<c, s>>] = <<>>
        BY <1>1, <1>4, <2>1 DEF Exclusive
      <3>2. ASSUME NEW q \in DOMAIN req \cap Streaming', req[q].at = "created", req[q].claim = c
            PROVE  FALSE
        <4>1. q = r
          BY <1>4, <2>1, <3>2 DEF Base, OneOwner, Holding
        <4> QED
          BY <1>4, <3>2, <4>1 DEF Streaming, Holding
      <3> QED
        BY <3>1, <3>2, ServesOrigin
    <2>2. CASE c \in Claims /\ cluster[c] = "unused"
      <3>1. ~Serves(c, s)
        BY <2>2, ServesCreated
      <3>2. answered[<<c, s>>] = <<>>
        BY <2>2 DEF Base, PodsBacked
      <3>3. ~ \E q \in DOMAIN req : req[q].at = "created" /\ req[q].claim = c
        BY <1>2, <2>2 DEF Holding
      <3> QED
        BY <2>2, <3>1, <3>2, <3>3, ServesOrigin
    <2> QED
      BY <1>4, <2>1, <2>2 DEF Origins
  <1>5. \A r \in DOMAIN req' : Holding(r)' /\ req'[r].claim \notin missed' => \A s \in Sessions :
          ~Serves(req[r].claim, s)' /\ answered'[<<req'[r].claim, s>>] = <<>>
    BY <1>4
  <1> QED
    BY <1>3, <1>5 DEF Exclusive

LEMMA DirectMove ==
  ASSUME Base, Addressed, Direct, BrokerStep
  PROVE  Direct'
  <1>1. Origins /\ missed \subseteq missed'
    BY BrokerOrigins, BrokerSteps, AddressGiven DEF Base, ServiceNext
  <1>2. ASSUME NEW r \in Streaming', ~Closing' PROVE req'[r].baseURL = podIP'[req'[r].claim]
    <2>0. ~Closing
      BY <1>2, BrokerSteps, PhaseStep DEF ServiceNext, Streaming
    <2>1. CASE /\ r \in Streaming
               /\ req'[r].claim = req[r].claim /\ req'[r].baseURL = req[r].baseURL
      BY <2>0, <2>1, StreamAddress DEF Base, Direct
    <2>2. CASE \/ /\ req'[r].session \in DOMAIN sessions /\ podIP' = podIP
                  /\ req'[r].claim = sessions[req'[r].session].claimName
                  /\ req'[r].baseURL = sessions[req'[r].session].baseURL
               \/ /\ r \in DOMAIN req /\ req[r].at = "created" /\ podIP' = podIP
                  /\ req'[r].claim = req[r].claim
                  /\ req'[r].baseURL = req[r].baseURL
      BY <2>0, <2>2 DEF Addressed
    <2> QED
      BY <1>1, <2>1, <2>2 DEF Origins
  <1>3. ASSUME NEW m \in DOMAIN msg' \cap DOMAIN req'
        PROVE  msg'[m].id[1] \in {req'[m].claim} \cup missed'
    <2>1. m \in DOMAIN msg /\ msg'[m] = msg[m] /\ m \in sent
      BY LostFacts, MessageTypes DEF Base
    <2>2. m \in DOMAIN req /\ req'[m] = req[m]
      BY <2>1, SentStreams DEF Base, InFlight
    <2> QED
      BY <1>1, <2>1, <2>2 DEF Direct
  <1> QED
    BY <1>2, <1>3 DEF Direct

\* An address that was a claim's is given to no other, but to one that Close
\* may miss: until Close runs, the pod there still has it.
LEMMA HomesStep ==
  ASSUME TypeOK, [Next]_vars, NEW c \in Claims, NEW ip \in IPs, Homes(c, ip),
         ~Closing => podIP[c] = ip
  PROVE  Homes(c, ip)'
  <1> SUFFICES ASSUME NEW d \in Claims, podIP'[d] = ip, d # c PROVE d \in missed'
    BY DEF Homes
  <1> QED
    BY AddressGiven, ProviderAssumption DEF Homes

LEMMA HomedMove ==
  ASSUME Base, Addressed, Direct, Homed, Origins, [Next]_vars
  PROVE  Homed'
  <1> DEFINE HomesNow(c, ip) == \A d \in Claims : podIP'[d] = ip => d = c \/ d \in missed'
  <1>1. ASSUME NEW c \in Claims, NEW ip \in IPs, Homes(c, ip), ~Closing => podIP[c] = ip
        PROVE  HomesNow(c, ip)
    BY <1>1, HomesStep DEF Base, Homes
  <1>2. ASSUME NEW t \in DOMAIN sessions
        PROVE  HomesNow(sessions[t].claimName, sessions[t].baseURL)
    <2>1. sessions[t].claimName \in Claims /\ sessions[t].baseURL \in IPs
      BY DEF Base, TypeOK, Entry
    <2> QED
      BY <1>1, <2>1 DEF Homed, Addressed
  <1>3. ASSUME NEW q \in DOMAIN req, req[q].at \in {"created", "streaming"}
        PROVE  HomesNow(req[q].claim, req[q].baseURL)
    <2>1. req[q].claim \in Claims /\ req[q].baseURL \in IPs
      BY <1>3 DEF Base, TypeOK, HoldsWhatItShould
    <2>2. ~Closing => podIP[req[q].claim] = req[q].baseURL
      BY <1>3 DEF Addressed, Direct, Streaming
    <2> QED
      BY <1>1, <1>3, <2>1, <2>2 DEF Homed
  <1> HIDE DEF HomesNow
  <1>4. \A t \in DOMAIN sessions' : HomesNow(sessions'[t].claimName, sessions'[t].baseURL)
    BY <1>2, <1>3 DEF Origins
  <1>5. ASSUME NEW q \in DOMAIN req', req'[q].at = "created"
        PROVE  HomesNow(req'[q].claim, req'[q].baseURL)
    <2>1. CASE \A d \in Claims : podIP'[d] = req'[q].baseURL => d = req'[q].claim
      BY <2>1 DEF HomesNow
    <2> QED
      BY <1>3, <1>5, <2>1 DEF Origins
  <1>6. ASSUME NEW q \in Streaming' PROVE HomesNow(req'[q].claim, req'[q].baseURL)
    BY <1>2, <1>3, <1>6 DEF Origins, Streaming
  <1> USE DEF HomesNow
  <1> QED
    BY <1>4, <1>5, <1>6 DEF Homed, Homes, Streaming

\* A request goes to the agent of its claim, or to one that came up at the
\* address of a sandbox that Close had deleted.
LEMMA DeliveredHome ==
  ASSUME Base, Addressed, Direct, Homed, NEW r \in Requests, NEW c \in Claims, Delivered(r, c)
  PROVE  /\ r \in Streaming
         /\ c = req[r].claim \/ c \in missed
         /\ ~Closing => c = req[r].claim
  <1>1. r \in Streaming /\ podIP[c] = req[r].baseURL
    BY DEF Delivered, Streaming
  <1>2. req[r].claim \in Claims /\ req[r].baseURL # None
    BY <1>1, ProviderAssumption DEF Streaming, Base, TypeOK, HoldsWhatItShould
  <1>3. c = req[r].claim \/ c \in missed
    BY <1>1 DEF Homed, Homes, Streaming
  <1>4. ~Closing => c = req[r].claim
    BY <1>1, <1>2 DEF Direct, Addressed
  <1> QED
    BY <1>1, <1>3, <1>4

LEMMA PrivateStep ==
  ASSUME Base, Private, ServiceNext, ~podLost'
  PROVE  Private'
  <1>1. ASSUME NEW r \in Requests, Deliver(r) PROVE Private'
    <2>1. PICK c \in Claims : Delivered(r, c)
      BY <1>1, DeliverFacts DEF Base
    <2>2. (c = req[r].claim \/ c \in missed) /\ r \in Streaming
      BY <2>1, DeliveredHome DEF Private
    <2>3. UNCHANGED vars
      BY <2>1 DEF Delivered
    <2>4. Streaming' = Streaming
      BY <2>3 DEF vars, Streaming
    <2>5. \A d, s : Serves(d, s)' /\ d \notin missed => Serves(d, s)
      BY <2>1, <2>2, <2>3, <2>4 DEF Delivered, vars, Serves
    <2>6. Direct'
      BY <2>1, <2>2, <2>3, <2>4 DEF Delivered, vars, Private, Direct, Closing
    <2>7. Exclusive'
      BY <2>1, <2>3, <2>5 DEF Delivered, vars, Private, Exclusive, Holding
    <2> QED
      BY <2>3, <2>6, <2>7 DEF vars, Private, Addressed, Homed, Homes, Closing
  <1>2. ASSUME NEW r \in Requests, Answer(r) PROVE Private'
    <2>1. /\ UNCHANGED <<vars, store>>
          /\ DOMAIN msg' \subseteq DOMAIN msg
          /\ \A m \in DOMAIN msg' : msg'[m].id = msg[m].id
      BY <1>2, AnswerFacts DEF Base
    <2>2. \A d, s : Serves(d, s)' => Serves(d, s)
      BY <2>1 DEF vars, Serves, Streaming
    <2>3. ASSUME NEW q \in DOMAIN req, Holding(q), req[q].claim \notin missed,
                 NEW s \in Sessions
          PROVE  answered'[<<req[q].claim, s>>] = <<>>
      <3>1. <<req[q].claim, s>> \notin DOMAIN store
        BY <2>3 DEF Private, Exclusive, Serves
      <3>2. \A m \in DOMAIN msg : msg[m].id # <<req[q].claim, s>>
        BY <3>1, MessageTypes
      <3>3. answered[<<req[q].claim, s>>] = <<>>
        BY <2>3 DEF Private, Exclusive
      <3>4. <<req[q].claim, s>> \in DOMAIN answered
        BY <2>3 DEF Base, TypeOK, HoldsWhatItShould, Holding, Conv!IInv, Conv!TypeOK
      <3>5. CASE Conv!Succeed(r)
        BY <3>2, <3>3, <3>4, <3>5 DEF Conv!Succeed, Conv!Running
      <3>6. CASE Conv!Lock(r) \/ Conv!Fail(r)
        BY <3>3, <3>6 DEF Conv!Lock, Conv!Fail
      <3> QED
        BY <1>2, <3>5, <3>6, SameActions DEF Answer
    <2>4. Exclusive'
      BY <2>1, <2>2, <2>3 DEF vars, Private, Exclusive, Holding
    <2> QED
      BY <2>1, <2>4 DEF vars, Private, Addressed, Direct, Homed, Homes, Streaming, Closing
  <1>3. ASSUME BrokerStep PROVE Private'
    <2>1. \A c \in Claims : ~PodFails(c)
      BY <1>3, NotPodFails DEF Base
    <2>2. [Next]_vars /\ Origins
      BY <1>3, BrokerSteps, BrokerOrigins DEF Base
    <2>3. Addressed'
      BY <2>1, <2>2, AddressStep DEF Base, Private
    <2>4. Exclusive'
      BY <1>3, <2>2, LostFacts, AddressGiven, ExclusiveMove DEF Base, Private
    <2> QED
      BY <1>3, <2>2, <2>3, <2>4, DirectMove, HomedMove DEF Private
  <1>4. ASSUME NEW c \in Claims, AgentReaps(c) PROVE Private'
    <2>1. /\ UNCHANGED <<vars, msg, answered>>
          /\ DOMAIN store' \subseteq DOMAIN store
      BY <1>4, AgentReapsFacts
    <2>2. \A d, s : Serves(d, s)' => Serves(d, s)
      BY <2>1 DEF vars, Serves, Streaming
    <2> QED
      BY <2>1, <2>2 DEF vars, Private, Addressed, Direct, Homed, Homes, Exclusive, Streaming,
        Holding, Closing
  <1>5. ASSUME TimePasses PROVE Private'
    <2>1. Tick /\ Conv!Tick
      BY <1>5, SameActions DEF TimePasses
    <2>2. /\ DOMAIN store' = DOMAIN store /\ answered' = answered
          /\ DOMAIN msg' = DOMAIN msg
          /\ \A m \in DOMAIN msg : msg'[m].id = msg[m].id
      <3>1. /\ DOMAIN msg' = DOMAIN msg
            /\ \A m \in DOMAIN msg : msg'[m].id = msg[m].id
        BY <2>1, Conv!TickFacts, ServiceAssumption DEF Base
      <3> QED
        BY <2>1, <3>1 DEF Conv!Tick
    <2>3. Exclusive' /\ Homed'
      <3>1. [Next]_vars /\ Origins
        BY <2>1, BrokerOrigins DEF Base, Next
      <3> QED
        BY <2>2, <3>1, AddressGiven, ExclusiveMove, HomedMove DEF Base, Private
    <2>4. /\ UNCHANGED <<podIP, phase, missed>>
          /\ DOMAIN sessions' = DOMAIN sessions /\ DOMAIN req' = DOMAIN req
          /\ \A t \in DOMAIN sessions : /\ sessions'[t].claimName = sessions[t].claimName
                                        /\ sessions'[t].baseURL = sessions[t].baseURL
          /\ \A q \in DOMAIN req :
               /\ req'[q].at = req[q].at /\ req'[q].claim = req[q].claim
               /\ req'[q].baseURL = req[q].baseURL
      BY <2>1 DEF Tick, Base, TypeOK, Entry, Handler, procVars, clusterVars, historyVars
    <2>5. Addressed' /\ Direct'
      BY <2>2, <2>4 DEF Private, Addressed, Direct, Streaming, Closing
    <2> QED
      BY <2>3, <2>5 DEF Private
  <1>6. ASSUME NEW c \in Claims, PodLost(c) PROVE FALSE
    BY <1>6 DEF PodLost
  <1>7. ASSUME NEW r \in Requests, NotTaken(r) PROVE Private'
    <2>1. /\ UNCHANGED <<sessions, podIP, phase, missed, store, msg, answered>>
          /\ DOMAIN req' = DOMAIN req \ {r} /\ \A q \in DOMAIN req' : req'[q] = req[q]
      BY <1>7, NotTakenFacts DEF procVars, clusterVars, historyVars
    <2>2. \A d, s : Serves(d, s)' => Serves(d, s)
      BY <2>1 DEF Serves, Streaming
    <2> QED
      BY <2>1, <2>2 DEF Private, Addressed, Direct, Homed, Homes, Exclusive, Streaming,
        Holding, Closing
  <1> QED
    BY <1>1, <1>2, <1>3, <1>4, <1>5, <1>6, <1>7 DEF ServiceNext

-----------------------------------------------------------------------------
(* The agent remembers *)

\* What the broker does with an entry of its map.
LEMMA EntryOrigin ==
  ASSUME TypeOK, BrokerStep, NEW s \in DOMAIN sessions'
  PROVE  \/ s \in DOMAIN sessions /\ sessions'[s] = sessions[s]
         \/ /\ s \in DOMAIN sessions /\ sessions'[s].claimName = sessions[s].claimName
            /\ \E r \in Streaming' \ sent :
                 /\ req'[r].claim = sessions[s].claimName /\ req'[r].session = s
                 /\ req'[r].age = 0
         \/ \E r \in DOMAIN req : /\ req[r].at = "created" /\ req[r].session = s
                                  /\ sessions'[s].claimName = req[r].claim
  <1>1. ASSUME NEW r \in Requests, NEW t \in Sessions, Fresh(r), AcquireHit(r, t)
        PROVE  /\ s \in DOMAIN sessions
               /\ \/ sessions'[s] = sessions[s]
                  \/ /\ sessions'[s].claimName = sessions[s].claimName
                     /\ \E q \in Streaming' \ sent :
                          /\ req'[q].claim = sessions[s].claimName /\ req'[q].session = s
                          /\ req'[q].age = 0
    <2>1. /\ DOMAIN sessions' = DOMAIN sessions /\ t \in DOMAIN sessions
          /\ sessions'[t].claimName = sessions[t].claimName
          /\ \A u \in DOMAIN sessions : u # t => sessions'[u] = sessions[u]
      BY <1>1 DEF AcquireHit, Seen, Known, TypeOK, Entry
    <2>2. /\ r \in DOMAIN req' /\ r \notin sent
          /\ req'[r].at = "streaming" /\ req'[r].session = t /\ req'[r].age = 0
          /\ req'[r].claim = sessions[t].claimName
      BY <1>1 DEF AcquireHit, Seen, Known, Put, Fresh
    <2> QED
      BY <2>1, <2>2 DEF Streaming
  <1>2. ASSUME NEW r \in Requests, Store(r)
        PROVE  \/ s \in DOMAIN sessions /\ sessions'[s] = sessions[s]
               \/ /\ r \in DOMAIN req /\ req[r].at = "created" /\ req[r].session = s
                  /\ sessions'[s].claimName = req[r].claim
    BY <1>2 DEF Store, Put
  <1>3. ASSUME \/ \E r \in Requests :
                    \/ \E t \in Sessions : AcquireMiss(r, t)
                    \/ \E c \in Claims, ip \in IPs \cup {None} :
                         CreateReturns(r, c, ip) \/ CreateOrphans(r, c, ip)
                    \/ CreateFails(r) \/ Discard(r) \/ StreamEnds(r)
               \/ Reap \/ Stop \/ \E list \in SUBSET Claims : CloseLists(list)
               \/ \E c \in Claims : DeleteClaim(c) \/ CloseDeletes(c)
        PROVE  s \in DOMAIN sessions /\ sessions'[s] = sessions[s]
    BY <1>3 DEF AcquireMiss, CreateReturns, CreateOrphans, CreateFails, Discard, StreamEnds,
      Reap, Collected, Kept, Stop, CloseLists, DeleteClaim, CloseDeletes, Without
  <1>4. ASSUME NEW born, Exits(born) \/ Crash(born) PROVE FALSE
    BY <1>4 DEF Exits, Crash, Restart
  <1> QED
    BY <1>1, <1>2, <1>3, <1>4 DEF BrokerStep

\* While the process lives, a stream whose request has not been sent goes on.
GoesOn(q) == q \in DOMAIN req' /\ req'[q] = req[q]

LEMMA UnsentStreams ==
  ASSUME TypeOK, BrokerStep, NEW q \in Streaming, q \notin sent
  PROVE  DOMAIN sessions' = {} \/ GoesOn(q)
  <1> USE DEF Streaming
  <1> USE DEF GoesOn
  <1>1. ASSUME NEW r \in Requests, NEW s \in Sessions, AcquireHit(r, s) \/ AcquireMiss(r, s)
        PROVE  GoesOn(q)
    BY <1>1 DEF AcquireHit, AcquireMiss, Known, Seen, Arrives, Put
  <1>2. ASSUME NEW r \in Requests, NEW c \in Claims, NEW ip \in IPs \cup {None},
               CreateReturns(r, c, ip)
        PROVE  GoesOn(q)
    <2>1. PICK h : r # q /\ r \in DOMAIN req /\ req' = [req EXCEPT ![r] = h]
      <3>1. req' = [req EXCEPT ![r] =
                      [req[r] EXCEPT !.at = IF ip = None THEN "discarding" ELSE "created",
                                     !.claim = c, !.baseURL = ip]]
        BY <1>2 DEF CreateReturns, ClaimFor, HasAddress
      <3>2. r # q /\ r \in DOMAIN req
        BY <1>2 DEF CreateReturns, ClaimFor
      <3> QED
        BY <3>1, <3>2
    <2> QED
      BY <2>1
  <1>3. ASSUME NEW r \in Requests,
               \/ CreateFails(r) \/ Discard(r)
               \/ \E c \in Claims, ip \in IPs \cup {None} : CreateOrphans(r, c, ip)
        PROVE  GoesOn(q)
    BY <1>3 DEF CreateFails, CreateOrphans, ClaimFor, Discard, Without
  <1>4. ASSUME NEW r \in Requests, ~Fresh(r), StreamEnds(r)
        PROVE  GoesOn(q)
    BY <1>4 DEF StreamEnds, Fresh, Without
  <1>5. ASSUME NEW r \in Requests, Store(r) PROVE GoesOn(q)
    BY <1>5 DEF Store
  <1>6. ASSUME \/ Reap \/ Stop \/ \E list \in SUBSET Claims : CloseLists(list)
               \/ \E c \in Claims : DeleteClaim(c) \/ CloseDeletes(c)
        PROVE  GoesOn(q)
    BY <1>6 DEF Reap, Stop, CloseLists, DeleteClaim, CloseDeletes
  <1>7. ASSUME NEW born, Exits(born) \/ Crash(born)
        PROVE  DOMAIN sessions' = {}
    BY <1>7 DEF Exits, Crash, Restart
  <1> HIDE DEF GoesOn, Streaming
  <1> QED
    BY <1>1, <1>2, <1>3, <1>4, <1>5, <1>6, <1>7 DEF BrokerStep

\* Requests that were routed to the session's agent and have not reached it.
Undelivered(s) ==
  {r \in Streaming \ sent : req[r].claim = sessions[s].claimName /\ req[r].session = s}

\* The agent has seen the session since the broker last did, but for a request
\* on its way: then not long before the oldest such request was routed.
Clocks(s) ==
  LET i == <<sessions[s].claimName, s>> IN
    i \in DOMAIN store =>
      \/ store[i].idle <= sessions[s].idle
      \/ \E r \in Undelivered(s) : store[i].idle <= IdleTTL + 1 + req[r].age

Remembers(s) ==
  LET i == <<sessions[s].claimName, s>> IN Conversing(i) = answered[i] /\ Clocks(s)

Remembered ==
  Serving => \A s \in DOMAIN sessions : sessions[s].claimName \notin unheard => Remembers(s)

\* So the agent's clock does not run out.
LEMMA ClockBound ==
  ASSUME TimesFit, Base, NEW s \in DOMAIN sessions, Clocks(s),
         <<sessions[s].claimName, s>> \in DOMAIN store
  PROVE  store[<<sessions[s].claimName, s>>].idle <= SessionTTL
  <1>1. /\ MaxStream \in Nat /\ IdleTTL \in Nat /\ SessionTTL \in Nat
        /\ IdleTTL + 1 + MaxStream <= SessionTTL
    BY ProviderAssumption, ServiceAssumption DEF TimesFit
  <1>2. sessions[s].idle \in Nat /\ sessions[s].idle <= IdleTTL + 1
    BY <1>1 DEF Base, TypeOK, Entry
  <1>3. \A r \in Streaming : req[r].age \in Nat /\ req[r].age <= MaxStream
    BY <1>1 DEF Base, TypeOK, Handler, Streaming
  <1>4. store[<<sessions[s].claimName, s>>].idle \in Nat
    BY ServiceAssumption DEF Base, Conv!IInv, Conv!TypeOK, Conv!Entry
  <1> QED
    BY <1>1, <1>2, <1>3, <1>4 DEF Clocks, Undelivered

\* An agent answers only in the conversations it has.
LEMMA AnsweredElsewhere ==
  ASSUME Base, ServiceNext, NEW i \in Claims \X Sessions, i \notin DOMAIN store
  PROVE  answered'[i] \in {answered[i], <<>>}
  <1>1. ASSUME NEW r \in Requests, Deliver(r) PROVE answered'[i] = answered[i]
    BY <1>1, DeliverFacts DEF Base, Delivered
  <1>2. ASSUME NEW r \in Requests, Answer(r) PROVE answered'[i] = answered[i]
    <2>1. \A m \in DOMAIN msg : msg[m].id # i
      BY MessageTypes
    <2>2. i \in DOMAIN answered
      BY DEF Base, Conv!IInv, Conv!TypeOK
    <2>3. CASE Conv!Succeed(r)
      BY <2>1, <2>2, <2>3 DEF Conv!Succeed, Conv!Running
    <2>4. CASE Conv!Lock(r) \/ Conv!Fail(r)
      BY <2>4 DEF Conv!Lock, Conv!Fail
    <2> QED
      BY <1>2, <2>3, <2>4, SameActions DEF Answer
  <1>3. ASSUME BrokerStep \/ \E c \in Claims : PodLost(c)
        PROVE  answered'[i] \in {answered[i], <<>>}
    BY <1>3, LostFacts DEF Base
  <1>4. ASSUME NEW c \in Claims, AgentReaps(c) PROVE answered'[i] = answered[i]
    BY <1>4, AgentReapsFacts
  <1>5. ASSUME TimePasses PROVE answered'[i] = answered[i]
    BY <1>5, SameActions DEF TimePasses, Conv!Tick
  <1>6. ASSUME NEW r \in Requests, NotTaken(r) PROVE answered'[i] = answered[i]
    BY <1>6, NotTakenFacts
  <1> QED
    BY <1>1, <1>2, <1>3, <1>4, <1>5, <1>6 DEF ServiceNext

\* A conversation that stays in the store stays what the agent has answered.
LEMMA ConversationStep ==
  ASSUME Base, ServiceNext, NEW i \in Claims \X Sessions,
         Conversing(i) = answered[i], i \in DOMAIN store => i \in DOMAIN store'
  PROVE  (Conversing(i) = answered[i])'
  <1>1. CASE i \in DOMAIN store'
    <2>1. CASE Unread
      BY <2>1 DEF Unread, Conversing
    <2>2. ASSUME NEW I \in SUBSET (Claims \X Sessions), Conv!Steps(I)
          PROVE  (Conversing(i) = answered[i])'
      BY <1>1, <2>2, Conv!AnswerStep, ServiceAssumption DEF Base, Conversing
    <2> QED
      BY <2>1, <2>2, AgentSteps DEF Base
  <1>2. CASE i \notin DOMAIN store'
    BY <1>2, AnsweredElsewhere DEF Conversing
  <1> QED
    BY <1>1, <1>2

LEMMA ServingStep == ASSUME ServiceNext, Serving' PROVE Serving \/ DOMAIN sessions' = {}
  BY BrokerSteps, PhaseStep

\* A request arrives: the clock of its session starts anew, and the other
\* requests are still on their way.
LEMMA DeliverClocks ==
  ASSUME Base, Private, Serving, NEW r \in Requests, NEW c \in Claims, Delivered(r, c),
         NEW s \in DOMAIN sessions, Clocks(s)
  PROVE  Clocks(s)'
  <1> DEFINE i == <<sessions[s].claimName, s>>
  <1>1. c = req[r].claim /\ r \in Streaming
    BY DeliveredHome DEF Private, Serving, Closing
  <1>2. sessions' = sessions /\ req' = req /\ Streaming' = Streaming
    BY DEF Delivered, vars, Streaming
  <1>3. CASE i = <<c, req[r].session>>
    <2>1. store'[i].idle = 0 /\ sessions[s].idle \in Nat
      BY <1>3, ProviderAssumption DEF Delivered, Base, TypeOK, Entry
    <2> QED
      BY <1>2, <2>1 DEF Clocks
  <1>4. CASE i # <<c, req[r].session>>
    <2>1. i \in DOMAIN store' => i \in DOMAIN store /\ store'[i] = store[i]
      BY <1>4 DEF Delivered
    <2>2. Undelivered(s)' = Undelivered(s)
      BY <1>1, <1>2, <1>4 DEF Delivered, Undelivered
    <2> QED
      BY <1>2, <2>1, <2>2 DEF Clocks
  <1> QED
    BY <1>3, <1>4

\* All clocks advance together, and the broker's has not reached its end: the
\* reaper would have come.
LEMMA TickClocks ==
  ASSUME Base, Serving, TimePasses, NEW s \in DOMAIN sessions, Clocks(s)
  PROVE  Clocks(s)'
  <1> DEFINE i == <<sessions[s].claimName, s>>
  <1>1. Tick /\ Conv!Tick /\ ~Expired(s)
    BY SameActions DEF TimePasses
  <1>2. /\ sessions[s].idle \in Nat /\ sessions'[s].idle = sessions[s].idle + 1
        /\ sessions'[s].claimName = sessions[s].claimName
    BY <1>1, ProviderAssumption DEF Tick, Expired, Base, TypeOK, Entry
  <1>3. /\ DOMAIN store' = DOMAIN store
        /\ \A j \in DOMAIN store : /\ store[j].idle \in Nat /\ store'[j].idle \in Nat
                                   /\ store'[j].idle <= store[j].idle + 1
    BY <1>1, Conv!TickFacts, ServiceAssumption DEF Base
  <1>4. \A q \in Undelivered(s) : /\ req[q].age \in Nat /\ req'[q].age = req[q].age + 1
                                  /\ q \in Undelivered(s)'
    BY <1>1, <1>2 DEF Tick, Conv!Tick, Undelivered, Streaming, Base, TypeOK, Handler
  <1> QED
    BY <1>2, <1>3, <1>4, ProviderAssumption DEF Clocks

\* A request that no agent takes was not on its way to this session's.
LEMMA NotTakenClocks ==
  ASSUME NEW r \in Requests, NotTaken(r), NEW s \in DOMAIN sessions,
         sessions[s].claimName \notin unheard', Clocks(s)
  PROVE  Clocks(s)'
  <1>1. /\ UNCHANGED <<sessions, store>> /\ req[r].claim # sessions[s].claimName
        /\ DOMAIN req' = DOMAIN req \ {r} /\ \A q \in DOMAIN req' : req'[q] = req[q]
        /\ sent' = sent \cup {r}
    BY NotTakenFacts
  <1>2. Undelivered(s)' = Undelivered(s)
    BY <1>1 DEF Undelivered, Streaming
  <1>3. \A q \in Undelivered(s) : req'[q] = req[q]
    BY <1>1 DEF Undelivered, Streaming
  <1> QED
    BY <1>1, <1>2, <1>3 DEF Clocks

\* The broker's steps.
LEMMA BrokerClocks ==
  ASSUME Base, Private, BrokerStep, NEW s \in DOMAIN sessions, Clocks(s),
         s \in DOMAIN sessions', sessions'[s].claimName = sessions[s].claimName,
         \/ sessions'[s] = sessions[s]
         \/ \E r \in Streaming' \ sent :
              /\ req'[r].claim = sessions[s].claimName /\ req'[r].session = s
              /\ req'[r].age = 0
  PROVE  Clocks(s)'
  <1> DEFINE i == <<sessions[s].claimName, s>>
  <1>1. /\ sent' = sent
        /\ i \in DOMAIN store' => i \in DOMAIN store /\ store'[i] = store[i]
    BY LostFacts DEF Base
  <1>2. sessions[s].idle \in Nat /\ sessions[s].idle <= IdleTTL + 1
    BY ProviderAssumption DEF Base, TypeOK, Entry
  <1>3. ASSUME NEW q \in Undelivered(s)
        PROVE  q \in Undelivered(s)' /\ req'[q].age = req[q].age
    <2>1. GoesOn(q)
      BY UnsentStreams DEF Undelivered, Base
    <2> QED
      BY <1>1, <2>1 DEF GoesOn, Undelivered, Streaming
  <1>4. CASE sessions'[s] = sessions[s]
    BY <1>1, <1>3, <1>4 DEF Clocks
  <1>5. ASSUME NEW r \in Streaming' \ sent,
               req'[r].claim = sessions[s].claimName /\ req'[r].session = s, req'[r].age = 0
        PROVE  Clocks(s)'
    <2>1. r \in Undelivered(s)'
      BY <1>1, <1>5 DEF Undelivered
    <2>2. ASSUME i \in DOMAIN store, store[i].idle <= sessions[s].idle
          PROVE  store[i].idle <= IdleTTL + 1 + req'[r].age
      <3>1. store[i].idle \in Nat
        BY <2>2, ServiceAssumption DEF Base, Conv!IInv, Conv!TypeOK, Conv!Entry
      <3> QED
        BY <1>2, <1>5, <2>2, <3>1, ProviderAssumption
    <2> QED
      BY <1>1, <1>3, <2>1, <2>2 DEF Clocks
  <1> QED
    BY <1>4, <1>5

LEMMA RememberStep ==
  ASSUME TimesFit, Base, Private, Base', Private', Remembered, ServiceNext, ~podLost'
  PROVE  Remembered'
  <1> SUFFICES ASSUME Serving', NEW s \in DOMAIN sessions', sessions'[s].claimName \notin unheard'
               PROVE  Remembers(s)'
    BY DEF Remembered
  <1>1. Serving /\ ~Closing /\ ~Closing'
    BY ServingStep DEF Serving, Closing
  <1>0. unheard \subseteq unheard'
    <2>1. ASSUME NEW r \in Requests, Deliver(r) \/ NotTaken(r) \/ Answer(r)
          PROVE  unheard \subseteq unheard'
      BY <2>1 DEF Deliver, NotTaken, Answer
    <2>2. ASSUME NEW c \in Claims, AgentReaps(c) \/ PodLost(c) PROVE unheard' = unheard
      BY <2>2 DEF AgentReaps, PodLost
    <2> QED
      BY <2>1, <2>2 DEF ServiceNext, BrokerStep, TimePasses
  <1>2. ASSUME NEW i \in Claims \X Sessions, Conversing(i) = answered[i],
               i \in DOMAIN store => i \in DOMAIN store'
        PROVE  (Conversing(i) = answered[i])'
    BY <1>2, ConversationStep
  <1>3. ASSUME NEW t \in DOMAIN sessions, sessions[t].claimName \notin unheard
        PROVE  /\ Remembers(t) /\ <<sessions[t].claimName, t>> \in Claims \X Sessions
               /\ t \in Sessions
    BY <1>1, <1>3 DEF Remembered, Base, TypeOK, Entry
  <1>4. ASSUME s \in DOMAIN sessions, sessions'[s].claimName = sessions[s].claimName, Clocks(s)',
               LET i == <<sessions[s].claimName, s>> IN i \in DOMAIN store => i \in DOMAIN store'
        PROVE  Remembers(s)'
    <2>1. (Conversing(<<sessions[s].claimName, s>>) = answered[<<sessions[s].claimName, s>>])'
      BY <1>0, <1>2, <1>3, <1>4 DEF Remembers, Conversing
    <2> QED
      BY <1>4, <2>1 DEF Remembers
  <1>5. ASSUME NEW r \in Requests, Deliver(r) PROVE Remembers(s)'
    <2>1. PICK c \in Claims : Delivered(r, c)
      BY <1>5, DeliverFacts DEF Base
    <2>2. sessions' = sessions
      BY <2>1 DEF Delivered, vars
    <2> QED
      BY <1>0, <1>1, <1>3, <1>4, <2>1, <2>2, DeliverClocks DEF Remembers, Delivered
  <1>6. ASSUME NEW r \in Requests, Answer(r) PROVE Remembers(s)'
    <2>1. UNCHANGED <<vars, store, sent>>
      BY <1>6, AnswerFacts DEF Base
    <2>2. sessions' = sessions /\ Clocks(s)' = Clocks(s)
      BY <2>1 DEF vars, Clocks, Undelivered, Streaming
    <2> QED
      BY <1>0, <1>3, <1>4, <2>1, <2>2 DEF Remembers
  <1>7. ASSUME NEW c \in Claims, AgentReaps(c) PROVE Remembers(s)'
    <2> DEFINE i == <<sessions[s].claimName, s>>
    <2>1. /\ UNCHANGED <<vars, sent>> /\ \A j \in DOMAIN store' : store'[j] = store[j]
          /\ DOMAIN store' \subseteq DOMAIN store
          /\ \A j \in DOMAIN store : j \notin DOMAIN store' => store[j].idle > SessionTTL
      BY <1>7, AgentReapsFacts
    <2>2. sessions' = sessions
      BY <2>1 DEF vars
    <2>3. Clocks(s)
      BY <1>0, <1>3, <2>2 DEF Remembers
    <2>4. i \in DOMAIN store => i \in DOMAIN store'
      <3>1. ASSUME i \in DOMAIN store
            PROVE  store[i].idle \in Nat /\ store[i].idle <= SessionTTL /\ SessionTTL \in Nat
        BY <2>2, <2>3, <3>1, ClockBound, ServiceAssumption
          DEF Base, Conv!IInv, Conv!TypeOK, Conv!Entry
      <3> QED
        BY <2>1, <3>1
    <2>5. Clocks(s)'
      BY <2>1, <2>2, <2>3 DEF vars, Clocks, Undelivered, Streaming
    <2> QED
      BY <1>4, <2>2, <2>4, <2>5
  <1>8. ASSUME TimePasses PROVE Remembers(s)'
    <2>1. /\ DOMAIN sessions' = DOMAIN sessions
          /\ \A t \in DOMAIN sessions : sessions'[t].claimName = sessions[t].claimName
      BY <1>8 DEF TimePasses, Tick, Base, TypeOK, Entry
    <2>2. DOMAIN store' = DOMAIN store
      BY <1>8, SameActions DEF TimePasses, Conv!Tick
    <2> QED
      BY <1>0, <1>1, <1>3, <1>4, <1>8, <2>1, <2>2, TickClocks DEF Remembers
  <1>9. ASSUME BrokerStep PROVE Remembers(s)'
    <2> DEFINE i == <<sessions'[s].claimName, s>>
    <2>1. /\ DOMAIN store' = DOMAIN store \ LostWithPods
          /\ \A j \in Claims \X Sessions :
               answered'[j] = IF j \in LostWithPods THEN <<>> ELSE answered[j]
      BY <1>9, LostFacts DEF Base
    <2>2. i \notin LostWithPods /\ i \in Claims \X Sessions
      <3>1. sessions'[s].baseURL \in IPs /\ i \in Claims \X Sessions
        BY DEF Base, TypeOK, Entry
      <3>2. podIP'[sessions'[s].claimName] # None
        BY <1>1, <3>1, ProviderAssumption DEF Private, Addressed
      <3> QED
        BY <3>1, <3>2 DEF LostWithPods
    <2>3. ASSUME s \in DOMAIN sessions, sessions'[s].claimName = sessions[s].claimName,
                 \/ sessions'[s] = sessions[s]
                 \/ \E r \in Streaming' \ sent :
                      /\ req'[r].claim = sessions[s].claimName /\ req'[r].session = s
                      /\ req'[r].age = 0
          PROVE  Remembers(s)'
      <3>1. Clocks(s)
        BY <1>0, <1>3, <2>3 DEF Remembers
      <3>2. Clocks(s)'
        BY <1>9, <2>3, <3>1, BrokerClocks
      <3> QED
        BY <1>4, <2>1, <2>2, <2>3, <3>2
    <2>4. ASSUME NEW r \in DOMAIN req, req[r].at = "created", req[r].session = s,
                 sessions'[s].claimName = req[r].claim
          PROVE  Remembers(s)'
      <3>1. s \in Sessions
        BY DEF Base, TypeOK
      <3>2. i \notin DOMAIN store /\ answered[i] = <<>>
        BY <1>1, <2>4, <3>1 DEF Base, HeldKnown, Private, Exclusive, Holding, Serves
      <3>3. i \notin DOMAIN store' /\ answered'[i] = <<>>
        BY <2>1, <2>2, <3>2
      <3> QED
        BY <3>3 DEF Remembers, Conversing, Clocks
    <2> QED
      BY <1>9, <2>3, <2>4, EntryOrigin DEF Base
  <1>10. ASSUME NEW c \in Claims, PodLost(c) PROVE FALSE
    BY <1>10 DEF PodLost
  <1>11. ASSUME NEW r \in Requests, NotTaken(r) PROVE Remembers(s)'
    <2>1. UNCHANGED <<sessions, store>>
      BY <1>11, NotTakenFacts
    <2> QED
      BY <1>0, <1>3, <1>4, <1>11, <2>1, NotTakenClocks DEF Remembers
  <1> QED
    BY <1>5, <1>6, <1>7, <1>8, <1>9, <1>10, <1>11 DEF ServiceNext

-----------------------------------------------------------------------------
(* An agent at work is one the broker routes to *)

Lost == GivenUp \cup raced

\* The broker routes the session to the agent and has heard of it recently.
Routed(c, s) ==
  /\ s \in DOMAIN sessions /\ sessions[s].claimName = c
  /\ sessions[s].idle <= MaxStream

Attached ==
  \A m \in DOMAIN msg : msg[m].id[1] \notin Lost => Routed(msg[m].id[1], msg[m].id[2])

\* A claim that is lost stays lost.
LEMMA LossesLast == ASSUME ServiceNext PROVE Lost \subseteq Lost'
  <1> USE DEF Lost, GivenUp
  <1>1. ASSUME NEW r \in Requests,
               \/ \E s \in Sessions : AcquireHit(r, s) \/ AcquireMiss(r, s)
               \/ \E c \in Claims, ip \in IPs \cup {None} :
                    CreateReturns(r, c, ip) \/ CreateOrphans(r, c, ip)
               \/ CreateFails(r) \/ Discard(r) \/ Store(r) \/ StreamEnds(r)
        PROVE  Lost \subseteq Lost'
    BY <1>1 DEF AcquireHit, AcquireMiss, CreateReturns, CreateOrphans, historyVars,
      CreateFails, Discard, DeleteSandbox, Store, StreamEnds
  <1>2. ASSUME \/ Reap \/ Stop \/ Tick \/ \E list \in SUBSET Claims : CloseLists(list)
               \/ \E s \in Sessions : Release(s)
               \/ \E c \in Claims : DeleteClaim(c) \/ CloseDeletes(c) \/ PodFails(c)
        PROVE  Lost \subseteq Lost'
    BY <1>2 DEF Reap, Stop, Tick, CloseLists, Release, DeleteClaim, CloseDeletes, PodFails,
      DeleteSandbox, historyVars
  <1>3. ASSUME NEW born, Exits(born) \/ Crash(born)
        PROVE  Lost \subseteq Lost'
    BY <1>3 DEF Exits, Crash
  <1>4. CASE UNCHANGED vars
    BY <1>4 DEF vars
  <1> QED
    BY <1>1, <1>2, <1>3, <1>4, BrokerSteps DEF Next

\* What becomes of an entry that is not idle: it stays, or its claim is lost,
\* or its pod is gone.
LEMMA EntryFate ==
  ASSUME Base, BrokerStep, NEW s \in DOMAIN sessions, ~Expired(s),
         NEW c, c = sessions[s].claimName
  PROVE  \/ /\ s \in DOMAIN sessions' /\ sessions'[s].claimName = c
            /\ sessions'[s].idle \in {0, sessions[s].idle}
         \/ c \in Lost'
         \/ podIP'[c] = None
  <1> DEFINE Stays == /\ s \in DOMAIN sessions' /\ sessions'[s].claimName = c
                      /\ sessions'[s].idle \in {0, sessions[s].idle}
  <1>0. c \in Claims /\ (podIP[c] # None => c \in Live)
    BY DEF Base, TypeOK, Entry, PodsBacked, Live
  <1>1. ASSUME NEW r \in Requests, NEW t \in Sessions, AcquireHit(r, t) PROVE Stays
    BY <1>1 DEF AcquireHit, Seen, Known, Base, TypeOK, Entry
  <1>2. ASSUME NEW r \in Requests, Store(r) PROVE Stays \/ c \in Lost'
    BY <1>2 DEF Store, Put, Lost
  <1>3. ASSUME \/ \E r \in Requests :
                    \/ \E t \in Sessions : AcquireMiss(r, t)
                    \/ \E d \in Claims, ip \in IPs \cup {None} :
                         CreateReturns(r, d, ip) \/ CreateOrphans(r, d, ip)
                    \/ CreateFails(r) \/ Discard(r) \/ StreamEnds(r)
               \/ Reap \/ Stop \/ \E list \in SUBSET Claims : CloseLists(list)
               \/ \E d \in Claims : DeleteClaim(d) \/ CloseDeletes(d)
        PROVE  Stays
    BY <1>3 DEF AcquireMiss, CreateReturns, CreateOrphans, CreateFails, Discard, StreamEnds,
      Reap, Collected, Kept, Stop, CloseLists, DeleteClaim, CloseDeletes, Without
  <1>4. ASSUME NEW born, Exits(born)
        PROVE  c \in Lost' \/ podIP'[c] = None
    BY <1>0, <1>4 DEF Exits, BornLate, Base, Listed, Lost, GivenUp
  <1>5. ASSUME NEW born, Crash(born) PROVE c \in Lost' \/ podIP'[c] = None
    BY <1>0, <1>5 DEF Crash, BornLate, Lost, GivenUp
  <1> HIDE DEF Stays
  <1>6. Stays \/ c \in Lost' \/ podIP'[c] = None
    BY <1>1, <1>2, <1>3, <1>4, <1>5 DEF BrokerStep
  <1> QED
    BY <1>6 DEF Stays

\* The entry a stream came from is that of its session.
LEMMA StreamRouted ==
  ASSUME Base, Private, NEW r \in Streaming, req[r].claim \notin Lost
  PROVE  /\ Routed(req[r].claim, req[r].session)
         /\ sessions[req[r].session].idle <= req[r].age
  <1>1. PICK t \in DOMAIN sessions : /\ sessions[t].claimName = req[r].claim
                                     /\ sessions[t].idle <= req[r].age
    BY DEF Streaming, Base, StreamsHeld, Lost
  <1>2. /\ t \in Sessions /\ req[r].session \in Sessions /\ req[r].claim \in Claims
        /\ sessions[t].idle \in Nat /\ req[r].age \in Nat /\ req[r].age <= MaxStream
    BY ProviderAssumption
      DEF Streaming, Base, TypeOK, Entry, Handler, HoldsWhatItShould
  <1>3. t = req[r].session
    BY <1>1, <1>2 DEF Private, Exclusive, Serves, Lost, GivenUp
  <1> QED
    BY <1>1, <1>2, <1>3, ProviderAssumption DEF Routed

LEMMA AttachedStep ==
  ASSUME StreamsFit, Base, Private, Base', Attached, ServiceNext, ~podLost'
  PROVE  Attached'
  <1> SUFFICES ASSUME NEW m \in DOMAIN msg', NEW c, NEW s, msg'[m].id = <<c, s>>, c \notin Lost'
               PROVE  Routed(c, s)'
    <2>1. \A m \in DOMAIN msg' : msg'[m].id = <<msg'[m].id[1], msg'[m].id[2]>>
      BY DEF Base, Conv!IInv, Conv!TypeOK, Conv!Handler
    <2> QED
      BY <2>1 DEF Attached
  <1>1. c \notin Lost /\ c \notin missed
    BY LossesLast DEF Lost, GivenUp
  <1>2. ASSUME m \in DOMAIN msg, msg[m].id = <<c, s>> PROVE Routed(c, s)
    BY <1>1, <1>2 DEF Attached
  <1>3. ASSUME NEW r \in Requests, Deliver(r) PROVE Routed(c, s)'
    <2>1. PICK d \in Claims : Delivered(r, d)
      BY <1>3, DeliverFacts DEF Base
    <2>2. Routed(c, s)
      <3>1. CASE m = r
        BY <1>1, <2>1, <3>1, DeliveredHome, StreamRouted DEF Delivered, Private
      <3>2. CASE m # r
        BY <1>2, <2>1, <3>2 DEF Delivered
      <3> QED
        BY <3>1, <3>2
    <2> QED
      BY <2>1, <2>2 DEF Delivered, vars, Routed
  <1>4. ASSUME NEW r \in Requests, Answer(r) PROVE Routed(c, s)'
    BY <1>2, <1>4, AnswerFacts DEF Base, vars, Routed
  <1>5. ASSUME NEW d \in Claims, AgentReaps(d) PROVE Routed(c, s)'
    BY <1>2, <1>5, AgentReapsFacts DEF vars, Routed
  <1>6. ASSUME TimePasses PROVE Routed(c, s)'
    <2>1. Tick /\ Conv!Tick /\ \A n \in DOMAIN msg : Conv!Running(n) => n \in DOMAIN req
      BY <1>6, SameActions DEF TimePasses
    <2>2. m \in DOMAIN msg /\ msg[m].id = <<c, s>>
      BY <2>1, Conv!TickFacts, ServiceAssumption DEF Base
    <2>3. PICK n \in DOMAIN msg : Conv!Running(n) /\ msg[n].id = <<c, s>>
      BY <2>1, <2>2, Conv!TickRuns, ServiceAssumption DEF Base
    <2>4. n \in Streaming /\ req[n].session = s /\ req[n].claim = c
      BY <1>1, <2>1, <2>3 DEF Base, InFlight, Private, Direct, Streaming
    <2>5. Routed(c, s) /\ sessions[s].idle <= req[n].age /\ req[n].age < MaxStream
      BY <1>1, <2>1, <2>4, StreamRouted DEF Tick, Streaming
    <2>6. sessions[s].idle \in Nat /\ req[n].age \in Nat
      BY <2>4, <2>5, ProviderAssumption DEF Routed, Streaming, Base, TypeOK, Entry, Handler
    <2>7. /\ s \in DOMAIN sessions' /\ sessions'[s].claimName = c
          /\ sessions'[s].idle <= sessions[s].idle + 1 /\ sessions'[s].idle \in Nat
      BY <2>1, <2>5, <2>6, ProviderAssumption DEF Tick, Routed, Base, TypeOK, Entry
    <2> QED
      BY <2>5, <2>6, <2>7, ProviderAssumption DEF Routed
  <1>7. ASSUME BrokerStep PROVE Routed(c, s)'
    <2>1. m \in DOMAIN msg /\ msg[m].id = <<c, s>>
      BY <1>7, LostFacts DEF Base
    <2>2. Routed(c, s)
      BY <1>2, <2>1
    <2>3. sessions[s].idle \in Nat /\ ~Expired(s) /\ s \in DOMAIN sessions
      BY <2>2, ProviderAssumption DEF Routed, Expired, StreamsFit, Base, TypeOK, Entry
    <2>4. podIP'[c] # None
      <3>1. <<c, s>> \in DOMAIN store'
        BY DEF Base, Conv!Kept, Conv!NotForgotten
      <3> QED
        BY <3>1 DEF Base, PodsBacked
    <2>5. /\ s \in DOMAIN sessions' /\ sessions'[s].claimName = c
          /\ sessions'[s].idle \in {0, sessions[s].idle}
      BY <1>7, <2>2, <2>3, <2>4, EntryFate DEF Routed
    <2> QED
      BY <2>2, <2>5, ProviderAssumption DEF Routed
  <1>8. ASSUME NEW d \in Claims, PodLost(d) PROVE FALSE
    BY <1>8 DEF PodLost
  <1>9. ASSUME NEW r \in Requests, NotTaken(r) PROVE Routed(c, s)'
    <2>1. UNCHANGED <<sessions, msg>>
      BY <1>9, NotTakenFacts
    <2> QED
      BY <1>2, <2>1 DEF Routed
  <1> QED
    BY <1>3, <1>4, <1>5, <1>6, <1>7, <1>8, <1>9 DEF ServiceNext

-----------------------------------------------------------------------------
(* The invariant *)

ServiceInv == Base /\ (~podLost => Private /\ Attached)

LEMMA ServiceInvInit == ServiceInit => ServiceInv /\ Remembered
  <1> SUFFICES ASSUME ServiceInit PROVE ServiceInv /\ Remembered
    OBVIOUS
  <1>1. Init /\ Conv!Init
    BY SameActions DEF ServiceInit
  <1>2. /\ DOMAIN sessions = {} /\ DOMAIN req = {} /\ DOMAIN store = {} /\ DOMAIN msg = {}
        /\ \A c \in Claims : podIP[c] = None
    BY <1>1 DEF Init, Conv!Init
  <1>3. Private
    BY <1>2 DEF Private, Addressed, Direct, Homed, Exclusive, Streaming, Serves
  <1>4. Remembered /\ Attached
    BY <1>2 DEF Remembered, Attached
  <1> QED
    BY <1>3, <1>4, BaseInit DEF ServiceInv

LEMMA PodLostStays == ASSUME ServiceNext, ~podLost' PROVE ~podLost
  <1>1. ASSUME NEW r \in Requests, Deliver(r) \/ NotTaken(r) \/ Answer(r) PROVE ~podLost
    BY <1>1 DEF Deliver, NotTaken, Answer
  <1>2. ASSUME BrokerStep \/ TimePasses PROVE ~podLost
    BY <1>2 DEF BrokerStep, TimePasses
  <1>3. ASSUME NEW c \in Claims, AgentReaps(c) \/ PodLost(c) PROVE ~podLost
    BY <1>3 DEF AgentReaps, PodLost
  <1> QED
    BY <1>1, <1>2, <1>3 DEF ServiceNext

LEMMA ServiceInvStep ==
  ASSUME StreamsFit, ServiceInv, [ServiceNext]_serviceVars
  PROVE  ServiceInv'
  <1>1. Base'
    BY BaseStep DEF ServiceInv
  <1>2. CASE ServiceNext
    <2>1. ASSUME ~podLost' PROVE Private' /\ Attached'
      <3>1. Private /\ Attached
        BY <1>2, <2>1, PodLostStays DEF ServiceInv
      <3>2. Private'
        BY <1>2, <2>1, <3>1, PrivateStep DEF ServiceInv
      <3> QED
        BY <1>1, <1>2, <2>1, <3>1, <3>2, AttachedStep DEF ServiceInv
    <2> QED
      BY <1>1, <2>1 DEF ServiceInv
  <1>3. CASE UNCHANGED serviceVars
    <2>1. UNCHANGED <<vars, convVars, podLost>>
      BY <1>3 DEF serviceVars
    <2>2. /\ Private' <=> Private
          /\ Attached' <=> Attached
      BY <2>1 DEF vars, convVars, Private, Addressed, Direct, Homed, Homes, Exclusive, Streaming,
        Serves, Holding, Closing, Attached, Lost, GivenUp, Routed
    <2> QED
      BY <1>1, <2>1, <2>2 DEF ServiceInv
  <1> QED
    BY <1>2, <1>3

LEMMA ServiceInvHolds == ASSUME StreamsFit PROVE ServiceSpec => []ServiceInv
  <1>1. ServiceInv /\ [ServiceNext]_serviceVars => ServiceInv'
    BY ServiceInvStep
  <1> QED
    BY ServiceInvInit, <1>1, PTL DEF ServiceSpec

-----------------------------------------------------------------------------
(* The theorems *)

\* Behind the broker with its agents is the broker of SandboxProvider: what is
\* proved of the provider holds in the service.
THEOREM ServiceKeepsProvider == ServiceSpec => Spec
  <1>1. ServiceInit => Init
    BY DEF ServiceInit
  <1>2. [ServiceNext]_serviceVars => [Next]_vars
    BY BrokerSteps
  <1> QED
    BY <1>1, <1>2, PTL DEF ServiceSpec, Spec

\* The variables of the broker and of its agents keep their types when requests
\* go between them, pods die and either process restarts.
THEOREM ServiceTypesCorrect == ServiceSpec => []ServiceTypeOK
  <1> DEFINE Inv == TypeOK /\ Conv!IInv /\ podLost \in BOOLEAN /\ unheard \subseteq Claims
  <1>1. ServiceInit => Inv
    BY TypeInit, SameActions, Conv!InitEstablishes, ServiceAssumption DEF ServiceInit
  <1>2. Inv /\ [ServiceNext]_serviceVars => Inv'
    <2> SUFFICES ASSUME Inv, [ServiceNext]_serviceVars PROVE Inv'
      OBVIOUS
    <2>1. TypeOK'
      BY BrokerSteps, TypeStep
    <2>2. CASE ServiceNext
      <3>1. unheard' \subseteq Claims
        <4>1. ASSUME NEW r \in Requests, NotTaken(r) PROVE unheard' \subseteq Claims
          <5>1. r \in DOMAIN req /\ req[r].at = "streaming" /\ unheard' = unheard \cup {req[r].claim}
            BY <4>1, NotTakenFacts
          <5>2. req[r].claim \in Claims
            BY <5>1 DEF TypeOK, HoldsWhatItShould
          <5> QED
            BY <5>1, <5>2
        <4>2. ASSUME \/ \E r \in Requests : Deliver(r) \/ Answer(r)
                     \/ BrokerStep \/ TimePasses
                     \/ \E c \in Claims : AgentReaps(c) \/ PodLost(c)
              PROVE  unheard' = unheard
          BY <4>2 DEF Deliver, Answer, BrokerStep, TimePasses, AgentReaps, PodLost
        <4> QED
          BY <2>2, <4>1, <4>2 DEF ServiceNext
      <3>2. Conv!IInv'
        BY <2>2, AgentsKeep
      <3>3. podLost' \in BOOLEAN
        <4>1. ASSUME NEW r \in Requests, Deliver(r) \/ NotTaken(r) \/ Answer(r)
              PROVE  podLost' = podLost
          BY <4>1 DEF Deliver, NotTaken, Answer
        <4>2. ASSUME BrokerStep \/ TimePasses PROVE podLost' = podLost
          BY <4>2 DEF BrokerStep, TimePasses
        <4>3. ASSUME NEW c \in Claims, AgentReaps(c) \/ PodLost(c)
              PROVE  podLost' = podLost \/ podLost' = TRUE
          BY <4>3 DEF AgentReaps, PodLost
        <4>4. podLost' = podLost \/ podLost' = TRUE
          BY <2>2, <4>1, <4>2, <4>3 DEF ServiceNext
        <4> QED
          BY <4>4
      <3> QED
        BY <2>1, <3>1, <3>2, <3>3
    <2>3. CASE UNCHANGED serviceVars
      <3>1. UNCHANGED Conv!vars /\ UNCHANGED <<podLost, unheard>>
        BY <2>3 DEF serviceVars, convVars, Conv!vars
      <3>2. Conv!IInv'
        BY <3>1, Conv!StepPreserves, ServiceAssumption
      <3> QED
        BY <2>1, <3>1, <3>2
    <2> QED
      BY <2>2, <2>3
  <1>3. Inv => ServiceTypeOK
    BY SameActions DEF ServiceTypeOK, Conv!IInv
  <1> HIDE DEF Inv
  <1> QED
    BY <1>1, <1>2, <1>3, PTL DEF ServiceSpec

\* One person, one pod: as long as no pod fails behind its claim, an agent only
\* ever holds the conversation of one session, although requests find agents by
\* addresses that the cluster reuses. Agents that come up while Close deletes
\* others, or from a call that failed, are excepted.
THEOREM AgentsArePrivate == ASSUME StreamsFit PROVE ServiceSpec => []OneSessionPerAgent
  <1>1. ServiceInv => OneSessionPerAgent
    <2> SUFFICES ASSUME ServiceInv, ~podLost, NEW i \in DOMAIN store, NEW j \in DOMAIN store,
                        i[1] = j[1], i[1] \notin missed
                 PROVE  i = j
      BY DEF OneSessionPerAgent
    <2>1. i \in Claims \X Sessions /\ j \in Claims \X Sessions
      BY DEF ServiceInv, Base, Conv!IInv, Conv!TypeOK
    <2>2. Serves(i[1], i[2]) /\ Serves(i[1], j[2])
      BY <2>1 DEF Serves
    <2>3. i[2] = j[2]
      BY <2>1, <2>2 DEF ServiceInv, Private, Exclusive
    <2> QED
      BY <2>1, <2>3
  <1> QED
    BY <1>1, ServiceInvHolds, PTL

\* While the broker serves and routes a session to an agent that has taken every
\* request routed to it, that agent has the whole conversation: its reaper, whose
\* clock runs by itself, does not come first.
THEOREM AgentsRemember == ASSUME TimesFit PROVE ServiceSpec => []RememberedWhileRouted
  <1> DEFINE R == ~podLost => Remembered
  <1>1. R => RememberedWhileRouted
    BY DEF Remembered, Remembers, RememberedWhileRouted
  <1>2. ServiceInv /\ ServiceInv' /\ R /\ [ServiceNext]_serviceVars => R'
    <2> SUFFICES ASSUME ServiceInv, ServiceInv', R, [ServiceNext]_serviceVars, ~podLost'
                 PROVE  Remembered'
      OBVIOUS
    <2>1. CASE ServiceNext
      BY <2>1, PodLostStays, RememberStep DEF ServiceInv
    <2>2. CASE UNCHANGED serviceVars
      <3>1. UNCHANGED <<vars, convVars, podLost, unheard>>
        BY <2>2 DEF serviceVars
      <3> QED
        BY <3>1 DEF vars, convVars, Remembered, Remembers, Conversing, Clocks, Undelivered,
          Streaming, Serving
    <2> QED
      BY <2>1, <2>2
  <1>3. ServiceInit => R
    BY ServiceInvInit
  <1>4. StreamsFit
    BY DEF TimesFit
  <1>5. ServiceSpec => []ServiceInv
    BY <1>4, ServiceInvHolds
  <1> HIDE DEF R
  <1> QED
    BY <1>1, <1>2, <1>3, <1>5, PTL DEF ServiceSpec

\* Two answers of a session run at a time only if the broker gave up the claim
\* of one of them, or lost it to a concurrent first message.
THEOREM AnswersOneAtATime == ASSUME StreamsFit PROVE ServiceSpec => []OneAnswerAtATime
  <1>1. ServiceInv => OneAnswerAtATime
    <2> SUFFICES ASSUME ServiceInv, ~podLost, NEW m \in DOMAIN msg, NEW n \in DOMAIN msg,
                        Agent!Running(m), Agent!Running(n), m # n,
                        msg[m].id[2] = msg[n].id[2],
                        {msg[m].id[1], msg[n].id[1]} \cap (GivenUp \cup raced) = {}
                 PROVE  FALSE
      BY DEF OneAnswerAtATime
    <2>1. Conv!Running(m) /\ Conv!Running(n)
      BY SameActions
    <2>2. msg[m].id \in Claims \X Sessions /\ msg[n].id \in Claims \X Sessions
      BY DEF ServiceInv, Base, Conv!IInv, Conv!TypeOK, Conv!Handler
    <2>3. msg[m].id[1] = msg[n].id[1]
      BY DEF ServiceInv, Attached, Routed, Lost
    <2>4. msg[m].id = msg[n].id
      BY <2>2, <2>3
    <2> QED
      BY <2>1, <2>4, Conv!KeptExcludes, ServiceAssumption
        DEF ServiceInv, Base, Conv!OneRunPerSession
  <1> QED
    BY <1>1, ServiceInvHolds, PTL

================================================================================
