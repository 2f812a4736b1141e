----------------------------- MODULE ChatService -----------------------------
(***************************************************************************)
(* The broker and its agents together: SandboxProvider routes a session's  *)
(* requests to a sandbox, and the agent in it keeps the conversation       *)
(* (Conversation), each with clocks and reapers of its own. A request that *)
(* Acquire has given an address goes to whoever listens there when it      *)
(* arrives, and a pod takes its agent's conversations with it.             *)
(***************************************************************************)
EXTENDS SandboxProvider, Sequences

CONSTANTS
  SessionTTL,   \* SESSION_TTL of the agents, in ticks
  Timeout       \* REQUEST_TIMEOUT of the agents, in ticks

ASSUME ServiceAssumption ==
  /\ None \notin Requests
  /\ SessionTTL \in Nat
  /\ Timeout \in Nat

VARIABLES
  store, history, holder, msg, sent, answered,   \* as in Conversation
  podLost,  \* history: a pod has failed behind its claim
  unheard   \* history: claims whose agent did not take a request routed to it

convVars == <<store, history, holder, msg, sent, answered>>
serviceVars == <<vars, convVars, podLost, unheard>>

\* A conversation belongs to the agent of a claim and to a session id; a
\* conversation object is named after the request that allocated it.
Agent == INSTANCE Conversation WITH
  Ids <- Claims \X Sessions, Messages <- Requests, Objs <- Requests,
  TTL <- SessionTTL, sessions <- store

ServiceInit == Init /\ Agent!Init /\ podLost = FALSE /\ unheard = {}

-----------------------------------------------------------------------------
(* Between the broker and the agents *)

\* A browser sends each request once.
Fresh(r) == r \notin sent

\* The proxied request arrives: the agent at its address takes it.
Deliver(r) ==
  /\ r \in DOMAIN req
  /\ req[r].at = "streaming"
  /\ \E c \in Claims :
       LET i == <<c, req[r].session>> IN
         /\ podIP[c] = req[r].baseURL
         /\ Agent!GetHit(r, i) \/ Agent!GetMiss(r, i, r)
  /\ UNCHANGED <<vars, podLost, unheard>>

\* It does not get as far as the agent's store: the agent answers 429
\* (rateLimited) or 400 (no message in it), nobody listens at the address and
\* handleChat answers 502, or the browser has hung up by then. The broker has
\* marked its entry seen all the same.
NotTaken(r) ==
  /\ Fresh(r)
  /\ StreamEnds(r)
  /\ sent' = sent \cup {r}
  /\ unheard' = unheard \cup {req[r].claim}
  /\ UNCHANGED <<store, history, holder, msg, answered, podLost>>

\* The agent works on it. The broker may have given the stream up meanwhile.
Answer(r) ==
  /\ Agent!Lock(r) \/ Agent!Succeed(r) \/ Agent!Fail(r)
  /\ UNCHANGED <<vars, podLost, unheard>>

\* The conversations that pods lost in this step take with them.
LostWithPods == {c \in Claims : podIP[c] # None /\ podIP'[c] = None} \X Sessions

\* A step of the broker or of the cluster. Nothing calls Release. The
\* stream of a request that an agent has taken may end before its answer does.
BrokerStep ==
  /\ \/ \E r \in Requests :
          \/ Fresh(r) /\ \E s \in Sessions : AcquireHit(r, s) \/ AcquireMiss(r, s)
          \/ \E c \in Claims, ip \in IPs \cup {None} :
               CreateReturns(r, c, ip) \/ CreateOrphans(r, c, ip)
          \/ CreateFails(r) \/ Discard(r) \/ Store(r)
          \/ ~Fresh(r) /\ StreamEnds(r)
     \/ Reap
     \/ \E c \in Claims : DeleteClaim(c) \/ CloseDeletes(c)
     \/ Stop
     \/ \E list \in SUBSET Claims : CloseLists(list)
     \/ \E born \in SUBSET Claims : Exits(born) \/ Crash(born)
  /\ Agent!ProcessEnds(LostWithPods)
  /\ UNCHANGED <<podLost, unheard>>

PodLost(c) ==
  /\ PodFails(c)
  /\ Agent!ProcessEnds(LostWithPods)
  /\ podLost' = TRUE
  /\ UNCHANGED unheard

\* An agent's own reaper.
AgentReaps(c) == Agent!Reap({c} \X Sessions) /\ UNCHANGED <<vars, podLost, unheard>>

\* Time passes for all. A tick is longer than the interval of the broker's
\* reaper and the deletions of one batch, and than it takes an agent to notice
\* that its caller has hung up: the request's context ends, and Run with it.
TimePasses ==
  /\ Serving => stale = {} /\ \A s \in DOMAIN sessions : ~Expired(s)
  /\ \A r \in DOMAIN msg : Agent!Running(r) => r \in DOMAIN req
  /\ Tick
  /\ Agent!Tick
  /\ UNCHANGED <<podLost, unheard>>

ServiceNext ==
  \/ \E r \in Requests : Deliver(r) \/ NotTaken(r) \/ Answer(r)
  \/ BrokerStep
  \/ \E c \in Claims : AgentReaps(c) \/ PodLost(c)
  \/ TimePasses

ServiceSpec == ServiceInit /\ [][ServiceNext]_serviceVars

-----------------------------------------------------------------------------
(* Properties *)

ServiceTypeOK ==
  TypeOK /\ Agent!TypeOK /\ podLost \in BOOLEAN /\ unheard \subseteq Claims

\* One person, one pod: an agent only ever holds the conversation of one
\* session, although a request carries an address and pod addresses are
\* reused. Needs pods that live as long as their claims, streams no longer
\* than the idle TTL, and an agent that was not created while Close deletes
\* others (or by a call that failed): it may come up at the address of one of
\* them and be sent what was meant for that.
OneSessionPerAgent ==
  ~podLost =>
    \A i, j \in DOMAIN store : i[1] = j[1] /\ i[1] \notin missed => i = j

\* The agent remembers all it has answered for as long as the broker routes
\* the session to it: the agent's clock, started after the broker's, does not
\* run out first. Needs SESSION_TTL above SANDBOX_IDLE_TTL, and an agent that
\* has taken every request routed to it: one that is turned away (a 429, say)
\* keeps the pod without keeping the conversation.
Conversing(i) == IF i \in DOMAIN store THEN history[store[i].obj] ELSE <<>>
RememberedWhileRouted ==
  Serving /\ ~podLost => \A s \in DOMAIN sessions :
    LET i == <<sessions[s].claimName, s>> IN
      i[1] \notin unheard => Conversing(i) = answered[i]

\* A session's answers come one at a time, whatever the tab cancels and sends
\* again: an agent that the broker no longer routes to has stopped answering,
\* unless the broker gave its claim up. Needs pods that live as long as their
\* claims: a stream to a lost pod's address reaches whoever has it next.
OneAnswerAtATime ==
  ~podLost =>
    \A m, n \in {r \in DOMAIN msg : Agent!Running(r)} :
      msg[m].id[2] = msg[n].id[2] /\ m # n =>
        {msg[m].id[1], msg[n].id[1]} \cap (GivenUp \cup raced) # {}
==============================================================================
