----------------------------- MODULE ChatBudget ------------------------------
(***************************************************************************)
(* The broker's handleChat (internal/broker/server.go) between the budget  *)
(* and the agents: Exceeded is asked once, before Acquire, and nothing is  *)
(* reserved, so chats that were admitted go on spending whatever the       *)
(* tracker learns meanwhile. An agent that works on a chat learns later    *)
(* than the broker that its handler is gone, and may spend until then. The *)
(* poller, the tracker and the agents are those of UsageBudget; here only  *)
(* a chat makes an agent spend.                                            *)
(***************************************************************************)
EXTENDS UsageBudget, FiniteSets

CONSTANTS
  Chats,    \* POST /v1/chat messages
  PerChat   \* bound: tokens one message may cost

ASSUME ChatAssumption == PerChat \in Nat

VARIABLES
  chat,     \* messages past the budget check: chat -> [at, key, agent, left]
  exposed   \* history: what the poller had not read of today's tokens when a
            \* chat was last admitted, and what the chats then in flight, or still
            \* worked on by an agent, had left

chatVars == <<chat, exposed>>
allVars == <<vars, chatVars>>

\* A chat's handler, "over" when it has returned, the agent that it was sent
\* to, and how much it may still cost.
Handler == [at : {"admitted", "creating", "streaming", "over"}, key : Keys,
            agent : Agents \cup {None}, left : 0..PerChat]

ChatTypeOK ==
  /\ TypeOK
  /\ DOMAIN chat \subseteq Chats
  /\ chat \in [DOMAIN chat -> Handler]
  /\ exposed \in Int

ChatInit == Init /\ chat = [c \in {} |-> None] /\ exposed = 0

At(c, place) == c \in DOMAIN chat /\ chat[c].at = place
MayStillSpend(f) ==
  Cardinality({t \in (DOMAIN f) \X (1..PerChat) : t[2] <= f[t[1]].left})

\* Handlers end. What has reached an agent is still the agent's to spend.
Over(C) == [c \in DOMAIN chat |->
  IF c \in C
  THEN [chat[c] EXCEPT !.at = "over", !.left = IF chat[c].agent = None THEN 0 ELSE @]
  ELSE chat[c]]

-----------------------------------------------------------------------------
(* handleChat *)

\* The day's total has reached the budget: the chat is told so and ends.
Refused == Exceeded /\ Look /\ UNCHANGED chatVars

\* It has not: the handler goes on. In direct mode all sessions share one key.
Admitted(c, k) ==
  /\ c \notin DOMAIN chat
  /\ mode = "direct" => k \in DOMAIN targets
  /\ ~Exceeded
  /\ Look
  /\ chat' = Put(chat, c, [at |-> "admitted", key |-> k, agent |-> None, left |-> PerChat])
  /\ exposed' = (spent - read) - unread + MayStillSpend(chat')

\* Acquire knows an address; whoever listens there is sent the chat.
Hit(c, a) ==
  /\ At(c, "admitted")
  /\ chat[c].key \in DOMAIN targets
  /\ addrOf[a] = targets[chat[c].key]
  /\ chat' = [chat EXCEPT ![c].at = "streaming", ![c].agent = a]
  /\ UNCHANGED <<vars, exposed>>

\* It knows none and has a sandbox created, without the lock.
Miss(c) ==
  /\ At(c, "admitted")
  /\ chat[c].key \notin DOMAIN targets
  /\ chat' = [chat EXCEPT ![c].at = "creating"]
  /\ UNCHANGED <<vars, exposed>>

Created(c, a, ip) ==
  /\ At(c, "creating")
  /\ Acquire(chat[c].key, a, ip)
  /\ chat' = [chat EXCEPT ![c].at = "streaming", ![c].agent = a]
  /\ UNCHANGED exposed

\* The agent has an answer of the model and records what it has cost, also
\* when the broker's handler has returned by then.
Streams(c) ==
  /\ c \in DOMAIN chat /\ chat[c].agent # None
  /\ chat[c].left > 0
  /\ Spends(chat[c].agent)
  /\ chat' = [chat EXCEPT ![c].left = @ - 1]
  /\ UNCHANGED exposed

\* The agent is done with it, or has noticed that nobody listens any more.
AgentEnds(c) ==
  /\ c \in DOMAIN chat /\ chat[c].agent # None
  /\ chat[c].left > 0
  /\ chat' = [chat EXCEPT ![c].left = 0]
  /\ UNCHANGED <<vars, exposed>>

\* The handler returns: the stream is over, the browser has hung up, or there
\* was no agent.
Returns(c) ==
  /\ c \in DOMAIN chat /\ ~At(c, "over")
  /\ chat' = Over({c})
  /\ UNCHANGED <<vars, exposed>>

-----------------------------------------------------------------------------
\* At midnight the chats in flight go on spending, now today's tokens.
MidnightPasses == Midnight /\ exposed' = MayStillSpend(chat) /\ UNCHANGED chat

\* The handlers end with the process, and the agents may go on.
ProcessRestarts ==
  /\ Restarts
  /\ chat' = Over(DOMAIN chat)
  /\ exposed' = MayStillSpend(chat')

Rest ==
  \/ \E a \in Agents : Stops(a)
  \/ \E k \in Keys : Leaves(k) \/ Fetch(k) \/ FetchFails(k) \/ \E a \in Agents : TakesOver(k, a)
  \/ Record \/ Look \/ PollStart \/ PollEnd

ChatNext ==
  \/ Refused
  \/ \E c \in Chats :
       \/ Miss(c) \/ Streams(c) \/ AgentEnds(c) \/ Returns(c)
       \/ \E k \in Keys : Admitted(c, k)
       \/ \E a \in Agents : Hit(c, a) \/ \E ip \in Addrs : Created(c, a, ip)
  \/ MidnightPasses
  \/ ProcessRestarts
  \/ Rest /\ UNCHANGED chatVars

ChatSpec == ChatInit /\ [][ChatNext]_allVars

\* Of the poller; nothing makes a chat go on.
FairChatSpec == ChatSpec /\ Fairness

-----------------------------------------------------------------------------
(* Properties *)

\* The ceiling is soft, and this is how soft: what is spent in a day exceeds
\* the budget by no more than the poller had not read when the last chat was
\* admitted (tokens lost with a reaped agent included) and what the chats then
\* in flight could still spend, those included whose handler has returned and
\* whose agent has not noticed. "Day" is the part of it that the process has
\* been up for; addresses and remembered keys must not change hands.
OverspendBounded == ~moved /\ ~renewed => spent - before < Budget + exposed
==============================================================================
