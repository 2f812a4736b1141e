--------------------------- MODULE AgentAssignment ---------------------------
(***************************************************************************)
(* What the broker promises about routing, with no mention of locks,       *)
(* cluster calls or timers: a session is served by one agent at a time, an *)
(* agent serves one session, a session gets another agent only after it    *)
(* has been left without one, and an agent that was taken from its session *)
(* never serves again.                                                     *)
(***************************************************************************)
CONSTANTS
  Sessions,   \* browser sessions
  Agents,     \* agents that may ever be provisioned
  None        \* no agent

VARIABLES
  agent,      \* the agent that serves each session, or None
  spent       \* the agents that no session may be given any more

vars == <<agent, spent>>

TypeOK ==
  /\ agent \in [Sessions -> Agents \cup {None}]
  /\ spent \subseteq Agents

Init ==
  /\ agent = [s \in Sessions |-> None]
  /\ spent = {}

\* A session without an agent is given one that never served before.
Assign(s, a) ==
  /\ agent[s] = None
  /\ a \in Agents \ spent
  /\ agent' = [agent EXCEPT ![s] = a]
  /\ spent' = spent \cup {a}

\* Some sessions lose their agent, and some agents are lost before they
\* ever serve a session.
Retire(S, lost) ==
  /\ agent' = [s \in Sessions |-> IF s \in S THEN None ELSE agent[s]]
  /\ spent' = spent \cup lost

Next ==
  \/ \E s \in Sessions, a \in Agents : Assign(s, a)
  \/ \E S \in SUBSET Sessions, lost \in SUBSET Agents : Retire(S, lost)

Spec == Init /\ [][Next]_vars
==============================================================================
