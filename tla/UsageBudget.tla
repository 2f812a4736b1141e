----------------------------- MODULE UsageBudget -----------------------------
(***************************************************************************)
(* The broker's daily token budget: BudgetTracker (internal/broker/        *)
(* budget.go), the UsagePoller that feeds it (internal/broker/usage.go),   *)
(* and the agents whose cumulative usage it reads.                         *)
(*                                                                         *)
(* The poller snapshots Targets() under the provider's lock and then takes *)
(* its time: agents come and go, spend and change days between the         *)
(* snapshot, each fetch, each Record and the final Prune. The tracker      *)
(* lives as long as the broker's process, and the agents may outlive it.   *)
(***************************************************************************)
EXTENDS Integers

CONSTANTS
  Keys,        \* session ids, the keys of Targets()
  Agents,      \* agent processes, each started at most once
  Addrs,       \* base URLs
  None,        \* no address, nothing fetched
  Budget,      \* DAILY_TOKEN_BUDGET, above 0
  MaxUsed,     \* bound: tokens one agent may spend
  MaxDay,      \* bound: midnights
  MaxRestarts, \* bound: processes of the broker after the first
  Modes        \* PROVIDER_MODE: a subset of {"direct", "sandbox"}

ASSUME BudgetAssumption ==
  /\ None \notin Addrs \cup Keys
  /\ Budget \in Nat \ {0}
  /\ MaxUsed \in Nat
  /\ MaxDay \in Nat
  /\ MaxRestarts \in Nat
  /\ Modes \subseteq {"direct", "sandbox"}

VARIABLES
  mode,     \* PROVIDER_MODE
  targets,  \* what Targets() returns: key -> base URL
  addrOf,   \* where each agent listens, or None
  started,  \* agents that have ever been created
  used,     \* what each agent's /usage reports: its input + output tokens
  daily,    \* t.daily
  last,     \* t.last: key -> cumulative last recorded
  day,      \* t.day
  today,    \* the UTC date
  restarts, \* how often the broker has been restarted
  polling,  \* inside pollOnce
  snap,     \* targets of this poll that are still to be fetched
  active,   \* keys of this poll
  got,      \* the answer between fetch and Record, or None
  \* History of this process of the broker, read by the properties only.
  seen,     \* how much of each agent's usage has been recorded
  read,     \* the sum of seen
  spent,    \* the sum of used
  counted,  \* all deltas ever added to daily
  before,   \* what had been spent when today, or the process, began
  unread,   \* how much of it had not been counted by then
  usedBy,   \* address -> the key that was the last to be routed there, or None
  moved,    \* an address has passed from one key's agent to another key's
  renewed   \* a key got its next agent while the tracker or a poll knew it

trackerVars == <<daily, last, day>>
pollerVars  == <<polling, snap, active, got>>
fleetVars   == <<mode, targets, addrOf, started>>
spendVars   == <<used, spent>>
readVars    == <<seen, read, counted>>
dayVars     == <<today, restarts, before, unread>>
reuseVars   == <<usedBy, moved, renewed>>
vars == <<fleetVars, spendVars, trackerVars, pollerVars, readVars, dayVars, reuseVars>>

Without(f, S) == [x \in DOMAIN f \ S |-> f[x]]
Put(f, k, v) == [x \in DOMAIN f \cup {k} |-> IF x = k THEN v ELSE f[x]]

Answer == [key : Keys, agent : Agents, cumulative : 0..MaxUsed]

TypeOK ==
  /\ mode \in Modes
  /\ DOMAIN targets \subseteq Keys
  /\ targets \in [DOMAIN targets -> Addrs]
  /\ addrOf \in [Agents -> Addrs \cup {None}]
  /\ started \subseteq Agents
  /\ used \in [Agents -> 0..MaxUsed]
  /\ daily \in Nat
  /\ DOMAIN last \subseteq Keys
  /\ last \in [DOMAIN last -> 0..MaxUsed]
  /\ {day, today} \subseteq 0..MaxDay
  /\ restarts \in 0..MaxRestarts
  /\ polling \in BOOLEAN
  /\ DOMAIN snap \subseteq active
  /\ snap \in [DOMAIN snap -> Addrs]
  /\ active \subseteq Keys
  /\ got \in Answer \cup {None}
  /\ polling \/ (DOMAIN snap = {} /\ got = None)
  /\ seen \in [Agents -> 0..MaxUsed]
  /\ {read, spent, counted, before} \subseteq Nat
  /\ unread \in Int
  /\ usedBy \in [Addrs -> Keys \cup {None}]
  /\ {moved, renewed} \subseteq BOOLEAN

\* The tracker and the poller of a new process, which has read nothing yet.
Fresh ==
  /\ daily' = 0 /\ last' = [k \in {} |-> 0] /\ day' = today
  /\ polling' = FALSE /\ snap' = [k \in {} |-> None] /\ active' = {} /\ got' = None
  /\ seen' = [a \in Agents |-> 0] /\ read' = 0 /\ counted' = 0
  /\ before' = spent /\ unread' = spent

Init ==
  /\ mode \in Modes
  /\ targets \in IF mode = "direct" THEN UNION {[{k} -> Addrs] : k \in Keys}
                 ELSE [{} -> Addrs]
  /\ addrOf = [a \in Agents |-> None] /\ started = {}
  /\ used = [a \in Agents |-> 0] /\ spent = 0
  /\ daily = 0 /\ last = [k \in {} |-> 0] /\ day = 0 /\ today = 0 /\ restarts = 0
  /\ polling = FALSE /\ snap = [k \in {} |-> None] /\ active = {} /\ got = None
  /\ seen = [a \in Agents |-> 0] /\ read = 0 /\ counted = 0
  /\ before = 0 /\ unread = 0
  /\ usedBy = [ip \in Addrs |-> None] /\ moved = FALSE /\ renewed = FALSE

-----------------------------------------------------------------------------
(* Agents and the session map *)

Listening(ip) == \E a \in Agents : addrOf[a] = ip

\* The poller or the tracker still has something under this key.
Remembered(k) ==
  \/ k \in DOMAIN last \cup DOMAIN snap
  \/ got # None /\ got.key = k

\* An agent process that has never run comes up for a key, at an address
\* where no other listens.
Starts(a, k, ip) ==
  /\ a \notin started
  /\ ~Listening(ip)
  /\ addrOf' = [addrOf EXCEPT ![a] = ip]
  /\ started' = started \cup {a}
  /\ usedBy' = [usedBy EXCEPT ![ip] = k]
  /\ moved' = (moved \/ usedBy[ip] \notin {k, None})
  /\ renewed' = (renewed \/ Remembered(k))
  /\ UNCHANGED <<mode, spendVars, trackerVars, pollerVars, readVars, dayVars>>

\* Sandbox mode: Acquire has created an agent, which has served no one yet, and
\* stores the entry of a session. When two first messages race, the session
\* has an entry by now and loses it.
Acquire(k, a, ip) ==
  /\ mode = "sandbox"
  /\ Starts(a, k, ip)
  /\ targets' = Put(targets, k, ip)

\* Direct mode: a new process takes over behind AGENT_URL.
TakesOver(k, a) ==
  /\ mode = "direct"
  /\ k \in DOMAIN targets
  /\ Starts(a, k, targets[k])
  /\ UNCHANGED targets

\* An agent goes away: deleted by the broker, or lost with its pod.
Stops(a) ==
  /\ addrOf[a] # None
  /\ addrOf' = [addrOf EXCEPT ![a] = None]
  /\ UNCHANGED <<mode, targets, started, spendVars, trackerVars, pollerVars, readVars,
                 dayVars, reuseVars>>

\* Sandbox mode: reap or Release takes it out of the map.
Leaves(k) ==
  /\ mode = "sandbox"
  /\ k \in DOMAIN targets
  /\ targets' = Without(targets, {k})
  /\ UNCHANGED <<mode, addrOf, started, spendVars, trackerVars, pollerVars, readVars,
                 dayVars, reuseVars>>

\* An agent adds to one of the counters its /usage sums. Input and output are
\* added one after the other, and a poll may read between them.
Spends(a) ==
  /\ addrOf[a] # None
  /\ used[a] < MaxUsed
  /\ used' = [used EXCEPT ![a] = @ + 1]
  /\ spent' = spent + 1
  /\ UNCHANGED <<fleetVars, trackerVars, pollerVars, readVars, dayVars, reuseVars>>

\* UTC midnight. The tracker learns of it at its next call.
Midnight ==
  /\ today < MaxDay
  /\ today' = today + 1
  /\ before' = spent
  /\ unread' = spent - counted
  /\ UNCHANGED <<fleetVars, spendVars, trackerVars, pollerVars, readVars, reuseVars,
                 restarts>>

\* The broker's process ends. Its successor starts with an empty map and a
\* total of zero; the agents it has not deleted run on.
Restarts ==
  /\ restarts < MaxRestarts
  /\ restarts' = restarts + 1
  /\ targets' = IF mode = "direct" THEN targets ELSE [k \in {} |-> None]
  /\ Fresh
  /\ UNCHANGED <<mode, addrOf, started, spendVars, today, usedBy, moved, renewed>>

-----------------------------------------------------------------------------
(* BudgetTracker *)

\* Seeded bug: the day changes and its total is kept.
RolledKeepsTotal == daily

\* daily after rollLocked.
Rolled == IF day # today THEN 0 ELSE daily

\* Seeded bug: the delta ignores that an agent may have started over.
DeltaUnchecked(key, cumulative) ==
  IF key \in DOMAIN last THEN cumulative - last[key] ELSE cumulative

\* What Record adds to daily.
Delta(key, cumulative) ==
  IF key \notin DOMAIN last \/ cumulative < last[key]
  THEN cumulative ELSE cumulative - last[key]

\* Record, the next step of pollOnce after a successful fetch.
Record ==
  /\ got # None
  /\ LET delta == Delta(got.key, got.cumulative) IN
       /\ daily' = Rolled + delta
       /\ counted' = counted + delta
  /\ day' = today
  /\ last' = Put(last, got.key, got.cumulative)
  /\ seen' = [seen EXCEPT ![got.agent] = got.cumulative]
  /\ read' = read + (got.cumulative - seen[got.agent])
  /\ got' = None
  /\ UNCHANGED <<fleetVars, spendVars, polling, snap, active, dayVars, reuseVars>>

\* Exceeded (in handleChat) or Snapshot (in handleUsage and the metrics): they
\* change nothing but the day.
Look ==
  /\ daily' = Rolled
  /\ day' = today
  /\ UNCHANGED <<fleetVars, spendVars, last, pollerVars, readVars, dayVars, reuseVars>>

\* Seeded bug: chats are refused only above the budget.
ExceededAbove == Rolled > Budget

Exceeded == Rolled >= Budget

-----------------------------------------------------------------------------
(* UsagePoller.pollOnce *)

\* The ticker fires: the targets are copied under the provider's lock.
PollStart ==
  /\ ~polling
  /\ polling' = TRUE
  /\ snap' = targets
  /\ active' = DOMAIN targets
  /\ UNCHANGED <<fleetVars, spendVars, trackerVars, got, readVars, dayVars, reuseVars>>

\* GET <base>/usage of the next target: whoever listens there answers.
Fetch(k) ==
  /\ got = None
  /\ k \in DOMAIN snap
  /\ \E a \in Agents :
       /\ addrOf[a] = snap[k]
       /\ got' = [key |-> k, agent |-> a, cumulative |-> used[a]]
  /\ snap' = Without(snap, {k})
  /\ UNCHANGED <<fleetVars, spendVars, trackerVars, polling, active, readVars, dayVars, reuseVars>>

\* Seeded bug: a key whose fetch failed is not counted as active.
ActiveWithout(k) == active \ {k}

ActiveAfterFailure(k) == active

\* It fails (nobody there, a timeout, a bad body): the key stays active.
FetchFails(k) ==
  /\ got = None
  /\ k \in DOMAIN snap
  /\ snap' = Without(snap, {k})
  /\ active' = ActiveAfterFailure(k)
  /\ UNCHANGED <<fleetVars, spendVars, trackerVars, polling, got, readVars, dayVars, reuseVars>>

\* All targets are done: Prune forgets the keys this poll did not have.
PollEnd ==
  /\ polling
  /\ got = None
  /\ DOMAIN snap = {}
  /\ polling' = FALSE
  /\ active' = {}
  /\ last' = [k \in DOMAIN last \cap active |-> last[k]]
  /\ UNCHANGED <<fleetVars, spendVars, daily, day, snap, got, readVars, dayVars, reuseVars>>

Next ==
  \/ \E a \in Agents : Stops(a) \/ Spends(a)
  \/ \E k \in Keys : Leaves(k) \/ Fetch(k) \/ FetchFails(k)
  \/ \E k \in Keys, a \in Agents : TakesOver(k, a) \/ \E ip \in Addrs : Acquire(k, a, ip)
  \/ Midnight \/ Restarts \/ Record \/ Look \/ PollStart \/ PollEnd

Spec == Init /\ [][Next]_vars

\* The poller's goroutine keeps going: the ticker fires, every fetch has a
\* timeout, and an agent that keeps listening answers some of the polls.
Fairness ==
  /\ WF_vars(PollStart)
  /\ WF_vars(PollEnd)
  /\ WF_vars(Record)
  /\ \A k \in Keys : WF_vars(Fetch(k) \/ FetchFails(k)) /\ SF_vars(Fetch(k))

-----------------------------------------------------------------------------
(* Properties *)

\* However agents come and go under the poller's feet, no token is counted
\* twice: the deltas of all days add up to no more than what was read from the
\* agents. A session may even get its next agent before the poller has
\* noticed the last one leave; an address must not pass to another session.
NoDoubleCount == ~moved => counted <= read

\* Every token read from an agent is counted exactly once: the deltas are
\* exactly what was last read from each agent, whatever polls fail in between.
\* Needs keys that rest until they are pruned as well.
CountedOnce == ~moved /\ ~renewed => counted = read

\* The total of a day holds what was spent that day and, at most, what was
\* spent earlier and had not been counted at midnight.
DailyBound == ~moved /\ day = today => daily <= (spent - before) + unread

\* Within a day the total never goes down, so a broker that has started to
\* refuse chats refuses them until midnight, even when an agent's counter
\* starts over. Only a restart of the broker forgets it.
RefusesTillMidnight == [][(day' = day => daily' >= daily) \/ Restarts]_vars

\* Spending the budget is noticed: if running agents in the map have spent it
\* before the first midnight, chats are refused eventually, unless one of them
\* goes away first or the day ends; a restart of the broker only delays it.
Overspent ==
  /\ today = 0
  /\ spent >= Budget
  /\ \A a \in Agents : used[a] > 0 => \E k \in DOMAIN targets : targets[k] = addrOf[a]
BudgetBites == []<>~Overspent \/ <>Exceeded
==============================================================================
