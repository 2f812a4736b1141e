--------------------------- MODULE UsageBudgetProofs ---------------------------
(***************************************************************************)
(* Theorems about UsageBudget, for any sets of keys, agents and addresses, *)
(* any budget and either mode: what the tracker counts, and that it counts *)
(* no token twice however the fleet changes between the steps of a poll.   *)
(***************************************************************************)
EXTENDS UsageBudget, FiniteSetTheorems, TLAPS

\* The agent listens where the session map has the key.
AtTarget(k, a) == k \in DOMAIN targets /\ addrOf[a] = targets[k]

\* This poll has read the agent under the key, or will if it is still there.
Pending(k, a) ==
  \/ k \in DOMAIN snap /\ addrOf[a] = snap[k]
  \/ got # None /\ got.key = k /\ got.agent = a

\* No reading is ahead of its agent, and each is at or after the last one.
InStep ==
  /\ \A a \in Agents : seen[a] <= used[a]
  /\ got # None => /\ seen[got.agent] <= got.cumulative
                   /\ got.cumulative <= used[got.agent]

Typed == TypeOK /\ InStep

\* Each address has one listener, nothing is known of an agent that has never
\* run, and a key is fetched once in a poll.
Fleet ==
  /\ \A a \in Agents : addrOf[a] # None => a \in started /\ usedBy[addrOf[a]] # None
  /\ \A a, b \in Agents : addrOf[a] = addrOf[b] /\ addrOf[a] # None => a = b
  /\ \A a \in Agents \ started : used[a] = 0 /\ seen[a] = 0
  /\ got # None => got.agent \in started /\ got.key \in active \ DOMAIN snap

\* An address that is known under a key has been that key's only. In direct
\* mode there is but one key, whose address may not have been used yet.
Of(k, ip) ==
  IF mode = "sandbox" THEN usedBy[ip] = k
                      ELSE usedBy[ip] \in {k, None} /\ DOMAIN targets = {k}

Routed ==
  /\ \A k \in DOMAIN targets : Of(k, targets[k])
  /\ \A k \in DOMAIN snap : Of(k, snap[k])
  /\ got # None /\ addrOf[got.agent] # None =>
       usedBy[addrOf[got.agent]] = got.key

\* What is known under a key is the last reading of its agent, or that agent
\* has not been read: then it came up after the one that has, possibly in the
\* middle of a poll, which will not prune the key of the agent it has read.
Readings ==
  /\ \A k \in Keys, a \in Agents : AtTarget(k, a) \/ Pending(k, a) =>
       seen[a] = 0 \/ (k \in DOMAIN last /\ seen[a] = last[k])
  /\ \A k \in Keys, a, b \in Agents :
       Pending(k, a) /\ AtTarget(k, b) /\ a # b => seen[b] = 0
  /\ polling => \A k \in Keys \ active, a \in Agents : AtTarget(k, a) => seen[a] = 0

\* Without an early next agent, it is exactly the last reading of its agent.
Exact ==
  /\ \A k \in DOMAIN last, a \in Agents :
       AtTarget(k, a) \/ Pending(k, a) => seen[a] = last[k]
  /\ \A k \in Keys, a, b \in Agents : Pending(k, a) /\ AtTarget(k, b) => a = b

\* The tracker's total is what was counted since the day, or the process, began.
DayTotal ==
  IF day = today THEN daily = counted - (before - unread)
                 ELSE day < today /\ counted = before - unread

CountInv ==
  /\ ~moved => Routed /\ Readings /\ counted <= read
  /\ ~moved /\ ~renewed => Exact /\ counted = read

\* The tokens of which f gives the number for each agent.
Tokens(f) == {t \in started \X (1..MaxUsed) : t[2] <= f[t[1]]}

\* The running totals are the sums they stand for.
Sums ==
  /\ IsFiniteSet(started)
  /\ spent = Cardinality(Tokens(used))
  /\ read = Cardinality(Tokens(seen))

-----------------------------------------------------------------------------
(* The type invariant *)

LEMMA Bounds ==
  /\ MaxUsed \in Nat /\ MaxDay \in Nat /\ MaxRestarts \in Nat
  /\ Budget \in Nat /\ Budget > 0 /\ None \notin Addrs /\ None \notin Keys
  BY BudgetAssumption

\* What a delta adds is a number of tokens.
LEMMA DeltaTyped ==
  ASSUME TypeOK, got # None
  PROVE  /\ got \in Answer /\ got.key \in Keys /\ got.agent \in Agents
         /\ got.cumulative \in 0..MaxUsed /\ got.cumulative \in Nat
         /\ Delta(got.key, got.cumulative) \in Nat
  <1>1. got \in Answer
    BY DEF TypeOK
  <1>2. /\ got.key \in Keys /\ got.agent \in Agents
        /\ got.cumulative \in 0..MaxUsed /\ got.cumulative \in Nat
    BY <1>1, Bounds DEF Answer
  <1>3. got.key \in DOMAIN last => last[got.key] \in 0..MaxUsed
    BY DEF TypeOK
  <1> QED
    BY <1>1, <1>2, <1>3, Bounds DEF Delta

LEMMA InitTyped == Init => Typed
  <1> SUFFICES ASSUME Init PROVE TypeOK /\ InStep
    BY DEF Typed
  <1>1. DOMAIN targets \subseteq Keys /\ targets \in [DOMAIN targets -> Addrs]
    BY DEF Init
  <1>2. polling \in BOOLEAN /\ moved \in BOOLEAN /\ renewed \in BOOLEAN
    BY DEF Init
  <1>3. /\ DOMAIN snap = {} /\ snap \in [{} -> Addrs]
        /\ DOMAIN last = {} /\ last \in [{} -> 0..MaxUsed]
    BY DEF Init
  <1>4. InStep
    BY DEF Init, InStep
  <1> QED
    BY <1>1, <1>2, <1>3, <1>4, Bounds DEF Init, TypeOK

LEMMA StepTypeOK == Typed /\ [Next]_vars => TypeOK'
  <1> SUFFICES ASSUME TypeOK, InStep, [Next]_vars PROVE TypeOK'
    BY DEF Typed
  <1> USE Bounds
  <1>1. ASSUME NEW a \in Agents, NEW k \in Keys, NEW ip \in Addrs, Starts(a, k, ip),
               DOMAIN targets' \subseteq Keys, targets' \in [DOMAIN targets' -> Addrs]
        PROVE  TypeOK'
    <2>1. moved' \in BOOLEAN /\ renewed' \in BOOLEAN
      BY <1>1 DEF Starts, TypeOK
    <2>2. /\ addrOf' \in [Agents -> Addrs \cup {None}]
          /\ usedBy' \in [Addrs -> Keys \cup {None}]
          /\ started' \subseteq Agents
      BY <1>1 DEF Starts, TypeOK
    <2> QED
      BY <1>1, <2>1, <2>2 DEF Starts, TypeOK, spendVars, trackerVars, pollerVars,
        readVars, dayVars
  <1>2. ASSUME NEW k \in Keys, NEW a \in Agents, NEW ip \in Addrs, Acquire(k, a, ip)
        PROVE  TypeOK'
    <2>1. DOMAIN targets' \subseteq Keys /\ targets' \in [DOMAIN targets' -> Addrs]
      BY <1>2 DEF Acquire, Put, TypeOK
    <2> QED
      BY <1>1, <1>2, <2>1 DEF Acquire
  <1>3. ASSUME NEW k \in Keys, NEW a \in Agents, TakesOver(k, a) PROVE TypeOK'
    <2>1. targets[k] \in Addrs /\ targets' = targets
      BY <1>3 DEF TakesOver, TypeOK
    <2> QED
      BY <1>1, <1>3, <2>1 DEF TakesOver, TypeOK
  <1>4. ASSUME NEW a \in Agents, Stops(a) PROVE TypeOK'
    BY <1>4 DEF Stops, TypeOK, spendVars, trackerVars, pollerVars, readVars, dayVars,
      reuseVars
  <1>5. ASSUME NEW a \in Agents, Spends(a) PROVE TypeOK'
    <2>1. used' \in [Agents -> 0..MaxUsed] /\ spent' \in Nat
      <3>1. used \in [Agents -> 0..MaxUsed] /\ spent \in Nat
        BY DEF TypeOK
      <3>2. used[a] + 1 \in 0..MaxUsed
        BY <1>5, <3>1 DEF Spends
      <3> QED
        BY <1>5, <3>1, <3>2 DEF Spends
    <2> QED
      BY <1>5, <2>1 DEF Spends, TypeOK, fleetVars, trackerVars, pollerVars, readVars, dayVars,
      reuseVars
  <1>6. ASSUME NEW k \in Keys, Leaves(k) PROVE TypeOK'
    <2>1. DOMAIN targets' \subseteq Keys /\ targets' \in [DOMAIN targets' -> Addrs]
      BY <1>6 DEF Leaves, Without, TypeOK
    <2> QED
      BY <1>6, <2>1 DEF Leaves, TypeOK, spendVars, trackerVars, pollerVars, readVars,
        dayVars, reuseVars
  <1>7. CASE Midnight
    <2>1. today' \in 0..MaxDay /\ before' \in Nat /\ unread' \in Int
      BY <1>7 DEF Midnight, TypeOK
    <2> QED
      BY <1>7, <2>1 DEF Midnight, TypeOK, fleetVars, spendVars, trackerVars, pollerVars,
      readVars, reuseVars
  <1>8. CASE Restarts
    <2>1. DOMAIN targets' \subseteq Keys /\ targets' \in [DOMAIN targets' -> Addrs]
      BY <1>8 DEF Restarts, TypeOK
    <2>2. /\ DOMAIN snap' = {} /\ snap' \in [{} -> Addrs]
          /\ DOMAIN last' = {} /\ last' \in [{} -> 0..MaxUsed]
          /\ polling' \in BOOLEAN /\ ~polling'
      BY <1>8 DEF Restarts, Fresh
    <2> QED
      BY <1>8, <2>1, <2>2 DEF Restarts, Fresh, TypeOK, spendVars
  <1>9. CASE Record
    <2>1. DOMAIN last' \subseteq Keys /\ last' \in [DOMAIN last' -> 0..MaxUsed]
      BY <1>9, DeltaTyped DEF Record, Put, TypeOK
    <2>2. daily' \in Nat /\ counted' \in Nat
      <3>1. daily \in Nat /\ counted \in Nat
        BY DEF TypeOK
      <3> QED
        BY <1>9, <3>1, DeltaTyped DEF Record, Rolled
    <2>3. seen' \in [Agents -> 0..MaxUsed]
      BY <1>9, DeltaTyped DEF Record, TypeOK
    <2>4. read' \in Nat
      <3>1. read \in Nat /\ seen[got.agent] \in Nat
        BY <1>9, DeltaTyped, Bounds DEF Record, TypeOK
      <3> QED
        BY <1>9, <3>1, DeltaTyped DEF Record, InStep
    <2> QED
      BY <1>9, <2>1, <2>2, <2>3, <2>4 DEF Record, TypeOK, fleetVars, spendVars, dayVars,
        reuseVars
  <1>10. CASE Look
    BY <1>10 DEF Look, Rolled, TypeOK, fleetVars, spendVars, pollerVars, readVars, dayVars,
      reuseVars
  <1>11. CASE PollStart
    BY <1>11 DEF PollStart, TypeOK, fleetVars, spendVars, trackerVars, readVars, dayVars,
      reuseVars
  <1>12. ASSUME NEW k \in Keys, Fetch(k) PROVE TypeOK'
    <2>1. got' \in Answer
      BY <1>12 DEF Fetch, TypeOK, Answer
    <2>2. DOMAIN snap' \subseteq active /\ snap' \in [DOMAIN snap' -> Addrs]
      BY <1>12 DEF Fetch, Without, TypeOK
    <2>3. polling
      BY <1>12 DEF Fetch, TypeOK
    <2> QED
      BY <1>12, <2>1, <2>2, <2>3 DEF Fetch, TypeOK, fleetVars, spendVars, trackerVars,
        readVars, dayVars, reuseVars
  <1>13. ASSUME NEW k \in Keys, FetchFails(k) PROVE TypeOK'
    <2>1. DOMAIN snap' \subseteq active /\ snap' \in [DOMAIN snap' -> Addrs]
      BY <1>13 DEF FetchFails, ActiveAfterFailure, Without, TypeOK
    <2> QED
      BY <1>13, <2>1 DEF FetchFails, ActiveAfterFailure, TypeOK, fleetVars, spendVars,
        trackerVars, readVars, dayVars, reuseVars
  <1>14. CASE PollEnd
    <2>1. polling' \in BOOLEAN
      BY <1>14 DEF PollEnd
    <2>2. DOMAIN last' \subseteq Keys /\ last' \in [DOMAIN last' -> 0..MaxUsed]
      BY <1>14 DEF PollEnd, TypeOK
    <2> QED
      BY <1>14, <2>1, <2>2 DEF PollEnd, TypeOK, fleetVars, spendVars, readVars, dayVars,
        reuseVars
  <1>15. CASE UNCHANGED vars
    BY <1>15 DEF vars, TypeOK, fleetVars, spendVars, trackerVars, pollerVars, readVars,
      dayVars, reuseVars
  <1> QED
    BY <1>2, <1>3, <1>4, <1>5, <1>6, <1>7, <1>8, <1>9, <1>10, <1>11, <1>12, <1>13,
      <1>14, <1>15 DEF Next

LEMMA StepInStep == Typed /\ [Next]_vars => InStep'
  <1> SUFFICES ASSUME TypeOK, InStep, [Next]_vars PROVE InStep'
    BY DEF Typed
  <1>N. used \in [Agents -> Nat] /\ seen \in [Agents -> Nat]
    BY Bounds DEF TypeOK
  <1>1. ASSUME NEW a \in Agents, Spends(a) PROVE InStep'
    <2>1. \A b \in Agents : used'[b] >= used[b] /\ used'[b] \in Nat
      BY <1>N, <1>1 DEF Spends
    <2>2. got # None => got.agent \in Agents /\ got.cumulative \in Nat
      BY DeltaTyped
    <2>3. UNCHANGED <<seen, got>>
      BY <1>1 DEF Spends, readVars, pollerVars
    <2> QED
      BY <1>N, <2>1, <2>2, <2>3 DEF InStep
  <1>2. CASE Restarts
    BY <1>N, <1>2 DEF Restarts, Fresh, InStep, spendVars
  <1>3. CASE Record
    BY <1>N, <1>3, DeltaTyped DEF Record, InStep, spendVars
  <1>4. ASSUME NEW k \in Keys, Fetch(k) PROVE InStep'
    <2>1. PICK a \in Agents : got' = [key |-> k, agent |-> a, cumulative |-> used[a]]
      BY <1>4 DEF Fetch
    <2>2. UNCHANGED <<used, seen>>
      BY <1>4 DEF Fetch, spendVars, readVars
    <2> QED
      BY <1>N, <2>1, <2>2 DEF InStep
  <1>5. ASSUME UNCHANGED <<used, seen, got>> PROVE InStep'
    BY <1>5 DEF InStep
  <1> QED
    BY <1>1, <1>2, <1>3, <1>4, <1>5 DEF Next, Stops, Leaves, FetchFails, TakesOver,
      Acquire, Starts, Midnight, Look, PollStart, PollEnd, vars, fleetVars, spendVars,
      trackerVars, pollerVars, readVars, dayVars, reuseVars

LEMMA AlwaysTyped == Spec => []Typed
  <1>1. Typed /\ [Next]_vars => Typed'
    BY StepTypeOK, StepInStep DEF Typed
  <1> QED
    BY <1>1, InitTyped, PTL DEF Spec

\* The tracker, the poller and the fleet keep to their types.
THEOREM TypeCorrect == Spec => []TypeOK
  <1>1. Typed => TypeOK
    BY DEF Typed
  <1> QED
    BY <1>1, AlwaysTyped, PTL

\* Within a day the total never goes down, whatever an agent's counter does:
\* once a broker refuses chats, only midnight or a restart ends that.
THEOREM RefusalLasts == Spec => RefusesTillMidnight
  <1> DEFINE Keeps == (day' = day => daily' >= daily) \/ Restarts
  <1>1. TypeOK /\ [Next]_vars => [Keeps]_vars
    <2> SUFFICES ASSUME TypeOK, Next PROVE Keeps
      OBVIOUS
    <2>1. daily \in Nat
      BY DEF TypeOK
    <2>2. CASE Record
      BY <2>1, <2>2, DeltaTyped DEF Record, Rolled
    <2>3. CASE Look
      BY <2>1, <2>3 DEF Look, Rolled
    <2>4. CASE daily' = daily
      BY <2>1, <2>4
    <2> QED
      BY <2>2, <2>3, <2>4 DEF Next, Stops, Spends, Leaves, Fetch, FetchFails, TakesOver,
        Acquire, Starts, Midnight, PollStart, PollEnd, trackerVars
  <1> QED
    BY <1>1, TypeCorrect, PTL DEF Spec, RefusesTillMidnight

-----------------------------------------------------------------------------
(* Agents, addresses and the keys they are known under *)

LEMMA StepFleet == Typed /\ Fleet /\ [Next]_vars => Fleet'
  <1> SUFFICES ASSUME TypeOK, Fleet, [Next]_vars PROVE Fleet'
    BY DEF Typed
  <1>T. /\ addrOf \in [Agents -> Addrs \cup {None}] /\ usedBy \in [Addrs -> Keys \cup {None}]
        /\ used \in [Agents -> Nat] /\ seen \in [Agents -> Nat]
    BY Bounds DEF TypeOK
  <1>1. ASSUME NEW a \in Agents, NEW k \in Keys, NEW ip \in Addrs, Starts(a, k, ip)
        PROVE  Fleet'
    <2>1. /\ addrOf' = [addrOf EXCEPT ![a] = ip] /\ usedBy' = [usedBy EXCEPT ![ip] = k]
          /\ started' = started \cup {a} /\ k # None
          /\ \A b \in Agents : addrOf[b] # ip
          /\ UNCHANGED <<used, seen, got, active, snap>>
      BY <1>1, Bounds DEF Starts, Listening, spendVars, readVars, pollerVars
    <2> QED
      BY <1>T, <2>1 DEF Fleet
  <1>2. ASSUME NEW a \in Agents, Stops(a) PROVE Fleet'
    <2>1. /\ addrOf' = [addrOf EXCEPT ![a] = None]
          /\ UNCHANGED <<started, usedBy, used, seen, got, active, snap>>
      BY <1>2 DEF Stops, spendVars, readVars, pollerVars, reuseVars
    <2> QED
      BY <1>T, <2>1 DEF Fleet
  <1>3. ASSUME NEW a \in Agents, Spends(a) PROVE Fleet'
    <2>1. /\ \A b \in Agents : b # a => used'[b] = used[b]
          /\ a \in started
          /\ UNCHANGED <<addrOf, started, usedBy, seen, got, active, snap>>
      BY <1>T, <1>3 DEF Spends, Fleet, fleetVars, readVars, pollerVars, reuseVars
    <2> QED
      BY <2>1 DEF Fleet
  <1>4. CASE Restarts
    BY <1>4 DEF Restarts, Fresh, Fleet, spendVars
  <1>5. CASE Record
    <2>1. /\ \A b \in Agents : b # got.agent => seen'[b] = seen[b]
          /\ got.agent \in started /\ got' = None
          /\ UNCHANGED <<addrOf, started, usedBy, used>>
      BY <1>T, <1>5 DEF Record, Fleet, fleetVars, spendVars, reuseVars
    <2> QED
      BY <2>1 DEF Fleet
  <1>6. ASSUME NEW k \in Keys, Fetch(k) PROVE Fleet'
    <2>1. PICK a \in Agents :
            /\ addrOf[a] = snap[k]
            /\ got' = [key |-> k, agent |-> a, cumulative |-> used[a]]
      BY <1>6 DEF Fetch
    <2>2. /\ a \in started /\ k \in active
          /\ DOMAIN snap' = DOMAIN snap \ {k}
          /\ UNCHANGED <<addrOf, started, usedBy, used, seen, active>>
      BY <1>6, <2>1, Bounds DEF Fetch, Fleet, TypeOK, Without, fleetVars, spendVars,
        readVars, reuseVars
    <2> QED
      BY <2>1, <2>2 DEF Fleet
  <1>7. ASSUME NEW k \in Keys, FetchFails(k) PROVE Fleet'
    BY <1>7 DEF FetchFails, ActiveAfterFailure, Fleet, fleetVars, spendVars, readVars,
      reuseVars
  <1>8. CASE PollStart
    BY <1>8 DEF PollStart, TypeOK, Fleet, fleetVars, spendVars, readVars, reuseVars
  <1>9. CASE PollEnd
    BY <1>9 DEF PollEnd, Fleet, fleetVars, spendVars, readVars, reuseVars
  <1>10. ASSUME UNCHANGED <<addrOf, started, usedBy, used, seen, got, active, snap>>
         PROVE  Fleet'
    BY <1>10 DEF Fleet
  <1> QED
    BY <1>1, <1>2, <1>3, <1>4, <1>5, <1>6, <1>7, <1>8, <1>9, <1>10, <1>T
      DEF Next, TypeOK, TakesOver, Acquire, Leaves, Midnight, Look, vars, fleetVars,
      spendVars, pollerVars, readVars, reuseVars

LEMMA AlwaysFleet == Spec => []Fleet
  <1>1. Init => Fleet
    BY DEF Init, Fleet
  <1> QED
    BY <1>1, StepFleet, AlwaysTyped, PTL DEF Spec

\* An agent that listens at a key's address is that key's.
LEMMA ListenerOf ==
  ASSUME Typed, Fleet, NEW k \in Keys, NEW a \in Agents, addrOf[a] # None,
         Of(k, addrOf[a])
  PROVE  usedBy[addrOf[a]] = k
  BY DEF Fleet, Of

\* An agent comes up at an address that was not another key's.
LEMMA StartsAt ==
  ASSUME Typed, Fleet, Routed, ~moved', NEW a \in Agents, NEW k \in Keys,
         NEW ip \in Addrs, Starts(a, k, ip),
         \/ mode = "sandbox" /\ targets' = Put(targets, k, ip)
         \/ mode = "direct" /\ k \in DOMAIN targets /\ ip = targets[k] /\ targets' = targets
  PROVE  /\ targets'[k] = ip /\ DOMAIN targets' = DOMAIN targets \cup {k}
         /\ \A j \in DOMAIN targets : j # k => targets'[j] = targets[j] /\ targets[j] # ip
         /\ \A j \in DOMAIN snap : j # k => snap[j] # ip
         /\ addrOf' = [addrOf EXCEPT ![a] = ip] /\ \A b \in Agents : addrOf[b] # ip
         /\ usedBy' = [usedBy EXCEPT ![ip] = k]
  <1>1. usedBy[ip] \in {k, None} /\ k # None
    BY Bounds DEF Starts
  <1>2. /\ \A j \in DOMAIN targets : j # k => targets[j] # ip
        /\ \A j \in DOMAIN snap : j # k => snap[j] # ip
    <2>1. ASSUME NEW j \in Keys, Of(j, ip) PROVE j = k
      BY <1>1, <2>1, Bounds DEF Of
    <2>2. \A j \in DOMAIN targets : j \in Keys /\ Of(j, targets[j])
      BY DEF Routed, Typed, TypeOK
    <2>3. \A j \in DOMAIN snap : j \in Keys /\ Of(j, snap[j])
      BY DEF Routed, Typed, TypeOK
    <2> QED
      BY <2>1, <2>2, <2>3
  <1> QED
    BY <1>2 DEF Starts, Listening, Put

LEMMA StepRouted ==
  ASSUME Typed, Fleet, Routed, [Next]_vars, ~moved'
  PROVE  Routed'
  <1> USE DEF Typed
  <1>T. /\ addrOf \in [Agents -> Addrs \cup {None}] /\ usedBy \in [Addrs -> Keys \cup {None}]
        /\ DOMAIN targets \subseteq Keys /\ targets \in [DOMAIN targets -> Addrs]
        /\ DOMAIN snap \subseteq Keys /\ snap \in [DOMAIN snap -> Addrs]
        /\ got # None => got.key \in Keys /\ got.agent \in Agents
    BY DeltaTyped DEF TypeOK
  <1>1. ASSUME NEW a \in Agents, NEW k \in Keys, NEW ip \in Addrs, Starts(a, k, ip),
               \/ mode = "sandbox" /\ targets' = Put(targets, k, ip)
               \/ mode = "direct" /\ k \in DOMAIN targets /\ ip = targets[k] /\ targets' = targets
        PROVE  Routed'
    <2>1. /\ targets'[k] = ip /\ DOMAIN targets' = DOMAIN targets \cup {k}
          /\ \A j \in DOMAIN targets : j # k => targets'[j] = targets[j] /\ targets[j] # ip
          /\ \A j \in DOMAIN snap : j # k => snap[j] # ip
          /\ addrOf' = [addrOf EXCEPT ![a] = ip] /\ \A b \in Agents : addrOf[b] # ip
          /\ usedBy' = [usedBy EXCEPT ![ip] = k]
      BY <1>1, StartsAt
    <2>2. UNCHANGED <<mode, snap, got>>
      BY <1>1 DEF Starts, pollerVars
    <2>3. (\A j \in DOMAIN targets : Of(j, targets[j]))'
      BY <1>T, <1>1, <2>1, <2>2 DEF Routed, Of
    <2>4. (\A j \in DOMAIN snap : Of(j, snap[j]))'
      BY <1>T, <1>1, <2>1, <2>2 DEF Routed, Of
    <2>5. got # None /\ addrOf'[got.agent] # None => usedBy'[addrOf'[got.agent]] = got.key
      <3>1. got # None => got.agent # a
        BY <1>1 DEF Fleet, Starts
      <3> QED
        BY <1>T, <2>1, <3>1 DEF Routed
    <2> QED
      BY <2>2, <2>3, <2>4, <2>5 DEF Routed
  <1>2. ASSUME NEW a \in Agents, Stops(a) PROVE Routed'
    BY <1>T, <1>2 DEF Stops, Routed, Of, pollerVars, reuseVars
  <1>3. ASSUME NEW k \in Keys, Leaves(k) PROVE Routed'
    BY <1>T, <1>3 DEF Leaves, Without, Routed, Of, pollerVars, reuseVars
  <1>4. CASE Restarts
    BY <1>T, <1>4 DEF Restarts, Fresh, Routed, Of
  <1>5. ASSUME NEW k \in Keys, Fetch(k) PROVE Routed'
    <2>1. PICK a \in Agents : addrOf[a] = snap[k] /\ got'.key = k /\ got'.agent = a
      BY <1>5 DEF Fetch
    <2>2. /\ k \in DOMAIN snap /\ snap' = Without(snap, {k})
          /\ UNCHANGED <<mode, targets, addrOf, usedBy>>
      BY <1>5 DEF Fetch, fleetVars, reuseVars
    <2>3. addrOf[a] # None /\ usedBy[addrOf[a]] = k
      BY <1>T, <2>1, <2>2, ListenerOf, Bounds DEF Routed
    <2> QED
      BY <2>1, <2>2, <2>3 DEF Routed, Of, Without
  <1>6. ASSUME NEW k \in Keys, FetchFails(k) PROVE Routed'
    BY <1>6 DEF FetchFails, Without, Routed, Of, fleetVars, reuseVars
  <1>7. CASE PollStart
    BY <1>7 DEF PollStart, TypeOK, Routed, Of, fleetVars, reuseVars
  <1>8. CASE Record
    BY <1>8 DEF Record, Routed, Of, fleetVars, reuseVars
  <1>9. ASSUME UNCHANGED <<mode, targets, addrOf, usedBy, snap, got>> PROVE Routed'
    BY <1>9 DEF Routed, Of
  <1> QED
    BY <1>1, <1>2, <1>3, <1>4, <1>5, <1>6, <1>7, <1>8, <1>9, <1>T
      DEF Next, TakesOver, Acquire, Spends, Midnight, Look, PollEnd, vars, fleetVars,
      pollerVars, reuseVars

-----------------------------------------------------------------------------
(* What has been read of the agents that are known under a key *)

\* A new agent is known under its own key only, and is all that is known there
\* but for what the poll is about to read, or has read, of the one before.
LEMMA StartsKnown ==
  ASSUME Typed, Fleet, Routed, ~moved', NEW a \in Agents, NEW k \in Keys,
         NEW ip \in Addrs, Starts(a, k, ip),
         \/ mode = "sandbox" /\ targets' = Put(targets, k, ip)
         \/ mode = "direct" /\ k \in DOMAIN targets /\ ip = targets[k] /\ targets' = targets
  PROVE  /\ \A j \in Keys : AtTarget(j, a)' \/ Pending(j, a)' => j = k
         /\ \A b \in Agents : AtTarget(k, b)' => b = a
         /\ \A j \in Keys, b \in Agents : b # a =>
              /\ AtTarget(j, b)' => AtTarget(j, b)
              /\ Pending(j, b)' => Pending(j, b)
         /\ Pending(k, a)' => k \in DOMAIN snap
  <1>1. /\ targets'[k] = ip /\ DOMAIN targets' = DOMAIN targets \cup {k}
        /\ \A j \in DOMAIN targets : j # k => targets'[j] = targets[j] /\ targets[j] # ip
        /\ \A j \in DOMAIN snap : j # k => snap[j] # ip
        /\ addrOf' = [addrOf EXCEPT ![a] = ip] /\ \A b \in Agents : addrOf[b] # ip
    BY StartsAt
  <1>2. UNCHANGED <<snap, got>> /\ addrOf \in [Agents -> Addrs \cup {None}]
    BY DEF Starts, pollerVars, Typed, TypeOK
  <1>3. got # None => got.agent # a
    BY DEF Fleet, Starts
  <1>4. addrOf'[a] = ip /\ \A b \in Agents : b # a => addrOf'[b] = addrOf[b]
    BY <1>1, <1>2
  <1>5. \A j \in Keys : AtTarget(j, a)' \/ Pending(j, a)' => j = k
    BY <1>1, <1>2, <1>3, <1>4 DEF AtTarget, Pending
  <1>6. \A b \in Agents : AtTarget(k, b)' => b = a
    BY <1>1, <1>4 DEF AtTarget
  <1>7. \A j \in Keys, b \in Agents : b # a =>
          /\ AtTarget(j, b)' => AtTarget(j, b)
          /\ Pending(j, b)' => Pending(j, b)
    BY <1>1, <1>2, <1>4 DEF AtTarget, Pending
  <1>8. Pending(k, a)' => k \in DOMAIN snap
    BY <1>2, <1>3 DEF Pending
  <1> QED
    BY <1>5, <1>6, <1>7, <1>8

\* What Record leaves: nothing else is known of the agent it has read.
LEMMA RecordKnown ==
  ASSUME Typed, Fleet, Routed, Record
  PROVE  /\ got.key \in Keys /\ got.agent \in Agents /\ got.key \in active
         /\ Pending(got.key, got.agent)
         /\ DOMAIN last' = DOMAIN last \cup {got.key}
         /\ last'[got.key] = got.cumulative /\ seen'[got.agent] = got.cumulative
         /\ \A k \in DOMAIN last : k # got.key => last'[k] = last[k]
         /\ \A a \in Agents : a # got.agent => seen'[a] = seen[a]
         /\ \A k \in Keys, a \in Agents :
              /\ AtTarget(k, a)' => AtTarget(k, a)
              /\ Pending(k, a)' => Pending(k, a) /\ k # got.key
              /\ k # got.key /\ (AtTarget(k, a) \/ Pending(k, a)') => a # got.agent
  <1>1. got # None /\ got' = None /\ UNCHANGED <<mode, targets, addrOf, snap, polling, active>>
    BY DEF Record, fleetVars
  <1>2. got.key \in Keys /\ got.agent \in Agents /\ got.key \in active \ DOMAIN snap
    BY <1>1, DeltaTyped DEF Typed, Fleet
  <1>3. /\ DOMAIN last' = DOMAIN last \cup {got.key}
        /\ last'[got.key] = got.cumulative
        /\ \A k \in DOMAIN last : k # got.key => last'[k] = last[k]
    BY DEF Record, Put
  <1>4. /\ seen'[got.agent] = got.cumulative
        /\ \A a \in Agents : a # got.agent => seen'[a] = seen[a]
    BY <1>2 DEF Record, Typed, TypeOK
  <1>5. \A k \in Keys, a \in Agents :
          /\ AtTarget(k, a)' => AtTarget(k, a)
          /\ Pending(k, a)' => k \in DOMAIN snap /\ addrOf[a] = snap[k]
    BY <1>1 DEF AtTarget, Pending
  <1>6. ASSUME NEW k \in Keys, NEW a \in Agents, a = got.agent,
               AtTarget(k, a) \/ Pending(k, a)'
        PROVE  k = got.key
    <2>1. \/ k \in DOMAIN targets /\ addrOf[a] = targets[k]
          \/ k \in DOMAIN snap /\ addrOf[a] = snap[k]
      BY <1>5, <1>6 DEF AtTarget
    <2>2. addrOf[a] \in Addrs
      BY <2>1 DEF Typed, TypeOK
    <2>3. Of(k, addrOf[a])
      BY <2>1 DEF Routed
    <2> QED
      BY <1>1, <1>2, <1>6, <2>2, <2>3, ListenerOf, Bounds DEF Routed
  <1>7. Pending(got.key, got.agent)
    BY <1>1 DEF Pending
  <1>8. ASSUME NEW k \in Keys, NEW a \in Agents
        PROVE  /\ Pending(k, a)' => Pending(k, a) /\ k # got.key
               /\ k # got.key /\ (AtTarget(k, a) \/ Pending(k, a)') => a # got.agent
    <2>1. a = got.agent => (AtTarget(k, a) \/ Pending(k, a)' => k = got.key)
      BY <1>6
    <2> QED
      BY <1>1, <1>2, <2>1 DEF Pending
  <1> QED
    BY <1>2, <1>3, <1>4, <1>5, <1>7, <1>8

LEMMA StepReadings ==
  ASSUME Typed, Fleet, Routed, Readings, [Next]_vars, ~moved'
  PROVE  Readings'
  <1>1. ASSUME NEW a \in Agents, NEW k \in Keys, NEW ip \in Addrs, Starts(a, k, ip),
               \/ mode = "sandbox" /\ targets' = Put(targets, k, ip)
               \/ mode = "direct" /\ k \in DOMAIN targets /\ ip = targets[k] /\ targets' = targets
        PROVE  Readings'
    <2>1. seen[a] = 0 /\ UNCHANGED <<seen, last, polling, active>>
      BY <1>1 DEF Starts, Fleet, readVars, trackerVars, pollerVars
    <2> QED
      BY <1>1, <2>1, StartsKnown DEF Readings
  <1>2. ASSUME UNCHANGED <<seen, last, polling, active>>,
               \A k \in Keys, a \in Agents :
                 /\ AtTarget(k, a)' => AtTarget(k, a)
                 /\ Pending(k, a)' => Pending(k, a)
        PROVE  Readings'
    BY <1>2 DEF Readings
  <1>3. ASSUME NEW a \in Agents, Stops(a) PROVE Readings'
    <2>1. /\ addrOf' = [addrOf EXCEPT ![a] = None]
          /\ addrOf \in [Agents -> Addrs \cup {None}]
          /\ UNCHANGED <<targets, snap, got, seen, last, polling, active>>
          /\ \A k \in DOMAIN targets : targets[k] # None
          /\ \A k \in DOMAIN snap : snap[k] # None
      BY <1>3, Bounds DEF Stops, Typed, TypeOK, readVars, trackerVars, pollerVars
    <2> QED
      BY <1>2, <2>1 DEF AtTarget, Pending
  <1>4. ASSUME NEW k \in Keys, Leaves(k) PROVE Readings'
    BY <1>2, <1>4 DEF Leaves, Without, AtTarget, Pending, readVars, trackerVars, pollerVars
  <1>5. ASSUME NEW k \in Keys, Fetch(k) PROVE Readings'
    <2>1. PICK a \in Agents : addrOf[a] = snap[k] /\ got'.key = k /\ got'.agent = a
      BY <1>5 DEF Fetch
    <2>2. /\ k \in DOMAIN snap /\ snap' = Without(snap, {k})
          /\ UNCHANGED <<targets, addrOf, seen, last, polling, active>>
      BY <1>5 DEF Fetch, fleetVars, trackerVars, readVars
    <2> QED
      BY <1>2, <2>1, <2>2 DEF Without, AtTarget, Pending
  <1>6. ASSUME NEW k \in Keys, FetchFails(k) PROVE Readings'
    BY <1>2, <1>6 DEF FetchFails, ActiveAfterFailure, Without, AtTarget, Pending, fleetVars,
      trackerVars, readVars
  <1>7. CASE Restarts
    BY <1>7 DEF Restarts, Fresh, Readings, Pending
  <1>8. CASE Record
    <2>1. UNCHANGED <<polling, active>>
      BY <1>8 DEF Record
    <2>2. ASSUME NEW k \in Keys, NEW a \in Agents, AtTarget(k, a)' \/ Pending(k, a)'
          PROVE  seen'[a] = 0 \/ (k \in DOMAIN last' /\ seen'[a] = last'[k])
      <3>1. CASE a = got.agent
        BY <1>8, <2>2, <3>1, RecordKnown
      <3>2. CASE a # got.agent /\ k = got.key
        BY <1>8, <2>2, <3>2, RecordKnown DEF Readings
      <3>3. CASE a # got.agent /\ k # got.key
        BY <1>8, <2>2, <3>3, RecordKnown DEF Readings
      <3> QED
        BY <3>1, <3>2, <3>3
    <2>3. ASSUME NEW k \in Keys, NEW a \in Agents, NEW b \in Agents,
                 Pending(k, a)', AtTarget(k, b)', a # b
          PROVE  seen'[b] = 0
      BY <1>8, <2>3, RecordKnown DEF Readings
    <2>4. ASSUME polling, NEW k \in Keys \ active, NEW a \in Agents, AtTarget(k, a)'
          PROVE  seen'[a] = 0
      BY <1>8, <2>4, RecordKnown DEF Readings
    <2> QED
      BY <2>1, <2>2, <2>3, <2>4 DEF Readings
  <1>9. CASE PollStart
    <2>1. /\ got' = None /\ snap' = targets /\ active' = DOMAIN targets
          /\ UNCHANGED <<targets, addrOf, seen, last>>
          /\ \A k \in DOMAIN targets : targets[k] # None
      BY <1>9, Bounds DEF PollStart, Typed, TypeOK, fleetVars, readVars, trackerVars
    <2>2. \A k \in Keys, a \in Agents :
            /\ AtTarget(k, a)' => AtTarget(k, a) /\ k \in active'
            /\ Pending(k, a)' => AtTarget(k, a)
      BY <2>1 DEF AtTarget, Pending
    <2>3. \A k \in Keys, a, b \in Agents : AtTarget(k, a) /\ AtTarget(k, b) => a = b
      BY <2>1 DEF AtTarget, Fleet
    <2> QED
      BY <2>1, <2>2, <2>3 DEF Readings
  <1>10. CASE PollEnd
    <2>1. /\ \A k \in Keys, a \in Agents :
               ~Pending(k, a)' /\ (AtTarget(k, a)' => AtTarget(k, a))
          /\ polling /\ ~polling' /\ UNCHANGED seen
          /\ DOMAIN last' = DOMAIN last \cap active
          /\ \A k \in DOMAIN last' : last'[k] = last[k]
      BY <1>10 DEF PollEnd, AtTarget, Pending, fleetVars, readVars
    <2> QED
      BY <2>1 DEF Readings
  <1>11. ASSUME UNCHANGED <<targets, addrOf, snap, got, seen, last, polling, active>>
         PROVE  Readings'
    BY <1>2, <1>11 DEF AtTarget, Pending
  <1> QED
    BY <1>1, <1>3, <1>4, <1>5, <1>6, <1>7, <1>8, <1>9, <1>10, <1>11
      DEF Next, Typed, TypeOK, TakesOver, Acquire, Spends, Midnight, Look, vars, fleetVars,
      trackerVars, pollerVars, readVars

LEMMA StepExact ==
  ASSUME Typed, Fleet, Routed, Exact, [Next]_vars, ~moved', ~renewed'
  PROVE  Exact'
  <1>1. ASSUME NEW a \in Agents, NEW k \in Keys, NEW ip \in Addrs, Starts(a, k, ip),
               \/ mode = "sandbox" /\ targets' = Put(targets, k, ip)
               \/ mode = "direct" /\ k \in DOMAIN targets /\ ip = targets[k] /\ targets' = targets
        PROVE  Exact'
    <2>1. /\ UNCHANGED <<seen, last, snap, got>>
          /\ ~Remembered(k) /\ DOMAIN last \subseteq Keys
      BY <1>1 DEF Starts, Typed, TypeOK, readVars, trackerVars, pollerVars
    <2>2. k \notin DOMAIN last /\ \A b \in Agents : ~Pending(k, b)'
      BY <2>1 DEF Remembered, Pending
    <2> QED
      BY <1>1, <2>1, <2>2, StartsKnown DEF Exact
  <1>2. ASSUME UNCHANGED <<seen, last>>,
               \A k \in Keys, a \in Agents :
                 /\ AtTarget(k, a)' => AtTarget(k, a)
                 /\ Pending(k, a)' => Pending(k, a)
        PROVE  Exact'
    <2>1. DOMAIN last \subseteq Keys
      BY DEF Typed, TypeOK
    <2> QED
      BY <1>2, <2>1 DEF Exact
  <1>3. ASSUME NEW a \in Agents, Stops(a) PROVE Exact'
    <2>1. /\ addrOf' = [addrOf EXCEPT ![a] = None]
          /\ addrOf \in [Agents -> Addrs \cup {None}]
          /\ UNCHANGED <<targets, snap, got, seen, last>>
          /\ \A k \in DOMAIN targets : targets[k] # None
          /\ \A k \in DOMAIN snap : snap[k] # None
      BY <1>3, Bounds DEF Stops, Typed, TypeOK, readVars, trackerVars, pollerVars
    <2> QED
      BY <1>2, <2>1 DEF AtTarget, Pending
  <1>4. ASSUME NEW k \in Keys, Leaves(k) PROVE Exact'
    BY <1>2, <1>4 DEF Leaves, Without, AtTarget, Pending, readVars, trackerVars, pollerVars
  <1>5. ASSUME NEW k \in Keys, Fetch(k) PROVE Exact'
    <2>1. PICK a \in Agents : addrOf[a] = snap[k] /\ got'.key = k /\ got'.agent = a
      BY <1>5 DEF Fetch
    <2>2. /\ k \in DOMAIN snap /\ snap' = Without(snap, {k})
          /\ UNCHANGED <<targets, addrOf, seen, last>>
      BY <1>5 DEF Fetch, fleetVars, trackerVars, readVars
    <2> QED
      BY <1>2, <2>1, <2>2 DEF Without, AtTarget, Pending
  <1>6. ASSUME NEW k \in Keys, FetchFails(k) PROVE Exact'
    BY <1>2, <1>6 DEF FetchFails, Without, AtTarget, Pending, fleetVars, trackerVars,
      readVars
  <1>7. CASE Restarts
    BY <1>7 DEF Restarts, Fresh, Exact, Pending
  <1>8. CASE Record
    <2>1. ASSUME NEW k \in DOMAIN last', NEW a \in Agents, AtTarget(k, a)' \/ Pending(k, a)'
          PROVE  seen'[a] = last'[k]
      <3>1. k \in Keys
        BY <1>8, <2>1, RecordKnown DEF Typed, TypeOK
      <3>2. CASE a = got.agent
        BY <1>8, <2>1, <3>1, <3>2, RecordKnown
      <3>3. CASE a # got.agent /\ k = got.key
        BY <1>8, <2>1, <3>1, <3>3, RecordKnown DEF Exact
      <3>4. CASE a # got.agent /\ k # got.key
        BY <1>8, <2>1, <3>1, <3>4, RecordKnown DEF Exact
      <3> QED
        BY <3>2, <3>3, <3>4
    <2>2. ASSUME NEW k \in Keys, NEW a \in Agents, NEW b \in Agents,
                 Pending(k, a)', AtTarget(k, b)'
          PROVE  a = b
      BY <1>8, <2>2, RecordKnown DEF Exact
    <2> QED
      BY <2>1, <2>2 DEF Exact
  <1>9. CASE PollStart
    <2>1. /\ got' = None /\ snap' = targets
          /\ UNCHANGED <<targets, addrOf, seen, last>>
          /\ \A k \in DOMAIN targets : targets[k] # None
      BY <1>9, Bounds DEF PollStart, Typed, TypeOK, fleetVars, readVars, trackerVars
    <2>2. \A k \in Keys, a \in Agents :
            /\ AtTarget(k, a)' => AtTarget(k, a)
            /\ Pending(k, a)' => AtTarget(k, a)
      BY <2>1 DEF AtTarget, Pending
    <2>3. \A k \in Keys, a, b \in Agents : AtTarget(k, a) /\ AtTarget(k, b) => a = b
      BY <2>1 DEF AtTarget, Fleet
    <2>4. DOMAIN last \subseteq Keys
      BY DEF Typed, TypeOK
    <2> QED
      BY <2>1, <2>2, <2>3, <2>4 DEF Exact
  <1>10. CASE PollEnd
    <2>1. /\ \A k \in Keys, a \in Agents :
               ~Pending(k, a)' /\ (AtTarget(k, a)' => AtTarget(k, a))
          /\ UNCHANGED seen /\ DOMAIN last \subseteq Keys
          /\ DOMAIN last' = DOMAIN last \cap active
          /\ \A k \in DOMAIN last' : last'[k] = last[k]
      BY <1>10 DEF PollEnd, AtTarget, Pending, Typed, TypeOK, fleetVars, readVars
    <2> QED
      BY <2>1 DEF Exact
  <1>11. ASSUME UNCHANGED <<targets, addrOf, snap, got, seen, last>>
         PROVE  Exact'
    BY <1>2, <1>11 DEF AtTarget, Pending
  <1> QED
    BY <1>1, <1>3, <1>4, <1>5, <1>6, <1>7, <1>8, <1>9, <1>10, <1>11
      DEF Next, Typed, TypeOK, TakesOver, Acquire, Spends, Midnight, Look, vars, fleetVars,
      trackerVars, pollerVars, readVars

-----------------------------------------------------------------------------
(* What is counted *)

LEMMA StepCounts ==
  Typed /\ Fleet /\ CountInv /\ [Next]_vars => CountInv'
  <1> SUFFICES ASSUME Typed, Fleet, CountInv, [Next]_vars PROVE CountInv'
    OBVIOUS
  <1>1. (~moved' => ~moved) /\ (~renewed' => ~renewed)
    <2>1. ASSUME NEW a, NEW k, NEW ip, Starts(a, k, ip)
          PROVE  (~moved' => ~moved) /\ (~renewed' => ~renewed)
      BY <2>1 DEF Starts
    <2>2. ASSUME UNCHANGED <<moved, renewed>>
          PROVE  (~moved' => ~moved) /\ (~renewed' => ~renewed)
      BY <2>2
    <2> QED
      BY <2>1, <2>2 DEF Next, Acquire, TakesOver, Stops, Spends, Leaves, Fetch, FetchFails,
        Midnight, Restarts, Record, Look, PollStart, PollEnd, vars, reuseVars
  <1>2. counted \in Nat /\ read \in Nat
    BY DEF Typed, TypeOK
  <1>3. CASE Record
    <2>1. /\ counted' = counted + Delta(got.key, got.cumulative)
          /\ read' = read + (got.cumulative - seen[got.agent])
          /\ got # None /\ Delta(got.key, got.cumulative) \in Nat
          /\ got.cumulative \in Nat /\ seen[got.agent] \in Nat
          /\ seen[got.agent] <= got.cumulative
          /\ got.key \in DOMAIN last => last[got.key] \in Nat
      <3>1. got # None
        BY <1>3 DEF Record
      <3>2. seen[got.agent] \in Nat /\ (got.key \in DOMAIN last => last[got.key] \in Nat)
        BY <3>1, DeltaTyped, Bounds DEF Typed, TypeOK
      <3> QED
        BY <1>3, <3>1, <3>2, DeltaTyped DEF Record, Typed, InStep
    <2>2. Pending(got.key, got.agent) /\ got.key \in Keys /\ got.agent \in Agents
      BY <2>1, DeltaTyped DEF Pending, Typed
    <2>3. ~moved' => counted' <= read'
      <3>1. ~moved' => seen[got.agent] = 0
                         \/ (got.key \in DOMAIN last /\ seen[got.agent] = last[got.key])
        BY <1>1, <2>2 DEF CountInv, Readings
      <3>2. ~moved' => Delta(got.key, got.cumulative) <= got.cumulative - seen[got.agent]
        BY <2>1, <3>1 DEF Delta
      <3> QED
        BY <1>1, <1>2, <2>1, <3>2 DEF CountInv
    <2>4. ~moved' /\ ~renewed' => counted' = read'
      <3>1. ~moved' /\ ~renewed' =>
              IF got.key \in DOMAIN last THEN seen[got.agent] = last[got.key]
                                         ELSE seen[got.agent] = 0
        BY <1>1, <2>2 DEF CountInv, Readings, Exact
      <3>2. ~moved' /\ ~renewed' =>
              Delta(got.key, got.cumulative) = got.cumulative - seen[got.agent]
        BY <2>1, <3>1 DEF Delta
      <3> QED
        BY <1>1, <1>2, <2>1, <3>2 DEF CountInv
    <2> QED
      BY <1>1, <2>3, <2>4, StepRouted, StepReadings, StepExact DEF CountInv
  <1>4. ASSUME counted' = read' \/ UNCHANGED <<counted, read>>, read' \in Nat
        PROVE  CountInv'
    BY <1>1, <1>4, StepRouted, StepReadings, StepExact DEF CountInv
  <1>5. CASE Restarts
    BY <1>4, <1>5 DEF Restarts, Fresh
  <1>6. CASE UNCHANGED readVars
    BY <1>2, <1>4, <1>6 DEF readVars
  <1> QED
    BY <1>3, <1>5, <1>6 DEF Next, Acquire, TakesOver, Starts, Stops, Spends, Leaves, Fetch,
      FetchFails, Midnight, Look, PollStart, PollEnd, vars

LEMMA AlwaysCounts == Spec => []CountInv
  <1>1. Init => CountInv
    <2> SUFFICES ASSUME Init PROVE CountInv
      OBVIOUS
    <2>1. Routed
      BY DEF Init, Routed, Of
    <2>2. Readings /\ Exact
      BY DEF Init, Readings, Exact, Pending
    <2>3. counted = 0 /\ read = 0
      BY DEF Init
    <2> QED
      BY <2>1, <2>2, <2>3 DEF CountInv
  <1> QED
    BY <1>1, StepCounts, AlwaysTyped, AlwaysFleet, PTL DEF Spec

\* No token is counted twice, however agents come and go between the snapshot,
\* the fetches, the records and the prune of a poll, as long as no address
\* passes from one key to another.
THEOREM NothingCountedTwice == Spec => []NoDoubleCount
  <1>1. CountInv => NoDoubleCount
    BY DEF CountInv, NoDoubleCount
  <1> QED
    BY <1>1, AlwaysCounts, PTL

\* If moreover a key rests until it is pruned, the deltas add up to exactly
\* what was read, whatever polls fail in between.
THEOREM AllReadCounted == Spec => []CountedOnce
  <1>1. CountInv => CountedOnce
    BY DEF CountInv, CountedOnce
  <1> QED
    BY <1>1, AlwaysCounts, PTL

-----------------------------------------------------------------------------
(* The total of a day *)

LEMMA StepDayTotal == Typed /\ DayTotal /\ [Next]_vars => DayTotal'
  <1> SUFFICES ASSUME Typed, DayTotal, [Next]_vars PROVE DayTotal'
    OBVIOUS
  <1>T. /\ day \in Nat /\ today \in Nat /\ daily \in Nat /\ counted \in Nat
        /\ spent \in Nat /\ before \in Nat /\ unread \in Int
    BY Bounds DEF Typed, TypeOK
  <1>1. CASE Midnight
    BY <1>T, <1>1 DEF Midnight, DayTotal, trackerVars, readVars
  <1>2. CASE Restarts
    BY <1>T, <1>2 DEF Restarts, Fresh, DayTotal
  <1>3. CASE Record
    <2>1. got # None /\ Delta(got.key, got.cumulative) \in Nat
      BY <1>3, DeltaTyped DEF Record, Typed
    <2> QED
      BY <1>T, <1>3, <2>1 DEF Record, Rolled, DayTotal, dayVars
  <1>4. CASE Look
    BY <1>T, <1>4 DEF Look, Rolled, DayTotal, readVars, dayVars
  <1>5. ASSUME UNCHANGED <<day, today, daily, counted, before, unread>> PROVE DayTotal'
    BY <1>5 DEF DayTotal
  <1> QED
    BY <1>1, <1>2, <1>3, <1>4, <1>5 DEF Next, Acquire, TakesOver, Starts, Stops, Spends,
      Leaves, Fetch, FetchFails, PollStart, PollEnd, vars, trackerVars, readVars, dayVars

LEMMA AlwaysDayTotal == Spec => []DayTotal
  <1>1. Init => DayTotal
    BY DEF Init, DayTotal
  <1> QED
    BY <1>1, StepDayTotal, AlwaysTyped, PTL DEF Spec

\* Between m and n tokens of an agent there are n - m.
LEMMA TokensOfOne ==
  ASSUME NEW a, NEW m \in Nat, NEW n \in Nat, m <= n
  PROVE  /\ IsFiniteSet({a} \X (m + 1..n))
         /\ Cardinality({a} \X (m + 1..n)) = n - m
  <1>1. IsFiniteSet({a}) /\ Cardinality({a}) = 1
    BY FS_Singleton
  <1>2. IsFiniteSet(m + 1..n) /\ Cardinality(m + 1..n) = n - m
    <2>1. m + 1 \in Int /\ n \in Int
      OBVIOUS
    <2>2. /\ IsFiniteSet(m + 1..n)
          /\ Cardinality(m + 1..n) = IF m + 1 > n THEN 0 ELSE n - (m + 1) + 1
      BY <2>1, FS_Interval
    <2> QED
      BY <2>2
  <1> QED
    BY <1>1, <1>2, FS_Product

\* An agent that moves on by some tokens adds these to the total.
LEMMA TokensAdded ==
  ASSUME IsFiniteSet(started), MaxUsed \in Nat,
         NEW f, f \in [Agents -> 0..MaxUsed], started \subseteq Agents,
         NEW a \in started, NEW n \in 0..MaxUsed, f[a] <= n
  PROVE  /\ IsFiniteSet(Tokens(f)) /\ Cardinality(Tokens(f)) \in Nat
         /\ Cardinality(Tokens([f EXCEPT ![a] = n]))
              = Cardinality(Tokens(f)) + (n - f[a])
  <1> DEFINE g == [f EXCEPT ![a] = n]
             New == {a} \X (f[a] + 1..n)
  <1>1. f[a] \in Nat /\ n \in Nat /\ f[a] \in 0..MaxUsed
    OBVIOUS
  <1>2. IsFiniteSet(started \X (1..MaxUsed))
    <2>1. IsFiniteSet(1..MaxUsed)
      BY FS_Interval
    <2> QED
      BY <2>1, FS_Product
  <1>3. IsFiniteSet(Tokens(f)) /\ Cardinality(Tokens(f)) \in Nat
    BY <1>2, FS_Subset, FS_CardinalityType DEF Tokens
  <1>4. IsFiniteSet(New) /\ Cardinality(New) = n - f[a]
    BY <1>1, TokensOfOne
  <1>5. Tokens(f) \cap New = {}
    BY <1>1 DEF Tokens
  <1>6. Tokens(g) = Tokens(f) \cup New
    <2>1. ASSUME NEW t \in started \X (1..MaxUsed)
          PROVE  t \in Tokens(g) <=> t \in Tokens(f) \cup New
      <3>1. t[1] \in started /\ t[2] \in 1..MaxUsed /\ t = <<t[1], t[2]>>
        OBVIOUS
      <3>2. t \in Tokens(g) <=> t[2] <= g[t[1]]
        BY DEF Tokens
      <3>3. t \in Tokens(f) <=> t[2] <= f[t[1]]
        BY DEF Tokens
      <3>4. t \in New <=> t[1] = a /\ f[a] < t[2] /\ t[2] <= n
        BY <1>1, <3>1
      <3>5. g[t[1]] = IF t[1] = a THEN n ELSE f[t[1]]
        BY <3>1
      <3> QED
        BY <1>1, <3>1, <3>2, <3>3, <3>4, <3>5
    <2>2. Tokens(g) \subseteq started \X (1..MaxUsed)
      BY DEF Tokens
    <2>3. Tokens(f) \cup New \subseteq started \X (1..MaxUsed)
      BY <1>1 DEF Tokens
    <2> QED
      BY <2>1, <2>2, <2>3
  <1>7. Cardinality(Tokens(f) \cup New)
          = Cardinality(Tokens(f)) + Cardinality(New) - Cardinality({})
    BY <1>3, <1>4, <1>5, FS_Union
  <1>8. Cardinality({}) = 0
    BY FS_EmptySet
  <1> HIDE DEF g, New
  <1>9. Cardinality(Tokens(g)) = Cardinality(Tokens(f)) + (n - f[a])
    BY <1>1, <1>3, <1>4, <1>6, <1>7, <1>8
  <1> QED
    BY <1>3, <1>9 DEF g

LEMMA StepSums == Typed /\ Fleet /\ Sums /\ [Next]_vars => Sums'
  <1> SUFFICES ASSUME Typed, Fleet, Sums, [Next]_vars PROVE Sums'
    OBVIOUS
  <1>T. /\ started \subseteq Agents /\ IsFiniteSet(started) /\ MaxUsed \in Nat
        /\ used \in [Agents -> 0..MaxUsed] /\ seen \in [Agents -> 0..MaxUsed]
    BY Bounds DEF Typed, TypeOK, Sums
  <1>1. ASSUME NEW a \in Agents, NEW k, NEW ip, Starts(a, k, ip) PROVE Sums'
    <2>1. /\ started' = started \cup {a} /\ UNCHANGED <<used, seen, spent, read>>
          /\ used[a] = 0 /\ seen[a] = 0
      BY <1>1 DEF Starts, Fleet, spendVars, readVars
    <2>2. Tokens(used)' = Tokens(used) /\ Tokens(seen)' = Tokens(seen)
      BY <1>T, <2>1 DEF Tokens
    <2>3. IsFiniteSet(started')
      BY <1>T, <2>1, FS_AddElement
    <2> QED
      BY <2>1, <2>2, <2>3 DEF Sums
  <1>2. ASSUME NEW a \in Agents, Spends(a) PROVE Sums'
    <2>1. /\ used' = [used EXCEPT ![a] = used[a] + 1] /\ spent' = spent + 1
          /\ a \in started /\ used[a] < MaxUsed
          /\ UNCHANGED <<started, seen, read>>
      BY <1>2 DEF Spends, Fleet, fleetVars, readVars
    <2>2. used[a] + 1 \in 0..MaxUsed /\ used[a] <= used[a] + 1
      BY <1>T, <2>1
    <2>3. Cardinality(Tokens(used')) = Cardinality(Tokens(used)) + ((used[a] + 1) - used[a])
      BY <1>T, <2>1, <2>2, TokensAdded
    <2>4. Tokens(used)' = Tokens(used') /\ Tokens(seen)' = Tokens(seen)
      BY <2>1 DEF Tokens
    <2> QED
      BY <1>T, <2>1, <2>3, <2>4 DEF Sums
  <1>3. CASE Record
    <2> DEFINE a == got.agent
               c == got.cumulative
    <2>1. /\ a \in started /\ c \in 0..MaxUsed /\ seen[a] <= c
          /\ seen' = [seen EXCEPT ![a] = c] /\ read' = read + (c - seen[a])
          /\ UNCHANGED <<started, used, spent>>
      BY <1>3, DeltaTyped DEF Record, Typed, InStep, Fleet, fleetVars, spendVars
    <2> HIDE DEF a, c
    <2>2. Cardinality(Tokens(seen')) = Cardinality(Tokens(seen)) + (c - seen[a])
      BY <1>T, <2>1, TokensAdded
    <2>3. Tokens(seen)' = Tokens(seen') /\ Tokens(used)' = Tokens(used)
      BY <2>1 DEF Tokens
    <2> QED
      BY <1>T, <2>1, <2>2, <2>3 DEF Sums
  <1>4. CASE Restarts
    <2>1. /\ UNCHANGED <<started, used, spent>> /\ seen' = [b \in Agents |-> 0] /\ read' = 0
      BY <1>4 DEF Restarts, Fresh, spendVars
    <2>2. Tokens(seen)' = {} /\ Tokens(used)' = Tokens(used)
      BY <1>T, <2>1 DEF Tokens
    <2> QED
      BY <1>T, <2>1, <2>2, FS_EmptySet DEF Sums
  <1>5. ASSUME UNCHANGED <<started, used, seen, spent, read>> PROVE Sums'
    BY <1>5 DEF Sums, Tokens
  <1> QED
    BY <1>1, <1>2, <1>3, <1>4, <1>5 DEF Next, Acquire, TakesOver, Stops, Leaves, Fetch,
      FetchFails, Midnight, Look, PollStart, PollEnd, vars, fleetVars, spendVars, readVars

\* What the process has read of the agents is no more than they have spent.
LEMMA ReadAfterSpent ==
  ASSUME Typed, Sums
  PROVE  read <= spent
  <1>1. used \in [Agents -> 0..MaxUsed] /\ seen \in [Agents -> 0..MaxUsed]
    BY DEF Typed, TypeOK
  <1>2. \A a \in started : seen[a] <= used[a] /\ seen[a] \in Nat /\ used[a] \in Nat
    BY <1>1, Bounds DEF Typed, TypeOK, InStep
  <1>3. Tokens(seen) \subseteq Tokens(used)
    BY <1>2, Bounds DEF Tokens
  <1>4. IsFiniteSet(Tokens(used))
    <2>1. IsFiniteSet(1..MaxUsed)
      BY Bounds, FS_Interval
    <2>2. IsFiniteSet(started \X (1..MaxUsed))
      BY <2>1, FS_Product DEF Sums
    <2> QED
      BY <2>2, FS_Subset DEF Tokens
  <1>5. Cardinality(Tokens(seen)) <= Cardinality(Tokens(used))
    BY <1>3, <1>4, FS_Subset
  <1> QED
    BY <1>5 DEF Sums

LEMMA AlwaysSums == Spec => []Sums
  <1>1. Init => Sums
    <2> SUFFICES ASSUME Init PROVE Sums
      OBVIOUS
    <2>1. started = {} /\ spent = 0 /\ read = 0
      BY DEF Init
    <2>2. Tokens(used) = {} /\ Tokens(seen) = {}
      BY <2>1 DEF Tokens
    <2> QED
      BY <2>1, <2>2, FS_EmptySet DEF Sums
  <1> QED
    BY <1>1, StepSums, AlwaysTyped, AlwaysFleet, PTL DEF Spec

\* A day's total holds no more than what was spent that day and what was still
\* unread at midnight, with any number of agents.
THEOREM DayBounded == Spec => []DailyBound
  <1>1. Typed /\ CountInv /\ DayTotal /\ Sums => DailyBound
    <2> SUFFICES ASSUME Typed, CountInv, DayTotal, Sums, ~moved, day = today
                 PROVE  daily <= (spent - before) + unread
      BY DEF DailyBound
    <2>1. /\ counted \in Nat /\ read \in Nat /\ spent \in Nat /\ before \in Nat
          /\ unread \in Int /\ daily \in Nat
      BY DEF Typed, TypeOK
    <2>2. counted <= read /\ read <= spent
      BY ReadAfterSpent DEF CountInv
    <2> QED
      BY <2>1, <2>2 DEF DayTotal
  <1> QED
    BY <1>1, AlwaysTyped, AlwaysCounts, AlwaysDayTotal, AlwaysSums, PTL
==============================================================================
