------------------------- MODULE SandboxRoutingProofs -------------------------
(***************************************************************************)
(* Where SandboxProvider routes: addresses are not shared, streams are not *)
(* cut, and the session map implements AgentAssignment.                    *)
(***************************************************************************)
EXTENDS SandboxProviderProofs

(* Addresses *)

\* While pods live as long as their claims, the broker's copy of an address is
\* the pod's own until Close runs, and no two pods have the same.
Addressed ==
  /\ ~Closing =>
       /\ \A s \in DOMAIN sessions : sessions[s].baseURL = podIP[sessions[s].claimName]
       /\ \A r \in DOMAIN req :
            req[r].at = "created" => req[r].baseURL = podIP[req[r].claim]
  /\ \A c, d \in Claims : podIP[c] # None /\ podIP[c] = podIP[d] => c = d

\* A deletion changes no address but that of the deleted claim's pod, which is
\* given back.
LEMMA DeleteAddress ==
  ASSUME TypeOK, NEW c \in Claims, DeleteSandbox(c)
  PROVE  /\ \A d \in Claims : d # c => podIP'[d] = podIP[d]
         /\ podIP'[c] \in {podIP[c], None}
BY DEF DeleteSandbox, ClusterDelete, clusterVars, TypeOK

LEMMA AddressStep ==
  ASSUME TypeOK, OneOwner, Addressed, [Next]_vars, \A c \in Claims : ~PodFails(c)
  PROVE  Addressed'
<1> USE ProviderAssumption
<1> USE DEF Addressed, Closing, procVars
<1>1. ASSUME NEW r \in Requests, NEW s \in Sessions, AcquireHit(r, s) \/ AcquireMiss(r, s)
      PROVE  Addressed'
  <2>1. /\ DOMAIN sessions' = DOMAIN sessions /\ podIP' = podIP /\ phase' = phase
        /\ \A t \in DOMAIN sessions : /\ sessions'[t].claimName = sessions[t].claimName
                                      /\ sessions'[t].baseURL = sessions[t].baseURL
    BY <1>1 DEF AcquireHit, Seen, Known, AcquireMiss, TypeOK, Entry, clusterVars
  <2>2. \A q \in DOMAIN req' : req'[q].at = "created" => q \in DOMAIN req /\ req'[q] = req[q]
    BY <1>1 DEF AcquireHit, Seen, Known, AcquireMiss, Put
  <2> QED BY <2>1, <2>2
<1>2. ASSUME NEW r \in Requests, NEW c \in Claims, NEW ip \in IPs \cup {None},
             CreateReturns(r, c, ip)
      PROVE  Addressed'
  <2>1. /\ req' = [req EXCEPT ![r] =
                    [req[r] EXCEPT !.at = IF ip = None THEN "discarding" ELSE "created",
                                   !.claim = c, !.baseURL = ip]]
        /\ r \in DOMAIN req /\ req[r] \in Handler /\ req[r].at = "creating"
    BY <1>2 DEF CreateReturns, ClaimFor, HasAddress, TypeOK, Handler
  <2>2. /\ DOMAIN req' = DOMAIN req
        /\ req'[r].claim = c /\ req'[r].baseURL = ip
        /\ \A q \in DOMAIN req : q # r => req'[q] = req[q]
    BY <2>1 DEF Handler
  <2>3. /\ podIP'[c] = ip
        /\ \A d \in Claims : d # c => podIP'[d] = podIP[d]
        /\ ip = None \/ \A d \in Claims : podIP[d] # ip
        /\ cluster[c] = "unused"
    BY <1>2 DEF CreateReturns, ClaimFor, HasAddress, FreeIPs, TypeOK
  <2>4. sessions' = sessions /\ phase' = phase
    BY <1>2 DEF CreateReturns, ClaimFor, HasAddress
  <2>5. \A s \in DOMAIN sessions : sessions[s].claimName \in Claims \ {c}
    BY <2>3 DEF OneOwner, TypeOK, Entry
  <2>6. \A q \in DOMAIN req : req[q].at = "created" => req[q].claim \in Claims \ {c}
    BY <2>3 DEF OneOwner, Holding, TypeOK, HoldsWhatItShould
  <2> QED BY <2>2, <2>3, <2>4, <2>5, <2>6
<1>3. ASSUME NEW r \in Requests, CreateFails(r) \/ StreamEnds(r) PROVE Addressed'
  BY <1>3 DEF CreateFails, StreamEnds, Without, clusterVars
<1>4. ASSUME NEW r \in Requests, Discard(r) PROVE Addressed'
  <2>1. /\ DOMAIN req' = DOMAIN req \ {r} /\ sessions' = sessions /\ phase' = phase
        /\ \A q \in DOMAIN req' : req'[q] = req[q]
    BY <1>4 DEF Discard, Without
  <2>2. r \in DOMAIN req /\ Holding(r) /\ req[r].claim \in Claims /\ DeleteSandbox(req[r].claim)
    BY <1>4 DEF Discard, Holding, TypeOK, HoldsWhatItShould
  <2>3. /\ \A d \in Claims : d # req[r].claim => podIP'[d] = podIP[d]
        /\ podIP'[req[r].claim] \in {podIP[req[r].claim], None}
    BY <2>2, DeleteAddress
  <2>4. \A s \in DOMAIN sessions : sessions[s].claimName \in Claims \ {req[r].claim}
    BY <2>2 DEF OneOwner, TypeOK, Entry
  <2>5. \A q \in DOMAIN req' : req[q].at = "created" => req[q].claim \in Claims \ {req[r].claim}
    BY <2>1, <2>2 DEF OneOwner, Holding, TypeOK, HoldsWhatItShould
  <2> QED BY <2>1, <2>3, <2>4, <2>5
<1>5. ASSUME NEW r \in Requests, Store(r) PROVE Addressed'
  <2> DEFINE s == req[r].session
  <2>1. /\ r \in DOMAIN req /\ req[r].at = "created"
        /\ DOMAIN req' = DOMAIN req
        /\ req'[r].at = "streaming"
        /\ \A q \in DOMAIN req : q # r => req'[q] = req[q]
    BY <1>5 DEF Store, TypeOK, Handler
  <2>2. /\ DOMAIN sessions' = DOMAIN sessions \cup {s}
        /\ sessions'[s].claimName = req[r].claim
        /\ sessions'[s].baseURL = req[r].baseURL
        /\ \A t \in DOMAIN sessions : t # s => sessions'[t] = sessions[t]
    BY <1>5 DEF Store, Put
  <2>3. podIP' = podIP /\ phase' = phase
    BY <1>5 DEF Store, clusterVars
  <2> HIDE DEF s
  <2> QED BY <2>1, <2>2, <2>3
<1>6. ASSUME Reap \/ \E s \in Sessions : Release(s) PROVE Addressed'
  <2>1. PICK S : /\ DOMAIN sessions' = DOMAIN sessions \ S
                 /\ \A t \in DOMAIN sessions' : sessions'[t] = sessions[t]
    BY <1>6 DEF Reap, Collected, Kept, Release, Without
  <2>2. req' = req /\ podIP' = podIP /\ phase' = phase
    BY <1>6 DEF Reap, Collected, Kept, Release, clusterVars
  <2> QED BY <2>1, <2>2
<1>7. ASSUME NEW c \in Claims, DeleteClaim(c) PROVE Addressed'
  <2>1. /\ \A d \in Claims : d # c => podIP'[d] = podIP[d]
        /\ podIP'[c] \in {podIP[c], None}
    BY <1>7, DeleteAddress DEF DeleteClaim
  <2>2. sessions' = sessions /\ req' = req /\ phase' = phase /\ c \in Condemned
    BY <1>7 DEF DeleteClaim, Condemned
  <2>3. \A s \in DOMAIN sessions : sessions[s].claimName \in Claims \ {c}
    BY <2>2 DEF OneOwner, EntryBacked, TypeOK, Entry
  <2>4. \A q \in DOMAIN req : req[q].at = "created" => req[q].claim \in Claims \ {c}
    BY <2>2 DEF OneOwner, Holding, TypeOK, HoldsWhatItShould
  <2> QED BY <2>1, <2>2, <2>3, <2>4
<1>8. ASSUME NEW c \in Claims, PodFails(c) PROVE Addressed'
  BY <1>8
<1>9. CASE Stop \/ \E list \in SUBSET Claims : CloseLists(list)
  BY <1>9 DEF Stop, Serving, CloseLists, clusterVars
<1>10. ASSUME NEW born \in SUBSET Claims, Exits(born) \/ Crash(born) PROVE Addressed'
  BY <1>10 DEF Exits, Crash, BornLate, Restart
<1>11. CASE Tick
  <2>1. /\ DOMAIN sessions' = DOMAIN sessions /\ DOMAIN req' = DOMAIN req
        /\ \A t \in DOMAIN sessions : /\ sessions'[t].claimName = sessions[t].claimName
                                      /\ sessions'[t].baseURL = sessions[t].baseURL
        /\ \A q \in DOMAIN req : /\ req'[q].at = req[q].at
                                 /\ req'[q].claim = req[q].claim
                                 /\ req'[q].baseURL = req[q].baseURL
    BY <1>11 DEF Tick, TypeOK, Entry, Handler
  <2> QED BY <1>11, <2>1 DEF Tick, clusterVars
<1>12. CASE UNCHANGED vars
  BY <1>12 DEF vars
<1>13. ASSUME NEW r \in Requests, NEW c \in Claims, NEW ip \in IPs \cup {None},
              CreateOrphans(r, c, ip)
       PROVE  Addressed'
  <2>1. /\ podIP'[c] = ip
        /\ \A d \in Claims : d # c => podIP'[d] = podIP[d]
        /\ ip = None \/ \A d \in Claims : podIP[d] # ip
        /\ cluster[c] = "unused"
    BY <1>13 DEF CreateOrphans, ClaimFor, FreeIPs, TypeOK
  <2>2. sessions' = sessions /\ req' = Without(req, {r}) /\ phase' = phase
    BY <1>13 DEF CreateOrphans
  <2>3. \A s \in DOMAIN sessions : sessions[s].claimName \in Claims \ {c}
    BY <2>1 DEF OneOwner, TypeOK, Entry
  <2>4. \A q \in DOMAIN req : req[q].at = "created" => req[q].claim \in Claims \ {c}
    BY <2>1 DEF OneOwner, Holding, TypeOK, HoldsWhatItShould
  <2> QED BY <2>1, <2>2, <2>3, <2>4 DEF Without
<1>14. ASSUME NEW c \in Claims, CloseDeletes(c) PROVE Addressed'
  <2>1. /\ \A d \in Claims : d # c => podIP'[d] = podIP[d]
        /\ podIP'[c] \in {podIP[c], None}
    BY <1>14, DeleteAddress DEF CloseDeletes
  <2>2. Closing /\ phase' = phase
    BY <1>14 DEF CloseDeletes, OneOwner
  <2> QED BY <2>1, <2>2
<1> QED
  BY <1>1, <1>2, <1>3, <1>4, <1>5, <1>6, <1>7, <1>8, <1>9, <1>10, <1>11, <1>12,
     <1>13, <1>14 DEF Next

\* As long as no pod dies under its claim, no two sessions are routed to one
\* agent, however addresses are reused, until Close deletes the sandboxes.
THEOREM SessionsShareNoAgent == ~PodsFail => (Spec => []NoSharedAgent)
<1> SUFFICES ASSUME ~PodsFail PROVE Spec => []NoSharedAgent
  OBVIOUS
<1>1. Init => TypeOK /\ OneOwner /\ Addressed
  BY TypeInit, OwnerInit DEF Init, Addressed
<1>2. TypeOK /\ OneOwner /\ Addressed /\ [Next]_vars => (TypeOK /\ OneOwner /\ Addressed)'
  BY TypeStep, OwnerStep, AddressStep DEF PodFails
<1>3. TypeOK /\ OneOwner /\ Addressed => NoSharedAgent
  <2> SUFFICES ASSUME TypeOK, OneOwner, Addressed, ~Closing,
                      NEW s \in DOMAIN sessions, NEW t \in DOMAIN sessions, s # t
               PROVE  sessions[s].baseURL # sessions[t].baseURL
    BY DEF NoSharedAgent
  <2>1. /\ sessions[s].claimName \in Claims /\ sessions[t].claimName \in Claims
        /\ sessions[s].baseURL \in IPs
    BY DEF TypeOK, Entry
  <2>2. sessions[s].claimName # sessions[t].claimName
    BY DEF OneOwner
  <2> QED BY <2>1, <2>2, ProviderAssumption DEF Addressed
<1> QED BY <1>1, <1>2, <1>3, PTL DEF Spec

-----------------------------------------------------------------------------
(* Streams *)

\* A stream's sandbox is in the map and was seen no earlier than the stream
\* began, or its entry was overwritten; then nothing deletes it but Close.
StreamsHeld ==
  /\ released = {}
  /\ \A r \in DOMAIN req : req[r].at = "streaming" =>
       \/ \E s \in DOMAIN sessions : /\ sessions[s].claimName = req[r].claim
                                     /\ sessions[s].idle <= req[r].age
       \/ req[r].claim \in raced /\ (req[r].claim \in Live \/ Closing)

LEMMA StreamStep ==
  ASSUME MaxStream <= IdleTTL, ~CallsRelease
  PROVE  TypeOK /\ OneOwner /\ StreamsHeld /\ [Next]_vars => StreamsHeld'
<1> SUFFICES ASSUME TypeOK, OneOwner, StreamsHeld, [Next]_vars PROVE StreamsHeld'
  OBVIOUS
<1> USE MaxStream <= IdleTTL, ~CallsRelease, ProviderAssumption
<1> USE DEF StreamsHeld, Closing, procVars
<1>1. ASSUME NEW r \in Requests, NEW s \in Sessions, AcquireHit(r, s) PROVE StreamsHeld'
  <2>1. /\ DOMAIN sessions' = DOMAIN sessions /\ s \in DOMAIN sessions
        /\ sessions'[s].idle = 0 /\ sessions'[s].claimName = sessions[s].claimName
        /\ \A t \in DOMAIN sessions : t # s => sessions'[t] = sessions[t]
    BY <1>1 DEF AcquireHit, Seen, Known, TypeOK, Entry
  <2>2. /\ DOMAIN req' = DOMAIN req \cup {r}
        /\ req'[r].claim = sessions[s].claimName /\ req'[r].age = 0
        /\ \A q \in DOMAIN req : q # r => req'[q] = req[q]
    BY <1>1 DEF AcquireHit, Seen, Known, Put
  <2>3. \A q \in DOMAIN req : req[q].age \in Nat
    BY DEF TypeOK, Handler
  <2>4. UNCHANGED <<released, raced, phase, Live>>
    BY <1>1 DEF AcquireHit, Seen, Known, clusterVars, historyVars, Live
  <2>5. \A q \in DOMAIN req : \A t \in DOMAIN sessions :
          sessions[t].idle <= req[q].age => sessions'[t].idle <= req[q].age
    BY <2>1, <2>3
  <2>6. \A t \in DOMAIN sessions : sessions'[t].claimName = sessions[t].claimName
    BY <2>1
  <2> QED BY <2>1, <2>2, <2>4, <2>5, <2>6
<1>2. ASSUME NEW r \in Requests, NEW s \in Sessions, AcquireMiss(r, s) PROVE StreamsHeld'
  <2>1. \A q \in DOMAIN req' : req'[q].at = "streaming" => q \in DOMAIN req /\ req'[q] = req[q]
    BY <1>2 DEF AcquireMiss, Known, Put
  <2> QED BY <1>2, <2>1 DEF AcquireMiss, Known, clusterVars, historyVars, Live
<1>3. ASSUME NEW r \in Requests, NEW c \in Claims, NEW ip \in IPs \cup {None},
             CreateReturns(r, c, ip)
      PROVE  StreamsHeld'
  <2>1. /\ req' = [req EXCEPT ![r] =
                    [req[r] EXCEPT !.at = IF ip = None THEN "discarding" ELSE "created",
                                   !.claim = c, !.baseURL = ip]]
        /\ r \in DOMAIN req /\ req[r] \in Handler
    BY <1>3 DEF CreateReturns, ClaimFor, HasAddress, TypeOK, Handler
  <2>2. \A q \in DOMAIN req' : req'[q].at = "streaming" => q \in DOMAIN req /\ req'[q] = req[q]
    BY <2>1 DEF Handler
  <2>3. Live \subseteq Live'
    BY <1>3 DEF CreateReturns, ClaimFor, HasAddress, Live, TypeOK
  <2> QED BY <1>3, <2>2, <2>3 DEF CreateReturns, ClaimFor, HasAddress, historyVars
<1>4. ASSUME NEW r \in Requests, CreateFails(r) \/ StreamEnds(r) PROVE StreamsHeld'
  BY <1>4 DEF CreateFails, StreamEnds, Without, clusterVars, historyVars, Live
<1>5. ASSUME NEW r \in Requests, Discard(r) PROVE StreamsHeld'
  <2>1. /\ DOMAIN req' = DOMAIN req \ {r} /\ UNCHANGED <<sessions, raced, released, phase>>
        /\ \A q \in DOMAIN req' : req'[q] = req[q]
    BY <1>5 DEF Discard, Without
  <2>2. r \in DOMAIN req /\ Holding(r) /\ req[r].claim \in Claims
    BY <1>5 DEF Discard, Holding, TypeOK, HoldsWhatItShould
  <2>3. \A d \in Claims : d # req[r].claim => cluster'[d] = cluster[d]
    BY <1>5, <2>2, DeleteFrame DEF Discard
  <2>4. raced \cap Live \subseteq Live'
    BY <2>2, <2>3 DEF OneOwner, Live
  <2> QED BY <2>1, <2>4
<1>6. ASSUME NEW r \in Requests, Store(r) PROVE StreamsHeld'
  <2> DEFINE s == req[r].session
  <2>1. /\ r \in DOMAIN req /\ req[r].at = "created"
        /\ DOMAIN req' = DOMAIN req
        /\ req'[r].claim = req[r].claim /\ req'[r].age = req[r].age
        /\ \A q \in DOMAIN req : q # r => req'[q] = req[q]
    BY <1>6 DEF Store, TypeOK, Handler
  <2>2. /\ DOMAIN sessions' = DOMAIN sessions \cup {s}
        /\ sessions'[s].claimName = req[r].claim
        /\ sessions'[s].idle = 0
        /\ \A t \in DOMAIN sessions : t # s => sessions'[t] = sessions[t]
    BY <1>6 DEF Store, Put
  <2>3. /\ raced' = raced \cup (IF s \in DOMAIN sessions
                                THEN {sessions[s].claimName} ELSE {})
        /\ UNCHANGED <<released, phase, Live>>
    BY <1>6 DEF Store, clusterVars, Live
  <2> HIDE DEF s
  <2>4. \A t \in DOMAIN sessions : sessions[t].claimName \in Live \/ Closing
    BY DEF OneOwner, EntryBacked
  <2>5. req[r].age \in Nat
    BY <2>1 DEF TypeOK, Handler
  <2> QED BY <2>1, <2>2, <2>3, <2>4, <2>5
<1>7. CASE Reap
  <2> DEFINE old == {s \in DOMAIN sessions : Expired(s)}
  <2>1. /\ DOMAIN sessions' = DOMAIN sessions \ old
        /\ \A t \in DOMAIN sessions' : sessions'[t] = sessions[t]
        /\ UNCHANGED <<req, released, raced, phase, Live>>
    BY <1>7 DEF Reap, Collected, Kept, Without, clusterVars, historyVars, Live
  <2>2. ASSUME NEW q \in DOMAIN req, NEW s \in DOMAIN sessions,
               sessions[s].idle <= req[q].age
        PROVE  s \notin old
    <3>1. req[q].age \in 0..MaxStream /\ sessions[s].idle \in 0..(IdleTTL + 1)
      BY DEF TypeOK, Handler, Entry
    <3> QED BY <2>2, <3>1 DEF Expired
  <2> QED BY <2>1, <2>2
<1>8. ASSUME NEW s \in Sessions, Release(s) PROVE StreamsHeld'
  BY <1>8 DEF Release
<1>9. ASSUME NEW c \in Claims, DeleteClaim(c) PROVE StreamsHeld'
  <2>1. \A d \in Claims : d # c => cluster'[d] = cluster[d]
    BY <1>9, DeleteFrame DEF DeleteClaim
  <2>2. /\ UNCHANGED <<sessions, req, raced, phase>> /\ released' = {}
        /\ c \in Condemned
    BY <1>9 DEF DeleteClaim, Condemned
  <2>3. raced \cap Live \subseteq Live'
    BY <2>1, <2>2 DEF OneOwner, Live
  <2> QED BY <2>2, <2>3
<1>10. ASSUME NEW c \in Claims, PodFails(c) PROVE StreamsHeld'
  BY <1>10 DEF PodFails, brokerVars, historyVars, Live
<1>11. CASE Stop \/ \E list \in SUBSET Claims : CloseLists(list)
  BY <1>11 DEF Stop, Serving, CloseLists, clusterVars, historyVars, Live
<1>12. ASSUME NEW born \in SUBSET Claims, Exits(born) \/ Crash(born) PROVE StreamsHeld'
  BY <1>12 DEF Exits, Crash, Restart
<1>13. CASE Tick
  <2>1. /\ DOMAIN sessions' = DOMAIN sessions /\ DOMAIN req' = DOMAIN req
        /\ \A t \in DOMAIN sessions :
             /\ sessions'[t].claimName = sessions[t].claimName
             /\ sessions'[t].idle <= sessions[t].idle + 1
             /\ sessions[t].idle \in Nat /\ sessions'[t].idle \in Nat
        /\ \A q \in DOMAIN req :
             /\ req'[q].at = req[q].at /\ req'[q].claim = req[q].claim
             /\ req[q].at = "streaming" => req'[q].age = req[q].age + 1
             /\ req[q].age \in Nat
    BY <1>13 DEF Tick, TypeOK, Entry, Handler
  <2>2. \A q \in DOMAIN req : \A t \in DOMAIN sessions :
          req[q].at = "streaming" /\ sessions[t].idle <= req[q].age
            => sessions'[t].idle <= req'[q].age
    BY <2>1
  <2>3. UNCHANGED <<released, raced, phase, Live>>
    BY <1>13 DEF Tick, clusterVars, historyVars, Live
  <2> QED BY <2>1, <2>2, <2>3
<1>14. CASE UNCHANGED vars
  BY <1>14 DEF vars, Live
<1>15. ASSUME NEW r \in Requests, NEW c \in Claims, NEW ip \in IPs \cup {None},
              CreateOrphans(r, c, ip)
       PROVE  StreamsHeld'
  <2>1. Live \subseteq Live'
    BY <1>15 DEF CreateOrphans, ClaimFor, Live, TypeOK
  <2> QED BY <1>15, <2>1 DEF CreateOrphans, Without
<1>16. ASSUME NEW c \in Claims, CloseDeletes(c) PROVE StreamsHeld'
  BY <1>16 DEF CloseDeletes, OneOwner
<1> QED
  BY <1>1, <1>2, <1>3, <1>4, <1>5, <1>6, <1>7, <1>8, <1>9, <1>10, <1>11, <1>12,
     <1>13, <1>14, <1>15, <1>16 DEF Next

\* When no stream outlasts the idle TTL and nobody calls Release, no deletion
\* but Close's takes the sandbox of a stream in progress, races included.
THEOREM StreamsNotCut ==
  MaxStream <= IdleTTL /\ ~CallsRelease => (Spec => []StreamNotCut)
<1> SUFFICES ASSUME MaxStream <= IdleTTL, ~CallsRelease PROVE Spec => []StreamNotCut
  OBVIOUS
<1>1. Init => TypeOK /\ OneOwner /\ StreamsHeld
  BY TypeInit, OwnerInit DEF Init, StreamsHeld
<1>2. TypeOK /\ OneOwner /\ StreamsHeld /\ [Next]_vars
        => (TypeOK /\ OneOwner /\ StreamsHeld)'
  BY TypeStep, OwnerStep, StreamStep
<1>3. OneOwner /\ StreamsHeld => StreamNotCut
  BY DEF OneOwner, EntryBacked, StreamsHeld, StreamNotCut
<1> QED BY <1>1, <1>2, <1>3, PTL DEF Spec

-----------------------------------------------------------------------------
(* The session map implements AgentAssignment *)

\* A step that gives no session an agent, and reuses no agent, is a Retire.
LEMMA RetireStep ==
  ASSUME \A s \in Sessions : AgentOf'[s] \in {AgentOf[s], None},
         Spent \subseteq Spent'
  PROVE  Assignment!Next
<1> DEFINE S == {s \in Sessions : AgentOf'[s] = None}
<1>1. AgentOf' = [s \in Sessions |-> IF s \in S THEN None ELSE AgentOf[s]]
  BY DEF AgentOf
<1>2. Spent' = Spent \cup Spent' /\ Spent' \in SUBSET Claims
  BY DEF Spent
<1>3. S \in SUBSET Sessions
  OBVIOUS
<1>4. Assignment!Retire(S, Spent')
  BY <1>1, <1>2 DEF Assignment!Retire
<1> QED BY <1>2, <1>3, <1>4 DEF Assignment!Next

\* Taking entries away only takes agents away.
LEMMA FewerEntries ==
  ASSUME DOMAIN sessions' \subseteq DOMAIN sessions,
         \A s \in DOMAIN sessions' : sessions'[s].claimName = sessions[s].claimName
  PROVE  \A s \in Sessions : AgentOf'[s] \in {AgentOf[s], None}
BY DEF AgentOf

\* No created sandbox comes out of use, and none moves into a handler's hands
\* that was in use before.
LEMMA SpentGrows ==
  ASSUME \A c \in Claims : cluster'[c] = "unused" => cluster[c] = "unused",
         \A r \in DOMAIN req' : req'[r].at = "created" =>
           \/ r \in DOMAIN req /\ req[r].at = "created" /\ req'[r].claim = req[r].claim
           \/ req'[r].claim \in Claims /\ cluster[req'[r].claim] = "unused"
  PROVE  Spent \subseteq Spent'
BY DEF Spent

LEMMA AssignmentStep ==
  ASSUME SerialClients, TypeOK, OneOwner, OneAtATime, [Next]_vars
  PROVE  [Assignment!Next]_(Assignment!vars)
<1> USE ProviderAssumption
<1>1. ASSUME NEW r \in Requests, NEW s \in Sessions, AcquireHit(r, s) \/ AcquireMiss(r, s)
      PROVE  Assignment!Next
  <2>1. /\ DOMAIN sessions' = DOMAIN sessions
        /\ \A t \in DOMAIN sessions : sessions'[t].claimName = sessions[t].claimName
        /\ cluster' = cluster
    BY <1>1 DEF AcquireHit, Seen, Known, AcquireMiss, TypeOK, Entry, clusterVars
  <2>2. \A q \in DOMAIN req' : req'[q].at = "created" => q \in DOMAIN req /\ req'[q] = req[q]
    BY <1>1 DEF AcquireHit, Seen, Known, AcquireMiss, Put
  <2> QED BY <2>1, <2>2, FewerEntries, SpentGrows, RetireStep
<1>2. ASSUME NEW r \in Requests, NEW c \in Claims, NEW ip \in IPs \cup {None},
             CreateReturns(r, c, ip)
      PROVE  Assignment!Next
  <2>1. /\ req' = [req EXCEPT ![r] =
                    [req[r] EXCEPT !.at = IF ip = None THEN "discarding" ELSE "created",
                                   !.claim = c, !.baseURL = ip]]
        /\ r \in DOMAIN req /\ req[r] \in Handler
    BY <1>2 DEF CreateReturns, ClaimFor, HasAddress, TypeOK, Handler
  <2>2. /\ DOMAIN req' = DOMAIN req /\ req'[r].claim = c
        /\ \A q \in DOMAIN req : q # r => req'[q] = req[q]
    BY <2>1 DEF Handler
  <2>3. /\ cluster[c] = "unused" /\ sessions' = sessions
        /\ \A d \in Claims : cluster'[d] = "unused" => cluster[d] = "unused"
    BY <1>2 DEF CreateReturns, ClaimFor, HasAddress, TypeOK
  <2> QED BY <2>2, <2>3, FewerEntries, SpentGrows, RetireStep
<1>3. ASSUME NEW r \in Requests,
             \/ CreateFails(r) \/ Discard(r) \/ StreamEnds(r)
             \/ \E c \in Claims, ip \in IPs \cup {None} : CreateOrphans(r, c, ip)
      PROVE  Assignment!Next
  <2>1. sessions' = sessions /\ req' = Without(req, {r})
    BY <1>3 DEF CreateFails, CreateOrphans, Discard, StreamEnds
  <2>2. \A d \in Claims : cluster'[d] = "unused" => cluster[d] = "unused"
    <3>1. CASE Discard(r)
      <4>1. req[r].claim \in Claims /\ DeleteSandbox(req[r].claim)
        BY <3>1 DEF Discard, TypeOK, HoldsWhatItShould
      <4> QED BY <4>1, DeleteFrame
    <3>2. CASE CreateFails(r) \/ StreamEnds(r)
      BY <3>2 DEF CreateFails, StreamEnds, clusterVars
    <3>3. CASE \E c \in Claims, ip \in IPs \cup {None} : CreateOrphans(r, c, ip)
      BY <3>3 DEF CreateOrphans, ClaimFor, TypeOK
    <3> QED BY <1>3, <3>1, <3>2, <3>3
  <2>3. \A q \in DOMAIN req' : q \in DOMAIN req /\ req'[q] = req[q]
    BY <2>1 DEF Without
  <2> QED BY <2>1, <2>2, <2>3, FewerEntries, SpentGrows, RetireStep
<1>4. ASSUME NEW r \in Requests, Store(r) PROVE Assignment!Next
  <2> DEFINE s == req[r].session
             c == req[r].claim
  <2>1. /\ r \in DOMAIN req /\ req[r].at = "created"
        /\ DOMAIN req' = DOMAIN req
        /\ req'[r].at = "streaming"
        /\ \A q \in DOMAIN req : q # r => req'[q] = req[q]
    BY <1>4 DEF Store, TypeOK, Handler
  <2>2. s \in Sessions /\ s \notin DOMAIN sessions /\ c \in Claims /\ cluster[c] # "unused"
    BY <2>1 DEF TypeOK, Handler, HoldsWhatItShould, OneAtATime, OneOwner, Holding
  <2>3. /\ DOMAIN sessions' = DOMAIN sessions \cup {s}
        /\ sessions'[s].claimName = c
        /\ \A t \in DOMAIN sessions : sessions'[t] = sessions[t]
        /\ cluster' = cluster
    BY <1>4, <2>2 DEF Store, Put, clusterVars
  <2>4. \A q \in DOMAIN req : q # r /\ req[q].at = "created" => req[q].claim # c
    BY <2>1 DEF OneOwner, Holding
  <2> HIDE DEF s, c
  <2>5. AgentOf[s] = None /\ AgentOf' = [AgentOf EXCEPT ![s] = c]
    BY <2>2, <2>3 DEF AgentOf
  <2>6. c \in Claims \ Spent
    BY <2>1, <2>2 DEF Spent, c
  <2>7. Spent' = Spent \cup {c}
    BY <2>1, <2>2, <2>3, <2>4 DEF Spent, c
  <2>8. Assignment!Assign(s, c)
    BY <2>5, <2>6, <2>7 DEF Assignment!Assign
  <2> QED BY <2>2, <2>8 DEF Assignment!Next
<1>5. ASSUME Reap \/ \E s \in Sessions : Release(s) PROVE Assignment!Next
  <2>1. PICK S : sessions' = Without(sessions, S)
    BY <1>5 DEF Reap, Collected, Kept, Release
  <2>2. req' = req /\ cluster' = cluster
    BY <1>5 DEF Reap, Collected, Kept, Release, clusterVars
  <2>3. /\ DOMAIN sessions' \subseteq DOMAIN sessions
        /\ \A t \in DOMAIN sessions' : sessions'[t].claimName = sessions[t].claimName
    BY <2>1 DEF Without
  <2> QED BY <2>2, <2>3, FewerEntries, SpentGrows, RetireStep
<1>6. ASSUME NEW c \in Claims, DeleteClaim(c) \/ CloseDeletes(c) PROVE Assignment!Next
  <2>1. \A d \in Claims : cluster'[d] = "unused" => cluster[d] = "unused"
    BY <1>6, DeleteFrame DEF DeleteClaim, CloseDeletes
  <2>2. sessions' = sessions /\ req' = req
    BY <1>6 DEF DeleteClaim, CloseDeletes
  <2> QED BY <2>1, <2>2, FewerEntries, SpentGrows, RetireStep
<1>7. ASSUME (\E c \in Claims : PodFails(c)) \/ Stop \/ (\E list \in SUBSET Claims : CloseLists(list))
      PROVE  Assignment!Next
  <2>1. sessions' = sessions /\ req' = req /\ cluster' = cluster
    BY <1>7 DEF PodFails, Stop, CloseLists, brokerVars, clusterVars
  <2> QED BY <2>1, FewerEntries, SpentGrows, RetireStep
<1>8. ASSUME NEW born \in SUBSET Claims, Exits(born) \/ Crash(born) PROVE Assignment!Next
  <2>1. DOMAIN sessions' = {} /\ DOMAIN req' = {}
    BY <1>8 DEF Exits, Crash, Restart
  <2>2. \A d \in Claims : cluster'[d] = "unused" => cluster[d] = "unused"
    BY <1>8 DEF Exits, Crash, BornLate, TypeOK
  <2> QED BY <2>1, <2>2, FewerEntries, SpentGrows, RetireStep
<1>9. CASE Tick
  <2>1. /\ DOMAIN sessions' = DOMAIN sessions /\ DOMAIN req' = DOMAIN req
        /\ \A t \in DOMAIN sessions : sessions'[t].claimName = sessions[t].claimName
        /\ \A q \in DOMAIN req : req'[q].at = req[q].at /\ req'[q].claim = req[q].claim
        /\ cluster' = cluster
    BY <1>9 DEF Tick, TypeOK, Entry, Handler, clusterVars
  <2> QED BY <2>1, FewerEntries, SpentGrows, RetireStep
<1>10. CASE UNCHANGED vars
  BY <1>10 DEF vars, Assignment!vars, AgentOf, Spent
<1> QED
  BY <1>1, <1>2, <1>3, <1>4, <1>5, <1>6, <1>7, <1>8, <1>9, <1>10 DEF Next

\* With serial clients the session map implements AgentAssignment: one agent
\* for a session until it is retired, one session for an agent ever.
THEOREM AssignmentImplemented == SerialClients => (Spec => ImplementsAssignment)
<1> SUFFICES ASSUME SerialClients PROVE Spec => ImplementsAssignment
  OBVIOUS
<1>1. Init => TypeOK /\ OneOwner /\ OneAtATime
  BY TypeInit, OwnerInit DEF Init, OneAtATime
<1>2. TypeOK /\ OneOwner /\ OneAtATime /\ [Next]_vars
        => (TypeOK /\ OneOwner /\ OneAtATime)'
  BY TypeStep, OwnerStep, OneAtATimeStep
<1>3. Init => Assignment!Init
  BY DEF Init, Assignment!Init, AgentOf, Spent
<1>4. TypeOK /\ OneOwner /\ OneAtATime /\ [Next]_vars
        => [Assignment!Next]_(Assignment!vars)
  BY AssignmentStep
<1> QED
  BY <1>1, <1>2, <1>3, <1>4, PTL DEF Spec, ImplementsAssignment, Assignment!Spec
==============================================================================
