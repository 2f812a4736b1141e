------------------------ MODULE SandboxProviderProofs ------------------------
(***************************************************************************)
(* Proofs about SandboxProvider, for every number of sessions, requests,   *)
(* claims and addresses and every value of the bounds.                     *)
(***************************************************************************)
EXTENDS SandboxProvider, TLAPS

-----------------------------------------------------------------------------
(* Type correctness *)

\* The type of req, by itself: what the steps below show of it.
ReqOK(rq) ==
  /\ DOMAIN rq \subseteq Requests
  /\ rq \in [DOMAIN rq -> Handler]
  /\ \A r \in DOMAIN rq : HoldsWhatItShould(rq[r])

\* A handler that arrives or moves on to a proper state leaves req typed.
LEMMA ReqPut ==
  ASSUME NEW rq, ReqOK(rq), NEW r \in Requests, NEW h \in Handler,
         HoldsWhatItShould(h)
  PROVE  ReqOK(Put(rq, r, h))
BY DEF ReqOK, Put

\* So does one that leaves.
LEMMA ReqWithout ==
  ASSUME NEW rq, ReqOK(rq), NEW S
  PROVE  ReqOK(Without(rq, S))
BY DEF ReqOK, Without

LEMMA ReqUpdate ==
  ASSUME NEW rq, ReqOK(rq), NEW r \in DOMAIN rq, NEW h \in Handler,
         HoldsWhatItShould(h)
  PROVE  ReqOK([rq EXCEPT ![r] = h])
BY DEF ReqOK

LEMMA TypeInit == Init => TypeOK
BY DEF Init, TypeOK, Entry, Handler, Phase

\* A deletion, successful or not, keeps the cluster's variables typed.
LEMMA TypeDelete ==
  ASSUME TypeOK, NEW c \in Claims, DeleteSandbox(c)
  PROVE  /\ cluster' \in [Claims -> {"unused", "live", "deleted"}]
         /\ podIP' \in [Claims -> IPs \cup {None}]
         /\ undeleted' \subseteq Claims
BY DEF TypeOK, DeleteSandbox, ClusterDelete, clusterVars

LEMMA TypeStep == TypeOK /\ [Next]_vars => TypeOK'
<1> SUFFICES ASSUME TypeOK, [Next]_vars PROVE TypeOK'
  OBVIOUS
<1> USE ProviderAssumption
<1>0. ReqOK(req)
  BY DEF TypeOK, ReqOK
<1>1. ASSUME NEW r \in Requests, NEW s \in Sessions, AcquireHit(r, s)
      PROVE  TypeOK'
  <2> DEFINE h == [at |-> "streaming", session |-> s,
                   claim |-> sessions[s].claimName,
                   baseURL |-> sessions[s].baseURL, age |-> 0]
  <2>1. s \in DOMAIN sessions /\ sessions[s] \in Entry
    BY <1>1 DEF AcquireHit, Seen, Known, TypeOK
  <2>2. h \in Handler /\ HoldsWhatItShould(h)
    BY <2>1 DEF Handler, Entry, HoldsWhatItShould
  <2>3. DOMAIN sessions' = DOMAIN sessions /\ sessions' \in [DOMAIN sessions -> Entry]
    <3>1. sessions' = [sessions EXCEPT ![s].idle = 0]
      BY <1>1 DEF AcquireHit, Seen, Known
    <3>2. [sessions[s] EXCEPT !.idle = 0] \in Entry
      BY <2>1 DEF Entry
    <3> QED BY <3>1, <3>2, <2>1 DEF TypeOK
  <2>4. req' = Put(req, r, h)
    BY <1>1 DEF AcquireHit, Seen, Known
  <2> HIDE DEF h
  <2>5. ReqOK(req')
    BY <1>0, <2>2, <2>4, ReqPut
  <2> QED BY <1>1, <2>3, <2>5 DEF AcquireHit, Seen, Known, TypeOK, ReqOK, procVars, clusterVars, historyVars
<1>2. ASSUME NEW r \in Requests, NEW s \in Sessions, AcquireMiss(r, s)
      PROVE  TypeOK'
  <2> DEFINE h == [at |-> "creating", session |-> s, claim |-> None,
                   baseURL |-> None, age |-> 0]
  <2>1. h \in Handler /\ HoldsWhatItShould(h)
    BY DEF Handler, HoldsWhatItShould
  <2>2. req' = Put(req, r, h)
    BY <1>2 DEF AcquireMiss, Known
  <2> HIDE DEF h
  <2>3. ReqOK(req')
    BY <1>0, <2>1, <2>2, ReqPut
  <2> QED BY <1>2, <2>3 DEF AcquireMiss, Known, TypeOK, ReqOK, procVars, clusterVars, historyVars
<1>3. ASSUME NEW r \in Requests, NEW c \in Claims, NEW ip \in IPs \cup {None},
             CreateReturns(r, c, ip)
      PROVE  TypeOK'
  <2> DEFINE h == [req[r] EXCEPT !.at = IF ip = None THEN "discarding" ELSE "created",
                                 !.claim = c, !.baseURL = ip]
  <2>1. r \in DOMAIN req /\ req[r] \in Handler
    BY <1>3 DEF CreateReturns, ClaimFor, HasAddress, TypeOK
  <2>2. req' = [req EXCEPT ![r] = h]
    BY <1>3, <2>1 DEF CreateReturns, ClaimFor, HasAddress, TypeOK, Handler
  <2>3. h \in Handler /\ HoldsWhatItShould(h)
    BY <2>1 DEF Handler, HoldsWhatItShould
  <2> HIDE DEF h
  <2>4. ReqOK(req')
    BY <1>0, <2>1, <2>2, <2>3, ReqUpdate
  <2> QED BY <1>3, <2>4 DEF CreateReturns, ClaimFor, HasAddress, TypeOK, ReqOK, procVars
<1>4. ASSUME NEW r \in Requests, CreateFails(r) PROVE TypeOK'
  <2>1. ReqOK(req')
    BY <1>0, <1>4, ReqWithout DEF CreateFails
  <2> QED BY <1>4, <2>1 DEF CreateFails, TypeOK, ReqOK, procVars, clusterVars, historyVars
<1>5. ASSUME NEW r \in Requests, Discard(r) PROVE TypeOK'
  <2>1. ReqOK(req')
    BY <1>0, <1>5, ReqWithout DEF Discard
  <2>2. req[r].claim \in Claims
    BY <1>5 DEF Discard, TypeOK, HoldsWhatItShould
  <2>3. DeleteSandbox(req[r].claim)
    BY <1>5 DEF Discard
  <2> QED BY <1>5, <2>1, <2>2, <2>3, TypeDelete DEF Discard, TypeOK, ReqOK, procVars
<1>6. ASSUME NEW r \in Requests, Store(r) PROVE TypeOK'
  <2> DEFINE s == req[r].session
             e == [claimName |-> req[r].claim, baseURL |-> req[r].baseURL, idle |-> 0]
             h == [req[r] EXCEPT !.at = "streaming"]
  <2>1. /\ r \in DOMAIN req /\ req[r] \in Handler
        /\ s \in Sessions /\ req[r].claim \in Claims /\ req[r].baseURL \in IPs
    BY <1>6 DEF Store, TypeOK, Handler, HoldsWhatItShould
  <2>2. /\ sessions' = Put(sessions, s, e)
        /\ req' = [req EXCEPT ![r] = h]
    BY <1>6, <2>1 DEF Store
  <2>3. e \in Entry
    BY <2>1 DEF Entry
  <2>4. h \in Handler /\ HoldsWhatItShould(h)
    BY <2>1 DEF Handler, HoldsWhatItShould
  <2>5. raced' \subseteq Claims
    BY <1>6 DEF Store, TypeOK, Entry
  <2> HIDE DEF s, e, h
  <2>6. DOMAIN sessions' \subseteq Sessions /\ sessions' \in [DOMAIN sessions' -> Entry]
    BY <2>1, <2>2, <2>3 DEF TypeOK, Put
  <2>7. ReqOK(req')
    BY <1>0, <2>1, <2>2, <2>4, ReqUpdate
  <2> QED BY <1>6, <2>5, <2>6, <2>7 DEF Store, TypeOK, ReqOK, procVars, clusterVars
<1>7. ASSUME NEW r \in Requests, StreamEnds(r) PROVE TypeOK'
  <2>1. ReqOK(req')
    BY <1>0, <1>7, ReqWithout DEF StreamEnds
  <2> QED BY <1>7, <2>1 DEF StreamEnds, TypeOK, ReqOK, procVars, clusterVars, historyVars
<1>8. CASE Reap
  <2>1. /\ DOMAIN sessions' \subseteq Sessions
        /\ sessions' \in [DOMAIN sessions' -> Entry]
        /\ stale' \subseteq Claims
    BY <1>8 DEF Reap, Collected, Kept, TypeOK, Without, Entry
  <2> QED BY <1>8, <2>1 DEF Reap, Collected, Kept, TypeOK, procVars, clusterVars, historyVars
<1>9. ASSUME NEW s \in Sessions, Release(s) PROVE TypeOK'
  <2>1. /\ DOMAIN sessions' \subseteq Sessions
        /\ sessions' \in [DOMAIN sessions' -> Entry]
        /\ released' \subseteq Claims
    BY <1>9 DEF Release, TypeOK, Without, Entry
  <2> QED BY <1>9, <2>1 DEF Release, TypeOK, procVars, clusterVars, historyVars
<1>10. ASSUME NEW c \in Claims, DeleteClaim(c) PROVE TypeOK'
  <2>1. DeleteSandbox(c)
    BY <1>10 DEF DeleteClaim
  <2> QED BY <1>10, <2>1, TypeDelete DEF DeleteClaim, TypeOK, procVars
<1>11. ASSUME NEW c \in Claims, PodFails(c) PROVE TypeOK'
  BY <1>11 DEF PodFails, TypeOK, brokerVars, procVars, historyVars
<1>12. CASE Stop
  BY <1>12 DEF Stop, TypeOK, Phase, clusterVars, historyVars
<1>13. ASSUME NEW list \in SUBSET Claims, CloseLists(list) PROVE TypeOK'
  BY <1>13 DEF CloseLists, TypeOK, Phase, clusterVars, historyVars
<1>14. ASSUME NEW born \in SUBSET Claims, Exits(born) \/ Crash(born) PROVE TypeOK'
  <2>1. cluster' \in [Claims -> {"unused", "live", "deleted"}] /\ podIP' = podIP
    BY <1>14 DEF Exits, Crash, BornLate, TypeOK
  <2> QED BY <1>14, <2>1 DEF Exits, Crash, Restart, TypeOK, Phase, Live
<1>15. CASE Tick
  <2>1. DOMAIN sessions' = DOMAIN sessions /\ sessions' \in [DOMAIN sessions -> Entry]
    BY <1>15 DEF Tick, TypeOK, Entry
  <2>2. DOMAIN req' = DOMAIN req
    BY <1>15 DEF Tick
  <2>3. ASSUME NEW r \in DOMAIN req PROVE req'[r] \in Handler /\ HoldsWhatItShould(req'[r])
    <3>1. req[r] \in Handler /\ HoldsWhatItShould(req[r])
      BY DEF TypeOK
    <3>2. CASE req[r].at = "streaming"
      <4>1. req'[r] = [req[r] EXCEPT !.age = @ + 1] /\ req[r].age < MaxStream
        BY <1>15, <3>2 DEF Tick
      <4> QED BY <3>1, <4>1 DEF Handler, HoldsWhatItShould
    <3>3. CASE req[r].at # "streaming"
      BY <1>15, <3>1, <3>3 DEF Tick
    <3> QED BY <3>2, <3>3
  <2>4. req' \in [DOMAIN req -> Handler]
    BY <1>15, <2>3 DEF Tick
  <2> QED BY <1>15, <2>1, <2>2, <2>3, <2>4 DEF Tick, TypeOK, procVars, clusterVars, historyVars
<1>16. CASE UNCHANGED vars
  BY <1>16 DEF vars, TypeOK
<1>17. ASSUME NEW r \in Requests, NEW c \in Claims, NEW ip \in IPs \cup {None},
              CreateOrphans(r, c, ip)
       PROVE  TypeOK'
  <2>1. ReqOK(req')
    BY <1>0, <1>17, ReqWithout DEF CreateOrphans
  <2> QED BY <1>17, <2>1 DEF CreateOrphans, ClaimFor, TypeOK, ReqOK, procVars
<1>18. ASSUME NEW c \in Claims, CloseDeletes(c) PROVE TypeOK'
  <2>1. DeleteSandbox(c)
    BY <1>18 DEF CloseDeletes
  <2> QED BY <1>18, <2>1, TypeDelete DEF CloseDeletes, TypeOK
<1> QED
  BY <1>1, <1>2, <1>3, <1>4, <1>5, <1>6, <1>7, <1>8, <1>9, <1>10, <1>11, <1>12,
     <1>13, <1>14, <1>15, <1>16, <1>17, <1>18 DEF Next

\* Every variable keeps its type and every handler holds exactly what its
\* place in Acquire has given it so far: in particular no entry is stored
\* without an address.
THEOREM TypeCorrect == Spec => []TypeOK
BY TypeInit, TypeStep, PTL DEF Spec

-----------------------------------------------------------------------------
(* Ownership of the sandboxes *)

Holding(r) == req[r].at \in {"created", "discarding"}

\* Every sandbox has at most one owner: an entry of the map, a handler that
\* has just created it, or a deletion. An overwritten one has none. None of
\* them was never created, and until Close runs, those owned are there.
OneOwner ==
  /\ EntryBacked
  /\ \A s \in DOMAIN sessions :
       /\ sessions[s].claimName \notin raced
       /\ cluster[sessions[s].claimName] # "unused"
  /\ \A s, t \in DOMAIN sessions :
       s # t => sessions[s].claimName # sessions[t].claimName
  /\ \A r \in DOMAIN req : Holding(r) =>
       /\ req[r].claim \in Live \/ Closing
       /\ cluster[req[r].claim] # "unused"
       /\ req[r].claim \notin Condemned \cup raced
       /\ \A s \in DOMAIN sessions : sessions[s].claimName # req[r].claim
  /\ \A r, q \in DOMAIN req :
       r # q /\ Holding(r) /\ Holding(q) => req[r].claim # req[q].claim
  /\ \A c \in Condemned \cup raced \cup doomed : cluster[c] # "unused"
  /\ Condemned \cap raced = {}
  /\ doomed # {} => Closing

\* Whether or not a deletion succeeds, other claims keep their state and none
\* becomes unused.
LEMMA DeleteFrame ==
  ASSUME TypeOK, NEW c \in Claims, DeleteSandbox(c)
  PROVE  /\ \A d \in Claims : d # c => cluster'[d] = cluster[d]
         /\ \A d \in Claims : cluster'[d] = "unused" => cluster[d] = "unused"
BY DEF DeleteSandbox, ClusterDelete, clusterVars, TypeOK

LEMMA OwnerInit == Init => OneOwner
BY DEF Init, OneOwner, EntryBacked, Condemned, Closing

LEMMA OwnerStep == TypeOK /\ OneOwner /\ [Next]_vars => OneOwner'
<1> SUFFICES ASSUME TypeOK, OneOwner, [Next]_vars PROVE OneOwner'
  OBVIOUS
<1> USE ProviderAssumption
<1> USE DEF Live, Condemned, Holding, OneOwner, EntryBacked, Closing, procVars
<1>1. ASSUME NEW r \in Requests, NEW s \in Sessions, AcquireHit(r, s)
      PROVE  OneOwner'
  <2>1. DOMAIN sessions' = DOMAIN sessions
    BY <1>1 DEF AcquireHit, Seen, Known
  <2>2. \A t \in DOMAIN sessions : sessions'[t].claimName = sessions[t].claimName
    BY <1>1 DEF AcquireHit, Seen, Known, TypeOK, Entry
  <2>3. \A q \in DOMAIN req' : Holding(q)' => q \in DOMAIN req /\ req'[q] = req[q]
    BY <1>1 DEF AcquireHit, Seen, Known, Put
  <2> QED BY <1>1, <2>1, <2>2, <2>3 DEF AcquireHit, Seen, Known, procVars, clusterVars, historyVars
<1>2. ASSUME NEW r \in Requests, NEW s \in Sessions, AcquireMiss(r, s)
      PROVE  OneOwner'
  <2>1. \A q \in DOMAIN req' : Holding(q)' => q \in DOMAIN req /\ req'[q] = req[q]
    BY <1>2 DEF AcquireMiss, Known, Put
  <2> QED BY <1>2, <2>1 DEF AcquireMiss, Known, procVars, clusterVars, historyVars
<1>3. ASSUME NEW r \in Requests, NEW c \in Claims, NEW ip \in IPs \cup {None},
             CreateReturns(r, c, ip)
      PROVE  OneOwner'
  <2>1. /\ DOMAIN req' = DOMAIN req
        /\ req'[r].claim = c
        /\ \A q \in DOMAIN req : q # r => req'[q] = req[q]
    <3>1. req' = [req EXCEPT ![r] =
                    [req[r] EXCEPT !.at = IF ip = None THEN "discarding" ELSE "created",
                                   !.claim = c, !.baseURL = ip]]
      BY <1>3 DEF CreateReturns, ClaimFor, HasAddress, TypeOK, Handler
    <3>2. r \in DOMAIN req /\ req[r] \in Handler
      BY <1>3 DEF CreateReturns, ClaimFor, HasAddress, TypeOK
    <3> QED BY <3>1, <3>2 DEF Handler
  <2>2. /\ cluster[c] = "unused" /\ cluster'[c] = "live"
        /\ \A d \in Claims : d # c => cluster'[d] = cluster[d]
    BY <1>3 DEF CreateReturns, ClaimFor, HasAddress, TypeOK
  <2>3. \A s \in DOMAIN sessions : sessions[s].claimName \in Claims
    BY DEF TypeOK, Entry
  <2> QED BY <1>3, <2>1, <2>2, <2>3 DEF CreateReturns, ClaimFor, HasAddress, historyVars, TypeOK
<1>4. ASSUME NEW r \in Requests, CreateFails(r) PROVE OneOwner'
  BY <1>4 DEF CreateFails, Without, procVars, clusterVars, historyVars
<1>5. ASSUME NEW r \in Requests, Discard(r) PROVE OneOwner'
  <2>1. /\ DOMAIN req' = DOMAIN req \ {r}
        /\ \A q \in DOMAIN req' : req'[q] = req[q]
    BY <1>5 DEF Discard, Without
  <2>2. /\ req[r].claim \in Claims
        /\ \A d \in Claims : d # req[r].claim => cluster'[d] = cluster[d]
        /\ \A d \in Claims : cluster'[d] = "unused" => cluster[d] = "unused"
    <3>1. req[r].claim \in Claims
      BY <1>5 DEF Discard, TypeOK, HoldsWhatItShould
    <3> QED BY <1>5, <3>1, DeleteFrame DEF Discard
  <2>3. UNCHANGED <<sessions, stale, released, raced, phase, doomed>> /\ Holding(r) /\ r \in DOMAIN req
    BY <1>5 DEF Discard
  <2>4. /\ EntryBacked'
        /\ \A s \in DOMAIN sessions' : cluster'[sessions'[s].claimName] # "unused"
    BY <2>2, <2>3 DEF TypeOK, Entry
  <2>5. \A q \in DOMAIN req' : Holding(q)' =>
          /\ req'[q].claim \in Live' \/ Closing'
          /\ cluster'[req'[q].claim] # "unused"
          /\ req'[q].claim \notin Condemned' \cup raced'
          /\ \A s \in DOMAIN sessions' : sessions'[s].claimName # req'[q].claim
    BY <2>1, <2>2, <2>3 DEF TypeOK, HoldsWhatItShould
  <2>6. \A d \in Condemned' \cup raced' \cup doomed' : cluster'[d] # "unused"
    BY <2>2, <2>3 DEF TypeOK
  <2> QED BY <2>1, <2>3, <2>4, <2>5, <2>6
<1>6. ASSUME NEW r \in Requests, Store(r) PROVE OneOwner'
  <2> DEFINE s == req[r].session
  <2>1. /\ r \in DOMAIN req /\ Holding(r)
        /\ DOMAIN req' = DOMAIN req
        /\ ~ Holding(r)'
        /\ \A q \in DOMAIN req : q # r => req'[q] = req[q]
    BY <1>6 DEF Store, TypeOK, Handler
  <2>2. /\ DOMAIN sessions' = DOMAIN sessions \cup {s}
        /\ sessions'[s].claimName = req[r].claim
        /\ \A t \in DOMAIN sessions : t # s => sessions'[t] = sessions[t]
    BY <1>6 DEF Store, Put
  <2>3. raced' = raced \cup (IF s \in DOMAIN sessions
                             THEN {sessions[s].claimName} ELSE {})
    BY <1>6 DEF Store
  <2>4. UNCHANGED <<stale, released, cluster, phase, doomed>>
    BY <1>6 DEF Store, clusterVars
  <2> HIDE DEF s
  <2> QED BY <2>1, <2>2, <2>3, <2>4
<1>7. ASSUME NEW r \in Requests, StreamEnds(r) PROVE OneOwner'
  BY <1>7 DEF StreamEnds, Without, procVars, clusterVars, historyVars
<1>8. CASE Reap
  <2> DEFINE old == {s \in DOMAIN sessions : Expired(s)}
  <2>1. /\ DOMAIN sessions' = DOMAIN sessions \ old
        /\ \A t \in DOMAIN sessions' : sessions'[t] = sessions[t]
    BY <1>8 DEF Reap, Collected, Kept, Without
  <2>2. stale' = {sessions[s].claimName : s \in old}
    BY <1>8 DEF Reap, Collected, Kept
  <2>3. UNCHANGED <<req, released, cluster, raced, phase, doomed>>
    BY <1>8 DEF Reap, Collected, Kept, procVars, clusterVars, historyVars
  <2> QED BY <2>1, <2>2, <2>3
<1>9. ASSUME NEW s \in Sessions, Release(s) PROVE OneOwner'
  BY <1>9 DEF Release, Without, procVars, clusterVars, historyVars
<1>10. ASSUME NEW c \in Claims, DeleteClaim(c) PROVE OneOwner'
  <2>1. /\ \A d \in Claims : d # c => cluster'[d] = cluster[d]
        /\ \A d \in Claims : cluster'[d] = "unused" => cluster[d] = "unused"
    BY <1>10, DeleteFrame DEF DeleteClaim
  <2>2. /\ UNCHANGED <<sessions, req, raced, phase, doomed>>
        /\ Condemned' = Condemned \ {c} /\ c \in Condemned
    BY <1>10 DEF DeleteClaim
  <2> HIDE DEF Condemned
  <2>3. /\ EntryBacked'
        /\ \A s \in DOMAIN sessions' : cluster'[sessions'[s].claimName] # "unused"
    BY <2>1, <2>2 DEF TypeOK, Entry
  <2>4. \A q \in DOMAIN req' : Holding(q)' =>
          /\ req'[q].claim \in Live' \/ Closing'
          /\ cluster'[req'[q].claim] # "unused"
          /\ req'[q].claim \notin Condemned' \cup raced'
    BY <2>1, <2>2 DEF TypeOK, HoldsWhatItShould
  <2>5. \A d \in Condemned' \cup raced' \cup doomed' : cluster'[d] # "unused"
    BY <2>1, <2>2 DEF TypeOK, Condemned
  <2> QED BY <2>2, <2>3, <2>4, <2>5
<1>11. ASSUME NEW c \in Claims, PodFails(c) PROVE OneOwner'
  BY <1>11 DEF PodFails, brokerVars, historyVars
<1>12. CASE Stop
  BY <1>12 DEF Stop, Serving, clusterVars, historyVars
<1>13. ASSUME NEW list \in SUBSET Claims, CloseLists(list) PROVE OneOwner'
  BY <1>13 DEF CloseLists, clusterVars, historyVars
<1>14. ASSUME NEW born \in SUBSET Claims, Exits(born) \/ Crash(born) PROVE OneOwner'
  <2>1. \A d \in Claims : cluster'[d] = "unused" => cluster[d] = "unused"
    BY <1>14 DEF Exits, Crash, BornLate, TypeOK
  <2>2. /\ DOMAIN sessions' = {} /\ DOMAIN req' = {} /\ Condemned' = {} /\ doomed' = {}
        /\ raced' = raced
    BY <1>14 DEF Exits, Crash, Restart
  <2> QED BY <2>1, <2>2 DEF TypeOK
<1>15. CASE Tick
  <2>1. /\ DOMAIN sessions' = DOMAIN sessions /\ DOMAIN req' = DOMAIN req
        /\ \A t \in DOMAIN sessions : sessions'[t].claimName = sessions[t].claimName
        /\ \A q \in DOMAIN req : Holding(q)' => req'[q] = req[q]
    BY <1>15 DEF Tick, TypeOK, Entry, Handler
  <2> QED BY <1>15, <2>1 DEF Tick, procVars, clusterVars, historyVars
<1>16. CASE UNCHANGED vars
  BY <1>16 DEF vars
<1>17. ASSUME NEW r \in Requests, NEW c \in Claims, NEW ip \in IPs \cup {None},
              CreateOrphans(r, c, ip)
       PROVE  OneOwner'
  <2>1. /\ cluster[c] = "unused" /\ cluster'[c] = "live"
        /\ \A d \in Claims : d # c => cluster'[d] = cluster[d]
    BY <1>17 DEF CreateOrphans, ClaimFor, TypeOK
  <2>2. /\ DOMAIN req' = DOMAIN req \ {r}
        /\ \A q \in DOMAIN req' : req'[q] = req[q]
    BY <1>17 DEF CreateOrphans, Without
  <2>3. UNCHANGED <<sessions, stale, released, raced, phase, doomed>>
    BY <1>17 DEF CreateOrphans
  <2>4. /\ \A s \in DOMAIN sessions : sessions[s].claimName \in Claims \ {c}
        /\ \A q \in DOMAIN req : Holding(q) => req[q].claim \in Claims \ {c}
    BY <2>1 DEF TypeOK, Entry, HoldsWhatItShould
  <2> QED BY <2>1, <2>2, <2>3, <2>4 DEF TypeOK
<1>18. ASSUME NEW c \in Claims, CloseDeletes(c) PROVE OneOwner'
  <2>1. /\ \A d \in Claims : d # c => cluster'[d] = cluster[d]
        /\ \A d \in Claims : cluster'[d] = "unused" => cluster[d] = "unused"
    BY <1>18, DeleteFrame DEF CloseDeletes
  <2>2. /\ UNCHANGED <<sessions, req, stale, released, raced, phase>>
        /\ doomed' = doomed \ {c} /\ Closing'
    BY <1>18 DEF CloseDeletes
  <2>3. /\ \A s \in DOMAIN sessions : sessions[s].claimName \in Claims
        /\ \A q \in DOMAIN req : Holding(q) => req[q].claim \in Claims
    BY DEF TypeOK, Entry, HoldsWhatItShould
  <2> QED BY <2>1, <2>2, <2>3 DEF TypeOK
<1> QED
  BY <1>1, <1>2, <1>3, <1>4, <1>5, <1>6, <1>7, <1>8, <1>9, <1>10, <1>11, <1>12,
     <1>13, <1>14, <1>15, <1>16, <1>17, <1>18 DEF Next

\* No entry of the map ever points to a sandbox that the reaper, Release or
\* Acquire deleted or is about to delete, and while the broker serves or drains,
\* the sandbox of every entry exists.
THEOREM EntriesBacked == Spec => []EntryBacked
<1>1. Init => TypeOK /\ OneOwner
  BY TypeInit, OwnerInit
<1>2. TypeOK /\ OneOwner /\ [Next]_vars => (TypeOK /\ OneOwner)'
  BY TypeStep, OwnerStep
<1>3. OneOwner => EntryBacked
  BY DEF OneOwner
<1> QED BY <1>1, <1>2, <1>3, PTL DEF Spec

-----------------------------------------------------------------------------
(* Accounting of the sandboxes *)

\* Once Close has listed what it deletes, that is all there is, except what the
\* broker has given up.
Listed == Closing => Live \subseteq doomed \cup GivenUp

LEMMA AccountedInit == Init => Accounted /\ Listed
BY DEF Init, Accounted, Live, Listed, Closing

\* A deletion that fails leaves a sandbox that has been given up.
LEMMA DeleteGivesUp ==
  ASSUME TypeOK, NEW c \in Claims, DeleteSandbox(c)
  PROVE  /\ undeleted \subseteq undeleted' /\ Live' \subseteq Live
         /\ c \in Live' => c \in undeleted'
BY DEF DeleteSandbox, ClusterDelete, clusterVars, TypeOK, Live

LEMMA ListedStep == TypeOK /\ Listed /\ [Next]_vars => Listed'
<1> SUFFICES ASSUME TypeOK, Listed, [Next]_vars PROVE Listed'
  OBVIOUS
<1> USE DEF Listed, Closing, GivenUp
<1>1. ASSUME Live' \subseteq Live, GivenUp \subseteq GivenUp', UNCHANGED <<phase, doomed>>
      PROVE  Listed'
  BY <1>1
<1>2. ASSUME UNCHANGED <<phase, doomed, cluster, historyVars>> PROVE Listed'
  BY <1>1, <1>2 DEF historyVars, Live
<1>3. ASSUME NEW r \in Requests, NEW c \in Claims, NEW ip \in IPs \cup {None},
             CreateReturns(r, c, ip) \/ CreateOrphans(r, c, ip)
      PROVE  Listed'
  <2>1. Live' = Live \cup {c} /\ (Closing => c \in missed')
    BY <1>3 DEF CreateReturns, CreateOrphans, ClaimFor, TypeOK, Live
  <2>2. GivenUp \subseteq GivenUp' /\ UNCHANGED <<phase, doomed>>
    BY <1>3 DEF CreateReturns, CreateOrphans, procVars
  <2> QED BY <2>1, <2>2
<1>4. ASSUME NEW r \in Requests, Discard(r) PROVE Listed'
  <2>1. req[r].claim \in Claims /\ DeleteSandbox(req[r].claim)
    BY <1>4 DEF Discard, TypeOK, HoldsWhatItShould
  <2> QED BY <1>1, <1>4, <2>1, DeleteGivesUp DEF Discard, procVars
<1>5. ASSUME NEW r \in Requests, Store(r) PROVE Listed'
  BY <1>5 DEF Store, procVars, clusterVars, Live
<1>6. ASSUME NEW c \in Claims, DeleteClaim(c) PROVE Listed'
  BY <1>1, <1>6, DeleteGivesUp DEF DeleteClaim, procVars
<1>7. ASSUME NEW c \in Claims, CloseDeletes(c) PROVE Listed'
  <2>1. /\ undeleted \subseteq undeleted' /\ Live' \subseteq Live
        /\ c \in Live' => c \in undeleted'
    BY <1>7, DeleteGivesUp DEF CloseDeletes
  <2>2. doomed' = doomed \ {c} /\ UNCHANGED <<phase, missed, abandoned>>
    BY <1>7 DEF CloseDeletes
  <2> QED BY <2>1, <2>2
<1>8. ASSUME NEW list \in SUBSET Claims, CloseLists(list) PROVE Listed'
  BY <1>8 DEF CloseLists, clusterVars, historyVars, Live
<1>9. CASE Stop \/ \E born \in SUBSET Claims : Exits(born) \/ Crash(born)
  BY <1>9 DEF Stop, Exits, Crash, Restart
<1> QED
  BY <1>2, <1>3, <1>4, <1>5, <1>6, <1>7, <1>8, <1>9
  DEF Next, AcquireHit, AcquireMiss, CreateFails, StreamEnds, Reap, Release, PodFails, Tick,
      vars, procVars, brokerVars, clusterVars, historyVars

LEMMA AccountedStep ==
  TypeOK /\ OneOwner /\ Listed /\ Accounted /\ [Next]_vars => Accounted'
<1> SUFFICES ASSUME TypeOK, OneOwner, Listed, Accounted, [Next]_vars PROVE Accounted'
  OBVIOUS
<1> USE ProviderAssumption
<1> USE DEF Accounted, Live, Tracked, InHand, Condemned, GivenUp
<1>1. ASSUME NEW r \in Requests, NEW s \in Sessions, AcquireHit(r, s)
      PROVE  Accounted'
  <2>1. /\ DOMAIN sessions' = DOMAIN sessions
        /\ \A t \in DOMAIN sessions : sessions'[t].claimName = sessions[t].claimName
        /\ \A q \in DOMAIN req : q \in DOMAIN req' /\ req'[q] = req[q]
    BY <1>1 DEF AcquireHit, Seen, Known, Arrives, TypeOK, Entry, Put
  <2> QED BY <1>1, <2>1 DEF AcquireHit, Seen, Known, procVars, clusterVars, historyVars
<1>2. ASSUME NEW r \in Requests, NEW s \in Sessions, AcquireMiss(r, s)
      PROVE  Accounted'
  <2>1. \A q \in DOMAIN req : q \in DOMAIN req' /\ req'[q] = req[q]
    BY <1>2 DEF AcquireMiss, Known, Arrives, Put
  <2> QED BY <1>2, <2>1 DEF AcquireMiss, Known, procVars, clusterVars, historyVars
<1>3. ASSUME NEW r \in Requests, NEW c \in Claims, NEW ip \in IPs \cup {None},
             CreateReturns(r, c, ip)
      PROVE  Accounted'
  <2>1. /\ req' = [req EXCEPT ![r] =
                    [req[r] EXCEPT !.at = IF ip = None THEN "discarding" ELSE "created",
                                   !.claim = c, !.baseURL = ip]]
        /\ r \in DOMAIN req /\ req[r] \in Handler /\ req[r].at = "creating"
    BY <1>3 DEF CreateReturns, ClaimFor, HasAddress, TypeOK, Handler
  <2>2. /\ DOMAIN req' = DOMAIN req
        /\ req'[r].claim = c /\ req'[r].at \in {"created", "discarding"}
        /\ \A q \in DOMAIN req : q # r => req'[q] = req[q]
    BY <2>1 DEF Handler
  <2>3. InHand \cup {c} \subseteq InHand'
    BY <2>1, <2>2
  <2>4. Live' = Live \cup {c}
    BY <1>3 DEF CreateReturns, ClaimFor, HasAddress, TypeOK
  <2> QED BY <1>3, <2>3, <2>4 DEF CreateReturns, ClaimFor, HasAddress, historyVars
<1>4. ASSUME NEW r \in Requests, CreateFails(r) PROVE Accounted'
  BY <1>4 DEF CreateFails, Without, procVars, clusterVars, historyVars
<1>5. ASSUME NEW r \in Requests, Discard(r) PROVE Accounted'
  <2>1. /\ DOMAIN req' = DOMAIN req \ {r}
        /\ \A q \in DOMAIN req' : req'[q] = req[q]
    BY <1>5 DEF Discard, Without
  <2>2. UNCHANGED <<Tracked, Condemned, raced, missed, abandoned>>
    BY <1>5 DEF Discard
  <2>3. req[r].claim \in Claims /\ DeleteSandbox(req[r].claim)
    BY <1>5 DEF Discard, TypeOK, HoldsWhatItShould
  <2>4. /\ undeleted \subseteq undeleted' /\ Live' \subseteq Live
        /\ req[r].claim \in Live' => req[r].claim \in undeleted'
    BY <2>3, DeleteGivesUp
  <2>5. InHand \subseteq InHand' \cup {req[r].claim}
    BY <2>1
  <2> HIDE DEF Live, Tracked, InHand, Condemned
  <2> QED BY <2>2, <2>3, <2>4, <2>5
<1>6. ASSUME NEW r \in Requests, Store(r) PROVE Accounted'
  <2> DEFINE s == req[r].session
  <2>1. /\ r \in DOMAIN req
        /\ DOMAIN req' = DOMAIN req
        /\ \A q \in DOMAIN req : q # r => req'[q] = req[q]
    BY <1>6 DEF Store, TypeOK, Handler
  <2>2. /\ DOMAIN sessions' = DOMAIN sessions \cup {s}
        /\ sessions'[s].claimName = req[r].claim
        /\ \A t \in DOMAIN sessions : t # s => sessions'[t] = sessions[t]
    BY <1>6 DEF Store, Put
  <2>3. raced' = raced \cup (IF s \in DOMAIN sessions
                             THEN {sessions[s].claimName} ELSE {})
    BY <1>6 DEF Store
  <2>4. UNCHANGED <<stale, released, cluster, undeleted, missed, abandoned>>
    BY <1>6 DEF Store, clusterVars
  <2> HIDE DEF s
  <2>5. Tracked \subseteq Tracked' \cup raced'
    BY <2>2, <2>3
  <2>6. InHand \subseteq InHand' \cup Tracked'
    BY <2>1, <2>2
  <2> QED BY <2>3, <2>4, <2>5, <2>6
<1>7. ASSUME NEW r \in Requests, StreamEnds(r) PROVE Accounted'
  BY <1>7 DEF StreamEnds, Without, procVars, clusterVars, historyVars
<1>8. CASE Reap
  <2> DEFINE old == {s \in DOMAIN sessions : Expired(s)}
  <2>1. /\ DOMAIN sessions' = DOMAIN sessions \ old
        /\ \A t \in DOMAIN sessions' : sessions'[t] = sessions[t]
    BY <1>8 DEF Reap, Collected, Kept, Without
  <2>2. stale = {} /\ stale' = {sessions[s].claimName : s \in old}
    BY <1>8 DEF Reap, Collected, Kept
  <2>3. UNCHANGED <<req, released, cluster, raced, undeleted, missed, abandoned>>
    BY <1>8 DEF Reap, Collected, Kept, procVars, clusterVars, historyVars
  <2> HIDE DEF old
  <2>4. Tracked \subseteq Tracked' \cup stale'
    BY <2>1, <2>2
  <2> QED BY <2>2, <2>3, <2>4
<1>9. ASSUME NEW s \in Sessions, Release(s) PROVE Accounted'
  BY <1>9 DEF Release, Without, procVars, clusterVars, historyVars
<1>10. ASSUME NEW c \in Claims, DeleteClaim(c) PROVE Accounted'
  <2>1. /\ UNCHANGED <<sessions, req, raced, missed, abandoned>>
        /\ Condemned' = Condemned \ {c}
    BY <1>10 DEF DeleteClaim
  <2>2. /\ undeleted \subseteq undeleted' /\ Live' \subseteq Live
        /\ c \in Live' => c \in undeleted'
    BY <1>10, DeleteGivesUp DEF DeleteClaim
  <2> QED BY <2>1, <2>2
<1>11. ASSUME NEW c \in Claims, PodFails(c) PROVE Accounted'
  BY <1>11 DEF PodFails, brokerVars, historyVars
<1>12. CASE Stop
  BY <1>12 DEF Stop, procVars, clusterVars, historyVars
<1>13. ASSUME NEW list \in SUBSET Claims, CloseLists(list) PROVE Accounted'
  BY <1>13 DEF CloseLists, clusterVars, historyVars
<1>14. ASSUME NEW born \in SUBSET Claims, Exits(born) \/ Crash(born) PROVE Accounted'
  <2>1. Live' \subseteq Live \cup born
    BY <1>14 DEF Exits, Crash, BornLate
  <2>2. CASE Crash(born)
    BY <2>1, <2>2 DEF Crash
  <2>3. CASE Exits(born)
    <3>1. Live \subseteq GivenUp
      BY <2>3 DEF Exits, Listed
    <3> QED BY <2>1, <2>3, <3>1 DEF Exits
  <2> QED BY <1>14, <2>2, <2>3
<1>15. CASE Tick
  <2>1. /\ DOMAIN sessions' = DOMAIN sessions /\ DOMAIN req' = DOMAIN req
        /\ \A t \in DOMAIN sessions : sessions'[t].claimName = sessions[t].claimName
        /\ \A q \in DOMAIN req : Holding(q) => req'[q] = req[q]
    BY <1>15 DEF Tick, TypeOK, Entry, Handler, Holding
  <2> QED BY <1>15, <2>1 DEF Tick, procVars, clusterVars, historyVars, Holding
<1>16. CASE UNCHANGED vars
  BY <1>16 DEF vars
<1>17. ASSUME NEW r \in Requests, NEW c \in Claims, NEW ip \in IPs \cup {None},
              CreateOrphans(r, c, ip)
       PROVE  Accounted'
  <2>1. Live' = Live \cup {c} /\ c \in missed' /\ missed \subseteq missed'
    BY <1>17 DEF CreateOrphans, ClaimFor, TypeOK
  <2>2. InHand \subseteq InHand'
    BY <1>17 DEF CreateOrphans, ClaimFor, Without
  <2>3. UNCHANGED <<Tracked, Condemned, raced, undeleted, abandoned>>
    BY <1>17 DEF CreateOrphans
  <2> HIDE DEF Live, Tracked, InHand, Condemned
  <2> QED BY <2>1, <2>2, <2>3
<1>18. ASSUME NEW c \in Claims, CloseDeletes(c) PROVE Accounted'
  <2>1. /\ undeleted \subseteq undeleted' /\ Live' \subseteq Live
    BY <1>18, DeleteGivesUp DEF CloseDeletes
  <2> QED BY <1>18, <2>1 DEF CloseDeletes
<1> QED
  BY <1>1, <1>2, <1>3, <1>4, <1>5, <1>6, <1>7, <1>8, <1>9, <1>10, <1>11, <1>12,
     <1>13, <1>14, <1>15, <1>16, <1>17, <1>18 DEF Next

\* No running sandbox is lost except by the overwriting race, a failed delete,
\* a create that failed or came too late for Close, or the death of its process.
THEOREM SandboxesAccounted == Spec => []Accounted
<1>1. Init => TypeOK /\ OneOwner /\ Listed /\ Accounted
  BY TypeInit, OwnerInit, AccountedInit
<1>2. TypeOK /\ OneOwner /\ Listed /\ Accounted /\ [Next]_vars
        => (TypeOK /\ OneOwner /\ Listed /\ Accounted)'
  BY TypeStep, OwnerStep, ListedStep, AccountedStep
<1> QED BY <1>1, <1>2, PTL DEF Spec

-----------------------------------------------------------------------------
(* Serial clients *)

\* With one request per session in flight, a handler that is creating a
\* sandbox is the only one that can give its session an entry.
OneAtATime ==
  /\ raced = {}
  /\ \A r, q \in DOMAIN req : r # q => req[r].session # req[q].session
  /\ \A r \in DOMAIN req :
       req[r].at \in {"creating", "created"} => req[r].session \notin DOMAIN sessions

LEMMA OneAtATimeStep ==
  ASSUME SerialClients PROVE TypeOK /\ OneAtATime /\ [Next]_vars => OneAtATime'
<1> SUFFICES ASSUME TypeOK, OneAtATime, [Next]_vars PROVE OneAtATime'
  OBVIOUS
<1> USE SerialClients, ProviderAssumption
<1> USE DEF OneAtATime
<1>1. ASSUME NEW r \in Requests, NEW s \in Sessions, AcquireHit(r, s) \/ AcquireMiss(r, s)
      PROVE  OneAtATime'
  <2>1. /\ DOMAIN sessions' = DOMAIN sessions
        /\ raced' = raced
        /\ \A q \in DOMAIN req : req[q].session # s
    BY <1>1 DEF AcquireHit, Seen, Known, AcquireMiss, Arrives, historyVars
  <2>2. /\ DOMAIN req' = DOMAIN req \cup {r}
        /\ r \notin DOMAIN req
        /\ req'[r].session = s
        /\ req'[r].at \in {"creating", "created"} => s \notin DOMAIN sessions
        /\ \A q \in DOMAIN req : req'[q] = req[q]
    BY <1>1 DEF AcquireHit, Seen, Known, AcquireMiss, Arrives, Put
  <2> QED BY <2>1, <2>2
<1>2. ASSUME NEW r \in Requests, NEW c \in Claims, NEW ip \in IPs \cup {None},
             CreateReturns(r, c, ip)
      PROVE  OneAtATime'
  <2>1. /\ req' = [req EXCEPT ![r] =
                    [req[r] EXCEPT !.at = IF ip = None THEN "discarding" ELSE "created",
                                   !.claim = c, !.baseURL = ip]]
        /\ r \in DOMAIN req /\ req[r] \in Handler /\ req[r].at = "creating"
    BY <1>2 DEF CreateReturns, ClaimFor, HasAddress, TypeOK, Handler
  <2>2. /\ DOMAIN req' = DOMAIN req
        /\ \A q \in DOMAIN req : req'[q].session = req[q].session
        /\ \A q \in DOMAIN req : q # r => req'[q] = req[q]
    BY <2>1 DEF Handler
  <2> QED BY <1>2, <2>1, <2>2 DEF CreateReturns, ClaimFor, HasAddress, historyVars
<1>3. ASSUME NEW r \in Requests,
             \/ CreateFails(r) \/ Discard(r) \/ StreamEnds(r)
             \/ \E c \in Claims, ip \in IPs \cup {None} : CreateOrphans(r, c, ip)
      PROVE  OneAtATime'
  BY <1>3 DEF CreateFails, CreateOrphans, Discard, StreamEnds, Without, historyVars
<1>4. ASSUME NEW r \in Requests, Store(r) PROVE OneAtATime'
  <2>1. /\ r \in DOMAIN req /\ req[r].at = "created"
        /\ DOMAIN req' = DOMAIN req
        /\ req'[r].at = "streaming"
        /\ \A q \in DOMAIN req : req'[q].session = req[q].session
        /\ \A q \in DOMAIN req : q # r => req'[q] = req[q]
    BY <1>4 DEF Store, TypeOK, Handler
  <2>2. DOMAIN sessions' = DOMAIN sessions \cup {req[r].session}
    BY <1>4 DEF Store, Put
  <2>3. raced' = {}
    BY <1>4, <2>1 DEF Store
  <2> QED BY <2>1, <2>2, <2>3
<1>5. CASE Reap
  BY <1>5 DEF Reap, Collected, Kept, Without, historyVars
<1>6. ASSUME NEW s \in Sessions, Release(s) PROVE OneAtATime'
  BY <1>6 DEF Release, Without, historyVars
<1>7. ASSUME NEW c \in Claims, DeleteClaim(c) \/ CloseDeletes(c) \/ PodFails(c)
      PROVE  OneAtATime'
  BY <1>7 DEF DeleteClaim, CloseDeletes, PodFails, brokerVars, historyVars
<1>8. CASE Stop \/ \E list \in SUBSET Claims : CloseLists(list)
  BY <1>8 DEF Stop, CloseLists, historyVars
<1>9. ASSUME NEW born \in SUBSET Claims, Exits(born) \/ Crash(born)
      PROVE  OneAtATime'
  BY <1>9 DEF Exits, Crash, Restart
<1>10. CASE Tick
  <2>1. /\ DOMAIN sessions' = DOMAIN sessions /\ DOMAIN req' = DOMAIN req
        /\ \A q \in DOMAIN req : /\ req'[q].session = req[q].session
                                  /\ req'[q].at = req[q].at
    BY <1>10 DEF Tick, TypeOK, Handler
  <2> QED BY <1>10, <2>1 DEF Tick, historyVars
<1>11. CASE UNCHANGED vars
  BY <1>11 DEF vars
<1> QED
  BY <1>1, <1>2, <1>3, <1>4, <1>5, <1>6, <1>7, <1>8, <1>9, <1>10, <1>11 DEF Next

\* When a tab never has two requests in flight, Acquire's two critical
\* sections leak no sandbox.
THEOREM SerialClientsLeakNothing == SerialClients => (Spec => []NoLeak)
<1> SUFFICES ASSUME SerialClients PROVE Spec => []NoLeak
  OBVIOUS
<1>1. Init => TypeOK /\ OneOwner /\ Listed /\ Accounted /\ OneAtATime
  BY TypeInit, OwnerInit, AccountedInit DEF Init, OneAtATime
<1>2. TypeOK /\ OneOwner /\ Listed /\ Accounted /\ OneAtATime /\ [Next]_vars
        => (TypeOK /\ OneOwner /\ Listed /\ Accounted /\ OneAtATime)'
  BY TypeStep, OwnerStep, ListedStep, AccountedStep, OneAtATimeStep
<1>3. Accounted /\ OneAtATime => NoLeak
  BY DEF Accounted, OneAtATime, NoLeak
<1> QED BY <1>1, <1>2, <1>3, PTL DEF Spec
==============================================================================
