--------------------------- MODULE SandboxProvider ---------------------------
(***************************************************************************)
(* The broker's sandbox mode (internal/broker/sandbox.go): the session map *)
(* behind p.mu, Acquire with its unlocked CreateSandbox call in the middle,*)
(* the idle reaper, Release and Close, together with the part of           *)
(* handleChat that holds an agent URL while it proxies a stream, and the   *)
(* cluster that creates and deletes the sandboxes.                         *)
(*                                                                         *)
(* Go's map[string]*sbEntry is a partial function on Sessions. A time      *)
(* stamp lastSeen is only ever compared with now - idleTTL, so an entry    *)
(* carries its idle time, which Tick advances up to IdleTTL + 1.           *)
(***************************************************************************)
EXTENDS Naturals, FiniteSets

CONSTANTS
  Sessions,       \* session ids sent by browsers
  Requests,       \* concurrent POST /v1/chat handlers
  Claims,         \* sandbox claim names, each used at most once
  IPs,            \* pod addresses, reused once their pod is gone
  None,           \* no claim, no address
  IdleTTL,        \* SANDBOX_IDLE_TTL, in ticks
  MaxStream,      \* how long one proxied stream may last, in ticks
  SerialClients,  \* TRUE: a tab never has two requests in flight
  PodsFail,       \* TRUE: the cluster may lose a pod behind a live claim
  CallsRelease    \* TRUE: some caller uses Provider.Release

ASSUME ProviderAssumption ==
  /\ None \notin Claims
  /\ None \notin IPs
  /\ IdleTTL \in Nat
  /\ MaxStream \in Nat
  /\ SerialClients \in BOOLEAN
  /\ PodsFail \in BOOLEAN
  /\ CallsRelease \in BOOLEAN

VARIABLES
  sessions,   \* p.sessions: session id -> [claimName, baseURL, idle]
  req,        \* handlers in flight: request -> where it is and what it holds
  stale,      \* claims reap has taken out of the map and not yet deleted
  released,   \* the same for Release
  phase,      \* of the process: see Phase
  reading,    \* requests that may still be read and reach Acquire after SIGTERM
  doomed,     \* claims that Close has listed and not yet deleted
  cluster,    \* claim -> "unused", "live" or "deleted"
  podIP,      \* claim -> address of its running pod, or None
  \* History, read by the properties only: why the broker lost a claim.
  raced,      \* its map entry was overwritten by a concurrent first message
  undeleted,  \* its DeleteSandbox call failed
  missed,     \* its CreateSandbox call failed, or returned too late for Close
  abandoned   \* the process that created it died without Close, or before
              \* CreateSandbox returned

procVars    == <<phase, reading, doomed>>
brokerVars  == <<sessions, req, stale, released, procVars>>
clusterVars == <<cluster, podIP>>
historyVars == <<raced, undeleted, missed, abandoned>>
vars == <<sessions, req, stale, released, phase, reading, doomed, cluster, podIP,
          raced, undeleted, missed, abandoned>>

-----------------------------------------------------------------------------
(* Types *)

Entry == [claimName : Claims, baseURL : IPs, idle : 0..(IdleTTL + 1)]

\* SIGTERM ends "serving" and closes the listener. While "draining", the server
\* waits for its handlers, up to SHUTDOWN_TIMEOUT; while "closing", Close deletes
\* the sandboxes, and handlers that outlived the drain run on.
Phase == {"serving", "draining", "closing"}

Serving == phase = "serving"
Closing == phase = "closing"

\* A handler inside Acquire is "creating" (waiting for CreateSandbox),
\* "created" (holding a sandbox with an address), or "discarding" (holding
\* one without); afterwards it is "streaming" the agent's answer.
Handler ==
  [at      : {"creating", "created", "discarding", "streaming"},
   session : Sessions,
   claim   : Claims \cup {None},
   baseURL : IPs \cup {None},
   age     : 0..MaxStream]

\* What a handler holds at each of these points.
HoldsWhatItShould(h) ==
  /\ h.claim \in Claims <=> h.at # "creating"
  /\ h.baseURL \in IPs <=> h.at \in {"created", "streaming"}

TypeOK ==
  /\ DOMAIN sessions \subseteq Sessions
  /\ sessions \in [DOMAIN sessions -> Entry]
  /\ DOMAIN req \subseteq Requests
  /\ req \in [DOMAIN req -> Handler]
  /\ \A r \in DOMAIN req : HoldsWhatItShould(req[r])
  /\ stale \subseteq Claims
  /\ released \subseteq Claims
  /\ phase \in Phase
  /\ reading \subseteq Requests
  /\ doomed \subseteq Claims
  /\ cluster \in [Claims -> {"unused", "live", "deleted"}]
  /\ podIP \in [Claims -> IPs \cup {None}]
  /\ raced \subseteq Claims
  /\ undeleted \subseteq Claims
  /\ missed \subseteq Claims
  /\ abandoned \subseteq Claims

-----------------------------------------------------------------------------
(* Partial functions *)

Put(f, k, v) == [x \in DOMAIN f \cup {k} |-> IF x = k THEN v ELSE f[x]]
Without(f, S) == [x \in DOMAIN f \ S |-> f[x]]

-----------------------------------------------------------------------------
(* The cluster *)

Live == {c \in Claims : cluster[c] = "live"}
FreeIPs == {ip \in IPs : \A c \in Claims : podIP[c] # ip}

\* A claim that is deleted gives its pod's address back.
ClusterDelete(C) ==
  /\ cluster' = [c \in Claims |-> IF c \in C THEN "deleted" ELSE cluster[c]]
  /\ podIP' = [c \in Claims |-> IF c \in C THEN None ELSE podIP[c]]

\* client.DeleteSandbox: it succeeds, or fails and leaves the sandbox.
DeleteSandbox(c) ==
  \/ ClusterDelete({c}) /\ UNCHANGED undeleted
  \/ undeleted' = undeleted \cup {c} /\ UNCHANGED clusterVars

\* A pod dies while its claim and the broker's entry stay.
PodFails(c) ==
  /\ PodsFail
  /\ podIP[c] # None
  /\ podIP' = [podIP EXCEPT ![c] = None]
  /\ UNCHANGED <<brokerVars, cluster, historyVars>>

-----------------------------------------------------------------------------
Init ==
  /\ sessions = [s \in {} |-> None]
  /\ req = [r \in {} |-> None]
  /\ stale = {}
  /\ released = {}
  /\ phase = "serving"
  /\ reading = {}
  /\ doomed = {}
  /\ cluster = [c \in Claims |-> "unused"]
  /\ podIP = [c \in Claims |-> None]
  /\ raced = {}
  /\ undeleted = {}
  /\ missed = {}
  /\ abandoned = {}

(* Acquire and the stream that follows it *)

\* A request reaches Acquire: it was accepted before SIGTERM, though its body
\* may be read later, and when clients are serial, no other request of the
\* session is in flight.
Arrives(r, s) ==
  /\ Serving \/ r \in reading
  /\ r \notin DOMAIN req
  /\ SerialClients => \A q \in DOMAIN req : req[q].session # s

\* Seeded bug: the map is not consulted and every message creates a sandbox.
NeverKnown(s) == FALSE

Known(s) == s \in DOMAIN sessions

\* Seeded bug: a hit does not refresh lastSeen.
NotSeen(s) == sessions

Seen(s) == [sessions EXCEPT ![s].idle = 0]

\* The session has an entry: it is marked seen and its URL is used.
AcquireHit(r, s) ==
  /\ Arrives(r, s)
  /\ Known(s)
  /\ sessions' = Seen(s)
  /\ req' = Put(req, r, [at |-> "streaming", session |-> s,
                         claim |-> sessions[s].claimName,
                         baseURL |-> sessions[s].baseURL, age |-> 0])
  /\ reading' = reading \ {r}
  /\ UNCHANGED <<stale, released, phase, doomed, clusterVars, historyVars>>

\* It has none: the lock is dropped and CreateSandbox is called without it.
AcquireMiss(r, s) ==
  /\ Arrives(r, s)
  /\ ~Known(s)
  /\ req' = Put(req, r, [at |-> "creating", session |-> s, claim |-> None,
                         baseURL |-> None, age |-> 0])
  /\ reading' = reading \ {r}
  /\ UNCHANGED <<sessions, stale, released, phase, doomed, clusterVars, historyVars>>

\* Seeded bug: a sandbox without an address is taken like any other.
Unchecked(ip) == TRUE

HasAddress(ip) == ip # None

\* The cluster has a claim for the call, its pod with or without an address.
ClaimFor(r, c, ip) ==
  /\ r \in DOMAIN req
  /\ req[r].at = "creating"
  /\ cluster[c] = "unused"
  /\ ip \in FreeIPs \cup {None}
  /\ cluster' = [cluster EXCEPT ![c] = "live"]
  /\ podIP' = [podIP EXCEPT ![c] = ip]

\* CreateSandbox returns a sandbox. PodIP() is its address, or "" (None).
CreateReturns(r, c, ip) ==
  /\ ClaimFor(r, c, ip)
  /\ req' = [req EXCEPT
       ![r].at = IF HasAddress(ip) THEN "created" ELSE "discarding",
       ![r].claim = c,
       ![r].baseURL = ip]
  /\ missed' = missed \cup (IF Closing THEN {c} ELSE {})
  /\ UNCHANGED <<sessions, stale, released, procVars, raced, undeleted, abandoned>>

\* CreateSandbox fails (or the caller's context ends): handleChat answers 502.
CreateFails(r) ==
  /\ r \in DOMAIN req
  /\ req[r].at = "creating"
  /\ req' = Without(req, {r})
  /\ UNCHANGED <<sessions, stale, released, procVars, clusterVars, historyVars>>

\* It fails when the cluster already has the claim: a wait for the pod timed
\* out, an answer was lost, the browser hung up. Nobody is told its name.
CreateOrphans(r, c, ip) ==
  /\ ClaimFor(r, c, ip)
  /\ missed' = missed \cup {c}
  /\ req' = Without(req, {r})
  /\ UNCHANGED <<sessions, stale, released, procVars, raced, undeleted, abandoned>>

\* No pod address: the sandbox is deleted, the delete's error is ignored, and
\* handleChat answers 502.
Discard(r) ==
  /\ r \in DOMAIN req
  /\ req[r].at = "discarding"
  /\ DeleteSandbox(req[r].claim)
  /\ req' = Without(req, {r})
  /\ UNCHANGED <<sessions, stale, released, procVars, raced, missed, abandoned>>

\* The second critical section: the entry is written whatever the map holds
\* by now, and Acquire returns the new URL.
Store(r) ==
  /\ r \in DOMAIN req
  /\ req[r].at = "created"
  /\ LET s == req[r].session IN
       /\ raced' = raced \cup (IF s \in DOMAIN sessions
                               THEN {sessions[s].claimName} ELSE {})
       /\ sessions' = Put(sessions, s, [claimName |-> req[r].claim,
                                        baseURL |-> req[r].baseURL,
                                        idle |-> 0])
  /\ req' = [req EXCEPT ![r].at = "streaming"]
  /\ UNCHANGED <<stale, released, procVars, clusterVars, undeleted, missed, abandoned>>

\* The proxied stream ends, one way or another; nothing is released.
StreamEnds(r) ==
  /\ r \in DOMAIN req
  /\ req[r].at = "streaming"
  /\ req' = Without(req, {r})
  /\ UNCHANGED <<sessions, stale, released, procVars, clusterVars, historyVars>>

-----------------------------------------------------------------------------
(* The reaper, Release and the deletions they start *)

\* Seeded bug: an entry goes when it has been idle for the TTL, not for longer.
ExpiredEarly(s) == sessions[s].idle >= IdleTTL

Expired(s) == sessions[s].idle > IdleTTL

\* Seeded bug: expired entries stay in the map.
KeptAll(old) == sessions

Kept(old) == Without(sessions, old)

\* Seeded bug: the claims of the entries that go are not collected.
CollectedNone(old) == {}

Collected(old) == {sessions[s].claimName : s \in old}

\* One tick of the reaper's goroutine, which deletes a whole batch before it
\* looks again: idle entries leave the map under the lock.
Reap ==
  /\ stale = {}
  /\ \E s \in DOMAIN sessions : Expired(s)
  /\ LET old == {s \in DOMAIN sessions : Expired(s)} IN
       /\ stale' = Collected(old)
       /\ sessions' = Kept(old)
  /\ UNCHANGED <<req, released, procVars, clusterVars, historyVars>>

\* Release: the entry leaves the map under the lock. Nothing in the broker
\* calls it today.
Release(s) ==
  /\ CallsRelease
  /\ s \in DOMAIN sessions
  /\ released' = released \cup {sessions[s].claimName}
  /\ sessions' = Without(sessions, {s})
  /\ UNCHANGED <<req, stale, procVars, clusterVars, historyVars>>

\* deleteClaim, outside the lock; a failure is logged and forgotten.
DeleteClaim(c) ==
  /\ c \in stale \cup released
  /\ DeleteSandbox(c)
  /\ stale' = stale \ {c}
  /\ released' = released \ {c}
  /\ UNCHANGED <<sessions, req, procVars, raced, missed, abandoned>>

-----------------------------------------------------------------------------
(* The process *)

\* SIGTERM: the listener closes and the reaper is told to stop. Any request that
\* comes to Acquire later has been accepted by now and is reading its body.
Stop ==
  /\ Serving
  /\ phase' = "draining"
  /\ reading' = Requests \ DOMAIN req
  /\ UNCHANGED <<sessions, req, stale, released, doomed, clusterVars, historyVars>>

\* The drain is over or has timed out, and Close calls client.DeleteAll. The
\* client knows the sandboxes whose creation returned, and may know others.
CloseLists(list) ==
  /\ phase = "draining"
  /\ Live \ (missed \cup abandoned) \subseteq list
  /\ list \subseteq Live \ abandoned
  /\ doomed' = list
  /\ phase' = "closing"
  /\ UNCHANGED <<sessions, req, stale, released, reading, clusterVars, historyVars>>

\* DeleteAll deletes one of them; the session map is left as it is.
CloseDeletes(c) ==
  /\ c \in doomed
  /\ DeleteSandbox(c)
  /\ doomed' = doomed \ {c}
  /\ UNCHANGED <<sessions, req, stale, released, phase, reading, raced, missed, abandoned>>

\* Nothing the process knew survives it; its replacement starts empty.
Restart ==
  /\ sessions' = [s \in {} |-> None]
  /\ req' = [r \in {} |-> None]
  /\ stale' = {}
  /\ released' = {}
  /\ phase' = "serving"
  /\ reading' = {}
  /\ doomed' = {}

Creating == {r \in DOMAIN req : req[r].at = "creating"}

\* Claims that calls cut off by the end of the process still bring about.
BornLate(born) ==
  /\ born \subseteq {c \in Claims : cluster[c] = "unused"}
  /\ Cardinality(born) <= Cardinality(Creating)
  /\ cluster' = [c \in Claims |-> IF c \in born THEN "live" ELSE cluster[c]]
  /\ UNCHANGED podIP

\* DeleteAll has tried every claim of its list, and some time later main has
\* returned.
Exits(born) ==
  /\ Closing
  /\ doomed = {}
  /\ BornLate(born)
  /\ abandoned' = abandoned \cup born
  /\ UNCHANGED <<raced, undeleted, missed>>
  /\ Restart

\* The process dies at any point, without Close or in the middle of it.
Crash(born) ==
  /\ BornLate(born)
  /\ abandoned' = abandoned \cup Live \cup born
  /\ UNCHANGED <<raced, undeleted, missed>>
  /\ Restart

\* Time passes for idle entries and open streams. A stream is over by
\* MaxStream: the agent bounds it (REQUEST_TIMEOUT).
Tick ==
  /\ \A r \in DOMAIN req : req[r].at = "streaming" => req[r].age < MaxStream
  /\ sessions' = [s \in DOMAIN sessions |->
       [sessions[s] EXCEPT !.idle = IF @ > IdleTTL THEN @ ELSE @ + 1]]
  /\ req' = [r \in DOMAIN req |->
       IF req[r].at = "streaming"
       THEN [req[r] EXCEPT !.age = @ + 1]
       ELSE req[r]]
  /\ UNCHANGED <<stale, released, procVars, clusterVars, historyVars>>

Next ==
  \/ \E r \in Requests, s \in Sessions : AcquireHit(r, s) \/ AcquireMiss(r, s)
  \/ \E r \in Requests, c \in Claims, ip \in IPs \cup {None} :
       CreateReturns(r, c, ip) \/ CreateOrphans(r, c, ip)
  \/ \E r \in Requests :
       CreateFails(r) \/ Discard(r) \/ Store(r) \/ StreamEnds(r)
  \/ Reap
  \/ \E s \in Sessions : Release(s)
  \/ \E c \in Claims : DeleteClaim(c) \/ CloseDeletes(c) \/ PodFails(c)
  \/ Stop
  \/ \E list \in SUBSET Claims : CloseLists(list)
  \/ \E born \in SUBSET Claims : Exits(born) \/ Crash(born)
  \/ Tick

Spec == Init /\ [][Next]_vars

\* Time passes, the reaper keeps running while the broker serves and finishes
\* the batch it started (every delete has a 30 second timeout), a stream ends
\* (the agent bounds it), a shutdown reaches Close (the drain has a timeout)
\* and Close goes on (a delete that hangs ends with the process: the kubelet
\* kills it). Nothing makes a client send, CreateSandbox return or a pod fail.
Fairness ==
  /\ WF_vars(Tick)
  /\ WF_vars(Serving /\ Reap)
  /\ \A c \in Claims : WF_vars(DeleteClaim(c)) /\ WF_vars(CloseDeletes(c))
  /\ \A r \in Requests : WF_vars(StreamEnds(r))
  /\ WF_vars(\E list \in SUBSET Claims : CloseLists(list))

FairSpec == Spec /\ Fairness

-----------------------------------------------------------------------------
(* Properties *)

Tracks(s, c) == s \in DOMAIN sessions /\ sessions[s].claimName = c
Tracked == {sessions[s].claimName : s \in DOMAIN sessions}
InHand == {req[r].claim : r \in {q \in DOMAIN req :
                                  req[q].at \in {"created", "discarding"}}}
Condemned == stale \cup released
GivenUp == undeleted \cup missed \cup abandoned

\* The broker never routes to a sandbox it has deleted or is deleting: reap,
\* Release and the discard of a pod without an address take the entry away, or
\* have not written it, before the claim goes, whatever Acquire does meanwhile,
\* also while the server drains. Close does not: from its first deletion to the
\* end of the process, a handler that outlived the drain may be given the
\* address of a sandbox that is gone.
EntryBacked ==
  \A s \in DOMAIN sessions :
    /\ sessions[s].claimName \notin Condemned
    /\ sessions[s].claimName \in Live \/ Closing

\* Two sessions are never routed to the same agent, although pod addresses
\* are reused: the map forgets an address before the cluster can give it out
\* again. Needs pods that live as long as their claims (~PodsFail), and says
\* nothing of the window in which Close deletes the sandboxes of entries that
\* handlers may still hit.
NoSharedAgent ==
  ~Closing =>
    \A s, t \in DOMAIN sessions :
      s # t => sessions[s].baseURL # sessions[t].baseURL

\* Every running sandbox is in the map, in the hands of a handler or of a
\* deletion under way, unless it was lost in one of four ways: a concurrent
\* first message overwrote its entry; its deletion failed; its CreateSandbox
\* call failed, or returned when Close had listed what it deletes; or the
\* process died without Close or in the middle of the call. A shutdown with
\* Close loses no other.
Accounted ==
  Live \subseteq Tracked \cup InHand \cup Condemned \cup raced \cup GivenUp

\* As Accounted, without the race: with one request per session in flight,
\* Acquire's gap between its two critical sections leaks nothing. (A failed
\* create, a failed delete or a crash still may.)
NoLeak ==
  Live \subseteq Tracked \cup InHand \cup Condemned \cup GivenUp

\* The reaper never deletes the sandbox a stream is coming from. lastSeen is
\* written when a request starts and not while it runs, so this needs streams
\* no longer than the idle TTL (MaxStream <= IdleTTL, no caller of Release).
\* Close does cut the streams that have outlived the drain.
StreamNotCut ==
  ~Closing =>
    \A r \in DOMAIN req : req[r].at = "streaming" => req[r].claim \in Live

\* The agent of each session, and the sandboxes that no session may be given
\* any more: those created, except the ones in the hands of Acquire.
AgentOf ==
  [s \in Sessions |->
     IF s \in DOMAIN sessions THEN sessions[s].claimName ELSE None]
Spent ==
  {c \in Claims : /\ cluster[c] # "unused"
                  /\ \A r \in DOMAIN req :
                       req[r].at = "created" => req[r].claim # c}

Assignment == INSTANCE AgentAssignment WITH
  Agents <- Claims, agent <- AgentOf, spent <- Spent

\* The map implements the abstract assignment of agents to sessions: a session
\* keeps its agent until it is retired, and no agent serves a second session.
\* Holds for serial clients.
ImplementsAssignment == Assignment!Spec

\* A closed tab does not keep its pod: a session that is not busy again and
\* again has its sandbox deleted, unless the broker gave the claim up (the
\* delete failed, the process died, or it was created while Close ran).
Busy(s) == \E r \in DOMAIN req : req[r].session = s
Reclaimed(c) == cluster[c] = "deleted" \/ c \in GivenUp
IdleReclaimed ==
  \A s \in Sessions, c \in Claims :
    []<>Busy(s) \/ (Tracks(s, c) ~> Reclaimed(c))
==============================================================================
