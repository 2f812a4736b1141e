# A TLA+ model of lfpweather-agent

The repository holds two Go programs. The **broker** (`cmd/lfpweather-broker`) takes
chat requests from browsers, gives each session an agent of its own in a Kubernetes
sandbox, proxies the request to it and keeps a daily token budget. The **agent**
(`cmd/lfpweather-agent`) keeps conversations, runs the tool-use loop against the
Messages API and an MCP server, and streams the answer as server-sent events.

This directory models both programs' own logic and checks the models with TLC on
small instances. All that a passing run checks, except for liveness, is also proved with
TLAPS for every value of the constants, some of it under conditions (section 5). `PROJECT.json` maps every
definition to the lines it stands for.

## 1. Inventory

| Component | State | Operations | What is hard about it | What makes it correct |
|---|---|---|---|---|
| Session map (`broker/sandbox.go`) | `sessions`: session id to claim, URL, lastSeen; the cluster's sandboxes | `Acquire`, `Release`, `reap`, `deleteClaim`, `Close`, `Targets` | `Acquire` lets go of the lock while it creates a sandbox; creates fail half-way; deletions happen after the lock; URLs are cached; the map is lost in a crash and outlives `Close`; deletes fail | routes only to live sandboxes, never two sessions to one; leaks no sandbox; cuts no stream; a closed tab's sandbox is deleted |
| Direct provider (`broker/provider.go`) | none | `Acquire`, `Targets` | the process behind the URL restarts | as the budget |
| Broker chat handler (`broker/server.go`) | none of its own | `handleChat` | holds a URL long after `Acquire` returned it; budget check and spending are far apart; the agent learns late that the handler has gone | refuses above the budget; the overspend is bounded; a request reaches its own session's agent only |
| Broker process (`cmd/lfpweather-broker`) | lifecycle | start, SIGTERM, drain, `Close` | requests in flight while `Close` runs, and bodies still being read; crash; the next process knows nothing | leaks no more than it must; forgets no more than a day's total |
| Budget tracker (`broker/budget.go`) | `daily`, `last`, `day` | `Record`, `Prune`, `Exceeded`, `Snapshot`, `rollLocked` | counters start over; midnight | no token twice; none missed; a day's total is that day's |
| Usage poller (`broker/usage.go`) | a copy of the targets | `pollOnce`, `fetch` | the copy goes stale; fetches fail | as the tracker |
| Usage counters (`usage/usage.go`) | five atomics | `Record`, `Snapshot` | read and written one after the other | monotonic |
| Session store (`session/session.go`) | `sessions`: id to `*Session`; per session `Mu`, `History`, lastSeen | `Get`, `reap` | an object outlives its entry; idle time is not touched while messages wait or run | one message at a time; no answer lost |
| Agent chat handler (`server/server.go`) | none of its own | `handleChat`, `rateLimited` | waits for `Mu` outside the timeout; its caller may hang up | every message ends; one answer at a time; the client's last event and the session's history agree |
| Agent process (`cmd/lfpweather-agent`) | lifecycle | start, reapers, SIGTERM, drain | the drain may be shorter than a message; everything is in memory | remembers a session for as long as the broker routes to it |
| Agent loop (`agent/agent.go`, `limits.go`) | history, turn, attempt | `Run`, `stream`, `callTool` | failures half-way through a stream; retry; turn cap; deadline | well-formed events and histories; bounded calls |
| Rate limiter (`ratelimit/ratelimit.go`) | token bucket per client | `Allow`, `reap` | lazy refill; buckets dropped | rate bound; dropping is invisible |
| MCP client, tools, config, metrics, telemetry, logging, health endpoints, deployment | - | - | - | not modelled, see section 7 |

How they interact: a browser's request passes the broker's `handleChat`
(`Exceeded`, then `Acquire`, then the proxied stream), arrives at the agent's
`rateLimited` handler (`Allow`), and goes on to `handleChat` (`Get`, `Mu`, `Run`,
write-back). The poller calls `Targets` of the provider, `/usage` of each agent, and
`Record` and `Prune` of the tracker. Three reapers (provider, store, limiter) and the
poller are goroutines on tickers. There is no other shared state.

## 2. Modules

| Module | Models |
|---|---|
| `AgentAssignment` | abstract: a session has one agent at a time, an agent serves one session ever |
| `SandboxProvider` | the session map, the handlers around it, the reaper, the process's end and the cluster |
| `SandboxProviderProofs`, `SandboxRoutingProofs` | theorems about `SandboxProvider` |
| `UsageBudget` | tracker and poller over agents that come, go and spend, and a broker that restarts |
| `UsageBudgetProofs` | theorems about `UsageBudget` |
| `ChatBudget` | extends `UsageBudget` with the chats: budget check, `Acquire`, stream |
| `ChatBudgetProofs` | theorems about `ChatBudget`, which rest on those about `UsageBudget` |
| `Conversation` | the agent's session store and the lock-run-write-back part of its handler |
| `ConversationProofs` | theorems about `Conversation` |
| `ChatService` | composes `SandboxProvider` with one `Conversation` per sandbox |
| `ChatServiceProofs` | theorems about `ChatService`, from the lemmas about its two parts |
| `AgentRun` | one conversation's messages through `Run`, `stream` and `callTool` |
| `AgentRunProofs` | theorems about `AgentRun` |
| `TokenBucket` | abstract: the token bucket that forgets no client |
| `RateLimiter` | `Limiter`, with its reaper |
| `RateLimiterProofs` | theorems about `RateLimiter` |
| `MC...` | TLC instances; symmetry sets only |

Operators commented "Seeded bug" (`DeltaUnchecked`, `ExpiredEarly`, `NotSeen` and so on) are wrong
versions of the definition that follows them. No specification uses them: they are the
mutants listed in `PROJECT.json`, each of which must break the property it is listed with.

### SandboxProvider

`p.sessions` is the partial function `sessions`. `lastSeen` is only ever compared with
`now - idleTTL`, so an entry carries the time since, which `Tick` advances. `Acquire` is cut
where it unlocks: `AcquireHit` or `AcquireMiss` (first critical section), `CreateReturns`,
`CreateFails` or `CreateOrphans` (the cluster call), then `Discard` (no pod address) or `Store`
(second critical section, which overwrites). `CreateOrphans` is the call that fails, times out
or is cancelled with the request when the cluster already has the claim: what the client then
does is the library's affair, so a live claim that nobody knows by name is one of the outcomes.
`reap` is cut likewise: `Reap` takes the expired entries out of the map under the lock into the batch `stale`, `DeleteClaim` deletes one claim. The reaper's goroutine
finishes a batch before it looks again, hence `stale = {}` in `Reap`. `Release` exists
in the interface and nothing calls it; `CallsRelease` lets it happen.

The end of the process takes three phases. `Stop` (SIGTERM) closes the listener and begins the
drain; requests that were accepted before it may still be reading their body and reach
`Acquire` at any later time (`reading`: every request not in flight, which is the most there
could be). `CloseLists` is the beginning of `Close`, when the drain is over or has timed out, and
`CloseDeletes` deletes one sandbox after the other (`doomed`). `Close` touches neither the map nor
the handlers: until `Exits` those that outlived the drain go on, hit entries whose sandbox is
gone, and create sandboxes that are not in the list (`missed`). The list is made by the client
library and holds at least the sandboxes whose creation has returned. `Crash` ends the process at
any point, also in the middle of this. The next process starts with an empty map; a claim whose
`CreateSandbox` was in flight may still come into being (`BornLate`). A claim that does so after
`CreateOrphans`, or with no process left, is modelled as being there at once, and the pod of a late one
without an address: nobody uses it.

The cluster is external: a claim gets a pod with an address nobody else has, or none;
a deletion may fail; a pod may die (`PodsFail`), and addresses are reused.
`raced`, `undeleted`, `missed` and `abandoned` are history variables that say why a claim was lost.

### UsageBudget

`pollOnce` is cut at every point where it holds no lock: `PollStart` (`Targets`), per key
`Fetch` or `FetchFails`, `Record`, and `PollEnd` (`Prune`). Between them agents start
(`Acquire`; in direct mode `TakesOver`), stop, leave the map and spend, `Midnight` may pass
and the broker's process may end and start anew (`Restarts`): tracker, poller and map are
then empty (`Fresh`), the agents that nobody deleted run on.
`Rolled` is `daily` after `rollLocked`, which `Record`, `Exceeded` and
`Snapshot` begin with. The input and output counters of an agent are one number that
grows by one, since a poll may read between their two additions. `mode` is chosen
initially. `spent`, `read` and `counted` are running totals of this process that the
properties compare; `moved` and `renewed` are history variables that say whether an address,
or a key the tracker still knows, has been reused.

### ChatBudget

Each chat of the broker is an entry of `chat` from the moment it has passed `Exceeded`
(`Admitted`). It is given a known agent (`Hit`) or waits
for a new one without the lock (`Miss`, `Created`), and then its agent spends what it costs one
token at a time (`Streams`), in any order with the poller's steps and midnight. The broker's handler
(`Returns`, or the end of its process) and the agent's work on the chat (`AgentEnds`) end
separately: an agent notices later that nobody listens, and what it records until then
counts. `exposed` is set when
a chat is admitted, and when the process starts anew: what is spent and not read yet, plus what
the chats in flight, or still worked on by an agent, may spend. That is a sum over the handlers; `MayStillSpend` writes it as the size of a set
of pairs of a handler and one of its tokens, which the library's theorems about
finite sets can reason about.

### Conversation

A `*Session` may outlive its entry, so objects are identities (`Objs`): `GetMiss` takes one
that was never used. A handler in `msg` remembers its object, waits for `holder` of that
object to be free (`Lock`), keeps the history it read (`base`), and ends with `Succeed`
(write-back of `base` plus the exchange) or `Fail`. The timeout starts with the lock, so
`age` counts from there. `ProcessEnds` takes everything with it: a crash, or SIGTERM once the
handlers are done or the drain is used up. Both it and `Reap` are given the ids that their
process serves, so that `ChatService` can have many.

### ChatService

`SandboxProvider` with an agent in each claim's pod: conversations are keyed by claim and
session id, so `Agent == INSTANCE Conversation` with `Ids <- Claims \X Sessions` is all
agents at once. A request that `Acquire` has given an address is delivered to whoever has
that address when it arrives (`Deliver`), or does not get as far as the agent's store
(`NotTaken`): the agent answers 429 or 400, nobody listens, or the browser has hung up. The broker
has marked its entry seen all the same, so from then on its clock is ahead of the agent's: `unheard`
remembers the claims this has happened to. The broker's stream and the agent's handler end
separately: the browser may hang up (`StreamEnds`) while its
message still waits for `Mu` or runs. A pod that goes takes its agent's conversations along
(`LostWithPods`). Broker and agents share the clock (`TimePasses`). Three things are assumed
there: a browser sends a request once and hangs up only after it has reached an agent; a tick
is longer than the interval of the broker's reaper, than the deletion of a batch, and than
the cancellation of a request takes to reach `Run`; and nothing calls `Release`, as in the code.

### AgentRun

A history is a sequence of turns; all that matters of one is who wrote it and how many
tool calls it makes or answers. `stream` is `NewStream`, `Delta`, then `Reply`,
`FailAndRetry` (to `Retry` or `GiveUp`) or `FailForGood`. The model, the tools and the
deadline are nondeterministic; a tool call (`FinishTool`) ends in a result or in an error,
and the code may not tell the two apart in its events. `CutOff` is that each of these calls is
made with the message's context. `CutsToolUse` decides whether a response may stop for
another reason than `tool_use` and still hold a tool call (`max_tokens` does that).

### RateLimiter

Tokens are counted in parts such that the refill of a tick is a whole number. `Allow` is
`AllowNew` or `AllowKnown`. The cutoff of `reap` is truncated to whole seconds
exactly as the code does it. Every call holds the lock from start to end.

## 3. Runs

All bounds are constants of the configurations. "Violation" runs check something a
comment or the README of the repository says, and find that the code does otherwise;
each is a finding in `PROJECT.json` with the quotation.

| Run | Bounds | Shows |
|---|---|---|
| `routing_concurrent` | 2 sessions, 2 requests (ids are reused), 3 claims, 2 addresses, TTL 1, streams up to 1 tick | `TypeOK`, `EntryBacked`, `NoSharedAgent`, `Accounted`, with concurrent first messages, creates that fail with a claim left behind, `Release`, crashes, and shutdowns with handlers that go on beside `Close`. Two handlers race for one entry, or one outlives the drain and hits what `Close` has deleted while the other creates; three claims let a race happen beside a second session; two addresses force reuse |
| `routing_serial` | 2 sessions, 2 requests, 2 claims, TTL 2, streams up to 2; no symmetry | `NoLeak`, `StreamNotCut`, the refinement `ImplementsAssignment` and the liveness `IdleReclaimed`; pods fail. Two claims suffice for a session to lose one agent and get another; the first three are also proved for any number |
| `leak_race` | concurrent clients | violation of `NoLeak` |
| `shared_agent` | pods fail | violation of `NoSharedAgent` |
| `budget_counts` | 2 keys, 2 agents with up to 2 tokens each, 2 addresses, budget 2, one midnight, one restart of the broker, both modes | `TypeOK`, `NoDoubleCount`, `CountedOnce`, `DailyBound`, `RefusesTillMidnight`. A key gets its second agent, an address moves, a counter starts over below, at and above the old count, polls straddle midnight, and a new process meets old agents |
| `budget_chats` | 1 key, 2 agents, 1 address, 2 chats of up to 1 token, budget 1, one midnight, one restart, both modes; no symmetry | `ChatTypeOK`, `OverspendBounded` and the liveness `BudgetBites`. Two chats suffice for one to be admitted while the other is still spending, or while its agent goes on after its handler has returned or a restart, two agents for usage to be lost with the first |
| `chat_service` | 2 sessions, 2 requests, 2 claims, 2 addresses, idle TTL 1, streams up to 1 tick, session TTL 3, timeout 1; concurrent clients, pods fail | `ServiceTypeOK`, `OneSessionPerAgent`, `RememberedWhileRouted`, `OneAnswerAtATime`. Two requests are one that creates a sandbox, may be cancelled and still be at work, and one that is turned away, replaces it or comes from another session; each is sent once. The session TTL is the shortest that outlasts the broker's. All three properties are also proved for any number of requests |
| `conversation` | 2 ids, 3 messages, 3 objects, timeout 1, TTL 3; no symmetry | `TypeOK`, `OneRunPerSession`, `HistoryFaithful`, `NotForgotten`, `HistoryOnlyGrows` and the liveness `EveryMessageEnds`; the process may end at any time. The TTL is exactly what three queued messages need; with one tick less TLC finds `NotForgotten` violated |
| `run_events` | 2 turns, 2 messages, 2 deltas and 2 tool calls per response | `TypeOK`, `NoRepeatedText`, `EventProtocol`, `RequestsAccepted`, `ModelCallsBounded`, `LastEventTells` and the liveness `EndsByDeadline`. Two messages, so that a history built by one is sent by the next; two turns, so that the cap is met with and without a tool call before |
| `run_cut_tool_call` | 1 delta, 1 tool call | violation of `RequestsAccepted` |
| `limiter_exact` | 40 per minute, burst 2, 4 ticks per second: refill 3 s | `TypeOK`, `RateBound`, and the refinement `DecidesAsIdeal` |
| `limiter_truncated` | 40 per minute, burst 1: refill 1.5 s | violation of `RateBound` |

Symmetry is used in the safety runs only, over sets whose members no definition tells
apart. `AgentRun` stops after its last message, so its runs do not check for deadlock;
in the others time or the poller always goes on.

### Conditions the properties need

Several properties hold under a condition on the environment and fail without it.

- `NoLeak` and `ImplementsAssignment`: one request per session in flight (`SerialClients`).
  The code does not enforce it. Run `leak_race` drops it.
- `EntryBacked`, `NoSharedAgent`, `StreamNotCut`: `Close` has not begun. From its first deletion to
  the end of the process the map still holds the deleted sandboxes' addresses, and handlers that
  outlived the drain may be given them; `Close` also cuts the streams that are still open. That
  window is in the model and excepted by name (`Closing`). The first part of `EntryBacked`, that
  no entry names a claim which `reap` or `Release` has taken out, holds in it too.
- `Accounted`: a sandbox is lost in four ways and no fifth: its entry was overwritten by a concurrent
  first message, its deletion failed, its creation failed or returned too late for `Close`, or its
  process died without `Close` or in the middle of the call.
- `NoSharedAgent`: besides, a pod lives as long as its claim (`~PodsFail`). Run `shared_agent` drops it.
- `StreamNotCut`: besides, `MaxStream <= IdleTTL`, since `lastSeen` is written when a request
  starts. With the defaults (120 s per message, which `REQUEST_TIMEOUT` is in the code, though
  the repository's README says 90 s; 15 min) it takes about eight messages queued on one
  session to break it.
- `NoDoubleCount`, `DailyBound`: no address passes from one key's agent to another key's
  (`~moved`). If one does between the copy of the targets and a fetch, the new agent's
  tokens are recorded under the old key and again under its own.
- `CountedOnce`: besides, no key gets its next agent while the tracker knows it
  (`~renewed`). The comment on `Record` says that a new agent reusing a key is counted from
  zero, which is so only if its count is below the old one's: otherwise the difference is
  all that is counted.
- `OverspendBounded`: both of these. What agents spend after their chat's handler has returned, or
  after a restart of the broker, is in the bound (`exposed`). Its "day" begins with the process when the broker has
  restarted since midnight: a restart forgets what was spent before, and in direct mode it
  counts an old agent's whole history as today's. `DailyBound` and `RefusesTillMidnight` say the same.
- `OneSessionPerAgent`, `RememberedWhileRouted`: pods live as long as their claims, and streams
  are no longer than either idle TTL. The second also needs `SESSION_TTL` above `SANDBOX_IDLE_TTL`
  by a stream (30 min and 15 min by default): an agent's clock starts after the broker's. Both
  are settings of different programs that nothing compares.
- `OneSessionPerAgent` excepts claims in `missed`: a sandbox that comes up while `Close` deletes others, or
  from a call that failed, may be given the address of one of them and receive a request that a
  handler which outlived the drain was sending there.
- `RememberedWhileRouted` excepts claims in `unheard`: a request that the agent turns away (429 of
  its limiter, 400 for a missing message) refreshes the broker's clock and not the agent's. A tab
  that only sends such requests keeps its pod, and finds after `SESSION_TTL` that the agent in it
  has forgotten the conversation. Nothing in the code prevents that.
- `OneAnswerAtATime`: pods live as long as their claims, as above. Even then an agent whose claim
  the broker has given up, or lost in the race of first messages, may still be answering beside
  its successor. The condition on pods came out of the proof: with three claims, the stream to a
  dead pod's address may be delivered to another session's pod that has the address now, while
  the session's own entry is overwritten. The two claims of `chat_service` are too few for that.
- `DailyBound` bounds the new day by what had not been counted at midnight: tokens spent
  before midnight and polled after it do count towards the new day, whatever the comment on
  `rollLocked` says.
- `OneRunPerSession`, `NotForgotten`: the TTL outlasts the queue (messages times timeout).
  With the defaults (120 s, 30 min) fifteen messages waiting on one session break it: the
  reaper evicts the session and the next message runs beside the last of them.
- `RateBound`, `DecidesAsIdeal`: `Exact`, a refill time of whole seconds. The defaults
  (20 per minute, burst 5: 15 s) satisfy it. Run `limiter_truncated` drops it.
- `RequestsAccepted`: `~CutsToolUse`. Run `run_cut_tool_call` drops it.

The client of the event stream must also expect `error` followed by `done`: that is how
`Run` reports the turn cap, although the README's table says of `done` that the answer is
complete. `EventProtocol` states what does hold.

## 4. Fairness

- `SandboxProvider`: weak fairness of `Tick`, of `Reap` while the broker serves, of each
  `DeleteClaim` (a 30 second timeout bounds the call), of the end of a stream (the agent
  bounds it by `REQUEST_TIMEOUT`), of `CloseLists` once the drain began (it has a timeout), and of each
  `CloseDeletes` (`Close` has no timeout, but a deletion that hangs ends with the process when the
  kubelet kills it, which fails that deletion and `Crash` allows). None for clients, `CreateSandbox` or the cluster.
- `UsageBudget`, `ChatBudget`: weak fairness of the poller's steps (ticker, five second timeout per
  fetch); strong fairness of a successful fetch: an agent that keeps listening answers
  some of the polls. None for agents, sessions or chats.
- `Conversation`: weak fairness of the end of a run (its timeout), strong fairness of
  `Lock`: Go's mutex goes into starvation mode and hands itself to a waiter that has
  waited for more than a millisecond.
- `AgentRun`: weak fairness of the deadline's timer, of the handler's own steps, of the one
  second pause, and of the return of a call whose context is over. None for an answer of the
  model or of a tool. A write to the client is taken to return.
- `ChatService` has safety properties only.

## 5. Proofs

TLAPS proves, for all values of the constants that satisfy the modules' assumptions:

### SandboxProvider

| Theorem | States |
|---|---|
| `TypeCorrect` | `Spec => []TypeOK` |
| `EntriesBacked` | `Spec => []EntryBacked` |
| `SandboxesAccounted` | `Spec => []Accounted` |
| `SerialClientsLeakNothing` | `SerialClients => (Spec => []NoLeak)` |
| `SessionsShareNoAgent` | `~PodsFail => (Spec => []NoSharedAgent)` |
| `StreamsNotCut` | `MaxStream <= IdleTTL /\ ~CallsRelease => (Spec => []StreamNotCut)` |
| `AssignmentImplemented` | `SerialClients => (Spec => ImplementsAssignment)` |

(`ProviderAssumption` names the constants' types only.) The argument:

- `EntryBacked` is not inductive: `Store` puts a claim into the map that must be live and
  not condemned, and a deletion must not hit a claim that is in the map under another
  session. `OneOwner` strengthens it: each live claim the broker knows has exactly one
  owner, being an entry, a handler that holds it, or a pending deletion. While `Close` runs,
  owners need not be live any more, and still nothing is owned twice. Its heart is
  that `CreateReturns` takes a claim that was unused, and that every step that moves a
  claim moves it from one owner to the next.
- `Accounted`: each action that takes a live claim from an owner gives it to another or to one of
  the four history sets. At the exit of a process that has run `Close` the owners are gone, and
  `Listed` says that nothing is lost by it: while `Close` runs, a live claim is in its list or in
  one of the history sets, so the end of the list leaves none.
- `NoLeak` needs `OneAtATime`: when a handler is inside `Acquire` after a miss, its session
  has no entry and no other handler. Then `Store` overwrites nothing and `raced` stays empty.
- `NoSharedAgent` needs `Addressed`: an entry's URL, and that of a handler about to store
  one, is the address of its claim's pod now; no two pods have the same address.
- `StreamNotCut` needs `StreamsHeld`: the claim of an open stream is in the map, idle for no
  longer than the stream is old, or has been overwritten there; then it stays live until `Close`
  deletes it. `Tick` keeps this since a stream is over by `MaxStream`.
- The refinement maps `agent` to the claim of a session's entry and `spent` to all claims
  ever created except those in the hands of `Acquire`. `Store` is `Assign`; everything else
  that changes the two is `Retire`, or a stutter.

### Conversation

| Theorem | States |
|---|---|
| `TypeCorrect` | `Spec => []TypeOK` |
| `ObjectsAreExclusive` | `Spec => []OneRunPerObject`: the runs on one object follow one another |
| `NoUpdateLost` | `Spec => HistoryOnlyGrows` |
| `KeptWhileBusy` | `TTL >= Q * Timeout`: `Spec /\ []QueuesBounded(Q) => []NotForgotten` |
| `SessionsAreExclusive` | the same: `[]OneRunPerSession` |
| `AnswersKept` | the same: `[]HistoryFaithful` |

The first three hold for every TTL, also where `OneRunPerSession` fails. The
write-back is `base` plus an exchange, `base` having been read at the lock, so
`HistoryOnlyGrows` needs `base` to be the history still (`RunsOnCurrent`). That in turn needs
that nobody else writes: `Linked` says that a handler that runs is the holder of its object,
and `Held` that the holder is a handler that runs on it.

The last three are about a session, not an object, and need that the reaper evicts no session
with messages. `lastSeen` is the arrival of the newest of them, so all that bounds its age is
how long the others may take. `QueuesBounded(Q)` says that no session ever has more than `Q`
messages waiting or running: an assumption on the clients, as the code limits nothing; with the
defaults (30 min, 120 s) `Q` is 15. `IdleBounded` is the inductive form: an entry with n
messages has been idle for no longer than `Q - n` timeouts and the age of the run under way. It
is what `Get` establishes, what `Unlock` keeps by making room for one timeout more, and what
`Tick` keeps since a run is over by its timeout and a free mutex is taken before time passes.
From there `Kept` (entry and messages agree on the object, no two entries share one, a
mutex is held by a run) makes the object's mutex the session's.

### UsageBudget and ChatBudget

| Theorem | States |
|---|---|
| `TypeCorrect` | `Spec => []TypeOK` |
| `RefusalLasts` | `Spec => RefusesTillMidnight` |
| `NothingCountedTwice` | `Spec => []NoDoubleCount` |
| `AllReadCounted` | `Spec => []CountedOnce` |
| `DayBounded` | `Spec => []DailyBound` |
| `ChatsKeepBudget` | `ChatSpec => Spec`: the chats only do to agents and tracker what `UsageBudget` allows |
| `ChatTypesCorrect` | `ChatSpec => []ChatTypeOK` |
| `OverspendIsBounded` | `ChatSpec => []OverspendBounded` |

The conditions `~moved` and `~renewed` are in the properties. `NoDoubleCount` compares two
totals; what makes it inductive relates the map of last readings to the agents behind the keys.
`Routed`: an address known under a key has been that key's only. `Readings`: what `last` has
under a key is the latest reading of the agent there, or that agent has not been read at all.
The delicate case is an agent that comes up under a key in the middle of a poll which has read
its predecessor: the poll will not prune that key, so the new agent starts from the
old reading, and counts too little, never too much. `Exact` is the same with no such agent,
and gives `CountedOnce`.

`DailyBound` is `DayTotal` (the tracker's total is what was counted since the day or the process
began) with `read <= spent`. Both are running totals, so the latter needs that they are the
sums they stand for (`Sums`). A sum over a finite set is written as the size of a set of pairs,
since a recursive sum is out of the prover's reach. `OverspendBounded` needs `Covered`: with what the
chats in flight and the agents of those that are not may still spend added on the left, it holds already when a chat is admitted,
and no later step of a chat changes that sum.

### AgentRun

| Theorem | States |
|---|---|
| `TypeCorrect` | `Spec => []TypeOK` |
| `CostBounded` | `Spec => []ModelCallsBounded` |
| `AnswersShownOnce` | `Spec => []NoRepeatedText` |
| `EventsInOrder` | `Spec => []EventProtocol` |
| `NoRequestRefused` | `~CutsToolUse`: `Spec => []RequestsAccepted` |
| `OutcomeTold` | `MaxTurns > 0`: `Spec => LastEventTells` |

Each needs what the place in the loop says of the variables (`Control`): inside a turn the cap
is not reached; a retry follows a first attempt only. `Charged` counts the calls by place.
`TextOfAttempt` ties the text of the current turn to the current attempt, of which `emitted`
says so: this is why `stream` may retry only before it. `Open` says that a message that is not
over has sent no end event, and that a running tool has just sent its start. `AllAnswered`
says that only the tool calls being made are without results, in particular none in the
history that a failed message leaves behind. `BuildsOnKept` says that `Run` works on an
extension of what the session has kept. With a cap of no turns the loop sends `done` for an exchange
without an answer, hence the condition of `OutcomeTold`; the default cap is 8.

### ChatService

| Theorem | States |
|---|---|
| `ServiceKeepsProvider` | `ServiceSpec => Spec`: the theorems about `SandboxProvider` hold here |
| `ServiceTypesCorrect` | `ServiceSpec => []ServiceTypeOK` |
| `AgentsArePrivate` | `StreamsFit`: `ServiceSpec => []OneSessionPerAgent` |
| `AgentsRemember` | `TimesFit`: `ServiceSpec => []RememberedWhileRouted` |
| `AnswersOneAtATime` | `StreamsFit`: `ServiceSpec => []OneAnswerAtATime` |

`StreamsFit` compares settings of the two programs: `MaxStream` is at most `IdleTTL` and at most
`SessionTTL`, and nothing calls `Release`. `TimesFit` has
`IdleTTL + 1 + MaxStream <= SessionTTL` besides. The defaults satisfy both (120 s, 15 min,
30 min) as long as queues are short, see section 3. `chat_service` checks the
smallest instance with a TTL above 0 that satisfies `TimesFit`, where it is tight. `~podLost` is
in the properties. The inductive invariant `ServiceInv` (`Base`, and with no pod lost `Private` and `Attached`) and
`Remembered`, which needs it, were checked on that instance before they were proved:

- `Base`, which needs no pod to live: `OneOwner`, `Listed` and `StreamsHeld` of the provider,
  the invariant and `Kept` of the conversations, and what joins them. `InFlight`: the agent of a
  message whose stream is open has seen the session since the stream began. So an agent
  with messages has been idle for no longer than a stream lasts (`BusyRecent`) and does not
  reap their session (`BusyNotReaped`): here no bound on the queue is needed, because
  a run whose caller has gone ends within a tick. `PodsBacked`: only a pod of a live claim
  has conversations. `HeldKnown`: a claim in `missed` exists or has
  existed, and until `Close` runs no handler holds one.
- `Private`: a stream's address is still that of the pod it was opened to (`Direct`), or the
  process is closing and the pod is gone; what has the address of a known claim then is that claim or one
  of `missed` (`Homed`). So a request is delivered to the agent of its claim or to one that the
  property excepts; and an agent that is not excepted has
  to do with one session only (`Exclusive`), be it by an entry, a stream or a conversation,
  while the sandbox that `Acquire` has in hand has to do with none.
- `Remembered`, for a serving broker and agents not in `unheard`: the conversation is all the agent has answered, and its clock is not ahead of the
  broker's, except for requests on their way to it, and then by no more than the age of
  one of them (`Clocks`). With `TimesFit` it does not run out (`ClockBound`).
- `Attached`: an agent at work on a session is the one the broker routes it to, unless its
  claim is lost. Two agents at work on one session are then one, and that one runs one message at
  a time by `Kept`.

### RateLimiter

| Theorem | States |
|---|---|
| `TypeCorrect` | `Spec => []TypeOK` |
| `RateIsBounded` | `Exact => (Spec => []RateBound)` |
| `DecisionsAreIdeal` | `Exact => (Spec => DecidesAsIdeal)` |

The level of a client is what its bucket would hold if it asked now, and a full bucket if it
has none. Four lemmas say what each action does to it: `Allow` takes one request or nothing,
`Reap` changes no level (this is where `Exact` is needed: a bucket idle for longer than the
cutoff is full), and `Tick` adds the rate up to the cap. The refinement maps the ideal bucket
to the level and follows at once. `RateBound` is strengthened to `Conserved`: what a client
has been admitted in excess of its rate is missing from its level. `WholeSecondsAreExact`
shows that `Exact` holds whenever the refill time is a whole number of seconds.

### Assumptions

The modules' assumptions give the constants their types: numbers are natural, `None` is
none of the claims, addresses, keys, requests or messages. Besides, the budget is not 0, nor are
the limiter's rate, burst and clock resolution: with a rate or a budget of 0 the code refuses
nothing (a burst of 0 is among the hazards). `ServiceAssumption` of `ChatService` is what its instance of
`Conversation` assumes.

### What stays with TLC

The four liveness properties, `IdleReclaimed`, `BudgetBites`, `EveryMessageEnds` and
`EndsByDeadline`: fairness needs ENABLED, which is out of the prover's reach.
Every other property of a passing run is a theorem.

## 6. Hazards

`PROJECT.json` lists what is hard to test in this code, each at its line, with the
properties that cover it. Not covered by a property: `fetch` ignoring the HTTP status,
tokens of failed attempts, a burst of 0, the wait for `Mu` that is outside the
timeout (it ends, but nothing bounds the queue), a write to a client that has stopped
reading, and the MCP session that is opened once and never again. The list says why, for each.

## 7. Not modelled

- Configuration, logging, metrics, telemetry, health endpoints, deployment files: start-up or
  recording code without state that any property depends on. The settings are the constants.
- The MCP client and the conversion of tool descriptions: one session, opened once, whose calls
  end in a result or an error; `AgentRun` lets each do either.
- Requests that the broker itself rejects: a body it cannot read, parse or find a session id in is
  answered before the budget check and `Acquire` (server.go:67-81). What the agent rejects is
  modelled, since the broker has marked its entry seen by then (`NotTaken`).
- How the rate limiter's key is derived from a request (`clientIP`). The proxy's `Rewrite`
  passes no `X-Forwarded-For` on, so behind the broker all sessions of an agent share a bucket.
- Texts: truncation of tool results, wording of errors, an assistant turn without content.
- Float64 rounding in the limiter, overflow of the int64 token counters.

## 8. Plan

Done, in this order: the session map with its abstract specification and proofs; the
budget; the conversations and proofs about their objects; the agent loop; the rate limiter
with its refinement proof; the chats between budget check and spending; broker and agents
together; restarts of either process; the deadline of a message; proofs about the agent loop,
the budget, the chats, the sessions under a TTL that outlasts their queues, and the service.

Next:

1. State that `ChatService` implements `Conversation` for each agent, so that the theorems about
   objects hold there too (`AgentSteps` is the step).
2. A safety form of the liveness properties that can be proved, such as a bound on how long an
   idle entry stays in the map.
