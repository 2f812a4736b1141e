----------------------------- MODULE RateLimiter -----------------------------
(***************************************************************************)
(* The agent's per-client rate limiter (internal/ratelimit/ratelimit.go):  *)
(* token buckets that are refilled lazily, when their client asks, and     *)
(* dropped by a reaper once they must be full.                             *)
(*                                                                         *)
(* Time is counted in ticks, TicksPerSecond to the second. Tokens are      *)
(* counted in parts, as many to a token as make the refill of a tick a     *)
(* whole number, Rpm; the code's float64 arithmetic is taken to be exact.  *)
(* Every call holds l.mu from start to end, so calls are atomic.           *)
(***************************************************************************)
EXTENDS Integers

CONSTANTS
  Keys,            \* client addresses
  Rpm,             \* RATE_LIMIT_RPM, above 0: the limiter is on
  Burst,           \* RATE_LIMIT_BURST
  TicksPerSecond   \* resolution of the clock

ASSUME LimiterAssumption ==
  /\ Rpm \in Nat \ {0}
  /\ Burst \in Nat \ {0}
  /\ TicksPerSecond \in Nat \ {0}

VARIABLES
  buckets,  \* l.buckets: key -> [tokens, idle], idle being now - last
  verdict,  \* the last decision of Allow: <<key, admitted>>, or <<>>
  excess    \* history, read by the properties only: see RateBound

vars == <<buckets, verdict, excess>>

Price == 60 * TicksPerSecond     \* the parts of one token
Cap == Burst * Price
Rate == Rpm                      \* ratePerSec, in parts per tick

\* reap's cutoff, truncated to whole seconds, in ticks.
FullAfter == ((60 * Burst) \div Rpm) * TicksPerSecond

\* Bound: a bucket idle for that long is full and reapable, and a longer idle
\* time makes no difference.
MaxIdle == FullAfter + TicksPerSecond

Bucket == [tokens : 0..Cap, idle : 0..MaxIdle]

TypeOK ==
  /\ DOMAIN buckets \subseteq Keys
  /\ buckets \in [DOMAIN buckets -> Bucket]
  /\ verdict \in {<<>>} \cup (Keys \X BOOLEAN)
  /\ excess \in [Keys -> Nat]

Least(a, b) == IF a <= b THEN a ELSE b
Put(f, k, v) == [x \in DOMAIN f \cup {k} |-> IF x = k THEN v ELSE f[x]]
Without(f, S) == [x \in DOMAIN f \ S |-> f[x]]

Init ==
  /\ buckets = [k \in {} |-> 0]
  /\ verdict = <<>>
  /\ excess = [k \in Keys |-> 0]

Admit(k) ==
  /\ verdict' = <<k, TRUE>>
  /\ excess' = [excess EXCEPT ![k] = @ + Price]

Refuse(k) ==
  /\ verdict' = <<k, FALSE>>
  /\ UNCHANGED excess

\* Seeded bug: a new bucket is full and the first request is free.
AllowNewFree(k) ==
  /\ k \notin DOMAIN buckets
  /\ buckets' = Put(buckets, k, [tokens |-> Cap, idle |-> 0])
  /\ Admit(k)

\* Allow for a new client: its bucket starts full and pays for this request.
AllowNew(k) ==
  /\ k \notin DOMAIN buckets
  /\ buckets' = Put(buckets, k, [tokens |-> Cap - Price, idle |-> 0])
  /\ Admit(k)

\* Seeded bug: the refill is not capped at burst.
RefilledUncapped(k) == buckets[k].tokens + buckets[k].idle * Rate

\* A bucket's tokens once it has been refilled for the elapsed time.
Refilled(k) == Least(Cap, buckets[k].tokens + buckets[k].idle * Rate)

\* Allow for a known client: refill, then pay or be refused.
AllowKnown(k) ==
  /\ k \in DOMAIN buckets
  /\ \/ /\ Refilled(k) >= Price
        /\ buckets' = [buckets EXCEPT ![k] = [tokens |-> Refilled(k) - Price, idle |-> 0]]
        /\ Admit(k)
     \/ /\ Refilled(k) < Price
        /\ buckets' = [buckets EXCEPT ![k] = [tokens |-> Refilled(k), idle |-> 0]]
        /\ Refuse(k)

\* Seeded bug: half the time is taken to be enough to refill.
ReapableEarly(k) == 2 * buckets[k].idle > FullAfter

Reapable(k) == buckets[k].idle > FullAfter

\* The reaper drops every bucket that has been idle long enough.
Reap ==
  /\ \E k \in DOMAIN buckets : Reapable(k)
  /\ buckets' = Without(buckets, {k \in DOMAIN buckets : Reapable(k)})
  /\ UNCHANGED <<verdict, excess>>

\* Time passes. Of what was admitted, Rate more is paid for.
Tick ==
  /\ buckets' = [k \in DOMAIN buckets |->
       [buckets[k] EXCEPT !.idle = IF @ < MaxIdle THEN @ + 1 ELSE @]]
  /\ excess' = [k \in Keys |-> IF excess[k] <= Rate THEN 0 ELSE excess[k] - Rate]
  /\ UNCHANGED verdict

Next ==
  \/ \E k \in Keys : AllowNew(k) \/ AllowKnown(k)
  \/ Reap
  \/ Tick

Spec == Init /\ [][Next]_vars

-----------------------------------------------------------------------------
(* Properties *)

\* The cutoff is no shorter than it takes to refill: the refill time is a
\* whole number of seconds and is not truncated.
Exact == FullAfter * Rate >= Cap

\* In any stretch of time, a client is admitted at most Burst times plus what
\* Rpm allows for that time. excess is what was admitted, less Rate per tick,
\* since the moment that makes it largest. Needs Exact: otherwise a client
\* whose bucket is dropped early gets a full one back.
RateBound == \A k \in Keys : excess[k] <= Cap

\* Dropping buckets makes no difference: each decision is the one the ideal
\* bucket, which forgets no client, would make. Needs Exact.
Level(k) == IF k \in DOMAIN buckets THEN Refilled(k) ELSE Cap
Ideal == INSTANCE TokenBucket WITH level <- [k \in Keys |-> Level(k)]
DecidesAsIdeal == Ideal!Spec
==============================================================================
