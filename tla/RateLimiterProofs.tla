--------------------------- MODULE RateLimiterProofs ---------------------------
(***************************************************************************)
(* Theorems about RateLimiter, for any number of clients, any rate, burst  *)
(* and resolution of the clock. Where the reaper matters they assume       *)
(* Exact: the refill time is a whole number of seconds.                    *)
(***************************************************************************)
EXTENDS RateLimiter, TLAPS

-----------------------------------------------------------------------------
(* Arithmetic *)

\* A burst is worth at least one request.
LEMMA Amounts ==
  /\ Price \in Nat /\ Price > 0
  /\ Cap \in Nat /\ Price <= Cap
  /\ Rate \in Nat /\ Rate > 0
  /\ FullAfter \in Nat
  /\ MaxIdle \in Nat /\ FullAfter < MaxIdle
  <1>1. Price \in Nat /\ Price > 0
    BY LimiterAssumption DEF Price
  <1>2. Cap \in Nat /\ Price <= Cap
    <2> DEFINE p == Price
    <2>1. p \in Nat /\ Burst \in Nat /\ Burst >= 1
      BY <1>1, LimiterAssumption
    <2> HIDE DEF p
    <2>2. Burst * p \in Nat /\ p <= Burst * p
      BY <2>1
    <2> QED
      BY <2>2 DEF Cap, p
  <1>3. Rate \in Nat /\ Rate > 0
    BY LimiterAssumption DEF Rate
  <1>4. FullAfter \in Nat
    <2> DEFINE q == (60 * Burst) \div Rpm
    <2>1. q \in Nat
      BY LimiterAssumption
    <2> HIDE DEF q
    <2>2. q * TicksPerSecond \in Nat
      BY <2>1, LimiterAssumption
    <2> QED
      BY <2>2 DEF FullAfter, q
  <1>5. MaxIdle \in Nat /\ FullAfter < MaxIdle
    BY <1>4, LimiterAssumption DEF MaxIdle
  <1> QED
    BY <1>1, <1>2, <1>3, <1>4, <1>5

\* What n ticks refill.
Gain(n) == n * Rate

LEMMA GainFacts ==
  /\ \A n \in Nat : Gain(n) \in Nat /\ Gain(n + 1) = Gain(n) + Rate
  /\ Gain(0) = 0
  /\ \A m, n \in Nat : m <= n => Gain(m) <= Gain(n)
  <1> DEFINE r == Rate
  <1>1. r \in Nat
    BY Amounts
  <1> HIDE DEF r
  <1>2. ASSUME NEW n \in Nat PROVE n * r \in Nat /\ (n + 1) * r = n * r + r
    BY <1>1
  <1>3. 0 * r = 0
    BY <1>1
  <1>4. ASSUME NEW m \in Nat, NEW n \in Nat, m <= n PROVE m * r <= n * r
    <2>1. PICK d \in Nat : n = m + d
      <3>1. n - m \in Nat /\ n = m + (n - m)
        BY <1>4
      <3> QED
        BY <3>1
    <2>2. n * r = m * r + d * r /\ d * r \in Nat /\ m * r \in Nat
      BY <1>1, <2>1
    <2> QED
      BY <2>2
  <1> QED
    BY <1>2, <1>3, <1>4 DEF Gain, r

LEMMA LeastFacts ==
  \A a, b \in Int : Least(a, b) <= a /\ Least(a, b) <= b /\ Least(a, b) \in {a, b}
  BY DEF Least

LEMMA RefilledGain ==
  ASSUME NEW k \in DOMAIN buckets
  PROVE  Refilled(k) = Least(Cap, buckets[k].tokens + Gain(buckets[k].idle))
  BY DEF Refilled, Gain

\* A bucket that has been idle for longer than the cutoff is full.
LEMMA ReapableFull ==
  ASSUME TypeOK, Exact, NEW k \in DOMAIN buckets, Reapable(k)
  PROVE  Refilled(k) = Cap
  <1>1. buckets[k].tokens \in Nat /\ buckets[k].idle \in Nat
    BY Amounts DEF TypeOK, Bucket
  <1>2. Gain(FullAfter) >= Cap
    BY DEF Exact, Gain
  <1>3. Gain(FullAfter) <= Gain(buckets[k].idle)
    <2> DEFINE n == buckets[k].idle
               f == FullAfter
    <2>1. n \in Nat /\ f \in Nat /\ f < n
      BY <1>1, Amounts DEF Reapable
    <2>2. \A x, y \in Nat : x <= y => Gain(x) <= Gain(y)
      BY GainFacts
    <2> HIDE DEF n, f
    <2>3. Gain(f) <= Gain(n)
      BY <2>1, <2>2
    <2> QED
      BY <2>3 DEF n, f
  <1>4. Gain(FullAfter) \in Nat /\ Gain(buckets[k].idle) \in Nat
    BY <1>1, Amounts, GainFacts
  <1>5. buckets[k].tokens + Gain(buckets[k].idle) >= Cap
    BY <1>1, <1>2, <1>3, <1>4, Amounts
  <1> QED
    BY <1>1, <1>4, <1>5, RefilledGain, Amounts DEF Least

LEMMA RefilledType ==
  ASSUME TypeOK, NEW k \in DOMAIN buckets
  PROVE  /\ Refilled(k) \in 0..Cap
         /\ buckets[k].idle = 0 => Refilled(k) = buckets[k].tokens
  <1>1. buckets[k].tokens \in 0..Cap /\ buckets[k].idle \in Nat
    BY Amounts DEF TypeOK, Bucket
  <1>2. Gain(buckets[k].idle) \in Nat /\ Gain(0) = 0
    BY <1>1, GainFacts
  <1> QED
    BY <1>1, <1>2, RefilledGain, Amounts DEF Least

\* Exact says that the refill time is a whole number of seconds.
LEMMA WholeSecondsAreExact ==
  ASSUME NEW s \in Nat, 60 * Burst = s * Rpm
  PROVE  Exact
  <1>1. (60 * Burst) \div Rpm = s
    BY LimiterAssumption
  <1>2. FullAfter = s * TicksPerSecond
    BY <1>1 DEF FullAfter
  <1>3. (s * TicksPerSecond) * Rpm = (s * Rpm) * TicksPerSecond
    BY LimiterAssumption
  <1>4. (60 * Burst) * TicksPerSecond = Burst * (60 * TicksPerSecond)
    BY LimiterAssumption
  <1>5. FullAfter * Rate = Cap
    BY <1>2, <1>3, <1>4 DEF Rate, Cap, Price
  <1> QED
    BY <1>5, Amounts DEF Exact

-----------------------------------------------------------------------------
(* Types *)

LEMMA InitTyped == Init => TypeOK
  BY DEF Init, TypeOK

LEMMA AdmitTyped ==
  ASSUME TypeOK, NEW k \in Keys, Admit(k) \/ Refuse(k)
  PROVE  verdict' \in Keys \X BOOLEAN /\ excess' \in [Keys -> Nat]
  <1>1. CASE Admit(k)
    <2>1. excess[k] + Price \in Nat
      BY Amounts DEF TypeOK
    <2> QED
      BY <1>1, <2>1 DEF Admit, TypeOK
  <1>2. CASE Refuse(k)
    BY <1>2 DEF Refuse, TypeOK
  <1> QED
    BY <1>1, <1>2

LEMMA StepTyped == TypeOK /\ [Next]_vars => TypeOK'
  <1> SUFFICES ASSUME TypeOK, [Next]_vars PROVE TypeOK'
    OBVIOUS
  <1>1. ASSUME NEW k \in Keys, AllowNew(k) PROVE TypeOK'
    <2>1. [tokens |-> Cap - Price, idle |-> 0] \in Bucket
      BY Amounts DEF Bucket
    <2>2. /\ DOMAIN buckets' \subseteq Keys
          /\ buckets' \in [DOMAIN buckets' -> Bucket]
      BY <1>1, <2>1 DEF AllowNew, TypeOK, Put
    <2>3. verdict' \in Keys \X BOOLEAN /\ excess' \in [Keys -> Nat]
      BY <1>1, AdmitTyped DEF AllowNew
    <2> QED
      BY <2>2, <2>3 DEF TypeOK
  <1>2. ASSUME NEW k \in Keys, AllowKnown(k) PROVE TypeOK'
    <2>1. k \in DOMAIN buckets /\ Refilled(k) \in 0..Cap
      BY <1>2, RefilledType DEF AllowKnown
    <2>2. PICK n \in 0..Cap : buckets' = [buckets EXCEPT ![k] = [tokens |-> n, idle |-> 0]]
      BY <1>2, <2>1, Amounts DEF AllowKnown
    <2>3. [tokens |-> n, idle |-> 0] \in Bucket
      BY Amounts DEF Bucket
    <2>4. /\ DOMAIN buckets' = DOMAIN buckets
          /\ buckets' \in [DOMAIN buckets -> Bucket]
      BY <2>2, <2>3 DEF TypeOK
    <2>5. Admit(k) \/ Refuse(k)
      BY <1>2 DEF AllowKnown
    <2>6. verdict' \in Keys \X BOOLEAN /\ excess' \in [Keys -> Nat]
      BY <2>5, AdmitTyped
    <2> QED
      BY <2>1, <2>4, <2>6 DEF TypeOK
  <1>3. CASE Reap
    BY <1>3 DEF Reap, Without, TypeOK
  <1>4. CASE Tick
    <2> DEFINE aged(k) == IF buckets[k].idle < MaxIdle THEN buckets[k].idle + 1
                                                       ELSE buckets[k].idle
    <2>a. ASSUME NEW k \in DOMAIN buckets
          PROVE  [buckets[k] EXCEPT !.idle = aged(k)] \in Bucket
      <3>1. buckets[k] \in Bucket
        BY DEF TypeOK
      <3>2. aged(k) \in 0..MaxIdle
        BY <3>1, Amounts DEF Bucket
      <3> QED
        BY <3>1, <3>2 DEF Bucket
    <2>1. /\ DOMAIN buckets' = DOMAIN buckets
          /\ \A k \in DOMAIN buckets : buckets'[k] \in Bucket
      BY <1>4, <2>a DEF Tick
    <2>2. buckets' \in [DOMAIN buckets' -> Bucket]
      BY <1>4, <2>1 DEF Tick
    <2>3. excess' \in [Keys -> Nat]
      BY <1>4, Amounts DEF Tick, TypeOK
    <2> QED
      BY <1>4, <2>1, <2>2, <2>3 DEF Tick, TypeOK
  <1>5. CASE UNCHANGED vars
    BY <1>5 DEF vars, TypeOK
  <1> QED
    BY <1>1, <1>2, <1>3, <1>4, <1>5 DEF Next

\* A bucket never holds less than nothing or more than a burst.
THEOREM TypeCorrect == Spec => []TypeOK
  BY InitTyped, StepTyped, PTL DEF Spec

-----------------------------------------------------------------------------
(* What each action does to the levels *)

LEMMA LevelType ==
  ASSUME TypeOK, NEW k \in Keys
  PROVE  Level(k) \in 0..Cap
  BY RefilledType, Amounts DEF Level

LEMMA LevelTypeNext ==
  ASSUME TypeOK', NEW k \in Keys
  PROVE  Level(k)' \in 0..Cap
  <1>1. CASE k \in DOMAIN buckets'
    <2>1. buckets'[k].tokens \in 0..Cap /\ buckets'[k].idle \in Nat
      BY <1>1, Amounts DEF TypeOK, Bucket
    <2>2. Gain(buckets'[k].idle) \in Nat
      BY <2>1, GainFacts
    <2>3. Level(k)' = Least(Cap, buckets'[k].tokens + Gain(buckets'[k].idle))
      BY <1>1 DEF Level, Refilled, Gain
    <2> QED
      BY <2>1, <2>2, <2>3, Amounts DEF Least
  <1>2. CASE k \notin DOMAIN buckets'
    BY <1>2, Amounts DEF Level
  <1> QED
    BY <1>1, <1>2

\* Allow for a new client takes one request from a full bucket.
LEMMA AllowNewLevels ==
  ASSUME TypeOK, NEW k \in Keys, AllowNew(k)
  PROVE  /\ Level(k) = Cap
         /\ Level(k)' = Cap - Price
         /\ \A j \in Keys : j # k => Level(j)' = Level(j)
  <1>1. TypeOK'
    BY StepTyped DEF Next
  <1>2. /\ k \notin DOMAIN buckets
        /\ DOMAIN buckets' = DOMAIN buckets \cup {k}
        /\ buckets'[k] = [tokens |-> Cap - Price, idle |-> 0]
        /\ \A j \in DOMAIN buckets : buckets'[j] = buckets[j]
    BY DEF AllowNew, Put
  <1>3. Refilled(k)' = Cap - Price
    BY <1>2, Amounts DEF Refilled, Least
  <1>4. ASSUME NEW j \in Keys, j # k PROVE Level(j)' = Level(j)
    BY <1>2, <1>4 DEF Level, Refilled
  <1> QED
    BY <1>2, <1>3, <1>4 DEF Level

\* Allow for a known client takes one request from its bucket, or none.
LEMMA AllowKnownLevels ==
  ASSUME TypeOK, NEW k \in Keys, AllowKnown(k)
  PROVE  /\ \/ Level(k) >= Price /\ Level(k)' = Level(k) - Price /\ Admit(k)
            \/ Level(k) < Price /\ Level(k)' = Level(k) /\ Refuse(k)
         /\ \A j \in Keys : j # k => Level(j)' = Level(j)
  <1>1. k \in DOMAIN buckets /\ Refilled(k) \in 0..Cap /\ Level(k) = Refilled(k)
    BY RefilledType DEF AllowKnown, Level
  <1>2. ASSUME NEW n \in 0..Cap,
               buckets' = [buckets EXCEPT ![k] = [tokens |-> n, idle |-> 0]]
        PROVE  /\ Level(k)' = n
               /\ \A j \in Keys : j # k => Level(j)' = Level(j)
    <2>1. /\ DOMAIN buckets' = DOMAIN buckets
          /\ buckets'[k] = [tokens |-> n, idle |-> 0]
          /\ \A j \in DOMAIN buckets : j # k => buckets'[j] = buckets[j]
      BY <1>1, <1>2 DEF TypeOK
    <2>2. Refilled(k)' = n
      BY <2>1, Amounts DEF Refilled, Least
    <2>3. ASSUME NEW j \in Keys, j # k PROVE Level(j)' = Level(j)
      BY <2>1, <2>3 DEF Level, Refilled
    <2> QED
      BY <1>1, <2>1, <2>2, <2>3 DEF Level
  <1>3. CASE /\ Refilled(k) >= Price
             /\ buckets' = [buckets EXCEPT ![k] = [tokens |-> Refilled(k) - Price, idle |-> 0]]
             /\ Admit(k)
    <2>1. Refilled(k) - Price \in 0..Cap
      BY <1>1, <1>3, Amounts
    <2> QED
      BY <1>1, <1>2, <1>3, <2>1
  <1>4. CASE /\ Refilled(k) < Price
             /\ buckets' = [buckets EXCEPT ![k] = [tokens |-> Refilled(k), idle |-> 0]]
             /\ Refuse(k)
    BY <1>1, <1>2, <1>4
  <1> QED
    BY <1>3, <1>4 DEF AllowKnown

\* The reaper changes no level.
LEMMA ReapLevels ==
  ASSUME TypeOK, Exact, Reap, NEW k \in Keys
  PROVE  Level(k)' = Level(k)
  <1>1. /\ DOMAIN buckets' = DOMAIN buckets \ {j \in DOMAIN buckets : Reapable(j)}
        /\ \A j \in DOMAIN buckets' : buckets'[j] = buckets[j]
    BY DEF Reap, Without
  <1>2. CASE k \in DOMAIN buckets'
    BY <1>1, <1>2 DEF Level, Refilled
  <1>3. CASE k \notin DOMAIN buckets' /\ k \in DOMAIN buckets
    <2>1. Reapable(k)
      BY <1>1, <1>3
    <2> QED
      BY <1>3, <2>1, ReapableFull DEF Level
  <1>4. CASE k \notin DOMAIN buckets
    BY <1>1, <1>4 DEF Level
  <1> QED
    BY <1>2, <1>3, <1>4

\* Time adds Rate to each level, up to Cap.
LEMMA TickLevels ==
  ASSUME TypeOK, Exact, Tick, NEW k \in Keys
  PROVE  Level(k)' = Least(Cap, Level(k) + Rate)
  <1>1. CASE k \in DOMAIN buckets
    <2>1. buckets[k] \in Bucket
      BY <1>1 DEF TypeOK
    <2> DEFINE t == buckets[k].tokens
               n == buckets[k].idle
    <2>2. t \in 0..Cap /\ n \in Nat /\ n <= MaxIdle
      BY <2>1, Amounts DEF Bucket
    <2>3. k \in DOMAIN buckets' /\ buckets'[k].tokens = t
      BY <1>1, <2>1 DEF Tick, Bucket
    <2>4. CASE n < MaxIdle
      <3>1. buckets'[k].idle = n + 1
        BY <1>1, <2>1, <2>4 DEF Tick, Bucket
      <3>2. Refilled(k)' = Least(Cap, t + Gain(n + 1))
        BY <2>3, <3>1 DEF Refilled, Gain
      <3>3. Gain(n) \in Nat /\ Gain(n + 1) = Gain(n) + Rate
        BY <2>2, GainFacts
      <3>4. Refilled(k) = Least(Cap, t + Gain(n))
        BY <1>1, RefilledGain
      <3>5. Least(Cap, t + (Gain(n) + Rate)) = Least(Cap, Least(Cap, t + Gain(n)) + Rate)
        BY <2>2, <3>3, Amounts DEF Least
      <3> QED
        BY <1>1, <2>3, <3>2, <3>3, <3>4, <3>5 DEF Level
    <2>5. CASE n = MaxIdle
      <3>1. buckets'[k] = buckets[k]
        BY <1>1, <2>1, <2>5, Amounts DEF Tick, Bucket
      <3>2. Refilled(k) = Cap
        BY <1>1, <2>5, Amounts, ReapableFull DEF Reapable
      <3>3. Refilled(k)' = Refilled(k)
        BY <3>1 DEF Refilled
      <3> QED
        BY <1>1, <2>3, <3>2, <3>3, Amounts DEF Level, Least
    <2> QED
      BY <2>2, <2>4, <2>5, Amounts
  <1>2. CASE k \notin DOMAIN buckets
    BY <1>2, Amounts DEF Tick, Level, Least
  <1> QED
    BY <1>1, <1>2

-----------------------------------------------------------------------------
(* The rate bound *)

\* What a client has been admitted in excess of its rate is missing from its
\* bucket.
Conserved == \A k \in Keys : excess[k] + Level(k) <= Cap

LEMMA StepConserves ==
  Exact /\ TypeOK /\ Conserved /\ [Next]_vars => Conserved'
  <1> SUFFICES ASSUME Exact, TypeOK, Conserved, [Next]_vars, NEW j \in Keys
               PROVE  excess'[j] + Level(j)' <= Cap
    BY DEF Conserved
  <1>1. TypeOK'
    BY StepTyped
  <1>2. /\ excess[j] \in Nat /\ excess'[j] \in Nat
        /\ Level(j) \in 0..Cap /\ Level(j)' \in 0..Cap
        /\ excess[j] + Level(j) <= Cap
    <2>1. excess[j] \in Nat /\ excess'[j] \in Nat
      BY <1>1 DEF TypeOK
    <2>2. Level(j) \in 0..Cap
      BY LevelType
    <2>3. Level(j)' \in 0..Cap
      BY <1>1, LevelTypeNext
    <2>4. excess[j] + Level(j) <= Cap
      BY DEF Conserved
    <2> QED
      BY <2>1, <2>2, <2>3, <2>4
  <1>3. ASSUME NEW k \in Keys, AllowNew(k) PROVE excess'[j] + Level(j)' <= Cap
    <2>1. excess'[j] = IF j = k THEN excess[j] + Price ELSE excess[j]
      BY <1>3 DEF AllowNew, Admit, TypeOK
    <2> QED
      BY <1>2, <1>3, <2>1, AllowNewLevels, Amounts
  <1>4. ASSUME NEW k \in Keys, AllowKnown(k) PROVE excess'[j] + Level(j)' <= Cap
    <2>1. CASE j # k
      <3>1. excess'[j] = excess[j]
        BY <1>4, <2>1 DEF AllowKnown, Admit, Refuse, TypeOK
      <3> QED
        BY <1>2, <1>4, <2>1, <3>1, AllowKnownLevels
    <2>2. CASE j = k
      <3>1. \/ Level(j)' = Level(j) - Price /\ Admit(j)
            \/ Level(j)' = Level(j) /\ Refuse(j)
        BY <1>4, <2>2, AllowKnownLevels
      <3>2. Admit(j) => excess'[j] = excess[j] + Price
        BY DEF Admit, TypeOK
      <3>3. Refuse(j) => excess'[j] = excess[j]
        BY DEF Refuse
      <3> QED
        BY <1>2, <3>1, <3>2, <3>3, Amounts
    <2> QED
      BY <2>1, <2>2
  <1>5. CASE Reap
    BY <1>2, <1>5, ReapLevels DEF Reap
  <1>6. CASE Tick
    <2>1. excess'[j] = IF excess[j] <= Rate THEN 0 ELSE excess[j] - Rate
      BY <1>6 DEF Tick
    <2>2. Level(j)' = Least(Cap, Level(j) + Rate)
      BY <1>6, TickLevels
    <2> QED
      BY <1>2, <2>1, <2>2, Amounts DEF Least
  <1>7. CASE UNCHANGED vars
    <2>1. Level(j)' = Level(j)
      BY <1>7 DEF vars, Level, Refilled
    <2> QED
      BY <1>2, <1>7, <2>1 DEF vars
  <1> QED
    BY <1>3, <1>4, <1>5, <1>6, <1>7 DEF Next

\* Over any stretch of time a client is admitted no more than a burst and what
\* its rate allows, although the limiter forgets clients.
THEOREM RateIsBounded == Exact => (Spec => []RateBound)
  <1> SUFFICES ASSUME Exact PROVE Spec => []RateBound
    OBVIOUS
  <1>1. Init => Conserved
    <2> SUFFICES ASSUME Init, NEW k \in Keys PROVE excess[k] + Level(k) <= Cap
      BY DEF Conserved
    <2>1. excess[k] = 0 /\ Level(k) = Cap
      BY DEF Init, Level
    <2> QED
      BY <2>1, Amounts
  <1>2. TypeOK /\ Conserved /\ [Next]_vars => Conserved'
    BY StepConserves
  <1>3. TypeOK /\ Conserved => RateBound
    <2> SUFFICES ASSUME TypeOK, Conserved, NEW k \in Keys PROVE excess[k] <= Cap
      BY DEF RateBound
    <2>1. Level(k) \in 0..Cap
      BY LevelType
    <2>2. excess[k] \in Nat /\ excess[k] + Level(k) <= Cap
      BY DEF TypeOK, Conserved
    <2> QED
      BY <2>1, <2>2, Amounts
  <1>4. Spec => []TypeOK
    BY TypeCorrect
  <1> QED
    BY <1>1, <1>2, <1>3, <1>4, PTL DEF Spec

-----------------------------------------------------------------------------
(* The refinement *)

LEMMA InitRefines == Init => Ideal!Init
  BY DEF Init, Ideal!Init, Level

LEMMA StepRefines ==
  Exact /\ TypeOK /\ [Next]_vars => [Ideal!Next]_(Ideal!vars)
  <1> SUFFICES ASSUME Exact, TypeOK, [Next]_vars
               PROVE  Ideal!Next \/ UNCHANGED Ideal!vars
    OBVIOUS
  <1> DEFINE level == [k \in Keys |-> Level(k)]
  <1>1. ASSUME NEW k \in Keys, AllowNew(k) PROVE Ideal!Ask(k)
    <2>1. level' = [level EXCEPT ![k] = @ - Price]
      BY <1>1, AllowNewLevels
    <2>2. level[k] >= Price
      BY <1>1, AllowNewLevels, Amounts
    <2> QED
      BY <1>1, <2>1, <2>2 DEF Ideal!Ask, AllowNew, Admit
  <1>2. ASSUME NEW k \in Keys, AllowKnown(k) PROVE Ideal!Ask(k)
    <2>1. CASE Level(k) >= Price /\ Level(k)' = Level(k) - Price /\ Admit(k)
      <3>1. level' = [level EXCEPT ![k] = @ - Price] /\ level[k] >= Price
        BY <1>2, <2>1, AllowKnownLevels
      <3> QED
        BY <2>1, <3>1 DEF Ideal!Ask, Admit
    <2>2. CASE Level(k) < Price /\ Level(k)' = Level(k) /\ Refuse(k)
      <3>1. level' = level /\ level[k] < Price
        BY <1>2, <2>2, AllowKnownLevels
      <3> QED
        BY <2>2, <3>1 DEF Ideal!Ask, Refuse
    <2> QED
      BY <1>2, <2>1, <2>2, AllowKnownLevels
  <1>3. CASE Reap
    <2>1. level' = level
      BY <1>3, ReapLevels
    <2> QED
      BY <1>3, <2>1 DEF Reap, Ideal!vars
  <1>4. CASE Tick
    <2>1. level' = [k \in Keys |-> Least(Cap, level[k] + Rate)]
      BY <1>4, TickLevels
    <2> QED
      BY <1>4, <2>1 DEF Tick, Ideal!Tick, Ideal!Next, Ideal!Least, Least
  <1>5. CASE UNCHANGED vars
    <2>1. level' = level
      BY <1>5 DEF vars, Level, Refilled
    <2> QED
      BY <1>5, <2>1 DEF vars, Ideal!vars
  <1> QED
    BY <1>1, <1>2, <1>3, <1>4, <1>5 DEF Next, Ideal!Next

\* The limiter decides as the bucket that forgets no client.
THEOREM DecisionsAreIdeal == Exact => (Spec => DecidesAsIdeal)
  <1> SUFFICES ASSUME Exact PROVE Spec => DecidesAsIdeal
    OBVIOUS
  <1>1. TypeOK /\ [Next]_vars => [Ideal!Next]_(Ideal!vars)
    BY StepRefines
  <1>2. Spec => []TypeOK
    BY TypeCorrect
  <1> QED
    BY <1>1, <1>2, InitRefines, PTL DEF Spec, DecidesAsIdeal, Ideal!Spec
==============================================================================
