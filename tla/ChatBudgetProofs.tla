--------------------------- MODULE ChatBudgetProofs ----------------------------
(***************************************************************************)
(* Theorems about ChatBudget, for any number of chats, keys and agents and *)
(* any budget: chats leave the tracker its guarantees, and what is spent   *)
(* beyond the budget is bounded. It rests on the theorems of               *)
(* UsageBudgetProofs: the check at admission is as good as the totals.     *)
(***************************************************************************)
EXTENDS ChatBudget, UsageBudgetProofs

\* The chats have their types and there are finitely many.
ChatsTyped ==
  /\ DOMAIN chat \subseteq Chats
  /\ chat \in [DOMAIN chat -> Handler]
  /\ IsFiniteSet(DOMAIN chat)

\* What the chats in flight may still spend is within the bound already.
Covered ==
  ~moved /\ ~renewed => (spent - before) + MayStillSpend(chat) < Budget + exposed

-----------------------------------------------------------------------------
(* What chats may still spend *)

\* The tokens that MayStillSpend counts.
Left(f) == {t \in (DOMAIN f) \X (1..PerChat) : t[2] <= f[t[1]].left}

LEMMA LeftFinite ==
  ASSUME NEW f, IsFiniteSet(DOMAIN f)
  PROVE  /\ IsFiniteSet(Left(f))
         /\ MayStillSpend(f) = Cardinality(Left(f)) /\ MayStillSpend(f) \in Nat
  <1>1. IsFiniteSet(1..PerChat)
    BY ChatAssumption, FS_Interval
  <1>2. IsFiniteSet((DOMAIN f) \X (1..PerChat))
    BY <1>1, FS_Product
  <1>3. IsFiniteSet(Left(f))
    BY <1>2, FS_Subset DEF Left
  <1>4. Cardinality(Left(f)) \in Nat
    BY <1>3, FS_CardinalityType
  <1> QED
    BY <1>3, <1>4 DEF MayStillSpend, Left

\* Handlers that have no more left than before may not spend more.
LEMMA LeftShrinks ==
  ASSUME NEW f, NEW g, IsFiniteSet(DOMAIN f), DOMAIN g = DOMAIN f,
         \A c \in DOMAIN f : /\ f[c].left \in Nat /\ g[c].left \in Nat
                             /\ g[c].left <= f[c].left
  PROVE  MayStillSpend(g) <= MayStillSpend(f)
  <1>1. Left(g) \subseteq Left(f)
    BY ChatAssumption DEF Left
  <1>2. Cardinality(Left(g)) <= Cardinality(Left(f))
    BY <1>1, LeftFinite, FS_Subset
  <1> QED
    BY <1>2, LeftFinite

\* Handlers that have nothing left may spend nothing.
LEMMA NothingLeft ==
  ASSUME NEW f, IsFiniteSet(DOMAIN f), \A c \in DOMAIN f : f[c].left = 0
  PROVE  MayStillSpend(f) = 0
  <1>1. Left(f) = {}
    BY ChatAssumption DEF Left
  <1> QED
    BY <1>1, LeftFinite, FS_EmptySet

\* A token that one of them spends is one less.
LEMMA OneSpent ==
  ASSUME NEW f, NEW g, IsFiniteSet(DOMAIN f), DOMAIN g = DOMAIN f, NEW c \in DOMAIN f,
         f[c].left \in 1..PerChat, g[c].left = f[c].left - 1,
         \A d \in DOMAIN f : d # c => g[d].left = f[d].left
  PROVE  MayStillSpend(g) = MayStillSpend(f) - 1
  <1> DEFINE x == <<c, f[c].left>>
  <1>1. x \in Left(f)
    BY ChatAssumption DEF Left
  <1>2. Left(g) = Left(f) \ {x}
    <2>1. ASSUME NEW t \in (DOMAIN f) \X (1..PerChat)
          PROVE  t \in Left(g) <=> t \in Left(f) \ {x}
      <3>1. t[1] \in DOMAIN f /\ t[2] \in 1..PerChat /\ t = <<t[1], t[2]>>
        OBVIOUS
      <3>2. /\ t \in Left(g) <=> t[2] <= g[t[1]].left
            /\ t \in Left(f) <=> t[2] <= f[t[1]].left
        BY DEF Left
      <3>3. t = x <=> t[1] = c /\ t[2] = f[c].left
        BY <3>1
      <3> HIDE DEF x
      <3>4. CASE t[1] = c
        BY <3>1, <3>2, <3>3, <3>4, ChatAssumption
      <3>5. CASE t[1] # c
        BY <3>1, <3>2, <3>3, <3>5
      <3> QED
        BY <3>4, <3>5
    <2>2. /\ Left(g) \subseteq (DOMAIN f) \X (1..PerChat)
          /\ Left(f) \subseteq (DOMAIN f) \X (1..PerChat)
      BY DEF Left
    <2> QED
      BY <2>1, <2>2
  <1>3. Cardinality(Left(f) \ {x}) = Cardinality(Left(f)) - 1
    BY <1>1, LeftFinite, FS_RemoveElement
  <1> QED
    BY <1>2, <1>3, LeftFinite

-----------------------------------------------------------------------------
(* The chats move the budget's state only as UsageBudget lets it *)

LEMMA InitChats == ChatInit => ChatsTyped
  BY FS_EmptySet DEF ChatInit, ChatsTyped

LEMMA StepChats == ChatsTyped /\ [ChatNext]_allVars => ChatsTyped'
  <1> SUFFICES ASSUME ChatsTyped, [ChatNext]_allVars PROVE ChatsTyped'
    OBVIOUS
  <1> USE DEF ChatsTyped
  <1>1. ASSUME NEW c \in Chats, NEW k \in Keys, Admitted(c, k) PROVE ChatsTyped'
    <2>1. [at |-> "admitted", key |-> k, agent |-> None, left |-> PerChat] \in Handler
      BY ChatAssumption DEF Handler
    <2>2. DOMAIN chat' = DOMAIN chat \cup {c}
      BY <1>1 DEF Admitted, Put
    <2>3. IsFiniteSet(DOMAIN chat')
      BY <2>2, FS_AddElement
    <2> QED
      BY <1>1, <2>1, <2>2, <2>3 DEF Admitted, Put
  <1>2. ASSUME NEW c \in DOMAIN chat, NEW h, h \in Handler, chat' = [chat EXCEPT ![c] = h]
        PROVE  ChatsTyped'
    BY <1>2
  <1>3. ASSUME NEW c \in Chats, NEW a \in Agents, At(c, "admitted") \/ At(c, "creating"),
               chat' = [chat EXCEPT ![c].at = "streaming", ![c].agent = a]
        PROVE  ChatsTyped'
    <2>1. c \in DOMAIN chat /\ chat[c] \in Handler
      BY <1>3 DEF At
    <2> DEFINE h == [chat[c] EXCEPT !.at = "streaming", !.agent = a]
    <2>2. h \in Handler /\ chat' = [chat EXCEPT ![c] = h]
      BY <1>3, <2>1 DEF Handler
    <2> QED
      BY <1>2, <2>1, <2>2
  <1>4. ASSUME NEW c \in Chats, Miss(c) PROVE ChatsTyped'
    <2>1. c \in DOMAIN chat /\ chat[c] \in Handler
      BY <1>4 DEF Miss, At
    <2> DEFINE h == [chat[c] EXCEPT !.at = "creating"]
    <2>2. h \in Handler /\ chat' = [chat EXCEPT ![c] = h]
      BY <1>4, <2>1 DEF Miss, Handler
    <2> QED
      BY <1>2, <2>1, <2>2
  <1>5. ASSUME NEW c \in Chats, Streams(c) PROVE ChatsTyped'
    <2>1. c \in DOMAIN chat /\ chat[c] \in Handler /\ chat[c].left > 0
      BY <1>5 DEF Streams
    <2> DEFINE h == [chat[c] EXCEPT !.left = @ - 1]
    <2>2. h \in Handler /\ chat' = [chat EXCEPT ![c] = h]
      BY <1>5, <2>1, ChatAssumption DEF Streams, Handler
    <2> QED
      BY <1>2, <2>1, <2>2
  <1>6. ASSUME NEW c \in Chats, AgentEnds(c) PROVE ChatsTyped'
    <2>1. c \in DOMAIN chat /\ chat[c] \in Handler
      BY <1>6 DEF AgentEnds
    <2> DEFINE h == [chat[c] EXCEPT !.left = 0]
    <2>2. h \in Handler /\ chat' = [chat EXCEPT ![c] = h]
      BY <1>6, <2>1, ChatAssumption DEF AgentEnds, Handler
    <2> QED
      BY <1>2, <2>1, <2>2
  <1>7. ASSUME NEW C, chat' = Over(C) PROVE ChatsTyped'
    <2>1. DOMAIN chat' = DOMAIN chat
      BY <1>7 DEF Over
    <2>2. ASSUME NEW c \in DOMAIN chat PROVE chat'[c] \in Handler
      <3>1. CASE c \in C
        <4> DEFINE left == IF chat[c].agent = None THEN 0 ELSE chat[c].left
        <4>1. chat'[c] = [chat[c] EXCEPT !.at = "over", !.left = left] /\ chat[c] \in Handler
          BY <1>7, <3>1 DEF Over
        <4>2. left \in 0..PerChat
          BY <4>1, ChatAssumption DEF Handler
        <4> QED
          BY <4>1, <4>2 DEF Handler
      <3>2. CASE c \notin C
        BY <1>7, <3>2 DEF Over
      <3> QED
        BY <3>1, <3>2
    <2> QED
      BY <1>7, <2>1, <2>2 DEF Over
  <1>8. CASE UNCHANGED chat
    BY <1>8
  <1> QED
    BY <1>1, <1>3, <1>4, <1>5, <1>6, <1>7, <1>8 DEF ChatNext, Refused, Hit, Created, Returns,
      MidnightPasses, ProcessRestarts, allVars, chatVars

LEMMA StepKeepsBudget == ChatsTyped /\ [ChatNext]_allVars => [Next]_vars
  <1> SUFFICES ASSUME ChatsTyped, ChatNext PROVE Next \/ UNCHANGED vars
    BY DEF allVars
  <1>1. ASSUME NEW c \in Chats, NEW a \in Agents, NEW ip \in Addrs, Created(c, a, ip)
        PROVE  Next
    <2>1. chat[c].key \in Keys
      BY <1>1 DEF Created, At, ChatsTyped, Handler
    <2> QED
      BY <1>1, <2>1 DEF Created, Next
  <1>2. ASSUME NEW c \in Chats, Streams(c) PROVE Next
    <2>1. chat[c].agent \in Agents
      BY <1>2 DEF Streams, ChatsTyped, Handler
    <2> QED
      BY <1>2, <2>1 DEF Streams, Next
  <1>3. CASE Refused
    BY <1>3 DEF Refused, Next
  <1>4. ASSUME NEW c \in Chats, NEW k \in Keys, Admitted(c, k) PROVE Next
    BY <1>4 DEF Admitted, Next
  <1>5. CASE MidnightPasses \/ ProcessRestarts
    BY <1>5 DEF MidnightPasses, ProcessRestarts, Next
  <1>6. CASE Rest
    BY <1>6 DEF Rest, Next
  <1> QED
    BY <1>1, <1>2, <1>3, <1>4, <1>5, <1>6 DEF ChatNext, Miss, Hit, AgentEnds,
      Returns

LEMMA AlwaysChats == ChatSpec => []ChatsTyped
  BY InitChats, StepChats, PTL DEF ChatSpec

\* Every step of the chats is a step of the tracker, the poller and the fleet
\* or leaves them alone, so what is proved of UsageBudget holds here as well.
THEOREM ChatsKeepBudget == ChatSpec => Spec
  <1>1. ChatInit => Init
    BY DEF ChatInit
  <1> QED
    BY <1>1, StepKeepsBudget, AlwaysChats, PTL DEF ChatSpec, Spec

-----------------------------------------------------------------------------
(* Types *)

LEMMA StepExposed ==
  ASSUME TypeOK, ChatsTyped, ChatsTyped', exposed \in Int, [ChatNext]_allVars
  PROVE  exposed' \in Int
  <1>1. MayStillSpend(chat) \in Nat /\ MayStillSpend(chat') \in Nat
    BY LeftFinite DEF ChatsTyped
  <1>2. ASSUME NEW c \in Chats, NEW k \in Keys, Admitted(c, k) PROVE exposed' \in Int
    BY <1>1, <1>2 DEF Admitted, TypeOK
  <1>3. CASE MidnightPasses \/ ProcessRestarts
    BY <1>1, <1>3 DEF MidnightPasses, ProcessRestarts
  <1>4. CASE UNCHANGED exposed
    BY <1>4
  <1> QED
    BY <1>2, <1>3, <1>4 DEF ChatNext, Refused, Miss, Hit, Created, Streams, AgentEnds,
      Returns, allVars, chatVars

\* The handlers keep to their types, with the fleet they drive.
THEOREM ChatTypesCorrect == ChatSpec => []ChatTypeOK
  <1> DEFINE E == exposed \in Int
  <1>1. ChatInit => E
    BY DEF ChatInit
  <1>2. TypeOK /\ ChatsTyped /\ ChatsTyped' /\ E /\ [ChatNext]_allVars => E'
    BY StepExposed
  <1>3. ChatSpec => []E
    <2> HIDE DEF E
    <2> QED
      BY <1>1, <1>2, AlwaysChats, ChatsKeepBudget, TypeCorrect, PTL DEF ChatSpec
  <1>4. TypeOK /\ ChatsTyped /\ E => ChatTypeOK
    BY DEF ChatsTyped, ChatTypeOK
  <1> QED
    BY <1>3, <1>4, AlwaysChats, ChatsKeepBudget, TypeCorrect, PTL

-----------------------------------------------------------------------------
(* How far the budget can be overspent *)

\* What holds of the totals in every state.
Totals == Typed /\ CountInv /\ DayTotal

LEMMA StepCovered ==
  ASSUME Totals, Totals', ChatsTyped, ChatsTyped', exposed \in Int, Covered,
         [ChatNext]_allVars
  PROVE  Covered'
  <1>T. /\ spent \in Nat /\ read \in Nat /\ before \in Nat /\ unread \in Int
        /\ counted \in Nat /\ daily \in Nat /\ Budget \in Nat /\ Budget > 0
    BY Bounds DEF Totals, Typed, TypeOK
  <1>L. /\ IsFiniteSet(DOMAIN chat) /\ MayStillSpend(chat) \in Nat
        /\ MayStillSpend(chat') \in Nat
        /\ \A c \in DOMAIN chat : chat[c].left \in 0..PerChat /\ chat[c].left \in Nat
    BY LeftFinite, ChatAssumption DEF ChatsTyped, Handler
  <1>M. [Next]_vars /\ (~moved' => ~moved) /\ (~renewed' => ~renewed)
    <2>1. [Next]_vars
      BY StepKeepsBudget
    <2>2. ASSUME NEW a, NEW k, NEW ip, Starts(a, k, ip)
          PROVE  (~moved' => ~moved) /\ (~renewed' => ~renewed)
      BY <2>2 DEF Starts
    <2>3. ASSUME UNCHANGED <<moved, renewed>>
          PROVE  (~moved' => ~moved) /\ (~renewed' => ~renewed)
      BY <2>3
    <2> QED
      BY <2>1, <2>2, <2>3 DEF Next, Acquire, TakesOver, Stops, Spends, Leaves, Fetch,
        FetchFails, Midnight, Restarts, Record, Look, PollStart, PollEnd, vars, reuseVars
  <1>1. \* the check at admission starts the bound anew
        ASSUME NEW c \in Chats, NEW k \in Keys, Admitted(c, k) PROVE Covered'
    <2>1. /\ UNCHANGED <<spent, read, before, unread, counted, today>>
          /\ day' = today /\ daily' = Rolled /\ Rolled < Budget
          /\ exposed' = (spent - read) - unread + MayStillSpend(chat')
      BY <1>T, <1>1 DEF Admitted, Exceeded, Look, Rolled, spendVars, readVars, dayVars
    <2>2. daily' = counted - (before - unread)
      BY <2>1 DEF Totals, DayTotal
    <2>3. ~moved' /\ ~renewed' => counted = read
      BY <1>M DEF Totals, CountInv
    <2> QED
      BY <1>T, <1>L, <2>1, <2>2, <2>3 DEF Covered
  <1>2. ASSUME UNCHANGED <<spent, before, exposed>>,
               MayStillSpend(chat') <= MayStillSpend(chat)
        PROVE  Covered'
    BY <1>T, <1>L, <1>M, <1>2 DEF Covered
  <1>3. ASSUME UNCHANGED <<spent, before, exposed>>, DOMAIN chat' = DOMAIN chat,
               \A c \in DOMAIN chat : chat'[c].left \in {chat[c].left, 0}
        PROVE  Covered'
    <2>1. MayStillSpend(chat') <= MayStillSpend(chat)
      BY <1>L, <1>3, LeftShrinks
    <2> QED
      BY <1>2, <1>3, <2>1
  <1>4. ASSUME NEW c \in Chats, Streams(c) PROVE Covered'
    <2>1. /\ spent' = spent + 1 /\ UNCHANGED <<before, exposed>>
          /\ c \in DOMAIN chat /\ chat[c].left \in 1..PerChat
          /\ DOMAIN chat' = DOMAIN chat /\ chat'[c].left = chat[c].left - 1
          /\ \A d \in DOMAIN chat : d # c => chat'[d].left = chat[d].left
      BY <1>L, <1>4, ChatAssumption DEF Streams, Spends, ChatsTyped, Handler, dayVars
    <2>2. MayStillSpend(chat') = MayStillSpend(chat) - 1
      BY <1>L, <2>1, OneSpent
    <2> QED
      BY <1>T, <1>L, <1>M, <2>1, <2>2 DEF Covered
  <1>5. CASE MidnightPasses
    BY <1>T, <1>L, <1>5 DEF MidnightPasses, Midnight, Covered, spendVars
  <1>6. CASE ProcessRestarts
    BY <1>T, <1>L, <1>6 DEF ProcessRestarts, Restarts, Fresh, Covered, spendVars
  <1>7. ASSUME NEW c \in Chats, Miss(c) PROVE Covered'
    BY <1>3, <1>7 DEF Miss, At, ChatsTyped, Handler, vars, spendVars, dayVars
  <1>8. ASSUME NEW c \in Chats, NEW a \in Agents, Hit(c, a) PROVE Covered'
    BY <1>3, <1>8 DEF Hit, At, ChatsTyped, Handler, vars, spendVars, dayVars
  <1>9. ASSUME NEW c \in Chats, NEW a \in Agents, NEW ip \in Addrs, Created(c, a, ip)
        PROVE  Covered'
    BY <1>3, <1>9 DEF Created, Acquire, Starts, At, ChatsTyped, Handler, spendVars, dayVars
  <1>10. ASSUME NEW c \in Chats, Returns(c) PROVE Covered'
    BY <1>3, <1>10 DEF Returns, Over, ChatsTyped, Handler, vars, spendVars, dayVars
  <1>11. ASSUME NEW c \in Chats, AgentEnds(c) PROVE Covered'
    BY <1>3, <1>11 DEF AgentEnds, ChatsTyped, Handler, vars, spendVars, dayVars
  <1>12. ASSUME UNCHANGED <<spent, before, exposed, chat>> PROVE Covered'
    BY <1>L, <1>2, <1>12
  <1> QED
    BY <1>1, <1>4, <1>5, <1>6, <1>7, <1>8, <1>9, <1>10, <1>11,
      <1>12
      DEF ChatNext, Refused, Rest, TakesOver, Starts, Stops, Leaves, Fetch, FetchFails, Look,
      Record, PollStart, PollEnd, allVars, vars, chatVars, spendVars, dayVars

\* What is spent in a day exceeds the budget by no more than what the poller
\* had not read when the last chat was admitted and what the chats that were in
\* flight, or at an agent, could still spend then, however many there are.
THEOREM OverspendIsBounded == ChatSpec => []OverspendBounded
  <1>1. ChatInit => Covered
    <2> SUFFICES ASSUME ChatInit PROVE Covered
      OBVIOUS
    <2>1. DOMAIN chat = {} /\ spent = 0 /\ before = 0 /\ exposed = 0
      BY DEF ChatInit, Init
    <2>2. MayStillSpend(chat) = 0
      BY <2>1, NothingLeft, FS_EmptySet
    <2> QED
      BY <2>1, <2>2, Bounds DEF Covered
  <1>2. Totals /\ Totals' /\ ChatsTyped /\ ChatsTyped' /\ exposed \in Int /\ Covered
          /\ [ChatNext]_allVars => Covered'
    BY StepCovered
  <1>3. Typed /\ CountInv /\ DayTotal => Totals
    BY DEF Totals
  <1>4. ChatTypeOK => exposed \in Int
    BY DEF ChatTypeOK
  <1>5. ChatSpec => []Covered
    BY <1>1, <1>2, <1>3, <1>4, AlwaysChats, ChatTypesCorrect, ChatsKeepBudget, AlwaysTyped,
      AlwaysCounts, AlwaysDayTotal, PTL DEF ChatSpec
  <1>6. Covered /\ ChatsTyped /\ Typed /\ exposed \in Int => OverspendBounded
    <2> SUFFICES ASSUME Covered, ChatsTyped, Typed, exposed \in Int, ~moved, ~renewed
                 PROVE  spent - before < Budget + exposed
      BY DEF OverspendBounded
    <2>1. MayStillSpend(chat) \in Nat
      BY LeftFinite DEF ChatsTyped
    <2>2. spent \in Nat /\ before \in Nat /\ Budget \in Nat
      BY Bounds DEF Typed, TypeOK
    <2> QED
      BY <2>1, <2>2 DEF Covered
  <1> QED
    BY <1>4, <1>5, <1>6, AlwaysChats, ChatTypesCorrect, ChatsKeepBudget, AlwaysTyped, PTL
==============================================================================
