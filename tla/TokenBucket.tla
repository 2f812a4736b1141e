----------------------------- MODULE TokenBucket -----------------------------
(***************************************************************************)
(* The ideal token bucket of each client: it holds at most Cap, gains Rate *)
(* with every tick, and a request is admitted, at the price of Price,      *)
(* exactly when the bucket holds that much. It never forgets a client.     *)
(***************************************************************************)
EXTENDS Integers

CONSTANTS
  Keys,    \* clients
  Cap,     \* what a full bucket holds
  Price,   \* what one request costs
  Rate     \* what a bucket gains with a tick

VARIABLES
  level,   \* what each client's bucket holds
  verdict  \* the last decision: <<client, admitted>>, or <<>>

vars == <<level, verdict>>

Least(a, b) == IF a <= b THEN a ELSE b

Init ==
  /\ level = [k \in Keys |-> Cap]
  /\ verdict = <<>>

Ask(k) ==
  \/ /\ level[k] >= Price
     /\ level' = [level EXCEPT ![k] = @ - Price]
     /\ verdict' = <<k, TRUE>>
  \/ /\ level[k] < Price
     /\ UNCHANGED level
     /\ verdict' = <<k, FALSE>>

Tick ==
  /\ level' = [k \in Keys |-> Least(Cap, level[k] + Rate)]
  /\ UNCHANGED verdict

Next == Tick \/ \E k \in Keys : Ask(k)

Spec == Init /\ [][Next]_vars
==============================================================================
