------------------------------ MODULE SeenSet -------------------------------
(***************************************************************************)
(* What a deduplication table promises: every thread asks for its items in *)
(* order, and an item is new exactly when nobody asked for it before.      *)
(***************************************************************************)
EXTENDS Integers, Sequences

CONSTANTS Thread, Item, Work

VARIABLES
  fresh,    \* the items found new, in order
  done      \* done[t]: how many items thread t has had decided

Known(x) == \E k \in 1 .. Len(fresh) : fresh[k] = x

Init ==
  /\ fresh = <<>>
  /\ done = [t \in Thread |-> 0]

Decide(t) ==
  /\ done[t] < Len(Work[t])
  /\ done' = [done EXCEPT ![t] = @ + 1]
  /\ LET x == Work[t][done[t] + 1]
     IN fresh' = IF Known(x) THEN fresh ELSE Append(fresh, x)

Next == \E t \in Thread : Decide(t)

Spec == Init /\ [][Next]_<<fresh, done>>

============================================================================
