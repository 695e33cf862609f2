----------------------------- MODULE EntryTable -----------------------------
(***************************************************************************)
(* What the function table promises the profiler: a function has the same  *)
(* entry for as long as the table lives, no two functions share one, and   *)
(* only a full table turns a function away.                                *)
(***************************************************************************)
EXTENDS Naturals

CONSTANTS Functions, NoFunction, CAPACITY, NoEntry

VARIABLES
  index,    \* the functions of the table |-> the number of their entry
  asked,    \* the function that was looked up last
  found     \* the entry it has got

Known == DOMAIN index

EntryTableInit == index = [f \in {} |-> 0] /\ asked = NoFunction /\ found = NoEntry

Find(f) ==
  /\ asked' = f
  /\ f \in Known
  /\ found' = index[f]
  /\ UNCHANGED index

Add(f) ==
  /\ asked' = f
  /\ f \notin Known
  /\ \E n \in 1..CAPACITY :
       /\ \A g \in Known : index[g] # n
       /\ index' = [g \in Known \cup {f} |-> IF g = f THEN n ELSE index[g]]
       /\ found' = n

TurnAway(f) ==
  /\ asked' = f
  /\ f \notin Known
  /\ \A n \in 1..CAPACITY : \E g \in Known : index[g] = n
  /\ found' = NoEntry
  /\ UNCHANGED index

\* The table goes with its profile; another profile has an empty one.
Clear == index' = [f \in {} |-> 0] /\ asked' = NoFunction /\ found' = NoEntry

EntryTableNext ==
  \/ \E f \in Functions : Find(f) \/ Add(f) \/ TurnAway(f)
  \/ Clear

EntryTableSpec == EntryTableInit /\ [][EntryTableNext]_<<index, asked, found>>
=============================================================================
