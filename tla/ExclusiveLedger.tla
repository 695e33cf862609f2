--------------------------- MODULE ExclusiveLedger ---------------------------
(***************************************************************************)
(* The exclusive side of a call profile: the time a function spent in its  *)
(* own code.  Time is charged as it passes to the innermost call.  A call  *)
(* the profile does not know hides nothing from the call that made it, so  *)
(* the caller of an Untracked call goes on being charged.                  *)
(***************************************************************************)
EXTENDS Integers, Sequences, FiniteSets

CONSTANTS Functions, Untracked, Deltas

VARIABLES
  open,   \* the open calls, outermost first
  self    \* the exclusive time of each function

\* The open calls of f that have no open callee with a name.
Running(f) == {i \in DOMAIN open :
                 /\ open[i] = f
                 /\ i = Len(open) \/ open[i + 1] = Untracked}

Charge(d) ==
  self' = [f \in Functions |-> self[f] + d * Cardinality(Running(f))]

SelfInit == open = <<>> /\ self = [f \in Functions |-> 0]

Enter(c, d) == Charge(d) /\ open' = Append(open, c)

Leave(d) ==
  /\ open # <<>>
  /\ Charge(d)
  /\ open' = SubSeq(open, 1, Len(open) - 1)

SelfNext ==
  \E d \in Deltas : \/ \E c \in Functions \cup {Untracked} : Enter(c, d)
                    \/ Leave(d)

SelfSpec == SelfInit /\ [][SelfNext]_<<open, self>>

=============================================================================
