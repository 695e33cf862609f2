----------------------------- MODULE CallLedger -----------------------------
(***************************************************************************)
(* What a call profile promises, with no trace of how it is computed: the  *)
(* calls that are open, and for every function the time during which it    *)
(* was open at least once (its inclusive time).  Time is charged as it     *)
(* passes, to every function that is open then; recursion charges once.    *)
(*                                                                         *)
(* A call the profile does not know by name holds its place as Untracked.  *)
(***************************************************************************)
EXTENDS Integers, Sequences

CONSTANTS Functions, Untracked, Deltas

VARIABLES
  open,     \* the open calls, outermost first
  total,    \* the inclusive time of each function
  calls,    \* how many calls of each function were closed
  closed    \* the profile is final

ledger == <<open, total, calls, closed>>

IsOpen(f) == \E i \in DOMAIN open : open[i] = f

LedgerInit ==
  /\ open = <<>>
  /\ total = [f \in Functions |-> 0]
  /\ calls = [f \in Functions |-> 0]
  /\ closed = FALSE

Charge(d) ==
  total' = [f \in Functions |-> total[f] + (IF IsOpen(f) THEN d ELSE 0)]

\* A call of c begins after d more time.
Enter(c, d) ==
  /\ ~closed
  /\ Charge(d)
  /\ open' = Append(open, c)
  /\ UNCHANGED <<calls, closed>>

\* The innermost call ends after d more time.
Leave(d) ==
  /\ ~closed
  /\ open # <<>>
  /\ Charge(d)
  /\ calls' = [f \in Functions |->
                 calls[f] + (IF open[Len(open)] = f THEN 1 ELSE 0)]
  /\ open' = SubSeq(open, 1, Len(open) - 1)
  /\ UNCHANGED closed

\* A profile is final only when nothing is open any more.
Close ==
  /\ ~closed
  /\ open = <<>>
  /\ closed' = TRUE
  /\ UNCHANGED <<open, total, calls>>

LedgerNext ==
  \/ \E c \in Functions \cup {Untracked} : \E d \in Deltas : Enter(c, d)
  \/ \E d \in Deltas : Leave(d)
  \/ Close

LedgerSpec == LedgerInit /\ [][LedgerNext]_ledger

=============================================================================
