------------------------- MODULE SpxTracerExclusive -------------------------
(***************************************************************************)
(* The exclusive side of the tracer's promise.                             *)
(***************************************************************************)
EXTENDS SpxTracerReport

\* The own time of open call i up to the start of the call it made, if that one
\* has an entry, or else up to the last reading.
OwnTime(i) ==
  LET until == IF i < Recorded /\ OpenCalls[i + 1] # NoEntry
               THEN frames[i].start ELSE last
  IN  until - frames[i - 1].start - frames[i - 1].children

OwnTimes(f) == [i \in 1 .. Recorded |-> IF OpenCalls[i] = f THEN OwnTime(i) ELSE 0]

\* Sums(t)[n] is the sum of t[1] to t[n].
Sums(t) == LET s[n \in Nat] == IF n = 0 THEN 0 ELSE s[n - 1] + t[n] IN s

ExclusiveSoFar ==
  [f \in Functions |-> stats[f].exc + Sums(OwnTimes(f))[Recorded]]

Exclusive == INSTANCE ExclusiveLedger
  WITH Untracked <- NoEntry, open <- OpenCalls, self <- ExclusiveSoFar

\* The tracer implements the exclusive ledger: taking a recursive call's
\* exclusive time back from its nearest ancestor, and the callee's time from
\* its caller, leaves each function the time spent in its own code.
ImplementsExclusive == Exclusive!SelfSpec

=============================================================================
