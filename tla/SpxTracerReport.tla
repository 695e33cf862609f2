--------------------------- MODULE SpxTracerReport ---------------------------
(***************************************************************************)
(* What the tracer of SpxTracer promises: it writes only where it has      *)
(* room, its events are bracketed, and it implements the CallLedger of a   *)
(* call profile.                                                           *)
(***************************************************************************)
EXTENDS SpxTracer

TypeOK ==
  /\ phase \in {"running", "unwinding", "finalized", "dead"}
  /\ active \in BOOLEAN
  /\ calibrated \in BOOLEAN
  /\ called \in Nat
  /\ depth \in Nat
  /\ frames \in [Slots -> Frame]
  /\ table \subseteq Functions
  /\ stats \in [Functions -> Stats]
  /\ last \in Int
  /\ reported \in Seq(Functions)

\* How many calls are recorded: those above the depth limit.
Recorded == IF depth < MaxDepth THEN depth ELSE MaxDepth

\* The tracer stays inside its arrays: while it records, the frame that the
\* next call fills exists, and no more entries are allotted than the function
\* table has (entries[] and frames[] have no other bound check).
WritesInBounds ==
  /\ phase = "running" /\ active => depth \in Slots
  /\ Cardinality(table) <= FuncCapacity

\* Between calls the books are consistent.  Recording is on exactly above the
\* depth limit; the first recorded call calibrates, so nothing is open and the
\* table is empty before; a recorded call refers to an entry that was allotted;
\* an entry not allotted has no totals.
Consistent ==
  /\ phase = "running" => (active <=> depth < MaxDepth)
  /\ ~calibrated => depth = 0 /\ table = {}
  /\ \A i \in Slots : i < Recorded => frames[i].entry \in table \cup {NoEntry}
  /\ \A f \in Functions \ table : stats[f] = ZeroStats

-----------------------------------------------------------------------------
(* Refinement of CallLedger. *)

OpenCalls == [i \in 1 .. Recorded |-> frames[i - 1].entry]

\* Frame i is the outermost of the calls of f open in the n frames of fr.
Outermost(fr, f, n, i) ==
  /\ i \in FramesOf(fr, f, n)
  /\ \A j \in FramesOf(fr, f, n) : i <= j

\* What an open function will add to its inclusive time if its calls end at
\* value cur, counted from the start of its outermost open call.
OpenInclusive(fr, f, n, cur) ==
  IF \E i \in Slots : Outermost(fr, f, n, i)
  THEN cur - fr[CHOOSE i \in Slots : Outermost(fr, f, n, i)].start
  ELSE 0

InclusiveSoFar ==
  [f \in Functions |-> stats[f].inc + OpenInclusive(frames, f, Recorded, last)]

CallsSoFar == [f \in Functions |-> stats[f].called]

Ledger == INSTANCE CallLedger
  WITH Untracked <- NoEntry, open <- OpenCalls, total <- InclusiveSoFar,
       calls <- CallsSoFar, closed <- (phase = "finalized")

\* The tracer implements the call ledger: had every open call ended at the last
\* reading, its inclusive totals would be the times its functions were open,
\* whatever the recursion, the depth limit and the room in the function table;
\* and it is final only once every call it opened was closed.
ImplementsLedger == Ledger!LedgerSpec

-----------------------------------------------------------------------------
\* How many of the first n open calls have an entry.
Named(n) == Cardinality({i \in 1 .. n : OpenCalls[i] # NoEntry})

\* A reader that pushes the callee of each CALL_START and pops at each CALL_END
\* always has open exactly the recorded calls that have a table entry, in their
\* order: nothing is popped that was not pushed, and nothing is left at FINALIZE.
EventsAreBracketed ==
  /\ Len(reported) = Named(Recorded)
  /\ \A i \in DOMAIN OpenCalls :
       OpenCalls[i] # NoEntry => reported[Named(i)] = OpenCalls[i]

=============================================================================
