------------------------------ MODULE SpxTracer ------------------------------
(***************************************************************************)
(* The tracing profiler of src/src/spx_profiler_tracer.c: it is told of    *)
(* every function call and return, reads the metrics at each of them, and  *)
(* turns the readings into per-function inclusive and exclusive totals and *)
(* into a stream of events for a reporter.                                 *)
(*                                                                         *)
(* One metric stands for the metric vector (all are computed alike).  The  *)
(* metric collector is the environment: a reading is the previous reading  *)
(* plus any member of Deltas, negative ones included, since memory metrics *)
(* go down.  That also covers the noise the collector subtracts.           *)
(* A func table entry is the function it was created for: the hash map     *)
(* that finds entries compares class and function names.                   *)
(***************************************************************************)
EXTENDS Integers, FiniteSets, Sequences

CONSTANTS
  Functions,        \* the functions the script can call
  NoEntry,          \* the NULL func_table_entry of a saturated table
  StackCapacity,    \* spx_get_max_stack_depth()
  MaxDepthSetting,  \* SPX_DEPTH, 0 for unlimited
  FuncCapacity,     \* spx_get_max_function_table_size()
  Deltas,           \* how much a metric may move between two readings
  MaxCalled,        \* bound on the calls traced (state space only)
  MaxNesting        \* bound on the depth reached (state space only)

ASSUME TracerAssumption ==
  /\ NoEntry \notin Functions
  /\ StackCapacity \in Nat \ {0}
  /\ MaxDepthSetting \in Nat
  /\ FuncCapacity \in Nat \ {0}
  /\ Deltas \subseteq Int
  /\ MaxCalled \in Nat
  /\ MaxNesting \in Nat

\* profiler->max_depth, as the constructor computes it.
MaxDepth ==
  IF MaxDepthSetting > 0 /\ MaxDepthSetting < StackCapacity
  THEN MaxDepthSetting ELSE StackCapacity

VARIABLES
  phase,       \* "running", "unwinding" (inside finalize), "finalized", or
               \* "dead" (spx_utils_die).  Finalized, calls are ignored.
  active,      \* calls at this depth are recorded
  calibrated,
  called,
  depth,       \* stack.depth, which also counts the calls not recorded
  frames,      \* stack.frames; slots above the top keep their old content
  table,       \* the functions that have a func table entry
  stats,       \* entries[...].stats
  last,        \* last_metric_values
  reported     \* what a reader of the events has open: callees of the
               \* CALL_STARTs no CALL_END has matched yet

vars == <<phase, active, calibrated, called, depth, frames, table, stats,
          last, reported>>

Slots   == 0 .. StackCapacity - 1
Entries == Functions \cup {NoEntry}
Frame   == [entry : Entries, start : Int, children : Int]
Stats   == [called : Nat, max_cycle_depth : Nat, inc : Int, exc : Int]

EmptyFrame == [entry |-> NoEntry, start |-> 0, children |-> 0]
ZeroStats  == [called |-> 0, max_cycle_depth |-> 0, inc |-> 0, exc |-> 0]

\* The frames of fr below n that hold entry e.
FramesOf(fr, e, n) == {i \in Slots : i < n /\ fr[i].entry = e}

Nearest(S, i) == i \in S /\ \A j \in S : j <= i

Init ==
  /\ phase = "running"
  /\ active = TRUE
  /\ calibrated = FALSE
  /\ called = 0
  /\ depth = 0
  /\ frames = [i \in Slots |-> EmptyFrame]
  /\ table = {}
  /\ stats = [f \in Functions |-> ZeroStats]
  /\ last = 0
  /\ reported = <<>>

-----------------------------------------------------------------------------
(* call_start *)

\* Mutant: the room in the table is tested off by one.
EntryForOffByOne(f, tab) ==
  IF f \in tab \/ Cardinality(tab) <= FuncCapacity THEN f ELSE NoEntry

\* The entry a call to f gets: its own, a new one, or none when the table is
\* full.
EntryFor(f, tab) ==
  IF f \in tab \/ Cardinality(tab) < FuncCapacity THEN f ELSE NoEntry

\* calibrate() traces the first function 50000 times against a null reporter
\* and then undoes it: depth and called are zeroed and the table is emptied.
\* What is left is an empty table (its entries are zeroed when allotted again).
CalibratedTable(f) == {}

\* The table the lookup of f sees.
TableBefore(f) == IF called = 0 /\ ~calibrated THEN CalibratedTable(f) ELSE table

\* Mutant: the entry of a full table is not tested for NULL.
TableAfterUntested(f) == TableBefore(f) \cup {EntryFor(f, TableBefore(f))}

\* The function table after a lookup of f: lookups never remove an entry.
TableAfter(f) ==
  IF EntryFor(f, TableBefore(f)) = NoEntry
  THEN TableBefore(f) ELSE TableBefore(f) \cup {f}

\* Mutant: the frame of a call without an entry keeps the last call's.
StartedFrameStale(f, cur) ==
  LET e == EntryFor(f, TableBefore(f))
  IN  IF e = NoEntry
      THEN frames[depth]
      ELSE [entry |-> e, start |-> cur, children |-> 0]

\* A frame is filled only if the function got an entry; else just its entry
\* pointer is cleared, and start and children stay as they were.
StartedFrame(f, cur) ==
  LET e == EntryFor(f, TableBefore(f))
  IN  IF e = NoEntry
      THEN [frames[depth] EXCEPT !.entry = NoEntry]
      ELSE [entry |-> e, start |-> cur, children |-> 0]

\* stack.depth++ and the test of the depth limit that ends call_start.
Descend ==
  /\ depth' = depth + 1
  /\ active' = (depth + 1 < MaxDepth)

\* A call that is recorded, read at a metric value d past the last one.
CallStart(f, d) ==
  LET e == EntryFor(f, TableBefore(f))
  IN  /\ phase = "running"
      /\ active
      /\ calibrated' = TRUE
      /\ last' = last + d
      /\ called' = called + 1
      /\ table' = TableAfter(f)
      /\ stats' = IF f \in TableAfter(f) \ TableBefore(f)
                  THEN [stats EXCEPT ![f] = ZeroStats] ELSE stats
      /\ frames' = [frames EXCEPT ![depth] = StartedFrame(f, last + d)]
      /\ reported' = IF e = NoEntry THEN reported ELSE Append(reported, e)
      /\ Descend
      /\ UNCHANGED phase

\* A call past the depth limit only counts levels.
CallStartTooDeep(f) ==
  /\ phase = "running"
  /\ ~active
  /\ Descend
  /\ UNCHANGED <<phase, calibrated, called, frames, table, stats, last, reported>>

-----------------------------------------------------------------------------
(* call_end *)

\* The values charged to the top frame when it ends at value cur.
Inc(fr, cur) == cur - fr.start
Exc(fr, cur) == Inc(fr, cur) - fr.children

\* Mutant: a recursive call's exclusive time is not taken back.
ChildrenAfterNoTakeBack(i, n, cur) ==
  frames[i].children
    + (IF i = n - 1 /\ frames[i].entry # NoEntry
       THEN Inc(frames[n], cur) ELSE 0)

\* What the end of frame n does to frame i below it: the direct parent learns
\* the time its callee took, and under recursion the nearest frame of the same
\* function takes the exclusive time back.
ChildrenAfter(i, n, cur) ==
  LET same == FramesOf(frames, frames[n].entry, n)
  IN  frames[i].children
        + (IF i = n - 1 /\ frames[i].entry # NoEntry
           THEN Inc(frames[n], cur) ELSE 0)
        - (IF Nearest(same, i) THEN Exc(frames[n], cur) ELSE 0)

FramesAfter(n, cur) ==
  [i \in Slots |-> IF i < n
                   THEN [frames[i] EXCEPT !.children = ChildrenAfter(i, n, cur)]
                   ELSE frames[i]]

\* Mutant: recursive calls add to the totals too.
StatsAfterEachCall(n, cur) ==
  LET e == frames[n].entry
      s == stats[e]
  IN  [stats EXCEPT ![e] =
        [called |-> s.called + 1,
         max_cycle_depth |-> s.max_cycle_depth,
         inc |-> s.inc + Inc(frames[n], cur),
         exc |-> s.exc + Exc(frames[n], cur)]]

\* Only the outermost of the open calls of a function adds to its totals.
StatsAfter(n, cur) ==
  LET e     == frames[n].entry
      cycle == Cardinality(FramesOf(frames, e, n))
      s     == stats[e]
  IN  [stats EXCEPT ![e] =
        [called |-> s.called + 1,
         max_cycle_depth |-> IF s.max_cycle_depth < cycle
                             THEN cycle ELSE s.max_cycle_depth,
         inc |-> s.inc + (IF cycle = 0 THEN Inc(frames[n], cur) ELSE 0),
         exc |-> s.exc + (IF cycle = 0 THEN Exc(frames[n], cur) ELSE 0)]]

\* A return from a recorded call: the depth goes down first, and the depth
\* limit is tested again even while finalize unwinds.
EndRecorded(d) ==
  LET n == depth - 1
  IN  /\ n < MaxDepth
      /\ depth' = n
      /\ active' = TRUE
      /\ last' = last + d
      /\ IF frames[n].entry = NoEntry
         THEN UNCHANGED <<frames, stats, reported>>
         ELSE /\ frames' = FramesAfter(n, last + d)
              /\ stats' = StatsAfter(n, last + d)
              /\ reported' = SubSeq(reported, 1, Len(reported) - 1)
      /\ UNCHANGED <<calibrated, called, table>>

EndTooDeep ==
  /\ depth - 1 >= MaxDepth
  /\ depth' = depth - 1
  /\ active' = FALSE
  /\ UNCHANGED <<calibrated, called, frames, table, stats, last, reported>>

CallEnd(d) ==
  /\ phase = "running"
  /\ depth > 0
  /\ EndRecorded(d)
  /\ UNCHANGED phase

CallEndTooDeep ==
  /\ phase = "running"
  /\ depth > 0
  /\ EndTooDeep
  /\ UNCHANGED phase

\* A return without a call ends the process.
CallEndBelowZero ==
  /\ phase = "running"
  /\ depth = 0
  /\ phase' = "dead"
  /\ UNCHANGED <<active, calibrated, called, depth, frames, table, stats,
                 last, reported>>

-----------------------------------------------------------------------------
(* finalize: unwind whatever is still open, then notify FINALIZE *)

BeginFinalize ==
  /\ phase = "running"
  /\ phase' = "unwinding"
  /\ active' = TRUE
  /\ UNCHANGED <<calibrated, called, depth, frames, table, stats, last, reported>>

Unwind(d) ==
  /\ phase = "unwinding"
  /\ depth > 0
  /\ EndRecorded(d) \/ EndTooDeep
  /\ UNCHANGED phase

EndFinalize ==
  /\ phase = "unwinding"
  /\ depth = 0
  /\ phase' = "finalized"
  /\ UNCHANGED <<active, calibrated, called, depth, frames, table, stats,
                 last, reported>>

Step ==
  \/ \E f \in Functions : \E d \in Deltas : CallStart(f, d)
  \/ \E f \in Functions : CallStartTooDeep(f)
  \/ \E d \in Deltas : CallEnd(d)
  \/ CallEndTooDeep
  \/ CallEndBelowZero
  \/ BeginFinalize
  \/ \E d \in Deltas : Unwind(d)
  \/ EndFinalize

\* The bounds on the state space: calls traced and depth reached.
Bounded == called <= MaxCalled /\ depth <= MaxNesting

Next == Step /\ Bounded'

Spec == Init /\ [][Next]_vars

=============================================================================
