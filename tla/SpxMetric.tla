------------------------------- MODULE SpxMetric -------------------------------
(***************************************************************************)
(* The metric collector of src/src/spx_metric.c and the built-in metrics   *)
(* of src/src/spx_metric_builtin.c, as the tracer uses them: a reading at  *)
(* every call and return, less the noise of what the profiler itself did   *)
(* since the last one: what a costly notification of the reporter took     *)
(* (noise_barrier) and a calibrated share of wall and CPU time             *)
(* (add_fixed_noise).                                                      *)
(*                                                                         *)
(* The clocks and counters behind the metrics are the environment: they    *)
(* change by any member of Steps at a time.  spent and during observe it.  *)
(***************************************************************************)
EXTENDS Integers

CONSTANTS
  Steps,         \* how the sources may change between two statements
  EnabledSets,   \* the choices of SPX_METRICS
  FixedNoises,   \* the noise calibrated for a call or a return
  NotMemoized,
  MaxSource, MaxCharged   \* bounds

\* The metrics: wall, CPU and idle time, memory usage (it stands for all that
\* are read straight from a counter), and the I/O bytes with their two parts.
Metrics    == {"wt", "ct", "it", "zm", "io", "ior", "iow"}
Sources    == {"wt", "ct", "zm", "ior", "iow"}
Releasable == {"zm"}

\* Those of which spx_metric_builtin.c ever memoizes the value.
Memoized == {"wt", "ct", "ior", "iow"}

ASSUME MetricAssumption ==
  /\ Steps \subseteq [Sources -> Int]
  /\ \A s \in Steps : \A m \in Sources \ Releasable : s[m] >= 0
  /\ EnabledSets \subseteq SUBSET Metrics
  /\ FixedNoises \subseteq Nat
  /\ NotMemoized \notin Int
  /\ {MaxSource, MaxCharged} \subseteq Nat

VARIABLES
  source,        \* the clocks and counters
  memo,          \* memoized_metric_values of spx_metric_builtin.c
  where,         \* "none": no collector; "calibrating"; "running" the script;
                 \* "read" just now; "notifying" the reporter
  enabled,       \* collector->enabled_metrics
  ref_values, last_values, current_fixed_noise,   \* of the collector
  values,        \* the last reading
  spent,         \* what changed since the collector exists, but for what
                 \* changed during costly notifications
  during,        \* what changed during the notification that runs
  charged,       \* the fixed noise added in all
  barred         \* a costly notification was met

collector == <<enabled, ref_values, last_values, current_fixed_noise, values>>
observer  == <<spent, during, charged, barred>>
vars      == <<source, memo, where, collector, observer>>

Zero == [m \in Metrics |-> 0]
None == [m \in Sources |-> 0]

Plus(f, g) == [m \in Sources |-> f[m] + g[m]]

Init ==
  /\ source = None
  /\ memo = [m \in Memoized |-> NotMemoized]
  /\ where = "none"
  /\ enabled = {}
  /\ ref_values = Zero /\ last_values = Zero /\ current_fixed_noise = Zero
  /\ values = Zero
  /\ spent = None /\ during = None /\ charged = 0 /\ barred = FALSE

-----------------------------------------------------------------------------
(* Raw values. *)

\* memoized_metric_value of spx_metric_builtin.c, never reset once it is set.
MemoizedValue(m) == IF memo[m] = NotMemoized THEN source[m] ELSE memo[m]

\* The handler of a metric.  spx_metric.c memoizes too, but for one collection.
Handler(m) ==
  CASE m = "it" -> MemoizedValue("wt") - MemoizedValue("ct")
    [] m = "io" -> MemoizedValue("ior") + MemoizedValue("iow")
    [] m \in {"ior", "iow"} -> MemoizedValue(m)
    [] OTHER -> source[m]

\* collect_raw_values for the metrics in E.
RawValues(E) == [m \in Metrics |-> IF m \in E THEN Handler(m) ELSE 0]

\* What reading the metrics in E memoizes: memoize_io_stats always both parts.
Memoizes(E) ==
  (IF "it" \in E THEN {"wt", "ct"} ELSE {})
  \cup (IF E \cap {"io", "ior", "iow"} # {} THEN {"ior", "iow"} ELSE {})

CollectRaw(E) ==
  memo' = [m \in Memoized |-> IF m \in Memoizes(E) THEN MemoizedValue(m)
                                                   ELSE memo[m]]

-----------------------------------------------------------------------------
(* The collector. *)

Create(E) ==
  /\ where = "none"
  /\ where' = "calibrating"
  /\ enabled' = E
  /\ CollectRaw(E)
  /\ last_values' = RawValues(E) /\ ref_values' = RawValues(E)
  /\ current_fixed_noise' = Zero
  /\ values' = Zero
  /\ spent' = None /\ during' = None /\ charged' = 0 /\ barred' = FALSE
  /\ UNCHANGED source

\* How far m went since the last collection.
Diff(m) == RawValues(enabled)[m] - last_values[m]

\* CPU time that ran ahead of wall time: it moves from the one reading to the
\* idle time.
Surplus ==
  IF {"wt", "ct"} \subseteq enabled /\ Diff("ct") > Diff("wt")
  THEN Diff("ct") - Diff("wt") ELSE 0

Corrected(m) ==
  ref_values[m] + (CASE m = "ct" -> Surplus
                     [] m = "it" -> -Surplus
                     [] OTHER -> 0)

\* Mutant: noise is clamped for metrics that go down, too.
NoiseOfAlwaysClamped(m) ==
  IF current_fixed_noise[m] > Diff(m) THEN Diff(m) ELSE current_fixed_noise[m]

\* Mutant: noise is never clamped.
NoiseOfUnclamped(m) == current_fixed_noise[m]

\* The noise of a metric that cannot go down is at most what it went up.
NoiseOf(m) ==
  IF m \notin Releasable /\ current_fixed_noise[m] > Diff(m)
  THEN Diff(m) ELSE current_fixed_noise[m]

RefAfter ==
  [m \in Metrics |->
     Corrected(m) + (IF m \in enabled THEN NoiseOf(m) ELSE 0)]

\* spx_metric_collector_collect.  The values of the other metrics are not set.
CollectValues ==
  /\ CollectRaw(enabled)
  /\ ref_values' = RefAfter
  /\ current_fixed_noise' =
       [m \in Metrics |-> IF m \in enabled THEN 0 ELSE current_fixed_noise[m]]
  /\ last_values' =
       [m \in Metrics |-> IF m \in enabled THEN RawValues(enabled)[m]
                                           ELSE last_values[m]]
  /\ values' = [m \in Metrics |-> IF m \in enabled
                                  THEN RawValues(enabled)[m] - RefAfter[m]
                                  ELSE 0]
  /\ UNCHANGED <<enabled, source, spent, charged, barred>>

\* The tracer calibrates with readings that no notification follows.
CollectInCalibration ==
  /\ where = "calibrating"
  /\ CollectValues
  /\ UNCHANGED <<where, during>>

Calibrated ==
  /\ where = "calibrating"
  /\ where' = "running"
  /\ UNCHANGED <<source, memo, collector, observer>>

Collect ==
  /\ where = "running"
  /\ where' = "read"
  /\ CollectValues
  /\ during' = None

\* A call with an entry in the function table is notified, another is not.
AfterCollect ==
  /\ where = "read"
  /\ where' \in {"notifying", "running"}
  /\ UNCHANGED <<source, memo, collector, observer>>

\* The metrics that a call's fixed noise has a value for.
Fixed(n) == [m \in Metrics |-> IF m \in {"wt", "ct"} THEN n ELSE 0]

\* Mutant: the barrier counts from the reference, not from the last reading.
BarrierSinceReference ==
  [m \in Metrics |-> IF m \in enabled
                     THEN RawValues(enabled)[m] - ref_values[m] ELSE 0]

\* spx_metric_collector_noise_barrier.
Barrier == [m \in Metrics |-> IF m \in enabled THEN Diff(m) ELSE 0]

\* The notification returns: the barrier if it was costly, then the fixed noise.
Notified(heavy, n) ==
  /\ where = "notifying"
  /\ where' = "running"
  /\ IF heavy THEN CollectRaw(enabled) ELSE UNCHANGED memo
  /\ current_fixed_noise' =
       [m \in Metrics |->
          current_fixed_noise[m] + (IF m \in enabled THEN Fixed(n)[m] ELSE 0)
                                 + (IF heavy THEN Barrier[m] ELSE 0)]
  /\ spent' = IF heavy THEN [m \in Sources |-> spent[m] - during[m]] ELSE spent
  /\ charged' = charged + n
  /\ barred' = (barred \/ heavy)
  /\ during' = None
  /\ UNCHANGED <<source, enabled, ref_values, last_values, values>>

Destroy ==
  /\ where \in {"calibrating", "running"}
  /\ where' = "none"
  /\ UNCHANGED <<source, memo, collector, observer>>

-----------------------------------------------------------------------------
\* The script, the reporter and the rest of the process use resources.
Elapse(s) ==
  /\ where \in {"none", "calibrating", "running", "notifying"}
  /\ source' = Plus(source, s)
  /\ spent' = Plus(spent, s)
  /\ during' = IF where = "notifying" THEN Plus(during, s) ELSE during
  /\ UNCHANGED <<memo, where, collector, charged, barred>>

Step ==
  \/ \E E \in EnabledSets : Create(E)
  \/ CollectInCalibration
  \/ Calibrated
  \/ Collect
  \/ AfterCollect
  \/ \E heavy \in BOOLEAN : \E n \in FixedNoises : Notified(heavy, n)
  \/ Destroy
  \/ \E s \in Steps : Elapse(s)

\* The bounds on the state space: the clocks and the noise charged.
Bounded ==
  /\ \A m \in Sources : source[m] <= MaxSource
  /\ -MaxSource <= source["zm"]
  /\ charged <= MaxCharged

Next == Step /\ Bounded'

Spec == Init /\ [][Next]_vars

=============================================================================
