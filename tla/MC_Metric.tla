------------------------------- MODULE MC_Metric -------------------------------
(* Instances of SpxMetric for TLC. *)
EXTENDS SpxMetricReport

Change(wt, ct, zm, ior) ==
  [m \in Sources |-> CASE m = "wt" -> wt [] m = "ct" -> ct [] m = "zm" -> zm
                       [] m = "ior" -> ior [] OTHER -> 0]

\* Time and memory, or I/O.
MC_EnabledSets == {{"wt", "ct", "zm"}, {"ior"}}

\* Work, waiting for I/O, a CPU clock that catches up; memory comes and goes.
MC_Steps == {Change(1, 1, 1, 0), Change(1, 0, 0, 1), Change(0, 1, -1, 0)}

=============================================================================
