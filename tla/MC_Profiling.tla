---------------------------- MODULE MC_Profiling ----------------------------
(* Instances of SpxProfilingHandler for TLC. *)
EXTENDS SpxProfilingReport

=============================================================================
