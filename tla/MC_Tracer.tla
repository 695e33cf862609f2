------------------------------ MODULE MC_Tracer ------------------------------
(* Instances of SpxTracer for TLC. *)
EXTENDS SpxTracerExclusive, TLC

CONSTANTS a, b, c

MC_Functions == {a, b, c}

\* Nothing tells functions apart but their names.
MC_Symmetry == Permutations(MC_Functions)

\* Readings that grow and readings that drop (memory metrics).
MC_Deltas == {-1, 2}

=============================================================================
