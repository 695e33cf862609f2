-------------------------------- MODULE MC_Web --------------------------------
(* Instances of SpxWebUI for TLC. *)
EXTENDS SpxWebReport, TLC

MC_MetricKeys == <<"wt", "ct", "zm">>

\* Reports differ in nothing but what happens to them.
MC_Symmetry == Permutations(Reports)
=============================================================================
