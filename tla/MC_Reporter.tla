------------------------------ MODULE MC_Reporter ------------------------------
(* Instances of SpxReporter for TLC. *)
EXTENDS SpxReporterReport

\* A report whose buffer fills up once, and a short one after it.
MC_MaxEvents == <<4, 1>>
=============================================================================
