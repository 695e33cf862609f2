------------------------------ MODULE MC_Signal ------------------------------
(* Instances of SpxSignal for TLC. *)
EXTENDS SpxSignalReport

=============================================================================
