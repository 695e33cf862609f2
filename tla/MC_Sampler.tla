----------------------------- MODULE MC_Sampler -----------------------------
(* Instances of SpxSampler for TLC. *)
EXTENDS SpxSamplerReport

CONSTANTS a, b, c

MC_Functions == {a, b, c}

\* b and c collide: two functions the sampler cannot tell apart.
MC_Hash == [f \in MC_Functions |-> IF f = a THEN 0 ELSE 1]

MC_Deltas == {0}

=============================================================================
