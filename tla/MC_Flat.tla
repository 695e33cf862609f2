------------------------------- MODULE MC_Flat -------------------------------
(* Instances of SpxFlatProfile for TLC. *)
EXTENDS SpxFlatReport

CONSTANTS a, b, c, d

\* Four functions, three of one bucket; a full table of three turns one away;
\* the names of two fill a block to its last character, or need another.
MC_Hash  == [f \in Functions |-> IF f = a THEN 1 ELSE 5]
MC_Sizes == [f \in Functions |-> IF f = a THEN <<2, 1>> ELSE <<1, 1>>]
MC_Costs == {<<1, 1>>, <<2, 0>>}

\* A profile of some calls, and a short one after it.
MC_MaxCalls == <<4, 1>>

\* Three calls, of three functions.
MC_CostsTop == {<<1, 0>>, <<2, 0>>, <<3, 0>>}
MC_MaxCallsTop == <<3>>
=============================================================================
