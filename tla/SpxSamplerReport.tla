-------------------------- MODULE SpxSamplerReport --------------------------
(***************************************************************************)
(* What the sampler of SpxSampler promises: whatever beats are lost or     *)
(* late, the tracer it drives stands where the last sample left it, so it  *)
(* is never told of a return it has no call for; sampling goes on; and the *)
(* heartbeat thread is gone when the sampler is freed.                     *)
(***************************************************************************)
EXTENDS SpxSampler

SamplerTypeOK ==
  /\ main \in MainPoints
  /\ beat \in BeatPoints
  /\ call_end \in BOOLEAN
  /\ ready \in BOOLEAN
  /\ stop \in BOOLEAN
  /\ top \in Nat
  /\ common \in Nat
  /\ previous \in Seq(Functions)
  /\ current \in Seq(Functions)
  /\ period \in {"none", "garbage", "configured"}

\* The calls the tracer was told of and not yet of their return, as the PHP
\* thread would list them at each point of its code: the last sample, cut down
\* to what is common, then built up to the current stack.
ToldOpen ==
  CASE main = "end"   -> SubSeq(previous, 1, top)
    [] main = "start" -> SubSeq(current, 1, top)
    [] main = "copy"  -> current
    [] OTHER          -> previous

\* Each call_end handed to the tracer closes a call it has open, or it would die
\* ("Cannot rewind below 0 depth") and take the script with it: in the end loop
\* and after a sample taken on a return.
NeverUnderflows ==
  /\ main = "end" /\ top > common => depth > 0
  /\ main = "last" => depth > 0

\* Before finalize the tracer's depth is that of the stack it was told of.
DepthFollows == phase = "running" => depth = Len(ToldOpen)

\* What the tracer has open is the stack it was told of, function by function,
\* except where a frame got no table entry or where the hash codes of two
\* functions collide: the replay never mixes the previous stack's names in.
OpenMatchesStack ==
  phase = "running" =>
    \A i \in 1 .. Recorded :
      OpenCalls[i] # NoEntry => Hash[OpenCalls[i]] = Hash[ToldOpen[i]]

\* The tracer is as deep as the last sample, and has its functions open.
StackIsFollowed == DepthFollows /\ OpenMatchesStack

\* A beat lost between the load and the store of ready, or never seen, does
\* not stop the sampling: while the heartbeat is wanted another beat comes.
SamplingResumes == ~ready ~> (ready \/ stop \/ main = "dead")

\* destroy, which waits for the heartbeat thread, ends.
DestroyCompletes == (main = "finalize") ~> (main = "gone")
============================================================================
