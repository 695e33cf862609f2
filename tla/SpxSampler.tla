----------------------------- MODULE SpxSampler -----------------------------
(***************************************************************************)
(* The sampling profiler of src/src/spx_profiler_sampler.c on top of the   *)
(* tracer of SpxTracer.  The thread that runs PHP keeps the current call   *)
(* stack; a heartbeat thread raises `ready' once per period; the first     *)
(* call or return that sees it raised replays, to the tracer, what changed *)
(* since the previous sample.                                              *)
(*                                                                         *)
(* One action per access to the shared words ready and stop, which are     *)
(* sequentially consistent atomics, and one per call made to the tracer.   *)
(***************************************************************************)
EXTENDS SpxTracerReport

CONSTANTS
  Hash,             \* hash_code: functions with equal names share it, and
                    \* functions with different names may
  SamplerCapacity   \* the STACK_CAPACITY of spx_profiler_sampler.c

ASSUME SamplerAssumption ==
  /\ DOMAIN Hash = Functions
  /\ SamplerCapacity \in Nat

VARIABLES
  main,      \* where the PHP thread is in the sampler's code
  call_end,  \* handle_sample's parameter
  top,       \* the loop index of handle_sample, as a number of calls
  common,    \* common_stack_top
  previous,  \* stack.previous: the call stack at the last sample
  current,   \* stack.current: the call stack now
  ready, stop,
  beat,      \* where the heartbeat thread is
  period     \* the period the heartbeat thread sleeps for

threads == <<main, call_end, top, common, ready, stop, beat, period>>
stacks  == <<previous, current>>
svars   == <<vars, threads, stacks>>

MainPoints == {"create", "configure", "idle", "load", "claim", "end", "start",
               "copy", "last", "finalize", "stopping", "joining", "gone", "dead"}
BeatPoints == {"none", "born", "check", "sleep", "done"}

SamplerInit ==
  /\ Init
  /\ main = "create"
  /\ call_end = FALSE
  /\ top = 0
  /\ common = 0
  /\ previous = <<>>
  /\ current = <<>>
  /\ ready = TRUE
  /\ stop = FALSE
  /\ beat = "none"
  /\ period = "none"

-----------------------------------------------------------------------------
(* The tracer, as the sampled profiler: its call_start and call_end.  That it  *)
(* is never handed a return below depth 0, which would end the process, is     *)
(* NeverUnderflows in SpxSamplerReport.                                        *)

TracerStart(f) ==
  \/ \E d \in Deltas : CallStart(f, d)
  \/ CallStartTooDeep(f)

TracerEnd == (\E d \in Deltas : CallEnd(d)) \/ CallEndTooDeep

-----------------------------------------------------------------------------
(* Creation.  The thread is started before the fields it reads are set. *)

StartHeartbeat ==
  /\ main = "create"
  /\ main' = "configure"
  /\ ready' = TRUE
  /\ stop' = FALSE
  /\ beat' = "born"
  /\ UNCHANGED <<vars, stacks, call_end, top, common, period>>

Configure ==
  /\ main = "configure"
  /\ main' = "idle"
  /\ previous' = <<>>
  /\ current' = <<>>
  /\ UNCHANGED <<vars, call_end, top, common, ready, stop, beat, period>>

-----------------------------------------------------------------------------
(* call_start and call_end of the sampler. *)

SamplerCallStart(f) ==
  /\ main = "idle"
  /\ Len(current) < SamplerCapacity
  /\ current' = Append(current, f)
  /\ call_end' = FALSE
  /\ main' = "load"
  /\ UNCHANGED <<vars, previous, top, common, ready, stop, beat, period>>

\* spx_utils_die: the process exits, and its threads with it.
SamplerStackExceeded ==
  /\ main = "idle"
  /\ Len(current) = SamplerCapacity
  /\ main' = "dead"
  /\ beat' = "done"
  /\ UNCHANGED <<vars, stacks, call_end, top, common, ready, stop, period>>

SamplerCallEnd ==
  /\ main = "idle"
  /\ current # <<>>
  /\ call_end' = TRUE
  /\ main' = "load"
  /\ UNCHANGED <<vars, stacks, top, common, ready, stop, beat, period>>

\* current.size--, after handle_sample returned to call_end.
PopCurrent ==
  current' = IF call_end THEN SubSeq(current, 1, Len(current) - 1) ELSE current

\* Back to idle: the locals of handle_sample are gone with it.
Return ==
  /\ main' = "idle"
  /\ call_end' = FALSE
  /\ top' = 0
  /\ common' = 0

LoadReady ==
  /\ main = "load"
  /\ IF ready
     THEN main' = "claim" /\ UNCHANGED <<current, call_end, top, common>>
     ELSE Return /\ PopCurrent
  /\ UNCHANGED <<vars, previous, ready, stop, beat, period>>

\* Mutant: the scan compares the depths only.
CommonTopByDepth(k) ==
  k = IF Len(previous) < Len(current) THEN Len(previous) ELSE Len(current)

\* k is where the scan of both stacks from the bottom stops: it compares hash
\* codes only, for the names of the previous stack may be gone.
CommonTop(k) ==
  /\ k \in 0 .. Len(previous) /\ k <= Len(current)
  /\ \A i \in 1 .. k : Hash[previous[i]] = Hash[current[i]]
  /\ k < Len(previous) /\ k < Len(current) =>
       Hash[previous[k + 1]] # Hash[current[k + 1]]

\* Mutant: the common stack's top is taken for an index.
ClaimSampleIndex ==
  /\ main = "claim"
  /\ ready' = FALSE
  /\ \E k \in 0 .. Len(previous) : CommonTop(k) /\ common' = k - 1
  /\ top' = Len(previous)
  /\ main' = "end"
  /\ UNCHANGED <<vars, stacks, call_end, stop, beat, period>>

\* The store that lowers ready comes after the load that saw it raised: a beat
\* between the two is lost.
ClaimSample ==
  /\ main = "claim"
  /\ ready' = FALSE
  /\ \E k \in 0 .. Len(previous) : CommonTop(k) /\ common' = k
  /\ top' = Len(previous)
  /\ main' = "end"
  /\ UNCHANGED <<vars, stacks, call_end, stop, beat, period>>

\* End the previous calls down to the common stack.
EndPrevious ==
  /\ main = "end"
  /\ top > common
  /\ TracerEnd
  /\ top' = top - 1
  /\ UNCHANGED <<main, call_end, common, ready, stop, beat, period, stacks>>

EndsDone ==
  /\ main = "end"
  /\ top <= common
  /\ main' = "start"
  /\ UNCHANGED <<vars, stacks, call_end, top, common, ready, stop, beat, period>>

\* Start the current calls from the common stack up.
StartCurrent ==
  /\ main = "start"
  /\ top < Len(current)
  /\ TracerStart(current[top + 1])
  /\ top' = top + 1
  /\ UNCHANGED <<main, call_end, common, ready, stop, beat, period, stacks>>

StartsDone ==
  /\ main = "start"
  /\ top >= Len(current)
  /\ main' = "copy"
  /\ UNCHANGED <<vars, stacks, call_end, top, common, ready, stop, beat, period>>

CopyStack ==
  /\ main = "copy"
  /\ previous' = current
  /\ IF call_end
     THEN main' = "last" /\ UNCHANGED <<call_end, top, common>>
     ELSE Return
  /\ UNCHANGED <<vars, current, ready, stop, beat, period>>

\* The call that is returning leaves the tracer and both stacks.
EndLast ==
  /\ main = "last"
  /\ TracerEnd
  /\ previous' = SubSeq(previous, 1, Len(previous) - 1)
  /\ PopCurrent
  /\ Return
  /\ UNCHANGED <<ready, stop, beat, period>>

-----------------------------------------------------------------------------
(* finalize, handed on to the tracer, and destroy. *)

SamplerFinalize ==
  /\ main = "idle"
  /\ BeginFinalize
  /\ main' = "finalize"
  /\ UNCHANGED <<stacks, call_end, top, common, ready, stop, beat, period>>

UnwindTracer ==
  /\ main = "finalize"
  /\ \E d \in Deltas : Unwind(d)
  /\ UNCHANGED <<threads, stacks>>

FinalizeDone ==
  /\ main = "finalize"
  /\ EndFinalize
  /\ main' = "stopping"
  /\ UNCHANGED <<stacks, call_end, top, common, ready, stop, beat, period>>

StoreStop ==
  /\ main = "stopping"
  /\ stop' = TRUE
  /\ main' = "joining"
  /\ UNCHANGED <<vars, stacks, call_end, top, common, ready, beat, period>>

\* pthread_join returns once the thread is done; then everything is freed.
Join ==
  /\ main = "joining"
  /\ beat = "done"
  /\ main' = "gone"
  /\ UNCHANGED <<vars, stacks, call_end, top, common, ready, stop, beat, period>>

-----------------------------------------------------------------------------
(* The heartbeat thread. *)

ThreadMoves == UNCHANGED <<vars, stacks, main, call_end, top, common>>

\* The period is read once, set or not: malloc'd memory until Configure ran.
ReadPeriod ==
  /\ beat = "born"
  /\ period' = IF main = "configure" THEN "garbage" ELSE "configured"
  /\ beat' = "check"
  /\ UNCHANGED <<ready, stop>>
  /\ ThreadMoves

\* Mutant: the thread never looks at stop.
CheckStopNever ==
  /\ beat = "check"
  /\ beat' = "sleep"
  /\ UNCHANGED <<ready, stop, period>>
  /\ ThreadMoves

CheckStop ==
  /\ beat = "check"
  /\ beat' = IF stop THEN "done" ELSE "sleep"
  /\ UNCHANGED <<ready, stop, period>>
  /\ ThreadMoves

\* Mutant: only the first beat raises ready.
StoreReadyOnce ==
  /\ beat = "sleep"
  /\ beat' = "check"
  /\ UNCHANGED <<ready, stop, period>>
  /\ ThreadMoves

\* nanosleep returned.
StoreReady ==
  /\ beat = "sleep"
  /\ ready' = TRUE
  /\ beat' = "check"
  /\ UNCHANGED <<stop, period>>
  /\ ThreadMoves

Heartbeat == ReadPeriod \/ CheckStop \/ StoreReady

\* What the PHP thread does without being called again.
HandleSample == LoadReady \/ ClaimSample \/ EndPrevious \/ EndsDone
                \/ StartCurrent \/ StartsDone \/ CopyStack \/ EndLast
Destroy == UnwindTracer \/ FinalizeDone \/ StoreStop \/ Join

SamplerStep ==
  \/ StartHeartbeat
  \/ Configure
  \/ \E f \in Functions : SamplerCallStart(f)
  \/ SamplerStackExceeded
  \/ SamplerCallEnd
  \/ HandleSample
  \/ SamplerFinalize
  \/ Destroy
  \/ Heartbeat

SamplerNext == SamplerStep /\ (Len(current') <= MaxNesting /\ called' <= MaxCalled)

\* A nanosleep ends and a running thread goes on; the PHP thread may make no
\* further call, but what it is in the middle of it finishes.
SamplerSpec == SamplerInit /\ [][SamplerNext]_svars
SamplerFairSpec ==
  SamplerSpec /\ WF_svars(Heartbeat) /\ WF_svars(HandleSample) /\ WF_svars(Destroy)

=============================================================================
