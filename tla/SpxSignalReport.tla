--------------------------- MODULE SpxSignalReport ---------------------------
(***************************************************************************)
(* What the signal handling of SpxSignal promises: an aborted script ends, *)
(* the profiler is never interrupted at work by its own termination, and   *)
(* the report of a script aborted before its shutdown is whole.            *)
(***************************************************************************)
EXTENDS SpxSignal

TypeOK ==
  /\ pc \in Points
  /\ hook \in [op : {"before", "after"},
               then : {"script", "leave", "request_shutdown_off"}]
  /\ user_depth \in 0 .. MaxUserDepth
  /\ call_stack \in Nat /\ traced \in Nat
  /\ request_shutdown \in BOOLEAN
  /\ profiler \in {"null", "set"}
  /\ tracer \in {"none", "tracing", "finalized", "freed"}
  /\ reporter \in {"null", "open", "closed"}
  /\ installed \in BOOLEAN /\ sig_handler \in BOOLEAN
  /\ probing \in BOOLEAN /\ stop \in BOOLEAN
  /\ handler_called \in 0 .. MaxSignals /\ signals \in 0 .. MaxSignals
  /\ finalized \in Nat
  /\ exit \in Statuses
  /\ caught \in [at : Points \cup {"none"}, in_shutdown : BOOLEAN]

\* A whole report: finalized once, then closed.
Whole == finalized = 1 /\ reporter = "null" /\ tracer = "freed"

\* A call_start or call_end of the profiler, and the lowering of probing after
\* it, is never left for the termination of the profile: a signal that comes
\* there is left to the hook, and one that found probing low came elsewhere.
ProfilerIsNotInterrupted ==
  [][/\ At("call") => pc' \in {"call", "lower"}
     /\ At("lower") => pc' \in {"lower", "check"}]_vars

\* A script that is left alone, or aborted while it runs, be it in the middle of
\* a hook, leaves a whole report; second signals change nothing.
AbortedReportIsWhole ==
  ~Alive /\ ~caught.in_shutdown
         /\ caught.at \notin EndPoints \cup {"reporter", "profiler"}
    => Whole

\* While the tracer works it has as many calls open as the call stack, but for
\* the one a hook is at.
StacksAgree ==
  tracer = "tracing" /\ pc \in {"script", "leave", "finalize"}
                     /\ caught = NotCaught => traced = call_stack

\* Once a signal is caught the process ends, deferred or not.
SignalEndsProcess == (handler_called > 0) ~> ~Alive
==============================================================================
