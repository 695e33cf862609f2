------------------------------ MODULE SpxSignal ------------------------------
(***************************************************************************)
(* A command line script profiled from its start, with the SIGINT and      *)
(* SIGTERM handler of src/src/spx_signal_handler.c: php_spx.c ends the     *)
(* profile from the handler, or defers that to the hook it interrupted.    *)
(*                                                                         *)
(* One action per statement a signal can fall between.  What a handler     *)
(* interrupts never resumes, for the handler ends the process: pc is the   *)
(* place of whichever runs, and a signal that terminates moves it.         *)
(* Stacks are their depths here; SpxProfilingHandler has their contents.   *)
(***************************************************************************)
EXTENDS Integers

CONSTANTS
  Builtins,     \* SPX_BUILTINS: the request shutdown is hooked as a call
  MaxUserDepth, MaxSignals   \* bounds

ASSUME SignalAssumption ==
  /\ Builtins \in BOOLEAN
  /\ MaxUserDepth \in Nat \ {0}
  /\ MaxSignals \in Nat

VARIABLES
  pc,
  hook,              \* the hook that runs: which one, and where it returns to
  user_depth, request_shutdown,
  call_stack,        \* its depth
  traced,            \* stack.depth of the tracer
  profiler,          \* context.profiler: "null", or "set"
  tracer,            \* the object: "none", "tracing", "finalized" or "freed"
  reporter,          \* "null", "open", or "closed" (destroyed, pointer still set)
  installed,         \* sigaction and global_handler
  sig_handler,       \* context.sig_handler is not NULL
  handler_called, probing, stop,
  signals,           \* how many were sent
  finalized,         \* how often FINALIZE reached the reporter
  exit,              \* how the process ended, or "no"
  caught             \* pc and request_shutdown when the first signal came

handler == <<installed, sig_handler, handler_called, probing, stop>>
objects == <<profiler, tracer, reporter, finalized>>
depths  == <<user_depth, call_stack, traced>>
vars    == <<pc, hook, depths, request_shutdown, objects, handler, signals,
             exit, caught>>

Statuses == {"no", "returned", "success", "signo", "died", "killed", "crash"}

HookPoints == {"stack", "raise", "call", "lower", "check"}
EndPoints  == {"execution_finalize", "request_shutdown_off", "finalize",
               "destroy", "profiler_null", "close", "reporter_null",
               "uninstall", "handler_null", "exit"}
Points == {"reporter", "profiler", "script", "leave"} \cup HookPoints \cup EndPoints

NotCaught == [at |-> "none", in_shutdown |-> FALSE]

\* From the handler's installation on, with the script still to be started.
Init ==
  /\ pc = "reporter" /\ hook = [op |-> "before", then |-> "script"]
  /\ user_depth = 0 /\ call_stack = 0 /\ traced = 0
  /\ request_shutdown = FALSE
  /\ profiler = "null" /\ tracer = "none" /\ reporter = "null"
  /\ installed = TRUE /\ sig_handler = TRUE
  /\ handler_called = 0 /\ probing = FALSE /\ stop = FALSE
  /\ signals = 0 /\ finalized = 0
  /\ exit = "no" /\ caught = NotCaught

Alive == exit = "no"

At(p) == Alive /\ pc = p

Goto(p) == pc' = p /\ UNCHANGED <<exit>>

\* spx_utils_die, and what an object used after it was freed may do.
EndProcess(how) == exit' = how /\ UNCHANGED pc

Hook(op, then) == hook' = [op |-> op, then |-> then]

-----------------------------------------------------------------------------
(* profiling_handler_start *)

CreateReporter ==
  /\ At("reporter")
  /\ reporter' = "open"
  /\ Goto("profiler")
  /\ UNCHANGED <<hook, depths, request_shutdown, profiler, tracer, finalized,
                 handler, signals, caught>>

CreateProfiler ==
  /\ At("profiler")
  /\ profiler' = "set" /\ tracer' = "tracing"
  /\ Goto("script")
  /\ UNCHANGED <<hook, depths, request_shutdown, reporter, finalized, handler,
                 signals, caught>>

-----------------------------------------------------------------------------
(* The script: calls, returns, its end. *)

CallUser ==
  /\ At("script") /\ user_depth < MaxUserDepth
  /\ user_depth' = user_depth + 1
  /\ Hook("before", "script") /\ Goto("stack")
  /\ UNCHANGED <<call_stack, traced, request_shutdown, objects, handler,
                 signals, caught>>

ReturnUser ==
  /\ At("script") /\ user_depth > 0
  /\ Hook("after", "leave") /\ Goto("stack")
  /\ UNCHANGED <<depths, request_shutdown, objects, handler, signals, caught>>

\* The last user function to return begins the request shutdown.
LeaveUser ==
  /\ At("leave")
  /\ user_depth' = user_depth - 1
  /\ IF user_depth = 1 /\ ~request_shutdown
     THEN /\ request_shutdown' = TRUE
          /\ IF Builtins THEN Hook("before", "script") /\ Goto("stack")
                         ELSE Goto("script") /\ UNCHANGED hook
     ELSE Goto("script") /\ UNCHANGED <<request_shutdown, hook>>
  /\ UNCHANGED <<call_stack, traced, objects, handler, signals, caught>>

\* RSHUTDOWN calls profiling_handler_shutdown.
EndRequest ==
  /\ At("script") /\ user_depth = 0
  /\ Goto("execution_finalize")
  /\ UNCHANGED <<hook, depths, request_shutdown, objects, handler, signals, caught>>

-----------------------------------------------------------------------------
(* The hooks.  A full call stack, which also dies, is left out: the bound on  *)
(* user_depth is below its capacity.                                          *)

\* The hook goes on to the profiler if there is one.
Notified == profiler = "set"

Stack ==
  /\ At("stack")
  /\ IF hook.op = "after" /\ call_stack = 0
     THEN EndProcess("died") /\ UNCHANGED call_stack
     ELSE /\ call_stack' = IF hook.op = "before" THEN call_stack + 1
                                                 ELSE call_stack - 1
          /\ Goto(IF Notified THEN "raise" ELSE hook.then)
  /\ UNCHANGED <<hook, user_depth, traced, request_shutdown, objects, handler,
                 signals, caught>>

SetProbing ==
  \/ /\ At("raise")
     /\ probing' = TRUE
     /\ Goto("call")
     /\ UNCHANGED <<hook, depths, request_shutdown, objects, installed,
                    sig_handler, handler_called, stop, signals, caught>>
  \/ /\ At("lower")
     /\ probing' = FALSE
     /\ Goto("check")
     /\ UNCHANGED <<hook, depths, request_shutdown, objects, installed,
                    sig_handler, handler_called, stop, signals, caught>>

\* call_start or call_end of the profiler.
CallProfiler ==
  /\ At("call")
  /\ IF tracer = "freed"
     THEN EndProcess("crash") /\ UNCHANGED traced
     ELSE IF tracer = "finalized"
     THEN Goto("lower") /\ UNCHANGED traced
     ELSE IF hook.op = "after" /\ traced = 0
     THEN EndProcess("died") /\ UNCHANGED traced
     ELSE /\ traced' = IF hook.op = "before" THEN traced + 1 ELSE traced - 1
          /\ Goto("lower")
  /\ UNCHANGED <<hook, user_depth, call_stack, request_shutdown, objects,
                 handler, signals, caught>>

\* Mutant: a deferred signal is forgotten.
CheckStopForgotten ==
  /\ At("check")
  /\ Goto(hook.then)
  /\ UNCHANGED <<hook, depths, request_shutdown, objects, handler, signals, caught>>

\* A deferred signal terminates now: profiling_handler_sig_terminate.
CheckStop ==
  /\ At("check")
  /\ Goto(IF stop THEN "execution_finalize" ELSE hook.then)
  /\ UNCHANGED <<hook, depths, request_shutdown, objects, handler, signals, caught>>

-----------------------------------------------------------------------------
(* profiling_handler_shutdown, for the end of the request and for a signal. *)

ExecutionFinalize ==
  /\ At("execution_finalize")
  /\ IF request_shutdown /\ Builtins
     THEN Hook("after", "request_shutdown_off") /\ Goto("stack")
     ELSE Goto("request_shutdown_off") /\ UNCHANGED hook
  /\ UNCHANGED <<depths, request_shutdown, objects, handler, signals, caught>>

RequestShutdownOff ==
  /\ At("request_shutdown_off")
  /\ request_shutdown' = FALSE
  /\ Goto(IF profiler = "set" THEN "finalize" ELSE "close")
  /\ UNCHANGED <<hook, depths, objects, handler, signals, caught>>

Finalize ==
  /\ At("finalize")
  /\ IF tracer = "freed"
     THEN EndProcess("crash") /\ UNCHANGED <<tracer, traced, finalized>>
     ELSE /\ traced' = 0
          /\ tracer' = "finalized"
          /\ finalized' = finalized + 1
          /\ Goto("destroy")
  /\ UNCHANGED <<hook, user_depth, call_stack, request_shutdown, profiler,
                 reporter, handler, signals, caught>>

Destroy ==
  /\ At("destroy")
  /\ tracer' = "freed"
  /\ Goto("profiler_null")
  /\ UNCHANGED <<hook, depths, request_shutdown, profiler, reporter, finalized,
                 handler, signals, caught>>

ProfilerNull ==
  /\ At("profiler_null")
  /\ profiler' = "null"
  /\ Goto("close")
  /\ UNCHANGED <<hook, depths, request_shutdown, tracer, reporter, finalized,
                 handler, signals, caught>>

CloseReporter ==
  /\ At("close")
  /\ IF reporter = "null"
     THEN Goto("uninstall") /\ UNCHANGED reporter
     ELSE IF reporter = "closed"
     THEN EndProcess("crash") /\ UNCHANGED reporter
     ELSE Goto("reporter_null") /\ reporter' = "closed"
  /\ UNCHANGED <<hook, depths, request_shutdown, profiler, tracer, finalized,
                 handler, signals, caught>>

ReporterNull ==
  /\ At("reporter_null")
  /\ reporter' = "null"
  /\ Goto("uninstall")
  /\ UNCHANGED <<hook, depths, request_shutdown, profiler, tracer, finalized,
                 handler, signals, caught>>

Uninstall ==
  /\ At("uninstall")
  /\ installed' = FALSE
  /\ Goto("handler_null")
  /\ UNCHANGED <<hook, depths, request_shutdown, objects, sig_handler,
                 handler_called, probing, stop, signals, caught>>

\* The handler is freed and context.sig_handler set to NULL.
HandlerNull ==
  /\ At("handler_null")
  /\ sig_handler' = FALSE
  /\ Goto("exit")
  /\ UNCHANGED <<hook, depths, request_shutdown, objects, installed,
                 handler_called, probing, stop, signals, caught>>

\* The signal number is read from the handler, if there is one.
SignalStatus == IF sig_handler THEN "signo" ELSE "success"

Exit ==
  /\ At("exit")
  /\ EndProcess(IF handler_called > 0 THEN SignalStatus ELSE "returned")
  /\ UNCHANGED <<hook, depths, request_shutdown, objects, handler, signals, caught>>

-----------------------------------------------------------------------------
(* signal_callback *)

\* Mutant: a second signal terminates again.
TerminatesAgain == installed /\ ~probing

\* Mutant: the profiler is interrupted at work.
TerminatesAnywhere == installed /\ handler_called = 0

\* A first signal that finds no hook in the profiler terminates at once.
Terminates == installed /\ handler_called = 0 /\ ~probing

Signal ==
  /\ Alive /\ signals < MaxSignals
  /\ signals' = signals + 1
  /\ caught' = IF handler_called = 0 /\ installed
               THEN [at |-> pc, in_shutdown |-> request_shutdown] ELSE caught
  /\ handler_called' = IF installed THEN handler_called + 1 ELSE handler_called
  /\ stop' = (stop \/ (installed /\ handler_called = 0 /\ probing))
  /\ IF ~installed
     THEN EndProcess("killed")
     ELSE Goto(IF Terminates THEN "execution_finalize" ELSE pc)
  /\ UNCHANGED <<hook, depths, request_shutdown, objects, installed,
                 sig_handler, probing>>

-----------------------------------------------------------------------------
\* The statements that follow one another without the script's doing.
Proceed ==
  \/ CreateReporter \/ CreateProfiler
  \/ LeaveUser
  \/ Stack \/ SetProbing \/ CallProfiler \/ CheckStop
  \/ ExecutionFinalize \/ RequestShutdownOff
  \/ Finalize \/ Destroy \/ ProfilerNull
  \/ CloseReporter \/ ReporterNull
  \/ Uninstall \/ HandlerNull \/ Exit

Next == Proceed \/ CallUser \/ ReturnUser \/ EndRequest \/ Signal

Fairness == WF_vars(Proceed)

Spec == Init /\ [][Next]_vars

FairSpec == Spec /\ Fairness

=============================================================================
