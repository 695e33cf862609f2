------------------------- MODULE SpxProfilingHandler -------------------------
(***************************************************************************)
(* The profiling handler of src/src/php_spx.c with the execution hooks of  *)
(* src/src/spx_php.c: which calls of the script reach the profiler, and    *)
(* which part of a request a report covers, under automatic start and      *)
(* under spx_profiler_start() and spx_profiler_stop().                     *)
(*                                                                         *)
(* The Zend engine is the environment: it calls functions, returns from    *)
(* them, and may abandon them all at once (a fatal error's longjmp), which *)
(* runs no after hook.  A report is its number.  Signals are in SpxSignal. *)
(***************************************************************************)
EXTENDS Integers, Sequences, SequencesExt

CONSTANTS
  UserFunctions,
  InternalFunctions,            \* without the two that follow
  ProfilerStart, ProfilerStop,  \* spx_profiler_start and spx_profiler_stop
  EngineRuns,                   \* ::zend_compile_file, ::gc_collect_cycles
  RequestShutdown,              \* ::php_request_shutdown
  NoName,                       \* active_function_name = NULL
  StackCapacity,                \* spx_get_max_stack_depth()
  CanBail,                      \* whether scripts have fatal errors
  MaxRequests, MaxReports, MaxSpans, MaxNesting   \* bounds

Internals == InternalFunctions \cup {ProfilerStart, ProfilerStop}

ASSUME HandlerAssumption ==
  /\ UserFunctions \cap (Internals \cup EngineRuns) = {}
  /\ Internals \cap EngineRuns = {}
  /\ StackCapacity \in Nat \ {0}
  /\ CanBail \in BOOLEAN
  /\ {MaxRequests, MaxReports, MaxSpans, MaxNesting} \subseteq Nat

NoReport == 0

VARIABLES
  config,                \* auto_start, builtins, and full: SPX_REPORT=full
  process,               \* "between" requests, "running" one, or "dead"
  requests,
  running,               \* what the engine is executing, outermost first
  pending,               \* the body of the innermost function is still to run
  call_stack,            \* the names of the calls hooked, outermost first
  hooked,                \* the hooks of this request are set
  active_function_name,
  user_depth,
  request_shutdown,
  span_depth,
  open_starts,           \* history, which no guard reads: what the starts that
                         \* the script has not stopped yet began, oldest first
  profiler,              \* "none" or "tracing"
  told,                  \* the calls the profiler was told of, still open
  reporter,              \* the report being written, or NoReport
  full_report_key,       \* that of the last full report begun, or NoReport
  reports,               \* how many reports were begun
  complete,              \* the reports that were finalized, then closed
  returned               \* what the last spx_profiler_stop() returned

hooks   == <<hooked, active_function_name, user_depth, request_shutdown>>
session == <<profiler, reporter, full_report_key, reports, complete>>
stacks  == <<call_stack, told>>
vars    == <<config, process, requests, running, pending, stacks, hooks,
             span_depth, open_starts, session, returned>>

Configs == [auto_start : BOOLEAN, builtins : BOOLEAN, full : BOOLEAN]

Init ==
  /\ config = [auto_start |-> FALSE, builtins |-> FALSE, full |-> FALSE]
  /\ process = "between" /\ requests = 0
  /\ running = <<>> /\ pending = FALSE
  /\ call_stack = <<>> /\ told = <<>>
  /\ hooked = FALSE /\ active_function_name = NoName
  /\ user_depth = 0 /\ request_shutdown = FALSE
  /\ span_depth = 0 /\ open_starts = <<>>
  /\ profiler = "none" /\ reporter = NoReport /\ full_report_key = NoReport
  /\ reports = 0 /\ complete = {} /\ returned = NoReport

\* spx_utils_die: nothing runs any more.
Die == process' = "dead" /\ UNCHANGED stacks

-----------------------------------------------------------------------------
(* The hooks. *)

\* profiling_handler_ex_hook_before, for a call that goes by the name f.
Before(f) ==
  IF Len(call_stack) >= StackCapacity
  THEN Die
  ELSE /\ call_stack' = Append(call_stack, f)
       /\ told' = IF profiler = "none" THEN told ELSE Append(told, f)
       /\ UNCHANGED process

\* profiling_handler_ex_hook_after dies on an empty stack, and the tracer's
\* call_end on a return it has no call for.
CannotPop(prof, open) ==
  call_stack = <<>> \/ (prof = "tracing" /\ open = <<>>)

\* Mutant: the request shutdown begins without its before hook.
AfterThenNoShutdown(pushed) ==
  IF CannotPop(profiler, told)
  THEN Die
  ELSE /\ call_stack' = Front(call_stack)
       /\ told' = IF profiler = "none" THEN told ELSE Front(told)
       /\ UNCHANGED process

\* The hook pops whatever is on top; pushed is what the request shutdown that
\* may begin with it pushes.
AfterThen(pushed) ==
  IF CannotPop(profiler, told)
  THEN Die
  ELSE /\ call_stack' = Front(call_stack) \o pushed
       /\ told' = IF profiler = "none" THEN told ELSE Front(told) \o pushed
       /\ UNCHANGED process

After == AfterThen(<<>>)

NoHook == UNCHANGED <<stacks, process>>

\* Those of internal functions are set only under SPX_BUILTINS.
InternalHooked == hooked /\ config.builtins

\* Mutant: the name is taken from the engine run, whether there is one or not.
NameOfEngineRun(f) == active_function_name

\* spx_php_current_function: inside a compilation or a garbage collection all
\* calls go by its name, those of user code it runs (destructors) included.
NameOf(f) == IF active_function_name = NoName THEN f ELSE active_function_name

-----------------------------------------------------------------------------
(* profiling_handler_start and profiling_handler_stop. *)

\* spx_php_execution_finalize runs the after hook of the request shutdown, if
\* that began, whatever is on top of the stack.
EndsRequestShutdown == request_shutdown /\ InternalHooked

\* Mutant: once the request shutdown began the profile is dropped.
CompletedBeforeShutdown(prof, r) ==
  IF prof = "tracing" /\ ~request_shutdown THEN complete \cup {r} ELSE complete

\* Finalizing the profiler completes its report.
Completed(prof, r) ==
  IF prof = "tracing" THEN complete \cup {r} ELSE complete

\* Stop the profiler prof, told of the open calls, which writes report r.
HandlerStop(prof, open, r) ==
  /\ profiler' = "none"
  /\ reporter' = NoReport
  /\ IF EndsRequestShutdown /\ CannotPop(prof, open)
     THEN Die /\ UNCHANGED <<request_shutdown, active_function_name, complete>>
     ELSE /\ call_stack' = IF EndsRequestShutdown THEN Front(call_stack)
                                                  ELSE call_stack
          /\ told' = <<>>
          /\ request_shutdown' = FALSE
          /\ active_function_name' = IF EndsRequestShutdown THEN NoName
                                     ELSE active_function_name
          /\ complete' = Completed(prof, r)
          /\ UNCHANGED process

\* Any of the three objects may fail to be created; what was, is stopped again.
Outcomes == {"ok", "no_reporter", "no_tracer", "no_sampler"}

\* Mutant: the profiler starts from an empty stack.
ReplayedNone == <<>>

\* The calls already open are replayed to the new profiler.
Replayed == call_stack

\* The key is kept once there is a full reporter, whatever fails after that.
NewKey(outcome, r) ==
  IF config.full /\ outcome # "no_reporter" THEN r ELSE NoReport

\* At the start of a request there is nothing to replay.
HandlerStart(outcome) ==
  LET r == reports + 1
  IN  /\ reports' = IF outcome = "no_reporter" THEN reports ELSE r
      /\ full_report_key' = NewKey(outcome, r)
      /\ \/ /\ outcome = "ok"
            /\ profiler' = "tracing"
            /\ reporter' = r
            /\ told' = Replayed
            /\ UNCHANGED <<call_stack, request_shutdown, active_function_name,
                           complete, process>>
         \/ /\ outcome \in {"no_reporter", "no_tracer"}
            /\ HandlerStop("none", <<>>, r)
         \/ /\ outcome = "no_sampler"
            /\ HandlerStop("tracing", <<>>, r)

-----------------------------------------------------------------------------
(* Requests. *)

\* profiling_handler_init, up to an automatic start.
RequestStart(c) ==
  /\ process = "between" /\ requests < MaxRequests
  /\ config' = c
  /\ process' = "running" /\ requests' = requests + 1
  /\ pending' = c.auto_start
  /\ hooked' = TRUE /\ user_depth' = 0 /\ request_shutdown' = FALSE
  /\ span_depth' = 0 /\ open_starts' = <<>>
  /\ call_stack' = <<>> /\ told' = <<>>
  /\ profiler' = "none" /\ reporter' = NoReport /\ full_report_key' = NoReport
  /\ UNCHANGED <<running, active_function_name, reports, complete, returned>>

\* Without memory for the call stack it returns first: no hook is set and the
\* rest is what the last request left.
RequestStartFails(c) ==
  /\ process = "between" /\ requests < MaxRequests
  /\ config' = c
  /\ process' = "running" /\ requests' = requests + 1
  /\ open_starts' = <<>>
  /\ UNCHANGED <<running, pending, stacks, hooks, span_depth, session, returned>>

AutoStart(outcome) ==
  /\ process = "running" /\ pending /\ running = <<>>
  /\ pending' = FALSE
  /\ HandlerStart(outcome)
  /\ UNCHANGED <<config, requests, running, hooked, user_depth, span_depth,
                 open_starts, returned>>

\* profiling_handler_shutdown, once nothing runs.
RequestEnd ==
  /\ process = "running" /\ ~pending /\ running = <<>>
  /\ profiler' = "none" /\ reporter' = NoReport
  /\ IF EndsRequestShutdown /\ CannotPop(profiler, told)
     THEN Die /\ UNCHANGED <<hooks, complete>>
     ELSE /\ process' = "between"
          /\ call_stack' = <<>> /\ told' = <<>>
          /\ hooked' = FALSE /\ user_depth' = 0 /\ request_shutdown' = FALSE
          /\ active_function_name' = IF EndsRequestShutdown THEN NoName
                                     ELSE active_function_name
          /\ complete' = Completed(profiler, reporter)
  /\ UNCHANGED <<config, requests, running, pending, span_depth, open_starts,
                 full_report_key, reports, returned>>

-----------------------------------------------------------------------------
(* Calls and returns, as the hooked engine makes them. *)

CanCall == process = "running" /\ ~pending /\ Len(running) < MaxNesting

\* What a compilation or a collection runs directly is user code.
NotInEngineRun == running # <<>> => Last(running) \notin EngineRuns

Innermost(S) == /\ process = "running" /\ ~pending
                /\ running # <<>> /\ Last(running) \in S

UserCall(f) ==
  /\ CanCall
  /\ running' = Append(running, f)
  /\ user_depth' = IF hooked THEN user_depth + 1 ELSE user_depth
  /\ IF hooked THEN Before(NameOf(f)) ELSE NoHook
  /\ UNCHANGED <<config, requests, pending, hooked, active_function_name,
                 request_shutdown, span_depth, open_starts, session,
                 returned>>

\* The return that leaves no user function begins the request shutdown.
UserReturn ==
  LET last_one == hooked /\ user_depth = 1 /\ ~request_shutdown
  IN  /\ Innermost(UserFunctions)
      /\ running' = Front(running)
      /\ user_depth' = IF hooked THEN user_depth - 1 ELSE user_depth
      /\ request_shutdown' = (request_shutdown \/ last_one)
      /\ active_function_name' = IF last_one /\ InternalHooked THEN NoName
                                 ELSE active_function_name
      /\ IF hooked
         THEN AfterThen(IF last_one /\ InternalHooked
                        THEN <<RequestShutdown>> ELSE <<>>)
         ELSE NoHook
      /\ UNCHANGED <<config, requests, pending, hooked, span_depth, open_starts,
                     session, returned>>

InternalCall(f) ==
  /\ CanCall /\ NotInEngineRun
  /\ running' = Append(running, f)
  /\ pending' = (f \in {ProfilerStart, ProfilerStop})
  /\ IF InternalHooked THEN Before(NameOf(f)) ELSE NoHook
  /\ UNCHANGED <<config, requests, hooks, span_depth, open_starts, session,
                 returned>>

InternalReturn ==
  /\ Innermost(Internals)
  /\ running' = Front(running)
  /\ IF InternalHooked THEN After ELSE NoHook
  /\ UNCHANGED <<config, requests, pending, hooks, span_depth, open_starts,
                 session, returned>>

\* A compilation or a garbage collection lends its name to what runs inside.
EngineRun(r) ==
  /\ CanCall /\ NotInEngineRun
  /\ running' = Append(running, r)
  /\ active_function_name' = IF hooked THEN r ELSE active_function_name
  /\ IF InternalHooked THEN Before(r) ELSE NoHook
  /\ UNCHANGED <<config, requests, pending, hooked, user_depth,
                 request_shutdown, span_depth, open_starts, session,
                 returned>>

\* Mutant: the name of a run that ends stays.
NameKept == active_function_name

\* global_hook_*: the name is reset after the run, if that comes back.
NameReset == IF hooked THEN NoName ELSE active_function_name

EngineRunEnds ==
  /\ Innermost(EngineRuns)
  /\ running' = Front(running)
  /\ active_function_name' = NameReset
  /\ IF InternalHooked THEN After ELSE NoHook
  /\ UNCHANGED <<config, requests, pending, hooked, user_depth,
                 request_shutdown, span_depth, open_starts, session,
                 returned>>

\* A longjmp out of everything: no after hook runs.
Bailout ==
  /\ CanBail
  /\ process = "running" /\ ~pending /\ running # <<>>
  /\ running' = <<>>
  /\ UNCHANGED <<config, process, requests, pending, stacks, hooks, span_depth,
                 open_starts, session, returned>>

-----------------------------------------------------------------------------
(* The bodies of spx_profiler_start() and spx_profiler_stop(). *)

Body(f) == process = "running" /\ pending /\ running # <<>> /\ Last(running) = f

Rest == UNCHANGED <<config, requests, running, hooked, user_depth>>

NoEffect == UNCHANGED <<process, stacks, session, request_shutdown,
                        active_function_name>>

\* Refused under automatic start.
ApiRefused ==
  /\ Body(ProfilerStart) \/ Body(ProfilerStop)
  /\ config.auto_start
  /\ pending' = FALSE
  /\ NoEffect /\ Rest /\ UNCHANGED <<span_depth, open_starts, returned>>

\* The history: a start that begins report r, or none; a stop, which is that of
\* the latest start that has none yet.
Opens(r) == open_starts' = Append(open_starts, r)
Closes   == open_starts' = IF open_starts = <<>> THEN <<>> ELSE Front(open_starts)

\* Mutant: a nested start is not counted.
NestedNotCounted == span_depth

\* spx_profiler_start counts itself first.
OneSpanMore == span_depth + 1

\* A nested span, or one that finds a profiler: nothing starts.
StartNested ==
  /\ Body(ProfilerStart) /\ ~config.auto_start
  /\ span_depth < MaxSpans
  /\ span_depth > 0 \/ profiler # "none"
  /\ pending' = FALSE
  /\ span_depth' = OneSpanMore /\ Opens(NoReport)
  /\ NoEffect /\ Rest /\ UNCHANGED returned

StartSpan(outcome) ==
  /\ Body(ProfilerStart) /\ ~config.auto_start
  /\ span_depth = 0 /\ profiler = "none" /\ reports < MaxReports
  /\ pending' = FALSE
  /\ span_depth' = 1
  /\ HandlerStart(outcome) /\ Opens(reporter')
  /\ Rest /\ UNCHANGED returned

\* The stop that matches the first start.
OutermostEnds == span_depth = 1

\* No span, or a nested one, ends: nothing stops and null is returned.
StopNested ==
  /\ Body(ProfilerStop) /\ ~config.auto_start
  /\ ~OutermostEnds
  /\ pending' = FALSE
  /\ span_depth' = (IF span_depth = 0 THEN 0 ELSE span_depth - 1) /\ Closes
  /\ returned' = NoReport
  /\ NoEffect /\ Rest

StopSpan ==
  /\ Body(ProfilerStop) /\ ~config.auto_start
  /\ OutermostEnds
  /\ pending' = FALSE
  /\ span_depth' = 0 /\ Closes
  /\ HandlerStop(profiler, told, reporter)
  /\ returned' = full_report_key
  /\ Rest /\ UNCHANGED <<full_report_key, reports>>

Next ==
  \/ \E c \in Configs : RequestStart(c) \/ RequestStartFails(c)
  \/ \E o \in Outcomes : AutoStart(o) \/ StartSpan(o)
  \/ RequestEnd
  \/ \E f \in UserFunctions : UserCall(f)
  \/ UserReturn
  \/ \E f \in Internals : InternalCall(f)
  \/ InternalReturn
  \/ \E r \in EngineRuns : EngineRun(r)
  \/ EngineRunEnds
  \/ Bailout
  \/ ApiRefused
  \/ StartNested
  \/ StopNested
  \/ StopSpan

Spec == Init /\ [][Next]_vars

=============================================================================
