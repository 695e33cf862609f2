------------------------- MODULE SpxProfilingReport -------------------------
(***************************************************************************)
(* What the profiling handler of SpxProfilingHandler promises the script:  *)
(* its hooks never end it by themselves, spans nest, and every report that *)
(* is begun is finished and handed out under its own key.                  *)
(***************************************************************************)
EXTENDS SpxProfilingHandler, FiniteSets

Names == UserFunctions \cup Internals \cup EngineRuns \cup {RequestShutdown}

TypeOK ==
  /\ config \in Configs
  /\ process \in {"between", "running", "dead"}
  /\ requests \in Nat /\ reports \in Nat /\ user_depth \in Nat /\ span_depth \in Nat
  /\ running \in Seq(UserFunctions \cup Internals \cup EngineRuns)
  /\ call_stack \in Seq(Names) /\ told \in Seq(Names)
  /\ open_starts \in Seq(Nat)
  /\ pending \in BOOLEAN /\ hooked \in BOOLEAN /\ request_shutdown \in BOOLEAN
  /\ active_function_name \in EngineRuns \cup {NoName}
  /\ profiler \in {"none", "tracing"}
  /\ {reporter, full_report_key, returned} \subseteq 0 .. reports
  /\ complete \subseteq 1 .. reports

\* Those whose calls the hooks report, in this request.
HookedNames ==
  IF ~hooked THEN {} ELSE IF config.builtins THEN Names ELSE UserFunctions

\* How many calls in s are to a function of S.
Calls(s, S) == Cardinality({i \in DOMAIN s : s[i] \in S})

\* The calls the engine is in that were hooked when they began and will be
\* hooked when they return, and the request shutdown.
Owed == Calls(running, HookedNames) + (IF EndsRequestShutdown THEN 1 ELSE 0)

\* Every return the engine still owes, and the end of a request shutdown that
\* began, finds a call on the stack: whatever is started, stopped or abandoned
\* where, "Failed to pop from call stack" never ends the script.  What does is a
\* call past the stack's capacity, or a sampler that cannot be created during the
\* request shutdown.
EveryPopHasAPush ==
  /\ process = "running" => Owed <= Len(call_stack)
  /\ process = "dead" =>
       \/ Len(call_stack) = StackCapacity
       \/ EndsRequestShutdown /\ reporter = NoReport

\* The profiler has open exactly the calls on the stack, those that were open
\* when it was started included, so that each return it is told of closes the
\* call it was told of.
ProfilerFollowsStack ==
  process = "running" /\ profiler = "tracing" => told = call_stack

\* README.md:206: spans "can safely be nested".  Starts and stops pair off like
\* brackets, whatever was counted: without an automatic start, a profile that
\* runs is that of the oldest start without its stop yet, and the profile that a
\* start began runs until the very stop that pairs off with it.
SpansAreWhole ==
  process = "running" /\ ~config.auto_start =>
    /\ profiler = "tracing" => open_starts # <<>> /\ open_starts[1] = reporter
    /\ \A i \in DOMAIN open_starts :
         open_starts[i] # NoReport => profiler = "tracing" /\ reporter = open_starts[i]

\* README.md:207: the stop that ends a profile for a full report returns the
\* key of that report, which by then is complete; a nested one returns none.  A
\* stop whose profile could not be set up returns no key or that of the report
\* that failed, which leads nowhere, but never that of an earlier report.
StopReturnsItsKey ==
  process = "running" /\ process' = "running" /\ span_depth' < span_depth =>
    IF span_depth' > 0 THEN returned' = NoReport
    ELSE /\ returned' \in {NoReport, reports}
         /\ profiler = "tracing" /\ config.full =>
              returned' = reporter /\ returned' \in complete'

\* A report that is being written is never let go of unfinished while the
\* process lives, and its key goes to the stop that ended it.
ReportsAreFinished ==
  [][/\ process' # "dead" /\ reporter # NoReport /\ reporter' # reporter
          => reporter \in complete'
     /\ StopReturnsItsKey]_vars

\* Calls go by the name of a compilation or a collection that is over.
Misnamed ==
  /\ active_function_name # NoName
  /\ \A i \in DOMAIN running : running[i] # active_function_name

\* While the hooks are set, only a fatal error inside a compilation or a
\* collection leaves its name to the calls that come after it (reset_context
\* does not clear it, spx_php.c:903); every other way out takes the name back,
\* also when runs, user code in them and spans that stop in them are nested.
OnlyErrorsMisname ==
  [][hooked /\ Misnamed' =>
       Misnamed \/ (running' = <<>> /\ UNCHANGED <<process, call_stack, user_depth>>)]_vars
============================================================================
