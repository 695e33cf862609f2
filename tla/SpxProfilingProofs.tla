-------------------------- MODULE SpxProfilingProofs --------------------------
(***************************************************************************)
(* Proofs about SpxProfilingHandler, for any functions, any capacity of    *)
(* the call stack and any number of requests, reports, spans and nested    *)
(* calls.                                                                  *)
(***************************************************************************)
EXTENDS SpxProfilingReport, FiniteSetTheorems, TLAPS

-----------------------------------------------------------------------------
(* Sequences, and how many of their members are in a set. *)

LEMMA LastOne ==
  ASSUME NEW S, NEW s \in Seq(S), s # <<>>
  PROVE  /\ Len(s) \in Nat \ {0}
         /\ Last(s) = s[Len(s)] /\ Last(s) \in S
BY DEF Last

LEMMA FrontOf ==
  ASSUME NEW S, NEW s \in Seq(S), s # <<>>
  PROVE  /\ Front(s) \in Seq(S)
         /\ Len(Front(s)) = Len(s) - 1
         /\ \A i \in 1 .. Len(s) - 1 : Front(s)[i] = s[i]
<1>1. Len(s) \in Nat \ {0}
  BY LastOne
<1>2. \A i \in 1 .. Len(s) - 1 : i \in 1 .. Len(s) /\ s[i] \in S
  BY <1>1
<1>3. Front(s) = [i \in 1 .. Len(s) - 1 |-> s[i]]
  <2>1. Front(s) = [i \in 1 .. (Len(s) - 1) - 1 + 1 |-> s[i + 1 - 1]]
    BY <1>1 DEF Front
  <2> QED BY <1>1, <2>1
<1> QED BY <1>1, <1>2, <1>3

LEMMA CallsFinite ==
  ASSUME NEW T, NEW s \in Seq(T), NEW S
  PROVE  /\ IsFiniteSet({i \in DOMAIN s : s[i] \in S})
         /\ Calls(s, S) \in Nat
<1>1. Len(s) \in Nat /\ DOMAIN s = 1 .. Len(s)
  OBVIOUS
<1>2. IsFiniteSet(1 .. Len(s))
  BY <1>1, FS_Interval
<1>3. {i \in DOMAIN s : s[i] \in S} \in SUBSET (1 .. Len(s))
  BY <1>1
<1>4. IsFiniteSet({i \in DOMAIN s : s[i] \in S})
  BY <1>2, <1>3, FS_Subset
<1> QED BY <1>4, FS_CardinalityType DEF Calls

LEMMA CallsNone == \A S : Calls(<<>>, S) = 0
<1> SUFFICES ASSUME NEW S PROVE Calls(<<>>, S) = 0
  OBVIOUS
<1>1. {i \in DOMAIN <<>> : <<>>[i] \in S} = {}
  OBVIOUS
<1> QED BY <1>1, FS_EmptySet DEF Calls

\* No call is to a function of the empty set.
LEMMA CallsToNobody == \A s : Calls(s, {}) = 0
<1> SUFFICES ASSUME NEW s PROVE Calls(s, {}) = 0
  OBVIOUS
<1>1. {i \in DOMAIN s : s[i] \in {}} = {}
  OBVIOUS
<1> QED BY <1>1, FS_EmptySet DEF Calls

LEMMA CallsAppend ==
  ASSUME NEW T, NEW s \in Seq(T), NEW e \in T, NEW S
  PROVE  Calls(Append(s, e), S) = Calls(s, S) + (IF e \in S THEN 1 ELSE 0)
<1> DEFINE n == Len(s) + 1
           P == {i \in DOMAIN s : s[i] \in S}
           Q == {i \in DOMAIN Append(s, e) : Append(s, e)[i] \in S}
<1>1. /\ Len(s) \in Nat /\ DOMAIN s = 1 .. Len(s)
      /\ DOMAIN Append(s, e) = 1 .. n
      /\ Append(s, e)[n] = e
      /\ \A i \in 1 .. Len(s) : Append(s, e)[i] = s[i]
  OBVIOUS
<1>2. Q = IF e \in S THEN P \cup {n} ELSE P
  BY <1>1
<1>3. n \notin P
  BY <1>1
<1>4. IsFiniteSet(P) /\ Cardinality(P) \in Nat
  BY CallsFinite, FS_CardinalityType
<1>5. Cardinality(P \cup {n}) = Cardinality(P) + 1
  <2> HIDE DEF n, P
  <2> QED BY <1>3, <1>4, FS_AddElement
<1>6. Cardinality(Q) = Cardinality(P) + (IF e \in S THEN 1 ELSE 0)
  <2> HIDE DEF n, P, Q
  <2> QED BY <1>2, <1>4, <1>5
<1> QED BY <1>6 DEF Calls

LEMMA CallsFront ==
  ASSUME NEW T, NEW s \in Seq(T), s # <<>>, NEW S
  PROVE  /\ Calls(s, S) = Calls(Front(s), S) + (IF Last(s) \in S THEN 1 ELSE 0)
         /\ Calls(Front(s), S) \in Nat
<1>1. /\ Front(s) \in Seq(T) /\ Last(s) \in T
      /\ s = Append(Front(s), Last(s))
  <2>1. /\ Front(s) \in Seq(T) /\ Len(Front(s)) = Len(s) - 1
        /\ \A i \in 1 .. Len(s) - 1 : Front(s)[i] = s[i]
    BY FrontOf
  <2>2. Len(s) \in Nat \ {0} /\ Last(s) = s[Len(s)] /\ Last(s) \in T
    BY LastOne
  <2> QED BY <2>1, <2>2
<1>2. Calls(Append(Front(s), Last(s)), S)
        = Calls(Front(s), S) + (IF Last(s) \in S THEN 1 ELSE 0)
  BY <1>1, CallsAppend
<1>3. Calls(Front(s), S) \in Nat
  BY <1>1, CallsFinite
<1> QED BY <1>1, <1>2, <1>3

-----------------------------------------------------------------------------
(* The inductive invariant. *)

\* Between requests nothing runs, nothing is hooked and nothing is profiled.
QuietBetween ==
  process = "between" =>
    running = <<>> /\ ~pending /\ ~hooked /\ profiler = "none"

\* An automatic start that is still to come finds no profiler.
NotYetStarted == pending /\ running = <<>> => profiler = "none"

\* The profiler that runs writes a report, whose key is the one that is kept.
WritesItsReport ==
  /\ profiler = "tracing" <=> reporter # NoReport
  /\ profiler = "tracing" /\ config.full => full_report_key = reporter

\* user_depth counts every user function the engine is in.  A fatal error leaves
\* it too high, and it is never too low.
DepthCounted == hooked => Calls(running, UserFunctions) <= user_depth

StackBounded == Len(call_stack) <= StackCapacity

IInv ==
  /\ TypeOK
  /\ QuietBetween /\ NotYetStarted /\ WritesItsReport
  /\ DepthCounted /\ StackBounded
  /\ EveryPopHasAPush /\ ProfilerFollowsStack

Executed == UserFunctions \cup Internals \cup EngineRuns

\* The part about the stacks.
StacksOK ==
  /\ call_stack \in Seq(Names) /\ told \in Seq(Names)
  /\ StackBounded /\ ProfilerFollowsStack

LEMMA InitHolds == Init => IInv
<1> SUFFICES ASSUME Init PROVE IInv
  OBVIOUS
<1> USE HandlerAssumption
<1>1. TypeOK
  <2>1. config \in Configs
    BY DEF Init, Configs
  <2>2. /\ running \in Seq(UserFunctions \cup Internals \cup EngineRuns)
        /\ call_stack \in Seq(Names) /\ told \in Seq(Names)
        /\ open_starts \in Seq(Nat)
    BY DEF Init
  <2>3. /\ {reporter, full_report_key, returned} \subseteq 0 .. reports
        /\ complete \subseteq 1 .. reports
    BY DEF Init, NoReport
  <2> QED BY <2>1, <2>2, <2>3 DEF Init, TypeOK
<1>2. QuietBetween /\ NotYetStarted /\ WritesItsReport /\ DepthCounted
  BY DEF Init, QuietBetween, NotYetStarted, WritesItsReport, DepthCounted, NoReport
<1>3. StackBounded
  BY DEF Init, StackBounded
<1>4. EveryPopHasAPush /\ ProfilerFollowsStack
  BY DEF Init, EveryPopHasAPush, ProfilerFollowsStack
<1> QED BY <1>1, <1>2, <1>3, <1>4 DEF IInv

-----------------------------------------------------------------------------
(* What the hooks do to the stacks. *)

LEMMA BeforePushes ==
  ASSUME StacksOK, process = "running", profiler \in {"none", "tracing"},
         NEW f \in Names, Before(f), UNCHANGED profiler
  PROVE  /\ StacksOK'
         /\ \/ process' = "running" /\ Len(call_stack') = Len(call_stack) + 1
            \/ process' = "dead" /\ Len(call_stack') = StackCapacity
<1> USE HandlerAssumption
<1>1. Len(call_stack) \in Nat /\ Len(call_stack) <= StackCapacity
  BY DEF StacksOK, StackBounded
<1>2. CASE Len(call_stack) >= StackCapacity
  <2>1. process' = "dead" /\ call_stack' = call_stack /\ told' = told
    BY <1>2 DEF Before, Die, stacks
  <2>2. Len(call_stack) = StackCapacity
    BY <1>1, <1>2
  <2> QED BY <2>1, <2>2 DEF StacksOK, StackBounded, ProfilerFollowsStack
<1>3. CASE ~(Len(call_stack) >= StackCapacity)
  <2>1. /\ call_stack' = Append(call_stack, f)
        /\ told' = IF profiler = "none" THEN told ELSE Append(told, f)
        /\ process' = "running"
    BY <1>3 DEF Before
  <2>2. call_stack' \in Seq(Names) /\ Len(call_stack') = Len(call_stack) + 1
    BY <2>1 DEF StacksOK
  <2>3. told' \in Seq(Names)
    BY <2>1 DEF StacksOK
  <2>4. StackBounded'
    BY <1>1, <1>3, <2>2 DEF StackBounded
  <2>5. ProfilerFollowsStack'
    BY <2>1 DEF StacksOK, ProfilerFollowsStack
  <2> QED BY <2>1, <2>2, <2>3, <2>4, <2>5 DEF StacksOK
<1> QED BY <1>2, <1>3

LEMMA AfterPops ==
  ASSUME StacksOK, process = "running", profiler \in {"none", "tracing"},
         NEW pushed \in {<<>>, <<RequestShutdown>>},
         AfterThen(pushed), UNCHANGED profiler,
         Len(call_stack) > 0
  PROVE  /\ StacksOK' /\ process' = "running"
         /\ Len(call_stack') = Len(call_stack) - 1 + Len(pushed)
         /\ Len(pushed) = IF pushed = <<>> THEN 0 ELSE 1
<1> USE HandlerAssumption
<1>1. call_stack # <<>> /\ Len(call_stack) \in Nat
  BY DEF StacksOK
<1>2. profiler = "tracing" => told = call_stack
  BY DEF StacksOK, ProfilerFollowsStack
<1>3. ~CannotPop(profiler, told)
  BY <1>1, <1>2 DEF CannotPop
<1>4. /\ call_stack' = Front(call_stack) \o pushed
      /\ told' = IF profiler = "none" THEN told ELSE Front(told) \o pushed
      /\ process' = "running"
  BY <1>3 DEF AfterThen
<1>5. /\ Front(call_stack) \in Seq(Names)
      /\ Len(Front(call_stack)) = Len(call_stack) - 1
  BY <1>1, FrontOf DEF StacksOK
<1>6. /\ pushed \in Seq(Names)
      /\ Len(pushed) = IF pushed = <<>> THEN 0 ELSE 1
  <2>1. RequestShutdown \in Names
    BY DEF Names
  <2>2. CASE pushed = <<>>
    BY <2>2
  <2>3. CASE pushed = <<RequestShutdown>>
    <3>1. pushed # <<>> /\ Len(pushed) = 1
      BY <2>3
    <3>2. pushed \in Seq(Names)
      BY <2>1, <2>3
    <3> QED BY <3>1, <3>2
  <2> QED BY <2>2, <2>3
<1>7. /\ call_stack' \in Seq(Names)
      /\ Len(call_stack') = Len(call_stack) - 1 + Len(pushed)
  BY <1>4, <1>5, <1>6, SMTT(60)
<1>8. told' \in Seq(Names)
  <2>1. CASE profiler = "none"
    BY <1>4, <2>1 DEF StacksOK
  <2>2. CASE profiler = "tracing"
    <3>1. told' = Front(told) \o pushed
      BY <1>4, <2>2
    <3>2. told' = call_stack'
      BY <1>2, <1>4, <3>1, <2>2
    <3> QED BY <1>7, <3>2
  <2> QED BY <2>1, <2>2
<1>9. StackBounded'
  BY <1>1, <1>6, <1>7 DEF StacksOK, StackBounded
<1>10. ProfilerFollowsStack'
  BY <1>2, <1>4 DEF ProfilerFollowsStack
<1> QED BY <1>4, <1>6, <1>7, <1>8, <1>9, <1>10 DEF StacksOK

-----------------------------------------------------------------------------
(* What is owed. *)

LEMMA OwedIs ==
  ASSUME TypeOK
  PROVE  /\ \A S : Calls(running, S) \in Nat
         /\ Owed \in Nat
         /\ EndsRequestShutdown => Owed = Calls(running, HookedNames) + 1
         /\ ~EndsRequestShutdown => Owed = Calls(running, HookedNames)
<1>1. \A S : Calls(running, S) \in Nat
  BY CallsFinite DEF TypeOK
<1>2. Calls(running, HookedNames) \in Nat
  BY <1>1
<1> QED BY <1>1, <1>2 DEF Owed

\* What the hooks report does not change but with a request.
LEMMA HookedNamesStay ==
  ASSUME UNCHANGED <<config, hooked>>
  PROVE  HookedNames' = HookedNames
BY DEF HookedNames

-----------------------------------------------------------------------------
(* Starting and stopping a profiler. *)

\* What these two may change, and what they keep of the invariant.
SessionOK ==
  /\ process \in {"running", "dead"}
  /\ reports \in Nat
  /\ request_shutdown \in BOOLEAN
  /\ active_function_name \in EngineRuns \cup {NoName}
  /\ profiler \in {"none", "tracing"}
  /\ {reporter, full_report_key} \subseteq 0 .. reports
  /\ complete \subseteq 1 .. reports
  /\ StacksOK /\ WritesItsReport /\ EveryPopHasAPush

LEMMA StopKeeps ==
  ASSUME IInv, process = "running",
         NEW prof \in {"none", "tracing"}, NEW open, NEW r,
         HandlerStop(prof, open, r),
         UNCHANGED <<config, hooked, running>>,
         reports' \in Nat, reports <= reports',
         prof = "tracing" => r \in 1 .. reports',
         full_report_key' \in 0 .. reports'
  PROVE  /\ SessionOK'
         /\ profiler' = "none" /\ reporter' = NoReport
         /\ process' = "running" => complete' = Completed(prof, r)
<1> USE HandlerAssumption
<1>1. /\ profiler' = "none" /\ reporter' = NoReport
  BY DEF HandlerStop
<1>2. WritesItsReport'
  BY <1>1 DEF WritesItsReport
<1>3. {reporter', full_report_key'} \subseteq 0 .. reports'
  BY <1>1 DEF NoReport
<1>4. complete \subseteq 1 .. reports'
  BY DEF IInv, TypeOK
<1>5. /\ Owed <= Len(call_stack) /\ Owed \in Nat
      /\ Calls(running, HookedNames) \in Nat
      /\ Len(call_stack) \in Nat
      /\ EndsRequestShutdown => Owed = Calls(running, HookedNames) + 1
      /\ ~EndsRequestShutdown => Owed = Calls(running, HookedNames)
  BY OwedIs, SMTT(60) DEF IInv, TypeOK, EveryPopHasAPush
<1>6. Calls(running, HookedNames)' = Calls(running, HookedNames)
  BY HookedNamesStay DEF Calls
<1>7. CASE EndsRequestShutdown /\ CannotPop(prof, open)
  <2>1. /\ process' = "dead"
        /\ UNCHANGED <<call_stack, told, request_shutdown, active_function_name, complete>>
    BY <1>7 DEF HandlerStop, Die, stacks
  <2>2. EndsRequestShutdown'
    BY <1>7, <2>1 DEF EndsRequestShutdown, InternalHooked
  <2>3. EveryPopHasAPush'
    BY <1>1, <2>1, <2>2 DEF EveryPopHasAPush
  <2>4. StacksOK'
    BY <2>1 DEF IInv, TypeOK, StacksOK, StackBounded, ProfilerFollowsStack
  <2>5. /\ request_shutdown' \in BOOLEAN
        /\ active_function_name' \in EngineRuns \cup {NoName}
    BY <2>1 DEF IInv, TypeOK
  <2> QED BY <1>1, <1>2, <1>3, <1>4, <2>1, <2>3, <2>4, <2>5 DEF SessionOK
<1>8. CASE ~(EndsRequestShutdown /\ CannotPop(prof, open))
  <2>1. /\ process' = "running" /\ told' = <<>> /\ request_shutdown' = FALSE
        /\ call_stack' = IF EndsRequestShutdown THEN Front(call_stack) ELSE call_stack
        /\ active_function_name' = IF EndsRequestShutdown THEN NoName
                                   ELSE active_function_name
        /\ complete' = Completed(prof, r)
    BY <1>8 DEF HandlerStop
  <2>2. complete' \subseteq 1 .. reports'
    BY <1>4, <2>1 DEF Completed
  <2>3. active_function_name' \in EngineRuns \cup {NoName}
    BY <2>1 DEF IInv, TypeOK
  <2>4. ~EndsRequestShutdown'
    BY <2>1 DEF EndsRequestShutdown
  <2>5. call_stack' \in Seq(Names) /\ Len(call_stack') <= Len(call_stack)
        /\ Calls(running, HookedNames) <= Len(call_stack')
    <3>1. CASE EndsRequestShutdown
      <4>1. call_stack # <<>>
        BY <1>5, <3>1
      <4>2. /\ call_stack' \in Seq(Names)
            /\ Len(call_stack') = Len(call_stack) - 1
        BY <2>1, <3>1, <4>1, FrontOf DEF IInv, TypeOK
      <4> QED BY <1>5, <3>1, <4>2
    <3>2. CASE ~EndsRequestShutdown
      BY <1>5, <2>1, <3>2 DEF IInv, TypeOK
    <3> QED BY <3>1, <3>2
  <2>6. Owed' <= Len(call_stack')
    BY <1>5, <1>6, <2>4, <2>5 DEF Owed
  <2>7. EveryPopHasAPush'
    BY <2>1, <2>6 DEF EveryPopHasAPush
  <2>8. StackBounded'
    BY <1>5, <2>5 DEF IInv, StackBounded
  <2>9. StacksOK'
    BY <1>1, <2>1, <2>5, <2>8 DEF StacksOK, ProfilerFollowsStack
  <2> QED BY <1>1, <1>2, <1>3, <2>1, <2>2, <2>3, <2>7, <2>9 DEF SessionOK
<1> QED BY <1>7, <1>8

LEMMA StartKeeps ==
  ASSUME IInv, process = "running", profiler = "none",
         NEW outcome \in Outcomes, HandlerStart(outcome),
         UNCHANGED <<config, hooked, running>>
  PROVE  /\ SessionOK'
         /\ reports <= reports'
<1>1. /\ reports \in Nat /\ reports' \in Nat /\ reports <= reports'
      /\ outcome # "no_reporter" => (reports + 1) = reports' /\ (reports + 1) \in 1 .. reports'
  <2>1. reports \in Nat
    BY DEF IInv, TypeOK
  <2>2. reports' = IF outcome = "no_reporter" THEN reports ELSE (reports + 1)
    BY DEF HandlerStart
  <2> QED BY <2>1, <2>2
<1>2. full_report_key' \in 0 .. reports'
  <2>1. full_report_key' = NewKey(outcome, (reports + 1))
    BY DEF HandlerStart
  <2> QED BY <1>1, <2>1 DEF NewKey, NoReport
<1>3. CASE outcome = "ok"
  <2>1. /\ profiler' = "tracing" /\ reporter' = (reports + 1) /\ told' = call_stack
        /\ UNCHANGED <<call_stack, request_shutdown, active_function_name,
                       complete, process>>
    BY <1>3 DEF HandlerStart, Replayed
  <2>2. {reporter', full_report_key'} \subseteq 0 .. reports'
    BY <1>1, <1>2, <1>3, <2>1
  <2>3. complete' \subseteq 1 .. reports'
    <3>1. complete \subseteq 1 .. reports
      BY DEF IInv, TypeOK
    <3> QED BY <1>1, <2>1, <3>1
  <2>4. WritesItsReport'
    <3>1. full_report_key' = NewKey(outcome, (reports + 1))
      BY DEF HandlerStart
    <3>2. (reports + 1) # NoReport
      BY <1>1 DEF NoReport
    <3> QED BY <1>3, <2>1, <3>1, <3>2 DEF WritesItsReport, NewKey
  <2>5. StacksOK'
    BY <2>1 DEF IInv, TypeOK, StacksOK, StackBounded, ProfilerFollowsStack
  <2>6. Owed' = Owed
    <3>1. HookedNames' = HookedNames
      BY HookedNamesStay
    <3>2. EndsRequestShutdown' <=> EndsRequestShutdown
      BY <2>1 DEF EndsRequestShutdown, InternalHooked
    <3> QED BY <3>1, <3>2 DEF Owed, Calls
  <2>7. EveryPopHasAPush'
    BY <2>1, <2>6 DEF IInv, EveryPopHasAPush
  <2>8. /\ request_shutdown' \in BOOLEAN
        /\ active_function_name' \in EngineRuns \cup {NoName}
    BY <2>1 DEF IInv, TypeOK
  <2> QED BY <1>1, <2>1, <2>2, <2>3, <2>4, <2>5, <2>7, <2>8 DEF SessionOK
<1>4. CASE outcome \in {"no_reporter", "no_tracer"}
  <2>1. HandlerStop("none", <<>>, (reports + 1))
    BY <1>4 DEF HandlerStart
  <2> QED BY <1>1, <1>2, <2>1, StopKeeps
<1>5. CASE outcome = "no_sampler"
  <2>1. HandlerStop("tracing", <<>>, (reports + 1))
    BY <1>5 DEF HandlerStart
  <2> QED BY <1>1, <1>2, <1>5, <2>1, StopKeeps
<1> QED BY <1>3, <1>4, <1>5 DEF Outcomes

-----------------------------------------------------------------------------
(* A call that begins and a call that returns, hooked or not. *)

LEMMA Named ==
  ASSUME TypeOK
  PROVE  /\ Executed \subseteq Names
         /\ HookedNames \subseteq Names
         /\ \A f \in Executed : NameOf(f) \in Names
<1>1. Executed \subseteq Names
  BY DEF Executed, Names
<1>2. HookedNames \subseteq Names
  BY DEF HookedNames, Names
<1>3. ASSUME NEW f \in Executed PROVE NameOf(f) \in Names
  BY <1>1 DEF TypeOK, NameOf, Names
<1> QED BY <1>1, <1>2, <1>3

LEMMA CallKeeps ==
  ASSUME IInv, process = "running", NEW f \in Executed,
         running' = Append(running, f),
         UNCHANGED <<config, hooked, request_shutdown, profiler>>,
         NEW name \in Names,
         IF f \in HookedNames THEN Before(name) ELSE NoHook
  PROVE  /\ running' \in Seq(Executed) /\ running' # <<>>
         /\ process' \in {"running", "dead"}
         /\ StacksOK' /\ EveryPopHasAPush'
<1>1. running \in Seq(Executed) /\ profiler \in {"none", "tracing"} /\ StacksOK
  BY DEF IInv, TypeOK, StacksOK, Executed
<1>2. /\ Calls(running, HookedNames) \in Nat /\ Owed \in Nat
      /\ EndsRequestShutdown => Owed = Calls(running, HookedNames) + 1
      /\ ~EndsRequestShutdown => Owed = Calls(running, HookedNames)
  BY OwedIs DEF IInv
<1>3. Owed <= Len(call_stack) /\ Len(call_stack) \in Nat
  BY <1>1 DEF IInv, EveryPopHasAPush, StacksOK
<1>4. running' \in Seq(Executed) /\ running' # <<>>
  BY <1>1
<1>5. HookedNames' = HookedNames
  BY HookedNamesStay
<1>6. Calls(running', HookedNames')
        = Calls(running, HookedNames) + (IF f \in HookedNames THEN 1 ELSE 0)
  BY <1>1, <1>5, CallsAppend
<1>7. EndsRequestShutdown' <=> EndsRequestShutdown
  BY DEF EndsRequestShutdown, InternalHooked
<1>8. Owed' = Owed + (IF f \in HookedNames THEN 1 ELSE 0)
  <2>1. Owed' = Calls(running', HookedNames')
                  + (IF EndsRequestShutdown THEN 1 ELSE 0)
    BY <1>7 DEF Owed, Calls
  <2> QED BY <1>2, <1>6, <2>1
<1>9. CASE f \in HookedNames
  <2>1. Before(name)
    BY <1>9
  <2>2. /\ StacksOK'
        /\ \/ process' = "running" /\ Len(call_stack') = Len(call_stack) + 1
           \/ process' = "dead" /\ Len(call_stack') = StackCapacity
    BY <1>1, <2>1, BeforePushes
  <2>3. EveryPopHasAPush'
    BY <1>2, <1>3, <1>8, <1>9, <2>2 DEF EveryPopHasAPush
  <2> QED BY <1>4, <2>2, <2>3
<1>10. CASE f \notin HookedNames
  <2>1. UNCHANGED <<call_stack, told, process>>
    BY <1>10 DEF NoHook, stacks
  <2>2. StacksOK'
    BY <1>1, <2>1 DEF StacksOK, StackBounded, ProfilerFollowsStack
  <2>3. Owed' = Owed
    BY <1>2, <1>8, <1>10
  <2>4. EveryPopHasAPush'
    BY <1>3, <2>1, <2>3 DEF EveryPopHasAPush
  <2> QED BY <1>4, <2>1, <2>2, <2>4
<1> QED BY <1>9, <1>10

\* pushed is the request shutdown if it begins with this return.
LEMMA ReturnKeeps ==
  ASSUME IInv, process = "running", running # <<>>,
         running' = Front(running),
         UNCHANGED <<config, hooked, profiler>>,
         NEW pushed \in {<<>>, <<RequestShutdown>>},
         IF Last(running) \in HookedNames THEN AfterThen(pushed) ELSE NoHook,
         pushed # <<>> => Last(running) \in HookedNames,
         EndsRequestShutdown' <=> EndsRequestShutdown \/ pushed # <<>>
  PROVE  /\ running' \in Seq(Executed)
         /\ process' = "running"
         /\ StacksOK' /\ EveryPopHasAPush'
<1>1. running \in Seq(Executed) /\ profiler \in {"none", "tracing"} /\ StacksOK
  BY DEF IInv, TypeOK, StacksOK, Executed
<1>2. /\ Calls(running, HookedNames) \in Nat /\ Owed \in Nat
      /\ EndsRequestShutdown => Owed = Calls(running, HookedNames) + 1
      /\ ~EndsRequestShutdown => Owed = Calls(running, HookedNames)
  BY OwedIs DEF IInv
<1>3. Owed <= Len(call_stack) /\ Len(call_stack) \in Nat
  BY <1>1 DEF IInv, EveryPopHasAPush, StacksOK
<1>4. running' \in Seq(Executed)
  BY <1>1, FrontOf
<1>5. HookedNames' = HookedNames
  BY HookedNamesStay
<1>6. /\ Calls(running, HookedNames)
           = Calls(running', HookedNames')
               + (IF Last(running) \in HookedNames THEN 1 ELSE 0)
      /\ Calls(running', HookedNames') \in Nat
  BY <1>1, <1>5, CallsFront
<1>7. Owed' = Calls(running', HookedNames')
                + (IF EndsRequestShutdown \/ pushed # <<>> THEN 1 ELSE 0)
  BY DEF Owed, Calls
<1>8. CASE Last(running) \in HookedNames
  <2>1. AfterThen(pushed)
    BY <1>8
  <2>2. Len(call_stack) > 0
    BY <1>2, <1>3, <1>6, <1>8
  <2>3. /\ StacksOK' /\ process' = "running"
        /\ Len(call_stack') = Len(call_stack) - 1 + Len(pushed)
        /\ Len(pushed) = IF pushed = <<>> THEN 0 ELSE 1
    BY <1>1, <2>1, <2>2, AfterPops
  <2>4. Owed' <= Len(call_stack')
    <3>1. CASE pushed = <<>>
      <4>1. Len(call_stack') = Len(call_stack) - 1
        BY <1>3, <2>3, <3>1
      <4>2. Owed' = Owed - 1
        BY <1>2, <1>6, <1>7, <1>8, <3>1
      <4> QED BY <1>2, <1>3, <4>1, <4>2
    <3>2. CASE pushed # <<>>
      <4>1. Len(call_stack') = Len(call_stack)
        BY <1>3, <2>3, <3>2
      <4>2. Owed' = Calls(running, HookedNames)
        BY <1>2, <1>6, <1>7, <1>8, <3>2
      <4> QED BY <1>2, <1>3, <4>1, <4>2
    <3> QED BY <3>1, <3>2
  <2>5. EveryPopHasAPush'
    BY <2>3, <2>4 DEF EveryPopHasAPush
  <2> QED BY <1>4, <2>3, <2>5
<1>9. CASE Last(running) \notin HookedNames
  <2>1. UNCHANGED <<call_stack, told, process>>
    BY <1>9 DEF NoHook, stacks
  <2>2. StacksOK'
    BY <1>1, <2>1 DEF StacksOK, StackBounded, ProfilerFollowsStack
  <2>3. Owed' = Owed
    BY <1>2, <1>6, <1>7, <1>9
  <2>4. EveryPopHasAPush'
    BY <1>3, <2>1, <2>3 DEF EveryPopHasAPush
  <2> QED BY <1>4, <2>1, <2>2, <2>4
<1> QED BY <1>8, <1>9

-----------------------------------------------------------------------------
(* Every step keeps the invariant.  First what the steps with hooks, and those *)
(* with a session, have in common.                                             *)

LEMMA HookStep ==
  ASSUME IInv, process = "running",
         process' \in {"running", "dead"},
         StacksOK', EveryPopHasAPush', DepthCounted',
         UNCHANGED <<config, requests, hooked, span_depth, open_starts, session,
                     returned>>,
         running' \in Seq(Executed), pending' \in BOOLEAN,
         ~pending' \/ running' # <<>>,
         user_depth' \in Nat, request_shutdown' \in BOOLEAN,
         active_function_name' \in EngineRuns \cup {NoName}
  PROVE  IInv'
<1>1. UNCHANGED <<profiler, reporter, full_report_key, reports, complete>>
  BY DEF session
<1>2. TypeOK'
  <2>1. /\ running' \in Seq(UserFunctions \cup Internals \cup EngineRuns)
        /\ call_stack' \in Seq(Names) /\ told' \in Seq(Names)
    BY DEF Executed, StacksOK
  <2>2. /\ config' \in Configs
        /\ requests' \in Nat /\ reports' \in Nat /\ span_depth' \in Nat
        /\ open_starts' \in Seq(Nat)
        /\ hooked' \in BOOLEAN /\ profiler' \in {"none", "tracing"}
        /\ {reporter', full_report_key', returned'} \subseteq 0 .. reports'
        /\ complete' \subseteq 1 .. reports'
    BY <1>1 DEF IInv, TypeOK
  <2>3. process' \in {"between", "running", "dead"}
    OBVIOUS
  <2> QED BY <2>1, <2>2, <2>3 DEF TypeOK
<1>3. QuietBetween'
  BY DEF QuietBetween
<1>4. NotYetStarted'
  BY DEF NotYetStarted
<1>5. WritesItsReport'
  BY <1>1 DEF IInv, WritesItsReport
<1>6. StackBounded' /\ ProfilerFollowsStack'
  BY DEF StacksOK
<1> QED BY <1>2, <1>3, <1>4, <1>5, <1>6 DEF IInv

LEMMA SessionStep ==
  ASSUME IInv, process = "running", SessionOK',
         UNCHANGED <<config, requests, running, hooked, user_depth>>,
         pending' = FALSE, span_depth' \in Nat, open_starts' \in Seq(Nat),
         returned' \in 0 .. reports'
  PROVE  IInv'
<1>1. TypeOK'
  <2>1. /\ config' \in Configs /\ requests' \in Nat /\ user_depth' \in Nat
        /\ running' \in Seq(UserFunctions \cup Internals \cup EngineRuns)
        /\ hooked' \in BOOLEAN
    BY DEF IInv, TypeOK
  <2>2. /\ process' \in {"between", "running", "dead"} /\ reports' \in Nat
        /\ request_shutdown' \in BOOLEAN
        /\ active_function_name' \in EngineRuns \cup {NoName}
        /\ profiler' \in {"none", "tracing"}
        /\ {reporter', full_report_key', returned'} \subseteq 0 .. reports'
        /\ complete' \subseteq 1 .. reports'
        /\ call_stack' \in Seq(Names) /\ told' \in Seq(Names)
    BY DEF SessionOK, StacksOK
  <2> QED BY <2>1, <2>2 DEF TypeOK
<1>2. QuietBetween'
  BY DEF SessionOK, QuietBetween
<1>3. NotYetStarted'
  BY DEF NotYetStarted
<1>4. DepthCounted'
  BY DEF IInv, DepthCounted, Calls
<1>5. /\ WritesItsReport' /\ EveryPopHasAPush'
      /\ StackBounded' /\ ProfilerFollowsStack'
  BY DEF SessionOK, StacksOK
<1> QED BY <1>1, <1>2, <1>3, <1>4, <1>5 DEF IInv

\* Neither the engine's own runs nor internal functions count as user functions.
LEMMA NotUser ==
  \A f \in Internals \cup EngineRuns : f \notin UserFunctions
BY HandlerAssumption DEF HandlerAssumption

\* A step that does not change which user functions run keeps their count.
LEMMA DepthOfOthers ==
  ASSUME IInv, UNCHANGED <<hooked, user_depth>>,
         \/ running' = running
         \/ running' = <<>>
         \/ \E f \in Internals \cup EngineRuns : running' = Append(running, f)
         \/ running # <<>> /\ running' = Front(running)
  PROVE  DepthCounted'
<1> DEFINE n == Calls(running, UserFunctions)
<1>1. running \in Seq(Executed) /\ n \in Nat /\ user_depth \in Nat
  BY OwedIs DEF IInv, TypeOK, Executed
<1>2. hooked => n <= user_depth
  BY DEF IInv, DepthCounted
<1>3. Calls(running', UserFunctions) \in Nat /\ Calls(running', UserFunctions) <= n
  <2>1. CASE running' = running
    BY <1>1, <2>1
  <2>2. CASE running' = <<>>
    BY <1>1, <2>2, CallsNone
  <2>3. CASE \E f \in Internals \cup EngineRuns : running' = Append(running, f)
    <3>1. PICK f \in Internals \cup EngineRuns : running' = Append(running, f)
      BY <2>3
    <3>2. f \in Executed /\ f \notin UserFunctions
      BY NotUser DEF Executed
    <3>3. Calls(running', UserFunctions)
            = n + (IF f \in UserFunctions THEN 1 ELSE 0)
      BY <1>1, <3>1, <3>2, CallsAppend
    <3> QED BY <1>1, <3>2, <3>3
  <2>4. CASE running # <<>> /\ running' = Front(running)
    <3>1. /\ n = Calls(running', UserFunctions)
                   + (IF Last(running) \in UserFunctions THEN 1 ELSE 0)
          /\ Calls(running', UserFunctions) \in Nat
      BY <1>1, <2>4, CallsFront
    <3> HIDE DEF n
    <3> QED BY <1>1, <3>1
  <2> QED BY <2>1, <2>2, <2>3, <2>4
<1>4. hooked' => Calls(running', UserFunctions) <= user_depth'
  <2> HIDE DEF n
  <2> QED BY <1>1, <1>2, <1>3
<1> QED BY <1>4 DEF DepthCounted, Calls

-----------------------------------------------------------------------------
(* The calls and returns. *)

LEMMA KeepsUserCall ==
  ASSUME IInv, NEW f \in UserFunctions, UserCall(f)
  PROVE  IInv'
<1>1. /\ process = "running" /\ pending = FALSE
      /\ running' = Append(running, f)
      /\ user_depth' = IF hooked THEN user_depth + 1 ELSE user_depth
      /\ IF hooked THEN Before(NameOf(f)) ELSE NoHook
      /\ UNCHANGED <<config, requests, pending, hooked, active_function_name,
                     request_shutdown, span_depth, open_starts, session,
                     returned>>
  BY DEF UserCall, CanCall, IInv, TypeOK
<1>2. f \in Executed /\ NameOf(f) \in Names
  BY Named DEF IInv, Executed
<1>3. f \in HookedNames <=> hooked
  BY <1>2, Named DEF HookedNames, IInv
<1>4. IF f \in HookedNames THEN Before(NameOf(f)) ELSE NoHook
  BY <1>1, <1>3
<1>5. UNCHANGED profiler
  BY <1>1 DEF session
<1>6. /\ running' \in Seq(Executed) /\ running' # <<>>
      /\ process' \in {"running", "dead"}
      /\ StacksOK' /\ EveryPopHasAPush'
  BY <1>1, <1>2, <1>4, <1>5, CallKeeps
<1>7. user_depth' \in Nat
  BY <1>1 DEF IInv, TypeOK
<1>8. DepthCounted'
  <2>1. /\ Calls(running', UserFunctions) = Calls(running, UserFunctions) + 1
        /\ Calls(running, UserFunctions) \in Nat
    <3>1. running \in Seq(Executed) /\ Calls(running, UserFunctions) \in Nat
      BY OwedIs DEF IInv, TypeOK, Executed
    <3>2. Calls(running', UserFunctions)
            = Calls(running, UserFunctions) + (IF f \in UserFunctions THEN 1 ELSE 0)
      BY <1>1, <1>2, <3>1, CallsAppend
    <3> QED BY <3>1, <3>2
  <2>2. hooked => Calls(running, UserFunctions) <= user_depth
    BY DEF IInv, DepthCounted
  <2>3. user_depth \in Nat
    BY DEF IInv, TypeOK
  <2>4. hooked' => Calls(running', UserFunctions) <= user_depth'
    BY <1>1, <2>1, <2>2, <2>3
  <2> QED BY <2>4 DEF DepthCounted, Calls
<1>9. /\ pending' \in BOOLEAN /\ request_shutdown' \in BOOLEAN
      /\ active_function_name' \in EngineRuns \cup {NoName}
  BY <1>1 DEF IInv, TypeOK
<1> QED BY <1>1, <1>6, <1>7, <1>8, <1>9, HookStep

LEMMA KeepsUserReturn ==
  ASSUME IInv, UserReturn
  PROVE  IInv'
<1> DEFINE last_one == hooked /\ user_depth = 1 /\ ~request_shutdown
           pushed == IF last_one /\ InternalHooked THEN <<RequestShutdown>> ELSE <<>>
<1>1. /\ process = "running" /\ pending = FALSE /\ running # <<>>
      /\ Last(running) \in UserFunctions
      /\ running' = Front(running)
      /\ user_depth' = IF hooked THEN user_depth - 1 ELSE user_depth
      /\ request_shutdown' = (request_shutdown \/ last_one)
      /\ active_function_name' = IF last_one /\ InternalHooked THEN NoName
                                 ELSE active_function_name
      /\ IF hooked THEN AfterThen(pushed) ELSE NoHook
      /\ UNCHANGED <<config, requests, pending, hooked, span_depth, open_starts,
                     session, returned>>
  BY DEF UserReturn, Innermost, IInv, TypeOK
<1>2. Last(running) \in HookedNames <=> hooked
  <2>1. Last(running) \in Names
    BY <1>1 DEF Names
  <2> QED BY <1>1, <2>1 DEF HookedNames
<1>3. UNCHANGED profiler
  BY <1>1 DEF session
<1>4. pushed \in {<<>>, <<RequestShutdown>>}
  OBVIOUS
<1>5. pushed # <<>> <=> last_one /\ InternalHooked
  OBVIOUS
<1>6. pushed # <<>> => Last(running) \in HookedNames
  BY <1>2, <1>5 DEF InternalHooked
<1>7. EndsRequestShutdown' <=> EndsRequestShutdown \/ pushed # <<>>
  <2>1. InternalHooked' <=> InternalHooked
    BY <1>1 DEF InternalHooked
  <2>2. request_shutdown' <=> request_shutdown \/ last_one
    BY <1>1
  <2> HIDE DEF last_one, pushed
  <2> QED BY <1>5, <2>1, <2>2 DEF EndsRequestShutdown
<1>8. /\ running' \in Seq(Executed) /\ process' = "running"
      /\ StacksOK' /\ EveryPopHasAPush'
  <2>1. IF Last(running) \in HookedNames THEN AfterThen(pushed) ELSE NoHook
    BY <1>1, <1>2
  <2> HIDE DEF pushed
  <2> QED BY <1>1, <1>3, <1>4, <1>6, <1>7, <2>1, ReturnKeeps
<1>9. user_depth' \in Nat /\ DepthCounted'
  <2>1. /\ Calls(running, UserFunctions) = Calls(running', UserFunctions) + 1
        /\ Calls(running', UserFunctions) \in Nat
    BY <1>1, CallsFront DEF IInv, TypeOK
  <2>2. hooked => Calls(running, UserFunctions) <= user_depth
    BY DEF IInv, DepthCounted
  <2>3. user_depth \in Nat
    BY DEF IInv, TypeOK
  <2>4. user_depth' \in Nat
    BY <1>1, <2>1, <2>2, <2>3
  <2>5. hooked' => Calls(running', UserFunctions) <= user_depth'
    BY <1>1, <2>1, <2>2, <2>3
  <2> QED BY <2>4, <2>5 DEF DepthCounted, Calls
<1>10. /\ pending' \in BOOLEAN /\ ~pending' /\ request_shutdown' \in BOOLEAN
       /\ active_function_name' \in EngineRuns \cup {NoName}
  <2>1. request_shutdown \in BOOLEAN /\ active_function_name \in EngineRuns \cup {NoName}
    BY DEF IInv, TypeOK
  <2> QED BY <1>1, <2>1
<1> QED BY <1>1, <1>8, <1>9, <1>10, HookStep

LEMMA KeepsInternalCall ==
  ASSUME IInv, NEW f \in Internals, InternalCall(f)
  PROVE  IInv'
<1>1. /\ process = "running"
      /\ running' = Append(running, f)
      /\ pending' \in BOOLEAN
      /\ IF InternalHooked THEN Before(NameOf(f)) ELSE NoHook
      /\ UNCHANGED <<config, requests, hooks, span_depth, open_starts,
                     session, returned>>
  BY DEF InternalCall, CanCall
<1>2. f \in Executed /\ NameOf(f) \in Names
  BY Named DEF IInv, Executed
<1>3. f \in HookedNames <=> InternalHooked
  BY <1>2, Named, NotUser DEF HookedNames, InternalHooked, IInv
<1>4. UNCHANGED <<hooked, active_function_name, user_depth, request_shutdown, profiler>>
  BY <1>1 DEF session, hooks
<1>5. /\ running' \in Seq(Executed) /\ running' # <<>>
      /\ process' \in {"running", "dead"}
      /\ StacksOK' /\ EveryPopHasAPush'
  <2>1. IF f \in HookedNames THEN Before(NameOf(f)) ELSE NoHook
    BY <1>1, <1>3
  <2> QED BY <1>1, <1>2, <1>4, <2>1, CallKeeps
<1>6. DepthCounted'
  BY <1>1, <1>4, DepthOfOthers
<1>7. /\ user_depth' \in Nat /\ request_shutdown' \in BOOLEAN
      /\ active_function_name' \in EngineRuns \cup {NoName}
  BY <1>4 DEF IInv, TypeOK
<1> QED BY <1>1, <1>4, <1>5, <1>6, <1>7, HookStep

LEMMA KeepsInternalReturn ==
  ASSUME IInv, InternalReturn
  PROVE  IInv'
<1>1. /\ process = "running" /\ pending = FALSE /\ running # <<>>
      /\ Last(running) \in Internals
      /\ running' = Front(running)
      /\ IF InternalHooked THEN AfterThen(<<>>) ELSE NoHook
      /\ UNCHANGED <<config, requests, pending, hooks, span_depth, open_starts,
                     session, returned>>
  BY DEF InternalReturn, Innermost, After, IInv, TypeOK
<1>2. Last(running) \in HookedNames <=> InternalHooked
  <2>1. Last(running) \in Names /\ Last(running) \notin UserFunctions
    BY <1>1, NotUser DEF Names
  <2> QED BY <2>1 DEF HookedNames, InternalHooked
<1>3. UNCHANGED <<hooked, active_function_name, user_depth, request_shutdown, profiler>>
  BY <1>1 DEF session, hooks
<1>4. EndsRequestShutdown' <=> EndsRequestShutdown
  BY <1>1, <1>3 DEF EndsRequestShutdown, InternalHooked
<1>5. /\ running' \in Seq(Executed) /\ process' = "running"
      /\ StacksOK' /\ EveryPopHasAPush'
  <2>1. IF Last(running) \in HookedNames THEN AfterThen(<<>>) ELSE NoHook
    BY <1>1, <1>2
  <2>2. <<>> \in {<<>>, <<RequestShutdown>>}
    OBVIOUS
  <2> QED BY <1>1, <1>3, <1>4, <2>1, <2>2, ReturnKeeps
<1>6. DepthCounted'
  BY <1>1, <1>3, DepthOfOthers
<1>7. /\ user_depth' \in Nat /\ request_shutdown' \in BOOLEAN
      /\ active_function_name' \in EngineRuns \cup {NoName}
      /\ pending' \in BOOLEAN /\ ~pending'
  BY <1>1, <1>3 DEF IInv, TypeOK
<1> QED BY <1>1, <1>3, <1>5, <1>6, <1>7, HookStep

LEMMA KeepsEngineRun ==
  ASSUME IInv, NEW r \in EngineRuns, EngineRun(r)
  PROVE  IInv'
<1>1. /\ process = "running" /\ pending = FALSE
      /\ running' = Append(running, r)
      /\ active_function_name' = IF hooked THEN r ELSE active_function_name
      /\ IF InternalHooked THEN Before(r) ELSE NoHook
      /\ UNCHANGED <<config, requests, pending, hooked, user_depth,
                     request_shutdown, span_depth, open_starts, session,
                     returned>>
  BY DEF EngineRun, CanCall, IInv, TypeOK
<1>2. r \in Executed /\ r \in Names
  BY DEF Executed, Names
<1>3. r \in HookedNames <=> InternalHooked
  BY <1>2, NotUser DEF HookedNames, InternalHooked
<1>4. UNCHANGED profiler
  BY <1>1 DEF session
<1>5. /\ running' \in Seq(Executed) /\ running' # <<>>
      /\ process' \in {"running", "dead"}
      /\ StacksOK' /\ EveryPopHasAPush'
  <2>1. IF r \in HookedNames THEN Before(r) ELSE NoHook
    BY <1>1, <1>3
  <2> QED BY <1>1, <1>2, <1>4, <2>1, CallKeeps
<1>6. DepthCounted'
  BY <1>1, DepthOfOthers
<1>7. /\ user_depth' \in Nat /\ request_shutdown' \in BOOLEAN
      /\ active_function_name' \in EngineRuns \cup {NoName}
      /\ pending' \in BOOLEAN
  BY <1>1 DEF IInv, TypeOK
<1> QED BY <1>1, <1>5, <1>6, <1>7, HookStep

LEMMA KeepsEngineRunEnds ==
  ASSUME IInv, EngineRunEnds
  PROVE  IInv'
<1>1. /\ process = "running" /\ pending = FALSE /\ running # <<>>
      /\ Last(running) \in EngineRuns
      /\ running' = Front(running)
      /\ active_function_name' = IF hooked THEN NoName ELSE active_function_name
      /\ IF InternalHooked THEN AfterThen(<<>>) ELSE NoHook
      /\ UNCHANGED <<config, requests, pending, hooked, user_depth,
                     request_shutdown, span_depth, open_starts, session,
                     returned>>
  BY DEF EngineRunEnds, NameReset, Innermost, After, IInv, TypeOK
<1>2. Last(running) \in HookedNames <=> InternalHooked
  <2>1. Last(running) \in Names /\ Last(running) \notin UserFunctions
    BY <1>1, NotUser DEF Names
  <2> QED BY <2>1 DEF HookedNames, InternalHooked
<1>3. UNCHANGED profiler
  BY <1>1 DEF session
<1>4. EndsRequestShutdown' <=> EndsRequestShutdown
  BY <1>1 DEF EndsRequestShutdown, InternalHooked
<1>5. /\ running' \in Seq(Executed) /\ process' = "running"
      /\ StacksOK' /\ EveryPopHasAPush'
  <2>1. IF Last(running) \in HookedNames THEN AfterThen(<<>>) ELSE NoHook
    BY <1>1, <1>2
  <2>2. <<>> \in {<<>>, <<RequestShutdown>>}
    OBVIOUS
  <2> QED BY <1>1, <1>3, <1>4, <2>1, <2>2, ReturnKeeps
<1>6. DepthCounted'
  BY <1>1, DepthOfOthers
<1>7. /\ user_depth' \in Nat /\ request_shutdown' \in BOOLEAN
      /\ active_function_name' \in EngineRuns \cup {NoName}
      /\ pending' \in BOOLEAN /\ ~pending'
  BY <1>1 DEF IInv, TypeOK
<1> QED BY <1>1, <1>5, <1>6, <1>7, HookStep

LEMMA KeepsBailout ==
  ASSUME IInv, Bailout
  PROVE  IInv'
<1>1. /\ process = "running" /\ process' = "running"
      /\ pending = FALSE /\ pending' = FALSE
      /\ running' = <<>>
      /\ UNCHANGED <<config, requests, stacks, hooks, span_depth, open_starts,
                     session, returned>>
  BY DEF Bailout, IInv, TypeOK
<1>2. /\ UNCHANGED <<hooked, active_function_name, user_depth, request_shutdown,
                     profiler, call_stack, told>>
  BY <1>1 DEF hooks, session, stacks
<1>3. StacksOK'
  BY <1>1, <1>2 DEF IInv, TypeOK, StacksOK, StackBounded, ProfilerFollowsStack
<1>4. EveryPopHasAPush'
  <2>1. /\ Calls(running, HookedNames) \in Nat /\ Owed \in Nat
        /\ EndsRequestShutdown => Owed = Calls(running, HookedNames) + 1
        /\ ~EndsRequestShutdown => Owed = Calls(running, HookedNames)
    BY OwedIs DEF IInv
  <2>2. Owed <= Len(call_stack) /\ Len(call_stack) \in Nat
    BY <1>1 DEF IInv, TypeOK, EveryPopHasAPush
  <2>3. EndsRequestShutdown' <=> EndsRequestShutdown
    BY <1>1, <1>2 DEF EndsRequestShutdown, InternalHooked
  <2>4. Calls(running', HookedNames') = 0
    BY <1>1, CallsNone
  <2>5. Owed' = IF EndsRequestShutdown THEN 1 ELSE 0
    <3>1. Owed' = Calls(running', HookedNames') + (IF EndsRequestShutdown THEN 1 ELSE 0)
      BY <2>3 DEF Owed, Calls
    <3> QED BY <2>4, <3>1
  <2>6. Owed' <= Len(call_stack')
    BY <1>2, <2>1, <2>2, <2>5
  <2> QED BY <1>1, <2>6 DEF EveryPopHasAPush
<1>5. DepthCounted'
  BY <1>1, <1>2, DepthOfOthers
<1>6. running' \in Seq(Executed)
  BY <1>1
<1>7. /\ user_depth' \in Nat /\ request_shutdown' \in BOOLEAN
      /\ active_function_name' \in EngineRuns \cup {NoName}
      /\ pending' \in BOOLEAN
  BY <1>1, <1>2 DEF IInv, TypeOK
<1> QED BY <1>1, <1>2, <1>3, <1>4, <1>5, <1>6, <1>7, HookStep

-----------------------------------------------------------------------------
(* Requests, and the profiler that starts and stops in them. *)

LEMMA KeepsRequestStart ==
  ASSUME IInv, NEW c \in Configs, RequestStart(c)
  PROVE  IInv'
<1> USE HandlerAssumption
<1>1. /\ process = "between" /\ process' = "running" /\ config' = c
      /\ requests' = requests + 1 /\ pending' = c.auto_start
      /\ hooked' = TRUE /\ user_depth' = 0 /\ request_shutdown' = FALSE
      /\ span_depth' = 0 /\ open_starts' = <<>>
      /\ call_stack' = <<>> /\ told' = <<>>
      /\ profiler' = "none" /\ reporter' = NoReport /\ full_report_key' = NoReport
      /\ UNCHANGED <<running, active_function_name, reports, complete, returned>>
  BY DEF RequestStart
<1>2. running' = <<>>
  BY <1>1 DEF IInv, QuietBetween
<1>3. TypeOK'
  <2>1. /\ config' \in Configs /\ c.auto_start \in BOOLEAN
    BY <1>1 DEF Configs
  <2>2. /\ requests' \in Nat /\ reports' \in Nat /\ user_depth' \in Nat
        /\ span_depth' \in Nat
    BY <1>1 DEF IInv, TypeOK
  <2>3. /\ running' \in Seq(UserFunctions \cup Internals \cup EngineRuns)
        /\ call_stack' \in Seq(Names) /\ told' \in Seq(Names)
        /\ open_starts' \in Seq(Nat)
    BY <1>1, <1>2
  <2>4. /\ {reporter', full_report_key', returned'} \subseteq 0 .. reports'
        /\ complete' \subseteq 1 .. reports'
    BY <1>1 DEF IInv, TypeOK, NoReport
  <2>5. active_function_name' \in EngineRuns \cup {NoName}
    BY <1>1 DEF IInv, TypeOK
  <2>6. /\ process' \in {"between", "running", "dead"}
        /\ pending' \in BOOLEAN /\ hooked' \in BOOLEAN /\ request_shutdown' \in BOOLEAN
        /\ profiler' \in {"none", "tracing"}
    BY <1>1, <2>1
  <2> QED BY <2>1, <2>2, <2>3, <2>4, <2>5, <2>6 DEF TypeOK
<1>4. QuietBetween' /\ NotYetStarted' /\ WritesItsReport' /\ ProfilerFollowsStack'
  BY <1>1 DEF QuietBetween, NotYetStarted, WritesItsReport, ProfilerFollowsStack
<1>5. \A S : Calls(running', S) = 0
  BY <1>2, CallsNone
<1>6. Len(call_stack') = 0
  BY <1>1
<1>7. StackBounded'
  BY <1>6 DEF StackBounded
<1>8. DepthCounted'
  <2>1. Calls(running', UserFunctions) <= user_depth'
    BY <1>1, <1>5
  <2> QED BY <2>1 DEF DepthCounted, Calls
<1>9. EveryPopHasAPush'
  <2>1. ~EndsRequestShutdown'
    BY <1>1 DEF EndsRequestShutdown
  <2>2. Owed' = Calls(running', HookedNames')
    BY <1>5, <2>1 DEF Owed, Calls
  <2>3. Owed' <= Len(call_stack')
    BY <1>5, <1>6, <2>2
  <2> QED BY <1>1, <2>3 DEF EveryPopHasAPush
<1> QED BY <1>3, <1>4, <1>7, <1>8, <1>9 DEF IInv

LEMMA KeepsRequestStartFails ==
  ASSUME IInv, NEW c \in Configs, RequestStartFails(c)
  PROVE  IInv'
<1> USE HandlerAssumption
<1>1. /\ process = "between" /\ process' = "running" /\ config' = c
      /\ requests' = requests + 1 /\ open_starts' = <<>>
      /\ UNCHANGED <<running, pending, stacks, hooks, span_depth, session, returned>>
  BY DEF RequestStartFails
<1>2. UNCHANGED <<call_stack, told, hooked, active_function_name, user_depth,
                  request_shutdown, profiler, reporter, full_report_key, reports,
                  complete>>
  BY <1>1 DEF stacks, hooks, session
<1>3. running = <<>> /\ ~pending /\ ~hooked /\ profiler = "none"
  BY <1>1 DEF IInv, QuietBetween
<1>4. TypeOK'
  <2>1. requests' \in Nat
    BY <1>1 DEF IInv, TypeOK
  <2> QED BY <1>1, <1>2, <2>1 DEF IInv, TypeOK
<1>5. QuietBetween' /\ NotYetStarted' /\ DepthCounted' /\ ProfilerFollowsStack'
  BY <1>1, <1>2, <1>3
  DEF QuietBetween, NotYetStarted, DepthCounted, ProfilerFollowsStack
<1>6. WritesItsReport'
  BY <1>2, <1>3 DEF IInv, WritesItsReport
<1>7. StackBounded'
  BY <1>2 DEF IInv, StackBounded
<1>8. EveryPopHasAPush'
  <2>1. ~EndsRequestShutdown'
    BY <1>2, <1>3 DEF EndsRequestShutdown, InternalHooked
  <2>2. Calls(running', HookedNames') = 0
    BY <1>1, <1>3, CallsNone
  <2>3. Owed' = Calls(running', HookedNames') + 0
    BY <2>1 DEF Owed, Calls
  <2>4. Len(call_stack') \in Nat
    BY <1>4 DEF TypeOK
  <2>5. Owed' <= Len(call_stack')
    BY <2>2, <2>3, <2>4
  <2> QED BY <1>1, <2>5 DEF EveryPopHasAPush
<1> QED BY <1>4, <1>5, <1>6, <1>7, <1>8 DEF IInv

\* Where nothing runs no return is owed but that of the request shutdown, and
\* there is a call for it.
LEMMA RequestEndNeverDies ==
  ASSUME IInv, process = "running"
  PROVE  ~(EndsRequestShutdown /\ CannotPop(profiler, told))
<1>1. /\ Calls(running, HookedNames) \in Nat
      /\ EndsRequestShutdown => Owed = Calls(running, HookedNames) + 1
      /\ Owed <= Len(call_stack) /\ Len(call_stack) \in Nat
  BY OwedIs DEF IInv, TypeOK, EveryPopHasAPush
<1>2. EndsRequestShutdown => call_stack # <<>>
  BY <1>1
<1>3. profiler = "tracing" => told = call_stack
  BY DEF IInv, ProfilerFollowsStack
<1> QED BY <1>2, <1>3 DEF CannotPop

LEMMA KeepsRequestEnd ==
  ASSUME IInv, RequestEnd
  PROVE  IInv'
<1> USE HandlerAssumption
<1>1. /\ process = "running" /\ pending = FALSE /\ running = <<>>
      /\ profiler' = "none" /\ reporter' = NoReport
      /\ UNCHANGED <<config, requests, running, pending, span_depth, open_starts,
                     full_report_key, reports, returned>>
  BY DEF RequestEnd, IInv, TypeOK
<1>2. /\ process' = "between"
      /\ call_stack' = <<>> /\ told' = <<>>
      /\ hooked' = FALSE /\ user_depth' = 0 /\ request_shutdown' = FALSE
      /\ active_function_name' = IF EndsRequestShutdown THEN NoName
                                 ELSE active_function_name
      /\ complete' = Completed(profiler, reporter)
  BY <1>1, RequestEndNeverDies DEF RequestEnd
<1>3. TypeOK'
  <2>1. profiler = "tracing" => reporter \in 1 .. reports
    BY DEF IInv, TypeOK, WritesItsReport, NoReport
  <2>2. complete' \subseteq 1 .. reports'
    BY <1>1, <1>2, <2>1 DEF IInv, TypeOK, Completed
  <2>3. {reporter', full_report_key', returned'} \subseteq 0 .. reports'
    BY <1>1 DEF IInv, TypeOK, NoReport
  <2>4. active_function_name' \in EngineRuns \cup {NoName}
    BY <1>2 DEF IInv, TypeOK
  <2>5. /\ call_stack' \in Seq(Names) /\ told' \in Seq(Names)
        /\ running' \in Seq(UserFunctions \cup Internals \cup EngineRuns)
    BY <1>1, <1>2
  <2>6. /\ config' \in Configs /\ process' \in {"between", "running", "dead"}
        /\ requests' \in Nat /\ reports' \in Nat /\ user_depth' \in Nat
        /\ span_depth' \in Nat /\ open_starts' \in Seq(Nat)
        /\ pending' \in BOOLEAN /\ hooked' \in BOOLEAN
        /\ request_shutdown' \in BOOLEAN /\ profiler' \in {"none", "tracing"}
    BY <1>1, <1>2 DEF IInv, TypeOK
  <2> QED BY <2>2, <2>3, <2>4, <2>5, <2>6 DEF TypeOK
<1>4. /\ QuietBetween' /\ NotYetStarted' /\ WritesItsReport' /\ DepthCounted'
      /\ ProfilerFollowsStack'
  BY <1>1, <1>2
  DEF QuietBetween, NotYetStarted, WritesItsReport, DepthCounted, ProfilerFollowsStack
<1>5. StackBounded'
  BY <1>2 DEF StackBounded
<1>6. EveryPopHasAPush'
  BY <1>2 DEF EveryPopHasAPush
<1> QED BY <1>3, <1>4, <1>5, <1>6 DEF IInv

\* The history is one of reports.
LEMMA Recorded ==
  ASSUME open_starts \in Seq(Nat)
  PROVE  /\ \A r \in Nat : Opens(r) => open_starts' \in Seq(Nat)
         /\ Closes => open_starts' \in Seq(Nat)
<1>1. ASSUME NEW r \in Nat, Opens(r) PROVE open_starts' \in Seq(Nat)
  BY <1>1 DEF Opens
<1>2. ASSUME Closes PROVE open_starts' \in Seq(Nat)
  BY <1>2, FrontOf DEF Closes
<1> QED BY <1>1, <1>2

LEMMA KeepsAutoStart ==
  ASSUME IInv, NEW outcome \in Outcomes, AutoStart(outcome)
  PROVE  IInv'
<1>1. /\ process = "running" /\ pending /\ running = <<>>
      /\ pending' = FALSE /\ HandlerStart(outcome)
      /\ UNCHANGED <<config, requests, running, hooked, user_depth, span_depth,
                     open_starts, returned>>
  BY DEF AutoStart
<1>2. profiler = "none"
  BY <1>1 DEF IInv, NotYetStarted
<1>3. SessionOK' /\ reports <= reports'
  BY <1>1, <1>2, StartKeeps
<1>4. span_depth' \in Nat /\ open_starts' \in Seq(Nat) /\ returned' \in 0 .. reports'
  <2>1. /\ span_depth \in Nat /\ open_starts \in Seq(Nat)
        /\ returned \in 0 .. reports /\ reports \in Nat
    BY DEF IInv, TypeOK
  <2>2. reports' \in Nat
    BY <1>3 DEF SessionOK
  <2> QED BY <1>1, <1>3, <2>1, <2>2
<1> QED BY <1>1, <1>3, <1>4, SessionStep

LEMMA KeepsStartSpan ==
  ASSUME IInv, NEW outcome \in Outcomes, StartSpan(outcome)
  PROVE  IInv'
<1>1. /\ process = "running" /\ profiler = "none"
      /\ pending' = FALSE /\ HandlerStart(outcome) /\ span_depth' = 1
      /\ UNCHANGED <<config, requests, running, hooked, user_depth, returned>>
  BY DEF StartSpan, Body, Rest
<1>2. SessionOK' /\ reports <= reports'
  BY <1>1, StartKeeps
<1>3. span_depth' \in Nat /\ returned' \in 0 .. reports'
  <2>1. returned \in 0 .. reports /\ reports \in Nat
    BY DEF IInv, TypeOK
  <2>2. reports' \in Nat
    BY <1>2 DEF SessionOK
  <2> QED BY <1>1, <1>2, <2>1, <2>2
<1>4. open_starts' \in Seq(Nat)
  <2>1. reporter' \in 0 .. reports' /\ reports' \in Nat
    BY <1>2 DEF SessionOK
  <2>2. reporter' \in Nat
    BY <2>1
  <2> QED BY <2>2, Recorded DEF IInv, TypeOK, StartSpan
<1> QED BY <1>1, <1>2, <1>3, <1>4, SessionStep

LEMMA KeepsStopSpan ==
  ASSUME IInv, StopSpan
  PROVE  IInv'
<1>1. /\ process = "running" /\ pending' = FALSE /\ span_depth' = 0
      /\ HandlerStop(profiler, told, reporter)
      /\ returned' = full_report_key
      /\ UNCHANGED <<config, requests, running, hooked, user_depth,
                     full_report_key, reports>>
  BY DEF StopSpan, Body, Rest
<1>2. /\ profiler \in {"none", "tracing"} /\ reports \in Nat
      /\ full_report_key \in 0 .. reports
      /\ profiler = "tracing" => reporter \in 1 .. reports
  BY DEF IInv, TypeOK, WritesItsReport, NoReport
<1>3. SessionOK'
  <2>1. /\ reports' \in Nat /\ reports <= reports' /\ full_report_key' \in 0 .. reports'
        /\ profiler = "tracing" => reporter \in 1 .. reports'
    BY <1>1, <1>2
  <2> QED BY <1>1, <1>2, <2>1, StopKeeps
<1>4. span_depth' \in Nat /\ returned' \in 0 .. reports'
  BY <1>1, <1>2
<1>5. open_starts' \in Seq(Nat)
  BY Recorded DEF IInv, TypeOK, StopSpan
<1> QED BY <1>1, <1>3, <1>4, <1>5, SessionStep

\* A body of spx_profiler_start() or spx_profiler_stop() without effect on the
\* profiler.
LEMMA KeepsNoEffect ==
  ASSUME IInv, process = "running", NoEffect, Rest, pending' = FALSE,
         span_depth' \in Nat, open_starts' \in Seq(Nat),
         returned' \in {returned, NoReport}
  PROVE  IInv'
<1>1. UNCHANGED <<process, call_stack, told, profiler, reporter, full_report_key,
                  reports, complete, request_shutdown, active_function_name,
                  config, requests, running, hooked, user_depth>>
  BY DEF NoEffect, Rest, stacks, session
<1>2. StacksOK' /\ WritesItsReport'
  BY <1>1 DEF IInv, TypeOK, StacksOK, StackBounded, ProfilerFollowsStack, WritesItsReport
<1>3. EveryPopHasAPush'
  <2>1. HookedNames' = HookedNames
    BY <1>1, HookedNamesStay
  <2>2. EndsRequestShutdown' <=> EndsRequestShutdown
    BY <1>1 DEF EndsRequestShutdown, InternalHooked
  <2>3. Owed' = Owed
    BY <1>1, <2>1, <2>2 DEF Owed, Calls
  <2> QED BY <1>1, <2>2, <2>3 DEF IInv, EveryPopHasAPush
<1>4. SessionOK'
  BY <1>1, <1>2, <1>3 DEF IInv, TypeOK, SessionOK
<1>5. returned' \in 0 .. reports'
  BY <1>1 DEF IInv, TypeOK, NoReport
<1> QED BY <1>1, <1>4, <1>5, SessionStep

LEMMA KeepsNestedOrRefused ==
  ASSUME IInv, ApiRefused \/ StartNested \/ StopNested
  PROVE  IInv'
<1>1. span_depth \in Nat /\ open_starts \in Seq(Nat) /\ NoReport \in Nat
  BY DEF IInv, TypeOK, NoReport
<1>2. CASE ApiRefused
  BY <1>1, <1>2, KeepsNoEffect DEF ApiRefused, Body
<1>3. CASE StartNested
  <2>1. span_depth' \in Nat /\ open_starts' \in Seq(Nat)
    BY <1>1, <1>3, Recorded DEF StartNested, OneSpanMore
  <2> QED BY <1>3, <2>1, KeepsNoEffect DEF StartNested, Body
<1>4. CASE StopNested
  <2>1. span_depth' \in Nat /\ open_starts' \in Seq(Nat)
    BY <1>1, <1>4, Recorded DEF StopNested
  <2> QED BY <1>4, <2>1, KeepsNoEffect DEF StopNested, Body
<1> QED BY <1>2, <1>3, <1>4

-----------------------------------------------------------------------------
(* The theorems. *)

LEMMA StepKeeps == IInv /\ [Next]_vars => IInv'
<1> SUFFICES ASSUME IInv, [Next]_vars PROVE IInv'
  OBVIOUS
<1>1. CASE UNCHANGED vars
  <2>1. UNCHANGED <<config, process, requests, running, pending, call_stack, told,
                    hooked, active_function_name, user_depth, request_shutdown,
                    span_depth, open_starts, profiler, reporter, full_report_key,
                    reports, complete, returned>>
    BY <1>1 DEF vars, stacks, hooks, session
  <2>2. TypeOK'
    BY <2>1 DEF IInv, TypeOK
  <2>3. /\ QuietBetween' /\ NotYetStarted' /\ WritesItsReport'
        /\ StackBounded' /\ ProfilerFollowsStack'
    BY <2>1 DEF IInv, QuietBetween, NotYetStarted, WritesItsReport, StackBounded,
                ProfilerFollowsStack
  <2>4. DepthCounted'
    BY <2>1 DEF IInv, DepthCounted, Calls
  <2>5. EveryPopHasAPush'
    <3>1. HookedNames' = HookedNames
      BY <2>1, HookedNamesStay
    <3>2. EndsRequestShutdown' <=> EndsRequestShutdown
      BY <2>1 DEF EndsRequestShutdown, InternalHooked
    <3>3. Owed' = Owed
      BY <2>1, <3>1, <3>2 DEF Owed, Calls
    <3> QED BY <2>1, <3>2, <3>3 DEF IInv, EveryPopHasAPush
  <2> QED BY <2>2, <2>3, <2>4, <2>5 DEF IInv
<1>2. ASSUME NEW c \in Configs, RequestStart(c) PROVE IInv'
  BY <1>2, KeepsRequestStart
<1>3. ASSUME NEW c \in Configs, RequestStartFails(c) PROVE IInv'
  BY <1>3, KeepsRequestStartFails
<1>4. ASSUME NEW o \in Outcomes, AutoStart(o) PROVE IInv'
  BY <1>4, KeepsAutoStart
<1>5. ASSUME NEW o \in Outcomes, StartSpan(o) PROVE IInv'
  BY <1>5, KeepsStartSpan
<1>6. CASE RequestEnd
  BY <1>6, KeepsRequestEnd
<1>7. ASSUME NEW f \in UserFunctions, UserCall(f) PROVE IInv'
  BY <1>7, KeepsUserCall
<1>8. CASE UserReturn
  BY <1>8, KeepsUserReturn
<1>9. ASSUME NEW f \in Internals, InternalCall(f) PROVE IInv'
  BY <1>9, KeepsInternalCall
<1>10. CASE InternalReturn
  BY <1>10, KeepsInternalReturn
<1>11. ASSUME NEW r \in EngineRuns, EngineRun(r) PROVE IInv'
  BY <1>11, KeepsEngineRun
<1>12. CASE EngineRunEnds
  BY <1>12, KeepsEngineRunEnds
<1>13. CASE Bailout
  BY <1>13, KeepsBailout
<1>14. CASE ApiRefused \/ StartNested \/ StopNested
  BY <1>14, KeepsNestedOrRefused
<1>15. CASE StopSpan
  BY <1>15, KeepsStopSpan
<1> QED BY <1>1, <1>2, <1>3, <1>4, <1>5, <1>6, <1>7, <1>8, <1>9, <1>10, <1>11,
           <1>12, <1>13, <1>14, <1>15 DEF Next

\* The invariant holds in every state the handler reaches: what the hooks push is
\* counted against what they will pop, and the profiler against the stack.
THEOREM InvariantHolds == Spec => []IInv
<1>1. Init => IInv
  BY InitHolds
<1>2. IInv /\ [Next]_vars => IInv'
  BY StepKeeps
<1> QED BY <1>1, <1>2, PTL DEF Spec

\* The variables keep their types: calls go by the names of functions, of engine
\* runs or of the request shutdown, and keys name reports that were begun.
THEOREM ProfilingTyped == Spec => []TypeOK
<1>1. IInv => TypeOK
  BY DEF IInv
<1> QED BY <1>1, InvariantHolds, PTL

\* Whatever the script calls, starts, stops and abandons, and whatever objects
\* cannot be created, no after hook finds the call stack empty.
THEOREM PopsFindTheirPush == Spec => []EveryPopHasAPush
<1>1. IInv => EveryPopHasAPush
  BY DEF IInv
<1> QED BY <1>1, InvariantHolds, PTL

\* The profiler has the calls of the stack open, however it was started.
THEOREM ProfilerSeesTheStack == Spec => []ProfilerFollowsStack
<1>1. IInv => ProfilerFollowsStack
  BY DEF IInv
<1> QED BY <1>1, InvariantHolds, PTL

\* Only these steps stop a profiler or change the report that is written.
LEMMA WhoStops ==
  ASSUME IInv, Next, UNCHANGED reporter => profiler' # profiler
  PROVE  \/ \E o \in Outcomes : AutoStart(o) \/ StartSpan(o)
         \/ RequestEnd \/ StopSpan
         \/ \E c \in Configs : RequestStart(c)
BY DEF Next, RequestStartFails, UserCall, UserReturn, InternalCall, InternalReturn,
       EngineRun, EngineRunEnds, Bailout, ApiRefused, StartNested, StopNested,
       NoEffect, session

\* The key that is kept is never that of an earlier report.
LastKey == full_report_key \in {NoReport, reports}

LEMMA KeyStaysLast ==
  ASSUME LastKey, [Next]_vars
  PROVE  LastKey'
<1>1. ASSUME NEW o \in Outcomes, HandlerStart(o) PROVE LastKey'
  BY <1>1 DEF HandlerStart, NewKey, LastKey
<1>2. CASE \E o \in Outcomes : AutoStart(o) \/ StartSpan(o)
  BY <1>1, <1>2 DEF AutoStart, StartSpan
<1>3. CASE \E c \in Configs : RequestStart(c)
  BY <1>3 DEF RequestStart, LastKey
<1>4. CASE UNCHANGED <<full_report_key, reports>>
  BY <1>4 DEF LastKey
<1> QED
  BY <1>2, <1>3, <1>4
     DEF Next, RequestStartFails, RequestEnd, UserCall, UserReturn, InternalCall,
         InternalReturn, EngineRun, EngineRunEnds, Bailout, ApiRefused, StartNested,
         StopSpan, StopNested, NoEffect, session, vars

\* A report is let go of only when it is complete, and the stop that ends a
\* profile for a full report returns the key of the report it completed.
THEOREM ReportsFinished == Spec => ReportsAreFinished
<1> DEFINE Finished == process' # "dead" /\ reporter # NoReport /\ reporter' # reporter
                         => reporter \in complete'
<1>1. IInv /\ Next => Finished
  <2> SUFFICES ASSUME IInv, Next, process' # "dead",
                      reporter # NoReport, reporter' # reporter
               PROVE  reporter \in complete'
    OBVIOUS
  <2>1. profiler = "tracing"
    BY DEF IInv, WritesItsReport
  <2>2. \/ \E o \in Outcomes : AutoStart(o) \/ StartSpan(o)
        \/ RequestEnd \/ StopSpan
        \/ \E c \in Configs : RequestStart(c)
    BY WhoStops
  <2>3. ASSUME NEW o \in Outcomes, AutoStart(o) PROVE FALSE
    BY <2>1, <2>3 DEF AutoStart, IInv, NotYetStarted
  <2>4. ASSUME NEW o \in Outcomes, StartSpan(o) PROVE FALSE
    BY <2>1, <2>4 DEF StartSpan
  <2>5. CASE RequestEnd
    BY <2>1, <2>5 DEF RequestEnd, Die, Completed
  <2>6. CASE StopSpan
    <3>1. HandlerStop(profiler, told, reporter)
      BY <2>6 DEF StopSpan
    <3>2. complete' = Completed(profiler, reporter)
      BY <3>1 DEF HandlerStop, Die
    <3> QED BY <2>1, <3>2 DEF Completed
  <2>7. ASSUME NEW c \in Configs, RequestStart(c) PROVE FALSE
    BY <2>1, <2>7 DEF RequestStart, IInv, QuietBetween
  <2> QED BY <2>2, <2>3, <2>4, <2>5, <2>6, <2>7
<1>2. IInv /\ LastKey /\ Next => StopReturnsItsKey
  <2> SUFFICES ASSUME IInv, LastKey, Next, process = "running", process' = "running",
                      span_depth' < span_depth
               PROVE  IF span_depth' > 0 THEN returned' = NoReport
                      ELSE /\ returned' \in {NoReport, reports}
                           /\ profiler = "tracing" /\ config.full =>
                                returned' = reporter /\ returned' \in complete'
    BY DEF StopReturnsItsKey
  <2>1. span_depth \in Nat
    BY DEF IInv, TypeOK
  <2>2. span_depth' # span_depth /\ span_depth' # span_depth + 1
    BY <2>1
  <2>3. \/ StopSpan \/ StopNested
        \/ \E o \in Outcomes : StartSpan(o)
    BY <2>2 DEF Next, RequestStart, RequestStartFails, AutoStart, RequestEnd, UserCall,
                UserReturn, InternalCall, InternalReturn, EngineRun, EngineRunEnds, Bailout,
                ApiRefused, StartNested, OneSpanMore
  <2>4. CASE StopSpan
    <3>1. /\ HandlerStop(profiler, told, reporter)
          /\ span_depth' = 0 /\ returned' = full_report_key
      BY <2>4 DEF StopSpan
    <3>2. complete' = Completed(profiler, reporter)
      BY <3>1 DEF HandlerStop, Die
    <3>3. profiler = "tracing" /\ config.full => full_report_key = reporter
      BY DEF IInv, WritesItsReport
    <3> QED BY <3>1, <3>2, <3>3 DEF Completed, LastKey
  <2>5. CASE StopNested
    <3>1. /\ span_depth # 1 /\ returned' = NoReport
          /\ span_depth' = IF span_depth = 0 THEN 0 ELSE span_depth - 1
      BY <2>5 DEF StopNested, OutermostEnds
    <3>2. span_depth' > 0
      BY <2>1, <3>1
    <3> QED BY <3>1, <3>2
  <2>6. ASSUME NEW o \in Outcomes, StartSpan(o) PROVE FALSE
    BY <2>2, <2>6 DEF StartSpan, OneSpanMore
  <2> QED BY <2>3, <2>4, <2>5, <2>6
<1>3. IInv /\ LastKey /\ [Next]_vars => [Finished /\ StopReturnsItsKey]_vars
  BY <1>1, <1>2
<1>4. Init => LastKey
  BY DEF Init, LastKey
<1> QED BY <1>3, <1>4, KeyStaysLast, InvariantHolds, PTL DEF Spec, ReportsAreFinished

-----------------------------------------------------------------------------
(* Spans. *)

\* What pairs the counter with the starts and stops of the script: the counter
\* is never behind, it is exact while a profile runs, and only the oldest open
\* start can have begun it.  After a request that could not be set up the
\* counter may be ahead, which is why it cannot just be the length.
SpanBook ==
  /\ process = "running" /\ pending /\ running = <<>> => config.auto_start
  /\ process = "running" /\ ~config.auto_start =>
       /\ Len(open_starts) <= span_depth
       /\ \A i \in DOMAIN open_starts : i # 1 => open_starts[i] = NoReport
       /\ profiler = "none" => \A i \in DOMAIN open_starts : open_starts[i] = NoReport
       /\ profiler = "tracing" => /\ Len(open_starts) = span_depth
                                  /\ open_starts # <<>> /\ open_starts[1] = reporter

\* A step that is none of a span's keeps the book.
LEMMA NoSpanStep ==
  ASSUME SpanBook, process = "running",
         UNCHANGED <<config, span_depth, open_starts, profiler, reporter>>,
         pending' /\ running' = <<>> => pending /\ running = <<>>
  PROVE  SpanBook'
BY DEF SpanBook

\* A start of its own is on top of those that were open.
LEMMA Opened ==
  ASSUME open_starts \in Seq(Nat), NEW r \in Nat, Opens(r)
  PROVE  /\ Len(open_starts) \in Nat /\ DOMAIN open_starts = 1 .. Len(open_starts)
         /\ Len(open_starts') = Len(open_starts) + 1
         /\ open_starts' # <<>>
         /\ DOMAIN open_starts' = 1 .. Len(open_starts) + 1
         /\ \A i \in 1 .. Len(open_starts) : open_starts'[i] = open_starts[i]
         /\ open_starts'[Len(open_starts) + 1] = r
<1>1. open_starts' = Append(open_starts, r)
  BY DEF Opens
<1>2. Append(open_starts, r) # <<>>
  <2>1. /\ Len(Append(open_starts, r)) = Len(open_starts) + 1
        /\ Len(open_starts) \in Nat
    OBVIOUS
  <2>2. Len(Append(open_starts, r)) # 0
    BY <2>1
  <2> QED BY <2>2
<1> QED BY <1>1, <1>2

\* A stop takes the latest away.
LEMMA Closed ==
  ASSUME open_starts \in Seq(Nat), Closes
  PROVE  /\ Len(open_starts) \in Nat /\ DOMAIN open_starts = 1 .. Len(open_starts)
         /\ Len(open_starts) = 0 => open_starts' = <<>>
         /\ Len(open_starts) > 0 => Len(open_starts') = Len(open_starts) - 1
         /\ DOMAIN open_starts' = 1 .. Len(open_starts')
         /\ \A i \in DOMAIN open_starts' :
              i \in DOMAIN open_starts /\ open_starts'[i] = open_starts[i]
<1>1. CASE open_starts = <<>>
  <2>1. open_starts' = <<>>
    BY <1>1 DEF Closes
  <2>2. Len(open_starts) = 0 /\ DOMAIN open_starts = {}
    BY <1>1
  <2>3. DOMAIN open_starts' = {} /\ Len(open_starts') = 0
    BY <2>1
  <2> QED BY <2>1, <2>2, <2>3
<1>2. CASE open_starts # <<>>
  <2>1. open_starts' = Front(open_starts)
    BY <1>2 DEF Closes
  <2>2. /\ Front(open_starts) \in Seq(Nat)
        /\ Len(Front(open_starts)) = Len(open_starts) - 1
        /\ \A i \in 1 .. Len(open_starts) - 1 : Front(open_starts)[i] = open_starts[i]
    BY <1>2, FrontOf
  <2>3. Len(open_starts) \in Nat \ {0}
    BY <1>2
  <2>4. /\ DOMAIN open_starts = 1 .. Len(open_starts)
        /\ DOMAIN Front(open_starts) = 1 .. Len(open_starts) - 1
    BY <2>2
  <2> QED BY <2>1, <2>2, <2>3, <2>4
<1> QED BY <1>1, <1>2

LEMMA StartNestedKeeps ==
  ASSUME IInv, SpanBook, StartNested
  PROVE  SpanBook'
<1>1. /\ process = "running" /\ process' = "running" /\ ~config.auto_start
      /\ span_depth > 0 \/ profiler # "none"
      /\ pending' = FALSE /\ span_depth' = span_depth + 1 /\ Opens(NoReport)
      /\ UNCHANGED <<config, profiler, reporter>>
  BY DEF StartNested, Body, OneSpanMore, NoEffect, Rest, session
<1>2. /\ open_starts \in Seq(Nat) /\ span_depth \in Nat /\ NoReport \in Nat
      /\ profiler \in {"none", "tracing"}
  BY DEF IInv, TypeOK, NoReport
<1>3. /\ Len(open_starts) \in Nat /\ DOMAIN open_starts = 1 .. Len(open_starts)
      /\ Len(open_starts') = Len(open_starts) + 1
      /\ open_starts' # <<>>
      /\ DOMAIN open_starts' = 1 .. Len(open_starts) + 1
      /\ \A i \in 1 .. Len(open_starts) : open_starts'[i] = open_starts[i]
      /\ open_starts'[Len(open_starts) + 1] = NoReport
  BY <1>1, <1>2, Opened
<1>4. /\ Len(open_starts) <= span_depth
      /\ \A i \in DOMAIN open_starts : i # 1 => open_starts[i] = NoReport
      /\ profiler = "none" => \A i \in DOMAIN open_starts : open_starts[i] = NoReport
      /\ profiler = "tracing" => /\ Len(open_starts) = span_depth
                                 /\ open_starts # <<>> /\ open_starts[1] = reporter
  BY <1>1 DEF SpanBook
<1>5. Len(open_starts') <= span_depth'
  <2>1. /\ Len(open_starts) \in Nat /\ span_depth \in Nat
        /\ Len(open_starts) <= span_depth
    BY <1>2, <1>3, <1>4
  <2>2. Len(open_starts) + 1 <= span_depth + 1
    BY <2>1
  <2> QED BY <1>1, <1>3, <2>2
<1>6. \A i \in DOMAIN open_starts' : i # 1 => open_starts'[i] = NoReport
  BY <1>3, <1>4
<1>7. profiler' = "none" =>
        \A i \in DOMAIN open_starts' : open_starts'[i] = NoReport
  BY <1>1, <1>3, <1>4
<1>8. ASSUME profiler' = "tracing"
      PROVE  Len(open_starts') = span_depth' /\ open_starts'[1] = reporter'
  <2>1. Len(open_starts) = span_depth /\ open_starts # <<>> /\ open_starts[1] = reporter
    BY <1>1, <1>4, <1>8
  <2>2. 1 \in 1 .. Len(open_starts)
    BY <1>2, <2>1
  <2> QED BY <1>1, <1>2, <1>3, <2>1, <2>2
<1> QED BY <1>1, <1>3, <1>5, <1>6, <1>7, <1>8 DEF SpanBook

\* Finishing what was started, or failed to start, leaves no profile.
LEMMA StartedOrNot ==
  ASSUME IInv, NEW o \in Outcomes, HandlerStart(o)
  PROVE  IF o = "ok" THEN profiler' = "tracing" /\ reporter' = reports + 1
                     ELSE profiler' = "none" /\ reporter' = NoReport
BY DEF HandlerStart, HandlerStop, Outcomes

LEMMA StartSpanKeeps ==
  ASSUME IInv, SpanBook, NEW o \in Outcomes, StartSpan(o)
  PROVE  SpanBook'
<1>1. /\ process = "running" /\ ~config.auto_start
      /\ span_depth = 0 /\ span_depth' = 1 /\ pending' = FALSE
      /\ HandlerStart(o) /\ Opens(reporter') /\ UNCHANGED config
  BY DEF StartSpan, Body, Rest
<1>2. open_starts \in Seq(Nat) /\ reports \in Nat
  BY DEF IInv, TypeOK
<1>3. /\ reporter' \in Nat
      /\ profiler' = "none" => reporter' = NoReport
  BY <1>1, <1>2, StartedOrNot DEF NoReport
<1>4. Len(open_starts) <= span_depth
  BY <1>1 DEF SpanBook
<1>5. /\ Len(open_starts) \in Nat
      /\ Len(open_starts') = Len(open_starts) + 1
      /\ open_starts' # <<>>
      /\ DOMAIN open_starts' = 1 .. Len(open_starts) + 1
      /\ open_starts'[Len(open_starts) + 1] = reporter'
  BY <1>1, <1>2, <1>3, Opened
<1>6. /\ Len(open_starts') = 1 /\ DOMAIN open_starts' = {1}
      /\ open_starts'[1] = reporter'
  BY <1>1, <1>4, <1>5
<1> QED BY <1>1, <1>3, <1>5, <1>6 DEF SpanBook

LEMMA StopNestedKeeps ==
  ASSUME IInv, SpanBook, StopNested
  PROVE  SpanBook'
<1>1. /\ process = "running" /\ process' = "running" /\ ~config.auto_start
      /\ span_depth # 1 /\ pending' = FALSE /\ Closes
      /\ span_depth' = IF span_depth = 0 THEN 0 ELSE span_depth - 1
      /\ UNCHANGED <<config, profiler, reporter>>
  BY DEF StopNested, Body, OutermostEnds, NoEffect, Rest, session
<1>2. /\ open_starts \in Seq(Nat) /\ span_depth \in Nat
      /\ profiler \in {"none", "tracing"}
  BY DEF IInv, TypeOK
<1>3. /\ Len(open_starts) \in Nat /\ DOMAIN open_starts = 1 .. Len(open_starts)
      /\ Len(open_starts) = 0 => open_starts' = <<>>
      /\ Len(open_starts) > 0 => Len(open_starts') = Len(open_starts) - 1
      /\ DOMAIN open_starts' = 1 .. Len(open_starts')
      /\ \A i \in DOMAIN open_starts' :
           i \in DOMAIN open_starts /\ open_starts'[i] = open_starts[i]
  BY <1>1, <1>2, Closed
<1>4. /\ Len(open_starts) <= span_depth
      /\ \A i \in DOMAIN open_starts : i # 1 => open_starts[i] = NoReport
      /\ profiler = "none" => \A i \in DOMAIN open_starts : open_starts[i] = NoReport
      /\ profiler = "tracing" => /\ Len(open_starts) = span_depth
                                 /\ open_starts # <<>> /\ open_starts[1] = reporter
  BY <1>1 DEF SpanBook
<1>5. Len(open_starts') <= span_depth'
  <2>1. CASE Len(open_starts) = 0
    <3>1. Len(open_starts') = 0
      BY <1>3, <2>1
    <3>2. span_depth' \in Nat
      BY <1>1, <1>2
    <3> QED BY <3>1, <3>2
  <2>2. CASE Len(open_starts) > 0
    <3>1. /\ Len(open_starts) \in Nat /\ span_depth \in Nat
          /\ Len(open_starts) <= span_depth
      BY <1>2, <1>3, <1>4
    <3>2. span_depth' = span_depth - 1 /\ Len(open_starts) - 1 <= span_depth - 1
      BY <1>1, <2>2, <3>1
    <3> QED BY <1>3, <2>2, <3>2
  <2>3. Len(open_starts) = 0 \/ Len(open_starts) > 0
    <3>1. Len(open_starts) \in Nat
      BY <1>3
    <3> QED BY <3>1
  <2> QED BY <2>1, <2>2, <2>3
<1>6. /\ \A i \in DOMAIN open_starts' : i # 1 => open_starts'[i] = NoReport
      /\ profiler' = "none" =>
           \A i \in DOMAIN open_starts' : open_starts'[i] = NoReport
  BY <1>1, <1>3, <1>4
<1>7. ASSUME profiler' = "tracing"
      PROVE  /\ Len(open_starts') = span_depth'
             /\ open_starts' # <<>> /\ open_starts'[1] = reporter'
  <2>1. /\ Len(open_starts) = span_depth /\ open_starts # <<>>
        /\ open_starts[1] = reporter
    BY <1>1, <1>4, <1>7
  <2>2. span_depth > 1
    BY <1>1, <1>2, <2>1
  <2>3. Len(open_starts') = span_depth - 1 /\ span_depth' = span_depth - 1
    BY <1>1, <1>3, <2>1, <2>2
  <2>4. 1 \in DOMAIN open_starts'
    <3>1. 1 \in 1 .. span_depth - 1
      BY <1>2, <2>2
    <3> QED BY <1>3, <2>3, <3>1
  <2>5. open_starts' # <<>>
    BY <2>4
  <2> QED BY <1>1, <1>3, <2>1, <2>3, <2>4, <2>5
<1> QED BY <1>1, <1>5, <1>6, <1>7, <1>2 DEF SpanBook

LEMMA StopSpanKeeps ==
  ASSUME IInv, SpanBook, StopSpan
  PROVE  SpanBook'
<1>1. /\ process = "running" /\ ~config.auto_start
      /\ span_depth = 1 /\ span_depth' = 0 /\ pending' = FALSE /\ Closes
      /\ profiler' = "none" /\ UNCHANGED config
  BY DEF StopSpan, Body, OutermostEnds, HandlerStop, Rest
<1>2. open_starts \in Seq(Nat) /\ Len(open_starts) <= 1
  BY <1>1 DEF SpanBook, IInv, TypeOK
<1>3. Len(open_starts') = 0 /\ DOMAIN open_starts' = {}
  <2>1. /\ Len(open_starts) \in Nat
        /\ Len(open_starts) = 0 => open_starts' = <<>>
        /\ Len(open_starts) > 0 => Len(open_starts') = Len(open_starts) - 1
        /\ DOMAIN open_starts' = 1 .. Len(open_starts')
    BY <1>1, <1>2, Closed
  <2>2. Len(open_starts) = 0 => Len(open_starts') = 0
    BY <2>1
  <2> QED BY <1>2, <2>1, <2>2
<1> QED BY <1>1, <1>3 DEF SpanBook

LEMMA SpanStep == IInv /\ SpanBook /\ [Next]_vars => SpanBook'
<1> SUFFICES ASSUME IInv, SpanBook, [Next]_vars PROVE SpanBook'
  OBVIOUS
<1>1. CASE UNCHANGED vars
  BY <1>1 DEF vars, session, SpanBook
<1>2. ASSUME NEW c \in Configs, RequestStart(c) PROVE SpanBook'
  <2>1. /\ pending' = c.auto_start /\ config' = c /\ open_starts' = <<>>
        /\ span_depth' = 0 /\ profiler' = "none"
    BY <1>2 DEF RequestStart
  <2>2. Len(open_starts') = 0 /\ DOMAIN open_starts' = {}
    BY <2>1
  <2> QED BY <2>1, <2>2 DEF SpanBook
<1>3. ASSUME NEW c \in Configs, RequestStartFails(c) PROVE SpanBook'
  <2>1. /\ process = "between" /\ open_starts' = <<>>
        /\ UNCHANGED <<pending, span_depth, profiler>>
    BY <1>3 DEF RequestStartFails, session
  <2>2. ~pending /\ profiler = "none" /\ span_depth \in Nat
    BY <2>1 DEF IInv, QuietBetween, TypeOK
  <2>3. Len(open_starts') = 0 /\ DOMAIN open_starts' = {}
    BY <2>1
  <2> QED BY <2>1, <2>2, <2>3 DEF SpanBook
<1>4. ASSUME NEW o \in Outcomes, AutoStart(o) PROVE SpanBook'
  <2>1. /\ process = "running" /\ pending /\ running = <<>>
        /\ pending' = FALSE /\ UNCHANGED config
    BY <1>4 DEF AutoStart
  <2>2. config.auto_start
    BY <2>1 DEF SpanBook
  <2> QED BY <2>1, <2>2 DEF SpanBook
<1>5. CASE RequestEnd
  BY <1>5, RequestEndNeverDies DEF RequestEnd, SpanBook
<1>6. ASSUME \/ \E f \in UserFunctions : UserCall(f)
             \/ UserReturn
             \/ \E f \in Internals : InternalCall(f)
             \/ InternalReturn
             \/ \E r \in EngineRuns : EngineRun(r)
             \/ EngineRunEnds
             \/ Bailout
             \/ ApiRefused
      PROVE  SpanBook'
  <2>1. /\ process = "running"
        /\ UNCHANGED <<config, span_depth, open_starts, profiler, reporter>>
    BY <1>6 DEF UserCall, UserReturn, InternalCall, InternalReturn, EngineRun,
                EngineRunEnds, Bailout, ApiRefused, CanCall, Innermost, Body, Rest,
                NoEffect, session
  <2>2. pending' => running' # <<>>
    <3>1. ASSUME NEW f \in Internals, InternalCall(f) PROVE running' # <<>>
      <4>1. /\ running' = Append(running, f)
            /\ running \in Seq(UserFunctions \cup Internals \cup EngineRuns)
        BY <3>1 DEF InternalCall, IInv, TypeOK
      <4>2. /\ Len(Append(running, f)) = Len(running) + 1
            /\ Len(running) \in Nat
        BY <4>1
      <4>3. Len(running') # 0
        BY <4>1, <4>2
      <4> QED BY <4>3
    <3>2. ASSUME ~\E f \in Internals : InternalCall(f) PROVE ~pending'
      BY <1>6, <3>2 DEF UserCall, UserReturn, InternalReturn, EngineRun,
                        EngineRunEnds, Bailout, ApiRefused, CanCall, Innermost
    <3> QED BY <3>1, <3>2
  <2> QED BY <2>1, <2>2, NoSpanStep
<1>7. CASE StartNested
  BY <1>7, StartNestedKeeps
<1>8. ASSUME NEW o \in Outcomes, StartSpan(o) PROVE SpanBook'
  BY <1>8, StartSpanKeeps
<1>9. CASE StopNested
  BY <1>9, StopNestedKeeps
<1>10. CASE StopSpan
  BY <1>10, StopSpanKeeps
<1> QED BY <1>1, <1>2, <1>3, <1>4, <1>5, <1>6, <1>7, <1>8, <1>9, <1>10 DEF Next

\* Without an automatic start a profile runs from the start that began it to the
\* stop that pairs off with it, however starts and stops are nested, whatever
\* could not be created and whatever count the last request left.
THEOREM SpansNest == Spec => []SpansAreWhole
<1>1. Init => SpanBook
  BY DEF Init, SpanBook
<1>2. IInv /\ SpanBook => SpansAreWhole
  <2> SUFFICES ASSUME IInv, SpanBook, process = "running", ~config.auto_start
               PROVE  /\ profiler = "tracing" =>
                           open_starts # <<>> /\ open_starts[1] = reporter
                      /\ \A i \in DOMAIN open_starts : open_starts[i] # NoReport =>
                           profiler = "tracing" /\ reporter = open_starts[i]
    BY DEF SpansAreWhole
  <2>1. profiler \in {"none", "tracing"}
    BY DEF IInv, TypeOK
  <2> QED BY <2>1 DEF SpanBook
<1> QED BY <1>1, <1>2, SpanStep, InvariantHolds, PTL DEF Spec

\* A name that is left over while the hooks are set was left by a fatal error.
THEOREM NamesAreTakenBack == Spec => OnlyErrorsMisname
<1> DEFINE Innocent == hooked /\ Misnamed' =>
      Misnamed \/ (running' = <<>> /\ UNCHANGED <<process, call_stack, user_depth>>)
<1>1. IInv /\ [Next]_vars => [Innocent]_vars
  <2> SUFFICES ASSUME IInv, Next, hooked, Misnamed', ~Misnamed
               PROVE  running' = <<>> /\ UNCHANGED <<process, call_stack, user_depth>>
    OBVIOUS
  <2>1. active_function_name' # NoName
    BY DEF Misnamed
  <2>2. \A i \in DOMAIN running' : running'[i] # active_function_name'
    BY DEF Misnamed
  <2>3. process # "between"
    BY DEF IInv, QuietBetween
  <2>4. /\ running \in Seq(Executed) /\ Len(running) \in Nat
        /\ DOMAIN running = 1 .. Len(running)
    BY DEF IInv, TypeOK, Executed
  \* A name that is kept is that of a run that runs, and goes on.
  <2>5. ASSUME UNCHANGED active_function_name
        PROVE  \E i \in DOMAIN running : /\ running[i] = active_function_name
                                         /\ running[i] \in EngineRuns
    BY <2>1, <2>5 DEF Misnamed, IInv, TypeOK
  <2>6. ASSUME UNCHANGED running
        PROVE  active_function_name' # active_function_name
    BY <2>2, <2>5, <2>6
  <2>7. ASSUME NEW f \in Executed, running' = Append(running, f)
        PROVE  active_function_name' \notin {active_function_name, f}
    <3>1. /\ DOMAIN running' = 1 .. Len(running) + 1
          /\ \A i \in 1 .. Len(running) : running'[i] = running[i]
          /\ running'[Len(running) + 1] = f
      BY <2>4, <2>7
    <3>2. Len(running) + 1 \in DOMAIN running'
          /\ \A i \in 1 .. Len(running) : i \in DOMAIN running'
      BY <2>4, <3>1
    <3> QED BY <2>2, <2>4, <2>5, <3>1, <3>2
  <2>8. ASSUME running # <<>>, running' = Front(running), Last(running) \notin EngineRuns
        PROVE  active_function_name' # active_function_name
    <3>1. /\ Last(running) = running[Len(running)]
          /\ \A i \in 1 .. Len(running) - 1 : running'[i] = running[i]
          /\ DOMAIN running' = 1 .. Len(running) - 1
      BY <2>4, <2>8, LastOne, FrontOf
    <3>2. \A i \in DOMAIN running : i = Len(running) \/ i \in DOMAIN running'
      BY <2>4, <3>1
    <3> QED BY <2>2, <2>4, <2>5, <2>8, <3>1, <3>2
  <2>9. ASSUME NEW c \in Configs, RequestStart(c) \/ RequestStartFails(c) PROVE FALSE
    BY <2>3, <2>9 DEF RequestStart, RequestStartFails
  <2>10. ASSUME NEW prof, NEW open, NEW r, HandlerStop(prof, open, r), UNCHANGED running
         PROVE  FALSE
    BY <2>1, <2>6, <2>10 DEF HandlerStop
  <2>11. ASSUME NEW o \in Outcomes, AutoStart(o) \/ StartSpan(o) PROVE FALSE
    <3>1. UNCHANGED running /\ HandlerStart(o)
      BY <2>11 DEF AutoStart, StartSpan, Rest
    <3> QED BY <2>6, <2>10, <3>1 DEF HandlerStart
  <2>12. CASE RequestEnd
    BY <2>1, <2>6, <2>12, RequestEndNeverDies DEF RequestEnd
  <2>13. ASSUME NEW f \in UserFunctions, UserCall(f) PROVE FALSE
    BY <2>7, <2>13 DEF UserCall, Executed
  <2>14. CASE UserReturn
    <3>1. /\ running # <<>> /\ running' = Front(running)
          /\ Last(running) \in UserFunctions
          /\ active_function_name' \in {NoName, active_function_name}
      BY <2>14 DEF UserReturn, Innermost
    <3>2. Last(running) \notin EngineRuns
      BY <3>1, HandlerAssumption DEF HandlerAssumption
    <3> QED BY <2>1, <2>8, <3>1, <3>2
  <2>15. ASSUME NEW f \in Internals, InternalCall(f) PROVE FALSE
    BY <2>7, <2>15 DEF InternalCall, Executed, hooks
  <2>16. CASE InternalReturn
    <3>1. /\ running # <<>> /\ running' = Front(running)
          /\ Last(running) \in Internals /\ UNCHANGED active_function_name
      BY <2>16 DEF InternalReturn, Innermost, hooks
    <3>2. Last(running) \notin EngineRuns
      BY <3>1, HandlerAssumption DEF HandlerAssumption
    <3> QED BY <2>8, <3>1, <3>2
  <2>17. ASSUME NEW r \in EngineRuns, EngineRun(r) PROVE FALSE
    BY <2>7, <2>17 DEF EngineRun, Executed
  <2>18. CASE EngineRunEnds
    BY <2>1, <2>18 DEF EngineRunEnds, NameReset
  <2>19. CASE Bailout
    BY <2>19 DEF Bailout, stacks, hooks
  <2>20. CASE ApiRefused \/ StartNested \/ StopNested
    BY <2>6, <2>20 DEF ApiRefused, StartNested, StopNested, NoEffect, Rest
  <2>21. CASE StopSpan
    BY <2>10, <2>21 DEF StopSpan, Rest
  <2> QED BY <2>9, <2>11, <2>12, <2>13, <2>14, <2>15, <2>16, <2>17, <2>18, <2>19,
             <2>20, <2>21 DEF Next
<1> QED BY <1>1, InvariantHolds, PTL DEF Spec, OnlyErrorsMisname
=============================================================================
