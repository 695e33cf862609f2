---------------------------- MODULE SpxSignalProofs ----------------------------
(***************************************************************************)
(* Proofs about SpxSignal, with and without the built-in functions hooked, *)
(* for every bound on the calls and on the signals sent.                   *)
(***************************************************************************)
EXTENDS SpxSignalReport, TLAPS

\* Wherever the profiler is called, or has just been, probing is raised: this is
\* what a signal finds.
Guarded == Alive /\ pc \in {"call", "lower"} => probing

\* Until a signal is caught, and while the tracer works, it and the call stack
\* are as deep, but for the call or the return that a hook has pushed or popped
\* and not told yet.
DepthsBook ==
  caught = NotCaught /\ tracer = "tracing" =>
    /\ Alive => profiler = "set"
    /\ traced = IF pc \in {"raise", "call"}
                THEN IF hook.op = "before" THEN call_stack - 1 ELSE call_stack + 1
                ELSE call_stack

\* What the places tell: at the start nothing is on a stack, a return is of a
\* call, and past its destruction the tracer works no more.
Places ==
  /\ pc \in {"reporter", "profiler"} =>
       tracer = "none" /\ call_stack = 0 /\ traced = 0
  /\ pc = "leave" => user_depth > 0
  /\ pc \in HookPoints /\ hook.then = "leave" => user_depth > 0
  /\ pc = "profiler_null" => tracer = "freed"

\* The handler counts signals, and the first one it counts is noted.
Counts ==
  /\ handler_called <= signals
  /\ caught = NotCaught => handler_called = 0

IInv == TypeOK /\ Guarded /\ Places /\ Counts /\ DepthsBook

-----------------------------------------------------------------------------
(* The initial state, and the steps by the place they start from. *)

\* Everything is at rest at first.
LEMMA InitIInv == Init => IInv
<1> SUFFICES ASSUME Init PROVE IInv
  OBVIOUS
<1>1. TypeOK
  <2>1. /\ request_shutdown \in BOOLEAN
        /\ installed \in BOOLEAN /\ sig_handler \in BOOLEAN
        /\ probing \in BOOLEAN /\ stop \in BOOLEAN
    BY DEF Init
  <2>2. caught \in [at : Points \cup {"none"}, in_shutdown : BOOLEAN]
    BY DEF Init, NotCaught
  <2> QED
    BY <2>1, <2>2, SignalAssumption
      DEF Init, TypeOK, Points, HookPoints, EndPoints, Statuses
<1>2. Guarded /\ Places /\ Counts /\ DepthsBook
  BY DEF Init, Guarded, Places, Counts, DepthsBook, HookPoints
<1> QED
  BY <1>1, <1>2 DEF IInv

\* The place and the hook keep to their sets.
LEMMA StepPlace ==
  ASSUME TypeOK, [Next]_vars
  PROVE  /\ pc' \in Points
         /\ hook' \in [op : {"before", "after"},
                       then : {"script", "leave", "request_shutdown_off"}]
         /\ exit' \in Statuses
<1> USE DEF Goto, EndProcess, Hook, At, Alive, TypeOK, Points, HookPoints,
            EndPoints, Statuses
<1>1. CASE CreateReporter \/ CreateProfiler \/ LeaveUser
  BY <1>1 DEF CreateReporter, CreateProfiler, LeaveUser
<1>2. CASE Stack \/ SetProbing \/ CallProfiler \/ CheckStop
  BY <1>2 DEF Stack, SetProbing, CallProfiler, CheckStop, Notified
<1>3. CASE ExecutionFinalize \/ RequestShutdownOff \/ Finalize \/ Destroy
  BY <1>3 DEF ExecutionFinalize, RequestShutdownOff, Finalize, Destroy
<1>4. CASE ProfilerNull \/ CloseReporter \/ ReporterNull \/ Uninstall
            \/ HandlerNull \/ Exit
  BY <1>4 DEF ProfilerNull, CloseReporter, ReporterNull, Uninstall, HandlerNull,
              Exit, SignalStatus
<1>5. CASE CallUser \/ ReturnUser \/ EndRequest \/ Signal
  BY <1>5 DEF CallUser, ReturnUser, EndRequest, Signal, Terminates
<1>6. CASE UNCHANGED vars
  BY <1>6 DEF vars
<1> QED
  BY <1>1, <1>2, <1>3, <1>4, <1>5, <1>6 DEF Next, Proceed

\* The flags are raised and lowered, never anything else.
LEMMA StepFlags ==
  ASSUME TypeOK, [Next]_vars
  PROVE  /\ request_shutdown' \in BOOLEAN
         /\ installed' \in BOOLEAN /\ sig_handler' \in BOOLEAN
         /\ probing' \in BOOLEAN /\ stop' \in BOOLEAN
<1>1. /\ request_shutdown \in BOOLEAN
      /\ installed \in BOOLEAN /\ sig_handler \in BOOLEAN
      /\ probing \in BOOLEAN /\ stop \in BOOLEAN
  BY DEF TypeOK
<1>2. CASE LeaveUser \/ RequestShutdownOff
  BY <1>1, <1>2 DEF LeaveUser, RequestShutdownOff, handler
<1>3. CASE SetProbing \/ Uninstall \/ HandlerNull
  BY <1>1, <1>3 DEF SetProbing, Uninstall, HandlerNull
<1>4. CASE Signal
  BY <1>1, <1>4 DEF Signal
<1>5. CASE ~(LeaveUser \/ RequestShutdownOff \/ SetProbing \/ Uninstall
              \/ HandlerNull \/ Signal)
  <2>1. UNCHANGED <<request_shutdown, handler>>
    BY <1>5 DEF Next, Proceed, vars, CreateReporter, CreateProfiler, Stack,
      CallProfiler, CheckStop, ExecutionFinalize, Finalize, Destroy,
      ProfilerNull, CloseReporter, ReporterNull, Exit, CallUser, ReturnUser,
      EndRequest
  <2> QED
    BY <1>1, <2>1 DEF handler
<1> QED
  BY <1>2, <1>3, <1>4, <1>5

\* The rest of the type, the counts being what bounds the handler's.
LEMMA StepType ==
  ASSUME TypeOK, Places, Counts, [Next]_vars
  PROVE  TypeOK'
<1> USE DEF Goto, EndProcess, Hook, At, Alive, HookPoints
<1>1. CASE UNCHANGED vars
  BY <1>1, StepPlace, StepFlags
    DEF vars, depths, objects, handler, TypeOK
<1>2. CASE CreateReporter \/ CreateProfiler
  BY <1>2, StepPlace, StepFlags
    DEF CreateReporter, CreateProfiler, depths, objects, handler, TypeOK
<1>3. CASE LeaveUser
  BY <1>3, StepPlace, StepFlags, SignalAssumption
    DEF LeaveUser, depths, objects, handler, TypeOK, Places
<1>4. CASE Stack
  BY <1>4, StepPlace, StepFlags
    DEF Stack, depths, objects, handler, TypeOK
<1>5. CASE SetProbing
  BY <1>5, StepPlace, StepFlags
    DEF SetProbing, depths, objects, handler, TypeOK
<1>6. CASE CallProfiler
  BY <1>6, StepPlace, StepFlags
    DEF CallProfiler, depths, objects, handler, TypeOK
<1>7. CASE CheckStop \/ ExecutionFinalize \/ RequestShutdownOff
  BY <1>7, StepPlace, StepFlags
    DEF CheckStop, ExecutionFinalize, RequestShutdownOff, depths, objects,
        handler, TypeOK
<1>8. CASE Finalize \/ Destroy \/ ProfilerNull
  BY <1>8, StepPlace, StepFlags
    DEF Finalize, Destroy, ProfilerNull, depths, objects, handler, TypeOK
<1>9. CASE CloseReporter \/ ReporterNull \/ Uninstall \/ HandlerNull \/ Exit
  BY <1>9, StepPlace, StepFlags
    DEF CloseReporter, ReporterNull, Uninstall, HandlerNull, Exit, depths,
        objects, handler, TypeOK
<1>10. CASE CallUser
  BY <1>10, StepPlace, StepFlags, SignalAssumption
    DEF CallUser, depths, objects, handler, TypeOK
<1>11. CASE ReturnUser \/ EndRequest
  BY <1>11, StepPlace, StepFlags
    DEF ReturnUser, EndRequest, depths, objects, handler, TypeOK
<1>12. CASE Signal
  <2>1. /\ handler_called' \in 0 .. MaxSignals /\ signals' \in 0 .. MaxSignals
    BY <1>12, SignalAssumption DEF Signal, TypeOK, Counts
  <2>2. caught' \in [at : Points \cup {"none"}, in_shutdown : BOOLEAN]
    BY <1>12 DEF Signal, TypeOK
  <2> QED
    BY <1>12, <2>1, <2>2, StepPlace, StepFlags
    DEF Signal, depths, objects, TypeOK
<1> QED
  BY <1>1, <1>2, <1>3, <1>4, <1>5, <1>6, <1>7, <1>8, <1>9, <1>10, <1>11, <1>12
    DEF Next, Proceed

\* Probing is raised before the profiler is called, and a signal that finds it
\* raised leaves the hook where it is.
LEMMA StepGuarded ==
  ASSUME TypeOK, Guarded, [Next]_vars
  PROVE  Guarded'
<1> USE DEF Goto, EndProcess, Hook, At, Alive, Guarded
<1>1. CASE UNCHANGED vars
  BY <1>1 DEF vars, handler
<1>2. CASE CreateReporter \/ CreateProfiler \/ LeaveUser
  BY <1>2 DEF CreateReporter, CreateProfiler, LeaveUser
<1>3. CASE Stack
  BY <1>3 DEF Stack, TypeOK
<1>4. CASE SetProbing
  BY <1>4 DEF SetProbing
<1>5. CASE CallProfiler
  BY <1>5 DEF CallProfiler, handler
<1>6. CASE CheckStop \/ ExecutionFinalize \/ RequestShutdownOff
  BY <1>6 DEF CheckStop, ExecutionFinalize, RequestShutdownOff, TypeOK
<1>7. CASE Finalize \/ Destroy \/ ProfilerNull \/ CloseReporter \/ ReporterNull
  BY <1>7 DEF Finalize, Destroy, ProfilerNull, CloseReporter, ReporterNull
<1>8. CASE Uninstall \/ HandlerNull \/ Exit
  BY <1>8 DEF Uninstall, HandlerNull, Exit
<1>9. CASE CallUser \/ ReturnUser \/ EndRequest
  BY <1>9 DEF CallUser, ReturnUser, EndRequest
<1>10. CASE Signal
  BY <1>10 DEF Signal
<1> QED
  BY <1>1, <1>2, <1>3, <1>4, <1>5, <1>6, <1>7, <1>8, <1>9, <1>10
    DEF Next, Proceed

\* The places keep what they tell.
LEMMA StepPlaces ==
  ASSUME TypeOK, Places, [Next]_vars
  PROVE  Places'
<1> USE DEF Goto, EndProcess, Hook, At, Alive, Places, HookPoints
<1>1. CASE UNCHANGED vars
  BY <1>1 DEF vars, depths, objects
<1>2. CASE CreateReporter \/ CreateProfiler
  BY <1>2 DEF CreateReporter, CreateProfiler, depths
<1>3. CASE LeaveUser
  BY <1>3 DEF LeaveUser
<1>4. CASE Stack
  BY <1>4 DEF Stack, TypeOK
<1>5. CASE SetProbing
  BY <1>5 DEF SetProbing, depths, objects
<1>6. CASE CallProfiler
  BY <1>6 DEF CallProfiler
<1>7. CASE CheckStop \/ ExecutionFinalize \/ RequestShutdownOff
  BY <1>7 DEF CheckStop, ExecutionFinalize, RequestShutdownOff, TypeOK, depths
<1>8. CASE Finalize \/ Destroy \/ ProfilerNull
  BY <1>8 DEF Finalize, Destroy, ProfilerNull
<1>9. CASE CloseReporter \/ ReporterNull \/ Uninstall \/ HandlerNull \/ Exit
  BY <1>9 DEF CloseReporter, ReporterNull, Uninstall, HandlerNull, Exit,
              depths, objects
<1>10. CASE CallUser
  BY <1>10 DEF CallUser
<1>11. CASE ReturnUser \/ EndRequest
  BY <1>11 DEF ReturnUser, EndRequest, depths
<1>12. CASE Signal
  BY <1>12 DEF Signal, depths, objects
<1> QED
  BY <1>1, <1>2, <1>3, <1>4, <1>5, <1>6, <1>7, <1>8, <1>9, <1>10, <1>11, <1>12
    DEF Next, Proceed

\* Only a signal counts.
LEMMA StepCounts ==
  ASSUME TypeOK, Counts, [Next]_vars
  PROVE  Counts'
<1>1. CASE Signal
  <2>1. pc # "none"
    BY DEF TypeOK, Points, HookPoints, EndPoints
  <2>2. handler_called \in Int /\ signals \in Int
    BY DEF TypeOK
  <2>3. handler_called' <= signals'
    BY <1>1, <2>2 DEF Signal, Counts
  <2>4. ASSUME caught' = NotCaught PROVE handler_called' = 0
    BY <1>1, <2>1, <2>4 DEF Signal, Counts, NotCaught
  <2> QED
    BY <2>3, <2>4 DEF Counts
<1>2. CASE ~Signal
  <2>1. UNCHANGED <<handler_called, signals, caught>>
    BY <1>2 DEF Next, Proceed, vars, handler, CreateReporter, CreateProfiler,
                LeaveUser, Stack, SetProbing, CallProfiler, CheckStop,
                ExecutionFinalize, RequestShutdownOff, Finalize, Destroy,
                ProfilerNull, CloseReporter, ReporterNull, Uninstall,
                HandlerNull, Exit, CallUser, ReturnUser, EndRequest
  <2> QED
    BY <2>1 DEF Counts
<1> QED
  BY <1>1, <1>2

\* The depths agree again once the hook has told the profiler.
LEMMA StepDepths ==
  ASSUME TypeOK, Places, Counts, DepthsBook, [Next]_vars
  PROVE  DepthsBook'
<1> USE DEF Goto, EndProcess, Hook, At, Alive, DepthsBook
<1>0. call_stack \in Nat /\ traced \in Nat /\ hook.op \in {"before", "after"}
       /\ hook.then \in {"script", "leave", "request_shutdown_off"}
  BY DEF TypeOK
<1>1. CASE UNCHANGED vars
  BY <1>1 DEF vars, depths, objects
<1>2. CASE CreateReporter
  BY <1>2 DEF CreateReporter, depths
<1>3. CASE CreateProfiler
  BY <1>3 DEF CreateProfiler, depths, Places
<1>4. CASE LeaveUser
  BY <1>4 DEF LeaveUser, objects
<1>5. CASE Stack
  BY <1>0, <1>5 DEF Stack, objects, Notified
<1>6. CASE SetProbing
  BY <1>0, <1>6 DEF SetProbing, depths, objects
<1>7. CASE CallProfiler
  BY <1>0, <1>7 DEF CallProfiler, objects
<1>8. CASE CheckStop \/ ExecutionFinalize \/ RequestShutdownOff
  BY <1>0, <1>8 DEF CheckStop, ExecutionFinalize, RequestShutdownOff, depths, objects
<1>9. CASE Finalize \/ Destroy
  BY <1>9 DEF Finalize, Destroy
<1>10. CASE ProfilerNull
  BY <1>10 DEF ProfilerNull, Places
<1>11. CASE CloseReporter \/ ReporterNull
  BY <1>11 DEF CloseReporter, ReporterNull, depths
<1>12. CASE Uninstall \/ HandlerNull \/ Exit
  BY <1>12 DEF Uninstall, HandlerNull, Exit, depths, objects
<1>13. CASE CallUser
  BY <1>13 DEF CallUser, objects
<1>14. CASE ReturnUser \/ EndRequest
  BY <1>14 DEF ReturnUser, EndRequest, depths, objects
<1>15. CASE Signal
  <2>1. pc # "none"
    BY DEF TypeOK, Points, HookPoints, EndPoints
  <2>2. CASE installed
    BY <1>15, <2>1, <2>2 DEF Signal, Counts, NotCaught
  <2>3. CASE ~installed
    BY <1>15, <2>3 DEF Signal, depths, objects
  <2> QED
    BY <2>2, <2>3
<1> QED
  BY <1>1, <1>2, <1>3, <1>4, <1>5, <1>6, <1>7, <1>8, <1>9, <1>10, <1>11, <1>12,
     <1>13, <1>14, <1>15 DEF Next, Proceed

-----------------------------------------------------------------------------
(* The theorems. *)

\* The invariant holds of the process from the handler's installation on.
THEOREM Invariance == Spec => []IInv
<1>1. IInv /\ [Next]_vars => IInv'
  BY StepType, StepGuarded, StepPlaces, StepCounts, StepDepths DEF IInv
<1> QED
  BY <1>1, InitIInv, PTL DEF Spec

\* The process's state keeps its types, whatever signals come where.
THEOREM TypeCorrect == Spec => []TypeOK
BY Invariance, PTL DEF IInv

\* However many signals come, the hook's call of the profiler and the lowering of
\* probing after it go through before the profile is terminated.
THEOREM ProfilerIsAtomic == Spec => ProfilerIsNotInterrupted
<1>1. ASSUME IInv, [Next]_vars
      PROVE  /\ At("call") => pc' \in {"call", "lower"}
             /\ At("lower") => pc' \in {"lower", "check"}
  <2> USE DEF Goto, EndProcess, At, Alive
  <2>1. CASE Signal
    BY <1>1, <2>1 DEF Signal, Terminates, IInv, Guarded
  <2>2. CASE ~Signal
    BY <1>1, <2>2 DEF Next, Proceed, vars, CreateReporter, CreateProfiler,
         LeaveUser, Stack, SetProbing, CallProfiler, CheckStop,
         ExecutionFinalize, RequestShutdownOff, Finalize, Destroy,
         ProfilerNull, CloseReporter, ReporterNull, Uninstall,
         HandlerNull, Exit, CallUser, ReturnUser, EndRequest
  <2> QED
    BY <2>1, <2>2
<1> QED
  BY <1>1, Invariance, PTL DEF Spec, ProfilerIsNotInterrupted

\* In a process no signal was caught in, the tracer has the calls of the call
\* stack open whenever the script runs and when the profile is finalized.
THEOREM DepthsAgree == Spec => []StacksAgree
<1>1. IInv => StacksAgree
  BY DEF IInv, DepthsBook, StacksAgree
<1> QED
  BY <1>1, Invariance, PTL

-----------------------------------------------------------------------------
(* The report of a script that is aborted. *)

\* No signal was caught, or the first one was in the script, before its shutdown.
Aborted == ~caught.in_shutdown /\ caught.at \notin EndPoints \cup {"reporter", "profiler"}

\* Past a signal that was caught the script does not go on: what is left of the
\* hook in the profiler runs to its check, then the profile is terminated.
CaughtBook ==
  /\ caught # NotCaught => handler_called > 0
  /\ stop => caught # NotCaught
  /\ Alive /\ caught = NotCaught /\ probing => pc \in {"call", "lower"}
  /\ Alive /\ Aborted /\ caught # NotCaught =>
       /\ pc \in {"call", "lower", "check"} \cup EndPoints
       /\ pc \in {"call", "lower", "check"} => stop
       /\ ~request_shutdown

ShutdownCall == IF request_shutdown /\ Builtins THEN 1 ELSE 0

\* Until then the call stack has the user functions and the request shutdown,
\* but for what a hook is about to push or a user function that is yet to leave.
CallsBook ==
  Alive /\ caught = NotCaught =>
    /\ pc \in {"reporter", "profiler"} => user_depth = 0 /\ ~request_shutdown
    /\ pc = "script" => call_stack = user_depth + ShutdownCall
    /\ pc = "leave" => call_stack + 1 = user_depth + ShutdownCall
    /\ pc = "execution_finalize" => call_stack >= ShutdownCall
    /\ pc \in HookPoints /\ hook.then = "script" =>
         /\ hook.op = "before"
         /\ IF pc = "stack" THEN call_stack + 1 = user_depth + ShutdownCall
                            ELSE call_stack = user_depth + ShutdownCall
    /\ pc \in HookPoints /\ hook.then = "leave" =>
         /\ hook.op = "after"
         /\ IF pc = "stack" THEN call_stack = user_depth + ShutdownCall
                            ELSE call_stack + 1 = user_depth + ShutdownCall
    /\ pc \in HookPoints /\ hook.then = "request_shutdown_off" =>
         /\ hook.op = "after" /\ request_shutdown
         /\ pc = "stack" => call_stack > 0

\* A return that the profiler is told of is of a call it has open.
ReturnsOpen == Alive /\ Aborted /\ pc = "call" /\ hook.op = "after" => traced > 0

\* How far the report and the profiler are, at each place.
Stages ==
  Aborted =>
    /\ ~Alive => Whole
    /\ Alive =>
         /\ pc = "reporter" =>
              profiler = "null" /\ tracer = "none" /\ finalized = 0
         /\ pc = "profiler" =>
              profiler = "null" /\ tracer = "none" /\ reporter = "open" /\ finalized = 0
         /\ pc \in {"script", "leave", "execution_finalize", "request_shutdown_off",
                    "finalize"} \cup HookPoints =>
              profiler = "set" /\ tracer = "tracing" /\ reporter = "open" /\ finalized = 0
         /\ pc = "destroy" =>
              profiler = "set" /\ tracer = "finalized" /\ reporter = "open" /\ finalized = 1
         /\ pc \in {"profiler_null", "close"} =>
              tracer = "freed" /\ reporter = "open" /\ finalized = 1
         /\ pc = "reporter_null" => tracer = "freed" /\ finalized = 1
         /\ pc \in {"uninstall", "handler_null", "exit"} => Whole
         /\ ~installed => pc \in {"handler_null", "exit"}

\* What the steps preserve together.
AInv == CaughtBook /\ CallsBook /\ ReturnsOpen /\ Stages

\* The book starts empty.
LEMMA InitAInv == Init => AInv
<1> SUFFICES ASSUME Init PROVE AInv
  OBVIOUS
<1> USE DEF Init, Alive, HookPoints, EndPoints
<1>1. CaughtBook
  BY DEF CaughtBook
<1>2. CallsBook
  BY DEF CallsBook
<1>3. ReturnsOpen
  BY DEF ReturnsOpen
<1>4. Stages
  BY DEF Stages
<1> QED
  BY <1>1, <1>2, <1>3, <1>4 DEF AInv

\* But for a signal, what was caught stays as it is.
LEMMA OnlySignalCatches ==
  ASSUME [Next]_vars, ~Signal
  PROVE  UNCHANGED <<caught, stop, signals, handler_called>>
BY DEF Next, Proceed, vars, handler, CreateReporter, CreateProfiler, LeaveUser,
       Stack, SetProbing, CallProfiler, CheckStop, ExecutionFinalize,
       RequestShutdownOff, Finalize, Destroy, ProfilerNull, CloseReporter,
       ReporterNull, Uninstall, HandlerNull, Exit, CallUser, ReturnUser, EndRequest

\* A first signal that leaves the profile to be terminated, and any other.
LEMMA SignalCaught ==
  ASSUME IInv, AInv, Signal, Aborted'
  PROVE  /\ Aborted
         /\ UNCHANGED <<hook, depths, request_shutdown, objects, installed, probing>>
         /\ \/ /\ caught = NotCaught /\ installed /\ caught' # NotCaught
               /\ ~request_shutdown /\ exit' = "no"
               /\ pc \in {"script", "leave"} \cup HookPoints
               /\ \/ pc \in {"call", "lower"} /\ pc' = pc /\ stop'
                  \/ pc \notin {"call", "lower"} /\ pc' = "execution_finalize"
            \/ /\ caught' = caught
               /\ \/ ~installed /\ exit' # "no"
                  \/ /\ installed /\ exit' = "no" /\ pc' = pc
                     /\ caught # NotCaught /\ (stop => stop')
<1>1. /\ Alive
      /\ UNCHANGED <<hook, depths, request_shutdown, objects, installed, probing>>
      /\ pc \in Points /\ pc # "none"
      /\ handler_called \in Nat
      /\ caught = NotCaught => handler_called = 0
  BY DEF Signal, IInv, TypeOK, Points, HookPoints, EndPoints, Counts
<1>2. caught # NotCaught => handler_called > 0
  BY DEF AInv, CaughtBook
<1>3. CASE handler_called = 0 /\ installed
  <2>1. caught' = [at |-> pc, in_shutdown |-> request_shutdown]
    BY <1>3 DEF Signal
  <2>2. caught'.at = pc /\ (caught'.in_shutdown <=> request_shutdown)
    BY <2>1
  <2>3. ~request_shutdown /\ pc \notin EndPoints \cup {"reporter", "profiler"}
    BY <2>2 DEF Aborted
  <2>4. pc \in {"script", "leave"} \cup HookPoints
    BY <1>1, <2>3 DEF Points
  <2>5. caught = NotCaught /\ caught' # NotCaught
    BY <1>1, <1>2, <1>3, <2>1 DEF NotCaught
  <2>6. Aborted
    BY <2>5 DEF Aborted, NotCaught, EndPoints
  <2>7. /\ exit' = "no"
        /\ pc' = IF Terminates THEN "execution_finalize" ELSE pc
        /\ stop' = (stop \/ probing)
    BY <1>1, <1>3 DEF Signal, Goto, Alive
  <2>8. Terminates <=> ~probing
    BY <1>3 DEF Terminates
  <2>9. probing <=> pc \in {"call", "lower"}
    BY <1>1, <2>5 DEF IInv, Guarded, AInv, CaughtBook
  <2> QED
    BY <1>1, <1>3, <2>3, <2>4, <2>5, <2>6, <2>7, <2>8, <2>9
<1>4. CASE handler_called > 0 /\ installed
  <2>1. caught # NotCaught /\ handler_called # 0
    BY <1>1, <1>4
  <2>2. caught' = caught /\ ~Terminates
    BY <1>4, <2>1 DEF Signal, Terminates
  <2>3. exit' = "no" /\ pc' = pc
    BY <1>1, <1>4, <2>2 DEF Signal, Goto, Alive
  <2>5. stop => stop'
    BY DEF Signal
  <2>4. Aborted
    BY <2>2 DEF Aborted
  <2> QED
    BY <1>1, <1>4, <2>1, <2>2, <2>3, <2>4, <2>5
<1>5. CASE ~installed
  <2>1. caught' = caught /\ exit' = "killed"
    BY <1>5 DEF Signal, EndProcess
  <2>2. Aborted
    BY <2>1 DEF Aborted
  <2> QED
    BY <1>1, <1>5, <2>1, <2>2
<1> QED
  BY <1>1, <1>3, <1>4, <1>5

\* After a signal only the way to the end is left.
LEMMA KeepsCaughtBook ==
  ASSUME IInv, AInv, [Next]_vars
  PROVE  CaughtBook'
<1> USE DEF CaughtBook
<1>1. pc \in Points
  BY DEF IInv, TypeOK
<1>2. CASE Signal
  <2>1. Alive /\ handler_called \in Nat /\ handler_called' \in Nat
        /\ handler_called <= handler_called' /\ UNCHANGED <<installed, probing>>
        /\ (caught' # caught => handler_called' > 0)
    BY <1>2 DEF Signal, IInv, TypeOK
  <2>2. caught' # NotCaught => handler_called' > 0
    BY <2>1 DEF AInv
  <2>3. ASSUME Alive', caught' = NotCaught, probing' PROVE pc' \in {"call", "lower"}
    <3>1. Aborted'
      BY <2>3 DEF Aborted, NotCaught, EndPoints
    <3> QED
      BY <1>2, <2>1, <2>3, <3>1, SignalCaught DEF Alive
  <2>4. ASSUME Alive', Aborted', caught' # NotCaught
        PROVE  /\ pc' \in {"call", "lower", "check"} \cup EndPoints
               /\ pc' \in {"call", "lower", "check"} => stop'
               /\ ~request_shutdown'
    BY <1>2, <2>1, <2>4, SignalCaught DEF AInv, Alive, EndPoints
  <2>5. ASSUME caught' = NotCaught PROVE ~stop'
    <3>1. Aborted'
      BY <2>5 DEF Aborted, NotCaught, EndPoints
    <3>2. caught = NotCaught /\ ~installed
      BY <1>2, <2>5, <3>1, SignalCaught
    <3> QED
      BY <1>2, <3>2 DEF Signal, AInv
  <2> QED
    BY <2>2, <2>3, <2>4, <2>5
<1>3. CASE ~Signal
  <2>1. UNCHANGED <<caught, stop, handler_called>> /\ (Aborted' <=> Aborted)
    BY <1>3, OnlySignalCatches DEF Aborted
  <2> USE DEF Goto, EndProcess, At, Alive, HookPoints, EndPoints, AInv, handler
  <2>2. CASE CreateReporter \/ CreateProfiler \/ CallUser \/ ReturnUser \/ EndRequest
             \/ LeaveUser
    BY <2>1, <2>2 DEF CreateReporter, CreateProfiler, CallUser, ReturnUser, EndRequest,
                      LeaveUser
  <2>3. CASE Stack \/ SetProbing \/ CallProfiler \/ CheckStop
    BY <2>1, <2>3 DEF Stack, SetProbing, CallProfiler, CheckStop
  <2>4. CASE ExecutionFinalize \/ RequestShutdownOff \/ Finalize \/ Destroy \/ ProfilerNull
    BY <2>1, <2>4 DEF ExecutionFinalize, RequestShutdownOff, Finalize, Destroy, ProfilerNull
  <2>5. CASE CloseReporter \/ ReporterNull \/ Uninstall \/ HandlerNull \/ Exit
    BY <2>1, <2>5 DEF CloseReporter, ReporterNull, Uninstall, HandlerNull, Exit
  <2>6. CASE UNCHANGED vars
    BY <2>1, <2>6 DEF vars
  <2> QED
    BY <1>3, <2>2, <2>3, <2>4, <2>5, <2>6 DEF Next, Proceed
<1> QED
  BY <1>2, <1>3

\* Every push and pop of a hook is of a call that begins or is left.
LEMMA KeepsCallsBook ==
  ASSUME IInv, AInv, [Next]_vars
  PROVE  CallsBook'
<1> USE DEF CallsBook
<1>1. /\ pc \in Points /\ hook.op \in {"before", "after"}
      /\ hook.then \in {"script", "leave", "request_shutdown_off"}
      /\ user_depth \in Nat /\ call_stack \in Nat
      /\ ShutdownCall \in {0, 1} /\ CallsBook
      /\ pc \in {"reporter", "profiler"} => call_stack = 0
      /\ pc = "leave" => user_depth > 0
      /\ pc \in HookPoints /\ hook.then = "leave" => user_depth > 0
  BY SignalAssumption DEF IInv, AInv, TypeOK, Places, ShutdownCall
<1>2. CASE Signal
  <2> SUFFICES ASSUME Alive', caught' = NotCaught PROVE CallsBook'
    OBVIOUS
  <2>1. Aborted'
    BY DEF Aborted, NotCaught, EndPoints
  <2> QED
    BY <1>2, <2>1, SignalCaught DEF Alive
<1>3. CASE ~Signal
  <2>1. caught' = caught
    BY <1>3, OnlySignalCatches
  <2> USE DEF Goto, EndProcess, At, Alive, HookPoints, EndPoints, Hook, depths
  <2>2. CASE CreateReporter \/ CreateProfiler
    BY <1>1, <2>1, <2>2 DEF CreateReporter, CreateProfiler, ShutdownCall
  <2>3. CASE CallUser
    BY <1>1, <2>1, <2>3 DEF CallUser, ShutdownCall
  <2>4. CASE ReturnUser \/ EndRequest
    BY <1>1, <2>1, <2>4 DEF ReturnUser, EndRequest, ShutdownCall
  <2>5. CASE LeaveUser
    BY <1>1, <2>1, <2>5 DEF LeaveUser, ShutdownCall
  <2>6. CASE Stack
    BY <1>1, <2>1, <2>6 DEF Stack, ShutdownCall
  <2>7. CASE SetProbing
    <3>1. UNCHANGED <<hook, user_depth, call_stack, request_shutdown>>
          /\ pc \in {"raise", "lower"} /\ pc' \in {"call", "check"}
      BY <2>7 DEF SetProbing
    <3> QED
      BY <1>1, <2>1, <2>7, <3>1 DEF SetProbing, ShutdownCall
  <2>13. CASE CallProfiler
    <3>1. UNCHANGED <<hook, user_depth, call_stack, request_shutdown>>
          /\ pc = "call" /\ (Alive' => pc' = "lower")
      BY <2>13 DEF CallProfiler
    <3> QED
      BY <1>1, <2>1, <2>13, <3>1 DEF CallProfiler, ShutdownCall
  <2>8. CASE CheckStop
    <3>1. UNCHANGED <<hook, user_depth, call_stack, request_shutdown, exit>>
          /\ pc = "check" /\ (~stop => pc' = hook.then)
      BY <2>8 DEF CheckStop
    <3>2. caught = NotCaught => ~stop
      BY DEF AInv, CaughtBook
    <3> QED
      BY <1>1, <2>1, <3>1, <3>2 DEF ShutdownCall
  <2>9. CASE ExecutionFinalize
    BY <1>1, <2>1, <2>9 DEF ExecutionFinalize, ShutdownCall
  <2>10. CASE RequestShutdownOff \/ Finalize \/ Destroy \/ ProfilerNull
    BY <2>1, <2>10 DEF RequestShutdownOff, Finalize, Destroy, ProfilerNull
  <2>11. CASE CloseReporter \/ ReporterNull \/ Uninstall \/ HandlerNull \/ Exit
    BY <2>1, <2>11 DEF CloseReporter, ReporterNull, Uninstall, HandlerNull, Exit
  <2>12. CASE UNCHANGED vars
    BY <1>1, <2>1, <2>12 DEF vars, ShutdownCall
  <2> QED
    BY <1>3, <2>2, <2>3, <2>4, <2>5, <2>6, <2>7, <2>8, <2>9, <2>10, <2>11, <2>12,
       <2>13
    DEF Next, Proceed
<1> QED
  BY <1>2, <1>3
\* The profiler is told of a return before any signal, so of one that it has open.
LEMMA KeepsReturnsOpen ==
  ASSUME IInv, AInv, [Next]_vars
  PROVE  ReturnsOpen'
<1> SUFFICES ASSUME Alive', Aborted', pc' = "call", hook'.op = "after"
             PROVE  traced' > 0
  BY DEF ReturnsOpen
<1>1. CASE Signal
  <2>1. UNCHANGED <<pc, hook, traced>> /\ Alive /\ Aborted
    BY <1>1, SignalCaught DEF Alive, depths, Signal
  <2> QED
    BY <2>1 DEF AInv, ReturnsOpen
<1>2. CASE ~Signal
  <2>1. caught' = caught /\ Aborted
    BY <1>2, OnlySignalCatches DEF Aborted
  <2>2. CASE SetProbing
    <3>1. Alive /\ pc = "raise" /\ UNCHANGED <<hook, traced>>
      BY <2>2 DEF SetProbing, At, Goto, depths
    <3>2. caught = NotCaught
      BY <2>1, <3>1 DEF AInv, CaughtBook, EndPoints
    <3>3. tracer = "tracing"
      BY <2>1, <3>1 DEF AInv, Stages, HookPoints
    <3> QED
      BY <3>1, <3>2, <3>3 DEF IInv, DepthsBook, TypeOK
  <2>3. CASE UNCHANGED vars
    BY <2>1, <2>3 DEF vars, depths, AInv, ReturnsOpen, Alive
  <2>4. CASE ~SetProbing /\ ~UNCHANGED vars
    BY <1>2, <2>4
      DEF Next, Proceed, CreateReporter, CreateProfiler, LeaveUser, Stack,
          CallProfiler, CheckStop, ExecutionFinalize, RequestShutdownOff, Finalize,
          Destroy, ProfilerNull, CloseReporter, ReporterNull, Uninstall, HandlerNull,
          Exit, CallUser, ReturnUser, EndRequest, Goto, EndProcess, At, Alive,
          Notified, IInv, TypeOK
  <2> QED
    BY <2>2, <2>3, <2>4
<1> QED
  BY <1>1, <1>2

\* A signal changes no object, and never kills a process that is not done.
LEMMA SignalKeepsStages ==
  ASSUME IInv, AInv, Signal
  PROVE  Stages'
<1> SUFFICES ASSUME Aborted' PROVE Stages'
  BY DEF Stages
<1>1. Aborted /\ Alive /\ UNCHANGED <<objects, installed>> /\ Stages
  BY SignalCaught DEF AInv, Signal
<1>2. CASE ~installed
  <2>1. Whole /\ ~Alive'
    BY <1>1, <1>2, SignalCaught DEF Stages, Alive, Whole, objects
  <2> QED
    BY <1>1, <2>1 DEF Stages, Whole, objects
<1>3. CASE installed
  <2>1. /\ Alive'
        /\ \/ pc' = pc
           \/ pc \in {"script", "leave"} \cup HookPoints /\ pc' = "execution_finalize"
    BY <1>3, SignalCaught DEF Alive
  <2> QED
    BY <1>1, <1>3, <2>1 DEF Stages, Whole, objects, HookPoints
<1> QED
  BY <1>2, <1>3

\* No step ends a process that is not done, and each does its part of the report.
LEMMA KeepsStages ==
  ASSUME IInv, AInv, [Next]_vars
  PROVE  Stages'
<1>1. CASE Signal
  BY <1>1, SignalKeepsStages
<1>2. CASE ~Signal
  <2> SUFFICES ASSUME Aborted PROVE Stages'
    BY <1>2, OnlySignalCatches DEF Stages, Aborted
  <2>1. /\ caught' = caught /\ Aborted' /\ Stages
        /\ hook.then \in {"script", "leave", "request_shutdown_off"}
        /\ hook.op \in {"before", "after"} /\ call_stack \in Nat /\ traced \in Nat
        /\ pc \in Points
    BY <1>2, OnlySignalCatches DEF Aborted, AInv, IInv, TypeOK
  <2>2. Alive /\ pc = "stack" /\ hook.op = "after" => call_stack > 0
    <3> SUFFICES ASSUME Alive, pc = "stack", hook.op = "after" PROVE call_stack > 0
      OBVIOUS
    <3>1. caught = NotCaught
      BY DEF AInv, CaughtBook, EndPoints
    <3>2. CallsBook /\ Places /\ ShutdownCall \in Nat /\ user_depth \in Nat
      BY DEF AInv, IInv, TypeOK, ShutdownCall
    <3> QED
      BY <2>1, <3>1, <3>2 DEF CallsBook, Places, HookPoints
  <2>3. Alive /\ caught # NotCaught => pc \notin {"stack", "raise", "script", "leave"}
    BY DEF AInv, CaughtBook, EndPoints
  <2> USE DEF Goto, EndProcess, At, Alive, Stages, HookPoints, objects, handler
  <2>4. CASE CreateReporter \/ CreateProfiler
    BY <2>1, <2>4 DEF CreateReporter, CreateProfiler
  <2>5. CASE LeaveUser \/ CallUser \/ ReturnUser \/ EndRequest
    BY <2>1, <2>5 DEF LeaveUser, CallUser, ReturnUser, EndRequest
  <2>6. CASE Stack
    BY <2>1, <2>2, <2>6 DEF Stack, Notified
  <2>7. CASE SetProbing
    BY <2>1, <2>7 DEF SetProbing
  <2>8. CASE CallProfiler
    BY <2>1, <2>8 DEF CallProfiler, AInv, ReturnsOpen
  <2>9. CASE CheckStop
    BY <2>1, <2>9 DEF CheckStop
  <2>10. CASE ExecutionFinalize
    BY <2>1, <2>10 DEF ExecutionFinalize
  <2>11. CASE RequestShutdownOff
    BY <2>1, <2>11 DEF RequestShutdownOff
  <2>12. CASE Finalize
    BY <2>1, <2>12 DEF Finalize
  <2>13. CASE Destroy \/ ProfilerNull
    BY <2>1, <2>13 DEF Destroy, ProfilerNull
  <2>14. CASE CloseReporter \/ ReporterNull
    BY <2>1, <2>14 DEF CloseReporter, ReporterNull, Whole
  <2>15. CASE Uninstall \/ HandlerNull \/ Exit
    BY <2>1, <2>15 DEF Uninstall, HandlerNull, Exit, Whole, SignalStatus
  <2>16. CASE UNCHANGED vars
    BY <2>1, <2>16 DEF vars, Whole
  <2> QED
    BY <1>2, <2>4, <2>5, <2>6, <2>7, <2>8, <2>9, <2>10, <2>11, <2>12, <2>13, <2>14,
       <2>15, <2>16 DEF Next, Proceed
<1> QED
  BY <1>1, <1>2

\* A script that is left alone, or aborted before its shutdown, leaves one whole
\* report, whatever part of a hook the signal fell in and however many came.
THEOREM AbortedIsWhole == Spec => []AbortedReportIsWhole
<1>1. IInv /\ AInv /\ [Next]_vars => AInv'
  BY KeepsCaughtBook, KeepsCallsBook, KeepsReturnsOpen, KeepsStages DEF AInv
<1>2. AInv => AbortedReportIsWhole
  BY DEF AInv, Stages, Aborted, AbortedReportIsWhole
<1> QED
  BY <1>1, <1>2, Invariance, InitAInv, PTL DEF Spec
=============================================================================
