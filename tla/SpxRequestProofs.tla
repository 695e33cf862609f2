--------------------------- MODULE SpxRequestProofs ---------------------------
(***************************************************************************)
(* Proofs about SpxRequest, for any set of pointers that others have       *)
(* taken, any sizes of blocks, any settings and any requests, in builds    *)
(* that are thread safe and in those that are not.                         *)
(***************************************************************************)
EXTENDS SpxRequestReport, WellFoundedInduction, TLAPS

-----------------------------------------------------------------------------
(* The pointers and the heap.  They are either as SPX found them or taken, all *)
(* at once, and what is asked for decides which.                               *)

AllTaken == [p \in Pointers |-> "spx"]

Untouched == engine = original.engine /\ hooked = NothingHooked
TakenOver == engine = AllTaken /\ hooked = original.engine

HeapUntouched == heap = original.heap /\ heap_hooked = "null"
HeapTakenOver ==
  heap = "spx" /\ heap_hooked = IF original.heap = "none" THEN "ze_mm" ELSE original.heap

PointersKept ==
  /\ Untouched \/ TakenOver
  /\ process = "off" => Untouched
  /\ IF ZTS THEN process # "off" => TakenOver ELSE handler = "none" => Untouched
  /\ handler = "ui" => TakenOver

HeapKept ==
  /\ HeapUntouched \/ HeapTakenOver
  /\ handler = "none" => HeapUntouched

HooksKept ==
  /\ hooks \in [enabled : BOOLEAN, disabled : BOOLEAN]
  /\ hooks.disabled <=> handler = "ui"
  /\ handler = "ui" => hooks.enabled

HandlerKept ==
  /\ original \in [engine : Originals, heap : {"none", "other"}]
  /\ process \in {"off", "idle", "request"}
  /\ handler \in {"none", "ui", "profiling"}
  /\ process # "request" => handler = "none"

Kept == HandlerKept /\ PointersKept /\ HeapKept /\ HooksKept

LEMMA InitKept == Init => Kept
  BY DEF Init, ExecutionInit, Kept, HandlerKept, PointersKept, HeapKept, HooksKept,
         Untouched, HeapUntouched, Unused

\* What the engine does leaves alone what SPX has placed.
LEMMA EngineLeavesPlaces ==
  ASSUME EngineRuns \/ EngineAllocates
  PROVE  UNCHANGED <<process, deciding, placing, hooks>>
<1>1. CASE EngineAllocates
  BY <1>1 DEF EngineAllocates
<1>2. CASE EngineRuns
  <2>1. CASE handler = "profiling" /\ ReadUserland
    BY <1>2, <2>1 DEF EngineRuns, ReadUserland
  <2>2. CASE Execute
    BY <1>2, <2>2 DEF EngineRuns, Execute, Declare, Compile, RaiseError, Free, Malloc,
                      ReallocStays, ReallocMoves
  <2> QED
    BY <1>2, <2>1, <2>2 DEF EngineRuns
<1> QED
  BY <1>1, <1>2

\* Giving back what was taken leaves the engine as it was found, and giving back
\* what was not taken changes nothing.
LEMMA UnsetRestores ==
  ASSUME HandlerKept, Untouched \/ TakenOver, UnsetGlobalHooks, UNCHANGED original
  PROVE  Untouched'
<1>1. original.engine \in Originals
  BY DEF HandlerKept
<1>2. PICK taken \in Taken :
        original.engine = [p \in Pointers |-> IF p \in taken THEN "other" ELSE "engine"]
  BY <1>1 DEF Originals
<1>3. CASE Untouched
  <2>1. \A p \in Pointers : GivenBack(p) = original.engine[p]
    BY <1>3 DEF Untouched, GivenBack, NothingHooked
  <2> QED
    BY <1>2, <2>1 DEF UnsetGlobalHooks, Untouched
<1>4. CASE TakenOver
  <2>1. \A p \in Pointers : GivenBack(p) = original.engine[p]
    BY <1>2, <1>4 DEF TakenOver, GivenBack
  <2> QED
    BY <1>2, <2>1 DEF UnsetGlobalHooks, Untouched
<1> QED
  BY <1>3, <1>4

LEMMA UnhookRestores ==
  ASSUME HandlerKept, HeapUntouched \/ HeapTakenOver, UnhookHeap, UNCHANGED original
  PROVE  HeapUntouched'
  BY DEF HandlerKept, HeapUntouched, HeapTakenOver, UnhookHeap, HeapBefore

\* A request that is engaged has taken over all there is.
LEMMA EngageKeeps ==
  ASSUME Kept, process = "idle", process' = "request", UNCHANGED original,
         handler' \in {"ui", "profiling"}, Engage(handler')
  PROVE  Kept'
<1>1. handler = "none" /\ HeapUntouched
  BY DEF Kept, HandlerKept, HeapKept
<1>2. HeapTakenOver'
  BY <1>1 DEF Engage, HookHeap, HeapUntouched, HeapTakenOver, Kept, HandlerKept
<1>3. TakenOver'
  <2>1. CASE ZTS
    BY <2>1 DEF Kept, PointersKept, Engage, TakenOver
  <2>2. CASE ~ZTS
    BY <1>1, <2>2 DEF Kept, PointersKept, Untouched, Engage, SetGlobalHooks, TakenOver, AllTaken
  <2> QED
    BY <2>1, <2>2
<1>4. HooksKept'
  BY DEF Engage, Reset, HooksKept
<1>5. HandlerKept'
  BY DEF Kept, HandlerKept
<1> QED
  BY <1>2, <1>3, <1>4, <1>5 DEF Kept, PointersKept, HeapKept

LEMMA AbstainKeeps ==
  ASSUME Kept, process = "idle", process' = "request", UNCHANGED original,
         handler' \in {"none", "profiling"}, Abstain
  PROVE  Kept'
<1>1. handler = "none"
  BY DEF Kept, HandlerKept
<1>2. HooksKept'
  BY <1>1, RequestAssumption DEF Kept, HooksKept, Abstain, PassThrough
<1>3. UNCHANGED <<engine, hooked, heap, heap_hooked>>
  BY DEF Abstain, placing
<1>4. PointersKept' /\ HeapKept'
  BY <1>1, <1>3 DEF Kept, PointersKept, HeapKept, Untouched, TakenOver, HeapUntouched, HeapTakenOver
<1> QED
  BY <1>2, <1>4 DEF Kept, HandlerKept

LEMMA BeginKeeps ==
  ASSUME Kept, NEW r, NEW c, NEW able \in BOOLEAN, Begin(r, c, able)
  PROVE  Kept'
<1>1. /\ process = "idle" /\ process' = "request" /\ UNCHANGED original
      /\ handler' \in {"none", "ui", "profiling"}
  BY DEF Begin, HandlerFor
<1>2. \/ handler' \in {"ui", "profiling"} /\ Engage(handler')
      \/ handler' \in {"none", "profiling"} /\ Abstain
  BY <1>1 DEF Begin
<1> QED
  BY <1>1, <1>2, EngageKeeps, AbstainKeeps

LEMMA NextKeeps == Kept /\ [Next]_vars => Kept'
<1> SUFFICES ASSUME Kept, [Next]_vars PROVE Kept'
  OBVIOUS
<1>1. CASE ModuleInit
  <2>1. handler = "none" /\ UNCHANGED <<handler, original, heap, heap_hooked, hooks>>
    BY <1>1 DEF ModuleInit, deciding, Kept, HandlerKept
  <2>2. CASE ZTS
    BY <1>1, <2>1, <2>2 DEF ModuleInit, SetGlobalHooks, Kept, HandlerKept, PointersKept, HeapKept,
       HooksKept, Untouched, TakenOver, HeapUntouched, HeapTakenOver, AllTaken
  <2>3. CASE ~ZTS
    BY <1>1, <2>1, <2>3 DEF ModuleInit, Kept, HandlerKept, PointersKept, HeapKept, HooksKept,
       Untouched, TakenOver, HeapUntouched, HeapTakenOver
  <2> QED
    BY <2>2, <2>3
<1>2. CASE ModuleShutdown
  <2>1. handler = "none" /\ UNCHANGED <<handler, original, heap, heap_hooked, hooks>>
    BY <1>2 DEF ModuleShutdown, deciding, Kept, HandlerKept
  <2>2. Untouched'
    <3>1. CASE ZTS
      BY <1>2, <2>1, <3>1, UnsetRestores DEF ModuleShutdown, Kept, PointersKept
    <3>2. CASE ~ZTS
      BY <1>2, <2>1, <3>2 DEF ModuleShutdown, Kept, PointersKept, Untouched
    <3> QED
      BY <3>1, <3>2
  <2>3. process' = "off"
    BY <1>2 DEF ModuleShutdown
  <2> QED
    BY <2>1, <2>2, <2>3 DEF Kept, HandlerKept, PointersKept, HeapKept, HooksKept, HeapUntouched,
       HeapTakenOver
<1>3. CASE RequestInitCli
  BY <1>3, BeginKeeps DEF RequestInitCli
<1>4. CASE RequestInitHttp
  BY <1>4, BeginKeeps DEF RequestInitHttp
<1>5. CASE EngineRuns \/ EngineAllocates
  BY <1>5, EngineLeavesPlaces DEF deciding, placing, Kept, HandlerKept, PointersKept, HeapKept,
     HooksKept, Untouched, TakenOver, HeapUntouched, HeapTakenOver
<1>6. CASE RequestShutdown
  <2>1. process' = "idle" /\ handler' = "none" /\ UNCHANGED original /\ process = "request"
    BY <1>6 DEF RequestShutdown
  <2>2. HandlerKept'
    BY <2>1 DEF Kept, HandlerKept
  <2>3. HeapUntouched'
    <3>1. CASE handler = "none"
      BY <1>6, <2>1, <3>1 DEF RequestShutdown, placing, Kept, HeapKept, HeapUntouched
    <3>2. CASE handler # "none"
      BY <1>6, <2>1, <3>2, UnhookRestores DEF RequestShutdown, Kept, HeapKept
    <3> QED
      BY <3>1, <3>2
  <2>4. HooksKept'
    <3>1. CASE handler = "none"
      BY <1>6, <2>1, <3>1, RequestAssumption DEF RequestShutdown, PassThrough, Kept, HooksKept
    <3>2. CASE handler # "none"
      BY <1>6, <2>1, <3>2, RequestAssumption DEF RequestShutdown, Reset, HooksKept
    <3> QED
      BY <3>1, <3>2
  <2>5. CASE handler = "none"
    BY <1>6, <2>1, <2>2, <2>3, <2>4, <2>5 DEF RequestShutdown, placing, Kept, PointersKept, HeapKept,
       Untouched, TakenOver
  <2>6. CASE handler # "none" /\ ZTS
    BY <1>6, <2>1, <2>2, <2>3, <2>4, <2>6 DEF RequestShutdown, Kept, PointersKept, HeapKept,
       Untouched, TakenOver
  <2>7. CASE handler # "none" /\ ~ZTS
    <3>1. Untouched'
      BY <1>6, <2>1, <2>7, UnsetRestores DEF RequestShutdown, Kept, PointersKept
    <3> QED
      BY <2>1, <2>2, <2>3, <2>4, <2>7, <3>1 DEF Kept, PointersKept, HeapKept
  <2> QED
    BY <2>5, <2>6, <2>7
<1>7. CASE UNCHANGED vars
  BY <1>7 DEF vars, deciding, execution, placing, Kept, HandlerKept, PointersKept, HeapKept,
     HooksKept, Untouched, TakenOver, HeapUntouched, HeapTakenOver
<1> QED
  BY <1>1, <1>2, <1>3, <1>4, <1>5, <1>6, <1>7 DEF Next

THEOREM KeptInvariance == Spec => []Kept
<1> QED
  BY InitKept, NextKeeps, PTL DEF Spec

\* Whatever requests come, in any order and with any settings, the engine's calls
\* end where they did before SPX, and all that was taken is given back.
THEOREM EngineAlwaysGivenBack == Spec => []EngineIsGivenBack
<1>1. Kept => EngineIsGivenBack
  <2> SUFFICES ASSUME Kept PROVE EngineIsGivenBack
    OBVIOUS
  <2>1. PICK taken \in Taken :
          original.engine = [p \in Pointers |-> IF p \in taken THEN "other" ELSE "engine"]
    BY DEF Kept, HandlerKept, Originals
  <2>2. \A p \in Pointers : Reaches(p) = original.engine[p]
    BY <2>1 DEF Kept, PointersKept, Untouched, TakenOver, AllTaken, Reaches
  <2>3. (IF heap = "spx" THEN heap_hooked ELSE IF heap = "none" THEN "ze_mm" ELSE heap)
          = (IF original.heap = "none" THEN "ze_mm" ELSE "other")
    BY DEF Kept, HandlerKept, HeapKept, HeapUntouched, HeapTakenOver
  <2>4. process # "request" => heap = original.heap
    BY DEF Kept, HandlerKept, HeapKept, HeapUntouched
  <2>5. /\ ~ZTS /\ process # "request" => engine = original.engine
        /\ process = "off" => engine = original.engine
    BY DEF Kept, HandlerKept, PointersKept, Untouched
  <2> QED
    BY <2>2, <2>3, <2>4, <2>5 DEF EngineIsGivenBack
<1> QED
  BY <1>1, KeptInvariance, PTL

\* A script is stopped by the web UI and by nothing else.
THEOREM ScriptRunsWithoutUi == Spec => []OnlyUiStopsScript
<1>1. Kept => OnlyUiStopsScript
  <2> SUFFICES ASSUME Kept, NEW p \in Pointers
               PROVE  Passes(p) <=> ~(process = "request" /\ handler = "ui")
    BY DEF OnlyUiStopsScript
  <2>1. handler = "ui" => engine[p] = "spx" /\ hooks.enabled /\ hooks.disabled
    BY DEF Kept, PointersKept, HooksKept, TakenOver, AllTaken
  <2>2. handler # "ui" => ~hooks.disabled
    BY DEF Kept, HooksKept
  <2> QED
    BY <2>1, <2>2 DEF Passes, Kept, HandlerKept
<1> QED
  BY <1>1, KeptInvariance, PTL

-----------------------------------------------------------------------------
(* What is counted.  The steps of the heap keep the books of the counters and  *)
(* of what is in use in agreement; a request begins with empty books.          *)

Counts == [alloc_count : Nat, alloc_bytes : Nat, free_count : Nat, free_bytes : Nat,
           files : Nat, lines : Nat, opcodes : Nat, errors : Nat,
           collecting : BOOLEAN, userland : Nat]

Since == [blocks : Int, bytes : Int, shrunk : Nat, overflowed : BOOLEAN, steps : Nat]

\* The counters c tell of the use s.
Agree(c, s) ==
  /\ c.alloc_count - c.free_count = s.blocks
  /\ heap_hooked = "ze_mm" /\ ~s.overflowed =>
       c.alloc_bytes - c.free_bytes = s.bytes + s.shrunk

SameBytes(c, d) ==
  /\ d.alloc_count = c.alloc_count /\ d.free_count = c.free_count
  /\ d.alloc_bytes = c.alloc_bytes /\ d.free_bytes = c.free_bytes

BlockType == Sizes \cup {0}

LEMMA BlockSizes ==
  ASSUME NEW size \in BlockType
  PROVE  size \in Nat /\ BlockSize(size) \in Nat /\ (heap_hooked = "ze_mm" => BlockSize(size) = size)
  BY ExecutionAssumption DEF BlockType, BlockSize

LEMMA AllocatedCounts ==
  ASSUME NEW c \in Counts, NEW size \in BlockType
  PROVE  /\ Allocated(c, size) \in Counts
         /\ Allocated(c, size).alloc_count = c.alloc_count + 1
         /\ Allocated(c, size).free_count = c.free_count
         /\ Allocated(c, size).alloc_bytes = c.alloc_bytes + BlockSize(size)
         /\ Allocated(c, size).free_bytes = c.free_bytes
<1> DEFINE n == BlockSize(size)
           d == [c EXCEPT !.alloc_count = c.alloc_count + 1]
<1>1. n \in Nat
  BY BlockSizes
<1>2. d \in Counts
  BY DEF Counts
<1>3. /\ d.alloc_count = c.alloc_count + 1 /\ d.free_count = c.free_count
      /\ d.alloc_bytes = c.alloc_bytes /\ d.free_bytes = c.free_bytes
  BY DEF Counts
<1>4. Allocated(c, size) = [d EXCEPT !.alloc_bytes = c.alloc_bytes + n]
  BY Zenon DEF Allocated
<1> HIDE DEF d, n
<1>5. [d EXCEPT !.alloc_bytes = c.alloc_bytes + n] \in Counts
  BY <1>1, <1>2 DEF Counts
<1>6. /\ [d EXCEPT !.alloc_bytes = c.alloc_bytes + n].alloc_bytes = c.alloc_bytes + n
      /\ [d EXCEPT !.alloc_bytes = c.alloc_bytes + n].alloc_count = d.alloc_count
      /\ [d EXCEPT !.alloc_bytes = c.alloc_bytes + n].free_count = d.free_count
      /\ [d EXCEPT !.alloc_bytes = c.alloc_bytes + n].free_bytes = d.free_bytes
  BY <1>1, <1>2 DEF Counts
<1> QED
  BY <1>3, <1>4, <1>5, <1>6 DEF n

LEMMA FreedCounts ==
  ASSUME NEW c \in Counts, NEW size \in BlockType
  PROVE  /\ Freed(c, size) \in Counts
         /\ Freed(c, size).alloc_count = c.alloc_count
         /\ Freed(c, size).free_count = c.free_count + 1
         /\ Freed(c, size).alloc_bytes = c.alloc_bytes
         /\ Freed(c, size).free_bytes = c.free_bytes + BlockSize(size)
<1> DEFINE n == BlockSize(size)
           d == [c EXCEPT !.free_count = c.free_count + 1]
<1>1. n \in Nat
  BY BlockSizes
<1>2. d \in Counts
  BY DEF Counts
<1>3. /\ d.free_count = c.free_count + 1 /\ d.alloc_count = c.alloc_count
      /\ d.free_bytes = c.free_bytes /\ d.alloc_bytes = c.alloc_bytes
  BY DEF Counts
<1>4. Freed(c, size) = [d EXCEPT !.free_bytes = c.free_bytes + n]
  BY Zenon DEF Freed
<1> HIDE DEF d, n
<1>5. [d EXCEPT !.free_bytes = c.free_bytes + n] \in Counts
  BY <1>1, <1>2 DEF Counts
<1>6. /\ [d EXCEPT !.free_bytes = c.free_bytes + n].free_bytes = c.free_bytes + n
      /\ [d EXCEPT !.free_bytes = c.free_bytes + n].free_count = d.free_count
      /\ [d EXCEPT !.free_bytes = c.free_bytes + n].alloc_count = d.alloc_count
      /\ [d EXCEPT !.free_bytes = c.free_bytes + n].alloc_bytes = d.alloc_bytes
  BY <1>1, <1>2 DEF Counts
<1> QED
  BY <1>3, <1>4, <1>5, <1>6 DEF n

LEMMA UsesSince ==
  ASSUME since \in Since, NEW b \in Int, NEW n \in Int, Uses(b, n)
  PROVE  /\ since' \in Since
         /\ since'.blocks = since.blocks + b /\ since'.bytes = since.bytes + n
         /\ since'.shrunk = since.shrunk /\ since'.overflowed = since.overflowed
<1> DEFINE d == [since EXCEPT !.blocks = since.blocks + b]
           e == [d EXCEPT !.bytes = since.bytes + n]
<1>1. /\ d \in Since /\ d.blocks = since.blocks + b /\ d.bytes = since.bytes
      /\ d.shrunk = since.shrunk /\ d.overflowed = since.overflowed
  BY DEF Since
<1>2. since.bytes \in Int /\ since.steps \in Nat
  BY DEF Since
<1>3. since' = [e EXCEPT !.steps = since.steps + 1]
  BY Zenon DEF Uses
<1> HIDE DEF d
<1>4. /\ e \in Since /\ e.blocks = d.blocks /\ e.bytes = since.bytes + n
      /\ e.shrunk = d.shrunk /\ e.overflowed = d.overflowed
  BY <1>1, <1>2 DEF Since
<1> HIDE DEF e
<1>5. /\ since' \in Since /\ since'.blocks = e.blocks /\ since'.bytes = e.bytes
      /\ since'.shrunk = e.shrunk /\ since'.overflowed = e.overflowed
  BY <1>2, <1>3, <1>4 DEF Since
<1> QED
  BY <1>1, <1>4, <1>5

\* A block that moves or comes or goes is counted as it is used.
Measured ==
  /\ counts \in Counts /\ since \in Since
  /\ live \in [Blocks -> BlockType] /\ declared \in Nat
  /\ heap = "spx" => Agree(counts, since)

LEMMA MallocMeasured ==
  ASSUME Measured, NEW b \in Blocks, NEW size \in Sizes, Malloc(b, size)
  PROVE  Measured'
<1>1. size \in BlockType /\ size \in Int
  BY BlockSizes DEF BlockType
<1>2. UNCHANGED <<heap, heap_hooked, declared>> /\ live' \in [Blocks -> BlockType]
  BY <1>1 DEF Malloc, Measured, placing
<1>3. /\ since' \in Since /\ since'.blocks = since.blocks + 1 /\ since'.bytes = since.bytes + size
      /\ since'.shrunk = since.shrunk /\ since'.overflowed = since.overflowed
  BY <1>1, UsesSince DEF Measured, Malloc
<1>4. counts' = IF heap = "spx" THEN Allocated(counts, size) ELSE counts
  BY DEF Malloc, Hooking
<1>5. counts' \in Counts
  BY <1>1, <1>4, AllocatedCounts DEF Measured
<1>6. ASSUME heap = "spx" PROVE Agree(counts, since)'
  <2>1. /\ counts'.alloc_count = counts.alloc_count + 1 /\ counts'.free_count = counts.free_count
        /\ counts'.alloc_bytes = counts.alloc_bytes + BlockSize(size)
        /\ counts'.free_bytes = counts.free_bytes
    BY <1>1, <1>4, <1>6, AllocatedCounts DEF Measured
  <2>2. /\ counts.alloc_count \in Nat /\ counts.free_count \in Nat
        /\ counts.alloc_bytes \in Nat /\ counts.free_bytes \in Nat
    BY DEF Measured, Counts
  <2>3. since.blocks \in Int /\ since.bytes \in Int /\ since.shrunk \in Nat
    BY DEF Measured, Since
  <2>4. BlockSize(size) \in Nat /\ (heap_hooked = "ze_mm" => BlockSize(size) = size)
    BY <1>1, BlockSizes
  <2> QED
    BY <1>1, <1>2, <1>3, <1>6, <2>1, <2>2, <2>3, <2>4 DEF Measured, Agree
<1> QED
  BY <1>2, <1>3, <1>5, <1>6 DEF Measured, Malloc

LEMMA FreeMeasured ==
  ASSUME Measured, NEW b \in Blocks, Free(b)
  PROVE  Measured'
<1> DEFINE size == live[b]
<1>1. size \in BlockType /\ size \in Int /\ -size \in Int
  <2>1. size \in BlockType
    BY DEF Measured
  <2> QED
    BY <2>1, BlockSizes
<1>2. UNCHANGED <<heap, heap_hooked, declared>> /\ live' \in [Blocks -> BlockType]
  BY DEF Free, Measured, placing, BlockType
<1>3. /\ since' \in Since /\ since'.blocks = since.blocks + (-1)
      /\ since'.bytes = since.bytes + (-size)
      /\ since'.shrunk = since.shrunk /\ since'.overflowed = since.overflowed
  BY <1>1, UsesSince DEF Measured, Free
<1>4. counts' = IF heap = "spx" THEN Freed(counts, size) ELSE counts
  BY DEF Free, Hooking
<1> HIDE DEF size
<1>5. counts' \in Counts
  BY <1>1, <1>4, FreedCounts DEF Measured
<1>6. ASSUME heap = "spx" PROVE Agree(counts, since)'
  <2>1. /\ counts'.alloc_count = counts.alloc_count /\ counts'.free_count = counts.free_count + 1
        /\ counts'.alloc_bytes = counts.alloc_bytes
        /\ counts'.free_bytes = counts.free_bytes + BlockSize(size)
    BY <1>1, <1>4, <1>6, FreedCounts DEF Measured
  <2>2. /\ counts.alloc_count \in Nat /\ counts.free_count \in Nat
        /\ counts.alloc_bytes \in Nat /\ counts.free_bytes \in Nat
    BY DEF Measured, Counts
  <2>3. since.blocks \in Int /\ since.bytes \in Int /\ since.shrunk \in Nat
    BY DEF Measured, Since
  <2>4. BlockSize(size) \in Nat /\ (heap_hooked = "ze_mm" => BlockSize(size) = size)
    BY <1>1, BlockSizes
  <2> QED
    BY <1>1, <1>2, <1>3, <1>6, <2>1, <2>2, <2>3, <2>4 DEF Measured, Agree
<1> QED
  BY <1>2, <1>3, <1>5, <1>6 DEF Measured

LEMMA ReallocMovesMeasured ==
  ASSUME Measured, NEW b \in Blocks, NEW c \in Blocks, NEW size \in Sizes, ReallocMoves(b, c, size)
  PROVE  Measured'
<1> DEFINE old == live[b]
           between == Freed(counts, old)
<1>1. old \in BlockType /\ old \in Int /\ size \in BlockType /\ size \in Int
  <2>1. old \in BlockType /\ size \in BlockType
    BY DEF Measured, BlockType
  <2> QED
    BY <2>1, BlockSizes
<1>2. UNCHANGED <<heap, heap_hooked, declared>> /\ live' \in [Blocks -> BlockType]
  BY <1>1 DEF ReallocMoves, Measured, placing, BlockType
<1>3. /\ since' \in Since /\ since'.blocks = since.blocks + 0
      /\ since'.bytes = since.bytes + (size - old)
      /\ since'.shrunk = since.shrunk /\ since'.overflowed = since.overflowed
  <2>1. size - old \in Int
    BY <1>1
  <2> QED
    BY <2>1, UsesSince DEF Measured, ReallocMoves
<1>4. counts' = IF heap = "spx" THEN Allocated(between, size) ELSE counts
  BY DEF ReallocMoves, Hooking, Moved
<1>5. /\ between \in Counts
      /\ between.alloc_count = counts.alloc_count /\ between.free_count = counts.free_count + 1
      /\ between.alloc_bytes = counts.alloc_bytes
      /\ between.free_bytes = counts.free_bytes + BlockSize(old)
  BY <1>1, FreedCounts DEF Measured
<1> HIDE DEF between, old
<1>6. counts' \in Counts
  BY <1>1, <1>4, <1>5, AllocatedCounts DEF Measured
<1>7. ASSUME heap = "spx" PROVE Agree(counts, since)'
  <2>1. /\ counts'.alloc_count = between.alloc_count + 1
        /\ counts'.free_count = between.free_count
        /\ counts'.alloc_bytes = between.alloc_bytes + BlockSize(size)
        /\ counts'.free_bytes = between.free_bytes
    BY <1>1, <1>4, <1>5, <1>7, AllocatedCounts
  <2>2. /\ counts.alloc_count \in Nat /\ counts.free_count \in Nat
        /\ counts.alloc_bytes \in Nat /\ counts.free_bytes \in Nat
    BY DEF Measured, Counts
  <2>3. since.blocks \in Int /\ since.bytes \in Int /\ since.shrunk \in Nat
    BY DEF Measured, Since
  <2>4. /\ BlockSize(size) \in Nat /\ (heap_hooked = "ze_mm" => BlockSize(size) = size)
        /\ BlockSize(old) \in Nat /\ (heap_hooked = "ze_mm" => BlockSize(old) = old)
    BY <1>1, BlockSizes
  <2>5. counts'.alloc_count - counts'.free_count = since'.blocks
    BY <1>3, <1>5, <1>7, <2>1, <2>2, <2>3 DEF Measured, Agree
  <2>6. ASSUME heap_hooked = "ze_mm", ~since.overflowed
        PROVE  counts'.alloc_bytes - counts'.free_bytes = since'.bytes + since'.shrunk
    BY <1>1, <1>3, <1>5, <1>7, <2>1, <2>2, <2>3, <2>4, <2>6 DEF Measured, Agree
  <2> QED
    BY <1>2, <1>3, <2>5, <2>6 DEF Agree
<1> QED
  BY <1>2, <1>3, <1>6, <1>7 DEF Measured

LEMMA SmallFitsInt ==
  ASSUME NEW d \in -IntMax - 1 .. IntMax
  PROVE  AsInt(d) = d
<1>1. IntMax \in Nat
  BY ExecutionAssumption
<1>2. d + IntMax + 1 \in 0 .. 2 * (IntMax + 1) - 1
  BY <1>1
<1>3. (d + IntMax + 1) % (2 * (IntMax + 1)) = d + IntMax + 1
  BY <1>1, <1>2
<1> QED
  BY <1>1, <1>3 DEF AsInt

LEMMA AsIntIsInt ==
  ASSUME NEW d \in Int
  PROVE  AsInt(d) \in Int
  BY ExecutionAssumption DEF AsInt

LEMMA ReallocStaysMeasured ==
  ASSUME Measured, NEW b \in Blocks, NEW size \in Sizes, ReallocStays(b, size)
  PROVE  Measured'
<1> DEFINE old == live[b]
           gain == AsInt(BlockSize(size) - BlockSize(old))
           added == IF gain > 0 THEN gain ELSE 0
           lost == IF size < old THEN old - size ELSE 0
           over == since.overflowed \/ size - old \notin -IntMax - 1 .. IntMax
           d == [since EXCEPT !.bytes = since.bytes + size - old]
           e == [d EXCEPT !.shrunk = since.shrunk + lost]
           f == [e EXCEPT !.overflowed = over]
<1>1. old \in BlockType /\ old \in Nat /\ size \in BlockType /\ size \in Nat
  <2>1. old \in BlockType /\ size \in BlockType
    BY DEF Measured, BlockType
  <2> QED
    BY <2>1, BlockSizes
<1>2. UNCHANGED <<heap, heap_hooked, declared>> /\ live' \in [Blocks -> BlockType]
  BY <1>1 DEF ReallocStays, Measured, placing, BlockType
<1>3. /\ BlockSize(size) \in Nat /\ (heap_hooked = "ze_mm" => BlockSize(size) = size)
      /\ BlockSize(old) \in Nat /\ (heap_hooked = "ze_mm" => BlockSize(old) = old)
  BY <1>1, BlockSizes
<1>4. gain \in Int
  BY <1>3, AsIntIsInt
<1>5. counts' = IF heap = "spx" THEN [counts EXCEPT !.alloc_bytes = counts.alloc_bytes + added]
                ELSE counts
  BY Zenon DEF ReallocStays, Hooking
<1>6. since' = [f EXCEPT !.steps = since.steps + 1]
  BY Zenon DEF ReallocStays
<1>7. heap_hooked = "ze_mm" /\ size - old \in -IntMax - 1 .. IntMax => gain = size - old
  BY <1>3, SmallFitsInt
<1> HIDE DEF gain
<1>8. added \in Nat /\ lost \in Nat /\ over \in BOOLEAN /\ (~over => ~since.overflowed)
  BY <1>1, <1>4 DEF Measured, Since
<1>9. heap_hooked = "ze_mm" /\ ~over => added = size - old + lost
  BY <1>1, <1>7
<1> HIDE DEF added, lost, over, old
<1>10. /\ since.bytes \in Int /\ since.blocks \in Int /\ since.shrunk \in Nat
       /\ since.overflowed \in BOOLEAN /\ since.steps \in Nat
  BY DEF Measured, Since
<1>11. /\ d \in Since /\ d.blocks = since.blocks /\ d.bytes = since.bytes + size - old
  BY <1>1, <1>10 DEF Measured, Since
<1> HIDE DEF d
<1>12. /\ e \in Since /\ e.blocks = d.blocks /\ e.bytes = d.bytes
       /\ e.shrunk = since.shrunk + lost
  BY <1>8, <1>10, <1>11 DEF Since
<1> HIDE DEF e
<1>13. /\ f \in Since /\ f.blocks = e.blocks /\ f.bytes = e.bytes
       /\ f.shrunk = e.shrunk /\ f.overflowed = over
  BY <1>8, <1>12 DEF Since
<1> HIDE DEF f
<1>14. /\ since' \in Since /\ since'.blocks = f.blocks /\ since'.bytes = f.bytes
       /\ since'.shrunk = f.shrunk /\ since'.overflowed = f.overflowed
  BY <1>6, <1>10, <1>13 DEF Since
<1>15. counts' \in Counts
  BY <1>5, <1>8 DEF Measured, Counts
<1>16. ASSUME heap = "spx" PROVE Agree(counts, since)'
  <2>1. /\ counts'.alloc_count = counts.alloc_count /\ counts'.free_count = counts.free_count
        /\ counts'.alloc_bytes = counts.alloc_bytes + added
        /\ counts'.free_bytes = counts.free_bytes
    BY <1>5, <1>16 DEF Measured, Counts
  <2>2. counts.alloc_bytes \in Nat /\ counts.free_bytes \in Nat
    BY DEF Measured, Counts
  <2>3. counts'.alloc_count - counts'.free_count = since'.blocks
    BY <1>11, <1>12, <1>13, <1>14, <1>16, <2>1 DEF Measured, Agree
  <2>4. ASSUME heap_hooked = "ze_mm", ~since'.overflowed
        PROVE  counts'.alloc_bytes - counts'.free_bytes = since'.bytes + since'.shrunk
    <3>1. ~over /\ since'.bytes = since.bytes + size - old /\ since'.shrunk = since.shrunk + lost
      BY <1>11, <1>12, <1>13, <1>14, <2>4
    <3>2. counts.alloc_bytes - counts.free_bytes = since.bytes + since.shrunk
      BY <1>8, <1>16, <2>4, <3>1 DEF Measured, Agree
    <3> QED
      BY <1>1, <1>8, <1>9, <1>10, <2>1, <2>2, <2>4, <3>1, <3>2
  <2> QED
    BY <1>2, <2>3, <2>4 DEF Agree
<1> QED
  BY <1>2, <1>14, <1>15, <1>16 DEF Measured, ReallocStays

\* Steps that leave the heap alone.
LEMMA SameHeapMeasured ==
  ASSUME Measured, UNCHANGED <<heap, heap_hooked, live, since>>,
         counts' \in Counts, SameBytes(counts, counts'), declared' \in Nat
  PROVE  Measured'
  BY DEF Measured, SameBytes, Agree

LEMMA CompileMeasured ==
  ASSUME Measured, NEW p, NEW lines \in Nat, NEW opcodes \in 1..MaxCompiled, Compile(p, lines, opcodes, 1)
  PROVE  Measured'
<1> DEFINE files == IF p = "compile_file" THEN counts.files + 1 ELSE counts.files
           d == [counts EXCEPT !.files = files]
           e == [d EXCEPT !.lines = counts.lines + 1 + lines]
           f == [e EXCEPT !.opcodes = counts.opcodes + opcodes - 1]
<1>1. declared' = declared + 1 /\ UNCHANGED <<heap, heap_hooked, live, since>>
  BY DEF Compile, placing
<1>2. opcodes \in Nat /\ opcodes >= 1 /\ declared \in Nat
  BY ExecutionAssumption DEF Measured
<1>3. counts' = IF ~Counted(p) THEN counts ELSE Userland(f)
  BY Zenon DEF Compile
<1>4. files \in Nat /\ counts.lines \in Nat /\ counts.opcodes \in Nat
  BY DEF Measured, Counts
<1> HIDE DEF files
<1>5. d \in Counts /\ SameBytes(counts, d)
  BY <1>4 DEF Measured, Counts, SameBytes
<1> HIDE DEF d
<1>6. e \in Counts /\ SameBytes(counts, e)
  BY <1>4, <1>5 DEF Counts, SameBytes
<1> HIDE DEF e
<1>7. counts.opcodes + opcodes - 1 \in Nat
  BY <1>2, <1>4
<1>8. f \in Counts /\ SameBytes(counts, f)
  BY <1>6, <1>7 DEF Counts, SameBytes
<1> HIDE DEF f
<1>9. Userland(f) \in Counts /\ SameBytes(counts, Userland(f))
  <2>1. f.opcodes + declared' \in Nat
    BY <1>1, <1>2, <1>8 DEF Counts
  <2> QED
    BY <1>8, <2>1 DEF Userland, Counts, SameBytes
<1>10. counts' \in Counts /\ SameBytes(counts, counts')
  BY <1>3, <1>9 DEF Measured, SameBytes
<1> QED
  BY <1>1, <1>2, <1>10, SameHeapMeasured

LEMMA ReadUserlandMeasured ==
  ASSUME Measured, ReadUserland
  PROVE  Measured'
<1> DEFINE d == [counts EXCEPT !.collecting = TRUE]
<1>1. d \in Counts /\ SameBytes(counts, d)
  BY DEF Measured, Counts, SameBytes
<1>2. counts.opcodes + declared \in Nat
  BY DEF Measured, Counts
<1>3. counts' = IF counts.collecting THEN counts ELSE [d EXCEPT !.userland = counts.opcodes + declared]
  BY Zenon DEF ReadUserland
<1> HIDE DEF d
<1>4. counts' \in Counts /\ SameBytes(counts, counts')
  BY <1>1, <1>2, <1>3 DEF Measured, Counts, SameBytes
<1> QED
  BY <1>4, SameHeapMeasured DEF ReadUserland, placing, Measured

LEMMA RaiseErrorMeasured ==
  ASSUME Measured, RaiseError
  PROVE  Measured'
<1>1. counts' \in Counts /\ SameBytes(counts, counts')
  BY DEF RaiseError, Measured, Counts, SameBytes
<1> QED
  BY <1>1, SameHeapMeasured DEF RaiseError, placing, Measured

LEMMA ExecuteMeasured ==
  ASSUME Measured, EngineRuns
  PROVE  Measured'
<1>1. CASE Declare
  <2>1. declared' \in Nat
    BY <1>1 DEF Declare, Measured
  <2> QED
    BY <1>1, <2>1 DEF Declare, Measured, Agree, placing
<1>2. ASSUME NEW p \in {"compile_file", "compile_string"},
             NEW lines \in 1..MaxCompiled, NEW opcodes \in 1..MaxCompiled,
             Compile(p, lines, opcodes, 1)
      PROVE  Measured'
  <2>1. lines \in Nat
    BY ExecutionAssumption
  <2> QED
    BY <1>2, <2>1, CompileMeasured
<1>3. CASE RaiseError
  BY <1>3, RaiseErrorMeasured
<1>4. ASSUME NEW b \in Blocks,
             \/ Free(b)
             \/ \E size \in Sizes : \/ Malloc(b, size)
                                    \/ ReallocStays(b, size)
                                    \/ \E c \in Blocks \ {b} : ReallocMoves(b, c, size)
      PROVE  Measured'
  BY <1>4, FreeMeasured, MallocMeasured, ReallocStaysMeasured, ReallocMovesMeasured
<1>5. CASE ReadUserland
  BY <1>5, ReadUserlandMeasured
<1> QED
  BY <1>1, <1>2, <1>3, <1>4, <1>5 DEF EngineRuns, Execute

\* Between requests nothing has been used.
Books == Measured /\ (process # "request" => since = NoneSince)

LEMMA NothingAgrees == NoCounts \in Counts /\ NoneSince \in Since /\ Agree(NoCounts, NoneSince)
  BY DEF NoCounts, NoneSince, Counts, Since, Agree

LEMMA InitBooks == Init => Books
<1> SUFFICES ASSUME Init PROVE Books
  OBVIOUS
<1>1. live \in [Blocks -> BlockType]
  BY DEF Init, ExecutionInit, NoBlocks, BlockType
<1> QED
  BY <1>1, NothingAgrees DEF Init, ExecutionInit, Books, Measured

LEMMA BeginBooks ==
  ASSUME Kept', Books, NEW r, NEW c, NEW able \in BOOLEAN, Begin(r, c, able)
  PROVE  Books'
<1>1. since = NoneSince /\ UNCHANGED <<live, since, declared>> /\ process' = "request"
  BY DEF Begin, Books
<1>2. \/ Engage(handler')
      \/ Abstain
  BY DEF Begin
<1>3. CASE Engage(handler')
  BY <1>1, <1>3, NothingAgrees DEF Engage, Books, Measured, Agree, NoCounts, NoneSince
<1>4. CASE Abstain
  BY <1>1, <1>4 DEF Abstain, placing, Books, Measured, Agree
<1> QED
  BY <1>2, <1>3, <1>4

LEMMA NextBooks == Kept /\ Kept' /\ Books /\ [Next]_vars => Books'
<1> SUFFICES ASSUME Kept, Kept', Books, [Next]_vars PROVE Books'
  OBVIOUS
<1>1. CASE ModuleInit \/ ModuleShutdown
  BY <1>1 DEF ModuleInit, ModuleShutdown, measuring, Books, Measured, Agree
<1>2. CASE RequestInitCli
  BY <1>2, BeginBooks DEF RequestInitCli
<1>3. CASE RequestInitHttp
  BY <1>3, BeginBooks DEF RequestInitHttp
<1>4. CASE EngineAllocates
  <2>1. live' \in [Blocks -> BlockType]
    BY <1>4 DEF EngineAllocates, Books, Measured, BlockType
  <2> QED
    BY <1>4, <2>1 DEF EngineAllocates, placing, Books, Measured, Agree
<1>5. CASE EngineRuns
  <2>1. process' = process /\ process = "request"
    BY <1>5 DEF EngineRuns
  <2> QED
    BY <1>5, <2>1, ExecuteMeasured DEF Books
<1>6. CASE RequestShutdown
  <2>1. since' = NoneSince /\ live' = NoBlocks /\ declared' = 0
    BY <1>6 DEF RequestShutdown
  <2>2. live' \in [Blocks -> BlockType]
    BY <2>1 DEF NoBlocks, BlockType
  <2>3. counts' \in Counts
    BY <1>6, NothingAgrees DEF RequestShutdown, Books, Measured
  <2>4. handler' = "none"
    BY <1>6 DEF RequestShutdown
  <2>5. heap' # "spx"
    BY <2>4 DEF Kept, HeapKept, HeapUntouched, HandlerKept
  <2> QED
    BY <2>1, <2>2, <2>3, <2>5, NothingAgrees DEF Books, Measured
<1>7. CASE UNCHANGED vars
  BY <1>7 DEF vars, execution, placing, measuring, deciding, Books, Measured, Agree
<1> QED
  BY <1>1, <1>2, <1>3, <1>4, <1>5, <1>6, <1>7 DEF Next

LEMMA BooksInvariance == Spec => []Books
<1>1. Spec => [](Kept /\ Books)
  <2>1. Init => Kept /\ Books
    BY InitKept, InitBooks
  <2>2. Kept /\ Books /\ [Next]_vars => (Kept /\ Books)'
    BY NextKeeps, NextBooks
  <2> QED
    BY <2>1, <2>2, PTL DEF Spec
<1> QED
  BY <1>1, PTL

\* Allocations, releases and reallocations of any sizes, in any number: the
\* counters tell what is in use.
THEOREM AllocationsCounted == Spec => []AllocationsAreCounted
<1>1. Books => AllocationsAreCounted
  BY DEF Books, Measured, Agree, AllocationsAreCounted
<1> QED
  BY <1>1, BooksInvariance, PTL

-----------------------------------------------------------------------------
(* The configuration, and the types. *)

LEMMA InitConfigTyped == \A b \in BOOLEAN : init_config(b) \in Config
<1> SUFFICES ASSUME NEW b \in BOOLEAN PROVE init_config(b) \in Config
  OBVIOUS
<1> DEFINE Defaults(m, report) ==
             [enabled |-> FALSE, key |-> Null, ui_uri |-> Null, auto_start |-> TRUE,
              sampling_period |-> 0, builtins |-> FALSE, max_depth |-> 0, enabled_metrics |-> m,
              report |-> report, fp_focus |-> WallTime, fp_inc |-> FALSE, fp_rel |-> FALSE,
              fp_limit |-> 10, fp_live |-> FALSE, fp_color |-> TRUE, trace_file |-> Null,
              trace_safe |-> FALSE]
<1>1. {WallTime, ZeMemory} \in SUBSET Metrics /\ WallTime \in Metrics
  BY ConfigAssumption, Zenon
<1>2. (IF b THEN "fp" ELSE "full") \in {"full", "fp", "trace"}
  OBVIOUS
<1>3. MaxPeriod \in Nat /\ MaxDepth \in Nat /\ MaxLimit \in Nat /\ MaxLimit >= 10
  BY SMT DEF MaxPeriod, MaxDepth, MaxLimit
<1>4. 0 \in 0..MaxPeriod /\ 0 \in 0..MaxDepth /\ 10 \in 0..MaxLimit
  BY <1>3, SMT
<1>5. WallTime \in Metrics =>
        \A m \in SUBSET Metrics, report \in {"full", "fp", "trace"} : Defaults(m, report) \in Config
  BY <1>4, SMT DEF Config
<1>6. init_config(b) = Defaults({WallTime, ZeMemory}, IF b THEN "fp" ELSE "full")
  BY Zenon DEF init_config
<1> HIDE DEF Defaults
<1>7. Defaults({WallTime, ZeMemory}, IF b THEN "fp" ELSE "full") \in Config
  BY <1>1, <1>2, <1>5, Zenon
<1> QED
  BY <1>6, <1>7, Zenon

LEMMA SourceTyped ==
  ASSUME NEW s, IsSource(s, Parameters), NEW c \in Config
  PROVE  source_data_to_config(s, c) \in Config
<1>1. \A p : Gives(s, p) => /\ s[p].one \in BOOLEAN /\ s[p].is \in Names
                           /\ s[p].tokens \in SUBSET Names
  BY DEF Gives, IsSource, Text
<1>2. /\ c.enabled \in BOOLEAN /\ c.auto_start \in BOOLEAN /\ c.builtins \in BOOLEAN
      /\ c.fp_inc \in BOOLEAN /\ c.fp_rel \in BOOLEAN /\ c.fp_live \in BOOLEAN
      /\ c.fp_color \in BOOLEAN /\ c.trace_safe \in BOOLEAN
  BY DEF Config
<1>3. /\ c.key \in Names \cup {Null} /\ c.ui_uri \in Names \cup {Null}
      /\ c.trace_file \in Names \cup {Null} /\ c.report \in {"full", "fp", "trace"}
      /\ c.fp_focus \in Metrics /\ c.enabled_metrics \in SUBSET Metrics
  BY DEF Config
<1>4. /\ c.sampling_period \in 0..MaxPeriod /\ c.max_depth \in 0..MaxDepth
      /\ c.fp_limit \in 0..MaxLimit
  BY DEF Config
<1>5. \A p, old : old \in BOOLEAN => Flag(s, p, old) \in BOOLEAN
  BY <1>1 DEF Flag
<1>6. \A p, old : old \in Names \cup {Null} => String(s, p, old) \in Names \cup {Null}
  BY <1>1 DEF String
<1>7. \A p, max, old : old \in 0..max => Number(s, p, old, max) \in 0..max
  BY DEF Number, Parses
<1>8. /\ MetricsOf(s, c.enabled_metrics) \in SUBSET Metrics
      /\ Report(s, c.report) \in {"full", "fp", "trace"}
      /\ Focus(s, c.fp_focus) \in Metrics
  BY <1>3 DEF MetricsOf, Report, Focus
<1> HIDE DEF MaxPeriod, MaxDepth, MaxLimit
<1>9. /\ Number(s, "sampling_period", c.sampling_period, MaxPeriod) \in 0..MaxPeriod
      /\ Number(s, "depth", c.max_depth, MaxDepth) \in 0..MaxDepth
      /\ Number(s, "fp_limit", c.fp_limit, MaxLimit) \in 0..MaxLimit
  BY <1>4, <1>7
<1>10. /\ Flag(s, "enabled", c.enabled) \in BOOLEAN
       /\ Flag(s, "auto_start", c.auto_start) \in BOOLEAN
       /\ Flag(s, "builtins", c.builtins) \in BOOLEAN
       /\ Flag(s, "fp_inc", c.fp_inc) \in BOOLEAN /\ Flag(s, "fp_rel", c.fp_rel) \in BOOLEAN
       /\ Flag(s, "fp_live", c.fp_live) \in BOOLEAN
       /\ Flag(s, "fp_color", c.fp_color) \in BOOLEAN
       /\ Flag(s, "trace_safe", c.trace_safe) \in BOOLEAN
  BY <1>2, <1>5
<1>11. /\ String(s, "key", c.key) \in Names \cup {Null}
       /\ String(s, "ui_uri", c.ui_uri) \in Names \cup {Null}
       /\ String(s, "trace_file", c.trace_file) \in Names \cup {Null}
  BY <1>3, <1>6
<1> QED
  BY <1>8, <1>9, <1>10, <1>11 DEF source_data_to_config, Config

LEMMA FixTyped ==
  ASSUME NEW b \in BOOLEAN, NEW c \in Config
  PROVE  fix_config(b, c) \in Config
<1> DEFINE report == IF b THEN c.report ELSE "full"
           uri == IF b THEN Null ELSE c.ui_uri
           metrics == (c.enabled_metrics \cup (IF report = "full" THEN {WallTime, ZeMemory} ELSE {}))
                        \cup (IF report = "fp" THEN {c.fp_focus} ELSE {})
           d == [c EXCEPT !.ui_uri = uri]
           e == [d EXCEPT !.report = report]
<1>1. fix_config(b, c) = [e EXCEPT !.enabled_metrics = metrics]
  BY Zenon DEF fix_config
<1>2. /\ report \in {"full", "fp", "trace"} /\ uri \in Names \cup {Null}
      /\ c.fp_focus \in Metrics /\ c.enabled_metrics \in SUBSET Metrics
  BY DEF Config
<1>3. metrics \in SUBSET Metrics
  BY <1>2, ConfigAssumption, Zenon
<1> HIDE DEF metrics, report, uri
<1>4. d \in Config
  BY <1>2 DEF Config
<1> HIDE DEF d
<1>5. e \in Config
  BY <1>2, <1>4 DEF Config
<1> HIDE DEF e
<1> QED
  BY <1>1, <1>3, <1>5 DEF Config

LEMMA IniSource == \A i \in Inis : IsSource(IniTexts(i.source), Parameters)
<1> SUFFICES ASSUME NEW i \in Inis PROVE IsSource(IniTexts(i.source), Parameters)
  OBVIOUS
<1>1. IsSource(i.source, IniParameters)
  BY RequestAssumption
<1>2. Empty \in Text
  <2>1. "" \in Names
    BY ConfigAssumption, Zenon
  <2>2. \A e \in Names, t \in SUBSET Names :
          [is |-> e, tokens |-> t, one |-> FALSE, number |-> 0, whole |-> FALSE] \in Text
    BY SMT DEF Text
  <2>3. {""} \in SUBSET Names
    BY <2>1, Zenon
  <2>. QED
    BY <2>1, <2>2, <2>3, Zenon DEF Empty
<1>. QED
  BY <1>1, <1>2 DEF IsSource, IniTexts, IniParameters, Parameters

LEMMA ConfigTyped ==
  /\ \A env \in Environments : ConfigFromEnv(env) \in Config
  /\ \A client \in Clients, i \in Inis : /\ ConfigFromIni(i.source) \in Config
       /\ ConfigFromClient(client.cookie, client.header, client.query) \in Config
<1>1. ASSUME NEW env \in Environments PROVE ConfigFromEnv(env) \in Config
  <2>1. IsSource(env, Parameters)
    BY RequestAssumption
  <2>2. source_data_to_config(env, init_config(TRUE)) \in Config
    BY <2>1, InitConfigTyped, SourceTyped
  <2> QED
    BY <2>2, FixTyped DEF ConfigFromEnv
<1>2. ASSUME NEW i \in Inis PROVE ConfigFromIni(i.source) \in Config
  <2>1. source_data_to_config(IniTexts(i.source), init_config(FALSE)) \in Config
    BY IniSource, InitConfigTyped, SourceTyped
  <2> QED
    BY <2>1, FixTyped DEF ConfigFromIni
<1>3. ASSUME NEW client \in Clients
      PROVE  ConfigFromClient(client.cookie, client.header, client.query) \in Config
  <2> DEFINE c == source_data_to_config(client.cookie, init_config(FALSE))
             h == source_data_to_config(client.header, c)
             q == source_data_to_config(client.query, h)
  <2>1. /\ IsSource(client.cookie, Parameters) /\ IsSource(client.header, Parameters)
        /\ IsSource(client.query, Parameters)
    BY RequestAssumption
  <2>2. c \in Config
    BY <2>1, InitConfigTyped, SourceTyped
  <2> HIDE DEF c
  <2>3. h \in Config
    BY <2>1, <2>2, SourceTyped
  <2> HIDE DEF h
  <2>4. q \in Config
    BY <2>1, <2>3, SourceTyped
  <2> QED
    BY <2>4, FixTyped DEF ConfigFromClient, c, h
<1> QED
  BY <1>1, <1>2, <1>3

LEMMA InitDecision == Init => DecisionOK
  BY InitConfigTyped DEF Init, DecisionOK

LEMMA NextDecision == DecisionOK /\ [Next]_vars => DecisionOK'
<1> SUFFICES ASSUME DecisionOK, [Next]_vars PROVE DecisionOK'
  OBVIOUS
<1>1. ASSUME NEW r \in Environments \cup Clients, NEW c \in Config, NEW able \in BOOLEAN,
             Begin(r, c, able)
      PROVE  DecisionOK'
  BY <1>1 DEF Begin, HandlerFor, DecisionOK
<1>2. CASE RequestInitCli
  BY <1>1, <1>2, ConfigTyped DEF RequestInitCli
<1>3. CASE RequestInitHttp
  <2>1. PICK client \in Clients, able \in BOOLEAN : Begin(client, ConfigFor(client), able)
    BY <1>3 DEF RequestInitHttp
  <2>2. ConfigFor(client) \in Config
    BY ConfigTyped DEF ConfigFor, DecisionOK
  <2> QED
    BY <1>1, <2>1, <2>2
<1>4. CASE ModuleInit \/ ModuleShutdown
  BY <1>4 DEF ModuleInit, ModuleShutdown, deciding, DecisionOK
<1>5. CASE EngineAllocates \/ EngineRuns
  BY <1>5 DEF EngineAllocates, EngineRuns, deciding, DecisionOK
<1>6. CASE RequestShutdown
  BY <1>6 DEF RequestShutdown, DecisionOK
<1>7. CASE UNCHANGED vars
  BY <1>7 DEF vars, deciding, DecisionOK
<1> QED
  BY <1>2, <1>3, <1>4, <1>5, <1>6, <1>7 DEF Next

LEMMA KeptPlacing == Kept => PlacingOK
<1> SUFFICES ASSUME Kept PROVE PlacingOK
  OBVIOUS
<1>1. PICK taken \in Taken :
        original.engine = [p \in Pointers |-> IF p \in taken THEN "other" ELSE "engine"]
  BY DEF Kept, HandlerKept, Originals
<1>2. original.engine \in [Pointers -> {"engine", "other"}]
  BY <1>1
<1>3. /\ engine \in [Pointers -> HookKinds]
      /\ hooked \in [Pointers -> {"null", "engine", "other"}]
  BY <1>2 DEF Kept, PointersKept, Untouched, TakenOver, AllTaken, NothingHooked, HookKinds
<1>4. heap \in {"none", "other", "spx"} /\ heap_hooked \in {"null", "ze_mm", "other"}
  BY DEF Kept, HandlerKept, HeapKept, HeapUntouched, HeapTakenOver
<1> QED
  BY <1>3, <1>4 DEF PlacingOK, Kept, HandlerKept, HooksKept

\* Every variable has its type, and with config every value that the sources of a
\* request give it is within its bounds.
THEOREM RequestTyped == Spec => []TypeOK
<1>1. Spec => []DecisionOK
  BY InitDecision, NextDecision, PTL DEF Spec
<1>2. Kept /\ Books /\ DecisionOK => TypeOK
  BY KeptPlacing DEF TypeOK, Books, Measured, MeasuresOK, Counts, Since, BlockType
<1> QED
  BY <1>1, <1>2, KeptInvariance, BooksInvariance, PTL

-----------------------------------------------------------------------------
(* What a list of sources asks for, and what the configuration makes of it one  *)
(* source after the other.                                                     *)

LEMMA LatestIs ==
  ASSUME NEW S, S \subseteq 1..3
  PROVE  /\ 3 \in S => Latest(S) = 3
         /\ 3 \notin S /\ 2 \in S => Latest(S) = 2
         /\ 3 \notin S /\ 2 \notin S /\ 1 \in S => Latest(S) = 1
<1>1. ASSUME NEW i \in S, \A j \in S : j <= i
      PROVE  Latest(S) = i
  <2>1. \A k \in S : (\A j \in S : j <= k) => k = i
    BY <1>1
  <2>. QED
    BY <1>1, <2>1 DEF Latest
<1>2. \A j \in S : j \in {1, 2, 3}
  OBVIOUS
<1>. QED
  BY <1>1, <1>2

LEMMA FlagAskedOnce ==
  ASSUME NEW p, NEW d, NEW x
  PROVE  AskedFlag(<<x>>, p, d) = Flag(x, p, d)
<1> DEFINE t == <<x>>
           S == {i \in DOMAIN t : p \in DOMAIN t[i]}
<1>1. AskedFlag(t, p, d) = IF S = {} THEN d ELSE t[Latest(S)][p].one
  BY DEF AskedFlag, Asked, Giving
<1>2. S \subseteq {1} /\ {1} \subseteq 1..3 /\ t[1] = x /\ (1 \in S <=> p \in DOMAIN x)
  OBVIOUS
<1> HIDE DEF S, t
<1>3. 1 \in S => Latest(S) = 1
  BY <1>2, LatestIs
<1>4. AskedFlag(t, p, d) = Flag(x, p, d)
  BY <1>1, <1>2, <1>3 DEF Flag, Gives
<1>. QED
  BY <1>4 DEF t

LEMMA FlagAsked ==
  ASSUME NEW p, NEW d, NEW x, NEW y, NEW z
  PROVE  AskedFlag(<<x, y, z>>, p, d) = Flag(z, p, Flag(y, p, Flag(x, p, d)))
<1> DEFINE t == <<x, y, z>>
           S == {i \in DOMAIN t : p \in DOMAIN t[i]}
<1>1. AskedFlag(t, p, d) = IF S = {} THEN d ELSE t[Latest(S)][p].one
  BY DEF AskedFlag, Asked, Giving
<1>2. /\ S \subseteq 1..3 /\ t[1] = x /\ t[2] = y /\ t[3] = z
      /\ 1 \in S <=> p \in DOMAIN x
      /\ 2 \in S <=> p \in DOMAIN y
      /\ 3 \in S <=> p \in DOMAIN z
  <2>1. DOMAIN t = 1..3 /\ t[1] = x /\ t[2] = y /\ t[3] = z
    OBVIOUS
  <2> HIDE DEF t
  <2>. QED
    BY <2>1
<1> HIDE DEF S, t
<1>3. S = {} \/ 1 \in S \/ 2 \in S \/ 3 \in S
  BY <1>2
<1>4. AskedFlag(t, p, d) = Flag(z, p, Flag(y, p, Flag(x, p, d)))
  <2>1. CASE 3 \in S
    BY <1>1, <1>2, <2>1, LatestIs DEF Flag, Gives
  <2>2. CASE 3 \notin S /\ 2 \in S
    BY <1>1, <1>2, <2>2, LatestIs DEF Flag, Gives
  <2>3. CASE 3 \notin S /\ 2 \notin S /\ 1 \in S
    BY <1>1, <1>2, <2>3, LatestIs DEF Flag, Gives
  <2>4. CASE S = {}
    BY <1>1, <1>2, <2>4 DEF Flag, Gives
  <2>. QED
    BY <1>3, <2>1, <2>2, <2>3, <2>4
<1>. QED
  BY <1>4 DEF t

LEMMA NumberAskedOnce ==
  ASSUME NEW p, NEW d, NEW max, NEW x
  PROVE  AskedNumber(<<x>>, p, d, max) = Number(x, p, d, max)
<1> DEFINE t == <<x>>
           S == {i \in DOMAIN t : p \in DOMAIN t[i] /\ t[i][p].whole /\ t[i][p].number \in 0..max}
<1>1. AskedNumber(t, p, d, max) = IF S = {} THEN d ELSE t[Latest(S)][p].number
  BY DEF AskedNumber, Asked, Giving
<1>2. S \subseteq {1} /\ {1} \subseteq 1..3 /\ t[1] = x /\ (1 \in S <=> p \in DOMAIN x /\ x[p].whole /\ x[p].number \in 0..max)
  OBVIOUS
<1> HIDE DEF S, t
<1>3. 1 \in S => Latest(S) = 1
  BY <1>2, LatestIs
<1>4. AskedNumber(t, p, d, max) = Number(x, p, d, max)
  BY <1>1, <1>2, <1>3 DEF Number, Parses, Gives
<1>. QED
  BY <1>4 DEF t

LEMMA NumberAsked ==
  ASSUME NEW p, NEW d, NEW max, NEW x, NEW y, NEW z
  PROVE  AskedNumber(<<x, y, z>>, p, d, max) = Number(z, p, Number(y, p, Number(x, p, d, max), max), max)
<1> DEFINE t == <<x, y, z>>
           S == {i \in DOMAIN t : p \in DOMAIN t[i] /\ t[i][p].whole /\ t[i][p].number \in 0..max}
<1>1. AskedNumber(t, p, d, max) = IF S = {} THEN d ELSE t[Latest(S)][p].number
  BY DEF AskedNumber, Asked, Giving
<1>2. /\ S \subseteq 1..3 /\ t[1] = x /\ t[2] = y /\ t[3] = z
      /\ 1 \in S <=> p \in DOMAIN x /\ x[p].whole /\ x[p].number \in 0..max
      /\ 2 \in S <=> p \in DOMAIN y /\ y[p].whole /\ y[p].number \in 0..max
      /\ 3 \in S <=> p \in DOMAIN z /\ z[p].whole /\ z[p].number \in 0..max
  <2>1. DOMAIN t = 1..3 /\ t[1] = x /\ t[2] = y /\ t[3] = z
    OBVIOUS
  <2> HIDE DEF t
  <2>. QED
    BY <2>1
<1> HIDE DEF S, t
<1>3. S = {} \/ 1 \in S \/ 2 \in S \/ 3 \in S
  BY <1>2
<1>4. AskedNumber(t, p, d, max) = Number(z, p, Number(y, p, Number(x, p, d, max), max), max)
  <2>1. CASE 3 \in S
    BY <1>1, <1>2, <2>1, LatestIs DEF Number, Parses, Gives
  <2>2. CASE 3 \notin S /\ 2 \in S
    BY <1>1, <1>2, <2>2, LatestIs DEF Number, Parses, Gives
  <2>3. CASE 3 \notin S /\ 2 \notin S /\ 1 \in S
    BY <1>1, <1>2, <2>3, LatestIs DEF Number, Parses, Gives
  <2>4. CASE S = {}
    BY <1>1, <1>2, <2>4 DEF Number, Parses, Gives
  <2>. QED
    BY <1>3, <2>1, <2>2, <2>3, <2>4
<1>. QED
  BY <1>4 DEF t

LEMMA StringAskedOnce ==
  ASSUME NEW p, NEW x
  PROVE  AskedString(<<x>>, p) = String(x, p, Null)
<1> DEFINE t == <<x>>
           S == {i \in DOMAIN t : p \in DOMAIN t[i]}
<1>1. AskedString(t, p) = IF S = {} THEN Null ELSE t[Latest(S)][p].is
  BY DEF AskedString, Asked, Giving
<1>2. S \subseteq {1} /\ {1} \subseteq 1..3 /\ t[1] = x /\ (1 \in S <=> p \in DOMAIN x)
  OBVIOUS
<1> HIDE DEF S, t
<1>3. 1 \in S => Latest(S) = 1
  BY <1>2, LatestIs
<1>4. AskedString(t, p) = String(x, p, Null)
  BY <1>1, <1>2, <1>3 DEF String, Gives
<1>. QED
  BY <1>4 DEF t

LEMMA StringAsked ==
  ASSUME NEW p, NEW x, NEW y, NEW z
  PROVE  AskedString(<<x, y, z>>, p) = String(z, p, String(y, p, String(x, p, Null)))
<1> DEFINE t == <<x, y, z>>
           S == {i \in DOMAIN t : p \in DOMAIN t[i]}
<1>1. AskedString(t, p) = IF S = {} THEN Null ELSE t[Latest(S)][p].is
  BY DEF AskedString, Asked, Giving
<1>2. /\ S \subseteq 1..3 /\ t[1] = x /\ t[2] = y /\ t[3] = z
      /\ 1 \in S <=> p \in DOMAIN x
      /\ 2 \in S <=> p \in DOMAIN y
      /\ 3 \in S <=> p \in DOMAIN z
  <2>1. DOMAIN t = 1..3 /\ t[1] = x /\ t[2] = y /\ t[3] = z
    OBVIOUS
  <2> HIDE DEF t
  <2>. QED
    BY <2>1
<1> HIDE DEF S, t
<1>3. S = {} \/ 1 \in S \/ 2 \in S \/ 3 \in S
  BY <1>2
<1>4. AskedString(t, p) = String(z, p, String(y, p, String(x, p, Null)))
  <2>1. CASE 3 \in S
    BY <1>1, <1>2, <2>1, LatestIs DEF String, Gives
  <2>2. CASE 3 \notin S /\ 2 \in S
    BY <1>1, <1>2, <2>2, LatestIs DEF String, Gives
  <2>3. CASE 3 \notin S /\ 2 \notin S /\ 1 \in S
    BY <1>1, <1>2, <2>3, LatestIs DEF String, Gives
  <2>4. CASE S = {}
    BY <1>1, <1>2, <2>4 DEF String, Gives
  <2>. QED
    BY <1>3, <2>1, <2>2, <2>3, <2>4
<1>. QED
  BY <1>4 DEF t

LEMMA MetricsAskedOnce ==
  ASSUME NEW x
  PROVE  AskedMetrics(<<x>>) = MetricsOf(x, {WallTime, ZeMemory})
<1> DEFINE t == <<x>>
           S == {i \in DOMAIN t : "metrics" \in DOMAIN t[i]}
<1>1. AskedMetrics(t) = IF S = {} THEN {WallTime, ZeMemory} ELSE t[Latest(S)]["metrics"].tokens \cap Metrics
  BY DEF AskedMetrics, Asked, Giving
<1>2. S \subseteq {1} /\ {1} \subseteq 1..3 /\ t[1] = x /\ (1 \in S <=> "metrics" \in DOMAIN x)
  OBVIOUS
<1> HIDE DEF S, t
<1>3. 1 \in S => Latest(S) = 1
  BY <1>2, LatestIs
<1>4. AskedMetrics(t) = MetricsOf(x, {WallTime, ZeMemory})
  BY <1>1, <1>2, <1>3 DEF MetricsOf, Gives
<1>. QED
  BY <1>4 DEF t

LEMMA MetricsAsked ==
  ASSUME NEW x, NEW y, NEW z
  PROVE  AskedMetrics(<<x, y, z>>) = MetricsOf(z, MetricsOf(y, MetricsOf(x, {WallTime, ZeMemory})))
<1> DEFINE t == <<x, y, z>>
           S == {i \in DOMAIN t : "metrics" \in DOMAIN t[i]}
<1>1. AskedMetrics(t) = IF S = {} THEN {WallTime, ZeMemory} ELSE t[Latest(S)]["metrics"].tokens \cap Metrics
  BY DEF AskedMetrics, Asked, Giving
<1>2. /\ S \subseteq 1..3 /\ t[1] = x /\ t[2] = y /\ t[3] = z
      /\ 1 \in S <=> "metrics" \in DOMAIN x
      /\ 2 \in S <=> "metrics" \in DOMAIN y
      /\ 3 \in S <=> "metrics" \in DOMAIN z
  <2>1. DOMAIN t = 1..3 /\ t[1] = x /\ t[2] = y /\ t[3] = z
    OBVIOUS
  <2> HIDE DEF t
  <2>. QED
    BY <2>1
<1> HIDE DEF S, t
<1>3. S = {} \/ 1 \in S \/ 2 \in S \/ 3 \in S
  BY <1>2
<1>4. AskedMetrics(t) = MetricsOf(z, MetricsOf(y, MetricsOf(x, {WallTime, ZeMemory})))
  <2>1. CASE 3 \in S
    BY <1>1, <1>2, <2>1, LatestIs DEF MetricsOf, Gives
  <2>2. CASE 3 \notin S /\ 2 \in S
    BY <1>1, <1>2, <2>2, LatestIs DEF MetricsOf, Gives
  <2>3. CASE 3 \notin S /\ 2 \notin S /\ 1 \in S
    BY <1>1, <1>2, <2>3, LatestIs DEF MetricsOf, Gives
  <2>4. CASE S = {}
    BY <1>1, <1>2, <2>4 DEF MetricsOf, Gives
  <2>. QED
    BY <1>3, <2>1, <2>2, <2>3, <2>4
<1>. QED
  BY <1>4 DEF t

LEMMA ReportAskedOnce ==
  ASSUME NEW x
  PROVE  AskedReport(<<x>>) = Report(x, "fp")
<1> DEFINE t == <<x>>
           S == {i \in DOMAIN t : "report" \in DOMAIN t[i] /\ t[i]["report"].is \in {"full", "fp", "trace"}}
<1>1. AskedReport(t) = IF S = {} THEN "fp" ELSE t[Latest(S)]["report"].is
  BY DEF AskedReport, Asked, Giving
<1>2. S \subseteq {1} /\ {1} \subseteq 1..3 /\ t[1] = x /\ (1 \in S <=> "report" \in DOMAIN x /\ x["report"].is \in {"full", "fp", "trace"})
  OBVIOUS
<1> HIDE DEF S, t
<1>3. 1 \in S => Latest(S) = 1
  BY <1>2, LatestIs
<1>4. AskedReport(t) = Report(x, "fp")
  BY <1>1, <1>2, <1>3 DEF Report, Gives
<1>. QED
  BY <1>4 DEF t

LEMMA ReportAsked ==
  ASSUME NEW x, NEW y, NEW z
  PROVE  AskedReport(<<x, y, z>>) = Report(z, Report(y, Report(x, "fp")))
<1> DEFINE t == <<x, y, z>>
           S == {i \in DOMAIN t : "report" \in DOMAIN t[i] /\ t[i]["report"].is \in {"full", "fp", "trace"}}
<1>1. AskedReport(t) = IF S = {} THEN "fp" ELSE t[Latest(S)]["report"].is
  BY DEF AskedReport, Asked, Giving
<1>2. /\ S \subseteq 1..3 /\ t[1] = x /\ t[2] = y /\ t[3] = z
      /\ 1 \in S <=> "report" \in DOMAIN x /\ x["report"].is \in {"full", "fp", "trace"}
      /\ 2 \in S <=> "report" \in DOMAIN y /\ y["report"].is \in {"full", "fp", "trace"}
      /\ 3 \in S <=> "report" \in DOMAIN z /\ z["report"].is \in {"full", "fp", "trace"}
  <2>1. DOMAIN t = 1..3 /\ t[1] = x /\ t[2] = y /\ t[3] = z
    OBVIOUS
  <2> HIDE DEF t
  <2>. QED
    BY <2>1
<1> HIDE DEF S, t
<1>3. S = {} \/ 1 \in S \/ 2 \in S \/ 3 \in S
  BY <1>2
<1>4. AskedReport(t) = Report(z, Report(y, Report(x, "fp")))
  <2>1. CASE 3 \in S
    BY <1>1, <1>2, <2>1, LatestIs DEF Report, Gives
  <2>2. CASE 3 \notin S /\ 2 \in S
    BY <1>1, <1>2, <2>2, LatestIs DEF Report, Gives
  <2>3. CASE 3 \notin S /\ 2 \notin S /\ 1 \in S
    BY <1>1, <1>2, <2>3, LatestIs DEF Report, Gives
  <2>4. CASE S = {}
    BY <1>1, <1>2, <2>4 DEF Report, Gives
  <2>. QED
    BY <1>3, <2>1, <2>2, <2>3, <2>4
<1>. QED
  BY <1>4 DEF t

LEMMA FocusAskedOnce ==
  ASSUME NEW x
  PROVE  AskedFocus(<<x>>) = Focus(x, WallTime)
<1> DEFINE t == <<x>>
           S == {i \in DOMAIN t : "fp_focus" \in DOMAIN t[i] /\ t[i]["fp_focus"].is \in Metrics}
<1>1. AskedFocus(t) = IF S = {} THEN WallTime ELSE t[Latest(S)]["fp_focus"].is
  BY DEF AskedFocus, Asked, Giving
<1>2. S \subseteq {1} /\ {1} \subseteq 1..3 /\ t[1] = x /\ (1 \in S <=> "fp_focus" \in DOMAIN x /\ x["fp_focus"].is \in Metrics)
  OBVIOUS
<1> HIDE DEF S, t
<1>3. 1 \in S => Latest(S) = 1
  BY <1>2, LatestIs
<1>4. AskedFocus(t) = Focus(x, WallTime)
  BY <1>1, <1>2, <1>3 DEF Focus, Gives
<1>. QED
  BY <1>4 DEF t

LEMMA FocusAsked ==
  ASSUME NEW x, NEW y, NEW z
  PROVE  AskedFocus(<<x, y, z>>) = Focus(z, Focus(y, Focus(x, WallTime)))
<1> DEFINE t == <<x, y, z>>
           S == {i \in DOMAIN t : "fp_focus" \in DOMAIN t[i] /\ t[i]["fp_focus"].is \in Metrics}
<1>1. AskedFocus(t) = IF S = {} THEN WallTime ELSE t[Latest(S)]["fp_focus"].is
  BY DEF AskedFocus, Asked, Giving
<1>2. /\ S \subseteq 1..3 /\ t[1] = x /\ t[2] = y /\ t[3] = z
      /\ 1 \in S <=> "fp_focus" \in DOMAIN x /\ x["fp_focus"].is \in Metrics
      /\ 2 \in S <=> "fp_focus" \in DOMAIN y /\ y["fp_focus"].is \in Metrics
      /\ 3 \in S <=> "fp_focus" \in DOMAIN z /\ z["fp_focus"].is \in Metrics
  <2>1. DOMAIN t = 1..3 /\ t[1] = x /\ t[2] = y /\ t[3] = z
    OBVIOUS
  <2> HIDE DEF t
  <2>. QED
    BY <2>1
<1> HIDE DEF S, t
<1>3. S = {} \/ 1 \in S \/ 2 \in S \/ 3 \in S
  BY <1>2
<1>4. AskedFocus(t) = Focus(z, Focus(y, Focus(x, WallTime)))
  <2>1. CASE 3 \in S
    BY <1>1, <1>2, <2>1, LatestIs DEF Focus, Gives
  <2>2. CASE 3 \notin S /\ 2 \in S
    BY <1>1, <1>2, <2>2, LatestIs DEF Focus, Gives
  <2>3. CASE 3 \notin S /\ 2 \notin S /\ 1 \in S
    BY <1>1, <1>2, <2>3, LatestIs DEF Focus, Gives
  <2>4. CASE S = {}
    BY <1>1, <1>2, <2>4 DEF Focus, Gives
  <2>. QED
    BY <1>3, <2>1, <2>2, <2>3, <2>4
<1>. QED
  BY <1>4 DEF t

-----------------------------------------------------------------------------
(* The configuration that a list of sources makes. *)

LEMMA SourceFields ==
  ASSUME NEW s, NEW c
  PROVE  LET f == source_data_to_config(s, c)
         IN  /\ f.enabled = Flag(s, "enabled", c.enabled)
             /\ f.key = String(s, "key", c.key)
             /\ f.ui_uri = String(s, "ui_uri", c.ui_uri)
             /\ f.auto_start = Flag(s, "auto_start", c.auto_start)
             /\ f.sampling_period = Number(s, "sampling_period", c.sampling_period, MaxPeriod)
             /\ f.builtins = Flag(s, "builtins", c.builtins)
             /\ f.max_depth = Number(s, "depth", c.max_depth, MaxDepth)
             /\ f.enabled_metrics = MetricsOf(s, c.enabled_metrics)
             /\ f.report = Report(s, c.report)
             /\ f.fp_focus = Focus(s, c.fp_focus)
             /\ f.fp_inc = Flag(s, "fp_inc", c.fp_inc)
             /\ f.fp_rel = Flag(s, "fp_rel", c.fp_rel)
             /\ f.fp_limit = Number(s, "fp_limit", c.fp_limit, MaxLimit)
             /\ f.fp_live = Flag(s, "fp_live", c.fp_live)
             /\ f.fp_color = Flag(s, "fp_color", c.fp_color)
             /\ f.trace_file = String(s, "trace_file", c.trace_file)
             /\ f.trace_safe = Flag(s, "trace_safe", c.trace_safe)
  BY DEF source_data_to_config

\* Members that fix_config leaves alone.
Left == {"enabled", "key", "auto_start", "sampling_period", "builtins", "max_depth", "fp_focus",
         "fp_inc", "fp_rel", "fp_limit", "fp_live", "fp_color", "trace_file", "trace_safe"}

LEMMA FixFields ==
  ASSUME NEW b \in BOOLEAN, NEW c \in Config
  PROVE  LET f == fix_config(b, c)
             report == IF b THEN c.report ELSE "full"
         IN  /\ \A m \in Left : f[m] = c[m]
             /\ f.ui_uri = IF b THEN Null ELSE c.ui_uri
             /\ f.report = report
             /\ f.enabled_metrics =
                  (IF report = "full" THEN {WallTime, ZeMemory}
                   ELSE IF report = "fp" THEN {c.fp_focus} ELSE {}) \cup c.enabled_metrics
<1> DEFINE report == IF b THEN c.report ELSE "full"
           uri == IF b THEN Null ELSE c.ui_uri
           metrics == (c.enabled_metrics \cup (IF report = "full" THEN {WallTime, ZeMemory} ELSE {}))
                        \cup (IF report = "fp" THEN {c.fp_focus} ELSE {})
           d == [c EXCEPT !.ui_uri = uri]
           e == [d EXCEPT !.report = report]
           f == [e EXCEPT !.enabled_metrics = metrics]
<1>1. fix_config(b, c) = f
  BY Zenon DEF fix_config
<1>2. metrics = (IF report = "full" THEN {WallTime, ZeMemory}
                 ELSE IF report = "fp" THEN {c.fp_focus} ELSE {}) \cup c.enabled_metrics
  OBVIOUS
<1>3. DOMAIN c = Left \cup {"ui_uri", "report", "enabled_metrics"}
  BY DEF Config, Left
<1> HIDE DEF metrics, report, uri
<1>4. DOMAIN d = DOMAIN c /\ d.ui_uri = uri /\ \A m \in Left : d[m] = c[m]
  BY <1>3 DEF Left
<1> HIDE DEF d
<1>5. DOMAIN e = DOMAIN c /\ e.ui_uri = uri /\ e.report = report /\ \A m \in Left : e[m] = d[m]
  BY <1>3, <1>4 DEF Left
<1> HIDE DEF e
<1>6. /\ f.ui_uri = uri /\ f.report = report /\ f.enabled_metrics = metrics
      /\ \A m \in Left : f[m] = e[m]
  BY <1>3, <1>5 DEF Left
<1> HIDE DEF f
<1>7. \A m \in Left : f[m] = c[m]
  BY <1>4, <1>5, <1>6
<1>. QED
  BY <1>1, <1>2, <1>6, <1>7 DEF uri, report

LEMMA InitFields ==
  ASSUME NEW b \in BOOLEAN
  PROVE  LET c == init_config(b)
         IN  /\ c.enabled = FALSE /\ c.key = Null /\ c.ui_uri = Null /\ c.auto_start = TRUE
             /\ c.sampling_period = 0 /\ c.builtins = FALSE /\ c.max_depth = 0
             /\ c.enabled_metrics = {WallTime, ZeMemory} /\ (b => c.report = "fp")
             /\ c.fp_focus = WallTime /\ c.fp_inc = FALSE /\ c.fp_rel = FALSE
             /\ c.fp_limit = 10 /\ c.fp_live = FALSE /\ c.fp_color = TRUE
             /\ c.trace_file = Null /\ c.trace_safe = FALSE
  BY DEF init_config

\* c is what the sources make of the defaults, before it is fixed.
Reads(c, asked) ==
  /\ c.enabled = AskedFlag(asked, "enabled", FALSE)
  /\ c.auto_start = AskedFlag(asked, "auto_start", TRUE)
  /\ c.builtins = AskedFlag(asked, "builtins", FALSE)
  /\ c.sampling_period = AskedNumber(asked, "sampling_period", 0, MaxPeriod)
  /\ c.max_depth = AskedNumber(asked, "depth", 0, MaxDepth)
  /\ c.ui_uri = AskedString(asked, "ui_uri") /\ c.key = AskedString(asked, "key")
  /\ c.enabled_metrics = AskedMetrics(asked)
  /\ cli => c.report = AskedReport(asked)
  /\ c.fp_focus = AskedFocus(asked)
  /\ c.fp_limit = AskedNumber(asked, "fp_limit", 10, MaxLimit)
  /\ c.fp_inc = AskedFlag(asked, "fp_inc", FALSE)
  /\ c.fp_rel = AskedFlag(asked, "fp_rel", FALSE)
  /\ c.fp_live = AskedFlag(asked, "fp_live", FALSE)
  /\ c.fp_color = AskedFlag(asked, "fp_color", TRUE)
  /\ c.trace_file = AskedString(asked, "trace_file")
  /\ c.trace_safe = AskedFlag(asked, "trace_safe", FALSE)

LEMMA FixedAsks ==
  ASSUME NEW c \in Config, NEW asked, Reads(c, asked), cli \in BOOLEAN
  PROVE  IsAsked(fix_config(cli, c), asked)
<1> DEFINE f == fix_config(cli, c)
<1>1. \A m \in Left : f[m] = c[m]
  BY FixFields
<1>2. /\ f.ui_uri = (IF cli THEN Null ELSE AskedString(asked, "ui_uri"))
      /\ f.report = IF cli THEN AskedReport(asked) ELSE "full"
      /\ f.enabled_metrics = (IF f.report = "full" THEN {WallTime, ZeMemory}
                              ELSE IF f.report = "fp" THEN {AskedFocus(asked)} ELSE {})
                               \cup AskedMetrics(asked)
  BY FixFields DEF Reads
<1> HIDE DEF f
<1>5. /\ f.enabled = c.enabled /\ f.auto_start = c.auto_start /\ f.builtins = c.builtins
      /\ f.sampling_period = c.sampling_period /\ f.max_depth = c.max_depth /\ f.key = c.key
      /\ f.fp_focus = c.fp_focus /\ f.fp_limit = c.fp_limit /\ f.fp_inc = c.fp_inc
      /\ f.fp_rel = c.fp_rel /\ f.fp_live = c.fp_live /\ f.fp_color = c.fp_color
      /\ f.trace_file = c.trace_file /\ f.trace_safe = c.trace_safe
  BY <1>1 DEF Left
<1>6. IsAsked(f, asked)
  BY <1>2, <1>5 DEF Reads, IsAsked, MaxPeriod, MaxDepth, MaxLimit
<1>. QED
  BY <1>6 DEF f

LEMMA OneAsks ==
  ASSUME NEW s, IsSource(s, Parameters), cli \in BOOLEAN
  PROVE  IsAsked(fix_config(cli, source_data_to_config(s, init_config(cli))), <<s>>)
<1> DEFINE i == init_config(cli)
           c == source_data_to_config(s, i)
           asked == <<s>>
<1>1. i \in Config /\ c \in Config
  BY InitConfigTyped, SourceTyped
<1> HIDE DEF MaxPeriod, MaxDepth, MaxLimit, i, asked
<1>2. Reads(c, asked)
  <2>1. /\ i.enabled = FALSE /\ i.key = Null /\ i.ui_uri = Null /\ i.auto_start = TRUE
        /\ i.sampling_period = 0 /\ i.builtins = FALSE /\ i.max_depth = 0
        /\ i.enabled_metrics = {WallTime, ZeMemory} /\ (cli => i.report = "fp")
        /\ i.fp_focus = WallTime /\ i.fp_inc = FALSE /\ i.fp_rel = FALSE
        /\ i.fp_limit = 10 /\ i.fp_live = FALSE /\ i.fp_color = TRUE
        /\ i.trace_file = Null /\ i.trace_safe = FALSE
    BY InitFields DEF i
  <2>2. /\ \A p, d : AskedFlag(asked, p, d) = Flag(s, p, d)
        /\ \A p, d, max : AskedNumber(asked, p, d, max) = Number(s, p, d, max)
        /\ \A p : AskedString(asked, p) = String(s, p, Null)
        /\ AskedMetrics(asked) = MetricsOf(s, {WallTime, ZeMemory})
        /\ AskedReport(asked) = Report(s, "fp") /\ AskedFocus(asked) = Focus(s, WallTime)
    BY FlagAskedOnce, NumberAskedOnce, StringAskedOnce, MetricsAskedOnce, ReportAskedOnce,
       FocusAskedOnce DEF asked
  <2>3. /\ c.enabled = Flag(s, "enabled", FALSE) /\ c.auto_start = Flag(s, "auto_start", TRUE)
        /\ c.builtins = Flag(s, "builtins", FALSE)
        /\ c.sampling_period = Number(s, "sampling_period", 0, MaxPeriod)
        /\ c.max_depth = Number(s, "depth", 0, MaxDepth)
        /\ c.ui_uri = String(s, "ui_uri", Null) /\ c.key = String(s, "key", Null)
        /\ c.enabled_metrics = MetricsOf(s, {WallTime, ZeMemory})
        /\ cli => c.report = Report(s, "fp")
        /\ c.fp_focus = Focus(s, WallTime)
        /\ c.fp_limit = Number(s, "fp_limit", 10, MaxLimit)
        /\ c.fp_inc = Flag(s, "fp_inc", FALSE) /\ c.fp_rel = Flag(s, "fp_rel", FALSE)
        /\ c.fp_live = Flag(s, "fp_live", FALSE) /\ c.fp_color = Flag(s, "fp_color", TRUE)
        /\ c.trace_file = String(s, "trace_file", Null)
        /\ c.trace_safe = Flag(s, "trace_safe", FALSE)
    BY <2>1 DEF source_data_to_config
  <2> HIDE DEF c
  <2>4. /\ c.enabled = AskedFlag(asked, "enabled", FALSE)
        /\ c.auto_start = AskedFlag(asked, "auto_start", TRUE)
        /\ c.builtins = AskedFlag(asked, "builtins", FALSE)
        /\ c.fp_inc = AskedFlag(asked, "fp_inc", FALSE)
        /\ c.fp_rel = AskedFlag(asked, "fp_rel", FALSE)
        /\ c.fp_live = AskedFlag(asked, "fp_live", FALSE)
        /\ c.fp_color = AskedFlag(asked, "fp_color", TRUE)
        /\ c.trace_safe = AskedFlag(asked, "trace_safe", FALSE)
    BY <2>2, <2>3
  <2>5. /\ c.sampling_period = AskedNumber(asked, "sampling_period", 0, MaxPeriod)
        /\ c.max_depth = AskedNumber(asked, "depth", 0, MaxDepth)
        /\ c.fp_limit = AskedNumber(asked, "fp_limit", 10, MaxLimit)
    BY <2>2, <2>3
  <2>6. /\ c.ui_uri = AskedString(asked, "ui_uri") /\ c.key = AskedString(asked, "key")
        /\ c.trace_file = AskedString(asked, "trace_file")
        /\ c.enabled_metrics = AskedMetrics(asked)
        /\ cli => c.report = AskedReport(asked)
        /\ c.fp_focus = AskedFocus(asked)
    BY <2>2, <2>3
  <2>. QED
    BY <2>4, <2>5, <2>6 DEF Reads
<1> HIDE DEF c
<1>3. IsAsked(fix_config(cli, c), asked)
  BY <1>1, <1>2, FixedAsks
<1>. QED
  BY <1>3 DEF c, i, asked

LEMMA ThreeAsk ==
  ASSUME NEW x, NEW y, NEW z, cli = FALSE,
         IsSource(x, Parameters), IsSource(y, Parameters), IsSource(z, Parameters)
  PROVE  /\ IsAsked(ConfigFromClient(x, y, z), <<x, y, z>>)
         /\ ConfigFromClient(x, y, z) \in Config
<1> DEFINE i == init_config(FALSE)
           c == source_data_to_config(x, i)
           h == source_data_to_config(y, c)
           q == source_data_to_config(z, h)
           asked == <<x, y, z>>
<1>1. i \in Config
  BY InitConfigTyped
<1> HIDE DEF MaxPeriod, MaxDepth, MaxLimit, i, asked
<1>2. c \in Config
  BY <1>1, SourceTyped
<1>3. /\ c.enabled = Flag(x, "enabled", FALSE) /\ c.auto_start = Flag(x, "auto_start", TRUE)
      /\ c.builtins = Flag(x, "builtins", FALSE)
      /\ c.sampling_period = Number(x, "sampling_period", 0, MaxPeriod)
      /\ c.max_depth = Number(x, "depth", 0, MaxDepth)
      /\ c.ui_uri = String(x, "ui_uri", Null) /\ c.key = String(x, "key", Null)
      /\ c.enabled_metrics = MetricsOf(x, {WallTime, ZeMemory})
      /\ c.fp_focus = Focus(x, WallTime)
      /\ c.fp_limit = Number(x, "fp_limit", 10, MaxLimit)
      /\ c.fp_inc = Flag(x, "fp_inc", FALSE) /\ c.fp_rel = Flag(x, "fp_rel", FALSE)
      /\ c.fp_live = Flag(x, "fp_live", FALSE) /\ c.fp_color = Flag(x, "fp_color", TRUE)
      /\ c.trace_file = String(x, "trace_file", Null)
      /\ c.trace_safe = Flag(x, "trace_safe", FALSE)
  <2>1. /\ i.enabled = FALSE /\ i.key = Null /\ i.ui_uri = Null /\ i.auto_start = TRUE
        /\ i.sampling_period = 0 /\ i.builtins = FALSE /\ i.max_depth = 0
        /\ i.enabled_metrics = {WallTime, ZeMemory}
        /\ i.fp_focus = WallTime /\ i.fp_inc = FALSE /\ i.fp_rel = FALSE
        /\ i.fp_limit = 10 /\ i.fp_live = FALSE /\ i.fp_color = TRUE
        /\ i.trace_file = Null /\ i.trace_safe = FALSE
    BY InitFields DEF i
  <2>. QED
    BY <2>1 DEF source_data_to_config
<1> HIDE DEF c
<1>4. h \in Config
  BY <1>2, SourceTyped
<1>5. Reads(q, asked)
  <2>1. /\ \A p, d : AskedFlag(asked, p, d) = Flag(z, p, Flag(y, p, Flag(x, p, d)))
        /\ \A p, d, max : AskedNumber(asked, p, d, max)
                            = Number(z, p, Number(y, p, Number(x, p, d, max), max), max)
        /\ \A p : AskedString(asked, p) = String(z, p, String(y, p, String(x, p, Null)))
        /\ AskedMetrics(asked) = MetricsOf(z, MetricsOf(y, MetricsOf(x, {WallTime, ZeMemory})))
        /\ AskedFocus(asked) = Focus(z, Focus(y, Focus(x, WallTime)))
    BY FlagAsked, NumberAsked, StringAsked, MetricsAsked, FocusAsked DEF asked
  <2>2. /\ h.enabled = Flag(y, "enabled", c.enabled)
        /\ h.auto_start = Flag(y, "auto_start", c.auto_start)
        /\ h.builtins = Flag(y, "builtins", c.builtins)
        /\ h.sampling_period = Number(y, "sampling_period", c.sampling_period, MaxPeriod)
        /\ h.max_depth = Number(y, "depth", c.max_depth, MaxDepth)
        /\ h.ui_uri = String(y, "ui_uri", c.ui_uri) /\ h.key = String(y, "key", c.key)
        /\ h.enabled_metrics = MetricsOf(y, c.enabled_metrics)
        /\ h.fp_focus = Focus(y, c.fp_focus)
        /\ h.fp_limit = Number(y, "fp_limit", c.fp_limit, MaxLimit)
        /\ h.fp_inc = Flag(y, "fp_inc", c.fp_inc) /\ h.fp_rel = Flag(y, "fp_rel", c.fp_rel)
        /\ h.fp_live = Flag(y, "fp_live", c.fp_live)
        /\ h.fp_color = Flag(y, "fp_color", c.fp_color)
        /\ h.trace_file = String(y, "trace_file", c.trace_file)
        /\ h.trace_safe = Flag(y, "trace_safe", c.trace_safe)
    BY DEF source_data_to_config
  <2> HIDE DEF h
  <2>3. /\ q.enabled = Flag(z, "enabled", h.enabled)
        /\ q.auto_start = Flag(z, "auto_start", h.auto_start)
        /\ q.builtins = Flag(z, "builtins", h.builtins)
        /\ q.sampling_period = Number(z, "sampling_period", h.sampling_period, MaxPeriod)
        /\ q.max_depth = Number(z, "depth", h.max_depth, MaxDepth)
        /\ q.ui_uri = String(z, "ui_uri", h.ui_uri) /\ q.key = String(z, "key", h.key)
        /\ q.enabled_metrics = MetricsOf(z, h.enabled_metrics)
        /\ q.fp_focus = Focus(z, h.fp_focus)
        /\ q.fp_limit = Number(z, "fp_limit", h.fp_limit, MaxLimit)
        /\ q.fp_inc = Flag(z, "fp_inc", h.fp_inc) /\ q.fp_rel = Flag(z, "fp_rel", h.fp_rel)
        /\ q.fp_live = Flag(z, "fp_live", h.fp_live)
        /\ q.fp_color = Flag(z, "fp_color", h.fp_color)
        /\ q.trace_file = String(z, "trace_file", h.trace_file)
        /\ q.trace_safe = Flag(z, "trace_safe", h.trace_safe)
    BY DEF source_data_to_config
  <2> HIDE DEF q
  <2>4. /\ q.enabled = AskedFlag(asked, "enabled", FALSE)
        /\ q.auto_start = AskedFlag(asked, "auto_start", TRUE)
        /\ q.builtins = AskedFlag(asked, "builtins", FALSE)
        /\ q.fp_inc = AskedFlag(asked, "fp_inc", FALSE)
        /\ q.fp_rel = AskedFlag(asked, "fp_rel", FALSE)
        /\ q.fp_live = AskedFlag(asked, "fp_live", FALSE)
        /\ q.fp_color = AskedFlag(asked, "fp_color", TRUE)
        /\ q.trace_safe = AskedFlag(asked, "trace_safe", FALSE)
    <3>1. /\ h.enabled = Flag(y, "enabled", Flag(x, "enabled", FALSE))
          /\ h.auto_start = Flag(y, "auto_start", Flag(x, "auto_start", TRUE))
          /\ h.builtins = Flag(y, "builtins", Flag(x, "builtins", FALSE))
          /\ h.fp_inc = Flag(y, "fp_inc", Flag(x, "fp_inc", FALSE))
          /\ h.fp_rel = Flag(y, "fp_rel", Flag(x, "fp_rel", FALSE))
          /\ h.fp_live = Flag(y, "fp_live", Flag(x, "fp_live", FALSE))
          /\ h.fp_color = Flag(y, "fp_color", Flag(x, "fp_color", TRUE))
          /\ h.trace_safe = Flag(y, "trace_safe", Flag(x, "trace_safe", FALSE))
      BY <1>3, <2>2
    <3>2. /\ q.enabled = Flag(z, "enabled", Flag(y, "enabled", Flag(x, "enabled", FALSE)))
          /\ q.auto_start = Flag(z, "auto_start", Flag(y, "auto_start", Flag(x, "auto_start", TRUE)))
          /\ q.builtins = Flag(z, "builtins", Flag(y, "builtins", Flag(x, "builtins", FALSE)))
          /\ q.fp_inc = Flag(z, "fp_inc", Flag(y, "fp_inc", Flag(x, "fp_inc", FALSE)))
          /\ q.fp_rel = Flag(z, "fp_rel", Flag(y, "fp_rel", Flag(x, "fp_rel", FALSE)))
          /\ q.fp_live = Flag(z, "fp_live", Flag(y, "fp_live", Flag(x, "fp_live", FALSE)))
          /\ q.fp_color = Flag(z, "fp_color", Flag(y, "fp_color", Flag(x, "fp_color", TRUE)))
          /\ q.trace_safe = Flag(z, "trace_safe", Flag(y, "trace_safe", Flag(x, "trace_safe", FALSE)))
      BY <2>3, <3>1
    <3> HIDE DEF asked
    <3>3. q.enabled = AskedFlag(asked, "enabled", FALSE)
      BY <2>1, <3>2
    <3>4. q.auto_start = AskedFlag(asked, "auto_start", TRUE)
      BY <2>1, <3>2, ZenonT(60)
    <3>5. q.builtins = AskedFlag(asked, "builtins", FALSE)
      BY <2>1, <3>2
    <3>6. q.fp_inc = AskedFlag(asked, "fp_inc", FALSE)
      BY <2>1, <3>2
    <3>7. q.fp_rel = AskedFlag(asked, "fp_rel", FALSE)
      BY <2>1, <3>2
    <3>8. q.fp_live = AskedFlag(asked, "fp_live", FALSE)
      BY <2>1, <3>2
    <3>9. q.fp_color = AskedFlag(asked, "fp_color", TRUE)
      BY <2>1, <3>2, ZenonT(60)
    <3>10. q.trace_safe = AskedFlag(asked, "trace_safe", FALSE)
      BY <2>1, <3>2
    <3>. QED
      BY <3>3, <3>4, <3>5, <3>6, <3>7, <3>8, <3>9, <3>10
  <2>5. /\ q.sampling_period = AskedNumber(asked, "sampling_period", 0, MaxPeriod)
        /\ q.max_depth = AskedNumber(asked, "depth", 0, MaxDepth)
        /\ q.fp_limit = AskedNumber(asked, "fp_limit", 10, MaxLimit)
    BY <1>3, <2>1, <2>2, <2>3
  <2>6. /\ q.ui_uri = AskedString(asked, "ui_uri") /\ q.key = AskedString(asked, "key")
        /\ q.trace_file = AskedString(asked, "trace_file")
    BY <1>3, <2>1, <2>2, <2>3
  <2>7. q.enabled_metrics = AskedMetrics(asked)
    BY <1>3, <2>1, <2>2, <2>3
  <2>8. q.fp_focus = AskedFocus(asked)
    BY <1>3, <2>1, <2>2, <2>3
  <2>. QED
    BY <2>4, <2>5, <2>6, <2>7, <2>8 DEF Reads
<1> HIDE DEF h
<1>6. q \in Config
  BY <1>4, SourceTyped
<1> HIDE DEF q
<1>7. IsAsked(fix_config(FALSE, q), asked)
  BY <1>5, <1>6, FixedAsks
<1>8. fix_config(FALSE, q) \in Config
  BY <1>6, FixTyped
<1>9. ConfigFromClient(x, y, z) = fix_config(FALSE, q)
  BY Zenon DEF ConfigFromClient, q, h, c, i
<1>. QED
  BY <1>7, <1>8, <1>9 DEF asked

-----------------------------------------------------------------------------
(* Powers of two, and the networks they make.  Induction is that of the well     *)
(* founded order of the naturals, whose minimum theorem is first order.          *)

LEMMA LeastElement ==
  ASSUME NEW T \in SUBSET Nat, T # {}
  PROVE  \E x \in T : \A y \in T : x <= y
<1> DEFINE R == {p \in Nat \X Nat : p[1] < p[2]}
<1>1. IsWellFoundedOn(R, Nat)
  <2> SUFFICES IsWellFoundedOn(OpToRel(<, Nat), Nat)
    BY Zenon DEF OpToRel
  <2> QED BY NatLessThanWellFounded, Zenon
<1>2. PICK x \in T : \A y \in T : ~(<<y, x>> \in R)
  <2> HIDE DEF R
  <2> QED BY <1>1, WFMin
<1>3. ASSUME NEW y \in T
      PROVE  x <= y
  <2>1. ~(<<y, x>> \in R)
    BY <1>2
  <2>2. <<y, x>> \in Nat \X Nat /\ x \in Nat /\ y \in Nat
    OBVIOUS
  <2>3. QED
    BY <2>1, <2>2
<1>4. QED
  BY <1>3

LEMMA SetInduction ==
  ASSUME NEW S, 0 \in S, \A n \in Nat : n \in S => n + 1 \in S
  PROVE  Nat \subseteq S
<1> SUFFICES ASSUME ~(Nat \subseteq S) PROVE FALSE
  OBVIOUS
<1> DEFINE T == Nat \ S
<1>1. PICK x \in T : \A y \in T : x <= y
  BY LeastElement
<1>2. x - 1 \in Nat /\ x - 1 \notin T
  BY <1>1
<1>3. QED
  BY <1>1, <1>2

\* g is the powers of two as far as n.
PowersUpTo(g, n) == g = [k \in 0 .. n |-> IF k = 0 THEN 1 ELSE 2 * g[k - 1]]

LEMMA PowersUpToExist == \A n \in Nat : \E g : PowersUpTo(g, n)
<1> DEFINE S == {n \in Nat : \E g : PowersUpTo(g, n)}
<1>1. 0 \in S
  <2>1. PowersUpTo([k \in 0 .. 0 |-> 1], 0)
    BY DEF PowersUpTo
  <2>. QED
    BY <2>1
<1>2. ASSUME NEW n \in Nat, n \in S
      PROVE  n + 1 \in S
  <2>1. PICK g : PowersUpTo(g, n)
    BY <1>2
  <2> DEFINE h == [k \in 0 .. n + 1 |-> IF k = n + 1 THEN 2 * g[n] ELSE g[k]]
  <2>2. ASSUME NEW k \in 0 .. n + 1
        PROVE  h[k] = IF k = 0 THEN 1 ELSE 2 * h[k - 1]
    <3>1. CASE k = n + 1
      <4>1. n \in 0 .. n + 1 /\ n # n + 1 /\ k - 1 = n /\ k # 0
        BY <3>1
      <4>. QED
        BY <3>1, <4>1
    <3>2. CASE k = 0
      <4>1. 0 \in 0 .. n /\ 0 # n + 1
        OBVIOUS
      <4>2. g[0] = 1
        BY <2>1, <4>1 DEF PowersUpTo
      <4>. QED
        BY <3>2, <4>1, <4>2
    <3>3. CASE k # 0 /\ k # n + 1
      <4>1. k \in 0 .. n /\ k - 1 \in 0 .. n + 1 /\ k - 1 # n + 1
        BY <3>3
      <4>2. g[k] = 2 * g[k - 1]
        BY <2>1, <3>3, <4>1 DEF PowersUpTo
      <4>. QED
        BY <3>3, <4>1, <4>2
    <3>. QED
      BY <3>1, <3>2, <3>3
  <2>3. h = [k \in 0 .. n + 1 |-> h[k]]
    OBVIOUS
  <2> HIDE DEF h
  <2>4. PowersUpTo(h, n + 1)
    BY <2>2, <2>3 DEF PowersUpTo
  <2>. QED
    BY <2>4
<1> HIDE DEF S
<1>3. Nat \subseteq S
  BY <1>1, <1>2, SetInduction
<1>. QED
  BY <1>3 DEF S

LEMMA PowersUpToAgree ==
  ASSUME NEW n \in Nat, NEW g, NEW h, PowersUpTo(g, n + 1), PowersUpTo(h, n)
  PROVE  g[n] = h[n]
<1> DEFINE S == {k \in Nat : k <= n => g[k] = h[k]}
<1>1. 0 \in S
  BY DEF PowersUpTo
<1>2. ASSUME NEW k \in Nat, k \in S
      PROVE  k + 1 \in S
  <2> SUFFICES ASSUME k + 1 <= n PROVE g[k + 1] = h[k + 1]
    OBVIOUS
  <2>1. k + 1 \in 0 .. n /\ k + 1 \in 0 .. n + 1 /\ k + 1 # 0 /\ (k + 1) - 1 = k /\ k <= n
    OBVIOUS
  <2>2. g[k + 1] = 2 * g[k] /\ h[k + 1] = 2 * h[k]
    BY <2>1 DEF PowersUpTo
  <2>. QED
    BY <1>2, <2>1, <2>2
<1> HIDE DEF S
<1>3. Nat \subseteq S
  BY <1>1, <1>2, SetInduction
<1>. QED
  BY <1>3 DEF S

LEMMA TwoToDef == TwoTo = [n \in Nat |-> IF n = 0 THEN 1 ELSE 2 * TwoTo[n - 1]]
<1> DEFINE P(n) == CHOOSE g : PowersUpTo(g, n)
           s == [n \in Nat |-> P(n)[n]]
<1>1. \A n \in Nat : PowersUpTo(P(n), n)
  BY PowersUpToExist
<1> HIDE DEF P
<1>2. ASSUME NEW n \in Nat
      PROVE  s[n] = IF n = 0 THEN 1 ELSE 2 * s[n - 1]
  <2>1. CASE n = 0
    BY <1>1, <2>1 DEF PowersUpTo
  <2>2. CASE n # 0
    <3>1. n - 1 \in Nat /\ n \in 0 .. n /\ (n - 1) + 1 = n
      BY <2>2
    <3>2. P(n)[n] = 2 * P(n)[n - 1]
      BY <1>1, <2>2, <3>1 DEF PowersUpTo
    <3>3. PowersUpTo(P(n), (n - 1) + 1) /\ PowersUpTo(P(n - 1), n - 1)
      BY <1>1, <3>1
    <3>4. P(n)[n - 1] = P(n - 1)[n - 1]
      BY <3>1, <3>3, PowersUpToAgree
    <3>. QED
      BY <2>2, <3>1, <3>2, <3>4
  <2>. QED
    BY <2>1, <2>2
<1>3. s = [n \in Nat |-> s[n]]
  OBVIOUS
<1> HIDE DEF s
<1>4. s = [n \in Nat |-> IF n = 0 THEN 1 ELSE 2 * s[n - 1]]
  BY <1>2, <1>3
<1>. QED
  BY <1>4, Zenon DEF TwoTo

LEMMA TwoToSteps ==
  ASSUME NEW n \in Nat
  PROVE  TwoTo[0] = 1 /\ TwoTo[n + 1] = 2 * TwoTo[n]
<1>1. n + 1 \in Nat /\ n + 1 # 0 /\ (n + 1) - 1 = n /\ 0 \in Nat
  OBVIOUS
<1>. QED
  BY <1>1, TwoToDef

LEMMA TwoToPositive == \A n \in Nat : TwoTo[n] \in Nat \ {0}
<1> DEFINE S == {n \in Nat : TwoTo[n] \in Nat \ {0}}
<1>1. 0 \in S
  BY TwoToSteps
<1>2. ASSUME NEW n \in Nat, n \in S PROVE n + 1 \in S
  BY <1>2, TwoToSteps
<1> HIDE DEF S
<1>3. Nat \subseteq S
  BY <1>1, <1>2, SetInduction
<1>. QED
  BY <1>3 DEF S

\* To divide once more by two.
LEMMA HalfOf ==
  ASSUME NEW a \in Nat, NEW p \in Nat \ {0}
  PROVE  a \div p \in Nat /\ a \div (2 * p) = (a \div p) \div 2
<1> DEFINE q == a \div p
           r == q \div 2
<1>1. q \in Nat /\ q * p <= a /\ a < (q + 1) * p
  OBVIOUS
<1> HIDE DEF q
<1>2. r \in Nat /\ 2 * r <= q /\ q + 1 <= 2 * r + 2
  BY <1>1
<1> HIDE DEF r
<1>3. r * (2 * p) <= a /\ a < (r + 1) * (2 * p)
  <2>1. (2 * r) * p <= q * p /\ (q + 1) * p <= (2 * r + 2) * p
    BY <1>1, <1>2
  <2>. QED
    BY <1>1, <1>2, <2>1
<1>4. a \div (2 * p) = r
  BY <1>2, <1>3
<1>. QED
  BY <1>1, <1>4 DEF q, r

\* A network is the same part above the mask, bit by bit.
LEMMA NetworkIsMasked ==
  ASSUME NEW a \in 0..INADDR_NONE, NEW b \in 0..INADDR_NONE, NEW bits \in 1..Bits - 1
  PROVE  SameNetwork(a, b, bits) <=> Masked(a, bits) = Masked(b, bits)
<1> DEFINE same(k) == \A i \in Bits - k .. Bits - 1 : Bit(a, i) = Bit(b, i)
           D(k) == a \div TwoTo[Bits - k] = b \div TwoTo[Bits - k]
           S == {k \in Nat : k <= Bits => (same(k) <=> D(k))}
<1>1. 0 \in S
  <2>1. Bits - 0 = Bits /\ Bits \in Nat /\ TwoTo[Bits] \in Nat \ {0}
    BY AccessAssumption, TwoToPositive
  <2>2. a \in Nat /\ a < TwoTo[Bits] /\ b \in Nat /\ b < TwoTo[Bits]
    BY <2>1 DEF INADDR_NONE
  <2>3. ASSUME NEW x \in Nat, NEW p \in Nat \ {0}, x < p PROVE x \div p = 0
    BY <2>3
  <2>4. D(0)
    BY <2>1, <2>2, <2>3
  <2>5. same(0)
    BY <2>1
  <2>. QED
    BY <2>4, <2>5
<1>2. ASSUME NEW k \in Nat, k \in S
      PROVE  k + 1 \in S
  <2> SUFFICES ASSUME k + 1 <= Bits PROVE same(k + 1) <=> D(k + 1)
    OBVIOUS
  <2> DEFINE j == Bits - (k + 1)
             p == TwoTo[j]
             x == a \div p
             y == b \div p
  <2>1. j \in Nat /\ j + 1 = Bits - k /\ Bits \in Nat
    BY AccessAssumption
  <2>2. a \in Nat /\ b \in Nat /\ p \in Nat \ {0} /\ TwoTo[Bits - k] = 2 * p
    BY <2>1, TwoToPositive, TwoToSteps, AccessAssumption DEF INADDR_NONE
  <2>3. /\ x \in Nat /\ y \in Nat
        /\ D(k) <=> x \div 2 = y \div 2
    BY <2>2, HalfOf, ZenonT(60)
  <2>4. Bit(a, j) = x % 2 /\ Bit(b, j) = y % 2
    BY DEF Bit
  <2>5. same(k + 1) <=> same(k) /\ Bit(a, j) = Bit(b, j)
    <3>1. \A i : i \in j .. Bits - 1 <=> i \in Bits - k .. Bits - 1 \/ i = j
      BY <2>1
    <3>. QED
      BY <3>1
  <2>6. x = y <=> x \div 2 = y \div 2 /\ x % 2 = y % 2
    BY <2>3
  <2>7. same(k) <=> D(k)
    <3>1. k <= Bits
      BY <2>1
    <3>. QED
      BY <1>2, <3>1
  <2> HIDE DEF x, y, same
  <2>8. D(k + 1) <=> x = y
    BY DEF x, y
  <2>. QED
    BY <2>3, <2>4, <2>5, <2>6, <2>7, <2>8
<1> HIDE DEF S
<1>3. Nat \subseteq S
  BY <1>1, <1>2, SetInduction
<1>4. bits \in Nat /\ bits <= Bits
  BY AccessAssumption
<1>. QED
  BY <1>3, <1>4 DEF S, SameNetwork, Masked

-----------------------------------------------------------------------------
(* Who may ask. *)

LEMMA AcceptsMatches ==
  ASSUME NEW targets \in SUBSET Target, NEW address \in Address
  PROVE  Accepts(targets, address) <=> \E t \in targets : ip_match(address, t)
<1>1. ASSUME NEW t \in targets
      PROVE  ip_match(address, t) <=>
               /\ address # NoAddress
               /\ \/ t.text \in {"*", address.text}
                  \/ t.bits \in 1..Bits - 1 /\ INADDR_NONE \notin {t.ip, address.ip}
                     /\ SameNetwork(t.ip, address.ip, t.bits)
  <2>1. t.ip \in 0..INADDR_NONE /\ address.ip \in 0..INADDR_NONE
    BY DEF Target, Address
  <2>2. t.bits \in 1..Bits - 1 =>
          (SameNetwork(t.ip, address.ip, t.bits) <=> InSubnet(address, t))
    BY <2>1, NetworkIsMasked DEF InSubnet
  <2>. QED
    BY <2>2 DEF ip_match
<1>. QED
  BY <1>1 DEF Accepts

LEMMA EntitledIsGranted ==
  ASSUME NEW client, client.server \in Server, ini \in Inis, NEW key
  PROVE  Entitled(client, key)
           <=> check_access(ini.gate, client.server, ini.http_key, key, Unset)
<1> DEFINE gate == ini.gate
           server == client.server
<1>1. gate \in Gate
  BY RequestAssumption
<1>2. /\ gate.trusted_proxies \in SUBSET Target /\ gate.ip_whitelist \in SUBSET Target
      /\ gate.ip_var \in {"", "REMOTE_ADDR", "FORWARDED"}
  BY <1>1 DEF Gate
<1>3. server["REMOTE_ADDR"] \in Address /\ server["FORWARDED"] \in Address
  BY DEF Server
<1>4. /\ Accepts(gate.trusted_proxies, server["REMOTE_ADDR"])
           <=> \E t \in gate.trusted_proxies : ip_match(server["REMOTE_ADDR"], t)
      /\ gate.ip_var # "" =>
           (Accepts(gate.ip_whitelist, server[gate.ip_var])
              <=> \E t \in gate.ip_whitelist : ip_match(server[gate.ip_var], t))
  BY <1>2, <1>3, AcceptsMatches
<1> HIDE DEF gate, server
<1>5. Entitled(client, key) <=>
        /\ gate.enabled /\ gate.ip_var # ""
        /\ server[gate.ip_var].text # "" /\ Accepts(gate.ip_whitelist, server[gate.ip_var])
        /\ gate.ip_var # "REMOTE_ADDR" =>
             Accepts(gate.trusted_proxies, server["REMOTE_ADDR"])
        /\ key = ini.http_key /\ key \notin {Null, ""}
  BY DEF Entitled, gate, server
<1>6. check_access(gate, server, ini.http_key, key, Unset) <=>
        /\ gate.enabled /\ gate.ip_var # ""
        /\ gate.ip_var = "REMOTE_ADDR"
             \/ \E t \in gate.trusted_proxies : ip_match(server["REMOTE_ADDR"], t)
        /\ server[gate.ip_var].text # ""
        /\ \E t \in gate.ip_whitelist : ip_match(server[gate.ip_var], t)
        /\ ini.http_key \notin {Null, ""} /\ key \notin {Null, ""} /\ ini.http_key = key
  BY DEF check_access, TrustsProxy, IsListed, KeysAgree, Unset
<1>7. Entitled(client, key) <=> check_access(gate, server, ini.http_key, key, Unset)
  BY <1>4, <1>5, <1>6
<1>. QED
  BY <1>7 DEF gate, server

-----------------------------------------------------------------------------
(* The configuration is decided once, when the request comes. *)

\* The configuration that a request, by the command line or a client, leads to.
Deciding(r) == IF cli THEN ConfigFromEnv(r) ELSE ConfigFor(r)

Decided ==
  process = "request" =>
    /\ request \in IF cli THEN Environments ELSE Clients
    /\ config = Deciding(request) /\ handler = HandlerFor(config)

LEMMA NextDecided == Decided /\ [Next]_vars => Decided'
<1> SUFFICES ASSUME Decided, [Next]_vars PROVE Decided'
  OBVIOUS
<1>1. CASE RequestInitCli
  <2>1. PICK env \in Environments, able \in BOOLEAN : Begin(env, ConfigFromEnv(env), able)
    BY <1>1 DEF RequestInitCli
  <2>. QED
    BY <1>1, <2>1 DEF RequestInitCli, Begin, Decided, Deciding
<1>2. CASE RequestInitHttp
  <2>1. PICK client \in Clients, able \in BOOLEAN : Begin(client, ConfigFor(client), able)
    BY <1>2 DEF RequestInitHttp
  <2>. QED
    BY <1>2, <2>1 DEF RequestInitHttp, Begin, Decided, Deciding, ConfigFor
<1>3. CASE ModuleInit \/ ModuleShutdown \/ RequestShutdown
  BY <1>3 DEF ModuleInit, ModuleShutdown, RequestShutdown, Decided
<1>4. CASE EngineAllocates \/ EngineRuns \/ UNCHANGED vars
  BY <1>4 DEF EngineAllocates, EngineRuns, vars, deciding, Decided, Deciding, ConfigFor
<1>. QED
  BY <1>1, <1>2, <1>3, <1>4 DEF Next

LEMMA DecidedInvariance == Spec => []Decided
<1>1. Init => Decided
  BY DEF Init, Decided
<1>. QED
  BY <1>1, NextDecided, PTL DEF Spec

\* What a client asks for is heard when it is entitled, and otherwise the ini
\* settings are.
LEMMA ClientDecides ==
  ASSUME ~cli, cli \in BOOLEAN, ini \in Inis, request \in Clients
  PROVE  IsAsked(ConfigFor(request), Sources)
<1> DEFINE client == <<request.cookie, request.header, request.query>>
           c == ConfigFromClient(request.cookie, request.header, request.query)
           wants == AskedString(client, "ui_uri") # Null \/ AskedFlag(client, "enabled", FALSE)
           key == AskedString(client, "key")
<1>1. /\ request.server \in Server /\ IsSource(request.cookie, Parameters)
      /\ IsSource(request.header, Parameters) /\ IsSource(request.query, Parameters)
  BY RequestAssumption
<1>2. IsAsked(c, client)
  BY <1>1, ThreeAsk
<1>3. IsAsked(ConfigFromIni(ini.source), <<IniTexts(ini.source)>>)
  <2>1. cli = FALSE
    OBVIOUS
  <2>. QED
    BY <2>1, IniSource, OneAsks, Zenon DEF ConfigFromIni
<1> HIDE DEF c, client
<1>4. /\ c.ui_uri = AskedString(client, "ui_uri") /\ c.key = key
      /\ c.enabled = AskedFlag(client, "enabled", FALSE)
  BY <1>2 DEF IsAsked
<1>5. AccessRequired(c) <=> wants
  BY <1>4 DEF AccessRequired
<1>6. check_access(ini.gate, request.server, ini.http_key, c.key, Unset)
        <=> Entitled(request, key)
  BY <1>1, <1>4, EntitledIsGranted
<1> HIDE DEF wants, key
<1>7. ConfigFor(request) = IF wants /\ Entitled(request, key) THEN c
                          ELSE ConfigFromIni(ini.source)
  BY <1>5, <1>6 DEF ConfigFor, c
<1>8. Sources = IF wants /\ Entitled(request, key) THEN client ELSE <<IniTexts(ini.source)>>
  BY DEF Sources, client, wants, key
<1>. QED
  BY <1>2, <1>3, <1>7, <1>8

\* For any settings, environments and clients, networks of any width, and builds of
\* either kind, a request runs under what those ask who may: the command line, a
\* client that is entitled, or the ini settings.  (spx_config.c, check_access and
\* PHP_RINIT_FUNCTION of php_spx.c, spx_utils_ip_match.)
THEOREM ConfigAsked == Spec => []ConfigIsAsked
<1>1. ASSUME DecisionOK, Decided PROVE ConfigIsAsked
  <2> SUFFICES ASSUME process = "request" PROVE ConfigIsAsked
    BY DEF ConfigIsAsked
  <2>1. IsAsked(config, Sources)
    <3>1. CASE cli
      <4>1. request \in Environments /\ config = ConfigFromEnv(request) /\ Sources = <<request>>
        BY <1>1, <3>1 DEF Decided, Deciding, Sources
      <4>2. IsSource(request, Parameters) /\ cli = TRUE
        BY <1>1, <3>1, <4>1, RequestAssumption DEF DecisionOK
      <4>. QED
        BY <4>1, <4>2, OneAsks, Zenon DEF ConfigFromEnv
    <3>2. CASE ~cli
      BY <1>1, <3>2, ClientDecides DEF Decided, Deciding, DecisionOK
    <3>. QED
      BY <3>1, <3>2
  <2>2. handler = HandlerFor(config)
    BY <1>1 DEF Decided
  <2>3. /\ config.ui_uri = (IF cli THEN Null ELSE AskedString(Sources, "ui_uri"))
        /\ config.enabled = AskedFlag(Sources, "enabled", FALSE)
    BY <2>1 DEF IsAsked
  <2>. QED
    BY <2>1, <2>2, <2>3 DEF ConfigIsAsked, HandlerFor
<1>2. Spec => []DecisionOK
  BY InitDecision, NextDecision, PTL DEF Spec
<1>. QED
  BY <1>1, <1>2, DecidedInvariance, PTL
=============================================================================
