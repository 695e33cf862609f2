----------------------------- MODULE SpxExecution -----------------------------
(***************************************************************************)
(* How SPX sits in the Zend engine, src/src/spx_php.c: the pointers of the *)
(* engine that it takes over and gives back, the handlers of the memory    *)
(* manager, and what its hooks count while a request runs.                 *)
(*                                                                         *)
(* A pointer of the engine is whose function it holds: the engine's own,   *)
(* one of another extension, which goes on to the engine's, or SPX's.      *)
(* Other extensions take their functions back before SPX does.  What the   *)
(* hooks tell the profiler is in SpxProfilingHandler.                      *)
(***************************************************************************)
EXTENDS Integers

CONSTANTS
  Taken,             \* sets of pointers that another extension may have taken
  Blocks,            \* blocks of memory
  Sizes,             \* the sizes zend_mm_block_size gives
  IntMax,            \* the largest int, 2^31 - 1
  MaxHeapSteps, MaxCompiled, MaxDeclared, MaxErrors     \* bounds, for a request

\* The pointers of the engine that SPX takes.
Pointers == {"execute", "execute_internal", "compile_file", "compile_string",
             "gc_collect_cycles", "error_cb"}

ASSUME ExecutionAssumption ==
  /\ Taken \subseteq SUBSET Pointers
  /\ Sizes \subseteq Nat \ {0}
  /\ {IntMax, MaxHeapSteps, MaxCompiled, MaxDeclared, MaxErrors} \subseteq Nat

VARIABLES
  engine,        \* the hookable pointers
  hooked,        \* ze_hooked_func: what they held before
  heap,          \* the custom handlers of the heap, "none" without any
  heap_hooked,   \* ze_tls_hooked_func: "null", "ze_mm", or "other"
  hooks,         \* global_hooks_enabled and execution_disabled
  counts,        \* the counters of the hooks
  live,          \* the size of each block, 0 when it is free
  since,         \* history: the blocks and bytes in use, more or less than
                 \* when the heap was hooked, the bytes that blocks lost without
                 \* moving, whether an int overflowed, the steps of the heap
  declared       \* the user functions and classes that the engine has

placing   == <<engine, hooked, heap, heap_hooked>>
measuring == <<counts, live, since, declared>>
execution == <<placing, hooks, measuring>>

\* Another extension has taken some of the pointers; zend_execute_internal is
\* NULL, the engine's own, when none has taken that.
Originals == {[p \in Pointers |-> IF p \in taken THEN "other" ELSE "engine"] : taken \in Taken}
NothingHooked == [p \in Pointers |-> "null"]

NoCounts == [alloc_count |-> 0, alloc_bytes |-> 0, free_count |-> 0, free_bytes |-> 0,
             files |-> 0, lines |-> 0, opcodes |-> 0, errors |-> 0,
             collecting |-> FALSE, userland |-> 0]

NoneSince == [blocks |-> 0, bytes |-> 0, shrunk |-> 0, overflowed |-> FALSE, steps |-> 0]
NoBlocks  == [b \in Blocks |-> 0]

Unused == [enabled |-> FALSE, disabled |-> FALSE]

ExecutionInit ==
  /\ engine \in Originals /\ hooked = NothingHooked
  /\ heap \in {"none", "other"} /\ heap_hooked = "null"
  /\ hooks = Unused
  /\ counts = NoCounts /\ live = NoBlocks /\ since = NoneSince /\ declared = 0

-----------------------------------------------------------------------------
(* Taking the pointers, and giving them back. *)

\* spx_php_global_hooks_set
SetGlobalHooks ==
  /\ hooked' = engine
  /\ engine' = [p \in Pointers |-> "spx"]

\* Mutant: what was there before is put back, also when nothing was kept.
GivenBackAlways(p) == hooked[p]

\* What a pointer holds once it is given back: what it holds, if nothing was
\* kept of it.
GivenBack(p) == IF hooked[p] = "null" THEN engine[p] ELSE hooked[p]

\* spx_php_global_hooks_unset
UnsetGlobalHooks ==
  /\ engine' = [p \in Pointers |-> GivenBack(p)]
  /\ hooked' = NothingHooked

\* reset_context, which clears the counters as well.
Reset == [enabled |-> TRUE, disabled |-> FALSE]

\* spx_php_execution_init.  The handlers of a heap without custom ones are
\* functions of SPX that call the memory manager.
HookHeap ==
  /\ heap_hooked' = IF heap = "none" THEN "ze_mm" ELSE heap
  /\ heap' = "spx"

\* use_custom_heap is cleared where there were no custom handlers.
HeapBefore ==
  IF heap_hooked = "null" THEN heap ELSE IF heap_hooked = "ze_mm" THEN "none" ELSE heap_hooked

\* spx_php_execution_shutdown
UnhookHeap ==
  /\ heap' = HeapBefore
  /\ heap_hooked' = "null"

-----------------------------------------------------------------------------
(* What the hooks let through and count. *)

\* A call of the engine through p gets to what p held before: always, unless
\* it goes through SPX with the execution disabled.
Passes(p) == engine[p] # "spx" \/ ~hooks.enabled \/ ~hooks.disabled

\* ... and SPX counts it.
Counted(p) == engine[p] = "spx" /\ hooks.enabled /\ ~hooks.disabled

\* update_userland_stats
Userland(c) == IF c.collecting THEN [c EXCEPT !.userland = c.opcodes + declared'] ELSE c

\* global_hook_zend_compile_file, global_hook_zend_compile_string: what is
\* compiled declares some functions and classes at once.
Compile(p, lines, opcodes, declares) ==
  /\ p \in {"compile_file", "compile_string"} /\ Passes(p)
  /\ declared' = declared + declares
  /\ counts' = IF ~Counted(p) THEN counts
               ELSE Userland([counts EXCEPT !.files = IF p = "compile_file" THEN @ + 1 ELSE @,
                                            !.lines = @ + 1 + lines,
                                            !.opcodes = @ + opcodes - 1])
  /\ UNCHANGED <<placing, hooks, live, since>>

\* A conditional declaration is executed.
Declare ==
  /\ Passes("execute")
  /\ declared' = declared + 1
  /\ UNCHANGED <<placing, hooks, counts, live, since>>

\* spx_php_zend_class_count, _function_count, _opcode_count: the first reading
\* turns the collection on.
ReadUserland ==
  /\ counts' = IF counts.collecting THEN counts
               ELSE [counts EXCEPT !.collecting = TRUE, !.userland = counts.opcodes + declared]
  /\ UNCHANGED <<placing, hooks, live, since, declared>>

\* global_hook_zend_error_cb
RaiseError ==
  /\ Passes("error_cb")
  /\ counts' = IF Counted("error_cb") THEN [counts EXCEPT !.errors = @ + 1] ELSE counts
  /\ UNCHANGED <<placing, hooks, live, since, declared>>

-----------------------------------------------------------------------------
(* The memory manager.  SPX counts as soon as the heap is hooked. *)

\* ze_mm_block_size, ze_mm_custom_block_size
BlockSize(size) == IF heap_hooked = "ze_mm" THEN size ELSE 0

Allocated(c, size) ==
  [c EXCEPT !.alloc_count = @ + 1, !.alloc_bytes = @ + BlockSize(size)]
Freed(c, size) ==
  [c EXCEPT !.free_count = @ + 1, !.free_bytes = @ + BlockSize(size)]

\* What is in use changes by so many blocks and bytes.
Uses(blocks, bytes) ==
  since' = [since EXCEPT !.blocks = @ + blocks, !.bytes = @ + bytes, !.steps = @ + 1]

Hooking(c) == counts' = IF heap = "spx" THEN c ELSE counts

\* tls_hook_malloc
Malloc(b, size) ==
  /\ live[b] = 0
  /\ live' = [live EXCEPT ![b] = size]
  /\ Hooking(Allocated(counts, size))
  /\ Uses(1, size)
  /\ UNCHANGED <<placing, hooks, declared>>

\* tls_hook_free
Free(b) ==
  /\ live[b] # 0
  /\ live' = [live EXCEPT ![b] = 0]
  /\ Hooking(Freed(counts, live[b]))
  /\ Uses(-1, -live[b])
  /\ UNCHANGED <<placing, hooks, declared>>

\* Mutant: the block that was left is not counted as freed.
MovedOnlyAllocates(old, size) == Allocated(counts, size)

\* tls_hook_realloc, of a block that moves.
Moved(old, size) == Allocated(Freed(counts, old), size)

ReallocMoves(b, c, size) ==
  /\ live[b] # 0 /\ live[c] = 0
  /\ live' = [live EXCEPT ![b] = 0, ![c] = size]
  /\ Hooking(Moved(live[b], size))
  /\ Uses(0, size - live[b])
  /\ UNCHANGED <<placing, hooks, declared>>

\* A difference of sizes, as an int.
AsInt(difference) ==
  ((difference + IntMax + 1) % (2 * (IntMax + 1))) - (IntMax + 1)

\* tls_hook_realloc, of a block that stays: what it gains is counted, what it
\* loses is not.
ReallocStays(b, size) ==
  LET gain == AsInt(BlockSize(size) - BlockSize(live[b]))
  IN  /\ live[b] # 0
      /\ live' = [live EXCEPT ![b] = size]
      /\ Hooking([counts EXCEPT !.alloc_bytes = @ + IF gain > 0 THEN gain ELSE 0])
      /\ since' = [since EXCEPT !.bytes = @ + size - live[b],
                                !.shrunk = @ + IF size < live[b] THEN live[b] - size ELSE 0,
                                !.overflowed = @ \/ size - live[b] \notin -IntMax - 1 .. IntMax,
                                !.steps = @ + 1]
      /\ UNCHANGED <<placing, hooks, declared>>

\* What the engine does in a request, SPX or not, within the bounds.
Execute ==
  \/ /\ declared < MaxDeclared
     /\ \/ Declare
        \/ \E p \in {"compile_file", "compile_string"}, lines, opcodes \in 1..MaxCompiled :
             /\ counts.lines < MaxCompiled /\ counts.opcodes < MaxCompiled
             /\ Compile(p, lines, opcodes, 1)
  \/ counts.errors < MaxErrors /\ RaiseError
  \/ /\ since.steps < MaxHeapSteps
     /\ \E b \in Blocks :
          \/ Free(b)
          \/ \E size \in Sizes : \/ Malloc(b, size)
                                 \/ ReallocStays(b, size)
                                 \/ \E c \in Blocks \ {b} : ReallocMoves(b, c, size)
=============================================================================
