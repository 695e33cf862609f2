# SPX in TLA+

SPX is a profiler that runs inside PHP, as a C extension: it hooks every function call,
reads metrics (time, memory, I/O) at each call and return, and writes reports. This
directory holds TLA+ modules of its core, TLC configurations that check them on small
instances, and proofs, checked by TLAPS, that hold for every instance.

Paths are those of the repository with its root as `src/`: the C files are
`src/src/*.c`, the documentation is `src/README.md` (quoted as `README.md:<line>` in the
modules' comments).

Run a check with `tlc -config MC_Tracer.cfg MC_Tracer.tla`, a proof with
`tlapm SpxProfilerProofs.tla`.

## 1. The system

### Components and how they interact

```
 Zend engine --- hooks ---> spx_php.c ---> php_spx.c (profiling handler, call stack,
   (calls, returns,          |               spans, request start and shutdown)
    compilations, GC,        |                  |  call_start / call_end / finalize
    fatal errors)            |                  v
                             |             spx_profiler_sampler.c   (a thread: heartbeat)
 SIGINT / SIGTERM --> spx_signal_handler.c      |  call_start / call_end, when sampled
                       |                        v
                       +--> shutdown       spx_profiler_tracer.c --- reads ---> spx_metric.c
                                                |  notify(CALL_START/CALL_END/FINALIZE)
                                                v
                                 spx_reporter_{full,trace,fp}.c --> spx_output_stream.c --> files
                                                                                             ^
                                            php_spx.c, web UI requests of other processes ---+
```

Everything runs in the thread that executes PHP, but for three things: the heartbeat
thread of the sampler, which shares two atomic words with it; a signal handler, which may
run between any two statements; and other processes, which share nothing but the files
of the data directory and the trace file.

| Component | State it keeps | Operations | What is hard | What makes it correct |
|---|---|---|---|---|
| Tracing profiler (`spx_profiler_tracer.c`) | frames of the open calls, a table of functions with their totals, the last reading, whether depth is below the limit | `call_start`, `call_end`, `calibrate`, `finalize` | recursion (time must be counted once), a depth limit, a full function table, returns past the limit, finalizing with calls open | totals are the time each function was open, and its own time; no write past the arrays; reporters see bracketed events |
| Sampling profiler (`spx_profiler_sampler.c`) | the current and the previous stack, `ready`, `stop`, the thread | `call_start`, `call_end`, `handle_sample`, `finalize`, `destroy`, the thread's loop | the beat that comes between load and store; the sample taken on a return; stacks compared by hash only; destruction waits for the thread | the tracer is told of the stack, and never of a return it has no call for; sampling resumes; destruction ends |
| Profiling handler and hooks (`php_spx.c`, `spx_php.c`, `spx_call_stack.c`) | the call stack, `span_depth`, `user_depth`, `request_shutdown`, `active_function_name`, the profiler, the reporter and the last key | request start and end, the hooks (user and internal functions, compilation, GC, request shutdown), `spx_profiler_start`, `spx_profiler_stop` | spans nested, unbalanced or left open; starting in the middle of a script; fatal errors, which skip every after hook; objects that cannot be created | no pop without a push; a profiler has the stack it joined; each report is finished, and returned under its key |
| Signal handling (`spx_signal_handler.c`) | `handler_called`, `probing`, `stop` | installation, the callback, deferral, the termination | the callback at any statement, a second signal, a signal during the shutdown | the profiler is not interrupted at work; the process ends; the report of an aborted script is whole |
| Metrics (`spx_metric.c`, `spx_metric_builtin.c`) | reference and last values, the noise due, memoized values | `create`, `collect`, `noise_barrier`, `add_fixed_noise` | taking the profiler's own cost out without going negative; a CPU clock that runs ahead; memoized values that go stale | readings are what the script spent |
| Full report (`spx_reporter_full.c`) | an event buffer, a string builder, a stream, metadata | `notify`, `flush_buffer`, `finalize`, `metadata_save`, custom metadata | two buffers of fixed size behind one another, rows of any length, death of the process between any two steps | each event once and in order; whole rows; finished means complete |
| Trace report (`spx_reporter_trace.c`) | an event buffer, a stream, whether a header is due | `notify`, `flush_buffer` | the same; `SPX_TRACE_SAFE` | a safe trace survives the process |
| Flat profile (`spx_reporter_fp.c`, `spx_fmt.c`) | the lines it printed last, the top functions, copies of two descriptors | creation and destruction, `notify`, `print_report` | choosing the top functions; a live report that overwrites its predecessor on a terminal the script writes to as well; a redirection that fails half-way | the most costly functions are listed, in order; nothing of the script's is erased; stdout and stderr are given back |
| Function table (`spx_hmap.c`, `spx_string_pool.c`, and the table of `spx_profiler_tracer.c`) | entries, chained buckets, blocks of characters | lookup with insertion, reset | collisions, full buckets, full blocks, a full table | one entry for a function, one function for an entry; names apart |
| Configuration (`spx_config.c`) | the parameters of a request | reading of INI, environment, cookie, header and query, repairs | precedence, texts that do not parse, settings that were never set | what was asked by who may ask, and the documented defaults |
| Module and requests (`php_spx.c`, `spx_php.c`) | what SPX has taken of the engine's pointers and of its memory manager, counters of allocations and compilations | module and request start-up and shutdown, the memory hooks | other extensions hook the same pointers; requests of any kind follow one another | the engine is given back as it was; the script runs unless the web UI answers; what is counted is what happened |
| Access check (`php_spx.c`, `spx_utils.c`) | none | check of key, address, proxy | proxies, networks, missing settings | who is not entitled changes nothing |
| Web UI handler (`php_spx.c`, `spx_reporter_full.c`) | the answer that is sent | the list of reports, files of reports, metadata, assets | files that appear, grow or vanish while they are read | what is listed and sent is whole |
| String builder (`spx_str_builder.c`) | characters and a size | appending | a full builder | what is appended is whole or left out |
| Output streams (`spx_output_stream.c`, `spx_stdio*.c`) | a file or a gzip stream and its buffers | open, print, flush, close; redirection of standard output | what is lost when the process dies | |
| Limits (`spx_limits.c`) | two limits | setters | values at the boundary | |
| Helpers (`spx_error.c`, `spx_alloc_safe.c`, `spx_string_safe.c`) | | | | they report errors and copy strings |
| Code that is not built (`src/src/infrastructure/platform`, `spx_config_builder.c`, `spx_execution_context.c`, `spx_session.c`, `spx_reporter_factory.c`) | | | | `config.m4` does not list it |

The analysis screen of the web UI (`src/assets/web-ui/js`) reads full reports in a browser.

`PROJECT.json` lists the hazards of this code line by line, each with the properties that
look for it.

## 2. The modules

Each component has one module with its state and one action per operation or statement
that others can fall between, a `...Report` module with what it promises, an `MC_...` module
that gives constants values, and, where proved, a `...Proofs` module.

| Component | Model | Properties | TLC | Proofs |
|---|---|---|---|---|
| Tracing profiler | `SpxTracer` | `SpxTracerReport`, `SpxTracerExclusive`, against `CallLedger` and `ExclusiveLedger` | `MC_Tracer` | `SpxProfilerProofs` |
| Sampling profiler, on top of the tracer | `SpxSampler` (extends `SpxTracerReport`) | `SpxSamplerReport` | `MC_Sampler` | `SpxProfilerProofs`, in its second half |
| Profiling handler and hooks | `SpxProfilingHandler` | `SpxProfilingReport` | `MC_Profiling` | `SpxProfilingProofs` |
| Signals | `SpxSignal` | `SpxSignalReport` | `MC_Signal` | `SpxSignalProofs` |
| Metrics | `SpxMetric` | `SpxMetricReport` | `MC_Metric` | `SpxMetricProofs` |
| Full and trace reports, string builder, output stream | `SpxReporter` | `SpxReporterReport`, against `ReportFiles` | `MC_Reporter` | `SpxReporterProofs` |
| Flat profile, on top of the stored function table | `SpxFlatProfile` (extends `SpxFuncTable`) | `SpxFlatReport`, against `EntryTable` | `MC_Flat` | `SpxFlatProofs` |
| Module and requests: configuration, access check, engine hooks | `SpxRequest` (extends `SpxConfig`, `SpxAccess`, `SpxExecution`) | `SpxRequestReport` | `MC_Request` | `SpxRequestProofs` |
| Web UI handler, among writers that are `ReportFiles` | `SpxWebUI` | `SpxWebReport` | `MC_Web` | `SpxWebProofs` |

Definitions marked `Mutant:` stand next to the ones they would replace: each is a plausible
bug. Every property of a passing run is violated when its mutant is put in the place of
the definition it imitates (`PROJECT.json`, "mutants"), so none of them holds by the shape
of the model.

### SpxTracer

State: `active`, `called`, `depth`, `frames`, `table` (which functions have an entry), `stats`
and `last` are the fields of `tracing_profiler_t`; `phase` says where `finalize` is;
`reported` is what a reader of the events has open. `CallStart` is `tracing_profiler_call_start`
with the function table's lookup, calibration and the reporter's notification;
`CallStartTooDeep` is the same function past the depth limit. `CallEnd`, `CallEndTooDeep` and
`CallEndBelowZero` are `tracing_profiler_call_end`. `BeginFinalize`, `Unwind`, `EndFinalize`
are `tracing_profiler_finalize`, which ends open calls through the same code.

One metric stands for the vector of metrics, all of which go through the same loop. A
reading is the last one plus any member of `Deltas`, which may be negative. An entry of the
function table is its function: entries are found by comparing names. Calibration, which
runs 50000 calls against a null reporter and undoes them, leaves an empty table.

`CallLedger` is the abstract specification: the open calls, and for every function the time
during which it is open, charged as time passes, once however often it is open.
`ImplementsLedger` is the refinement: a function's inclusive total plus, if it is open,
the time since the start of its outermost open call. `ExclusiveLedger` charges time to the
innermost call instead; `ImplementsExclusive` relates it to the `children` sums by which
`call_end` distributes time, and takes it back under recursion.

### SpxSampler

Two processes: the PHP thread, whose place in `call_start`, `call_end`, `handle_sample`,
`finalize` and `destroy` is `main`, and the heartbeat thread at `beat`. There is one action
for each access to `ready` and `stop` (they are sequentially consistent atomics) and one for
each call of the tracer below. Hash codes are a constant function: `Hash` may map
two functions to one code, and the replay compares codes only. `StartHeartbeat` comes before
`Configure`, as in the constructor: the thread may read its period before it is set.

### SpxProfilingHandler

The Zend engine is the environment: it calls (`UserCall`, `InternalCall`, `EngineRun`), returns
(`UserReturn`, `InternalReturn`, `EngineRunEnds`) and abandons everything (`Bailout`, a
`longjmp` that runs no after hook). `Before` and `AfterThen` are the hooks, with the push to
and the pop from `call_stack` and what the profiler is told. `StartSpan`, `StartNested`,
`StopSpan`, `StopNested` and `ApiRefused` are the bodies of the two PHP functions,
`HandlerStart` and `HandlerStop` are `profiling_handler_start` and `profiling_handler_stop`,
with the failure to create any of the reporter, the tracer or the sampler. `RequestStart`,
`RequestStartFails`, `AutoStart` and `RequestEnd` are a request.

`open_starts` is a history that no guard reads: the starts of the script that have no stop yet, each with
the report it began, if it began one. Starts and stops are paired off there like brackets (`Opens`, `Closes`),
independently of the code's counter `span_depth` (`OneSpanMore`), so that `SpansAreWhole` tells whether the
counter does the same.

### SpxSignal

One action per statement of the hooks and of `profiling_handler_shutdown` that a signal can
fall between. The callback never resumes what it interrupted once it terminates the
profile, so one `pc` is enough for both. Objects that were freed are kept apart from null
pointers, for the second run of the shutdown may use them. Stacks are depths here.

### SpxMetric

`Create`, `CollectValues`, `Barrier` and `Fixed` are the collector's functions; `AfterCollect`
and `Notified` are the tracer's use of them, with a notification that is costly or not. The
clocks and counters are the environment (`Elapse`). `spent` observes what they went up by
while the script ran, `during` what they did in a notification; no guard reads either.
`memo` is the table of `spx_metric_builtin.c`, which is not the one `spx_metric.c` resets.

### SpxReporter

The two reporters with files. `Record` and `Finalize` are `full_notify` and `trace_notify`;
`BeginFlush`, `FlushFullRow`, `FlushTraceRow` and `EndFlush` are the two `flush_buffer`s, row
by row. A row of the full report is appended to a string builder, which is printed whenever
less than `RESERVE` characters are left; `Taken` is what is appended of a row that does not
fit: cells are dropped as they come, which leaves less room than a cell takes.
`PrintFunctions`, `SaveMetadata`, `Close` are the end of a report. `printed` is what the
stream was given and `durable` how much of it is in the file for certain; `Crash` may come
between any two actions and leaves any part in between. A report of another kind or another
process follows, so that the trace file is opened again.

`ReportFiles` is what a full report promises those who read the data directory: one writer,
metadata that is absent, cut or saved, and saved before the report is closed.
`ImplementsReportFiles` shows that `SpxReporter` keeps it through crashes; `SpxWebUI` then
takes `ReportFiles`, not the reporter, for the processes that write while it reads.

### SpxFuncTable and SpxFlatProfile

`SpxFuncTable` has the function table as it is stored: `table` is the array of entries,
`chains` the buckets of `spx_hmap.c` laid one after the other, `pool` the block that
`spx_string_pool.c` fills. `LookupFull`, `LookupKnown` and `LookupNew` are
`func_table_get_entry`, `Calibrate` is the calibration with the reset after it, which
leaves its name in the pool. `EntryTable` is the abstract table, a function from functions to
numbers; `ImplementsEntryTable` is the refinement, whose mapping reads the array. `SpxTracer`
takes the table to be a set of functions, which this refinement justifies.

`SpxFlatProfile` is `spx_reporter_fp.c` from `Begin` (the constructor) through `DisableStdout`,
`DisableStderr` and `OpenStream`, any of which may fail, to `Destroy`. `CallStart` and `CallEnd`
are what the tracer does to the table and its totals; `BeginReport`, `SelectNext` (once per
entry) and `PrintReport` are `fp_notify` and `print_report`. The terminal is a sequence of
lines that says whose line each is; `Erased` is the cursor that goes up and clears. `Write`
is the script's own output, which goes to the terminal or to `/dev/null`. A table row has
`ROW_MAX_CELLS` cells, and one more ends the process (`CellsExceeded`).

### SpxConfig, SpxAccess, SpxExecution, SpxRequest

`SpxConfig` has the sources as functions from parameters to texts, and a text as what its
readers make of it (its number, whether it is a number as a whole, its tokens). Each
`source_data_to_config` step is an operator, as is the repair of inconsistent values.
`SpxAccess` is `check_access` over addresses of a few bits. `SpxExecution` has the six engine
pointers and the heap handlers that SPX takes over, each "engine", "other" (another extension)
or "spx", and the hooks that count allocations, compiled files and errors. `SpxRequest` puts them
together: module start-up and shutdown, and requests, whose `Begin` decides on the configuration
and the handler as `PHP_RINIT_FUNCTION` does.

### SpxWebUI

`Receive` routes a request, `ListEntry` and `EndList` are the loop over the directory,
`Measure` and `Send` the transfer of a file, one read at a time. Between any two of them
writers go on (`Writers`: the steps of `ReportFiles`, and stdio, which puts some of what it was
given into a file) and files are removed. A metadata file has no byte from `fopen` to the first flush of
its buffer, and a part of its text from there to `fclose` (`flushed`, `MetadataLength`). `ListEntry` puts its comma
first and then what the file has at that moment (`Copied`): the metadata, a part of them, or nothing.
`ready` and `broken` are histories for `ListIsWhole`: which reports were saved when the
directory was opened, and whether an entry was gone or not saved when it was read.

## 3. What is checked

Times are on two cores. State spaces are exhausted; bounds are constants whose comment
says so, and they only limit how long a script runs.

| Run | Bounds | States | What it shows |
|---|---|---|---|
| `tracer` | 3 functions (symmetric), 2 entries in the table, depth limit 3 of 4 frames, 4 calls, nesting 4, readings that go by -1 or 2 | 111,810, 60 s | array bounds, brackets, both refinements |
| `sampler` | 3 functions of which two collide, 1 entry, depth limit 1 of 2 frames, sampler stack 2, 3 traced calls | 359,608, 45 s | stacks agree in every interleaving; sampling resumes; destruction ends |
| `spans` | 2 requests, 2 reports, span depth 2, nesting 3 on a stack of 3, one user function, the two API functions, one engine run, any outcome of every creation | 2,588,407, 50 s | pops have pushes, starts and stops pair off, reports are finished under their keys, nothing but a fatal error leaves a name behind |
| `signal` | 2 signals, user depth 2, built-ins hooked | 1,992 | the profiler is not interrupted, aborted reports are whole, the process ends |
| `metric` | sources up to 4, fixed noise 0 or 1 up to 2 in all | 1,752,358, 60 s | readings against what was spent; wall time does not go down, CPU time by no more than its clock ran ahead |
| `reporter` | buffer of 3 events, builder of 5 characters with 2 in reserve, rows of 2 or 3 characters, 2 reports of 4 and 1 events, a crash anywhere | 1,420,630, 45 s | buffers, order, crash, the promise to readers |
| `flat` | 4 functions of which three collide, a table of 3 with buckets of 1, blocks of 5 characters, limits 1 and 2, 1 or 2 metrics in rows of 4 cells, profiles of 4 calls and 1, 2 lines of the script | 1,376,741, 80 s | the table, the terminal, stdout and stderr, the order of the rows |
| `request` | 5 settings, 4 environments, 7 clients, addresses of 3 bits, 2 blocks (symmetric) and 3 steps of the heap, ints up to 3, pointers that another extension took or not | 618,688, 50 s | configuration, entitlement, the engine's pointers, the counters |
| `web` | 3 reports (symmetric) of up to 1 byte, metadata files of up to 2, reads of 1 byte, one answer | 3,939,938, 125 s | the list and the files while others write and remove |

Why these bounds are enough for the interesting cases: the tracer's table (2) is smaller than
the number of functions (3), its depth limit (3) lies below the nesting (4), so overflow of
both happens, together and under recursion three deep. The sampler's two functions with one
hash code exchange places in the stack, its stack is overrun, and its depth limit and table
are exceeded. Spans are nested deeper than the outermost, left open at a request's end,
and a second request starts from what the first left; the call stack (3) is exceeded by calls
made under a hooked request shutdown and by calls after a fatal error left its own there. Two signals allow one that is deferred and one that
comes during the termination; a third is as the second, for only `handler_called = 0` is
tested. In the flat run the three colliding functions chain buckets and one of the four is
turned away by the full table; names fill a block to its last character and start the next;
one metric fills a row and two exceed it; a live profile is refreshed over lines the script
wrote, and a second report follows. In the request run the same process serves requests
that are profiled, answered by the web UI, refused and ignored, one after the other, and
another extension has taken pointers or none. The metric, flat and request runs have numbers
at both sides of their limits. Three reports are enough for the web run: one that is
saved, one that appears or is cut, and one that is gone. A metadata file of two bytes takes two reads and an
empty one, and may grow by a byte between any of them. One answer is enough because answers share nothing. In the reporter run, rows fit the reserve exactly (2) or not (3), the
builder is printed in the middle of a flush, at its end and both, the event buffer is
filled exactly, and a second writer opens the trace file again.

Fairness. `SamplerFairSpec` has weak fairness of `Heartbeat` (a sleep ends, a thread that can
run is scheduled), of `HandleSample` and of `Destroy` (the PHP thread goes on with a call
it is in the middle of, and none of these steps waits for anything but the heartbeat).
There is none of the script: it may make no further call. `SpxSignal`'s `FairSpec` has weak
fairness of `Proceed`, the statements that follow one another without the script's doing;
again the script may call nothing, and signals may never come. The other specifications
state none; their properties are about safety only: the configuration, the reports and the
answers all run to their end in one thread, with no one to wait for.

`CHECK_DEADLOCK FALSE` is in the configurations of systems that stop: the profiler is
finalized, the process ends, or a bound is reached. `request` has none of these, and is
checked for deadlock.

### Where the program does not do what is said of it

Three runs look for a violation and find it; each checks one property that states what the
documentation says.

- `metric_io` (`BytesReadAreMeasured`): the I/O values are memoized in a table that nothing
  resets (`spx_metric_builtin.c:312`; `spx_metric.c:229` resets a table of its own), so every
  reading is the first one, where README.md:313 says "Bytes read while performing I/O".
- `flat_top` (`TopIsListed`): the selection puts a function in the place of the first worse
  one it meets (`spx_reporter_fp.c:249`), not of the worst. With costs 2, 1, 3 and
  a limit of 2 it lists 3 and 1, where README.md:347 speaks of the "top N shown functions". The
  most costly function is never lost, though (`MostCostlyIsFirst`, proved).
- `ini_default` (`UnsetIniKeepsDefault`): an INI entry that was never set reads as an empty
  text, not as NULL, so `spx.http_profiling_auto_start` counts as given and is not "1"
  (`spx_config.c:210`, `332`; `php_spx.c:124`). With the settings of README.md:118 alone
  requests are prepared for profiling and no profile is started, where
  README.md:338 says the parameter is 1 by default.

### What the models show besides

These are behaviours of the models that no property forbids.

- The key of a report is set when the reporter exists (`php_spx.c:604`) and kept when the tracer cannot be
  created after that (`php_spx.c:631`). The span counts all the same, and its stop returns the key of a report
  that was never finished. `ReportsAreFinished` allows this one, and none of an earlier report.
- A call beyond the call stack ends the process, whether a profiler runs or not (`php_spx.c:737`), where
  `spx_limits.h:14` says "Exceeding this limit logs a warning and stops profiling deeper calls."
  `EveryPopHasAPush` says that none at a lesser depth does.
- The heartbeat thread is started at `spx_profiler_sampler.c:72`, the period that it reads once
  is set at line 83: it may sleep what was in the memory before (`SpxSampler`, `StartHeartbeat`
  and `Configure`).
- A profiler that starts while the collector or a compilation runs is told of the engine run's
  name for user code called in it (`spx_php.c:1219`, `php_spx.c:345`).
- With built-ins hooked, a signal between the setting of `request_shutdown` and the push of its
  call makes the termination pop an empty stack: the process dies without a report
  (`spx_php.c:617`, `1043`).
- The exit status asks the signal handler for its signal after the handler was destroyed
  (`php_spx.c:710`, `802`), so it is always success.
- The full report keeps 128 characters of its builder free for the next row
  (`spx_reporter_full.c:343`); a longer row, of many metrics, loses values and its end of line.
- A row of a table has 16 cells (`spx_fmt.c:98`): a flat profile of more than seven metrics, or a trace of
  more than four, ends the process. What ends it is printed on a stderr that a live report
  has taken, and is lost.
- A fatal error inside a compilation or a collection leaves its name in `active_function_name`
  (`spx_php.c:903`), also for the next request: calls are recorded under it until another compilation or collection, or a
  request shutdown with built-ins hooked, resets it. `OnlyErrorsMisname` says that nothing else does so.
- A live report clears the line the cursor is on: the start of a line the script left
  unfinished goes with it.
- A reallocation that shrinks a block where it is counts as nothing freed, and one that gains
  more than an `int` holds is cut (`spx_php.c:990`); `AllocationsAreCounted` says so.
- The counts of user functions and classes are read when something is compiled
  (`spx_php.c:1132`), and lag behind what is declared otherwise.
- When the profiling handler cannot be set up the hooks of the request remain without a
  profiler.
- The list of reports has a comma alone for a file that vanished between listing and opening or
  has no byte yet, and the start of a text for metadata that are still being written; the answer is
  no JSON then. `ListIsWhole` says when this is so, and what the list still tells.

## 4. What is proved

TLAPS proves the following for every value of the constants, from the named assumption of
the module (`TracerAssumption`, `SamplerAssumption`, `HandlerAssumption`, `SignalAssumption`,
`MetricAssumption`, `ReporterAssumption`, `FuncTableAssumption`, `FlatProfileAssumption`,
`ConfigAssumption`, `AccessAssumption`, `ExecutionAssumption`, `RequestAssumption`,
`WebAssumption`). These
only say that capacities are numbers (positive where the code has them so), that a null is
not an ordinary value, that functions of the script, internal ones and runs of the engine are
different things, and, for metrics, that clocks do not go back. TLC evaluates them on its instances.

**Tracer** (`SpxProfilerProofs`). `TypeCorrect`, `BoundsHold` (`WritesInBounds`), `BooksConsistent`
(`Consistent`) and `Refinement` (`Spec => ImplementsLedger`). The inductive invariant `IInv`
conjoins types, finiteness of the table, bounds, consistency and `HasOutermost`: whatever is
open has an outermost frame, which is where inclusive time is counted from. `Consistent` is needed
for the bounds: nothing but `active` keeps `frames[depth]` in the array. The refinement is one
lemma per kind of step: a recorded start is `Enter` (`StartEnters`), a recorded return is
`Leave` (`EndLeaves`, where recursion is split off by whether the frame that ends is the
outermost), the end of `finalize` is `Close`, everything else stutters.

`EventsBracketed` (`EventsAreBracketed`) follows the events: the calls that a reader has open are
those that have an entry, so its place for a call is the number of such calls up to there
(`Named`), which a start adds one to (`StartBrackets`) and an end takes one from
(`EndBrackets`). `ExclusiveRefinement` (`ImplementsExclusive`) needs the sum over a set of frames that the
mapping is made of. `Sums` is a recursive function on finite sets' numbers, and `SumsDef` shows that
it is what its definition says: partial sums exist and agree up to every number, by
`SetInduction`, which is induction for a set of numbers rather than for an operator, and comes from
the least element that is not in it (`LeastElement`). `SumsShift` is what the steps use: a
sum whose terms change at one place. A start leaves what is owned as it is (`StartOwns`), and an
end charges the callee's time to it and takes it from the nearest call below
(`EndOwns`, `NearestIsOne`), with recursion or without.

**Sampler** (`SpxProfilerProofs`). `SamplerDrivesTracer`, `SamplerTypes`, `DepthIsFollowed`, `NoUnderflow`,
`SampledStackIsOpen`, `SampledLedger`, `SampledExclusive` and
`SampledEventsBracketed`. Each step of the sampler is a step of the
tracer or leaves it alone (`SamplerStepIsStep`), so the tracer's theorems hold below the
sampler. `SInv` adds `StacksPlaced`, the relation of the two stacks at each
place of `handle_sample`: up to `common` they agree in their hash codes, in the end loop
`top` is within the previous stack and in the start loop within the current one, and on a
sampled return both are equal. `NeverUnderflows` and `OpenMatchesStack` are not
inductive without it. Nothing is assumed of the heartbeat thread.

**Profiling handler** (`SpxProfilingProofs`). `ProfilingTyped` (`TypeOK`), `PopsFindTheirPush`
(`EveryPopHasAPush`), `ProfilerSeesTheStack` (`ProfilerFollowsStack`), `SpansNest`
(`SpansAreWhole`), `ReportsFinished` (`ReportsAreFinished`), `NamesAreTakenBack` (`OnlyErrorsMisname`). `EveryPopHasAPush` counts what the
hooks still owe: the calls the engine is in that the hooks report, and the request shutdown.
It is not inductive. `IInv` adds `DepthCounted` (`user_depth` is never below the number of user
functions that run: fatal errors only leave it too high, so the request shutdown never begins
inside one), `StackBounded`, `NotYetStarted` and `QuietBetween` (what a request finds), and
`WritesItsReport` (a profile that runs writes a report, and a full one under its own key). Each hook is a push
before a call or a pop after one (`BeforePushes`, `AfterPops`); starting and stopping a
profile leave what is owed as it is (`StartKeeps`, `StopKeeps`), and `RequestEndNeverDies` says
that the shutdown, which pops its own call, finds it. `SpansNest` rests on `SpanBook`, which relates the
counter to the brackets: it is never behind the open starts, it is exact while a profile runs, and only
the oldest open start can have begun that profile. It may be ahead otherwise, after a request that
could not be set up, so the two are not simply equal. `ReportsFinished` adds `LastKey`: the key that is
kept is that of the last report that was begun, or none.

**Metrics** (`SpxMetricProofs`). `TypeCorrect`, `MemoryReadingsAreExact`, `TimeReadingsAreBounded`,
`CpuReadingsAreWithinWall`, `ReadingsGoForward` (`ReadingsHardlyGoBack`). The invariant `Books` keeps an account for
each metric: what was spent is what the source shows past the reference, less the noise
still due. For memory the account is exact. For time it is an upper and a lower bound,
because noise is clamped; `CpuBook` says both clocks are charged alike until a barrier. Wall time goes
forward because no noise is taken off beyond what passed; CPU time is corrected by as much as it ran
ahead, in addition to the noise, and so may go down by that much (`NextReading`).

**Signals** (`SpxSignalProofs`). `TypeCorrect`, `ProfilerIsAtomic` (`ProfilerIsNotInterrupted`),
`DepthsAgree` (`StacksAgree`). `IInv` adds `Guarded` (at the call of the profiler `probing`
is raised), `Places` (what is known of the stacks at each place), `Counts` (no signal
counted before one is caught) and `DepthsBook` (how far the tracer is behind the call
stack in the middle of a hook). `AbortedIsWhole` (`AbortedReportIsWhole`) needs a second
invariant, `AInv`: until a signal is caught the call stack has the user functions and the
request shutdown (`CallsBook`), so no hook pops an empty one, and a return that the profiler
is told of has a call there (`ReturnsOpen`); afterwards only the rest of a hook in the profiler
and the termination are left (`CaughtBook`); and at each place the report is as far as
the place says (`Stages`). `SignalCaught` is what a signal does under these.

**Reporters** (`SpxReporterProofs`). `TypeCorrect`, `NothingOverflows` (`BuffersHold`),
`ShortRowsAreNeverCut` (`SmallRowsAreWhole`), `EventsReportedOnce` (`EventsAreReportedOnce`) and
`SafeTraceKeepsEvents` (`SafeTraceIsDurable`). They build on one another: `Fills` says how full the
event buffer and the builder are at each place; with the room it guarantees, rows in
the builder and in files are fit (`RowsFit`). `Booked` says that lines, rows held and events
waiting are together the events 1, 2, 3 and so on (`InOrder`), with lemmas for an event recorded,
a row held, the builder printed and the buffer emptied. From it the length of a safe
trace's file is known, and `Secured` follows. `FilesAreImplemented` (`ImplementsReportFiles`)
is the refinement, on which `SpxWebUI` relies for its writers. Its invariant is `Tidy`: only the
last report is written, and its metadata is absent, cut or saved as the place of the writer
says. A step that prints does so
to the last report's file alone (`OnlyItsFile`, `PrintsLine`); opening, metadata, closing and
crash are the steps of `ReportFiles`, everything else stutters. `FinishedIsWhole`
(`FinishedReportIsWhole`) adds the number of calls in the metadata, `CalledBook`: it is the number of
ends of calls in the lines, the builder and the buffer laid one after the other, in which a row
that moves from one to the next keeps its place (`EndsHeld`, `EndsPrinted`), so that only
`EndsRecorded` counts.

**Module and requests** (`SpxRequestProofs`). `EngineAlwaysGivenBack` (`EngineIsGivenBack`),
`ScriptRunsWithoutUi` (`OnlyUiStopsScript`), `AllocationsCounted` (`AllocationsAreCounted`),
`RequestTyped` (`TypeOK`), `ConfigAsked` (`ConfigIsAsked`). The invariant `Kept` says that the pointers are either as they were
found or all taken, with what was found kept for each, that the heap likewise is one or the
other, and which of both it is follows from the handler and the build. The properties alone
are not inductive: they say where calls end, not what is stored for later. `Books` keeps the
account of allocations: the counters agree with the blocks since the heap was taken, and
nothing is counted since then outside of a request.

`ConfigAsked` says of all seventeen parameters that each is what the last source says that may ask.
A source overrides what it has a sensible text for and leaves the rest (`SourceFields`); one
and then three of them one after another are the latest that makes sense (`OneAsks`,
`ThreeAsk`), also under the repairs at the end (`FixFields`, `FixedAsks`), which touch every source
alike. Who may ask is `EntitledIsGranted`. The code compares networks by shifting and comparing
what is left, the property bit by bit: `NetworkIsMasked` shows that the two agree for addresses
of any length, by induction on the bits (`SetInduction` again, over the recursive function
`TwoTo`, for which the provers have no theory of powers). The proof failed at first where a client
without an address met a list of proxies that is `*`: the property had taken such a client for trusted, while
`check_access` refuses it before it looks at the list. `Accepts` now asks for an address, and
`MC_Request` has both.

**Flat profile and function table** (`SpxFlatProofs`). `TableIsImplemented`
(`ImplementsEntryTable`), `NamesStayApart` (`NamesAreDisjoint`), `StdioGivenBack`
(`StdioIsGivenBack`), `MostCostlyListedFirst` (`MostCostlyIsFirst`), `ScreenShown`
(`ScreenShowsReports`), `FlatTyped` (`TypeOK`).
`StoreInv` says that links and entries are the same functions: a link is in the chain of its
key and leads to its entry, a chain has one link for a key, every entry is linked, and names lie
before the end of the pool. From it a lookup finds the entry (`ValueIsEntry`), a new one
lands behind all that is stored (`NewPlaces`), and each lookup is `Find`, `Add` or
`TurnAway` of the abstract table. `StdioInv` ties each descriptor to its copy at every place of
the constructor. `RankInv` says that the best of the entries that were looked at is
among the top ones (`TopHasBest`): one that is replaced is worse than what takes its place,
by `AheadIsTotal`. That some entry is the best needs an induction on the number of
entries, which `SomeFirst` gives as the least counterexample. `ScreenInv` bounds the lines
that a refresh takes back by those of the terminal.

`TermInv` says which lines these are: while a report is live, the last `last_line_count` lines are those of
the report below a line that was empty or only begun (`LastReport`), a profile that is not
live has none to take back, and a profile that showed a report has a function in its table,
so it never erases without printing anew. With it the lines of each kind are counted at
every step (`LinesCounted`): a report adds its own and one empty line (`ReportCounted`), erasing it takes
exactly these back (`TermErased`), and a line of the script replaces the line the cursor is on and adds
an empty one (`TermWritten`), which `StdioInv` rules out while a live report holds the terminal.

**Web UI** (`SpxWebProofs`). `ListWhole` (`ListIsWhole`) and `FetchWhole` (`FetchIsWhole`), for
any number of reports and writers, any lengths and any size of a read. `WebInv` is the
inductive invariant. Of what others do it needs only that they add (`WritersAdd`): metadata that are there stay unless
the file is removed, and nothing is added to a report that was closed (`SharedFiles`).
`ListInv` describes the list while it grows: as long as each file was saved when it was read, it is an array
of `count` entries (`Alternating`), one for each report that was seen. Since one was not, it has a flaw
that nothing after it mends (`Flawed`, `FlawComes`, `FlawStays`): two commas in a row, one at either end, or
a part of a text. Either way no report is in it twice (`OnceEach`), and those that were saved from the start are
in it whole (`Tells`). `SendInv` keeps what was sent and promised within what the
file has, and for a file that is settled, equal to it at the end.

### Only model-checked

- Liveness (`SamplingResumes`, `DestroyCompletes`, `SignalEndsProcess`), which rests on fairness
  and on `ENABLED`, for which there is no rule here. What is proved of the same steps is
  their safety: `SInv` and `AInv` say at each place which step comes next.
- The three properties that the program does not have ("Where the program does not do what is
  said of it", above): TLC's counterexamples settle them.

Every invariant and every refinement that a passing run checks is also a theorem. The type invariants
of `SpxSignal` and `SpxMetric` are theorems only: a run would add nothing to them.

## 5. What is left out

- Reading of clocks, `/proc` and Zend counters: the environment of `SpxMetric`.
- The order of bytes in a report: formatting, compression, escaping, colours.
- Allocation failures inside a call, and threads of a thread-safe PHP, each of which has
  state of its own; what they share, the pointers of the engine, is in `SpxExecution` (`ZTS`).
- Signals delivered to the heartbeat thread: `SpxSignal` has the PHP thread only. The thread
  would join itself, which the C library refuses or waits for forever.
- Names longer than a block of the string pool, and keys of 256 characters and more: assumed away in
  `FuncTableAssumption` and `SpxAccess`.
- The browser's half of the web UI; the getters of `spx_php.c`, which only read the engine.
- Two HTTP requests at a time: they share only files that both read.
- `spx_error.c`, `spx_alloc_safe.c` and `spx_string_safe.c`, which copy and report, and the sources
  that `config.m4` does not list, which are not part of the extension.

## 6. Plan

What remains, in order of what it would add.

1. **Signals and sampler together** (`SpxSignalSampler`): a signal that is delivered to
   either thread. This composes `SpxSignal` with the heartbeat of `SpxSampler`.
2. **Call statistics of the web UI** (`ProfileData`): `profileData.js` recomputes inclusive and
   exclusive costs from a report's events; `CallLedger` is its abstract specification.
3. **Hooks against the profiler**: the depth books of `SpxProfilingHandler` as an abstract
   machine that `SpxSignal` implements.
