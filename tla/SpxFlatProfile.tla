--------------------------- MODULE SpxFlatProfile ---------------------------
(***************************************************************************)
(* The flat profile report (src/src/spx_reporter_fp.c) over the function   *)
(* table it reads: the live refresh, which takes stdout and stderr from    *)
(* the script (src/src/spx_stdio-unix.c) and overwrites its last report on *)
(* the terminal; the selection of the functions it lists; and the rows it  *)
(* puts together (src/src/spx_fmt.c).  One profile follows the other.      *)
(*                                                                         *)
(* stdout and stderr are the same terminal, wide and high enough for every *)
(* report.  A line on it is whose line it is.  dup2() to an open           *)
(* descriptor fails only where dup() may.                                  *)
(***************************************************************************)
EXTENDS SpxFuncTable

CONSTANTS
  Limits,          \* values of SPX_FP_LIMIT
  MetricCounts,    \* how many metrics may be enabled
  Costs,           \* <<high, low>>: what a call adds to its function's inclusive
                   \* and exclusive value of the focus, the sort key first
  ROW_MAX_CELLS,   \* 16
  MaxReports, MaxCalls, MaxWrites   \* bounds: profiles, the calls of each, and
                                    \* the script's writes

Line(is, of) == [is |-> is, of |-> of]
Blank == Line("blank", 0)

ASSUME FlatProfileAssumption ==
  /\ Limits \subseteq Nat /\ MetricCounts \subseteq Nat
  /\ Costs \subseteq Nat \X Nat
  /\ ROW_MAX_CELLS \in Nat /\ MaxReports \in Nat /\ MaxWrites \in Nat
  /\ MaxCalls \in [1..MaxReports -> Nat]

VARIABLES
  pc,         \* "none": no reporter; "stdout", "stderr", "stream": it is
              \* created; "idle": the script runs; "select": print_report();
              \* "destroy"; "dead": the process ended
  out, err,   \* what the descriptors 1 and 2 are: "tty", or "null"
  backup,     \* fd_backup: of which of the descriptors there is a copy
  nullOutput, \* /dev/null: "unopened", "opened", or "failed" to open
  live, limit, metrics,   \* of the reporter, and of the profile
  reports,    \* how many reporters were created: the last one's number
  finalizing, \* the event being notified is the last one
  lastLines,  \* last_line_count
  top, at,    \* top_entries, and the next entry to compare with them
  rows,       \* the functions that were listed last, as numbers of entries
  stats,      \* for each entry, its <<high, low>>
  open,       \* the entries of the calls that are open, the last one last
  first,      \* what the profile was calibrated with
  called,     \* how many calls began
  screen,     \* the lines of the terminal: the last one has the cursor
  height,     \* history: the lines of the last report each reporter printed
  written     \* history: how many whole lines the script wrote to the terminal

config   == <<live, limit, metrics, reports>>
stdio    == <<out, err, backup, nullOutput>>
report   == <<finalizing, lastLines, top, at, rows>>
profile  == <<stats, open, first, called>>
terminal == <<screen, height>>
vars == <<pc, stdio, config, report, profile, terminal, written, store>>

Init ==
  /\ pc = "none" /\ out = "tty" /\ err = "tty" /\ backup = {}
  /\ nullOutput = "unopened"
  /\ live = FALSE /\ limit = 0 /\ metrics = 0 /\ reports = 0
  /\ finalizing = FALSE /\ lastLines = 0 /\ top = <<>> /\ at = 1 /\ rows = <<>>
  /\ stats = <<>> /\ open = <<>> /\ first = NoFunction /\ called = 0
  /\ screen = <<Blank>> /\ height = [r \in 1..MaxReports |-> 0] /\ written = 0
  /\ StoreInit

-----------------------------------------------------------------------------
(* The script. *)

\* It writes to stdout, the end of a line or the start of one.
Write(whole) ==
  /\ pc \in {"none", "idle"} /\ written < MaxWrites
  /\ screen' =
       IF out = "null" THEN screen
       ELSE IF whole
            THEN [screen EXCEPT ![Len(screen)] = Line("script", 0)] \o <<Blank>>
            ELSE [screen EXCEPT ![Len(screen)] = Line("begun", 0)]
  /\ written' = IF whole /\ out = "tty" THEN written + 1 ELSE written
  /\ UNCHANGED <<pc, stdio, config, report, profile, height, store>>

-----------------------------------------------------------------------------
(* Creation and destruction. *)

\* spx_reporter_fp_create, up to the streams.
Begin(l, k, m) ==
  /\ pc = "none" /\ reports < MaxReports
  /\ pc' = IF l THEN "stdout" ELSE "stream"
  /\ live' = l /\ limit' = k /\ metrics' = m /\ reports' = reports + 1
  /\ finalizing' = FALSE /\ lastLines' = 0 /\ top' = <<>> /\ at' = 1 /\ rows' = <<>>
  /\ stats' = <<>> /\ open' = <<>> /\ first' = NoFunction /\ called' = 0
  /\ NewStore
  /\ UNCHANGED <<stdio, terminal, written>>

\* spx_stdio_disable: /dev/null is opened once, there may be no descriptor left.
Opens(opened) ==
  nullOutput' = IF nullOutput = "unopened"
                THEN IF opened THEN "opened" ELSE "failed"
                ELSE nullOutput

DisableStdout(opened, copied) ==
  /\ pc = "stdout"
  /\ Opens(opened)
  /\ \/ /\ nullOutput' = "opened" /\ copied
        /\ out' = "null" /\ backup' = backup \cup {1}
        /\ pc' = "stderr"
     \/ /\ nullOutput' = "failed" \/ ~copied
        /\ pc' = "destroy"
        /\ UNCHANGED <<out, backup>>
  /\ UNCHANGED <<err, config, report, profile, terminal, written, store>>

DisableStderr(copied) ==
  /\ pc = "stderr"
  /\ \/ /\ copied
        /\ err' = "null" /\ backup' = backup \cup {2}
        /\ pc' = "stream"
     \/ /\ ~copied
        /\ pc' = "destroy"
        /\ UNCHANGED <<err, backup>>
  /\ UNCHANGED <<out, nullOutput, config, report, profile, terminal, written, store>>

\* spx_output_stream_dopen, the top entries, and the profiler.
OpenStream(opened) ==
  /\ pc = "stream"
  /\ pc' = IF opened THEN "idle" ELSE "destroy"
  /\ UNCHANGED <<stdio, config, report, profile, terminal, written, store>>

\* Mutant: stderr stays with the report.
RestoredStdoutOnly ==
  /\ out' = (IF 1 \in backup THEN "tty" ELSE out) /\ err' = err
  /\ backup' = backup \ {1}

\* spx_stdio_restore of what there is a copy of.
Restored ==
  /\ out' = (IF 1 \in backup THEN "tty" ELSE out)
  /\ err' = (IF 2 \in backup THEN "tty" ELSE err)
  /\ backup' = {}

\* fp_destroy.
Destroy ==
  /\ pc = "destroy"
  /\ pc' = "none"
  /\ Restored
  /\ UNCHANGED <<nullOutput, config, report, profile, terminal, written, store>>

-----------------------------------------------------------------------------
(* The profiler.  A call has the entry that was found for it. *)

Calls == pc = "idle" /\ ~finalizing

\* tracing_profiler_call_start, before its first call.
CalibrateFirst(f) ==
  /\ Calls /\ first = NoFunction
  /\ first' = f
  /\ Calibrate(f)
  /\ UNCHANGED <<pc, stdio, config, report, stats, open, called, terminal, written>>

\* tracing_profiler_call_start.  Entries that are allotted are zeroed.
CallStart(f) ==
  /\ Calls /\ called < MaxCalls[reports]
  /\ IF called = 0 THEN first = f ELSE first # NoFunction
  /\ Lookup(f)
  /\ called' = called + 1
  /\ open' = Append(open, found')
  /\ stats' = IF Len(table') > Len(table) THEN Append(stats, <<0, 0>>) ELSE stats
  /\ UNCHANGED <<pc, stdio, config, report, first, terminal, written>>

\* There is no memory for what f's entry needs.
StartFails(f) ==
  /\ Calls /\ (first = NoFunction \/ called < MaxCalls[reports])
  /\ LookupFails(f)
  /\ pc' = "dead"
  /\ UNCHANGED <<stdio, config, report, profile, terminal, written, store>>

\* The cursor goes up n lines, and clears every line it is on.
Erased(lines, n) ==
  IF n = 0 THEN lines
  ELSE [SubSeq(lines, 1, Len(lines) - n) EXCEPT ![Len(lines) - n] = Blank]

\* min(limit, func_table.size).
Listed == IF limit > Len(table) THEN Len(table) ELSE limit

\* fp_notify, up to the selection: the first entries are the top ones.
BeginReport ==
  /\ screen' = Erased(screen, lastLines)
  /\ IF table = <<>>
     THEN /\ lastLines' = 0
          /\ pc' = IF finalizing' THEN "destroy" ELSE "idle"
          /\ UNCHANGED <<top, at>>
     ELSE /\ top' = [i \in 1..Listed |-> i] /\ at' = Listed + 1
          /\ pc' = "select"
          /\ UNCHANGED lastLines

\* tracing_profiler_call_end and fp_notify, the last of them 70 ms ago or not.
\* A call without an entry is not reported.
CallEnd(cost, due) ==
  LET e == open[Len(open)]
  IN  /\ Calls /\ open # <<>>
      /\ open' = SubSeq(open, 1, Len(open) - 1)
      /\ stats' = IF e = NoEntry THEN stats
                  ELSE [stats EXCEPT ![e] = <<@[1] + cost[1], @[2] + cost[2]>>]
      /\ lastLines = 0 => due
      /\ UNCHANGED <<finalizing, rows>>
      /\ \/ /\ e # NoEntry /\ live /\ due
            /\ BeginReport
         \/ /\ e = NoEntry \/ ~live \/ ~due
            /\ UNCHANGED <<pc, screen, lastLines, top, at>>
      /\ UNCHANGED <<stdio, config, first, called, height, written, store>>

\* tracing_profiler_finalize, when the calls that were open have ended.
Finalize ==
  /\ Calls /\ open = <<>>
  /\ finalizing' = TRUE
  /\ BeginReport
  /\ UNCHANGED <<stdio, config, rows, profile, height, written, store>>

-----------------------------------------------------------------------------
(* print_report. *)

\* entry_cmp_r: entry a is listed before entry b.
Before(a, b) ==
  \/ stats[a][1] > stats[b][1]
  \/ stats[a][1] = stats[b][1] /\ stats[a][2] > stats[b][2]
  \/ stats[a] = stats[b] /\ a < b

\* Mutant: the two are swapped.
Better == {j \in DOMAIN top : Before(top[j], at)}

\* The top entries that are worse than the one looked at.
Worse == {j \in DOMAIN top : Before(at, top[j])}

\* It takes the place of the first of these.
ReplacedInTop ==
  IF Worse = {} THEN top
  ELSE [top EXCEPT ![CHOOSE j \in Worse : \A k \in Worse : j <= k] = at]

SelectNext ==
  /\ pc = "select" /\ at <= Len(table)
  /\ top' = ReplacedInTop
  /\ at' = at + 1
  /\ UNCHANGED <<pc, stdio, config, finalizing, lastLines, rows, profile, terminal, written, store>>

\* qsort: the same entries, in their order.
IsSorted(s) ==
  /\ \A i, j \in DOMAIN s : i < j => Before(s[i], s[j])
  /\ {s[i] : i \in DOMAIN s} = {top[i] : i \in DOMAIN top}

\* The ends of lines in a report of n rows: the title, the counts, a line for
\* each metric, the header and its separator, the rows and a line after them.
Newlines(n) == 15 + metrics + n

\* Mutant: the lines of the metrics are not counted.
LineCountFixed(n) == 15 + n

\* What print_report counts meanwhile.
LineCount(n) == 15 + metrics + n

\* A report starts below the line with the cursor, and leaves it below.
Printed(n) == screen \o [i \in 1..n |-> IF i < n THEN Line("report", reports) ELSE Blank]

\* The header and every row have an inclusive and an exclusive cell for each
\* metric, the number of calls and the function.
CellsFit == 2 * metrics + 2 <= ROW_MAX_CELLS

PrintReport ==
  /\ pc = "select" /\ at > Len(table) /\ CellsFit
  /\ \E s \in [1..Listed -> 1..Len(table)] : IsSorted(s) /\ rows' = s
  /\ lastLines' = LineCount(Listed)
  /\ screen' = Printed(Newlines(Listed))
  /\ height' = [height EXCEPT ![reports] = Newlines(Listed)]
  /\ pc' = IF finalizing THEN "destroy" ELSE "idle"
  /\ UNCHANGED <<stdio, config, finalizing, top, at, profile, written, store>>

\* spx_fmt_row_add_tcell, with no cell left: spx_utils_die().
CellsExceeded ==
  /\ pc = "select" /\ at > Len(table) /\ ~CellsFit
  /\ pc' = "dead"
  /\ UNCHANGED <<stdio, config, report, profile, terminal, written, store>>

-----------------------------------------------------------------------------
Creation ==
  \/ \E l \in BOOLEAN, k \in Limits, m \in MetricCounts : Begin(l, k, m)
  \/ \E opened, copied \in BOOLEAN : DisableStdout(opened, copied)
  \/ \E copied \in BOOLEAN : DisableStderr(copied)
  \/ \E opened \in BOOLEAN : OpenStream(opened)

Profiling ==
  \/ \E f \in Functions : CalibrateFirst(f) \/ CallStart(f) \/ StartFails(f)
  \/ \E cost \in Costs, due \in BOOLEAN : CallEnd(cost, due)
  \/ Finalize

Next ==
  \/ \E whole \in BOOLEAN : Write(whole)
  \/ Creation
  \/ Profiling
  \/ SelectNext
  \/ PrintReport
  \/ CellsExceeded
  \/ Destroy

Spec == Init /\ [][Next]_vars
=============================================================================
