------------------------------ MODULE SpxReporter ------------------------------
(***************************************************************************)
(* The reporters that write files: the full report                         *)
(* (src/src/spx_reporter_full.c), whose rows are put together in a string  *)
(* builder of a fixed size, and the trace (src/src/spx_reporter_trace.c),  *)
(* plain or with SPX_TRACE_SAFE.  Both buffer the events of the profiler   *)
(* and print them through an output stream (src/src/spx_output_stream.c),  *)
(* which holds back what it likes until it is flushed or closed.  The      *)
(* process may die between any two statements; another one starts then.    *)
(*                                                                         *)
(* A file is the sequence of its lines, a row is the event it tells of and *)
(* whether it is all there.  Reports of different processes share no file  *)
(* but the trace file, so there is one writer at a time.                   *)
(***************************************************************************)
EXTENDS Naturals, Sequences

CONSTANTS
  BUFFER_CAPACITY,    \* events, 16384
  BUILDER_CAPACITY,   \* characters of the string builder, 8192
  RESERVE,            \* the room flush_buffer leaves for the next row, 128
  RowSizes,           \* the lengths of rows: more metrics make longer rows
  Notes, NoNote,      \* custom metadata strings
  MaxReports, MaxEvents   \* bounds: reports, and the events of each

ASSUME ReporterAssumption ==
  /\ BUFFER_CAPACITY \in Nat \ {0}
  /\ BUILDER_CAPACITY \in Nat /\ RESERVE \in 1..BUILDER_CAPACITY
  /\ RowSizes \subseteq Nat \ {0}
  /\ NoNote \notin Notes
  /\ MaxReports \in Nat /\ MaxEvents \in [1..MaxReports -> Nat]

VARIABLES
  pc,          \* "none": no reporter; "idle": the script runs; or the part of
               \* the reporter that runs: "flush", "functions", "save", "close"
  kind,        \* "full", "trace", or "safe" for a safe trace
  reports,     \* how many reports were begun: the last one's number
  finalizing,  \* the event being notified is the last one
  first,       \* of trace_reporter_t: no header was printed yet
  buffer, at,  \* the events in the buffer; the next one to print
  builder,     \* the rows in the string builder
  size,        \* its length in characters
  note,        \* metadata->custom_metadata_str
  called,      \* metadata->call_count and recorded_call_count
  printed,     \* file |-> the lines its stream was given
  durable,     \* file |-> how many of these are in the file for certain
  metadata,    \* full report |-> its metadata file: "absent", "cut" while it
               \* is written, or "saved", with what it says
  events,      \* report |-> how many events it was notified of
  finished     \* the reports that were finalized, then closed

inside   == <<kind, reports, first, events>>
strings  == <<builder, size>>
files    == <<printed, durable, metadata, finished>>
memory   == <<finalizing, buffer, at, note, called, strings>>
vars     == <<pc, memory, inside, files>>

Kinds == {"full", "trace", "safe"}

\* A full report has a file of its own; traces are all written to one.
FileOf(k, r) == IF k = "full" THEN r ELSE 0
File == FileOf(kind, reports)

Event == [n : Nat \ {0}, start : BOOLEAN, size : RowSizes]

Heading(h)  == [is |-> h, event |-> 0, start |-> FALSE, whole |-> TRUE, small |-> TRUE]
Row(e, all) == [is |-> "row", event |-> e.n, start |-> e.start, whole |-> all,
                small |-> e.size <= RESERVE]

\* A metadata file that says what the reporter holds.
Metadata(state) == [state |-> state, note |-> note, called |-> called]

Init ==
  /\ pc = "none" /\ kind = "full" /\ reports = 0 /\ first = TRUE
  /\ finalizing = FALSE /\ buffer = <<>> /\ at = 1 /\ builder = <<>> /\ size = 0
  /\ note = NoNote /\ called = 0
  /\ printed = [f \in 0..MaxReports |-> <<>>]
  /\ durable = [f \in 0..MaxReports |-> 0]
  /\ metadata = [r \in 1..MaxReports |-> Metadata("absent")]
  /\ events = [r \in 1..MaxReports |-> 0]
  /\ finished = {}

-----------------------------------------------------------------------------
(* Creation, custom metadata. *)

\* spx_reporter_full_create, spx_reporter_trace_create.  The stream truncates
\* the file that it opens.
Create(k) ==
  LET f == FileOf(k, reports + 1)
  IN  /\ pc = "none" /\ reports < MaxReports
      /\ pc' = "idle" /\ kind' = k /\ reports' = reports + 1
      /\ first' = TRUE
      /\ printed' = [printed EXCEPT ![f] =
                       IF k = "full" THEN <<Heading("events")>> ELSE <<>>]
      /\ durable' = [durable EXCEPT ![f] = 0]
      /\ UNCHANGED <<memory, metadata, events, finished>>

\* Mutant: the string before, which was freed, when memory is short.
KeptDangling(s, copied) == IF copied THEN s ELSE <<note>>

\* What is kept of the string s: nothing when memory is short.
Kept(s, copied) == IF copied THEN s ELSE NoNote

\* spx_profiler_full_report_set_custom_metadata_str, called by the script.
SetCustomMetadata(s, copied) ==
  /\ pc = "idle" /\ kind = "full"
  /\ note' = Kept(s, copied)
  /\ UNCHANGED <<pc, finalizing, buffer, at, called, inside, strings, files>>

-----------------------------------------------------------------------------
(* Notification. *)

\* Mutants: the buffer is left to overrun; safe traces wait for a full buffer.
MustFlushLate(b) == Len(b) > BUFFER_CAPACITY \/ kind = "safe"
MustFlushFull(b) == Len(b) >= BUFFER_CAPACITY

\* Is the buffer b flushed after an event?
MustFlush(b) == Len(b) >= BUFFER_CAPACITY \/ kind = "safe"

\* flush_buffer, up to its loop.  The trace prints its header once.
BeginFlush ==
  /\ pc' = "flush" /\ at' = 1 /\ builder' = <<>> /\ size' = 0
  /\ first' = (first /\ kind = "full")
  /\ printed' = IF kind # "full" /\ first
                THEN [printed EXCEPT ![File] = Append(@, Heading("header"))]
                ELSE printed

\* full_notify, trace_notify: a call starts or ends.
Record(start, length) ==
  LET e == [n |-> events[reports] + 1, start |-> start, size |-> length]
  IN  /\ pc = "idle" /\ events[reports] < MaxEvents[reports]
      /\ buffer' = Append(buffer, e)
      /\ called' = IF start \/ kind # "full" THEN called ELSE called + 1
      /\ events' = [events EXCEPT ![reports] = @ + 1]
      /\ \/ MustFlush(buffer') /\ BeginFlush
         \/ ~MustFlush(buffer') /\ UNCHANGED <<pc, at, strings, first, printed>>
      /\ UNCHANGED <<finalizing, note, kind, reports, durable, metadata, finished>>

\* full_notify, trace_notify: the last event.
Finalize ==
  /\ pc = "idle"
  /\ finalizing' = TRUE
  /\ BeginFlush
  /\ UNCHANGED <<buffer, note, called, kind, reports, events, durable, metadata, finished>>

-----------------------------------------------------------------------------
(* flush_buffer. *)

Room == BUILDER_CAPACITY - size

\* Mutant: with room for all but one character.
MustPrintLate(left) == left + 1 < RESERVE

\* The builder is printed after the row once it has less than RESERVE left.
MustPrint(left) == left < RESERVE

\* Mutant: it is not reset.
NotRestarted(rows) == rows

\* What the builder holds once its rows are printed.
Restarted(rows) == <<>>

\* A row that does not fit loses the cells there is no room for, which leaves
\* less than a cell, hence less than RESERVE.
Taken(s) ==
  IF s <= Room THEN {s} ELSE {k \in 0..Room : Room - k < RESERVE}

FlushFullRow ==
  /\ pc = "flush" /\ kind = "full" /\ at <= Len(buffer)
  /\ \E k \in Taken(buffer[at].size) :
       LET rows == Append(builder, Row(buffer[at], k = buffer[at].size))
       IN  IF MustPrint(Room - k)
           THEN /\ printed' = [printed EXCEPT ![File] = @ \o rows]
                /\ builder' = Restarted(rows) /\ size' = 0
           ELSE /\ builder' = rows /\ size' = size + k
                /\ UNCHANGED printed
  /\ at' = at + 1
  /\ UNCHANGED <<pc, finalizing, buffer, note, called, inside, durable, metadata, finished>>

FlushTraceRow ==
  /\ pc = "flush" /\ kind # "full" /\ at <= Len(buffer)
  /\ printed' = [printed EXCEPT ![File] = Append(@, Row(buffer[at], TRUE))]
  /\ durable' = [durable EXCEPT ![File] = IF kind = "safe" THEN Len(printed'[File]) ELSE @]
  /\ at' = at + 1
  /\ UNCHANGED <<pc, finalizing, buffer, note, called, inside, strings, metadata, finished>>

\* Mutant: they are dropped.
LastRowsDropped == <<>>

\* The rows that the builder still holds are printed.
LastRows == IF kind = "full" THEN builder ELSE <<>>

EndFlush ==
  /\ pc = "flush" /\ at > Len(buffer)
  /\ printed' = [printed EXCEPT ![File] = @ \o LastRows]
  /\ buffer' = <<>> /\ at' = 1
  /\ pc' = IF ~finalizing THEN "idle" ELSE IF kind = "full" THEN "functions" ELSE "close"
  /\ UNCHANGED <<finalizing, note, called, inside, strings, durable, metadata, finished>>

-----------------------------------------------------------------------------
(* The end of a report. *)

\* Mutant: a report is closed although its metadata was not saved.
ClosesUnsaved(opened) == "close"

\* Metadata that could be opened is saved before the report is closed.
AfterFunctions(opened) == IF opened THEN "save" ELSE "close"

\* finalize of spx_reporter_full.c prints the table of functions, then
\* metadata_save opens its file, if it can.
PrintFunctions(opened) ==
  /\ pc = "functions"
  /\ printed' = [printed EXCEPT ![File] = Append(@, Heading("functions"))]
  /\ pc' = AfterFunctions(opened)
  /\ metadata' = [metadata EXCEPT ![reports] = IF opened THEN Metadata("cut") ELSE @]
  /\ UNCHANGED <<finalizing, buffer, at, note, called, inside, strings, durable, finished>>

\* metadata_save closes its file.
SaveMetadata ==
  /\ pc = "save"
  /\ metadata' = [metadata EXCEPT ![reports] = Metadata("saved")]
  /\ pc' = "close"
  /\ UNCHANGED <<finalizing, buffer, at, note, called, inside, strings, printed, durable, finished>>

\* The reporter is gone; the next one starts with nothing.
Free ==
  /\ pc' = "none"
  /\ finalizing' = FALSE /\ buffer' = <<>> /\ at' = 1 /\ builder' = <<>> /\ size' = 0
  /\ note' = NoNote /\ called' = 0

\* full_destroy, trace_destroy: closing the stream writes all it holds.
\* A reporter without a profiler is destroyed as it was created.
Close ==
  /\ pc = "close" \/ (pc = "idle" /\ events[reports] = 0)
  /\ durable' = [durable EXCEPT ![File] = Len(printed[File])]
  /\ finished' = IF pc = "close" THEN finished \cup {reports} ELSE finished
  /\ Free
  /\ UNCHANGED <<inside, printed, metadata>>

-----------------------------------------------------------------------------
(* The environment. *)

\* The process dies: of what its stream held back, a part is in the file.
Crash ==
  /\ pc # "none"
  /\ \E n \in durable[File] .. Len(printed[File]) :
       /\ printed' = [printed EXCEPT ![File] = SubSeq(@, 1, n)]
       /\ durable' = [durable EXCEPT ![File] = n]
  /\ Free
  /\ UNCHANGED <<inside, metadata, finished>>

Next ==
  \/ \E k \in Kinds : Create(k)
  \/ \E s \in Notes, copied \in BOOLEAN : SetCustomMetadata(s, copied)
  \/ \E start \in BOOLEAN, length \in RowSizes : Record(start, length)
  \/ Finalize
  \/ FlushFullRow \/ FlushTraceRow \/ EndFlush
  \/ \E opened \in BOOLEAN : PrintFunctions(opened)
  \/ SaveMetadata \/ Close
  \/ Crash

Spec == Init /\ [][Next]_vars
=============================================================================
