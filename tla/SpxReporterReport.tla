--------------------------- MODULE SpxReporterReport ---------------------------
(***************************************************************************)
(* What the reporters of SpxReporter promise of the files they write.      *)
(***************************************************************************)
EXTENDS SpxReporter, FiniteSets

Line == [is : {"events", "header", "row", "functions"}, event : Nat,
         start : BOOLEAN, whole : BOOLEAN, small : BOOLEAN]

MetadataFile == [state : {"absent", "cut", "saved"}, note : Notes \cup {NoNote}, called : Nat]

StateTypes ==
  /\ pc \in {"none", "idle", "flush", "functions", "save", "close"}
  /\ kind \in Kinds
  /\ reports \in 0..MaxReports /\ (pc # "none" => reports > 0)
  /\ finalizing \in BOOLEAN /\ first \in BOOLEAN
  /\ note \in Notes \cup {NoNote}
  /\ called \in Nat
  /\ events \in [1..MaxReports -> Nat]

BufferTypes ==
  /\ buffer \in Seq(Event) /\ at \in 1 .. Len(buffer) + 1
  /\ builder \in Seq(Line) /\ size \in 0..BUILDER_CAPACITY

FileTypes ==
  /\ printed \in [0..MaxReports -> Seq(Line)]
  /\ durable \in [0..MaxReports -> Nat]
  /\ metadata \in [1..MaxReports -> MetadataFile]
  /\ finished \subseteq 1..MaxReports

TypeOK == StateTypes /\ BufferTypes /\ FileTypes

\* How many rows the stream of the current report was given: its first line
\* is a heading.
RowsPrinted == IF printed[File] = <<>> THEN 0 ELSE Len(printed[File]) - 1

\* The rows that flush_buffer has in the builder.
Held == IF pc = "flush" /\ kind = "full" THEN builder ELSE <<>>

\* An event is in the file, in the builder or in the buffer, once and in the
\* order of the profiler's notifications, wherever a flush is and however often
\* the builder was printed during it.
EventsAreReportedOnce ==
  pc \in {"idle", "flush"} =>
    LET lines == printed[File]
    IN  /\ \A i \in 2..Len(lines) : lines[i].is = "row" /\ lines[i].event = i - 1
        /\ \A i \in 1..Len(Held) : Held[i].event = RowsPrinted + i
        /\ \A i \in at..Len(buffer) : buffer[i].n = RowsPrinted + Len(Held) + i - at + 1
        /\ events[reports] = RowsPrinted + Len(Held) + Len(buffer) - at + 1

\* The end of a call is in line i.
Ends(line) == line.is = "row" /\ ~line.start

\* A finished full report is all in its file: the rows of every event, then the
\* functions; and if its metadata could be saved, it counts the calls that end
\* in the file.
FinishedReportIsWhole ==
  \A r \in finished : printed[r] # <<>> =>
    LET lines == printed[r]
    IN  /\ durable[r] = Len(lines) /\ Len(lines) = events[r] + 2
        /\ lines[1].is = "events" /\ lines[Len(lines)].is = "functions"
        /\ \A i \in 2 .. Len(lines) - 1 : lines[i].is = "row" /\ lines[i].event = i - 1
        /\ metadata[r].state \in {"absent", "saved"}
        /\ metadata[r].state = "saved" =>
             metadata[r].called = Cardinality({i \in 1..Len(lines) : Ends(lines[i])})

\* A row that is no longer than RESERVE is never cut, whatever longer rows are
\* around it.
SmallRowsAreWhole ==
  \A f \in 0..MaxReports : \A i \in 1..Len(printed[f]) :
    printed[f][i].small => printed[f][i].whole

\* A safe trace has every event in its file whenever the script runs; if the
\* process dies, all but the one that was being reported.
SafeTraceIsDurable ==
  kind = "safe" /\ reports > 0 /\ events[reports] > 0 =>
    /\ events[reports] > 1 => durable[0] >= events[reports]
    /\ pc = "idle" => durable[0] = events[reports] + 1

\* What readers of the data directory see: the report that has a writer, those
\* that are closed, and the metadata.
Writing == IF pc # "none" /\ kind = "full" THEN {reports} ELSE {}
Whole   == {r \in finished : printed[r] # <<>>}
States  == [r \in 1..MaxReports |-> metadata[r].state]

Files == INSTANCE ReportFiles WITH
  Reports <- 1..MaxReports, writing <- Writing, whole <- Whole, metadata <- States

\* What readers of the data directory are promised, ReportFiles: a report has one
\* writer and its metadata is saved before it is closed, through crashes, custom
\* metadata, flushes and the traces in between.
ImplementsReportFiles == Files!Spec
=============================================================================
