--------------------------- MODULE SpxReporterProofs ---------------------------
(***************************************************************************)
(* Proofs about the reporters of SpxReporter, for every capacity of their  *)
(* buffers and every length of rows.                                       *)
(***************************************************************************)
EXTENDS SpxReporterReport, FiniteSetTheorems, TLAPS

-----------------------------------------------------------------------------
(* Types. *)

LEMMA HeadingIsLine ==
  ASSUME NEW h \in {"events", "header", "functions"}
  PROVE  Heading(h) \in Line /\ Heading(h).whole
  BY DEF Heading, Line

LEMMA RowIsLine ==
  ASSUME NEW e \in Event, NEW all \in BOOLEAN
  PROVE  Row(e, all) \in Line
  BY DEF Row, Line, Event

LEMMA FileType ==
  ASSUME NEW k \in Kinds, NEW r \in 1..MaxReports
  PROVE  FileOf(k, r) \in 0..MaxReports
  BY ReporterAssumption DEF FileOf, Kinds

LEMMA MetadataType ==
  ASSUME note \in Notes \cup {NoNote}, called \in Nat,
         NEW state \in {"absent", "cut", "saved"}
  PROVE  Metadata(state) \in MetadataFile
  BY DEF Metadata, MetadataFile

LEMMA TypeInit == Init => TypeOK
  <1> SUFFICES ASSUME Init PROVE TypeOK
    OBVIOUS
  <1>1. Metadata("absent") \in MetadataFile
    BY MetadataType DEF Init
  <1>2. StateTypes
    <2>1. MaxReports \in Nat
      BY ReporterAssumption
    <2>2. events \in [1..MaxReports -> Nat]
      BY DEF Init
    <2> QED
      BY <2>1, <2>2 DEF Init, StateTypes, Kinds
  <1>3. BufferTypes
    BY ReporterAssumption DEF Init, BufferTypes
  <1>4. FileTypes
    BY <1>1 DEF Init, FileTypes
  <1> QED
    BY <1>2, <1>3, <1>4 DEF TypeOK

LEMMA CurrentFile ==
  ASSUME TypeOK, pc # "none"
  PROVE  reports \in 1..MaxReports /\ File \in 0..MaxReports
  BY FileType, ReporterAssumption DEF TypeOK, StateTypes, File

LEMMA FlushTypes ==
  ASSUME TypeOK, pc # "none", BeginFlush
  PROVE  /\ pc' = "flush" /\ at' = 1 /\ builder' = <<>> /\ size' = 0
         /\ first' \in BOOLEAN /\ printed' \in [0..MaxReports -> Seq(Line)]
  BY CurrentFile, HeadingIsLine DEF BeginFlush, TypeOK, StateTypes, FileTypes

LEMMA TypeStep == TypeOK /\ [Next]_vars => TypeOK'
  <1> SUFFICES ASSUME TypeOK, [Next]_vars PROVE StateTypes' /\ BufferTypes' /\ FileTypes'
    BY DEF TypeOK
  <1> USE ReporterAssumption DEF TypeOK
  <1>1. ASSUME NEW k \in Kinds, Create(k) PROVE StateTypes' /\ BufferTypes' /\ FileTypes'
    <2>1. reports + 1 \in 1..MaxReports
      BY <1>1 DEF Create, StateTypes
    <2>2. FileOf(k, reports + 1) \in 0..MaxReports
      BY <2>1, FileType
    <2>3. StateTypes'
      BY <1>1, <2>1 DEF Create, StateTypes, memory
    <2>4. BufferTypes'
      BY <1>1 DEF Create, BufferTypes, memory, strings
    <2>5. FileTypes'
      BY <1>1, <2>2, HeadingIsLine DEF Create, FileTypes
    <2> QED
      BY <2>3, <2>4, <2>5
  <1>2. ASSUME NEW s \in Notes, NEW copied \in BOOLEAN, SetCustomMetadata(s, copied)
        PROVE  StateTypes' /\ BufferTypes' /\ FileTypes'
    <2>1. StateTypes'
      BY <1>2 DEF SetCustomMetadata, Kept, StateTypes, inside
    <2>2. BufferTypes' /\ FileTypes'
      BY <1>2 DEF SetCustomMetadata, BufferTypes, FileTypes, strings, files
    <2> QED
      BY <2>1, <2>2
  <1>3. ASSUME NEW start \in BOOLEAN, NEW length \in RowSizes, Record(start, length)
        PROVE  StateTypes' /\ BufferTypes' /\ FileTypes'
    <2> DEFINE e == [n |-> events[reports] + 1, start |-> start, size |-> length]
    <2>1. pc = "idle" /\ reports \in 1..MaxReports
      BY <1>3, CurrentFile DEF Record
    <2>2. e \in Event
      BY <2>1 DEF Event, StateTypes
    <2>3. buffer' \in Seq(Event) /\ Len(buffer') = Len(buffer) + 1
      BY <1>3, <2>2 DEF Record, BufferTypes
    <2>4. called' \in Nat /\ events' \in [1..MaxReports -> Nat]
      BY <1>3, <2>1, SMTT(60) DEF Record, StateTypes
    <2>5. /\ pc' \in {"idle", "flush"} /\ at' \in 1 .. Len(buffer') + 1
          /\ builder' \in Seq(Line) /\ size' \in 0..BUILDER_CAPACITY
          /\ first' \in BOOLEAN /\ printed' \in [0..MaxReports -> Seq(Line)]
      <3>1. CASE BeginFlush
        BY <3>1, <2>1, <2>3, FlushTypes DEF BufferTypes
      <3>2. CASE UNCHANGED <<pc, at, strings, first, printed>>
        BY <3>2, <2>1, <2>3, SMTT(60) DEF StateTypes, BufferTypes, FileTypes, strings
      <3> QED
        BY <1>3, <3>1, <3>2 DEF Record
    <2>6. StateTypes'
      BY <1>3, <2>1, <2>4, <2>5 DEF Record, StateTypes
    <2>7. BufferTypes'
      BY <2>3, <2>5 DEF BufferTypes
    <2>8. FileTypes'
      BY <1>3, <2>5 DEF Record, FileTypes
    <2> QED
      BY <2>6, <2>7, <2>8
  <1>4. ASSUME Finalize PROVE StateTypes' /\ BufferTypes' /\ FileTypes'
    <2>1. reports \in 1..MaxReports /\ pc # "none" /\ BeginFlush
      BY <1>4, CurrentFile DEF Finalize
    <2>2. StateTypes'
      BY <1>4, <2>1, FlushTypes DEF Finalize, StateTypes
    <2>3. BufferTypes'
      BY <1>4, <2>1, FlushTypes DEF Finalize, BufferTypes
    <2>4. FileTypes'
      BY <1>4, <2>1, FlushTypes DEF Finalize, FileTypes
    <2> QED
      BY <2>2, <2>3, <2>4
  <1>5. ASSUME FlushFullRow PROVE StateTypes' /\ BufferTypes' /\ FileTypes'
    <2>1. PICK k \in Taken(buffer[at].size) :
            IF MustPrint(Room - k)
            THEN /\ printed' = [printed EXCEPT ![File] =
                                  @ \o Append(builder, Row(buffer[at], k = buffer[at].size))]
                 /\ builder' = <<>> /\ size' = 0
            ELSE /\ builder' = Append(builder, Row(buffer[at], k = buffer[at].size))
                 /\ size' = size + k
                 /\ UNCHANGED printed
      BY <1>5 DEF FlushFullRow, Restarted
    <2>2. buffer[at] \in Event /\ at \in 1..Len(buffer) /\ File \in 0..MaxReports
      BY <1>5, CurrentFile DEF FlushFullRow, BufferTypes
    <2>3. Row(buffer[at], k = buffer[at].size) \in Line
      BY <2>2, RowIsLine
    <2>4. PICK rows \in Seq(Line) :
            rows = Append(builder, Row(buffer[at], k = buffer[at].size))
      <3> DEFINE row == Row(buffer[at], k = buffer[at].size)
      <3>1. row \in Line /\ builder \in Seq(Line)
        BY <2>3 DEF BufferTypes
      <3> HIDE DEF row
      <3>2. Append(builder, row) \in Seq(Line)
        BY <3>1
      <3> QED
        BY <3>2 DEF row
    <2>5. k \in 0..Room /\ Room \in Nat /\ size + Room = BUILDER_CAPACITY
      <3>1. buffer[at].size \in Nat
        BY <2>2 DEF Event
      <3>2. Room \in Nat /\ size + Room = BUILDER_CAPACITY
        BY DEF Room, BufferTypes
      <3> QED
        BY <2>1, <3>1, <3>2 DEF Taken
    <2>6. StateTypes'
      BY <1>5 DEF FlushFullRow, StateTypes, inside
    <2>7. builder' \in Seq(Line) /\ size' \in 0..BUILDER_CAPACITY
      <3>1. size + k \in 0..BUILDER_CAPACITY
        BY <2>5 DEF BufferTypes
      <3>2. 0 \in 0..BUILDER_CAPACITY /\ <<>> \in Seq(Line)
        BY ReporterAssumption
      <3>3. \/ builder' = <<>> /\ size' = 0
            \/ builder' = rows /\ size' = size + k
        BY <2>1, <2>4
      <3> QED
        BY <2>4, <3>1, <3>2, <3>3
    <2>8. BufferTypes'
      BY <1>5, <2>2, <2>7 DEF FlushFullRow, BufferTypes
    <2>9. printed' \in [0..MaxReports -> Seq(Line)]
      <3>1. printed[File] \o rows \in Seq(Line)
        BY <2>2 DEF FileTypes
      <3> QED
        BY <2>1, <2>2, <2>4, <3>1 DEF FileTypes
    <2>10. FileTypes'
      BY <1>5, <2>9 DEF FlushFullRow, FileTypes
    <2> QED
      BY <2>6, <2>8, <2>10
  <1>6. ASSUME FlushTraceRow PROVE StateTypes' /\ BufferTypes' /\ FileTypes'
    <2>1. buffer[at] \in Event /\ at \in 1..Len(buffer) /\ File \in 0..MaxReports
      BY <1>6, CurrentFile DEF FlushTraceRow, BufferTypes
    <2>2. PICK row \in Line : row = Row(buffer[at], TRUE)
      BY <2>1, RowIsLine
    <2>3. printed' \in [0..MaxReports -> Seq(Line)]
      <3>1. printed' = [printed EXCEPT ![File] = Append(printed[File], row)]
        BY <1>6, <2>2 DEF FlushTraceRow
      <3>2. Append(printed[File], row) \in Seq(Line)
        BY <2>1 DEF FileTypes
      <3> QED
        BY <2>1, <3>1, <3>2 DEF FileTypes
    <2>4. durable' \in [0..MaxReports -> Nat]
      BY <1>6, <2>1, <2>3 DEF FlushTraceRow, FileTypes
    <2>5. StateTypes'
      BY <1>6 DEF FlushTraceRow, StateTypes, inside
    <2>6. BufferTypes'
      BY <1>6, <2>1 DEF FlushTraceRow, BufferTypes, strings
    <2>7. FileTypes'
      BY <1>6, <2>3, <2>4 DEF FlushTraceRow, FileTypes
    <2> QED
      BY <2>5, <2>6, <2>7
  <1>7. ASSUME EndFlush PROVE StateTypes' /\ BufferTypes' /\ FileTypes'
    <2>1. LastRows \in Seq(Line) /\ File \in 0..MaxReports
      BY <1>7, CurrentFile DEF LastRows, BufferTypes, EndFlush
    <2>2. StateTypes'
      BY <1>7 DEF EndFlush, StateTypes, inside
    <2>3. BufferTypes'
      BY <1>7 DEF EndFlush, BufferTypes, strings
    <2>4. FileTypes'
      BY <1>7, <2>1, SMTT(60) DEF EndFlush, FileTypes
    <2> QED
      BY <2>2, <2>3, <2>4
  <1>8. ASSUME NEW opened \in BOOLEAN, PrintFunctions(opened)
        PROVE  StateTypes' /\ BufferTypes' /\ FileTypes'
    <2>1. reports \in 1..MaxReports /\ File \in 0..MaxReports
      BY <1>8, CurrentFile DEF PrintFunctions, AfterFunctions
    <2>2. Metadata("cut") \in MetadataFile
      BY MetadataType DEF StateTypes
    <2>3. StateTypes'
      BY <1>8, <2>1 DEF PrintFunctions, AfterFunctions, StateTypes, inside
    <2>4. BufferTypes'
      BY <1>8 DEF PrintFunctions, AfterFunctions, BufferTypes, strings
    <2>5. FileTypes'
      BY <1>8, <2>1, <2>2, HeadingIsLine, SMTT(60) DEF PrintFunctions, AfterFunctions, FileTypes
    <2> QED
      BY <2>3, <2>4, <2>5
  <1>9. ASSUME SaveMetadata PROVE StateTypes' /\ BufferTypes' /\ FileTypes'
    <2>1. Metadata("saved") \in MetadataFile
      BY MetadataType DEF StateTypes
    <2>2. StateTypes'
      BY <1>9, CurrentFile DEF SaveMetadata, StateTypes, inside
    <2>3. BufferTypes'
      BY <1>9 DEF SaveMetadata, BufferTypes, strings
    <2>4. FileTypes'
      BY <1>9, <2>1 DEF SaveMetadata, FileTypes
    <2> QED
      BY <2>2, <2>3, <2>4
  <1>10. ASSUME Close PROVE StateTypes' /\ BufferTypes' /\ FileTypes'
    <2>1. reports \in 1..MaxReports /\ File \in 0..MaxReports
      BY <1>10, CurrentFile DEF Close
    <2>2. StateTypes'
      BY <1>10 DEF Close, Free, StateTypes, inside
    <2>3. BufferTypes'
      BY <1>10 DEF Close, Free, BufferTypes
    <2>4. FileTypes'
      BY <1>10, <2>1 DEF Close, FileTypes
    <2> QED
      BY <2>2, <2>3, <2>4
  <1>11. ASSUME Crash PROVE StateTypes' /\ BufferTypes' /\ FileTypes'
    <2>1. File \in 0..MaxReports
      BY <1>11, CurrentFile DEF Crash
    <2>2. PICK n \in durable[File] .. Len(printed[File]) :
            /\ printed' = [printed EXCEPT ![File] = SubSeq(@, 1, n)]
            /\ durable' = [durable EXCEPT ![File] = n]
      BY <1>11 DEF Crash
    <2>3. SubSeq(printed[File], 1, n) \in Seq(Line) /\ n \in Nat
      BY <2>1 DEF FileTypes
    <2>4. StateTypes'
      BY <1>11 DEF Crash, Free, StateTypes, inside
    <2>5. BufferTypes'
      BY <1>11 DEF Crash, Free, BufferTypes
    <2>6. FileTypes'
      BY <1>11, <2>1, <2>2, <2>3 DEF Crash, FileTypes
    <2> QED
      BY <2>4, <2>5, <2>6
  <1>12. ASSUME UNCHANGED vars PROVE StateTypes' /\ BufferTypes' /\ FileTypes'
    BY <1>12 DEF vars, memory, strings, inside, files, StateTypes, BufferTypes, FileTypes
  <1> QED
    BY <1>1, <1>2, <1>3, <1>4, <1>5, <1>6, <1>7, <1>8, <1>9, <1>10, <1>11, <1>12
    DEF Next

\* The reporters keep their types whatever the script, the C library and the
\* death of the process do.
THEOREM TypeCorrect == Spec => []TypeOK
  BY TypeInit, TypeStep, PTL DEF Spec

-----------------------------------------------------------------------------
(* The buffer and the string builder. *)

\* What the fill of the buffer and the room of the builder are at each place: a
\* safe trace has at most the event being reported in its buffer.
Fills ==
  /\ Len(buffer) <= BUFFER_CAPACITY
  /\ pc = "none" => buffer = <<>> /\ at = 1
  /\ pc = "idle" => /\ Len(buffer) < BUFFER_CAPACITY /\ at = 1
                    /\ kind = "safe" => buffer = <<>>
  /\ pc = "flush" => /\ Room >= RESERVE
                     /\ kind = "safe" => Len(buffer) <= 1

LEMMA FillsInit == Init => Fills
  BY ReporterAssumption DEF Init, Fills

LEMMA FillsStep == TypeOK /\ Fills /\ [Next]_vars => Fills'
  <1> SUFFICES ASSUME TypeOK, Fills, [Next]_vars PROVE Fills'
    OBVIOUS
  <1> USE ReporterAssumption DEF TypeOK
  <1>1. ASSUME NEW k \in Kinds, Create(k) PROVE Fills'
    BY <1>1 DEF Create, Fills, memory, strings
  <1>2. ASSUME NEW s \in Notes, NEW copied \in BOOLEAN, SetCustomMetadata(s, copied)
        PROVE  Fills'
    BY <1>2 DEF SetCustomMetadata, Fills, inside, strings
  <1>3. ASSUME NEW start \in BOOLEAN, NEW length \in RowSizes, Record(start, length)
        PROVE  Fills'
    <2>1. pc = "idle" /\ Len(buffer') = Len(buffer) + 1 /\ kind' = kind
      BY <1>3 DEF Record, BufferTypes
    <2>2. kind = "safe" => Len(buffer') = 1
      BY <2>1 DEF Fills
    <2>3. CASE MustFlush(buffer')
      <3>1. BeginFlush
        BY <1>3, <2>3 DEF Record
      <3> QED
        BY <3>1, <2>1, <2>2 DEF BeginFlush, Fills, Room
    <2>4. CASE ~MustFlush(buffer')
      <3>1. UNCHANGED <<pc, at>>
        BY <1>3, <2>4 DEF Record
      <3>2. Len(buffer') < BUFFER_CAPACITY /\ kind # "safe"
        BY <2>1, <2>4 DEF MustFlush, BufferTypes
      <3> QED
        BY <3>1, <3>2, <2>1 DEF Fills
    <2> QED
      BY <2>3, <2>4
  <1>4. ASSUME Finalize PROVE Fills'
    BY <1>4 DEF Finalize, BeginFlush, Fills, Room
  <1>5. ASSUME FlushFullRow PROVE Fills'
    <2>1. PICK k \in Taken(buffer[at].size) :
            IF MustPrint(Room - k) THEN size' = 0 ELSE size' = size + k
      BY <1>5 DEF FlushFullRow
    <2>2. buffer[at] \in Event
      BY <1>5 DEF FlushFullRow, BufferTypes
    <2>3. size \in Nat /\ k \in Nat
      <3>1. size \in Nat
        BY DEF BufferTypes
      <3>2. buffer[at].size \in Nat
        BY <2>2 DEF Event
      <3> QED
        BY <2>1, <3>1, <3>2 DEF Taken, Room
    <2>4. Room' >= RESERVE
      <3>1. CASE MustPrint(Room - k)
        BY <2>1, <3>1 DEF Room
      <3>2. CASE ~MustPrint(Room - k)
        BY <2>1, <2>3, <3>2 DEF Room, MustPrint
      <3> QED
        BY <3>1, <3>2
    <2> QED
      BY <1>5, <2>4 DEF FlushFullRow, Fills, inside
  <1>6. ASSUME FlushTraceRow PROVE Fills'
    BY <1>6 DEF FlushTraceRow, Fills, inside, strings, Room
  <1>7. ASSUME EndFlush PROVE Fills'
    BY <1>7 DEF EndFlush, Fills
  <1>8. ASSUME NEW opened \in BOOLEAN, PrintFunctions(opened) PROVE Fills'
    BY <1>8 DEF PrintFunctions, AfterFunctions, Fills
  <1>9. ASSUME SaveMetadata PROVE Fills'
    BY <1>9 DEF SaveMetadata, Fills
  <1>10. ASSUME Close \/ Crash PROVE Fills'
    BY <1>10 DEF Close, Crash, Free, Fills
  <1>11. ASSUME UNCHANGED vars PROVE Fills'
    BY <1>11 DEF vars, memory, strings, inside, Fills, Room
  <1> QED
    BY <1>1, <1>2, <1>3, <1>4, <1>5, <1>6, <1>7, <1>8, <1>9, <1>10, <1>11 DEF Next

\* No event is written past the end of the buffer, however flushes and events
\* alternate, and whenever a row is appended RESERVE characters are free.
BuffersHold ==
  /\ Len(buffer) <= BUFFER_CAPACITY
  /\ pc = "idle" => Len(buffer) < BUFFER_CAPACITY
  /\ pc = "flush" => Room >= RESERVE

\* However events and flushes alternate, the reporter writes within its buffer
\* and has RESERVE characters free for the next row.
THEOREM NothingOverflows == Spec => []BuffersHold
  <1>1. TypeOK /\ Fills => BuffersHold
    BY DEF Fills, BuffersHold
  <1> QED
    BY <1>1, TypeInit, TypeStep, FillsInit, FillsStep, PTL DEF Spec

-----------------------------------------------------------------------------
(* Small rows. *)

\* A line that may be in a file.
FitLine == {l \in Line : l.small => l.whole}

\* The rows in the builder are as fit as those that were printed.
RowsFit ==
  /\ builder \in Seq(FitLine)
  /\ \A f \in 0..MaxReports : printed[f] \in Seq(FitLine)

LEMMA HeadingFits ==
  ASSUME NEW h \in {"events", "header", "functions"}
  PROVE  Heading(h) \in FitLine
  BY HeadingIsLine DEF FitLine

\* A row that is appended in a flush: a small one has the room it needs.
LEMMA RowFits ==
  ASSUME TypeOK, Fills, FlushFullRow, NEW k \in Taken(buffer[at].size)
  PROVE  Row(buffer[at], k = buffer[at].size) \in FitLine
  <1> USE ReporterAssumption DEF TypeOK
  <1>1. buffer[at] \in Event
    BY DEF FlushFullRow, BufferTypes
  <1>2. buffer[at].size \in Nat /\ size \in Nat /\ Room >= RESERVE
    <2>1. buffer[at].size \in Nat
      BY <1>1 DEF Event
    <2>2. size \in Nat /\ Room >= RESERVE
      BY DEF BufferTypes, FlushFullRow, Fills
    <2> QED
      BY <2>1, <2>2
  <1>3. Row(buffer[at], k = buffer[at].size) \in Line
    BY <1>1, RowIsLine
  <1>4. CASE k = buffer[at].size
    <2>1. Row(buffer[at], TRUE) \in FitLine
      BY <1>3, <1>4 DEF Row, FitLine
    <2> QED
      BY <1>4, <2>1
  <1>5. CASE k # buffer[at].size
    <2>1. ~(buffer[at].size <= RESERVE)
      BY <1>2, <1>5 DEF Taken, Room
    <2>2. ~Row(buffer[at], k = buffer[at].size).small
      BY <2>1 DEF Row
    <2> QED
      BY <1>3, <2>2 DEF FitLine
  <1> QED
    BY <1>4, <1>5

LEMMA FitInit == Init => RowsFit
  BY DEF Init, RowsFit

\* One file is given lines that fit.
LEMMA FitPrinted ==
  ASSUME TypeOK, RowsFit, NEW f \in 0..MaxReports, NEW lines \in Seq(FitLine),
         printed' = [printed EXCEPT ![f] = lines]
  PROVE  \A g \in 0..MaxReports : printed'[g] \in Seq(FitLine)
  BY DEF TypeOK, FileTypes, RowsFit

\* The header that a flush begins with.
LEMMA FitFlush ==
  ASSUME TypeOK, RowsFit, pc # "none", BeginFlush
  PROVE  RowsFit'
  <1>1. CASE kind # "full" /\ first
    <2>1. File \in 0..MaxReports
      BY CurrentFile
    <2>2. Append(printed[File], Heading("header")) \in Seq(FitLine)
      BY <2>1, HeadingFits DEF RowsFit
    <2>3. \A g \in 0..MaxReports : printed'[g] \in Seq(FitLine)
      BY <1>1, <2>1, <2>2, FitPrinted DEF BeginFlush
    <2> QED
      BY <2>3 DEF BeginFlush, RowsFit
  <1>2. CASE ~(kind # "full" /\ first)
    BY <1>2 DEF BeginFlush, RowsFit
  <1> QED
    BY <1>1, <1>2

LEMMA FitStep == TypeOK /\ Fills /\ RowsFit /\ [Next]_vars => RowsFit'
  <1> SUFFICES ASSUME TypeOK, Fills, RowsFit, [Next]_vars PROVE RowsFit'
    OBVIOUS
  <1> DEFINE FilesFit == \A g \in 0..MaxReports : printed'[g] \in Seq(FitLine)
  <1>1. ASSUME NEW k \in Kinds, Create(k) PROVE RowsFit'
    <2>1. FileOf(k, reports + 1) \in 0..MaxReports
      BY <1>1, FileType, ReporterAssumption DEF Create, TypeOK, StateTypes
    <2>2. (IF k = "full" THEN <<Heading("events")>> ELSE <<>>) \in Seq(FitLine)
      BY HeadingFits
    <2>3. FilesFit
      BY <1>1, <2>1, <2>2, FitPrinted DEF Create
    <2> QED
      BY <1>1, <2>3 DEF Create, RowsFit, memory, strings
  <1>2. ASSUME NEW s \in Notes, NEW copied \in BOOLEAN, SetCustomMetadata(s, copied)
        PROVE  RowsFit'
    BY <1>2 DEF SetCustomMetadata, RowsFit, strings, files
  <1>3. ASSUME NEW start \in BOOLEAN, NEW length \in RowSizes, Record(start, length)
        PROVE  RowsFit'
    <2>1. CASE BeginFlush
      BY <1>3, <2>1, FitFlush DEF Record
    <2>2. CASE UNCHANGED <<pc, at, strings, first, printed>>
      BY <2>2 DEF RowsFit, strings
    <2> QED
      BY <1>3, <2>1, <2>2 DEF Record
  <1>4. ASSUME Finalize PROVE RowsFit'
    BY <1>4, FitFlush DEF Finalize
  <1>5. ASSUME FlushFullRow PROVE RowsFit'
    <2> DEFINE row(k)  == Row(buffer[at], k = buffer[at].size)
               rows(k) == Append(builder, row(k))
    <2>1. PICK k \in Taken(buffer[at].size) :
            IF MustPrint(Room - k)
            THEN /\ printed' = [printed EXCEPT ![File] = @ \o rows(k)]
                 /\ builder' = <<>>
            ELSE builder' = rows(k) /\ UNCHANGED printed
      BY <1>5 DEF FlushFullRow, Restarted
    <2>2. row(k) \in FitLine
      BY <1>5, RowFits
    <2> HIDE DEF row
    <2>3. rows(k) \in Seq(FitLine)
      BY <2>2 DEF RowsFit
    <2> HIDE DEF rows
    <2>4. CASE MustPrint(Room - k)
      <3>1. File \in 0..MaxReports
        BY <1>5, CurrentFile DEF FlushFullRow
      <3>2. printed[File] \o rows(k) \in Seq(FitLine)
        BY <2>3, <3>1 DEF RowsFit
      <3>3. FilesFit
        BY <2>1, <2>4, <3>1, <3>2, FitPrinted
      <3> QED
        BY <2>1, <2>4, <3>3 DEF RowsFit
    <2>5. CASE ~MustPrint(Room - k)
      BY <2>1, <2>3, <2>5 DEF RowsFit
    <2> QED
      BY <2>4, <2>5
  <1>6. ASSUME FlushTraceRow PROVE RowsFit'
    <2>1. buffer[at] \in Event /\ File \in 0..MaxReports
      BY <1>6, CurrentFile DEF FlushTraceRow, TypeOK, BufferTypes
    <2>2. PICK row \in FitLine : row = Row(buffer[at], TRUE)
      <3>1. Row(buffer[at], TRUE) \in Line
        BY <2>1, RowIsLine
      <3> QED
        BY <3>1 DEF Row, FitLine
    <2>3. Append(printed[File], row) \in Seq(FitLine)
      BY <2>1 DEF RowsFit
    <2>4. FilesFit
      BY <1>6, <2>1, <2>2, <2>3, FitPrinted DEF FlushTraceRow
    <2> QED
      BY <1>6, <2>4 DEF FlushTraceRow, RowsFit, strings
  <1>7. ASSUME EndFlush PROVE RowsFit'
    <2>1. File \in 0..MaxReports
      BY <1>7, CurrentFile DEF EndFlush
    <2>2. printed[File] \o LastRows \in Seq(FitLine)
      BY <2>1 DEF LastRows, RowsFit
    <2>3. FilesFit
      BY <1>7, <2>1, <2>2, FitPrinted DEF EndFlush
    <2> QED
      BY <1>7, <2>3 DEF EndFlush, RowsFit, strings
  <1>8. ASSUME NEW opened \in BOOLEAN, PrintFunctions(opened) PROVE RowsFit'
    <2>1. File \in 0..MaxReports
      BY <1>8, CurrentFile DEF PrintFunctions, AfterFunctions
    <2>2. Append(printed[File], Heading("functions")) \in Seq(FitLine)
      BY <2>1, HeadingFits DEF RowsFit
    <2>3. FilesFit
      BY <1>8, <2>1, <2>2, FitPrinted DEF PrintFunctions, AfterFunctions
    <2> QED
      BY <1>8, <2>3 DEF PrintFunctions, AfterFunctions, RowsFit, strings
  <1>9. ASSUME SaveMetadata PROVE RowsFit'
    BY <1>9 DEF SaveMetadata, RowsFit, strings
  <1>10. ASSUME Close PROVE RowsFit'
    BY <1>10 DEF Close, Free, RowsFit
  <1>11. ASSUME Crash PROVE RowsFit'
    <2>1. File \in 0..MaxReports
      BY <1>11, CurrentFile DEF Crash
    <2>2. PICK n \in durable[File] .. Len(printed[File]) :
            printed' = [printed EXCEPT ![File] = SubSeq(@, 1, n)]
      BY <1>11 DEF Crash
    <2>3. SubSeq(printed[File], 1, n) \in Seq(FitLine)
      <3>1. durable[File] \in Nat /\ printed[File] \in Seq(FitLine)
        BY <2>1 DEF TypeOK, FileTypes, RowsFit
      <3> QED
        BY <3>1
    <2>4. FilesFit
      BY <2>1, <2>2, <2>3, FitPrinted
    <2> QED
      BY <1>11, <2>4 DEF Crash, Free, RowsFit
  <1>12. ASSUME UNCHANGED vars PROVE RowsFit'
    BY <1>12 DEF vars, memory, strings, files, RowsFit
  <1> QED
    BY <1>1, <1>2, <1>3, <1>4, <1>5, <1>6, <1>7, <1>8, <1>9, <1>10, <1>11, <1>12
    DEF Next

\* Only rows that are longer than RESERVE are ever cut: with the capacity of
\* the builder that flush_buffer keeps free, a shorter one always fits.
THEOREM ShortRowsAreNeverCut == Spec => []SmallRowsAreWhole
  <1>1. RowsFit => SmallRowsAreWhole
    BY DEF RowsFit, SmallRowsAreWhole, FitLine
  <1> QED
    BY <1>1, TypeInit, TypeStep, FillsInit, FillsStep, FitInit, FitStep, PTL DEF Spec

-----------------------------------------------------------------------------
(* Events are reported once. *)

\* The rows of lines, then those of held, then the events of waiting from the
\* place next on, are the events 1 to last in their order.
InOrder(lines, held, waiting, next, last) ==
  /\ lines # <<>>
  /\ \A i \in 2..Len(lines) : lines[i].is = "row" /\ lines[i].event = i - 1
  /\ \A i \in 1..Len(held) : held[i].is = "row" /\ held[i].event = Len(lines) - 1 + i
  /\ \A i \in next..Len(waiting) :
       waiting[i].n = Len(lines) - 1 + Len(held) + i - next + 1
  /\ last = Len(lines) - 1 + Len(held) + Len(waiting) - next + 1

\* A trace that has no header yet has no line; its events will follow one.
Headed ==
  IF kind # "full" /\ first THEN <<Heading("header")>> ELSE printed[File]

Booked ==
  /\ \A r \in 1..MaxReports : r > reports => events[r] = 0
  /\ pc \in {"idle", "flush"} =>
       InOrder(Headed, Held, buffer, at, events[reports])
  /\ pc \in {"idle", "flush"} /\ kind # "full" /\ first => printed[File] = <<>>
  /\ pc = "flush" /\ kind # "full" => ~first

LEMMA BookedOnce == TypeOK /\ Booked => EventsAreReportedOnce
  <1> SUFFICES ASSUME TypeOK, Booked, pc \in {"idle", "flush"} PROVE EventsAreReportedOnce
    BY DEF EventsAreReportedOnce
  <1>1. CASE kind # "full" /\ first
    <2>1. printed[File] = <<>> /\ Len(Headed) = 1 /\ RowsPrinted = 0
      BY <1>1 DEF Booked, Headed, RowsPrinted
    <2> QED
      BY <2>1 DEF Booked, InOrder, EventsAreReportedOnce
  <1>2. CASE ~(kind # "full" /\ first)
    <2>1. Headed = printed[File] /\ printed[File] # <<>>
      BY <1>2 DEF Booked, Headed, InOrder
    <2>2. RowsPrinted = Len(Headed) - 1
      BY <2>1 DEF RowsPrinted
    <2> QED
      BY <2>1, <2>2 DEF Booked, InOrder, EventsAreReportedOnce
  <1> QED
    BY <1>1, <1>2

\* One more event is notified.
LEMMA OrderRecorded ==
  ASSUME NEW lines \in Seq(Line), NEW waiting \in Seq(Event), NEW last \in Nat,
         InOrder(lines, <<>>, waiting, 1, last), NEW e \in Event, e.n = last + 1
  PROVE  InOrder(lines, <<>>, Append(waiting, e), 1, last + 1)
  <1>1. /\ lines # <<>> /\ last = Len(lines) - 1 + Len(waiting)
        /\ \A i \in 2..Len(lines) : lines[i].is = "row" /\ lines[i].event = i - 1
    BY DEF InOrder
  <1>2. \A i \in 1..Len(Append(waiting, e)) :
          Append(waiting, e)[i].n = Len(lines) - 1 + i
    <2> TAKE i \in 1..Len(Append(waiting, e))
    <2>1. CASE i <= Len(waiting)
      BY <2>1 DEF InOrder
    <2>2. CASE i = Len(waiting) + 1
      BY <1>1, <2>2
    <2> QED
      BY <2>1, <2>2
  <1>3. Len(Append(waiting, e)) = Len(waiting) + 1 /\ Len(<<>>) = 0
    OBVIOUS
  <1>4. ASSUME NEW i \in 1..Len(Append(waiting, e))
        PROVE  Append(waiting, e)[i].n = Len(lines) - 1 + Len(<<>>) + i - 1 + 1
    <2>1. Append(waiting, e)[i].n = Len(lines) - 1 + i
      BY <1>2
    <2>2. Len(lines) \in Nat /\ Len(<<>>) = 0 /\ i \in Nat
      OBVIOUS
    <2>3. Len(lines) - 1 + i = Len(lines) - 1 + Len(<<>>) + i - 1 + 1
      BY <2>2
    <2> QED
      BY <2>1, <2>3
  <1>5. last + 1 = Len(lines) - 1 + Len(<<>>) + Len(Append(waiting, e)) - 1 + 1
    BY <1>1, <1>3
  <1>6. \A i \in 1..Len(<<>>) :
          <<>>[i].is = "row" /\ <<>>[i].event = Len(lines) - 1 + i
    BY <1>3
  <1> QED
    BY <1>1, <1>4, <1>5, <1>6 DEF InOrder

\* One more row is in the builder.
LEMMA OrderHeld ==
  ASSUME NEW lines \in Seq(Line), NEW held \in Seq(Line), NEW waiting \in Seq(Event),
         NEW next \in 1..Len(waiting), NEW last \in Nat,
         InOrder(lines, held, waiting, next, last),
         NEW row \in Line, row.is = "row", row.event = waiting[next].n
  PROVE  InOrder(lines, Append(held, row), waiting, next + 1, last)
  <1>1. Len(Append(held, row)) = Len(held) + 1
    OBVIOUS
  <1>2. ASSUME NEW i \in 1..Len(Append(held, row))
        PROVE  /\ Append(held, row)[i].is = "row"
               /\ Append(held, row)[i].event = Len(lines) - 1 + i
    <2>1. CASE i <= Len(held)
      BY <2>1 DEF InOrder
    <2>2. CASE i = Len(held) + 1
      <3>1. waiting[next].n = Len(lines) - 1 + Len(held) + 1
        BY DEF InOrder
      <3> QED
        BY <2>2, <3>1
    <2> QED
      BY <1>1, <2>1, <2>2
  <1>3. \A i \in next + 1 .. Len(waiting) :
          waiting[i].n = Len(lines) - 1 + Len(Append(held, row)) + i - (next + 1) + 1
    BY <1>1 DEF InOrder
  <1> QED
    BY <1>1, <1>2, <1>3 DEF InOrder

\* The rows of the builder are printed.
LEMMA OrderPrinted ==
  ASSUME NEW lines \in Seq(Line), NEW held \in Seq(Line), NEW waiting \in Seq(Event),
         NEW next \in 1 .. Len(waiting) + 1, NEW last \in Nat,
         InOrder(lines, held, waiting, next, last)
  PROVE  InOrder(lines \o held, <<>>, waiting, next, last)
  <1>1. Len(lines \o held) = Len(lines) + Len(held) /\ lines \o held # <<>>
    BY DEF InOrder
  <1>2. ASSUME NEW i \in 2..Len(lines \o held)
        PROVE  (lines \o held)[i].is = "row" /\ (lines \o held)[i].event = i - 1
    <2>1. CASE i <= Len(lines)
      BY <2>1 DEF InOrder
    <2>2. CASE i > Len(lines)
      <3>1. i - Len(lines) \in 1..Len(held) /\ (lines \o held)[i] = held[i - Len(lines)]
        BY <1>1, <2>2
      <3> QED
        BY <3>1 DEF InOrder
    <2> QED
      BY <2>1, <2>2
  <1> QED
    BY <1>1, <1>2 DEF InOrder

\* The buffer is empty once all of it was printed.
LEMMA OrderEmptied ==
  ASSUME NEW lines \in Seq(Line), NEW waiting \in Seq(Event), NEW last \in Nat,
         InOrder(lines, <<>>, waiting, Len(waiting) + 1, last)
  PROVE  InOrder(lines, <<>>, <<>>, 1, last)
  BY DEF InOrder

LEMMA BookedInit == Init => Booked
  BY DEF Init, Booked

\* What a flush begins with: the header, if it is due, then the rows.
LEMMA BookedFlush ==
  ASSUME TypeOK, pc = "idle", BeginFlush, kind' = kind, reports' = reports,
         kind # "full" /\ first => printed[File] = <<>>,
         NEW last, InOrder(Headed, <<>>, buffer', 1, last)
  PROVE  /\ InOrder(Headed', Held', buffer', at', last)
         /\ kind # "full" => ~first'
  <1>1. File \in 0..MaxReports /\ File' = File
    BY CurrentFile DEF File
  <1>2. Held' = <<>> /\ at' = 1 /\ (kind # "full" => ~first')
    BY DEF Held, BeginFlush
  <1>3. Headed' = Headed
    <2>1. CASE kind # "full" /\ first
      <3>1. printed'[File] = <<Heading("header")>>
        BY <1>1, <2>1 DEF BeginFlush, TypeOK, FileTypes
      <3> QED
        BY <1>1, <1>2, <2>1, <3>1 DEF Headed
    <2>2. CASE ~(kind # "full" /\ first)
      BY <1>1, <2>2 DEF BeginFlush, Headed
    <2> QED
      BY <2>1, <2>2
  <1> QED
    BY <1>2, <1>3

LEMMA BookedStep == TypeOK /\ Fills /\ Booked /\ [Next]_vars => Booked'
  <1> SUFFICES ASSUME TypeOK, Fills, Booked, [Next]_vars PROVE Booked'
    OBVIOUS
  <1> USE ReporterAssumption DEF TypeOK
  <1>1. ASSUME NEW k \in Kinds, Create(k) PROVE Booked'
    <2>1. reports' \in 1..MaxReports /\ reports' = reports + 1
      BY <1>1 DEF Create, StateTypes
    <2>2. events'[reports'] = 0 /\ buffer' = <<>> /\ at' = 1 /\ Held' = <<>>
      <3>1. events' = events /\ pc' = "idle" /\ buffer' = <<>> /\ at' = 1
        BY <1>1 DEF Create, Fills, memory
      <3>2. \A r \in 1..MaxReports : r > reports => events'[r] = 0
        BY <3>1 DEF Booked
      <3>3. reports' > reports
        BY <2>1 DEF StateTypes
      <3> QED
        BY <2>1, <3>1, <3>2, <3>3 DEF Held
    <2>3. File' \in 0..MaxReports /\ File' = FileOf(k, reports + 1)
      BY <1>1, <2>1, FileType DEF Create, File
    <2>4. \E h \in {"events", "header"} : Headed' = <<Heading(h)>>
      BY <1>1, <2>3 DEF Create, Headed, FileTypes
    <2>5. InOrder(Headed', <<>>, <<>>, 1, 0)
      BY <2>4 DEF InOrder
    <2>6. kind' # "full" => printed'[File'] = <<>>
      BY <1>1, <2>3 DEF Create, FileTypes
    <2>7. ASSUME NEW r \in 1..MaxReports, r > reports' PROVE events'[r] = 0
      <3>1. r > reports /\ events' = events
        BY <1>1, <2>1, <2>7 DEF Create, StateTypes
      <3> QED
        BY <3>1 DEF Booked
    <2>8. pc' = "idle" /\ InOrder(Headed', Held', buffer', at', events'[reports'])
      BY <1>1, <2>2, <2>5 DEF Create
    <2> QED
      BY <2>6, <2>7, <2>8 DEF Booked
  <1>2. ASSUME NEW s \in Notes, NEW copied \in BOOLEAN, SetCustomMetadata(s, copied)
        PROVE  Booked'
    BY <1>2 DEF SetCustomMetadata, Booked, Headed, Held, File, inside, strings, files
  <1>3. ASSUME NEW start \in BOOLEAN, NEW length \in RowSizes, Record(start, length)
        PROVE  Booked'
    <2> DEFINE e == [n |-> events[reports] + 1, start |-> start, size |-> length]
    <2>1. reports \in 1..MaxReports /\ reports' = reports /\ kind' = kind /\ pc = "idle"
      BY <1>3, CurrentFile DEF Record
    <2>2. /\ events'[reports] = events[reports] + 1 /\ events[reports] \in Nat
          /\ \A r \in 1..MaxReports : r > reports => events'[r] = 0
      BY <1>3, <2>1 DEF Record, Booked, StateTypes
    <2>3. InOrder(Headed, <<>>, buffer', 1, events'[reports])
      <3>1. e \in Event /\ e.n = events[reports] + 1 /\ buffer' = Append(buffer, e)
        <4>1. start \in BOOLEAN /\ length \in RowSizes /\ events[reports] + 1 \in Nat \ {0}
          BY <1>3, <2>2
        <4>2. e \in Event
          BY <4>1 DEF Event
        <4> QED
          BY <1>3, <4>2 DEF Record
      <3>2. Headed \in Seq(Line)
        <4>1. Heading("header") \in Line /\ File \in 0..MaxReports
          BY <2>1, CurrentFile, HeadingIsLine
        <4>2. <<Heading("header")>> \in Seq(Line)
          BY <4>1
        <4> QED
          BY <4>1, <4>2 DEF Headed, FileTypes
      <3>3. InOrder(Headed, <<>>, buffer, 1, events[reports])
        BY <2>1 DEF Booked, Held, Fills
      <3> HIDE DEF e
      <3> QED
        BY <2>2, <3>1, <3>2, <3>3, OrderRecorded DEF BufferTypes
    <2>4. kind # "full" /\ first => printed[File] = <<>>
      BY <2>1 DEF Booked
    <2>5. CASE BeginFlush
      <3>1. /\ InOrder(Headed', Held', buffer', at', events'[reports])
            /\ kind # "full" => ~first'
        BY <2>1, <2>3, <2>4, <2>5, BookedFlush
      <3> QED
        BY <2>1, <2>2, <3>1 DEF Booked
    <2>6. CASE UNCHANGED <<pc, at, strings, first, printed>>
      <3>1. Headed' = Headed /\ Held' = <<>> /\ at' = 1 /\ File' = File
        BY <2>1, <2>6 DEF Headed, Held, File, Fills
      <3> QED
        BY <2>1, <2>2, <2>3, <2>4, <2>6, <3>1 DEF Booked
    <2> QED
      BY <1>3, <2>5, <2>6 DEF Record
  <1>4. ASSUME Finalize PROVE Booked'
    <2>1. /\ reports' = reports /\ kind' = kind /\ pc = "idle"
          /\ buffer' = buffer /\ events' = events /\ BeginFlush
      BY <1>4 DEF Finalize
    <2>2. InOrder(Headed, <<>>, buffer', 1, events[reports])
      BY <2>1 DEF Booked, Held, Fills
    <2>3. kind # "full" /\ first => printed[File] = <<>>
      BY <2>1 DEF Booked
    <2>4. /\ InOrder(Headed', Held', buffer', at', events[reports])
          /\ kind # "full" => ~first'
      BY <2>1, <2>2, <2>3, BookedFlush
    <2> QED
      BY <2>1, <2>4 DEF Booked
  <1>5. ASSUME FlushFullRow PROVE Booked'
    <2> DEFINE row(k)  == Row(buffer[at], k = buffer[at].size)
               rows(k) == Append(builder, row(k))
    <2>1. PICK k \in Taken(buffer[at].size) :
            IF MustPrint(Room - k)
            THEN /\ printed' = [printed EXCEPT ![File] = @ \o rows(k)]
                 /\ builder' = <<>>
            ELSE builder' = rows(k) /\ UNCHANGED printed
      BY <1>5 DEF FlushFullRow, Restarted
    <2>2. /\ pc = "flush" /\ kind = "full" /\ at \in 1..Len(buffer)
          /\ reports \in 1..MaxReports /\ File \in 0..MaxReports
      BY <1>5, CurrentFile DEF FlushFullRow, BufferTypes
    <2>3. /\ pc' = pc /\ kind' = kind /\ reports' = reports /\ File' = File
          /\ buffer' = buffer /\ at' = at + 1 /\ events' = events
      BY <1>5 DEF FlushFullRow, inside, File
    <2>4. row(k) \in Line /\ row(k).is = "row" /\ row(k).event = buffer[at].n
      <3>1. buffer[at] \in Event
        BY <2>2 DEF BufferTypes
      <3>2. row(k) \in Line
        BY <3>1, RowIsLine
      <3> QED
        BY <3>2 DEF Row
    <2> HIDE DEF row
    <2>5. /\ printed[File] \in Seq(Line) /\ events[reports] \in Nat
          /\ Headed = printed[File] /\ Held = builder
      BY <2>2 DEF StateTypes, FileTypes, Headed, Held
    <2>6. InOrder(printed[File], builder, buffer, at, events[reports])
      BY <2>2, <2>5 DEF Booked
    <2>7. rows(k) \in Seq(Line)
      BY <2>4 DEF BufferTypes
    <2>8. InOrder(printed[File], rows(k), buffer, at + 1, events[reports])
      BY <2>2, <2>4, <2>5, <2>6, OrderHeld DEF BufferTypes
    <2> HIDE DEF rows
    <2>9. InOrder(Headed', Held', buffer', at', events[reports])
      <3>1. CASE MustPrint(Room - k)
        <4>1. Headed' = printed[File] \o rows(k) /\ Held' = <<>>
          BY <2>1, <2>2, <2>3, <3>1 DEF Headed, Held, FileTypes
        <4>2. at + 1 \in 1 .. Len(buffer) + 1
          BY <2>2
        <4>3. InOrder(printed[File] \o rows(k), <<>>, buffer, at + 1, events[reports])
          BY <2>5, <2>7, <2>8, <4>2, OrderPrinted DEF BufferTypes
        <4> QED
          BY <2>3, <4>1, <4>3
      <3>2. CASE ~MustPrint(Room - k)
        BY <2>1, <2>2, <2>3, <2>8, <3>2 DEF Headed, Held
      <3> QED
        BY <3>1, <3>2
    <2> QED
      BY <2>2, <2>3, <2>9 DEF Booked
  <1>6. ASSUME FlushTraceRow PROVE Booked'
    <2>1. /\ pc = "flush" /\ kind # "full" /\ at \in 1..Len(buffer) /\ ~first
          /\ reports \in 1..MaxReports /\ File \in 0..MaxReports
      BY <1>6, CurrentFile DEF FlushTraceRow, BufferTypes, Booked
    <2>2. PICK row \in Line : row = Row(buffer[at], TRUE)
      <3>1. buffer[at] \in Event
        BY <2>1 DEF BufferTypes
      <3> QED
        BY <3>1, RowIsLine
    <2>3. /\ pc' = pc /\ kind' = kind /\ reports' = reports /\ File' = File /\ ~first'
          /\ buffer' = buffer /\ at' = at + 1 /\ events' = events
      BY <1>6, <2>1 DEF FlushTraceRow, inside, File
    <2>4. /\ Headed = printed[File] /\ Held = <<>> /\ Held' = <<>>
          /\ printed[File] \in Seq(Line) /\ events[reports] \in Nat
      BY <2>1, <2>3 DEF StateTypes, FileTypes, Headed, Held
    <2>5. Headed' = Append(printed[File], row)
      BY <1>6, <2>1, <2>2, <2>3 DEF FlushTraceRow, Headed, FileTypes
    <2>6. row.is = "row" /\ row.event = buffer[at].n
      BY <2>2 DEF Row
    <2>7. InOrder(printed[File], <<>>, buffer, at, events[reports])
      BY <2>1, <2>4 DEF Booked
    <2>8. <<>> \in Seq(Line) /\ Append(<<>>, row) \in Seq(Line)
      OBVIOUS
    <2>9. InOrder(printed[File], Append(<<>>, row), buffer, at + 1, events[reports])
      BY <2>1, <2>4, <2>6, <2>7, <2>8, OrderHeld DEF BufferTypes
    <2>10. at + 1 \in 1 .. Len(buffer) + 1
      BY <2>1
    <2>11. InOrder(printed[File] \o Append(<<>>, row), <<>>, buffer, at + 1, events[reports])
      BY <2>4, <2>8, <2>9, <2>10, OrderPrinted DEF BufferTypes
    <2>12. printed[File] \o Append(<<>>, row) = Append(printed[File], row)
      BY <2>4
    <2> QED
      BY <2>1, <2>3, <2>4, <2>5, <2>11, <2>12 DEF Booked
  <1>7. ASSUME EndFlush PROVE Booked'
    <2>1. /\ pc = "flush" /\ at = Len(buffer) + 1 /\ (kind # "full" => ~first)
          /\ reports \in 1..MaxReports /\ File \in 0..MaxReports
      BY <1>7, CurrentFile, SMTT(60) DEF EndFlush, BufferTypes, Booked
    <2>2. /\ kind' = kind /\ reports' = reports /\ File' = File /\ first' = first
          /\ buffer' = <<>> /\ at' = 1 /\ events' = events /\ pc' # "flush"
      BY <1>7 DEF EndFlush, inside, File
    <2>3. /\ Headed = printed[File] /\ Held = LastRows /\ Held' = <<>>
          /\ printed[File] \in Seq(Line) /\ events[reports] \in Nat
      BY <2>1, <2>2 DEF StateTypes, FileTypes, Headed, Held, LastRows
    <2>4. Headed' = printed[File] \o LastRows
      BY <1>7, <2>1, <2>2 DEF EndFlush, Headed, FileTypes
    <2>5. LastRows \in Seq(Line) /\ printed[File] \o LastRows \in Seq(Line)
      BY <2>3 DEF LastRows, BufferTypes
    <2>6. InOrder(printed[File], LastRows, buffer, Len(buffer) + 1, events[reports])
      BY <2>1, <2>3 DEF Booked
    <2>7. InOrder(printed[File] \o LastRows, <<>>, buffer, Len(buffer) + 1, events[reports])
      BY <2>3, <2>5, <2>6, OrderPrinted DEF BufferTypes
    <2>8. InOrder(printed[File] \o LastRows, <<>>, <<>>, 1, events[reports])
      BY <2>3, <2>5, <2>7, OrderEmptied DEF BufferTypes
    <2> QED
      BY <2>1, <2>2, <2>3, <2>4, <2>8 DEF Booked
  <1>8. ASSUME NEW opened \in BOOLEAN, PrintFunctions(opened) PROVE Booked'
    BY <1>8 DEF PrintFunctions, AfterFunctions, Booked, inside
  <1>9. ASSUME SaveMetadata \/ Close \/ Crash PROVE Booked'
    BY <1>9 DEF SaveMetadata, Close, Crash, Free, Booked, inside
  <1>10. ASSUME UNCHANGED vars PROVE Booked'
    BY <1>10 DEF vars, memory, strings, inside, files, Booked, Headed, Held, File
  <1> QED
    BY <1>1, <1>2, <1>3, <1>4, <1>5, <1>6, <1>7, <1>8, <1>9, <1>10 DEF Next

\* Each event the profiler notifies is in the file, in the builder or in the
\* buffer, exactly once and in its order, whatever the capacities are and
\* wherever a flush stands.
THEOREM EventsReportedOnce == Spec => []EventsAreReportedOnce
  BY TypeInit, TypeStep, FillsInit, FillsStep, BookedInit, BookedStep, BookedOnce, PTL
  DEF Spec

-----------------------------------------------------------------------------
(* Safe traces. *)

\* No file holds more for certain than its stream was given; a safe trace
\* flushes its stream after the only row of each of its flushes.
Secured ==
  /\ \A f \in 0..MaxReports : durable[f] <= Len(printed[f])
  /\ SafeTraceIsDurable
  /\ kind = "safe" /\ pc = "flush" /\ at > Len(buffer) /\ events[reports] > 0 =>
       durable[0] = events[reports] + 1

LEMMA SecuredInit == Init => Secured
  BY DEF Init, Secured, SafeTraceIsDurable

LEMMA SecuredStep == TypeOK /\ Fills /\ Booked /\ Secured /\ [Next]_vars => Secured'
  <1> SUFFICES ASSUME TypeOK, Fills, Booked, Secured, [Next]_vars PROVE Secured'
    OBVIOUS
  <1> USE ReporterAssumption DEF TypeOK
  <1>1. ASSUME NEW k \in Kinds, Create(k) PROVE Secured'
    <2>1. reports + 1 \in 1..MaxReports /\ reports' = reports + 1 /\ events' = events
      BY <1>1 DEF Create, StateTypes
    <2>2. events'[reports'] = 0
      <3>1. reports' > reports
        BY <2>1 DEF StateTypes
      <3> QED
        BY <2>1, <3>1 DEF Booked
    <2>3. FileOf(k, reports + 1) \in 0..MaxReports
      BY <2>1, FileType
    <2>4. \A f \in 0..MaxReports : durable'[f] <= Len(printed'[f])
      BY <1>1, <2>3 DEF Create, Secured, FileTypes
    <2> QED
      BY <2>2, <2>4 DEF Secured, SafeTraceIsDurable
  <1>2. ASSUME NEW s \in Notes, NEW copied \in BOOLEAN, SetCustomMetadata(s, copied)
        PROVE  Secured'
    BY <1>2 DEF SetCustomMetadata, Secured, SafeTraceIsDurable, inside, files
  <1>3. ASSUME NEW start \in BOOLEAN, NEW length \in RowSizes, Record(start, length)
        PROVE  Secured'
    <2>1. /\ pc = "idle" /\ reports \in 1..MaxReports /\ File \in 0..MaxReports
          /\ reports' = reports /\ kind' = kind /\ durable' = durable
          /\ events[reports] \in Nat /\ events'[reports] = events[reports] + 1
      BY <1>3, CurrentFile DEF Record, StateTypes
    <2>2. \A f \in 0..MaxReports : durable'[f] <= Len(printed'[f])
      <3>1. CASE BeginFlush
        <4>1. \A f \in 0..MaxReports : printed[f] \in Seq(Line) /\ durable[f] \in Nat
          BY DEF FileTypes
        <4>2. \A l : Len(Append(printed[File], l)) = Len(printed[File]) + 1
                   /\ Len(printed[File]) \in Nat
          BY <2>1, <4>1
        <4> DEFINE grown == Append(printed[File], Heading("header"))
        <4>3. \/ printed' = printed
              \/ printed' = [printed EXCEPT ![File] = grown]
          BY <3>1 DEF BeginFlush
        <4>4. Len(grown) = Len(printed[File]) + 1
          BY <4>2
        <4> HIDE DEF grown
        <4>5. \A f \in 0..MaxReports : Len(printed[f]) \in Nat /\ Len(printed'[f]) >= Len(printed[f])
          <5>1. printed \in [0..MaxReports -> Seq(Line)]
            BY DEF FileTypes
          <5>2. \A f \in 0..MaxReports :
                  printed'[f] = printed[f] \/ (f = File /\ printed'[f] = grown)
            BY <4>3, <5>1
          <5>3. \A f \in 0..MaxReports : Len(printed[f]) \in Nat
            BY <4>1
          <5> QED
            BY <4>4, <5>2, <5>3, SMTT(60)
        <4> QED
          BY <2>1, <4>1, <4>5, SMTT(60) DEF Secured
      <3>2. CASE UNCHANGED <<pc, at, strings, first, printed>>
        BY <2>1, <3>2 DEF Secured
      <3> QED
        BY <1>3, <3>1, <3>2 DEF Record
    <2>3. kind = "safe" => pc' = "flush" /\ at' = 1 /\ Len(buffer') = 1
      BY <1>3, <2>1 DEF Record, MustFlush, BeginFlush, Fills, BufferTypes
    <2>4. kind = "safe" /\ events[reports] > 0 => durable[0] = events[reports] + 1
      BY <2>1 DEF Secured, SafeTraceIsDurable, StateTypes
    <2>5. ASSUME kind = "safe", events'[reports'] > 1
          PROVE  durable'[0] >= events'[reports']
      <3>1. events'[reports'] = events[reports] + 1 /\ events[reports] \in Nat
        BY <2>1
      <3>2. events[reports] > 0
        BY <2>5, <3>1
      <3>3. durable'[0] = events[reports] + 1
        BY <2>1, <2>4, <2>5, <3>2
      <3> QED
        BY <3>1, <3>3
    <2>6. kind' = "safe" => /\ events'[reports'] > 1 => durable'[0] >= events'[reports']
                           /\ pc' = "flush" /\ ~(at' > Len(buffer'))
      <3>1. kind' = kind
        BY <2>1
      <3>2. kind = "safe" => ~(at' > Len(buffer'))
        BY <2>3
      <3> QED
        BY <2>3, <2>5, <3>1, <3>2
    <2> QED
      BY <2>2, <2>6 DEF Secured, SafeTraceIsDurable
  <1>4. ASSUME Finalize PROVE Secured'
    <2>1. /\ pc = "idle" /\ reports > 0 /\ File \in 0..MaxReports
          /\ reports' = reports /\ kind' = kind /\ durable' = durable /\ events' = events
          /\ BeginFlush
      BY <1>4, CurrentFile DEF Finalize
    <2>2. \A f \in 0..MaxReports : durable'[f] <= Len(printed'[f])
      BY <2>1 DEF BeginFlush, Secured, FileTypes
    <2>3. kind = "safe" /\ events[reports] > 0 => durable[0] = events[reports] + 1
      BY <2>1 DEF Secured, SafeTraceIsDurable
    <2> QED
      BY <2>1, <2>2, <2>3 DEF BeginFlush, Secured, SafeTraceIsDurable
  <1>5. ASSUME FlushFullRow PROVE Secured'
    <2>1. /\ kind = "full" /\ File \in 0..MaxReports
          /\ kind' = kind /\ durable' = durable
      BY <1>5, CurrentFile DEF FlushFullRow, inside
    <2>2. PICK rows : \/ printed' = [printed EXCEPT ![File] = @ \o rows] /\ rows \in Seq(Line)
                      \/ UNCHANGED printed
      <3> DEFINE row(k)  == Row(buffer[at], k = buffer[at].size)
      <3>1. PICK k \in Taken(buffer[at].size) :
              \/ printed' = [printed EXCEPT ![File] = @ \o Append(builder, row(k))]
              \/ UNCHANGED printed
        BY <1>5 DEF FlushFullRow
      <3>2. buffer[at] \in Event
        BY <1>5 DEF FlushFullRow, BufferTypes
      <3>3. row(k) \in Line
        BY <3>2, RowIsLine
      <3> HIDE DEF row
      <3>4. Append(builder, row(k)) \in Seq(Line)
        BY <3>3 DEF BufferTypes
      <3> QED
        BY <3>1, <3>4
    <2>3. \A f \in 0..MaxReports : durable'[f] <= Len(printed'[f])
      <3>1. CASE UNCHANGED printed
        BY <2>1, <3>1 DEF Secured
      <3>2. CASE printed' = [printed EXCEPT ![File] = @ \o rows] /\ rows \in Seq(Line)
        <4>1. Len(printed[File] \o rows) >= Len(printed[File])
          BY <2>1, <3>2 DEF FileTypes
        <4> QED
          BY <2>1, <3>2, <4>1 DEF Secured, FileTypes
      <3> QED
        BY <2>2, <3>1, <3>2
    <2> QED
      BY <2>1, <2>3 DEF Secured, SafeTraceIsDurable
  <1>6. ASSUME FlushTraceRow PROVE Secured'
    <2>1. /\ pc = "flush" /\ kind # "full" /\ at \in 1..Len(buffer) /\ ~first
          /\ reports \in 1..MaxReports /\ File = 0 /\ events[reports] \in Nat
      BY <1>6, CurrentFile DEF FlushTraceRow, StateTypes, BufferTypes, Booked, File, FileOf
    <2>2. /\ pc' = pc /\ kind' = kind /\ reports' = reports
          /\ buffer' = buffer /\ at' = at + 1 /\ events' = events
      BY <1>6 DEF FlushTraceRow, inside
    <2>3. /\ \A f \in 1..MaxReports : durable'[f] = durable[f] /\ printed'[f] = printed[f]
          /\ Len(printed'[0]) = Len(printed[0]) + 1
          /\ durable'[0] = IF kind = "safe" THEN Len(printed'[0]) ELSE durable[0]
      <3>1. PICK row \in Line : row = Row(buffer[at], TRUE)
        <4>1. buffer[at] \in Event
          BY <2>1 DEF BufferTypes
        <4> QED
          BY <4>1, RowIsLine
      <3>2. /\ printed' = [printed EXCEPT ![0] = Append(@, row)]
            /\ durable' = [durable EXCEPT ![0] =
                             IF kind = "safe" THEN Len(printed'[0]) ELSE @]
        BY <1>6, <2>1, <3>1 DEF FlushTraceRow
      <3>3. Len(Append(printed[0], row)) = Len(printed[0]) + 1
        BY <2>1 DEF FileTypes
      <3> QED
        BY <2>1, <3>2, <3>3, SMTT(60) DEF FileTypes
    <2>4. \A f \in 0..MaxReports : durable'[f] <= Len(printed'[f])
      BY <2>3 DEF Secured, FileTypes
    <2>5. kind = "safe" => durable'[0] = events[reports] + 1
      <3> SUFFICES ASSUME kind = "safe" PROVE Len(printed[0]) = events[reports]
        BY <2>1, <2>3
      <3>1. at = 1 /\ Len(buffer) = 1
        <4>1. Len(buffer) <= 1
          BY <2>1 DEF Fills
        <4>2. Len(buffer) \in Nat
          BY DEF BufferTypes
        <4>3. at \in 1..Len(buffer)
          BY <2>1
        <4>4. 1 <= at /\ at <= Len(buffer) /\ at \in Nat
          BY <4>2, <4>3
        <4> QED
          BY <4>1, <4>2, <4>4
      <3>2. InOrder(printed[0], <<>>, buffer, at, events[reports])
        BY <2>1 DEF Booked, Headed, Held
      <3> QED
        BY <2>1, <3>1, <3>2 DEF InOrder, FileTypes
    <2> QED
      BY <2>1, <2>2, <2>4, <2>5 DEF Secured, SafeTraceIsDurable
  <1>7. ASSUME EndFlush PROVE Secured'
    <2>1. /\ pc = "flush" /\ at > Len(buffer) /\ File \in 0..MaxReports
          /\ kind' = kind /\ reports' = reports /\ events' = events /\ durable' = durable
          /\ pc' # "flush"
      BY <1>7, CurrentFile DEF EndFlush, inside
    <2>2. \A f \in 0..MaxReports : durable'[f] <= Len(printed'[f])
      <3>1. LastRows \in Seq(Line)
        BY DEF LastRows, BufferTypes
      <3>2. Len(printed[File] \o LastRows) >= Len(printed[File])
        BY <2>1, <3>1 DEF FileTypes
      <3> QED
        BY <1>7, <2>1, <3>1, <3>2 DEF EndFlush, Secured, FileTypes
    <2> QED
      BY <2>1, <2>2 DEF Secured, SafeTraceIsDurable
  <1>8. ASSUME NEW opened \in BOOLEAN, PrintFunctions(opened) PROVE Secured'
    <2>1. /\ pc = "functions" /\ File \in 0..MaxReports /\ pc' \in {"save", "close"}
          /\ kind' = kind /\ reports' = reports /\ events' = events /\ durable' = durable
      BY <1>8, CurrentFile DEF PrintFunctions, AfterFunctions, inside
    <2>2. \A f \in 0..MaxReports : durable'[f] <= Len(printed'[f])
      BY <1>8, <2>1 DEF PrintFunctions, AfterFunctions, Secured, FileTypes
    <2> QED
      BY <2>1, <2>2 DEF Secured, SafeTraceIsDurable
  <1>9. ASSUME SaveMetadata PROVE Secured'
    BY <1>9 DEF SaveMetadata, Secured, SafeTraceIsDurable, inside
  <1>10. ASSUME Close PROVE Secured'
    <2>1. /\ File \in 0..MaxReports /\ pc' = "none" /\ printed' = printed
          /\ kind' = kind /\ reports' = reports /\ events' = events
          /\ durable' = [durable EXCEPT ![File] = Len(printed[File])]
      BY <1>10, CurrentFile DEF Close, Free, inside
    <2>2. \A f \in 0..MaxReports : durable'[f] <= Len(printed'[f])
      BY <2>1 DEF Secured, FileTypes
    <2>3. durable'[0] >= durable[0] /\ durable[0] \in Nat /\ durable'[0] \in Nat
      BY <2>1 DEF Secured, FileTypes
    <2>4. reports > 0 => events[reports] \in Nat
      BY DEF StateTypes
    <2> QED
      BY <2>1, <2>2, <2>3, <2>4 DEF Secured, SafeTraceIsDurable
  <1>11. ASSUME Crash PROVE Secured'
    <2>1. /\ File \in 0..MaxReports /\ pc' = "none"
          /\ kind' = kind /\ reports' = reports /\ events' = events
      BY <1>11, CurrentFile DEF Crash, Free, inside
    <2>2. PICK n \in durable[File] .. Len(printed[File]) :
            /\ printed' = [printed EXCEPT ![File] = SubSeq(@, 1, n)]
            /\ durable' = [durable EXCEPT ![File] = n]
      BY <1>11 DEF Crash
    <2>3. durable[File] \in Nat /\ n \in 0..Len(printed[File]) /\ n >= durable[File]
      BY <2>1 DEF FileTypes
    <2>4. Len(SubSeq(printed[File], 1, n)) = n
      BY <2>1, <2>3 DEF FileTypes
    <2>5. \A f \in 0..MaxReports : durable'[f] <= Len(printed'[f])
      BY <2>1, <2>2, <2>3, <2>4 DEF Secured, FileTypes
    <2>6. durable'[0] >= durable[0] /\ durable[0] \in Nat /\ durable'[0] \in Nat
      BY <2>1, <2>2, <2>3 DEF FileTypes
    <2>7. reports > 0 => events[reports] \in Nat
      BY DEF StateTypes
    <2> QED
      BY <2>1, <2>5, <2>6, <2>7 DEF Secured, SafeTraceIsDurable
  <1>12. ASSUME UNCHANGED vars PROVE Secured'
    BY <1>12 DEF vars, memory, inside, files, Secured, SafeTraceIsDurable
  <1> QED
    BY <1>1, <1>2, <1>3, <1>4, <1>5, <1>6, <1>7, <1>8, <1>9, <1>10, <1>11, <1>12
    DEF Next

\* A safe trace loses at most the event that was being reported, wherever the
\* process dies.
THEOREM SafeTraceKeepsEvents == Spec => []SafeTraceIsDurable
  <1>1. Secured => SafeTraceIsDurable
    BY DEF Secured
  <1> QED
    BY <1>1, TypeInit, TypeStep, FillsInit, FillsStep, BookedInit, BookedStep,
       SecuredInit, SecuredStep, PTL DEF Spec

-----------------------------------------------------------------------------
(* The files, as readers of the data directory see them. *)

\* No report has files before it is begun; the one that is written is not yet
\* finished, and its metadata is where its writer is.
Tidy ==
  /\ finished \subseteq 1..reports
  /\ pc # "none" => reports \notin finished
  /\ \A r \in 1..MaxReports :
       r > reports => metadata[r].state = "absent" /\ printed[r] = <<>>
  /\ pc # "none" /\ kind = "full" =>
       /\ printed[reports] # <<>>
       /\ pc \in {"idle", "flush", "functions"} => metadata[reports].state = "absent"
       /\ pc = "save" => metadata[reports].state = "cut"
       /\ pc = "close" => metadata[reports].state # "cut"
  /\ pc # "none" /\ kind # "full" =>
       printed[reports] = <<>> /\ pc \in {"idle", "flush", "close"}

\* The stream of the report that is written is given more.
Prints(rows) == printed' = [printed EXCEPT ![File] = printed[File] \o rows]

LEMMA OnlyItsFile ==
  ASSUME TypeOK, pc # "none",
         UNCHANGED printed \/ \E rows \in Seq(Line) : Prints(rows)
  PROVE  \A r \in 1..MaxReports :
           /\ printed[r] # <<>> => printed'[r] # <<>>
           /\ r # File => printed'[r] = printed[r]
  <1> SUFFICES ASSUME NEW rows \in Seq(Line), Prints(rows), NEW r \in 1..MaxReports
               PROVE  /\ printed[r] # <<>> => printed'[r] # <<>>
                      /\ r # File => printed'[r] = printed[r]
    OBVIOUS
  <1>1. File \in 0..MaxReports /\ r \in 0..MaxReports
    BY CurrentFile, ReporterAssumption
  <1>2. printed \in [0..MaxReports -> Seq(Line)]
    BY DEF TypeOK, FileTypes
  <1>3. CASE r = File
    <2>1. printed[r] \in Seq(Line) /\ printed'[r] = printed[r] \o rows
      BY <1>1, <1>2, <1>3 DEF Prints
    <2>2. printed[r] # <<>> => Len(printed[r]) > 0
      BY <2>1
    <2>3. Len(printed[r] \o rows) = Len(printed[r]) + Len(rows)
      BY <2>1
    <2>4. printed[r] # <<>> => Len(printed'[r]) > 0
      BY <2>1, <2>2, <2>3
    <2> QED
      BY <1>3, <2>4
  <1>4. CASE r # File
    BY <1>1, <1>2, <1>4 DEF Prints
  <1> QED
    BY <1>3, <1>4

\* The steps of a reporter that neither create it nor end it.
Working ==
  \/ \E s \in Notes, copied \in BOOLEAN : SetCustomMetadata(s, copied)
  \/ \E start \in BOOLEAN, length \in RowSizes : Record(start, length)
  \/ Finalize \/ FlushFullRow \/ FlushTraceRow \/ EndFlush
  \/ \E opened \in BOOLEAN : PrintFunctions(opened)
  \/ SaveMetadata

LEMMA PrintsLine ==
  ASSUME TypeOK, pc # "none", NEW line \in Line,
         printed' = [printed EXCEPT ![File] = Append(printed[File], line)]
  PROVE  \E rows \in Seq(Line) : Prints(rows)
  <1>1. File \in 0..MaxReports /\ printed[File] \in Seq(Line)
    BY CurrentFile DEF TypeOK, FileTypes
  <1>2. <<line>> \in Seq(Line)
    OBVIOUS
  <1>3. Append(printed[File], line) = printed[File] \o <<line>>
    BY <1>1
  <1> QED
    BY <1>2, <1>3 DEF Prints

\* What such a step prints goes to the report's own file.
LEMMA WorkingPrints ==
  ASSUME TypeOK, Working
  PROVE  /\ pc # "none" /\ pc' # "none"
         /\ UNCHANGED <<kind, reports, finished>>
         /\ UNCHANGED printed \/ \E rows \in Seq(Line) : Prints(rows)
  <1> USE DEF TypeOK
  <1>0. /\ pc # "none" /\ pc' # "none"
        /\ UNCHANGED <<kind, reports, finished>>
    BY DEF Working, SetCustomMetadata, Record, Finalize, BeginFlush, FlushFullRow,
           FlushTraceRow, EndFlush, PrintFunctions, AfterFunctions, SaveMetadata,
           inside, files
  <1> DEFINE Printing == UNCHANGED printed \/ \E rows \in Seq(Line) : Prints(rows)
  <1>1. ASSUME BeginFlush PROVE Printing
    <2>1. CASE kind # "full" /\ first
      <3>1. Heading("header") \in Line
        BY HeadingIsLine
      <3>2. printed' = [printed EXCEPT ![File] = Append(printed[File], Heading("header"))]
        BY <1>1, <2>1 DEF BeginFlush
      <3> QED
        BY <1>0, <3>1, <3>2, PrintsLine DEF TypeOK
    <2>2. CASE ~(kind # "full" /\ first)
      BY <1>1, <2>2 DEF BeginFlush
    <2> QED
      BY <2>1, <2>2
  <1>2. ASSUME \/ \E s \in Notes, copied \in BOOLEAN : SetCustomMetadata(s, copied)
               \/ SaveMetadata
        PROVE  Printing
    BY <1>2 DEF SetCustomMetadata, SaveMetadata, files
  <1>3. ASSUME Finalize \/ \E start \in BOOLEAN, length \in RowSizes : Record(start, length)
        PROVE  Printing
    <2>1. BeginFlush \/ UNCHANGED printed
      BY <1>3 DEF Finalize, Record
    <2> QED
      BY <1>1, <2>1
  <1>4. ASSUME FlushFullRow PROVE Printing
    <2>1. PICK k \in Taken(buffer[at].size) :
            \/ Prints(Append(builder, Row(buffer[at], k = buffer[at].size)))
            \/ UNCHANGED printed
      BY <1>4 DEF FlushFullRow, Prints
    <2>2. Row(buffer[at], k = buffer[at].size) \in Line
      <3>1. buffer[at] \in Event
        BY <1>4 DEF FlushFullRow, BufferTypes
      <3>2. (k = buffer[at].size) \in BOOLEAN
        OBVIOUS
      <3> QED
        BY <3>1, <3>2, RowIsLine
    <2>3. ASSUME NEW line \in Line PROVE Append(builder, line) \in Seq(Line)
      BY DEF BufferTypes
    <2> QED
      BY <2>1, <2>2, <2>3
  <1>5. ASSUME FlushTraceRow PROVE Printing
    <2>1. buffer[at] \in Event
      BY <1>5 DEF FlushTraceRow, BufferTypes
    <2>2. Row(buffer[at], TRUE) \in Line
      BY <2>1, RowIsLine
    <2>3. printed' = [printed EXCEPT ![File] = Append(printed[File], Row(buffer[at], TRUE))]
      BY <1>5 DEF FlushTraceRow
    <2> QED
      BY <1>0, <2>2, <2>3, PrintsLine DEF TypeOK
  <1>6. ASSUME EndFlush PROVE Printing
    <2>1. LastRows \in Seq(Line)
      BY DEF LastRows, BufferTypes
    <2>2. Prints(LastRows)
      BY <1>6 DEF EndFlush, Prints
    <2> QED
      BY <2>1, <2>2
  <1>7. ASSUME NEW opened \in BOOLEAN, PrintFunctions(opened) PROVE Printing
    <2>1. Heading("functions") \in Line
      BY HeadingIsLine
    <2>2. printed' = [printed EXCEPT ![File] = Append(printed[File], Heading("functions"))]
      BY <1>7 DEF PrintFunctions
    <2> QED
      BY <1>0, <2>1, <2>2, PrintsLine DEF TypeOK
  <1> HIDE DEF Printing
  <1>8. Printing
    BY <1>2, <1>3, <1>4, <1>5, <1>6, <1>7 DEF Working
  <1> QED
    BY <1>0, <1>8 DEF Printing

LEMMA TidyInit == Init => Tidy
  BY ReporterAssumption DEF Init, Tidy, Metadata

\* Where the metadata of the report that is written is, after such a step.
LEMMA WorkingMetadata ==
  ASSUME TypeOK, Tidy, Working
  PROVE  /\ kind = "full" =>
              /\ pc' \in {"idle", "flush", "functions"} => metadata'[reports].state = "absent"
              /\ pc' = "save" => metadata'[reports].state = "cut"
              /\ pc' = "close" => metadata'[reports].state # "cut"
         /\ kind # "full" => pc' \in {"idle", "flush", "close"}
         /\ \A r \in 1..MaxReports : r # reports => metadata'[r] = metadata[r]
         /\ \/ metadata' = metadata
            \/ kind = "full" /\ pc = "functions" /\ pc' = "save"
            \/ kind = "full" /\ pc = "save" /\ pc' = "close"
               /\ metadata'[reports].state = "saved"
  <1> USE DEF Tidy
  <1>1. pc # "none" /\ reports \in 1..MaxReports
    BY WorkingPrints, CurrentFile
  <1>2. metadata \in [1..MaxReports -> MetadataFile]
    BY DEF TypeOK, FileTypes
  <1>3. CASE \/ \E s \in Notes, copied \in BOOLEAN : SetCustomMetadata(s, copied)
             \/ \E start \in BOOLEAN, length \in RowSizes : Record(start, length)
             \/ Finalize
    <2>1. metadata' = metadata /\ pc = "idle" /\ pc' \in {"idle", "flush"}
      BY <1>3 DEF SetCustomMetadata, Record, Finalize, BeginFlush, files
    <2> QED
      BY <1>1, <2>1
  <1>4. CASE FlushFullRow \/ FlushTraceRow
    <2>1. metadata' = metadata /\ pc = "flush" /\ pc' = "flush"
      BY <1>4 DEF FlushFullRow, FlushTraceRow
    <2> QED
      BY <1>1, <2>1
  <1>5. CASE EndFlush
    <2>1. /\ metadata' = metadata /\ pc = "flush"
          /\ pc' \in {"idle", "functions", "close"}
          /\ pc' = "functions" => kind = "full"
          /\ pc' = "close" => kind # "full"
      BY <1>5 DEF EndFlush
    <2> QED
      BY <1>1, <2>1
  <1>6. ASSUME NEW opened \in BOOLEAN, PrintFunctions(opened)
        PROVE  /\ kind = "full" /\ pc = "functions"
               /\ \/ metadata' = metadata /\ pc' = "close" /\ metadata'[reports].state = "absent"
                  \/ pc' = "save" /\ metadata'[reports].state = "cut"
               /\ \A r \in 1..MaxReports : r # reports => metadata'[r] = metadata[r]
    <2>1. kind = "full" /\ pc = "functions" /\ metadata[reports].state = "absent"
      BY <1>1, <1>6 DEF PrintFunctions
    <2>2. CASE opened
      <3>1. metadata' = [metadata EXCEPT ![reports] = Metadata("cut")] /\ pc' = "save"
        BY <1>6, <2>2 DEF PrintFunctions, AfterFunctions
      <3>2. Metadata("cut").state = "cut"
        BY DEF Metadata
      <3> QED
        BY <1>1, <1>2, <2>1, <3>1, <3>2
    <2>3. CASE ~opened
      <3>1. metadata' = metadata /\ pc' = "close"
        BY <1>2, <1>6, <2>3 DEF PrintFunctions, AfterFunctions
      <3> QED
        BY <2>1, <3>1
    <2> QED
      BY <2>2, <2>3
  <1>7. CASE SaveMetadata
    <2>1. metadata' = [metadata EXCEPT ![reports] = Metadata("saved")] /\ pc = "save" /\ pc' = "close"
      BY <1>7 DEF SaveMetadata
    <2>2. Metadata("saved").state = "saved"
      BY DEF Metadata
    <2>3. kind = "full"
      BY <1>1, <2>1
    <2> QED
      BY <1>1, <1>2, <2>1, <2>2, <2>3
  <1>8. CASE \E opened \in BOOLEAN : PrintFunctions(opened)
    BY <1>6, <1>8
  <1> QED
    BY <1>3, <1>4, <1>5, <1>7, <1>8 DEF Working

LEMMA TidyWorking ==
  ASSUME TypeOK, Tidy, Working
  PROVE  Tidy' /\ Whole' = Whole
  <1>1. /\ pc # "none" /\ pc' # "none" /\ reports \in 1..MaxReports
        /\ UNCHANGED <<kind, reports, finished>>
    BY WorkingPrints, CurrentFile
  <1>2. \A r \in 1..MaxReports :
          /\ printed[r] # <<>> => printed'[r] # <<>>
          /\ r # File => printed'[r] = printed[r]
    BY WorkingPrints, OnlyItsFile
  <1>3. \A r \in 1..MaxReports : ~(kind = "full" /\ r = reports) => printed'[r] = printed[r]
    BY <1>1, <1>2, ReporterAssumption DEF File, FileOf
  <1>4. \A r \in 1..MaxReports :
          r > reports' => metadata'[r].state = "absent" /\ printed'[r] = <<>>
    <2> SUFFICES ASSUME NEW r \in 1..MaxReports, r > reports
                 PROVE  metadata'[r].state = "absent" /\ printed'[r] = <<>>
      BY <1>1
    <2>1. r # reports /\ metadata[r].state = "absent" /\ printed[r] = <<>>
      BY <1>1, ReporterAssumption DEF Tidy
    <2>2. metadata'[r] = metadata[r]
      BY <2>1, WorkingMetadata
    <2> QED
      BY <1>3, <2>1, <2>2
  <1>5. kind = "full" =>
          /\ printed'[reports] # <<>>
          /\ pc' \in {"idle", "flush", "functions"} => metadata'[reports].state = "absent"
          /\ pc' = "save" => metadata'[reports].state = "cut"
          /\ pc' = "close" => metadata'[reports].state # "cut"
    BY <1>1, <1>2, WorkingMetadata DEF Tidy
  <1>6. kind # "full" => printed'[reports] = <<>> /\ pc' \in {"idle", "flush", "close"}
    BY <1>1, <1>3, WorkingMetadata DEF Tidy
  <1>7. finished \subseteq 1..reports /\ reports \notin finished
    BY <1>1 DEF Tidy
  <1>8. Tidy'
    BY <1>1, <1>4, <1>5, <1>6, <1>7 DEF Tidy
  <1>9. \A r \in finished : r \in 1..MaxReports /\ printed'[r] = printed[r]
    BY <1>1, <1>3, <1>7, ReporterAssumption
  <1> QED
    BY <1>1, <1>8, <1>9 DEF Whole

LEMMA TidyCreate ==
  ASSUME TypeOK, Tidy, NEW k \in Kinds, Create(k)
  PROVE  /\ Tidy' /\ Whole' = Whole
         /\ reports' \in 1..MaxReports /\ reports' \notin finished
         /\ metadata[reports'].state = "absent"
  <1>1. /\ pc = "none" /\ pc' = "idle" /\ kind' = k
        /\ reports \in 0..MaxReports /\ reports' = reports + 1
        /\ reports' \in 1..MaxReports
        /\ UNCHANGED <<metadata, finished>>
    BY ReporterAssumption DEF Create, TypeOK, StateTypes
  <1> DEFINE f == FileOf(k, reports + 1)
             opening == IF k = "full" THEN <<Heading("events")>> ELSE <<>>
  <1>2. /\ f \in 0..MaxReports
        /\ f = IF k = "full" THEN reports' ELSE 0
        /\ printed' = [printed EXCEPT ![f] = opening]
        /\ printed \in [0..MaxReports -> Seq(Line)]
    BY <1>1, FileType DEF Create, FileOf, TypeOK, FileTypes
  <1>3. \A r \in 1..MaxReports : ~(k = "full" /\ r = reports') => printed'[r] = printed[r]
    <2> HIDE DEF opening, f
    <2> QED
      BY <1>2, ReporterAssumption
  <1>4. k = "full" => printed'[reports'] # <<>>
    <2>1. k = "full" => f = reports' /\ opening = <<Heading("events")>>
      BY <1>2
    <2>2. k = "full" => printed'[reports'] = <<Heading("events")>>
      <3> HIDE DEF opening, f
      <3> QED
        BY <1>2, <2>1
    <2> QED
      BY <2>2
  <1>5. \A r \in 1..MaxReports :
          r > reports => metadata[r].state = "absent" /\ printed[r] = <<>>
    BY DEF Tidy
  <1>6. finished \subseteq 1..reports
    BY DEF Tidy
  <1>7. finished' \subseteq 1..reports' /\ reports' \notin finished
    BY <1>1, <1>6
  <1>8. metadata[reports'].state = "absent" /\ printed[reports'] = <<>>
    BY <1>1, <1>5
  <1>9. k # "full" => printed'[reports'] = <<>>
    BY <1>1, <1>3, <1>8
  <1>10. \A r \in 1..MaxReports :
           r > reports' => metadata'[r].state = "absent" /\ printed'[r] = <<>>
    <2> SUFFICES ASSUME NEW r \in 1..MaxReports, r > reports'
                 PROVE  metadata'[r].state = "absent" /\ printed'[r] = <<>>
      OBVIOUS
    <2>1. r # reports' /\ r > reports
      BY <1>1
    <2> QED
      BY <1>1, <1>3, <1>5, <2>1
  <1>11. Tidy'
    BY <1>1, <1>4, <1>7, <1>8, <1>9, <1>10 DEF Tidy
  <1>12. \A r \in finished : r \in 1..MaxReports /\ printed'[r] = printed[r]
    BY <1>1, <1>3, <1>6, <1>7, ReporterAssumption
  <1> QED
    BY <1>1, <1>7, <1>8, <1>11, <1>12 DEF Whole

\* A report is closed, or the process that writes it dies.
LEMMA TidyEnd ==
  ASSUME TypeOK, Tidy, Close \/ Crash
  PROVE  /\ Tidy'
         /\ Whole' = IF pc = "close" /\ kind = "full" /\ Close
                     THEN Whole \cup {reports} ELSE Whole
  <1>1. /\ pc # "none" /\ pc' = "none" /\ reports \in 1..MaxReports
        /\ UNCHANGED <<kind, reports, metadata>>
    BY CurrentFile DEF Close, Crash, Free, inside
  <1>2. /\ finished \subseteq 1..reports /\ reports \notin finished
        /\ kind = "full" => printed[reports] # <<>>
        /\ kind # "full" => printed[reports] = <<>>
        /\ \A r \in 1..MaxReports :
             r > reports => metadata[r].state = "absent" /\ printed[r] = <<>>
    BY <1>1 DEF Tidy
  <1>3. \A r \in 1..MaxReports : ~(kind = "full" /\ r = reports) => printed'[r] = printed[r]
    <2>1. CASE Close
      BY <2>1 DEF Close
    <2>2. CASE Crash
      <3>1. \A r \in 0..MaxReports : r # File => printed'[r] = printed[r]
        BY <2>2 DEF Crash, TypeOK, FileTypes
      <3> QED
        BY <3>1, ReporterAssumption DEF File, FileOf
    <2> QED
      BY <2>1, <2>2
  <1>4. finished' = finished \/ (finished' = finished \cup {reports} /\ Close /\ pc = "close")
    BY DEF Close, Crash
  <1>5. finished' \subseteq 1..reports'
    <2>1. reports \in 1..reports
      BY <1>1, ReporterAssumption
    <2> QED
      BY <1>1, <1>2, <1>4, <2>1
  <1>6. Tidy'
    <2>1. ASSUME NEW r \in 1..MaxReports, r > reports'
          PROVE  metadata'[r].state = "absent" /\ printed'[r] = <<>>
      <3>1. r # reports
        BY <1>1, <2>1
      <3> QED
        BY <1>1, <1>2, <1>3, <2>1, <3>1
    <2> QED
      BY <1>1, <1>5, <2>1 DEF Tidy
  <1>7. \A r \in finished : r \in 1..MaxReports /\ printed'[r] = printed[r]
    <2>1. \A r \in finished : r \in 1..MaxReports /\ r # reports
      BY <1>1, <1>2, ReporterAssumption
    <2> QED
      BY <1>3, <2>1
  <1>8. CASE pc = "close" /\ Close
    <2>1. finished' = finished \cup {reports} /\ printed' = printed
      BY <1>8 DEF Close
    <2>2. CASE kind = "full"
      BY <1>2, <1>6, <1>8, <2>1, <2>2 DEF Whole
    <2>3. CASE kind # "full"
      BY <1>2, <1>6, <2>1, <2>3 DEF Whole
    <2> QED
      BY <2>2, <2>3
  <1>9. CASE ~(pc = "close" /\ Close)
    <2>1. finished' = finished
      BY <1>4, <1>9
    <2> QED
      BY <1>6, <1>7, <1>9, <2>1 DEF Whole
  <1> QED
    BY <1>8, <1>9

LEMMA TidyStep ==
  ASSUME TypeOK, Tidy, [Next]_vars
  PROVE  /\ Tidy'
         /\ [Files!Next]_<<Writing, Whole, States>>
  <1>1. Next => Working \/ Close \/ Crash \/ \E k \in Kinds : Create(k)
    BY DEF Next, Working
  <1>2. metadata \in [1..MaxReports -> MetadataFile]
    BY DEF TypeOK, FileTypes
  <1>3. ASSUME NEW k \in Kinds, Create(k)
        PROVE  Tidy' /\ [Files!Next]_<<Writing, Whole, States>>
    <2>1. /\ Tidy' /\ Whole' = Whole
          /\ reports' \in 1..MaxReports /\ reports' \notin finished
          /\ metadata[reports'].state = "absent"
      BY <1>3, TidyCreate
    <2>2. Writing = {} /\ Writing' = IF k = "full" THEN {reports'} ELSE {}
      BY <1>3 DEF Create, Writing
    <2>3. States' = States /\ States[reports'] = "absent"
      BY <1>3, <2>1 DEF Create, States
    <2>4. CASE k = "full"
      <3>1. reports' \notin Writing \cup Whole
        BY <2>1, <2>2 DEF Whole
      <3>2. Files!Create(reports')
        BY <2>1, <2>2, <2>3, <2>4, <3>1 DEF Files!Create
      <3> QED
        BY <2>1, <3>2 DEF Files!Next, Files!Step
    <2>5. CASE k # "full"
      BY <2>1, <2>2, <2>3, <2>5
    <2> QED
      BY <2>4, <2>5
  <1>4. CASE Working
    <2>1. /\ Tidy' /\ Whole' = Whole
          /\ pc # "none" /\ pc' # "none" /\ reports \in 1..MaxReports
          /\ UNCHANGED <<kind, reports>>
      BY <1>4, TidyWorking, WorkingPrints, CurrentFile
    <2>2. Writing' = Writing /\ (kind = "full" => reports \in Writing)
      BY <2>1 DEF Writing
    <2>3. CASE metadata' = metadata
      <3>1. States' = States
        BY <2>3 DEF States
      <3> QED
        BY <2>1, <2>2, <3>1
    <2>4. ASSUME NEW state, metadata'[reports].state = state,
                 \A r \in 1..MaxReports : r # reports => metadata'[r] = metadata[r]
          PROVE  States' = [States EXCEPT ![reports] = state]
      BY <2>1, <2>4 DEF States
    <2>5. CASE kind = "full" /\ pc = "functions" /\ pc' = "save"
      <3>1. States[reports] = "absent"
        BY <2>1, <2>5 DEF Tidy, States
      <3>2. States' = [States EXCEPT ![reports] = "cut"]
        BY <1>4, <2>4, <2>5, WorkingMetadata
      <3>3. Files!OpenMetadata(reports)
        BY <2>1, <2>2, <2>5, <3>1, <3>2 DEF Files!OpenMetadata
      <3> QED
        BY <2>1, <3>3 DEF Files!Next, Files!Step
    <2>6. CASE kind = "full" /\ pc = "save" /\ pc' = "close" /\ metadata'[reports].state = "saved"
      <3>1. States[reports] = "cut"
        BY <2>1, <2>6 DEF Tidy, States
      <3>2. States' = [States EXCEPT ![reports] = "saved"]
        BY <1>4, <2>4, <2>6, WorkingMetadata
      <3>3. Files!SaveMetadata(reports)
        BY <2>1, <2>2, <2>6, <3>1, <3>2 DEF Files!SaveMetadata
      <3> QED
        BY <2>1, <3>3 DEF Files!Next, Files!Step
    <2> QED
      BY <1>4, <2>3, <2>5, <2>6, WorkingMetadata
  <1>5. CASE Close \/ Crash
    <2>1. /\ Tidy'
          /\ Whole' = IF pc = "close" /\ kind = "full" /\ Close
                      THEN Whole \cup {reports} ELSE Whole
      BY <1>5, TidyEnd
    <2>2. /\ pc # "none" /\ pc' = "none" /\ reports \in 1..MaxReports
          /\ metadata' = metadata
      BY <1>5, CurrentFile DEF Close, Crash, Free
    <2>3. /\ Writing' = {} /\ States' = States
          /\ Writing = IF kind = "full" THEN {reports} ELSE {}
      BY <2>2 DEF Writing, States
    <2>4. CASE kind # "full"
      BY <2>1, <2>3, <2>4
    <2>5. CASE kind = "full" /\ pc = "close" /\ Close
      <3>1. States[reports] # "cut"
        BY <2>2, <2>5 DEF Tidy, States
      <3>2. Files!Close(reports)
        BY <2>1, <2>3, <2>5, <3>1 DEF Files!Close
      <3> QED
        BY <2>1, <2>2, <3>2 DEF Files!Next, Files!Step
    <2>6. CASE kind = "full" /\ ~(pc = "close" /\ Close)
      <3>1. Files!Abandon(reports)
        BY <2>1, <2>3, <2>6 DEF Files!Abandon
      <3> QED
        BY <2>1, <2>2, <3>1 DEF Files!Next, Files!Step
    <2> QED
      BY <2>4, <2>5, <2>6
  <1>6. CASE UNCHANGED vars
    <2>1. UNCHANGED <<pc, kind, reports, finished, printed, metadata>>
      BY <1>6 DEF vars, inside, files
    <2>2. Tidy'
      BY <2>1 DEF Tidy
    <2>3. UNCHANGED <<Writing, Whole, States>>
      BY <2>1 DEF Writing, Whole, States
    <2> QED
      BY <2>2, <2>3
  <1> QED
    BY <1>1, <1>3, <1>4, <1>5, <1>6

\* The directory of reports keeps its promise to its readers, for any capacity of
\* the buffers and any number of reports: the reporter implements ReportFiles.
THEOREM FilesAreImplemented == Spec => ImplementsReportFiles
  <1>1. Init => Files!Init
    <2> SUFFICES ASSUME Init PROVE Files!Init
      OBVIOUS
    <2>1. Writing = {} /\ Whole = {}
      BY DEF Init, Writing, Whole
    <2>2. States = [r \in 1..MaxReports |-> "absent"]
      <3>1. \A r \in 1..MaxReports : metadata[r].state = "absent"
        BY DEF Init, Metadata
      <3> QED
        BY <3>1 DEF States
    <2> QED
      BY <2>1, <2>2 DEF Files!Init
  <1>2. TypeOK /\ Tidy /\ [Next]_vars => Tidy' /\ [Files!Next]_<<Writing, Whole, States>>
    BY TidyStep
  <1> QED
    BY <1>1, <1>2, TidyInit, TypeInit, TypeStep, PTL
    DEF Spec, ImplementsReportFiles, Files!Spec, Files!fileVars

-----------------------------------------------------------------------------
(* The calls that a finished report counts. *)

\* The lines of a file that are the end of a call.
EndLines(lines) == {i \in 1..Len(lines) : Ends(lines[i])}

\* Is the end of a call in place i, of the lines, the rows held, and the events
\* that wait from next on, laid one after the other?
EndIn(lines, held, waiting, next, i) ==
  IF i <= Len(lines) THEN Ends(lines[i])
  ELSE IF i <= Len(lines) + Len(held) THEN Ends(held[i - Len(lines)])
  ELSE ~waiting[i - Len(lines) - Len(held) + next - 1].start

\* The places of the ends of calls, when last events were notified.
EndsOf(lines, held, waiting, next, last) ==
  {i \in 1 .. last + 1 : EndIn(lines, held, waiting, next, i)}

\* A row that is moved from the buffer to the builder keeps its place.
LEMMA EndsHeld ==
  ASSUME NEW lines \in Seq(Line), NEW held \in Seq(Line), NEW waiting \in Seq(Event),
         NEW next \in 1..Len(waiting), NEW last \in Nat,
         NEW row \in Line, row.is = "row", row.start = waiting[next].start
  PROVE  EndsOf(lines, Append(held, row), waiting, next + 1, last)
           = EndsOf(lines, held, waiting, next, last)
  <1> DEFINE more == Append(held, row)
  <1>1. /\ Len(lines) \in Nat /\ Len(held) \in Nat /\ next \in Nat
        /\ Len(more) = Len(held) + 1
        /\ \A j \in 1..Len(held) : more[j] = held[j]
        /\ more[Len(held) + 1] = row
    OBVIOUS
  <1> HIDE DEF more
  <1>2. ASSUME NEW i \in 1 .. last + 1
        PROVE  EndIn(lines, more, waiting, next + 1, i) <=> EndIn(lines, held, waiting, next, i)
    <2>1. CASE i <= Len(lines)
      BY <2>1 DEF EndIn
    <2>2. CASE i > Len(lines) /\ i <= Len(lines) + Len(held)
      <3>1. i - Len(lines) \in 1..Len(held)
        BY <1>1, <2>2
      <3>2. more[i - Len(lines)] = held[i - Len(lines)]
        BY <1>1, <3>1
      <3> QED
        BY <1>1, <2>2, <3>2 DEF EndIn
    <2>3. CASE i = Len(lines) + Len(held) + 1
      <3>1. /\ i - Len(lines) = Len(held) + 1
            /\ i - Len(lines) - Len(held) + next - 1 = next
        BY <1>1, <2>3
      <3>2. EndIn(lines, more, waiting, next + 1, i) <=> Ends(row)
        BY <1>1, <2>3, <3>1 DEF EndIn
      <3>3. EndIn(lines, held, waiting, next, i) <=> ~waiting[next].start
        BY <1>1, <2>3, <3>1 DEF EndIn
      <3> QED
        BY <3>2, <3>3 DEF Ends
    <2>4. CASE i > Len(lines) + Len(held) + 1
      <3>1. i - Len(lines) - Len(more) + (next + 1) - 1 = i - Len(lines) - Len(held) + next - 1
        BY <1>1
      <3> QED
        BY <1>1, <2>4, <3>1 DEF EndIn
    <2> QED
      BY <1>1, <2>1, <2>2, <2>3, <2>4
  <1> QED
    BY <1>2 DEF EndsOf, more

\* Rows that are printed keep theirs.
LEMMA EndsPrinted ==
  ASSUME NEW lines \in Seq(Line), NEW held \in Seq(Line), NEW waiting \in Seq(Event),
         NEW next \in Nat, NEW last \in Nat
  PROVE  EndsOf(lines \o held, <<>>, waiting, next, last)
           = EndsOf(lines, held, waiting, next, last)
  <1> DEFINE all == lines \o held
  <1>1. /\ Len(lines) \in Nat /\ Len(held) \in Nat
        /\ Len(all) = Len(lines) + Len(held) /\ Len(<<>>) = 0
        /\ \A i \in 1..Len(lines) : all[i] = lines[i]
        /\ \A i \in 1..Len(all) : i > Len(lines) => all[i] = held[i - Len(lines)]
    OBVIOUS
  <1> HIDE DEF all
  <1>2. ASSUME NEW i \in 1 .. last + 1
        PROVE  EndIn(all, <<>>, waiting, next, i) <=> EndIn(lines, held, waiting, next, i)
    <2>1. CASE i <= Len(lines)
      BY <1>1, <2>1 DEF EndIn
    <2>2. CASE i > Len(lines) /\ i <= Len(all)
      BY <1>1, <2>2 DEF EndIn
    <2>3. CASE i > Len(all)
      <3>1. i - Len(all) - Len(<<>>) + next - 1 = i - Len(lines) - Len(held) + next - 1
        BY <1>1
      <3> QED
        BY <1>1, <2>3, <3>1 DEF EndIn
    <2> QED
      BY <1>1, <2>1, <2>2, <2>3
  <1> QED
    BY <1>2 DEF EndsOf, all

\* Once everything is printed, the places are lines.
LEMMA EndsClosed ==
  ASSUME NEW lines \in Seq(Line), NEW waiting, NEW next, NEW last \in Nat,
         last = Len(lines) - 1
  PROVE  EndsOf(lines, <<>>, waiting, next, last) = EndLines(lines)
  <1>1. 1 .. last + 1 = 1..Len(lines)
    OBVIOUS
  <1>2. \A i \in 1..Len(lines) : EndIn(lines, <<>>, waiting, next, i) <=> Ends(lines[i])
    BY DEF EndIn
  <1> QED
    BY <1>1, <1>2 DEF EndsOf, EndLines

\* A heading ends no call.
LEMMA EndsHeading ==
  ASSUME NEW lines \in Seq(Line), NEW h \in {"events", "header", "functions"}
  PROVE  EndLines(Append(lines, Heading(h))) = EndLines(lines)
  <1> DEFINE more == Append(lines, Heading(h))
  <1>1. /\ Len(more) = Len(lines) + 1 /\ Len(lines) \in Nat
        /\ \A i \in 1..Len(lines) : more[i] = lines[i]
        /\ more[Len(lines) + 1] = Heading(h)
    OBVIOUS
  <1>2. ~Ends(Heading(h))
    BY DEF Ends, Heading
  <1> HIDE DEF more
  <1>3. EndLines(more) = EndLines(lines)
    BY <1>1, <1>2 DEF EndLines
  <1> QED
    BY <1>3 DEF more

\* One more event is one more end, or none.
LEMMA EndsRecorded ==
  ASSUME NEW lines \in Seq(Line), NEW waiting \in Seq(Event), NEW last \in Nat,
         last = Len(lines) - 1 + Len(waiting), NEW e \in Event
  PROVE  Cardinality(EndsOf(lines, <<>>, Append(waiting, e), 1, last + 1))
           = Cardinality(EndsOf(lines, <<>>, waiting, 1, last)) + (IF e.start THEN 0 ELSE 1)
  <1> DEFINE more == Append(waiting, e)
             before == EndsOf(lines, <<>>, waiting, 1, last)
             after == EndsOf(lines, <<>>, more, 1, last + 1)
  <1>1. /\ Len(lines) \in Nat /\ Len(waiting) \in Nat /\ Len(<<>>) = 0
        /\ \A j \in 1..Len(waiting) : more[j] = waiting[j]
        /\ more[Len(waiting) + 1] = e
    OBVIOUS
  <1> HIDE DEF more
  <1>2. ASSUME NEW i \in 1 .. last + 1
        PROVE  EndIn(lines, <<>>, more, 1, i) <=> EndIn(lines, <<>>, waiting, 1, i)
    <2>1. CASE i <= Len(lines)
      BY <2>1 DEF EndIn
    <2>2. CASE i > Len(lines)
      <3>1. i - Len(lines) - Len(<<>>) + 1 - 1 \in 1..Len(waiting)
        BY <1>1, <2>2
      <3>2. /\ ~(i <= Len(lines)) /\ ~(i <= Len(lines) + Len(<<>>))
        BY <1>1, <2>2
      <3>3. more[i - Len(lines) - Len(<<>>) + 1 - 1] = waiting[i - Len(lines) - Len(<<>>) + 1 - 1]
        BY <1>1, <3>1
      <3> QED
        BY <3>2, <3>3 DEF EndIn
    <2> QED
      BY <1>1, <2>1, <2>2
  <1>3. EndIn(lines, <<>>, more, 1, last + 2) <=> ~e.start
    <2>1. /\ last + 2 - Len(lines) - Len(<<>>) + 1 - 1 = Len(waiting) + 1
          /\ ~(last + 2 <= Len(lines)) /\ ~(last + 2 <= Len(lines) + Len(<<>>))
      BY <1>1
    <2> QED
      BY <1>1, <2>1 DEF EndIn
  <1>4. \A i : i \in 1 .. (last + 1) + 1 <=> i \in 1 .. last + 1 \/ i = last + 2
    OBVIOUS
  <1>5. after = before \cup (IF e.start THEN {} ELSE {last + 2})
    BY <1>2, <1>3, <1>4 DEF EndsOf
  <1>6. IsFiniteSet(before) /\ last + 2 \notin before
    <2>1. IsFiniteSet(1 .. last + 1)
      BY FS_Interval
    <2>2. before \subseteq 1 .. last + 1
      BY DEF EndsOf
    <2> QED
      BY <2>1, <2>2, FS_Subset
  <1> HIDE DEF before, after
  <1>7. CASE e.start
    <2>1. after = before
      BY <1>5, <1>7
    <2>2. Cardinality(before) \in Nat
      BY <1>6, FS_CardinalityType
    <2> QED
      BY <1>7, <2>1, <2>2 DEF before, after, more
  <1>8. CASE ~e.start
    <2>1. after = before \cup {last + 2}
      BY <1>5, <1>8
    <2>2. Cardinality(after) = Cardinality(before) + 1
      BY <1>6, <2>1, FS_AddElement
    <2> QED
      BY <1>8, <2>2 DEF before, after, more
  <1> QED
    BY <1>7, <1>8

\* While events come, those that end a call are counted, wherever they are.
Counting ==
  pc \in {"idle", "flush"} =>
    called = Cardinality(EndsOf(printed[File], Held, buffer, at, events[reports]))

\* Afterwards the file has a row for each, then the functions; the metadata has
\* the count.
Closing ==
  pc \in {"functions", "save", "close"} =>
    /\ called = Cardinality(EndLines(printed[File]))
    /\ \A i \in 2 .. events[reports] + 1 :
         printed[File][i].is = "row" /\ printed[File][i].event = i - 1
    /\ Len(printed[File]) = events[reports] + (IF pc = "functions" THEN 1 ELSE 2)
    /\ pc # "functions" => printed[File][Len(printed[File])].is = "functions"
    /\ pc = "close" /\ metadata[reports].state = "saved" => metadata[reports].called = called

\* The first line of a full report, and its count at every place.
CalledBook ==
  /\ pc = "none" => called = 0
  /\ pc # "none" /\ kind = "full" =>
       printed[File][1].is = "events" /\ Counting /\ Closing

\* What is known of a full report that is written.
LEMMA FullReport ==
  ASSUME TypeOK, Fills, Booked, Tidy, CalledBook, pc # "none", kind = "full"
  PROVE  /\ reports \in 1..MaxReports /\ reports \in 0..MaxReports /\ File = reports
         /\ printed[File] \in Seq(Line) /\ printed[File] # <<>> /\ Len(printed[File]) \in Nat \ {0}
         /\ printed[File][1].is = "events" /\ Counting /\ Closing
         /\ events[reports] \in Nat /\ Headed = printed[File]
         /\ pc \in {"idle", "flush"} =>
              InOrder(printed[File], Held, buffer, at, events[reports])
  <1>1. reports \in 1..MaxReports /\ reports \in 0..MaxReports /\ File = reports
    BY CurrentFile, ReporterAssumption DEF File, FileOf
  <1>2. /\ printed[File] \in Seq(Line) /\ printed[File] # <<>>
        /\ events[reports] \in Nat /\ Headed = printed[File]
    BY <1>1 DEF TypeOK, StateTypes, FileTypes, Tidy, Headed
  <1>3. Len(printed[File]) \in Nat \ {0}
    BY <1>2
  <1> QED
    BY <1>1, <1>2, <1>3 DEF CalledBook, Booked

\* The first line stays.
LEMMA FirstStays ==
  ASSUME TypeOK, Fills, Booked, Tidy, CalledBook, Working, kind = "full"
  PROVE  /\ kind' = "full" /\ reports' = reports /\ File' = reports /\ pc' # "none"
         /\ printed'[File'][1].is = "events"
  <1>1. /\ pc # "none" /\ pc' # "none" /\ UNCHANGED <<kind, reports>>
        /\ UNCHANGED printed \/ \E rows \in Seq(Line) : Prints(rows)
    BY WorkingPrints
  <1>2. File' = reports
    BY <1>1 DEF File, FileOf
  <1>3. CASE UNCHANGED printed
    BY <1>1, <1>2, <1>3, FullReport
  <1>4. ASSUME NEW rows \in Seq(Line), Prints(rows) PROVE printed'[reports][1].is = "events"
    <2>1. printed'[reports] = printed[reports] \o rows
      BY <1>1, <1>4, FullReport DEF Prints, TypeOK, FileTypes
    <2>2. printed[reports] \in Seq(Line) /\ Len(printed[reports]) >= 1
      BY <1>1, FullReport
    <2>3. (printed[reports] \o rows)[1] = printed[reports][1]
      BY <2>2
    <2> QED
      BY <1>1, <2>1, <2>3, FullReport
  <1> QED
    BY <1>1, <1>2, <1>3, <1>4

\* A flush begins with what is in the file, and in the buffer.
LEMMA CountingFlush ==
  ASSUME kind = "full", kind' = kind, reports' = reports, BeginFlush
  PROVE  printed' = printed /\ Held' = <<>> /\ at' = 1 /\ pc' = "flush"
  BY DEF BeginFlush, Held

\* The count goes on with each step of a full report.
LEMMA CountingStep ==
  ASSUME TypeOK, Fills, Booked, Tidy, CalledBook, Working, kind = "full"
  PROVE  Counting' /\ Closing'
  <1> USE ReporterAssumption
  <1>0. /\ kind' = "full" /\ reports' = reports /\ File' = reports /\ File = reports
        /\ pc # "none" /\ reports \in 1..MaxReports /\ reports \in 0..MaxReports
        /\ printed \in [0..MaxReports -> Seq(Line)] /\ metadata \in [1..MaxReports -> MetadataFile]
        /\ printed[reports] \in Seq(Line) /\ Len(printed[reports]) \in Nat \ {0}
        /\ events[reports] \in Nat /\ Counting /\ Closing
        /\ buffer \in Seq(Event) /\ builder \in Seq(Line)
        /\ pc \in {"idle", "flush"} =>
             InOrder(printed[reports], Held, buffer, at, events[reports])
    BY FirstStays, FullReport, WorkingPrints DEF TypeOK, FileTypes, BufferTypes
  <1>1. CASE \E s \in Notes, copied \in BOOLEAN : SetCustomMetadata(s, copied)
    <2>1. UNCHANGED <<pc, called, printed, strings, buffer, at, events, reports, kind>> /\ pc = "idle"
      BY <1>1 DEF SetCustomMetadata, inside, files
    <2> QED
      BY <1>0, <2>1 DEF Counting, Closing, Held, strings
  <1>2. ASSUME NEW start \in BOOLEAN, NEW length \in RowSizes, Record(start, length)
        PROVE  Counting' /\ Closing'
    <2> DEFINE e == [n |-> events[reports] + 1, start |-> start, size |-> length]
    <2>1. /\ pc = "idle" /\ pc' \in {"idle", "flush"} /\ at = 1 /\ Held = <<>>
          /\ buffer' = Append(buffer, e) /\ events'[reports] = events[reports] + 1
          /\ called' = IF start THEN called ELSE called + 1
      BY <1>0, <1>2 DEF Record, BeginFlush, Fills, Held, TypeOK, StateTypes
    <2>2. printed' = printed /\ Held' = <<>> /\ at' = 1
      <3>1. CASE BeginFlush
        BY <1>0, <3>1, CountingFlush
      <3>2. CASE UNCHANGED <<pc, at, strings, first, printed>>
        BY <2>1, <3>2 DEF Held
      <3> QED
        BY <1>2, <3>1, <3>2 DEF Record
    <2>3. e \in Event /\ e.start = start
      <3>1. events[reports] + 1 \in Nat \ {0}
        BY <1>0, SMTT(60)
      <3> QED
        BY <1>2, <3>1 DEF Event
    <2> HIDE DEF e
    <2>4. events[reports] = Len(printed[reports]) - 1 + Len(buffer)
      <3>1. events[reports] = Len(printed[reports]) - 1 + 0 + Len(buffer) - 1 + 1
        BY <1>0, <2>1 DEF InOrder
      <3> QED
        BY <1>0, <3>1
    <2>5. called = Cardinality(EndsOf(printed[reports], <<>>, buffer, 1, events[reports]))
      BY <1>0, <2>1 DEF Counting
    <2>6. Cardinality(EndsOf(printed[reports], <<>>, Append(buffer, e), 1, events[reports] + 1))
            = called + (IF e.start THEN 0 ELSE 1)
      BY <1>0, <2>3, <2>4, <2>5, EndsRecorded
    <2>7. called' = Cardinality(EndsOf(printed[reports], <<>>, Append(buffer, e), 1, events[reports] + 1))
      <3>1. called \in Nat
        BY DEF TypeOK, StateTypes
      <3> QED
        BY <2>1, <2>3, <2>6, <3>1
    <2> QED
      BY <1>0, <2>1, <2>2, <2>7 DEF Counting, Closing
  <1>3. CASE Finalize
    <2>1. /\ pc = "idle" /\ at = 1 /\ Held = <<>> /\ pc' = "flush"
          /\ printed' = printed /\ Held' = <<>> /\ at' = 1
          /\ UNCHANGED <<buffer, called, events>>
      BY <1>0, <1>3, CountingFlush DEF Finalize, Fills, Held
    <2> QED
      BY <1>0, <2>1 DEF Counting, Closing
  <1>4. CASE FlushFullRow
    <2> DEFINE row(k)  == Row(buffer[at], k = buffer[at].size)
               rows(k) == Append(builder, row(k))
    <2>1. PICK k \in Taken(buffer[at].size) :
            IF MustPrint(Room - k)
            THEN /\ printed' = [printed EXCEPT ![File] = @ \o rows(k)]
                 /\ builder' = <<>>
            ELSE builder' = rows(k) /\ UNCHANGED printed
      BY <1>4 DEF FlushFullRow, Restarted
    <2>2. /\ pc = "flush" /\ pc' = "flush" /\ at \in 1..Len(buffer) /\ at' = at + 1
          /\ Held = builder /\ Held' = builder' /\ UNCHANGED <<buffer, called, events>>
      BY <1>0, <1>4 DEF FlushFullRow, TypeOK, BufferTypes, Held, inside
    <2>3. row(k) \in Line /\ row(k).is = "row" /\ row(k).start = buffer[at].start
      <3>1. buffer[at] \in Event
        BY <1>0, <2>2
      <3>2. (k = buffer[at].size) \in BOOLEAN
        OBVIOUS
      <3>3. row(k) \in Line
        BY <3>1, <3>2, RowIsLine
      <3> QED
        BY <3>3 DEF Row
    <2> HIDE DEF row
    <2>4. rows(k) \in Seq(Line)
      BY <1>0, <2>3
    <2>5. called = Cardinality(EndsOf(printed[reports], builder, buffer, at, events[reports]))
      BY <1>0, <2>2 DEF Counting
    <2>6. called = Cardinality(EndsOf(printed[reports], rows(k), buffer, at + 1, events[reports]))
      BY <1>0, <2>2, <2>3, <2>5, EndsHeld, SMTT(60)
    <2> HIDE DEF rows
    <2>7. CASE MustPrint(Room - k)
      <3>1. printed'[reports] = printed[reports] \o rows(k) /\ builder' = <<>>
        BY <1>0, <2>1, <2>7
      <3>2. at + 1 \in Nat
        BY <2>2
      <3>3. called = Cardinality(EndsOf(printed[reports] \o rows(k), <<>>, buffer, at + 1, events[reports]))
        BY <1>0, <2>4, <2>6, <3>2, EndsPrinted
      <3> QED
        BY <1>0, <2>2, <3>1, <3>3 DEF Counting, Closing
    <2>8. CASE ~MustPrint(Room - k)
      <3>1. printed' = printed /\ builder' = rows(k)
        BY <2>1, <2>8
      <3> QED
        BY <1>0, <2>2, <2>6, <3>1 DEF Counting, Closing
    <2> QED
      BY <2>7, <2>8
  <1>5. CASE FlushTraceRow
    BY <1>0, <1>5 DEF FlushTraceRow
  <1>6. CASE EndFlush
    <2> DEFINE all == printed[reports] \o builder
    <2>1. /\ pc = "flush" /\ at = Len(buffer) + 1 /\ Held = builder /\ Held' = <<>>
          /\ pc' \in {"idle", "functions"} /\ buffer' = <<>> /\ at' = 1
          /\ UNCHANGED <<called, events>>
      BY <1>0, <1>6, SMTT(60) DEF EndFlush, TypeOK, BufferTypes, Held, inside
    <2>2. printed'[reports] = all
      BY <1>0, <1>6 DEF EndFlush, LastRows
    <2>3. InOrder(all, <<>>, buffer, Len(buffer) + 1, events[reports])
      <3>1. Len(buffer) + 1 \in 1 .. Len(buffer) + 1
        BY <1>0
      <3> QED
        BY <1>0, <2>1, <3>1, OrderPrinted
    <2>4. all \in Seq(Line)
      BY <1>0
    <2>5. called = Cardinality(EndsOf(all, <<>>, buffer, Len(buffer) + 1, events[reports]))
      <3>1. called = Cardinality(EndsOf(printed[reports], builder, buffer, Len(buffer) + 1, events[reports]))
        BY <1>0, <2>1 DEF Counting
      <3>2. Len(buffer) + 1 \in Nat
        BY <1>0
      <3> QED
        BY <1>0, <3>1, <3>2, EndsPrinted
    <2> HIDE DEF all
    <2>6. /\ events[reports] = Len(all) - 1 /\ Len(all) = events[reports] + 1
          /\ \A i \in 2 .. events[reports] + 1 : all[i].is = "row" /\ all[i].event = i - 1
      <3>1. /\ events[reports] = Len(all) - 1 + Len(<<>>) + Len(buffer) - (Len(buffer) + 1) + 1
            /\ \A i \in 2..Len(all) : all[i].is = "row" /\ all[i].event = i - 1
        BY <2>3 DEF InOrder
      <3>2. Len(<<>>) = 0 /\ Len(buffer) \in Nat /\ Len(all) \in Nat
        BY <1>0, <2>4
      <3>3. events[reports] = Len(all) - 1
        BY <3>1, <3>2
      <3> QED
        BY <3>1, <3>2, <3>3
    <2>7. called = Cardinality(EndLines(all))
      BY <1>0, <2>4, <2>5, <2>6, EndsClosed
    <2>8. called = Cardinality(EndsOf(all, <<>>, <<>>, 1, events[reports]))
      BY <1>0, <2>4, <2>6, <2>7, EndsClosed
    <2>9. Counting'
      BY <1>0, <2>1, <2>2, <2>8 DEF Counting
    <2>10. Closing'
      BY <1>0, <2>1, <2>2, <2>6, <2>7 DEF Closing
    <2> QED
      BY <2>9, <2>10
  <1>7. ASSUME NEW opened \in BOOLEAN, PrintFunctions(opened)
        PROVE  Counting' /\ Closing'
    <2> DEFINE all == Append(printed[reports], Heading("functions"))
    <2>1. /\ pc = "functions" /\ pc' \in {"save", "close"}
          /\ printed'[reports] = all /\ UNCHANGED <<called, events>>
      BY <1>0, <1>7 DEF PrintFunctions, AfterFunctions, inside
    <2>2. pc' = "close" => metadata'[reports].state = "absent"
      <3>1. ~opened => metadata' = metadata
        BY <1>0, <1>7 DEF PrintFunctions
      <3>2. pc' = "close" => ~opened
        BY <1>7 DEF PrintFunctions, AfterFunctions
      <3> QED
        BY <1>0, <2>1, <3>1, <3>2 DEF Tidy
    <2>3. called = Cardinality(EndLines(all))
      BY <1>0, <2>1, EndsHeading DEF Closing
    <2>4. /\ Len(all) = Len(printed[reports]) + 1
          /\ \A i \in 1..Len(printed[reports]) : all[i] = printed[reports][i]
          /\ all[Len(all)] = Heading("functions")
      BY <1>0
    <2>5. Len(printed[reports]) = events[reports] + 1
      BY <1>0, <2>1 DEF Closing
    <2>6. Heading("functions").is = "functions"
      BY DEF Heading
    <2> HIDE DEF all
    <2>7. Len(all) = events[reports] + 2
      BY <1>0, <2>4, <2>5, SMTT(60)
    <2>8. \A i \in 2 .. events[reports] + 1 : all[i].is = "row" /\ all[i].event = i - 1
      <3>1. \A i \in 2 .. events[reports] + 1 : i \in 1..Len(printed[reports])
        BY <1>0, <2>5
      <3> QED
        BY <1>0, <2>1, <2>4, <3>1 DEF Closing
    <2> QED
      BY <1>0, <2>1, <2>2, <2>3, <2>4, <2>6, <2>7, <2>8 DEF Counting, Closing
  <1>8. CASE SaveMetadata
    <2>1. /\ pc = "save" /\ pc' = "close" /\ UNCHANGED <<called, events, printed>>
          /\ metadata' = [metadata EXCEPT ![reports] = Metadata("saved")]
      BY <1>8 DEF SaveMetadata, inside
    <2>2. metadata'[reports].called = called
      BY <1>0, <2>1 DEF Metadata
    <2> QED
      BY <1>0, <2>1, <2>2 DEF Counting, Closing
  <1> QED
    BY <1>1, <1>2, <1>3, <1>4, <1>5, <1>6, <1>7, <1>8 DEF Working

\* Nothing is counted at first.
LEMMA CalledInit == Init => CalledBook
  BY DEF Init, CalledBook

\* A report begins with nothing counted.
LEMMA CalledCreate ==
  ASSUME TypeOK, Fills, Booked, Tidy, CalledBook, NEW k \in Kinds, Create(k)
  PROVE  CalledBook'
  <1>1. /\ pc = "none" /\ pc' = "idle" /\ kind' = k /\ reports' = reports + 1
        /\ reports' \in 1..MaxReports /\ reports' > reports
        /\ called' = 0 /\ buffer' = <<>> /\ at' = 1 /\ events' = events
    BY ReporterAssumption DEF Create, memory, TypeOK, StateTypes, Fills, CalledBook
  <1>2. SUFFICES ASSUME k = "full" PROVE CalledBook'
    BY <1>1 DEF CalledBook
  <1>3. events'[reports'] = 0
    BY <1>1 DEF Booked
  <1>4. File' = reports' /\ Held' = <<>>
    BY <1>1, <1>2 DEF File, FileOf, Held
  <1>5. printed'[reports'] = <<Heading("events")>>
    <2>1. printed' = [printed EXCEPT ![reports'] = <<Heading("events")>>]
      BY <1>1, <1>2 DEF Create, FileOf
    <2>2. reports' \in 0..MaxReports
      BY <1>1, ReporterAssumption
    <2> QED
      BY <2>1, <2>2 DEF TypeOK, FileTypes
  <1>6. Cardinality(EndsOf(<<Heading("events")>>, <<>>, <<>>, 1, 0)) = 0
    <2> DEFINE lines == <<Heading("events")>>
    <2>1. /\ lines \in Seq(Line) /\ Len(lines) = 1
          /\ \A i \in 1..Len(lines) : lines[i] = Heading("events")
      BY HeadingIsLine
    <2>2. ~Ends(Heading("events"))
      BY DEF Ends, Heading
    <2> HIDE DEF lines
    <2>3. 0 \in Nat /\ 0 = Len(lines) - 1
      BY <2>1
    <2>4. EndsOf(lines, <<>>, <<>>, 1, 0) = EndLines(lines)
      BY <2>1, <2>3, EndsClosed
    <2>5. EndLines(lines) = {}
      BY <2>1, <2>2 DEF EndLines
    <2>6. Cardinality(EndsOf(lines, <<>>, <<>>, 1, 0)) = 0
      BY <2>4, <2>5, FS_EmptySet
    <2> QED
      BY <2>6 DEF lines
  <1>7. Counting'
    BY <1>1, <1>3, <1>4, <1>5, <1>6 DEF Counting
  <1>8. Closing'
    BY <1>1 DEF Closing
  <1>9. printed'[File'][1].is = "events"
    BY <1>4, <1>5 DEF Heading
  <1> QED
    BY <1>1, <1>7, <1>8, <1>9 DEF CalledBook

\* Every step keeps the count.
LEMMA CalledStep ==
  ASSUME TypeOK, Fills, Booked, Tidy, CalledBook, [Next]_vars
  PROVE  CalledBook'
  <1>1. Next => Working \/ Close \/ Crash \/ \E k \in Kinds : Create(k)
    BY DEF Next, Working
  <1>2. CASE Working
    <2>1. CASE kind = "full"
      BY <1>2, <2>1, CountingStep, FirstStays DEF CalledBook
    <2>2. CASE kind # "full"
      BY <1>2, <2>2, WorkingPrints DEF CalledBook
    <2> QED
      BY <2>1, <2>2
  <1>3. CASE Close \/ Crash
    BY <1>3 DEF Close, Crash, Free, CalledBook
  <1>4. CASE \E k \in Kinds : Create(k)
    BY <1>4, CalledCreate
  <1>5. CASE UNCHANGED vars
    <2>1. /\ UNCHANGED <<pc, kind, reports, first, events, called, buffer, at, builder,
                         printed, metadata>>
      BY <1>5 DEF vars, memory, strings, inside, files
    <2> QED
      BY <2>1 DEF CalledBook, Counting, Closing, Held, File
  <1> QED
    BY <1>1, <1>2, <1>3, <1>4, <1>5

\* The files of a report that is finished stay as they are.
LEMMA FinishedStays ==
  ASSUME TypeOK, Tidy, [Next]_vars, NEW r \in finished
  PROVE  /\ r \in 1..MaxReports
         /\ printed'[r] = printed[r] /\ durable'[r] = durable[r]
         /\ events'[r] = events[r] /\ metadata'[r] = metadata[r]
  <1>1. /\ r \in 1..MaxReports /\ r \in 0..MaxReports /\ r <= reports /\ reports \in Nat
        /\ pc # "none" => r # reports /\ r # File
        /\ r # 0
    <2>1. r \in 1..reports /\ reports \in 0..MaxReports
      BY DEF Tidy, TypeOK, StateTypes
    <2>2. pc # "none" => r # reports
      BY DEF Tidy
    <2> QED
      BY <2>1, <2>2, ReporterAssumption DEF File, FileOf
  <1>2. /\ printed \in [0..MaxReports -> Seq(Line)] /\ durable \in [0..MaxReports -> Nat]
        /\ events \in [1..MaxReports -> Nat]
    BY DEF TypeOK, StateTypes, FileTypes
  <1>3. Next => Working \/ Close \/ Crash \/ \E k \in Kinds : Create(k)
    BY DEF Next, Working
  <1>4. CASE Working
    <2>1. printed'[r] = printed[r] /\ pc # "none"
      BY <1>1, <1>4, WorkingPrints, OnlyItsFile
    <2>2. metadata'[r] = metadata[r]
      BY <1>1, <1>4, <2>1, WorkingMetadata
    <2>3. durable' = durable \/ \E d : durable' = [durable EXCEPT ![File] = d]
      BY <1>4 DEF Working, SetCustomMetadata, Record, Finalize, FlushFullRow, FlushTraceRow,
                  EndFlush, PrintFunctions, SaveMetadata, files
    <2>4. events' = events \/ events' = [events EXCEPT ![reports] = @ + 1]
      BY <1>4 DEF Working, SetCustomMetadata, Record, Finalize, FlushFullRow, FlushTraceRow,
                  EndFlush, PrintFunctions, SaveMetadata, inside
    <2> QED
      BY <1>1, <1>2, <2>1, <2>2, <2>3, <2>4
  <1>5. CASE Close
    BY <1>1, <1>2, <1>5 DEF Close, inside
  <1>6. CASE Crash
    <2>1. pc # "none" /\ UNCHANGED <<metadata, events>>
      BY <1>6 DEF Crash, inside
    <2>2. PICK n \in durable[File] .. Len(printed[File]) :
            /\ printed' = [printed EXCEPT ![File] = SubSeq(@, 1, n)]
            /\ durable' = [durable EXCEPT ![File] = n]
      BY <1>6 DEF Crash
    <2> QED
      BY <1>1, <1>2, <2>1, <2>2
  <1>7. ASSUME NEW k \in Kinds, Create(k)
        PROVE  UNCHANGED <<metadata, events>> /\ printed'[r] = printed[r] /\ durable'[r] = durable[r]
    <2>1. r # FileOf(k, reports + 1)
      BY <1>1 DEF FileOf
    <2>2. UNCHANGED <<metadata, events>>
      BY <1>7 DEF Create
    <2>3. \E s, d : /\ printed' = [printed EXCEPT ![FileOf(k, reports + 1)] = s]
                    /\ durable' = [durable EXCEPT ![FileOf(k, reports + 1)] = d]
      BY <1>7 DEF Create
    <2> QED
      BY <1>1, <1>2, <2>1, <2>2, <2>3
  <1>8. CASE UNCHANGED vars
    BY <1>1, <1>8 DEF vars, inside, files
  <1> QED
    BY <1>1, <1>3, <1>4, <1>5, <1>6, <1>7, <1>8

\* What is asked of a finished report r.
Finished(r) ==
  printed[r] # <<>> =>
    /\ durable[r] = Len(printed[r]) /\ Len(printed[r]) = events[r] + 2
    /\ printed[r][1].is = "events" /\ printed[r][Len(printed[r])].is = "functions"
    /\ \A i \in 2 .. Len(printed[r]) - 1 : printed[r][i].is = "row" /\ printed[r][i].event = i - 1
    /\ metadata[r].state \in {"absent", "saved"}
    /\ metadata[r].state = "saved" => metadata[r].called = Cardinality(EndLines(printed[r]))

\* It holds of the report that is closed.
LEMMA ClosedIsFinished ==
  ASSUME TypeOK, Fills, Booked, Tidy, CalledBook, Close, pc = "close"
  PROVE  Finished(reports)'
  <1>1. /\ pc # "none" /\ reports \in 1..MaxReports /\ UNCHANGED <<reports, events, printed, metadata>>
    BY CurrentFile DEF Close, inside
  <1>2. CASE kind # "full"
    BY <1>1, <1>2 DEF Tidy, Finished
  <1>3. CASE kind = "full"
    <2>1. /\ File = reports /\ reports \in 0..MaxReports /\ Len(printed[reports]) \in Nat
          /\ printed[reports][1].is = "events" /\ Closing
      BY <1>1, <1>3, FullReport
    <2>2. durable'[reports] = Len(printed[reports])
      BY <2>1 DEF Close, TypeOK, FileTypes
    <2>3. /\ called = Cardinality(EndLines(printed[reports]))
          /\ \A i \in 2 .. events[reports] + 1 :
               printed[reports][i].is = "row" /\ printed[reports][i].event = i - 1
          /\ Len(printed[reports]) = events[reports] + 2
          /\ printed[reports][Len(printed[reports])].is = "functions"
          /\ metadata[reports].state = "saved" => metadata[reports].called = called
      BY <2>1 DEF Closing
    <2>4. metadata[reports].state \in {"absent", "saved"}
      <3>1. metadata[reports].state \in {"absent", "cut", "saved"}
        BY <1>1 DEF TypeOK, FileTypes, MetadataFile
      <3> QED
        BY <1>1, <1>3, <3>1 DEF Tidy
    <2>5. Len(printed[reports]) - 1 = events[reports] + 1
      <3>1. events[reports] \in Nat
        BY <1>1 DEF TypeOK, StateTypes
      <3> QED
        BY <2>3, <3>1
    <2> QED
      BY <1>1, <2>1, <2>2, <2>3, <2>4, <2>5 DEF Finished
  <1> QED
    BY <1>2, <1>3

\* All that were closed are whole.
AllFinished == \A r \in finished : Finished(r)

\* Every step keeps the finished reports, and adds a whole one or none.
LEMMA FinishedStep ==
  ASSUME TypeOK, Fills, Booked, Tidy, CalledBook, AllFinished, [Next]_vars
  PROVE  AllFinished'
  <1>1. \A r \in finished : Finished(r)'
    BY FinishedStays DEF AllFinished, Finished
  <1>2. finished' = finished \/ (Close /\ pc = "close" /\ finished' = finished \cup {reports} /\ reports' = reports)
    BY DEF Next, vars, files, inside, Create, SetCustomMetadata, Record, Finalize, FlushFullRow,
           FlushTraceRow, EndFlush, PrintFunctions, SaveMetadata, Close, Crash
  <1>3. CASE finished' = finished
    BY <1>1, <1>3 DEF AllFinished
  <1>4. CASE Close /\ pc = "close" /\ finished' = finished \cup {reports} /\ reports' = reports
    <2>1. Finished(reports)'
      BY <1>4, ClosedIsFinished
    <2>2. \A r \in finished' : Finished(r)'
      BY <1>1, <1>4, <2>1 DEF Finished
    <2> QED
      BY <2>2 DEF AllFinished
  <1> QED
    BY <1>2, <1>3, <1>4

\* A report that is finished is whole, in its file and in its metadata, whatever
\* the sizes of buffers and rows, and whatever process died before or after.
THEOREM FinishedIsWhole == Spec => []FinishedReportIsWhole
  <1>1. Init => AllFinished
    BY DEF Init, AllFinished
  <1>2. AllFinished => FinishedReportIsWhole
    BY DEF AllFinished, Finished, EndLines, FinishedReportIsWhole
  <1>3. TypeOK /\ Tidy /\ [Next]_vars => Tidy'
    BY TidyStep
  <1>4. TypeOK /\ Fills /\ Booked /\ Tidy /\ CalledBook /\ [Next]_vars => CalledBook'
    BY CalledStep
  <1>5. TypeOK /\ Fills /\ Booked /\ Tidy /\ CalledBook /\ AllFinished /\ [Next]_vars
          => AllFinished'
    BY FinishedStep
  <1> QED
    BY <1>1, <1>2, <1>3, <1>4, <1>5, TypeInit, TypeStep, FillsInit, FillsStep, BookedInit,
       BookedStep, TidyInit, CalledInit, PTL DEF Spec
=============================================================================
