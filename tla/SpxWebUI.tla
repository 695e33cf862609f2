------------------------------- MODULE SpxWebUI -------------------------------
(***************************************************************************)
(* What the web UI answers, http_ui_handler_shutdown of src/src/php_spx.c, *)
(* from a data directory that other processes write to meanwhile.  These   *)
(* are abstract here, ReportFiles, which SpxReporter implements; someone   *)
(* may remove the files of reports that have no writer.                    *)
(*                                                                         *)
(* One request is answered at a time: answers share nothing but files that *)
(* they only read.                                                         *)
(***************************************************************************)
EXTENDS Integers, Sequences, FiniteSets

CONSTANTS
  Reports,
  MetricKeys,      \* a sequence, in the order of SPX_METRIC_FOREACH
  Places,          \* what a path under the assets directory leads to
  Chunk,           \* bytes read_stream_content reads at once, 8192
  MaxLength,       \* bound: the bytes of a report
  MaxAnswers       \* bound: the requests

ASSUME WebAssumption ==
  /\ IsFiniteSet(Reports)
  /\ MetricKeys \in Seq(STRING)
  /\ Places \subseteq {"file", "dir", "link", "outside", "missing"}
  /\ Chunk \in Nat \ {0} /\ {MaxLength, MaxAnswers} \subseteq Nat

VARIABLES
  writing, whole, metadata,  \* of ReportFiles
  length,      \* report |-> the bytes in its file
  flushed,     \* the cut metadata files that stdio has put some bytes into
  removed,     \* the reports whose files were removed
  pc,          \* "wait", "list", "measure", "send"; "done" with an answer
  uri,         \* what is asked for
  status,      \* 200, 404, or 0 while no header was sent
  promised, sent,  \* Content-Length; the bytes of the body
  position,    \* of the stream of the file
  out,         \* the pieces of a JSON array
  count,       \* the entries that the callback was called for
  seen, due,   \* the entries read; those there when the directory was opened
  ready,       \* history: those of due that were saved then
  broken,      \* history: an entry was gone, or not saved, when it was read
  settled,     \* history: the file had no writer when the request came
  answers

files  == <<writing, whole, metadata, length, flushed, removed>>
body   == <<promised, sent, position>>
list   == <<out, count, seen, due, ready, broken>>
vars   == <<files, pc, uri, status, body, list, settled, answers>>

Files == INSTANCE ReportFiles

\* SPX_UI_URI; "/" and nothing stand for the asset /index.html.
Uris ==
  [kind : {"relative", "metrics", "list"}] \cup [kind : {"metadata", "report"}, report : Reports]
    \cup [kind : {"asset"}, place : Places]

Init ==
  /\ Files!Init
  /\ length = [r \in Reports |-> 0] /\ flushed = {} /\ removed = {}
  /\ pc = "wait" /\ uri = [kind |-> "relative"] /\ status = 0
  /\ promised = 0 /\ sent = 0 /\ position = 0
  /\ out = <<>> /\ count = 0 /\ seen = {} /\ due = {} /\ ready = {} /\ broken = FALSE
  /\ settled = FALSE /\ answers = 0

-----------------------------------------------------------------------------
(* The data directory. *)

\* Which files are there.
HasMetadata == {r \in Reports \ removed : metadata[r] # "absent"}
HasRows     == {r \in Reports \ removed : r \in writing \cup whole \/ length[r] > 0}

\* Whose metadata are complete.
SavedMetadata == {r \in HasMetadata : metadata[r] = "saved"}

\* The bytes of a metadata file: metadata_save writes through the buffer of a
\* stream, so that the file is empty, then cut, until it is closed.
MetadataLength(r) ==
  IF metadata[r] = "saved" THEN 2 ELSE IF r \in flushed THEN 1 ELSE 0

\* stdio writes a part of what it was given.
FlushRows(r) ==
  /\ r \in writing /\ length[r] < MaxLength
  /\ length' = [length EXCEPT ![r] = @ + 1]
  /\ UNCHANGED <<writing, whole, metadata, flushed>>

FlushMetadata(r) ==
  /\ r \in writing /\ metadata[r] = "cut"
  /\ flushed' = flushed \cup {r}
  /\ UNCHANGED <<writing, whole, metadata, length>>

Writers ==
  /\ \E r \in Reports \ removed :
       \/ /\ Files!Step(r)
          /\ flushed' = {q \in flushed : metadata'[q] = "cut"}
          /\ UNCHANGED length
       \/ FlushRows(r)
       \/ FlushMetadata(r)
  /\ UNCHANGED <<removed, pc, uri, status, body, list, settled, answers>>

Remove ==
  /\ \E r \in (HasMetadata \cup HasRows) \ writing : removed' = removed \cup {r}
  /\ UNCHANGED <<writing, whole, metadata, length, flushed, pc, uri, status, body, list, settled, answers>>

-----------------------------------------------------------------------------
(* The request is routed. *)

\* spx_validate_path refuses what is a link or leads out of the directory; only
\* the assets are asked for with SPX_PATH_MUST_EXIST and _MUST_BE_FILE.
ValidPath(place, must) == place \in {"file"} \cup (IF must THEN {} ELSE {"dir", "missing"})

Answer(code) == pc' = "done" /\ status' = code

NotFound == Answer(404) /\ UNCHANGED <<body, list>>

\* http_ui_handler_data: /data/metrics
Separator == [is |-> "comma", of |-> "nothing"]
Element(is, of) == [is |-> is, of |-> of]

\* SPX_METRIC_FOREACH: a comma before every metric but the first.
Separated(keys) ==
  [i \in 1 .. 2 * Len(keys) - 1 |->
     IF i % 2 = 1 THEN Element("metric", keys[(i + 1) \div 2]) ELSE Separator]

ListMetrics ==
  /\ Answer(200)
  /\ out' = Separated(MetricKeys)
  /\ UNCHANGED <<body, count, seen, due, ready, broken>>

\* opendir
OpenDirectory ==
  /\ pc' = "list" /\ status' = 200
  /\ due' = HasMetadata /\ ready' = SavedMetadata
  /\ UNCHANGED <<body, out, count, seen, broken>>

\* fopen of http_ui_handler_output_file, which a file that may be missing fails.
Fetch(place, must) ==
  IF ValidPath(place, must) /\ place # "missing"
  THEN pc' = "measure" /\ UNCHANGED <<status, body, list>>
  ELSE NotFound

InDataDir(there) == IF there THEN "file" ELSE "missing"

\* Nothing will change any more in the file asked for.
Settled(u) ==
  \/ u.kind = "report"   /\ u.report \in whole \ removed
  \/ u.kind = "metadata" /\ u.report \in SavedMetadata
  \/ u.kind = "asset"    /\ u.place = "file"

Receive(u) ==
  /\ pc = "wait" /\ answers < MaxAnswers
  /\ uri' = u /\ answers' = answers + 1 /\ settled' = Settled(u)
  /\ \/ u.kind = "relative" /\ NotFound
     \/ u.kind = "metrics"  /\ ListMetrics
     \/ u.kind = "list"     /\ OpenDirectory
     \/ u.kind = "metadata" /\ Fetch(InDataDir(u.report \in HasMetadata), FALSE)
     \/ u.kind = "report"   /\ Fetch(InDataDir(u.report \in HasRows), FALSE)
     \/ u.kind = "asset"    /\ Fetch(u.place, TRUE)
  /\ UNCHANGED files

-----------------------------------------------------------------------------
(* The list of reports: spx_reporter_full_metadata_list_files with             *)
(* http_ui_handler_list_metadata_files_callback.                               *)

\* Mutant: a comma after each entry.
CommaAfter(n) == <<Separator>>

\* What comes before an entry when n came before.
Comma(n) == IF n > 0 THEN <<Separator>> ELSE <<>>

\* What is copied from r's file after it: nothing if it cannot be opened, or has
\* no bytes yet; the metadata; or as much of them as there is.
Copied(r) ==
  IF r \in HasMetadata /\ MetadataLength(r) > 0 THEN <<Element(metadata[r], r)>> ELSE <<>>

\* readdir may still give a file that is gone, and one that is new.
ListEntry(r) ==
  /\ pc = "list" /\ r \in (due \cup HasMetadata) \ seen
  /\ seen' = seen \cup {r} /\ count' = count + 1
  /\ out' = out \o Comma(count) \o Copied(r)
  /\ broken' = (broken \/ r \notin SavedMetadata)
  /\ UNCHANGED <<files, pc, uri, status, body, due, ready, settled, answers>>

\* It gives all that were there all the time.
EndList ==
  /\ pc = "list" /\ due \cap HasMetadata \subseteq seen
  /\ pc' = "done"
  /\ UNCHANGED <<files, uri, status, body, list, settled, answers>>

-----------------------------------------------------------------------------
(* A file: http_ui_handler_output_file, read_stream_content.  An open file      *)
(* stays readable when it is removed.                                           *)

Length ==
  IF uri.kind = "report" THEN length[uri.report]
  ELSE IF uri.kind = "metadata" THEN MetadataLength(uri.report) ELSE MaxLength

\* Mutant: the file is read from where its length was taken.
AtItsEnd == Length

\* Where the file is read from: rewind.
Rewound == 0

\* A regular file can be sought.
Measure ==
  /\ pc = "measure"
  /\ pc' = "send" /\ status' = 200
  /\ promised' = Length /\ position' = Rewound
  /\ UNCHANGED <<files, uri, sent, list, settled, answers>>

\* One turn of the loop; a short read ends it.
Send ==
  LET left == Length - position
      read == IF left < Chunk THEN left ELSE Chunk
  IN  /\ pc = "send"
      /\ position' = position + read /\ sent' = sent + read
      /\ pc' = IF read < Chunk THEN "done" ELSE "send"
      /\ UNCHANGED <<files, uri, status, promised, list, settled, answers>>

-----------------------------------------------------------------------------

\* The answer is complete; the next request starts with nothing.
Finish ==
  /\ pc = "done"
  /\ pc' = "wait" /\ uri' = [kind |-> "relative"] /\ status' = 0
  /\ promised' = 0 /\ sent' = 0 /\ position' = 0
  /\ out' = <<>> /\ count' = 0 /\ seen' = {} /\ due' = {} /\ ready' = {}
  /\ broken' = FALSE
  /\ settled' = FALSE
  /\ UNCHANGED <<files, answers>>

Next ==
  \/ Writers \/ Remove
  \/ \E u \in Uris : Receive(u)
  \/ \E r \in Reports : ListEntry(r)
  \/ EndList
  \/ Measure \/ Send
  \/ Finish

Spec == Init /\ [][Next]_vars
=============================================================================
