----------------------------- MODULE SpxWebReport -----------------------------
(* The correctness properties of SpxWebUI. *)
EXTENDS SpxWebUI

Entries == {i \in DOMAIN out : out[i].is # "comma"}

\* The metadata of a report, then a comma and those of another, and so on; cut
\* metadata are no value.
IsArray ==
  /\ out = <<>> \/ Len(out) % 2 = 1
  /\ \A i \in DOMAIN out : out[i].is = IF i % 2 = 1 THEN "saved" ELSE "comma"

\* Where r is in the list, whole or in part, and where it is whole.
Listed(r) == {i \in Entries : out[i].of = r}
Told(r)   == {i \in Listed(r) : out[i].is = "saved"}

\* However many processes save and remove reports meanwhile, the list of reports
\* tells of none twice, and of every report in full whose metadata were saved
\* when it was asked for and are still there.  The answer is an array just when
\* each file was there and saved when its turn came (or there was but one, and
\* without a byte), and then it tells of all that had a file: one that is gone,
\* empty or cut leaves a comma alone, or a part of its metadata, and no JSON.
\* (php_spx.c, http_ui_handler_list_metadata_files_callback;
\* spx_reporter_full.c, metadata_save.)
ListIsWhole ==
  pc = "done" /\ uri.kind = "list" =>
    /\ IsArray <=> ~broken \/ out = <<>>
    /\ \A r \in Reports : Cardinality(Listed(r)) <= 1
    /\ \A r \in due \cap HasMetadata : r \in ready \/ ~broken => Told(r) # {}

\* The body of a file is at least as long as was promised, also while the file
\* grows, and a report that was closed, or metadata that was saved, is sent as it
\* is, unless it is gone when it is opened.  (php_spx.c,
\* http_ui_handler_output_file, read_stream_content.)
FetchIsWhole ==
  pc = "done" /\ uri.kind \in {"report", "metadata", "asset"} =>
    /\ status = 200 => sent >= promised
    /\ settled => status = 200 /\ promised = Length /\ sent = Length
=============================================================================
