----------------------------- MODULE SpxWebProofs -----------------------------
(***************************************************************************)
(* What the web UI answers is right for any number of reports, of any      *)
(* length, however others write and remove them, and for any size of the   *)
(* chunks it reads.                                                        *)
(***************************************************************************)
EXTENDS SpxWebReport, FiniteSetTheorems, TLAPS

Stages == {"absent", "cut", "saved"}
Kinds  == {"relative", "metrics", "list", "metadata", "report", "asset"}

\* What a piece of the list of reports is.
Pieces == [is : Stages \cup {"comma"}, of : Reports \cup {"nothing"}]

\* The files: a report that was closed has no writer any more.
FilesInv ==
  /\ writing \subseteq Reports /\ whole \subseteq Reports
  /\ metadata \in [Reports -> Stages] /\ length \in [Reports -> Nat]
  /\ writing \cap whole = {}
  /\ flushed \subseteq Reports /\ \A r \in flushed : metadata[r] = "cut"

Fetching == uri.kind \in {"report", "metadata", "asset"}

\* Which request is where.
ControlInv ==
  /\ pc \in {"wait", "list", "measure", "send", "done"}
  /\ uri.kind \in Kinds
  /\ uri.kind \in {"report", "metadata"} => uri.report \in Reports
  /\ settled \in BOOLEAN /\ broken \in BOOLEAN
  /\ pc = "list" => uri.kind = "list"
  /\ pc \in {"measure", "send"} => Fetching
  /\ pc = "wait" => out = <<>> /\ count = 0 /\ seen = {} /\ due = {} /\ ~broken
  /\ pc \in {"wait", "measure"} => sent = 0

Listing == pc \in {"list", "done"} /\ uri.kind = "list"

\* The pieces that n entries make: a comma before every one but the first.
ListLength(n) == IF n = 0 THEN 0 ELSE 2 * n - 1

\* The entries are those of reports in s, each once.
OnceEach(o, s) ==
  /\ \A i \in DOMAIN o : o[i].is # "comma" => o[i].of \in s
  /\ \A i, j \in DOMAIN o :
       o[i].is # "comma" /\ o[j].is # "comma" /\ o[i].of = o[j].of => i = j

Tells(o, r) == \E i \in DOMAIN o : o[i] = Element("saved", r)

Alternating(o) ==
  \A i \in DOMAIN o : o[i].is = IF i % 2 = 1 THEN "saved" ELSE "comma"

\* What no array has in it: cut metadata, or a comma after no entry.  This stays
\* whatever follows; a comma at the end is a flaw that the next comma makes one
\* to stay.
Spoilt(o) ==
  \E i \in DOMAIN o :
    \/ o[i].is = "cut"
    \/ o[i].is = "comma" /\ (i = 1 \/ o[i - 1].is = "comma")

Flawed(o) == Spoilt(o) \/ (o # <<>> /\ o[Len(o)].is = "comma")

\* The list of reports while it grows: an array as long as each entry was saved,
\* and none any more since one was not.
ListInv ==
  Listing =>
    /\ seen \subseteq Reports /\ due \subseteq Reports
    /\ \A r \in due : metadata[r] # "absent"
    /\ ready \subseteq due /\ \A r \in ready : metadata[r] = "saved"
    /\ count \in Nat /\ out \in Seq(Pieces)
    /\ pc = "done" => due \cap HasMetadata \subseteq seen
    /\ OnceEach(out, seen)
    /\ \A r \in (seen \cap ready) \ removed : Tells(out, r)
    /\ broken => count > 0 /\ (Flawed(out) \/ out = <<>>)
    /\ ~broken => /\ Len(out) = ListLength(count) /\ Alternating(out)
                  /\ \A r \in seen : Tells(out, r)

\* What is settled stays: neither rows nor metadata are added to.
SettledInv ==
  settled /\ pc \in {"measure", "send", "done"} =>
    /\ uri.kind = "report"   => uri.report \in whole
    /\ uri.kind = "metadata" => metadata[uri.report] = "saved"

\* The file while it is sent, and when it was.
SendInv ==
  /\ pc = "send" =>
       /\ status = 200 /\ position = sent /\ sent \in Nat /\ sent <= Length
       /\ promised \in Nat /\ promised <= Length
       /\ settled => promised = Length
  /\ pc = "done" /\ Fetching =>
       /\ settled => status = 200
       /\ status = 200 =>
            /\ sent \in Nat /\ promised \in Nat /\ sent >= promised
            /\ settled => promised = Length /\ sent = Length

\* The invariant that each step preserves.
WebInv == FilesInv /\ ControlInv /\ ListInv /\ SettledInv /\ SendInv

-----------------------------------------------------------------------------
(* The files, to which the writers only add. *)

LEMMA InitInv == Init => WebInv
<1> SUFFICES ASSUME Init PROVE WebInv
  OBVIOUS
<1> USE DEF Init, Files!Init
<1>1. FilesInv
  BY DEF FilesInv, Stages
<1>2. ControlInv
  BY DEF ControlInv, Kinds
<1>3. ListInv /\ SettledInv /\ SendInv
  BY DEF ListInv, Listing, SettledInv, SendInv, Fetching
<1>. QED
  BY <1>1, <1>2, <1>3 DEF WebInv

\* What is written in a report that has a writer, and in no other.
Added ==
  /\ removed' = removed
  /\ whole \subseteq whole'
  /\ \A r \in Reports :
       /\ metadata[r] # "absent" => metadata'[r] # "absent"
       /\ metadata[r] = "saved" => metadata'[r] = "saved"
       /\ r \in flushed => r \in flushed' \/ metadata'[r] = "saved"
       /\ length[r] <= length'[r]
       /\ r \in whole => length'[r] = length[r]

LEMMA WritersAdd ==
  ASSUME FilesInv, Writers
  PROVE  FilesInv' /\ Added /\ UNCHANGED <<pc, uri, status, body, list, settled, answers>>
<1>0. PICK r \in Reports \ removed :
        \/ /\ Files!Step(r)
           /\ flushed' = {q \in flushed : metadata'[q] = "cut"}
           /\ UNCHANGED length
        \/ FlushRows(r)
        \/ FlushMetadata(r)
  BY DEF Writers
<1>1. UNCHANGED <<removed, pc, uri, status, body, list, settled, answers>>
  BY DEF Writers
<1>2. CASE /\ Files!Step(r)
           /\ flushed' = {q \in flushed : metadata'[q] = "cut"}
           /\ UNCHANGED length
  <2>1. CASE Files!Create(r)
    BY <1>1, <1>2, <2>1 DEF Files!Create, FilesInv, Added, Stages
  <2>2. CASE Files!OpenMetadata(r)
    BY <1>1, <1>2, <2>2 DEF Files!OpenMetadata, FilesInv, Added, Stages
  <2>3. CASE Files!SaveMetadata(r)
    BY <1>1, <1>2, <2>3 DEF Files!SaveMetadata, FilesInv, Added, Stages
  <2>4. CASE Files!Close(r)
    BY <1>1, <1>2, <2>4 DEF Files!Close, FilesInv, Added, Stages
  <2>5. CASE Files!Abandon(r)
    BY <1>1, <1>2, <2>5 DEF Files!Abandon, FilesInv, Added, Stages
  <2>. QED
    BY <1>2, <2>1, <2>2, <2>3, <2>4, <2>5 DEF Files!Step
<1>3. CASE FlushRows(r)
  BY <1>1, <1>3 DEF FlushRows, FilesInv, Added, Stages
<1>4. CASE FlushMetadata(r)
  <2>1. \A q \in Reports : length[q] <= length'[q]
    BY <1>4 DEF FlushMetadata, FilesInv
  <2>. QED
    BY <1>1, <1>4, <2>1 DEF FlushMetadata, FilesInv, Added, Stages
<1>. QED
  BY <1>0, <1>2, <1>3, <1>4

\* What is sent of a file that others add to, or remove.
Answering == <<pc, uri, status, promised, sent, position, out, count, seen, due, ready, broken, settled>>

LEMMA SharedFiles ==
  ASSUME WebInv, Writers \/ Remove
  PROVE  /\ FilesInv' /\ UNCHANGED Answering /\ removed \subseteq removed'
         /\ whole \subseteq whole'
         /\ \A r \in Reports :
              /\ metadata[r] # "absent" => metadata'[r] # "absent"
              /\ metadata[r] = "saved" => metadata'[r] = "saved"
              /\ r \in flushed => r \in flushed' \/ metadata'[r] = "saved"
              /\ length[r] <= length'[r]
              /\ r \in whole => length'[r] = length[r]
<1>1. CASE Writers
  BY <1>1, WritersAdd DEF WebInv, Added, Answering, body, list
<1>2. CASE Remove
  <2>1. \A r \in Reports : length[r] \in Nat
    BY DEF WebInv, FilesInv
  <2>. QED
    BY <1>2, <2>1 DEF Remove, WebInv, FilesInv, Answering, body, list
<1>. QED
  BY <1>1, <1>2

LEMMA LengthIsNat ==
  ASSUME FilesInv, ControlInv
  PROVE  Length \in Nat
  BY WebAssumption DEF FilesInv, ControlInv, Length, MetadataLength

\* A file only grows, and not at all when that was settled.
LEMMA LengthGrows ==
  ASSUME WebInv, Writers \/ Remove
  PROVE  /\ Length <= Length'
         /\ settled /\ pc \in {"measure", "send", "done"} => Length' = Length
<1> USE DEF Length, MetadataLength
<1>1. uri' = uri
  BY SharedFiles DEF Answering
<1>2. CASE uri.kind = "report"
  <2>1. uri.report \in Reports
    BY <1>2 DEF WebInv, ControlInv
  <2>2. length[uri.report] <= length'[uri.report]
    BY <2>1, SharedFiles
  <2>3. uri.report \in whole => length'[uri.report] = length[uri.report]
    BY <2>1, SharedFiles
  <2>. QED
    BY <1>1, <1>2, <2>2, <2>3 DEF WebInv, SettledInv
<1>3. CASE uri.kind = "metadata"
  <2>1. uri.report \in Reports
    BY <1>3 DEF WebInv, ControlInv
  <2>2. /\ metadata[uri.report] = "saved" => metadata'[uri.report] = "saved"
        /\ uri.report \in flushed
             => uri.report \in flushed' \/ metadata'[uri.report] = "saved"
    BY <2>1, SharedFiles
  <2>. QED
    BY <1>1, <1>3, <2>2 DEF WebInv, SettledInv
<1>4. CASE uri.kind \notin {"report", "metadata"}
  BY <1>1, <1>4, WebAssumption
<1>. QED
  BY <1>2, <1>3, <1>4

LEMMA SharedKeeps ==
  ASSUME WebInv, Writers \/ Remove
  PROVE  WebInv'
<1>1. FilesInv' /\ UNCHANGED Answering
  BY SharedFiles
<1>2. ControlInv'
  BY <1>1 DEF WebInv, ControlInv, Fetching, Answering
<1>3. ListInv'
  <2> SUFFICES ASSUME Listing' PROVE ListInv'
    BY DEF ListInv
  <2>1. Listing
    BY <1>1 DEF Listing, Answering
  <2>2. \A r \in due' : metadata'[r] # "absent"
    BY <1>1, <2>1, SharedFiles DEF WebInv, ListInv, Answering
  <2>3. due' \cap HasMetadata' \subseteq due \cap HasMetadata
    BY <1>1, <2>1, SharedFiles DEF WebInv, ListInv, HasMetadata, Answering
  <2>4. pc' = "done" => due' \cap HasMetadata' \subseteq seen'
    BY <1>1, <2>1, <2>3 DEF WebInv, ListInv, Answering
  <2>5. \A r \in ready' : metadata'[r] = "saved"
    BY <1>1, <2>1, SharedFiles DEF WebInv, ListInv, Answering
  <2>6. \A r \in (seen' \cap ready') \ removed' : Tells(out', r)
    BY <1>1, <2>1, SharedFiles DEF WebInv, ListInv, Answering
  <2>. QED
    BY <1>1, <2>1, <2>2, <2>4, <2>5, <2>6 DEF WebInv, ListInv, Answering
<1>4. SettledInv'
  <2> SUFFICES ASSUME settled', pc' \in {"measure", "send", "done"}
               PROVE  /\ uri'.kind = "report" => uri'.report \in whole'
                      /\ uri'.kind = "metadata" => metadata'[uri'.report] = "saved"
    BY DEF SettledInv
  <2>1. settled /\ pc \in {"measure", "send", "done"} /\ uri' = uri
    BY <1>1 DEF Answering
  <2>2. CASE uri.kind = "report"
    BY <2>1, <2>2, SharedFiles DEF WebInv, SettledInv
  <2>3. CASE uri.kind = "metadata"
    BY <2>1, <2>3, SharedFiles DEF WebInv, SettledInv, ControlInv
  <2>. QED
    BY <2>1, <2>2, <2>3
<1>5. SendInv'
  <2>1. Length \in Nat /\ Length' \in Nat
    <3>1. Length \in Nat
      BY LengthIsNat DEF WebInv
    <3>2. Length' \in Nat
      BY <1>1, <1>2, WebAssumption DEF FilesInv, ControlInv, Length, MetadataLength
    <3>. QED
      BY <3>1, <3>2
  <2>2. /\ Length <= Length'
        /\ settled /\ pc \in {"measure", "send", "done"} => Length' = Length
    BY LengthGrows
  <2> HIDE DEF Length
  <2>3. UNCHANGED <<pc, status, promised, sent, position, settled>> /\ (Fetching' <=> Fetching)
    BY <1>1 DEF Answering, Fetching
  <2>. QED
    BY <2>1, <2>2, <2>3 DEF WebInv, SendInv
<1>. QED
  BY <1>1, <1>2, <1>3, <1>4, <1>5 DEF WebInv

-----------------------------------------------------------------------------
(* The request is routed. *)

LEMMA ReceiveKeeps ==
  ASSUME WebInv, NEW u \in Uris, Receive(u)
  PROVE  WebInv'
<1>0. pc = "wait" /\ uri' = u /\ settled' = Settled(u) /\ UNCHANGED files
  BY DEF Receive
<1>1. FilesInv'
  BY <1>0 DEF WebInv, FilesInv, files
<1>2. /\ u.kind \in Kinds /\ (u.kind \in {"report", "metadata"} => u.report \in Reports)
      /\ (u.kind = "asset" => u.place \in Places)
  BY DEF Uris, Kinds
<1>3. sent = 0 /\ out = <<>> /\ count = 0 /\ seen = {} /\ due = {} /\ broken = FALSE
  BY <1>0 DEF WebInv, ControlInv
<1>4. settled' \in BOOLEAN
  BY <1>0 DEF Settled
<1>5. CASE u.kind \in {"relative", "metrics"}
  <2>1. pc' = "done" /\ UNCHANGED broken
    BY <1>5 DEF Receive, NotFound, Answer, ListMetrics, list
  <2>2. ControlInv'
    BY <1>0, <1>2, <1>3, <1>4, <1>5, <2>1 DEF ControlInv, Fetching
  <2>3. ~settled'
    BY <1>0, <1>5 DEF Settled
  <2>4. ListInv' /\ SettledInv' /\ SendInv'
    BY <1>0, <1>3, <1>5, <2>1, <2>3 DEF ListInv, Listing, SettledInv, SendInv, Fetching
  <2>. QED
    BY <1>1, <2>2, <2>4 DEF WebInv
<1>6. CASE u.kind = "list"
  <2>1. /\ pc' = "list" /\ due' = HasMetadata /\ ready' = SavedMetadata
        /\ UNCHANGED <<promised, sent, position, out, count, seen, broken>>
    BY <1>6 DEF Receive, OpenDirectory, body
  <2>2. ControlInv'
    BY <1>0, <1>2, <1>3, <1>4, <1>6, <2>1 DEF ControlInv, Fetching
  <2>3. /\ \A r \in due' : metadata'[r] # "absent"
        /\ ready' \subseteq due' /\ \A r \in ready' : metadata'[r] = "saved"
    BY <1>0, <2>1 DEF SavedMetadata, HasMetadata, files
  <2>4. OnceEach(<<>>, {}) /\ Alternating(<<>>)
    BY DEF OnceEach, Alternating
  <2>5. ListInv'
    BY <1>3, <2>1, <2>3, <2>4 DEF ListInv, ListLength, HasMetadata
  <2>6. SettledInv' /\ SendInv'
    BY <2>1 DEF SettledInv, SendInv
  <2>. QED
    BY <1>1, <2>2, <2>5, <2>6 DEF WebInv
<1>7. CASE u.kind \in {"metadata", "report", "asset"}
  <2>1. PICK place \in {"file", "dir", "link", "outside", "missing"}, must \in BOOLEAN :
          /\ Fetch(place, must)
          /\ settled' => place = "file"
    <3>1. CASE u.kind = "metadata"
      BY <1>0, <1>7, <3>1 DEF Receive, InDataDir, Settled, SavedMetadata
    <3>2. CASE u.kind = "report"
      <4>1. Fetch(InDataDir(u.report \in HasRows), FALSE)
        BY <3>2 DEF Receive
      <4>2. u.report \in whole \ removed => u.report \in HasRows
        BY <1>2, <3>2 DEF HasRows
      <4>. QED
        BY <1>0, <3>2, <4>1, <4>2 DEF InDataDir, Settled
    <3>3. CASE u.kind = "asset"
      BY <1>0, <1>2, <1>7, <3>3, WebAssumption DEF Receive, Settled
    <3>. QED
      BY <1>7, <3>1, <3>2, <3>3
  <2>2. /\ \/ pc' = "measure"
           \/ pc' = "done" /\ status' = 404 /\ ~settled'
        /\ UNCHANGED <<promised, sent, position, out, count, seen, due, ready, broken>>
    <3>1. CASE ValidPath(place, must) /\ place # "missing"
      <4>1. pc' = "measure" /\ UNCHANGED <<body, list>>
        BY <2>1, <3>1 DEF Fetch
      <4>. QED
        BY <4>1 DEF body, list
    <3>2. CASE ~(ValidPath(place, must) /\ place # "missing")
      <4>1. place # "file"
        BY <3>2 DEF ValidPath
      <4>. QED
        BY <1>4, <2>1, <3>2, <4>1 DEF Fetch, NotFound, Answer, body, list
    <3>. QED
      BY <3>1, <3>2
  <2>3. ControlInv'
    BY <1>0, <1>2, <1>3, <1>4, <1>7, <2>2 DEF ControlInv, Fetching, Kinds
  <2>4. ListInv' /\ SendInv'
    BY <1>0, <1>3, <1>7, <2>2 DEF ListInv, Listing, SendInv
  <2>5. SettledInv'
    BY <1>0, <1>7 DEF SettledInv, Settled, SavedMetadata, files
  <2>. QED
    BY <1>1, <2>3, <2>4, <2>5 DEF WebInv
<1>. QED
  BY <1>2, <1>5, <1>6, <1>7 DEF Kinds

-----------------------------------------------------------------------------
(* The list of reports. *)

LEMMA PieceFacts ==
  /\ Separator \in Pieces /\ Separator.is = "comma"
  /\ \A m \in Stages, r \in Reports :
       Element(m, r) \in Pieces /\ Element(m, r).is = m /\ Element(m, r).of = r
  BY DEF Separator, Element, Pieces

LEMMA AppendFacts ==
  ASSUME NEW m \in Seq(Pieces), NEW e \in Pieces
  PROVE  /\ m \o <<e>> \in Seq(Pieces) /\ Len(m \o <<e>>) = Len(m) + 1
         /\ (m \o <<e>>)[Len(m) + 1] = e
         /\ \A i \in 1 .. Len(m) : (m \o <<e>>)[i] = m[i]
  OBVIOUS

\* The list o after the n-th entry, of which t was copied.
Grown(o, n, t) == o \o Comma(n) \o t

LEMMA CommaFacts ==
  ASSUME NEW o \in Seq(Pieces), NEW n \in Nat
  PROVE  /\ n = 0 => o \o Comma(n) = o
         /\ n > 0 => o \o Comma(n) = o \o <<Separator>>
         /\ o \o Comma(n) \in Seq(Pieces)
<1>1. CASE n = 0
  BY <1>1 DEF Comma
<1>2. CASE n > 0
  <2>1. Comma(n) = <<Separator>>
    BY <1>2 DEF Comma
  <2>. QED
    BY <1>2, <2>1, PieceFacts, AppendFacts
<1>. QED
  BY <1>1, <1>2

LEMMA GrownFacts ==
  ASSUME NEW o \in Seq(Pieces), NEW n \in Nat, NEW t
  PROVE  /\ t = <<>> => Grown(o, n, t) = o \o Comma(n)
         /\ \A e : t = <<e>> => Grown(o, n, t) = (o \o Comma(n)) \o <<e>>
<1>1. o \o Comma(n) \in Seq(Pieces)
  BY CommaFacts
<1> DEFINE m == o \o Comma(n)
<1>2. Grown(o, n, t) = m \o t
  BY DEF Grown
<1> HIDE DEF m
<1>3. m \in Seq(Pieces)
  BY <1>1 DEF m
<1>4. m \o <<>> = m
  BY <1>3
<1>5. t = <<>> => Grown(o, n, t) = m
  BY <1>2, <1>4
<1>6. \A e : t = <<e>> => Grown(o, n, t) = m \o <<e>>
  BY <1>2
<1>. QED
  BY <1>5, <1>6 DEF m

\* The places of a list with one more piece.
LEMMA OneMore ==
  ASSUME NEW o \in Seq(Pieces), NEW e \in Pieces
  PROVE  /\ DOMAIN o = 1 .. Len(o) /\ Len(o) \in Nat
         /\ DOMAIN (o \o <<e>>) = 1 .. Len(o) + 1
         /\ DOMAIN (o \o <<e>>) = DOMAIN o \cup {Len(o) + 1} /\ Len(o) + 1 \notin DOMAIN o
<1>1. DOMAIN o = 1 .. Len(o) /\ Len(o) \in Nat
  OBVIOUS
<1>2. DOMAIN (o \o <<e>>) = 1 .. Len(o) + 1
  BY AppendFacts
<1>3. 1 .. Len(o) + 1 = 1 .. Len(o) \cup {Len(o) + 1} /\ Len(o) + 1 \notin 1 .. Len(o)
  BY <1>1
<1>. QED
  BY <1>1, <1>2, <1>3

LEMMA OnceEachComma ==
  ASSUME NEW o \in Seq(Pieces), NEW s, OnceEach(o, s)
  PROVE  OnceEach(o \o <<Separator>>, s)
  BY OneMore, AppendFacts, PieceFacts DEF OnceEach

LEMMA OnceEachElement ==
  ASSUME NEW o \in Seq(Pieces), NEW s, OnceEach(o, s), NEW e \in Pieces, e.of \notin s
  PROVE  OnceEach(o \o <<e>>, s \cup {e.of})
<1> DEFINE new == o \o <<e>>
<1>1. /\ DOMAIN new = DOMAIN o \cup {Len(o) + 1} /\ Len(o) + 1 \notin DOMAIN o
      /\ new[Len(o) + 1] = e /\ \A i \in DOMAIN o : new[i] = o[i]
  BY OneMore, AppendFacts
<1> HIDE DEF new
<1>2. OnceEach(new, s \cup {e.of})
  BY <1>1 DEF OnceEach
<1>. QED
  BY <1>2 DEF new

LEMMA TellsStays ==
  ASSUME NEW o \in Seq(Pieces), NEW e \in Pieces, NEW r, Tells(o, r)
  PROVE  Tells(o \o <<e>>, r)
  BY OneMore, AppendFacts DEF Tells

LEMMA TellsLast ==
  ASSUME NEW o \in Seq(Pieces), NEW r \in Reports
  PROVE  Tells(o \o <<Element("saved", r)>>, r)
<1>1. Element("saved", r) \in Pieces
  BY PieceFacts DEF Stages
<1>. QED
  BY <1>1, OneMore, AppendFacts DEF Tells

LEMMA SpoiltStays ==
  ASSUME NEW o \in Seq(Pieces), NEW e \in Pieces, Spoilt(o)
  PROVE  Spoilt(o \o <<e>>)
<1> DEFINE new == o \o <<e>>
<1>1. PICK i \in 1 .. Len(o) : \/ o[i].is = "cut"
                               \/ o[i].is = "comma" /\ (i = 1 \/ o[i - 1].is = "comma")
  BY OneMore DEF Spoilt
<1>2. /\ i \in DOMAIN new /\ new[i] = o[i]
      /\ i # 1 => i - 1 \in 1 .. Len(o) /\ new[i - 1] = o[i - 1]
  BY <1>1, OneMore, AppendFacts
<1> HIDE DEF new
<1>3. Spoilt(new)
  BY <1>1, <1>2 DEF Spoilt
<1>. QED
  BY <1>3 DEF new

\* A comma after no entry spoils the list.
LEMMA CommaSpoils ==
  ASSUME NEW o \in Seq(Pieces), Flawed(o) \/ o = <<>>
  PROVE  Spoilt(o \o <<Separator>>)
<1> DEFINE new == o \o <<Separator>>
<1>0. /\ Separator \in Pieces /\ Separator.is = "comma"
      /\ Len(o) \in Nat /\ (o = <<>> <=> Len(o) = 0)
  BY PieceFacts
<1>1. /\ DOMAIN new = 1 .. Len(o) + 1 /\ new[Len(o) + 1].is = "comma"
      /\ \A i \in 1 .. Len(o) : new[i] = o[i]
  BY <1>0, OneMore, AppendFacts
<1>2. CASE o = <<>>
  <2>1. 1 \in DOMAIN new /\ new[1].is = "comma"
    BY <1>0, <1>1, <1>2
  <2> HIDE DEF new
  <2>2. Spoilt(new)
    BY <2>1 DEF Spoilt
  <2>. QED
    BY <2>2 DEF new
<1>3. CASE Spoilt(o)
  BY <1>0, <1>3, SpoiltStays
<1>4. CASE o # <<>> /\ o[Len(o)].is = "comma"
  <2> DEFINE i == Len(o) + 1
  <2>1. i \in DOMAIN new /\ new[i].is = "comma" /\ new[i - 1].is = "comma"
    BY <1>0, <1>1, <1>4
  <2> HIDE DEF new, i
  <2>2. Spoilt(new)
    BY <2>1 DEF Spoilt
  <2>. QED
    BY <2>2 DEF new
<1>. QED
  BY <1>2, <1>3, <1>4 DEF Flawed

-----------------------------------------------------------------------------

\* What an entry leaves of those before it.
LEMMA EntryAdds ==
  ASSUME NEW o \in Seq(Pieces), NEW n \in Nat, NEW m \in {"cut", "saved"},
         NEW r \in Reports, NEW t, t = <<>> \/ t = <<Element(m, r)>>,
         NEW s, OnceEach(o, s), r \notin s
  PROVE  /\ Grown(o, n, t) \in Seq(Pieces)
         /\ OnceEach(Grown(o, n, t), s \cup {r})
         /\ \A q : Tells(o, q) => Tells(Grown(o, n, t), q)
         /\ m = "saved" /\ t # <<>> => Tells(Grown(o, n, t), r)
<1> DEFINE c == o \o Comma(n)
<1>0. Element(m, r) \in Pieces /\ Element(m, r).of = r /\ Separator \in Pieces
  BY PieceFacts DEF Stages
<1>1. c \in Seq(Pieces) /\ OnceEach(c, s) /\ \A q : Tells(o, q) => Tells(c, q)
  <2>1. CASE n = 0
    <3>1. c = o
      BY <2>1, CommaFacts
    <3>. QED
      BY <3>1
  <2>2. CASE n > 0
    <3>1. c = o \o <<Separator>> /\ c \in Seq(Pieces)
      BY <2>2, CommaFacts
    <3>2. OnceEach(o \o <<Separator>>, s)
      BY OnceEachComma
    <3>3. \A q : Tells(o, q) => Tells(o \o <<Separator>>, q)
      BY <1>0, TellsStays
    <3>. QED
      BY <3>1, <3>2, <3>3
  <2>. QED
    BY <2>1, <2>2
<1>2. /\ t = <<>> => Grown(o, n, t) = c
      /\ \A e : t = <<e>> => Grown(o, n, t) = c \o <<e>>
  BY GrownFacts
<1> HIDE DEF c
<1>3. CASE t = <<>>
  <2>1. OnceEach(c, s \cup {r})
    BY <1>1 DEF OnceEach
  <2>. QED
    BY <1>1, <1>2, <1>3, <2>1
<1>4. CASE t = <<Element(m, r)>>
  <2> DEFINE e == Element(m, r)
  <2>1. Grown(o, n, t) = c \o <<e>>
    BY <1>2, <1>4
  <2>2. c \o <<e>> \in Seq(Pieces)
    BY <1>0, <1>1, AppendFacts
  <2>3. OnceEach(c \o <<e>>, s \cup {r})
    <3>1. e \in Pieces /\ e.of = r
      BY <1>0
    <3> HIDE DEF e
    <3>. QED
      BY <1>1, <3>1, OnceEachElement
  <2>4. \A q : Tells(o, q) => Tells(c \o <<e>>, q)
    BY <1>0, <1>1, TellsStays
  <2>5. m = "saved" => Tells(c \o <<e>>, r)
    BY <1>1, TellsLast
  <2> HIDE DEF e
  <2>. QED
    BY <2>1, <2>2, <2>3, <2>4, <2>5
<1>. QED
  BY <1>3, <1>4

\* A list that is flawed is so whatever follows.
LEMMA FlawStays ==
  ASSUME NEW o \in Seq(Pieces), NEW n \in Nat, n > 0, Flawed(o) \/ o = <<>>,
         NEW m \in {"cut", "saved"}, NEW r \in Reports,
         NEW t, t = <<>> \/ t = <<Element(m, r)>>
  PROVE  Flawed(Grown(o, n, t))
<1> DEFINE c == o \o Comma(n)
<1>1. c \in Seq(Pieces) /\ Spoilt(c)
  BY CommaFacts, CommaSpoils
<1>2. /\ t = <<>> => Grown(o, n, t) = c
      /\ \A e : t = <<e>> => Grown(o, n, t) = c \o <<e>>
  BY GrownFacts
<1> HIDE DEF c
<1>3. Element(m, r) \in Pieces
  BY PieceFacts DEF Stages
<1>4. Spoilt(c \o <<Element(m, r)>>)
  BY <1>1, <1>3, SpoiltStays
<1>. QED
  BY <1>1, <1>2, <1>4 DEF Flawed

\* An entry that is not saved is the flaw of a list that had none, but for a first
\* one without a byte.
LEMMA FlawComes ==
  ASSUME NEW o \in Seq(Pieces), NEW n \in Nat, Len(o) = ListLength(n),
         NEW r \in Reports, NEW t, t = <<>> \/ t = <<Element("cut", r)>>
  PROVE  Flawed(Grown(o, n, t)) \/ Grown(o, n, t) = <<>>
<1> DEFINE c == o \o Comma(n)
<1>0. c \in Seq(Pieces)
  BY CommaFacts
<1>1. /\ t = <<>> => Grown(o, n, t) = c
      /\ \A e : t = <<e>> => Grown(o, n, t) = c \o <<e>>
  BY GrownFacts
<1>2. c = <<>> \/ (c # <<>> /\ c[Len(c)].is = "comma")
  <2>1. CASE n = 0
    <3>1. c = o /\ Len(o) = 0
      BY <2>1, CommaFacts DEF ListLength
    <3>. QED
      BY <3>1
  <2>2. CASE n > 0
    <3>1. c = o \o <<Separator>> /\ Separator \in Pieces /\ Separator.is = "comma"
      BY <2>2, CommaFacts, PieceFacts
    <3>2. Len(c) = Len(o) + 1 /\ c[Len(o) + 1] = Separator /\ Len(o) \in Nat
      BY <3>1, AppendFacts
    <3> HIDE DEF c
    <3>. QED
      BY <3>1, <3>2
  <2>. QED
    BY <2>1, <2>2
<1> HIDE DEF c
<1>3. CASE t = <<>>
  BY <1>1, <1>2, <1>3 DEF Flawed
<1>4. CASE t = <<Element("cut", r)>>
  <2> DEFINE e == Element("cut", r)
  <2>1. e \in Pieces /\ e.is = "cut"
    BY PieceFacts DEF Stages
  <2>2. Grown(o, n, t) = c \o <<e>>
    BY <1>1, <1>4
  <2> HIDE DEF e
  <2>3. /\ Len(c) + 1 \in DOMAIN (c \o <<e>>)
        /\ (c \o <<e>>)[Len(c) + 1].is = "cut"
    BY <1>0, <2>1, OneMore, AppendFacts
  <2>4. Spoilt(c \o <<e>>)
    BY <2>3 DEF Spoilt
  <2>. QED
    BY <2>2, <2>4 DEF Flawed
<1>. QED
  BY <1>3, <1>4

\* A list without a flaw that a saved entry comes to.
LEMMA ArrayGrows ==
  ASSUME NEW o \in Seq(Pieces), NEW n \in Nat, Len(o) = ListLength(n), Alternating(o),
         NEW r \in Reports, NEW t, t = <<Element("saved", r)>>
  PROVE  Len(Grown(o, n, t)) = ListLength(n + 1) /\ Alternating(Grown(o, n, t))
<1> DEFINE c == o \o Comma(n)
           e == Element("saved", r)
<1>0. c \in Seq(Pieces) /\ e \in Pieces /\ e.is = "saved"
  BY CommaFacts, PieceFacts DEF Stages
<1>1. Grown(o, n, t) = c \o <<e>>
  BY GrownFacts
<1>2. Len(c) = 2 * n /\ Alternating(c)
  <2>1. CASE n = 0
    <3>1. c = o /\ Len(o) = 0
      BY <2>1, CommaFacts DEF ListLength
    <3>. QED
      BY <2>1, <3>1
  <2>2. CASE n > 0
    <3>1. c = o \o <<Separator>> /\ Separator \in Pieces /\ Separator.is = "comma"
      BY <2>2, CommaFacts, PieceFacts
    <3>2. Len(o) = 2 * n - 1
      BY <2>2 DEF ListLength
    <3>3. /\ Len(c) = Len(o) + 1 /\ c[Len(o) + 1] = Separator
          /\ DOMAIN o = 1 .. Len(o) /\ DOMAIN c = DOMAIN o \cup {Len(o) + 1}
          /\ \A i \in DOMAIN o : c[i] = o[i]
      BY <3>1, OneMore, AppendFacts
    <3> HIDE DEF c
    <3>4. Len(c) = 2 * n /\ Len(o) + 1 = 2 * n /\ (2 * n) % 2 # 1
      BY <3>2, <3>3
    <3>. QED
      BY <3>1, <3>3, <3>4 DEF Alternating
  <2>. QED
    BY <2>1, <2>2
<1> HIDE DEF c, e
<1>3. /\ Len(c \o <<e>>) = 2 * n + 1 /\ (c \o <<e>>)[2 * n + 1] = e
      /\ DOMAIN (c \o <<e>>) = DOMAIN c \cup {2 * n + 1}
      /\ \A i \in DOMAIN c : (c \o <<e>>)[i] = c[i]
  <2>1. /\ DOMAIN c = 1 .. Len(c)
        /\ DOMAIN (c \o <<e>>) = DOMAIN c \cup {Len(c) + 1}
    BY <1>0, OneMore
  <2>2. /\ Len(c \o <<e>>) = Len(c) + 1 /\ (c \o <<e>>)[Len(c) + 1] = e
        /\ \A i \in 1 .. Len(c) : (c \o <<e>>)[i] = c[i]
    BY <1>0, AppendFacts
  <2>. QED
    BY <1>2, <2>1, <2>2
<1>4. (2 * n + 1) % 2 = 1 /\ ListLength(n + 1) = 2 * n + 1
  BY DEF ListLength
<1>5. Alternating(c \o <<e>>)
  BY <1>0, <1>2, <1>3, <1>4 DEF Alternating
<1>. QED
  BY <1>1, <1>3, <1>4, <1>5

LEMMA ListEntryKeeps ==
  ASSUME WebInv, NEW r \in Reports, ListEntry(r)
  PROVE  WebInv'
<1>1. /\ pc = "list" /\ r \notin seen /\ seen' = seen \cup {r} /\ count' = count + 1
      /\ UNCHANGED <<files, pc, uri, status, body, due, ready, settled>>
      /\ broken' = (broken \/ r \notin SavedMetadata)
      /\ out' = Grown(out, count, Copied(r))
  BY DEF ListEntry, Grown
<1>2. FilesInv'
  BY <1>1 DEF WebInv, FilesInv, files
<1>3. Listing /\ pc' = "list" /\ uri' = uri
  BY <1>1 DEF Listing, WebInv, ControlInv
<1>4. ListInv /\ Listing
  BY <1>3 DEF WebInv
<1>5. ControlInv'
  <2>1. settled' = settled
    BY <1>1
  <2>2. broken' \in BOOLEAN
    BY <1>1, Zenon
  <2>. QED
    BY <1>1, <2>1, <2>2 DEF WebInv, ControlInv, Fetching
<1>6. SettledInv' /\ SendInv'
  BY <1>1, <1>3 DEF WebInv, ControlInv, SettledInv, SendInv, Fetching
<1>7. UNCHANGED <<metadata, removed, due, ready>>
  BY <1>1 DEF files
<1>8. /\ out \in Seq(Pieces) /\ count \in Nat /\ OnceEach(out, seen)
      /\ broken => count > 0 /\ (Flawed(out) \/ out = <<>>)
      /\ ~broken => /\ Len(out) = ListLength(count) /\ Alternating(out)
                    /\ \A q \in seen : Tells(out, q)
      /\ \A q \in (seen \cap ready) \ removed : Tells(out, q)
      /\ \A q \in ready : metadata[q] = "saved"
      /\ seen \subseteq Reports /\ due \subseteq Reports /\ ready \subseteq due
      /\ \A q \in due : metadata[q] # "absent"
  BY <1>4 DEF ListInv
<1>9. PICK m \in {"cut", "saved"} :
        /\ Copied(r) = <<>> \/ Copied(r) = <<Element(m, r)>>
        /\ r \in SavedMetadata => m = "saved" /\ Copied(r) = <<Element(m, r)>>
        /\ r \notin SavedMetadata /\ Copied(r) # <<>> => m = "cut"
  <2>1. metadata[r] \in Stages
    BY DEF WebInv, FilesInv
  <2>2. r \in SavedMetadata <=> r \in HasMetadata /\ metadata[r] = "saved"
    BY DEF SavedMetadata
  <2>3. r \in HasMetadata => metadata[r] # "absent"
    BY DEF HasMetadata
  <2>4. metadata[r] = "saved" => MetadataLength(r) > 0
    BY DEF MetadataLength
  <2>5. CASE r \in HasMetadata
    <3>1. Copied(r) = <<>> \/ Copied(r) = <<Element(metadata[r], r)>>
      BY DEF Copied
    <3>2. r \in SavedMetadata => Copied(r) = <<Element(metadata[r], r)>>
      BY <2>2, <2>4 DEF Copied
    <3>3. metadata[r] \in {"cut", "saved"}
      BY <2>1, <2>3, <2>5 DEF Stages
    <3>. QED
      BY <2>2, <2>5, <3>1, <3>2, <3>3
  <2>6. CASE r \notin HasMetadata
    BY <2>2, <2>6 DEF Copied
  <2>. QED
    BY <2>5, <2>6
<1>10. /\ out' \in Seq(Pieces) /\ OnceEach(out', seen')
       /\ \A q : Tells(out, q) => Tells(out', q)
       /\ r \in SavedMetadata => Tells(out', r)
  <2> DEFINE t == Copied(r)
  <2>1. t = <<>> \/ t = <<Element(m, r)>>
    BY <1>9
  <2>2. r \in SavedMetadata => m = "saved" /\ t # <<>>
    BY <1>9
  <2>3. out' = Grown(out, count, t)
    BY <1>1
  <2> HIDE DEF t
  <2>4. /\ Grown(out, count, t) \in Seq(Pieces)
        /\ OnceEach(Grown(out, count, t), seen \cup {r})
        /\ \A q : Tells(out, q) => Tells(Grown(out, count, t), q)
        /\ m = "saved" /\ t # <<>> => Tells(Grown(out, count, t), r)
    BY <1>1, <1>8, <2>1, EntryAdds
  <2>. QED
    BY <1>1, <2>2, <2>3, <2>4
<1>11. \A q \in (seen' \cap ready') \ removed' : Tells(out', q)
  <2> SUFFICES ASSUME NEW q \in (seen \cup {r}) \cap ready, q \notin removed
               PROVE  Tells(out', q)
    BY <1>1, <1>7
  <2>1. CASE q \in seen
    BY <1>8, <1>10, <2>1
  <2>2. CASE q = r
    <3>1. r \in SavedMetadata
      BY <1>8, <2>2 DEF SavedMetadata, HasMetadata
    <3>. QED
      BY <1>10, <2>2, <3>1
  <2>. QED
    BY <2>1, <2>2
<1>12. broken' => count' > 0 /\ (Flawed(out') \/ out' = <<>>)
  <2>1. count' > 0
    BY <1>1, <1>8
  <2>2. CASE broken
    BY <1>1, <1>8, <1>9, <2>2, FlawStays
  <2>3. CASE ~broken /\ r \notin SavedMetadata
    <3>1. Copied(r) = <<>> \/ Copied(r) = <<Element("cut", r)>>
      BY <1>9, <2>3
    <3>. QED
      BY <1>1, <1>8, <2>1, <2>3, <3>1, FlawComes
  <2>4. CASE ~broken /\ r \in SavedMetadata
    BY <1>1, <2>4
  <2>. QED
    BY <2>1, <2>2, <2>3, <2>4
<1>13. ~broken' => /\ Len(out') = ListLength(count') /\ Alternating(out')
                   /\ \A q \in seen' : Tells(out', q)
  <2> SUFFICES ASSUME ~broken'
               PROVE  /\ Len(out') = ListLength(count') /\ Alternating(out')
                      /\ \A q \in seen' : Tells(out', q)
    OBVIOUS
  <2>1. ~broken /\ r \in SavedMetadata
    BY <1>1
  <2>2. Copied(r) = <<Element("saved", r)>>
    BY <1>9, <2>1
  <2>3. Len(out') = ListLength(count') /\ Alternating(out')
    BY <1>1, <1>8, <2>1, <2>2, ArrayGrows
  <2>4. \A q \in seen' : Tells(out', q)
    BY <1>1, <1>8, <1>10, <2>1
  <2>. QED
    BY <2>3, <2>4
<1>14. ListInv'
  <2>1. /\ seen' \subseteq Reports /\ due' \subseteq Reports /\ count' \in Nat
        /\ ready' \subseteq due' /\ \A q \in ready' : metadata'[q] = "saved"
        /\ \A q \in due' : metadata'[q] # "absent"
    BY <1>1, <1>7, <1>8
  <2>2. pc' # "done"
    BY <1>3
  <2>. QED
    BY <1>10, <1>11, <1>12, <1>13, <2>1, <2>2 DEF ListInv
<1>. QED
  BY <1>2, <1>5, <1>6, <1>14 DEF WebInv

LEMMA EndListKeeps ==
  ASSUME WebInv, EndList
  PROVE  WebInv'
<1>1. /\ pc = "list" /\ pc' = "done" /\ due \cap HasMetadata \subseteq seen
      /\ UNCHANGED <<files, uri, status, promised, sent, position, out, count, seen, due, ready,
                     broken, settled>>
  BY DEF EndList, body, list
<1>2. uri.kind = "list"
  BY <1>1 DEF WebInv, ControlInv
<1>3. FilesInv'
  BY <1>1 DEF WebInv, FilesInv, files
<1>4. ControlInv'
  BY <1>1 DEF WebInv, ControlInv, Fetching
<1>5. HasMetadata' = HasMetadata
  BY <1>1 DEF HasMetadata, files
<1>6. ListInv'
  <2>1. Listing /\ metadata' = metadata /\ removed' = removed
    BY <1>1, <1>2 DEF Listing, files
  <2>. QED
    BY <1>1, <1>5, <2>1 DEF WebInv, ListInv
<1>7. SettledInv' /\ SendInv'
  BY <1>1, <1>2 DEF SettledInv, SendInv, Fetching
<1>. QED
  BY <1>3, <1>4, <1>6, <1>7 DEF WebInv

-----------------------------------------------------------------------------
(* A file. *)

LEMMA FetchLeavesRest ==
  ASSUME WebInv, Measure \/ Send
  PROVE  /\ FilesInv' /\ ControlInv' /\ ListInv' /\ SettledInv'
         /\ Length \in Nat /\ Length' = Length /\ Fetching /\ Fetching'
         /\ UNCHANGED settled
<1>1. /\ UNCHANGED <<files, uri, out, count, seen, due, ready, broken, settled>>
      /\ pc \in {"measure", "send"} /\ pc' \in {"send", "done"}
  BY DEF Measure, Send, list
<1>2. FilesInv'
  BY <1>1 DEF WebInv, FilesInv, files
<1>3. Fetching /\ Fetching'
  BY <1>1 DEF WebInv, ControlInv, Fetching
<1>4. ControlInv'
  BY <1>1, <1>3 DEF WebInv, ControlInv
<1>5. ListInv'
  BY <1>3 DEF ListInv, Listing, Fetching
<1>6. SettledInv'
  BY <1>1 DEF WebInv, SettledInv, files
<1>7. Length \in Nat /\ Length' = Length
  BY <1>1, LengthIsNat DEF WebInv, Length, MetadataLength, files
<1>. QED
  BY <1>1, <1>2, <1>3, <1>4, <1>5, <1>6, <1>7

LEMMA MeasureKeeps ==
  ASSUME WebInv, Measure
  PROVE  WebInv'
<1>1. /\ pc' = "send" /\ status' = 200 /\ promised' = Length /\ position' = 0 /\ sent' = 0
  BY DEF Measure, Rewound, WebInv, ControlInv
<1>2. Length \in Nat /\ Length' = Length
  BY FetchLeavesRest
<1>3. SendInv'
  BY <1>1, <1>2 DEF SendInv
<1>. QED
  BY <1>3, FetchLeavesRest DEF WebInv

\* A short read comes at the end of the file, and nowhere else.
LEMMA SendKeeps ==
  ASSUME WebInv, Send
  PROVE  WebInv'
<1> DEFINE left == Length - position
           read == IF left < Chunk THEN left ELSE Chunk
<1>1. /\ pc = "send" /\ pc' = (IF read < Chunk THEN "done" ELSE "send")
      /\ position' = position + read /\ sent' = sent + read /\ UNCHANGED <<status, promised>>
  BY DEF Send
<1>2. /\ status = 200 /\ position = sent /\ sent \in Nat /\ sent <= Length
      /\ promised \in Nat /\ promised <= Length /\ (settled => promised = Length)
  BY <1>1 DEF WebInv, SendInv
<1>3. Length \in Nat /\ Length' = Length /\ UNCHANGED settled
  BY FetchLeavesRest
<1> HIDE DEF Length
<1>4. /\ sent' \in Nat /\ position' = sent' /\ sent' <= Length
      /\ read < Chunk => sent' = Length
  BY <1>1, <1>2, <1>3, WebAssumption
<1> HIDE DEF read
<1>5. SendInv'
  <2>1. CASE read < Chunk
    BY <1>1, <1>2, <1>3, <1>4, <2>1 DEF SendInv
  <2>2. CASE ~(read < Chunk)
    BY <1>1, <1>2, <1>3, <1>4, <2>2 DEF SendInv
  <2>. QED
    BY <2>1, <2>2
<1>. QED
  BY <1>5, FetchLeavesRest DEF WebInv

LEMMA FinishKeeps ==
  ASSUME WebInv, Finish
  PROVE  WebInv'
<1>1. FilesInv'
  BY DEF Finish, WebInv, FilesInv, files
<1>2. ControlInv'
  BY DEF Finish, ControlInv, Kinds
<1>3. ListInv' /\ SettledInv' /\ SendInv'
  BY DEF Finish, ListInv, Listing, SettledInv, SendInv
<1>. QED
  BY <1>1, <1>2, <1>3 DEF WebInv

LEMMA StutterKeeps ==
  ASSUME WebInv, UNCHANGED vars
  PROVE  WebInv'
<1>1. UNCHANGED <<files, Answering>>
  BY DEF vars, body, list, Answering
<1>2. FilesInv' /\ ControlInv'
  BY <1>1 DEF WebInv, FilesInv, ControlInv, Fetching, files, Answering
<1>3. ListInv' /\ SettledInv'
  BY <1>1 DEF WebInv, ListInv, Listing, HasMetadata, SettledInv, files, Answering
<1>4. SendInv'
  BY <1>1 DEF WebInv, SendInv, Fetching, Length, MetadataLength, files, Answering
<1>. QED
  BY <1>2, <1>3, <1>4 DEF WebInv

-----------------------------------------------------------------------------
(* The theorems. *)

LEMMA WebInvariant == Spec => []WebInv
<1>1. ASSUME WebInv, [Next]_vars PROVE WebInv'
  <2>1. CASE Writers \/ Remove
    BY <1>1, <2>1, SharedKeeps
  <2>2. ASSUME NEW u \in Uris, Receive(u) PROVE WebInv'
    BY <1>1, <2>2, ReceiveKeeps
  <2>3. ASSUME NEW r \in Reports, ListEntry(r) PROVE WebInv'
    BY <1>1, <2>3, ListEntryKeeps
  <2>4. CASE EndList
    BY <1>1, <2>4, EndListKeeps
  <2>5. CASE Measure
    BY <1>1, <2>5, MeasureKeeps
  <2>6. CASE Send
    BY <1>1, <2>6, SendKeeps
  <2>7. CASE Finish
    BY <1>1, <2>7, FinishKeeps
  <2>8. CASE UNCHANGED vars
    BY <1>1, <2>8, StutterKeeps
  <2>. QED
    BY <1>1, <2>1, <2>2, <2>3, <2>4, <2>5, <2>6, <2>7, <2>8 DEF Next
<1>. QED
  BY <1>1, InitInv, PTL DEF Spec

\* Whatever reports others write and remove while the list is made, it tells of none
\* twice and of all that were saved when it was asked for and are there; and it is
\* an array just when each file was saved when its turn came.  (php_spx.c,
\* http_ui_handler_list_metadata_files_callback.)
THEOREM ListWhole == Spec => []ListIsWhole
<1>1. ASSUME WebInv PROVE ListIsWhole
  <2> SUFFICES ASSUME pc = "done", uri.kind = "list"
               PROVE  /\ IsArray <=> ~broken \/ out = <<>>
                      /\ \A r \in Reports : Cardinality(Listed(r)) <= 1
                      /\ \A r \in due \cap HasMetadata :
                           r \in ready \/ ~broken => Told(r) # {}
    BY DEF ListIsWhole
  <2>1. /\ count \in Nat /\ out \in Seq(Pieces)
        /\ due \subseteq Reports /\ due \cap HasMetadata \subseteq seen
        /\ OnceEach(out, seen)
        /\ \A r \in (seen \cap ready) \ removed : Tells(out, r)
        /\ broken => Flawed(out) \/ out = <<>>
        /\ ~broken => /\ Len(out) = ListLength(count) /\ Alternating(out)
                      /\ \A r \in seen : Tells(out, r)
    BY <1>1 DEF WebInv, ListInv, Listing
  <2>2. DOMAIN out = 1 .. Len(out) /\ Len(out) \in Nat
    BY <2>1
  <2>3. IsArray <=> ~broken \/ out = <<>>
    <3>1. CASE out = <<>>
      BY <3>1 DEF IsArray
    <3>2. CASE ~broken
      <4>1. out = <<>> \/ Len(out) % 2 = 1
        BY <2>1, <3>2 DEF ListLength
      <4>. QED
        BY <2>1, <3>2, <4>1 DEF IsArray, Alternating
    <3>3. CASE broken /\ out # <<>>
      <4> SUFFICES ASSUME IsArray PROVE FALSE
        BY <3>3
      <4>1. Len(out) % 2 = 1 /\ Alternating(out) /\ Len(out) \in 1 .. Len(out)
        BY <2>2, <3>3 DEF IsArray, Alternating
      <4>2. CASE Spoilt(out)
        <5>1. PICK i \in 1 .. Len(out) :
                \/ out[i].is = "cut"
                \/ out[i].is = "comma" /\ (i = 1 \/ out[i - 1].is = "comma")
          BY <2>2, <4>2 DEF Spoilt
        <5>2. /\ out[i].is = IF i % 2 = 1 THEN "saved" ELSE "comma"
              /\ i # 1 => out[i - 1].is = IF (i - 1) % 2 = 1 THEN "saved" ELSE "comma"
          BY <2>2, <4>1, <5>1 DEF Alternating
        <5>3. (i = 1 => i % 2 = 1) /\ (i % 2 # 1 => (i - 1) % 2 = 1)
          BY <2>2, <5>1
        <5>. QED
          BY <5>1, <5>2, <5>3
      <4>3. CASE out[Len(out)].is = "comma"
        BY <2>2, <4>1, <4>3 DEF Alternating
      <4>. QED
        BY <2>1, <3>3, <4>2, <4>3 DEF Flawed
    <3>. QED
      BY <3>1, <3>2, <3>3
  <2>4. ASSUME NEW r \in Reports PROVE Cardinality(Listed(r)) <= 1
    <3>1. CASE Listed(r) = {}
      BY <3>1, FS_EmptySet
    <3>2. ASSUME NEW i \in Listed(r) PROVE Cardinality(Listed(r)) <= 1
      <4>1. Listed(r) = {i}
        BY <2>1, <3>2 DEF Listed, Entries, OnceEach
      <4>2. Cardinality({i}) = 1
        BY FS_Singleton
      <4>. QED
        BY <4>1, <4>2
    <3>. QED
      BY <3>1, <3>2
  <2>5. ASSUME NEW r \in due \cap HasMetadata, r \in ready \/ ~broken
        PROVE  Told(r) # {}
    <3>1. Tells(out, r) /\ r \in Reports
      BY <2>1, <2>5 DEF HasMetadata
    <3>2. PICK i \in DOMAIN out : out[i] = Element("saved", r)
      BY <3>1 DEF Tells
    <3>3. out[i].is = "saved" /\ out[i].of = r
      BY <3>1, <3>2, PieceFacts DEF Stages
    <3>4. i \in Told(r)
      BY <3>3 DEF Told, Listed, Entries
    <3>. QED
      BY <3>4
  <2>. QED
    BY <2>3, <2>4, <2>5
<1>. QED
  BY <1>1, WebInvariant, PTL

\* Content-Length is never more than the bytes that follow, and a report that was
\* closed or metadata that was saved is sent as it is, however long it is and in
\* chunks of any size.  (php_spx.c, http_ui_handler_output_file,
\* read_stream_content.)
THEOREM FetchWhole == Spec => []FetchIsWhole
<1>1. ASSUME WebInv PROVE FetchIsWhole
  BY <1>1 DEF WebInv, SendInv, Fetching, FetchIsWhole
<1>. QED
  BY <1>1, WebInvariant, PTL
=============================================================================
