---------------------------- MODULE SpxFlatReport ----------------------------
(***************************************************************************)
(* What the flat profile of SpxFlatProfile promises, and the function      *)
(* table below it.                                                         *)
(***************************************************************************)
EXTENDS SpxFlatProfile, FiniteSets

Entries == 1 .. Len(table)

StoreTypes ==
  /\ table \in Seq(Entry) /\ Len(table) <= CAPACITY
  /\ chains \in [0 .. CAPACITY - 1 -> Seq(Link)]
  /\ pool \in [blocks : Nat \ {0}, used : 0..POOL_BLOCK_SIZE]
  /\ asked \in Functions \cup {NoFunction} /\ found \in Entries \cup {NoEntry}

StdioTypes ==
  /\ out \in {"tty", "null"} /\ err \in {"tty", "null"}
  /\ backup \subseteq {1, 2}
  /\ nullOutput \in {"unopened", "opened", "failed"}

ReportTypes ==
  /\ pc \in {"none", "stdout", "stderr", "stream", "idle", "select", "destroy", "dead"}
  /\ live \in BOOLEAN /\ limit \in Nat /\ metrics \in Nat /\ reports \in 0..MaxReports
  /\ finalizing \in BOOLEAN /\ lastLines \in Nat
  /\ top \in Seq(Entries) /\ at \in Nat /\ rows \in Seq(Entries)

ProfileTypes ==
  /\ stats \in Seq(Nat \X Nat) /\ Len(stats) = Len(table)
  /\ open \in Seq(Entries \cup {NoEntry})
  /\ first \in Functions \cup {NoFunction} /\ called \in Nat

TerminalTypes ==
  /\ screen \in Seq([is : {"blank", "script", "begun", "report"}, of : 0..MaxReports])
  /\ screen # <<>>
  /\ height \in [1..MaxReports -> Nat] /\ written \in Nat

TypeOK == StoreTypes /\ StdioTypes /\ ReportTypes /\ ProfileTypes /\ TerminalTypes

\* The hash map, the array and the pool together are a table of functions: the
\* collisions of hashes, the buckets that are chained and the lookups in a
\* full table make no two entries of a function and no entry for two.
Table == INSTANCE EntryTable WITH
  index <- [f \in {table[i].function : i \in Entries} |->
              CHOOSE i \in Entries : table[i].function = f]

ImplementsEntryTable == Table!EntryTableSpec

\* The places of names that share characters.
Overlap(p, q) ==
  p.block = q.block /\ p.at < q.at + q.size /\ q.at < p.at + p.size

Places(e) == {e.name, e.class}

\* Every name has characters of its own, in one block of the pool.
NamesAreDisjoint ==
  \A i \in Entries :
    /\ \A p \in Places(table[i]) : p.at + p.size <= POOL_BLOCK_SIZE
    /\ ~Overlap(table[i].name, table[i].class)
    /\ \A j \in Entries \ {i} :
         \A p \in Places(table[i]), q \in Places(table[j]) : ~Overlap(p, q)

LinesOf(line) == Cardinality({i \in DOMAIN screen : screen[i] = line})

\* Between reports, the terminal shows each profile's last report once and
\* whole, however often it was refreshed and whatever the script wrote before
\* and after; no line that the script ended was erased, and no line but the last
\* of each report is left empty.
ScreenShowsReports ==
  pc \in {"none", "idle"} =>
    /\ LinesOf(Line("script", 0)) = written
    /\ Cardinality({i \in DOMAIN screen : screen[i].is \in {"blank", "begun"}})
         = 1 + Cardinality({r \in 1..MaxReports : height[r] > 0})
    /\ \A r \in 1..MaxReports :
         LinesOf(Line("report", r)) = IF height[r] = 0 THEN 0 ELSE height[r] - 1

\* A reporter that is gone, or that could not be created, has given stdout and
\* stderr back; a live one holds both as long as the script runs.
StdioIsGivenBack ==
  /\ pc = "none" => out = "tty" /\ err = "tty" /\ backup = {}
  /\ pc = "idle" => (out = "null" <=> live) /\ (err = "null" <=> live)

\* The functions are listed once each and in their order, and the most costly
\* of all is the first.
MostCostlyIsFirst ==
  pc = "destroy" /\ rows # <<>> =>
    /\ \A i, j \in DOMAIN rows : i < j => Before(rows[i], rows[j])
    /\ \A e \in Entries : e = rows[1] \/ Before(rows[1], e)

\* The rows are the most costly functions: none that is left out has a higher
\* value of the focus than one that is listed.
TopIsListed ==
  pc = "destroy" /\ rows # <<>> =>
    \A e \in Entries : (\A i \in DOMAIN rows : rows[i] # e) =>
      \A i \in DOMAIN rows : stats[rows[i]][1] >= stats[e][1]
=============================================================================
