------------------------------ MODULE ReportFiles ------------------------------
(***************************************************************************)
(* What the files of full reports promise to those who read the data       *)
(* directory: each report has one writer, which prints its rows, then says *)
(* what it is about in a metadata file, and closes the rows last.  A       *)
(* report that ends in any other way stays as it is.                       *)
(***************************************************************************)
CONSTANT Reports

VARIABLES
  writing,   \* the reports that have a writer
  whole,     \* those that were closed after their last row was printed
  metadata   \* report |-> "absent", "cut" or "saved"

fileVars == <<writing, whole, metadata>>

Init ==
  /\ writing = {} /\ whole = {}
  /\ metadata = [r \in Reports |-> "absent"]

Create(r) ==
  /\ r \notin writing \cup whole /\ metadata[r] = "absent"
  /\ writing' = writing \cup {r}
  /\ UNCHANGED <<whole, metadata>>

OpenMetadata(r) ==
  /\ r \in writing /\ metadata[r] = "absent"
  /\ metadata' = [metadata EXCEPT ![r] = "cut"]
  /\ UNCHANGED <<writing, whole>>

SaveMetadata(r) ==
  /\ r \in writing /\ metadata[r] = "cut"
  /\ metadata' = [metadata EXCEPT ![r] = "saved"]
  /\ UNCHANGED <<writing, whole>>

\* A writer that closes its report has not left its metadata half done.
Close(r) ==
  /\ r \in writing /\ metadata[r] # "cut"
  /\ writing' = writing \ {r} /\ whole' = whole \cup {r}
  /\ UNCHANGED metadata

\* The writer is gone before its last row.
Abandon(r) ==
  /\ r \in writing
  /\ writing' = writing \ {r}
  /\ UNCHANGED <<whole, metadata>>

Step(r) ==
  \/ Create(r) \/ OpenMetadata(r) \/ SaveMetadata(r) \/ Close(r) \/ Abandon(r)

Next == \E r \in Reports : Step(r)

Spec == Init /\ [][Next]_fileVars
=============================================================================
