---------------------------- MODULE SpxMetricReport ----------------------------
(***************************************************************************)
(* What the collector of SpxMetric promises: a reading tells what the      *)
(* script spent, without what the profiler spent on reporting it.          *)
(***************************************************************************)
EXTENDS SpxMetric

TypeOK ==
  /\ source \in [Sources -> Int]
  /\ memo \in [Memoized -> Int \cup {NotMemoized}]
  /\ where \in {"none", "calibrating", "running", "read", "notifying"}
  /\ enabled \subseteq Metrics
  /\ ref_values \in [Metrics -> Int]
  /\ last_values \in [Metrics -> Int]
  /\ current_fixed_noise \in [Metrics -> Int]
  /\ current_fixed_noise["wt"] >= 0 /\ current_fixed_noise["ct"] >= 0
  /\ values \in [Metrics -> Int]
  /\ spent \in [Sources -> Int]
  /\ during \in [Sources -> Int]
  /\ charged \in Nat
  /\ barred \in BOOLEAN

\* A reading of memory usage is exactly what the script holds since the profile
\* began: what a costly notification took or gave back is out, whatever was
\* read, freed or charged in between, and nothing else is.
MemoryIsExact ==
  where = "read" /\ "zm" \in enabled => values["zm"] = spent["zm"]

\* A reading of wall or CPU time is never more than the script spent, and that
\* of wall time is less by at most the fixed noise charged so far.
TimeIsBounded ==
  where = "read" =>
    /\ "wt" \in enabled => /\ values["wt"] <= spent["wt"]
                           /\ values["wt"] >= spent["wt"] - charged
    /\ "ct" \in enabled => values["ct"] <= spent["ct"]

\* How far the CPU clock ran ahead of the wall clock since the last reading.
RanAhead == (source["ct"] - last_values["ct"]) - (source["wt"] - last_values["wt"])

\* Wall time never goes back from one reading to the next, however much noise was
\* charged.  CPU time may, for what the CPU clock ran ahead and what is noise are
\* both taken off (spx_metric.c:157-183), but never by more than it ran ahead, and
\* not at all while wall time is not measured.
ReadingsHardlyGoBack ==
  [][where = "running" /\ where' = "read" =>
       /\ "wt" \in enabled => values'["wt"] >= values["wt"]
       /\ "ct" \in enabled =>
            \/ values'["ct"] >= values["ct"]
            \/ "wt" \in enabled /\ values'["ct"] >= values["ct"] - RanAhead]_vars

\* src/src/spx_metric.c:152, "fix cpu / wall time inconsistency": however the
\* CPU clock runs ahead, the CPU time read is within the wall time read, until
\* a barrier hides wall time that the CPU clock then makes up for.
CpuTimeIsWithinWallTime ==
  where = "read" /\ {"wt", "ct"} \subseteq enabled /\ ~barred
    => values["ct"] <= values["wt"]

\* README.md:313: ior is the "bytes read while performing I/O".  Unless a costly
\* notification got in between, a reading tells those of the script.
BytesReadAreMeasured ==
  where = "read" /\ "ior" \in enabled /\ ~barred => values["ior"] = spent["ior"]

=============================================================================
