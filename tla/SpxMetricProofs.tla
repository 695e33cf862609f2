---------------------------- MODULE SpxMetricProofs ----------------------------
(***************************************************************************)
(* Proofs about SpxMetric, for every set of steps, of enabled metrics and  *)
(* of fixed noises.                                                        *)
(*                                                                         *)
(* The argument is a book kept per metric: what was spent is what the      *)
(* source shows past the reference, less the noise that is still to be     *)
(* taken off.  For memory the book is exact; for time it has an upper and  *)
(* a lower side, for the noise is clamped to what the metric went up.      *)
(***************************************************************************)
EXTENDS SpxMetricReport, TLAPS

\* The metrics that are their source, never memoized.
Direct == {"wt", "ct", "zm"}

\* The last reading is what its raw values are past the reference.
LastReading ==
  where # "none" =>
    \A m \in enabled : values[m] = last_values[m] - ref_values[m]

\* Right after a reading no noise is left and the raw values are the last ones.
JustRead ==
  where = "read" =>
    /\ \A m \in enabled : current_fixed_noise[m] = 0
    /\ \A m \in enabled \cap Direct : last_values[m] = source[m]

\* The clocks go forward.
ClocksForward ==
  where # "none" =>
    \A m \in enabled \cap {"wt", "ct"} : last_values[m] <= source[m]

\* A notification follows a reading at once: what its barrier would count is
\* what changed during it.
DuringBook ==
  where \in {"read", "notifying"} =>
    \A m \in enabled \cap Direct : during[m] = source[m] - last_values[m]

MemoryBook ==
  where # "none" /\ "zm" \in enabled =>
    spent["zm"] = source["zm"] - ref_values["zm"] - current_fixed_noise["zm"]

\* The last reading and the next one are both within what was spent.
TimeBook ==
  where # "none" =>
    \A m \in enabled \cap {"wt", "ct"} :
      /\ last_values[m] - ref_values[m] <= spent[m]
      /\ where = "notifying" =>
           last_values[m] - ref_values[m] <= spent[m] - during[m]
      /\ source[m] - ref_values[m] - current_fixed_noise[m] <= spent[m]

WallBook ==
  where # "none" /\ "wt" \in enabled =>
    spent["wt"] - charged
      <= source["wt"] - ref_values["wt"] - current_fixed_noise["wt"]

\* As long as no barrier is met both clocks are charged alike.
CpuBook ==
  where # "none" /\ {"wt", "ct"} \subseteq enabled /\ ~barred =>
    /\ current_fixed_noise["ct"] = current_fixed_noise["wt"]
    /\ last_values["ct"] - ref_values["ct"] <= last_values["wt"] - ref_values["wt"]

Books ==
  /\ LastReading /\ JustRead /\ ClocksForward /\ DuringBook
  /\ MemoryBook /\ TimeBook /\ WallBook /\ CpuBook

IInv == TypeOK /\ Books

-----------------------------------------------------------------------------
(* What a reading is made of. *)

\* A raw value is an integer, and that of a direct metric is its source.
LEMMA HandlerFacts ==
  ASSUME TypeOK, NEW m \in Metrics
  PROVE  /\ Handler(m) \in Int
         /\ m \in Direct => Handler(m) = source[m]
<1> USE DEF Metrics, Sources, Memoized, Direct
<1>1. \A x \in Memoized : MemoizedValue(x) \in Int
  BY DEF TypeOK, MemoizedValue
<1>2. CASE m \in {"it", "io"}
  BY <1>1, <1>2 DEF Handler
<1>3. CASE m \in {"ior", "iow"}
  BY <1>1, <1>3 DEF Handler
<1>4. CASE m \in Direct
  BY <1>4 DEF Handler, TypeOK
<1> QED
  BY <1>2, <1>3, <1>4

\* The raw values of a set of metrics.
LEMMA RawFacts ==
  ASSUME TypeOK, NEW E \in SUBSET Metrics
  PROVE  /\ RawValues(E) \in [Metrics -> Int]
         /\ \A m \in E \cap Direct : RawValues(E)[m] = source[m]
<1>1. \A m \in Metrics : (IF m \in E THEN Handler(m) ELSE 0) \in Int
  BY HandlerFacts
<1>2. RawValues(E) \in [Metrics -> Int]
  BY <1>1 DEF RawValues
<1>3. ASSUME NEW m \in E \cap Direct
      PROVE  RawValues(E)[m] = source[m]
  <2>1. RawValues(E)[m] = Handler(m)
    BY <1>3 DEF RawValues
  <2> QED
    BY <2>1, <1>3, HandlerFacts
<1> QED
  BY <1>2, <1>3

\* Memoizing keeps the type of the memo.
LEMMA CollectRawType ==
  ASSUME TypeOK, NEW E \in SUBSET Metrics, CollectRaw(E)
  PROVE  memo' \in [Memoized -> Int \cup {NotMemoized}]
<1>1. ASSUME NEW x \in Memoized
      PROVE  MemoizedValue(x) \in Int /\ memo[x] \in Int \cup {NotMemoized}
  BY <1>1 DEF TypeOK, MemoizedValue, Memoized, Sources
<1> QED
  BY <1>1 DEF CollectRaw

\* How far the metrics went, in integers.
LEMMA DiffFacts ==
  ASSUME TypeOK, NEW m \in Metrics
  PROVE  /\ Diff(m) \in Int
         /\ m \in enabled \cap Direct => Diff(m) = source[m] - last_values[m]
BY RawFacts DEF TypeOK, Diff

\* The surplus of CPU time is what it ran ahead of wall time, if it did.
LEMMA SurplusFacts ==
  ASSUME TypeOK
  PROVE  /\ Surplus \in Nat
         /\ {"wt", "ct"} \subseteq enabled =>
              Surplus = IF Diff("ct") > Diff("wt") THEN Diff("ct") - Diff("wt")
                                                   ELSE 0
<1>1. Diff("ct") \in Int /\ Diff("wt") \in Int
  BY DiffFacts DEF Metrics
<1> QED
  BY <1>1 DEF Surplus

\* The reference moves by the surplus and by the noise.
LEMMA RefFacts ==
  ASSUME TypeOK
  PROVE  /\ RefAfter \in [Metrics -> Int]
         /\ "zm" \in enabled =>
              RefAfter["zm"] = ref_values["zm"] + current_fixed_noise["zm"]
         /\ "wt" \in enabled => RefAfter["wt"] = ref_values["wt"] + NoiseOf("wt")
         /\ "ct" \in enabled =>
              RefAfter["ct"] = ref_values["ct"] + Surplus + NoiseOf("ct")
<1> USE DEF Metrics
<1>1. Surplus \in Int
  BY SurplusFacts
<1>2. ASSUME NEW m \in Metrics
      PROVE  Corrected(m) \in Int /\ NoiseOf(m) \in Int
  <2>1. ref_values[m] \in Int /\ current_fixed_noise[m] \in Int /\ Diff(m) \in Int
    BY <1>2, DiffFacts DEF TypeOK
  <2>2. NoiseOf(m) \in Int
    BY <2>1 DEF NoiseOf
  <2>3. Corrected(m) \in Int
    BY <2>1, <1>1 DEF Corrected
  <2> QED
    BY <2>2, <2>3
<1>3. RefAfter \in [Metrics -> Int]
  BY <1>2 DEF RefAfter
<1>4. ASSUME NEW m \in enabled
      PROVE  RefAfter[m] = Corrected(m) + NoiseOf(m)
  BY <1>4 DEF RefAfter, TypeOK
<1>5. /\ Corrected("zm") = ref_values["zm"] + 0
      /\ Corrected("wt") = ref_values["wt"] + 0
      /\ Corrected("ct") = ref_values["ct"] + Surplus
  BY DEF Corrected
<1>6. \A m \in Metrics : ref_values[m] + 0 = ref_values[m]
  BY DEF TypeOK
<1>7. NoiseOf("zm") = current_fixed_noise["zm"]
  BY DEF NoiseOf, Releasable
<1> QED
  BY <1>3, <1>4, <1>5, <1>6, <1>7

\* The noise taken off a time is at most what is due and what the time went up.
LEMMA NoiseFacts ==
  ASSUME TypeOK, NEW m \in {"wt", "ct"} \cap enabled
  PROVE  NoiseOf(m) = IF current_fixed_noise[m] > source[m] - last_values[m]
                      THEN source[m] - last_values[m] ELSE current_fixed_noise[m]
<1>1. Diff(m) = source[m] - last_values[m]
  BY DiffFacts DEF Direct, Metrics
<1> QED
  BY <1>1 DEF NoiseOf, Releasable

-----------------------------------------------------------------------------
(* The type invariant. *)

\* What a reading leaves in the collector.
LEMMA CollectType ==
  ASSUME TypeOK, CollectValues
  PROVE  /\ memo' \in [Memoized -> Int \cup {NotMemoized}]
         /\ enabled' = enabled
         /\ ref_values' = RefAfter
         /\ ref_values' \in [Metrics -> Int]
         /\ last_values' \in [Metrics -> Int]
         /\ \A m \in enabled : last_values'[m] = RawValues(enabled)[m]
         /\ \A m \in enabled \cap Direct : last_values'[m] = source[m]
         /\ current_fixed_noise' \in [Metrics -> Int]
         /\ \A m \in enabled : current_fixed_noise'[m] = 0
         /\ current_fixed_noise'["wt"] >= 0 /\ current_fixed_noise'["ct"] >= 0
         /\ values' \in [Metrics -> Int]
         /\ \A m \in enabled : values'[m] = last_values'[m] - ref_values'[m]
<1> USE DEF CollectValues
<1>1. enabled \in SUBSET Metrics
  BY DEF TypeOK
<1>2. memo' \in [Memoized -> Int \cup {NotMemoized}]
  BY <1>1, CollectRawType
<1>3. RawValues(enabled) \in [Metrics -> Int]
  BY <1>1, RawFacts
<1>4. RefAfter \in [Metrics -> Int]
  BY RefFacts
<1>5. /\ last_values' \in [Metrics -> Int]
      /\ \A m \in enabled : last_values'[m] = RawValues(enabled)[m]
  BY <1>1, <1>3 DEF TypeOK
<1>6. \A m \in enabled \cap Direct : last_values'[m] = source[m]
  BY <1>1, <1>5, RawFacts
<1>7. /\ current_fixed_noise' \in [Metrics -> Int]
      /\ \A m \in enabled : current_fixed_noise'[m] = 0
      /\ current_fixed_noise'["wt"] >= 0 /\ current_fixed_noise'["ct"] >= 0
  BY <1>1 DEF TypeOK, Metrics
<1>8. /\ values' \in [Metrics -> Int]
      /\ \A m \in enabled : values'[m] = last_values'[m] - ref_values'[m]
  BY <1>1, <1>3, <1>4, <1>5
<1> QED
  BY <1>2, <1>4, <1>5, <1>6, <1>7, <1>8

\* What the end of a notification adds to the noise.
LEMMA NotifiedNoise ==
  ASSUME TypeOK, ClocksForward,
         NEW heavy \in BOOLEAN, NEW n \in FixedNoises, Notified(heavy, n)
  PROVE  /\ current_fixed_noise' \in [Metrics -> Int]
         /\ current_fixed_noise'["wt"] >= 0 /\ current_fixed_noise'["ct"] >= 0
         /\ \A m \in enabled \cap Direct :
              current_fixed_noise'[m] =
                current_fixed_noise[m] + (IF m = "zm" THEN 0 ELSE n)
                  + (IF heavy THEN source[m] - last_values[m] ELSE 0)
<1>1. n \in Nat /\ enabled \in SUBSET Metrics
  BY MetricAssumption DEF TypeOK
<1>2. ASSUME NEW m \in Metrics
      PROVE  Fixed(n)[m] \in Int /\ Barrier[m] \in Int
  BY <1>1, <1>2, DiffFacts DEF Fixed, Barrier
<1>3. \A m \in Metrics :
        current_fixed_noise'[m] =
          current_fixed_noise[m] + (IF m \in enabled THEN Fixed(n)[m] ELSE 0)
                                 + (IF heavy THEN Barrier[m] ELSE 0)
  BY DEF Notified
<1>4. current_fixed_noise' \in [Metrics -> Int]
  <2>1. \A m \in Metrics :
          current_fixed_noise[m] + (IF m \in enabled THEN Fixed(n)[m] ELSE 0)
                                 + (IF heavy THEN Barrier[m] ELSE 0) \in Int
    BY <1>2 DEF TypeOK
  <2> QED
    BY <2>1 DEF Notified
<1>5. ASSUME NEW m \in Metrics
      PROVE  /\ m \in {"wt", "ct"} => Fixed(n)[m] = n
             /\ m = "zm" => Fixed(n)[m] = 0
             /\ m \in enabled => Barrier[m] = Diff(m)
             /\ m \notin enabled => Barrier[m] = 0
  BY DEF Fixed, Barrier
<1>6. \A m \in enabled \cap Direct :
        current_fixed_noise'[m] =
          current_fixed_noise[m] + (IF m = "zm" THEN 0 ELSE n)
            + (IF heavy THEN source[m] - last_values[m] ELSE 0)
  BY <1>1, <1>3, <1>5, DiffFacts DEF Direct
<1>7. ASSUME NEW m \in {"wt", "ct"}
      PROVE  current_fixed_noise'[m] >= 0
  <2>1. m \in Metrics /\ current_fixed_noise[m] \in Nat /\ m # "zm" /\ m \in Direct
    BY DEF TypeOK, Metrics, Direct
  <2>2. CASE m \in enabled
    <3>1. source[m] \in Int /\ last_values[m] \in Int
      BY <2>1 DEF TypeOK, Direct, Sources
    <3>2. source[m] - last_values[m] >= 0
      BY <2>2, <3>1 DEF ClocksForward, Notified
    <3> QED
      BY <1>1, <1>6, <2>1, <2>2, <3>1, <3>2
  <2>3. CASE m \notin enabled
    BY <1>3, <1>5, <2>1, <2>3
  <2> QED
    BY <2>2, <2>3
<1> QED
  BY <1>4, <1>6, <1>7

\* Sums and differences of what is counted per source.
LEMMA SourceSums ==
  ASSUME NEW f \in [Sources -> Int], NEW g \in [Sources -> Int]
  PROVE  /\ Plus(f, g) \in [Sources -> Int]
         /\ \A m \in Sources : Plus(f, g)[m] = f[m] + g[m]
BY DEF Plus

\* Nothing counted.
LEMMA ZeroFacts ==
  /\ Zero \in [Metrics -> Int] /\ \A m \in Metrics : Zero[m] = 0
  /\ None \in [Sources -> Int] /\ \A m \in Sources : None[m] = 0
  /\ Zero["wt"] = 0 /\ Zero["ct"] = 0
BY DEF Zero, None, Metrics

\* The initial state has the type.
LEMMA TypeInit == Init => TypeOK
<1> SUFFICES ASSUME Init PROVE TypeOK
  OBVIOUS
<1>1. memo \in [Memoized -> Int \cup {NotMemoized}]
  BY DEF Init
<1>2. enabled \subseteq Metrics
  BY DEF Init
<1>3. barred \in BOOLEAN
  BY DEF Init
<1>4. current_fixed_noise["wt"] >= 0 /\ current_fixed_noise["ct"] >= 0
  BY ZeroFacts DEF Init
<1> QED
  BY <1>1, <1>2, <1>3, <1>4, ZeroFacts DEF Init, TypeOK

\* Every step keeps the type: the clocks going forward is what keeps the noise
\* of a time from turning negative.
LEMMA TypeStep ==
  ASSUME TypeOK, ClocksForward, [Next]_vars
  PROVE  TypeOK'
<1>1. ASSUME NEW E \in EnabledSets, Create(E) PROVE TypeOK'
  <2>1. E \in SUBSET Metrics
    BY MetricAssumption
  <2>2. /\ memo' \in [Memoized -> Int \cup {NotMemoized}]
        /\ RawValues(E) \in [Metrics -> Int]
    BY <1>1, <2>1, CollectRawType, RawFacts DEF Create
  <2>3. barred' \in BOOLEAN
    BY <1>1 DEF Create
  <2>4. current_fixed_noise'["wt"] >= 0 /\ current_fixed_noise'["ct"] >= 0
    BY <1>1, ZeroFacts DEF Create
  <2> QED
    BY <1>1, <2>1, <2>2, <2>3, <2>4, ZeroFacts DEF Create, TypeOK
<1>2. ASSUME CollectValues, where' \in {"calibrating", "read"},
             during' \in {during, None}
      PROVE  TypeOK'
  BY <1>2, CollectType DEF CollectValues, TypeOK, None
<1>3. CASE CollectInCalibration
  BY <1>2, <1>3 DEF CollectInCalibration
<1>4. CASE Calibrated
  BY <1>4 DEF Calibrated, TypeOK, collector, observer
<1>5. CASE Collect
  BY <1>2, <1>5 DEF Collect
<1>6. CASE AfterCollect
  BY <1>6 DEF AfterCollect, TypeOK, collector, observer
<1>7. ASSUME NEW heavy \in BOOLEAN, NEW n \in FixedNoises, Notified(heavy, n)
      PROVE  TypeOK'
  <2>1. /\ current_fixed_noise' \in [Metrics -> Int]
        /\ current_fixed_noise'["wt"] >= 0 /\ current_fixed_noise'["ct"] >= 0
    BY <1>7, NotifiedNoise
  <2>2. memo' \in [Memoized -> Int \cup {NotMemoized}]
    BY <1>7, CollectRawType DEF Notified, TypeOK
  <2>3. spent' \in [Sources -> Int]
    BY <1>7 DEF Notified, TypeOK
  <2>4. charged' \in Nat
    BY <1>7, MetricAssumption DEF Notified, TypeOK
  <2>5. barred' \in BOOLEAN
    BY <1>7 DEF Notified, TypeOK
  <2> QED
    BY <1>7, <2>1, <2>2, <2>3, <2>4, <2>5 DEF Notified, TypeOK, None
<1>8. CASE Destroy
  BY <1>8 DEF Destroy, TypeOK, collector, observer
<1>9. ASSUME NEW s \in Steps, Elapse(s) PROVE TypeOK'
  <2>1. s \in [Sources -> Int]
    BY MetricAssumption
  <2>2. \A f \in [Sources -> Int] : Plus(f, s) \in [Sources -> Int]
    BY <2>1, SourceSums
  <2> QED
    BY <1>9, <2>2 DEF Elapse, TypeOK, collector
<1>10. CASE UNCHANGED vars
  BY <1>10 DEF vars, TypeOK, collector, observer
<1> QED
  BY <1>1, <1>3, <1>4, <1>5, <1>6, <1>7, <1>8, <1>9, <1>10 DEF Next, Step

-----------------------------------------------------------------------------
(* The books. *)

\* Nothing is booked before the first collector.
LEMMA BooksInit == Init => Books
BY DEF Init, Books, LastReading, JustRead, ClocksForward, DuringBook,
       MemoryBook, TimeBook, WallBook, CpuBook

\* The integers the books are kept in.
LEMMA DirectIntegers ==
  ASSUME TypeOK, NEW m \in Direct
  PROVE  /\ m \in Metrics /\ m \in Sources
         /\ source[m] \in Int /\ spent[m] \in Int /\ during[m] \in Int
         /\ ref_values[m] \in Int /\ last_values[m] \in Int
         /\ current_fixed_noise[m] \in Int
         /\ m \in {"wt", "ct"} => current_fixed_noise[m] >= 0
         /\ charged \in Nat
BY DEF TypeOK, Direct, Metrics, Sources

\* A collector starts its books at zero.
LEMMA BooksCreate ==
  ASSUME TypeOK, NEW E \in EnabledSets, Create(E)
  PROVE  Books'
<1> USE DEF Create
<1>1. E \in SUBSET Metrics
  BY MetricAssumption
<1>2. RawValues(E) \in [Metrics -> Int]
  BY <1>1, RawFacts
<1>3. \A m \in E \cap Direct : RawValues(E)[m] = source[m]
  BY <1>1, RawFacts
<1>4. \A m \in Direct : source[m] \in Int /\ None[m] = 0 /\ Zero[m] = 0
  BY DirectIntegers, ZeroFacts
<1>5. LastReading'
  BY <1>1, <1>2, ZeroFacts DEF LastReading
<1>6. JustRead' /\ DuringBook'
  BY DEF JustRead, DuringBook
<1>7. ClocksForward'
  BY <1>3, <1>4 DEF ClocksForward, Direct
<1>8. MemoryBook'
  BY <1>3, <1>4 DEF MemoryBook, Direct
<1>9. TimeBook'
  BY <1>3, <1>4 DEF TimeBook, Direct
<1>10. WallBook'
  BY <1>3, <1>4 DEF WallBook, Direct
<1>11. CpuBook'
  BY <1>3, <1>4 DEF CpuBook, Direct
<1> QED
  BY <1>5, <1>6, <1>7, <1>8, <1>9, <1>10, <1>11 DEF Books

\* A reading moves what is due from the noise to the reference.
LEMMA BooksCollect ==
  ASSUME TypeOK, Books, CollectValues, where \in {"calibrating", "running"},
         \/ where' = "calibrating"
         \/ where' = "read" /\ during' = None
  PROVE  Books'
<1>1. /\ enabled' = enabled /\ source' = source /\ spent' = spent
      /\ charged' = charged /\ barred' = barred
  BY DEF CollectValues
<1>2. /\ \A m \in enabled : current_fixed_noise'[m] = 0
      /\ \A m \in enabled : values'[m] = last_values'[m] - ref_values'[m]
      /\ \A m \in enabled \cap Direct : last_values'[m] = source[m]
      /\ ref_values' = RefAfter
  BY CollectType
<1>3. /\ "zm" \in enabled =>
           ref_values'["zm"] = ref_values["zm"] + current_fixed_noise["zm"]
      /\ "wt" \in enabled => ref_values'["wt"] = ref_values["wt"] + NoiseOf("wt")
      /\ "ct" \in enabled =>
           ref_values'["ct"] = ref_values["ct"] + Surplus + NoiseOf("ct")
  BY <1>2, RefFacts
<1>4. Surplus \in Nat
  BY SurplusFacts
<1>5. LastReading'
  BY <1>1, <1>2 DEF LastReading
<1>6. JustRead'
  BY <1>1, <1>2 DEF JustRead
<1>7. ClocksForward'
  BY <1>1, <1>2, DirectIntegers DEF ClocksForward, Direct
<1>8. DuringBook'
  BY <1>1, <1>2, DirectIntegers, ZeroFacts DEF DuringBook
<1>9. MemoryBook'
  BY <1>1, <1>2, <1>3, DirectIntegers DEF Books, MemoryBook, Direct
<1>10. ASSUME NEW m \in enabled \cap {"wt", "ct"}
       PROVE  source[m] - ref_values'[m] <= spent[m]
  <2>1. /\ last_values[m] - ref_values[m] <= spent[m]
        /\ source[m] - ref_values[m] - current_fixed_noise[m] <= spent[m]
    BY <1>10 DEF Books, TimeBook
  <2>2. ref_values'[m] = ref_values[m] + NoiseOf(m)
         \/ ref_values'[m] = ref_values[m] + Surplus + NoiseOf(m)
    BY <1>3, <1>10
  <2>3. m \in Direct
    BY <1>10 DEF Direct
  <2> QED
    BY <1>4, <1>10, <2>1, <2>2, <2>3, NoiseFacts, DirectIntegers
<1>11. TimeBook'
  <2>1. ASSUME NEW m \in enabled \cap {"wt", "ct"}
        PROVE  /\ last_values'[m] - ref_values'[m] <= spent'[m]
               /\ source'[m] - ref_values'[m] - current_fixed_noise'[m] <= spent'[m]
    <3>1. m \in Direct /\ ref_values'[m] \in Int
      BY <1>2, RefFacts, DirectIntegers DEF Direct
    <3> QED
      BY <1>1, <1>2, <1>10, <2>1, <3>1, DirectIntegers
  <2> QED
    BY <1>1, <2>1 DEF TimeBook
<1>12. WallBook'
  <2> SUFFICES ASSUME "wt" \in enabled
               PROVE  spent["wt"] - charged
                        <= source["wt"] - ref_values'["wt"] - 0
    BY <1>1, <1>2 DEF WallBook
  <2>1. spent["wt"] - charged
          <= source["wt"] - ref_values["wt"] - current_fixed_noise["wt"]
    BY DEF Books, WallBook
  <2> QED
    BY <1>3, <2>1, NoiseFacts, DirectIntegers DEF Direct
<1>13. CpuBook'
  <2> SUFFICES ASSUME {"wt", "ct"} \subseteq enabled, ~barred
               PROVE  source["ct"] - ref_values'["ct"]
                        <= source["wt"] - ref_values'["wt"]
    BY <1>1, <1>2 DEF CpuBook, Direct
  <2>1. /\ current_fixed_noise["ct"] = current_fixed_noise["wt"]
        /\ last_values["ct"] - ref_values["ct"] <= last_values["wt"] - ref_values["wt"]
    BY DEF Books, CpuBook
  <2>2. /\ last_values["ct"] <= source["ct"] /\ last_values["wt"] <= source["wt"]
    BY DEF Books, ClocksForward
  <2>3. /\ Diff("ct") = source["ct"] - last_values["ct"]
        /\ Diff("wt") = source["wt"] - last_values["wt"]
    BY DiffFacts DEF Direct, Metrics
  <2>4. Surplus = IF Diff("ct") > Diff("wt") THEN Diff("ct") - Diff("wt") ELSE 0
    BY SurplusFacts
  <2> QED
    BY <1>3, <2>1, <2>2, <2>3, <2>4, NoiseFacts, DirectIntegers DEF Direct
<1> QED
  BY <1>5, <1>6, <1>7, <1>8, <1>9, <1>11, <1>12, <1>13 DEF Books

\* A barrier takes what changed during the notification off both sides.
LEMMA BooksNotified ==
  ASSUME TypeOK, Books,
         NEW heavy \in BOOLEAN, NEW n \in FixedNoises, Notified(heavy, n)
  PROVE  Books'
<1>1. n \in Nat
  BY MetricAssumption
<1>2. /\ where = "notifying" /\ where' = "running"
      /\ enabled' = enabled /\ source' = source /\ ref_values' = ref_values
      /\ last_values' = last_values /\ values' = values
      /\ charged' = charged + n /\ barred' = (barred \/ heavy)
  BY DEF Notified
<1>3. \A m \in enabled \cap Direct :
        current_fixed_noise'[m] =
          current_fixed_noise[m] + (IF m = "zm" THEN 0 ELSE n)
            + (IF heavy THEN source[m] - last_values[m] ELSE 0)
  BY NotifiedNoise DEF Books
<1>4. \A m \in Direct : spent'[m] = spent[m] - (IF heavy THEN during[m] ELSE 0)
  BY DirectIntegers DEF Notified
<1>5. \A m \in enabled \cap Direct : during[m] = source[m] - last_values[m]
  BY <1>2 DEF Books, DuringBook
<1>6. LastReading' /\ JustRead' /\ DuringBook'
  BY <1>2 DEF Books, LastReading, JustRead, DuringBook
<1>7. ClocksForward'
  BY <1>2 DEF Books, ClocksForward
<1>8. MemoryBook'
  BY <1>2, <1>3, <1>4, <1>5, DirectIntegers DEF Books, MemoryBook, Direct
<1>9. TimeBook'
  <2> SUFFICES ASSUME NEW m \in enabled \cap {"wt", "ct"}
               PROVE  /\ last_values[m] - ref_values[m] <= spent'[m]
                      /\ source[m] - ref_values[m] - current_fixed_noise'[m]
                           <= spent'[m]
    BY <1>2 DEF TimeBook
  <2>1. /\ last_values[m] - ref_values[m] <= spent[m]
        /\ last_values[m] - ref_values[m] <= spent[m] - during[m]
        /\ source[m] - ref_values[m] - current_fixed_noise[m] <= spent[m]
    BY <1>2 DEF Books, TimeBook
  <2>2. m \in Direct /\ m # "zm"
    BY DEF Direct
  <2> QED
    BY <1>1, <1>3, <1>4, <1>5, <2>1, <2>2, DirectIntegers
<1>10. WallBook'
  <2> SUFFICES ASSUME "wt" \in enabled
               PROVE  spent'["wt"] - (charged + n)
                        <= source["wt"] - ref_values["wt"]
                             - current_fixed_noise'["wt"]
    BY <1>2 DEF WallBook
  <2>1. spent["wt"] - charged
          <= source["wt"] - ref_values["wt"] - current_fixed_noise["wt"]
    BY <1>2 DEF Books, WallBook
  <2> QED
    BY <1>1, <1>3, <1>4, <1>5, <2>1, DirectIntegers DEF Direct
<1>11. CpuBook'
  <2> SUFFICES ASSUME {"wt", "ct"} \subseteq enabled, ~barred, ~heavy
               PROVE  /\ current_fixed_noise'["ct"] = current_fixed_noise'["wt"]
                      /\ last_values["ct"] - ref_values["ct"]
                           <= last_values["wt"] - ref_values["wt"]
    BY <1>2 DEF CpuBook
  <2>1. /\ current_fixed_noise["ct"] = current_fixed_noise["wt"]
        /\ last_values["ct"] - ref_values["ct"] <= last_values["wt"] - ref_values["wt"]
    BY <1>2 DEF Books, CpuBook
  <2> QED
    BY <1>3, <2>1 DEF Direct
<1> QED
  BY <1>6, <1>7, <1>8, <1>9, <1>10, <1>11 DEF Books

\* What elapses is spent, and the clocks go forward.
LEMMA BooksElapse ==
  ASSUME TypeOK, Books, NEW s \in Steps, Elapse(s)
  PROVE  Books'
<1>1. /\ where' = where /\ where # "read" /\ enabled' = enabled
      /\ ref_values' = ref_values /\ last_values' = last_values
      /\ current_fixed_noise' = current_fixed_noise /\ values' = values
      /\ charged' = charged /\ barred' = barred
  BY DEF Elapse, collector
<1>2. s \in [Sources -> Int] /\ s["wt"] >= 0 /\ s["ct"] >= 0
  BY MetricAssumption DEF Sources, Releasable
<1>3. \A m \in Direct :
        /\ s[m] \in Int
        /\ m \in {"wt", "ct"} => s[m] >= 0
        /\ source'[m] = source[m] + s[m]
        /\ spent'[m] = spent[m] + s[m]
        /\ where = "notifying" => during'[m] = during[m] + s[m]
  <2>1. Direct \subseteq Sources
    BY DEF Direct, Sources
  <2> QED
    BY <1>2, <2>1, SourceSums DEF Elapse, TypeOK
<1>4. LastReading' /\ JustRead'
  BY <1>1 DEF Books, LastReading, JustRead
<1>5. ClocksForward'
  BY <1>1, <1>3, DirectIntegers DEF Books, ClocksForward, Direct
<1>6. DuringBook'
  BY <1>1, <1>3, DirectIntegers DEF Books, DuringBook
<1>7. MemoryBook'
  BY <1>1, <1>3, DirectIntegers DEF Books, MemoryBook, Direct
<1>8. TimeBook'
  <2> SUFFICES ASSUME where # "none", NEW m \in enabled \cap {"wt", "ct"}
               PROVE  /\ last_values[m] - ref_values[m] <= spent'[m]
                      /\ where = "notifying" =>
                           last_values[m] - ref_values[m] <= spent'[m] - during'[m]
                      /\ source'[m] - ref_values[m] - current_fixed_noise[m]
                           <= spent'[m]
    BY <1>1 DEF TimeBook
  <2>1. m \in Direct
    BY DEF Direct
  <2> QED
    BY <1>3, <2>1, DirectIntegers DEF Books, TimeBook
<1>9. WallBook'
  BY <1>1, <1>3, DirectIntegers DEF Books, WallBook, Direct
<1>10. CpuBook'
  BY <1>1 DEF Books, CpuBook
<1> QED
  BY <1>4, <1>5, <1>6, <1>7, <1>8, <1>9, <1>10 DEF Books

\* Every step keeps the books.
LEMMA BooksStep ==
  ASSUME TypeOK, Books, [Next]_vars
  PROVE  Books'
<1>1. CASE \E E \in EnabledSets : Create(E)
  BY <1>1, BooksCreate
<1>2. CASE CollectInCalibration
  BY <1>2, BooksCollect DEF CollectInCalibration
<1>3. CASE Calibrated
  BY <1>3 DEF Calibrated, collector, observer, Books, LastReading, JustRead,
              ClocksForward, DuringBook, MemoryBook, TimeBook, WallBook, CpuBook
<1>4. CASE Collect
  BY <1>4, BooksCollect DEF Collect
<1>5. CASE AfterCollect
  <2>1. /\ where = "read" /\ where' \in {"notifying", "running"}
        /\ UNCHANGED <<source, collector, observer>>
    BY <1>5 DEF AfterCollect
  <2>2. /\ LastReading' /\ JustRead' /\ ClocksForward' /\ MemoryBook'
        /\ WallBook' /\ CpuBook'
    BY <2>1 DEF collector, observer, Books, LastReading, JustRead, ClocksForward,
                MemoryBook, WallBook, CpuBook
  <2>3. DuringBook'
    BY <2>1 DEF collector, observer, Books, DuringBook
  <2>4. ASSUME NEW m \in enabled \cap {"wt", "ct"}
        PROVE  during[m] = 0
    <3>1. m \in enabled \cap Direct
      BY <2>4 DEF Direct
    <3>2. during[m] = source[m] - last_values[m] /\ last_values[m] = source[m]
      BY <2>1, <3>1 DEF Books, DuringBook, JustRead
    <3> QED
      BY <3>1, <3>2, DirectIntegers
  <2>5. TimeBook'
    <3> SUFFICES ASSUME NEW m \in enabled \cap {"wt", "ct"}
                 PROVE  /\ last_values[m] - ref_values[m] <= spent[m]
                        /\ last_values[m] - ref_values[m] <= spent[m] - during[m]
                        /\ source[m] - ref_values[m] - current_fixed_noise[m]
                             <= spent[m]
      BY <2>1 DEF TimeBook, collector, observer
    <3>1. m \in Direct
      BY DEF Direct
    <3> QED
      BY <2>1, <2>4, <3>1, DirectIntegers DEF Books, TimeBook
  <2> QED
    BY <2>2, <2>3, <2>5 DEF Books
<1>6. CASE \E heavy \in BOOLEAN : \E n \in FixedNoises : Notified(heavy, n)
  BY <1>6, BooksNotified
<1>7. CASE Destroy
  BY <1>7 DEF Destroy, Books, LastReading, JustRead, ClocksForward, DuringBook,
              MemoryBook, TimeBook, WallBook, CpuBook
<1>8. CASE \E s \in Steps : Elapse(s)
  BY <1>8, BooksElapse
<1>9. CASE UNCHANGED vars
  BY <1>9 DEF vars, collector, observer, Books, LastReading, JustRead,
              ClocksForward, DuringBook, MemoryBook, TimeBook, WallBook, CpuBook
<1> QED
  BY <1>1, <1>2, <1>3, <1>4, <1>5, <1>6, <1>7, <1>8, <1>9 DEF Next, Step

-----------------------------------------------------------------------------
(* The theorems. *)

\* The type and the books hold in every state of the collector's life.
THEOREM Invariance == Spec => []IInv
<1>1. Init => IInv
  BY TypeInit, BooksInit DEF IInv
<1>2. IInv /\ [Next]_vars => IInv'
  BY TypeStep, BooksStep DEF IInv, Books
<1> QED
  BY <1>1, <1>2, PTL DEF Spec

\* The collector's values keep their types; the noise due on a time stays
\* positive.
THEOREM TypeCorrect == Spec => []TypeOK
BY Invariance, PTL DEF IInv

\* A memory reading of spx_metric_collector_collect is what the script holds,
\* for every way memory comes and goes.
THEOREM MemoryReadingsAreExact == Spec => []MemoryIsExact
<1>1. IInv => MemoryIsExact
  <2> SUFFICES ASSUME IInv, where = "read", "zm" \in enabled
               PROVE  values["zm"] = spent["zm"]
    BY DEF MemoryIsExact
  <2>1. "zm" \in enabled \cap Direct
    BY DEF Direct
  <2>2. /\ values["zm"] = last_values["zm"] - ref_values["zm"]
        /\ last_values["zm"] = source["zm"] /\ current_fixed_noise["zm"] = 0
        /\ spent["zm"]
             = source["zm"] - ref_values["zm"] - current_fixed_noise["zm"]
    BY <2>1 DEF IInv, Books, LastReading, JustRead, MemoryBook
  <2> QED
    BY <2>1, <2>2, DirectIntegers DEF IInv
<1> QED
  BY <1>1, Invariance, PTL

\* A time reading is within what the script spent, and wall time lacks at most
\* the fixed noise charged.
THEOREM TimeReadingsAreBounded == Spec => []TimeIsBounded
<1>1. IInv => TimeIsBounded
  <2> SUFFICES ASSUME IInv, where = "read"
               PROVE  /\ \A m \in enabled \cap {"wt", "ct"} : values[m] <= spent[m]
                      /\ "wt" \in enabled => values["wt"] >= spent["wt"] - charged
    BY DEF TimeIsBounded
  <2>1. ASSUME NEW m \in enabled \cap {"wt", "ct"}
        PROVE  values[m] <= spent[m]
    BY <2>1 DEF IInv, Books, LastReading, TimeBook
  <2>2. ASSUME "wt" \in enabled
        PROVE  values["wt"] >= spent["wt"] - charged
    <3>1. "wt" \in enabled \cap Direct
      BY <2>2 DEF Direct
    <3>2. /\ values["wt"] = last_values["wt"] - ref_values["wt"]
          /\ last_values["wt"] = source["wt"] /\ current_fixed_noise["wt"] = 0
          /\ spent["wt"] - charged
               <= source["wt"] - ref_values["wt"] - current_fixed_noise["wt"]
      BY <2>2, <3>1 DEF IInv, Books, LastReading, JustRead, WallBook
    <3> QED
      BY <3>1, <3>2, DirectIntegers DEF IInv
  <2> QED
    BY <2>1, <2>2
<1> QED
  BY <1>1, Invariance, PTL

\* The CPU time of a reading is within its wall time until a barrier is met.
THEOREM CpuReadingsAreWithinWall == Spec => []CpuTimeIsWithinWallTime
<1>1. IInv => CpuTimeIsWithinWallTime
  BY DEF IInv, Books, LastReading, CpuBook, CpuTimeIsWithinWallTime
<1> QED
  BY <1>1, Invariance, PTL

\* What a reading tells of a time, and what the one before did.
LEMMA NextReading ==
  ASSUME IInv, [Next]_vars, where = "running", where' = "read",
         NEW m \in enabled \cap {"wt", "ct"}
  PROVE  /\ source[m] \in Int /\ last_values[m] \in Int /\ ref_values[m] \in Int
         /\ last_values[m] <= source[m]
         /\ NoiseOf(m) \in Int /\ NoiseOf(m) <= source[m] - last_values[m]
         /\ values[m] = last_values[m] - ref_values[m]
         /\ values'[m] = source[m] - RefAfter[m]
<1>1. Collect
  BY DEF Next, Step, Create, CollectInCalibration, Calibrated,
         AfterCollect, Notified, Destroy, Elapse, vars
<1>2. TypeOK /\ CollectValues
  BY <1>1 DEF IInv, Collect
<1>3. m \in enabled \cap Direct
  BY DEF Direct
<1>4. source[m] \in Int /\ last_values[m] \in Int /\ ref_values[m] \in Int
  BY <1>2, <1>3, DirectIntegers
<1>5. values'[m] = source[m] - RefAfter[m]
  BY <1>2, <1>3, CollectType
<1>6. values[m] = last_values[m] - ref_values[m] /\ last_values[m] <= source[m]
  BY DEF IInv, Books, LastReading, ClocksForward
<1>7. current_fixed_noise[m] \in Int
  BY <1>2 DEF TypeOK, Metrics
<1>8. NoiseOf(m) \in Int /\ NoiseOf(m) <= source[m] - last_values[m]
  BY <1>2, <1>4, <1>7, NoiseFacts
<1> QED
  BY <1>4, <1>5, <1>6, <1>8

\* Wall time never goes back between two readings, and CPU time by no more than
\* its clock ran ahead of the wall clock.
THEOREM ReadingsGoForward == Spec => ReadingsHardlyGoBack
<1>1. ASSUME IInv, [Next]_vars, where = "running", where' = "read", "wt" \in enabled
      PROVE  values'["wt"] >= values["wt"]
  <2>1. RefAfter["wt"] = ref_values["wt"] + NoiseOf("wt")
    BY <1>1, RefFacts DEF IInv
  <2> QED
    BY <1>1, <2>1, NextReading
<1>2. ASSUME IInv, [Next]_vars, where = "running", where' = "read", "ct" \in enabled
      PROVE  \/ values'["ct"] >= values["ct"]
             \/ "wt" \in enabled /\ values'["ct"] >= values["ct"] - RanAhead
  <2>1. RefAfter["ct"] = ref_values["ct"] + Surplus + NoiseOf("ct")
    BY <1>2, RefFacts DEF IInv
  <2>2. CASE Surplus = 0
    BY <1>2, <2>1, <2>2, NextReading
  <2>3. CASE Surplus # 0
    <3>1. "wt" \in enabled /\ Surplus = Diff("ct") - Diff("wt")
      BY <2>3 DEF Surplus
    <3>2. /\ Diff("ct") = source["ct"] - last_values["ct"]
          /\ Diff("wt") = source["wt"] - last_values["wt"]
      BY <1>2, <3>1, DiffFacts DEF IInv, Direct, Metrics
    <3>3. Surplus = RanAhead /\ Surplus \in Int
      BY <1>2, <3>1, <3>2, SurplusFacts DEF RanAhead, IInv
    <3> QED
      BY <1>2, <2>1, <3>1, <3>3, NextReading
  <2> QED
    BY <2>2, <2>3
<1>3. IInv /\ [Next]_vars
        => [where = "running" /\ where' = "read" =>
              /\ "wt" \in enabled => values'["wt"] >= values["wt"]
              /\ "ct" \in enabled =>
                   \/ values'["ct"] >= values["ct"]
                   \/ "wt" \in enabled /\ values'["ct"] >= values["ct"] - RanAhead]_vars
  BY <1>1, <1>2
<1> QED
  BY <1>3, Invariance, PTL DEF Spec, ReadingsHardlyGoBack

=============================================================================
