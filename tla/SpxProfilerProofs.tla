-------------------------- MODULE SpxProfilerProofs --------------------------
(***************************************************************************)
(* Proofs about the tracer, for any functions, stack capacity, depth       *)
(* limit, table capacity and metric movement, and about the sampler that   *)
(* drives it, for any hash codes too.                                      *)
(***************************************************************************)
EXTENDS SpxSamplerReport, SpxTracerExclusive, FiniteSetTheorems, SequenceTheorems,
        WellFoundedInduction, TLAPS

\* A function with an open call has an outermost one.
HasOutermost ==
  \A f \in Functions :
    FramesOf(frames, f, Recorded) # {} =>
      \E i \in Slots : Outermost(frames, f, Recorded, i)

\* The inductive invariant: types, array bounds, consistency, and the
\* existence of the frame that inclusive time is counted from.
IInv ==
  /\ TypeOK
  /\ IsFiniteSet(table)
  /\ WritesInBounds
  /\ Consistent
  /\ HasOutermost

-----------------------------------------------------------------------------
(* Facts about the constants and the pure operators. *)

\* The depth limit lies within the stack.
LEMMA MaxDepthFits == MaxDepth \in 1 .. StackCapacity
  BY TracerAssumption DEF MaxDepth

LEMMA FramesOfFinite ==
  ASSUME NEW fr, NEW f, NEW n
  PROVE  /\ IsFiniteSet(FramesOf(fr, f, n))
         /\ Cardinality(FramesOf(fr, f, n)) \in Nat
         /\ Cardinality(FramesOf(fr, f, n)) = 0 <=> FramesOf(fr, f, n) = {}
<1>1. IsFiniteSet(Slots)
  BY FS_Interval, TracerAssumption DEF Slots
<1>2. FramesOf(fr, f, n) \subseteq Slots
  BY DEF FramesOf
<1>3. IsFiniteSet(FramesOf(fr, f, n))
  BY <1>1, <1>2, FS_Subset
<1>4. QED
  BY <1>3, FS_CardinalityType, FS_EmptySet

\* There is at most one outermost frame, so OpenInclusive counts from it.
LEMMA OutermostDecides ==
  ASSUME NEW fr, NEW f, NEW n, NEW cur, NEW i \in Slots,
         Outermost(fr, f, n, i)
  PROVE  OpenInclusive(fr, f, n, cur) = cur - fr[i].start
<1>1. \A j \in Slots : Outermost(fr, f, n, j) => j = i
  BY TracerAssumption DEF Outermost, FramesOf, Slots
<1>2. (CHOOSE j \in Slots : Outermost(fr, f, n, j)) = i
  BY <1>1
<1>3. QED
  BY <1>2 DEF OpenInclusive

LEMMA NothingOpen ==
  ASSUME NEW fr, NEW f, NEW n, NEW cur, FramesOf(fr, f, n) = {}
  PROVE  OpenInclusive(fr, f, n, cur) = 0
  BY DEF OpenInclusive, Outermost

\* Ending the top frame leaves the entries and the starts below it alone.
LEMMA EndKeepsFrames ==
  ASSUME TypeOK, NEW n \in Slots, NEW cur \in Int
  PROVE  /\ FramesAfter(n, cur) \in [Slots -> Frame]
         /\ \A i \in Slots : /\ FramesAfter(n, cur)[i].entry = frames[i].entry
                             /\ FramesAfter(n, cur)[i].start = frames[i].start
<1>1. \A i \in Slots : ChildrenAfter(i, n, cur) \in Int
  BY DEF ChildrenAfter, Inc, Exc, TypeOK, Frame
<1>2. QED
  BY <1>1 DEF FramesAfter, TypeOK, Frame

LEMMA StatsAfterType ==
  ASSUME TypeOK, NEW n \in Slots, NEW cur \in Int,
         frames[n].entry \in Functions
  PROVE  StatsAfter(n, cur) \in [Functions -> Stats]
<1> DEFINE e == frames[n].entry
           cycle == Cardinality(FramesOf(frames, e, n))
           s == stats[e]
           new == [called |-> s.called + 1,
                   max_cycle_depth |-> IF s.max_cycle_depth < cycle
                                       THEN cycle ELSE s.max_cycle_depth,
                   inc |-> s.inc + (IF cycle = 0 THEN Inc(frames[n], cur) ELSE 0),
                   exc |-> s.exc + (IF cycle = 0 THEN Exc(frames[n], cur) ELSE 0)]
<1>1. cycle \in Nat
  BY FramesOfFinite
<1>2. /\ Inc(frames[n], cur) \in Int
      /\ Exc(frames[n], cur) \in Int
  BY DEF Inc, Exc, TypeOK, Frame
<1>3. s \in Stats
  BY DEF TypeOK
<1>4. StatsAfter(n, cur) = [stats EXCEPT ![e] = new]
  BY DEF StatsAfter
<1> HIDE DEF cycle
<1>5. new \in Stats
  BY <1>1, <1>2, <1>3 DEF Stats
<1> HIDE DEF new
<1>6. QED
  BY <1>4, <1>5 DEF TypeOK

-----------------------------------------------------------------------------
(* The inductive invariant. *)

LEMMA InitIInv == Init => IInv
<1> SUFFICES ASSUME Init PROVE IInv
  OBVIOUS
<1>1. TypeOK
  <2>1. frames \in [Slots -> Frame]
    BY DEF Init, Frame, EmptyFrame, Entries
  <2>2. stats \in [Functions -> Stats]
    BY DEF Init, Stats, ZeroStats
  <2>3. reported \in Seq(Functions)
    BY DEF Init
  <2>4. called \in Nat /\ depth \in Nat /\ last \in Int
    BY DEF Init
  <2>5. QED
    BY <2>1, <2>2, <2>3, <2>4, Zenon DEF Init, TypeOK
<1>2. IsFiniteSet(table) /\ Cardinality(table) = 0
  BY FS_EmptySet DEF Init
<1>3. WritesInBounds
  BY <1>2, TracerAssumption DEF Init, WritesInBounds, Slots
<1>4. Recorded = 0
  BY MaxDepthFits DEF Init, Recorded
<1>5. Consistent
  <2>1. depth < MaxDepth /\ ~(\E i \in Slots : i < Recorded)
    BY <1>4, MaxDepthFits, TracerAssumption DEF Init, Slots
  <2>2. QED
    BY <2>1, Zenon DEF Init, Consistent
<1>6. HasOutermost
  BY <1>4 DEF HasOutermost, FramesOf, Slots
<1>7. QED
  BY <1>1, <1>2, <1>3, <1>5, <1>6 DEF IInv

\* The table a lookup leaves: finite, within capacity, and it holds the entry
\* that the lookup returned.
LEMMA LookupFits ==
  ASSUME IInv, NEW f \in Functions
  PROVE  /\ TableBefore(f) \subseteq Functions
         /\ IsFiniteSet(TableAfter(f))
         /\ Cardinality(TableAfter(f)) <= FuncCapacity
         /\ TableBefore(f) \subseteq TableAfter(f)
         /\ TableAfter(f) \subseteq TableBefore(f) \cup {f}
         /\ EntryFor(f, TableBefore(f)) \in TableAfter(f) \cup {NoEntry}
         /\ EntryFor(f, TableBefore(f)) \in {f, NoEntry}
<1> DEFINE T == TableBefore(f)
<1>1. /\ IsFiniteSet(T)
      /\ T \subseteq Functions
      /\ Cardinality(T) <= FuncCapacity
  BY FS_EmptySet, TracerAssumption
     DEF IInv, WritesInBounds, TypeOK, TableBefore, CalibratedTable
<1>2. Cardinality(T) \in Nat
  BY <1>1, FS_CardinalityType
<1>3. CASE EntryFor(f, T) = NoEntry
  BY <1>1, <1>3 DEF TableAfter
<1>4. CASE EntryFor(f, T) # NoEntry
  <2>1. TableAfter(f) = T \cup {f} /\ EntryFor(f, T) = f
    BY <1>4 DEF TableAfter, EntryFor
  <2>2. IsFiniteSet(T \cup {f}) /\
        Cardinality(T \cup {f}) =
          IF f \in T THEN Cardinality(T) ELSE Cardinality(T) + 1
    BY <1>1, FS_AddElement
  <2>3. f \in T \/ Cardinality(T) < FuncCapacity
    BY <1>4 DEF EntryFor
  <2>4. Cardinality(T \cup {f}) <= FuncCapacity
    BY <1>1, <1>2, <2>2, <2>3, TracerAssumption
  <2>5. QED
    BY <1>1, <2>1, <2>2, <2>4
<1>5. QED
  BY <1>3, <1>4


\* Stacks fr with n frames and fr2 with one more, of entry e, have the same
\* outermost frames, but for that of e when e was not open in fr.
LEMMA PushOutermost ==
  ASSUME NEW fr, NEW fr2, NEW n \in Slots, NEW e, NEW g,
         \A i \in Slots : i < n => fr2[i].entry = fr[i].entry,
         fr2[n].entry = e
  PROVE  /\ \A i \in Slots : Outermost(fr, g, n, i) => Outermost(fr2, g, n + 1, i)
         /\ \A i \in Slots : Outermost(fr2, g, n + 1, i) /\ i # n
                               => Outermost(fr, g, n, i)
         /\ Outermost(fr2, g, n + 1, n) => g = e /\ FramesOf(fr, g, n) = {}
         /\ FramesOf(fr, g, n) = {} /\ g = e => Outermost(fr2, g, n + 1, n)
         /\ g # e => FramesOf(fr2, g, n + 1) = FramesOf(fr, g, n)
         /\ g = e => FramesOf(fr2, g, n + 1) = FramesOf(fr, g, n) \cup {n}
<1>1. /\ Slots \subseteq Nat
      /\ \A i \in Slots : i < n + 1 <=> (i < n \/ i = n)
      /\ ~(n < n)
  BY TracerAssumption DEF Slots
<1>2. g # e => FramesOf(fr2, g, n + 1) = FramesOf(fr, g, n)
  BY <1>1, Zenon DEF FramesOf
<1>3. g = e => FramesOf(fr2, g, n + 1) = FramesOf(fr, g, n) \cup {n}
  BY <1>1, Zenon DEF FramesOf
<1>4. \A i \in FramesOf(fr, g, n) : i \in Slots /\ i < n
  BY DEF FramesOf
<1> HIDE DEF FramesOf
<1>5. \A i \in Slots : Outermost(fr, g, n, i) => Outermost(fr2, g, n + 1, i)
  BY <1>1, <1>2, <1>3, <1>4 DEF Outermost
<1>6. \A i \in Slots : Outermost(fr2, g, n + 1, i) /\ i # n
                         => Outermost(fr, g, n, i)
  BY <1>1, <1>2, <1>3, <1>4 DEF Outermost
<1>7. Outermost(fr2, g, n + 1, n) => g = e /\ FramesOf(fr, g, n) = {}
  <2> SUFFICES ASSUME Outermost(fr2, g, n + 1, n)
               PROVE  g = e /\ FramesOf(fr, g, n) = {}
    OBVIOUS
  <2>1. /\ n \in FramesOf(fr2, g, n + 1)
        /\ \A j \in FramesOf(fr2, g, n + 1) : n <= j
    BY DEF Outermost
  <2>2. g = e
    BY <1>1, <1>2, <1>4, <2>1
  <2>3. ASSUME NEW j \in FramesOf(fr, g, n) PROVE FALSE
    <3>1. j \in Nat /\ n \in Nat /\ j < n
      BY <1>1, <1>4
    <3>2. n <= j
      BY <1>3, <2>1, <2>2
    <3>3. QED
      BY <3>1, <3>2
  <2>4. QED
    BY <2>2, <2>3
<1>8. FramesOf(fr, g, n) = {} /\ g = e => Outermost(fr2, g, n + 1, n)
  BY <1>1, <1>3 DEF Outermost
<1>9. QED
  BY <1>2, <1>3, <1>5, <1>6, <1>7, <1>8

\* What a recorded call does to the stack.
LEMMA StartFacts ==
  ASSUME IInv, NEW f \in Functions, NEW d \in Deltas, CallStart(f, d)
  PROVE  /\ depth \in Slots /\ depth < MaxDepth
         /\ Recorded = depth /\ Recorded' = depth + 1
         /\ last' = last + d /\ last' \in Int
         /\ frames' \in [Slots -> Frame]
         /\ \A i \in Slots : i < depth => frames'[i] = frames[i]
         /\ frames'[depth].entry = EntryFor(f, TableBefore(f))
         /\ EntryFor(f, TableBefore(f)) # NoEntry
              => frames'[depth].start = last'
<1> DEFINE e == EntryFor(f, TableBefore(f))
<1>1. phase = "running" /\ active /\ TypeOK /\ Consistent
  BY DEF CallStart, IInv
<1>2. depth \in Nat /\ depth < MaxDepth
  BY <1>1 DEF Consistent, TypeOK
<1>3. depth \in Slots
  BY <1>2, MaxDepthFits, TracerAssumption DEF Slots
<1>4. depth' = depth + 1
  BY DEF CallStart, Descend
<1>5. Recorded = depth /\ Recorded' = depth + 1
  BY <1>2, <1>4, MaxDepthFits, TracerAssumption DEF Recorded, MaxDepth
<1>6. last' = last + d /\ last' \in Int
  BY <1>1, TracerAssumption DEF CallStart, TypeOK
<1>7. frames' = [frames EXCEPT ![depth] = StartedFrame(f, last + d)]
  BY DEF CallStart
<1>8. e \in Entries
  BY DEF EntryFor, Entries
<1>9. /\ StartedFrame(f, last + d) \in Frame
      /\ StartedFrame(f, last + d).entry = e
      /\ e # NoEntry => StartedFrame(f, last + d).start = last'
  <2>1. frames[depth] \in Frame /\ last + d \in Int
    BY <1>1, <1>3, <1>6 DEF TypeOK
  <2>2. CASE e = NoEntry
    <3>1. StartedFrame(f, last + d) = [frames[depth] EXCEPT !.entry = NoEntry]
      BY <2>2 DEF StartedFrame
    <3>2. QED
      BY <2>1, <2>2, <3>1 DEF Frame, Entries
  <2>3. CASE e # NoEntry
    <3>1. StartedFrame(f, last + d)
            = [entry |-> e, start |-> last + d, children |-> 0]
      BY <2>3 DEF StartedFrame
    <3>2. QED
      BY <1>6, <1>8, <2>1, <3>1 DEF Frame
  <2>4. QED
    BY <2>2, <2>3
<1>10. QED
  BY <1>1, <1>2, <1>3, <1>5, <1>6, <1>7, <1>9, TracerAssumption
     DEF TypeOK, Slots

\* What the end of a recorded call does to the stack.
LEMMA EndFacts ==
  ASSUME IInv, depth > 0, NEW d \in Deltas, EndRecorded(d)
  PROVE  /\ depth - 1 \in Slots /\ depth' = depth - 1
         /\ Recorded = depth /\ Recorded' = depth - 1
         /\ last' = last + d /\ last' \in Int
         /\ frames' \in [Slots -> Frame]
         /\ \A i \in Slots : /\ frames'[i].entry = frames[i].entry
                             /\ frames'[i].start = frames[i].start
         /\ frames[depth - 1].entry \in table \cup {NoEntry}
         /\ frames[depth - 1].entry \in Entries
<1> DEFINE n == depth - 1
<1>1. TypeOK /\ Consistent
  BY DEF IInv
<1>2. n \in Nat /\ n < MaxDepth /\ depth' = n
  BY <1>1 DEF EndRecorded, TypeOK
<1>3. n \in Slots
  BY <1>2, MaxDepthFits, TracerAssumption DEF Slots
<1>4. Recorded = depth /\ Recorded' = n
  BY <1>1, <1>2, MaxDepthFits, TracerAssumption DEF Recorded, MaxDepth, TypeOK
<1>5. last' = last + d /\ last' \in Int
  BY <1>1, TracerAssumption DEF EndRecorded, TypeOK
<1>6. frames' = frames \/ frames' = FramesAfter(n, last + d)
  BY DEF EndRecorded
<1>7. /\ frames' \in [Slots -> Frame]
      /\ \A i \in Slots : /\ frames'[i].entry = frames[i].entry
                          /\ frames'[i].start = frames[i].start
  BY <1>1, <1>3, <1>5, <1>6, EndKeepsFrames DEF TypeOK
<1>8. frames[n].entry \in table \cup {NoEntry} /\ frames[n].entry \in Entries
  BY <1>1, <1>2, <1>3, <1>4 DEF Consistent, TypeOK, Frame
<1>9. QED
  BY <1>2, <1>3, <1>4, <1>5, <1>7, <1>8

\* A recorded call preserves the invariant.
LEMMA CallStartKeeps ==
  ASSUME IInv, NEW f \in Functions, NEW d \in Deltas, CallStart(f, d)
  PROVE  IInv'
<1> DEFINE e == EntryFor(f, TableBefore(f))
<1>1. TypeOK /\ WritesInBounds /\ Consistent /\ HasOutermost
  BY DEF IInv
<1>2. /\ depth' = depth + 1 /\ active' = (depth + 1 < MaxDepth)
      /\ phase' = phase /\ calibrated' = TRUE /\ called' = called + 1
      /\ table' = TableAfter(f)
  BY DEF CallStart, Descend
<1>3. TypeOK'
  <2>1. stats' \in [Functions -> Stats]
    BY <1>1 DEF CallStart, TypeOK, Stats, ZeroStats
  <2>2. reported' \in Seq(Functions)
    BY <1>1 DEF CallStart, TypeOK, EntryFor
  <2>3. frames' \in [Slots -> Frame] /\ last' \in Int
    BY StartFacts
  <2>4. table' \subseteq Functions
    BY <1>2, LookupFits
  <2>5. called' \in Nat /\ depth' \in Nat
    BY <1>1, <1>2 DEF TypeOK
  <2>6. active' \in BOOLEAN /\ calibrated' \in BOOLEAN /\ phase' = phase
    BY <1>2
  <2>7. QED
    BY <1>1, <2>1, <2>2, <2>3, <2>4, <2>5, <2>6, Zenon DEF TypeOK
<1>4. IsFiniteSet(table') /\ Cardinality(table') <= FuncCapacity
  BY <1>2, LookupFits
<1>5. active' <=> depth' < MaxDepth
  BY <1>2
<1>6. WritesInBounds'
  <2>1. depth' < MaxDepth => depth' \in Slots
    BY <1>1, <1>2, MaxDepthFits, TracerAssumption DEF TypeOK, Slots
  <2>2. QED
    BY <1>4, <1>5, <2>1, Zenon DEF WritesInBounds
<1>7. Consistent'
  <2>1. ASSUME NEW i \in Slots, i < Recorded'
        PROVE  frames'[i].entry \in table' \cup {NoEntry}
    <3>1. CASE i = depth
      BY <1>2, <3>1, StartFacts, LookupFits
    <3>2. CASE i # depth
      <4>1. i < depth
        BY <1>1, <2>1, <3>2, StartFacts, TracerAssumption DEF Slots, TypeOK
      <4>2. calibrated
        BY <1>1, <4>1, TracerAssumption DEF Consistent, Slots
      <4>3. frames'[i] = frames[i] /\ frames[i].entry \in table \cup {NoEntry}
        BY <1>1, <4>1, StartFacts DEF Consistent
      <4>4. table \subseteq table'
        BY <1>2, <4>2, LookupFits DEF TableBefore
      <4>5. QED
        BY <4>3, <4>4
    <3>3. QED
      BY <3>1, <3>2
  <2>2. ASSUME NEW g \in Functions \ table'
        PROVE  stats'[g] = ZeroStats
    <3>1. g \notin TableAfter(f)
      BY <1>2, <2>2
    <3>2. stats'[g] = stats[g]
      BY <1>1, <3>1, LookupFits DEF CallStart, TypeOK
    <3>3. g \notin table
      BY <1>1, <3>1, LookupFits DEF TableBefore, Consistent
    <3>4. QED
      BY <1>1, <3>2, <3>3 DEF Consistent
  <2>3. QED
    BY <1>2, <1>5, <2>1, <2>2, Zenon DEF Consistent
<1>8. HasOutermost'
  <2> SUFFICES ASSUME NEW g \in Functions, FramesOf(frames', g, Recorded') # {}
               PROVE  \E i \in Slots : Outermost(frames', g, Recorded', i)
    BY Zenon DEF HasOutermost
  <2>1. /\ \A i \in Slots : Outermost(frames, g, depth, i)
                            => Outermost(frames', g, depth + 1, i)
        /\ FramesOf(frames, g, depth) = {} /\ g = e
              => Outermost(frames', g, depth + 1, depth)
        /\ g # e => FramesOf(frames', g, depth + 1) = FramesOf(frames, g, depth)
    BY StartFacts, PushOutermost
  <2>2. CASE FramesOf(frames, g, depth) = {}
    BY <2>1, <2>2, StartFacts
  <2>3. CASE FramesOf(frames, g, depth) # {}
    BY <1>1, <2>1, <2>3, StartFacts DEF HasOutermost
  <2>4. QED
    BY <2>2, <2>3
<1>9. QED
  BY <1>3, <1>4, <1>6, <1>7, <1>8, Zenon DEF IInv

\* The end of a recorded call preserves the invariant, in call_end and in
\* finalize alike.
LEMMA EndRecordedKeeps ==
  ASSUME IInv, depth > 0, NEW d \in Deltas, EndRecorded(d), phase' = phase
  PROVE  IInv'
<1> DEFINE n == depth - 1
           e == frames[n].entry
<1>1. TypeOK /\ WritesInBounds /\ Consistent /\ HasOutermost
  BY DEF IInv
<1>2. /\ depth' = n /\ active' = TRUE /\ n < MaxDepth
      /\ calibrated' = calibrated /\ called' = called /\ table' = table
  BY DEF EndRecorded
<1>3. e # NoEntry => e \in table /\ e \in Functions
  BY <1>1, EndFacts DEF TypeOK
<1>4. TypeOK'
  <2>1. stats' \in [Functions -> Stats]
    <3>1. stats' = stats \/ (e # NoEntry /\ stats' = StatsAfter(n, last + d))
      BY DEF EndRecorded
    <3>2. CASE stats' = stats
      BY <1>1, <3>2 DEF TypeOK
    <3>3. CASE e # NoEntry /\ stats' = StatsAfter(n, last + d)
      BY <1>1, <1>3, <3>3, EndFacts, StatsAfterType
    <3>4. QED
      BY <3>1, <3>2, <3>3
  <2>2. reported' \in Seq(Functions)
    <3>1. reported \in Seq(Functions) /\ Len(reported) \in Nat
      BY <1>1 DEF TypeOK
    <3>2. SubSeq(reported, 1, Len(reported) - 1) \in Seq(Functions)
      BY <3>1
    <3>3. QED
      BY <3>1, <3>2 DEF EndRecorded
  <2>3. /\ frames' \in [Slots -> Frame] /\ last' \in Int
        /\ depth' \in Nat
    BY <1>2, EndFacts, TracerAssumption DEF Slots
  <2>4. QED
    BY <1>1, <1>2, <2>1, <2>2, <2>3, Zenon DEF TypeOK
<1>5. WritesInBounds' /\ IsFiniteSet(table')
  BY <1>1, <1>2, EndFacts, Zenon DEF WritesInBounds, IInv
<1>6. Consistent'
  <2>1. calibrated
    BY <1>1, <1>2, EndFacts, TracerAssumption DEF Consistent, Slots
  <2>2. ASSUME NEW i \in Slots, i < Recorded'
        PROVE  frames'[i].entry \in table' \cup {NoEntry}
    <3>1. i < Recorded
      BY <1>1, <2>2, EndFacts, TracerAssumption DEF TypeOK, Slots
    <3>2. QED
      BY <1>1, <1>2, <3>1, EndFacts DEF Consistent
  <2>3. ASSUME NEW f \in Functions \ table'
        PROVE  stats'[f] = ZeroStats
    <3>1. stats'[f] = stats[f]
      BY <1>1, <1>2, <1>3, <2>3 DEF EndRecorded, StatsAfter, TypeOK
    <3>2. QED
      BY <1>1, <1>2, <2>3, <3>1 DEF Consistent
  <2>4. active' <=> depth' < MaxDepth
    BY <1>2
  <2>5. QED
    BY <1>2, <2>1, <2>2, <2>3, <2>4, Zenon DEF Consistent
<1>7. HasOutermost'
  <2> SUFFICES ASSUME NEW g \in Functions, FramesOf(frames', g, Recorded') # {}
               PROVE  \E i \in Slots : Outermost(frames', g, Recorded', i)
    BY Zenon DEF HasOutermost
  <2>1. /\ \A i \in Slots : Outermost(frames, g, n + 1, i) /\ i # n
                            => Outermost(frames', g, n, i)
        /\ Outermost(frames, g, n + 1, n) => FramesOf(frames', g, n) = {}
        /\ g # e => FramesOf(frames, g, n + 1) = FramesOf(frames', g, n)
        /\ g = e => FramesOf(frames, g, n + 1) = FramesOf(frames', g, n) \cup {n}
    <3>1. /\ n \in Slots /\ frames[n].entry = e
          /\ \A i \in Slots : i < n => frames[i].entry = frames'[i].entry
      BY EndFacts
    <3> HIDE DEF n, e
    <3>2. QED
      BY <3>1, PushOutermost
  <2>2. n + 1 = depth /\ Recorded = depth /\ Recorded' = n
    BY <1>1, EndFacts DEF TypeOK
  <2>3. FramesOf(frames, g, Recorded) # {}
    BY <2>1, <2>2
  <2>4. PICK i \in Slots : Outermost(frames, g, n + 1, i)
    BY <1>1, <2>2, <2>3 DEF HasOutermost
  <2>5. i # n
    BY <2>1, <2>2, <2>4
  <2>6. QED
    BY <2>1, <2>2, <2>4, <2>5
<1>8. QED
  BY <1>4, <1>5, <1>6, <1>7, Zenon DEF IInv

\* Steps that leave the recorded calls alone: they keep the frames, the table
\* and the number of recorded calls.
LEMMA QuietKeeps ==
  ASSUME IInv,
         UNCHANGED <<calibrated, called, frames, table, stats, last, reported>>,
         depth' \in Nat, Recorded' = Recorded,
         active' \in BOOLEAN, phase' \in {"running", "unwinding", "finalized", "dead"},
         phase' = "running" => (active' <=> depth' < MaxDepth),
         ~calibrated => depth' = 0
  PROVE  IInv'
<1>1. TypeOK /\ WritesInBounds /\ Consistent /\ HasOutermost
  BY DEF IInv
<1>2. TypeOK' /\ IsFiniteSet(table')
  BY <1>1 DEF TypeOK, IInv
<1>3. depth' < MaxDepth => depth' \in Slots
  BY MaxDepthFits, TracerAssumption DEF Slots
<1>4. WritesInBounds'
  BY <1>1, <1>3, Zenon DEF WritesInBounds
<1>5. Consistent'
  BY <1>1, Zenon DEF Consistent
<1>6. HasOutermost'
  BY <1>1, Zenon DEF HasOutermost
<1>7. QED
  BY <1>2, <1>4, <1>5, <1>6, Zenon DEF IInv

\* Past the depth limit only the depth moves, and the recorded calls stay.
LEMMA StartTooDeepFacts ==
  ASSUME IInv, NEW f, CallStartTooDeep(f)
  PROVE  /\ depth' \in Nat /\ Recorded' = Recorded /\ calibrated
         /\ phase' = phase /\ (active' <=> depth' < MaxDepth)
         /\ UNCHANGED <<calibrated, called, frames, table, stats, last, reported>>
<1>1. TypeOK /\ Consistent
  BY DEF IInv
<1>2. depth \in Nat /\ MaxDepth \in Nat /\ MaxDepth > 0
  BY <1>1, MaxDepthFits, TracerAssumption DEF TypeOK
<1>3. ~(depth < MaxDepth)
  BY <1>1, Zenon DEF CallStartTooDeep, Consistent
<1>4. depth' = depth + 1 /\ (active' <=> depth' < MaxDepth) /\ phase' = phase
  BY DEF CallStartTooDeep, Descend
<1>5. Recorded' = Recorded /\ depth # 0 /\ depth' \in Nat
  BY <1>2, <1>3, <1>4 DEF Recorded, MaxDepth
<1>6. calibrated
  BY <1>1, <1>5, Zenon DEF Consistent
<1>7. QED
  BY <1>4, <1>5, <1>6 DEF CallStartTooDeep

LEMMA EndTooDeepFacts ==
  ASSUME IInv, depth > 0, EndTooDeep
  PROVE  /\ depth' \in Nat /\ Recorded' = Recorded /\ calibrated
         /\ active' = FALSE /\ (active' <=> depth' < MaxDepth)
         /\ UNCHANGED <<calibrated, called, frames, table, stats, last, reported>>
<1>1. TypeOK /\ Consistent
  BY DEF IInv
<1>2. depth \in Nat /\ MaxDepth \in Nat /\ MaxDepth > 0
  BY <1>1, MaxDepthFits, TracerAssumption DEF TypeOK
<1>3. depth - 1 >= MaxDepth /\ depth' = depth - 1 /\ active' = FALSE
  BY DEF EndTooDeep
<1>4. Recorded' = Recorded /\ depth # 0 /\ depth' \in Nat
  BY <1>2, <1>3 DEF Recorded, MaxDepth
<1>5. ~(depth' < MaxDepth)
  BY <1>2, <1>3
<1>6. calibrated
  BY <1>1, <1>4, Zenon DEF Consistent
<1>7. QED
  BY <1>3, <1>4, <1>5, <1>6 DEF EndTooDeep

LEMMA StepIInv == IInv /\ [Step]_vars => IInv'
<1> SUFFICES ASSUME IInv, [Step]_vars PROVE IInv'
  OBVIOUS
<1>0. TypeOK /\ Consistent
  BY DEF IInv
<1>1. ASSUME NEW f \in Functions, NEW d \in Deltas, CallStart(f, d) PROVE IInv'
  BY <1>1, CallStartKeeps
<1>2. ASSUME NEW f \in Functions, CallStartTooDeep(f) PROVE IInv'
  <2>1. active' \in BOOLEAN /\ phase' = "running"
    BY <1>2 DEF CallStartTooDeep, Descend
  <2>2. QED
    BY <1>2, <2>1, QuietKeeps, StartTooDeepFacts
<1>3. ASSUME NEW d \in Deltas, CallEnd(d) PROVE IInv'
  BY <1>3, EndRecordedKeeps DEF CallEnd
<1>4. ASSUME CallEndTooDeep PROVE IInv'
  <2>1. /\ EndTooDeep /\ depth > 0 /\ active' \in BOOLEAN
        /\ phase' = "running"
    BY <1>4 DEF CallEndTooDeep, EndTooDeep
  <2>2. QED
    BY <2>1, QuietKeeps, EndTooDeepFacts
<1>5. ASSUME BeginFinalize PROVE IInv'
  <2>1. Recorded' = Recorded /\ phase' = "unwinding" /\ active' \in BOOLEAN
    BY <1>5 DEF BeginFinalize, Recorded
  <2>2. QED
    BY <1>0, <1>5, <2>1, QuietKeeps DEF BeginFinalize, TypeOK, Consistent
<1>6. ASSUME NEW d \in Deltas, Unwind(d) PROVE IInv'
  <2>1. phase' = phase /\ phase = "unwinding" /\ depth > 0
    BY <1>6 DEF Unwind
  <2>2. CASE EndRecorded(d)
    BY <2>1, <2>2, EndRecordedKeeps
  <2>3. CASE EndTooDeep
    <3>1. active' \in BOOLEAN
      BY <2>3 DEF EndTooDeep
    <3>2. QED
      BY <2>1, <2>3, <3>1, QuietKeeps, EndTooDeepFacts
  <2>4. QED
    BY <1>6, <2>2, <2>3 DEF Unwind
<1>7. ASSUME EndFinalize PROVE IInv'
  <2>1. Recorded' = Recorded /\ phase' = "finalized"
    BY <1>7 DEF EndFinalize, Recorded
  <2>2. QED
    BY <1>0, <1>7, <2>1, QuietKeeps DEF EndFinalize, TypeOK, Consistent
<1>8. ASSUME CallEndBelowZero PROVE IInv'
  <2>1. Recorded' = Recorded /\ phase' = "dead" /\ active' \in BOOLEAN
    BY <1>0, <1>8 DEF CallEndBelowZero, Recorded, TypeOK
  <2>2. QED
    BY <1>0, <1>8, <2>1, QuietKeeps DEF CallEndBelowZero, TypeOK, Consistent
<1>9. CASE UNCHANGED vars
  <2>1. Recorded' = Recorded
    BY <1>9 DEF vars, Recorded
  <2>2. QED
    BY <1>0, <1>9, <2>1, QuietKeeps DEF vars, TypeOK, Consistent
<1>10. QED
  BY <1>1, <1>2, <1>3, <1>4, <1>5, <1>6, <1>7, <1>8, <1>9 DEF Step

\* The inductive invariant holds in every reachable state of the tracer.
THEOREM Invariance == Spec => []IInv
<1>1. [Next]_vars => [Step]_vars
  BY DEF Next
<1>2. QED
  BY <1>1, InitIInv, StepIInv, PTL DEF Spec

\* Type correctness of the tracer's state.
THEOREM TypeCorrect == Spec => []TypeOK
<1>1. IInv => TypeOK
  BY DEF IInv
<1>2. QED
  BY <1>1, Invariance, PTL

\* The tracer never writes past its frames or its function table, at any depth
\* of recursion and with any number of distinct functions.
THEOREM BoundsHold == Spec => []WritesInBounds
<1>1. IInv => WritesInBounds
  BY DEF IInv
<1>2. QED
  BY <1>1, Invariance, PTL

\* Recording is on exactly above the depth limit and open calls refer to
\* allotted entries.
THEOREM BooksConsistent == Spec => []Consistent
<1>1. IInv => Consistent
  BY DEF IInv
<1>2. QED
  BY <1>1, Invariance, PTL

-----------------------------------------------------------------------------
(* The tracer implements CallLedger. *)

LEMMA FunctionIsSeq ==
  ASSUME NEW S, NEW n \in Nat, NEW s \in [1 .. n -> S]
  PROVE  s \in Seq(S) /\ Len(s) = n
  BY SeqDef, LenProperties

\* The open calls are a sequence of as many entries as calls are recorded.
LEMMA OpenCallsFacts ==
  ASSUME IInv
  PROVE  /\ Recorded \in Nat /\ Recorded <= MaxDepth
         /\ OpenCalls \in Seq(Entries) /\ Len(OpenCalls) = Recorded
         /\ \A i \in 1 .. Recorded : /\ i - 1 \in Slots
                                     /\ OpenCalls[i] = frames[i - 1].entry
<1>1. TypeOK
  BY DEF IInv
<1>2. Recorded \in Nat /\ Recorded <= MaxDepth
  BY <1>1, MaxDepthFits, TracerAssumption DEF Recorded, TypeOK
<1>3. \A i \in 1 .. Recorded : i - 1 \in Slots
  BY <1>2, MaxDepthFits, TracerAssumption DEF Slots
<1>4. \A i \in Slots : frames[i].entry \in Entries
  BY <1>1 DEF TypeOK, Frame
<1>5. OpenCalls \in [1 .. Recorded -> Entries]
  BY <1>3, <1>4 DEF OpenCalls
<1>6. OpenCalls \in Seq(Entries) /\ Len(OpenCalls) = Recorded
  BY <1>2, <1>5, FunctionIsSeq
<1>7. QED
  BY <1>2, <1>3, <1>6 DEF OpenCalls

\* A function is open in the ledger just when one of its frames is recorded.
LEMMA OpenIff ==
  ASSUME IInv, NEW g
  PROVE  Ledger!IsOpen(g) <=> FramesOf(frames, g, Recorded) # {}
<1>1. DOMAIN OpenCalls = 1 .. Recorded
  BY DEF OpenCalls
<1>2. ASSUME Ledger!IsOpen(g)
      PROVE  FramesOf(frames, g, Recorded) # {}
  <2>1. PICK i \in 1 .. Recorded : OpenCalls[i] = g
    BY <1>1, <1>2 DEF Ledger!IsOpen
  <2>2. i - 1 \in FramesOf(frames, g, Recorded)
    BY <2>1, OpenCallsFacts DEF FramesOf
  <2>3. QED
    BY <2>2
<1>3. ASSUME FramesOf(frames, g, Recorded) # {}
      PROVE  Ledger!IsOpen(g)
  <2>1. PICK i \in Slots : i < Recorded /\ frames[i].entry = g
    BY <1>3 DEF FramesOf
  <2>2. i + 1 \in 1 .. Recorded /\ (i + 1) - 1 = i
    BY <2>1, OpenCallsFacts, TracerAssumption DEF Slots
  <2>3. OpenCalls[i + 1] = g
    BY <2>1, <2>2 DEF OpenCalls
  <2>4. QED
    BY <1>1, <2>2, <2>3 DEF Ledger!IsOpen
<1>4. QED
  BY <1>2, <1>3

\* A recorded call changes no totals: calibration leaves none behind.
LEMMA StartKeepsStats ==
  ASSUME IInv, NEW f \in Functions, NEW d \in Deltas, CallStart(f, d)
  PROVE  stats' = stats
<1>1. Consistent /\ TypeOK
  BY DEF IInv
<1>2. f \notin TableBefore(f) => f \notin table
  BY <1>1 DEF TableBefore, Consistent
<1>3. f \notin table => stats[f] = ZeroStats
  BY <1>1 DEF Consistent
<1>4. stats' = stats \/ (f \notin TableBefore(f) /\ stats' = [stats EXCEPT ![f] = ZeroStats])
  BY DEF CallStart
<1>5. QED
  BY <1>1, <1>2, <1>3, <1>4 DEF TypeOK

\* A recorded call enters the ledger, under its own name or as Untracked.
LEMMA StartEnters ==
  ASSUME IInv, IInv', NEW f \in Functions, NEW d \in Deltas, CallStart(f, d)
  PROVE  Ledger!Enter(EntryFor(f, TableBefore(f)), d)
<1> DEFINE e == EntryFor(f, TableBefore(f))
<1>0. TypeOK /\ HasOutermost /\ phase = "running" /\ phase' = "running"
  BY DEF IInv, CallStart
<1>1. /\ depth \in Slots /\ depth \in Nat
      /\ Recorded = depth /\ Recorded' = depth + 1
      /\ last' = last + d /\ last \in Int /\ d \in Int /\ last' \in Int
      /\ \A i \in Slots : i < depth => frames'[i] = frames[i]
      /\ frames'[depth].entry = e
      /\ e # NoEntry => frames'[depth].start = last'
      /\ stats' = stats
      /\ frames' \in [Slots -> Frame]
  BY <1>0, StartFacts, StartKeepsStats, TracerAssumption DEF TypeOK
<1>2. ASSUME NEW g \in Functions
      PROVE  InclusiveSoFar'[g] = InclusiveSoFar[g]
                                    + (IF Ledger!IsOpen(g) THEN d ELSE 0)
  <2>1. /\ \A i \in Slots : Outermost(frames, g, depth, i)
                            => Outermost(frames', g, depth + 1, i)
        /\ FramesOf(frames, g, depth) = {} /\ g = e
              => Outermost(frames', g, depth + 1, depth)
        /\ g # e => FramesOf(frames', g, depth + 1) = FramesOf(frames, g, depth)
    <3>1. /\ \A i \in Slots : i < depth => frames'[i].entry = frames[i].entry
          /\ frames'[depth].entry = e
          /\ depth \in Slots
      BY <1>1
    <3> HIDE DEF e
    <3>2. \A i \in Slots : Outermost(frames, g, depth, i)
                           => Outermost(frames', g, depth + 1, i)
      BY <3>1, PushOutermost
    <3>3. FramesOf(frames, g, depth) = {} /\ g = e
            => Outermost(frames', g, depth + 1, depth)
      BY <3>1, PushOutermost
    <3>4. g # e => FramesOf(frames', g, depth + 1) = FramesOf(frames, g, depth)
      BY <3>1, PushOutermost
    <3>5. QED
      BY <3>2, <3>3, <3>4
  <2>2. /\ InclusiveSoFar[g] = stats[g].inc + OpenInclusive(frames, g, depth, last)
        /\ InclusiveSoFar'[g]
              = stats[g].inc + OpenInclusive(frames', g, depth + 1, last')
    BY <1>1 DEF InclusiveSoFar
  <2>3. stats[g].inc \in Int
    BY <1>0 DEF TypeOK, Stats
  <2>4. CASE FramesOf(frames, g, depth) # {}
    <3>1. PICK i \in Slots : Outermost(frames, g, depth, i)
      BY <1>0, <1>1, <2>4 DEF HasOutermost
    <3>2. i < depth /\ frames'[i] = frames[i]
      BY <1>1, <3>1 DEF Outermost, FramesOf
    <3>3. OpenInclusive(frames, g, depth, last) = last - frames[i].start
      BY <3>1, OutermostDecides
    <3>4. OpenInclusive(frames', g, depth + 1, last') = last' - frames[i].start
      BY <2>1, <3>1, <3>2, OutermostDecides
    <3>5. frames[i].start \in Int
      BY <1>0 DEF TypeOK, Frame
    <3>6. Ledger!IsOpen(g)
      BY <1>1, <2>4, OpenIff
    <3>7. QED
      BY <1>1, <2>2, <2>3, <3>3, <3>4, <3>5, <3>6
  <2>5. CASE FramesOf(frames, g, depth) = {}
    <3>1. ~Ledger!IsOpen(g)
      BY <1>1, <2>5, OpenIff
    <3>2. OpenInclusive(frames, g, depth, last) = 0
      BY <2>5, NothingOpen
    <3>3. OpenInclusive(frames', g, depth + 1, last') = 0
      <4>1. CASE g = e
        <5>1. OpenInclusive(frames', g, depth + 1, last')
                = last' - frames'[depth].start
          BY <1>1, <2>1, <2>5, <4>1, OutermostDecides
        <5>2. frames'[depth].start = last'
          BY <1>1, <4>1, TracerAssumption
        <5>3. QED
          BY <1>1, <5>1, <5>2
      <4>2. CASE g # e
        BY <2>1, <2>5, <4>2, NothingOpen
      <4>3. QED
        BY <4>1, <4>2
    <3>4. QED
      BY <2>2, <2>3, <3>1, <3>2, <3>3
  <2>6. QED
    BY <2>4, <2>5
<1>3. InclusiveSoFar' = [g \in Functions |-> InclusiveSoFar[g]
                           + (IF Ledger!IsOpen(g) THEN d ELSE 0)]
  <2>1. InclusiveSoFar' = [g \in Functions |-> InclusiveSoFar'[g]]
    BY DEF InclusiveSoFar
  <2>2. QED
    BY <1>2, <2>1
<1>4. OpenCalls' = Append(OpenCalls, e)
  <2>1. /\ OpenCalls \in Seq(Entries) /\ Len(OpenCalls) = depth
        /\ OpenCalls' \in Seq(Entries) /\ Len(OpenCalls') = depth + 1
    <3>1. \A i \in 1 .. depth + 1 : i - 1 \in Slots
      BY <1>1, TracerAssumption DEF Slots
    <3>2. OpenCalls' \in [1 .. depth + 1 -> Entries]
      BY <1>1, <3>1 DEF OpenCalls, Frame
    <3>3. QED
      BY <1>1, <3>2, OpenCallsFacts, FunctionIsSeq
  <2>2. e \in Entries
    BY DEF EntryFor, Entries
  <2>3. /\ Append(OpenCalls, e) \in Seq(Entries)
        /\ Len(Append(OpenCalls, e)) = depth + 1
        /\ \A i \in 1 .. depth + 1 :
              Append(OpenCalls, e)[i] = IF i = depth + 1 THEN e ELSE OpenCalls[i]
    BY <1>1, <2>1, <2>2
  <2>4. ASSUME NEW i \in 1 .. depth + 1
        PROVE  OpenCalls'[i] = Append(OpenCalls, e)[i]
    <3>1. OpenCalls'[i] = frames'[i - 1].entry
      BY <1>1 DEF OpenCalls
    <3>2. CASE i = depth + 1
      BY <1>1, <2>3, <3>1, <3>2
    <3>3. CASE i # depth + 1
      <4>1. i \in 1 .. depth /\ i - 1 < depth /\ i - 1 \in Slots
        BY <1>1, <3>3, TracerAssumption DEF Slots
      <4>2. OpenCalls[i] = frames[i - 1].entry
        BY <1>1, <4>1 DEF OpenCalls
      <4>3. QED
        BY <1>1, <2>3, <3>1, <3>3, <4>1, <4>2
    <3>4. QED
      BY <3>2, <3>3
  <2>5. QED
    BY <2>1, <2>3, <2>4, SeqEqual
<1>5. CallsSoFar' = CallsSoFar
  BY <1>1 DEF CallsSoFar
<1>6. QED
  BY <1>0, <1>3, <1>4, <1>5 DEF Ledger!Enter, Ledger!Charge

\* The end of a recorded call leaves the ledger's innermost call.
LEMMA EndLeaves ==
  ASSUME IInv, IInv', depth > 0, NEW d \in Deltas, EndRecorded(d),
         phase # "finalized", phase' = phase
  PROVE  Ledger!Leave(d)
<1> DEFINE n == depth - 1
           e == frames[n].entry
<1>0. TypeOK /\ HasOutermost
  BY DEF IInv
<1>1. /\ n \in Slots /\ n \in Nat /\ n + 1 = depth /\ depth \in Nat
      /\ Recorded = depth /\ Recorded' = n
      /\ last' = last + d /\ last \in Int /\ d \in Int /\ last' \in Int
      /\ frames' \in [Slots -> Frame]
      /\ \A i \in Slots : /\ frames'[i].entry = frames[i].entry
                          /\ frames'[i].start = frames[i].start
      /\ e \in Entries
  BY <1>0, EndFacts, TracerAssumption DEF TypeOK, Slots
<1>2. e # NoEntry => e \in Functions /\ stats' = StatsAfter(n, last')
  BY <1>1 DEF EndRecorded, Entries
<1>3. e = NoEntry => stats' = stats
  BY DEF EndRecorded
<1>4. ASSUME NEW g \in Functions
      PROVE  /\ stats[g].inc \in Int /\ stats[g].called \in Nat
             /\ stats'[g].called = stats[g].called + (IF e = g THEN 1 ELSE 0)
             /\ stats'[g].inc = stats[g].inc
                   + (IF e = g /\ FramesOf(frames, g, n) = {}
                      THEN last' - frames[n].start ELSE 0)
  <2>1. stats[g].inc \in Int /\ stats[g].called \in Nat
    BY <1>0 DEF TypeOK, Stats
  <2>2. CASE e # g
    <3>1. stats'[g] = stats[g]
      BY <1>0, <1>1, <1>2, <1>3, <2>2 DEF StatsAfter, TypeOK, Entries
    <3>2. QED
      BY <2>1, <2>2, <3>1
  <2>3. CASE e = g
    <3>1. g # NoEntry /\ stats' = StatsAfter(n, last')
      BY <1>2, <2>3, TracerAssumption
    <3>2. /\ stats'[g].called = stats[g].called + 1
          /\ stats'[g].inc = stats[g].inc
               + (IF Cardinality(FramesOf(frames, g, n)) = 0
                  THEN Inc(frames[n], last') ELSE 0)
      BY <1>0, <2>3, <3>1 DEF StatsAfter, TypeOK
    <3>3. Cardinality(FramesOf(frames, g, n)) = 0 <=> FramesOf(frames, g, n) = {}
      BY FramesOfFinite
    <3>4. QED
      BY <2>1, <2>3, <3>2, <3>3 DEF Inc
  <2>4. QED
    BY <2>2, <2>3
<1>5. ASSUME NEW g \in Functions
      PROVE  InclusiveSoFar'[g] = InclusiveSoFar[g]
                                    + (IF Ledger!IsOpen(g) THEN d ELSE 0)
  <2>1. /\ \A i \in Slots : Outermost(frames, g, depth, i) /\ i # n
                            => Outermost(frames', g, n, i)
        /\ Outermost(frames, g, depth, n)
              => g = e /\ FramesOf(frames', g, n) = {}
        /\ g # e => FramesOf(frames, g, depth) = FramesOf(frames', g, n)
        /\ g = e => FramesOf(frames, g, depth) = FramesOf(frames', g, n) \cup {n}
    <3>1. /\ n \in Slots /\ frames[n].entry = e
          /\ \A i \in Slots : i < n => frames[i].entry = frames'[i].entry
      BY <1>1
    <3>2. n + 1 = depth
      BY <1>1
    <3> HIDE DEF n, e
    <3>3. /\ \A i \in Slots : Outermost(frames, g, n + 1, i) /\ i # n
                              => Outermost(frames', g, n, i)
          /\ Outermost(frames, g, n + 1, n) => FramesOf(frames', g, n) = {}
          /\ Outermost(frames, g, n + 1, n) => g = e
          /\ g # e => FramesOf(frames, g, n + 1) = FramesOf(frames', g, n)
          /\ g = e => FramesOf(frames, g, n + 1) = FramesOf(frames', g, n) \cup {n}
      BY <3>1, PushOutermost
    <3>4. QED
      BY <3>2, <3>3
  <2>2. FramesOf(frames', g, n) = FramesOf(frames, g, n)
    BY <1>1 DEF FramesOf
  <2>3. /\ InclusiveSoFar[g] = stats[g].inc + OpenInclusive(frames, g, depth, last)
        /\ InclusiveSoFar'[g] = stats'[g].inc + OpenInclusive(frames', g, n, last')
    BY <1>1 DEF InclusiveSoFar
  <2>4. frames[n].start \in Int
    BY <1>0, <1>1 DEF TypeOK, Frame
  <2>5. CASE FramesOf(frames, g, depth) = {}
    <3>1. ~Ledger!IsOpen(g) /\ g # e /\ FramesOf(frames', g, n) = {}
      BY <1>1, <2>1, <2>5, OpenIff
    <3>2. /\ OpenInclusive(frames, g, depth, last) = 0
          /\ OpenInclusive(frames', g, n, last') = 0
      BY <2>5, <3>1, NothingOpen
    <3>3. QED
      BY <1>4, <2>3, <3>1, <3>2
  <2>6. CASE FramesOf(frames, g, depth) # {}
    <3>1. PICK i \in Slots : Outermost(frames, g, depth, i)
      BY <1>0, <1>1, <2>6 DEF HasOutermost
    <3>2. Ledger!IsOpen(g)
      BY <1>1, <2>6, OpenIff
    <3>3. OpenInclusive(frames, g, depth, last) = last - frames[i].start
      BY <3>1, OutermostDecides
    <3>4. frames[i].start \in Int
      BY <1>0 DEF TypeOK, Frame
    <3>5. CASE i = n
      <4>1. g = e /\ FramesOf(frames', g, n) = {} /\ FramesOf(frames, g, n) = {}
        BY <2>1, <2>2, <3>1, <3>5
      <4>2. OpenInclusive(frames', g, n, last') = 0
        BY <4>1, NothingOpen
      <4>3. stats'[g].inc = stats[g].inc + (last' - frames[n].start)
        BY <1>4, <4>1
      <4>4. OpenInclusive(frames, g, depth, last) = last - frames[n].start
        BY <3>3, <3>5
      <4> HIDE DEF n
      <4>5. QED
        BY <1>1, <1>4, <2>3, <2>4, <3>2, <4>2, <4>3, <4>4
    <3>6. CASE i # n
      <4>1. Outermost(frames', g, n, i)
        BY <2>1, <3>1, <3>6
      <4>2. FramesOf(frames, g, n) # {}
        BY <2>2, <4>1 DEF Outermost
      <4>3. OpenInclusive(frames', g, n, last') = last' - frames[i].start
        BY <1>1, <4>1, OutermostDecides
      <4>4. stats'[g].inc = stats[g].inc
        BY <1>4, <4>2
      <4>5. QED
        BY <1>1, <1>4, <2>3, <3>2, <3>3, <3>4, <4>3, <4>4
    <3>7. QED
      BY <3>5, <3>6
  <2>7. QED
    BY <2>5, <2>6
<1>6. InclusiveSoFar' = [g \in Functions |-> InclusiveSoFar[g]
                           + (IF Ledger!IsOpen(g) THEN d ELSE 0)]
  <2>1. InclusiveSoFar' = [g \in Functions |-> InclusiveSoFar'[g]]
    BY DEF InclusiveSoFar
  <2>2. QED
    BY <1>5, <2>1
<1>7. /\ OpenCalls \in Seq(Entries) /\ Len(OpenCalls) = depth
      /\ OpenCalls # <<>> /\ OpenCalls[depth] = e
  BY <1>1, OpenCallsFacts
<1>8. OpenCalls' = SubSeq(OpenCalls, 1, Len(OpenCalls) - 1)
  <2>1. /\ SubSeq(OpenCalls, 1, n) \in Seq(Entries)
        /\ Len(SubSeq(OpenCalls, 1, n)) = n
        /\ \A i \in 1 .. n : SubSeq(OpenCalls, 1, n)[i] = OpenCalls[i]
    BY <1>1, <1>7
  <2>2. \A i \in 1 .. n : i - 1 \in Slots /\ i \in 1 .. depth
    BY <1>1, TracerAssumption DEF Slots
  <2>3. OpenCalls' \in [1 .. n -> Entries]
    BY <1>1, <2>2 DEF OpenCalls, Frame
  <2>4. OpenCalls' \in Seq(Entries) /\ Len(OpenCalls') = n
    BY <1>1, <2>3, FunctionIsSeq
  <2>5. \A i \in 1 .. n : OpenCalls'[i] = OpenCalls[i]
    BY <1>1, <2>2 DEF OpenCalls
  <2>6. OpenCalls' = SubSeq(OpenCalls, 1, n)
    BY <2>1, <2>4, <2>5, SeqEqual
  <2>7. QED
    BY <1>7, <2>6
<1>9. CallsSoFar' = [g \in Functions |->
                       CallsSoFar[g] + (IF OpenCalls[Len(OpenCalls)] = g THEN 1 ELSE 0)]
  BY <1>4, <1>7 DEF CallsSoFar
<1>10. QED
  BY <1>6, <1>7, <1>8, <1>9 DEF Ledger!Leave, Ledger!Charge

\* Steps past the depth limit, and the steps around the unwinding loop, are
\* stuttering steps of the ledger or its final step.
LEMMA QuietStutters ==
  ASSUME UNCHANGED <<frames, stats, last>>, Recorded' = Recorded,
         (phase = "finalized") = (phase' = "finalized")
  PROVE  UNCHANGED <<OpenCalls, InclusiveSoFar, CallsSoFar, phase = "finalized">>
<1>1. OpenCalls' = OpenCalls
  BY DEF OpenCalls
<1>2. InclusiveSoFar' = InclusiveSoFar
  BY DEF InclusiveSoFar
<1>3. CallsSoFar' = CallsSoFar
  BY DEF CallsSoFar
<1>4. QED
  BY <1>1, <1>2, <1>3

LEMMA StepRefines ==
  IInv /\ IInv' /\ [Step]_vars => [Ledger!LedgerNext]_(Ledger!ledger)
<1> SUFFICES ASSUME IInv, IInv', [Step]_vars
             PROVE  [Ledger!LedgerNext]_(Ledger!ledger)
  OBVIOUS
<1> USE DEF Ledger!ledger
<1>1. ASSUME NEW f \in Functions, NEW d \in Deltas, CallStart(f, d)
      PROVE  Ledger!LedgerNext
  <2>1. EntryFor(f, TableBefore(f)) \in Functions \cup {NoEntry}
    BY DEF EntryFor
  <2>2. QED
    BY <1>1, <2>1, StartEnters DEF Ledger!LedgerNext
<1>2. ASSUME NEW f \in Functions, CallStartTooDeep(f)
      PROVE  UNCHANGED Ledger!ledger
  BY <1>2, StartTooDeepFacts, QuietStutters
<1>3. ASSUME NEW d \in Deltas, CallEnd(d) PROVE Ledger!LedgerNext
  BY <1>3, EndLeaves DEF CallEnd, Ledger!LedgerNext
<1>4. ASSUME CallEndTooDeep PROVE UNCHANGED Ledger!ledger
  BY <1>4, EndTooDeepFacts, QuietStutters DEF CallEndTooDeep
<1>5. ASSUME BeginFinalize PROVE UNCHANGED Ledger!ledger
  <2>1. Recorded' = Recorded
    BY <1>5 DEF BeginFinalize, Recorded
  <2>2. QED
    BY <1>5, <2>1, QuietStutters DEF BeginFinalize
<1>6. ASSUME NEW d \in Deltas, Unwind(d) PROVE [Ledger!LedgerNext]_(Ledger!ledger)
  <2>1. CASE EndRecorded(d)
    BY <1>6, <2>1, EndLeaves DEF Unwind, Ledger!LedgerNext
  <2>2. CASE EndTooDeep
    BY <1>6, <2>2, EndTooDeepFacts, QuietStutters DEF Unwind
  <2>3. QED
    BY <1>6, <2>1, <2>2 DEF Unwind
<1>7. ASSUME EndFinalize PROVE Ledger!Close
  <2>1. Recorded = 0 /\ Recorded' = 0
    BY <1>7, MaxDepthFits, TracerAssumption DEF EndFinalize, Recorded
  <2>2. /\ OpenCalls' = OpenCalls /\ CallsSoFar' = CallsSoFar
        /\ InclusiveSoFar' = InclusiveSoFar
    BY <1>7, <2>1 DEF EndFinalize, OpenCalls, CallsSoFar, InclusiveSoFar
  <2>3. OpenCalls = <<>>
    BY <2>1, OpenCallsFacts, EmptySeq
  <2>4. QED
    BY <1>7, <2>2, <2>3 DEF Ledger!Close, EndFinalize
<1>8. ASSUME CallEndBelowZero PROVE UNCHANGED Ledger!ledger
  <2>1. Recorded' = Recorded
    BY <1>8 DEF CallEndBelowZero, Recorded
  <2>2. QED
    BY <1>8, <2>1, QuietStutters DEF CallEndBelowZero
<1>9. CASE UNCHANGED vars
  <2>1. Recorded' = Recorded
    BY <1>9 DEF vars, Recorded
  <2>2. QED
    BY <1>9, <2>1, QuietStutters DEF vars
<1>10. QED
  BY <1>1, <1>2, <1>3, <1>4, <1>5, <1>6, <1>7, <1>8, <1>9
     DEF Step, Ledger!LedgerNext

LEMMA InitRefines == Init => Ledger!LedgerInit
<1> SUFFICES ASSUME Init PROVE Ledger!LedgerInit
  OBVIOUS
<1>1. IInv /\ Recorded = 0
  BY InitIInv, MaxDepthFits DEF Init, Recorded
<1>2. OpenCalls = <<>>
  BY <1>1, OpenCallsFacts, EmptySeq
<1>3. \A f \in Functions : FramesOf(frames, f, Recorded) = {}
  BY <1>1, TracerAssumption DEF FramesOf, Slots
<1>4. InclusiveSoFar = [f \in Functions |-> 0]
  BY <1>3, NothingOpen DEF InclusiveSoFar, Init, ZeroStats
<1>5. CallsSoFar = [f \in Functions |-> 0]
  BY DEF CallsSoFar, Init, ZeroStats
<1>6. QED
  BY <1>2, <1>4, <1>5 DEF Ledger!LedgerInit, Init

\* The tracer implements the call ledger, for every stack capacity, depth
\* limit, table capacity and movement of the metric.
THEOREM Refinement == Spec => ImplementsLedger
<1>1. Init => Ledger!LedgerInit
  BY InitRefines
<1>2. IInv /\ IInv' /\ [Next]_vars => [Ledger!LedgerNext]_(Ledger!ledger)
  BY StepRefines DEF Next
<1>3. QED
  BY <1>1, <1>2, Invariance, PTL DEF Spec, ImplementsLedger, Ledger!LedgerSpec

-----------------------------------------------------------------------------
(* The events are bracketed. *)

\* The places of the calls c[1] .. c[n] that have an entry.
NamedOf(c, n) == {i \in 1 .. n : c[i] # NoEntry}

LEMMA NamedOfFacts ==
  ASSUME NEW c, NEW n \in Nat
  PROVE  /\ IsFiniteSet(NamedOf(c, n)) /\ Cardinality(NamedOf(c, n)) \in Nat
         /\ Cardinality(NamedOf(c, 0)) = 0
         /\ Cardinality(NamedOf(c, n + 1))
              = Cardinality(NamedOf(c, n)) + (IF c[n + 1] = NoEntry THEN 0 ELSE 1)
<1>1. IsFiniteSet(NamedOf(c, n))
  <2>1. IsFiniteSet(1 .. n) /\ NamedOf(c, n) \subseteq 1 .. n
    BY FS_Interval DEF NamedOf
  <2>2. QED
    BY <2>1, FS_Subset
<1>2. NamedOf(c, 0) = {}
  BY DEF NamedOf
<1>3. n + 1 \notin NamedOf(c, n)
  BY DEF NamedOf
<1>4. NamedOf(c, n + 1) = IF c[n + 1] = NoEntry THEN NamedOf(c, n)
                          ELSE NamedOf(c, n) \cup {n + 1}
  BY DEF NamedOf
<1> HIDE DEF NamedOf
<1>5. Cardinality(NamedOf(c, n) \cup {n + 1}) = Cardinality(NamedOf(c, n)) + 1
  BY <1>1, <1>3, FS_AddElement
<1>6. Cardinality(NamedOf(c, n)) \in Nat
  BY <1>1, FS_CardinalityType
<1>7. QED
  BY <1>1, <1>2, <1>4, <1>5, <1>6, FS_EmptySet

\* A call with an entry stands after all those before it.
LEMMA NamedOfGrows ==
  ASSUME NEW c, NEW i \in Nat, NEW j \in Nat, i <= j
  PROVE  /\ Cardinality(NamedOf(c, i)) <= Cardinality(NamedOf(c, j))
         /\ i > 0 /\ c[i] # NoEntry => Cardinality(NamedOf(c, i)) > 0
<1>1. NamedOf(c, i) \subseteq NamedOf(c, j)
  BY DEF NamedOf
<1>2. i > 0 /\ c[i] # NoEntry => i \in NamedOf(c, i)
  BY DEF NamedOf
<1>3. QED
  BY <1>1, <1>2, NamedOfFacts, FS_Subset, FS_EmptySet

LEMMA NamedUpTo ==
  ASSUME NEW c, NEW n \in Nat
  PROVE  /\ \A i \in 0 .. n + 1 : Cardinality(NamedOf(c, i)) \in Nat
         /\ Cardinality(NamedOf(c, n + 1))
              = Cardinality(NamedOf(c, n)) + (IF c[n + 1] = NoEntry THEN 0 ELSE 1)
         /\ \A i \in 1 .. n :
              /\ Cardinality(NamedOf(c, i)) <= Cardinality(NamedOf(c, n))
              /\ c[i] # NoEntry => Cardinality(NamedOf(c, i)) > 0
<1>1. ASSUME NEW i \in 0 .. n + 1
      PROVE  Cardinality(NamedOf(c, i)) \in Nat
  <2>1. i \in Nat
    OBVIOUS
  <2>2. QED
    BY <2>1, NamedOfFacts
<1>2. ASSUME NEW i \in 1 .. n
      PROVE  /\ Cardinality(NamedOf(c, i)) <= Cardinality(NamedOf(c, n))
             /\ c[i] # NoEntry => Cardinality(NamedOf(c, i)) > 0
  <2>1. i \in Nat /\ i <= n /\ i > 0
    OBVIOUS
  <2>2. QED
    BY <2>1, NamedOfGrows
<1>3. QED
  BY <1>1, <1>2, NamedOfFacts

\* What Named counts is decided by the calls.
LEMMA NamedIs ==
  /\ \A n : Named(n) = Cardinality(NamedOf(OpenCalls, n))
  /\ \A n : Named(n)' = Cardinality(NamedOf(OpenCalls', n))
  BY DEF Named, NamedOf

LEMMA SameCallsSameNamed ==
  ASSUME NEW c, NEW d, NEW n \in Nat, \A i \in 1 .. n : c[i] = d[i]
  PROVE  NamedOf(c, n) = NamedOf(d, n)
  BY DEF NamedOf

LEMMA StartBrackets ==
  ASSUME IInv, IInv', EventsAreBracketed,
         NEW f \in Functions, NEW d \in Deltas, CallStart(f, d)
  PROVE  EventsAreBracketed'
<1> DEFINE e == EntryFor(f, TableBefore(f))
           K(c, n) == Cardinality(NamedOf(c, n))
<1>1. /\ depth \in Nat /\ Recorded = depth /\ Recorded' = depth + 1
      /\ reported \in Seq(Functions)
  BY StartFacts DEF IInv, TypeOK
<1>2. OpenCalls' = Append(OpenCalls, e) /\ e \in Entries
  BY StartEnters DEF Ledger!Enter, EntryFor, Entries
<1>3. OpenCalls \in Seq(Entries) /\ Len(OpenCalls) = depth
  BY <1>1, OpenCallsFacts
<1> HIDE DEF e
<1>4. /\ \A i \in 1 .. depth : OpenCalls'[i] = OpenCalls[i]
      /\ OpenCalls'[depth + 1] = e
      /\ DOMAIN OpenCalls' = 1 .. depth + 1
      /\ DOMAIN OpenCalls = 1 .. depth
  BY <1>1, <1>2, <1>3
<1>5. reported' = IF e = NoEntry THEN reported ELSE Append(reported, e)
  BY DEF CallStart, e
<1>6. ASSUME NEW i \in 0 .. depth
      PROVE  K(OpenCalls', i) = K(OpenCalls, i)
  <2>1. i \in Nat /\ \A j \in 1 .. i : OpenCalls'[j] = OpenCalls[j]
    BY <1>1, <1>4
  <2>2. QED
    BY <2>1, SameCallsSameNamed
<1>7. /\ \A i \in 0 .. depth + 1 : K(OpenCalls', i) \in Nat
      /\ K(OpenCalls', depth + 1)
           = K(OpenCalls', depth) + (IF e = NoEntry THEN 0 ELSE 1)
      /\ \A i \in 1 .. depth :
           /\ K(OpenCalls', i) <= K(OpenCalls', depth)
           /\ OpenCalls'[i] # NoEntry => K(OpenCalls', i) > 0
  BY <1>1, <1>4, NamedUpTo
<1>8. /\ Len(reported) = K(OpenCalls, depth)
      /\ \A i \in 1 .. depth :
           OpenCalls[i] # NoEntry => reported[K(OpenCalls, i)] = OpenCalls[i]
  BY <1>1, <1>4, NamedIs DEF EventsAreBracketed
<1> HIDE DEF K
<1>9. Len(reported') = K(OpenCalls', depth + 1)
  BY <1>1, <1>5, <1>6, <1>7, <1>8
<1>10. ASSUME NEW i \in 1 .. depth + 1, OpenCalls'[i] # NoEntry
       PROVE  reported'[K(OpenCalls', i)] = OpenCalls'[i]
  <2>1. CASE i = depth + 1
    <3>1. e # NoEntry /\ K(OpenCalls', i) = Len(reported) + 1 /\ OpenCalls'[i] = e
      BY <1>1, <1>4, <1>6, <1>7, <1>8, <1>10, <2>1
    <3>2. reported' = Append(reported, e)
      BY <1>5, <3>1
    <3>3. QED
      BY <1>1, <3>1, <3>2
  <2>2. CASE i # depth + 1
    <3>1. i \in 1 .. depth
      BY <1>1, <2>2
    <3>2. /\ OpenCalls[i] = OpenCalls'[i] /\ K(OpenCalls, i) = K(OpenCalls', i)
          /\ K(OpenCalls', i) \in 1 .. Len(reported)
      BY <1>1, <1>4, <1>6, <1>7, <1>8, <1>10, <3>1
    <3>3. reported[K(OpenCalls', i)] = OpenCalls'[i]
      BY <1>8, <1>10, <3>1, <3>2
    <3>4. reported'[K(OpenCalls', i)] = reported[K(OpenCalls', i)]
      BY <1>1, <1>5, <3>2
    <3>5. QED
      BY <3>3, <3>4
  <2>3. QED
    BY <2>1, <2>2
<1>11. QED
  BY <1>1, <1>4, <1>9, <1>10, NamedIs DEF EventsAreBracketed, K

LEMMA EndBrackets ==
  ASSUME IInv, IInv', EventsAreBracketed, depth > 0, NEW d \in Deltas, EndRecorded(d),
         phase # "finalized", phase' = phase
  PROVE  EventsAreBracketed'
<1> DEFINE n == depth - 1
           e == frames[n].entry
           K(c, m) == Cardinality(NamedOf(c, m))
<1>1. /\ n \in Nat /\ depth = n + 1 /\ Recorded = n + 1 /\ Recorded' = n
      /\ reported \in Seq(Functions)
  BY EndFacts, TracerAssumption DEF IInv, TypeOK, Slots
<1>2. OpenCalls' = SubSeq(OpenCalls, 1, Len(OpenCalls) - 1)
  BY EndLeaves DEF Ledger!Leave
<1>3. OpenCalls \in Seq(Entries) /\ Len(OpenCalls) = n + 1 /\ OpenCalls[n + 1] = e
  BY <1>1, OpenCallsFacts
<1>4. reported' = IF e = NoEntry THEN reported
                  ELSE SubSeq(reported, 1, Len(reported) - 1)
  BY DEF EndRecorded
<1> HIDE DEF n, e
<1>5. /\ \A i \in 1 .. n : OpenCalls'[i] = OpenCalls[i]
      /\ DOMAIN OpenCalls' = 1 .. n
      /\ DOMAIN OpenCalls = 1 .. n + 1
  BY <1>1, <1>2, <1>3
<1>6. ASSUME NEW i \in 0 .. n
      PROVE  K(OpenCalls', i) = K(OpenCalls, i)
  <2>1. i \in Nat /\ \A j \in 1 .. i : OpenCalls'[j] = OpenCalls[j]
    BY <1>1, <1>5
  <2>2. QED
    BY <2>1, SameCallsSameNamed
<1>7. /\ \A i \in 0 .. n + 1 : K(OpenCalls, i) \in Nat
      /\ K(OpenCalls, n + 1) = K(OpenCalls, n) + (IF e = NoEntry THEN 0 ELSE 1)
      /\ \A i \in 1 .. n : /\ K(OpenCalls, i) <= K(OpenCalls, n)
                           /\ OpenCalls[i] # NoEntry => K(OpenCalls, i) > 0
  BY <1>1, <1>3, NamedUpTo
<1>8. /\ Len(reported) = K(OpenCalls, n + 1)
      /\ \A i \in 1 .. n :
           OpenCalls[i] # NoEntry => reported[K(OpenCalls, i)] = OpenCalls[i]
  BY <1>1, <1>5, NamedIs DEF EventsAreBracketed
<1> HIDE DEF K
<1>9. Len(reported') = K(OpenCalls', n)
  BY <1>1, <1>4, <1>6, <1>7, <1>8
<1>10. ASSUME NEW i \in 1 .. n, OpenCalls'[i] # NoEntry
       PROVE  reported'[K(OpenCalls', i)] = OpenCalls'[i]
  <2>1. /\ OpenCalls[i] = OpenCalls'[i] /\ K(OpenCalls, i) = K(OpenCalls', i)
        /\ K(OpenCalls', i) \in 1 .. K(OpenCalls, n)
    BY <1>1, <1>5, <1>6, <1>7, <1>10
  <2>2. reported[K(OpenCalls', i)] = OpenCalls'[i]
    BY <1>8, <1>10, <2>1
  <2>3. reported'[K(OpenCalls', i)] = reported[K(OpenCalls', i)]
    BY <1>1, <1>4, <1>7, <1>8, <2>1
  <2>4. QED
    BY <2>2, <2>3
<1>11. QED
  BY <1>1, <1>5, <1>9, <1>10, NamedIs DEF EventsAreBracketed, K

\* Steps that record nothing leave events and calls alone.
LEMMA QuietBrackets ==
  ASSUME EventsAreBracketed, UNCHANGED <<frames, reported>>, Recorded' = Recorded
  PROVE  EventsAreBracketed'
<1>1. OpenCalls' = OpenCalls
  BY DEF OpenCalls
<1>2. QED
  BY <1>1, NamedIs DEF EventsAreBracketed

LEMMA StepBrackets ==
  IInv /\ IInv' /\ EventsAreBracketed /\ [Step]_vars => EventsAreBracketed'
<1> SUFFICES ASSUME IInv, IInv', EventsAreBracketed, [Step]_vars
             PROVE  EventsAreBracketed'
  OBVIOUS
<1>1. ASSUME NEW f \in Functions, NEW d \in Deltas, CallStart(f, d)
      PROVE  EventsAreBracketed'
  BY <1>1, StartBrackets
<1>2. ASSUME NEW f \in Functions, CallStartTooDeep(f)
      PROVE  EventsAreBracketed'
  BY <1>2, StartTooDeepFacts, QuietBrackets DEF CallStartTooDeep
<1>3. ASSUME NEW d \in Deltas, CallEnd(d)
      PROVE  EventsAreBracketed'
  BY <1>3, EndBrackets DEF CallEnd
<1>4. ASSUME NEW d \in Deltas, Unwind(d)
      PROVE  EventsAreBracketed'
  <2>1. CASE EndRecorded(d)
    BY <1>4, <2>1, EndBrackets DEF Unwind
  <2>2. CASE EndTooDeep
    BY <1>4, <2>2, EndTooDeepFacts, QuietBrackets DEF Unwind, EndTooDeep
  <2>3. QED
    BY <1>4, <2>1, <2>2 DEF Unwind
<1>5. CASE CallEndTooDeep
  BY <1>5, EndTooDeepFacts, QuietBrackets DEF CallEndTooDeep, EndTooDeep
<1>6. CASE UNCHANGED <<frames, reported, depth>>
  BY <1>6, QuietBrackets DEF Recorded
<1>7. QED
  BY <1>1, <1>2, <1>3, <1>4, <1>5, <1>6
     DEF Step, vars, CallEndBelowZero, BeginFinalize, EndFinalize

LEMMA InitBrackets == Init => EventsAreBracketed
<1> SUFFICES ASSUME Init PROVE EventsAreBracketed
  OBVIOUS
<1>1. Recorded = 0
  BY MaxDepthFits DEF Init, Recorded
<1>2. DOMAIN OpenCalls = {} /\ Len(reported) = 0
  BY <1>1 DEF OpenCalls, Init
<1>3. Named(0) = 0
  BY NamedIs, NamedOfFacts
<1>4. QED
  BY <1>1, <1>2, <1>3 DEF EventsAreBracketed

\* What a reader of the events has open are the recorded calls that have a table
\* entry, in their order.
THEOREM EventsBracketed == Spec => []EventsAreBracketed
<1>1. IInv /\ IInv' /\ EventsAreBracketed /\ [Next]_vars => EventsAreBracketed'
  BY StepBrackets DEF Next
<1>2. QED
  BY <1>1, InitBrackets, Invariance, PTL DEF Spec

-----------------------------------------------------------------------------
(* Sums.  The induction theorems of the library take the predicate as an       *)
(* operator; its theorem on least elements takes a set.                        *)

LEMMA LeastElement ==
  ASSUME NEW T \in SUBSET Nat, T # {}
  PROVE  \E x \in T : \A y \in T : x <= y
<1> DEFINE R == {p \in Nat \X Nat : p[1] < p[2]}
<1>1. IsWellFoundedOn(R, Nat)
  <2> SUFFICES IsWellFoundedOn(OpToRel(<, Nat), Nat)
    BY Zenon DEF OpToRel
  <2> QED BY NatLessThanWellFounded, Zenon
<1>2. PICK x \in T : \A y \in T : ~(<<y, x>> \in R)
  <2> HIDE DEF R
  <2> QED BY <1>1, WFMin
<1>3. ASSUME NEW y \in T
      PROVE  x <= y
  <2>1. ~(<<y, x>> \in R)
    BY <1>2
  <2>2. <<y, x>> \in Nat \X Nat /\ x \in Nat /\ y \in Nat
    OBVIOUS
  <2>3. QED
    BY <2>1, <2>2
<1>4. QED
  BY <1>3

LEMMA SetInduction ==
  ASSUME NEW S, 0 \in S, \A n \in Nat : n \in S => n + 1 \in S
  PROVE  Nat \subseteq S
<1> SUFFICES ASSUME ~(Nat \subseteq S) PROVE FALSE
  OBVIOUS
<1> DEFINE T == Nat \ S
<1>1. PICK x \in T : \A y \in T : x <= y
  BY LeastElement
<1>2. x - 1 \in Nat /\ x - 1 \notin T
  BY <1>1
<1>3. QED
  BY <1>1, <1>2

\* g is the sums of t as far as n.
SumsUpTo(g, t, n) ==
  g = [k \in 0 .. n |-> IF k = 0 THEN 0 ELSE g[k - 1] + t[k]]

LEMMA SumsUpToExist ==
  ASSUME NEW t
  PROVE  \A n \in Nat : \E g : SumsUpTo(g, t, n)
<1> DEFINE S == {n \in Nat : \E g : SumsUpTo(g, t, n)}
<1>1. 0 \in S
  <2>1. SumsUpTo([k \in 0 .. 0 |-> 0], t, 0)
    BY DEF SumsUpTo
  <2>2. QED
    BY <2>1
<1>2. ASSUME NEW n \in Nat, n \in S
      PROVE  n + 1 \in S
  <2>1. PICK g : SumsUpTo(g, t, n)
    BY <1>2
  <2> DEFINE h == [k \in 0 .. n + 1 |-> IF k = n + 1 THEN g[n] + t[n + 1] ELSE g[k]]
  <2>2. ASSUME NEW k \in 0 .. n + 1
        PROVE  h[k] = IF k = 0 THEN 0 ELSE h[k - 1] + t[k]
    <3>1. CASE k = n + 1
      <4>1. n \in 0 .. n + 1 /\ n # n + 1 /\ k - 1 = n /\ k # 0
        BY <3>1
      <4>2. QED
        BY <3>1, <4>1
    <3>2. CASE k = 0
      <4>1. g[0] = 0 /\ h[0] = g[0]
        BY <2>1 DEF SumsUpTo
      <4>2. QED
        BY <3>2, <4>1
    <3>3. CASE k # n + 1 /\ k # 0
      <4>1. k \in 0 .. n /\ k - 1 \in 0 .. n + 1 /\ k - 1 # n + 1
        BY <3>3
      <4>2. g[k] = g[k - 1] + t[k]
        BY <2>1, <3>3, <4>1 DEF SumsUpTo
      <4>3. h[k] = g[k] /\ h[k - 1] = g[k - 1]
        BY <3>3, <4>1
      <4>4. QED
        BY <3>3, <4>2, <4>3
    <3>4. QED
      BY <3>1, <3>2, <3>3
  <2>3. h = [k \in 0 .. n + 1 |-> h[k]]
    OBVIOUS
  <2> HIDE DEF h
  <2>4. SumsUpTo(h, t, n + 1)
    BY <2>2, <2>3 DEF SumsUpTo
  <2>5. QED
    BY <2>4
<1> HIDE DEF S
<1>3. Nat \subseteq S
  BY <1>1, <1>2, SetInduction
<1>4. QED
  BY <1>3 DEF S

LEMMA SumsUpToAgree ==
  ASSUME NEW t, NEW g, NEW h, NEW n \in Nat, NEW m \in Nat,
         SumsUpTo(g, t, n), SumsUpTo(h, t, m)
  PROVE  \A k \in Nat : k <= n /\ k <= m => g[k] = h[k]
<1> DEFINE S == {k \in Nat : k <= n /\ k <= m => g[k] = h[k]}
<1>1. 0 \in S
  BY DEF SumsUpTo
<1>2. ASSUME NEW k \in Nat, k \in S
      PROVE  k + 1 \in S
  <2>1. SUFFICES ASSUME k + 1 <= n, k + 1 <= m
                 PROVE  g[k + 1] = h[k + 1]
    OBVIOUS
  <2>2. g[k] = h[k]
    BY <1>2, <2>1
  <2>3. k + 1 \in 0 .. n /\ k + 1 \in 0 .. m /\ k + 1 # 0 /\ (k + 1) - 1 = k
    BY <2>1
  <2>4. g[k + 1] = g[k] + t[k + 1] /\ h[k + 1] = h[k] + t[k + 1]
    BY <2>3 DEF SumsUpTo
  <2>5. QED
    BY <2>2, <2>4
<1> HIDE DEF S
<1>3. Nat \subseteq S
  BY <1>1, <1>2, SetInduction
<1>4. QED
  BY <1>3 DEF S

\* The sums are what their recursion says.
LEMMA SumsDef ==
  ASSUME NEW t
  PROVE  Sums(t) = [n \in Nat |-> IF n = 0 THEN 0 ELSE Sums(t)[n - 1] + t[n]]
<1> DEFINE P(n) == CHOOSE g : SumsUpTo(g, t, n)
           s == [n \in Nat |-> P(n)[n]]
<1>1. \A n \in Nat : SumsUpTo(P(n), t, n)
  BY SumsUpToExist
<1> HIDE DEF P
<1>2. ASSUME NEW n \in Nat
      PROVE  s[n] = IF n = 0 THEN 0 ELSE s[n - 1] + t[n]
  <2>1. CASE n = 0
    BY <1>1, <2>1 DEF SumsUpTo
  <2>2. CASE n # 0
    <3>1. n - 1 \in Nat /\ n \in 0 .. n
      BY <2>2
    <3>2. P(n)[n] = P(n)[n - 1] + t[n]
      BY <1>1, <2>2, <3>1 DEF SumsUpTo
    <3>3. SumsUpTo(P(n), t, n) /\ SumsUpTo(P(n - 1), t, n - 1)
      BY <1>1, <3>1
    <3>4. P(n)[n - 1] = P(n - 1)[n - 1]
      BY <3>1, <3>3, SumsUpToAgree
    <3>5. QED
      BY <2>2, <3>1, <3>2, <3>4
  <2>3. QED
    BY <2>1, <2>2
<1>3. s = [n \in Nat |-> s[n]]
  OBVIOUS
<1> HIDE DEF s
<1>4. s = [n \in Nat |-> IF n = 0 THEN 0 ELSE s[n - 1] + t[n]]
  BY <1>2, <1>3
<1>5. QED
  BY <1>4, Zenon DEF Sums

LEMMA SumsSteps ==
  ASSUME NEW t, NEW n \in Nat
  PROVE  Sums(t)[0] = 0 /\ Sums(t)[n + 1] = Sums(t)[n] + t[n + 1]
<1>1. n + 1 \in Nat /\ n + 1 # 0 /\ (n + 1) - 1 = n /\ 0 \in Nat
  OBVIOUS
<1>2. QED
  BY <1>1, SumsDef

\* Of the first n terms, those at R are d more in u than in t.
Shifted(t, u, n, R, d) ==
  \A i \in 1 .. n : t[i] \in Int /\ u[i] = t[i] + (IF i \in R THEN d ELSE 0)

\* Then the sum is d times their number more.
LEMMA SumsShift ==
  ASSUME NEW n \in Nat, NEW t, NEW u, NEW d \in Int, NEW R,
         Shifted(t, u, n, R, d)
  PROVE  /\ Sums(t)[n] \in Int
         /\ Sums(u)[n] = Sums(t)[n] + d * Cardinality(R \cap (1 .. n))
<1> DEFINE C(k) == R \cap (1 .. k)
           S == {k \in Nat : k <= n =>
                   /\ IsFiniteSet(C(k)) /\ Cardinality(C(k)) \in Nat
                   /\ Sums(t)[k] \in Int
                   /\ Sums(u)[k] = Sums(t)[k] + d * Cardinality(C(k))}
<1>1. 0 \in S
  <2>1. C(0) = {}
    OBVIOUS
  <2>2. Sums(t)[0] = 0 /\ Sums(u)[0] = 0
    BY SumsSteps
  <2>3. d * 0 = 0
    OBVIOUS
  <2>4. IsFiniteSet(C(0)) /\ Cardinality(C(0)) = 0
    BY <2>1, FS_EmptySet
  <2> HIDE DEF C
  <2>5. /\ Cardinality(C(0)) \in Nat /\ Sums(t)[0] \in Int
        /\ Sums(u)[0] = Sums(t)[0] + d * Cardinality(C(0))
    BY <2>2, <2>3, <2>4
  <2>6. QED
    BY <2>4, <2>5
<1>2. ASSUME NEW k \in Nat, k \in S
      PROVE  k + 1 \in S
  <2>1. SUFFICES ASSUME k + 1 <= n
                 PROVE  /\ IsFiniteSet(C(k + 1)) /\ Cardinality(C(k + 1)) \in Nat
                        /\ Sums(t)[k + 1] \in Int
                        /\ Sums(u)[k + 1] = Sums(t)[k + 1] + d * Cardinality(C(k + 1))
    OBVIOUS
  <2>2. /\ IsFiniteSet(C(k)) /\ Cardinality(C(k)) \in Nat
        /\ Sums(t)[k] \in Int
        /\ Sums(u)[k] = Sums(t)[k] + d * Cardinality(C(k))
    BY <1>2, <2>1
  <2>3. k + 1 \in 1 .. n
    BY <2>1
  <2>4. t[k + 1] \in Int /\ u[k + 1] = t[k + 1] + (IF k + 1 \in R THEN d ELSE 0)
    BY <2>3 DEF Shifted
  <2>5. C(k + 1) = IF k + 1 \in R THEN C(k) \cup {k + 1} ELSE C(k)
    OBVIOUS
  <2>6. k + 1 \notin C(k)
    OBVIOUS
  <2>7. /\ Sums(t)[k + 1] = Sums(t)[k] + t[k + 1]
        /\ Sums(u)[k + 1] = Sums(u)[k] + u[k + 1]
    BY SumsSteps
  <2> HIDE DEF C, S
  <2>8. CASE k + 1 \in R
    <3>1. /\ IsFiniteSet(C(k + 1))
          /\ Cardinality(C(k + 1)) = Cardinality(C(k)) + 1
      BY <2>2, <2>5, <2>6, <2>8, FS_AddElement
    <3>2. d * (Cardinality(C(k)) + 1) = d * Cardinality(C(k)) + d
      BY <2>2
    <3>3. d * Cardinality(C(k)) \in Int
      BY <2>2
    <3>4. Sums(u)[k + 1] = (Sums(t)[k] + d * Cardinality(C(k))) + (t[k + 1] + d)
      BY <2>2, <2>4, <2>7, <2>8
    <3>5. QED
      BY <2>2, <2>4, <2>7, <3>1, <3>2, <3>3, <3>4
  <2>9. CASE k + 1 \notin R
    <3>1. d * Cardinality(C(k)) \in Int
      BY <2>2
    <3>2. QED
      BY <2>2, <2>4, <2>5, <2>7, <2>9, <3>1
  <2>10. QED
    BY <2>8, <2>9
<1> HIDE DEF S
<1>3. n \in S
  BY <1>1, <1>2, SetInduction
<1> HIDE DEF C
<1>4. /\ Sums(t)[n] \in Int
      /\ Sums(u)[n] = Sums(t)[n] + d * Cardinality(C(n))
  BY <1>3 DEF S
<1>5. QED
  BY <1>4 DEF C

-----------------------------------------------------------------------------
(* The tracer implements ExclusiveLedger. *)

LEMMA SameCardinality == \A S : Exclusive!Cardinality(S) = Cardinality(S)
  BY DEF Exclusive!Cardinality, Cardinality

LEMMA OwnTimeFacts ==
  ASSUME IInv
  PROVE  /\ Recorded \in Nat
         /\ \A i \in 1 .. Recorded :
              /\ i - 1 \in Slots /\ (i < Recorded => i \in Slots)
              /\ frames[i - 1].start \in Int /\ frames[i - 1].children \in Int
              /\ i < Recorded => frames[i].start \in Int
              /\ OwnTime(i) \in Int
         /\ \A g : DOMAIN OwnTimes(g) = 1 .. Recorded
         /\ \A g : \A i \in 1 .. Recorded : OwnTimes(g)[i] \in Int
<1>1. Recorded \in Nat /\ \A i \in 1 .. Recorded : i - 1 \in Slots
  BY OpenCallsFacts
<1>2. \A i \in 1 .. Recorded : i < Recorded => i \in Slots
  <2>1. ASSUME NEW i \in 1 .. Recorded, i < Recorded
        PROVE  i \in Slots
    <3>1. i + 1 \in 1 .. Recorded
      BY <1>1, <2>1
    <3>2. (i + 1) - 1 \in Slots
      BY <1>1, <3>1
    <3>3. QED
      BY <1>1, <3>2
  <2>2. QED
    BY <2>1
<1>3. last \in Int /\ \A i \in Slots : frames[i].start \in Int /\ frames[i].children \in Int
  BY DEF IInv, TypeOK, Frame
<1>4. \A i \in 1 .. Recorded : OwnTime(i) \in Int
  BY <1>1, <1>2, <1>3 DEF OwnTime
<1>5. QED
  BY <1>1, <1>2, <1>3, <1>4 DEF OwnTimes

\* The calls that time is charged to as it passes.
LEMMA RunningIs ==
  ASSUME IInv, NEW g
  PROVE  /\ \A i \in 1 .. Recorded :
              i \in Exclusive!Running(g) <=>
                OpenCalls[i] = g /\ (i = Recorded \/ OpenCalls[i + 1] = NoEntry)
         /\ Exclusive!Running(g) = Exclusive!Running(g) \cap (1 .. Recorded)
<1>1. DOMAIN OpenCalls = 1 .. Recorded /\ Len(OpenCalls) = Recorded
  BY OpenCallsFacts DEF OpenCalls
<1>2. QED
  BY <1>1 DEF Exclusive!Running

\* As a call begins, the time that passed is the own time of the running calls.
LEMMA StartOwns ==
  ASSUME IInv, IInv', NEW f \in Functions, NEW d \in Deltas, CallStart(f, d),
         NEW g \in Functions
  PROVE  /\ \A i \in 1 .. Recorded :
              OwnTimes(g)'[i] = OwnTimes(g)[i] + (IF i \in Exclusive!Running(g) THEN d ELSE 0)
         /\ OwnTimes(g)'[Recorded + 1] = 0
         /\ Recorded' = Recorded + 1
<1> DEFINE e == EntryFor(f, TableBefore(f))
<1>1. /\ depth \in Nat /\ Recorded = depth /\ Recorded' = depth + 1
      /\ last' = last + d /\ last \in Int /\ d \in Int /\ last' \in Int
      /\ \A i \in Slots : i < depth => frames'[i] = frames[i]
      /\ e # NoEntry => frames'[depth].start = last'
  BY StartFacts, TracerAssumption DEF IInv, TypeOK
<1>2. frames'[depth].children = 0 \/ e = NoEntry
  <2>1. frames' = [frames EXCEPT ![depth] = StartedFrame(f, last + d)]
    BY DEF CallStart
  <2>2. depth \in Slots /\ frames \in [Slots -> Frame]
    BY StartFacts DEF IInv, TypeOK
  <2>3. e # NoEntry => StartedFrame(f, last + d).children = 0
    BY DEF StartedFrame
  <2>4. QED
    BY <2>1, <2>2, <2>3
<1>3. OpenCalls' = Append(OpenCalls, e) /\ e \in Entries
  BY StartEnters DEF Ledger!Enter, EntryFor, Entries
<1>4. OpenCalls \in Seq(Entries) /\ Len(OpenCalls) = depth
  BY <1>1, OpenCallsFacts
<1> HIDE DEF e
<1>5. /\ \A i \in 1 .. depth : OpenCalls'[i] = OpenCalls[i]
      /\ OpenCalls'[depth + 1] = e
  BY <1>1, <1>3, <1>4
<1>6. ASSUME NEW i \in 1 .. depth, OpenCalls[i] = g
      PROVE  OwnTime(i)' = OwnTime(i) + (IF i \in Exclusive!Running(g) THEN d ELSE 0)
  <2>1. /\ i \in Int /\ i - 1 \in Slots /\ frames'[i - 1] = frames[i - 1] /\ i < depth + 1
        /\ frames[i - 1].start \in Int /\ frames[i - 1].children \in Int
        /\ i < depth => i \in Slots /\ frames'[i] = frames[i] /\ frames[i].start \in Int
                        /\ i + 1 \in 1 .. depth
    BY <1>1, OwnTimeFacts
  <2>2. OwnTime(i)' = (IF OpenCalls'[i + 1] # NoEntry THEN frames'[i].start ELSE last')
                        - frames[i - 1].start - frames[i - 1].children
    BY <1>1, <2>1 DEF OwnTime
  <2>3. OwnTime(i) = (IF i < depth /\ OpenCalls[i + 1] # NoEntry THEN frames[i].start ELSE last)
                        - frames[i - 1].start - frames[i - 1].children
    BY <1>1 DEF OwnTime
  <2>4. i \in Exclusive!Running(g) <=> (i = depth \/ OpenCalls[i + 1] = NoEntry)
    BY <1>1, <1>6, RunningIs
  <2>5. CASE i = depth
    <3>1. OwnTime(i)' = last' - frames[i - 1].start - frames[i - 1].children
      BY <1>1, <1>5, <2>2, <2>5
    <3>2. QED
      BY <1>1, <2>1, <2>3, <2>4, <2>5, <3>1
  <2>6. CASE i # depth
    <3>1. i < depth /\ OpenCalls'[i + 1] = OpenCalls[i + 1]
      BY <1>1, <1>5, <2>1, <2>6
    <3>2. CASE OpenCalls[i + 1] = NoEntry
      BY <1>1, <2>1, <2>2, <2>3, <2>4, <3>1, <3>2
    <3>3. CASE OpenCalls[i + 1] # NoEntry
      BY <1>1, <2>1, <2>2, <2>3, <2>4, <2>6, <3>1, <3>3
    <3>4. QED
      BY <3>2, <3>3
  <2>7. QED
    BY <2>5, <2>6
<1>7. /\ \A i \in 1 .. depth + 1 :
           OwnTimes(g)'[i] = IF OpenCalls'[i] = g THEN OwnTime(i)' ELSE 0
      /\ \A i \in 1 .. depth :
           OwnTimes(g)[i] = IF OpenCalls[i] = g THEN OwnTime(i) ELSE 0
  BY <1>1 DEF OwnTimes
<1>8. ASSUME NEW i \in 1 .. depth
      PROVE  OwnTimes(g)'[i] = OwnTimes(g)[i] + (IF i \in Exclusive!Running(g) THEN d ELSE 0)
  <2>1. i \in 1 .. depth + 1
    BY <1>1
  <2>2. CASE OpenCalls[i] = g
    BY <1>5, <1>6, <1>7, <2>1, <2>2
  <2>3. CASE OpenCalls[i] # g
    <3>1. i \notin Exclusive!Running(g)
      BY <1>1, <2>3, RunningIs
    <3>2. QED
      BY <1>5, <1>7, <2>1, <2>3, <3>1
  <2>4. QED
    BY <2>2, <2>3
<1>9. ASSUME NEW i, i = depth + 1
      PROVE  OwnTimes(g)'[i] = 0
  <2>1. i \in 1 .. depth + 1 /\ OpenCalls'[i] = e
    BY <1>1, <1>5, <1>9
  <2>2. CASE e = g
    <3>1. e # NoEntry
      BY <2>2, TracerAssumption
    <3>2. ~(i < Recorded') /\ i - 1 = depth
      BY <1>1, <1>9
    <3>3. OwnTime(i)' = last' - frames'[depth].start - frames'[depth].children
      BY <3>2 DEF OwnTime
    <3>4. OwnTime(i)' = 0
      BY <1>1, <1>2, <3>1, <3>3
    <3>5. QED
      BY <1>7, <2>1, <2>2, <3>4
  <2>3. CASE e # g
    BY <1>7, <2>1, <2>3
  <2>4. QED
    BY <2>2, <2>3
<1>10. QED
  BY <1>1, <1>8, <1>9

LEMMA StartCharges ==
  ASSUME IInv, IInv', NEW f \in Functions, NEW d \in Deltas, CallStart(f, d)
  PROVE  Exclusive!Enter(EntryFor(f, TableBefore(f)), d)
<1>1. ASSUME NEW g \in Functions
      PROVE  ExclusiveSoFar'[g] = ExclusiveSoFar[g] + d * Cardinality(Exclusive!Running(g))
  <2> DEFINE t == OwnTimes(g)
             u == OwnTimes(g)'
  <2>1. /\ Recorded \in Nat /\ Recorded' = Recorded + 1 /\ d \in Int
        /\ u[Recorded + 1] = 0
        /\ \A i \in 1 .. Recorded :
             t[i] \in Int /\ u[i] = t[i] + (IF i \in Exclusive!Running(g) THEN d ELSE 0)
    BY StartOwns, OwnTimeFacts, TracerAssumption
  <2> HIDE DEF t, u
  <2>2. /\ Sums(t)[Recorded] \in Int
        /\ Sums(u)[Recorded] = Sums(t)[Recorded] + d * Cardinality(Exclusive!Running(g))
    <3> DEFINE R == Exclusive!Running(g)
    <3>1. Shifted(t, u, Recorded, R, d)
      BY <2>1 DEF Shifted
    <3>2. R = R \cap (1 .. Recorded)
      BY RunningIs
    <3>3. Recorded \in Nat /\ d \in Int
      BY <2>1
    <3>4. QED
      BY <3>1, <3>2, <3>3, SumsShift
  <2>3. Sums(u)[Recorded + 1] = Sums(u)[Recorded] + 0
    BY <2>1, SumsSteps
  <2>4. /\ ExclusiveSoFar[g] = stats[g].exc + Sums(t)[Recorded]
        /\ ExclusiveSoFar'[g] = stats[g].exc + Sums(u)[Recorded + 1]
    <3>1. stats' = stats
      BY StartKeepsStats
    <3>2. QED
      BY <2>1, <3>1 DEF ExclusiveSoFar, t, u
  <2>5. stats[g].exc \in Int
    BY DEF IInv, TypeOK, Stats
  <2>6. Cardinality(Exclusive!Running(g)) \in Nat
    <3>1. Exclusive!Running(g) \subseteq 1 .. Recorded
      BY RunningIs
    <3>2. IsFiniteSet(1 .. Recorded)
      BY <2>1, FS_Interval
    <3>3. IsFiniteSet(Exclusive!Running(g))
      BY <3>1, <3>2, FS_Subset
    <3>4. QED
      BY <3>3, FS_CardinalityType
  <2>7. d * Cardinality(Exclusive!Running(g)) \in Int
    BY <2>1, <2>6
  <2>8. QED
    BY <2>2, <2>3, <2>4, <2>5, <2>7
<1>2. ExclusiveSoFar' = [g \in Functions |-> ExclusiveSoFar[g]
                           + d * Cardinality(Exclusive!Running(g))]
  <2>1. ExclusiveSoFar' = [g \in Functions |-> ExclusiveSoFar'[g]]
    BY DEF ExclusiveSoFar
  <2>2. QED
    BY <1>1, <2>1
<1>3. OpenCalls' = Append(OpenCalls, EntryFor(f, TableBefore(f)))
  BY StartEnters DEF Ledger!Enter
<1>4. QED
  BY <1>2, <1>3, SameCardinality DEF Exclusive!Enter, Exclusive!Charge

\* What frame n, as it ends, gives back to frame i of g below it.
GivenBack(g, n, i) == frames[n].entry = g /\ Nearest(FramesOf(frames, g, n), i)

\* As a call ends, the time that passed is the own time of the running calls, and
\* the nearest call of the same function takes the ended call's own time.
LEMMA EndOwns ==
  ASSUME IInv, IInv', depth > 0, NEW d \in Deltas, EndRecorded(d),
         phase # "finalized", phase' = phase, NEW g \in Functions
  PROVE  /\ Recorded = Recorded' + 1
         /\ \A i \in 1 .. Recorded' :
              OwnTimes(g)'[i] = OwnTimes(g)[i]
                + (IF i \in Exclusive!Running(g) THEN d ELSE 0)
                + (IF GivenBack(g, Recorded', i - 1)
                   THEN Exc(frames[Recorded'], last') ELSE 0)
         /\ OwnTimes(g)[Recorded]
              = IF frames[Recorded'].entry = g THEN Exc(frames[Recorded'], last') - d ELSE 0
<1> DEFINE n == depth - 1
           e == frames[n].entry
           Back(i) == IF GivenBack(g, n, i - 1) THEN Exc(frames[n], last') ELSE 0
<1>1. /\ n \in Nat /\ depth = n + 1 /\ Recorded = n + 1 /\ Recorded' = n
      /\ n \in Slots /\ frames \in [Slots -> Frame]
      /\ last' = last + d /\ last \in Int /\ d \in Int /\ last' \in Int
      /\ e \in Entries
  BY EndFacts, TracerAssumption DEF IInv, TypeOK, Slots
<1>2. OpenCalls' = SubSeq(OpenCalls, 1, Len(OpenCalls) - 1)
  BY EndLeaves DEF Ledger!Leave
<1>3. OpenCalls \in Seq(Entries) /\ Len(OpenCalls) = n + 1 /\ OpenCalls[n + 1] = e
  BY <1>1, OpenCallsFacts
<1>4. /\ frames[n].start \in Int /\ frames[n].children \in Int
      /\ Inc(frames[n], last') = last' - frames[n].start
      /\ Exc(frames[n], last') = last' - frames[n].start - frames[n].children
  BY <1>1 DEF Frame, Inc, Exc
<1>5. frames' = IF e = NoEntry THEN frames ELSE FramesAfter(n, last')
  BY <1>1 DEF EndRecorded
<1>6. \A i \in Slots : /\ frames'[i].entry = frames[i].entry
                       /\ frames'[i].start = frames[i].start
  BY EndFacts
<1>7. \A i \in 1 .. n + 1 : OpenCalls[i] = frames[i - 1].entry
  BY <1>1, OpenCallsFacts
<1> HIDE DEF n, e
<1>8. \A i \in 1 .. n : OpenCalls'[i] = OpenCalls[i]
  BY <1>1, <1>2, <1>3
<1>9. ASSUME NEW i \in 1 .. n, OpenCalls[i] = g
      PROVE  frames'[i - 1].children
               = frames[i - 1].children - Back(i)
                 + (IF i = n /\ e # NoEntry THEN last' - frames[n].start ELSE 0)
  <2>1. /\ i - 1 \in Slots /\ frames[i - 1].children \in Int /\ i - 1 < n /\ i \in Int
        /\ frames[i - 1].entry = g /\ g # NoEntry
    BY <1>1, <1>7, <1>9, OwnTimeFacts, TracerAssumption
  <2>2. CASE e = NoEntry
    <3>1. Back(i) = 0
      BY <2>1, <2>2 DEF GivenBack, e
    <3>2. QED
      BY <1>5, <2>1, <2>2, <3>1
  <2>3. CASE e # NoEntry
    <3>1. frames'[i - 1].children = ChildrenAfter(i - 1, n, last')
      BY <1>1, <1>5, <2>1, <2>3 DEF FramesAfter, Frame
    <3>2. Nearest(FramesOf(frames, e, n), i - 1) <=> GivenBack(g, n, i - 1)
      BY <2>1 DEF GivenBack, Nearest, FramesOf, e
    <3>3. i - 1 = n - 1 <=> i = n
      BY <1>1, <2>1
    <3>4. ChildrenAfter(i - 1, n, last')
            = frames[i - 1].children
              + (IF i = n THEN last' - frames[n].start ELSE 0) - Back(i)
      BY <1>4, <2>1, <3>2, <3>3 DEF ChildrenAfter, e
    <3>5. Back(i) \in Int
      BY <1>1, <1>4
    <3>6. QED
      BY <1>1, <1>4, <2>1, <2>3, <3>1, <3>4, <3>5
  <2>4. QED
    BY <2>2, <2>3
<1>10. ASSUME NEW i \in 1 .. n, OpenCalls[i] = g
       PROVE  OwnTime(i)' = OwnTime(i) + (IF i \in Exclusive!Running(g) THEN d ELSE 0) + Back(i)
  <2>1. /\ i \in Int /\ i - 1 \in Slots /\ i \in Slots /\ i < n + 1 /\ i \in 1 .. n + 1
        /\ frames[i - 1].start \in Int /\ frames[i - 1].children \in Int
        /\ frames[i].start \in Int
        /\ frames'[i].start = frames[i].start /\ frames'[i - 1].start = frames[i - 1].start
    <3>1. i \in 1 .. Recorded /\ i < Recorded
      BY <1>1
    <3>2. QED
      BY <1>1, <1>6, <3>1, OwnTimeFacts
  <2>2. Back(i) \in Int
    BY <1>1, <1>4
  <2>3. OwnTime(i)' = (IF i < n /\ OpenCalls'[i + 1] # NoEntry THEN frames[i].start ELSE last')
                        - frames[i - 1].start - frames'[i - 1].children
    BY <1>1, <2>1 DEF OwnTime
  <2>4. OwnTime(i) = (IF OpenCalls[i + 1] # NoEntry THEN frames[i].start ELSE last)
                        - frames[i - 1].start - frames[i - 1].children
    BY <1>1, <2>1 DEF OwnTime
  <2>5. i \in Exclusive!Running(g) <=> OpenCalls[i + 1] = NoEntry
    BY <1>1, <1>10, <2>1, RunningIs
  <2> HIDE DEF Back
  <2>6. CASE i = n
    <3>1. OwnTime(i)' = last' - frames[i - 1].start - frames'[i - 1].children
      BY <2>3, <2>6
    <3>2. OpenCalls[i + 1] = e
      BY <1>3, <2>6
    <3>3. CASE e = NoEntry
      <4>1. frames'[i - 1].children = frames[i - 1].children - Back(i)
        BY <1>9, <1>10, <2>1, <2>2, <3>3
      <4>2. QED
        BY <1>1, <2>1, <2>2, <2>4, <2>5, <3>1, <3>2, <3>3, <4>1
    <3>4. CASE e # NoEntry
      <4>1. frames'[i - 1].children
              = frames[i - 1].children - Back(i) + (last' - frames[i].start)
        BY <1>9, <1>10, <2>6, <3>4
      <4>2. QED
        BY <1>1, <2>1, <2>2, <2>4, <2>5, <3>1, <3>2, <3>4, <4>1
    <3>5. QED
      BY <3>3, <3>4
  <2>7. CASE i # n
    <3>1. i < n /\ i + 1 \in 1 .. n
      BY <1>1, <2>7
    <3>2. OpenCalls'[i + 1] = OpenCalls[i + 1]
      BY <1>8, <3>1
    <3>3. frames'[i - 1].children = frames[i - 1].children - Back(i)
      BY <1>9, <1>10, <2>1, <2>2, <2>7
    <3>4. CASE OpenCalls[i + 1] = NoEntry
      BY <1>1, <2>1, <2>2, <2>3, <2>4, <2>5, <3>1, <3>2, <3>3, <3>4
    <3>5. CASE OpenCalls[i + 1] # NoEntry
      BY <1>1, <2>1, <2>2, <2>3, <2>4, <2>5, <3>1, <3>2, <3>3, <3>5
    <3>6. QED
      BY <3>4, <3>5
  <2>8. QED
    BY <2>6, <2>7
<1>11. /\ \A i \in 1 .. n :
            OwnTimes(g)'[i] = IF OpenCalls'[i] = g THEN OwnTime(i)' ELSE 0
       /\ \A i \in 1 .. n + 1 :
            OwnTimes(g)[i] = IF OpenCalls[i] = g THEN OwnTime(i) ELSE 0
  BY <1>1 DEF OwnTimes
<1>12. ASSUME NEW i \in 1 .. n
       PROVE  OwnTimes(g)'[i] = OwnTimes(g)[i]
                + (IF i \in Exclusive!Running(g) THEN d ELSE 0) + Back(i)
  <2>1. i \in 1 .. n + 1 /\ i \in 1 .. Recorded
    BY <1>1
  <2>2. CASE OpenCalls[i] = g
    BY <1>8, <1>10, <1>11, <2>1, <2>2
  <2>3. CASE OpenCalls[i] # g
    <3>1. i \notin Exclusive!Running(g)
      BY <2>1, <2>3, RunningIs
    <3>2. Back(i) = 0
      BY <1>7, <2>1, <2>3 DEF GivenBack, Nearest, FramesOf
    <3> HIDE DEF Back
    <3>3. OwnTimes(g)'[i] = 0 /\ OwnTimes(g)[i] = 0
      BY <1>8, <1>11, <2>1, <2>3
    <3>4. QED
      BY <3>1, <3>2, <3>3
  <2>4. QED
    BY <2>2, <2>3
<1>13. ASSUME NEW i, i = n + 1
       PROVE  OwnTimes(g)[i] = IF e = g THEN Exc(frames[n], last') - d ELSE 0
  <2>1. i \in 1 .. n + 1 /\ OpenCalls[i] = e /\ ~(i < Recorded) /\ i - 1 = n
    BY <1>1, <1>3, <1>13
  <2>2. OwnTime(i) = last - frames[n].start - frames[n].children
    BY <2>1 DEF OwnTime
  <2>3. OwnTime(i) = Exc(frames[n], last') - d
    BY <1>1, <1>4, <2>2
  <2>4. QED
    BY <1>11, <2>1, <2>3
<1>14. QED
  BY <1>1, <1>12, <1>13 DEF e

\* Of frames of one function that are open, one is the nearest.
LEMMA NearestIsOne ==
  ASSUME NEW F \in SUBSET Nat, NEW n \in Nat, \A i \in F : i < n
  PROVE  Cardinality({i \in 1 .. n : Nearest(F, i - 1)}) = IF F = {} THEN 0 ELSE 1
<1> DEFINE N == {i \in 1 .. n : Nearest(F, i - 1)}
<1>1. CASE F = {}
  <2>1. N = {}
    BY <1>1 DEF Nearest
  <2>2. QED
    BY <1>1, <2>1, FS_EmptySet
<1>2. CASE F # {}
  <2> DEFINE T == {k \in Nat : n - k \in F}
  <2>1. T # {}
    <3>1. PICK i \in F : TRUE
      BY <1>2
    <3>2. n - i \in Nat /\ n - (n - i) = i
      BY <3>1
    <3>3. n - i \in T
      BY <3>1, <3>2
    <3>4. QED
      BY <3>3
  <2>2. PICK k \in T : \A j \in T : k <= j
    BY <2>1, LeastElement
  <2>3. /\ n - k \in F /\ k \in Nat
        /\ \A i \in F : i <= n - k
    <3>1. ASSUME NEW i \in F
          PROVE  i <= n - k
      <4>1. n - i \in T
        <5>1. n - i \in Nat /\ n - (n - i) = i
          OBVIOUS
        <5>2. QED
          BY <5>1
      <4>2. k <= n - i
        BY <2>2, <4>1
      <4>3. QED
        BY <2>2, <4>2
    <3>2. QED
      BY <2>2, <3>1
  <2>4. N = {n - k + 1}
    <3>1. n - k + 1 \in N
      <4>1. n - k + 1 \in 1 .. n /\ (n - k + 1) - 1 = n - k
        BY <2>3
      <4>2. QED
        BY <2>3, <4>1 DEF Nearest
    <3>2. ASSUME NEW i \in N
          PROVE  i = n - k + 1
      <4>1. i \in Int /\ i - 1 \in F /\ \A j \in F : j <= i - 1
        BY <3>2 DEF Nearest
      <4>2. i - 1 <= n - k /\ n - k <= i - 1
        BY <2>3, <4>1
      <4>3. QED
        BY <2>3, <4>1, <4>2
    <3>3. QED
      BY <3>1, <3>2
  <2>5. QED
    BY <1>2, <2>4, FS_Singleton
<1>3. QED
  BY <1>1, <1>2

LEMMA EndCharges ==
  ASSUME IInv, IInv', depth > 0, NEW d \in Deltas, EndRecorded(d),
         phase # "finalized", phase' = phase
  PROVE  Exclusive!Leave(d)
<1> DEFINE n == Recorded'
           e == frames[n].entry
           X == Exc(frames[n], last')
<1>1. /\ n \in Nat /\ Recorded = n + 1 /\ n \in Slots /\ d \in Int
      /\ e \in Entries /\ X \in Int
  <2>1. /\ Recorded' = depth - 1 /\ Recorded = depth /\ depth - 1 \in Slots
        /\ frames[depth - 1].entry \in Entries /\ last' \in Int
    BY EndFacts
  <2>2. depth \in Nat /\ depth - 1 \in Nat /\ (depth - 1) + 1 = depth
    BY <2>1, TracerAssumption DEF Slots, IInv, TypeOK
  <2>3. X \in Int
    BY <2>1 DEF IInv, TypeOK, Frame, Exc, Inc
  <2>4. QED
    BY <2>1, <2>2, <2>3, TracerAssumption
<1>2. ASSUME NEW g \in Functions
      PROVE  ExclusiveSoFar'[g] = ExclusiveSoFar[g] + d * Cardinality(Exclusive!Running(g))
  <2> DEFINE t == OwnTimes(g)
             u == OwnTimes(g)'
             R == Exclusive!Running(g)
             F == FramesOf(frames, g, n)
             B == IF e = g THEN {i \in 1 .. n : Nearest(F, i - 1)} ELSE {}
             v == [i \in 1 .. n |-> t[i] + (IF i \in R THEN d ELSE 0)]
  <2>1. /\ \A i \in 1 .. n : u[i] = t[i] + (IF i \in R THEN d ELSE 0)
                                    + (IF i \in B THEN X ELSE 0)
        /\ t[n + 1] = IF e = g THEN X - d ELSE 0
    <3>1. \A i \in 1 .. n : i \in B <=> GivenBack(g, n, i - 1)
      BY DEF GivenBack
    <3>2. /\ \A i \in 1 .. n : u[i] = t[i] + (IF i \in R THEN d ELSE 0)
                               + (IF GivenBack(g, n, i - 1) THEN X ELSE 0)
          /\ t[Recorded] = IF e = g THEN X - d ELSE 0
      BY EndOwns
    <3> HIDE DEF n, B, t, u, R, X
    <3>3. QED
      BY <1>1, <3>1, <3>2
  <2>2. \A i \in 1 .. n + 1 : t[i] \in Int
    BY <1>1, OwnTimeFacts
  <2>3. /\ IsFiniteSet(R) /\ R \subseteq 1 .. n + 1
        /\ n + 1 \in R <=> e = g
    <3>1. n + 1 \in 1 .. Recorded /\ OpenCalls[n + 1] = e
      BY <1>1, OpenCallsFacts
    <3>2. R \subseteq 1 .. n + 1 /\ (n + 1 \in R <=> e = g)
      BY <1>1, <3>1, RunningIs
    <3>3. IsFiniteSet(1 .. n + 1)
      BY <1>1, FS_Interval
    <3>4. QED
      BY <3>2, <3>3, FS_Subset
  <2>4. stats[g].exc \in Int
        /\ stats'[g].exc = stats[g].exc + (IF e = g /\ F = {} THEN X ELSE 0)
    <3>1. stats \in [Functions -> Stats] /\ g # NoEntry
      BY TracerAssumption DEF IInv, TypeOK
    <3>2. stats[g].exc \in Int
      BY <3>1 DEF Stats
    <3>3. n = depth - 1 /\ last' = last + d
      BY EndFacts
    <3>4. stats' = IF e = NoEntry THEN stats ELSE StatsAfter(n, last')
      BY <3>3 DEF EndRecorded
    <3>5. CASE e = g
      <4>1. stats' = StatsAfter(n, last')
        BY <3>1, <3>4, <3>5
      <4>2. stats'[g].exc = stats[g].exc
              + (IF Cardinality(F) = 0 THEN X ELSE 0)
        BY <3>1, <3>5, <4>1 DEF StatsAfter
      <4>3. Cardinality(F) = 0 <=> F = {}
        BY FramesOfFinite
      <4>4. QED
        BY <3>2, <3>5, <4>2, <4>3
    <3>6. CASE e # g
      <4>1. stats'[g] = stats[g]
        BY <1>1, <3>1, <3>4, <3>6 DEF StatsAfter, Entries
      <4>2. QED
        BY <3>2, <3>6, <4>1
    <3>7. QED
      BY <3>5, <3>6
  <2>5. Cardinality(B) = IF e = g /\ F # {} THEN 1 ELSE 0
    <3>1. F \in SUBSET Nat /\ \A i \in F : i < n
      BY TracerAssumption DEF FramesOf, Slots
    <3> HIDE DEF F
    <3>2. Cardinality({i \in 1 .. n : Nearest(F, i - 1)}) = IF F = {} THEN 0 ELSE 1
      BY <1>1, <3>1, NearestIsOne
    <3>3. QED
      BY <3>2, FS_EmptySet
  <2>6. B = B \cap (1 .. n)
    OBVIOUS
  <2>7. /\ ExclusiveSoFar[g] = stats[g].exc + Sums(t)[n + 1]
        /\ ExclusiveSoFar'[g] = stats'[g].exc + Sums(u)[n]
    BY <1>1 DEF ExclusiveSoFar
  <2> HIDE DEF t, u, R, F, B, n, e, X
  <2>8. Shifted(t, v, n, R, d)
    BY <1>1, <2>2 DEF Shifted
  <2>9. Shifted(v, u, n, B, X)
    <3>1. \A i \in 1 .. n : t[i] \in Int
      BY <1>1, <2>2
    <3>2. ASSUME NEW i \in 1 .. n
          PROVE  v[i] \in Int /\ u[i] = v[i] + (IF i \in B THEN X ELSE 0)
      <4>1. v[i] = t[i] + (IF i \in R THEN d ELSE 0)
        OBVIOUS
      <4>2. QED
        BY <1>1, <2>1, <3>1, <4>1
    <3>3. QED
      BY <3>2 DEF Shifted
  <2> HIDE DEF v
  <2>10. /\ Sums(t)[n] \in Int
         /\ Sums(v)[n] = Sums(t)[n] + d * Cardinality(R \cap (1 .. n))
    BY <1>1, <2>8, SumsShift
  <2>11. Sums(u)[n] = Sums(v)[n] + X * Cardinality(B)
    <3>1. Sums(u)[n] = Sums(v)[n] + X * Cardinality(B \cap (1 .. n))
      BY <1>1, <2>9, SumsShift
    <3>2. QED
      BY <2>6, <3>1
  <2>12. Sums(t)[n + 1] = Sums(t)[n] + t[n + 1]
    BY <1>1, SumsSteps
  <2>13. IsFiniteSet(R \cap (1 .. n)) /\ Cardinality(R \cap (1 .. n)) \in Nat
    <3>1. IsFiniteSet(R \cap (1 .. n))
      BY <2>3, FS_Intersection
    <3>2. QED
      BY <3>1, FS_CardinalityType
  <2>14. Cardinality(R) = Cardinality(R \cap (1 .. n)) + (IF e = g THEN 1 ELSE 0)
    <3>0. 1 .. n + 1 = (1 .. n) \cup {n + 1} /\ n + 1 \notin 1 .. n
      BY <1>1
    <3>1. CASE e = g
      <4>1. R = (R \cap (1 .. n)) \cup {n + 1} /\ n + 1 \notin R \cap (1 .. n)
        BY <2>3, <3>0, <3>1, Zenon
      <4>2. QED
        BY <2>13, <3>1, <4>1, FS_AddElement
    <3>2. CASE e # g
      <4>1. R = R \cap (1 .. n)
        BY <2>3, <3>0, <3>2, Zenon
      <4>2. QED
        BY <2>13, <3>2, <4>1
    <3>3. QED
      BY <3>1, <3>2
  <2> DEFINE C == Cardinality(R \cap (1 .. n))
  <2>15. C \in Nat /\ d * C \in Int /\ d * (C + 1) = d * C + d /\ d * 0 = 0
    BY <1>1, <2>13
  <2>16. X * 1 = X /\ X * 0 = 0
    BY <1>1
  <2> HIDE DEF C
  <2>17. Sums(v)[n] = Sums(t)[n] + d * C /\ Sums(t)[n] \in Int
    BY <2>10 DEF C
  <2>18. Cardinality(R) = C + (IF e = g THEN 1 ELSE 0)
    BY <2>14 DEF C
  <2>19. ASSUME e = g
         PROVE  ExclusiveSoFar'[g] = ExclusiveSoFar[g] + d * Cardinality(R)
    <3>1. stats'[g].exc + X * Cardinality(B) = stats[g].exc + X
      BY <1>1, <2>4, <2>5, <2>16, <2>19
    <3>2. stats'[g].exc \in Int /\ X * Cardinality(B) \in Int
      BY <1>1, <2>4, <2>5, <2>16, <2>19
    <3>3. t[n + 1] = X - d /\ d * Cardinality(R) = d * C + d
      BY <2>1, <2>15, <2>18, <2>19
    <3>4. ExclusiveSoFar'[g] = stats'[g].exc + (Sums(t)[n] + d * C + X * Cardinality(B))
      BY <2>7, <2>11, <2>17
    <3>5. ExclusiveSoFar[g] = stats[g].exc + (Sums(t)[n] + (X - d))
      BY <2>7, <2>12, <3>3
    <3> DEFINE D == d * C
               Y == X * Cardinality(B)
    <3>6. D \in Int /\ Y \in Int /\ stats[g].exc \in Int
      BY <2>4, <2>15, <3>2
    <3> HIDE DEF D, Y
    <3>7. D + d = d * Cardinality(R)
      BY <3>3 DEF D
    <3>8. stats'[g].exc + Y = stats[g].exc + X
      BY <3>1 DEF Y
    <3>9. ExclusiveSoFar'[g] = stats'[g].exc + (Sums(t)[n] + D + Y)
      BY <3>4 DEF D, Y
    <3>10. ExclusiveSoFar'[g] = ExclusiveSoFar[g] + (D + d)
      BY <1>1, <2>17, <3>2, <3>5, <3>6, <3>8, <3>9
    <3>11. QED
      BY <3>7, <3>10
  <2>20. ASSUME e # g
         PROVE  ExclusiveSoFar'[g] = ExclusiveSoFar[g] + d * Cardinality(R)
    <3>1. stats'[g].exc = stats[g].exc /\ X * Cardinality(B) = 0
      BY <2>4, <2>5, <2>16, <2>20
    <3>2. t[n + 1] = 0 /\ Cardinality(R) = C
      BY <2>1, <2>15, <2>18, <2>20
    <3>3. QED
      BY <1>1, <2>4, <2>7, <2>11, <2>12, <2>15, <2>17, <3>1, <3>2
  <2>21. ExclusiveSoFar'[g] = ExclusiveSoFar[g] + d * Cardinality(R)
    BY <2>19, <2>20
  <2>22. QED
    BY <2>21 DEF R
<1>3. ExclusiveSoFar' = [g \in Functions |-> ExclusiveSoFar[g]
                           + d * Cardinality(Exclusive!Running(g))]
  <2>1. ExclusiveSoFar' = [g \in Functions |-> ExclusiveSoFar'[g]]
    BY DEF ExclusiveSoFar
  <2>2. QED
    BY <1>2, <2>1
<1>4. OpenCalls # <<>> /\ OpenCalls' = SubSeq(OpenCalls, 1, Len(OpenCalls) - 1)
  BY EndLeaves DEF Ledger!Leave
<1>5. QED
  BY <1>3, <1>4, SameCardinality DEF Exclusive!Leave, Exclusive!Charge

LEMMA QuietOwns ==
  ASSUME UNCHANGED <<frames, stats, last>>, Recorded' = Recorded
  PROVE  UNCHANGED <<OpenCalls, ExclusiveSoFar>>
<1>1. OpenCalls' = OpenCalls
  BY DEF OpenCalls
<1>2. ASSUME NEW i PROVE OwnTime(i)' = OwnTime(i)
  BY <1>1 DEF OwnTime
<1>3. ASSUME NEW g PROVE OwnTimes(g)' = OwnTimes(g)
  BY <1>1, <1>2 DEF OwnTimes
<1>4. ExclusiveSoFar' = ExclusiveSoFar
  BY <1>3 DEF ExclusiveSoFar
<1>5. QED
  BY <1>1, <1>4

LEMMA StepCharges ==
  IInv /\ IInv' /\ [Step]_vars => [Exclusive!SelfNext]_<<OpenCalls, ExclusiveSoFar>>
<1> SUFFICES ASSUME IInv, IInv', [Step]_vars
             PROVE  [Exclusive!SelfNext]_<<OpenCalls, ExclusiveSoFar>>
  OBVIOUS
<1>1. ASSUME NEW f \in Functions, NEW d \in Deltas, CallStart(f, d)
      PROVE  Exclusive!SelfNext
  <2>1. EntryFor(f, TableBefore(f)) \in Functions \cup {NoEntry}
    BY DEF EntryFor
  <2>2. QED
    BY <1>1, <2>1, StartCharges DEF Exclusive!SelfNext
<1>2. ASSUME NEW f \in Functions, CallStartTooDeep(f)
      PROVE  UNCHANGED <<OpenCalls, ExclusiveSoFar>>
  BY <1>2, StartTooDeepFacts, QuietOwns
<1>3. ASSUME NEW d \in Deltas, CallEnd(d)
      PROVE  Exclusive!SelfNext
  BY <1>3, EndCharges DEF CallEnd, Exclusive!SelfNext
<1>4. ASSUME NEW d \in Deltas, Unwind(d)
      PROVE  [Exclusive!SelfNext]_<<OpenCalls, ExclusiveSoFar>>
  <2>1. CASE EndRecorded(d)
    BY <1>4, <2>1, EndCharges DEF Unwind, Exclusive!SelfNext
  <2>2. CASE EndTooDeep
    BY <1>4, <2>2, EndTooDeepFacts, QuietOwns DEF Unwind
  <2>3. QED
    BY <1>4, <2>1, <2>2 DEF Unwind
<1>5. CASE CallEndTooDeep
  BY <1>5, EndTooDeepFacts, QuietOwns DEF CallEndTooDeep
<1>6. CASE UNCHANGED <<frames, stats, last, depth>>
  BY <1>6, QuietOwns DEF Recorded
<1>7. QED
  BY <1>1, <1>2, <1>3, <1>4, <1>5, <1>6
     DEF Step, vars, CallEndBelowZero, BeginFinalize, EndFinalize

LEMMA InitCharges == Init => Exclusive!SelfInit
<1> SUFFICES ASSUME Init PROVE Exclusive!SelfInit
  OBVIOUS
<1>1. Recorded = 0
  BY MaxDepthFits DEF Init, Recorded
<1>2. OpenCalls = <<>>
  BY <1>1, InitRefines DEF Ledger!LedgerInit
<1>3. ASSUME NEW g \in Functions
      PROVE  stats[g].exc + Sums(OwnTimes(g))[Recorded] = 0
  <2>1. Sums(OwnTimes(g))[0] = 0
    BY SumsSteps
  <2>2. QED
    BY <1>1, <2>1 DEF Init, ZeroStats
<1>4. ExclusiveSoFar = [g \in Functions |-> 0]
  BY <1>3 DEF ExclusiveSoFar
<1>5. QED
  BY <1>2, <1>4 DEF Exclusive!SelfInit

\* The tracer implements the exclusive ledger, for every stack capacity, depth
\* limit, table capacity and movement of the metric: under recursion the time is
\* taken back from where it was charged twice.
THEOREM ExclusiveRefinement == Spec => ImplementsExclusive
<1>1. IInv /\ IInv' /\ [Next]_vars => [Exclusive!SelfNext]_<<OpenCalls, ExclusiveSoFar>>
  BY StepCharges DEF Next
<1>2. QED
  BY <1>1, InitCharges, Invariance, PTL DEF Spec, ImplementsExclusive, Exclusive!SelfSpec

-----------------------------------------------------------------------------
(* The sampler. *)

\* Where the PHP thread may still make the tracer trace.
Tracing == {"create", "configure", "idle", "load", "claim", "end", "start",
            "copy", "last"}

\* What holds of the two stacks at each point of handle_sample.
StacksPlaced ==
  /\ main \in Tracing => phase = "running"
  /\ main \in {"create", "configure"} => previous = <<>> /\ current = <<>>
  /\ call_end => current # <<>>
  /\ main = "end" => /\ common <= top /\ top <= Len(previous)
                     /\ common <= Len(current)
                     /\ \A i \in 1 .. common : Hash[previous[i]] = Hash[current[i]]
  /\ main = "start" => top <= Len(current)
  /\ main = "last" => previous = current /\ current # <<>>

\* The inductive invariant of the sampler, on top of the tracer's.
SInv ==
  /\ IInv
  /\ SamplerTypeOK
  /\ StacksPlaced
  /\ DepthFollows
  /\ OpenMatchesStack

-----------------------------------------------------------------------------
(* Sequences, and the stack the tracer was told of. *)

LEMMA PrefixFacts ==
  ASSUME NEW S, NEW s \in Seq(S), NEW n \in Nat, n <= Len(s)
  PROVE  /\ SubSeq(s, 1, n) \in Seq(S)
         /\ Len(SubSeq(s, 1, n)) = n
         /\ \A i \in 1 .. n : SubSeq(s, 1, n)[i] = s[i]
         /\ n = Len(s) => SubSeq(s, 1, n) = s
<1>1. SubSeq(s, 1, n) \in Seq(S) /\ Len(SubSeq(s, 1, n)) = n
  BY SubSeqProperties
<1>2. \A i \in 1 .. n : SubSeq(s, 1, n)[i] = s[i]
  BY SubSeqProperties
<1>3. n = Len(s) => SubSeq(s, 1, n) = s
  BY <1>1, <1>2, SeqEqual
<1>4. QED
  BY <1>1, <1>2, <1>3

\* Steps that leave the tracer alone keep the match if the stack it was told of
\* keeps its length and the hash codes of its functions.
LEMMA TracerRests ==
  ASSUME SInv, UNCHANGED vars,
         Len(ToldOpen') = Len(ToldOpen),
         \A i \in 1 .. Len(ToldOpen) : Hash[ToldOpen'[i]] = Hash[ToldOpen[i]]
  PROVE  DepthFollows' /\ OpenMatchesStack'
<1>1. DepthFollows /\ OpenMatchesStack /\ TypeOK
  BY DEF SInv, IInv
<1>2. depth' = depth /\ phase' = phase /\ Recorded' = Recorded
  BY DEF vars, Recorded
<1>3. OpenCalls' = OpenCalls
  BY DEF vars, OpenCalls, Recorded
<1>4. DepthFollows'
  BY <1>1, <1>2 DEF DepthFollows
<1>5. phase = "running" => \A i \in 1 .. Recorded : i \in 1 .. Len(ToldOpen)
  BY <1>1, MaxDepthFits, TracerAssumption DEF DepthFollows, Recorded, TypeOK
<1>6. OpenMatchesStack'
  BY <1>1, <1>2, <1>3, <1>5 DEF OpenMatchesStack
<1>7. QED
  BY <1>4, <1>6

\* A return handed to the tracer closes its innermost call.
LEMMA TracerEndCuts ==
  ASSUME IInv, TracerEnd
  PROVE  /\ depth > 0 /\ depth' = depth - 1 /\ phase' = "running"
         /\ Recorded' <= Recorded /\ Recorded' <= depth' /\ Recorded' \in Nat
         /\ \A i \in 1 .. Recorded' : OpenCalls'[i] = OpenCalls[i]
<1>0. depth \in Nat /\ MaxDepth \in Nat /\ MaxDepth' = MaxDepth /\ Recorded \in Nat
  BY MaxDepthFits, TracerAssumption DEF IInv, TypeOK, MaxDepth, Recorded
<1>1. depth > 0 /\ phase' = "running"
  BY DEF TracerEnd, CallEnd, CallEndTooDeep
<1>2. CASE \E d \in Deltas : CallEnd(d)
  <2>1. PICK d \in Deltas : EndRecorded(d)
    BY <1>2 DEF CallEnd
  <2>2. /\ depth' = depth - 1 /\ Recorded = depth /\ Recorded' = depth - 1
        /\ \A i \in Slots : frames'[i].entry = frames[i].entry
    BY <1>1, <2>1, EndFacts
  <2>3. \A i \in 1 .. Recorded' : i - 1 \in Slots /\ i \in 1 .. Recorded
    BY <1>0, <2>2, OpenCallsFacts
  <2>4. \A i \in 1 .. Recorded' : OpenCalls'[i] = OpenCalls[i]
    BY <2>2, <2>3 DEF OpenCalls
  <2>5. QED
    BY <1>0, <1>1, <2>2, <2>4
<1>3. CASE CallEndTooDeep
  <2>1. EndTooDeep /\ depth' = depth - 1
    BY <1>3 DEF CallEndTooDeep, EndTooDeep
  <2>2. Recorded' = Recorded /\ frames' = frames
    BY <1>1, <2>1, EndTooDeepFacts
  <2>3. OpenCalls' = OpenCalls
    BY <2>2 DEF OpenCalls
  <2>4. Recorded <= depth'
    BY <1>0, <2>1 DEF EndTooDeep, Recorded
  <2>5. QED
    BY <1>0, <1>1, <2>1, <2>2, <2>3, <2>4
<1>4. QED
  BY <1>2, <1>3 DEF TracerEnd

\* A call handed to the tracer opens one above those it has open.
LEMMA TracerStartAdds ==
  ASSUME IInv, NEW f \in Functions, TracerStart(f)
  PROVE  /\ depth' = depth + 1 /\ phase' = "running"
         /\ Recorded' \in Nat /\ Recorded' <= depth'
         /\ \A i \in 1 .. Recorded' :
              \/ i \in 1 .. Recorded /\ OpenCalls'[i] = OpenCalls[i]
              \/ i = depth + 1 /\ OpenCalls'[i] \in {f, NoEntry}
<1>0. depth \in Nat /\ MaxDepth \in Nat /\ Recorded \in Nat /\ Recorded <= depth
  BY MaxDepthFits, TracerAssumption DEF IInv, TypeOK, Recorded
<1>1. depth' = depth + 1 /\ phase' = "running"
  BY DEF TracerStart, CallStart, CallStartTooDeep, Descend
<1>2. CASE \E d \in Deltas : CallStart(f, d)
  <2>1. PICK d \in Deltas : CallStart(f, d)
    BY <1>2
  <2>2. /\ Recorded = depth /\ Recorded' = depth + 1
        /\ \A i \in Slots : i < depth => frames'[i] = frames[i]
        /\ frames'[depth].entry = EntryFor(f, TableBefore(f))
    BY <2>1, StartFacts
  <2>3. EntryFor(f, TableBefore(f)) \in {f, NoEntry}
    BY DEF EntryFor
  <2>4. \A i \in 1 .. Recorded' : OpenCalls'[i] = frames'[i - 1].entry
    BY DEF OpenCalls
  <2>5. \A i \in 1 .. Recorded :
          i - 1 \in Slots /\ OpenCalls[i] = frames[i - 1].entry
    BY OpenCallsFacts
  <2>6. ASSUME NEW i \in 1 .. Recorded'
        PROVE  \/ i \in 1 .. Recorded /\ OpenCalls'[i] = OpenCalls[i]
               \/ i = depth + 1 /\ OpenCalls'[i] \in {f, NoEntry}
    <3>1. CASE i = depth + 1
      <4>1. i - 1 = depth
        BY <1>0, <3>1
      <4>2. QED
        BY <2>2, <2>3, <2>4, <3>1, <4>1
    <3>2. CASE i # depth + 1
      <4>1. i \in 1 .. Recorded /\ i - 1 < depth
        BY <1>0, <2>2, <3>2
      <4>2. QED
        BY <2>2, <2>4, <2>5, <4>1
    <3>3. QED
      BY <3>1, <3>2
  <2>7. QED
    BY <1>0, <1>1, <2>2, <2>6
<1>3. CASE CallStartTooDeep(f)
  <2>1. Recorded' = Recorded /\ frames' = frames
    BY <1>3, StartTooDeepFacts
  <2>2. OpenCalls' = OpenCalls
    BY <2>1 DEF OpenCalls
  <2>3. QED
    BY <1>0, <1>1, <2>1, <2>2
<1>4. QED
  BY <1>2, <1>3 DEF TracerStart

-----------------------------------------------------------------------------
(* The steps of the sampler. *)

\* Every step of the sampler is one of the tracer or leaves the tracer alone.
LEMMA SamplerStepIsStep ==
  ASSUME SamplerTypeOK, [SamplerStep]_svars
  PROVE  [Step]_vars
<1>1. ASSUME StartHeartbeat \/ Configure \/ SamplerStackExceeded \/ SamplerCallEnd
      PROVE  UNCHANGED vars
  BY <1>1 DEF StartHeartbeat, Configure, SamplerStackExceeded, SamplerCallEnd
<1>2. ASSUME NEW f \in Functions, SamplerCallStart(f) PROVE UNCHANGED vars
  BY <1>2 DEF SamplerCallStart
<1>3. ASSUME LoadReady \/ ClaimSample \/ EndsDone \/ StartsDone \/ CopyStack
      PROVE  UNCHANGED vars
  BY <1>3 DEF LoadReady, ClaimSample, EndsDone, StartsDone, CopyStack
<1>4. ASSUME EndPrevious \/ EndLast PROVE Step
  BY <1>4 DEF EndPrevious, EndLast, TracerEnd, Step
<1>5. ASSUME StartCurrent PROVE Step
  <2>1. current \in Seq(Functions) /\ top \in Nat /\ top < Len(current)
    BY <1>5 DEF SamplerTypeOK, StartCurrent
  <2>2. current[top + 1] \in Functions
    BY <2>1, ElementOfSeq
  <2>3. QED
    BY <1>5, <2>2 DEF StartCurrent, TracerStart, Step
<1>6. ASSUME SamplerFinalize PROVE Step
  BY <1>6 DEF SamplerFinalize, Step
<1>7. ASSUME Destroy PROVE [Step]_vars
  BY <1>7 DEF Destroy, UnwindTracer, FinalizeDone, StoreStop, Join, Step
<1>8. ASSUME Heartbeat PROVE UNCHANGED vars
  BY <1>8 DEF Heartbeat, ReadPeriod, CheckStop, StoreReady, ThreadMoves
<1>9. UNCHANGED svars => UNCHANGED vars
  BY DEF svars
<1>10. QED
  BY <1>1, <1>2, <1>3, <1>4, <1>5, <1>6, <1>7, <1>8, <1>9
     DEF SamplerStep, HandleSample

\* Types are kept: what is stored in the stacks comes from calls, and pops and
\* prefixes of them stay stacks of functions.
LEMMA SamplerTypeKept ==
  ASSUME SInv, [SamplerStep]_svars
  PROVE  SamplerTypeOK'
<1>1. SamplerTypeOK /\ StacksPlaced
  BY DEF SInv
<1>2. ASSUME PopCurrent PROVE current' \in Seq(Functions)
  <2>1. CASE call_end
    <3>1. current # <<>> /\ current \in Seq(Functions)
      BY <1>1, <2>1 DEF StacksPlaced, SamplerTypeOK
    <3>2. Len(current) - 1 \in Nat /\ Len(current) - 1 <= Len(current)
      BY <3>1, EmptySeq, LenProperties
    <3>3. QED
      BY <1>2, <2>1, <3>1, <3>2, PrefixFacts DEF PopCurrent
  <2>2. CASE ~call_end
    BY <1>1, <1>2, <2>2 DEF PopCurrent, SamplerTypeOK
  <2>3. QED
    BY <2>1, <2>2
<1>3. ASSUME StartHeartbeat \/ Configure \/ SamplerStackExceeded \/ SamplerCallEnd
      PROVE  SamplerTypeOK'
  BY <1>1, <1>3, EmptySeq DEF StartHeartbeat, Configure, SamplerStackExceeded,
     SamplerCallEnd, SamplerTypeOK, MainPoints, BeatPoints, stacks
<1>4. ASSUME NEW f \in Functions, SamplerCallStart(f) PROVE SamplerTypeOK'
  BY <1>1, <1>4, AppendProperties DEF SamplerCallStart, SamplerTypeOK, MainPoints
<1>5. ASSUME LoadReady PROVE SamplerTypeOK'
  <2>1. CASE ready
    BY <1>1, <1>5, <2>1 DEF LoadReady, SamplerTypeOK, MainPoints
  <2>2. CASE ~ready
    <3>1. Return /\ PopCurrent
      BY <1>5, <2>2 DEF LoadReady
    <3>2. QED
      BY <1>1, <1>2, <1>5, <3>1 DEF LoadReady, Return, SamplerTypeOK, MainPoints
  <2>3. QED
    BY <2>1, <2>2
<1>6. ASSUME ClaimSample PROVE SamplerTypeOK'
  <2>1. Len(previous) \in Nat /\ top' = Len(previous) /\ common' \in Nat
    BY <1>1, <1>6, LenProperties DEF ClaimSample, SamplerTypeOK
  <2>2. QED
    BY <1>1, <1>6, <2>1 DEF ClaimSample, SamplerTypeOK, MainPoints, stacks
<1>7. ASSUME EndPrevious PROVE SamplerTypeOK'
  BY <1>1, <1>7 DEF EndPrevious, SamplerTypeOK, stacks
<1>8. ASSUME EndsDone \/ StartsDone \/ StartCurrent PROVE SamplerTypeOK'
  BY <1>1, <1>8 DEF EndsDone, StartsDone, StartCurrent, SamplerTypeOK,
     MainPoints, stacks
<1>9. ASSUME CopyStack PROVE SamplerTypeOK'
  <2>1. CASE call_end
    BY <1>1, <1>9, <2>1 DEF CopyStack, SamplerTypeOK, MainPoints
  <2>2. CASE ~call_end
    <3>1. Return
      BY <1>9, <2>2 DEF CopyStack
    <3>2. QED
      BY <1>1, <1>9, <3>1 DEF CopyStack, Return, SamplerTypeOK, MainPoints
  <2>3. QED
    BY <2>1, <2>2
<1>10. ASSUME EndLast PROVE SamplerTypeOK'
  <2>1. previous \in Seq(Functions) /\ Len(previous) - 1 \in Nat
        /\ Len(previous) - 1 <= Len(previous)
    BY <1>1, <1>10, EmptySeq, LenProperties
       DEF EndLast, SamplerTypeOK, StacksPlaced
  <2>2. previous' \in Seq(Functions)
    BY <1>10, <2>1, PrefixFacts DEF EndLast
  <2>3. QED
    BY <1>1, <1>2, <1>10, <2>2 DEF EndLast, Return, SamplerTypeOK, MainPoints
<1>11. ASSUME SamplerFinalize \/ Destroy PROVE SamplerTypeOK'
  BY <1>1, <1>11 DEF SamplerFinalize, Destroy, UnwindTracer, FinalizeDone,
     StoreStop, Join, SamplerTypeOK, MainPoints, stacks, threads
<1>12. ASSUME Heartbeat PROVE SamplerTypeOK'
  BY <1>1, <1>12 DEF Heartbeat, ReadPeriod, CheckStop, StoreReady, ThreadMoves,
     SamplerTypeOK, BeatPoints, stacks
<1>13. ASSUME UNCHANGED svars PROVE SamplerTypeOK'
  BY <1>1, <1>13 DEF svars, threads, stacks, SamplerTypeOK
<1>14. QED
  BY <1>3, <1>4, <1>5, <1>6, <1>7, <1>8, <1>9, <1>10, <1>11, <1>12, <1>13
     DEF SamplerStep, HandleSample

\* A step that leaves the tracer and the stack it was told of alone.
LEMMA SameTold ==
  ASSUME SInv, UNCHANGED vars, ToldOpen' = ToldOpen
  PROVE  DepthFollows' /\ OpenMatchesStack'
  BY TracerRests

\* The end loop: one call fewer is open, and one fewer is listed.
LEMMA EndPreviousKeeps ==
  ASSUME SInv, EndPrevious
  PROVE  StacksPlaced' /\ DepthFollows' /\ OpenMatchesStack'
<1>1. /\ SamplerTypeOK /\ StacksPlaced /\ DepthFollows /\ OpenMatchesStack
      /\ IInv /\ TracerEnd /\ main = "end" /\ main' = "end" /\ top > common
      /\ top' = top - 1 /\ previous' = previous /\ current' = current
      /\ common' = common /\ call_end' = call_end
  BY DEF SInv, EndPrevious, stacks
<1>2. /\ phase = "running" /\ common <= top /\ top <= Len(previous)
      /\ top \in Nat /\ common \in Nat /\ previous \in Seq(Functions)
  BY <1>1 DEF StacksPlaced, SamplerTypeOK, Tracing
<1>3. /\ depth > 0 /\ depth' = depth - 1 /\ phase' = "running"
      /\ Recorded' <= depth' /\ Recorded' <= Recorded /\ Recorded' \in Nat
      /\ \A i \in 1 .. Recorded' : OpenCalls'[i] = OpenCalls[i]
  BY <1>1, TracerEndCuts
<1>4. top' \in Nat /\ top' <= Len(previous) /\ common <= top' /\ top' < top
  BY <1>1, <1>2, LenProperties
<1>5. ToldOpen = SubSeq(previous, 1, top) /\ ToldOpen' = SubSeq(previous, 1, top')
  BY <1>1 DEF ToldOpen
<1>6. /\ Len(ToldOpen) = top /\ Len(ToldOpen') = top'
      /\ \A i \in 1 .. top' : ToldOpen'[i] = ToldOpen[i]
  BY <1>2, <1>4, <1>5, PrefixFacts
<1>7. depth = top /\ depth' = top'
  BY <1>1, <1>2, <1>3, <1>6 DEF DepthFollows
<1>8. DepthFollows'
  BY <1>6, <1>7 DEF DepthFollows
<1>9. \A i \in 1 .. Recorded' : i \in 1 .. top' /\ i \in 1 .. Recorded
  BY <1>1, <1>2, <1>3, <1>4, <1>7, OpenCallsFacts
<1>10. OpenMatchesStack'
  BY <1>1, <1>2, <1>3, <1>6, <1>9 DEF OpenMatchesStack
<1>11. StacksPlaced'
  BY <1>1, <1>2, <1>3, <1>4 DEF StacksPlaced
<1>12. QED
  BY <1>8, <1>10, <1>11

\* The start loop: the call that is opened is the next one of the stack.
LEMMA StartCurrentKeeps ==
  ASSUME SInv, StartCurrent
  PROVE  StacksPlaced' /\ DepthFollows' /\ OpenMatchesStack'
<1>1. /\ SamplerTypeOK /\ StacksPlaced /\ DepthFollows /\ OpenMatchesStack
      /\ IInv /\ main = "start" /\ main' = "start" /\ top < Len(current)
      /\ top' = top + 1 /\ previous' = previous /\ current' = current
      /\ common' = common /\ call_end' = call_end
      /\ TracerStart(current[top + 1])
  BY DEF SInv, StartCurrent, stacks
<1>2. /\ phase = "running" /\ top \in Nat /\ current \in Seq(Functions)
  BY <1>1 DEF StacksPlaced, SamplerTypeOK, Tracing
<1>3. Len(current) \in Nat /\ top' \in Nat /\ top' <= Len(current) /\ top <= Len(current)
  BY <1>1, <1>2, LenProperties
<1>4. current[top + 1] \in Functions
  BY <1>1, <1>2, ElementOfSeq
<1>5. /\ depth' = depth + 1 /\ phase' = "running"
      /\ Recorded' \in Nat /\ Recorded' <= depth'
      /\ \A i \in 1 .. Recorded' :
           \/ i \in 1 .. Recorded /\ OpenCalls'[i] = OpenCalls[i]
           \/ i = depth + 1 /\ OpenCalls'[i] \in {current[top + 1], NoEntry}
  BY <1>1, <1>4, TracerStartAdds
<1>6. ToldOpen = SubSeq(current, 1, top) /\ ToldOpen' = SubSeq(current, 1, top')
  BY <1>1 DEF ToldOpen
<1>7. /\ Len(ToldOpen) = top /\ Len(ToldOpen') = top'
      /\ \A i \in 1 .. top : ToldOpen[i] = current[i]
      /\ \A i \in 1 .. top' : ToldOpen'[i] = current[i]
  BY <1>2, <1>3, <1>6, PrefixFacts
<1>8. depth = top /\ depth' = top'
  BY <1>1, <1>2, <1>5, <1>7 DEF DepthFollows
<1>9. DepthFollows'
  BY <1>7, <1>8 DEF DepthFollows
<1>10. \A i \in 1 .. Recorded' : i \in 1 .. top'
  BY <1>3, <1>5, <1>8
<1>11. \A i \in 1 .. Recorded : i \in 1 .. top
  BY <1>1, <1>2, <1>8, MaxDepthFits, TracerAssumption DEF Recorded
<1>12. OpenMatchesStack'
  <2> SUFFICES ASSUME NEW i \in 1 .. Recorded', OpenCalls'[i] # NoEntry
               PROVE  Hash[OpenCalls'[i]] = Hash[ToldOpen'[i]]
    BY DEF OpenMatchesStack
  <2>1. CASE i \in 1 .. Recorded /\ OpenCalls'[i] = OpenCalls[i]
    BY <1>1, <1>2, <1>7, <1>10, <1>11, <2>1 DEF OpenMatchesStack
  <2>2. CASE i = depth + 1 /\ OpenCalls'[i] \in {current[top + 1], NoEntry}
    BY <1>7, <1>8, <1>10, <2>2
  <2>3. QED
    BY <1>5, <2>1, <2>2
<1>13. StacksPlaced'
  BY <1>1, <1>2, <1>3, <1>5 DEF StacksPlaced
<1>14. QED
  BY <1>9, <1>12, <1>13

\* A sample taken on a return: the returning call is closed and leaves the
\* previous stack.
LEMMA EndLastKeeps ==
  ASSUME SInv, EndLast
  PROVE  StacksPlaced' /\ DepthFollows' /\ OpenMatchesStack'
<1>1. /\ SamplerTypeOK /\ StacksPlaced /\ DepthFollows /\ OpenMatchesStack
      /\ IInv /\ TracerEnd /\ main = "last" /\ main' = "idle" /\ call_end' = FALSE
      /\ previous' = SubSeq(previous, 1, Len(previous) - 1)
  BY DEF SInv, EndLast, Return
<1>2. /\ phase = "running" /\ previous \in Seq(Functions) /\ previous # <<>>
  BY <1>1 DEF StacksPlaced, SamplerTypeOK, Tracing
<1>3. Len(previous) \in Nat \ {0}
  BY <1>2, EmptySeq
<1>4. /\ depth' = depth - 1 /\ phase' = "running"
      /\ Recorded' <= depth' /\ Recorded' <= Recorded /\ Recorded' \in Nat
      /\ \A i \in 1 .. Recorded' : OpenCalls'[i] = OpenCalls[i]
  BY <1>1, TracerEndCuts
<1>5. ToldOpen = previous /\ ToldOpen' = previous'
  BY <1>1 DEF ToldOpen
<1>6. /\ Len(ToldOpen') = Len(previous) - 1
      /\ \A i \in 1 .. Len(previous) - 1 : ToldOpen'[i] = ToldOpen[i]
  <2>1. Len(previous) - 1 \in Nat /\ Len(previous) - 1 <= Len(previous)
    BY <1>3
  <2>2. QED
    BY <1>1, <1>2, <1>5, <2>1, PrefixFacts
<1>7. depth = Len(previous) /\ depth' = Len(previous) - 1
  BY <1>1, <1>2, <1>4, <1>5 DEF DepthFollows
<1>8. DepthFollows'
  BY <1>6, <1>7 DEF DepthFollows
<1>9. \A i \in 1 .. Recorded' : i \in 1 .. Len(previous) - 1 /\ i \in 1 .. Recorded
  BY <1>1, <1>3, <1>4, <1>7, OpenCallsFacts
<1>10. OpenMatchesStack'
  BY <1>1, <1>2, <1>4, <1>6, <1>9 DEF OpenMatchesStack
<1>11. StacksPlaced'
  BY <1>1, <1>4 DEF StacksPlaced
<1>12. QED
  BY <1>8, <1>10, <1>11

\* From the end loop to the start loop: the listed calls are now those of the
\* current stack, which the scan found to have the same hash codes.
LEMMA EndsDoneKeeps ==
  ASSUME SInv, EndsDone
  PROVE  StacksPlaced' /\ DepthFollows' /\ OpenMatchesStack'
<1>1. /\ SamplerTypeOK /\ StacksPlaced /\ UNCHANGED vars
      /\ main = "end" /\ main' = "start" /\ top <= common /\ top' = top
      /\ current' = current /\ call_end' = call_end /\ phase' = phase
  BY DEF SInv, EndsDone, stacks, vars
<1>2. /\ top \in Nat /\ common \in Nat
      /\ previous \in Seq(Functions) /\ current \in Seq(Functions)
      /\ common <= top /\ top <= Len(previous) /\ common <= Len(current)
      /\ \A i \in 1 .. common : Hash[previous[i]] = Hash[current[i]]
  BY <1>1 DEF StacksPlaced, SamplerTypeOK
<1>3. top = common
  BY <1>1, <1>2
<1>4. ToldOpen = SubSeq(previous, 1, top) /\ ToldOpen' = SubSeq(current, 1, top)
  BY <1>1 DEF ToldOpen
<1>5. /\ Len(ToldOpen) = top /\ Len(ToldOpen') = top
      /\ \A i \in 1 .. top : /\ ToldOpen[i] = previous[i]
                             /\ ToldOpen'[i] = current[i]
  BY <1>2, <1>3, <1>4, PrefixFacts
<1>6. DepthFollows' /\ OpenMatchesStack'
  BY <1>1, <1>2, <1>3, <1>5, TracerRests
<1>7. StacksPlaced'
  BY <1>1, <1>2, <1>3 DEF StacksPlaced, Tracing
<1>8. QED
  BY <1>6, <1>7

LEMMA ClaimSampleKeeps ==
  ASSUME SInv, ClaimSample
  PROVE  StacksPlaced' /\ DepthFollows' /\ OpenMatchesStack'
<1>1. /\ SamplerTypeOK /\ StacksPlaced /\ UNCHANGED vars
      /\ main = "claim" /\ main' = "end" /\ top' = Len(previous)
      /\ previous' = previous /\ current' = current /\ call_end' = call_end
      /\ phase' = phase
  BY DEF SInv, ClaimSample, stacks, vars
<1>2. previous \in Seq(Functions) /\ Len(previous) \in Nat
  BY <1>1, LenProperties DEF SamplerTypeOK
<1>3. PICK k \in 0 .. Len(previous) : CommonTop(k) /\ common' = k
  BY DEF ClaimSample
<1>4. /\ common' <= Len(previous) /\ common' <= Len(current)
      /\ \A i \in 1 .. common' : Hash[previous[i]] = Hash[current[i]]
  BY <1>2, <1>3 DEF CommonTop
<1>5. ToldOpen = previous /\ ToldOpen' = SubSeq(previous, 1, Len(previous))
  BY <1>1 DEF ToldOpen
<1>6. ToldOpen' = ToldOpen
  BY <1>2, <1>5, PrefixFacts
<1>7. StacksPlaced'
  BY <1>1, <1>2, <1>4 DEF StacksPlaced, Tracing
<1>8. QED
  BY <1>1, <1>6, <1>7, SameTold

LEMMA CopyKeeps ==
  ASSUME SInv, StartsDone \/ CopyStack
  PROVE  StacksPlaced' /\ DepthFollows' /\ OpenMatchesStack'
<1>1. SamplerTypeOK /\ StacksPlaced
  BY DEF SInv
<1>2. CASE StartsDone
  <2>1. /\ main = "start" /\ main' = "copy" /\ top >= Len(current)
        /\ current' = current /\ call_end' = call_end /\ phase' = phase
        /\ UNCHANGED vars
    BY <1>2 DEF StartsDone, stacks, vars
  <2>2. /\ top = Len(current) /\ top \in Nat /\ current \in Seq(Functions)
    BY <1>1, <2>1, LenProperties DEF StacksPlaced, SamplerTypeOK
  <2>3. ToldOpen = SubSeq(current, 1, top) /\ ToldOpen' = current
    BY <2>1 DEF ToldOpen
  <2>4. ToldOpen' = ToldOpen
    BY <2>2, <2>3, PrefixFacts
  <2>5. StacksPlaced'
    BY <1>1, <2>1 DEF StacksPlaced, Tracing
  <2>6. QED
    BY <2>1, <2>4, <2>5, SameTold
<1>3. CASE CopyStack
  <2>1. /\ main = "copy" /\ previous' = current /\ current' = current
        /\ phase' = phase /\ UNCHANGED vars
    BY <1>3 DEF CopyStack, vars
  <2>2. \/ main' = "last" /\ call_end /\ call_end' = call_end
        \/ main' = "idle" /\ call_end' = FALSE
    BY <1>3 DEF CopyStack, Return
  <2>3. ToldOpen' = ToldOpen
    BY <2>1, <2>2 DEF ToldOpen
  <2>4. phase = "running" /\ (call_end => current # <<>>)
    BY <1>1, <2>1 DEF StacksPlaced, Tracing
  <2>5. StacksPlaced'
    BY <2>1, <2>2, <2>4 DEF StacksPlaced
  <2>6. QED
    BY <2>1, <2>3, <2>5, SameTold
<1>4. QED
  BY <1>2, <1>3

LEMMA SamplerStepSInv == SInv /\ [SamplerStep]_svars => SInv'
<1> SUFFICES ASSUME SInv, [SamplerStep]_svars PROVE SInv'
  OBVIOUS
<1>1. IInv' /\ SamplerTypeOK'
  BY SamplerStepIsStep, SamplerTypeKept, StepIInv DEF SInv
<1> SUFFICES StacksPlaced' /\ DepthFollows' /\ OpenMatchesStack'
  BY <1>1 DEF SInv
<1>2. SamplerTypeOK /\ StacksPlaced
  BY DEF SInv
<1>3. ASSUME StartHeartbeat \/ Configure \/ SamplerStackExceeded \/ SamplerCallEnd
      PROVE  StacksPlaced' /\ UNCHANGED vars /\ ToldOpen' = ToldOpen
  <2>1. phase' = phase /\ UNCHANGED vars
    BY <1>3 DEF StartHeartbeat, Configure, SamplerStackExceeded, SamplerCallEnd, vars
  <2>2. previous' = previous /\ current' = current
    BY <1>2, <1>3 DEF StartHeartbeat, Configure, SamplerStackExceeded,
                      SamplerCallEnd, stacks, StacksPlaced
  <2>3. ToldOpen = previous /\ ToldOpen' = previous'
    BY <1>3 DEF StartHeartbeat, Configure, SamplerStackExceeded, SamplerCallEnd,
                ToldOpen
  <2>4. StacksPlaced'
    BY <1>2, <1>3, <2>1, <2>2 DEF StartHeartbeat, Configure,
       SamplerStackExceeded, SamplerCallEnd, StacksPlaced, Tracing
  <2>5. QED
    BY <2>1, <2>2, <2>3, <2>4
<1>4. ASSUME NEW f \in Functions, SamplerCallStart(f)
      PROVE  StacksPlaced' /\ UNCHANGED vars /\ ToldOpen' = ToldOpen
  BY <1>2, <1>4 DEF SamplerCallStart, ToldOpen, StacksPlaced, Tracing, vars
<1>5. ASSUME LoadReady
      PROVE  StacksPlaced' /\ UNCHANGED vars /\ ToldOpen' = ToldOpen
  <2>1. /\ main = "load" /\ previous' = previous /\ phase' = phase /\ UNCHANGED vars
    BY <1>5 DEF LoadReady, vars
  <2>2. \/ main' = "claim" /\ current' = current /\ call_end' = call_end
        \/ main' = "idle" /\ call_end' = FALSE
    BY <1>5 DEF LoadReady, Return
  <2>3. StacksPlaced'
    BY <1>2, <2>1, <2>2 DEF StacksPlaced, Tracing
  <2>4. QED
    BY <2>1, <2>2, <2>3 DEF ToldOpen
<1>6. ASSUME StoreStop \/ Join \/ Heartbeat \/ UNCHANGED svars
      PROVE  StacksPlaced' /\ UNCHANGED vars /\ ToldOpen' = ToldOpen
  <2>1. /\ previous' = previous /\ current' = current /\ top' = top
        /\ common' = common /\ call_end' = call_end /\ UNCHANGED vars
        /\ phase' = phase
    BY <1>6 DEF StoreStop, Join, Heartbeat, ReadPeriod, CheckStop, StoreReady,
                ThreadMoves, svars, threads, stacks, vars
  <2>2. \/ main' = main
        \/ main \notin Tracing /\ main' \in {"joining", "gone"}
    BY <1>6 DEF StoreStop, Join, Heartbeat, ReadPeriod, CheckStop, StoreReady,
                ThreadMoves, svars, threads, Tracing
  <2>3. StacksPlaced'
    BY <1>2, <2>1, <2>2 DEF StacksPlaced, Tracing
  <2>4. QED
    BY <2>1, <2>2, <2>3 DEF ToldOpen, Tracing
<1>7. ASSUME SamplerFinalize \/ UnwindTracer \/ FinalizeDone
      PROVE  StacksPlaced' /\ DepthFollows' /\ OpenMatchesStack'
  <2>1. phase' # "running" /\ main' \in {"finalize", "stopping"}
        /\ call_end' = call_end /\ current' = current
    BY <1>7 DEF SamplerFinalize, UnwindTracer, FinalizeDone, BeginFinalize,
                Unwind, EndFinalize, threads, stacks
  <2>2. QED
    BY <1>2, <2>1 DEF DepthFollows, OpenMatchesStack, StacksPlaced, Tracing
<1>8. QED
  BY <1>3, <1>4, <1>5, <1>6, <1>7, SameTold, EndPreviousKeeps, StartCurrentKeeps,
     EndLastKeeps, EndsDoneKeeps, ClaimSampleKeeps, CopyKeeps
     DEF SamplerStep, HandleSample, Destroy

LEMMA InitSInv == SamplerInit => SInv
<1> SUFFICES ASSUME SamplerInit PROVE SInv
  OBVIOUS
<1>1. IInv
  BY InitIInv DEF SamplerInit
<1>2. SamplerTypeOK
  BY EmptySeq DEF SamplerInit, SamplerTypeOK, MainPoints, BeatPoints
<1>3. depth = 0 /\ phase = "running" /\ previous = <<>> /\ ToldOpen = previous
  BY DEF SamplerInit, Init, ToldOpen
<1>4. StacksPlaced
  BY <1>3 DEF SamplerInit, StacksPlaced
<1>5. Recorded = 0
  BY <1>3, MaxDepthFits, TracerAssumption DEF Recorded
<1>6. DepthFollows /\ OpenMatchesStack
  BY <1>3, <1>5, EmptySeq DEF DepthFollows, OpenMatchesStack
<1>7. QED
  BY <1>1, <1>2, <1>4, <1>6 DEF SInv

-----------------------------------------------------------------------------
(* The theorems. *)

\* The inductive invariant holds in every reachable state of the sampler.
THEOREM SamplerInvariance == SamplerSpec => []SInv
<1>1. [SamplerNext]_svars => [SamplerStep]_svars
  BY DEF SamplerNext
<1>2. QED
  BY <1>1, InitSInv, SamplerStepSInv, PTL DEF SamplerSpec

\* Type correctness of the sampler's state.
THEOREM SamplerTypes == SamplerSpec => []SamplerTypeOK
<1>1. SInv => SamplerTypeOK
  BY DEF SInv
<1>2. QED
  BY <1>1, SamplerInvariance, PTL

\* However many beats are lost, the tracer's depth is that of the stack the
\* sampler told it of.
THEOREM DepthIsFollowed == SamplerSpec => []DepthFollows
<1>1. SInv => DepthFollows
  BY DEF SInv
<1>2. QED
  BY <1>1, SamplerInvariance, PTL

\* The sampler never hands the tracer a return when it has no open call, so it
\* never makes the tracer end the process.
THEOREM NoUnderflow == SamplerSpec => []NeverUnderflows
<1>1. SInv => NeverUnderflows
  <2> SUFFICES ASSUME SInv PROVE NeverUnderflows
    OBVIOUS
  <2>1. SamplerTypeOK /\ StacksPlaced /\ DepthFollows
    BY DEF SInv
  <2>2. ASSUME main = "end", top > common PROVE depth > 0
    <3>1. phase = "running" /\ top \in Nat /\ common \in Nat
          /\ top <= Len(previous) /\ previous \in Seq(Functions)
      BY <2>1, <2>2 DEF SamplerTypeOK, StacksPlaced, Tracing
    <3>2. depth = Len(SubSeq(previous, 1, top))
      BY <2>1, <2>2, <3>1 DEF DepthFollows, ToldOpen
    <3>3. depth = top
      BY <3>1, <3>2, PrefixFacts
    <3>4. QED
      BY <2>2, <3>1, <3>3
  <2>3. ASSUME main = "last" PROVE depth > 0
    <3>1. phase = "running" /\ previous # <<>> /\ previous \in Seq(Functions)
      BY <2>1, <2>3 DEF SamplerTypeOK, StacksPlaced, Tracing
    <3>2. depth = Len(previous)
      BY <2>1, <2>3, <3>1 DEF DepthFollows, ToldOpen
    <3>3. QED
      BY <3>1, <3>2, EmptySeq
  <2>4. QED
    BY <2>2, <2>3 DEF NeverUnderflows
<1>2. QED
  BY <1>1, SamplerInvariance, PTL

\* What the tracer has open is, hash collisions apart, the sampled stack.
THEOREM SampledStackIsOpen == SamplerSpec => []StackIsFollowed
<1>1. SInv => StackIsFollowed
  BY DEF SInv, StackIsFollowed
<1>2. QED
  BY <1>1, SamplerInvariance, PTL

\* Below the sampler, and beside its heartbeat thread, there is a tracer that is
\* called as by a script that nests and ends its calls: all that the sampler does to
\* it is what the tracer's own operations do, one after the other.
THEOREM SamplerDrivesTracer == SamplerSpec => Init /\ [][Step]_vars
<1>1. SamplerInit => Init
  BY DEF SamplerInit
<1>2. SInv /\ [SamplerNext]_svars => [Step]_vars
  BY SamplerStepIsStep DEF SamplerNext, SInv
<1>3. QED
  BY <1>1, <1>2, SamplerInvariance, PTL DEF SamplerSpec

\* Driven by the sampler the tracer still implements the call ledger: sampling
\* changes which calls are reported, not what their totals mean.
THEOREM SampledLedger == SamplerSpec => ImplementsLedger
<1>1. SamplerInit => Ledger!LedgerInit
  BY InitRefines DEF SamplerInit
<1>2. SInv /\ SInv' /\ [SamplerNext]_svars => [Ledger!LedgerNext]_(Ledger!ledger)
  BY SamplerStepIsStep, StepRefines DEF SamplerNext, SInv
<1>3. QED
  BY <1>1, <1>2, SamplerInvariance, PTL
     DEF SamplerSpec, ImplementsLedger, Ledger!LedgerSpec

\* Under the sampler too, the tracer implements the exclusive ledger.
THEOREM SampledExclusive == SamplerSpec => ImplementsExclusive
<1>1. SamplerInit => Exclusive!SelfInit
  BY InitCharges DEF SamplerInit
<1>2. SInv /\ SInv' /\ [SamplerNext]_svars
        => [Exclusive!SelfNext]_<<OpenCalls, ExclusiveSoFar>>
  BY SamplerStepIsStep, StepCharges DEF SamplerNext, SInv
<1>3. QED
  BY <1>1, <1>2, SamplerInvariance, PTL
     DEF SamplerSpec, ImplementsExclusive, Exclusive!SelfSpec

\* And a reader of the events that sampling makes has open what the tracer has.
THEOREM SampledEventsBracketed == SamplerSpec => []EventsAreBracketed
<1>1. SamplerInit => EventsAreBracketed
  BY InitBrackets DEF SamplerInit
<1>2. SInv /\ SInv' /\ EventsAreBracketed /\ [SamplerNext]_svars => EventsAreBracketed'
  BY SamplerStepIsStep, StepBrackets DEF SamplerNext, SInv
<1>3. QED
  BY <1>1, <1>2, SamplerInvariance, PTL DEF SamplerSpec

=============================================================================
