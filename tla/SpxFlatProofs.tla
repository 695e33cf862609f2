---------------------------- MODULE SpxFlatProofs ----------------------------
(***************************************************************************)
(* Proofs about the flat profile and the function table below it, for any  *)
(* functions, hash codes and names, any capacity, any limits and costs,    *)
(* and any number of profiles and calls.                                   *)
(***************************************************************************)
EXTENDS SpxFlatReport, FiniteSetTheorems, SequenceTheorems, WellFoundedInduction, TLAPS

\* What a search from the first on stops at.
LEMMA SomeFirst ==
  ASSUME NEW T \in SUBSET Nat, T # {}
  PROVE  \E i \in T : \A j \in T : i <= j
<1> DEFINE R == OpToRel(<, Nat)
<1>1. IsWellFoundedOn(R, Nat)
  BY NatLessThanWellFounded, Zenon
<1>2. \A x, y \in Nat : <<y, x>> \in R <=> y < x
  BY DEF OpToRel
<1> HIDE DEF R
<1>3. PICK x \in T : \A y \in T : ~(<<y, x>> \in R)
  BY <1>1, WFMin, Zenon
<1>4. ASSUME NEW y \in T PROVE x <= y
  <2>1. ~(y < x) /\ x \in Nat /\ y \in Nat
    BY <1>2, <1>3
  <2> QED
    BY <2>1
<1> QED
  BY <1>4

-----------------------------------------------------------------------------
(* The function table: its entries and the links of the hash map are the same  *)
(* functions.                                                                  *)

Pool == [blocks : Nat \ {0}, used : 0..POOL_BLOCK_SIZE]

\* A link is in the chain of its key, and leads to the entry of its key.
LinksLead ==
  \A h \in 0 .. CAPACITY - 1 : \A k \in DOMAIN chains[h] :
    /\ Bucket(chains[h][k].key) = h
    /\ chains[h][k].value \in 1..Len(table)
    /\ table[chains[h][k].value].function = chains[h][k].key

\* A chain has one link for a key.
LinksDiffer ==
  \A h \in 0 .. CAPACITY - 1 : \A j, k \in DOMAIN chains[h] :
    chains[h][j].key = chains[h][k].key => j = k

\* Every entry is linked, and none is the other's.
EntriesLinked == \A i \in 1..Len(table) : Links(table[i].function) # {}
EntriesDiffer ==
  \A i, j \in 1..Len(table) : table[i].function = table[j].function => i = j

\* The names lie before the end of the pool, each apart from the others.
Stored(p) ==
  /\ p \in Place /\ p.at + p.size <= POOL_BLOCK_SIZE
  /\ p.block < pool.blocks \/ (p.block = pool.blocks /\ p.at + p.size <= pool.used)

PlacesStored == \A i \in 1..Len(table) : Stored(table[i].name) /\ Stored(table[i].class)

StoreInv ==
  /\ table \in Seq(Entry) /\ Len(table) <= CAPACITY
  /\ chains \in [0 .. CAPACITY - 1 -> Seq(Link)]
  /\ pool \in Pool
  /\ asked \in Functions \cup {NoFunction} /\ found \in 1..Len(table) \cup {NoEntry}
  /\ LinksLead /\ LinksDiffer /\ EntriesLinked /\ EntriesDiffer
  /\ PlacesStored

LEMMA BucketInRange == \A f \in Functions : Bucket(f) \in 0 .. CAPACITY - 1
  BY FuncTableAssumption DEF Bucket

\* A lookup finds the entry of its function, or no link where there is none.
LEMMA ValueIsEntry ==
  ASSUME StoreInv, NEW f \in Functions
  PROVE  /\ Links(f) = {} => ValueOf(f) = NoEntry /\ \A i \in 1..Len(table) : table[i].function # f
         /\ Links(f) # {} => ValueOf(f) \in 1..Len(table) /\ table[ValueOf(f)].function = f
<1>1. Links(f) = {} => ValueOf(f) = NoEntry /\ \A i \in 1..Len(table) : table[i].function # f
  BY DEF ValueOf, StoreInv, EntriesLinked
<1>2. ASSUME Links(f) # {} PROVE ValueOf(f) \in 1..Len(table) /\ table[ValueOf(f)].function = f
  <2> DEFINE c == chains[Bucket(f)]
             n == CHOOSE i \in Links(f) : \A j \in Links(f) : i <= j
  <2>1. c \in Seq(Link) /\ Bucket(f) \in 0 .. CAPACITY - 1
    BY BucketInRange DEF StoreInv
  <2>2. Links(f) \in SUBSET Nat
    BY <2>1 DEF Links
  <2>3. n \in Links(f)
    BY <1>2, <2>2, SomeFirst, Zenon
  <2>4. n \in DOMAIN c /\ c[n].key = f
    BY <2>3 DEF Links, Matches
  <2>5. ValueOf(f) = c[n].value
    BY <1>2, Zenon DEF ValueOf
  <2> HIDE DEF n
  <2> QED
    BY <2>1, <2>4, <2>5 DEF StoreInv, LinksLead
<1> QED
  BY <1>1, <1>2

LEMMA PlaceStored ==
  ASSUME NEW p \in Pool, NEW size \in 1..POOL_BLOCK_SIZE
  PROVE  /\ PlaceOf(p, size) \in Place
         /\ PlaceOf(p, size).at + PlaceOf(p, size).size <= POOL_BLOCK_SIZE
         /\ Interned(p, size) \in Pool
         /\ Interned(p, size).blocks = PlaceOf(p, size).block
         /\ Interned(p, size).used = PlaceOf(p, size).at + PlaceOf(p, size).size
         /\ \/ PlaceOf(p, size).block = p.blocks /\ PlaceOf(p, size).at = p.used
            \/ PlaceOf(p, size).block = p.blocks + 1
<1>1. p.blocks \in Nat \ {0} /\ p.used \in 0..POOL_BLOCK_SIZE /\ POOL_BLOCK_SIZE \in Nat \ {0}
  BY FuncTableAssumption DEF Pool
<1>2. CASE Fits(p, size)
  BY <1>1, <1>2 DEF Fits, PlaceOf, Interned, Place, Pool
<1>3. CASE ~Fits(p, size)
  BY <1>1, <1>3 DEF PlaceOf, Interned, Place, Pool
<1> QED
  BY <1>2, <1>3

\* An entry's names come behind all that is stored, one after the other.
LEMMA NewPlaces ==
  ASSUME pool \in Pool, NEW f \in Functions
  PROVE  /\ NameOf(f) \in Place /\ ClassOf(f) \in Place /\ PoolAfter(f) \in Pool
         /\ ~Overlap(NameOf(f), ClassOf(f))
         /\ \A q : Stored(q) => /\ ~Overlap(q, NameOf(f)) /\ ~Overlap(q, ClassOf(f))
                                /\ ~Overlap(NameOf(f), q) /\ ~Overlap(ClassOf(f), q)
         /\ \A q : Stored(q) \/ q \in {NameOf(f), ClassOf(f)} =>
              /\ q \in Place /\ q.at + q.size <= POOL_BLOCK_SIZE
              /\ \/ q.block < PoolAfter(f).blocks
                 \/ q.block = PoolAfter(f).blocks /\ q.at + q.size <= PoolAfter(f).used
<1> DEFINE m == Interned(pool, Sizes[f][1])
           n == PoolAfter(f)
           a == NameOf(f)
           b == ClassOf(f)
<1>1. Sizes[f][1] \in 1..POOL_BLOCK_SIZE /\ Sizes[f][2] \in 1..POOL_BLOCK_SIZE
  BY FuncTableAssumption
<1>2. /\ a \in Place /\ a.at + a.size <= POOL_BLOCK_SIZE
      /\ m \in Pool /\ m.blocks = a.block /\ m.used = a.at + a.size
      /\ (a.block = pool.blocks /\ a.at = pool.used) \/ a.block = pool.blocks + 1
  BY <1>1, PlaceStored DEF NameOf
<1> HIDE DEF m
<1>3. /\ b \in Place /\ b.at + b.size <= POOL_BLOCK_SIZE
      /\ n \in Pool /\ n.blocks = b.block /\ n.used = b.at + b.size
      /\ (b.block = m.blocks /\ b.at = m.used) \/ b.block = m.blocks + 1
  BY <1>1, <1>2, PlaceStored DEF ClassOf, PoolAfter, m
<1> HIDE DEF n, a, b
<1>4. /\ a.block \in Nat /\ a.at \in Nat /\ a.size \in Nat
      /\ b.block \in Nat /\ b.at \in Nat /\ b.size \in Nat
      /\ m.blocks \in Nat /\ m.used \in Nat /\ n.blocks \in Nat /\ n.used \in Nat
      /\ pool.blocks \in Nat /\ pool.used \in Nat
  BY <1>2, <1>3 DEF Place, Pool
<1>5. ~Overlap(a, b)
  BY <1>2, <1>3, <1>4 DEF Overlap
<1>6. ASSUME NEW q, Stored(q)
      PROVE  /\ ~Overlap(q, a) /\ ~Overlap(q, b) /\ ~Overlap(a, q) /\ ~Overlap(b, q)
             /\ q \in Place /\ q.at + q.size <= POOL_BLOCK_SIZE
             /\ \/ q.block < n.blocks
                \/ q.block = n.blocks /\ q.at + q.size <= n.used
  <2>1. q.block \in Nat /\ q.at \in Nat /\ q.size \in Nat
    BY <1>6 DEF Stored, Place
  <2> QED
    BY <1>2, <1>3, <1>4, <1>6, <2>1 DEF Overlap, Stored
<1>7. /\ a.block < n.blocks \/ (a.block = n.blocks /\ a.at + a.size <= n.used)
      /\ b.block < n.blocks \/ (b.block = n.blocks /\ b.at + b.size <= n.used)
  BY <1>2, <1>3, <1>4
<1>8. ASSUME NEW q, Stored(q) \/ q \in {a, b}
      PROVE  /\ q \in Place /\ q.at + q.size <= POOL_BLOCK_SIZE
             /\ \/ q.block < n.blocks
                \/ q.block = n.blocks /\ q.at + q.size <= n.used
  <2>1. CASE Stored(q)
    BY <1>6, <2>1
  <2>2. CASE q = a
    BY <1>2, <1>7, <2>2
  <2>3. CASE q = b
    BY <1>3, <1>7, <2>3
  <2> QED
    BY <1>8, <2>1, <2>2, <2>3
<1> USE DEF a, b, n
<1>9. /\ NameOf(f) \in Place /\ ClassOf(f) \in Place /\ PoolAfter(f) \in Pool
      /\ ~Overlap(NameOf(f), ClassOf(f))
  BY <1>2, <1>3, <1>5
<1>10. \A q : Stored(q) => /\ ~Overlap(q, NameOf(f)) /\ ~Overlap(q, ClassOf(f))
                           /\ ~Overlap(NameOf(f), q) /\ ~Overlap(ClassOf(f), q)
  BY <1>6, Zenon
<1>11. \A q : Stored(q) \/ q \in {NameOf(f), ClassOf(f)} =>
              /\ q \in Place /\ q.at + q.size <= POOL_BLOCK_SIZE
              /\ \/ q.block < PoolAfter(f).blocks
                 \/ q.block = PoolAfter(f).blocks /\ q.at + q.size <= PoolAfter(f).used
  BY <1>8, Zenon
<1> QED
  BY <1>9, <1>10, <1>11, Zenon

-----------------------------------------------------------------------------
(* Its steps. *)

LEMMA EmptyStore ==
  ASSUME table' = <<>>, chains' = EmptyChains, asked' = NoFunction, found' = NoEntry, pool' \in Pool
  PROVE  StoreInv' /\ NamesAreDisjoint'
<1>1. table' \in Seq(Entry) /\ Len(table') = 0 /\ CAPACITY \in Nat
  BY FuncTableAssumption
<1>2. chains' \in [0 .. CAPACITY - 1 -> Seq(Link)] /\ \A h \in 0 .. CAPACITY - 1 : DOMAIN chains'[h] = {}
  BY DEF EmptyChains
<1>3. LinksLead' /\ LinksDiffer'
  BY <1>2 DEF LinksLead, LinksDiffer
<1>4. 1..Len(table') = {}
  BY <1>1
<1>5. EntriesLinked' /\ EntriesDiffer' /\ PlacesStored' /\ NamesAreDisjoint'
  BY <1>4 DEF EntriesLinked, EntriesDiffer, PlacesStored, NamesAreDisjoint, Entries
<1> QED
  BY <1>1, <1>2, <1>3, <1>5 DEF StoreInv

LEMMA NewStoreKeeps ==
  ASSUME NewStore
  PROVE  StoreInv' /\ NamesAreDisjoint'
<1>1. pool' \in Pool
  BY FuncTableAssumption DEF NewStore, EmptyPool, Pool
<1> QED
  BY <1>1, EmptyStore DEF NewStore

LEMMA CalibrateKeeps ==
  ASSUME StoreInv, NEW f \in Functions, Calibrate(f)
  PROVE  StoreInv' /\ NamesAreDisjoint'
<1>1. pool' \in Pool
  BY NewPlaces DEF StoreInv, Calibrate
<1> QED
  BY <1>1, EmptyStore DEF Calibrate

LEMMA LookupOldKeeps ==
  ASSUME StoreInv, NamesAreDisjoint, NEW f \in Functions, LookupFull(f) \/ LookupKnown(f)
  PROVE  StoreInv' /\ NamesAreDisjoint'
<1>1. UNCHANGED <<table, chains, pool>> /\ asked' = f /\ found' = ValueOf(f)
  BY DEF LookupFull, LookupKnown
<1>2. found' \in 1..Len(table) \cup {NoEntry}
  BY <1>1, ValueIsEntry
<1>3. \A g : Links(g)' = Links(g)
  BY <1>1 DEF Links
<1> QED
  BY <1>1, <1>2, <1>3 DEF StoreInv, LinksLead, LinksDiffer, EntriesLinked, EntriesDiffer,
     PlacesStored, Stored, NamesAreDisjoint, Entries

LEMMA LookupNewKeeps ==
  ASSUME StoreInv, NamesAreDisjoint, NEW f \in Functions, LookupNew(f)
  PROVE  StoreInv' /\ NamesAreDisjoint'
<1> DEFINE n == Len(table) + 1
           h == Bucket(f)
           e == [function |-> f, name |-> NameOf(f), class |-> ClassOf(f)]
           l == [key |-> f, value |-> n]
           C == 0 .. CAPACITY - 1
<1>1. h \in C
  BY BucketInRange
<1>2. n \in 1..CAPACITY /\ Len(table) \in Nat /\ CAPACITY \in Nat
  BY FuncTableAssumption, SMTT(60) DEF LookupNew, StoreInv
<1>3. e \in Entry /\ l \in Link /\ pool' = PoolAfter(f) /\ PoolAfter(f) \in Pool
  BY <1>2, NewPlaces DEF StoreInv, Entry, Link, LookupNew
<1>4. /\ table' \in Seq(Entry) /\ Len(table') = n
      /\ \A i \in 1..Len(table) : table'[i] = table[i]
      /\ table'[n] = e
  <2>1. table' = Append(table, e) /\ table \in Seq(Entry)
    BY DEF LookupNew, StoreInv
  <2> HIDE DEF e
  <2> QED
    BY <1>3, <2>1, AppendProperties
<1>5. /\ chains' \in [C -> Seq(Link)]
      /\ chains'[h] \in Seq(Link) /\ Len(chains'[h]) = Len(chains[h]) + 1
      /\ \A k \in 1..Len(chains[h]) : chains'[h][k] = chains[h][k]
      /\ chains'[h][Len(chains[h]) + 1] = l
      /\ \A g \in C \ {h} : chains'[g] = chains[g]
  <2>1. chains' = [chains EXCEPT ![h] = Append(chains[h], l)] /\ chains \in [C -> Seq(Link)]
    BY DEF LookupNew, StoreInv
  <2>2. chains[h] \in Seq(Link)
    BY <1>1, <2>1
  <2> HIDE DEF l, h
  <2> DEFINE s == Append(chains[h], l)
  <2>3. /\ s \in Seq(Link) /\ Len(s) = Len(chains[h]) + 1
        /\ \A k \in 1..Len(chains[h]) : s[k] = chains[h][k]
        /\ s[Len(chains[h]) + 1] = l
    BY <1>3, <2>2, AppendProperties
  <2> HIDE DEF s
  <2>4. chains' = [chains EXCEPT ![h] = s]
    BY <2>1 DEF s
  <2> HIDE DEF C
  <2> QED
    BY <1>1, <2>1, <2>3, <2>4
<1>6. /\ l.key = f /\ l.value = n /\ e.function = f /\ e.name = NameOf(f) /\ e.class = ClassOf(f)
  OBVIOUS
<1>7. Links(f) = {} /\ \A i \in 1..Len(table) : table[i].function # f
  BY ValueIsEntry DEF LookupNew
<1> HIDE DEF l, e
<1>8. DOMAIN chains[h] = 1..Len(chains[h]) /\ Len(chains[h]) \in Nat
      /\ DOMAIN chains'[h] = 1 .. Len(chains[h]) + 1
  BY <1>1, <1>5 DEF StoreInv
<1>9. \A k \in DOMAIN chains[h] : chains[h][k].key # f
  BY <1>7 DEF Links, Matches
<1>10. LinksLead'
  <2> SUFFICES ASSUME NEW g \in C, NEW k \in DOMAIN chains'[g]
               PROVE  /\ Bucket(chains'[g][k].key) = g
                      /\ chains'[g][k].value \in 1..Len(table')
                      /\ table'[chains'[g][k].value].function = chains'[g][k].key
    BY DEF LinksLead, Bucket
  <2>1. CASE g = h /\ k = Len(chains[h]) + 1
    BY <1>2, <1>4, <1>5, <1>6, <2>1, SMTT(60)
  <2>2. CASE ~(g = h /\ k = Len(chains[h]) + 1)
    <3>1. chains'[g][k] = chains[g][k] /\ k \in DOMAIN chains[g]
      BY <1>5, <1>8, <2>2
    <3>2. /\ Bucket(chains[g][k].key) = g /\ chains[g][k].value \in 1..Len(table)
          /\ table[chains[g][k].value].function = chains[g][k].key
      BY <3>1 DEF StoreInv, LinksLead
    <3> HIDE DEF C
    <3> QED
      BY <1>2, <1>4, <3>1, <3>2
  <2> QED
    BY <2>1, <2>2
<1>11. LinksDiffer'
  <2> SUFFICES ASSUME NEW g \in C, NEW j \in DOMAIN chains'[g], NEW k \in DOMAIN chains'[g],
                      chains'[g][j].key = chains'[g][k].key
               PROVE  j = k
    BY DEF LinksDiffer
  <2>1. CASE g # h
    BY <1>5, <2>1 DEF StoreInv, LinksDiffer
  <2>2. CASE g = h
    <3>1. \A i \in DOMAIN chains'[h] : chains'[h][i].key = f <=> i = Len(chains[h]) + 1
      BY <1>5, <1>6, <1>8, <1>9, SMTT(60)
    <3>2. CASE j \in DOMAIN chains[h] /\ k \in DOMAIN chains[h]
      BY <1>5, <1>8, <2>2, <3>2 DEF StoreInv, LinksDiffer
    <3>3. CASE ~(j \in DOMAIN chains[h] /\ k \in DOMAIN chains[h])
      BY <1>8, <2>2, <3>1, <3>3
    <3> QED
      BY <3>2, <3>3
  <2> QED
    BY <2>1, <2>2
<1>12. EntriesLinked'
  <2>1. \A g \in Functions : Links(g) # {} => Links(g)' # {}
    <3> SUFFICES ASSUME NEW g \in Functions, NEW k \in Links(g) PROVE k \in Links(g)'
      OBVIOUS
    <3>1. k \in DOMAIN chains[Bucket(g)] /\ chains[Bucket(g)][k].key = g /\ Bucket(g) \in C
      BY BucketInRange DEF Links, Matches
    <3>2. k \in DOMAIN chains'[Bucket(g)] /\ chains'[Bucket(g)][k] = chains[Bucket(g)][k]
      BY <1>5, <1>8, <3>1, SMTT(60)
    <3> QED
      BY <3>1, <3>2 DEF Links, Matches, Bucket
  <2>2. Len(chains[h]) + 1 \in Links(f)'
    BY <1>5, <1>6, <1>8 DEF Links, Matches, Bucket
  <2>3. ASSUME NEW i \in 1..Len(table'), NEW g, g = table'[i].function
        PROVE  Links(g)' # {}
    <3>1. CASE i = n
      BY <1>4, <1>6, <2>2, <2>3, <3>1
    <3>2. CASE i # n
      <4>1. i \in 1..Len(table) /\ table'[i] = table[i]
        BY <1>2, <1>4, <3>2
      <4>2. table[i] \in Entry
        BY <4>1 DEF StoreInv
      <4>3. table[i].function \in Functions
        BY <4>2 DEF Entry
      <4>4. Links(table[i].function) # {}
        BY <4>1 DEF StoreInv, EntriesLinked
      <4>5. g = table[i].function
        BY <2>3, <4>1
      <4> QED
        BY <2>1, <4>3, <4>4, <4>5
    <3> QED
      BY <3>1, <3>2
  <2> QED
    BY <2>3 DEF EntriesLinked, Links, Matches, Bucket
<1>13. EntriesDiffer'
  <2>1. \A i \in 1..n : IF i = n THEN table'[i].function = f
                        ELSE i \in 1..Len(table) /\ table'[i].function = table[i].function
    BY <1>2, <1>4, <1>6
  <2> HIDE DEF n
  <2> SUFFICES ASSUME NEW i \in 1..n, NEW j \in 1..n, table'[i].function = table'[j].function
               PROVE  i = j
    BY <1>4 DEF EntriesDiffer
  <2> QED
    BY <1>7, <2>1 DEF StoreInv, EntriesDiffer
<1>14. PlacesStored'
  <2>1. \A q : Stored(q) \/ q \in {NameOf(f), ClassOf(f)} => Stored(q)'
    BY <1>3, NewPlaces DEF StoreInv, Stored
  <2>2. ASSUME NEW i \in 1..Len(table'), NEW q \in {table'[i].name, table'[i].class}
        PROVE  Stored(q)'
    <3>1. CASE i = n
      BY <1>4, <1>6, <2>1, <2>2, <3>1
    <3>2. CASE i # n
      <4>1. i \in 1..Len(table) /\ table'[i] = table[i]
        BY <1>2, <1>4, <3>2
      <4>2. Stored(q)
        BY <2>2, <4>1 DEF StoreInv, PlacesStored
      <4> QED
        BY <2>1, <4>2
    <3> QED
      BY <3>1, <3>2
  <2> QED
    BY <2>2 DEF PlacesStored, Stored
<1>15. NamesAreDisjoint'
  <2>1. \A i \in 1..Len(table) : table'[i] = table[i]
      /\ (\A p \in Places(table[i]) : Stored(p))
    BY <1>4 DEF StoreInv, PlacesStored, Places
  <2>2. Places(table'[n]) = {NameOf(f), ClassOf(f)}
        /\ table'[n].name = NameOf(f) /\ table'[n].class = ClassOf(f)
    BY <1>4, <1>6 DEF Places
  <2>3. ~Overlap(NameOf(f), ClassOf(f))
        /\ (\A q : Stored(q) => /\ ~Overlap(q, NameOf(f)) /\ ~Overlap(q, ClassOf(f))
                                /\ ~Overlap(NameOf(f), q) /\ ~Overlap(ClassOf(f), q))
        /\ (\A q : Stored(q) \/ q \in {NameOf(f), ClassOf(f)} => q.at + q.size <= POOL_BLOCK_SIZE)
    BY NewPlaces DEF StoreInv
  <2>4. \A i \in 1..Len(table') : i \in 1..Len(table) \/ i = n
    BY <1>2, <1>4
  <2> HIDE DEF n
  <2>5. ASSUME NEW i \in 1..Len(table')
        PROVE  /\ \A p \in Places(table'[i]) : p.at + p.size <= POOL_BLOCK_SIZE
               /\ ~Overlap(table'[i].name, table'[i].class)
    BY <2>1, <2>2, <2>3, <2>4 DEF NamesAreDisjoint, Entries
  <2>6. ASSUME NEW i \in 1..Len(table'), NEW j \in 1..Len(table') \ {i},
               NEW p \in Places(table'[i]), NEW q \in Places(table'[j])
        PROVE  ~Overlap(p, q)
    <3>1. CASE i \in 1..Len(table) /\ j \in 1..Len(table)
      BY <2>1, <3>1 DEF NamesAreDisjoint, Entries
    <3>2. CASE i \in 1..Len(table) /\ j = n
      BY <2>1, <2>2, <2>3, <3>2
    <3>3. CASE i = n /\ j \in 1..Len(table)
      BY <2>1, <2>2, <2>3, <3>3
    <3> QED
      BY <2>4, <3>1, <3>2, <3>3
  <2> QED
    BY <2>5, <2>6 DEF NamesAreDisjoint, Entries, Places, Overlap
<1>16. asked' = f /\ found' = n
  BY DEF LookupNew
<1> QED
  BY <1>2, <1>3, <1>4, <1>5, <1>10, <1>11, <1>12, <1>13, <1>14, <1>15, <1>16 DEF StoreInv

-----------------------------------------------------------------------------
(* Every step of the profile is a step of the table, or none. *)

StoreStep ==
  \/ NewStore
  \/ \E f \in Functions : Calibrate(f) \/ Lookup(f)
  \/ UNCHANGED store

LEMMA NextIsStoreStep == [Next]_vars => StoreStep
<1> SUFFICES ASSUME [Next]_vars PROVE StoreStep
  OBVIOUS
<1>1. CASE \E whole \in BOOLEAN : Write(whole)
  BY <1>1 DEF Write, StoreStep
<1>2. CASE Creation
  BY <1>2 DEF Creation, Begin, DisableStdout, DisableStderr, OpenStream, StoreStep
<1>3. CASE Profiling
  BY <1>3 DEF Profiling, CalibrateFirst, CallStart, StartFails, CallEnd, Finalize, StoreStep
<1>4. CASE SelectNext \/ PrintReport \/ CellsExceeded \/ Destroy
  BY <1>4 DEF SelectNext, PrintReport, CellsExceeded, Destroy, StoreStep
<1>5. CASE UNCHANGED vars
  BY <1>5 DEF vars, store, StoreStep
<1> QED
  BY <1>1, <1>2, <1>3, <1>4, <1>5 DEF Next

LEMMA StoreStepKeeps ==
  ASSUME StoreInv, NamesAreDisjoint, StoreStep
  PROVE  StoreInv' /\ NamesAreDisjoint'
<1>1. CASE UNCHANGED store
  <2>1. \A g : Links(g)' = Links(g)
    BY <1>1 DEF store, Links
  <2> QED
    BY <1>1, <2>1 DEF store, StoreInv, LinksLead, LinksDiffer, EntriesLinked, EntriesDiffer,
       PlacesStored, Stored, NamesAreDisjoint, Entries
<1> QED
  BY <1>1, NewStoreKeeps, CalibrateKeeps, LookupOldKeeps, LookupNewKeeps DEF StoreStep, Lookup

LEMMA StoreInit0 == Init => StoreInv /\ NamesAreDisjoint
<1> SUFFICES ASSUME Init PROVE StoreInv /\ NamesAreDisjoint
  OBVIOUS
<1>1. /\ table = <<>> /\ chains = EmptyChains /\ pool = EmptyPool
      /\ asked = NoFunction /\ found = NoEntry
  BY DEF Init, StoreInit
<1>2. table \in Seq(Entry) /\ Len(table) = 0 /\ CAPACITY \in Nat /\ 1..Len(table) = {}
  BY <1>1, FuncTableAssumption
<1>3. chains \in [0 .. CAPACITY - 1 -> Seq(Link)] /\ \A h \in 0 .. CAPACITY - 1 : DOMAIN chains[h] = {}
  BY <1>1 DEF EmptyChains
<1>4. pool \in Pool
  BY <1>1, FuncTableAssumption DEF EmptyPool, Pool
<1> QED
  BY <1>1, <1>2, <1>3, <1>4 DEF StoreInv, LinksLead, LinksDiffer, EntriesLinked, EntriesDiffer,
     PlacesStored, NamesAreDisjoint, Entries

LEMMA StoreInvariance == Spec => [](StoreInv /\ NamesAreDisjoint)
<1>1. StoreInv /\ NamesAreDisjoint /\ [Next]_vars => (StoreInv /\ NamesAreDisjoint)'
  BY NextIsStoreStep, StoreStepKeeps
<1> QED
  BY <1>1, StoreInit0, PTL DEF Spec

\* However many names of whatever lengths the pool holds, no two of them share a
\* character and none lies across two blocks.
THEOREM NamesStayApart == Spec => []NamesAreDisjoint
  BY StoreInvariance, PTL

-----------------------------------------------------------------------------
(* The refinement of EntryTable. *)

\* The index of the entries t, as the INSTANCE defines it of the table.
IndexOf(t) ==
  [f \in {t[i].function : i \in 1..Len(t)} |-> CHOOSE i \in 1..Len(t) : t[i].function = f]

LEMMA IndexFinds ==
  ASSUME NEW t, \A i, j \in 1..Len(t) : t[i].function = t[j].function => i = j
  PROVE  /\ \A i \in 1..Len(t) : /\ t[i].function \in DOMAIN IndexOf(t)
                                 /\ IndexOf(t)[t[i].function] = i
         /\ \A f \in DOMAIN IndexOf(t) : /\ IndexOf(t)[f] \in 1..Len(t)
                                         /\ t[IndexOf(t)[f]].function = f
<1> DEFINE Number(f) == CHOOSE i \in 1..Len(t) : t[i].function = f
<1>1. DOMAIN IndexOf(t) = {t[i].function : i \in 1..Len(t)}
  BY DEF IndexOf
<1>2. \A f \in DOMAIN IndexOf(t) : IndexOf(t)[f] = Number(f)
  BY DEF IndexOf
<1>3. \A f \in DOMAIN IndexOf(t) : Number(f) \in 1..Len(t) /\ t[Number(f)].function = f
  BY <1>1
<1> HIDE DEF Number
<1> QED
  BY <1>1, <1>2, <1>3

LEMMA NoIndex == IndexOf(<<>>) = [f \in {} |-> 0]
<1>1. 1..Len(<<>>) = {}
  OBVIOUS
<1> QED
  BY <1>1, Zenon DEF IndexOf

\* The abstract steps.
Find(f) ==
  /\ asked' = f /\ f \in DOMAIN IndexOf(table) /\ found' = IndexOf(table)[f]
  /\ IndexOf(table') = IndexOf(table)

Add(f) ==
  /\ asked' = f /\ f \notin DOMAIN IndexOf(table)
  /\ \E n \in 1..CAPACITY :
       /\ \A g \in DOMAIN IndexOf(table) : IndexOf(table)[g] # n
       /\ IndexOf(table') = [g \in DOMAIN IndexOf(table) \cup {f} |->
                               IF g = f THEN n ELSE IndexOf(table)[g]]
       /\ found' = n

TurnAway(f) ==
  /\ asked' = f /\ f \notin DOMAIN IndexOf(table)
  /\ \A n \in 1..CAPACITY : \E g \in DOMAIN IndexOf(table) : IndexOf(table)[g] = n
  /\ found' = NoEntry /\ IndexOf(table') = IndexOf(table)

Clear == IndexOf(table') = [f \in {} |-> 0] /\ asked' = NoFunction /\ found' = NoEntry

LEMMA LookupFinds ==
  ASSUME StoreInv, NEW f \in Functions, LookupFull(f) \/ LookupKnown(f)
  PROVE  Find(f) \/ TurnAway(f)
<1>1. UNCHANGED <<table, chains, pool>> /\ asked' = f /\ found' = ValueOf(f)
  BY DEF LookupFull, LookupKnown
<1>2. /\ \A i \in 1..Len(table) : /\ table[i].function \in DOMAIN IndexOf(table)
                                  /\ IndexOf(table)[table[i].function] = i
      /\ \A g \in DOMAIN IndexOf(table) : /\ IndexOf(table)[g] \in 1..Len(table)
                                          /\ table[IndexOf(table)[g]].function = g
  BY IndexFinds DEF StoreInv, EntriesDiffer
<1>3. CASE Links(f) # {}
  <2>1. ValueOf(f) \in 1..Len(table) /\ table[ValueOf(f)].function = f
    BY <1>3, ValueIsEntry
  <2> QED
    BY <1>1, <1>2, <2>1 DEF Find
<1>4. CASE Links(f) = {}
  <2>1. ValueOf(f) = NoEntry /\ \A i \in 1..Len(table) : table[i].function # f
    BY <1>4, ValueIsEntry
  <2>2. f \notin DOMAIN IndexOf(table)
    BY <1>2, <2>1
  <2>3. Len(table) = CAPACITY
    BY <1>4 DEF LookupFull, LookupKnown
  <2>4. \A n \in 1..CAPACITY : \E g \in DOMAIN IndexOf(table) : IndexOf(table)[g] = n
    BY <1>2, <2>3
  <2> QED
    BY <1>1, <2>1, <2>2, <2>4 DEF TurnAway
<1> QED
  BY <1>3, <1>4

LEMMA LookupAdds ==
  ASSUME StoreInv, StoreInv', NEW f \in Functions, LookupNew(f)
  PROVE  Add(f)
<1> DEFINE n == Len(table) + 1
           X == IndexOf(table)
           Y == IndexOf(table')
<1>1. Len(table) \in Nat /\ Len(table) < CAPACITY /\ CAPACITY \in Nat
  BY FuncTableAssumption DEF LookupNew, StoreInv
<1>2. /\ Len(table') = n /\ table'[n].function = f
      /\ \A i \in 1..Len(table) : table'[i].function = table[i].function
  BY DEF LookupNew, StoreInv
<1>3. /\ \A i \in 1..Len(table) : table[i].function \in DOMAIN X /\ X[table[i].function] = i
      /\ \A g \in DOMAIN X : X[g] \in 1..Len(table) /\ table[X[g]].function = g
  BY IndexFinds DEF StoreInv, EntriesDiffer
<1>4. /\ \A i \in 1..Len(table') : table'[i].function \in DOMAIN Y /\ Y[table'[i].function] = i
      /\ \A g \in DOMAIN Y : Y[g] \in 1..Len(table') /\ table'[Y[g]].function = g
  BY IndexFinds DEF StoreInv, EntriesDiffer
<1>5. X = [g \in DOMAIN X |-> X[g]] /\ Y = [g \in DOMAIN Y |-> Y[g]]
  BY DEF IndexOf
<1>6. f \notin DOMAIN X
  <2>1. Links(f) = {}
    BY DEF LookupNew
  <2>2. \A i \in 1..Len(table) : table[i].function # f
    BY <2>1, ValueIsEntry
  <2> HIDE DEF X
  <2> QED
    BY <1>3, <2>2
<1>7. asked' = f /\ found' = n
  BY DEF LookupNew
<1> HIDE DEF X, Y
<1>8. n \in 1..CAPACITY /\ \A g \in DOMAIN X : X[g] # n
  BY <1>1, <1>3
<1>9. n \in 1..Len(table') /\ \A i \in 1..Len(table) : i \in 1..Len(table')
  BY <1>1, <1>2
<1>10. \A i \in 1..Len(table') : i = n \/ i \in 1..Len(table)
  BY <1>1, <1>2
<1> HIDE DEF n
<1>11. f \in DOMAIN Y /\ Y[f] = n
  BY <1>2, <1>4, <1>9
<1>12. \A g \in DOMAIN X : g \in DOMAIN Y /\ Y[g] = X[g]
  <2> SUFFICES ASSUME NEW g \in DOMAIN X PROVE g \in DOMAIN Y /\ Y[g] = X[g]
    OBVIOUS
  <2>1. X[g] \in 1..Len(table) /\ table[X[g]].function = g
    BY <1>3
  <2>2. X[g] \in 1..Len(table') /\ table'[X[g]].function = g
    BY <1>2, <1>9, <2>1
  <2> QED
    BY <1>4, <2>2
<1>13. \A g \in DOMAIN Y : g \in DOMAIN X \/ g = f
  <2> SUFFICES ASSUME NEW g \in DOMAIN Y PROVE g \in DOMAIN X \/ g = f
    OBVIOUS
  <2>1. Y[g] \in 1..Len(table') /\ table'[Y[g]].function = g
    BY <1>4
  <2>2. CASE Y[g] = n
    BY <1>2, <2>1, <2>2
  <2>3. CASE Y[g] \in 1..Len(table)
    <3>1. table[Y[g]].function = g
      BY <1>2, <2>1, <2>3
    <3>2. table[Y[g]].function \in DOMAIN X
      BY <1>3, <2>3
    <3> QED
      BY <3>1, <3>2
  <2> QED
    BY <1>10, <2>1, <2>2, <2>3
<1>14. DOMAIN Y = DOMAIN X \cup {f}
  BY <1>11, <1>12, <1>13
<1>15. Y = [g \in DOMAIN X \cup {f} |-> IF g = f THEN n ELSE X[g]]
  <2>1. \A g \in DOMAIN Y : Y[g] = IF g = f THEN n ELSE X[g]
    BY <1>11, <1>12, <1>13
  <2> QED
    BY <1>5, <1>14, <2>1
<1> QED
  BY <1>6, <1>7, <1>8, <1>15, Zenon DEF Add, X, Y

LEMMA StoreStepRefines ==
  ASSUME StoreInv, StoreInv', StoreStep
  PROVE  [Table!EntryTableNext]_<<IndexOf(table), asked, found>>
<1>1. CASE NewStore \/ \E f \in Functions : Calibrate(f)
  <2>1. table' = <<>> /\ asked' = NoFunction /\ found' = NoEntry
    BY <1>1 DEF NewStore, Calibrate
  <2>2. Clear
    BY <2>1, NoIndex DEF Clear
  <2>3. Table!Clear
    BY <2>2, Zenon DEF Clear, IndexOf, Entries, Table!Clear
  <2> QED
    BY <2>3 DEF Table!EntryTableNext
<1>2. ASSUME NEW f \in Functions, Lookup(f) PROVE Table!EntryTableNext
  <2>1. Find(f) \/ Add(f) \/ TurnAway(f)
    BY <1>2, LookupFinds, LookupAdds DEF Lookup
  <2>2. Table!Find(f) \/ Table!Add(f) \/ Table!TurnAway(f)
    BY <2>1, Zenon DEF Find, Add, TurnAway, IndexOf, Entries, Table!Find, Table!Add, Table!TurnAway, Table!Known
  <2> QED
    BY <2>2 DEF Table!EntryTableNext
<1>3. CASE UNCHANGED store
  BY <1>3 DEF store
<1> QED
  BY <1>1, <1>2, <1>3 DEF StoreStep

\* Collisions, chained buckets, full tables and the calibration do not show: the
\* table is a table of functions.
THEOREM TableIsImplemented == Spec => ImplementsEntryTable
<1>1. Init => Table!EntryTableInit
  <2> SUFFICES ASSUME Init PROVE Table!EntryTableInit
    OBVIOUS
  <2>1. table = <<>> /\ asked = NoFunction /\ found = NoEntry
    BY DEF Init, StoreInit
  <2>2. IndexOf(table) = [f \in {} |-> 0]
    BY <2>1, NoIndex
  <2> QED
    BY <2>1, <2>2, Zenon DEF IndexOf, Entries, Table!EntryTableInit
<1>2. StoreInv /\ StoreInv' /\ [Next]_vars => [Table!EntryTableNext]_<<IndexOf(table), asked, found>>
  BY NextIsStoreStep, StoreStepRefines
<1>3. StoreInv /\ StoreInv' /\ [Next]_vars =>
        [Table!EntryTableNext]_<<[f \in {table[i].function : i \in Entries} |->
                                    CHOOSE i \in Entries : table[i].function = f], asked, found>>
  BY <1>2, Zenon DEF IndexOf, Entries
<1> QED
  BY <1>1, <1>3, StoreInvariance, PTL DEF Spec, ImplementsEntryTable, Table!EntryTableSpec

-----------------------------------------------------------------------------
(* stdout and stderr. *)

\* A descriptor is /dev/null exactly while there is a copy of what it was, and
\* the two are taken one after the other.
StdioInv ==
  /\ live \in BOOLEAN /\ out \in {"tty", "null"} /\ err \in {"tty", "null"}
  /\ backup \subseteq {1, 2}
  /\ 1 \in backup <=> out = "null"
  /\ 2 \in backup <=> err = "null"
  /\ pc \in {"stdout", "stderr"} => live
  /\ pc \in {"none", "stdout", "stderr"} => err = "tty"
  /\ pc \in {"none", "stdout"} => out = "tty"
  /\ pc = "stderr" => out = "null"
  /\ pc \in {"stream", "idle", "select"} => (out = "null" <=> live) /\ (err = "null" <=> live)

LEMMA StdioInitial == Init => StdioInv
  BY DEF Init, StdioInv

LEMMA StdioDisabled ==
  ASSUME StdioInv, \/ \E opened, copied \in BOOLEAN : DisableStdout(opened, copied)
                   \/ \E copied \in BOOLEAN : DisableStderr(copied)
  PROVE  StdioInv'
<1>1. ASSUME NEW opened \in BOOLEAN, NEW copied \in BOOLEAN, DisableStdout(opened, copied)
      PROVE  StdioInv'
  <2>1. live' = live /\ err' = err /\ pc = "stdout"
    BY <1>1 DEF DisableStdout, config
  <2>2. CASE out' = "null" /\ backup' = backup \cup {1} /\ pc' = "stderr"
    BY <2>1, <2>2 DEF StdioInv
  <2>3. CASE pc' = "destroy" /\ UNCHANGED <<out, backup>>
    BY <2>1, <2>3 DEF StdioInv
  <2> QED
    BY <1>1, <2>2, <2>3 DEF DisableStdout
<1>2. ASSUME NEW copied \in BOOLEAN, DisableStderr(copied)
      PROVE  StdioInv'
  <2>1. live' = live /\ out' = out /\ pc = "stderr"
    BY <1>2 DEF DisableStderr, config
  <2>2. CASE err' = "null" /\ backup' = backup \cup {2} /\ pc' = "stream"
    BY <2>1, <2>2 DEF StdioInv
  <2>3. CASE pc' = "destroy" /\ UNCHANGED <<err, backup>>
    BY <2>1, <2>3 DEF StdioInv
  <2> QED
    BY <1>2, <2>2, <2>3 DEF DisableStderr
<1> QED
  BY <1>1, <1>2

LEMMA StdioKept == StdioInv /\ [Next]_vars => StdioInv'
<1> SUFFICES ASSUME StdioInv, [Next]_vars PROVE StdioInv'
  OBVIOUS
<1>1. ASSUME UNCHANGED <<stdio, live>>,
             \/ pc' = pc \/ pc' \in {"dead", "destroy"}
             \/ pc \in {"stream", "idle", "select"} /\ pc' \in {"idle", "select"}
      PROVE  StdioInv'
  BY <1>1 DEF StdioInv, stdio
<1>2. CASE \E whole \in BOOLEAN : Write(whole)
  BY <1>1, <1>2 DEF Write, config
<1>3. CASE \E l \in BOOLEAN, k \in Limits, m \in MetricCounts : Begin(l, k, m)
  BY <1>3 DEF Begin, StdioInv, stdio
<1>4. CASE \E opened \in BOOLEAN : OpenStream(opened)
  BY <1>1, <1>4 DEF OpenStream, config
<1>5. CASE \E f \in Functions : CalibrateFirst(f) \/ CallStart(f) \/ StartFails(f)
  BY <1>1, <1>5 DEF CalibrateFirst, CallStart, StartFails, config
<1>6. CASE (\E cost \in Costs, due \in BOOLEAN : CallEnd(cost, due)) \/ Finalize
  <2>1. UNCHANGED <<stdio, live>> /\ pc = "idle"
    BY <1>6 DEF CallEnd, Finalize, Calls, config
  <2>2. pc' \in {"idle", "select", "destroy"}
    BY <1>6, <2>1 DEF CallEnd, Finalize, BeginReport
  <2> QED
    BY <1>1, <2>1, <2>2
<1>7. CASE SelectNext \/ PrintReport \/ CellsExceeded
  BY <1>1, <1>7 DEF SelectNext, PrintReport, CellsExceeded, config
<1>8. CASE Destroy
  <2>1. live' = live /\ pc' = "none" /\ backup' = {}
    BY <1>8 DEF Destroy, Restored, config
  <2>2. out' = "tty" /\ err' = "tty"
    BY <1>8 DEF Destroy, Restored, StdioInv
  <2> QED
    BY <2>1, <2>2 DEF StdioInv
<1>9. CASE UNCHANGED vars
  BY <1>1, <1>9 DEF vars, config
<1> QED
  BY <1>2, <1>3, <1>4, <1>5, <1>6, <1>7, <1>8, <1>9, StdioDisabled DEF Next, Creation, Profiling

\* Whichever of the descriptors could be taken, and wherever the creation of the
\* reporter failed, the script has both back when the reporter is gone.
THEOREM StdioGivenBack == Spec => []StdioIsGivenBack
<1>1. StdioInv => StdioIsGivenBack
  BY DEF StdioInv, StdioIsGivenBack
<1> QED
  BY <1>1, StdioInitial, StdioKept, PTL DEF Spec

-----------------------------------------------------------------------------
(* The order of the rows, a total one. *)

\* Before, of the entries' values s.
Ahead(s, a, b) ==
  \/ s[a][1] > s[b][1]
  \/ s[a][1] = s[b][1] /\ s[a][2] > s[b][2]
  \/ s[a] = s[b] /\ a < b

\* Entry b is listed before all others of the first n.
Best(s, b, n) == b \in 1..n /\ \A e \in 1..n : e = b \/ Ahead(s, b, e)

LEMMA AheadIsTotal ==
  ASSUME NEW s \in Seq(Nat \X Nat)
  PROVE  /\ \A a, b \in 1..Len(s) : a = b \/ Ahead(s, a, b) \/ Ahead(s, b, a)
         /\ \A a, b \in 1..Len(s) : Ahead(s, a, b) => a # b /\ ~Ahead(s, b, a)
         /\ \A a, b, c \in 1..Len(s) : Ahead(s, a, b) /\ Ahead(s, b, c) => Ahead(s, a, c)
<1>1. \A a \in 1..Len(s) : s[a] \in Nat \X Nat /\ a \in Nat
  OBVIOUS
<1>2. \A x, y \in Nat \X Nat : x = y <=> x[1] = y[1] /\ x[2] = y[2]
  BY SMTT(60)
<1>3. \A a \in 1..Len(s) : s[a][1] \in Nat /\ s[a][2] \in Nat /\ a \in Nat
  BY <1>1
<1>4. \A a, b \in 1..Len(s) : s[a] = s[b] <=> s[a][1] = s[b][1] /\ s[a][2] = s[b][2]
  BY <1>1, <1>2
<1>5. ASSUME NEW a \in 1..Len(s), NEW b \in 1..Len(s)
      PROVE  /\ a = b \/ Ahead(s, a, b) \/ Ahead(s, b, a)
             /\ Ahead(s, a, b) => a # b /\ ~Ahead(s, b, a)
  <2>1. /\ s[a][1] \in Nat /\ s[a][2] \in Nat /\ a \in Nat
        /\ s[b][1] \in Nat /\ s[b][2] \in Nat /\ b \in Nat
        /\ s[a] = s[b] <=> s[a][1] = s[b][1] /\ s[a][2] = s[b][2]
    BY <1>3, <1>4
  <2>2. a = b \/ Ahead(s, a, b) \/ Ahead(s, b, a)
    BY <2>1, SMTT(60) DEF Ahead
  <2>3. Ahead(s, a, b) => a # b /\ ~Ahead(s, b, a)
    BY <2>1, SMTT(60) DEF Ahead
  <2> QED
    BY <2>2, <2>3
<1>6. ASSUME NEW a \in 1..Len(s), NEW b \in 1..Len(s), NEW c \in 1..Len(s),
             Ahead(s, a, b), Ahead(s, b, c)
      PROVE  Ahead(s, a, c)
  <2>1. /\ s[a][1] \in Nat /\ s[a][2] \in Nat /\ a \in Nat
        /\ s[b][1] \in Nat /\ s[b][2] \in Nat /\ b \in Nat
        /\ s[c][1] \in Nat /\ s[c][2] \in Nat /\ c \in Nat
    BY <1>3
  <2>2. s[a] = s[c] <=> s[a][1] = s[c][1] /\ s[a][2] = s[c][2]
    BY <1>4
  <2>3. s[a] = s[b] => s[a][1] = s[b][1] /\ s[a][2] = s[b][2]
    OBVIOUS
  <2>4. s[b] = s[c] => s[b][1] = s[c][1] /\ s[b][2] = s[c][2]
    OBVIOUS
  <2>5. /\ \/ s[a][1] > s[b][1]
           \/ s[a][1] = s[b][1] /\ s[a][2] > s[b][2]
           \/ s[a][1] = s[b][1] /\ s[a][2] = s[b][2] /\ a < b
        /\ \/ s[b][1] > s[c][1]
           \/ s[b][1] = s[c][1] /\ s[b][2] > s[c][2]
           \/ s[b][1] = s[c][1] /\ s[b][2] = s[c][2] /\ b < c
    BY <1>6, <2>3, <2>4 DEF Ahead
  <2>6. \/ s[a][1] > s[c][1]
        \/ s[a][1] = s[c][1] /\ s[a][2] > s[c][2]
        \/ s[a][1] = s[c][1] /\ s[a][2] = s[c][2] /\ a < c
    <3> DEFINE a1 == s[a][1]
               a2 == s[a][2]
               b1 == s[b][1]
               b2 == s[b][2]
               c1 == s[c][1]
               c2 == s[c][2]
    <3>1. /\ a1 \in Nat /\ a2 \in Nat /\ b1 \in Nat /\ b2 \in Nat /\ c1 \in Nat /\ c2 \in Nat
          /\ a \in Nat /\ b \in Nat /\ c \in Nat
      BY <2>1
    <3>2. /\ a1 > b1 \/ (a1 = b1 /\ a2 > b2) \/ (a1 = b1 /\ a2 = b2 /\ a < b)
          /\ b1 > c1 \/ (b1 = c1 /\ b2 > c2) \/ (b1 = c1 /\ b2 = c2 /\ b < c)
      BY <2>5
    <3> HIDE DEF a1, a2, b1, b2, c1, c2
    <3>3. a1 > c1 \/ (a1 = c1 /\ a2 > c2) \/ (a1 = c1 /\ a2 = c2 /\ a < c)
      BY <3>1, <3>2, SMTT(60)
    <3> QED
      BY <3>3 DEF a1, a2, c1, c2
  <2> QED
    BY <2>2, <2>6 DEF Ahead
<1> QED
  BY <1>5, <1>6, Zenon

\* One more entry, and the best of all is the one there was or the new one.
LEMMA BetterOfTwo ==
  ASSUME NEW s \in Seq(Nat \X Nat), NEW n \in Nat, n + 1 <= Len(s), NEW b, Best(s, b, n)
  PROVE  /\ Ahead(s, n + 1, b) => Best(s, n + 1, n + 1)
         /\ ~Ahead(s, n + 1, b) => Best(s, b, n + 1)
<1>1. /\ b \in 1..Len(s) /\ n + 1 \in 1..Len(s) /\ b # n + 1 /\ b \in 1 .. n + 1
      /\ \A e \in 1 .. n + 1 : e = n + 1 \/ e \in 1..n
      /\ \A e \in 1..n : e \in 1..Len(s)
  <2>1. b \in 1..n /\ Len(s) \in Nat
    BY DEF Best
  <2> QED
    BY <2>1, SMTT(60)
<1>2. ASSUME Ahead(s, n + 1, b), NEW e \in 1..n PROVE Ahead(s, n + 1, e)
  BY <1>1, <1>2, AheadIsTotal DEF Best
<1>3. ~Ahead(s, n + 1, b) => Ahead(s, b, n + 1)
  BY <1>1, AheadIsTotal
<1>4. ASSUME Ahead(s, n + 1, b) PROVE Best(s, n + 1, n + 1)
  <2>1. n + 1 \in 1 .. n + 1
    OBVIOUS
  <2> QED
    BY <1>1, <1>2, <1>4, <2>1 DEF Best
<1>5. ASSUME ~Ahead(s, n + 1, b) PROVE Best(s, b, n + 1)
  <2>1. \A e \in 1..n : e = b \/ Ahead(s, b, e)
    BY DEF Best
  <2>2. \A e \in 1 .. n + 1 : e = b \/ Ahead(s, b, e)
    BY <1>1, <1>3, <1>5, <2>1
  <2> QED
    BY <1>1, <2>2 DEF Best
<1> QED
  BY <1>4, <1>5

LEMMA BestExists ==
  ASSUME NEW s \in Seq(Nat \X Nat), NEW m \in 1..Len(s)
  PROVE  \E b : Best(s, b, m)
<1> DEFINE T == {n \in 1..Len(s) : ~ \E b : Best(s, b, n)}
<1> SUFFICES ASSUME T # {} PROVE FALSE
  OBVIOUS
<1>1. PICK n \in T : \A k \in T : n <= k
  <2>1. T \in SUBSET Nat
    OBVIOUS
  <2> HIDE DEF T
  <2> QED
    BY <2>1, SomeFirst, Zenon
<1>2. n \in 1..Len(s) /\ ~ \E b : Best(s, b, n)
  OBVIOUS
<1>3. CASE n = 1
  <2>1. Best(s, 1, 1)
    BY DEF Best
  <2> QED
    BY <1>2, <1>3, <2>1
<1>4. CASE n # 1
  <2>1. n - 1 \in 1..Len(s) /\ n - 1 \in Nat /\ (n - 1) + 1 = n /\ ~(n <= n - 1)
    BY <1>2, <1>4
  <2>2. n - 1 \notin T
    BY <1>1, <2>1
  <2>3. PICK b : Best(s, b, n - 1)
    BY <2>1, <2>2
  <2> HIDE DEF T
  <2>4. Best(s, n, n) \/ Best(s, b, n)
    BY <1>2, <2>1, <2>3, BetterOfTwo
  <2> QED
    BY <1>2, <2>4
<1> QED
  BY <1>3, <1>4

-----------------------------------------------------------------------------
(* The state of the reporter: its types, and what is known of the selection.   *)

\* Until the calibration no call has been made: it resets the table under nobody.
Books ==
  /\ ReportTypes /\ ProfileTypes
  /\ first = NoFunction => table = <<>> /\ open = <<>>

\* Among the top entries is the most costly of those that were looked at.
TopHasBest ==
  /\ DOMAIN top = 1..Listed /\ at <= Len(table) + 1
  /\ \A j \in DOMAIN top : top[j] < at
  /\ Listed > 0 => \E j \in DOMAIN top : Best(stats, top[j], at - 1)

RowsAreRanked ==
  rows # <<>> =>
    /\ \A i, j \in DOMAIN rows : i < j => Before(rows[i], rows[j])
    /\ \A e \in Entries : e = rows[1] \/ Before(rows[1], e)

RankInv ==
  /\ Books
  /\ pc = "select" => TopHasBest
  /\ pc = "destroy" => RowsAreRanked
  /\ pc \in {"stdout", "stderr", "stream"} => rows = <<>>

LEMMA SeqWidens ==
  ASSUME NEW S, NEW T, S \subseteq T, NEW s \in Seq(S)
  PROVE  s \in Seq(T)
  OBVIOUS

\* No entry is the only sequence of entries that there are none of.
LEMMA SeqOfNone ==
  ASSUME NEW s \in Seq(1..0)
  PROVE  s = <<>>
<1>1. CASE Len(s) = 0
  BY <1>1
<1>2. CASE Len(s) # 0
  <2>1. 1 \in 1..Len(s)
    BY <1>2
  <2>2. s[1] \in 1..0
    BY <2>1
  <2> QED
    BY <2>2
<1> QED
  BY <1>1, <1>2

LEMMA RankInitial == Init => RankInv
<1> SUFFICES ASSUME Init PROVE RankInv
  OBVIOUS
<1>1. ReportTypes
  <2>1. pc = "none" /\ reports = 0 /\ limit = 0 /\ metrics = 0 /\ lastLines = 0 /\ at = 1
    BY DEF Init
  <2>2. live = FALSE /\ finalizing = FALSE /\ top = <<>> /\ rows = <<>>
    BY DEF Init
  <2>3. reports \in 0..MaxReports /\ at \in Nat
    BY <2>1, FlatProfileAssumption
  <2>4. top \in Seq(Entries) /\ rows \in Seq(Entries)
    BY <2>2
  <2> QED
    BY <2>1, <2>2, <2>3, <2>4 DEF ReportTypes
<1>2. ProfileTypes
  BY DEF Init, StoreInit, ProfileTypes
<1> QED
  BY <1>1, <1>2 DEF Init, StoreInit, RankInv, Books

\* The steps that leave the profile and the report alone.
LEMMA RankFramed ==
  ASSUME RankInv, UNCHANGED <<table, config, report, profile>>,
         pc' \in {"none", "stdout", "stderr", "stream", "idle", "select", "destroy", "dead"},
         pc' = "select" => pc = "select",
         pc' = "destroy" => pc \in {"destroy", "stdout", "stderr", "stream"},
         pc' \in {"stdout", "stderr", "stream"} => pc \in {"stdout", "stderr", "stream"}
  PROVE  RankInv'
<1>1. Books'
  BY DEF RankInv, Books, ReportTypes, ProfileTypes, Entries, config, report, profile
<1>2. pc' = "select" => TopHasBest'
  BY DEF RankInv, TopHasBest, Listed, Best, Ahead, config, report, profile
<1>3. pc' = "destroy" => RowsAreRanked'
  BY DEF RankInv, RowsAreRanked, Before, Entries, config, report, profile
<1> QED
  BY <1>1, <1>2, <1>3 DEF RankInv, report

LEMMA RankBegun ==
  ASSUME RankInv, NEW l \in BOOLEAN, NEW k \in Limits, NEW m \in MetricCounts, Begin(l, k, m)
  PROVE  RankInv'
<1>1. ReportTypes'
  <2>1. pc' \in {"stdout", "stream"} /\ reports' \in 0..MaxReports
    BY FlatProfileAssumption DEF Begin, RankInv, Books, ReportTypes
  <2>2. limit' \in Nat /\ metrics' \in Nat /\ lastLines' \in Nat /\ at' \in Nat
    BY FlatProfileAssumption DEF Begin
  <2>3. live' \in BOOLEAN /\ finalizing' \in BOOLEAN
    BY DEF Begin
  <2>4. top' \in Seq(Entries') /\ rows' \in Seq(Entries')
    BY DEF Begin
  <2> QED
    BY <2>1, <2>2, <2>3, <2>4 DEF ReportTypes
<1>2. ProfileTypes'
  BY DEF Begin, NewStore, ProfileTypes
<1> QED
  BY <1>1, <1>2 DEF Begin, NewStore, RankInv, Books

LEMMA RankCalibrated ==
  ASSUME RankInv, NEW f \in Functions, CalibrateFirst(f)
  PROVE  RankInv'
<1>1. table = <<>> /\ table' = <<>>
  BY DEF RankInv, Books, CalibrateFirst, Calibrate
<1>2. first' = f /\ UNCHANGED <<pc, config, report, stats, open, called>> /\ pc = "idle"
  BY DEF CalibrateFirst, Calls
<1>3. ReportTypes'
  BY <1>1, <1>2 DEF RankInv, Books, ReportTypes, Entries, config, report
<1>4. ProfileTypes'
  BY <1>1, <1>2 DEF RankInv, Books, ProfileTypes, Entries
<1>5. f # NoFunction
  BY FuncTableAssumption
<1> QED
  BY <1>2, <1>3, <1>4, <1>5 DEF RankInv, Books

LEMMA RankStarted ==
  ASSUME RankInv, StoreInv, StoreInv', NEW f \in Functions, CallStart(f)
  PROVE  RankInv'
<1>1. UNCHANGED <<pc, config, report, first>> /\ pc = "idle"
  BY DEF CallStart, Calls
<1>2. /\ Len(table) \in Nat /\ Len(table') \in Nat
      /\ Len(table') = Len(table) \/ Len(table') = Len(table) + 1
  BY DEF CallStart, Lookup, LookupFull, LookupKnown, LookupNew, StoreInv
<1>3. Entries \subseteq Entries'
  BY <1>2 DEF Entries
<1>4. ReportTypes'
  <2>1. top' \in Seq(Entries') /\ rows' \in Seq(Entries')
    BY <1>1, <1>3, SeqWidens DEF RankInv, Books, ReportTypes, report
  <2> QED
    BY <1>1, <2>1 DEF RankInv, Books, ReportTypes, config, report
<1>5. ProfileTypes'
  <2>1. stats' \in Seq(Nat \X Nat) /\ Len(stats') = Len(table')
    <3>1. stats \in Seq(Nat \X Nat) /\ Len(stats) = Len(table)
      BY DEF RankInv, Books, ProfileTypes
    <3>2. CASE Len(table') = Len(table)
      BY <3>1, <3>2 DEF CallStart
    <3>3. CASE Len(table') = Len(table) + 1
      <4>1. stats' = Append(stats, <<0, 0>>) /\ <<0, 0>> \in Nat \X Nat
        BY <1>2, <3>3 DEF CallStart
      <4> QED
        BY <3>1, <3>3, <4>1, AppendProperties
    <3> QED
      BY <1>2, <3>2, <3>3
  <2>2. open' \in Seq(Entries' \cup {NoEntry})
    <3>1. open \in Seq(Entries' \cup {NoEntry})
      BY <1>3, SeqWidens DEF RankInv, Books, ProfileTypes
    <3>2. found' \in Entries' \cup {NoEntry}
      BY DEF StoreInv, Entries
    <3> QED
      BY <3>1, <3>2 DEF CallStart
  <2>3. first' \in Functions \cup {NoFunction} /\ called' \in Nat
    BY <1>1 DEF CallStart, RankInv, Books, ProfileTypes
  <2> QED
    BY <2>1, <2>2, <2>3 DEF ProfileTypes
<1>6. first' # NoFunction
  BY <1>1, FuncTableAssumption DEF CallStart
<1> QED
  BY <1>1, <1>4, <1>5, <1>6 DEF RankInv, Books

\* A report begins: of the entries that are the first ones, the best is known.
LEMMA RankReported ==
  ASSUME ReportTypes, ProfileTypes', table \in Seq(Entry), BeginReport,
         UNCHANGED <<table, config, rows>>, finalizing' \in BOOLEAN
  PROVE  /\ ReportTypes'
         /\ pc' = "select" => TopHasBest'
         /\ pc' = "destroy" => RowsAreRanked'
         /\ pc' \in {"idle", "select", "destroy"}
<1>1. Len(table) \in Nat /\ Listed \in 0..Len(table) /\ Listed' = Listed /\ limit \in Nat
  BY DEF ReportTypes, Listed, config
<1>2. CASE table = <<>>
  <2>1. pc' \in {"idle", "destroy"} /\ UNCHANGED <<top, at, rows>> /\ lastLines' = 0
    BY <1>2 DEF BeginReport
  <2>2. ReportTypes'
    BY <2>1 DEF ReportTypes, Entries, config
  <2>3. rows = <<>>
    <3>1. rows \in Seq(1..0)
      BY <1>2 DEF ReportTypes, Entries
    <3> QED
      BY <3>1, SeqOfNone
  <2> QED
    BY <2>1, <2>2, <2>3 DEF RowsAreRanked
<1>3. CASE table # <<>>
  <2>1. /\ top' = [i \in 1..Listed |-> i] /\ at' = Listed + 1 /\ pc' = "select"
        /\ UNCHANGED <<lastLines, rows>>
    BY <1>3 DEF BeginReport
  <2>2. ReportTypes'
    <3>1. \A i \in 1..Listed : i \in 1..Len(table)
      BY <1>1
    <3>2. top' \in Seq(Entries')
      BY <1>1, <2>1, <3>1 DEF Entries
    <3>3. at' \in Nat
      BY <1>1, <2>1
    <3> QED
      BY <2>1, <3>2, <3>3 DEF ReportTypes, Entries, config
  <2>3. DOMAIN top' = 1..Listed' /\ at' <= Len(table') + 1 /\ \A j \in DOMAIN top' : top'[j] < at'
    BY <1>1, <2>1
  <2>4. ASSUME Listed > 0 PROVE \E j \in DOMAIN top' : Best(stats', top'[j], at' - 1)
    <3>1. stats' \in Seq(Nat \X Nat) /\ Listed \in 1..Len(stats')
      BY <1>1, <2>4 DEF ProfileTypes
    <3>2. PICK b : Best(stats', b, Listed)
      BY <3>1, BestExists
    <3>3. b \in 1..Listed
      BY <3>2 DEF Best
    <3>4. b \in DOMAIN top' /\ top'[b] = b /\ at' - 1 = Listed
      BY <1>1, <2>1, <3>3
    <3> QED
      BY <3>2, <3>4
  <2>5. TopHasBest'
    BY <1>1, <2>3, <2>4 DEF TopHasBest
  <2> QED
    BY <2>1, <2>2, <2>5
<1> QED
  BY <1>2, <1>3

LEMMA RankEnded ==
  ASSUME RankInv, StoreInv, NEW cost \in Costs, NEW due \in BOOLEAN, CallEnd(cost, due)
  PROVE  RankInv'
<1> DEFINE e == open[Len(open)]
<1>1. /\ UNCHANGED <<table, config, finalizing, rows, first, called>> /\ pc = "idle"
      /\ finalizing = FALSE /\ open # <<>>
      /\ open' = SubSeq(open, 1, Len(open) - 1)
  BY DEF CallEnd, Calls, store, RankInv, Books, ReportTypes
<1>2. open \in Seq(Entries \cup {NoEntry}) /\ e \in Entries \cup {NoEntry}
  <2>1. open \in Seq(Entries \cup {NoEntry})
    BY DEF RankInv, Books, ProfileTypes
  <2> QED
    BY <1>1, <2>1
<1>3. open' \in Seq(Entries \cup {NoEntry})
  BY <1>1, <1>2
<1>4. stats' \in Seq(Nat \X Nat) /\ Len(stats') = Len(table)
  <2>1. stats \in Seq(Nat \X Nat) /\ Len(stats) = Len(table) /\ Len(table) \in Nat
    BY DEF RankInv, Books, ProfileTypes, StoreInv
  <2>2. CASE e = NoEntry
    BY <2>1, <2>2 DEF CallEnd
  <2>3. CASE e # NoEntry
    <3> DEFINE v == <<stats[e][1] + cost[1], stats[e][2] + cost[2]>>
    <3>1. e \in 1..Len(stats)
      BY <1>2, <2>1, <2>3 DEF Entries
    <3>2. stats' = [stats EXCEPT ![e] = v]
      BY <2>3 DEF CallEnd
    <3>3. stats[e] \in Nat \X Nat /\ cost \in Nat \X Nat
      BY <2>1, <3>1, FlatProfileAssumption
    <3>4. v \in Nat \X Nat
      BY <3>3
    <3> HIDE DEF v, e
    <3> QED
      BY <2>1, <3>1, <3>2, <3>4
  <2> QED
    BY <2>2, <2>3
<1>5. ProfileTypes'
  BY <1>1, <1>3, <1>4 DEF RankInv, Books, ProfileTypes, Entries
<1>6. first' # NoFunction
  BY <1>1 DEF RankInv, Books
<1>7. CASE BeginReport
  <2>1. /\ ReportTypes'
        /\ pc' = "select" => TopHasBest'
        /\ pc' = "destroy" => RowsAreRanked'
        /\ pc' \in {"idle", "select", "destroy"}
    BY <1>1, <1>5, <1>7, RankReported DEF RankInv, Books, StoreInv
  <2> QED
    BY <1>5, <1>6, <2>1 DEF RankInv, Books
<1>8. CASE UNCHANGED <<pc, screen, lastLines, top, at>>
  <2>1. ReportTypes'
    BY <1>1, <1>8 DEF RankInv, Books, ReportTypes, Entries, config
  <2> QED
    BY <1>1, <1>5, <1>6, <1>8, <2>1 DEF RankInv, Books
<1> QED
  BY <1>7, <1>8 DEF CallEnd

LEMMA RankFinalized ==
  ASSUME RankInv, StoreInv, Finalize
  PROVE  RankInv'
<1>1. UNCHANGED <<table, config, rows, profile>> /\ finalizing' = TRUE /\ BeginReport /\ pc = "idle"
  BY DEF Finalize, Calls, store
<1>2. ProfileTypes'
  BY <1>1 DEF RankInv, Books, ProfileTypes, Entries, profile
<1>3. /\ ReportTypes'
      /\ pc' = "select" => TopHasBest'
      /\ pc' = "destroy" => RowsAreRanked'
      /\ pc' \in {"idle", "select", "destroy"}
  BY <1>1, <1>2, RankReported DEF RankInv, Books, StoreInv
<1>4. first' = NoFunction => table' = <<>> /\ open' = <<>>
  BY <1>1 DEF RankInv, Books, profile
<1> QED
  BY <1>2, <1>3, <1>4 DEF RankInv, Books

LEMMA RankSelected ==
  ASSUME RankInv, StoreInv, SelectNext
  PROVE  RankInv'
<1>1. /\ UNCHANGED <<pc, config, finalizing, lastLines, rows, profile, table>>
      /\ pc = "select" /\ at <= Len(table) /\ at' = at + 1 /\ at \in Nat /\ Len(table) \in Nat
  BY DEF SelectNext, store, RankInv, Books, ReportTypes, StoreInv
<1>2. /\ top \in Seq(Entries) /\ DOMAIN top = 1..Listed /\ Listed \in Nat /\ Listed' = Listed
      /\ \A j \in DOMAIN top : top[j] < at /\ top[j] \in Entries
  <2>1. Listed' = Listed /\ Listed \in Nat
    BY <1>1 DEF Listed, config, RankInv, Books, ReportTypes
  <2> QED
    BY <1>1, <2>1 DEF RankInv, TopHasBest, Books, ReportTypes
<1>3. stats \in Seq(Nat \X Nat) /\ Len(stats) = Len(table) /\ stats' = stats
  BY <1>1 DEF RankInv, Books, ProfileTypes, profile
<1>4. \A a, b : Before(a, b) <=> Ahead(stats, a, b)
  BY DEF Before, Ahead
<1>5. \/ Worse = {} /\ top' = top
      \/ \E k \in Worse : top' = [top EXCEPT ![k] = at]
  <2>1. CASE Worse = {}
    BY <2>1 DEF SelectNext, ReplacedInTop
  <2>2. CASE Worse # {}
    <3>1. Worse \in SUBSET Nat
      BY <1>2 DEF Worse
    <3>2. (CHOOSE j \in Worse : \A k \in Worse : j <= k) \in Worse
      BY <2>2, <3>1, SomeFirst, Zenon
    <3> QED
      BY <2>2, <3>2, Zenon DEF SelectNext, ReplacedInTop
  <2> QED
    BY <2>1, <2>2
<1>6. at \in Entries \/ Worse = {}
  <2>1. CASE Listed = 0
    BY <1>2, <2>1 DEF Worse
  <2>2. CASE Listed # 0
    <3>1. 1 \in DOMAIN top /\ top[1] \in Entries /\ top[1] < at
      BY <1>2, <2>2
    <3> QED
      BY <1>1, <3>1 DEF Entries
  <2> QED
    BY <2>1, <2>2
<1>7. /\ top' \in Seq(Entries) /\ DOMAIN top' = 1..Listed
      /\ \A j \in DOMAIN top : top'[j] = top[j] \/ (j \in Worse /\ top'[j] = at)
  BY <1>2, <1>5, <1>6
<1>8. Books'
  <2>1. ReportTypes'
    BY <1>1, <1>7 DEF RankInv, Books, ReportTypes, Entries, config
  <2> QED
    BY <1>1, <2>1 DEF RankInv, Books, ProfileTypes, Entries, profile
<1>9. ASSUME Listed > 0 PROVE \E j \in DOMAIN top' : Best(stats, top'[j], at)
  <2>1. PICK b \in DOMAIN top : Best(stats, top[b], at - 1)
    BY <1>1, <1>9 DEF RankInv, TopHasBest
  <2>2. at - 1 \in Nat /\ (at - 1) + 1 = at /\ at <= Len(stats)
    BY <1>1, <1>3, <2>1 DEF Best
  <2>3. /\ Ahead(stats, at, top[b]) => Best(stats, at, at)
        /\ ~Ahead(stats, at, top[b]) => Best(stats, top[b], at)
    <3> DEFINE n == at - 1
    <3>1. n \in Nat /\ n + 1 = at /\ n + 1 <= Len(stats) /\ Best(stats, top[b], n)
      BY <2>1, <2>2
    <3> HIDE DEF n
    <3> QED
      BY <1>3, <3>1, BetterOfTwo
  <2>4. CASE b \in Worse
    <3>1. Worse # {}
      BY <2>4
    <3>2. PICK k \in Worse : top' = [top EXCEPT ![k] = at]
      BY <1>5, <3>1
    <3>3. k \in DOMAIN top' /\ top'[k] = at
      BY <1>2, <3>2 DEF Worse
    <3>4. Ahead(stats, at, top[b])
      BY <1>4, <2>4 DEF Worse
    <3> QED
      BY <2>3, <3>3, <3>4
  <2>5. CASE b \notin Worse
    <3>1. ~Ahead(stats, at, top[b])
      BY <1>4, <2>1, <2>5 DEF Worse
    <3>2. top'[b] = top[b] /\ b \in DOMAIN top'
      BY <1>2, <1>7, <2>1, <2>5
    <3> QED
      BY <2>3, <3>1, <3>2
  <2> QED
    BY <2>4, <2>5
<1>10. TopHasBest'
  <2>1. at' <= Len(table') + 1 /\ at' - 1 = at
    BY <1>1
  <2>2. \A j \in DOMAIN top' : top'[j] < at'
    BY <1>1, <1>2, <1>7, SMTT(60) DEF Entries
  <2>3. Listed' > 0 => \E j \in DOMAIN top' : Best(stats', top'[j], at' - 1)
    BY <1>2, <1>3, <1>9, <2>1
  <2> QED
    BY <1>2, <1>7, <2>1, <2>2, <2>3 DEF TopHasBest
<1> QED
  BY <1>1, <1>8, <1>10 DEF RankInv

LEMMA RankPrinted ==
  ASSUME RankInv, StoreInv, PrintReport
  PROVE  RankInv'
<1>1. /\ UNCHANGED <<config, finalizing, top, at, profile, table>>
      /\ pc = "select" /\ at > Len(table) /\ at \in Nat /\ Len(table) \in Nat
      /\ pc' \in {"destroy", "idle"}
  BY DEF PrintReport, store, RankInv, Books, ReportTypes, StoreInv
<1>2. PICK s \in [1..Listed -> 1..Len(table)] : IsSorted(s) /\ rows' = s
  BY DEF PrintReport
<1>3. Listed \in Nat /\ metrics \in Nat
  BY <1>1 DEF Listed, RankInv, Books, ReportTypes
<1>4. s \in Seq(Entries) /\ lastLines' \in Nat
  BY <1>2, <1>3 DEF Entries, PrintReport, LineCount
<1>5. stats \in Seq(Nat \X Nat) /\ Len(stats) = Len(table) /\ stats' = stats
  BY <1>1 DEF RankInv, Books, ProfileTypes, profile
<1>6. Books'
  <2>1. ReportTypes'
    BY <1>1, <1>2, <1>4 DEF RankInv, Books, ReportTypes, Entries, config
  <2> QED
    BY <1>1, <2>1 DEF RankInv, Books, ProfileTypes, Entries, profile
<1>7. \A a, b : (Before(a, b) <=> Ahead(stats, a, b)) /\ (Before(a, b)' <=> Ahead(stats, a, b))
  BY <1>5 DEF Before, Ahead
<1>8. \A i, j \in DOMAIN s : i < j => Ahead(stats, s[i], s[j])
  BY <1>2, <1>7 DEF IsSorted
<1>9. ASSUME s # <<>>, NEW e \in Entries PROVE e = s[1] \/ Ahead(stats, s[1], e)
  <2>1. Listed > 0 /\ 1 \in DOMAIN s /\ s[1] \in 1..Len(stats)
    BY <1>2, <1>3, <1>5, <1>9
  <2>2. PICK j \in DOMAIN top : Best(stats, top[j], at - 1)
    BY <1>1, <2>1 DEF RankInv, TopHasBest
  <2>3. at - 1 = Len(table)
    BY <1>1 DEF RankInv, TopHasBest
  <2>4. top[j] \in {s[i] : i \in DOMAIN s}
    BY <1>2, <2>2 DEF IsSorted
  <2>5. PICK i \in DOMAIN s : s[i] = top[j]
    BY <2>4
  <2>6. s[i] = s[1]
    <3>1. CASE i = 1
      BY <3>1
    <3>2. CASE i # 1
      <4>1. 1 < i
        BY <1>2, <3>2
      <4>2. Ahead(stats, s[1], s[i])
        BY <1>8, <2>1, <4>1
      <4>3. s[1] = s[i] \/ Ahead(stats, s[i], s[1])
        BY <1>5, <2>1, <2>2, <2>3, <2>5 DEF Best
      <4>4. s[i] \in 1..Len(stats)
        BY <1>2, <1>5
      <4> QED
        BY <1>5, <2>1, <4>2, <4>3, <4>4, AheadIsTotal
    <3> QED
      BY <3>1, <3>2
  <2> QED
    BY <2>2, <2>3, <2>5, <2>6 DEF Best, Entries
<1>10. RowsAreRanked'
  BY <1>1, <1>2, <1>7, <1>8, <1>9 DEF RowsAreRanked, Entries
<1> QED
  BY <1>1, <1>6, <1>10 DEF RankInv

LEMMA RankKept ==
  ASSUME RankInv, StoreInv, StoreInv', [Next]_vars
  PROVE  RankInv'
<1>1. CASE \E whole \in BOOLEAN : Write(whole)
  BY <1>1, RankFramed DEF Write, store, RankInv, Books, ReportTypes
<1>2. CASE \E l \in BOOLEAN, k \in Limits, m \in MetricCounts : Begin(l, k, m)
  BY <1>2, RankBegun
<1>3. CASE \E opened, copied \in BOOLEAN : DisableStdout(opened, copied)
  BY <1>3, RankFramed DEF DisableStdout, store
<1>4. CASE \E copied \in BOOLEAN : DisableStderr(copied)
  BY <1>4, RankFramed DEF DisableStderr, store
<1>5. CASE \E opened \in BOOLEAN : OpenStream(opened)
  BY <1>5, RankFramed DEF OpenStream, store
<1>6. CASE Profiling
  <2>1. CASE \E f \in Functions : CalibrateFirst(f)
    BY <2>1, RankCalibrated
  <2>2. CASE \E f \in Functions : CallStart(f)
    BY <2>2, RankStarted
  <2>3. CASE \E f \in Functions : StartFails(f)
    BY <2>3, RankFramed DEF StartFails, store
  <2>4. CASE \E cost \in Costs, due \in BOOLEAN : CallEnd(cost, due)
    BY <2>4, RankEnded
  <2>5. CASE Finalize
    BY <2>5, RankFinalized
  <2> QED
    BY <1>6, <2>1, <2>2, <2>3, <2>4, <2>5 DEF Profiling
<1>7. CASE SelectNext
  BY <1>7, RankSelected
<1>8. CASE PrintReport
  BY <1>8, RankPrinted
<1>9. CASE CellsExceeded
  BY <1>9, RankFramed DEF CellsExceeded, store
<1>10. CASE Destroy
  BY <1>10, RankFramed DEF Destroy, store
<1>11. CASE UNCHANGED vars
  BY <1>11, RankFramed DEF vars, store, RankInv, Books, ReportTypes
<1> QED
  BY <1>1, <1>2, <1>3, <1>4, <1>5, <1>6, <1>7, <1>8, <1>9, <1>10, <1>11 DEF Next, Creation

LEMMA RankInvariance == Spec => []RankInv
<1>1. RankInv /\ StoreInv /\ StoreInv' /\ [Next]_vars => RankInv'
  BY RankKept
<1> QED
  BY <1>1, RankInitial, StoreInvariance, PTL DEF Spec

\* Although the selection may miss functions that are more costly than some it
\* lists, it never misses the most costly one, and that is the first row.
THEOREM MostCostlyListedFirst == Spec => []MostCostlyIsFirst
<1>1. RankInv => MostCostlyIsFirst
  BY DEF RankInv, RowsAreRanked, MostCostlyIsFirst
<1> QED
  BY <1>1, RankInvariance, PTL

-----------------------------------------------------------------------------
(* The terminal, and the types of everything. *)

LineSet == [is : {"blank", "script", "begun", "report"}, of : 0..MaxReports]

\* The cursor never goes up beyond the first line: the last report is still there,
\* but for the time it takes to print the next one.
ScreenInv ==
  /\ nullOutput \in {"unopened", "opened", "failed"}
  /\ screen \in Seq(LineSet) /\ screen # <<>>
  /\ height \in [1..MaxReports -> Nat] /\ written \in Nat /\ lastLines \in Nat
  /\ pc \notin {"select", "dead"} => lastLines < Len(screen)

LEMMA LinesTyped ==
  /\ Blank \in LineSet /\ Line("script", 0) \in LineSet /\ Line("begun", 0) \in LineSet
  /\ \A r \in 0..MaxReports : Line("report", r) \in LineSet
<1>1. 0 \in 0..MaxReports
  BY FlatProfileAssumption
<1> QED
  BY <1>1 DEF Blank, Line, LineSet

LEMMA ScreenInitial == Init => ScreenInv
<1> SUFFICES ASSUME Init PROVE ScreenInv
  OBVIOUS
<1>1. screen = <<Blank>> /\ lastLines = 0 /\ nullOutput = "unopened" /\ written = 0
  BY DEF Init
<1>2. screen \in Seq(LineSet) /\ Len(screen) = 1
  BY <1>1, LinesTyped
<1> QED
  BY <1>1, <1>2 DEF Init, ScreenInv

LEMMA ScreenFramed ==
  ASSUME ScreenInv, UNCHANGED <<screen, height, written, lastLines>>,
         nullOutput' \in {"unopened", "opened", "failed"},
         pc' \notin {"select", "dead"} => pc \notin {"select", "dead"}
  PROVE  ScreenInv'
  BY DEF ScreenInv

LEMMA ScreenWritten ==
  ASSUME ScreenInv, NEW whole \in BOOLEAN, Write(whole)
  PROVE  ScreenInv'
<1>1. UNCHANGED <<pc, nullOutput, lastLines, height>> /\ pc \in {"none", "idle"}
  BY DEF Write, stdio, report
<1>2. written' \in Nat
  BY DEF Write, ScreenInv
<1>3. Len(screen) \in Nat /\ Len(screen) \in DOMAIN screen /\ lastLines < Len(screen)
  BY <1>1 DEF ScreenInv
<1> DEFINE put(l) == [screen EXCEPT ![Len(screen)] = l]
<1>4. \A l \in LineSet : put(l) \in Seq(LineSet) /\ Len(put(l)) = Len(screen)
  BY <1>3 DEF ScreenInv
<1>5. \/ screen' = screen
      \/ screen' = put(Line("script", 0)) \o <<Blank>>
      \/ screen' = put(Line("begun", 0))
  BY DEF Write
<1> HIDE DEF put
<1>6. CASE screen' = screen
  BY <1>1, <1>2, <1>6 DEF ScreenInv
<1>7. CASE screen' = put(Line("script", 0)) \o <<Blank>>
  <2> DEFINE s == put(Line("script", 0))
  <2>1. s \in Seq(LineSet) /\ Len(s) = Len(screen) /\ <<Blank>> \in Seq(LineSet) /\ Len(<<Blank>>) = 1
    BY <1>4, LinesTyped
  <2>2. screen' = s \o <<Blank>>
    BY <1>7
  <2> HIDE DEF s
  <2>3. screen' \in Seq(LineSet) /\ Len(screen') = Len(screen) + 1
    BY <2>1, <2>2, ConcatProperties
  <2>4. lastLines < Len(screen')
    BY <1>3, <2>3 DEF ScreenInv
  <2> QED
    BY <1>1, <1>2, <1>3, <2>3, <2>4 DEF ScreenInv
<1>8. CASE screen' = put(Line("begun", 0))
  <2>1. screen' \in Seq(LineSet) /\ Len(screen') = Len(screen)
    BY <1>4, <1>8, LinesTyped
  <2> QED
    BY <1>1, <1>2, <1>3, <2>1 DEF ScreenInv
<1> QED
  BY <1>5, <1>6, <1>7, <1>8

\* The lines of the last report go, and leave a line for the cursor.
LEMMA ScreenReported ==
  ASSUME ScreenInv, BeginReport, pc = "idle", UNCHANGED <<nullOutput, height, written>>
  PROVE  ScreenInv'
<1> DEFINE n == lastLines
           m == Len(screen) - n
<1>1. n \in Nat /\ n < Len(screen) /\ Len(screen) \in Nat /\ screen \in Seq(LineSet)
  BY DEF ScreenInv
<1>2. m \in 1..Len(screen)
  BY <1>1
<1> DEFINE s == SubSeq(screen, 1, m)
<1>3. s \in Seq(LineSet) /\ Len(s) = m
  BY <1>1, <1>2
<1>4. [s EXCEPT ![m] = Blank] \in Seq(LineSet) /\ Len([s EXCEPT ![m] = Blank]) = m
  <2> HIDE DEF s, m
  <2> QED
    BY <1>2, <1>3, LinesTyped
<1>5. screen' = screen \/ screen' = [s EXCEPT ![m] = Blank]
  BY DEF BeginReport, Erased
<1>6. screen' \in Seq(LineSet) /\ Len(screen') > 0
  <2> HIDE DEF s, m
  <2> QED
    BY <1>1, <1>2, <1>4, <1>5
<1>7. (lastLines' = 0 /\ pc' \in {"idle", "destroy"}) \/ (lastLines' = lastLines /\ pc' = "select")
  BY DEF BeginReport
<1> HIDE DEF s, m, n
<1> QED
  BY <1>6, <1>7 DEF ScreenInv

LEMMA ScreenPrinted ==
  ASSUME ScreenInv, ReportTypes, table \in Seq(Entry), PrintReport
  PROVE  ScreenInv'
<1> DEFINE n == LineCount(Listed)
           lines == [i \in 1..n |-> IF i < n THEN Line("report", reports) ELSE Blank]
<1>1. Listed \in Nat /\ n \in Nat
  <2>1. Listed \in Nat
    BY DEF ReportTypes, Listed
  <2>2. metrics \in Nat
    BY DEF ReportTypes
  <2> QED
    BY <2>1, <2>2 DEF LineCount
<1>2. /\ screen' = screen \o lines /\ height' = [height EXCEPT ![reports] = n]
      /\ lastLines' = n /\ UNCHANGED <<nullOutput, written>>
      /\ pc' \in {"idle", "destroy"}
  BY DEF PrintReport, Printed, Newlines, LineCount, stdio
<1>3. Line("report", reports) \in LineSet /\ Blank \in LineSet
  BY LinesTyped DEF ReportTypes
<1> HIDE DEF n
<1>4. lines \in Seq(LineSet) /\ Len(lines) = n
  BY <1>1, <1>3
<1> HIDE DEF lines
<1>5. screen \in Seq(LineSet) /\ Len(screen) \in Nat /\ Len(screen) > 0
  BY DEF ScreenInv
<1>6. screen' \in Seq(LineSet) /\ Len(screen') = Len(screen) + n
  BY <1>2, <1>4, <1>5, ConcatProperties
<1>7. lastLines' < Len(screen') /\ screen' # <<>>
  BY <1>1, <1>2, <1>5, <1>6
<1>8. height' \in [1..MaxReports -> Nat]
  BY <1>1, <1>2 DEF ScreenInv
<1> QED
  BY <1>1, <1>2, <1>6, <1>7, <1>8 DEF ScreenInv

LEMMA ScreenKept ==
  ASSUME ScreenInv, RankInv, StoreInv, [Next]_vars
  PROVE  ScreenInv'
<1>1. CASE \E whole \in BOOLEAN : Write(whole)
  BY <1>1, ScreenWritten
<1>2. CASE Creation
  <2>1. CASE \E l \in BOOLEAN, k \in Limits, m \in MetricCounts : Begin(l, k, m)
    <3>1. /\ pc = "none" /\ lastLines' = 0 /\ UNCHANGED <<nullOutput, screen, height, written>>
      BY <2>1 DEF Begin, stdio, terminal
    <3>2. Len(screen) > 0
      BY DEF ScreenInv
    <3> QED
      BY <3>1, <3>2 DEF ScreenInv
  <2>2. CASE \E opened, copied \in BOOLEAN : DisableStdout(opened, copied)
    BY <2>2, ScreenFramed DEF DisableStdout, Opens, terminal, report, ScreenInv
  <2>3. CASE \E copied \in BOOLEAN : DisableStderr(copied)
    BY <2>3, ScreenFramed DEF DisableStderr, terminal, report, ScreenInv
  <2>4. CASE \E opened \in BOOLEAN : OpenStream(opened)
    BY <2>4, ScreenFramed DEF OpenStream, terminal, report, stdio, ScreenInv
  <2> QED
    BY <1>2, <2>1, <2>2, <2>3, <2>4 DEF Creation
<1>3. CASE Profiling
  <2>1. CASE \E f \in Functions : CalibrateFirst(f) \/ CallStart(f) \/ StartFails(f)
    BY <2>1, ScreenFramed
       DEF CalibrateFirst, CallStart, StartFails, terminal, report, stdio, ScreenInv
  <2>2. CASE \E cost \in Costs, due \in BOOLEAN : CallEnd(cost, due)
    <3>1. /\ pc = "idle" /\ UNCHANGED <<nullOutput, height, written>>
          /\ BeginReport \/ UNCHANGED <<pc, screen, lastLines>>
      BY <2>2 DEF CallEnd, Calls, stdio
    <3>2. CASE BeginReport
      BY <3>1, <3>2, ScreenReported
    <3>3. CASE UNCHANGED <<pc, screen, lastLines>>
      BY <3>1, <3>3 DEF ScreenInv
    <3> QED
      BY <3>1, <3>2, <3>3
  <2>3. CASE Finalize
    BY <2>3, ScreenReported DEF Finalize, Calls, stdio
  <2> QED
    BY <1>3, <2>1, <2>2, <2>3 DEF Profiling
<1>4. CASE SelectNext \/ CellsExceeded \/ Destroy
  BY <1>4, ScreenFramed
     DEF SelectNext, CellsExceeded, Destroy, terminal, report, stdio, ScreenInv
<1>5. CASE PrintReport
  BY <1>5, ScreenPrinted DEF RankInv, Books, StoreInv
<1>6. CASE UNCHANGED vars
  BY <1>6, ScreenFramed DEF vars, terminal, report, stdio, ScreenInv
<1> QED
  BY <1>1, <1>2, <1>3, <1>4, <1>5, <1>6 DEF Next

\* Every value has its type, the numbers of the entries that are kept anywhere are
\* those of entries, and the terminal always has a line.
THEOREM FlatTyped == Spec => []TypeOK
<1>1. ScreenInv /\ RankInv /\ StoreInv /\ [Next]_vars => ScreenInv'
  BY ScreenKept
<1>2. ScreenInv /\ RankInv /\ StoreInv /\ StdioInv => TypeOK
  BY DEF ScreenInv, RankInv, Books, StoreInv, StdioInv, Pool, LineSet, TypeOK, StoreTypes,
     StdioTypes, TerminalTypes, Entries
<1> QED
  BY <1>1, <1>2, ScreenInitial, RankInvariance, StoreInvariance, StdioInitial, StdioKept, PTL DEF Spec

-----------------------------------------------------------------------------
(* The lines of the terminal, counted. *)

\* The places of the lines of s that are in S, and how many these are.
Marks(s, S) == {i \in DOMAIN s : s[i] \in S}

Count(s, S) == Cardinality(Marks(s, S))

LEMMA CountTyped ==
  ASSUME NEW T, NEW s \in Seq(T), NEW S
  PROVE  IsFiniteSet(Marks(s, S)) /\ Count(s, S) \in Nat
<1>1. IsFiniteSet(1..Len(s))
  BY FS_Interval
<1>2. Marks(s, S) \subseteq 1..Len(s)
  BY DEF Marks
<1>3. IsFiniteSet(Marks(s, S))
  BY <1>1, <1>2, FS_Subset
<1> QED
  BY <1>3, FS_CardinalityType DEF Count

\* What the lines after those of s add.
LEMMA CountExtends ==
  ASSUME NEW T, NEW s \in Seq(T), NEW t \in Seq(T), NEW S,
         Len(s) <= Len(t), \A i \in 1..Len(s) : t[i] = s[i]
  PROVE  /\ Count(t, S) = Count(s, S) + Cardinality({i \in Len(s) + 1 .. Len(t) : t[i] \in S})
         /\ Count(s, S) \in Nat
<1> DEFINE tail == {i \in Len(s) + 1 .. Len(t) : t[i] \in S}
<1>1. Len(s) \in Nat /\ Len(t) \in Nat
  OBVIOUS
<1>2. IsFiniteSet(tail)
  <2>1. IsFiniteSet(Len(s) + 1 .. Len(t))
    BY <1>1, FS_Interval
  <2>2. tail \subseteq Len(s) + 1 .. Len(t)
    OBVIOUS
  <2> QED
    BY <2>1, <2>2, FS_Subset
<1>3. Marks(t, S) = Marks(s, S) \cup tail
  BY <1>1 DEF Marks
<1>4. Marks(s, S) \cap tail = {}
  BY <1>1 DEF Marks
<1>5. IsFiniteSet(Marks(s, S)) /\ Cardinality(Marks(s, S)) \in Nat
  BY CountTyped DEF Count
<1>6. Cardinality(tail) \in Nat
  BY <1>2, FS_CardinalityType
<1> HIDE DEF tail
<1>7. Cardinality(Marks(t, S)) = Cardinality(Marks(s, S)) + Cardinality(tail) - Cardinality({})
  BY <1>2, <1>3, <1>4, <1>5, FS_Union
<1>8. Count(t, S) = Count(s, S) + Cardinality(tail) /\ Count(s, S) \in Nat
  BY <1>5, <1>6, <1>7, FS_EmptySet DEF Count
<1> QED
  BY <1>8 DEF tail

\* One line more.
LEMMA CountAppended ==
  ASSUME NEW T, NEW s \in Seq(T), NEW e \in T, NEW S
  PROVE  Count(s \o <<e>>, S) = IF e \in S THEN Count(s, S) + 1 ELSE Count(s, S)
<1> DEFINE t == s \o <<e>>
           tail == {i \in Len(s) + 1 .. Len(t) : t[i] \in S}
<1>1. t \in Seq(T) /\ Len(t) = Len(s) + 1 /\ t[Len(s) + 1] = e /\ \A i \in 1..Len(s) : t[i] = s[i]
  OBVIOUS
<1>2. Len(s) \in Nat
  OBVIOUS
<1> HIDE DEF t
<1>3. Len(s) + 1 .. Len(t) = {Len(s) + 1}
  BY <1>1, <1>2
<1>4. Count(t, S) = Count(s, S) + Cardinality(tail) /\ Count(s, S) \in Nat
  BY <1>1, <1>2, CountExtends
<1>5. CASE e \in S
  <2>1. tail = {Len(s) + 1}
    BY <1>1, <1>3, <1>5
  <2>2. Cardinality(tail) = 1
    BY <2>1, FS_Singleton
  <2>3. Count(t, S) = Count(s, S) + 1
    BY <1>4, <2>2
  <2> QED
    BY <1>5, <2>3 DEF t
<1>6. CASE e \notin S
  <2>1. tail = {}
    BY <1>1, <1>3, <1>6
  <2>2. Cardinality(tail) = 0
    BY <2>1, FS_EmptySet
  <2>3. Count(t, S) = Count(s, S)
    BY <1>4, <2>2
  <2> QED
    BY <1>6, <2>3 DEF t
<1> QED
  BY <1>5, <1>6

\* Another last line that counts like the one before.
LEMMA CountReplaced ==
  ASSUME NEW T, NEW s \in Seq(T), NEW e, NEW S, s # <<>>, s[Len(s)] \in S <=> e \in S
  PROVE  Count([s EXCEPT ![Len(s)] = e], S) = Count(s, S)
<1>1. Len(s) \in Nat /\ Len(s) \in DOMAIN s
  OBVIOUS
<1>2. Marks([s EXCEPT ![Len(s)] = e], S) = Marks(s, S)
  BY <1>1 DEF Marks
<1> QED
  BY <1>2 DEF Count

\* The last line, without the ones before.
LEMMA CountLast ==
  ASSUME NEW T, NEW s \in Seq(T), NEW e \in T, NEW S, s # <<>>, s[Len(s)] \in S, e \notin S
  PROVE  Count([s EXCEPT ![Len(s)] = e], S) = Count(s, S) - 1
<1> DEFINE t == [s EXCEPT ![Len(s)] = e]
<1>1. Len(s) \in Nat /\ Len(s) \in DOMAIN s
  OBVIOUS
<1>2. Marks(t, S) = Marks(s, S) \ {Len(s)} /\ Len(s) \in Marks(s, S)
  BY <1>1 DEF Marks
<1>3. IsFiniteSet(Marks(s, S))
  BY CountTyped
<1> QED
  BY <1>2, <1>3, FS_RemoveElement DEF Count

LEMMA CountFirst ==
  ASSUME NEW T, NEW s \in Seq(T), NEW e \in T, NEW S, s # <<>>, s[Len(s)] \notin S, e \in S
  PROVE  Count([s EXCEPT ![Len(s)] = e], S) = Count(s, S) + 1
<1> DEFINE t == [s EXCEPT ![Len(s)] = e]
<1>1. Len(s) \in Nat /\ Len(s) \in DOMAIN s
  OBVIOUS
<1>2. Marks(t, S) = Marks(s, S) \cup {Len(s)} /\ Len(s) \notin Marks(s, S)
  BY <1>1 DEF Marks
<1>3. IsFiniteSet(Marks(s, S))
  BY CountTyped
<1> QED
  BY <1>2, <1>3, FS_AddElement DEF Count

\* The lines that are empty, or were begun.
Empties == {l \in LineSet : l.is \in {"blank", "begun"}}

Scripts == {Line("script", 0)}

ReportLines(r) == {Line("report", r)}

LEMMA LinesDiffer ==
  /\ Blank \in Empties /\ Line("begun", 0) \in Empties /\ Line("script", 0) \notin Empties
  /\ \A l \in Empties : l \notin Scripts /\ \A r : l \notin ReportLines(r)
  /\ \A r : /\ Line("report", r) \notin Empties /\ Line("report", r) \notin Scripts
            /\ Line("script", 0) \notin ReportLines(r)
  /\ \A r, q : Line("report", r) \in ReportLines(q) <=> r = q
  BY LinesTyped DEF Empties, Scripts, ReportLines, Line, Blank

\* A report of n lines, the last one of them for the cursor.
IsReport(s, t, n, r) ==
  /\ s \in Seq(LineSet) /\ t \in Seq(LineSet)
  /\ n \in Nat \ {0} /\ Len(t) = Len(s) + n
  /\ \A i \in 1..Len(s) : t[i] = s[i]
  /\ \A i \in Len(s) + 1 .. Len(t) - 1 : t[i] = Line("report", r)
  /\ t[Len(t)] = Blank

LEMMA ReportCounted ==
  ASSUME NEW s, NEW t, NEW n, NEW r, IsReport(s, t, n, r)
  PROVE  /\ Count(t, Scripts) = Count(s, Scripts)
         /\ Count(t, Empties) = Count(s, Empties) + 1
         /\ Count(t, ReportLines(r)) = Count(s, ReportLines(r)) + (n - 1)
         /\ \A q : q # r => Count(t, ReportLines(q)) = Count(s, ReportLines(q))
<1> DEFINE tail(S) == {i \in Len(s) + 1 .. Len(t) : t[i] \in S}
<1>1. /\ s \in Seq(LineSet) /\ t \in Seq(LineSet) /\ n \in Nat /\ n > 0
      /\ Len(s) \in Nat /\ Len(t) \in Nat /\ Len(t) = Len(s) + n
  BY DEF IsReport
<1>2. /\ \A i \in Len(s) + 1 .. Len(t) - 1 : t[i] = Line("report", r)
      /\ t[Len(t)] = Blank
      /\ \A i \in 1..Len(s) : t[i] = s[i]
  BY DEF IsReport
<1>3. \A S : Count(t, S) = Count(s, S) + Cardinality(tail(S)) /\ Count(s, S) \in Nat
  <2> SUFFICES ASSUME NEW S
               PROVE  Count(t, S) = Count(s, S) + Cardinality(tail(S)) /\ Count(s, S) \in Nat
    OBVIOUS
  <2>1. Len(s) <= Len(t)
    BY <1>1
  <2> QED
    BY <1>1, <1>2, <2>1, CountExtends
<1>4. \A i \in Len(s) + 1 .. Len(t) : t[i] = Line("report", r) \/ (i = Len(t) /\ t[i] = Blank)
  <2> SUFFICES ASSUME NEW i \in Len(s) + 1 .. Len(t), i # Len(t)
               PROVE  t[i] = Line("report", r)
    BY <1>2
  <2>1. i \in Len(s) + 1 .. Len(t) - 1
    BY <1>1
  <2> QED
    BY <1>2, <2>1
<1>5. tail(Scripts) = {} /\ \A q : q # r => tail(ReportLines(q)) = {}
  <2>1. tail(Scripts) = {}
    BY <1>4, LinesDiffer
  <2>2. ASSUME NEW q, q # r PROVE tail(ReportLines(q)) = {}
    <3>1. Line("report", r) \notin ReportLines(q) /\ Blank \notin ReportLines(q)
      BY <2>2, LinesDiffer
    <3> QED
      BY <1>4, <3>1
  <2> QED
    BY <2>1, <2>2
<1>6. tail(Empties) = {Len(t)}
  BY <1>1, <1>2, <1>4, LinesDiffer
<1>7. tail(ReportLines(r)) = Len(s) + 1 .. Len(t) - 1
  BY <1>1, <1>2, <1>4, LinesDiffer, SMTT(60)
<1> HIDE DEF tail
<1>8. Cardinality(Len(s) + 1 .. Len(t) - 1) = n - 1
  <2>1. Len(s) + 1 \in Int /\ Len(t) - 1 \in Int
    BY <1>1
  <2>2. Cardinality(Len(s) + 1 .. Len(t) - 1)
          = IF Len(s) + 1 > Len(t) - 1 THEN 0 ELSE (Len(t) - 1) - (Len(s) + 1) + 1
    BY <2>1, FS_Interval
  <2> QED
    BY <1>1, <2>2
<1>9. Cardinality({Len(t)}) = 1 /\ Cardinality({}) = 0
  BY FS_Singleton, FS_EmptySet
<1>10. Count(t, Scripts) = Count(s, Scripts)
  <2>1. Cardinality(tail(Scripts)) = 0
    BY <1>5, <1>9
  <2>2. Count(t, Scripts) = Count(s, Scripts) + 0 /\ Count(s, Scripts) \in Nat
    BY <1>3, <2>1
  <2> QED
    BY <2>2
<1>11. Count(t, Empties) = Count(s, Empties) + 1
  BY <1>3, <1>6, <1>9
<1>12. Count(t, ReportLines(r)) = Count(s, ReportLines(r)) + (n - 1)
  BY <1>3, <1>7, <1>8
<1>13. ASSUME NEW q, q # r PROVE Count(t, ReportLines(q)) = Count(s, ReportLines(q))
  <2>1. Cardinality(tail(ReportLines(q))) = 0
    BY <1>5, <1>9, <1>13
  <2>2. Count(t, ReportLines(q)) = Count(s, ReportLines(q)) + 0 /\ Count(s, ReportLines(q)) \in Nat
    BY <1>3, <2>1
  <2> QED
    BY <2>2
<1> QED
  BY <1>10, <1>11, <1>12, <1>13

-----------------------------------------------------------------------------
(* What the terminal shows, at every step. *)

\* How many lines of each profile's last report are on the terminal, with the one
\* that is left below it: none while the next one is put together.
Shown(r) == IF pc = "select" /\ r = reports THEN 0 ELSE height[r]

ShownReports == {r \in 1..MaxReports : Shown(r) > 0}

LinesCounted ==
  /\ Count(screen, Scripts) = written
  /\ Count(screen, Empties) = 1 + Cardinality(ShownReports)
  /\ \A r \in 1..MaxReports :
       Count(screen, ReportLines(r)) = IF Shown(r) = 0 THEN 0 ELSE Shown(r) - 1

\* The lines that are above the last report of the profile.
Above == SubSeq(screen, 1, Len(screen) - lastLines)

\* The lines that the next report takes away are those of the last one, below a
\* line that was left empty or only begun, and its function table is not empty.
LastReport ==
  lastLines > 0 =>
    /\ table # <<>>
    /\ Above # <<>> /\ Above[Len(Above)] \in Empties
    /\ IsReport(Above, screen, lastLines, reports)

\* What the terminal has of each writer, in whatever order they took turns; and
\* what the number of lines to go up stands for.
TermInv ==
  /\ screen[Len(screen)] \in Empties
  /\ \A r \in 1..MaxReports : r > reports => height[r] = 0
  /\ pc \in {"stdout", "stderr", "stream", "idle", "select"} => reports \in 1..MaxReports
  /\ pc \in {"stdout", "stderr", "stream", "idle"} => height[reports] = lastLines
  /\ pc \in {"stdout", "stderr", "stream"} => lastLines = 0
  /\ pc = "idle" => (live \/ lastLines = 0) /\ LastReport
  /\ pc = "select" => table # <<>> /\ (live \/ finalizing)
  /\ pc # "dead" => LinesCounted

LEMMA TermInitial == Init => TermInv
<1> SUFFICES ASSUME Init PROVE TermInv
  OBVIOUS
<1>1. screen = <<Blank>> /\ written = 0 /\ pc = "none" /\ height = [r \in 1..MaxReports |-> 0]
  BY DEF Init
<1>2. Len(screen) = 1 /\ screen[1] = Blank /\ DOMAIN screen = {1}
  BY <1>1
<1>3. Marks(screen, Scripts) = {} /\ \A r : Marks(screen, ReportLines(r)) = {}
  BY <1>2, LinesDiffer DEF Marks
<1>4. Marks(screen, Empties) = {1}
  BY <1>2, LinesDiffer DEF Marks
<1>5. ShownReports = {} /\ \A r \in 1..MaxReports : Shown(r) = 0
  BY <1>1 DEF ShownReports, Shown
<1>6. Cardinality({}) = 0 /\ Cardinality({1}) = 1
  BY FS_EmptySet, FS_Singleton
<1>7. LinesCounted
  <2>1. Count(screen, Scripts) = 0 /\ Count(screen, Empties) = 1
    BY <1>3, <1>4, <1>6 DEF Count
  <2>2. \A r : Count(screen, ReportLines(r)) = 0
    BY <1>3, <1>6 DEF Count
  <2>3. Cardinality(ShownReports) = 0
    BY <1>5, <1>6
  <2> QED
    BY <1>1, <1>5, <2>1, <2>2, <2>3 DEF LinesCounted
<1> QED
  BY <1>1, <1>2, <1>7, LinesDiffer DEF TermInv

\* The steps that leave the terminal alone.
LEMMA TermFramed ==
  ASSUME TermInv, UNCHANGED <<screen, height, written, reports, live, lastLines, finalizing>>,
         pc = "idle" /\ lastLines > 0 => table' # <<>>,
         pc = "select" => UNCHANGED table,
         \/ pc' = pc
         \/ pc' = "dead"
         \/ pc = "destroy" /\ pc' = "none"
         \/ pc \in {"stdout", "stderr", "stream"} /\ pc' \in {"stderr", "stream", "idle", "destroy"}
  PROVE  TermInv'
<1>1. CASE pc' = "dead"
  BY <1>1 DEF TermInv
<1>2. CASE pc' # "dead"
  <2>1. pc # "dead" /\ (pc' = "select" <=> pc = "select")
    BY <1>2
  <2>2. \A r : Shown(r)' = Shown(r)
    BY <2>1 DEF Shown
  <2>3. LinesCounted'
    BY <2>1, <2>2 DEF TermInv, LinesCounted, ShownReports
  <2>4. ASSUME pc' = "idle" PROVE LastReport'
    <3>1. CASE lastLines = 0
      BY <3>1 DEF LastReport
    <3>2. CASE lastLines # 0
      <4>1. pc = "idle" /\ LastReport
        BY <2>4, <3>2 DEF TermInv
      <4>2. Above' = Above
        BY DEF Above
      <4> QED
        BY <4>1, <4>2 DEF LastReport, IsReport
    <3> QED
      BY <3>1, <3>2
  <2> QED
    BY <2>3, <2>4 DEF TermInv
<1> QED
  BY <1>1, <1>2

LEMMA TermBegun ==
  ASSUME TermInv, ScreenInv, Books,
         NEW l \in BOOLEAN, NEW k \in Limits, NEW m \in MetricCounts, Begin(l, k, m)
  PROVE  TermInv'
<1>1. /\ pc = "none" /\ pc' \in {"stdout", "stream"} /\ reports' = reports + 1
      /\ lastLines' = 0 /\ UNCHANGED <<screen, height, written>>
      /\ reports \in 0..MaxReports /\ reports < MaxReports
  BY DEF Begin, terminal, Books, ReportTypes
<1>2. reports' \in 1..MaxReports /\ reports' > reports
  BY <1>1, FlatProfileAssumption
<1>3. \A r \in 1..MaxReports : r > reports' => r > reports
  BY <1>1
<1>4. height[reports'] = 0
  BY <1>2 DEF TermInv
<1>5. \A r : Shown(r)' = Shown(r)
  BY <1>1 DEF Shown
<1>6. LinesCounted'
  BY <1>1, <1>5 DEF TermInv, LinesCounted, ShownReports
<1> QED
  BY <1>1, <1>2, <1>3, <1>4, <1>6 DEF TermInv

LEMMA TermWritten ==
  ASSUME TermInv, ScreenInv, StdioInv, NEW whole \in BOOLEAN, Write(whole)
  PROVE  TermInv'
<1>1. /\ pc \in {"none", "idle"}
      /\ UNCHANGED <<pc, out, reports, live, lastLines, finalizing, table, height>>
  BY DEF Write, stdio, config, report, store
<1>2. \A r : Shown(r)' = Shown(r)
  BY <1>1 DEF Shown
<1>3. ShownReports' = ShownReports
  BY <1>2 DEF ShownReports
<1>4. screen \in Seq(LineSet) /\ screen # <<>> /\ written \in Nat
  BY DEF ScreenInv
<1>5. CASE out = "null"
  <2>1. UNCHANGED <<screen, written>>
    BY <1>5 DEF Write
  <2> QED
    BY <1>1, <2>1, TermFramed DEF TermInv, LastReport
<1>6. CASE out # "null"
  <2>1. out = "tty" /\ (pc = "idle" => lastLines = 0)
    BY <1>1, <1>6 DEF StdioInv, TermInv
  <2>2. screen[Len(screen)] \in Empties /\ screen[Len(screen)] \notin Scripts
        /\ \A r : screen[Len(screen)] \notin ReportLines(r)
    BY LinesDiffer DEF TermInv
  <2>3. LinesCounted' /\ screen'[Len(screen')] \in Empties
    <3>1. CASE whole
      <4> DEFINE s == [screen EXCEPT ![Len(screen)] = Line("script", 0)]
      <4>1. screen' = s \o <<Blank>> /\ written' = written + 1
        BY <1>6, <2>1, <3>1 DEF Write
      <4>2. s \in Seq(LineSet) /\ Len(s) = Len(screen)
        BY <1>4, LinesTyped
      <4>3. Count(s, Scripts) = Count(screen, Scripts) + 1
        BY <1>4, <2>2, LinesTyped, CountFirst DEF Scripts
      <4>4. Count(s, Empties) = Count(screen, Empties) - 1
        BY <1>4, <2>2, LinesTyped, LinesDiffer, CountLast
      <4>5. ASSUME NEW r PROVE Count(s, ReportLines(r)) = Count(screen, ReportLines(r))
        BY <1>4, <2>2, LinesDiffer, CountReplaced
      <4> HIDE DEF s
      <4>6. Count(screen', Scripts) = Count(s, Scripts)
        BY <4>1, <4>2, LinesTyped, LinesDiffer, CountAppended
      <4>7. Count(screen', Empties) = Count(s, Empties) + 1
        BY <4>1, <4>2, LinesTyped, LinesDiffer, CountAppended
      <4>8. ASSUME NEW r PROVE Count(screen', ReportLines(r)) = Count(s, ReportLines(r))
        BY <4>1, <4>2, LinesTyped, LinesDiffer, CountAppended
      <4>9. screen'[Len(screen')] = Blank
        BY <4>1, <4>2
      <4>10. Count(screen, Empties) \in Nat /\ LinesCounted
        BY <1>1, <1>4, CountTyped DEF TermInv
      <4>11. /\ Count(screen', Scripts) = written'
             /\ Count(screen', Empties) = Count(screen, Empties)
        BY <4>1, <4>3, <4>4, <4>6, <4>7, <4>10 DEF LinesCounted
      <4>12. \A r \in 1..MaxReports : Count(screen', ReportLines(r)) = Count(screen, ReportLines(r))
        BY <4>5, <4>8
      <4> QED
        BY <1>2, <1>3, <4>9, <4>10, <4>11, <4>12, LinesDiffer DEF LinesCounted
    <3>2. CASE ~whole
      <4>1. screen' = [screen EXCEPT ![Len(screen)] = Line("begun", 0)] /\ written' = written
        BY <1>6, <2>1, <3>2 DEF Write
      <4>2. screen'[Len(screen')] \in Empties
        BY <1>4, <4>1, LinesDiffer
      <4>3. Count(screen', Scripts) = Count(screen, Scripts)
        BY <1>4, <2>2, <4>1, LinesDiffer, CountReplaced
      <4>4. Count(screen', Empties) = Count(screen, Empties)
        BY <1>4, <2>2, <4>1, LinesDiffer, CountReplaced
      <4>5. ASSUME NEW r PROVE Count(screen', ReportLines(r)) = Count(screen, ReportLines(r))
        <5>1. Line("begun", 0) \notin ReportLines(r)
          BY LinesDiffer
        <5> QED
          BY <1>4, <2>2, <4>1, <5>1, CountReplaced
      <4> QED
        BY <1>1, <1>2, <1>3, <4>1, <4>2, <4>3, <4>4, <4>5 DEF LinesCounted, TermInv
    <3> QED
      BY <3>1, <3>2
  <2>4. pc' = "idle" => LastReport'
    BY <1>1, <2>1 DEF LastReport
  <2> QED
    BY <1>1, <2>3, <2>4 DEF TermInv
<1> QED
  BY <1>5, <1>6

\* The lines of the last report go; the one above it is the cursor's.
LEMMA TermErased ==
  ASSUME TermInv, ScreenInv, pc = "idle", lastLines > 0
  PROVE  LET new == Erased(screen, lastLines)
             h   == lastLines
         IN  /\ new[Len(new)] \in Empties
             /\ Count(new, Scripts) = Count(screen, Scripts)
             /\ Count(new, Empties) = Count(screen, Empties) - 1
             /\ Count(new, ReportLines(reports)) = Count(screen, ReportLines(reports)) - (h - 1)
             /\ \A q : q # reports => Count(new, ReportLines(q)) = Count(screen, ReportLines(q))
<1> DEFINE new == Erased(screen, lastLines)
           n == lastLines
<1>1. /\ Above # <<>> /\ Above[Len(Above)] \in Empties
      /\ IsReport(Above, screen, lastLines, reports)
  BY DEF TermInv, LastReport
<1>2. screen \in Seq(LineSet) /\ Above \in Seq(LineSet) /\ n \in Nat
  BY <1>1 DEF IsReport
<1>3. Len(Above) = Len(screen) - n /\ Len(screen) \in Nat
  BY <1>1, <1>2 DEF IsReport
<1>4. new = [Above EXCEPT ![Len(Above)] = Blank]
  <2>1. lastLines # 0
    BY <1>2
  <2>2. new = [Above EXCEPT ![Len(screen) - lastLines] = Blank]
    BY <2>1, Zenon DEF Erased, Above
  <2> QED
    BY <1>3, <2>2
<1> HIDE DEF new
<1>5. new[Len(new)] = Blank
  BY <1>1, <1>2, <1>4
<1>6. /\ Count(screen, Scripts) = Count(Above, Scripts)
      /\ Count(screen, Empties) = Count(Above, Empties) + 1
      /\ Count(screen, ReportLines(reports)) = Count(Above, ReportLines(reports)) + (n - 1)
      /\ \A q : q # reports => Count(screen, ReportLines(q)) = Count(Above, ReportLines(q))
  BY <1>1, ReportCounted
<1>7. /\ Count(Above, Empties) \in Nat /\ Count(Above, ReportLines(reports)) \in Nat
  BY <1>2, CountTyped
<1>8. Count(new, Scripts) = Count(Above, Scripts)
  BY <1>1, <1>2, <1>4, LinesDiffer, CountReplaced
<1>9. Count(new, Empties) = Count(Above, Empties)
  BY <1>1, <1>2, <1>4, LinesDiffer, CountReplaced
<1>10. ASSUME NEW q PROVE Count(new, ReportLines(q)) = Count(Above, ReportLines(q))
  <2>1. Blank \notin ReportLines(q) /\ Above[Len(Above)] \notin ReportLines(q)
    BY <1>1, LinesDiffer
  <2> QED
    BY <1>1, <1>2, <1>4, <2>1, CountReplaced
<1>11. Count(new, ReportLines(reports)) = Count(screen, ReportLines(reports)) - (n - 1)
  BY <1>2, <1>6, <1>7, <1>10
<1>12. Count(new, Empties) = Count(screen, Empties) - 1
  BY <1>6, <1>7, <1>9
<1>13. \A q : q # reports => Count(new, ReportLines(q)) = Count(screen, ReportLines(q))
  BY <1>6, <1>10
<1>14. new[Len(new)] \in Empties /\ Count(new, Scripts) = Count(screen, Scripts)
  BY <1>5, <1>6, <1>8, LinesDiffer
<1> QED
  BY <1>11, <1>12, <1>13, <1>14 DEF new

LEMMA ShownFinite == IsFiniteSet(ShownReports) /\ Cardinality(ShownReports) \in Nat
<1>1. IsFiniteSet(1..MaxReports)
  BY FS_Interval, FlatProfileAssumption
<1>2. ShownReports \subseteq 1..MaxReports
  BY DEF ShownReports
<1> QED
  BY <1>1, <1>2, FS_Subset, FS_CardinalityType

LEMMA TermReported ==
  ASSUME TermInv, ScreenInv, BeginReport, pc = "idle", live \/ finalizing',
         UNCHANGED <<height, written, reports, live, table>>
  PROVE  TermInv'
<1> DEFINE n == lastLines
<1>1. reports \in 1..MaxReports /\ height[reports] = n /\ n \in Nat /\ LinesCounted /\ LastReport
  BY DEF TermInv, ScreenInv
<1>2. /\ pc' \in {"idle", "destroy", "select"}
      /\ pc' = "idle" => lastLines' = 0 /\ ~finalizing'
      /\ pc' = "select" => table # <<>>
  BY DEF BeginReport
<1>3. CASE n = 0
  <2>1. screen' = screen /\ lastLines' = lastLines
    BY <1>3 DEF BeginReport, Erased
  <2>2. ASSUME NEW r PROVE Shown(r)' = Shown(r)
    BY <1>1, <1>2, <1>3 DEF Shown
  <2>3. LinesCounted'
    BY <1>1, <2>1, <2>2 DEF LinesCounted, ShownReports
  <2>4. LastReport'
    BY <1>3, <2>1 DEF LastReport
  <2> QED
    BY <1>2, <1>3, <2>1, <2>3, <2>4 DEF TermInv
<1>4. CASE n # 0
  <2>1. table # <<>> /\ n > 0
    BY <1>1, <1>4 DEF LastReport
  <2>2. screen' = Erased(screen, n) /\ pc' = "select" /\ lastLines' = lastLines
    BY <2>1 DEF BeginReport
  <2>3. /\ screen'[Len(screen')] \in Empties
        /\ Count(screen', Scripts) = Count(screen, Scripts)
        /\ Count(screen', Empties) = Count(screen, Empties) - 1
        /\ Count(screen', ReportLines(reports)) = Count(screen, ReportLines(reports)) - (n - 1)
        /\ \A q : q # reports => Count(screen', ReportLines(q)) = Count(screen, ReportLines(q))
    BY <2>1, <2>2, TermErased
  <2>4. Shown(reports)' = 0 /\ Shown(reports) = n /\ \A q : q # reports => Shown(q)' = Shown(q)
    BY <1>1, <2>2 DEF Shown
  <2>5. ShownReports' = ShownReports \ {reports} /\ reports \in ShownReports
    BY <1>1, <2>1, <2>4 DEF ShownReports
  <2>6. Cardinality(ShownReports') = Cardinality(ShownReports) - 1 /\ Cardinality(ShownReports) \in Nat
    BY <2>5, ShownFinite, FS_RemoveElement
  <2>7. Count(screen', Scripts) = written' /\ Count(screen', Empties) = 1 + Cardinality(ShownReports')
    <3>1. Count(screen, Scripts) = written /\ Count(screen, Empties) = 1 + Cardinality(ShownReports)
      BY <1>1 DEF LinesCounted
    <3> QED
      BY <2>3, <2>6, <3>1
  <2>8. ASSUME NEW r \in 1..MaxReports
        PROVE  Count(screen', ReportLines(r)) = IF Shown(r)' = 0 THEN 0 ELSE Shown(r)' - 1
    <3>1. Count(screen, ReportLines(r)) = IF Shown(r) = 0 THEN 0 ELSE Shown(r) - 1
      BY <1>1 DEF LinesCounted
    <3>2. CASE r = reports
      <4>1. Count(screen, ReportLines(reports)) = n - 1
        BY <1>4, <2>4, <3>1, <3>2
      <4>2. Count(screen', ReportLines(reports)) = 0
        BY <1>1, <2>3, <4>1
      <4> QED
        BY <2>4, <3>2, <4>2
    <3>3. CASE r # reports
      BY <2>3, <2>4, <3>1, <3>3
    <3> QED
      BY <3>2, <3>3
  <2>9. LinesCounted'
    BY <2>7, <2>8 DEF LinesCounted
  <2> QED
    BY <2>1, <2>2, <2>3, <2>9 DEF TermInv
<1> QED
  BY <1>3, <1>4

LEMMA TermPrinted ==
  ASSUME TermInv, ScreenInv, RankInv, StoreInv, PrintReport
  PROVE  TermInv'
<1> DEFINE n == LineCount(Listed)
           lines == [i \in 1..n |-> IF i < n THEN Line("report", reports) ELSE Blank]
<1>1. /\ pc = "select" /\ reports \in 1..MaxReports /\ LinesCounted
      /\ pc' = (IF finalizing THEN "destroy" ELSE "idle") /\ (live \/ finalizing)
  BY DEF PrintReport, TermInv
<1>2. n \in Nat /\ n >= 15
  <2>1. limit \in Nat /\ metrics \in Nat /\ Len(table) \in Nat
    BY DEF RankInv, Books, ReportTypes, StoreInv
  <2>2. Listed \in Nat
    BY <2>1 DEF Listed
  <2>3. n = 15 + metrics + Listed
    BY DEF LineCount
  <2> HIDE DEF n
  <2> QED
    BY <2>1, <2>2, <2>3
<1>3. /\ screen' = screen \o lines /\ lastLines' = n
      /\ height' = [height EXCEPT ![reports] = n]
      /\ UNCHANGED <<written, reports, live, finalizing, table>>
  BY DEF PrintReport, Printed, Newlines, LineCount, config, store
<1>4. screen \in Seq(LineSet) /\ screen # <<>> /\ height \in [1..MaxReports -> Nat]
  BY DEF ScreenInv
<1>5. Line("report", reports) \in LineSet /\ Blank \in LineSet
  BY <1>1, LinesTyped
<1>6. lines \in Seq(LineSet) /\ Len(lines) = n
  <2> HIDE DEF n
  <2> QED
    BY <1>2, <1>5
<1>7. \A i \in 1..n : lines[i] = IF i < n THEN Line("report", reports) ELSE Blank
  OBVIOUS
<1> HIDE DEF lines, n
<1>18. Len(screen) \in Nat
  BY <1>4
<1>8. /\ screen' \in Seq(LineSet) /\ Len(screen') = Len(screen) + n /\ Len(screen) \in Nat
      /\ \A i \in 1..Len(screen) : screen'[i] = screen[i]
      /\ \A i \in Len(screen) + 1 .. Len(screen) + n : screen'[i] = lines[i - Len(screen)]
  <2>1. screen' \in Seq(LineSet) /\ Len(screen') = Len(screen) + n
    BY <1>3, <1>4, <1>6, ConcatProperties
  <2>2. ASSUME NEW i \in 1..Len(screen) PROVE screen'[i] = screen[i]
    BY <1>2, <1>3, <1>4, <1>6, <1>18
  <2>3. ASSUME NEW i \in Len(screen) + 1 .. Len(screen) + n PROVE screen'[i] = lines[i - Len(screen)]
    BY <1>2, <1>3, <1>4, <1>6, <1>18
  <2> QED
    BY <1>18, <2>1, <2>2, <2>3
<1>9. IsReport(screen, screen', n, reports)
  <2>1. ASSUME NEW i \in Len(screen) + 1 .. Len(screen') - 1
        PROVE  screen'[i] = Line("report", reports)
    <3>1. i - Len(screen) \in 1..n /\ i - Len(screen) < n /\ i \in Len(screen) + 1 .. Len(screen) + n
      BY <1>2, <1>8
    <3> QED
      BY <1>7, <1>8, <3>1
  <2>2. screen'[Len(screen')] = Blank
    <3>1. /\ Len(screen') - Len(screen) = n /\ n \in 1..n /\ ~(n < n)
          /\ Len(screen') \in Len(screen) + 1 .. Len(screen) + n
      BY <1>2, <1>8
    <3> QED
      BY <1>7, <1>8, <3>1
  <2> QED
    BY <1>2, <1>4, <1>8, <2>1, <2>2 DEF IsReport
<1>10. /\ Count(screen', Scripts) = Count(screen, Scripts)
       /\ Count(screen', Empties) = Count(screen, Empties) + 1
       /\ Count(screen', ReportLines(reports)) = Count(screen, ReportLines(reports)) + (n - 1)
       /\ \A q : q # reports => Count(screen', ReportLines(q)) = Count(screen, ReportLines(q))
  BY <1>9, ReportCounted
<1>11. Shown(reports) = 0 /\ Shown(reports)' = n
       /\ \A q \in 1..MaxReports : q # reports => Shown(q)' = Shown(q)
  BY <1>1, <1>3, <1>4 DEF Shown
<1>12. ShownReports' = ShownReports \cup {reports} /\ reports \notin ShownReports
  <2>1. ASSUME NEW r \in 1..MaxReports
        PROVE  Shown(r)' > 0 <=> (Shown(r) > 0 \/ r = reports)
    <3>1. CASE r = reports
      BY <1>2, <1>3, <1>11, <3>1
    <3>2. CASE r # reports
      BY <1>11, <3>2
    <3> QED
      BY <3>1, <3>2
  <2>2. ~(Shown(reports) > 0)
    BY <1>11
  <2> QED
    BY <1>1, <2>1, <2>2 DEF ShownReports
<1>13. Cardinality(ShownReports') = Cardinality(ShownReports) + 1 /\ Cardinality(ShownReports) \in Nat
  BY <1>12, ShownFinite, FS_AddElement
<1>14. LinesCounted'
  <2>1. Count(screen, Scripts) = written /\ Count(screen, Empties) = 1 + Cardinality(ShownReports)
    BY <1>1 DEF LinesCounted
  <2>2. Count(screen', Scripts) = written' /\ Count(screen', Empties) = 1 + Cardinality(ShownReports')
    BY <1>3, <1>10, <1>13, <2>1
  <2>3. ASSUME NEW r \in 1..MaxReports
        PROVE  Count(screen', ReportLines(r)) = IF Shown(r)' = 0 THEN 0 ELSE Shown(r)' - 1
    <3>1. Count(screen, ReportLines(r)) = IF Shown(r) = 0 THEN 0 ELSE Shown(r) - 1
      BY <1>1 DEF LinesCounted
    <3>2. CASE r = reports
      <4>1. Count(screen, ReportLines(reports)) = 0
        BY <1>11, <3>1, <3>2
      <4>2. Count(screen', ReportLines(reports)) = n - 1
        BY <1>2, <1>10, <4>1
      <4>3. Shown(r)' = n
        BY <1>3, <1>11, <3>2
      <4> QED
        BY <1>2, <3>2, <4>2, <4>3
    <3>3. CASE r # reports
      BY <1>10, <1>11, <3>1, <3>3
    <3> QED
      BY <3>2, <3>3
  <2> QED
    BY <2>2, <2>3 DEF LinesCounted
<1>15. screen'[Len(screen')] \in Empties
  BY <1>9, LinesDiffer DEF IsReport
<1>16. ASSUME pc' = "idle" PROVE LastReport'
  <2>1. pc = "select" /\ ~finalizing /\ table # <<>>
    <3>1. ~finalizing
      BY <1>1, <1>16
    <3> QED
      BY <1>1, <3>1 DEF TermInv
  <2>2. Above' = screen
    <3>1. Len(screen') - lastLines' = Len(screen)
      BY <1>2, <1>3, <1>8
    <3>2. Above' = SubSeq(screen', 1, Len(screen))
      BY <3>1 DEF Above
    <3> DEFINE p == SubSeq(screen', 1, Len(screen))
    <3>3. p \in Seq(LineSet) /\ Len(p) = Len(screen) /\ \A i \in 1..Len(screen) : p[i] = screen[i]
      BY <1>2, <1>8
    <3> HIDE DEF p
    <3>4. p = screen
      BY <1>4, <3>3, SeqEqual
    <3> QED
      BY <3>2, <3>4 DEF p
  <2>3. screen[Len(screen)] \in Empties
    BY DEF TermInv
  <2>4. IsReport(Above', screen', lastLines', reports')
    BY <1>3, <1>9, <2>2
  <2>5. table' # <<>> /\ Above' # <<>> /\ Above'[Len(Above')] \in Empties
    BY <1>3, <1>4, <2>1, <2>2, <2>3
  <2> QED
    BY <2>4, <2>5 DEF LastReport
<1>17. height'[reports'] = lastLines' /\ \A r \in 1..MaxReports : r > reports' => height'[r] = 0
  <2>1. ASSUME NEW r \in 1..MaxReports, r > reports PROVE height'[r] = 0
    <3>1. height[r] = 0 /\ r # reports
      BY <1>1, <2>1 DEF TermInv
    <3> QED
      BY <1>3, <1>4, <3>1
  <2> QED
    BY <1>1, <1>3, <1>4, <2>1
<1> QED
  BY <1>1, <1>3, <1>14, <1>15, <1>16, <1>17 DEF TermInv

LEMMA TermKept ==
  ASSUME TermInv, ScreenInv, StdioInv, RankInv, StoreInv, [Next]_vars
  PROVE  TermInv'
<1>1. CASE \E whole \in BOOLEAN : Write(whole)
  BY <1>1, TermWritten
<1>2. CASE Creation
  <2>1. CASE \E l \in BOOLEAN, k \in Limits, m \in MetricCounts : Begin(l, k, m)
    BY <2>1, TermBegun DEF RankInv
  <2>2. CASE \E opened, copied \in BOOLEAN : DisableStdout(opened, copied)
    BY <2>2, TermFramed DEF DisableStdout, terminal, report, config
  <2>3. CASE \E copied \in BOOLEAN : DisableStderr(copied)
    BY <2>3, TermFramed DEF DisableStderr, terminal, report, config
  <2>4. CASE \E opened \in BOOLEAN : OpenStream(opened)
    BY <2>4, TermFramed DEF OpenStream, terminal, report, config
  <2> QED
    BY <1>2, <2>1, <2>2, <2>3, <2>4 DEF Creation
<1>3. CASE Profiling
  <2>1. ASSUME NEW f \in Functions, CalibrateFirst(f) \/ CallStart(f) \/ StartFails(f)
        PROVE  TermInv'
    <3>1. /\ UNCHANGED <<screen, height, written, reports, live, lastLines, finalizing>>
          /\ pc' = pc \/ pc' = "dead"
          /\ pc = "idle"
      BY <2>1 DEF CalibrateFirst, CallStart, StartFails, Calls, terminal, report, config
    <3>2. ASSUME pc = "idle", lastLines > 0 PROVE table' # <<>>
      <4>1. table # <<>> /\ first # NoFunction
        BY <3>2 DEF TermInv, LastReport, RankInv, Books
      <4>2. CASE CallStart(f)
        <5>1. Lookup(f)
          BY <4>2 DEF CallStart
        <5>2. table \in Seq(Entry)
          BY DEF StoreInv
        <5> QED
          BY <4>1, <5>1, <5>2 DEF Lookup, LookupFull, LookupKnown, LookupNew
      <4>3. CASE StartFails(f)
        BY <4>1, <4>3 DEF StartFails, store
      <4> QED
        BY <2>1, <4>1, <4>2, <4>3 DEF CalibrateFirst
    <3> QED
      BY <3>1, <3>2, TermFramed
  <2>2. CASE \E cost \in Costs, due \in BOOLEAN : CallEnd(cost, due)
    <3>1. /\ pc = "idle" /\ UNCHANGED <<height, written, reports, live, table, finalizing>>
          /\ (live /\ BeginReport) \/ UNCHANGED <<pc, screen, lastLines>>
      BY <2>2 DEF CallEnd, Calls, config, store
    <3>2. CASE live /\ BeginReport
      BY <3>1, <3>2, TermReported
    <3>3. CASE UNCHANGED <<pc, screen, lastLines>>
      BY <3>1, <3>3, TermFramed DEF TermInv, LastReport
    <3> QED
      BY <3>1, <3>2, <3>3
  <2>3. CASE Finalize
    BY <2>3, TermReported DEF Finalize, Calls, config, store
  <2> QED
    BY <1>3, <2>1, <2>2, <2>3 DEF Profiling
<1>4. CASE SelectNext \/ CellsExceeded \/ Destroy
  BY <1>4, TermFramed DEF SelectNext, CellsExceeded, Destroy, terminal, report, config, store
<1>5. CASE PrintReport
  BY <1>5, TermPrinted
<1>6. CASE UNCHANGED vars
  BY <1>6, TermFramed DEF vars, terminal, report, config, store, TermInv, LastReport
<1> QED
  BY <1>1, <1>2, <1>3, <1>4, <1>5, <1>6 DEF Next

\* Between reports, the terminal shows every whole line of the script and every
\* profile's last report, once and whole, however often it was refreshed: going up
\* by the number of lines that the last report had erases that report and no more.
THEOREM ScreenShown == Spec => []ScreenShowsReports
<1>1. TermInv /\ ScreenInv => ScreenShowsReports
  <2> SUFFICES ASSUME TermInv, ScreenInv, pc \in {"none", "idle"} PROVE
        /\ LinesOf(Line("script", 0)) = written
        /\ Cardinality({i \in DOMAIN screen : screen[i].is \in {"blank", "begun"}})
             = 1 + Cardinality({r \in 1..MaxReports : height[r] > 0})
        /\ \A r \in 1..MaxReports :
             LinesOf(Line("report", r)) = IF height[r] = 0 THEN 0 ELSE height[r] - 1
    BY DEF ScreenShowsReports
  <2>1. LinesCounted /\ \A r : Shown(r) = height[r]
    BY DEF TermInv, Shown
  <2>2. screen \in Seq(LineSet)
    BY DEF ScreenInv
  <2>3. LinesOf(Line("script", 0)) = Count(screen, Scripts)
    BY DEF LinesOf, Count, Marks, Scripts
  <2>4. ASSUME NEW r PROVE LinesOf(Line("report", r)) = Count(screen, ReportLines(r))
    BY DEF LinesOf, Count, Marks, ReportLines
  <2>5. Cardinality({i \in DOMAIN screen : screen[i].is \in {"blank", "begun"}}) = Count(screen, Empties)
    <3>1. \A i \in DOMAIN screen : screen[i] \in LineSet
      BY <2>2
    <3>2. {i \in DOMAIN screen : screen[i].is \in {"blank", "begun"}} = Marks(screen, Empties)
      BY <3>1 DEF Marks, Empties
    <3> QED
      BY <3>2 DEF Count
  <2>6. ShownReports = {r \in 1..MaxReports : height[r] > 0}
    BY <2>1 DEF ShownReports
  <2> QED
    BY <2>1, <2>3, <2>4, <2>5, <2>6 DEF LinesCounted
<1>2. ScreenInv /\ RankInv /\ StoreInv /\ [Next]_vars => ScreenInv'
  BY ScreenKept
<1>3. TermInv /\ ScreenInv /\ StdioInv /\ RankInv /\ StoreInv /\ [Next]_vars => TermInv'
  BY TermKept
<1> QED
  BY <1>1, <1>2, <1>3, TermInitial, ScreenInitial, RankInvariance, StoreInvariance, StdioInitial,
     StdioKept, PTL DEF Spec
=============================================================================
