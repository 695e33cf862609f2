---------------------------- MODULE SpxFuncTable ----------------------------
(***************************************************************************)
(* The function table of the tracing profiler as it is stored: entries in  *)
(* an array (src/src/spx_profiler_tracer.c), found through a hash map of   *)
(* chained buckets (src/src/spx_hmap.c), their names kept in a pool of     *)
(* blocks (src/src/spx_string_pool.c).  SpxTracer has the set of its       *)
(* functions only.                                                         *)
(*                                                                         *)
(* A function is its two names, so equal functions are equal values; the   *)
(* buckets of a chain are written one after the other.                     *)
(***************************************************************************)
EXTENDS Naturals, Sequences

CONSTANTS
  Functions, NoFunction, NoEntry,
  CAPACITY,         \* of the table and of the hash map, 65536 by default
  BUCKET_SIZE,      \* HSET_BUCKET_SIZE, 4
  POOL_BLOCK_SIZE,  \* characters, 8192
  Hash,             \* spx_php_function_t.hash_code
  Sizes             \* function |-> the sizes of its two names, terminators included

ASSUME FuncTableAssumption ==
  /\ CAPACITY \in Nat \ {0} /\ BUCKET_SIZE \in Nat \ {0} /\ POOL_BLOCK_SIZE \in Nat \ {0}
  /\ Hash \in [Functions -> Nat]
  /\ Sizes \in [Functions -> (1..POOL_BLOCK_SIZE) \X (1..POOL_BLOCK_SIZE)]
  /\ NoEntry \notin Nat /\ NoFunction \notin Functions

VARIABLES
  table,    \* func_table.entries, as many as func_table.size
  chains,   \* func_table.hmap
  pool,     \* string_pool: its number of blocks, and pool->current->used
  asked,    \* history: what func_table_get_entry was called for last
  found     \* what it returned

store == <<table, chains, pool, asked, found>>

Place == [block : Nat \ {0}, at : Nat, size : 1..POOL_BLOCK_SIZE]
Entry == [function : Functions, name : Place, class : Place]
Link  == [key : Functions, value : 1..CAPACITY]

EmptyPool   == [blocks |-> 1, used |-> 0]
EmptyChains == [h \in 0 .. CAPACITY - 1 |-> <<>>]

Bucket(f) == Hash[f] % CAPACITY

\* Mutant: any entry of the bucket will do.
MatchesHash(f, link) == Bucket(link.key) = Bucket(f)

\* func_table_hmap_cmp_key.
Matches(f, link) == link.key = f

\* bucket_get_entry, of an entry that exists: the links of f's chain for f.
Links(f) == {i \in DOMAIN chains[Bucket(f)] : Matches(f, chains[Bucket(f)][i])}

ValueOf(f) ==
  IF Links(f) = {} THEN NoEntry
  ELSE chains[Bucket(f)][CHOOSE i \in Links(f) : \A j \in Links(f) : i <= j].value

\* The chain of f is full: one more link takes another bucket.  The first is
\* part of the map.
NeedsBucket(f) ==
  chains[Bucket(f)] # <<>> /\ Len(chains[Bucket(f)]) % BUCKET_SIZE = 0

\* Mutant: a block is taken to end one character later.
FitsOffByOne(p, size) == p.used + size <= POOL_BLOCK_SIZE + 1

Fits(p, size) == p.used + size <= POOL_BLOCK_SIZE

\* spx_string_pool_intern: where the string goes, and the pool after it.
PlaceOf(p, size) ==
  IF Fits(p, size) THEN [block |-> p.blocks, at |-> p.used, size |-> size]
  ELSE [block |-> p.blocks + 1, at |-> 0, size |-> size]

\* Mutant: the terminator of a string is not counted.
InternedUncounted(p, size) ==
  [blocks |-> PlaceOf(p, size).block, used |-> PlaceOf(p, size).at + size - 1]

Interned(p, size) ==
  [blocks |-> PlaceOf(p, size).block, used |-> PlaceOf(p, size).at + size]

NameOf(f)    == PlaceOf(pool, Sizes[f][1])
ClassOf(f)   == PlaceOf(Interned(pool, Sizes[f][1]), Sizes[f][2])
PoolAfter(f) == Interned(Interned(pool, Sizes[f][1]), Sizes[f][2])

\* What a new entry for f takes from the allocator.
NeedsMemory(f) == NeedsBucket(f) \/ PoolAfter(f).blocks > pool.blocks

StoreInit ==
  /\ table = <<>> /\ chains = EmptyChains /\ pool = EmptyPool
  /\ asked = NoFunction /\ found = NoEntry

-----------------------------------------------------------------------------
(* func_table_get_entry. *)

\* The table is full: the entry there is, or none.
LookupFull(f) ==
  /\ asked' = f
  /\ Len(table) = CAPACITY
  /\ found' = ValueOf(f)
  /\ UNCHANGED <<table, chains, pool>>

LookupKnown(f) ==
  /\ asked' = f
  /\ Len(table) < CAPACITY /\ Links(f) # {}
  /\ found' = ValueOf(f)
  /\ UNCHANGED <<table, chains, pool>>

\* A new entry; its name is copied, and the copy becomes the key.
LookupNew(f) ==
  /\ asked' = f
  /\ Len(table) < CAPACITY /\ Links(f) = {}
  /\ table' = Append(table, [function |-> f, name |-> NameOf(f), class |-> ClassOf(f)])
  /\ found' = Len(table) + 1
  /\ chains' = [chains EXCEPT ![Bucket(f)] = Append(@, [key |-> f, value |-> Len(table) + 1])]
  /\ pool' = PoolAfter(f)

Lookup(f) == LookupFull(f) \/ LookupKnown(f) \/ LookupNew(f)

\* A new entry that there is no memory for.  spx_utils_die().
LookupFails(f) == Len(table) < CAPACITY /\ Links(f) = {} /\ NeedsMemory(f)

\* spx_profiler_tracer_create: another profile's table.
NewStore ==
  /\ table' = <<>> /\ chains' = EmptyChains /\ pool' = EmptyPool
  /\ asked' = NoFunction /\ found' = NoEntry

\* calibrate, with the first function of the profile, then func_table_reset:
\* the names stay in the pool.
Calibrate(f) ==
  /\ table' = <<>> /\ chains' = EmptyChains
  /\ asked' = NoFunction /\ found' = NoEntry
  /\ pool' = PoolAfter(f)
=============================================================================
