----------------------------- MODULE MemoryPool -----------------------------
(***************************************************************************)
(* aio::pool_base, built with ENABLE_CHUNK: the storage of the objects of  *)
(* a class that derives from memory_pool.  A block is the place of one     *)
(* object: a chunk, and where in the chunk.  Chunk 0 is what malloc()      *)
(* returns when it fails, NULL.                                            *)
(***************************************************************************)
EXTENDS Integers, Sequences, FiniteSets

CONSTANTS
  ChunkSize,    \* CHUNK_SIZE; 1 is the build without ENABLE_CHUNK
  MaxChunks     \* bound: the chunks malloc() has to give

ASSUME PoolAssumption ==
  /\ ChunkSize \in Nat \ {0}
  /\ MaxChunks \in Nat

VARIABLES
  chunks,   \* how many chunks _chunks holds
  free,     \* _free, whose last element is handed out first
  held,     \* the blocks of objects that exist
  peak,     \* how many objects there have been at one time (history)
  alive,    \* the static pool has not been destroyed
  failed    \* malloc() has failed (history)

vars == <<chunks, free, held, peak, alive, failed>>

Block == Nat \X (0 .. ChunkSize - 1)

Allocated == (1 .. chunks) \X (0 .. ChunkSize - 1)

TypeOK ==
  /\ chunks \in Nat
  /\ free \in Seq(Block)
  /\ held \subseteq Block
  /\ peak \in Nat
  /\ alive \in BOOLEAN
  /\ failed \in BOOLEAN

Init ==
  /\ chunks = 0
  /\ free = <<>>
  /\ held = {}
  /\ peak = 0
  /\ alive = TRUE
  /\ failed = FALSE

\* operator new returns block b.
HandOut(b) ==
  /\ held' = held \cup {b}
  /\ peak' = IF Cardinality(held') > peak THEN Cardinality(held') ELSE peak

\* acquire() with something in _free
Reuse ==
  /\ alive
  /\ Len(free) > 0
  /\ free' = SubSeq(free, 1, Len(free) - 1)
  /\ HandOut(free[Len(free)])
  /\ UNCHANGED <<chunks, alive, failed>>

\* Mistakes: the loop starts at 0; ends one early.
RestOfFirst(n) == [i \in 1 .. ChunkSize |-> <<n, i - 1>>]
RestOfShort(n) == [i \in 1 .. ChunkSize - 2 |-> <<n, i>>]

\* What acquire() puts into _free of a new chunk: all of it but the block it
\* returns.
RestOf(n) == [i \in 1 .. ChunkSize - 1 |-> <<n, i>>]

\* Mistake: _free is not asked.
GrowAlways ==
  /\ alive
  /\ chunks < MaxChunks
  /\ chunks' = chunks + 1
  /\ free' = free \o RestOf(chunks + 1)
  /\ HandOut(<<chunks + 1, 0>>)
  /\ UNCHANGED <<alive, failed>>

\* acquire() with _free empty
Grow ==
  /\ alive
  /\ Len(free) = 0
  /\ chunks < MaxChunks
  /\ chunks' = chunks + 1
  /\ free' = RestOf(chunks + 1)
  /\ HandOut(<<chunks + 1, 0>>)
  /\ UNCHANGED <<alive, failed>>

\* malloc() returns NULL, which is not looked at: operator new returns NULL
\* too, and the addresses after it go to _free.  (The NULL that is put into
\* _chunks is harmless: free() ignores it.)
GrowFails ==
  /\ alive
  /\ Len(free) = 0
  /\ free' = RestOf(0)
  /\ failed' = TRUE
  /\ UNCHANGED <<chunks, held, peak, alive>>

\* release(), called by operator delete
Release(b) ==
  /\ alive
  /\ b \in held
  /\ free' = Append(free, b)
  /\ held' = held \ {b}
  /\ UNCHANGED <<chunks, peak, alive, failed>>

\* ~pool_base, when the program ends
Destroy ==
  /\ alive
  /\ alive' = FALSE
  /\ chunks' = 0
  /\ UNCHANGED <<free, held, peak, failed>>

Next ==
  \/ Reuse \/ Grow \/ GrowFails
  \/ \E b \in held : Release(b)
  \/ Destroy

Spec == Init /\ [][Next]_vars

-----------------------------------------------------------------------------
\* Two objects never share a block, as long as malloc() has not failed: what
\* acquire() may hand out is not in use, and is in _free once.
Exclusive ==
  ~failed =>
    /\ \A i \in 1 .. Len(free) : free[i] \notin held
    /\ \A i, j \in 1 .. Len(free) : free[i] = free[j] => i = j

\* No block of a chunk is lost, even if malloc() fails: each is in use or can
\* be handed out again.
NothingLost ==
  alive => \A b \in Allocated : b \in held \/ \E i \in 1 .. Len(free) : free[i] = b

\* A chunk is allocated only when all the blocks there are are in use: the
\* pool has no more chunks than the most objects there ever were needed.
NoWaste ==
  alive /\ ~failed =>
    /\ peak <= chunks * ChunkSize
    /\ chunks > 0 => peak > (chunks - 1) * ChunkSize
=============================================================================
