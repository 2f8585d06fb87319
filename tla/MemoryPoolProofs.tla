-------------------------- MODULE MemoryPoolProofs --------------------------
(***************************************************************************)
(* What holds of pool_base for every chunk size and any number of chunks:  *)
(* its types, that blocks are neither shared nor lost, and that a chunk is *)
(* allocated only when it is needed.                                       *)
(***************************************************************************)
EXTENDS MemoryPool, FiniteSetTheorems, SequenceTheorems, TLAPS

-----------------------------------------------------------------------------
(* _free as a sequence.                                                    *)

\* acquire() cuts a chunk into a sequence of blocks, none of them the one it
\* returns.
LEMMA RestOfSeq ==
  ASSUME NEW n \in Nat
  PROVE  /\ RestOf(n) \in Seq(Block)
         /\ Len(RestOf(n)) = ChunkSize - 1
         /\ \A i \in 1 .. ChunkSize - 1 : RestOf(n)[i] = <<n, i>>
<1>1. ChunkSize \in Nat /\ ChunkSize - 1 \in Nat
  BY PoolAssumption
<1>2. \A i \in 1 .. ChunkSize - 1 : <<n, i>> \in Block
  BY <1>1 DEF Block
<1>3. RestOf(n) \in Seq(Block)
  BY <1>1, <1>2, IsASeq DEF RestOf
<1>4. Len(RestOf(n)) = ChunkSize - 1
  BY <1>1, <1>3, LenProperties DEF RestOf
<1> QED
  BY <1>3, <1>4 DEF RestOf

\* Taking the last element of _free leaves the others where they are.
LEMMA PopSeq ==
  ASSUME NEW s \in Seq(Block), Len(s) > 0
  PROVE  LET r == SubSeq(s, 1, Len(s) - 1)
         IN  /\ r \in Seq(Block)
             /\ Len(r) = Len(s) - 1
             /\ \A i \in 1 .. Len(s) - 1 : r[i] = s[i]
             /\ s[Len(s)] \in Block
<1>1. Len(s) \in Nat /\ Len(s) - 1 \in Int
  BY LenProperties
<1>2. \A i \in 1 .. Len(s) : s[i] \in Block
  BY ElementOfSeq
<1>3. \A i \in 1 .. Len(s) - 1 : s[i] \in Block
  BY <1>1, <1>2
<1>4. /\ SubSeq(s, 1, Len(s) - 1) \in Seq(Block)
      /\ Len(SubSeq(s, 1, Len(s) - 1)) =
           IF 1 <= Len(s) - 1 THEN Len(s) - 1 - 1 + 1 ELSE 0
      /\ \A i \in 1 .. Len(s) - 1 - 1 + 1 :
           SubSeq(s, 1, Len(s) - 1)[i] = s[1 + i - 1]
  BY <1>1, <1>3, SubSeqProperties
<1>5. \A i \in 1 .. Len(s) - 1 : SubSeq(s, 1, Len(s) - 1)[i] = s[i]
  BY <1>1, <1>4
<1>6. Len(SubSeq(s, 1, Len(s) - 1)) = Len(s) - 1
  <2> DEFINE k == Len(s)
             r == Len(SubSeq(s, 1, Len(s) - 1))
  <2>1. r = IF 1 <= k - 1 THEN k - 1 - 1 + 1 ELSE 0
    BY <1>4
  <2>2. k \in Nat /\ k > 0
    BY <1>1
  <2> HIDE DEF k, r
  <2>3. r = k - 1
    BY <2>1, <2>2
  <2> QED
    BY <2>3 DEF k, r
<1>7. s[Len(s)] \in Block
  BY <1>1, <1>2
<1> QED
  BY <1>4, <1>5, <1>6, <1>7

-----------------------------------------------------------------------------
(* Types.  Cardinality(held) is a number because held is finite.           *)

Typed == TypeOK /\ IsFiniteSet(held)

\* operator new keeps the types of what it counts.
LEMMA HandOutTypes ==
  ASSUME Typed, NEW b \in Block, HandOut(b)
  PROVE  /\ held' \subseteq Block
         /\ IsFiniteSet(held')
         /\ peak' \in Nat
<1>1. held' = held \cup {b}
  BY DEF HandOut
<1>2. IsFiniteSet(held') /\ Cardinality(held') \in Nat
  BY <1>1, FS_AddElement, FS_CardinalityType DEF Typed
<1> QED
  BY <1>1, <1>2 DEF HandOut, Typed, TypeOK

\* A step of the pool keeps the types.
LEMMA TypesKept ==
  ASSUME Typed, [Next]_vars
  PROVE  Typed'
<1>1. CASE Reuse
  <2>1. free' \in Seq(Block) /\ free[Len(free)] \in Block
    BY <1>1, PopSeq DEF Reuse, Typed, TypeOK
  <2> QED
    BY <1>1, <2>1, HandOutTypes DEF Reuse, Typed, TypeOK
<1>2. CASE Grow
  <2>1. chunks + 1 \in Nat /\ chunks' \in Nat
    BY <1>2 DEF Grow, Typed, TypeOK
  <2>2. free' \in Seq(Block)
    BY <1>2, <2>1, RestOfSeq DEF Grow
  <2>3. <<chunks + 1, 0>> \in Block
    BY <2>1, PoolAssumption DEF Block
  <2>4. held' \subseteq Block /\ IsFiniteSet(held') /\ peak' \in Nat
    BY <1>2, <2>3, HandOutTypes DEF Grow
  <2> QED
    BY <1>2, <2>1, <2>2, <2>4 DEF Grow, Typed, TypeOK
<1>3. CASE GrowFails
  <2>1. free' \in Seq(Block)
    BY <1>3, RestOfSeq DEF GrowFails
  <2> QED
    BY <1>3, <2>1 DEF GrowFails, Typed, TypeOK
<1>4. CASE \E b \in held : Release(b)
  <2>1. PICK b \in held : Release(b)
    BY <1>4
  <2>2. free' \in Seq(Block)
    BY <2>1, AppendProperties DEF Release, Typed, TypeOK
  <2>3. IsFiniteSet(held') /\ held' \subseteq Block
    BY <2>1, FS_RemoveElement DEF Release, Typed, TypeOK
  <2> QED
    BY <2>1, <2>2, <2>3 DEF Release, Typed, TypeOK
<1>5. CASE Destroy
  BY <1>5 DEF Destroy, Typed, TypeOK
<1>6. CASE UNCHANGED vars
  BY <1>6 DEF vars, Typed, TypeOK
<1> QED
  BY <1>1, <1>2, <1>3, <1>4, <1>5, <1>6 DEF Next

\* The pool starts with the right types.
LEMMA TypesInitially == Init => Typed
<1> SUFFICES ASSUME Init PROVE Typed
  OBVIOUS
<1>1. free \in Seq(Block)
  BY EmptySeq DEF Init
<1>2. IsFiniteSet(held) /\ held \subseteq Block
  BY FS_EmptySet DEF Init
<1>3. chunks \in Nat /\ peak \in Nat /\ alive \in BOOLEAN /\ failed \in BOOLEAN
  BY DEF Init
<1> QED
  BY <1>1, <1>2, <1>3 DEF Typed, TypeOK

\* The variables of pool_base always have their types.
THEOREM PoolTyping == Spec => []TypeOK
<1>1. Init => Typed
  BY TypesInitially
<1>2. Typed /\ [Next]_vars => Typed'
  BY TypesKept
<1>3. Typed => TypeOK
  BY DEF Typed
<1> QED
  BY <1>1, <1>2, <1>3, PTL DEF Spec

-----------------------------------------------------------------------------
(* Blocks.  Exclusive is not inductive: that a new chunk's blocks are not  *)
(* in use needs that what is in use is of the chunks there are.            *)

\* What is in _free ("free instances", memorypool.h:61), and what operator new
\* has returned, is memory of the pool's chunks, as long as malloc() has not
\* failed.
OnlyInstances ==
  alive /\ ~failed =>
    /\ \A i \in 1 .. Len(free) : free[i] \in Allocated
    /\ held \subseteq Allocated

PoolInv == Typed /\ Exclusive /\ NothingLost /\ OnlyInstances

\* acquire() from _free.
LEMMA ReuseKeeps ==
  ASSUME PoolInv, Reuse
  PROVE  Exclusive' /\ NothingLost' /\ OnlyInstances'
<1> DEFINE n == Len(free)
           b == free[n]
<1>1. n \in Nat /\ n > 0 /\ Len(free') = n - 1
  BY PopSeq, LenProperties DEF Reuse, PoolInv, Typed, TypeOK
<1>2. \A i \in 1 .. n - 1 : free'[i] = free[i]
  BY PopSeq DEF Reuse, PoolInv, Typed, TypeOK
<1>3. held' = held \cup {b} /\ alive /\ alive' = alive /\ failed' = failed /\ chunks' = chunks
  BY DEF Reuse, HandOut
<1> HIDE DEF b
<1>4. Exclusive'
  <2> SUFFICES ASSUME ~failed PROVE (Exclusive!2)'
    BY <1>3 DEF Exclusive
  <2>1. \A i \in 1 .. n - 1 : i # n /\ i \in 1 .. n
    BY <1>1
  <2>2. \A i \in 1 .. n - 1 : free[i] \notin held /\ free[i] # b
    BY <1>1, <2>1 DEF PoolInv, Exclusive, b
  <2>3. \A i \in 1 .. n - 1 : free'[i] \notin held'
    BY <1>2, <1>3, <2>2
  <2>4. \A i, j \in 1 .. n - 1 : free'[i] = free'[j] => i = j
    BY <1>2, <2>1 DEF PoolInv, Exclusive
  <2> QED
    BY <1>1, <2>3, <2>4
<1>5. NothingLost'
  <2> SUFFICES ASSUME NEW x \in Allocated
               PROVE  x \in held' \/ \E i \in 1 .. Len(free') : free'[i] = x
    BY <1>3 DEF NothingLost, Allocated
  <2>1. CASE x \in held
    BY <2>1, <1>3
  <2>2. CASE \E i \in 1 .. n : free[i] = x
    <3>1. PICK i \in 1 .. n : free[i] = x
      BY <2>2
    <3>2. CASE i = n
      BY <3>1, <3>2, <1>3 DEF b
    <3>3. CASE i # n
      <4>1. i \in 1 .. n - 1
        BY <3>3, <1>1
      <4> QED
        BY <4>1, <3>1, <1>1, <1>2
    <3> QED
      BY <3>2, <3>3
  <2> QED
    BY <2>1, <2>2, <1>3 DEF PoolInv, NothingLost
<1>6. OnlyInstances'
  <2> SUFFICES ASSUME ~failed
               PROVE  /\ \A i \in 1 .. n - 1 : free'[i] \in Allocated
                      /\ held' \subseteq Allocated
    BY <1>1, <1>3 DEF OnlyInstances, Allocated
  <2>1. \A i \in 1 .. n : free[i] \in Allocated
    BY <1>3 DEF PoolInv, OnlyInstances
  <2>2. \A i \in 1 .. n - 1 : i \in 1 .. n
    BY <1>1
  <2>3. b \in Allocated
    BY <1>1, <2>1 DEF b
  <2> QED
    BY <1>2, <1>3, <2>1, <2>2, <2>3 DEF PoolInv, OnlyInstances
<1> QED
  BY <1>4, <1>5, <1>6

\* With _free empty, all there is is in use.
LEMMA AllInUse ==
  ASSUME PoolInv, alive, Len(free) = 0
  PROVE  Allocated \subseteq held
<1>1. \A i \in 1 .. Len(free) : FALSE
  OBVIOUS
<1> QED
  BY <1>1 DEF PoolInv, NothingLost

\* acquire() with a new chunk.
LEMMA GrowKeeps ==
  ASSUME PoolInv, Grow
  PROVE  Exclusive' /\ NothingLost' /\ OnlyInstances'
<1>1. /\ chunks \in Nat /\ chunks + 1 \in Nat /\ chunks' = chunks + 1
      /\ ChunkSize \in Nat \ {0}
  BY PoolAssumption DEF Grow, PoolInv, Typed, TypeOK
<1>2. /\ Len(free') = ChunkSize - 1
      /\ \A i \in 1 .. ChunkSize - 1 : free'[i] = <<chunks + 1, i>>
  BY <1>1, RestOfSeq DEF Grow
<1>3. held' = held \cup {<<chunks + 1, 0>>} /\ alive /\ alive' = alive /\ failed' = failed
  BY DEF Grow, HandOut
<1>4. Allocated \subseteq held
  BY AllInUse DEF Grow
<1>5. ~failed => \A i : <<chunks + 1, i>> \notin held
  <2>1. \A i : <<chunks + 1, i>> \notin Allocated
    BY <1>1 DEF Allocated
  <2> QED
    BY <2>1, <1>3 DEF PoolInv, OnlyInstances
<1>6. Exclusive'
  <2> SUFFICES ASSUME ~failed
               PROVE  /\ \A i \in 1 .. ChunkSize - 1 : free'[i] \notin held'
                      /\ \A i, j \in 1 .. ChunkSize - 1 : free'[i] = free'[j] => i = j
    BY <1>2, <1>3 DEF Exclusive
  <2>1. \A i \in 1 .. ChunkSize - 1 : <<chunks + 1, i>> # <<chunks + 1, 0>>
    BY <1>1
  <2>2. \A i \in 1 .. ChunkSize - 1 : <<chunks + 1, i>> \notin held'
    BY <1>3, <1>5, <2>1
  <2>3. \A i, j \in 1 .. ChunkSize - 1 : <<chunks + 1, i>> = <<chunks + 1, j>> => i = j
    OBVIOUS
  <2>4. \A i, j \in 1 .. ChunkSize - 1 : free'[i] = free'[j] => i = j
    BY <1>2, <2>3
  <2> QED
    BY <1>2, <2>2, <2>4
<1>7. NothingLost'
  <2> SUFFICES ASSUME NEW x \in Allocated'
               PROVE  x \in held' \/ \E i \in 1 .. Len(free') : free'[i] = x
    BY DEF NothingLost
  <2>1. PICK c \in 1 .. chunks + 1, i \in 0 .. ChunkSize - 1 : x = <<c, i>>
    BY <1>1 DEF Allocated
  <2>2. CASE c = chunks + 1 /\ i = 0
    BY <2>1, <2>2, <1>3
  <2>3. CASE c = chunks + 1 /\ i # 0
    <3>1. i \in 1 .. ChunkSize - 1
      BY <2>3, <1>1
    <3> QED
      BY <3>1, <2>1, <2>3, <1>2
  <2>4. CASE c # chunks + 1
    <3>1. c \in 1 .. chunks
      BY <2>4, <1>1
    <3>2. x \in Allocated
      BY <3>1, <2>1 DEF Allocated
    <3> QED
      BY <3>2, <1>3, <1>4
  <2> QED
    BY <2>2, <2>3, <2>4
<1>8. OnlyInstances'
  <2> SUFFICES ASSUME ~failed
               PROVE  /\ \A i \in 1 .. ChunkSize - 1 : free'[i] \in Allocated'
                      /\ held' \subseteq Allocated'
    BY <1>2, <1>3 DEF OnlyInstances
  <2>1. \A i \in 0 .. ChunkSize - 1 : <<chunks + 1, i>> \in Allocated'
    BY <1>1 DEF Allocated
  <2>2. Allocated \subseteq Allocated'
    BY <1>1 DEF Allocated
  <2>3. held \subseteq Allocated
    BY <1>3 DEF PoolInv, OnlyInstances
  <2>4. 0 \in 0 .. ChunkSize - 1 /\ \A i \in 1 .. ChunkSize - 1 : i \in 0 .. ChunkSize - 1
    BY <1>1
  <2> QED
    BY <1>2, <1>3, <2>1, <2>2, <2>3, <2>4
<1> QED
  BY <1>6, <1>7, <1>8

\* acquire() with malloc() failing: nothing is lost, for nothing was free.
LEMMA GrowFailsKeeps ==
  ASSUME PoolInv, GrowFails
  PROVE  Exclusive' /\ NothingLost' /\ OnlyInstances'
<1>1. Allocated \subseteq held
  BY AllInUse DEF GrowFails
<1>2. Exclusive' /\ OnlyInstances'
  BY DEF GrowFails, Exclusive, OnlyInstances
<1>3. NothingLost'
  BY <1>1 DEF GrowFails, NothingLost, Allocated
<1> QED
  BY <1>2, <1>3

\* release() of an object that exists.
LEMMA ReleaseKeeps ==
  ASSUME PoolInv, NEW b \in held, Release(b)
  PROVE  Exclusive' /\ NothingLost' /\ OnlyInstances'
<1> DEFINE n == Len(free)
<1>1. n \in Nat /\ Len(free') = n + 1 /\ free'[n + 1] = b
  BY AppendProperties, LenProperties DEF Release, PoolInv, Typed, TypeOK
<1>2. \A i \in 1 .. n : free'[i] = free[i]
  BY AppendProperties DEF Release, PoolInv, Typed, TypeOK
<1>3. held' = held \ {b} /\ alive /\ alive' = alive /\ failed' = failed /\ chunks' = chunks
  BY DEF Release
<1>4. \A i \in 1 .. n + 1 : i \in 1 .. n \/ i = n + 1
  BY <1>1
<1>5. Exclusive'
  <2> SUFFICES ASSUME ~failed
               PROVE  /\ \A i \in 1 .. n + 1 : free'[i] \notin held'
                      /\ \A i, j \in 1 .. n + 1 : free'[i] = free'[j] => i = j
    BY <1>1, <1>3 DEF Exclusive
  <2>1. \A i \in 1 .. n : free'[i] \notin held /\ free'[i] # b
    BY <1>2 DEF PoolInv, Exclusive
  <2>2. \A i \in 1 .. n + 1 : free'[i] \notin held'
    BY <1>1, <1>3, <1>4, <2>1
  <2>3. \A i, j \in 1 .. n : free'[i] = free'[j] => i = j
    BY <1>2 DEF PoolInv, Exclusive
  <2>4. \A i, j \in 1 .. n + 1 : free'[i] = free'[j] => i = j
    BY <1>1, <1>4, <2>1, <2>3
  <2> QED
    BY <2>2, <2>4
<1>6. NothingLost'
  <2> SUFFICES ASSUME NEW x \in Allocated
               PROVE  x \in held' \/ \E i \in 1 .. Len(free') : free'[i] = x
    BY <1>3 DEF NothingLost, Allocated
  <2>1. n + 1 \in 1 .. n + 1 /\ \A i \in 1 .. n : i \in 1 .. n + 1
    BY <1>1
  <2>2. CASE x = b
    BY <2>1, <2>2, <1>1
  <2>3. CASE x \in held /\ x # b
    BY <2>3, <1>3
  <2>4. CASE \E i \in 1 .. n : free[i] = x
    BY <2>1, <2>4, <1>1, <1>2
  <2> QED
    BY <2>2, <2>3, <2>4, <1>3 DEF PoolInv, NothingLost
<1>7. OnlyInstances'
  <2> SUFFICES ASSUME ~failed
               PROVE  /\ \A i \in 1 .. n + 1 : free'[i] \in Allocated
                      /\ held' \subseteq Allocated
    BY <1>1, <1>3 DEF OnlyInstances, Allocated
  <2>1. \A i \in 1 .. n : free'[i] \in Allocated
    BY <1>2, <1>3 DEF PoolInv, OnlyInstances
  <2>2. held \subseteq Allocated
    BY <1>3 DEF PoolInv, OnlyInstances
  <2> QED
    BY <1>1, <1>3, <1>4, <2>1, <2>2
<1> QED
  BY <1>5, <1>6, <1>7

\* A step of the pool keeps the invariant.
LEMMA PoolInvKept ==
  ASSUME PoolInv, [Next]_vars
  PROVE  PoolInv'
<1>1. Typed'
  BY TypesKept DEF PoolInv
<1>2. Exclusive' /\ NothingLost' /\ OnlyInstances'
  <2>1. CASE Reuse
    BY <2>1, ReuseKeeps
  <2>2. CASE Grow
    BY <2>2, GrowKeeps
  <2>3. CASE GrowFails
    BY <2>3, GrowFailsKeeps
  <2>4. CASE \E b \in held : Release(b)
    BY <2>4, ReleaseKeeps
  <2>5. CASE Destroy
    BY <2>5 DEF Destroy, PoolInv, Exclusive, NothingLost, OnlyInstances
  <2>6. CASE UNCHANGED vars
    BY <2>6 DEF vars, PoolInv, Exclusive, NothingLost, OnlyInstances, Allocated
  <2> QED
    BY <2>1, <2>2, <2>3, <2>4, <2>5, <2>6 DEF Next
<1> QED
  BY <1>1, <1>2 DEF PoolInv

\* An empty pool satisfies the invariant.
LEMMA PoolInvInitially == Init => PoolInv
<1> SUFFICES ASSUME Init PROVE PoolInv
  OBVIOUS
<1>1. Typed
  BY TypesInitially
<1>2. Len(free) = 0 /\ held = {} /\ chunks = 0
  BY EmptySeq DEF Init
<1>3. Allocated = {}
  BY <1>2 DEF Allocated
<1>4. Exclusive /\ NothingLost /\ OnlyInstances
  BY <1>2, <1>3 DEF Exclusive, NothingLost, OnlyInstances
<1> QED
  BY <1>1, <1>4 DEF PoolInv

\* No two objects share a block, unless malloc() has failed, and no block is
\* lost, for any chunk size and any sequence of new and delete.
THEOREM PoolBlocks == Spec => [](Exclusive /\ NothingLost)
<1>1. Init => PoolInv
  BY PoolInvInitially
<1>2. PoolInv /\ [Next]_vars => PoolInv'
  BY PoolInvKept
<1>3. PoolInv => Exclusive /\ NothingLost
  BY DEF PoolInv
<1> QED
  BY <1>1, <1>2, <1>3, PTL DEF Spec

\* No block is lost, even to a malloc() that fails: each one of every chunk is
\* in use or can be handed out again.
THEOREM PoolLosesNothing == Spec => []NothingLost
BY PoolBlocks, PTL

-----------------------------------------------------------------------------
(* Chunks.                                                                 *)

\* How many blocks the chunks have.
LEMMA AllocatedCount ==
  ASSUME chunks \in Nat
  PROVE  IsFiniteSet(Allocated) /\ Cardinality(Allocated) = chunks * ChunkSize
<1>1. ChunkSize \in Nat \ {0}
  BY PoolAssumption
<1>2. IsFiniteSet(1 .. chunks) /\ Cardinality(1 .. chunks) = chunks
  BY FS_Interval
<1>3. IsFiniteSet(0 .. ChunkSize - 1) /\ Cardinality(0 .. ChunkSize - 1) = ChunkSize
  BY <1>1, FS_Interval
<1> DEFINE S == 1 .. chunks
           T == 0 .. ChunkSize - 1
<1>4. IsFiniteSet(S) /\ IsFiniteSet(T)
  BY <1>2, <1>3
<1>5. Allocated = S \X T
  BY DEF Allocated
<1>6. Cardinality(S) = chunks /\ Cardinality(T) = ChunkSize
  BY <1>2, <1>3
<1> HIDE DEF S, T
<1>7. IsFiniteSet(S \X T) /\ Cardinality(S \X T) = Cardinality(S) * Cardinality(T)
  BY <1>4, FS_Product
<1> QED
  BY <1>5, <1>6, <1>7

\* A step of the pool allocates no chunk that is not needed.
LEMMA NoWasteKept ==
  ASSUME PoolInv, NoWaste, [Next]_vars
  PROVE  NoWaste'
<1> DEFINE size == chunks * ChunkSize
<1>1. chunks \in Nat /\ peak \in Nat /\ ChunkSize \in Nat \ {0} /\ size \in Nat
  BY PoolAssumption DEF PoolInv, Typed, TypeOK
<1>2. Cardinality(Allocated) = size /\ IsFiniteSet(Allocated)
  BY <1>1, AllocatedCount
<1>3. PoolInv'
  BY PoolInvKept
<1>4. CASE Reuse
  <2> SUFFICES ASSUME alive, ~failed
               PROVE  /\ peak' <= size
                      /\ chunks > 0 => peak' > (chunks - 1) * ChunkSize
    BY <1>4 DEF Reuse, NoWaste
  <2>1. held' \subseteq Allocated
    BY <1>3, <1>4 DEF Reuse, PoolInv, OnlyInstances, Allocated
  <2>2. Cardinality(held') \in Nat /\ Cardinality(held') <= size
    BY <1>2, <2>1, FS_Subset, FS_CardinalityType
  <2>3. peak' \in {peak, Cardinality(held')} /\ peak' >= peak
    BY <1>1, <1>4, <2>2 DEF Reuse, HandOut
  <2>4. peak <= size /\ (chunks > 0 => peak > (chunks - 1) * ChunkSize)
    BY DEF NoWaste
  <2>5. (chunks - 1) * ChunkSize \in Int
    BY <1>1
  <2> HIDE DEF size
  <2> QED
    BY <1>1, <2>2, <2>3, <2>4, <2>5
<1>5. CASE Grow
  <2> SUFFICES ASSUME alive, ~failed
               PROVE  peak' <= chunks' * ChunkSize /\ peak' > (chunks' - 1) * ChunkSize
    BY <1>5 DEF Grow, NoWaste
  <2>1. held = Allocated
    BY <1>5, AllInUse DEF Grow, PoolInv, OnlyInstances
  <2>2. <<chunks + 1, 0>> \notin Allocated
    <3> SUFFICES ASSUME <<chunks + 1, 0>> \in Allocated PROVE FALSE
      OBVIOUS
    <3>1. chunks + 1 \in 1..chunks
      BY DEF Allocated
    <3> QED
      BY <1>1, <3>1
  <2>3. Cardinality(held') = size + 1
    <3>1. held' = Allocated \cup {<<chunks + 1, 0>>}
      BY <1>5, <2>1 DEF Grow, HandOut
    <3> QED
      BY <1>2, <2>2, <3>1, FS_AddElement
  <2>4. peak <= size
    BY DEF NoWaste
  <2>5. peak' = size + 1
    <3> HIDE DEF size
    <3> QED
      BY <1>1, <1>5, <2>3, <2>4 DEF Grow, HandOut
  <2>6. (chunks + 1) * ChunkSize = size + ChunkSize /\ (chunks + 1 - 1) * ChunkSize = size
    BY <1>1
  <2>7. chunks' = chunks + 1
    BY <1>5 DEF Grow
  <2> HIDE DEF size
  <2> QED
    BY <1>1, <2>5, <2>6, <2>7
<1>6. CASE GrowFails
  BY <1>6 DEF GrowFails, NoWaste
<1>7. CASE \E b \in held : Release(b)
  BY <1>7 DEF Release, NoWaste
<1>8. CASE Destroy
  BY <1>8 DEF Destroy, NoWaste
<1>9. CASE UNCHANGED vars
  BY <1>9 DEF vars, NoWaste
<1> QED
  BY <1>4, <1>5, <1>6, <1>7, <1>8, <1>9 DEF Next

\* The pool never has a chunk more than the most objects there have been at
\* one time need.
THEOREM PoolGrowsWhenNeeded == Spec => []NoWaste
<1>1. Init => PoolInv /\ NoWaste
  <2> SUFFICES ASSUME Init PROVE PoolInv /\ NoWaste
    OBVIOUS
  <2>1. PoolInv
    BY PoolInvInitially
  <2>2. chunks = 0 /\ peak = 0 /\ ChunkSize \in Nat
    BY PoolAssumption DEF Init
  <2> QED
    BY <2>1, <2>2 DEF NoWaste
<1>2. PoolInv /\ NoWaste /\ [Next]_vars => PoolInv' /\ NoWaste'
  BY PoolInvKept, NoWasteKept
<1> QED
  BY <1>1, <1>2, PTL DEF Spec
=============================================================================
