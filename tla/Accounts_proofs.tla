--------------------------- MODULE Accounts_proofs ---------------------------
(***************************************************************************)
(* What is proved of the parts that Accounts composes, for all values of   *)
(* the constants.                                                          *)
(***************************************************************************)
EXTENDS Accounts, Sequences, Counting_proofs

------------------------------------------------------------------------------
(* PagedAttention: no page is given to two requests.  The pages that an    *)
(* allocation takes were not in use, and what is in use is exactly what    *)
(* requests hold or have lost.                                             *)

\* The loop of allocate_pages takes pages that exist and are free, only.
LEMMA FirstFreeIsFree ==
    ASSUME NEW n
    PROVE  Paging!FirstFree(n) \subseteq Paging!Pages \ used
  BY DEF Paging!FirstFree

\* An allocation, whatever it gets and whatever its request held before.
LEMMA AllocateKeepsOwners ==
    ASSUME Paging!PagesOwnedOnce, NEW r, NEW tokens, Paging!Allocate(r, tokens)
    PROVE  Paging!PagesOwnedOnce'
  <1> DEFINE got == Paging!FirstFree(Paging!PagesFor(tokens))
  <1>1. got \cap used = {}
    BY FirstFreeIsFree
  <1>2. /\ used' = used \cup got
        /\ pages' = [q \in Paging!Holding \cup {r} |-> IF q = r THEN got ELSE pages[q]]
        /\ lost' = IF r \in Paging!Holding THEN lost \cup pages[r] ELSE lost
    BY DEF Paging!Allocate
  <1>3. Paging!Holding' = Paging!Holding \cup {r}
    BY <1>2 DEF Paging!Holding
  <1>4. /\ pages'[r] = got
        /\ \A q \in Paging!Holding \ {r} : pages'[q] = pages[q]
    BY <1>2
  <1>5. lost' \subseteq used /\ \A q \in Paging!Holding : pages[q] \subseteq used
    BY <1>2 DEF Paging!PagesOwnedOnce
  <1> HIDE DEF got
  <1>6. used' = lost' \cup UNION {pages'[q] : q \in Paging!Holding'}
    <2>1. used' = lost \cup (UNION {pages[q] : q \in Paging!Holding}) \cup got
      BY <1>2 DEF Paging!PagesOwnedOnce
    <2>2. UNION {pages'[q] : q \in Paging!Holding'}
             = got \cup UNION {pages[q] : q \in Paging!Holding \ {r}}
      BY <1>3, <1>4
    <2>3. lost' \cup UNION {pages[q] : q \in Paging!Holding \ {r}}
             = lost \cup UNION {pages[q] : q \in Paging!Holding}
      <3>1. CASE r \in Paging!Holding
        BY <1>2, <3>1
      <3>2. CASE r \notin Paging!Holding
        BY <1>2, <3>2
      <3> QED  BY <3>1, <3>2
    <2> QED  BY <2>1, <2>2, <2>3
  <1>7. \A q \in Paging!Holding' : pages'[q] \cap lost' = {}
    <2> SUFFICES ASSUME NEW q \in Paging!Holding'
                 PROVE  pages'[q] \cap lost' = {}
      OBVIOUS
    <2>1. CASE q = r
      BY <1>1, <1>4, <1>5, <2>1
    <2>2. CASE q # r
      BY <1>2, <1>3, <1>4, <2>2 DEF Paging!PagesOwnedOnce
    <2> QED  BY <2>1, <2>2
  <1>8. \A q, s \in Paging!Holding' : q # s => pages'[q] \cap pages'[s] = {}
    BY <1>1, <1>3, <1>4, <1>5 DEF Paging!PagesOwnedOnce
  <1> QED  BY <1>6, <1>7, <1>8 DEF Paging!PagesOwnedOnce, Paging!Holding

\* A deallocation, which gives back what the request holds and nothing else.
LEMMA DeallocateKeepsOwners ==
    ASSUME Paging!PagesOwnedOnce, NEW r, Paging!Deallocate(r)
    PROVE  Paging!PagesOwnedOnce'
  <1>1. /\ r \in Paging!Holding
        /\ used' = used \ pages[r]
        /\ lost' = lost
        /\ Paging!Holding' = Paging!Holding \ {r}
        /\ \A q \in Paging!Holding' : pages'[q] = pages[q]
    BY DEF Paging!Deallocate, Paging!Holding
  <1>2. used' = lost \cup UNION {pages[q] : q \in Paging!Holding \ {r}}
    BY <1>1 DEF Paging!PagesOwnedOnce
  <1>3. {pages'[q] : q \in Paging!Holding'} = {pages[q] : q \in Paging!Holding \ {r}}
    BY <1>1
  <1> QED  BY <1>1, <1>2, <1>3 DEF Paging!PagesOwnedOnce, Paging!Holding

\* No page is ever given to two requests, and the pages marked as used are
\* those that requests hold or lost when they allocated again: no page that
\* was never given out is missing (PagedAttention, lines 150 to 181).
THEOREM PagesNeverShared == Spec => []PagesOwnedOnce
  <1>1. Init => Paging!PagesOwnedOnce
    BY DEF Init, Paging!Init, Paging!PagesOwnedOnce, Paging!Holding
  <1>2. Paging!PagesOwnedOnce /\ [Next]_vars => Paging!PagesOwnedOnce'
    <2> SUFFICES ASSUME Paging!PagesOwnedOnce, [Next]_vars
                 PROVE  Paging!PagesOwnedOnce'
      OBVIOUS
    <2>1. CASE PagesStep
      <3>1. ASSUME NEW r \in Requests, NEW tokens \in 0..MaxTokens,
                   Paging!Allocate(r, tokens)
            PROVE  Paging!PagesOwnedOnce'
        BY <3>1, AllocateKeepsOwners
      <3>2. ASSUME NEW r \in Requests, Paging!Deallocate(r)
            PROVE  Paging!PagesOwnedOnce'
        BY <3>2, DeallocateKeepsOwners
      <3> QED  BY <2>1, <3>1, <3>2 DEF PagesStep, Paging!Next
    <2>2. CASE UNCHANGED pageVars
      BY <2>2 DEF pageVars, Paging!PagesOwnedOnce, Paging!Holding
    <2>3. PagesStep \/ UNCHANGED pageVars
      BY DEF Next, PoolStep, GPUStep, SpendStep, EmbedStep, vars
    <2> QED  BY <2>1, <2>2, <2>3
  <1>3. Paging!PagesOwnedOnce <=> PagesOwnedOnce
    BY DEF PagesOwnedOnce
  <1> QED  BY <1>1, <1>2, <1>3, PTL DEF Spec

------------------------------------------------------------------------------
(* MemoryPool: until a size that 32 bits cannot check is granted, the      *)
(* counter is within the limit and covers the whole megabytes of the       *)
(* buffers.                                                                *)

PoolTypes == /\ poolMB \in 0..LimitMB
             /\ buffers \in [Buffers -> Sizes \cup {None}]
             /\ IsFiniteSet(Pool!Live)

\* The whole megabytes of each buffer, and their sum.
WholeMB == [b \in Pool!Live |-> Pool!Megabytes(buffers[b])]

PoolCounts == PoolTypes /\ SumOf(WholeMB, Pool!Live) <= poolMB

\* What holds whatever is granted.
PoolShape == /\ buffers \in [Buffers -> Sizes \cup {None}]
             /\ IsFiniteSet(Pool!Live)
             /\ largest \in Nat
             /\ \A b \in Pool!Live : buffers[b] <= largest

\* The check of the largest request granted did not wrap.
Checked == LimitMB * MB + largest < Word

PoolInv == PoolShape /\ (Checked => PoolCounts)

LEMMA PoolSets == /\ \A S : Pool!IsFiniteSet(S) <=> IsFiniteSet(S)
                  /\ \A S : Pool!Cardinality(S) = Cardinality(S)
  BY DEF Pool!IsFiniteSet, IsFiniteSet, Pool!Cardinality, Cardinality

\* Two facts of arithmetic.
LEMMA BoundBelow ==
    ASSUME NEW w \in Nat, NEW t \in Nat, NEW m \in Nat, NEW n \in Nat, n <= m, t + m < w
    PROVE  t + n < w
  OBVIOUS

LEMMA WrapOnce ==
    ASSUME NEW w \in Nat, NEW n \in Nat, n < w
    PROVE  (n + w) % w = n
  OBVIOUS

LEMMA PoolConstants ==
    /\ MB \in Nat \ {0} /\ Word \in Nat \ {0} /\ LimitMB \in Nat /\ LimitMB < Word
    /\ Sizes \subseteq Nat /\ None \notin Sizes
    /\ LimitMB * MB \in Nat
  <1>1. /\ MB \in Nat \ {0} /\ Word \in Nat \ {0} /\ LimitMB \in 0..(Word - 1)
        /\ Sizes \subseteq Nat /\ None \notin Sizes
    BY AccountsAssumption DEF Pool!PoolAssumption
  <1> QED BY <1>1

LEMMA MegabytesNat ==
    ASSUME NEW size \in Nat
    PROVE  Pool!Megabytes(size) \in Nat
  <1>1. \A n, m \in Nat : m # 0 => n \div m \in Nat /\ n % m \in Nat
    OBVIOUS
  <1> QED BY <1>1, PoolConstants DEF Pool!Megabytes

\* A size in bytes that fits 32 bits, in megabytes and what is left.
LEMMA WholeMegabytes ==
    ASSUME NEW size \in Nat, size < Word
    PROVE  LET q == Pool!Megabytes(size)
           IN q \in Nat /\ q * MB <= size /\ size <= MB * q + (MB - 1)
  <1>1. MB \in Nat \ {0} /\ Word \in Nat
    BY PoolConstants
  <1>2. \A n, m \in Nat : m # 0 => /\ n \div m \in Nat /\ n % m \in 0..(m - 1)
                                   /\ n = m * (n \div m) + (n % m)
    OBVIOUS
  <1>3. \A m, k \in Nat : m * k = k * m /\ m * k \in Nat
    OBVIOUS
  <1> DEFINE q == size \div MB
             r == size % MB
  <1>4. q \in Nat /\ r \in 0..(MB - 1) /\ size = MB * q + r
    BY <1>1, <1>2
  <1>5. q * MB = MB * q /\ q * MB \in Nat
    BY <1>1, <1>3, <1>4
  <1> HIDE DEF q, r
  <1>6. q \in Nat /\ q * MB <= size /\ size <= MB * q + (MB - 1)
    BY <1>1, <1>4, <1>5
  <1>7. q % Word = q
    <2>1. q * 1 <= q * MB
      <3>1. 1 <= MB /\ 1 \in Nat
        BY <1>1
      <3> QED BY <1>1, <1>4, <3>1, TimesMonotone
    <2>2. q < Word
      BY <1>1, <1>4, <1>5, <1>6, <2>1
    <2> QED BY <1>1, <1>4, <2>2, ModSmall
  <1> QED BY <1>6, <1>7 DEF q, Pool!Megabytes

\* Below 4 GiB the 32-bit arithmetic of the check does not wrap.
LEMMA PoolFits ==
    ASSUME PoolTypes, NEW size \in Sizes, Pool!Fits(size), LimitMB * MB + size < Word
    PROVE  /\ size \in Nat /\ Pool!Megabytes(size) \in Nat
           /\ poolMB + Pool!Megabytes(size) <= LimitMB
           /\ LimitMB < Word /\ Word \in Nat /\ LimitMB \in Nat
  <1> DEFINE limit == LimitMB * MB
             full  == poolMB * MB
             q     == Pool!Megabytes(size)
  <1>1. /\ size \in Nat /\ MB \in Nat \ {0} /\ Word \in Nat /\ LimitMB \in Nat
        /\ limit + size < Word
    BY PoolConstants
  <1>2. poolMB \in Nat /\ poolMB <= LimitMB
    BY <1>1 DEF PoolTypes
  <1>3. full \in Nat /\ limit \in Nat /\ full <= limit /\ LimitMB <= limit
    <2>1. \A m, n, k \in Nat : m <= n => m * k \in Nat /\ n * k \in Nat /\ m * k <= n * k
      <3> SUFFICES ASSUME NEW m \in Nat, NEW n \in Nat, NEW k \in Nat, m <= n
                   PROVE  m * k \in Nat /\ n * k \in Nat /\ m * k <= n * k
        OBVIOUS
      <3>1. k * m = m * k /\ k * n = n * k /\ m * k \in Nat /\ n * k \in Nat
        OBVIOUS
      <3> QED BY <3>1, TimesMonotone
    <2>2. LimitMB * 1 <= LimitMB * MB
      <3>1. 1 <= MB
        BY <1>1
      <3> QED BY <1>1, <3>1, TimesMonotone
    <2> QED BY <1>1, <1>2, <2>1, <2>2
  <1>4. q \in Nat /\ q * MB <= size /\ q * MB \in Nat
    <2>1. size < Word
      BY <1>1, PoolConstants
    <2>2. q \in Nat /\ q * MB <= size
      BY <1>1, <2>1, WholeMegabytes
    <2> QED BY <1>1, <2>2
  <1>5. full + size <= limit
    <2>1. ((full % Word) + (size % Word)) % Word <= limit % Word
      BY DEF Pool!Fits
    <2> HIDE DEF full, limit
    <2>2. full < Word /\ size < Word /\ limit < Word /\ full + size \in Nat /\ full + size < Word
      BY <1>1, <1>3
    <2>3. full % Word = full /\ size % Word = size /\ limit % Word = limit
          /\ (full + size) % Word = full + size
      BY <1>1, <1>3, <2>2, ModSmall
    <2> QED BY <2>1, <2>3
  <1>6. poolMB + q <= LimitMB
    <2> SUFFICES ASSUME ~(poolMB + q <= LimitMB) PROVE FALSE
      OBVIOUS
    <2> HIDE DEF q
    <2>1. (LimitMB + 1) * MB <= (poolMB + q) * MB
      <3>1. LimitMB + 1 <= poolMB + q /\ LimitMB + 1 \in Nat /\ poolMB + q \in Nat
        BY <1>1, <1>2, <1>4
      <3>2. MB * (LimitMB + 1) <= MB * (poolMB + q)
        BY <1>1, <3>1, TimesMonotone
      <3>3. \A n \in Nat : n * MB = MB * n
        BY <1>1
      <3> QED BY <3>1, <3>2, <3>3
    <2>2. (poolMB + q) * MB = full + q * MB /\ (LimitMB + 1) * MB = limit + MB
      BY <1>1, <1>2, <1>4
    <2> QED BY <1>1, <1>3, <1>4, <1>5, <2>1, <2>2
  <1> QED BY <1>1, <1>4, <1>6, PoolConstants

\* One buffer more, or one in the place of another.
LEMMA PoolAllocateCounts ==
    ASSUME PoolCounts, NEW b \in Buffers, NEW size \in Sizes, Pool!Allocate(b, size),
           LimitMB * MB + size < Word
    PROVE  PoolCounts'
  <1> DEFINE L == Pool!Live
             q == Pool!Megabytes(size)
  <1>1. /\ size \in Nat /\ q \in Nat /\ poolMB + q <= LimitMB
        /\ LimitMB < Word /\ Word \in Nat /\ LimitMB \in Nat /\ poolMB \in Nat
        /\ size # None
    <2>1. poolMB \in Nat /\ size # None
      BY PoolConstants DEF PoolCounts, PoolTypes
    <2> QED BY <2>1, PoolFits DEF PoolCounts, Pool!Allocate
  <1>2. poolMB' = poolMB + q /\ poolMB' \in 0..LimitMB
    <2>1. poolMB + q \in Nat /\ poolMB + q < Word
      BY <1>1
    <2>2. poolMB' = (poolMB + q) % Word
      BY DEF Pool!Allocate
    <2> QED BY <1>1, <2>1, <2>2, ModSmall
  <1>3. buffers' = [buffers EXCEPT ![b] = size]
    BY DEF Pool!Allocate
  <1>4. /\ L' = L \cup {b} /\ b \in L' /\ buffers' \in [Buffers -> Sizes \cup {None}]
    BY <1>1, <1>3 DEF PoolCounts, PoolTypes, Pool!Live
  <1>5. IsFiniteSet(L) /\ IsFiniteSet(L')
    BY <1>4, FS_AddElement DEF PoolCounts, PoolTypes
  <1>6. /\ \A d \in L : WholeMB[d] \in Nat
        /\ \A d \in L' : WholeMB'[d] \in Nat
        /\ \A d \in L' \ {b} : WholeMB'[d] = WholeMB[d]
        /\ WholeMB'[b] = q
    <2>1. \A d \in L : buffers[d] \in Nat
      BY PoolConstants DEF PoolCounts, PoolTypes, Pool!Live
    <2>2. \A d \in L : WholeMB[d] \in Nat
      BY <2>1, MegabytesNat DEF WholeMB
    <2>3. /\ \A d \in L' : WholeMB'[d] = Pool!Megabytes(buffers'[d])
          /\ \A d \in L : WholeMB[d] = Pool!Megabytes(buffers[d])
      BY DEF WholeMB, Pool!Megabytes
    <2>4. \A d \in L' \ {b} : d \in L /\ buffers'[d] = buffers[d]
      BY <1>3, <1>4 DEF Pool!Live, PoolCounts, PoolTypes
    <2>5. buffers'[b] = size
      BY <1>3 DEF PoolCounts, PoolTypes
    <2> QED BY <1>1, <1>4, <2>2, <2>3, <2>4, <2>5
  <1>7. SumOf(WholeMB, L) \in Nat /\ SumOf(WholeMB, L) <= poolMB
    BY <1>5, <1>6, SumNat DEF PoolCounts
  <1> HIDE DEF L
  <1>8. SumOf(WholeMB', L') <= SumOf(WholeMB, L) + q
    <2>1. CASE b \in L
      <3>1. L' = L
        BY <1>4, <2>1
      <3>2. SumOf(WholeMB', L) + WholeMB[b] = SumOf(WholeMB, L) + WholeMB'[b]
        BY <1>5, <1>6, <2>1, <3>1, SumUpdate
      <3>3. SumOf(WholeMB', L) \in Nat
        BY <1>5, <1>6, <3>1, SumNat
      <3> QED BY <1>1, <1>6, <1>7, <2>1, <3>1, <3>2, <3>3
    <2>2. CASE b \notin L
      <3>1. \A d \in L : WholeMB[d] \in Nat /\ WholeMB'[d] = WholeMB[d]
        BY <1>4, <1>6, <2>2
      <3>2. SumOf(WholeMB', L \cup {b}) = SumOf(WholeMB, L) + WholeMB'[b]
        BY <1>1, <1>5, <1>6, <2>2, <3>1, SumAdd
      <3> QED BY <1>1, <1>4, <1>6, <1>7, <3>2
    <2> QED BY <2>1, <2>2
  <1>9. SumOf(WholeMB', L') \in Nat
    BY <1>5, <1>6, SumNat
  <1>10. SumOf(WholeMB', L') <= poolMB'
    BY <1>1, <1>2, <1>7, <1>8, <1>9
  <1> QED BY <1>2, <1>4, <1>5, <1>10 DEF PoolCounts, PoolTypes, L

\* What a buffer takes is part of the sum, so that the counter does not wrap.
LEMMA PoolDeallocateCounts ==
    ASSUME PoolCounts, NEW b \in Buffers, Pool!Deallocate(b)
    PROVE  PoolCounts'
  <1> DEFINE L == Pool!Live
             q == Pool!Megabytes(buffers[b])
  <1>1. /\ buffers[b] # None
        /\ poolMB' = (poolMB + Word - q) % Word
        /\ buffers' = [buffers EXCEPT ![b] = None]
    BY DEF Pool!Deallocate
  <1>2. /\ b \in L /\ L' = L \ {b} /\ buffers' \in [Buffers -> Sizes \cup {None}]
        /\ buffers[b] \in Sizes /\ \A d \in L : buffers[d] \in Sizes
        /\ \A d \in L' : buffers'[d] = buffers[d]
    BY <1>1 DEF PoolCounts, PoolTypes, Pool!Live
  <1>3. /\ LimitMB \in Nat /\ Word \in Nat /\ LimitMB < Word /\ poolMB \in Nat
        /\ poolMB <= LimitMB /\ \A d \in L : buffers[d] \in Nat
    <2>1. poolMB \in 0..LimitMB
      BY DEF PoolCounts, PoolTypes
    <2>2. LimitMB \in Nat /\ Word \in Nat /\ LimitMB < Word
      BY PoolConstants
    <2>3. poolMB \in Nat /\ poolMB <= LimitMB
      BY <2>1, <2>2
    <2>4. \A d \in L : buffers[d] \in Nat
      BY <1>2, PoolConstants
    <2> QED BY <2>2, <2>3, <2>4
  <1>4. LimitMB < Word
    BY <1>3
  <1>5. IsFiniteSet(L) /\ IsFiniteSet(L \ {b})
    BY FS_Subset DEF PoolCounts, PoolTypes
  <1>6. /\ \A d \in L : WholeMB[d] = Pool!Megabytes(buffers[d]) /\ WholeMB[d] \in Nat
        /\ \A d \in L' : WholeMB'[d] = WholeMB[d]
    <2>1. \A d \in L : WholeMB[d] = Pool!Megabytes(buffers[d])
      BY DEF WholeMB, Pool!Megabytes
    <2>2. \A d \in L' : WholeMB'[d] = Pool!Megabytes(buffers'[d])
      BY DEF WholeMB, Pool!Megabytes
    <2>3. \A d \in L : Pool!Megabytes(buffers[d]) \in Nat
      BY <1>3, MegabytesNat
    <2> QED BY <1>2, <2>1, <2>2, <2>3
  <1> HIDE DEF L
  <1>7. SumOf(WholeMB, L) = WholeMB[b] + SumOf(WholeMB, L \ {b})
        /\ SumOf(WholeMB, L \ {b}) \in Nat
    <2>1. \A d \in L \ {b} : WholeMB[d] \in Nat
      BY <1>6
    <2> QED BY <1>2, <1>5, <1>6, <2>1, SumRemove, SumNat
  <1>8. q \in Nat /\ WholeMB[b] = q
    BY <1>2, <1>6
  <1>9. SumOf(WholeMB', L') = SumOf(WholeMB, L \ {b})
    BY <1>2, <1>5, <1>6, SumEqual
  <1>10. SumOf(WholeMB, L) <= poolMB
    BY DEF PoolCounts, L
  <1> HIDE DEF q
  <1>11. poolMB' = poolMB - q /\ poolMB - q \in Nat
    <2>1. poolMB - q \in Nat /\ poolMB - q < Word
      BY <1>3, <1>4, <1>7, <1>8, <1>10
    <2>2. poolMB' = ((poolMB - q) + Word) % Word
      BY <1>1, <1>3, <1>8
    <2>3. ((poolMB - q) + Word) % Word = poolMB - q
      BY <1>3, <2>1, WrapOnce
    <2> QED BY <2>1, <2>2, <2>3
  <1>12. SumOf(WholeMB', L') <= poolMB' /\ poolMB' \in 0..LimitMB
    BY <1>3, <1>7, <1>8, <1>9, <1>10, <1>11
  <1> QED BY <1>2, <1>5, <1>12 DEF PoolCounts, PoolTypes, L

\* A grant that wrapped excuses everything until the pool is cleared.
LEMMA PoolAllocateInv ==
    ASSUME PoolInv, NEW b \in Buffers, NEW size \in Sizes, Pool!Allocate(b, size)
    PROVE  PoolInv'
  <1>1. /\ buffers' = [buffers EXCEPT ![b] = size]
        /\ largest' = IF size > largest THEN size ELSE largest
    BY DEF Pool!Allocate
  <1>2. size \in Nat /\ size # None /\ largest \in Nat
    BY PoolConstants DEF PoolInv, PoolShape
  <1>3. largest' \in Nat /\ largest <= largest' /\ size <= largest'
    BY <1>1, <1>2
  <1>4. /\ Pool!Live' = Pool!Live \cup {b} /\ buffers' \in [Buffers -> Sizes \cup {None}]
        /\ \A d \in Buffers : buffers'[d] = IF d = b THEN size ELSE buffers[d]
    BY <1>1, <1>2 DEF PoolInv, PoolShape, Pool!Live
  <1>5. PoolShape'
    <2>1. IsFiniteSet(Pool!Live')
      BY <1>4, FS_AddElement DEF PoolInv, PoolShape
    <2>2. \A d \in Pool!Live' : buffers'[d] <= largest'
      <3> SUFFICES ASSUME NEW d \in Pool!Live' PROVE buffers'[d] <= largest'
        OBVIOUS
      <3>1. CASE d = b
        BY <1>3, <1>4, <3>1
      <3>2. CASE d # b
        <4>1. d \in Pool!Live /\ buffers'[d] = buffers[d]
          BY <1>4, <3>2 DEF Pool!Live
        <4>2. buffers[d] <= largest /\ buffers[d] \in Nat
          BY <4>1, PoolConstants DEF PoolInv, PoolShape, Pool!Live
        <4> QED BY <1>2, <1>3, <4>1, <4>2
      <3> QED BY <3>1, <3>2
    <2> QED BY <1>3, <1>4, <2>1, <2>2 DEF PoolShape
  <1>6. ASSUME Checked' PROVE PoolCounts'
    <2>1. LimitMB * MB + largest' < Word
      BY <1>6 DEF Checked
    <2>2. LimitMB * MB \in Nat /\ Word \in Nat
      BY PoolConstants
    <2>3. LimitMB * MB + largest < Word
      BY <1>2, <1>3, <2>1, <2>2, BoundBelow
    <2>4. LimitMB * MB + size < Word
      BY <1>2, <1>3, <2>1, <2>2, BoundBelow
    <2> QED BY <2>3, <2>4, PoolAllocateCounts DEF PoolInv, Checked
  <1> QED BY <1>5, <1>6 DEF PoolInv

LEMMA PoolDeallocateInv ==
    ASSUME PoolInv, NEW b \in Buffers, Pool!Deallocate(b)
    PROVE  PoolInv'
  <1>1. buffers' = [buffers EXCEPT ![b] = None] /\ largest' = largest
    BY DEF Pool!Deallocate
  <1>2. /\ Pool!Live' \subseteq Pool!Live /\ buffers' \in [Buffers -> Sizes \cup {None}]
        /\ \A d \in Pool!Live' : buffers'[d] = buffers[d]
    BY <1>1 DEF PoolInv, PoolShape, Pool!Live
  <1>3. PoolShape'
    BY <1>1, <1>2, FS_Subset DEF PoolInv, PoolShape
  <1>4. ASSUME Checked' PROVE PoolCounts'
    BY <1>1, <1>4, PoolDeallocateCounts DEF PoolInv, Checked
  <1> QED BY <1>3, <1>4 DEF PoolInv

LEMMA PoolEmpty ==
    ASSUME poolMB = 0, buffers = [b \in Buffers |-> None], largest = 0
    PROVE  PoolInv
  <1>1. Pool!Live = {}
    BY DEF Pool!Live
  <1>2. 0 \in 0..LimitMB
    BY PoolConstants
  <1> QED BY <1>1, <1>2, SumEmpty, FS_EmptySet DEF PoolInv, PoolShape, PoolCounts, PoolTypes

LEMMA PoolInvariant == Spec => []PoolInv
  <1>1. Init => PoolInv
    BY PoolEmpty DEF Init, Pool!Init
  <1>2. PoolInv /\ [Next]_vars => PoolInv'
    <2> SUFFICES ASSUME PoolInv, [Next]_vars PROVE PoolInv'
      OBVIOUS
    <2>1. CASE PoolStep
      <3>1. CASE Pool!Clear
        <4>1. poolMB' = 0 /\ buffers' = [b \in Buffers |-> None] /\ largest' = 0
          BY <3>1 DEF Pool!Clear
        <4>2. Pool!Live' = {}
          BY <4>1 DEF Pool!Live
        <4>3. 0 \in 0..LimitMB
          BY PoolConstants
        <4>4. PoolShape'
          BY <4>1, <4>2, FS_EmptySet DEF PoolShape
        <4>5. PoolCounts'
          BY <4>1, <4>2, <4>3, SumEmpty, FS_EmptySet DEF PoolCounts, PoolTypes
        <4> QED BY <4>4, <4>5 DEF PoolInv
      <3> QED BY <2>1, <3>1, PoolAllocateInv, PoolDeallocateInv DEF PoolStep, Pool!Next
    <2>2. CASE UNCHANGED poolVars
      BY <2>2 DEF poolVars, PoolInv, PoolShape, Checked, PoolCounts, PoolTypes, Pool!Live,
                  WholeMB, Pool!Megabytes
    <2>3. PoolStep \/ UNCHANGED poolVars
      BY DEF Next, PagesStep, GPUStep, SpendStep, EmbedStep, vars
    <2> QED  BY <2>1, <2>2, <2>3
  <1> QED  BY <1>1, <1>2, PTL DEF Spec

\* The two sums of PoolWithinLimit are sums as above.
LEMMA PoolSumsAre ==
    ASSUME PoolTypes
    PROVE  /\ Pool!MapThenSumSet(LAMBDA b : Pool!Megabytes(buffers[b]), Pool!Live)
                = SumOf(WholeMB, Pool!Live)
           /\ Pool!MapThenSumSet(LAMBDA b : buffers[b], Pool!Live)
                = SumOf(buffers, Pool!Live)
  <1> DEFINE L == Pool!Live
             h == CHOOSE g : g = [s \in SUBSET L |->
                     IF s = {} THEN 0
                     ELSE LET x == CHOOSE y \in s : TRUE
                          IN Pool!Megabytes(buffers[x]) + g[s \ {x}]]
  <1>1. Pool!MapThenSumSet(LAMBDA b : Pool!Megabytes(buffers[b]), L) = h[L]
    BY DEF Pool!MapThenSumSet, Pool!MapThenFoldSet
  <1>2. \A x \in L : WholeMB[x] = Pool!Megabytes(buffers[x])
    BY DEF WholeMB, Pool!Megabytes
  <1> HIDE DEF L
  <1>3. \A g : IsSum(g, WholeMB, L)
               <=> g = [s \in SUBSET L |->
                          IF s = {} THEN 0
                          ELSE LET x == CHOOSE y \in s : TRUE
                               IN Pool!Megabytes(buffers[x]) + g[s \ {x}]]
    BY <1>2 DEF IsSum
  <1>4. IsFiniteSet(L)
    BY DEF PoolTypes, L
  <1>5. IsSum(h, WholeMB, L)
    <2>1. \E g : IsSum(g, WholeMB, L)
      BY <1>4, SumExists
    <2> QED BY ZenonT(60), <1>3, <2>1
  <1> HIDE DEF h
  <1>6. h[L] = SumOf(WholeMB, L)
    BY <1>4, <1>5, SumIs
  <1>7. Pool!MapThenSumSet(LAMBDA b : buffers[b], L) = SumOf(buffers, L)
    BY DEF Pool!MapThenSumSet, Pool!MapThenFoldSet, SumOf, Sums, IsSum
  <1> QED BY <1>1, <1>6, <1>7 DEF L

LEMMA PoolIsWithinLimit == PoolInv => Pool!PoolWithinLimit
  <1>0. CASE ~Checked
    BY <1>0 DEF Checked, Pool!PoolWithinLimit
  <1> SUFFICES ASSUME PoolInv, PoolCounts, Checked PROVE Pool!PoolWithinLimit
    BY <1>0 DEF PoolInv
  <1> DEFINE L == Pool!Live
             S == SumOf(WholeMB, L)
             n == Cardinality(L)
  <1>1. MB \in Nat \ {0} /\ LimitMB \in Nat /\ poolMB \in Nat /\ poolMB <= LimitMB
    BY PoolConstants DEF PoolCounts, PoolTypes
  <1>2. IsFiniteSet(L) /\ n \in Nat
    BY FS_CardinalityType DEF PoolCounts, PoolTypes
  <1>3. \A b \in L : /\ buffers[b] \in Nat /\ WholeMB[b] \in Nat
                     /\ buffers[b] <= MB * WholeMB[b] + (MB - 1)
    <2>1. \A b \in L : buffers[b] \in Nat /\ buffers[b] < Word
      <3> SUFFICES ASSUME NEW b \in L PROVE buffers[b] \in Nat /\ buffers[b] < Word
        OBVIOUS
      <3>1. buffers[b] \in Nat /\ buffers[b] <= largest /\ largest \in Nat
        BY PoolConstants DEF PoolInv, PoolShape, Pool!Live
      <3> QED BY <3>1, PoolConstants DEF Checked
    <2>2. \A b \in L : WholeMB[b] = Pool!Megabytes(buffers[b])
      BY DEF WholeMB, Pool!Megabytes
    <2> QED BY <2>1, <2>2, WholeMegabytes
  <1>4. S \in Nat /\ S <= poolMB /\ SumOf(buffers, L) \in Nat
    BY <1>2, <1>3, SumNat DEF PoolCounts
  <1>5. SumOf(buffers, L) <= MB * S + (MB - 1) * n
    <2>1. MB \in Nat /\ MB - 1 \in Nat
      BY <1>1
    <2> QED BY <1>2, <1>3, <2>1, SumBound
  <1>6. ASSUME L # {} PROVE SumOf(buffers, L) < (LimitMB + n) * MB
    <2>1. n # 0
      BY <1>2, <1>6, FS_EmptySet
    <2>2. MB * S <= MB * LimitMB /\ MB * S \in Nat /\ MB * LimitMB \in Nat
      <3>1. S <= LimitMB
        BY <1>1, <1>4
      <3> QED BY <1>1, <1>4, <3>1, TimesMonotone
    <2>3. (LimitMB + n) * MB = MB * LimitMB + MB * n /\ MB * n = (MB - 1) * n + n
          /\ (MB - 1) * n \in Nat
      BY <1>1, <1>2
    <2> HIDE DEF S, n
    <2> QED BY <1>1, <1>2, <1>4, <1>5, <2>1, <2>2, <2>3
  <1> HIDE DEF L
  <1>7. /\ Pool!MapThenSumSet(LAMBDA b : Pool!Megabytes(buffers[b]), L) = S
        /\ Pool!MapThenSumSet(LAMBDA b : buffers[b], L) = SumOf(buffers, L)
    BY PoolSumsAre DEF PoolCounts, L
  <1> QED BY <1>1, <1>4, <1>6, <1>7, PoolSets DEF Pool!PoolWithinLimit, L

------------------------------------------------------------------------------
(* GPUMemoryPool: the counters are exact until a size that 32 bits cannot  *)
(* check is granted.                                                       *)

GPUTypes == /\ gpuMB \in Nat /\ current \in Nat /\ largestMB \in Nat
            /\ granted \in [Clients -> SizesMB \cup {None}]

GPUExact == /\ gpuMB = SumOf(granted, GPU!Holders)
            /\ current = Cardinality(GPU!Holders)
            /\ gpuMB <= Total
            /\ current <= MaxAllocs

\* The check of the largest request granted did not wrap.
GPUChecked == Total + largestMB < Word

GPUInv == GPUTypes /\ (GPUChecked => GPUExact)

\* What the instances' modules extend is what this module extends.
LEMMA GPUSets == /\ \A S : GPU!IsFiniteSet(S) <=> IsFiniteSet(S)
                 /\ \A S : GPU!Cardinality(S) = Cardinality(S)
  BY DEF GPU!IsFiniteSet, IsFiniteSet, GPU!Cardinality, Cardinality

LEMMA GPUExactIs == (GPUChecked => GPUExact) <=> GPU!GPUCountersExact
  <1>1. GPU!MapThenSumSet(LAMBDA c : granted[c], GPU!Holders) = SumOf(granted, GPU!Holders)
    BY DEF GPU!MapThenSumSet, GPU!MapThenFoldSet, SumOf, Sums, IsSum
  <1> QED  BY <1>1, GPUSets DEF GPUChecked, GPUExact, GPU!GPUCountersExact

LEMMA GPUConstants ==
    /\ Total \in Nat /\ Word \in Nat \ {0} /\ MaxAllocs \in Nat
    /\ SizesMB \subseteq Nat /\ None \notin SizesMB
  <1>1. /\ Word \in Nat \ {0} /\ Total \in 0..(Word - 1) /\ MaxAllocs \in Nat
        /\ SizesMB \subseteq 0..(Word - 1) /\ None \notin SizesMB
    BY AccountsAssumption DEF GPU!GPUAssumption
  <1> QED BY <1>1

LEMMA GPUHolders ==
    ASSUME GPUTypes
    PROVE  /\ IsFiniteSet(GPU!Holders) /\ GPU!Holders \subseteq Clients
           /\ \A c \in GPU!Holders : granted[c] \in Nat
  <1>1. IsFiniteSet(Clients) /\ SizesMB \subseteq Nat
    BY AccountsAssumption, GPUConstants, GPUSets DEF GPU!GPUAssumption
  <1>2. GPU!Holders \subseteq Clients
    BY DEF GPU!Holders
  <1>3. \A c \in GPU!Holders : granted[c] \in SizesMB
    BY DEF GPU!Holders, GPUTypes
  <1> QED BY <1>1, <1>2, <1>3, FS_Subset

\* An allocation: the counter does not wrap, and one client more holds memory.
LEMMA GPUAllocateExact ==
    ASSUME GPUTypes, GPUExact, NEW c \in Clients, NEW size \in SizesMB, GPU!Allocate(c, size),
           Total + size < Word
    PROVE  GPUExact'
  <1> DEFINE H == GPU!Holders
  <1>1. /\ size \in Nat /\ Total \in Nat /\ Word \in Nat /\ Total + size < Word
        /\ MaxAllocs \in Nat /\ size # None
    BY GPUConstants
  <1>2. /\ gpuMB \in Nat /\ current \in Nat /\ gpuMB <= Total
        /\ gpuMB = SumOf(granted, H) /\ current = Cardinality(H)
    BY DEF GPUTypes, GPUExact
  <1>3. (gpuMB + size) % Word = gpuMB + size
    <2>1. gpuMB + size \in Nat /\ gpuMB + size < Word
      BY <1>1, <1>2
    <2> QED BY <1>1, <2>1, ModSmall
  <1>4. /\ gpuMB' = gpuMB + size /\ gpuMB' <= Total
        /\ current' = current + 1 /\ current' <= MaxAllocs
        /\ granted[c] = None
        /\ granted' = [granted EXCEPT ![c] = size]
    BY <1>1, <1>2, <1>3 DEF GPU!Allocate
  <1>5. /\ H' = H \cup {c} /\ c \notin H
        /\ granted'[c] = size
        /\ \A d \in H : granted'[d] = granted[d]
        /\ granted' \in [Clients -> SizesMB \cup {None}]
    BY <1>1, <1>4 DEF GPUTypes, GPU!Holders
  <1>6. IsFiniteSet(H) /\ \A d \in H : granted[d] \in Nat
    BY GPUHolders
  <1> HIDE DEF H
  <1>7. SumOf(granted', H') = gpuMB'
    <2>1. granted'[c] \in Nat /\ \A d \in H : granted[d] \in Nat /\ granted'[d] = granted[d]
      BY <1>1, <1>5, <1>6
    <2>2. SumOf(granted', H \cup {c}) = SumOf(granted, H) + granted'[c]
      BY <1>5, <1>6, <2>1, SumAdd
    <2> QED BY <1>2, <1>4, <1>5, <2>2
  <1>8. Cardinality(H') = current'
    BY <1>2, <1>4, <1>5, <1>6, FS_AddElement
  <1> QED BY <1>1, <1>2, <1>4, <1>5, <1>7, <1>8 DEF GPUExact, H

\* A deallocation: what the client holds is part of the sum, so that neither
\* subtraction saturates.
LEMMA GPUDeallocateExact ==
    ASSUME GPUTypes, GPUExact, NEW c \in Clients, GPU!Deallocate(c)
    PROVE  GPUExact'
  <1> DEFINE H == GPU!Holders
  <1>1. /\ granted[c] # None
        /\ gpuMB' = GPU!SaturatingSub(gpuMB, granted[c])
        /\ current' = GPU!SaturatingSub(current, 1)
        /\ granted' = [granted EXCEPT ![c] = None]
    BY DEF GPU!Deallocate
  <1>2. /\ gpuMB \in Nat /\ current \in Nat /\ gpuMB <= Total /\ current <= MaxAllocs
        /\ gpuMB = SumOf(granted, H) /\ current = Cardinality(H)
        /\ Total \in Nat /\ MaxAllocs \in Nat
    BY AccountsAssumption DEF GPUTypes, GPUExact, GPU!GPUAssumption
  <1>3. IsFiniteSet(H) /\ \A d \in H : granted[d] \in Nat
    BY GPUHolders
  <1>4. /\ c \in H /\ H' = H \ {c}
        /\ \A d \in H' : granted'[d] = granted[d]
        /\ granted' \in [Clients -> SizesMB \cup {None}]
    BY <1>1 DEF GPUTypes, GPU!Holders
  <1> HIDE DEF H
  <1>5. IsFiniteSet(H \ {c}) /\ \A d \in H \ {c} : granted[d] \in Nat
    BY <1>3, FS_Subset
  <1>6. gpuMB = granted[c] + SumOf(granted, H \ {c}) /\ granted[c] \in Nat
        /\ SumOf(granted, H \ {c}) \in Nat
    <2>1. SumOf(granted, H) = granted[c] + SumOf(granted, H \ {c})
      BY <1>3, <1>4, SumRemove
    <2>2. SumOf(granted, H \ {c}) \in Nat
      BY <1>5, SumNat
    <2> QED BY <1>2, <1>3, <1>4, <2>1, <2>2
  <1>7. SumOf(granted', H \ {c}) = SumOf(granted, H \ {c})
    BY <1>4, <1>5, SumEqual
  <1>8. gpuMB' = SumOf(granted', H') /\ gpuMB' \in Nat /\ gpuMB' <= Total
    BY <1>1, <1>2, <1>4, <1>6, <1>7 DEF GPU!SaturatingSub
  <1>9. current' = Cardinality(H') /\ current' \in Nat /\ current' <= MaxAllocs
    <2>1. Cardinality(H \ {c}) = Cardinality(H) - 1 /\ Cardinality(H \ {c}) \in Nat
      BY <1>3, <1>4, <1>5, FS_RemoveElement, FS_CardinalityType
    <2> QED BY <1>1, <1>2, <1>4, <2>1 DEF GPU!SaturatingSub
  <1> QED BY <1>4, <1>8, <1>9 DEF GPUExact, H

LEMMA GPUAllocateInv ==
    ASSUME GPUInv, NEW c \in Clients, NEW size \in SizesMB, GPU!Allocate(c, size)
    PROVE  GPUInv'
  <1>1. /\ gpuMB' = (gpuMB + size) % Word /\ current' = current + 1
        /\ granted' = [granted EXCEPT ![c] = size]
        /\ largestMB' = IF size > largestMB THEN size ELSE largestMB
    BY DEF GPU!Allocate
  <1>2. GPUTypes /\ size \in Nat
    BY GPUConstants DEF GPUInv
  <1>3. largestMB' \in Nat /\ largestMB <= largestMB' /\ size <= largestMB'
    BY <1>1, <1>2 DEF GPUTypes
  <1>4. GPUTypes'
    <2>1. \A n, w \in Nat : w # 0 => n % w \in Nat
      OBVIOUS
    <2>2. gpuMB' \in Nat
      BY <1>1, <1>2, <2>1, GPUConstants DEF GPUTypes
    <2> QED BY <1>1, <1>2, <1>3, <2>2 DEF GPUTypes
  <1>5. ASSUME GPUChecked' PROVE GPUExact'
    <2>1. Total + largestMB' < Word
      BY <1>5 DEF GPUChecked
    <2>2. Total \in Nat /\ Word \in Nat /\ largestMB \in Nat
      BY <1>2, GPUConstants DEF GPUTypes
    <2>3. Total + largestMB < Word
      BY <1>3, <2>1, <2>2, BoundBelow
    <2>4. Total + size < Word
      BY <1>2, <1>3, <2>1, <2>2, BoundBelow
    <2> QED BY <1>2, <2>3, <2>4, GPUAllocateExact DEF GPUInv, GPUChecked
  <1> QED BY <1>4, <1>5 DEF GPUInv

LEMMA GPUDeallocateInv ==
    ASSUME GPUInv, NEW c \in Clients, GPU!Deallocate(c)
    PROVE  GPUInv'
  <1>1. /\ gpuMB' = GPU!SaturatingSub(gpuMB, granted[c])
        /\ current' = GPU!SaturatingSub(current, 1)
        /\ granted' = [granted EXCEPT ![c] = None] /\ largestMB' = largestMB
        /\ granted[c] # None
    BY DEF GPU!Deallocate
  <1>2. GPUTypes /\ granted[c] \in Nat
    BY <1>1, GPUConstants DEF GPUInv, GPUTypes
  <1>3. GPUTypes'
    BY <1>1, <1>2 DEF GPUTypes, GPU!SaturatingSub
  <1>4. ASSUME GPUChecked' PROVE GPUExact'
    BY <1>1, <1>2, <1>4, GPUDeallocateExact DEF GPUInv, GPUChecked
  <1> QED BY <1>3, <1>4 DEF GPUInv

LEMMA GPUInvariant == Spec => []GPUInv
  <1>1. Init => GPUInv
    <2> SUFFICES ASSUME Init PROVE GPUInv
      OBVIOUS
    <2>1. GPU!Holders = {} /\ gpuMB = 0 /\ current = 0 /\ largestMB = 0
          /\ granted \in [Clients -> SizesMB \cup {None}]
      BY DEF Init, GPU!Init, GPU!Holders
    <2> QED BY <2>1, SumEmpty, FS_EmptySet, GPUConstants
            DEF GPUInv, GPUTypes, GPUExact
  <1>2. GPUInv /\ [Next]_vars => GPUInv'
    <2> SUFFICES ASSUME GPUInv, [Next]_vars PROVE GPUInv'
      OBVIOUS
    <2>1. CASE GPUStep
      BY <2>1, GPUAllocateInv, GPUDeallocateInv DEF GPUStep, GPU!Next
    <2>2. CASE UNCHANGED gpuVars
      BY <2>2 DEF gpuVars, GPUInv, GPUTypes, GPUChecked, GPUExact, GPU!Holders
    <2>3. GPUStep \/ UNCHANGED gpuVars
      BY DEF Next, PagesStep, PoolStep, SpendStep, EmbedStep, vars
    <2> QED  BY <2>1, <2>2, <2>3
  <1> QED  BY <1>1, <1>2, PTL DEF Spec

------------------------------------------------------------------------------
(* EmbeddingCache: the running total covers the bytes in the cache.        *)

\* The bytes of each entry of a sequence of texts, and their sum.
BytesAt(s) == [i \in DOMAIN s |-> Bytes[s[i]]]
ByteSum(s) == SumOf(BytesAt(s), DOMAIN s)

EmbedInv == /\ cached \in Seq(Texts)
            /\ total \in Nat
            /\ ByteSum(cached) <= total
            /\ total <= MaxBytes

LEMMA BytesTyped ==
    ASSUME NEW s \in Seq(Texts)
    PROVE  /\ DOMAIN s = 1..Len(s) /\ Len(s) \in Nat /\ IsFiniteSet(DOMAIN s)
           /\ Cardinality(DOMAIN s) = Len(s)
           /\ \A i \in DOMAIN s : s[i] \in Texts /\ BytesAt(s)[i] = Bytes[s[i]]
                                  /\ BytesAt(s)[i] \in Nat
           /\ ByteSum(s) \in Nat
  <1>1. DOMAIN s = 1..Len(s) /\ Len(s) \in Nat /\ \A i \in DOMAIN s : s[i] \in Texts
    OBVIOUS
  <1>2. IsFiniteSet(DOMAIN s) /\ Cardinality(DOMAIN s) = Len(s)
    BY <1>1, FS_Interval
  <1>3. \A t \in Texts : Bytes[t] \in Nat
    BY AccountsAssumption DEF Embed!EmbeddingAssumption
  <1>4. \A i \in DOMAIN s : BytesAt(s)[i] = Bytes[s[i]] /\ BytesAt(s)[i] \in Nat
    BY <1>1, <1>3 DEF BytesAt
  <1>5. ByteSum(s) \in Nat
    BY <1>2, <1>4, SumNat DEF ByteSum
  <1> QED BY <1>1, <1>2, <1>4, <1>5

\* The fold of the model is that sum.
LEMMA ByteSumIs ==
    ASSUME NEW s \in Seq(Texts)
    PROVE  Embed!SumBytes(s) = ByteSum(s)
  <1> DEFINE D == DOMAIN s
             f == BytesAt(s)
             h == CHOOSE g : g = [r \in SUBSET D |->
                     IF r = {} THEN 0
                     ELSE LET i == CHOOSE y \in r : TRUE
                          IN Bytes[s[i]] + g[r \ {i}]]
  <1>1. Embed!SumBytes(s) = h[D]
    BY DEF Embed!SumBytes, Embed!FoldSeq, Embed!FoldFunction, Embed!FoldFunctionOnSet,
           Embed!MapThenFoldSet
  <1>2. IsFiniteSet(D) /\ \A i \in D : f[i] = Bytes[s[i]]
    BY BytesTyped
  <1> HIDE DEF D, f
  <1>3. \A g : IsSum(g, f, D)
               <=> g = [r \in SUBSET D |->
                          IF r = {} THEN 0
                          ELSE LET i == CHOOSE y \in r : TRUE
                               IN Bytes[s[i]] + g[r \ {i}]]
    BY <1>2 DEF IsSum
  <1>4. IsSum(h, f, D)
    <2>1. \E g : IsSum(g, f, D)
      BY <1>2, SumExists
    <2> QED BY ZenonT(60), <1>3, <2>1
  <1> HIDE DEF h
  <1>5. h[D] = SumOf(f, D)
    BY <1>2, <1>4, SumIs
  <1> QED BY <1>1, <1>5 DEF D, f, ByteSum

\* One more text.
LEMMA ByteSumAppend ==
    ASSUME NEW s \in Seq(Texts), NEW t \in Texts
    PROVE  ByteSum(Append(s, t)) = ByteSum(s) + Bytes[t]
  <1> DEFINE a == Append(s, t)
             n == Len(s) + 1
             D == DOMAIN s
  <1>1. /\ a \in Seq(Texts) /\ DOMAIN a = D \cup {n} /\ n \notin D /\ a[n] = t
        /\ \A i \in D : a[i] = s[i]
    OBVIOUS
  <1>2. /\ IsFiniteSet(D) /\ BytesAt(a)[n] = Bytes[t] /\ BytesAt(a)[n] \in Nat
        /\ \A i \in D : BytesAt(s)[i] \in Nat /\ BytesAt(a)[i] = BytesAt(s)[i]
    <2> HIDE DEF a
    <2>1. /\ \A i \in D : BytesAt(s)[i] = Bytes[s[i]] /\ BytesAt(s)[i] \in Nat
          /\ IsFiniteSet(D)
      BY BytesTyped
    <2>2. \A i \in D \cup {n} : BytesAt(a)[i] = Bytes[a[i]] /\ BytesAt(a)[i] \in Nat
      BY <1>1, BytesTyped
    <2> QED BY <1>1, <2>1, <2>2
  <1> HIDE DEF a, n, D
  <1>3. SumOf(BytesAt(a), D \cup {n}) = SumOf(BytesAt(s), D) + BytesAt(a)[n]
    BY <1>1, <1>2, SumAdd
  <1> QED BY <1>1, <1>2, <1>3 DEF ByteSum, a, D

\* No more than Keep entries and one leave the limit alone.
LEMMA KeptFits ==
    ASSUME NEW s \in Seq(Texts), Len(s) <= Keep, NEW t \in Texts
    PROVE  ByteSum(s) + Bytes[t] <= MaxBytes
  <1> DEFINE k == Keep + 1
             D == DOMAIN s
             one == [i \in DOMAIN s |-> 0]
  <1>1. /\ Keep \in Nat /\ MaxBytes \in Nat
        /\ \A u \in Texts : Bytes[u] \in Nat /\ k * Bytes[u] <= MaxBytes
    BY AccountsAssumption DEF Embed!EmbeddingAssumption
  <1>2. PICK b \in Nat : k * b <= MaxBytes /\ \A u \in Texts : Bytes[u] <= b
    <2> DEFINE b == MaxBytes \div k
    <2>1. k \in Nat \ {0}
      BY <1>1
    <2> HIDE DEF k
    <2>2. \A x, y \in Nat : y # 0 => x \div y \in Nat /\ y * (x \div y) <= x
                               /\ \A z \in Nat : y * z <= x => z <= x \div y
      <3> SUFFICES ASSUME NEW x \in Nat, NEW y \in Nat, y # 0
                   PROVE  x \div y \in Nat /\ y * (x \div y) <= x
                          /\ \A z \in Nat : y * z <= x => z <= x \div y
        OBVIOUS
      <3> DEFINE q == x \div y
                 r == x % y
      <3>1. q \in Nat /\ r \in 0..(y - 1) /\ x = y * q + r
        OBVIOUS
      <3> HIDE DEF q, r
      <3>2. y * q \in Nat /\ y * q <= x
        BY <3>1
      <3>3. ASSUME NEW z \in Nat, y * z <= x, ~(z <= q) PROVE FALSE
        <4>1. q + 1 <= z
          BY <3>1, <3>3
        <4>2. y * (q + 1) <= y * z /\ y * (q + 1) = y * q + y
          BY <3>1, <4>1, TimesMonotone
        <4>3. y * z \in Nat
          BY <3>3
        <4> QED BY <3>1, <3>2, <3>3, <4>2, <4>3
      <3> QED BY <3>1, <3>2, <3>3 DEF q
    <2>3. b \in Nat /\ k * b <= MaxBytes /\ \A u \in Texts : Bytes[u] <= b
      BY <1>1, <2>1, <2>2
    <2> QED BY <2>3
  <1>3. ByteSum(s) <= b * Len(s)
    <2>1. IsFiniteSet(D) /\ Cardinality(D) = Len(s)
      BY BytesTyped
    <2>2. \A i \in D : BytesAt(s)[i] \in Nat /\ one[i] \in Nat
                       /\ BytesAt(s)[i] <= 0 * one[i] + b
      BY <1>2, BytesTyped
    <2>3. SumOf(one, D) = 0
      BY <2>1, SumZero
    <2> HIDE DEF one, D
    <2>4. SumOf(BytesAt(s), D) <= 0 * SumOf(one, D) + b * Cardinality(D)
      BY <2>1, <2>2, SumBound
    <2>5. b * Len(s) \in Nat
      BY BytesTyped
    <2> QED BY <2>1, <2>3, <2>4, <2>5 DEF ByteSum, D
  <1>4. b * Len(s) <= b * Keep
    BY <1>1, BytesTyped, TimesMonotone
  <1>5. k * b = b * Keep + b /\ b * Keep \in Nat /\ b * Len(s) \in Nat
    BY <1>1, BytesTyped
  <1>6. ByteSum(s) \in Nat
    BY BytesTyped
  <1> HIDE DEF k
  <1> QED BY <1>1, <1>2, <1>3, <1>4, <1>5, <1>6

\* What an eviction keeps.
LEMMA NewestKept ==
    ASSUME cached \in Seq(Texts)
    PROVE  Embed!Newest \in Seq(Texts) /\ Len(Embed!Newest) <= Keep
  <1> DEFINE n == Len(cached)
             m == IF n > Keep THEN n - Keep + 1 ELSE 1
  <1>1. Keep \in Nat /\ n \in Nat
    BY AccountsAssumption DEF Embed!EmbeddingAssumption
  <1>2. m \in 1..n + 1 /\ m \in Nat /\ n - m + 1 <= Keep /\ n - m + 1 \in Nat
    BY <1>1
  <1> HIDE DEF m
  <1>3. SubSeq(cached, m, n) \in Seq(Texts) /\ Len(SubSeq(cached, m, n)) = n - m + 1
    BY <1>1, <1>2
  <1> QED BY <1>2, <1>3 DEF Embed!Newest, m

LEMMA EmbedSetInv ==
    ASSUME EmbedInv, NEW t \in Texts, Embed!Set(t)
    PROVE  EmbedInv'
  <1> DEFINE full == total + Bytes[t] > MaxBytes
             kept == IF full THEN Embed!Newest ELSE cached
  <1>1. /\ cached' = IF t \in Embed!ToSet(kept) THEN kept ELSE Append(kept, t)
        /\ total' = (IF full THEN Embed!SumBytes(kept) ELSE total) + Bytes[t]
    BY DEF Embed!Set
  <1>2. Bytes[t] \in Nat /\ MaxBytes \in Nat /\ total \in Nat /\ cached \in Seq(Texts)
        /\ ByteSum(cached) <= total
    BY AccountsAssumption DEF Embed!EmbeddingAssumption, EmbedInv
  <1>3. kept \in Seq(Texts) /\ (full => Len(kept) <= Keep)
    BY <1>2, NewestKept
  <1>4. ByteSum(kept) + Bytes[t] <= total' /\ total' <= MaxBytes /\ total' \in Nat
        /\ ByteSum(kept) \in Nat
    <2>1. ByteSum(kept) \in Nat /\ Embed!SumBytes(kept) = ByteSum(kept)
      BY <1>3, BytesTyped, ByteSumIs
    <2>2. CASE full
      <3>1. ByteSum(kept) + Bytes[t] <= MaxBytes
        BY <1>3, <2>2, KeptFits
      <3> QED BY <1>1, <1>2, <2>1, <2>2, <3>1
    <2>3. CASE ~full
      BY <1>1, <1>2, <2>1, <2>3
    <2> QED BY <2>2, <2>3
  <1> HIDE DEF kept, full
  <1>5. CASE cached' = kept
    BY <1>2, <1>3, <1>4, <1>5 DEF EmbedInv
  <1>6. CASE cached' = Append(kept, t)
    <2>1. ByteSum(Append(kept, t)) = ByteSum(kept) + Bytes[t]
      BY <1>3, ByteSumAppend
    <2>2. Append(kept, t) \in Seq(Texts)
      BY <1>3
    <2> QED BY <1>4, <1>6, <2>1, <2>2 DEF EmbedInv
  <1> QED BY <1>1, <1>5, <1>6

LEMMA EmbedInvariant == Spec => []EmbedInv
  <1>1. Init => EmbedInv
    <2> SUFFICES ASSUME Init PROVE EmbedInv
      OBVIOUS
    <2>1. cached = <<>> /\ total = 0 /\ cached \in Seq(Texts) /\ DOMAIN cached = {}
      BY DEF Init, Embed!Init
    <2>2. ByteSum(cached) = 0
      BY <2>1, SumEmpty DEF ByteSum
    <2> QED BY <2>1, <2>2, AccountsAssumption DEF EmbedInv, Embed!EmbeddingAssumption
  <1>2. EmbedInv /\ [Next]_vars => EmbedInv'
    <2> SUFFICES ASSUME EmbedInv, [Next]_vars PROVE EmbedInv'
      OBVIOUS
    <2>1. CASE EmbedStep
      BY <2>1, EmbedSetInv DEF EmbedStep, Embed!Next, Embed!GetEmbedding
    <2>2. CASE UNCHANGED embedVars
      BY <2>2 DEF embedVars, EmbedInv
    <2>3. EmbedStep \/ UNCHANGED embedVars
      BY DEF Next, PagesStep, GPUStep, SpendStep, PoolStep, vars
    <2> QED  BY <2>1, <2>2, <2>3
  <1> QED  BY <1>1, <1>2, PTL DEF Spec

LEMMA EmbedIsBounded == EmbedInv => Embed!EmbeddingBytesBounded
  BY ByteSumIs DEF EmbedInv, Embed!EmbeddingBytesBounded

------------------------------------------------------------------------------
(* Memory.                                                                 *)

\* The counter of the Rust pool stays within its limit, covers its buffers'
\* whole megabytes and is not wrapped by a deallocation, and the two counters
\* of the GPU pool are what its clients hold, if they give back what they got:
\* each as long as the pool's limit and the largest size granted add up to
\* less than 2^32, of bytes and of megabytes (memory_manager.rs, lines 17 to 64
\* and 105 to 141).
THEOREM PoolsAreWithinLimit == Spec => []PoolsWithinLimit
  <1>1. PoolInv /\ GPUInv => PoolsWithinLimit
    BY PoolIsWithinLimit, GPUExactIs DEF PoolsWithinLimit, GPUInv
  <1> QED  BY <1>1, PoolInvariant, GPUInvariant, PTL

\* The bytes of the embedding cache are never more than its running total, nor
\* that more than its limit (EmbeddingCache of advanced_caching.py), if the
\* limit has room for the entries that an eviction keeps and one more.
THEOREM EmbeddingsAreWithinLimit == Spec => []EmbeddingsWithinLimit
  <1>1. EmbedInv => EmbeddingsWithinLimit
    BY EmbedIsBounded DEF EmbeddingsWithinLimit
  <1> QED  BY <1>1, EmbedInvariant, PTL

------------------------------------------------------------------------------
(* SpendManager: requests under way when the budget runs out still spend,  *)
(* one largest cost each at most.                                          *)

SpendTypes == /\ allowed \subseteq Workers
              /\ daily \in [Spend!Days -> Nat]
              /\ day \in Spend!Days
              /\ blocked \in BOOLEAN

Spent == SumOf(daily, Spend!Days)

SpendExact ==
    /\ Spent + MaxCost * Cardinality(allowed) <= Budget + MaxCost * Cardinality(Workers)
    /\ blocked => Spent > Budget

SpendInv == SpendTypes /\ SpendExact

LEMMA SpendSets == /\ \A S : Spend!IsFiniteSet(S) <=> IsFiniteSet(S)
                   /\ \A S : Spend!Cardinality(S) = Cardinality(S)
  BY DEF Spend!IsFiniteSet, IsFiniteSet, Spend!Cardinality, Cardinality

LEMMA SpentIs == Spend!TotalCost = Spent
  BY DEF Spend!TotalCost, Spend!MapThenSumSet, Spend!MapThenFoldSet,
         Spent, SumOf, Sums, IsSum

LEMMA SpendFacts ==
    ASSUME SpendTypes
    PROVE  /\ IsFiniteSet(Spend!Days) /\ IsFiniteSet(Workers) /\ IsFiniteSet(allowed)
           /\ Cardinality(allowed) \in Nat /\ Cardinality(Workers) \in Nat
           /\ Cardinality(allowed) <= Cardinality(Workers)
           /\ Spent \in Nat /\ MaxCost \in Nat /\ Budget \in Nat
  <1>1. /\ IsFiniteSet(Workers) /\ MaxCost \in Nat /\ Budget \in Nat /\ MaxDays \in Nat
    BY AccountsAssumption, SpendSets DEF Spend!SpendAssumption
  <1>2. IsFiniteSet(Spend!Days)
    BY <1>1, FS_Interval DEF Spend!Days
  <1>3. IsFiniteSet(allowed) /\ Cardinality(allowed) <= Cardinality(Workers)
    BY <1>1, FS_Subset DEF SpendTypes
  <1>4. Spent \in Nat
    BY <1>2, SumNat DEF SpendTypes, Spent
  <1> QED BY <1>1, <1>2, <1>3, <1>4, FS_CardinalityType

\* One request fewer under way leaves room for one largest cost.
LEMMA FewerUnderWay ==
    ASSUME SpendTypes, NEW w \in allowed
    PROVE  /\ MaxCost * Cardinality(allowed \ {w}) \in Nat
           /\ MaxCost * Cardinality(allowed) = MaxCost * Cardinality(allowed \ {w}) + MaxCost
  <1>1. IsFiniteSet(allowed \ {w}) /\ Cardinality(allowed \ {w}) = Cardinality(allowed) - 1
    BY SpendFacts, FS_RemoveElement
  <1>2. Cardinality(allowed \ {w}) \in Nat /\ MaxCost \in Nat /\ Cardinality(allowed) \in Nat
    BY <1>1, SpendFacts, FS_CardinalityType
  <1>3. \A n \in Nat : MaxCost * (n + 1) = MaxCost * n + MaxCost /\ MaxCost * n \in Nat
    BY <1>2
  <1> QED BY <1>1, <1>2, <1>3

\* What is recorded of a day adds to the total.
LEMMA SpendMore ==
    ASSUME SpendTypes, NEW d \in Spend!Days, NEW c \in Nat, daily' = [daily EXCEPT ![d] = @ + c]
    PROVE  Spent' = Spent + c
  <1>1. IsFiniteSet(Spend!Days) /\ Spent \in Nat
    BY SpendFacts
  <1>2. /\ daily'[d] = daily[d] + c /\ daily[d] \in Nat
        /\ \A e \in Spend!Days : daily[e] \in Nat /\ daily'[e] \in Nat
        /\ \A e \in Spend!Days \ {d} : daily'[e] = daily[e]
    BY DEF SpendTypes
  <1>3. SumOf(daily', Spend!Days) + daily[d] = SumOf(daily, Spend!Days) + daily'[d]
    BY ONLY <1>1, <1>2, SumUpdate
  <1>4. SumOf(daily', Spend!Days) \in Nat
    BY <1>1, <1>2, SumNat
  <1> QED BY <1>1, <1>2, <1>3, <1>4 DEF Spent

LEMMA SpendStepInv ==
    ASSUME SpendInv, Spend!Next
    PROVE  SpendInv'
  <1> USE SpendSets
  <1>0. SpendTypes /\ SpendExact
    BY DEF SpendInv
  <1>1. ASSUME NEW w \in Workers, Spend!Allow(w)
        PROVE  SpendInv'
    <2>1. SpendTypes' /\ Spent' = Spent /\ blocked' = blocked /\ blocked = FALSE
      BY <1>0, <1>1 DEF Spend!Allow, SpendTypes, Spent
    <2>2. Spent <= Budget
      BY <1>1, SpentIs DEF Spend!Allow
    <2>3. Cardinality(allowed') \in Nat /\ Cardinality(allowed') <= Cardinality(Workers)
      <3>1. allowed' \subseteq Workers
        BY <2>1 DEF SpendTypes
      <3> QED BY <1>0, <3>1, SpendFacts, FS_Subset, FS_CardinalityType
    <2>4. MaxCost * Cardinality(allowed') \in Nat
          /\ MaxCost * Cardinality(allowed') <= MaxCost * Cardinality(Workers)
          /\ MaxCost * Cardinality(Workers) \in Nat
      <3>1. MaxCost \in Nat /\ Cardinality(Workers) \in Nat
        BY <1>0, SpendFacts
      <3> QED BY <2>3, <3>1, TimesMonotone
    <2>5. Spent + MaxCost * Cardinality(allowed') <= Budget + MaxCost * Cardinality(Workers)
      <3>1. Spent \in Nat /\ Budget \in Nat
        BY <1>0, SpendFacts
      <3> QED BY <2>2, <2>4, <3>1
    <2> QED BY <2>1, <2>5 DEF SpendInv, SpendExact
  <1>2. ASSUME NEW w \in Workers, Spend!Record(w)
        PROVE  SpendInv'
    <2>1. PICK c \in Costs, d \in 0..day : daily' = [daily EXCEPT ![d] = @ + c]
      BY <1>2 DEF Spend!Record
    <2>2. c \in Nat /\ c <= MaxCost /\ d \in Spend!Days /\ MaxCost \in Nat
      BY <1>0, AccountsAssumption DEF Spend!SpendAssumption, SpendTypes, Spend!Days
    <2>3. w \in allowed /\ allowed' = allowed \ {w} /\ day' = day /\ blocked' = blocked
      BY <1>2 DEF Spend!Record
    <2>4. SpendTypes'
      BY <1>0, <2>1, <2>2, <2>3 DEF SpendTypes
    <2>5. Spent' = Spent + c /\ Spent \in Nat
      BY <1>0, <2>1, <2>2, SpendMore, SpendFacts
    <2>6. Spent' + MaxCost * Cardinality(allowed') <= Budget + MaxCost * Cardinality(Workers)
      <3> DEFINE p == MaxCost * Cardinality(allowed)
                 q == MaxCost * Cardinality(allowed')
                 r == MaxCost * Cardinality(Workers)
      <3>1. q \in Nat /\ p = q + MaxCost
        BY <1>0, <2>3, FewerUnderWay
      <3>2. Spent + p <= Budget + r
        BY <1>0 DEF SpendExact
      <3>3. r \in Nat /\ Budget \in Nat
        <4>1. MaxCost \in Nat /\ Cardinality(Workers) \in Nat /\ Budget \in Nat
          BY <1>0, SpendFacts
        <4> QED BY <4>1
      <3> HIDE DEF p, q, r
      <3>4. Spent + c + q <= Budget + r
        BY <2>2, <2>5, <3>1, <3>2, <3>3
      <3> QED BY <2>5, <3>4 DEF q, r
    <2>7. blocked' => Spent' > Budget
      <3>1. Budget \in Nat
        BY <1>0, SpendFacts
      <3> QED BY <1>0, <2>2, <2>3, <2>5, <3>1 DEF SpendExact
    <2> QED BY <2>4, <2>6, <2>7 DEF SpendInv, SpendExact
  <1>3. ASSUME NEW w \in Workers, Spend!Fail(w)
        PROVE  SpendInv'
    <2>1. SpendTypes' /\ Spent' = Spent /\ blocked' = blocked
          /\ w \in allowed /\ allowed' = allowed \ {w}
      BY <1>0, <1>3 DEF Spend!Fail, SpendTypes, Spent
    <2>2. Spent + MaxCost * Cardinality(allowed') <= Budget + MaxCost * Cardinality(Workers)
      <3> DEFINE p == MaxCost * Cardinality(allowed)
                 q == MaxCost * Cardinality(allowed')
                 r == MaxCost * Cardinality(Workers)
      <3>1. q \in Nat /\ p = q + MaxCost
        BY <1>0, <2>1, FewerUnderWay
      <3>2. Spent + p <= Budget + r
        BY <1>0 DEF SpendExact
      <3>3. r \in Nat /\ Budget \in Nat /\ MaxCost \in Nat /\ Spent \in Nat
        <4>1. MaxCost \in Nat /\ Cardinality(Workers) \in Nat /\ Budget \in Nat /\ Spent \in Nat
          BY <1>0, SpendFacts
        <4> QED BY <4>1
      <3> HIDE DEF p, q, r
      <3>4. Spent + q <= Budget + r
        BY <3>1, <3>2, <3>3
      <3> QED BY <3>4 DEF q, r
    <2> QED BY <1>0, <2>1, <2>2 DEF SpendInv, SpendExact
  <1>4. CASE Spend!Block
    <2>1. Spent > Budget
      BY <1>4, SpentIs DEF Spend!Block
    <2> QED BY <1>0, <1>4, <2>1 DEF Spend!Block, SpendInv, SpendTypes, SpendExact, Spent
  <1>5. CASE Spend!NewDay
    <2>1. day' \in Spend!Days
      BY <1>0, <1>5, AccountsAssumption
         DEF Spend!NewDay, SpendTypes, Spend!Days, Spend!SpendAssumption
    <2> QED BY <1>0, <1>5, <2>1 DEF Spend!NewDay, SpendInv, SpendTypes, SpendExact, Spent
  <1>6. CASE Spend!Reset
    <2>1. SpendTypes' /\ allowed' = allowed /\ ~blocked' /\ \A d \in Spend!Days : daily'[d] = 0
      BY <1>0, <1>6 DEF Spend!Reset, SpendTypes
    <2>2. Spent' = 0
      BY <1>0, <2>1, SpendFacts, SumZero DEF Spent
    <2>3. Spent + MaxCost * Cardinality(allowed) <= Budget + MaxCost * Cardinality(Workers)
          /\ Spent \in Nat /\ Budget \in Nat
      BY <1>0, SpendFacts DEF SpendExact
    <2>4. MaxCost * Cardinality(allowed) \in Nat /\ MaxCost * Cardinality(Workers) \in Nat
          /\ MaxCost * Cardinality(allowed) <= MaxCost * Cardinality(Workers)
      <3>1. MaxCost \in Nat /\ Cardinality(Workers) \in Nat /\ Cardinality(allowed) \in Nat
            /\ Cardinality(allowed) <= Cardinality(Workers)
        BY <1>0, SpendFacts
      <3> QED BY <3>1, TimesMonotone
    <2>5. 0 + MaxCost * Cardinality(allowed) <= Budget + MaxCost * Cardinality(Workers)
      BY <2>3, <2>4
    <2> QED BY <2>1, <2>2, <2>5 DEF SpendInv, SpendExact
  <1> QED BY <1>1, <1>2, <1>3, <1>4, <1>5, <1>6 DEF Spend!Next

LEMMA SpendInitInv == Init => SpendInv
  <1> SUFFICES ASSUME Init PROVE SpendInv
    OBVIOUS
  <1>1. allowed = {} /\ day = 0 /\ blocked = FALSE /\ daily = [d \in Spend!Days |-> 0]
    BY DEF Init, Spend!Init
  <1>2. SpendTypes
    <2>1. 0 \in Spend!Days
      BY AccountsAssumption DEF Spend!Days, Spend!SpendAssumption
    <2> QED BY <1>1, <2>1 DEF SpendTypes
  <1>3. Spent = 0 /\ Cardinality(allowed) = 0
    BY <1>1, <1>2, SpendFacts, SumZero, FS_EmptySet DEF Spent
  <1>4. MaxCost * 0 = 0 /\ MaxCost * Cardinality(Workers) \in Nat /\ Budget \in Nat
    <2>1. MaxCost \in Nat /\ Cardinality(Workers) \in Nat /\ Budget \in Nat
      BY <1>2, SpendFacts
    <2> QED BY <2>1
  <1> QED BY <1>1, <1>2, <1>3, <1>4 DEF SpendInv, SpendExact

\* However many requests are under way when the budget runs out, they overspend
\* it by at most one largest cost each, and requests are refused only while it is
\* exceeded (should_allow_request and record_inference of cost_tracking.py).
THEOREM BudgetIsKept == Spec => []BudgetKept
  <1>1. SpendInv /\ [Next]_vars => SpendInv'
    <2> SUFFICES ASSUME SpendInv, [Next]_vars PROVE SpendInv'
      OBVIOUS
    <2>1. CASE SpendStep
      BY <2>1, SpendStepInv DEF SpendStep
    <2>2. CASE UNCHANGED spendVars
      BY <2>2 DEF spendVars, SpendInv, SpendTypes, SpendExact, Spent
    <2>3. SpendStep \/ UNCHANGED spendVars
      BY DEF Next, PagesStep, PoolStep, GPUStep, EmbedStep, vars
    <2> QED  BY <2>1, <2>2, <2>3
  <1>2. SpendInv => BudgetKept
    BY SpentIs, SpendSets DEF SpendInv, SpendExact, BudgetKept, Spend!BudgetKept,
       Spend!OverspendBounded, Spend!BlockedMeansOver
  <1> QED  BY SpendInitInv, <1>1, <1>2, PTL DEF Spec

=============================================================================
