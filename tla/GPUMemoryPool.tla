--------------------------- MODULE GPUMemoryPool ---------------------------
(***************************************************************************)
(* GPUMemoryPool of src/src/memory_manager.rs: two counters, in the        *)
(* wrapping u32 arithmetic of a release build.  The pool does not know its *)
(* allocations; nothing in the crate uses it, and the clients here give    *)
(* back, once, the size they were given.                                   *)
(***************************************************************************)
EXTENDS FiniteSetsExt

CONSTANTS Clients,   \* holders of at most one allocation each
          Total,     \* total_memory_mb
          MaxAllocs, \* max_allocations
          SizesMB,   \* sizes asked for
          Word,      \* 2^32
          None       \* no allocation

\* Sizes are u32.
GPUAssumption ==
    /\ IsFiniteSet(Clients)
    /\ Word \in Nat \ {0}
    /\ Total \in 0..(Word - 1)
    /\ MaxAllocs \in Nat
    /\ SizesMB \subseteq 0..(Word - 1)
    /\ None \notin SizesMB

VARIABLES
    gpuMB,    \* used_memory_mb
    current,  \* current_allocations
    granted,  \* the size each client holds
    largestMB \* history: the largest size granted so far

vars == <<gpuMB, current, granted, largestMB>>

Init ==
    /\ gpuMB = 0
    /\ current = 0
    /\ granted = [c \in Clients |-> None]
    /\ largestMB = 0

\* The id handed out is only the number of allocations there are, so that a
\* later allocation may get the id of one still held; nothing uses ids.
Allocate(c, size) ==
    /\ granted[c] = None
    /\ (gpuMB + size) % Word <= Total
    /\ current < MaxAllocs
    /\ gpuMB' = (gpuMB + size) % Word
    /\ current' = current + 1
    /\ granted' = [granted EXCEPT ![c] = size]
    /\ largestMB' = IF size > largestMB THEN size ELSE largestMB

SaturatingSub(m, n) == IF m < n THEN 0 ELSE m - n

\* A plausible bug: the allocation is not counted out.
DeallocateSizeOnly(c) ==
    /\ granted[c] # None
    /\ gpuMB' = SaturatingSub(gpuMB, granted[c])
    /\ granted' = [granted EXCEPT ![c] = None]
    /\ UNCHANGED <<current, largestMB>>

Deallocate(c) ==
    /\ granted[c] # None
    /\ gpuMB' = SaturatingSub(gpuMB, granted[c])
    /\ current' = SaturatingSub(current, 1)
    /\ granted' = [granted EXCEPT ![c] = None]
    /\ UNCHANGED largestMB

Next == \E c \in Clients : (\E size \in SizesMB : Allocate(c, size)) \/ Deallocate(c)

Spec == Init /\ [][Next]_vars

------------------------------------------------------------------------------
(* Properties.                                                             *)

Holders == {c \in Clients : granted[c] # None}

\* As long as the pool's size and the largest size granted add up to less
\* than 2^32, the two counters are exactly what the allocations held add up
\* to, so that the saturating subtractions never hide a difference, and both
\* stay within their limits.
GPUCountersExact ==
    Total + largestMB < Word =>
      /\ gpuMB = MapThenSumSet(LAMBDA c : granted[c], Holders)
      /\ current = Cardinality(Holders)
      /\ gpuMB <= Total
      /\ current <= MaxAllocs
=============================================================================
