----------------------------- MODULE MemoryPool -----------------------------
(***************************************************************************)
(* MemoryPool of src/src/memory_manager.rs, in the wrapping u32 arithmetic *)
(* of a release build: buffers by name, counted in whole megabytes.  A     *)
(* size is a usize: more than 32 bits.                                     *)
(***************************************************************************)
EXTENDS FiniteSetsExt

CONSTANTS Buffers,   \* buffer ids
          Sizes,     \* sizes asked for, in bytes
          MB,        \* bytes in a megabyte: 2^20
          Word,      \* 2^32
          LimitMB,   \* max_buffer_size_mb
          None       \* no buffer of that name

PoolAssumption ==
    /\ MB \in Nat \ {0}
    /\ Word \in Nat \ {0}
    /\ LimitMB \in 0..(Word - 1)
    /\ Sizes \subseteq Nat
    /\ None \notin Sizes

VARIABLES
    poolMB,  \* used_memory_mb
    buffers, \* the length of each buffer
    largest  \* history: the largest size granted since the pool was empty

vars == <<poolMB, buffers, largest>>

\* (size / (1024 * 1024)) as u32
Megabytes(size) == (size \div MB) % Word

Init ==
    /\ poolMB = 0
    /\ buffers = [b \in Buffers |-> None]
    /\ largest = 0

\* A plausible bug: the buffer is not counted in before the comparison.
FitsNow(size) == (poolMB * MB) % Word <= (LimitMB * MB) % Word

\* The opposite of "Out of memory": the sum, the size and the limit are each
\* cut to 32 bits.
Fits(size) ==
    (((poolMB * MB) % Word) + (size % Word)) % Word <= (LimitMB * MB) % Word

\* A buffer of the same name is dropped, and stays counted.
Allocate(b, size) ==
    /\ Fits(size)
    /\ buffers' = [buffers EXCEPT ![b] = size]
    /\ poolMB' = (poolMB + Megabytes(size)) % Word
    /\ largest' = IF size > largest THEN size ELSE largest

\* Nothing happens for an unknown name.
Deallocate(b) ==
    /\ buffers[b] # None
    /\ poolMB' = (poolMB + Word - Megabytes(buffers[b])) % Word
    /\ buffers' = [buffers EXCEPT ![b] = None]
    /\ UNCHANGED largest

Clear ==
    /\ poolMB' = 0
    /\ buffers' = [b \in Buffers |-> None]
    /\ largest' = 0

Next == \/ \E b \in Buffers : (\E size \in Sizes : Allocate(b, size)) \/ Deallocate(b)
        \/ Clear

Spec == Init /\ [][Next]_vars

------------------------------------------------------------------------------
(* Properties.                                                             *)

Live == {b \in Buffers : buffers[b] # None}

\* As long as the limit and a buffer of the largest size granted add up to
\* less than 4 GiB, the counter stays within the limit and never drops below
\* what the buffers take in whole megabytes, so that no deallocation wraps it
\* below zero.  The bytes themselves may exceed the limit, by less than a
\* megabyte for each buffer.
PoolWithinLimit ==
    LimitMB * MB + largest < Word =>
      /\ poolMB <= LimitMB
      /\ MapThenSumSet(LAMBDA b : Megabytes(buffers[b]), Live) <= poolMB
      /\ Live # {} =>
           MapThenSumSet(LAMBDA b : buffers[b], Live) < (LimitMB + Cardinality(Live)) * MB
=============================================================================
