--------------------------- MODULE EmbeddingCache ---------------------------
(***************************************************************************)
(* EmbeddingCache of src/pystreamai/advanced_caching.py: embeddings by     *)
(* text, in the insertion order of a dict, with a running total of bytes.  *)
(***************************************************************************)
EXTENDS SequencesExt

CONSTANTS Texts,    \* texts embedded
          Bytes,    \* size of each text's embedding
          MaxBytes, \* max_cache_size_mb, in bytes
          Keep      \* entries that an eviction keeps: 100

\* The limit leaves room for what an eviction keeps and one more: embeddings
\* have at most 10 numbers, the default limit is 500 MB.
EmbeddingAssumption ==
    /\ Bytes \in [Texts -> Nat]
    /\ MaxBytes \in Nat
    /\ Keep \in Nat
    /\ \A t \in Texts : (Keep + 1) * Bytes[t] <= MaxBytes

VARIABLES
    cached,  \* the texts with an embedding in the cache, oldest first
    total    \* total_size_bytes

vars == <<cached, total>>

SumBytes(s) == FoldSeq(LAMBDA t, n : Bytes[t] + n, 0, s)

Init ==
    /\ cached = <<>>
    /\ total = 0

Newest == SubSeq(cached, IF Len(cached) > Keep THEN Len(cached) - Keep + 1 ELSE 1,
                 Len(cached))

\* A plausible bug: an eviction does not count its entries out.
SetKeepsTotal(t) ==
    LET full == total + Bytes[t] > MaxBytes
        kept == IF full THEN Newest ELSE cached
    IN /\ cached' = IF t \in ToSet(kept) THEN kept ELSE Append(kept, t)
       /\ total' = total + Bytes[t]

\* set: an eviction keeps the newest entries; a text that is still there keeps
\* its place and is counted once more.
Set(t) ==
    LET full == total + Bytes[t] > MaxBytes
        kept == IF full THEN Newest ELSE cached
    IN /\ cached' = IF t \in ToSet(kept) THEN kept ELSE Append(kept, t)
       /\ total' = (IF full THEN SumBytes(kept) ELSE total) + Bytes[t]

\* HybridCache.get_embedding: set what is missing.  An empty embedding counts
\* as missing.
GetEmbedding(t) ==
    /\ t \notin ToSet(cached) \/ Bytes[t] = 0
    /\ Set(t)

Next == \E t \in Texts : GetEmbedding(t) \/ Set(t)

Spec == Init /\ [][Next]_vars

------------------------------------------------------------------------------
(* Properties.                                                             *)

\* The running total never falls below the bytes in the cache, whatever is
\* overwritten and evicted, and stays within the limit.
EmbeddingBytesBounded == SumBytes(cached) <= total /\ total <= MaxBytes
=============================================================================
