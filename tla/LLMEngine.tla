------------------------------ MODULE LLMEngine ------------------------------
(***************************************************************************)
(* LLMOptimizationEngine of src/pystreamai/llm_optimization.py with its    *)
(* PromptCache and SpeculativeDecoder: prompts are cached by their first   *)
(* hundred characters, the cache is cut to its newest entries now and      *)
(* then, and what is not cached is generated by the model or, once that    *)
(* is enabled, by draft and verification.  What a cache entry holds, and   *)
(* estimates of time saved, are left out.                                  *)
(***************************************************************************)
EXTENDS Naturals, SequencesExt

CONSTANTS Prompts,
          KeyOf,      \* get_cache_key: prompts may share their beginning
          Limit,      \* 1_000_000 / max_cache_tokens: above it, store evicts
          Keep,       \* and keeps this many entries (100)
          Drafts,     \* values of num_draft_tokens
          Lengths,    \* values of max_tokens
          MaxCalls,   \* bound: calls of generate
          Off         \* no decoder

EngineAssumption ==
    /\ {Limit, Keep, MaxCalls} \subseteq Nat
    /\ Drafts \subseteq Nat /\ Lengths \subseteq Nat
    /\ Off \notin Drafts

VARIABLES
    cache,     \* PromptCache.cache: its keys in the order of the dict
    hits, misses,
    draft,     \* num_draft_tokens of the decoder, or Off
    verified,  \* its verified_tokens
    stored,    \* history: the keys that were stored, in order
    decoded    \* history: tokens the decoder generated

cacheVars   == <<cache, hits, misses, stored>>
decoderVars == <<draft, verified, decoded>>
vars        == <<cacheVars, decoderVars>>

Init ==
    /\ cache = <<>>
    /\ hits = 0 /\ misses = 0
    /\ draft = Off
    /\ verified = 0
    /\ stored = <<>>
    /\ decoded = 0

Cached(p) == KeyOf[p] \in Range(cache)

\* lookup: one counter moves.
Lookup(p) ==
    /\ hits + misses < MaxCalls
    /\ hits' = IF Cached(p) THEN hits + 1 ELSE hits
    /\ misses' = IF Cached(p) THEN misses ELSE misses + 1

\* A plausible bug: eviction keeps the entries that were there first.
EvictedLast ==
    IF Len(cache) > Limit THEN SubSeq(cache, 1, IF Len(cache) < Keep THEN Len(cache) ELSE Keep)
    ELSE cache

\* The entries that are left when store has made room.
Evicted ==
    IF Len(cache) > Limit
    THEN SubSeq(cache, IF Len(cache) > Keep THEN Len(cache) - Keep + 1 ELSE 1, Len(cache))
    ELSE cache

\* store, of a prompt that has just been missed: room is made first, and the
\* new key comes last.
Store(p) ==
    /\ cache' = Append(Evicted, KeyOf[p])
    /\ stored' = Append(stored, KeyOf[p])

\* SpeculativeDecoder.generate: drafts are added, each verified in full, until
\* there are enough tokens, so there may be up to a draft more.  An empty draft
\* ends it at once.
Rounds(length) == IF draft = 0 THEN 0 ELSE (length + draft - 1) \div draft

\* Each round counts its tokens and, in _verify_tokens, one more.
Decode(length) ==
    /\ verified' = verified + Rounds(length) * (draft + 1)
    /\ decoded' = decoded + Rounds(length) * draft
    /\ UNCHANGED draft

\* generate, of a prompt that is cached.
GenerateCached(p) ==
    /\ Cached(p)
    /\ Lookup(p)
    /\ UNCHANGED <<cache, stored, decoderVars>>

\* generate by the model, and the model raises: a miss, and nothing is stored.
GenerateFails(p) ==
    /\ ~Cached(p) /\ draft = Off
    /\ Lookup(p)
    /\ UNCHANGED <<cache, stored, decoderVars>>

Generate(p) ==
    /\ ~Cached(p)
    /\ Lookup(p)
    /\ \/ draft = Off /\ UNCHANGED decoderVars
       \/ draft # Off /\ \E length \in Lengths : Decode(length)
    /\ Store(p)

\* enable_speculative_decoding makes a new decoder.
EnableSpeculativeDecoding(n) ==
    /\ draft' = n
    /\ verified' = 0 /\ decoded' = 0
    /\ UNCHANGED cacheVars

Next == \/ \E p \in Prompts : GenerateCached(p) \/ GenerateFails(p) \/ Generate(p)
        \/ \E n \in Drafts : EnableSpeculativeDecoding(n)

Spec == Init /\ [][Next]_vars

------------------------------------------------------------------------------
(* Properties.                                                             *)

\* Whatever is missed, fails or is evicted, the last Keep prompts generated
\* are answered from the cache, which holds each key once, only keys whose
\* generation went through, and no more than one entry above its limits.
RecentPromptsHit ==
    /\ \A i \in DOMAIN stored : i + Keep > Len(stored) => stored[i] \in Range(cache)
    /\ IsInjective(cache)
    /\ Range(cache) \subseteq Range(stored)
    /\ Len(cache) <= Keep + 1 \/ Len(cache) <= Limit + 1

\* verified_tokens overstates what a decoder has generated by one for each
\* draft, over all its calls and for nothing else.
OneTooManyPerDraft ==
    draft # Off => verified * draft = decoded * (draft + 1)

\* Both books of the engine.
EngineBooks == RecentPromptsHit /\ OneTooManyPerDraft
=============================================================================
