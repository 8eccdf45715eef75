---------------------------- MODULE HybridCache ----------------------------
(***************************************************************************)
(* HybridCache of src/pystreamai/advanced_caching.py: a ResultCache by     *)
(* model and input, and behind it a SemanticCache by the text of the       *)
(* input, of which the entry most similar to a query is returned.  Results *)
(* are numbered in the order set_result stores them, so that 0 is none.    *)
(* (EmbeddingCache, which shares no state with them, has its own module.)  *)
(***************************************************************************)
EXTENDS Naturals, SequencesExt

CONSTANTS Models,   \* model ids
          Inputs,   \* input_data, that differ in more than the order of keys
          Score,    \* similarity of two inputs' texts: 0 is below the
                    \* threshold, the highest number the same embedding
          MaxSets,  \* bound: results stored
          NoMatch   \* the None of SemanticCache.get

HybridAssumption ==
    /\ Score \in [Inputs \X Inputs -> Nat]
    /\ \A x, y \in Inputs : Score[<<x, y>>] <= Score[<<x, x>>]
    /\ \A x \in Inputs : Score[<<x, x>>] > 0
    /\ MaxSets \in Nat
    /\ NoMatch \notin Nat

VARIABLES
    made,         \* history: every result stored, by number: its model and
                  \* input; truthy, whether Python takes it for true; valid,
                  \* whether its model has not been invalidated since
    results,      \* ResultCache.cache: result of a model for an input
    keysByModel,  \* ResultCache._keys_by_model
    semantic,     \* SemanticCache.cache: result for an input's text
    embeddings    \* SemanticCache.embeddings, in order

vars == <<made, results, keysByModel, semantic, embeddings>>

Init ==
    /\ made = <<>>
    /\ results = [k \in Models \X Inputs |-> 0]
    /\ keysByModel = [m \in Models |-> {}]
    /\ semantic = [x \in Inputs |-> 0]
    /\ embeddings = <<>>

------------------------------------------------------------------------------
(* Look-ups.  They change nothing but hit counters.                        *)

\* The input of the first entry with the highest score above the threshold.
BestMatch(x) ==
    LET near == {i \in DOMAIN embeddings : Score[<<x, embeddings[i]>>] > 0}
    IN {embeddings[i] : i \in
          {i \in near : \A j \in near :
              Score[<<x, embeddings[j]>>] < Score[<<x, embeddings[i]>>]
              \/ (Score[<<x, embeddings[j]>>] = Score[<<x, embeddings[i]>>] /\ i <= j)}}

\* SemanticCache.get: the value only.
SemanticGet(x) ==
    IF BestMatch(x) = {} THEN NoMatch
    ELSE semantic[CHOOSE y \in BestMatch(x) : TRUE]

Truthy(n) == n # 0 /\ made[n].truthy

\* The outcomes of get_result.  A match that is false is no result (0), and
\* without a match unpacking None raises (NoMatch).
GetResult(m, x) ==
    IF Truthy(results[<<m, x>>]) THEN results[<<m, x>>]
    ELSE IF SemanticGet(x) # NoMatch /\ ~Truthy(SemanticGet(x)) THEN 0
    ELSE SemanticGet(x)

------------------------------------------------------------------------------
\* A plausible bug: the first result for a text stays.
SemanticOnce(x, n) == [semantic EXCEPT ![x] = IF @ = 0 THEN n ELSE @]

\* SemanticCache.set: the entry.
SemanticEntry(x, n) == [semantic EXCEPT ![x] = n]

\* A plausible bug: keys are tracked for the first result of a model only.
TrackFirst(m, x) == [keysByModel EXCEPT ![m] = IF @ = {} THEN {x} ELSE @]

\* ResultCache.set: the key.
Track(m, x) == [keysByModel EXCEPT ![m] = @ \cup {x}]

\* set_result.  An embedding is added for every result, known text or not.
SetResult(m, x, truthy) ==
    LET n == Len(made) + 1
    IN /\ n <= MaxSets
       /\ made' = Append(made, [model |-> m, input |-> x, truthy |-> truthy,
                                valid |-> TRUE])
       /\ results' = [results EXCEPT ![<<m, x>>] = n]
       /\ keysByModel' = Track(m, x)
       /\ semantic' = SemanticEntry(x, n)
       /\ embeddings' = Append(embeddings, x)

\* invalidate_model: of the result cache only.
InvalidateModel(m) ==
    /\ results' = [k \in Models \X Inputs |->
                       IF k[1] = m /\ k[2] \in keysByModel[m] THEN 0 ELSE results[k]]
    /\ keysByModel' = [keysByModel EXCEPT ![m] = {}]
    /\ made' = [n \in DOMAIN made |->
                    [made[n] EXCEPT !.valid = @ /\ made[n].model # m]]
    /\ UNCHANGED <<semantic, embeddings>>

Next == \E m \in Models :
            \/ \E x \in Inputs : \E truthy \in BOOLEAN : SetResult(m, x, truthy)
            \/ InvalidateModel(m)

Spec == Init /\ [][Next]_vars

------------------------------------------------------------------------------
(* Properties.                                                             *)

\* Whether the result numbered n is the latest that a model in ms stored for x.
Latest(n, ms, x) ==
    /\ made[n].model \in ms /\ made[n].input = x
    /\ \A k \in DOMAIN made : k > n => ~(made[k].model \in ms /\ made[k].input = x)

\* The result cache has a model's latest result for an input exactly as long as
\* the model has not been invalidated since it was stored, and whoever asks for
\* it gets it, if it is one Python takes for true: the semantic cache does not
\* get in the way.
OwnResultFirst ==
    \A m \in Models, x \in Inputs : \A n \in DOMAIN made :
        Latest(n, {m}, x) =>
            /\ results[<<m, x>>] = IF made[n].valid THEN n ELSE 0
            /\ made[n].valid /\ made[n].truthy => GetResult(m, x) = n

\* Any other answer is the latest result that some model, this one or another,
\* stored for an input similar to the one asked for, and for no input that was
\* ever stored is the similarity higher.
FallbackIsNearest ==
    \A m \in Models, x \in Inputs :
        LET n == GetResult(m, x)
        IN n \in DOMAIN made /\ ~(made[n].model = m /\ made[n].input = x) =>
             /\ Latest(n, Models, made[n].input)
             /\ Score[<<x, made[n].input>>] > 0
             /\ \A k \in DOMAIN made : Score[<<x, made[k].input>>] <= Score[<<x, made[n].input>>]
=============================================================================
