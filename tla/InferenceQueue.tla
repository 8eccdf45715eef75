--------------------------- MODULE InferenceQueue ---------------------------
(***************************************************************************)
(* The request queue of InferenceOptimizer in the Rust crate,              *)
(* src/inference.rs: batches are taken off its front and each is sorted by *)
(* priority.  Latency estimates and quantization are left out.             *)
(***************************************************************************)
EXTENDS Naturals, SequencesExt

CONSTANTS Requests,
          Priority,   \* of each request
          BatchSize   \* batch_size (32)

QueueAssumption ==
    /\ Priority \in [Requests -> Nat]
    /\ BatchSize \in Nat \ {0}

VARIABLES
    arrived,       \* history: requests in the order queue_request got them
    requestQueue,  \* request_queue
    batched        \* history: requests in the order batches handed them out

vars == <<arrived, requestQueue, batched>>

Init == arrived = <<>> /\ requestQueue = <<>> /\ batched = <<>>

QueueRequest(r) ==
    /\ r \notin Range(arrived)
    /\ arrived' = Append(arrived, r)
    /\ requestQueue' = Append(requestQueue, r)
    /\ UNCHANGED batched

\* A plausible bug: requests of one priority change places.
LastFirst(s) ==
    LET Before(i, j) == \/ Priority[s[i]] > Priority[s[j]]
                        \/ Priority[s[i]] = Priority[s[j]] /\ i > j
    IN [k \in DOMAIN s |-> s[CHOOSE i \in DOMAIN s :
                                Cardinality({j \in DOMAIN s : Before(j, i)}) = k - 1]]

\* Highest priority first and otherwise in order, for sort_by is stable: the
\* k-th is the one that k - 1 others come before.
ByPriority(s) ==
    LET Before(i, j) == \/ Priority[s[i]] > Priority[s[j]]
                        \/ Priority[s[i]] = Priority[s[j]] /\ i < j
    IN [k \in DOMAIN s |-> s[CHOOSE i \in DOMAIN s :
                                Cardinality({j \in DOMAIN s : Before(j, i)}) = k - 1]]

Size  == Min({BatchSize, Len(requestQueue)})
Batch == ByPriority(SubSeq(requestQueue, 1, Size))

\* next_batch, of any number of requests and after any time: it does not ask
\* should_flush_batch.  Of an empty queue it is empty.
NextBatch ==
    /\ requestQueue # <<>>
    /\ requestQueue' = SubSeq(requestQueue, Size + 1, Len(requestQueue))
    /\ batched' = batched \o Batch
    /\ UNCHANGED arrived

Next == NextBatch \/ \E r \in Requests : QueueRequest(r)

Spec == Init /\ [][Next]_vars

------------------------------------------------------------------------------
(* Properties.                                                             *)

Place(r, s) == CHOOSE i \in DOMAIN s : s[i] = r

\* Of all requests handed out, whatever their priorities and however batches
\* and arrivals interleave: one is overtaken only by later ones of higher
\* priority, and by fewer than BatchSize of them; and nothing is lost, handed
\* out twice, or handed out before one that arrived earlier was.
BoundedOvertaking ==
    /\ IsInjective(batched)
    /\ arrived = SubSeq(arrived, 1, Len(batched)) \o requestQueue
    /\ Range(batched) = Range(SubSeq(arrived, 1, Len(batched)))
    /\ \A r \in Range(batched) :
         LET overtaking == {s \in Range(batched) :
                 Place(s, batched) < Place(r, batched) /\ Place(s, arrived) > Place(r, arrived)}
         IN /\ Cardinality(overtaking) < BatchSize
            /\ \A s \in overtaking : Priority[s] > Priority[r]
=============================================================================
