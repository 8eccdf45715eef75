------------------------------ MODULE Accounts ------------------------------
(***************************************************************************)
(* The parts of the package that keep an account of a limited resource and *)
(* share no state: pages of PagedAttention, buffers of MemoryPool, GPU     *)
(* memory of GPUMemoryPool, money of SpendManager, bytes of EmbeddingCache.*)
(* Each behaviour is one of one part, the others staying as created.       *)
(***************************************************************************)
EXTENDS Naturals, FiniteSets

CONSTANTS Requests, NumPages, PageSize, MaxTokens,
          Buffers, Sizes, MB, Word, LimitMB, None,
          Clients, Total, MaxAllocs, SizesMB,
          Workers, Costs, Budget, MaxCost, MaxDays, MaxMetrics,
          Texts, Bytes, MaxBytes, Keep

VARIABLES part,
          used, pages, lost,
          poolMB, buffers, largest,
          gpuMB, current, granted, largestMB,
          allowed, daily, day, metrics, blocked,
          cached, total

Paging == INSTANCE PagedAttention
Pool   == INSTANCE MemoryPool
GPU    == INSTANCE GPUMemoryPool
Spend  == INSTANCE SpendManager
Embed  == INSTANCE EmbeddingCache

ASSUME AccountsAssumption ==
    /\ Paging!PagesAssumption
    /\ Pool!PoolAssumption
    /\ GPU!GPUAssumption
    /\ Spend!SpendAssumption
    /\ Embed!EmbeddingAssumption

pageVars  == <<used, pages, lost>>
poolVars  == <<poolMB, buffers, largest>>
gpuVars   == <<gpuMB, current, granted, largestMB>>
spendVars == <<allowed, daily, day, metrics, blocked>>
embedVars == <<cached, total>>
vars      == <<part, pageVars, poolVars, gpuVars, spendVars, embedVars>>

Init ==
    /\ part \in {"pages", "pool", "gpu", "spend", "embed"}
    /\ Paging!Init
    /\ Pool!Init
    /\ GPU!Init
    /\ Spend!Init
    /\ Embed!Init

PagesStep == /\ part = "pages"
             /\ Paging!Next
             /\ UNCHANGED <<part, poolVars, gpuVars, spendVars, embedVars>>

PoolStep == /\ part = "pool"
            /\ Pool!Next
            /\ UNCHANGED <<part, pageVars, gpuVars, spendVars, embedVars>>

GPUStep == /\ part = "gpu"
           /\ GPU!Next
           /\ UNCHANGED <<part, pageVars, poolVars, spendVars, embedVars>>

SpendStep == /\ part = "spend"
             /\ Spend!Next
             /\ UNCHANGED <<part, pageVars, poolVars, gpuVars, embedVars>>

EmbedStep == /\ part = "embed"
             /\ Embed!Next
             /\ UNCHANGED <<part, pageVars, poolVars, gpuVars, spendVars>>

Next == PagesStep \/ PoolStep \/ GPUStep \/ SpendStep \/ EmbedStep

Spec == Init /\ [][Next]_vars

------------------------------------------------------------------------------
(* Properties, stated in the modules of the parts.                         *)

\* No page is given to two requests at a time.
PagesOwnedOnce == Paging!PagesOwnedOnce

\* The pools of memory_manager.rs stay within their limits until a size that 32
\* bits cannot check is granted: MemoryPool counts at least what its buffers
\* take in whole megabytes, GPUMemoryPool exactly what its clients hold.
PoolsWithinLimit == Pool!PoolWithinLimit /\ GPU!GPUCountersExact

\* The embedding cache holds no more bytes than it counts, and counts no more
\* than its limit, through overwritten and evicted entries.
EmbeddingsWithinLimit == Embed!EmbeddingBytesBounded

\* Concurrent requests overspend the budget by one largest cost each at most,
\* and are blocked only while it is exceeded.
BudgetKept == Spend!BudgetKept
=============================================================================
