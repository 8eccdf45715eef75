------------------------------ MODULE GPUAdvice ------------------------------
(***************************************************************************)
(* src/pystreamai/gpu.py: the optimizers of a MultiGPUInference, handed    *)
(* out in turn, and that of an InferenceOptimizationPlan.  Each remembers  *)
(* the TensorRT options enabled last and estimates a speedup from them.    *)
(* Speedups are in thousandths; tables of memory and batch sizes are left  *)
(* out.                                                                    *)
(***************************************************************************)
EXTENDS Naturals

CONSTANTS NumGPUs,    \* GPUs of the MultiGPUInference, numbered from 0
          GPUType,    \* the type of all of them
          MaxHanded   \* bound: how often a GPU is handed out

GPUAdviceAssumption ==
    /\ NumGPUs \in Nat \ {0}
    /\ GPUType \in STRING
    /\ MaxHanded \in Nat

VARIABLES
    enabled,    \* each optimizer's tensorrt_config: the options that are on
    currentGPU, \* current_gpu
    handed,     \* history: how often each GPU was handed out
    announced   \* history: the speedup announced when the plan was applied,
                \* until its optimizer's options are set again; 0 is none

vars == <<enabled, currentGPU, handed, announced>>

GPUs    == 0..NumGPUs-1
Plan    == NumGPUs       \* stands for the plan's own optimizer
Options == {"fp16", "int8", "sparsity"}

\* Structured sparsity is recommended on these types only.
Sparse == GPUType \in {"H100", "A100"}

Init ==
    /\ enabled = [o \in GPUs \cup {Plan} |-> {"fp16"}]
    /\ currentGPU = 0
    /\ handed = [g \in GPUs |-> 0]
    /\ announced = 0

\* enable_tensorrt on an optimizer that the application holds.
EnableTensorRT(o, options) ==
    /\ o \in {Plan} \cup {g \in GPUs : handed[g] > 0}
    /\ enabled' = [enabled EXCEPT ![o] = options]
    /\ announced' = IF o = Plan THEN 0 ELSE announced
    /\ UNCHANGED <<currentGPU, handed>>

\* A plausible bug: the first GPU is left out from the second turn on.
NextGPUButFirst ==
    /\ handed[currentGPU] < MaxHanded
    /\ handed' = [handed EXCEPT ![currentGPU] = @ + 1]
    /\ currentGPU' = IF currentGPU + 1 < NumGPUs THEN currentGPU + 1 ELSE 1 % NumGPUs
    /\ UNCHANGED <<enabled, announced>>

\* next_gpu.
NextGPU ==
    /\ handed[currentGPU] < MaxHanded
    /\ handed' = [handed EXCEPT ![currentGPU] = @ + 1]
    /\ currentGPU' = (currentGPU + 1) % NumGPUs
    /\ UNCHANGED <<enabled, announced>>

\* get_expected_speedup.
Speedup(options) == (IF "fp16" \in options THEN 15 ELSE 10)
                    * (IF "int8" \in options THEN 25 ELSE 10)
                    * (IF "sparsity" \in options THEN 12 ELSE 10)

\* total_speedup of recommend: the product over the steps.
TotalSpeedup == 15 * 25 * (IF Sparse THEN 12 ELSE 10)

\* recommend: of the steps that it lists the first is enabled, and what else
\* was enabled is not any more.
Recommend ==
    /\ enabled' = [enabled EXCEPT ![Plan] = {"fp16"}]
    /\ announced' = 0
    /\ UNCHANGED <<currentGPU, handed>>

\* apply: recommend, and the total speedup in its report.
Apply ==
    /\ enabled' = [enabled EXCEPT ![Plan] = {"fp16"}]
    /\ announced' = TotalSpeedup
    /\ UNCHANGED <<currentGPU, handed>>

Next == \/ \E o \in GPUs \cup {Plan}, options \in SUBSET Options :
             EnableTensorRT(o, options)
        \/ NextGPU
        \/ Recommend
        \/ Apply

Spec == Init /\ [][Next]_vars

------------------------------------------------------------------------------
(* Properties.                                                             *)

\* The GPUs take turns: whatever else is called between, none is handed out
\* twice more than another, and the next is one of those handed out least.
GPUsInTurn ==
    /\ \A g, k \in GPUs : handed[g] <= handed[k] + 1
    /\ \A g \in GPUs : handed[currentGPU] <= handed[g]

\* "Apply optimization plan", line 205, applies the first step only: until its
\* options are set again, the plan's optimizer expects less than half of the
\* speedup that was announced.
AppliedFallsShort == announced # 0 => 2 * Speedup(enabled[Plan]) < announced
=============================================================================
