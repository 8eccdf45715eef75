---------------------------- MODULE EdgeDeployment ----------------------------
(***************************************************************************)
(* src/pystreamai/edge_deployment.py: which quantization a device gets and *)
(* whether the model is reported to fit it, read off two tables, and the   *)
(* EdgeMonitoring of one device, which records inferences and decides      *)
(* whether the next ones should go to the cloud.  Latencies, which no      *)
(* decision reads, compilers and file names are left out.                  *)
(***************************************************************************)
EXTENDS SequencesExt

CONSTANTS MemoryUses,  \* megabytes used by an inference
          Batteries,   \* percents of battery left
          MaxSamples   \* bound: inferences recorded

EdgeAssumption ==
    /\ MemoryUses \subseteq Nat
    /\ Batteries \subseteq 0..100
    /\ MaxSamples \in Nat

VARIABLE samples   \* EdgeMonitoring.metrics

vars == <<samples>>

Init == samples = <<>>

\* record_inference.
RecordInference(memory, battery) ==
    /\ Len(samples) < MaxSamples
    /\ samples' = Append(samples, [memory |-> memory, battery |-> battery])

Next == \E memory \in MemoryUses, battery \in Batteries :
          RecordInference(memory, battery)

Spec == Init /\ [][Next]_vars

------------------------------------------------------------------------------
(* should_offload_to_cloud, which changes nothing.                         *)

\* A plausible bug: the level at which recording began.
FirstBattery == samples[1].battery

\* get_device_health: the battery level, and the sum whose average over all
\* inferences is the memory used.
Battery == Last(samples).battery
Memory  == FoldSeq(LAMBDA s, n : s.memory + n, 0, samples)

ShouldOffload ==
    samples # <<>> /\ (Battery < 20 \/ Memory > 800 * Len(samples))

------------------------------------------------------------------------------
(* EdgeDeploymentPipeline, for a model of 100 MB.                          *)

ModelSize == 100

Device(ram, max) == [ram |-> ram, max |-> max]

\* EdgeDeviceSpec.specs: memory, and the size of the largest model.
Specs == [raspberry_pi   |-> Device(2048, 50),
          jetson_nano    |-> Device(4096, 200),
          jetson_orin    |-> Device(16384, 2000),
          esp32          |-> Device(520, 1),
          mobile_ios     |-> Device(3000, 500),
          mobile_android |-> Device(4000, 500),
          browser_wasm   |-> Device(512, 50)]

\* prepare_model: the size after INT4, INT8 or FP16 quantization.
QuantizedSize(device) == CASE Specs[device].ram < 1024 -> 13
                           [] Specs[device].ram \in 1024..4095 -> 25
                           [] OTHER -> 50

\* model_size_ok of get_deployment_checklist.
SizeOk(device) == ModelSize <= Specs[device].max

------------------------------------------------------------------------------
(* Properties.                                                             *)

\* A device whose battery is low by now offloads, however it was before; so
\* does one whose every inference took more than 800 MB, and no other one does
\* unless some inference took that much.  The model it is given fits every
\* device but the ESP32, and with that every device that the checklist
\* accepts; and a device with less memory never gets the larger model.
EdgeAdviceSound ==
    /\ samples # <<>> /\ Last(samples).battery < 20 => ShouldOffload
    /\ ShouldOffload =>
         \/ Last(samples).battery < 20
         \/ \E i \in DOMAIN samples : samples[i].memory > 800
    /\ samples # <<>> /\ (\A i \in DOMAIN samples : samples[i].memory > 800)
         => ShouldOffload
    /\ \A d \in DOMAIN Specs :
         /\ QuantizedSize(d) <= Specs[d].max <=> d # "esp32"
         /\ SizeOk(d) => QuantizedSize(d) <= Specs[d].max
         /\ \A e \in DOMAIN Specs : Specs[d].ram <= Specs[e].ram
              => QuantizedSize(d) <= QuantizedSize(e)
==============================================================================
