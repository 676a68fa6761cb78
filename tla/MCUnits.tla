---------------------------------- MODULE MCUnits ----------------------------------
(***************************************************************************)
(* The units that run beside the executor and share nothing with it or     *)
(* with each other: the caches, the pipeline model, the parallel units,    *)
(* the checkpoint manager and the kernels, and with them the devices, of   *)
(* which the executor uses the methods.  A behaviour exercises one of      *)
(* them, named by unit, and leaves the others as they were constructed, so *)
(* that one run of TLC covers the sum of their state spaces and not the    *)
(* product.                                                                *)
(***************************************************************************)
EXTENDS CacheHierarchy, Pipeline, Parallel, Checkpoints, Kernels, Peripherals

VARIABLE unit

\* One set of two ways, in which a line can grow old while it is hit, one set of
\* one way, and two sets of two ways.
MCCacheConfigs ==
    << [sets |-> 1, ways |-> 2, hit |-> 1, miss |-> 10],
       [sets |-> 1, ways |-> 1, hit |-> 4, miss |-> 20],
       [sets |-> 2, ways |-> 2, hit |-> 12, miss |-> 40] >>

Width(ooo, n) == [out_of_order |-> ooo, issue_width |-> n, branch_prediction |-> TRUE]

MCPipelineConfigs == {Width(TRUE, 1), Width(TRUE, 2), Width(FALSE, 1)}

MCStalls == {0, 1, 2}
MCValues == {0, 1}

MCDecode == [w \in Word |-> nop]
MCContents == {[l \in Lane |-> l + 1], [l \in Lane |-> (2 * l * l) % 7]}

--------------------------------------------------------------------------------
\* What the idle units were constructed with does not matter.
Init ==
    /\ unit \in {"cache", "pipeline", "parallel", "checkpoints", "kernels", "uart", "timer"}
    /\ CacheInit /\ PipelineInit /\ ParallelInit /\ CheckpointInit
    /\ KernelInit /\ PeripheralInit
    /\ unit # "pipeline" => cfg = Width(TRUE, 1)
    /\ unit # "checkpoints" => guest = [regs |-> 0, rest |-> 0, mem |-> 0] /\ max_history = 2
    /\ unit # "kernels" => vr = [r \in Registers |-> [l \in Lane |-> l + 1]]

Next ==
    \/ /\ unit = "cache" /\ CacheNext
       /\ UNCHANGED <<unit, pipeline_vars, parallel_vars, checkpoint_vars, kernel_vars,
                      peripheral_vars>>
    \/ /\ unit = "pipeline" /\ PipelineNext
       /\ UNCHANGED <<unit, cache_vars, parallel_vars, checkpoint_vars, kernel_vars,
                      peripheral_vars>>
    \/ /\ unit = "parallel" /\ ParallelNext
       /\ UNCHANGED <<unit, cache_vars, pipeline_vars, checkpoint_vars, kernel_vars,
                      peripheral_vars>>
    \/ /\ unit = "checkpoints" /\ CheckpointNext
       /\ UNCHANGED <<unit, cache_vars, pipeline_vars, parallel_vars, kernel_vars,
                      peripheral_vars>>
    \/ /\ unit = "kernels" /\ KernelNext
       /\ UNCHANGED <<unit, cache_vars, pipeline_vars, parallel_vars, checkpoint_vars,
                      peripheral_vars>>
    \/ /\ \/ unit = "uart" /\ UartNext
          \/ unit = "timer" /\ TimerNext
       /\ UNCHANGED <<unit, cache_vars, pipeline_vars, parallel_vars, checkpoint_vars, kernel_vars>>

vars ==
    <<unit, cache_vars, pipeline_vars, parallel_vars, checkpoint_vars, kernel_vars,
      peripheral_vars>>

Spec == Init /\ [][Next]_vars

\* Type invariant of the units.
UnitsTypeOK ==
    /\ CacheTypeOK /\ PipelineTypeOK /\ ParallelTypeOK /\ CheckpointTypeOK
    /\ KernelTypeOK /\ PeripheralTypeOK
================================================================================
