------------------------------- MODULE MCParts -------------------------------
(* Model-checking instance of six components that keep their state to     *)
(* themselves.  A behaviour is one of one component, the focus; the others *)
(* keep an initial state, so that their sets of states add up.             *)
EXTENDS Timer, BootControl, Heap, Unsparse, Fastboot, Mblock, TLC

VARIABLE focus

NoImage == [chunks |-> <<>>, blk_sz |-> CHOOSE b \in BlockSizes : TRUE]

\* Both slots have booted.
SlotsInUse ==
  [magic |-> "AVB",
   slots |-> [s \in Slot |-> [priority |-> MaxPriority - s,
                              tries_remaining |-> 0,
                              successful_boot |-> TRUE]]]

PartsInit ==
  /\ focus \in {"timers", "slots", "heap", "sparse", "fastboot", "mblock"}
  /\ focus # "sparse" =>
       img = NoImage /\ package = CHOOSE p \in PackageSizes : TRUE
  /\ focus # "slots" =>
       misc = SlotsInUse /\ backup_v1 = FALSE
  /\ TimersInit /\ BootControlInit /\ HeapInit /\ UnsparseInit /\ FastbootInit
  /\ MblockInit

PartsNext ==
  /\ UNCHANGED focus
  /\ \/ /\ focus = "timers" /\ TimersNext
        /\ UNCHANGED <<bootctrl_vars, heap_vars, unsparse_vars,
                       fastboot_vars, mblock_vars>>
     \/ /\ focus = "slots" /\ BootControlNext
        /\ UNCHANGED <<timer_vars, heap_vars, unsparse_vars,
                       fastboot_vars, mblock_vars>>
     \/ /\ focus = "heap" /\ HeapNext
        /\ UNCHANGED <<timer_vars, bootctrl_vars, unsparse_vars,
                       fastboot_vars, mblock_vars>>
     \/ /\ focus = "sparse" /\ UnsparseNext
        /\ UNCHANGED <<timer_vars, bootctrl_vars, heap_vars,
                       fastboot_vars, mblock_vars>>
     \/ /\ focus = "fastboot" /\ FastbootNext
        /\ UNCHANGED <<timer_vars, bootctrl_vars, heap_vars,
                       unsparse_vars, mblock_vars>>
     \/ /\ focus = "mblock" /\ MblockNext
        /\ UNCHANGED <<timer_vars, bootctrl_vars, heap_vars,
                       unsparse_vars, fastboot_vars>>

parts_vars == <<focus, timer_vars, bootctrl_vars, heap_vars, unsparse_vars,
                fastboot_vars, mblock_vars>>

PartsSpec == PartsInit /\ [][PartsNext]_parts_vars

TimerSymmetry == Permutations(Timers)
=============================================================================
