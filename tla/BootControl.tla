----------------------------- MODULE BootControl -----------------------------
(***************************************************************************)
(* The metadata of the two slots (platform/common/bootctrl/2.0) across     *)
(* reboots: the 32 bytes of the misc partition that hold it, its cached    *)
(* copy, the boot region the chip starts from, and the part of the A/B     *)
(* flow of libavb that chooses what to boot.  Power may be lost before     *)
(* every write.                                                            *)
(*                                                                         *)
(* The first 8 bytes hold the magic number, the rest the slots; the old    *)
(* format ("V1") lies in the first 8 bytes only.  The preloader and the    *)
(* system are external; what they do is taken from                         *)
(* load_vfy_boot_ab.c:460 and avb_ab_mark_slot_successful.                 *)
(***************************************************************************)
EXTENDS Integers

CONSTANTS
  MaxPriority,    \* AVB_AB_MAX_PRIORITY
  MaxTries,       \* AVB_AB_MAX_TRIES_REMAINING
  NoSlot          \* none of the two

ASSUME BootControlAssumption ==
  /\ MaxPriority \in Nat \ {0, 1}
  /\ MaxTries \in Nat \ {0, 1}
  /\ NoSlot \notin {0, 1}

VARIABLES
  misc,              \* the metadata in the misc partition
  backup_v1,         \* a copy in the old format lies 32 bytes further
  boot_part,         \* the slot whose boot region the chip starts from
  metadata_saved, metadata_read,
  activating,        \* the argument of a set_active_slot that runs
  metadata,          \* its local of that name
  step,              \* what set_active_slot or load_vfy_boot does next
  booted,            \* the slot whose kernel runs
  activation         \* history: how the last set_active_slot ended

persistent_vars == <<misc, backup_v1, boot_part>>
cache_vars == <<metadata_saved, metadata_read>>
set_active_vars == <<activating, step, metadata>>
bootctrl_vars == <<persistent_vars, cache_vars, set_active_vars, booted,
                   activation>>

Slot == {0, 1}
other(s) == 1 - s

SlotData == [priority : 0..MaxPriority, tries_remaining : 0..MaxTries,
             successful_boot : BOOLEAN]
Metadata == [magic : {"AVB", "V1"}, slots : [Slot -> SlotData]]

NoMetadata == [magic |-> "none",
               slots |-> [s \in Slot |->
                 [priority |-> 0, tries_remaining |-> 0,
                  successful_boot |-> FALSE]]]

\* get_suffix, from the metadata it has read: slot 0 if that is in another
\* format, else the one with the higher priority.
get_suffix(md) ==
  IF md.magic = "AVB" /\ md.slots[0].priority < md.slots[1].priority
  THEN 1 ELSE 0

slot_is_bootable(slot) ==
  slot.priority > 0 /\ (slot.successful_boot \/ slot.tries_remaining > 0)

\* External: the preloader takes a try from a slot not known to boot.
preloader(md) ==
  LET s == get_suffix(md)
  IN  IF /\ md.magic = "AVB" /\ slot_is_bootable(md.slots[s])
         /\ ~md.slots[s].successful_boot
      THEN [md EXCEPT !.slots[s].tries_remaining = @ - 1] ELSE md

\* LK begins on a device that had been left in order: the region is that of
\* the slot.
BootControlInit ==
  /\ \E md \in Metadata :
       /\ md.magic = "V1" => md.slots = NoMetadata.slots
       /\ misc = preloader(md)
       /\ boot_part = get_suffix(md)
  /\ backup_v1 \in BOOLEAN
  /\ metadata_saved = NoMetadata /\ metadata_read = FALSE
  /\ activating = NoSlot /\ step = "none" /\ metadata = NoMetadata
  /\ booted = NoSlot
  /\ activation = "done"

\* LK runs, in no function of this module.
InLK == step = "none" /\ booted = NoSlot

-----------------------------------------------------------------------------
(* Reading and writing.                                                    *)

CacheUsed == metadata_read /\ metadata_saved.magic = "AVB"

\* read_write_partition_info(READ_PARTITION) returns md, and the partition is
\* read only if the cache does not hold metadata in the AVB format.
ReadInfo(md) ==
  IF CacheUsed
  THEN md = metadata_saved /\ UNCHANGED cache_vars
  ELSE /\ md = misc
       /\ metadata_saved' = misc /\ metadata_read' = TRUE

ReadFails == ~CacheUsed /\ UNCHANGED cache_vars

\* A successful WRITE_PARTITION.
write_info(md) ==
  /\ misc' = md
  /\ metadata_read' = FALSE
  /\ UNCHANGED metadata_saved

\* get_suffix, get_retry_count, get_bootup_status or get_bootable_status: a
\* read of which only the cache keeps a trace.
Query ==
  /\ InLK
  /\ \/ \E md \in {misc, metadata_saved} : ReadInfo(md)
     \/ ReadFails
  /\ UNCHANGED <<persistent_vars, set_active_vars, booted, activation>>

-----------------------------------------------------------------------------
(* set_active_slot                                                         *)

\* Variant: the other slot keeps its priority.
activate_alone(md, s) ==
  [magic |-> "AVB",
   slots |-> [md.slots EXCEPT ![s] =
     [priority |-> MaxPriority, tries_remaining |-> MaxTries,
      successful_boot |-> FALSE]]]

\* The metadata that makes s the active slot.
activate(md, s) ==
  [magic |-> "AVB",
   slots |-> [t \in Slot |->
     IF t = s
     THEN [priority |-> MaxPriority, tries_remaining |-> MaxTries,
           successful_boot |-> FALSE]
     ELSE IF md.slots[t].priority = MaxPriority
     THEN [md.slots[t] EXCEPT !.priority = MaxPriority - 1]
     ELSE md.slots[t]]]

SetActiveBegin(s) ==
  /\ InLK
  /\ \E md \in {misc, metadata_saved} :
       ReadInfo(md) /\ metadata' = activate(md, s)
  /\ activating' = s
  /\ step' = IF s = 1 THEN "restore" ELSE "region"
  /\ UNCHANGED <<persistent_vars, booted, activation>>

\* set_active_slot returns: 0 if ok, -1 if not.
returns ==
  activating' = NoSlot /\ step' = "none" /\ metadata' = NoMetadata

\* set_boot_region(1) first puts the old format back over the magic number.
\* Whether reading the copy or this write failed is not looked at: the copy
\* is then what the stack holds.
SetActiveRestore ==
  /\ step = "restore"
  /\ \E read, found, wrote \in BOOLEAN :
       /\ read => found = backup_v1
       /\ misc' = IF found /\ wrote THEN [misc EXCEPT !.magic = "V1"] ELSE misc
  /\ step' = "region"
  /\ UNCHANGED <<backup_v1, boot_part, cache_vars, activating, metadata, booted,
                 activation>>

\* Variant: the numbers of the two regions are swapped.
region_swapped ==
  /\ boot_part' = other(activating)
  /\ step' = "write"
  /\ UNCHANGED <<activating, metadata, activation>>

region_switched ==
  /\ boot_part' = activating
  /\ step' = "write"
  /\ UNCHANGED <<activating, metadata, activation>>

\* An error of mmc_set_boot_part or ufs_aio_set_boot_lu, which may come after
\* the device has switched.  Only a negative one ends the call; those of the
\* eMMC (MMC_ERR_*) and the response codes of UFS are positive.
region_failed ==
  /\ boot_part' \in {boot_part, activating}
  /\ \/ returns /\ activation' = "torn"
     \/ step' = "write_unswitched"
        /\ UNCHANGED <<activating, metadata, activation>>

SetActiveRegion ==
  /\ step = "region"
  /\ region_switched \/ region_failed
  /\ UNCHANGED <<misc, backup_v1, cache_vars, booted>>

\* set_active_slot returns 0 if the write succeeds, whatever the switch did.
SetActiveWrite ==
  /\ step \in {"write", "write_unswitched"}
  /\ \/ /\ write_info(metadata)
        /\ activation' = IF step = "write" THEN "done" ELSE "unswitched"
     \/ UNCHANGED <<misc, cache_vars>> /\ activation' = "torn"
  /\ returns
  /\ UNCHANGED <<backup_v1, boot_part, booted>>

-----------------------------------------------------------------------------
(* Booting.                                                                *)

\* A slot that is tried gets one try more, up to the most there can be.
one_more_try(slot) ==
  IF /\ slot.tries_remaining \in 1..(MaxTries - 1)
     /\ ~slot.successful_boot
  THEN [slot EXCEPT !.tries_remaining = @ + 1] ELSE slot

\* load_vfy_boot calls increase_tries_remaining, whatever the format of the
\* metadata and whatever comes of it.  It reads twice; get_suffix takes slot 0
\* if the first read fails.
IncreaseTriesRemaining ==
  /\ InLK
  /\ step' = "flow"
  /\ \/ \E md \in {misc, metadata_saved} :
          /\ ReadInfo(md)
          /\ UNCHANGED misc       \* the write failed
     \/ \E md \in {misc, metadata_saved}, s \in Slot :
          /\ CacheUsed => md = metadata_saved /\ s = get_suffix(md)
          /\ ~CacheUsed => md = misc /\ s \in {0, get_suffix(md)}
          /\ misc' = [md EXCEPT !.slots[s] = one_more_try(@)]
          /\ metadata_saved' = md /\ metadata_read' = FALSE
     \/ ReadFails /\ UNCHANGED misc
  /\ UNCHANGED <<backup_v1, boot_part, activating, metadata, booted,
                 activation>>

unbootable == NoMetadata.slots[0]

slot_normalize(slot) ==
  IF slot.priority > 0 /\ (slot.successful_boot <=> slot.tries_remaining = 0)
  THEN slot ELSE unbootable

\* avb_ab_data_read: of metadata in another format only slot 0 is bootable.
avb_ab_data_read ==
  IF misc.magic = "AVB" THEN misc.slots
  ELSE [s \in Slot |->
          IF s = 0 THEN [priority |-> MaxPriority, tries_remaining |-> MaxTries,
                         successful_boot |-> FALSE]
          ELSE unbootable]

\* avb_ab_data_write: nothing is written.
avb_ab_data_write(slots) == UNCHANGED misc

\* load_vfy_boot then calls avb_ab_flow: the slots in verified pass
\* verification; the best of them is booted and has one try less.  If there
\* is none, nothing is loaded and only a reset is left: on an unlocked device
\* load_vfy_boot overrides the verdict, and boot_post_processing then fails.
AvbAbFlow ==
  \E verified \in SUBSET Slot :
    LET loaded == [s \in Slot |-> slot_normalize(avb_ab_data_read[s])]
        slots  == [s \in Slot |-> IF s \in verified THEN loaded[s]
                                  ELSE unbootable]
        best(s) == /\ slot_is_bootable(slots[s])
                   /\ slot_is_bootable(slots[other(s)]) =>
                        \/ slots[s].priority > slots[other(s)].priority
                        \/ slots[s].priority = slots[other(s)].priority /\ s = 0
    IN  /\ step = "flow"
        /\ \/ \E s \in Slot :
                /\ best(s)
                /\ booted' = s /\ step' = "none"
                /\ avb_ab_data_write(
                     IF slots[s].successful_boot THEN slots
                     ELSE [slots EXCEPT ![s].tries_remaining = @ - 1])
           \/ /\ \A s \in Slot : ~slot_is_bootable(slots[s])
              /\ step' = "failed" /\ avb_ab_data_write(slots)
              /\ UNCHANGED booted
        /\ UNCHANGED <<backup_v1, boot_part, cache_vars, activating, metadata,
                       activation>>

\* External: the system that runs marks its slot successful.
marked_successful(slot) ==
  [priority |-> slot.priority, tries_remaining |-> 0, successful_boot |-> TRUE]

MarkSuccessful ==
  /\ booted # NoSlot
  /\ misc.magic = "AVB"
  /\ misc' = [misc EXCEPT !.slots[booted] = marked_successful(@)]
  /\ UNCHANGED <<backup_v1, boot_part, cache_vars, set_active_vars, booted,
                 activation>>

\* Reset or loss of power at any moment: only flash and region are kept.
Reboot ==
  /\ misc' = preloader(misc)
  /\ metadata_saved' = NoMetadata /\ metadata_read' = FALSE
  /\ returns
  /\ booted' = NoSlot
  /\ activation' = IF activating # NoSlot THEN "torn" ELSE activation
  /\ UNCHANGED <<backup_v1, boot_part>>

BootControlNext ==
  \/ Query
  \/ \E s \in Slot : SetActiveBegin(s)
  \/ SetActiveRestore \/ SetActiveRegion \/ SetActiveWrite
  \/ IncreaseTriesRemaining
  \/ AvbAbFlow
  \/ MarkSuccessful
  \/ Reboot

BootControlSpec == BootControlInit /\ [][BootControlNext]_bootctrl_vars

-----------------------------------------------------------------------------
(* Properties.                                                             *)

\* Every variable has its type: no priority or number of tries leaves its
\* range.
BootControlTypeOK ==
  /\ misc \in Metadata
  /\ metadata_saved \in Metadata \cup {NoMetadata} /\ metadata_read \in BOOLEAN
  /\ boot_part \in Slot /\ {activating, booted} \subseteq Slot \cup {NoSlot}
  /\ activating # NoSlot <=>
       step \in {"restore", "region", "write", "write_unswitched"}
  /\ step \in {"none", "restore", "region", "write", "write_unswitched",
               "flow", "failed"}
  /\ activation \in {"done", "unswitched", "torn"}

\* The copy that read_write_partition_info answers from holds the slots of
\* the partition whenever LK may ask for them.  (Its magic number may be out
\* of date, after a set_active_slot that put the old format back and failed.)
CacheHoldsSlots ==
  InLK /\ CacheUsed => metadata_saved.slots = misc.slots

\* Unless the last set_active_slot was cut short, by an error or by loss of
\* power, or went on after the switch of the region had failed, the chip
\* starts from the region of the slot the metadata names: nothing else
\* changes one without the other.
RegionFitsMetadata ==
  InLK /\ activation = "done" => boot_part = get_suffix(misc)

\* What holds of the metadata, its cached copy and the boot region after
\* every access.
BootControlInv ==
  BootControlTypeOK /\ CacheHoldsSlots /\ RegionFitsMetadata

\* When set_active_slot returns 0, LK and the A/B flow agree on the slot it
\* was given, and the slot is bootable, whatever earlier calls left behind.
\* The chip agrees if the switch of the region did not fail; a failure that
\* is a positive number goes unreported.
ActiveSlotTakes ==
  [][ ( /\ step \in {"write", "write_unswitched"} /\ step' = "none"
        /\ activation' # "torn" ) =>
       /\ get_suffix(misc') = activating
       /\ activation' = "done" => boot_part' = activating
       /\ misc'.slots[activating].priority
            > misc'.slots[other(activating)].priority
       /\ slot_is_bootable(misc'.slots[activating])]_bootctrl_vars
=============================================================================
