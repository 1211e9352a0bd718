------------------------------- MODULE BootProofs ------------------------------
(***************************************************************************)
(* Proofs about two components of the boot that keep their state to        *)
(* themselves: the metadata of the slots and the command loop of fastboot. *)
(***************************************************************************)
EXTENDS BootControl, Fastboot, TLAPS

-----------------------------------------------------------------------------
(* The slots.                                                              *)

\* What runs fits what it works on: set_active_slot runs in LK, and the
\* metadata it is going to write makes its slot the active one.
CallIsSound ==
  /\ booted # NoSlot => step = "none"
  /\ activating # NoSlot =>
       booted = NoSlot /\ \E md \in Metadata : metadata = activate(md, activating)
  /\ step = "write" => boot_part = activating

\* From the first read to the boot of a slot the cached copy has the slots of
\* the partition, and its magic number too unless a call was cut short.
CacheFollows ==
  /\ CacheUsed /\ booted = NoSlot /\ step \notin {"flow", "failed"} =>
       metadata_saved.slots = misc.slots
  /\ InLK /\ CacheUsed /\ activation # "torn" => metadata_saved = misc

\* The region is that of the slot the metadata names, whatever runs but a
\* set_active_slot.
RegionFollows ==
  activating = NoSlot /\ activation = "done" => boot_part = get_suffix(misc)

BootControlIInv ==
  BootControlTypeOK /\ CallIsSound /\ CacheFollows /\ RegionFollows

LEMMA SlotIsNoNoSlot == NoSlot \notin Slot /\ \A s \in Slot : s \in {0, 1}
  BY BootControlAssumption DEF Slot

\* What set_active_slot makes of any metadata names its slot, and that slot
\* can be booted.
LEMMA ActivateNames ==
  ASSUME NEW md \in Metadata, NEW s \in Slot
  PROVE  /\ activate(md, s) \in Metadata
         /\ get_suffix(activate(md, s)) = s
         /\ activate(md, s).slots[s].priority
              > activate(md, s).slots[other(s)].priority
         /\ slot_is_bootable(activate(md, s).slots[s])
  <1> DEFINE sl == activate(md, s).slots
  <1>1. md.slots \in [Slot -> SlotData] BY DEF Metadata
  <1>2. /\ activate(md, s).magic = "AVB"
        /\ sl = [t \in Slot |->
             IF t = s
             THEN [priority |-> MaxPriority, tries_remaining |-> MaxTries,
                   successful_boot |-> FALSE]
             ELSE IF md.slots[t].priority = MaxPriority
             THEN [md.slots[t] EXCEPT !.priority = MaxPriority - 1]
             ELSE md.slots[t]]
        /\ activate(md, s) = [magic |-> "AVB", slots |-> sl]
    BY DEF activate
  <1>3. \A t \in Slot : sl[t] \in SlotData
    <2> TAKE t \in Slot
    <2>1. md.slots[t] \in SlotData BY <1>1
    <2>2. CASE t = s
      BY <2>2, <1>2, BootControlAssumption DEF SlotData
    <2>3. CASE t # s /\ md.slots[t].priority = MaxPriority
      BY <2>1, <2>3, <1>2, BootControlAssumption DEF SlotData
    <2>4. CASE t # s /\ md.slots[t].priority # MaxPriority
      BY <2>1, <2>4, <1>2
    <2> QED BY <2>2, <2>3, <2>4
  <1>4. sl \in [Slot -> SlotData] BY <1>2, <1>3
  <1>5. activate(md, s) \in Metadata BY <1>2, <1>4 DEF Metadata
  <1>6. /\ sl[s].priority = MaxPriority /\ sl[s].tries_remaining = MaxTries
    BY <1>2
  <1>7. other(s) \in Slot /\ other(s) # s BY DEF Slot, other
  <1>8. sl[other(s)].priority < MaxPriority
    <2>1. md.slots[other(s)] \in SlotData BY <1>1, <1>7
    <2>2. CASE md.slots[other(s)].priority = MaxPriority
      <3>1. sl[other(s)] = [md.slots[other(s)] EXCEPT !.priority = MaxPriority - 1]
        BY <1>2, <1>7, <2>2
      <3>2. sl[other(s)].priority = MaxPriority - 1
        BY <2>1, <3>1 DEF SlotData
      <3> QED BY <3>2, BootControlAssumption
    <2>3. CASE md.slots[other(s)].priority # MaxPriority
      <3>1. sl[other(s)] = md.slots[other(s)]
        BY <1>2, <1>7, <2>3
      <3>2. sl[other(s)].priority \in 0..MaxPriority
        BY <2>1, <3>1 DEF SlotData
      <3> QED BY <2>3, <3>1, <3>2, BootControlAssumption
    <2> QED BY <2>2, <2>3
  <1>9. sl[other(s)].priority \in Nat
    BY <1>3, <1>7, BootControlAssumption DEF SlotData
  <1>10. get_suffix(activate(md, s)) = s
    <2>1. CASE s = 0 BY <2>1, <1>2, <1>6, <1>8, <1>9, BootControlAssumption DEF get_suffix, other
    <2>2. CASE s = 1 BY <2>2, <1>2, <1>6, <1>8, <1>9, BootControlAssumption DEF get_suffix, other
    <2> QED BY <2>1, <2>2 DEF Slot
  <1>11. slot_is_bootable(sl[s])
    BY <1>6, BootControlAssumption DEF slot_is_bootable
  <1> QED BY <1>5, <1>6, <1>8, <1>9, <1>10, <1>11, BootControlAssumption

\* A slot whose priority stays keeps its place.
LEMMA SlotReplaced ==
  ASSUME NEW md \in Metadata, NEW s \in Slot, NEW slot \in SlotData,
         slot.priority = md.slots[s].priority,
         NEW new, new = [md EXCEPT !.slots[s] = slot]
  PROVE  /\ new \in Metadata
         /\ get_suffix(new) = get_suffix(md)
  <1>1. md.slots \in [Slot -> SlotData] /\ md.magic \in {"AVB", "V1"}
        /\ md = [magic |-> md.magic, slots |-> md.slots]
    BY DEF Metadata
  <1>2. new.magic = md.magic /\ new.slots = [md.slots EXCEPT ![s] = slot]
        /\ new = [magic |-> new.magic, slots |-> new.slots]
    BY <1>1
  <1>3. new.slots \in [Slot -> SlotData] BY <1>1, <1>2
  <1>4. new \in Metadata BY <1>1, <1>2, <1>3 DEF Metadata
  <1>5. \A t \in Slot : new.slots[t].priority = md.slots[t].priority
    BY <1>1, <1>2
  <1> QED BY <1>2, <1>4, <1>5 DEF get_suffix, Slot

LEMMA PreloaderKeepsSuffix ==
  ASSUME NEW md \in Metadata
  PROVE  /\ preloader(md) \in Metadata
         /\ get_suffix(preloader(md)) = get_suffix(md)
  <1> DEFINE s == get_suffix(md)
             slot == [md.slots[s] EXCEPT !.tries_remaining = @ - 1]
             takes == /\ md.magic = "AVB" /\ slot_is_bootable(md.slots[s])
                      /\ ~md.slots[s].successful_boot
  <1>1. s \in Slot BY DEF get_suffix, Slot
  <1>2. md.slots[s] \in SlotData BY <1>1 DEF Metadata
  <1>3. CASE takes
    <2>1. slot \in SlotData /\ slot.priority = md.slots[s].priority
      BY <1>2, <1>3, BootControlAssumption DEF SlotData, slot_is_bootable
    <2>2. preloader(md) = [md EXCEPT !.slots[s] = slot]
      BY <1>1, <1>2, <1>3 DEF preloader, SlotData, Metadata
    <2> HIDE DEF slot
    <2> QED BY <2>1, <2>2, <1>1, SlotReplaced
  <1>4. CASE ~takes BY <1>4 DEF preloader
  <1> QED BY <1>3, <1>4

LEMMA OneMoreTryKeepsSuffix ==
  ASSUME NEW md \in Metadata, NEW s \in Slot,
         NEW new, new = [md EXCEPT !.slots[s] = one_more_try(@)]
  PROVE  new \in Metadata /\ get_suffix(new) = get_suffix(md)
  <1> DEFINE slot == one_more_try(md.slots[s])
  <1>1. md.slots[s] \in SlotData BY DEF Metadata
  <1>2. slot \in SlotData /\ slot.priority = md.slots[s].priority
    BY <1>1, BootControlAssumption DEF one_more_try, SlotData
  <1>3. new = [md EXCEPT !.slots[s] = slot] BY DEF Metadata
  <1> QED BY <1>2, <1>3, SlotReplaced

LEMMA MarkKeepsSuffix ==
  ASSUME NEW md \in Metadata, NEW s \in Slot, NEW new,
         new = [md EXCEPT !.slots[s] = marked_successful(@)]
  PROVE  new \in Metadata /\ get_suffix(new) = get_suffix(md)
  <1> DEFINE slot == marked_successful(md.slots[s])
  <1>1. md.slots[s] \in SlotData BY DEF Metadata
  <1>2. slot \in SlotData /\ slot.priority = md.slots[s].priority
    BY <1>1, BootControlAssumption DEF marked_successful, SlotData
  <1>3. new = [md EXCEPT !.slots[s] = slot] BY DEF Metadata
  <1> HIDE DEF slot
  <1> QED BY <1>2, <1>3, SlotReplaced

\* What a read returns is metadata, that of the partition while LK runs and
\* no call was cut short; and the cache holds what it returned.
LEMMA ReadReturns ==
  ASSUME BootControlTypeOK, CacheFollows, InLK,
         NEW md \in {misc, metadata_saved}, ReadInfo(md)
  PROVE  /\ md \in Metadata
         /\ metadata_saved' \in Metadata \cup {NoMetadata}
         /\ metadata_read' \in BOOLEAN
         /\ md.slots = misc.slots
         /\ activation # "torn" => md = misc
         /\ metadata_saved'.slots = misc.slots
         /\ activation # "torn" => metadata_saved' = misc
  <1>1. CASE CacheUsed
    <2>1. md = metadata_saved /\ metadata_saved' = metadata_saved
          /\ metadata_read' = metadata_read
      BY <1>1 DEF ReadInfo, cache_vars
    <2>2. metadata_saved.magic = "AVB" BY <1>1 DEF CacheUsed
    <2>3. md \in Metadata
      BY <2>1, <2>2 DEF BootControlTypeOK, NoMetadata
    <2>4. md.slots = misc.slots /\ (activation # "torn" => md = misc)
      BY <1>1, <2>1 DEF CacheFollows, InLK
    <2> QED BY <2>1, <2>3, <2>4 DEF BootControlTypeOK
  <1>2. CASE ~CacheUsed
    BY <1>2 DEF ReadInfo, BootControlTypeOK
  <1> QED BY <1>1, <1>2

LEMMA QueryKeeps ==
  ASSUME BootControlIInv, Query
  PROVE  BootControlIInv'
  <1> USE DEF BootControlIInv
  <1>1. InLK /\ UNCHANGED <<misc, backup_v1, boot_part, activating, metadata,
                            step, booted, activation>>
    BY DEF Query, persistent_vars, set_active_vars
  <1>2. /\ metadata_saved' \in Metadata \cup {NoMetadata}
        /\ metadata_read' \in BOOLEAN
        /\ CacheUsed' => metadata_saved'.slots = misc.slots
                         /\ (activation # "torn" => metadata_saved' = misc)
    <2>1. CASE \E md \in {misc, metadata_saved} : ReadInfo(md)
      BY <1>1, <2>1, ReadReturns
    <2>2. CASE ReadFails
      BY <1>1, <2>2 DEF ReadFails, cache_vars, BootControlTypeOK, CacheUsed
    <2> QED BY <2>1, <2>2 DEF Query
  <1>3. BootControlTypeOK' BY <1>1, <1>2 DEF BootControlTypeOK
  <1>4. CallIsSound' BY <1>1 DEF CallIsSound
  <1>5. CacheFollows' BY <1>1, <1>2 DEF CacheFollows, InLK
  <1>6. RegionFollows' BY <1>1 DEF RegionFollows
  <1> QED BY <1>3, <1>4, <1>5, <1>6

LEMMA SetActiveBeginKeeps ==
  ASSUME BootControlIInv, NEW s \in Slot, SetActiveBegin(s)
  PROVE  BootControlIInv'
  <1> USE DEF BootControlIInv
  <1>1. /\ InLK /\ activating' = s /\ s # NoSlot
        /\ step' \in {"restore", "region"}
        /\ UNCHANGED <<misc, backup_v1, boot_part, booted, activation>>
    BY SlotIsNoNoSlot DEF SetActiveBegin, persistent_vars
  <1>2. PICK md \in {misc, metadata_saved} :
               ReadInfo(md) /\ metadata' = activate(md, s)
    BY DEF SetActiveBegin
  <1>3. /\ md \in Metadata
        /\ metadata_saved' \in Metadata \cup {NoMetadata}
        /\ metadata_read' \in BOOLEAN
        /\ metadata_saved'.slots = misc.slots
    BY <1>1, <1>2, ReadReturns
  <1>4. BootControlTypeOK' BY <1>1, <1>3 DEF BootControlTypeOK
  <1>5. CallIsSound' BY <1>1, <1>2, <1>3 DEF CallIsSound, InLK
  <1>6. CacheFollows' BY <1>1, <1>3 DEF CacheFollows, InLK
  <1>7. RegionFollows' BY <1>1 DEF RegionFollows
  <1> QED BY <1>4, <1>5, <1>6, <1>7

LEMMA SetActiveRestoreKeeps ==
  ASSUME BootControlIInv, SetActiveRestore
  PROVE  BootControlIInv'
  <1> USE DEF BootControlIInv
  <1>1. /\ step = "restore" /\ step' = "region"
        /\ UNCHANGED <<backup_v1, boot_part, metadata_saved, metadata_read,
                       activating, metadata, booted, activation>>
        /\ misc' \in {misc, [misc EXCEPT !.magic = "V1"]}
    BY DEF SetActiveRestore, cache_vars
  <1>2. misc' \in Metadata /\ misc'.slots = misc.slots
    BY <1>1 DEF BootControlTypeOK, Metadata
  <1>3. activating # NoSlot BY <1>1 DEF BootControlTypeOK
  <1>4. BootControlTypeOK' BY <1>1, <1>2, <1>3 DEF BootControlTypeOK
  <1>5. CallIsSound' BY <1>1, <1>3 DEF CallIsSound
  <1>6. CacheFollows' BY <1>1, <1>2 DEF CacheFollows, InLK, CacheUsed
  <1>7. RegionFollows' BY <1>1, <1>3 DEF RegionFollows
  <1> QED BY <1>4, <1>5, <1>6, <1>7

LEMMA SetActiveRegionKeeps ==
  ASSUME BootControlIInv, SetActiveRegion
  PROVE  BootControlIInv'
  <1> USE DEF BootControlIInv
  <1>1. /\ step = "region"
        /\ UNCHANGED <<misc, backup_v1, metadata_saved, metadata_read, booted>>
    BY DEF SetActiveRegion, cache_vars
  <1>2. activating \in Slot /\ activating # NoSlot /\ booted = NoSlot
    BY <1>1 DEF BootControlTypeOK, CallIsSound
  <1>3. CASE region_switched
    <2>1. boot_part' = activating /\ step' = "write"
          /\ UNCHANGED <<activating, metadata, activation>>
      BY <1>3 DEF region_switched
    <2>2. BootControlTypeOK' BY <1>1, <1>2, <2>1 DEF BootControlTypeOK
    <2>3. CallIsSound' BY <1>1, <1>2, <2>1 DEF CallIsSound
    <2>4. CacheFollows' BY <1>1, <2>1 DEF CacheFollows, InLK, CacheUsed
    <2>5. RegionFollows' BY <1>2, <2>1 DEF RegionFollows
    <2> QED BY <2>2, <2>3, <2>4, <2>5
  <1>4. CASE region_failed
    <2>1. boot_part' \in Slot
      BY <1>2, <1>4 DEF region_failed, BootControlTypeOK
    <2>2. CASE returns /\ activation' = "torn"
      <3>1. activating' = NoSlot /\ step' = "none" BY <2>2 DEF returns
      <3>2. BootControlTypeOK' BY <1>1, <2>1, <2>2, <3>1 DEF BootControlTypeOK
      <3>3. CallIsSound' BY <1>1, <3>1 DEF CallIsSound
      <3>4. CacheFollows'
        BY <1>1, <1>2, <2>2, <3>1 DEF CacheFollows, InLK, CacheUsed
      <3>5. RegionFollows' BY <2>2 DEF RegionFollows
      <3> QED BY <3>2, <3>3, <3>4, <3>5
    <2>3. CASE step' = "write_unswitched"
               /\ UNCHANGED <<activating, metadata, activation>>
      <3>1. BootControlTypeOK' BY <1>1, <1>2, <2>1, <2>3 DEF BootControlTypeOK
      <3>2. CallIsSound' BY <1>1, <1>2, <2>3 DEF CallIsSound
      <3>3. CacheFollows' BY <1>1, <2>3 DEF CacheFollows, InLK, CacheUsed
      <3>4. RegionFollows' BY <1>2, <2>3 DEF RegionFollows
      <3> QED BY <3>1, <3>2, <3>3, <3>4
    <2> QED BY <1>4, <2>2, <2>3 DEF region_failed
  <1> QED BY <1>3, <1>4 DEF SetActiveRegion

\* The write after which the metadata names the slot.
LEMMA SetActiveWriteNames ==
  ASSUME BootControlIInv, SetActiveWrite, activation' # "torn"
  PROVE  /\ misc' \in Metadata /\ ~metadata_read'
         /\ get_suffix(misc') = activating
         /\ activation' = "done" => boot_part' = activating
         /\ misc'.slots[activating].priority
              > misc'.slots[other(activating)].priority
         /\ slot_is_bootable(misc'.slots[activating])
  <1>1. /\ step \in {"write", "write_unswitched"}
        /\ misc' = metadata /\ boot_part' = boot_part
        /\ metadata_read' = FALSE
        /\ activation' = "done" => step = "write"
    BY DEF SetActiveWrite, write_info
  <1>2. activating \in Slot /\ activating # NoSlot
    BY <1>1 DEF BootControlIInv, BootControlTypeOK
  <1>3. PICK md \in Metadata : metadata = activate(md, activating)
    BY <1>2 DEF BootControlIInv, CallIsSound
  <1>4. activation' = "done" => boot_part = activating
    BY <1>1 DEF BootControlIInv, CallIsSound
  <1> QED BY <1>1, <1>2, <1>3, <1>4, ActivateNames

LEMMA SetActiveWriteKeeps ==
  ASSUME BootControlIInv, SetActiveWrite
  PROVE  BootControlIInv'
  <1> USE DEF BootControlIInv
  <1>1. /\ step \in {"write", "write_unswitched"}
        /\ activating' = NoSlot /\ step' = "none"
        /\ UNCHANGED <<boot_part, booted>>
    BY DEF SetActiveWrite, returns
  <1>2. booted = NoSlot BY <1>1 DEF BootControlTypeOK, CallIsSound
  <1>3. CASE write_info(metadata)
             /\ activation' = IF step = "write" THEN "done" ELSE "unswitched"
    <2>1. /\ misc' \in Metadata /\ ~metadata_read'
          /\ activation' = "done" => get_suffix(misc') = boot_part'
      BY <1>3, SetActiveWriteNames
    <2>2. metadata_saved' = metadata_saved /\ metadata_read' = FALSE
      BY <1>3 DEF write_info
    <2>3. BootControlTypeOK' BY <1>1, <1>3, <2>1, <2>2 DEF BootControlTypeOK
    <2>4. CallIsSound' BY <1>1, <1>2 DEF CallIsSound
    <2>5. CacheFollows' BY <2>2 DEF CacheFollows, CacheUsed
    <2>6. RegionFollows' BY <2>1 DEF RegionFollows
    <2> QED BY <2>3, <2>4, <2>5, <2>6
  <1>4. CASE UNCHANGED <<misc, metadata_saved, metadata_read>> /\ activation' = "torn"
    <2>3. BootControlTypeOK' BY <1>1, <1>4 DEF BootControlTypeOK
    <2>4. CallIsSound' BY <1>1, <1>2 DEF CallIsSound
    <2>5. CacheFollows' BY <1>1, <1>2, <1>4 DEF CacheFollows, CacheUsed, InLK
    <2>6. RegionFollows' BY <1>4 DEF RegionFollows
    <2> QED BY <2>3, <2>4, <2>5, <2>6
  <1> QED BY <1>3, <1>4 DEF SetActiveWrite, cache_vars

LEMMA IncreaseTriesKeeps ==
  ASSUME BootControlIInv, IncreaseTriesRemaining
  PROVE  BootControlIInv'
  <1> USE DEF BootControlIInv
  <1>1. /\ InLK /\ step' = "flow"
        /\ UNCHANGED <<backup_v1, boot_part, activating, metadata, booted, activation>>
    BY DEF IncreaseTriesRemaining
  <1>2. activating = NoSlot /\ booted = NoSlot
    BY <1>1 DEF BootControlTypeOK, InLK
  <1>3. /\ misc' \in Metadata
        /\ metadata_saved' \in Metadata \cup {NoMetadata}
        /\ metadata_read' \in BOOLEAN
        /\ activation # "torn" => get_suffix(misc') = get_suffix(misc)
    <2>1. CASE \E md \in {misc, metadata_saved} : ReadInfo(md) /\ UNCHANGED misc
      BY <1>1, <2>1, ReadReturns DEF BootControlTypeOK
    <2>2. CASE \E md \in {misc, metadata_saved}, s \in Slot :
                 /\ CacheUsed => md = metadata_saved /\ s = get_suffix(md)
                 /\ ~CacheUsed => md = misc /\ s \in {0, get_suffix(md)}
                 /\ misc' = [md EXCEPT !.slots[s] = one_more_try(@)]
                 /\ metadata_saved' = md /\ metadata_read' = FALSE
      <3>1. PICK md \in {misc, metadata_saved}, s \in Slot :
                 /\ CacheUsed => md = metadata_saved
                 /\ ~CacheUsed => md = misc
                 /\ misc' = [md EXCEPT !.slots[s] = one_more_try(@)]
                 /\ metadata_saved' = md /\ metadata_read' = FALSE
        BY <2>2
      <3>2. md \in Metadata
        BY <3>1 DEF BootControlTypeOK, NoMetadata, CacheUsed
      <3>3. activation # "torn" => md = misc BY <1>1, <3>1 DEF CacheFollows
      <3>4. misc' \in Metadata /\ get_suffix(misc') = get_suffix(md)
        BY <3>1, <3>2, OneMoreTryKeepsSuffix
      <3> QED BY <3>1, <3>2, <3>3, <3>4
    <2>3. CASE ReadFails /\ UNCHANGED misc
      BY <2>3 DEF ReadFails, cache_vars, BootControlTypeOK
    <2> QED BY <2>1, <2>2, <2>3 DEF IncreaseTriesRemaining
  <1>4. BootControlTypeOK' BY <1>1, <1>2, <1>3 DEF BootControlTypeOK
  <1>5. CallIsSound' BY <1>1, <1>2 DEF CallIsSound
  <1>6. CacheFollows' BY <1>1 DEF CacheFollows, InLK
  <1>7. RegionFollows' BY <1>1, <1>2, <1>3 DEF RegionFollows
  <1> QED BY <1>4, <1>5, <1>6, <1>7

LEMMA AvbAbFlowKeeps ==
  ASSUME BootControlIInv, AvbAbFlow
  PROVE  BootControlIInv'
  <1> USE DEF BootControlIInv
  <1>1. /\ step = "flow"
        /\ UNCHANGED <<misc, boot_part, metadata_saved, metadata_read,
                       activating, activation>>
        /\ \/ booted' \in Slot /\ step' = "none"
           \/ booted' = booted /\ step' = "failed"
    BY DEF AvbAbFlow, avb_ab_data_write, cache_vars
  <1>2. activating = NoSlot /\ booted = NoSlot
    BY <1>1 DEF BootControlTypeOK, CallIsSound
  <1>3. BootControlTypeOK' BY <1>1, <1>2 DEF BootControlTypeOK
  <1>4. CallIsSound' BY <1>1, <1>2 DEF CallIsSound
  <1>5. CacheFollows' BY <1>1, SlotIsNoNoSlot DEF CacheFollows, InLK
  <1>6. RegionFollows' BY <1>1 DEF RegionFollows
  <1> QED BY <1>3, <1>4, <1>5, <1>6

LEMMA MarkSuccessfulKeeps ==
  ASSUME BootControlIInv, MarkSuccessful
  PROVE  BootControlIInv'
  <1> USE DEF BootControlIInv
  <1>1. /\ booted # NoSlot
        /\ misc' = [misc EXCEPT !.slots[booted] = marked_successful(@)]
        /\ UNCHANGED <<backup_v1, boot_part, metadata_saved, metadata_read,
                       activating, step, metadata, booted, activation>>
    BY DEF MarkSuccessful, cache_vars, set_active_vars
  <1>2. booted \in Slot /\ misc \in Metadata BY <1>1 DEF BootControlTypeOK
  <1>3. misc' \in Metadata /\ get_suffix(misc') = get_suffix(misc)
    BY <1>1, <1>2, MarkKeepsSuffix
  <1>4. BootControlTypeOK' BY <1>1, <1>3 DEF BootControlTypeOK
  <1>5. CallIsSound' BY <1>1 DEF CallIsSound
  <1>6. CacheFollows' BY <1>1 DEF CacheFollows, InLK
  <1>7. RegionFollows' BY <1>1, <1>3 DEF RegionFollows
  <1> QED BY <1>4, <1>5, <1>6, <1>7

LEMMA RebootKeeps ==
  ASSUME BootControlIInv, Reboot
  PROVE  BootControlIInv'
  <1> USE DEF BootControlIInv
  <1>1. /\ misc' = preloader(misc) /\ boot_part' = boot_part
        /\ metadata_saved' = NoMetadata /\ metadata_read' = FALSE
        /\ activating' = NoSlot /\ step' = "none" /\ booted' = NoSlot
        /\ activation' = IF activating # NoSlot THEN "torn" ELSE activation
    BY DEF Reboot, returns
  <1>2. misc' \in Metadata /\ get_suffix(misc') = get_suffix(misc)
    BY <1>1, PreloaderKeepsSuffix DEF BootControlTypeOK
  <1>3. BootControlTypeOK' BY <1>1, <1>2 DEF BootControlTypeOK
  <1>4. CallIsSound' BY <1>1 DEF CallIsSound
  <1>5. CacheFollows' BY <1>1 DEF CacheFollows, CacheUsed
  <1>6. RegionFollows' BY <1>1, <1>2 DEF RegionFollows
  <1> QED BY <1>3, <1>4, <1>5, <1>6

LEMMA BootControlStart ==
  ASSUME BootControlInit
  PROVE  BootControlIInv
  <1>1. PICK md \in Metadata : misc = preloader(md) /\ boot_part = get_suffix(md)
    BY DEF BootControlInit
  <1>2. misc \in Metadata /\ get_suffix(misc) = boot_part
    BY <1>1, PreloaderKeepsSuffix
  <1>3. boot_part \in Slot BY <1>1 DEF get_suffix, Slot
  <1>4. /\ metadata_saved = NoMetadata /\ metadata_read = FALSE
        /\ activating = NoSlot /\ step = "none" /\ booted = NoSlot
        /\ activation = "done"
    BY DEF BootControlInit
  <1>5. BootControlTypeOK BY <1>2, <1>3, <1>4 DEF BootControlTypeOK
  <1> QED
    BY <1>2, <1>4, <1>5
    DEF BootControlIInv, CallIsSound, CacheFollows, CacheUsed, RegionFollows

\* The slots keep the strengthened invariant.
LEMMA BootControlStep ==
  BootControlIInv /\ [BootControlNext]_bootctrl_vars => BootControlIInv'
  <1> SUFFICES ASSUME BootControlIInv, [BootControlNext]_bootctrl_vars
               PROVE  BootControlIInv'
    OBVIOUS
  <1>1. CASE UNCHANGED bootctrl_vars
    BY <1>1
    DEF bootctrl_vars, persistent_vars, cache_vars, set_active_vars,
        BootControlIInv, BootControlTypeOK, CallIsSound, CacheFollows,
        RegionFollows, CacheUsed, InLK
  <1> QED
    BY <1>1, QueryKeeps, SetActiveBeginKeeps, SetActiveRestoreKeeps,
       SetActiveRegionKeeps, SetActiveWriteKeeps, IncreaseTriesKeeps,
       AvbAbFlowKeeps, MarkSuccessfulKeeps, RebootKeeps
    DEF BootControlNext

LEMMA BootControlIsSafe == BootControlIInv => BootControlInv
  BY DEF BootControlIInv, BootControlInv, CacheFollows, CacheHoldsSlots, InLK,
         RegionFollows, RegionFitsMetadata, BootControlTypeOK

\* Whatever is queried, activated, booted or lost with the power, the metadata
\* keep their ranges, the cached copy those of the partition, and the region
\* that of the slot the metadata names unless the last set_active_slot was cut
\* short or went on after a failed switch.
THEOREM RegionFollowsSlots == BootControlSpec => []BootControlInv
  <1>1. BootControlInit => BootControlIInv BY BootControlStart
  <1>2. BootControlIInv /\ [BootControlNext]_bootctrl_vars => BootControlIInv'
    BY BootControlStep
  <1>3. BootControlIInv => BootControlInv BY BootControlIsSafe
  <1> QED BY <1>1, <1>2, <1>3, PTL DEF BootControlSpec

\* A set_active_slot that returns 0 has made its slot the one LK and the A/B
\* flow take, and the slot can be booted; the chip takes it too unless the
\* switch of the region failed with a positive number, which is not reported.
THEOREM SetActiveSlotTakes == BootControlSpec => ActiveSlotTakes
  <1>1. BootControlInit => BootControlIInv BY BootControlStart
  <1>2. BootControlIInv /\ [BootControlNext]_bootctrl_vars => BootControlIInv'
    BY BootControlStep
  <1> DEFINE A == ( /\ step \in {"write", "write_unswitched"}
                     /\ step' = "none" /\ activation' # "torn" ) =>
                    /\ get_suffix(misc') = activating
                    /\ activation' = "done" => boot_part' = activating
                    /\ misc'.slots[activating].priority
                         > misc'.slots[other(activating)].priority
                    /\ slot_is_bootable(misc'.slots[activating])
  <1>3. BootControlIInv /\ [BootControlNext]_bootctrl_vars => [A]_bootctrl_vars
    <2> SUFFICES ASSUME BootControlIInv, BootControlNext,
                        step \in {"write", "write_unswitched"},
                        step' = "none", activation' # "torn"
                 PROVE  A
      OBVIOUS
    <2>1. activating # NoSlot BY DEF BootControlIInv, BootControlTypeOK
    <2>2. CASE Reboot BY <2>1, <2>2 DEF Reboot
    <2>3. CASE SetActiveWrite BY <2>3, SetActiveWriteNames
    <2>4. CASE MarkSuccessful BY <2>4 DEF MarkSuccessful, BootControlIInv, CallIsSound
    <2> QED
      BY <2>2, <2>3, <2>4
      DEF BootControlNext, Query, InLK, SetActiveBegin, SetActiveRestore,
          SetActiveRegion, IncreaseTriesRemaining, AvbAbFlow
  <1> QED BY <1>1, <1>2, <1>3, PTL DEF BootControlSpec, ActiveSlotTakes

-----------------------------------------------------------------------------
(* Fastboot.                                                               *)

ThreadAt == {"handler", "offline", "loop", "check", "queue", "wait", "asleep",
             "done", "command"}

\* The request of the transaction has been completed and the thread has not
\* seen it.
Completed ==
  \/ txn_done = "signalled"
  \/ thread_at = "asleep" /\ txn_done # "awaited"

\* A completed request is with no endpoint any more.
CompletedIsGone == ~timed_out => (Completed => \A e \in Endpoint : ~ep_req[e])

\* While the host has had no answer it waits for one: from the moment its
\* command has come to the moment it takes the reply.
AnswerIsDue ==
  (~suspended /\ ~timed_out) =>
    /\ fastboot_state = "COMMAND" => asked
    /\ (txn = "command" /\ (thread_at = "done" \/ Completed)) => asked
    /\ (txn = "reply" /\ (thread_at \in {"check", "queue"} \/ ep_req["in"]))
         => asked

\* STATE_COMMAND is the state of a command's function before its answer.
CommandIsRunning ==
  fastboot_state = "COMMAND" =>
    /\ txn # "reply" /\ thread_at \notin {"handler", "offline", "loop"}
    /\ txn = "command" => thread_at = "command"

FastbootIInv ==
  /\ FastbootInv
  /\ NoStaleCompletion
  /\ thread_at \in ThreadAt
  /\ CompletedIsGone
  /\ AnswerIsDue
  /\ CommandIsRunning

LEMMA FastbootWaitOnline ==
  ASSUME FastbootIInv, WaitOnline
  PROVE  FastbootIInv'
  <1>1. FastbootTypeOK' /\ thread_at' \in ThreadAt
    BY DEF FastbootIInv, FastbootInv, FastbootTypeOK, ThreadAt, Event,
           WaitOnline, wait_event, same_txn, thread_frame, driver_vars
  <1>2. RequestNotShared' /\ NoStaleCompletion' /\ CompletedIsGone'
    BY DEF FastbootIInv, FastbootInv, RequestNotShared, NoStaleCompletion,
           CompletedIsGone, WaitOnline, thread_frame, driver_vars
  <1>3. AnswerIsDue'
    BY DEF FastbootIInv, Completed, AnswerIsDue, WaitOnline, same_txn,
           thread_frame, driver_vars
  <1>4. CommandIsRunning'
    BY DEF FastbootIInv, CommandIsRunning, WaitOnline
  <1> QED BY <1>1, <1>2, <1>3, <1>4 DEF FastbootIInv, FastbootInv

LEMMA FastbootCommandLoop ==
  ASSUME FastbootIInv, CommandLoop
  PROVE  FastbootIInv'
  <1>1. FastbootTypeOK' /\ thread_at' \in ThreadAt
    BY DEF FastbootIInv, FastbootInv, FastbootTypeOK, ThreadAt, Transaction,
           CommandLoop, thread_frame, same_txn, driver_vars, Begin
  <1>2. RequestNotShared' /\ NoStaleCompletion' /\ CompletedIsGone'
    BY DEF FastbootIInv, FastbootInv, RequestNotShared, NoStaleCompletion,
           CompletedIsGone, CommandLoop, thread_frame, driver_vars
  <1>3. AnswerIsDue'
    BY DEF FastbootIInv, NoStaleCompletion, Completed, AnswerIsDue,
           CommandLoop, thread_frame, same_txn, driver_vars, Begin
  <1>4. CommandIsRunning'
    BY DEF FastbootIInv, CommandIsRunning, CommandLoop
  <1> QED BY <1>1, <1>2, <1>3, <1>4 DEF FastbootIInv, FastbootInv

LEMMA FastbootCheck ==
  ASSUME FastbootIInv, Check
  PROVE  FastbootIInv'
  <1>1. FastbootTypeOK' /\ thread_at' \in ThreadAt
    BY DEF FastbootIInv, FastbootInv, FastbootTypeOK, ThreadAt, Check,
           thread_frame, same_txn, driver_vars, oops
  <1>2. RequestNotShared' /\ NoStaleCompletion' /\ CompletedIsGone'
    BY DEF FastbootIInv, FastbootInv, RequestNotShared, NoStaleCompletion,
           CompletedIsGone, Check, thread_frame, driver_vars
  <1>3. AnswerIsDue'
    BY DEF FastbootIInv, Completed, AnswerIsDue, Check, thread_frame, same_txn,
           oops
  <1>4. CommandIsRunning'
    BY DEF FastbootIInv, CommandIsRunning, Check, same_txn, oops
  <1> QED BY <1>1, <1>2, <1>3, <1>4 DEF FastbootIInv, FastbootInv

LEMMA FastbootQueue ==
  ASSUME FastbootIInv, Queue
  PROVE  FastbootIInv'
  <1>1. FastbootTypeOK' /\ thread_at' \in ThreadAt
    BY DEF FastbootIInv, FastbootInv, FastbootTypeOK, ThreadAt, Queue, same_txn
  <1>2. RequestNotShared' /\ NoStaleCompletion' /\ CompletedIsGone'
    BY DEF FastbootIInv, FastbootInv, RequestNotShared, NoStaleCompletion,
           CompletedIsGone, Completed, Queue, same_txn
  <1>3. AnswerIsDue'
    BY DEF FastbootIInv, Completed, AnswerIsDue, Queue, same_txn
  <1>4. CommandIsRunning'
    BY DEF FastbootIInv, CommandIsRunning, Queue, same_txn
  <1> QED BY <1>1, <1>2, <1>3, <1>4 DEF FastbootIInv, FastbootInv

LEMMA FastbootWaitDone ==
  ASSUME FastbootIInv, WaitDone
  PROVE  FastbootIInv'
  <1>1. FastbootTypeOK' /\ thread_at' \in ThreadAt
    BY DEF FastbootIInv, FastbootInv, FastbootTypeOK, ThreadAt, Event,
           WaitDone, wait_event, thread_frame, same_txn, driver_vars
  <1>2. RequestNotShared' /\ NoStaleCompletion' /\ CompletedIsGone'
    BY DEF FastbootIInv, FastbootInv, RequestNotShared, NoStaleCompletion,
           CompletedIsGone, Completed, WaitDone, wait_event, thread_frame,
           same_txn, driver_vars
  <1>3. AnswerIsDue'
    BY DEF FastbootIInv, Completed, AnswerIsDue, WaitDone, wait_event,
           thread_frame, same_txn, driver_vars
  <1>4. CommandIsRunning'
    BY DEF FastbootIInv, CommandIsRunning, WaitDone, same_txn
  <1> QED BY <1>1, <1>2, <1>3, <1>4 DEF FastbootIInv, FastbootInv

LEMMA FastbootTimeOutWrite ==
  ASSUME FastbootIInv, TimeOutWrite
  PROVE  FastbootIInv'
  <1>1. FastbootTypeOK' /\ thread_at' \in ThreadAt
    BY DEF FastbootIInv, FastbootInv, FastbootTypeOK, ThreadAt, Event,
           TimeOutWrite, oops, thread_frame, same_txn, driver_vars
  <1>2. RequestNotShared' /\ NoStaleCompletion' /\ CompletedIsGone'
    BY DEF FastbootIInv, FastbootInv, RequestNotShared, NoStaleCompletion,
           CompletedIsGone, TimeOutWrite, thread_frame, driver_vars
  <1>3. AnswerIsDue'
    BY DEF Completed, endpoint, AnswerIsDue, TimeOutWrite, oops, thread_frame,
           same_txn, driver_vars
  <1>4. CommandIsRunning'
    BY DEF CommandIsRunning, TimeOutWrite, oops
  <1> QED BY <1>1, <1>2, <1>3, <1>4 DEF FastbootIInv, FastbootInv

LEMMA FastbootTransactionDone ==
  ASSUME FastbootIInv, TransactionDone
  PROVE  FastbootIInv'
  <1>1. FastbootTypeOK' /\ thread_at' \in ThreadAt
    BY DEF FastbootIInv, FastbootInv, FastbootTypeOK, ThreadAt, Transaction,
           TransactionDone, oops, succeeds, Begin, thread_frame, same_txn,
           driver_vars
  <1>2. RequestNotShared' /\ NoStaleCompletion' /\ CompletedIsGone'
    BY DEF FastbootIInv, FastbootInv, RequestNotShared, NoStaleCompletion,
           CompletedIsGone, TransactionDone, thread_frame, driver_vars
  <1>3. AnswerIsDue'
    BY DEF FastbootIInv, AnswerIsDue, TransactionDone, oops, succeeds, Begin,
           thread_frame, same_txn, driver_vars
  <1>4. CommandIsRunning'
    BY DEF FastbootIInv, CommandIsRunning, TransactionDone, oops, succeeds,
           Begin, same_txn
  <1> QED BY <1>1, <1>2, <1>3, <1>4 DEF FastbootIInv, FastbootInv

LEMMA FastbootAnswer ==
  ASSUME FastbootIInv, NEW t \in {"info", "reply"}, Answer(t)
  PROVE  FastbootIInv'
  <1>1. FastbootTypeOK' /\ thread_at' \in ThreadAt
    BY DEF FastbootIInv, FastbootInv, FastbootTypeOK, ThreadAt, Transaction,
           Answer, ack, Begin, thread_frame, driver_vars
  <1>2. RequestNotShared' /\ NoStaleCompletion' /\ CompletedIsGone'
    BY DEF FastbootIInv, FastbootInv, RequestNotShared, NoStaleCompletion,
           CompletedIsGone, Answer, thread_frame, driver_vars
  <1>3. AnswerIsDue'
    BY DEF FastbootIInv, AnswerIsDue, Answer, thread_frame
  <1>4. CommandIsRunning'
    BY DEF CommandIsRunning, Answer, ack, Begin
  <1> QED BY <1>1, <1>2, <1>3, <1>4 DEF FastbootIInv, FastbootInv

LEMMA FastbootDownload ==
  ASSUME FastbootIInv, Download
  PROVE  FastbootIInv'
  <1>1. FastbootTypeOK' /\ thread_at' \in ThreadAt
    BY DEF FastbootIInv, FastbootInv, FastbootTypeOK, ThreadAt, Transaction,
           Download, Begin, thread_frame, driver_vars
  <1>2. RequestNotShared' /\ NoStaleCompletion' /\ CompletedIsGone'
    BY DEF FastbootIInv, FastbootInv, RequestNotShared, NoStaleCompletion,
           CompletedIsGone, Download, thread_frame, driver_vars
  <1>3. AnswerIsDue'
    BY DEF FastbootIInv, AnswerIsDue, Download, thread_frame
  <1>4. CommandIsRunning'
    BY DEF CommandIsRunning, Download, Begin
  <1> QED BY <1>1, <1>2, <1>3, <1>4 DEF FastbootIInv, FastbootInv

LEMMA FastbootCommandReturns ==
  ASSUME FastbootIInv, CommandReturns
  PROVE  FastbootIInv'
  <1>1. FastbootTypeOK' /\ thread_at' \in ThreadAt
    BY DEF FastbootIInv, FastbootInv, FastbootTypeOK, ThreadAt, CommandReturns,
           thread_frame, same_txn, driver_vars
  <1>2. RequestNotShared' /\ NoStaleCompletion' /\ CompletedIsGone'
    BY DEF FastbootIInv, FastbootInv, RequestNotShared, NoStaleCompletion,
           CompletedIsGone, CommandReturns, thread_frame, driver_vars
  <1>3. AnswerIsDue'
    BY DEF FastbootIInv, Completed, AnswerIsDue, CommandReturns, thread_frame,
           same_txn, driver_vars
  <1>4. CommandIsRunning'
    BY DEF CommandIsRunning, CommandReturns
  <1> QED BY <1>1, <1>2, <1>3, <1>4 DEF FastbootIInv, FastbootInv

LEMMA FastbootHostTransfers ==
  ASSUME FastbootIInv, NEW x \in Endpoint, HostTransfers(x)
  PROVE  FastbootIInv'
  <1>1. FastbootTypeOK' /\ thread_at' \in ThreadAt
    BY DEF FastbootIInv, FastbootInv, FastbootTypeOK, Event, HostTransfers,
           complete, without_requests, signal_event
  <1>2. RequestNotShared' /\ NoStaleCompletion' /\ CompletedIsGone'
    BY DEF FastbootIInv, FastbootInv, Endpoint, RequestNotShared,
           NoStaleCompletion, CompletedIsGone, Completed, HostTransfers,
           complete, without_requests, signal_event
  <1>3. AnswerIsDue'
    BY DEF FastbootIInv, FastbootInv, RequestNotShared, endpoint, AnswerIsDue,
           CommandIsRunning, HostTransfers, complete, without_requests
  <1>4. CommandIsRunning'
    BY DEF FastbootIInv, CommandIsRunning, HostTransfers
  <1> QED BY <1>1, <1>2, <1>3, <1>4 DEF FastbootIInv, FastbootInv

LEMMA FastbootHostStalls ==
  ASSUME FastbootIInv, HostStalls
  PROVE  FastbootIInv'
  <1>1. FastbootTypeOK' /\ thread_at' \in ThreadAt
    BY DEF FastbootIInv, FastbootInv, FastbootTypeOK, Event, HostStalls,
           complete, without_requests, signal_event
  <1>2. RequestNotShared' /\ NoStaleCompletion' /\ CompletedIsGone'
    BY DEF FastbootIInv, FastbootInv, Endpoint, RequestNotShared,
           NoStaleCompletion, CompletedIsGone, Completed, HostStalls, complete,
           without_requests, signal_event
  <1>3. AnswerIsDue'
    BY DEF FastbootIInv, FastbootInv, Endpoint, RequestNotShared, endpoint,
           AnswerIsDue, HostStalls
  <1>4. CommandIsRunning'
    BY DEF FastbootIInv, CommandIsRunning, HostStalls
  <1> QED BY <1>1, <1>2, <1>3, <1>4 DEF FastbootIInv, FastbootInv

LEMMA FastbootSuspend ==
  ASSUME FastbootIInv, Suspend
  PROVE  FastbootIInv'
  <1>1. FastbootTypeOK' /\ thread_at' \in ThreadAt
    BY DEF FastbootIInv, FastbootInv, FastbootTypeOK, Event, Suspend, complete,
           without_requests, unsignal_event, signal_event, status_after_suspend
  <1>2. RequestNotShared' /\ NoStaleCompletion' /\ CompletedIsGone'
    BY DEF FastbootIInv, FastbootInv, Endpoint, RequestNotShared,
           NoStaleCompletion, CompletedIsGone, Completed, Suspend, complete,
           without_requests, with_request, signal_event
  <1>3. AnswerIsDue'
    BY DEF AnswerIsDue, Suspend
  <1>4. CommandIsRunning'
    BY DEF FastbootIInv, CommandIsRunning, Suspend
  <1> QED BY <1>1, <1>2, <1>3, <1>4 DEF FastbootIInv, FastbootInv

LEMMA FastbootSetConfiguration ==
  ASSUME FastbootIInv, NEW value \in {0, 1}, SetConfiguration(value)
  PROVE  FastbootIInv'
  <1>1. FastbootTypeOK' /\ thread_at' \in ThreadAt
    BY DEF FastbootIInv, FastbootInv, FastbootTypeOK, Event, SetConfiguration,
           same_txn, signal_event, unsignal_event
  <1>2. RequestNotShared' /\ NoStaleCompletion' /\ CompletedIsGone'
    BY DEF FastbootIInv, FastbootInv, RequestNotShared, NoStaleCompletion,
           CompletedIsGone, Completed, SetConfiguration, same_txn
  <1>3. AnswerIsDue'
    BY DEF FastbootIInv, Completed, AnswerIsDue, SetConfiguration, same_txn
  <1>4. CommandIsRunning'
    BY DEF FastbootIInv, CommandIsRunning, SetConfiguration, same_txn
  <1> QED BY <1>1, <1>2, <1>3, <1>4 DEF FastbootIInv, FastbootInv

LEMMA FastbootStutter ==
  ASSUME FastbootIInv, UNCHANGED fastboot_vars
  PROVE  FastbootIInv'
  <1>1. FastbootTypeOK' /\ thread_at' \in ThreadAt
    BY DEF FastbootIInv, FastbootInv, FastbootTypeOK, fastboot_vars,
           driver_vars
  <1>2. RequestNotShared' /\ NoStaleCompletion' /\ CompletedIsGone'
    BY DEF FastbootIInv, FastbootInv, RequestNotShared, NoStaleCompletion,
           CompletedIsGone, Completed, fastboot_vars, driver_vars
  <1>3. AnswerIsDue'
    BY DEF FastbootIInv, Completed, AnswerIsDue, fastboot_vars, driver_vars
  <1>4. CommandIsRunning'
    BY DEF FastbootIInv, CommandIsRunning, fastboot_vars
  <1> QED BY <1>1, <1>2, <1>3, <1>4 DEF FastbootIInv, FastbootInv

LEMMA FastbootStart ==
  FastbootInit => FastbootIInv
  <1> SUFFICES ASSUME FastbootInit PROVE FastbootIInv OBVIOUS
  <1>1. FastbootTypeOK /\ thread_at \in ThreadAt
    BY DEF FastbootInit, FastbootTypeOK, ThreadAt, Endpoint, Event, Transaction
  <1>2. RequestNotShared /\ NoStaleCompletion /\ CompletedIsGone
    BY DEF FastbootInit, RequestNotShared, NoStaleCompletion, CompletedIsGone,
           Completed
  <1>3. AnswerIsDue /\ CommandIsRunning
    BY DEF FastbootInit, AnswerIsDue, CommandIsRunning, Completed
  <1> QED BY <1>1, <1>2, <1>3 DEF FastbootIInv, FastbootInv

LEMMA FastbootStep ==
  FastbootIInv /\ [FastbootNext]_fastboot_vars => FastbootIInv'
  <1> SUFFICES ASSUME FastbootIInv, [FastbootNext]_fastboot_vars
               PROVE  FastbootIInv'
    OBVIOUS
  <1>1. CASE WaitOnline BY <1>1, FastbootWaitOnline
  <1>2. CASE CommandLoop BY <1>2, FastbootCommandLoop
  <1>3. CASE Check BY <1>3, FastbootCheck
  <1>4. CASE Queue BY <1>4, FastbootQueue
  <1>5. CASE WaitDone BY <1>5, FastbootWaitDone
  <1>6. CASE TimeOutWrite BY <1>6, FastbootTimeOutWrite
  <1>7. CASE TransactionDone BY <1>7, FastbootTransactionDone
  <1>8. ASSUME NEW t \in {"info", "reply"}, Answer(t) PROVE FastbootIInv'
    BY <1>8, FastbootAnswer
  <1>9. CASE Download BY <1>9, FastbootDownload
  <1>10. CASE CommandReturns BY <1>10, FastbootCommandReturns
  <1>11. ASSUME NEW e \in Endpoint, HostTransfers(e) PROVE FastbootIInv'
    BY <1>11, FastbootHostTransfers
  <1>12. CASE HostStalls BY <1>12, FastbootHostStalls
  <1>13. CASE Suspend BY <1>13, FastbootSuspend
  <1>14. ASSUME NEW value \in {0, 1}, SetConfiguration(value)
         PROVE  FastbootIInv'
    BY <1>14, FastbootSetConfiguration
  <1>15. CASE UNCHANGED fastboot_vars BY <1>15, FastbootStutter
  <1> QED
    BY <1>1, <1>2, <1>3, <1>4, <1>5, <1>6, <1>7, <1>8, <1>9, <1>10, <1>11,
       <1>12, <1>13, <1>14, <1>15
    DEF FastbootNext

LEMMA FastbootInvariant == FastbootSpec => []FastbootIInv
  <1>1. FastbootInit => FastbootIInv BY FastbootStart
  <1>2. FastbootIInv /\ [FastbootNext]_fastboot_vars => FastbootIInv'
    BY FastbootStep
  <1> QED BY <1>1, <1>2, PTL DEF FastbootSpec

\* The one request is with at most one endpoint, that of the transaction the
\* thread is in, unless a write was given up.
THEOREM RequestIsNotShared == FastbootSpec => []FastbootInv
  <1>1. FastbootIInv => FastbootInv BY DEF FastbootIInv
  <1> QED BY <1>1, FastbootInvariant, PTL

\* txn_done is never left signalled for the next transaction, unless a write
\* was given up.
THEOREM CompletionsAreFresh == FastbootSpec => []NoStaleCompletion
  <1>1. FastbootIInv => NoStaleCompletion BY DEF FastbootIInv
  <1> QED BY <1>1, FastbootInvariant, PTL

\* The host gets at most one answer to a command.
THEOREM HostGetsOneAnswer == FastbootSpec => OneAnswer
  <1>1. ASSUME FastbootIInv
        PROVE  (/\ ~suspended /\ ~timed_out
                /\ txn = "reply" /\ ep_req["in"] /\ ~ep_req'["in"]) => asked
    BY <1>1 DEF FastbootIInv, AnswerIsDue
  <1> QED BY <1>1, FastbootInvariant, PTL DEF OneAnswer
=============================================================================
