------------------------------- MODULE Mounts -------------------------------
(***************************************************************************)
(* Who uses the drive registry in the running BIOS: the boot task          *)
(* registers C and E and then starts Doom (src/main.c), Doom opens files   *)
(* on E, and every USB mass-storage device that is plugged in gets a slot, *)
(* a letter and a mount task that tries FAT and then FATX                  *)
(* (src/fs_io/usb_ll.c).  The calls themselves are FileIO's actions.       *)
(***************************************************************************)
EXTENDS FileIO

CONSTANTS
  Boot, Doom,   \* the tasks created by main() and by freertos_entry
  Mounters,     \* the mount tasks that can exist at once
  MscSlots,     \* the indices of msc_device
  SlotLetter,   \* '0' + i
  Nul,          \* the zero character of an empty slot
  Devices,      \* the sticks; a device stands for its address
  Scenarios     \* what is plugged, when, and what mounts

ASSUME MountsAssumption ==
  /\ {Boot, Doom} \cup Mounters \subseteq Tasks
  /\ Boot # Doom /\ Boot \notin Mounters /\ Doom \notin Mounters
  /\ None \notin Devices /\ IsFiniteSet(Devices)
  /\ 0 \in MscSlots /\ MscSlots \subseteq Nat /\ IsFiniteSet(MscSlots)
  /\ {"C", "E"} \subseteq Alnum /\ \A c \in {"C", "E"} : Upper[c] = c
  /\ SlotLetter \in [MscSlots -> Alnum \ {"C", "E"}]
  /\ \A i, j \in MscSlots : SlotLetter[i] = SlotLetter[j] => i = j
  /\ \A i \in MscSlots : Upper[SlotLetter[i]] = SlotLetter[i]
  /\ Nul \in Chars \ Alnum /\ Upper[Nul] = Nul
  /\ \A s \in Setups, c \in Chars :   \* Doom opens files on E and nothing else
       /\ <<Doom, c>> \notin s.registers \cup s.unregisters
       /\ <<Doom, c>> \in s.opens => c = "E"
  /\ Scenarios \subseteq [disk : SUBSET {"C", "E"},  \* FATX partitions that mount
                          sticks : SUBSET Devices,   \* sticks that may be plugged in
                          fat : SUBSET Devices,      \* those with a FAT volume
                          early : BOOLEAN,           \* sticks may arrive during boot
                          unplug : {"never", "between", "any"},  \* when sticks may leave
                          settled : BOOLEAN]         \* none arrives while one is mounted

VARIABLES
  scenario,
  boot,      \* the next statement of freertos_entry: register C, register E, start Doom
  attached,  \* the sticks that are plugged in
  msc,       \* msc_device[i]: the device address and the letter
  mount,     \* where msc_mount_task is, for each mount task
  param,     \* the slot a mount task was given
  want,      \* its local drive_letter
  llslot     \* driver->ll_handle of a USB driver: the slot

usb == <<attached, msc, mount, param, want, llslot>>
mvars == <<vars, scenario, boot, usb>>

EmptySlot == [addr |-> None, letter |-> Nul]

Least(S) == CHOOSE i \in S : \A j \in S : i <= j

-----------------------------------------------------------------------------
(***************************************************************************)
(* freertos_entry and doom_task                                            *)
(***************************************************************************)

\* Fault: Doom is started before the drives are registered.
BootStep_DoomFirst ==
  /\ boot # "done"
  /\ boot' = IF boot = "C" THEN "E" ELSE "done"
  /\ Register(Boot, boot)
  /\ UNCHANGED <<scenario, usb>>

\* A registration that fails, out of memory too, is only reported; the next statement follows.
BootStep ==
  /\ boot # "done"
  /\ \/ boot \in {"C", "E"} /\ Register(Boot, boot)
     \/ pc[Boot] = "idle" /\ (boot = "start" \/ live = Drivers) /\ UNCHANGED vars
  /\ boot' = (CASE boot = "C" -> "E" [] boot = "E" -> "start" [] boot = "start" -> "done")
  /\ UNCHANGED <<scenario, usb>>

\* The ATA driver's init only fails without memory; FATX mounts what the disk holds.
BootInit ==
  /\ \/ RegisterLLInit(Boot, TRUE)
     \/ RegisterFsInit(Boot, letter[drv[Boot]] \in scenario.disk)
     \/ RegisterUnlink(Boot)
  /\ UNCHANGED <<scenario, boot, usb>>

\* Doom exists once boot is done; it opens, uses and closes files on E.
DoomStep ==
  /\ boot = "done"
  /\ \/ \E s \in Slots : OpenFind(Doom, "E", s)
     \/ \E s \in Slots, o \in Ops : CallOnFile(Doom, s, o)
     \/ TakeMutex(Doom)
     \/ FsStep(Doom)
     \/ GiveMutex(Doom)
  /\ UNCHANGED <<scenario, boot, usb>>

-----------------------------------------------------------------------------
(***************************************************************************)
(* The USB host task's callbacks                                           *)
(***************************************************************************)

\* When the scenario lets a stick be plugged in.
Arrives(a) ==
  /\ a \in scenario.sticks \ attached
  /\ scenario.early \/ boot = "done"
  /\ scenario.settled => \A m \in Mounters : mount[m] = "none"

\* Fault: the slot search does not look whether the slot is taken.
tuh_msc_mount_cb_AnySlot(a) ==
  /\ Arrives(a)
  /\ attached' = attached \cup {a}
  /\ \E m \in Mounters :
       LET i == Least(MscSlots) IN
       /\ mount[m] = "none"
       /\ msc' = [msc EXCEPT ![i] = [addr |-> a, letter |-> SlotLetter[i]]]
       /\ mount' = [mount EXCEPT ![m] = "start"]
       /\ param' = [param EXCEPT ![m] = i]
  /\ UNCHANGED <<vars, scenario, boot, want, llslot>>

\* The first free slot takes the device and gets a mount task; without one the device is ignored.
tuh_msc_mount_cb(a) ==
  LET free == {i \in MscSlots : msc[i].addr = None} IN
  /\ Arrives(a)
  /\ attached' = attached \cup {a}
  /\ IF free = {} THEN UNCHANGED <<msc, mount, param>>
     ELSE \E m \in Mounters :
            /\ mount[m] = "none"
            /\ msc' = [msc EXCEPT ![Least(free)] =
                         [addr |-> a, letter |-> SlotLetter[Least(free)]]]
            /\ mount' = [mount EXCEPT ![m] = "start"]
            /\ param' = [param EXCEPT ![m] = Least(free)]
  /\ UNCHANGED <<vars, scenario, boot, want, llslot>>

\* The slot is cleared, whether its mount task is through or not; the driver registered for it
\* stays where it is.
tuh_msc_umount_cb(a) ==
  /\ a \in attached
  /\ \/ scenario.unplug = "any"
     \/ scenario.unplug = "between" /\ \A m \in Mounters : mount[m] = "none"
  /\ attached' = attached \ {a}
  /\ msc' = [i \in MscSlots |-> IF msc[i].addr = a THEN EmptySlot ELSE msc[i]]
  /\ UNCHANGED <<vars, scenario, boot, mount, param, want, llslot>>

-----------------------------------------------------------------------------
(***************************************************************************)
(* msc_mount_task                                                          *)
(***************************************************************************)

\* The task runs for the first time and reads the letter of its slot, which unplugging may
\* have cleared.
MountStart(m) ==
  /\ mount[m] = "start"
  /\ want' = [want EXCEPT ![m] = msc[param[m]].letter]
  /\ mount' = [mount EXCEPT ![m] = "fat"]
  /\ UNCHANGED <<vars, scenario, boot, attached, msc, param, llslot>>

MountRegister(m) ==
  /\ mount[m] \in {"fat", "fatx"}
  /\ Register(m, want[m])
  /\ UNCHANGED <<scenario, boot, usb>>

\* Fault: the first slot that is taken, whatever its letter.
usb_disk_init_AnyTaken(m) ==
  LET found == {i \in MscSlots : msc[i].addr # None} IN
  /\ mount[m] \in {"fat", "fatx"}
  /\ RegisterLLInit(m, found # {})
  /\ llslot' = IF found = {} THEN llslot ELSE [llslot EXCEPT ![drv[m]] = Least(found)]
  /\ UNCHANGED <<scenario, boot, attached, msc, mount, param, want>>

\* usb_disk_init: the first slot with the driver's letter.
usb_disk_init(m) ==
  LET found == {i \in MscSlots : msc[i].letter = letter[drv[m]]} IN
  /\ mount[m] \in {"fat", "fatx"}
  /\ RegisterLLInit(m, found # {})
  /\ llslot' = IF found = {} THEN llslot ELSE [llslot EXCEPT ![drv[m]] = Least(found)]
  /\ UNCHANGED <<scenario, boot, attached, msc, mount, param, want>>

\* FatFs reads a volume through the first drive of its digit, and takes volume 0 when the path
\* has no digit: the slot was cleared before the task read its letter.
FatLetter(m) == IF letter[drv[m]] = Nul THEN SlotLetter[0] ELSE letter[drv[m]]

\* The blocks fileio_find_driver walks through for FatFs while m mounts.
FatWalk(m) ==
  IF mount[m] = "fat" /\ pc[m] = "fs_init" THEN Visits(FatLetter(m)) ELSE {}

\* A driver whose io_ll->init has not returned has no handle to read through.
Handleless(d) == \E t \in Tasks : drv[t] = d /\ pc[t] = "ll_init"

\* FAT mounts when there is a FAT volume behind the handle, or behind what the block held
\* where a handle will be; FATX knows no partition for a digit.
MountResults(m) ==
  LET d == FirstMatch(FatLetter(m)) IN
  IF mount[m] # "fat" \/ d = None THEN {FALSE}
  ELSE IF Handleless(d) THEN BOOLEAN
  ELSE {msc[llslot[d]].addr \in scenario.fat}

\* msc_mount_task moves on when fileio_register_driver returns 0 or, out of memory, -1.
MountFsInit(m) ==
  /\ mount[m] \in {"fat", "fatx"} /\ pc[m] = "fs_init"
  /\ FatWalk(m) \subseteq live
  /\ \E result \in MountResults(m) :
       /\ RegisterFsInit(m, result)
       /\ mount' = [mount EXCEPT ![m] = IF result THEN "none" ELSE @]
  /\ UNCHANGED <<scenario, boot, attached, msc, param, want, llslot>>

AfterFailure(m) == [mount EXCEPT ![m] = IF @ = "fat" THEN "fatx" ELSE "none"]

MountFailed(m) ==
  /\ mount[m] \in {"fat", "fatx"}
  /\ \/ RegisterUnlink(m)
     \/ pc[m] = "idle" /\ live = Drivers /\ UNCHANGED vars
  /\ mount' = AfterFailure(m)
  /\ UNCHANGED <<scenario, boot, attached, msc, param, want, llslot>>

MountStep(m) ==
  \/ MountStart(m)
  \/ MountRegister(m)
  \/ usb_disk_init(m)
  \/ MountFsInit(m)
  \/ MountFailed(m)

-----------------------------------------------------------------------------
MInit ==
  /\ Init
  /\ scenario \in Scenarios
  /\ boot = "C"
  /\ attached = {}
  /\ msc = [i \in MscSlots |-> EmptySlot]
  /\ mount = [m \in Mounters |-> "none"]
  /\ param = [m \in Mounters |-> None]
  /\ want = [m \in Mounters |-> Nul]
  /\ llslot = [d \in Drivers |-> None]

MNext ==
  \/ BootStep
  \/ BootInit
  \/ DoomStep
  \/ \E a \in Devices : tuh_msc_mount_cb(a) \/ tuh_msc_umount_cb(a)
  \/ \E m \in Mounters : MountStep(m)

MSpec == MInit /\ [][MNext]_mvars

-----------------------------------------------------------------------------
(***************************************************************************)
(* Properties                                                              *)
(***************************************************************************)

\* The types of the USB glue's state, beside FileIO's.
MTypeOK ==
  /\ TypeOK
  /\ scenario \in Scenarios
  /\ boot \in {"C", "E", "start", "done"}
  /\ attached \subseteq Devices
  /\ msc \in [MscSlots -> [addr : Devices \cup {None}, letter : Chars]]
  /\ mount \in [Mounters -> {"none", "start", "fat", "fatx"}]
  /\ param \in [Mounters -> MscSlots \cup {None}]
  /\ want \in [Mounters -> Chars]
  /\ llslot \in [Drivers -> MscSlots \cup {None}]

\* The tasks with a registry call under way or due.
Callers ==
  {t \in Tasks : pc[t] # "idle"} \cup (IF boot = "done" THEN {Doom} ELSE {Boot})
    \cup {m \in Mounters : mount[m] \in {"fat", "fatx"}}

\* No task of the BIOS goes, or is about to go, through a pointer to a freed driver.
NoTaskUsesFreed ==
  /\ \A t \in Callers : Derefs(t) \subseteq live
  /\ \A m \in Mounters : FatWalk(m) \subseteq live

\* The heap is used up, and no drive of the letter has a block of it.
NoMemoryFor(l) == live = Drivers /\ \A d \in live : letter[d] # l

\* Doom finds its files: when the disk has an E partition, the drive Doom's paths name is
\* registered, and its file system is initialised, from the moment Doom runs, unless there was
\* no memory for it.
DoomFindsE ==
  boot = "done" /\ "E" \in scenario.disk /\ ~NoMemoryFor("E") =>
    fileio_find_driver("E") \in mounted

\* A slot is taken by one attached device, whose letter is the slot's, or it is empty; while
\* there are no more sticks than slots, every attached stick has one.
SlotsConsistent ==
  /\ \A i \in MscSlots :
       \/ msc[i] = EmptySlot
       \/ /\ msc[i].addr \in attached /\ msc[i].letter = SlotLetter[i]
          /\ \A j \in MscSlots \ {i} : msc[j].addr # msc[i].addr
  /\ Cardinality(scenario.sticks) <= Cardinality(MscSlots) =>
       attached \subseteq {msc[i].addr : i \in MscSlots}

\* A FAT stick that holds a slot is a drive once no mount task works on the slot: the slot's
\* letter names a mounted driver, and that driver reads through this slot, unless there was no
\* memory for it.
SticksMounted ==
  \A i \in MscSlots :
    (/\ msc[i].addr \in scenario.fat
     /\ \A m \in Mounters : mount[m] # "none" => param[m] # i
     /\ ~NoMemoryFor(SlotLetter[i])) =>
      /\ fileio_find_driver(SlotLetter[i]) \in mounted
      /\ llslot[fileio_find_driver(SlotLetter[i])] = i

=============================================================================
