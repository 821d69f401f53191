---------------------------- MODULE MountsProofs ----------------------------
(***************************************************************************)
(* What holds of Mounts for every number of blocks, mount tasks, slots and *)
(* sticks, and every scenario.                                             *)
(*                                                                         *)
(* A step of Mounts is one of FileIO's and a statement of its caller       *)
(* (Access), so the registry's types are FileIO's lemmas'.  That no stick  *)
(* goes without a slot that could have one is a pigeonhole argument: when  *)
(* all slots are taken, they are taken by as many different sticks.        *)
(*                                                                         *)
(* The theorems about pointers, drive E and the sticks' drives are about   *)
(* the scenarios Orderly describes; in the others a registration that      *)
(* fails can cut off, or leave pointers into, another one.  Their          *)
(* inductive invariant, Calm, says where every caller is and what it       *)
(* holds, that a driver that may have to be taken off the list again stays *)
(* at its end until then, and that the rest of the list is the allocated   *)
(* blocks.                                                                 *)
(***************************************************************************)
EXTENDS Mounts, FileIOProofs, FiniteSetTheorems, WellFoundedInduction

\* Least picks a member.
LEMMA LeastMember ==
  ASSUME NEW S, S \subseteq MscSlots, S # {}
  PROVE  Least(S) \in S
<1> DEFINE R == OpToRel(<, Nat)
<1>1. IsWellFoundedOn(R, Nat)
  BY NatLessThanWellFounded
<1>2. \A i, j \in Nat : i < j => <<i, j>> \in R
  BY DEF OpToRel
<1>3. S \subseteq Nat
  BY MountsAssumption
<1> HIDE DEF R
<1>4. PICK i \in S : \A j \in S : ~(<<j, i>> \in R)
  BY <1>1, <1>3, WFMin
<1>5. ASSUME NEW j \in S PROVE i <= j
  <2>1. i \in Nat /\ j \in Nat
    BY <1>3
  <2>2. ~(j < i)
    BY <1>2, <1>4, <2>1
  <2>3. QED
    BY <2>1, <2>2
<1>6. QED
  BY <1>5 DEF Least

LEMMA MountsConstants ==
  /\ Boot \in Tasks /\ Doom \in Tasks /\ Mounters \subseteq Tasks
  /\ "C" \in Chars /\ "E" \in Chars /\ Nul \in Chars /\ None \notin Devices
  /\ SlotLetter \in [MscSlots -> Chars \ {Nul}]
BY MountsAssumption, FileIOAssumption

-----------------------------------------------------------------------------
(***************************************************************************)
(* Types                                                                   *)
(***************************************************************************)

\* The types of the USB glue, and a slot for every mount task.
UsbType ==
  /\ scenario \in Scenarios
  /\ boot \in {"C", "E", "start", "done"}
  /\ attached \subseteq scenario.sticks
  /\ msc \in [MscSlots -> [addr : Devices \cup {None}, letter : Chars]]
  /\ mount \in [Mounters -> {"none", "start", "fat", "fatx"}]
  /\ param \in [Mounters -> MscSlots \cup {None}]
  /\ want \in [Mounters -> Chars]
  /\ llslot \in [Drivers -> MscSlots \cup {None}]
  /\ \A m \in Mounters : mount[m] # "none" => param[m] \in MscSlots

MTypeInv == TypeInv /\ UsbType

\* What a step does to the registry: the calls FileIO describes, made by one task.
Access ==
  \/ UNCHANGED vars
  \/ \E t \in Tasks, c \in Chars : Register(t, c)
  \/ \E t \in Tasks, result \in BOOLEAN : RegisterLLInit(t, result) \/ RegisterFsInit(t, result)
  \/ \E t \in Tasks : RegisterUnlink(t) \/ TakeMutex(t) \/ FsStep(t) \/ GiveMutex(t)
  \/ \E t \in Tasks, c \in Chars, s \in Slots : OpenFind(t, c, s)
  \/ \E t \in Tasks, s \in Slots, o \in Ops : CallOnFile(t, s, o)

LEMMA LLInitResult ==
  ASSUME NEW t \in Tasks, NEW result, RegisterLLInit(t, result)
  PROVE  \E x \in BOOLEAN : (x <=> result) /\ RegisterLLInit(t, x)
<1>1. CASE result
  <2>1. RegisterLLInit(t, TRUE)
    BY <1>1 DEF RegisterLLInit
  <2>2. QED
    BY <1>1, <2>1
<1>2. CASE ~result
  <2>1. RegisterLLInit(t, FALSE)
    BY <1>2 DEF RegisterLLInit
  <2>2. QED
    BY <1>2, <2>1
<1>3. QED
  BY <1>1, <1>2

LEMMA FsInitResult ==
  ASSUME NEW t \in Tasks, NEW result, RegisterFsInit(t, result)
  PROVE  \E x \in BOOLEAN : (x <=> result) /\ RegisterFsInit(t, x)
<1>1. CASE result
  <2>1. RegisterFsInit(t, TRUE)
    BY <1>1 DEF RegisterFsInit
  <2>2. QED
    BY <1>1, <2>1
<1>2. CASE ~result
  <2>1. RegisterFsInit(t, FALSE)
    BY <1>2 DEF RegisterFsInit
  <2>2. QED
    BY <1>2, <2>1
<1>3. QED
  BY <1>1, <1>2

LEMMA MountAccess ==
  ASSUME UsbType, NEW m \in Mounters, MountStep(m)
  PROVE  Access
<1>1. m \in Tasks /\ want[m] \in Chars
  BY MountsConstants DEF UsbType
<1>2. CASE MountStart(m)
  BY <1>2 DEF MountStart, Access
<1>3. CASE MountRegister(m)
  BY <1>1, <1>3 DEF MountRegister, Access
<1>4. CASE usb_disk_init(m)
  <2>1. \E x : RegisterLLInit(m, x)
    BY <1>4 DEF usb_disk_init
  <2>2. QED
    BY <1>1, <2>1, LLInitResult DEF Access
<1>5. CASE MountFsInit(m)
  <2>1. \E x : RegisterFsInit(m, x)
    BY <1>5 DEF MountFsInit
  <2>2. QED
    BY <1>1, <2>1, FsInitResult DEF Access
<1>6. CASE MountFailed(m)
  BY <1>1, <1>6 DEF MountFailed, Access
<1>7. QED
  BY <1>2, <1>3, <1>4, <1>5, <1>6 DEF MountStep

LEMMA StepAccess ==
  ASSUME UsbType, MNext
  PROVE  Access
<1>1. CASE BootStep
  BY <1>1, MountsConstants DEF BootStep, Access
<1>2. CASE BootInit
  <2>1. CASE RegisterLLInit(Boot, TRUE) \/ RegisterUnlink(Boot)
    BY <2>1, MountsConstants DEF Access
  <2>2. ASSUME NEW x, RegisterFsInit(Boot, x)
        PROVE  Access
    <3>1. \E y \in BOOLEAN : RegisterFsInit(Boot, y)
      BY <2>2, MountsConstants, FsInitResult
    <3>2. QED
      BY <3>1, MountsConstants DEF Access
  <2>3. QED
    BY <1>2, <2>1, <2>2 DEF BootInit
<1>3. CASE DoomStep
  BY <1>3, MountsConstants DEF DoomStep, Access
<1>4. ASSUME NEW a \in Devices, tuh_msc_mount_cb(a) \/ tuh_msc_umount_cb(a)
      PROVE  Access
  BY <1>4 DEF tuh_msc_mount_cb, tuh_msc_umount_cb, Access
<1>5. QED
  BY <1>1, <1>2, <1>3, <1>4, MountAccess DEF MNext

LEMMA AccessTypeInv ==
  ASSUME TypeInv, Access
  PROVE  TypeInv'
<1>1. CASE UNCHANGED vars
  BY <1>1 DEF vars, TypeInv, TypeOK
<1>2. ASSUME NEW t \in Tasks, NEW c \in Chars, Register(t, c)
      PROVE  TypeInv'
  BY <1>2, CallTypeInv DEF Call
<1>3. ASSUME NEW t \in Tasks, NEW result \in BOOLEAN,
             RegisterLLInit(t, result) \/ RegisterFsInit(t, result)
      PROVE  TypeInv'
  BY <1>3, LLInitTypeInv, FsInitTypeInv
<1>4. ASSUME NEW t \in Tasks, RegisterUnlink(t) \/ TakeMutex(t) \/ FsStep(t) \/ GiveMutex(t)
      PROVE  TypeInv'
  BY <1>4, StepTypeInv DEF Step, Wait
<1>5. ASSUME NEW t \in Tasks, NEW c \in Chars, NEW s \in Slots, OpenFind(t, c, s)
      PROVE  TypeInv'
  BY <1>5, CallTypeInv DEF Call
<1>6. ASSUME NEW t \in Tasks, NEW s \in Slots, NEW o \in Ops, CallOnFile(t, s, o)
      PROVE  TypeInv'
  BY <1>6, CallTypeInv DEF Call
<1>7. QED
  BY <1>1, <1>2, <1>3, <1>4, <1>5, <1>6 DEF Access

\* usb_disk_init finds a slot of its letter.
LEMMA FoundSlot ==
  ASSUME NEW found, found \subseteq MscSlots, NEW m, UsbType,
         llslot' = IF found = {} THEN llslot ELSE [llslot EXCEPT ![drv[m]] = Least(found)]
  PROVE  llslot' \in [Drivers -> MscSlots \cup {None}]
<1>1. found # {} => Least(found) \in MscSlots
  BY LeastMember
<1>2. llslot \in [Drivers -> MscSlots \cup {None}]
  BY DEF UsbType
<1>3. QED
  BY <1>1, <1>2

LEMMA UsbTypeStep ==
  ASSUME UsbType, MNext
  PROVE  UsbType' /\ scenario' = scenario
<1>1. CASE BootStep \/ BootInit \/ DoomStep
  BY <1>1 DEF BootStep, BootInit, DoomStep, usb, UsbType
<1>2. ASSUME NEW a \in Devices, tuh_msc_mount_cb(a)
      PROVE  UsbType' /\ scenario' = scenario
  <2> DEFINE free == {i \in MscSlots : msc[i].addr = None}
  <2>1. /\ a \in scenario.sticks /\ attached' = attached \cup {a}
        /\ \/ UNCHANGED <<msc, mount, param>>
           \/ free # {} /\ \E m \in Mounters :
                /\ mount[m] = "none"
                /\ msc' = [msc EXCEPT ![Least(free)] = [addr |-> a, letter |-> SlotLetter[Least(free)]]]
                /\ mount' = [mount EXCEPT ![m] = "start"]
                /\ param' = [param EXCEPT ![m] = Least(free)]
        /\ UNCHANGED <<scenario, boot, want, llslot>>
    BY <1>2 DEF tuh_msc_mount_cb, Arrives
  <2>2. free # {} => Least(free) \in MscSlots /\ SlotLetter[Least(free)] \in Chars
    BY LeastMember, MountsConstants
  <2> HIDE DEF free
  <2>3. CASE UNCHANGED <<msc, mount, param>>
    BY <2>1, <2>3 DEF UsbType
  <2>4. CASE free # {} /\ \E m \in Mounters :
                /\ mount[m] = "none"
                /\ msc' = [msc EXCEPT ![Least(free)] = [addr |-> a, letter |-> SlotLetter[Least(free)]]]
                /\ mount' = [mount EXCEPT ![m] = "start"]
                /\ param' = [param EXCEPT ![m] = Least(free)]
    <3>1. PICK m \in Mounters :
                /\ mount[m] = "none"
                /\ msc' = [msc EXCEPT ![Least(free)] = [addr |-> a, letter |-> SlotLetter[Least(free)]]]
                /\ mount' = [mount EXCEPT ![m] = "start"]
                /\ param' = [param EXCEPT ![m] = Least(free)]
      BY <2>4
    <3>2. QED
      BY <2>1, <2>2, <2>4, <3>1 DEF UsbType
  <2>5. QED
    BY <2>1, <2>3, <2>4
<1>3. ASSUME NEW a \in Devices, tuh_msc_umount_cb(a)
      PROVE  UsbType' /\ scenario' = scenario
  <2>1. EmptySlot \in [addr : Devices \cup {None}, letter : Chars]
    BY MountsConstants DEF EmptySlot
  <2>2. QED
    BY <1>3, <2>1 DEF tuh_msc_umount_cb, UsbType
<1>4. ASSUME NEW m \in Mounters, MountStep(m)
      PROVE  UsbType' /\ scenario' = scenario
  <2>1. CASE MountStart(m)
    BY <2>1 DEF MountStart, UsbType
  <2>2. CASE MountRegister(m)
    BY <2>2 DEF MountRegister, usb, UsbType
  <2>3. CASE usb_disk_init(m)
    <3>1. llslot' \in [Drivers -> MscSlots \cup {None}]
      <4> DEFINE found == {i \in MscSlots : msc[i].letter = letter[drv[m]]}
      <4>1. found \subseteq MscSlots
        OBVIOUS
      <4>2. llslot' = IF found = {} THEN llslot ELSE [llslot EXCEPT ![drv[m]] = Least(found)]
        BY <2>3 DEF usb_disk_init
      <4> HIDE DEF found
      <4>3. QED
        BY <4>1, <4>2, FoundSlot
    <3>2. QED
      BY <2>3, <3>1 DEF usb_disk_init, UsbType
  <2>4. CASE MountFsInit(m)
    BY <2>4 DEF MountFsInit, UsbType
  <2>5. CASE MountFailed(m)
    BY <2>5 DEF MountFailed, AfterFailure, UsbType
  <2>6. QED
    BY <1>4, <2>1, <2>2, <2>3, <2>4, <2>5 DEF MountStep
<1>5. QED
  BY <1>1, <1>2, <1>3, <1>4 DEF MNext

LEMMA InitMTypeInv == MInit => MTypeInv
<1> SUFFICES ASSUME MInit PROVE MTypeInv
  OBVIOUS
<1>1. EmptySlot \in [addr : Devices \cup {None}, letter : Chars]
  BY MountsConstants DEF EmptySlot
<1>2. UsbType
  BY <1>1, MountsConstants DEF MInit, UsbType
<1>3. QED
  BY <1>2, InitTypeInv DEF MInit, MTypeInv

LEMMA MTypeInvariant == MSpec => []MTypeInv
<1>1. ASSUME MTypeInv, [MNext]_mvars PROVE MTypeInv'
  <2>1. CASE MNext
    BY <1>1, <2>1, StepAccess, AccessTypeInv, UsbTypeStep DEF MTypeInv
  <2>2. CASE UNCHANGED mvars
    BY <1>1, <2>2 DEF mvars, vars, usb, MTypeInv, TypeInv, TypeOK, UsbType
  <2>3. QED
    BY <1>1, <2>1, <2>2
<1>2. QED
  BY <1>1, InitMTypeInv, PTL DEF MSpec

\* The registry and the USB glue keep their types whatever is plugged in or out and mounts.
THEOREM MTypeCorrect == MSpec => []MTypeOK
<1>1. MTypeInv => MTypeOK
  <2>1. scenario \in Scenarios => scenario.sticks \subseteq Devices
    BY MountsAssumption
  <2>2. QED
    BY <2>1 DEF MTypeInv, TypeInv, UsbType, MTypeOK
<1>2. QED
  BY <1>1, MTypeInvariant, PTL

-----------------------------------------------------------------------------
(***************************************************************************)
(* Slots                                                                   *)
(***************************************************************************)

Taken(i) == msc[i] # EmptySlot

\* The first conjunct of SlotsConsistent.
SlotsApart ==
  \A i \in MscSlots :
    Taken(i) => /\ msc[i].addr \in attached /\ msc[i].letter = SlotLetter[i]
                /\ \A j \in MscSlots \ {i} : msc[j].addr # msc[i].addr

\* The second.
EnoughSlots == Cardinality(scenario.sticks) <= Cardinality(MscSlots)
SticksSeated == EnoughSlots => attached \subseteq {msc[i].addr : i \in MscSlots}

SlotsInv == SlotsApart /\ SticksSeated

\* When all slots are taken there are as many sticks attached as slots, and one more has none.
LEMMA Pigeonhole ==
  ASSUME UsbType, SlotsApart, \A i \in MscSlots : msc[i].addr # None,
         NEW a \in scenario.sticks \ attached
  PROVE  ~EnoughSlots
<1> DEFINE f == [i \in MscSlots |-> msc[i].addr]
           sticks == scenario.sticks
<1>1. IsFiniteSet(MscSlots) /\ IsFiniteSet(sticks) /\ IsFiniteSet(attached)
  <2>1. sticks \subseteq Devices /\ IsFiniteSet(Devices) /\ attached \subseteq sticks
    BY MountsAssumption DEF UsbType
  <2>2. QED
    BY <2>1, MountsAssumption, FS_Subset
<1>2. \A i \in MscSlots : Taken(i)
  BY DEF Taken, EmptySlot
<1>3. f \in Injection(MscSlots, attached)
  <2>1. f \in [MscSlots -> attached]
    BY <1>2 DEF SlotsApart
  <2>2. \A i, j \in MscSlots : f[i] = f[j] => i = j
    BY <1>2 DEF SlotsApart
  <2>3. QED
    BY <2>1, <2>2 DEF Injection, IsInjective
<1> HIDE DEF f, sticks
<1>4. Cardinality(MscSlots) <= Cardinality(attached)
  BY <1>1, <1>3, FS_Injection
<1>5. Cardinality(attached) < Cardinality(sticks)
  <2>1. attached \subseteq sticks \ {a} /\ a \in sticks
    BY DEF UsbType, sticks
  <2>2. IsFiniteSet(sticks \ {a}) /\ Cardinality(sticks \ {a}) = Cardinality(sticks) - 1
    BY <1>1, <2>1, FS_RemoveElement
  <2>3. Cardinality(attached) <= Cardinality(sticks \ {a})
    BY <2>1, <2>2, FS_Subset
  <2>4. Cardinality(attached) \in Nat /\ Cardinality(sticks) \in Nat
    BY <1>1, FS_CardinalityType
  <2>5. QED
    BY <2>2, <2>3, <2>4
<1>6. Cardinality(MscSlots) \in Nat /\ Cardinality(attached) \in Nat /\ Cardinality(sticks) \in Nat
  BY <1>1, FS_CardinalityType
<1>7. ~(Cardinality(sticks) <= Cardinality(MscSlots))
  BY <1>4, <1>5, <1>6
<1>8. QED
  BY <1>7 DEF EnoughSlots, sticks

LEMMA InitSlots == MInit => SlotsInv
BY DEF MInit, SlotsInv, SlotsApart, SticksSeated, Taken

LEMMA SlotsStep ==
  ASSUME UsbType, SlotsInv, MNext
  PROVE  SlotsInv'
<1>0. scenario' = scenario
  BY UsbTypeStep
<1>1. CASE UNCHANGED <<msc, attached>>
  BY <1>0, <1>1 DEF SlotsInv, SlotsApart, SticksSeated, EnoughSlots, Taken
<1>2. ASSUME NEW a \in Devices, tuh_msc_mount_cb(a)
      PROVE  SlotsInv'
  <2> DEFINE free == {i \in MscSlots : msc[i].addr = None}
             k == Least(free)
  <2>1. a \in scenario.sticks \ attached /\ attached' = attached \cup {a} /\ a # None
    BY <1>2, MountsConstants DEF tuh_msc_mount_cb, Arrives
  <2>2. CASE free = {}
    <3>1. msc' = msc
      BY <1>2, <2>2 DEF tuh_msc_mount_cb
    <3>2. ~EnoughSlots
      BY <2>1, <2>2, Pigeonhole DEF SlotsInv
    <3>3. ~EnoughSlots'
      BY <1>0, <3>2 DEF EnoughSlots
    <3>4. QED
      BY <2>1, <3>1, <3>3 DEF SlotsInv, SlotsApart, SticksSeated, Taken
  <2>3. CASE free # {}
    <3>1. k \in MscSlots /\ msc[k].addr = None
      BY <2>3, LeastMember
    <3>2. msc' = [msc EXCEPT ![k] = [addr |-> a, letter |-> SlotLetter[k]]]
      BY <1>2, <2>3 DEF tuh_msc_mount_cb
    <3> HIDE DEF k, free
    <3>3. \A i \in MscSlots : msc[i].addr # a
      BY <2>1 DEF SlotsInv, SlotsApart, Taken, EmptySlot
    <3>4. /\ msc'[k] = [addr |-> a, letter |-> SlotLetter[k]]
          /\ \A i \in MscSlots : i # k => msc'[i] = msc[i]
      BY <3>1, <3>2 DEF UsbType
    <3>5. SlotsApart'
      <4> SUFFICES ASSUME NEW i \in MscSlots, Taken(i)'
                   PROVE  /\ msc'[i].addr \in attached' /\ msc'[i].letter = SlotLetter[i]
                          /\ \A j \in MscSlots \ {i} : msc'[j].addr # msc'[i].addr
        BY DEF SlotsApart
      <4>1. CASE i = k
        BY <2>1, <3>3, <3>4, <4>1
      <4>2. CASE i # k
        <5>1. Taken(i) /\ msc'[i] = msc[i]
          BY <3>4, <4>2 DEF Taken
        <5>2. msc'[k].addr # msc'[i].addr
          BY <3>3, <3>4, <5>1
        <5>3. QED
          BY <2>1, <3>4, <5>1, <5>2 DEF SlotsInv, SlotsApart
      <4>3. QED
        BY <4>1, <4>2
    <3>6. SticksSeated'
      <4> SUFFICES ASSUME EnoughSlots, NEW b \in attached'
                   PROVE  \E i \in MscSlots : msc'[i].addr = b
        BY <1>0 DEF SticksSeated, EnoughSlots
      <4>1. CASE b = a
        BY <3>1, <3>4, <4>1
      <4>2. CASE b \in attached
        <5>1. PICK i \in MscSlots : msc[i].addr = b
          BY <4>2 DEF SlotsInv, SticksSeated
        <5>2. b # None
          BY <4>2, MountsAssumption DEF UsbType
        <5>3. i # k
          BY <3>1, <5>1, <5>2
        <5>4. QED
          BY <3>4, <5>1, <5>3
      <4>3. QED
        BY <2>1, <4>1, <4>2
    <3>7. QED
      BY <3>5, <3>6 DEF SlotsInv
  <2>4. QED
    BY <2>2, <2>3
<1>3. ASSUME NEW a \in Devices, tuh_msc_umount_cb(a)
      PROVE  SlotsInv'
  <2>1. /\ attached' = attached \ {a}
        /\ msc' = [i \in MscSlots |-> IF msc[i].addr = a THEN EmptySlot ELSE msc[i]]
    BY <1>3 DEF tuh_msc_umount_cb
  <2>2. EmptySlot.addr = None
    BY DEF EmptySlot
  <2>3. SlotsApart'
    <3> SUFFICES ASSUME NEW i \in MscSlots, Taken(i)'
                 PROVE  /\ msc'[i].addr \in attached' /\ msc'[i].letter = SlotLetter[i]
                        /\ \A j \in MscSlots \ {i} : msc'[j].addr # msc'[i].addr
      BY DEF SlotsApart
    <3>1. msc'[i] = msc[i] /\ msc[i].addr # a /\ Taken(i)
      BY <2>1 DEF Taken
    <3>2. /\ msc[i].addr \in attached /\ msc[i].letter = SlotLetter[i]
          /\ \A j \in MscSlots \ {i} : msc[j].addr # msc[i].addr
      BY <3>1 DEF SlotsInv, SlotsApart
    <3>3. msc[i].addr # None
      BY <3>2, MountsAssumption DEF UsbType
    <3>4. \A j \in MscSlots : msc'[j].addr = None \/ msc'[j] = msc[j]
      BY <2>1, <2>2
    <3>5. QED
      BY <2>1, <3>1, <3>2, <3>3, <3>4
  <2>4. SticksSeated'
    <3> SUFFICES ASSUME EnoughSlots, NEW b \in attached \ {a}
                 PROVE  \E i \in MscSlots : msc'[i].addr = b
      BY <1>0, <2>1 DEF SticksSeated, EnoughSlots
    <3>1. PICK i \in MscSlots : msc[i].addr = b
      BY DEF SlotsInv, SticksSeated
    <3>2. msc'[i].addr = b
      BY <2>1, <3>1
    <3>3. QED
      BY <3>2
  <2>5. QED
    BY <2>3, <2>4 DEF SlotsInv
<1>4. ASSUME NEW m \in Mounters, MountStep(m)
      PROVE  UNCHANGED <<msc, attached>>
  BY <1>4 DEF MountStep, MountStart, MountRegister, usb_disk_init, MountFsInit, MountFailed, usb
<1>5. CASE BootStep \/ BootInit \/ DoomStep
  BY <1>1, <1>5 DEF BootStep, BootInit, DoomStep, usb
<1>6. QED
  BY <1>1, <1>2, <1>3, <1>4, <1>5 DEF MNext

\* msc_device stays consistent: a taken slot has one attached stick and its own letter, and
\* a stick goes without a slot only when there are more sticks than slots.
THEOREM SlotsStayConsistent == MSpec => []SlotsConsistent
<1>1. ASSUME UsbType, SlotsInv, [MNext]_mvars PROVE SlotsInv'
  <2>1. CASE UNCHANGED mvars
    BY <1>1, <2>1 DEF mvars, usb, SlotsInv, SlotsApart, SticksSeated, EnoughSlots, Taken
  <2>2. QED
    BY <1>1, <2>1, SlotsStep
<1>2. SlotsInv => SlotsConsistent
  BY DEF SlotsInv, SlotsApart, SticksSeated, EnoughSlots, Taken, SlotsConsistent
<1>3. MTypeInv => UsbType
  BY DEF MTypeInv
<1>4. QED
  BY <1>1, <1>2, <1>3, InitSlots, MTypeInvariant, PTL DEF MSpec

-----------------------------------------------------------------------------
(***************************************************************************)
(* The calm scenarios                                                      *)
(***************************************************************************)

\* What the theorems below ask of a scenario: no stick leaves while one is being mounted, and
\* nothing fails to mount; or the sticks come after boot, and all of them are FAT, or there is
\* one stick, beside a disk whose E mounts.
Orderly ==
  /\ scenario.unplug # "any"
  /\ \/ scenario.disk = {"C", "E"} /\ scenario.sticks \subseteq scenario.fat
     \/ /\ ~scenario.early
        /\ \/ scenario.sticks \subseteq scenario.fat
           \/ "E" \in scenario.disk /\ \A a, b \in scenario.sticks : a = b

\* And of the heap: a block for each of the two drives boot registers.
BootHasRoom == boot \in {"C", "E"} /\ pc[Boot] = "idle" => live # Drivers

Registrars == {Boot} \cup Mounters

\* The registrar is between its first statement and its last.
Busy(t) == IF t = Boot THEN boot # "done" ELSE mount[t] # "none"

\* A registration of t may fail to mount.
MayFail(t) ==
  \/ t = Boot /\ scenario.disk # {"C", "E"}
  \/ t \in Mounters /\ ~(scenario.sticks \subseteq scenario.fat)

\* Sticks stay out while boot registers its drives.
Late == ~scenario.early /\ boot # "done"

BootInv ==
  /\ pc[Boot] \in {"idle", "ll_init", "fs_init", "unlink"}
  /\ pc[Boot] # "idle" => \/ boot = "E" /\ letter[drv[Boot]] = "C"
                          \/ boot = "start" /\ letter[drv[Boot]] = "E"
  /\ pc[Boot] = "unlink" => letter[drv[Boot]] \notin scenario.disk
  /\ Late => attached = {} /\ \A m \in Mounters : mount[m] = "none"

\* A mount task works on the slot it was given, and on its letter.
MounterInv(m) ==
  /\ mount[m] # "none" => Taken(param[m])
  /\ mount[m] \in {"fat", "fatx"} => want[m] = SlotLetter[param[m]]
  /\ pc[m] \in {"idle", "ll_init", "fs_init", "unlink"}
  /\ pc[m] # "idle" => mount[m] \in {"fat", "fatx"} /\ letter[drv[m]] = SlotLetter[param[m]]
  /\ pc[m] = "fs_init" => llslot[drv[m]] = param[m]
  /\ mount[m] = "fatx" /\ scenario.sticks \subseteq scenario.fat =>
       live = Drivers /\ pc[m] = "idle"

\* The tasks are where their callers left them.
CallersInv ==
  /\ BootInv
  /\ \A m \in Mounters : MounterInv(m)
  /\ \A m, n \in Mounters :
       mount[m] # "none" /\ mount[n] # "none" /\ param[m] = param[n] => m = n
  /\ \A t \in Tasks \ (Registrars \cup {Doom}) : pc[t] = "idle"

\* Doom has nothing but files on E.
DoomInv ==
  /\ pc[Doom] \in {"idle", "take", "in_fs", "give"}
  /\ pc[Doom] # "idle" => boot = "done" /\ drv[Doom] \in live /\ letter[drv[Doom]] = "E"
  /\ \A t \in Tasks, s \in Slots : files[t][s] # None =>
       t = Doom /\ boot = "done" /\ files[t][s] \in live /\ letter[files[t][s]] = "E"

\* Drive E.
EInv ==
  /\ \A d, e \in live : letter[d] = "E" /\ letter[e] = "E" => d = e
  /\ boot \in {"C", "E"} => \A d \in live : letter[d] # "E"
  /\ (boot = "done" \/ (boot = "start" /\ pc[Boot] = "idle")) /\ "E" \in scenario.disk =>
       \E d \in mounted : letter[d] = "E"

\* The allocated blocks, and the freed ones that are still on the list.
Held == live \cup {drv[t] : t \in {u \in Tasks : pc[u] = "unlink"}}

\* Connected and Chain, of the blocks that are held.
HeldChain ==
  /\ head \in Held \cup {None}
  /\ \A d \in Held : next[d] \in Held \cup {None}
  /\ Held \subseteq Listed
  /\ Held # {} => \E w \in Held : next[w] = None
  /\ \A e, w \in Held : next[w] = None => w \in Walk(e)

\* d ends the list, behind p.
Tail(d, p) ==
  /\ d \in Held /\ next[d] = None
  /\ \A e \in Held : next[e] = d => e = p
  /\ IF p = None THEN Held = {d} /\ head = d
     ELSE p \in Held \ {d} /\ next[p] = d /\ head # d

\* A driver that may have to be taken off the list again stays at its end until then.
ListInv ==
  /\ HeldChain
  /\ \A t \in Registrars :
       /\ pc[t] \in {"ll_init", "fs_init"} => drv[t] \in live
       /\ pc[t] = "unlink" => MayFail(t) /\ drv[t] \notin live
       /\ pc[t] # "idle" /\ MayFail(t) => Tail(drv[t], prev[t])

\* A slot's letter is the letter of drivers that read the slot, or are about to.
SticksRead ==
  \A d \in live, i \in MscSlots : letter[d] = SlotLetter[i] =>
    \/ d \in mounted /\ llslot[d] = i
    \/ \E m \in Mounters : param[m] = i /\ drv[m] = d /\ pc[m] # "idle"

\* A FAT stick has a driver, or a mount task, unless the heap is exhausted.
SticksServed ==
  \A i \in MscSlots : msc[i].addr \in scenario.fat =>
    \/ \E m \in Mounters : mount[m] # "none" /\ param[m] = i
    \/ live = Drivers
    \/ \E d \in live : letter[d] = SlotLetter[i]

SticksFound ==
  \A i \in MscSlots, d \in live : letter[d] = SlotLetter[i] => Firsts(SlotLetter[i]) # {}

LateLetters == Late => \A d \in live : letter[d] \in {"C", "E"}

SticksInv ==
  scenario.sticks \subseteq scenario.fat =>
    SticksRead /\ SticksServed /\ SticksFound /\ LateLetters

Calm == CallersInv /\ DoomInv /\ EInv /\ ListInv /\ SticksInv

-----------------------------------------------------------------------------
LEMMA CalmConstants ==
  /\ Boot \in Tasks /\ Doom \in Tasks /\ Mounters \subseteq Tasks
  /\ Boot \notin Mounters /\ Doom \notin Registrars /\ Registrars \subseteq Tasks
  /\ None \notin Drivers /\ None \notin Devices
  /\ "C" \in Chars /\ "E" \in Chars /\ "E" \in Alnum /\ Upper["C"] = "C" /\ Upper["E"] = "E"
  /\ \A i \in MscSlots : /\ SlotLetter[i] \in Chars /\ SlotLetter[i] \in Alnum
                         /\ Upper[SlotLetter[i]] = SlotLetter[i]
                         /\ SlotLetter[i] # "C" /\ SlotLetter[i] # "E" /\ SlotLetter[i] # Nul
  /\ \A i, j \in MscSlots : SlotLetter[i] = SlotLetter[j] => i = j
<1>1. /\ Boot \in Tasks /\ Doom \in Tasks /\ Mounters \subseteq Tasks
      /\ Boot \notin Mounters /\ Doom \notin Mounters /\ Boot # Doom
  BY MountsAssumption
<1>2. Doom \notin Registrars /\ Registrars \subseteq Tasks
  BY <1>1 DEF Registrars
<1>3. {"C", "E"} \subseteq Alnum /\ Alnum \subseteq Chars
      /\ (\A c \in {"C", "E"} : Upper[c] = c) /\ Nul \notin Alnum
  BY MountsAssumption, FileIOAssumption
<1>4. \A i \in MscSlots : SlotLetter[i] \in Alnum \ {"C", "E"}
  BY MountsAssumption
<1>5. \A i \in MscSlots : Upper[SlotLetter[i]] = SlotLetter[i]
  BY MountsAssumption
<1>6. \A i, j \in MscSlots : SlotLetter[i] = SlotLetter[j] => i = j
  BY MountsAssumption
<1>7. None \notin Drivers /\ None \notin Devices
  BY MountsAssumption, FileIOAssumption
<1>8. \A i \in MscSlots : /\ SlotLetter[i] \in Chars /\ SlotLetter[i] \in Alnum
                           /\ SlotLetter[i] # "C" /\ SlotLetter[i] # "E" /\ SlotLetter[i] # Nul
  BY <1>3, <1>4
<1>9. /\ "C" \in Chars /\ "E" \in Chars /\ "E" \in Alnum /\ Upper["C"] = "C" /\ Upper["E"] = "E"
  BY <1>3
<1>10. QED
  BY <1>1, <1>2, <1>5, <1>6, <1>7, <1>8, <1>9

\* Each task of the BIOS that can fail to mount has the registry to itself.
LEMMA Alone ==
  ASSUME UsbType, SlotsInv, Orderly, CallersInv,
         NEW t \in Registrars, NEW u \in Registrars, MayFail(t), Busy(t), Busy(u)
  PROVE  u = t
<1>1. CASE t = Boot
  <2>1. Late
    BY <1>1, CalmConstants DEF Orderly, MayFail, Busy, Late
  <2>2. QED
    BY <1>1, <2>1 DEF CallersInv, BootInv, Busy, Registrars
<1>2. CASE t \in Mounters
  <2>1. /\ mount[t] # "none" /\ ~scenario.early
        /\ \A a, b \in scenario.sticks : a = b
    BY <1>2, CalmConstants DEF Orderly, MayFail, Busy
  <2>2. boot = "done"
    BY <1>2, <2>1 DEF CallersInv, BootInv, Late
  <2>3. u \in Mounters /\ mount[u] # "none"
    BY <2>2 DEF Busy, Registrars
  <2>4. param[t] \in MscSlots /\ param[u] \in MscSlots
    BY <1>2, <2>1, <2>3 DEF UsbType
  <2>5. Taken(param[t]) /\ Taken(param[u])
    BY <1>2, <2>1, <2>3 DEF CallersInv, MounterInv
  <2>6. msc[param[t]].addr \in scenario.sticks /\ msc[param[u]].addr \in scenario.sticks
    BY <2>4, <2>5 DEF SlotsInv, SlotsApart, UsbType
  <2>7. msc[param[t]].addr = msc[param[u]].addr
    BY <2>1, <2>6
  <2>8. param[t] = param[u]
    BY <2>4, <2>5, <2>7 DEF SlotsInv, SlotsApart
  <2>9. QED
    BY <1>2, <2>1, <2>3, <2>8 DEF CallersInv
<1>3. QED
  BY <1>1, <1>2 DEF Registrars

\* Who is between a registration's steps is busy, and only a registration is at "unlink".
LEMMA WhoActs ==
  ASSUME CallersInv, DoomInv
  PROVE  /\ \A t \in Registrars : pc[t] # "idle" =>
              Busy(t) /\ pc[t] \in {"ll_init", "fs_init", "unlink"}
         /\ \A t \in Tasks : pc[t] = "unlink" => t \in Registrars
<1>1. pc[Boot] # "idle" => Busy(Boot) /\ pc[Boot] \in {"ll_init", "fs_init", "unlink"}
  BY DEF CallersInv, BootInv, Busy
<1>2. \A m \in Mounters :
        pc[m] # "idle" => Busy(m) /\ pc[m] \in {"ll_init", "fs_init", "unlink"}
  BY CalmConstants DEF CallersInv, MounterInv, Busy
<1>3. \A t \in Tasks : pc[t] = "unlink" => t \in Registrars
  BY DEF CallersInv, DoomInv
<1>4. QED
  BY <1>1, <1>2, <1>3 DEF Registrars

\* While a registration that may fail is at "unlink", its driver is all that is held and freed.
LEMMA HeldWhile ==
  ASSUME UsbType, SlotsInv, Orderly, CallersInv, DoomInv, ListInv
  PROVE  /\ (\A t \in Registrars : pc[t] # "unlink") => Held = live
         /\ \A t \in Registrars : pc[t] = "unlink" => Held = live \cup {drv[t]}
<1>1. \A t \in Tasks : pc[t] = "unlink" => t \in Registrars /\ MayFail(t) /\ Busy(t)
  BY WhoActs DEF ListInv
<1>2. \A t, u \in Tasks : pc[t] = "unlink" /\ pc[u] = "unlink" => u = t
  BY <1>1, Alone
<1>3. QED
  BY <1>1, <1>2, CalmConstants DEF Held

-----------------------------------------------------------------------------
\* usb_disk_init finds the slot its mount task was given.
LEMMA DiskFound ==
  ASSUME UsbType, SlotsInv, NEW m \in Mounters, MounterInv(m), usb_disk_init(m)
  PROVE  /\ RegisterLLInit(m, TRUE)
         /\ llslot' = [llslot EXCEPT ![drv[m]] = param[m]]
<1> DEFINE found == {i \in MscSlots : msc[i].letter = letter[drv[m]]}
<1>1. pc[m] = "ll_init" /\ mount[m] \in {"fat", "fatx"}
  BY DEF usb_disk_init, RegisterLLInit, At
<1>2. param[m] \in MscSlots /\ Taken(param[m]) /\ letter[drv[m]] = SlotLetter[param[m]]
  BY <1>1 DEF MounterInv, UsbType
<1>3. msc[param[m]].letter = SlotLetter[param[m]]
  BY <1>2 DEF SlotsInv, SlotsApart
<1>4. ASSUME NEW i \in MscSlots, msc[i].letter = SlotLetter[param[m]]
      PROVE  i = param[m]
  <2>1. Taken(i)
    BY <1>2, <1>4, CalmConstants DEF Taken, EmptySlot
  <2>2. SlotLetter[i] = SlotLetter[param[m]]
    BY <1>4, <2>1 DEF SlotsInv, SlotsApart
  <2>3. QED
    BY <1>2, <2>2, CalmConstants
<1>5. found = {param[m]}
  BY <1>2, <1>3, <1>4
<1>6. Least(found) = param[m]
  <2>1. Least(found) \in found
    BY <1>5, <1>2, LeastMember
  <2>2. QED
    BY <1>5, <2>1
<1>7. /\ RegisterLLInit(m, found # {})
      /\ llslot' = IF found = {} THEN llslot ELSE [llslot EXCEPT ![drv[m]] = Least(found)]
  BY DEF usb_disk_init
<1> HIDE DEF found
<1>8. llslot' = [llslot EXCEPT ![drv[m]] = param[m]]
  BY <1>5, <1>6, <1>7
<1>9. (found # {}) = TRUE
  BY <1>5
<1>10. RegisterLLInit(m, TRUE)
  BY <1>7, <1>9, Zenon
<1>11. QED
  BY <1>8, <1>10

\* What a step does to the registry in a calm scenario.
CalmAccess ==
  \/ UNCHANGED vars
  \/ \E t \in Registrars, c \in Chars : Busy(t) /\ Register(t, c)
  \/ \E t \in Registrars : RegisterLLInit(t, TRUE) \/ RegisterFsInit(t, TRUE)
  \/ \E t \in Registrars : MayFail(t) /\ RegisterFsInit(t, FALSE)
  \/ \E t \in Registrars : RegisterUnlink(t)
  \/ DoomStep

\* A volume that does not mount is one that was not promised to.
LEMMA BootFails ==
  ASSUME CallersInv, NEW x, RegisterFsInit(Boot, x), x = (letter[drv[Boot]] \in scenario.disk)
  PROVE  \/ letter[drv[Boot]] \in scenario.disk /\ RegisterFsInit(Boot, TRUE)
         \/ letter[drv[Boot]] \notin scenario.disk /\ MayFail(Boot) /\ RegisterFsInit(Boot, FALSE)
<1>1. pc[Boot] = "fs_init"
  BY DEF RegisterFsInit, At
<1>2. letter[drv[Boot]] \in {"C", "E"}
  BY <1>1 DEF CallersInv, BootInv
<1>3. CASE letter[drv[Boot]] \in scenario.disk
  <2>1. x = TRUE
    BY <1>3, Zenon
  <2>2. QED
    BY <1>3, <2>1, Zenon
<1>4. CASE letter[drv[Boot]] \notin scenario.disk
  <2>1. MayFail(Boot)
    BY <1>2, <1>4 DEF MayFail
  <2>2. x = FALSE
    <3>1. (letter[drv[Boot]] \in scenario.disk) = FALSE
      BY <1>4
    <3>2. QED
      BY <3>1, Zenon
  <2>3. QED
    BY <1>4, <2>1, <2>2, Zenon
<1>5. QED
  BY <1>3, <1>4

-----------------------------------------------------------------------------
(***************************************************************************)
(* The list                                                                *)
(***************************************************************************)

\* A step that moves no pointer and holds what was held.
LEMMA ListKept ==
  ASSUME ListInv, UNCHANGED <<scenario, head, next>>, Held' = Held,
         \A u \in Registrars :
           /\ pc'[u] \in {"ll_init", "fs_init"} => drv'[u] \in live'
           /\ pc'[u] = "unlink" => MayFail(u) /\ drv'[u] \notin live'
           /\ pc'[u] # "idle" => pc[u] # "idle" /\ drv'[u] = drv[u] /\ prev'[u] = prev[u]
  PROVE  ListInv'
<1>1. \A e : Walk(e)' = Walk(e)
  BY DEF Walk
<1>2. Listed' = Listed
  BY DEF Listed, Walk
<1>3. HeldChain'
  BY <1>1, <1>2 DEF ListInv, HeldChain
<1>4. \A u : MayFail(u)' <=> MayFail(u)
  BY DEF MayFail
<1>5. ASSUME NEW u \in Registrars, pc'[u] # "idle", MayFail(u)
      PROVE  Tail(drv[u], prev[u])'
  <2>1. Tail(drv[u], prev[u]) /\ drv'[u] = drv[u] /\ prev'[u] = prev[u]
    BY <1>5 DEF ListInv
  <2>2. QED
    BY <2>1 DEF Tail
<1>6. QED
  BY <1>3, <1>4, <1>5 DEF ListInv

\* What is held does not change while nobody comes to or leaves "unlink" and nothing is freed.
LEMMA HeldSame ==
  ASSUME live' = live,
         \A u \in Tasks : /\ pc'[u] = "unlink" <=> pc[u] = "unlink"
                          /\ pc[u] = "unlink" => drv'[u] = drv[u]
  PROVE  Held' = Held
BY DEF Held

LEMMA ListLLInit ==
  ASSUME TypeInv, ListInv, scenario' = scenario, NEW t \in Registrars, RegisterLLInit(t, TRUE)
  PROVE  ListInv'
<1>1. /\ pc[t] = "ll_init" /\ pc' = [pc EXCEPT ![t] = "fs_init"]
      /\ UNCHANGED <<head, next, live, drv, prev>>
  BY DEF RegisterLLInit, At, Goto, locals
<1>2. \A u \in Tasks : pc'[u] = IF u = t THEN "fs_init" ELSE pc[u]
  BY <1>1 DEF TypeInv, TypeOK
<1>3. Held' = Held
  BY <1>1, <1>2, HeldSame
<1>4. Registrars \subseteq Tasks
  BY CalmConstants
<1>5. ASSUME NEW u \in Registrars
      PROVE  /\ pc'[u] \in {"ll_init", "fs_init"} => drv'[u] \in live'
             /\ pc'[u] = "unlink" => MayFail(u) /\ drv'[u] \notin live'
             /\ pc'[u] # "idle" => pc[u] # "idle" /\ drv'[u] = drv[u] /\ prev'[u] = prev[u]
  BY <1>1, <1>2, <1>4 DEF ListInv
<1>6. QED
  BY <1>1, <1>3, <1>5, ListKept

LEMMA ReturnLocals ==
  ASSUME TypeInv, NEW t \in Tasks, Return(t)
  PROVE  \A u \in Tasks : /\ pc'[u] = IF u = t THEN "idle" ELSE pc[u]
                          /\ u # t => drv'[u] = drv[u] /\ prev'[u] = prev[u]
BY DEF Return, Goto, TypeInv, TypeOK

LEMMA ListFsInit ==
  ASSUME TypeInv, ListInv, scenario' = scenario, NEW t \in Registrars, RegisterFsInit(t, TRUE)
  PROVE  ListInv'
<1>1. pc[t] = "fs_init" /\ Return(t) /\ UNCHANGED <<head, next, live>>
  BY DEF RegisterFsInit, At
<1>2. t \in Tasks /\ Registrars \subseteq Tasks
  BY CalmConstants
<1>3. \A u \in Tasks : /\ pc'[u] = IF u = t THEN "idle" ELSE pc[u]
                       /\ u # t => drv'[u] = drv[u] /\ prev'[u] = prev[u]
  BY <1>1, <1>2, ReturnLocals
<1>4. Held' = Held
  BY <1>1, <1>3, HeldSame
<1>5. ASSUME NEW u \in Registrars
      PROVE  /\ pc'[u] \in {"ll_init", "fs_init"} => drv'[u] \in live'
             /\ pc'[u] = "unlink" => MayFail(u) /\ drv'[u] \notin live'
             /\ pc'[u] # "idle" => pc[u] # "idle" /\ drv'[u] = drv[u] /\ prev'[u] = prev[u]
  BY <1>1, <1>2, <1>3 DEF ListInv
<1>6. QED
  BY <1>1, <1>4, <1>5, ListKept

\* Other registrations are at rest while one that may fail is under way.
LEMMA OthersIdle ==
  ASSUME UsbType, SlotsInv, Orderly, CallersInv, DoomInv,
         NEW t \in Registrars, MayFail(t), Busy(t), NEW u \in Registrars, u # t
  PROVE  pc[u] = "idle" /\ ~Busy(u)
BY Alone, WhoActs

LEMMA ListFails ==
  ASSUME TypeInv, UsbType, SlotsInv, Orderly, CallersInv, DoomInv, ListInv, scenario' = scenario,
         NEW t \in Registrars, MayFail(t), RegisterFsInit(t, FALSE)
  PROVE  /\ ListInv' /\ live' = live \ {drv[t]} /\ UNCHANGED <<head, next, letter, drv, prev>>
         /\ mounted' = mounted \ {drv[t]} /\ pc' = [pc EXCEPT ![t] = "unlink"]
<1>1. /\ pc[t] = "fs_init" /\ pc' = [pc EXCEPT ![t] = "unlink"]
      /\ UNCHANGED <<head, next, letter, drv, prev>>
      /\ live' = live \ {drv[t]} /\ mounted' = mounted \ {drv[t]}
  BY DEF RegisterFsInit, At, Goto, locals, FreeDriver
<1>2. t \in Tasks /\ Registrars \subseteq Tasks
  BY CalmConstants
<1>3. \A u \in Tasks : pc'[u] = IF u = t THEN "unlink" ELSE pc[u]
  BY <1>1 DEF TypeInv, TypeOK
<1>4. \A u \in Registrars : u # t => pc[u] = "idle"
  BY <1>1, WhoActs, OthersIdle
<1>5. drv[t] \in live
  BY <1>1 DEF ListInv
<1>6. Held' = Held
  <2>1. \A u \in Tasks : pc[u] # "unlink"
    BY <1>1, <1>4, WhoActs
  <2>2. {u \in Tasks : pc'[u] = "unlink"} = {t}
    BY <1>2, <1>3, <2>1
  <2>3. Held' = live' \cup {drv'[t]}
    BY <2>2 DEF Held
  <2>4. Held = live
    BY <2>1 DEF Held
  <2>5. QED
    BY <1>1, <1>5, <2>3, <2>4
<1>7. ASSUME NEW u \in Registrars
      PROVE  /\ pc'[u] \in {"ll_init", "fs_init"} => drv'[u] \in live'
             /\ pc'[u] = "unlink" => MayFail(u) /\ drv'[u] \notin live'
             /\ pc'[u] # "idle" => pc[u] # "idle" /\ drv'[u] = drv[u] /\ prev'[u] = prev[u]
  BY <1>1, <1>2, <1>3, <1>4
<1>8. QED
  BY <1>1, <1>6, <1>7, ListKept

LEMMA HeldIsLive ==
  ASSUME Held = live
  PROVE  HeldChain <=> Connected /\ Chain
BY DEF HeldChain, Connected, Chain, Ends, Live

LEMMA HeldIsLivePrimed ==
  ASSUME Held' = live', Connected', Chain'
  PROVE  HeldChain'
BY DEF HeldChain, Connected, Chain, Ends, Live

\* The new driver is the end of the list, and nothing is on it that was freed.
LEMMA ListRegister ==
  ASSUME TypeInv, UsbType, SlotsInv, Orderly, CallersInv, DoomInv, ListInv, scenario' = scenario,
         NEW t \in Registrars, NEW c \in Chars, Busy(t), Register(t, c)
  PROVE  ListInv' /\ Held = live
<1>1. pc[t] = "idle" /\ pc' = [pc EXCEPT ![t] = "ll_init"]
  BY DEF Register, Goto
<1>2. t \in Tasks /\ Registrars \subseteq Tasks /\ None \notin Drivers
  BY CalmConstants
<1>3. \A u \in Registrars : MayFail(u) => pc[u] = "idle"
  BY <1>1, WhoActs, OthersIdle
<1>4. \A u \in Tasks : pc[u] # "unlink"
  BY <1>3, WhoActs DEF ListInv
<1>5. Held = live
  BY <1>4 DEF Held
<1>6. Connected /\ Chain
  BY <1>5, HeldIsLive DEF ListInv
<1>7. PICK d : /\ Appended(d) /\ drv' = [drv EXCEPT ![t] = d]
               /\ prev' = [prev EXCEPT ![t] = IF head = None THEN None ELSE Predecessor(None)]
  BY <1>2, RegisterAppends
<1>8. \A u \in Tasks : /\ pc'[u] = IF u = t THEN "ll_init" ELSE pc[u]
                       /\ drv'[u] = IF u = t THEN d ELSE drv[u]
                       /\ prev'[u] = IF u = t THEN IF head = None THEN None ELSE Predecessor(None)
                                     ELSE prev[u]
  BY <1>1, <1>7 DEF TypeInv, TypeOK
<1>9. Held' = live'
  BY <1>4, <1>8 DEF Held
<1>10. HeldChain'
  BY <1>6, <1>7, <1>9, AppendedChain, AppendedConnected, HeldIsLivePrimed
<1>11. /\ d \in Drivers /\ d \notin live /\ live' = live \cup {d}
       /\ head' = IF head = None THEN d ELSE head
       /\ next'[d] = None
       /\ \A e \in live : next'[e] = IF e \in Ends THEN d ELSE next[e]
       /\ live = {} <=> head = None
  BY <1>6, <1>7, AppendedNext DEF Appended
<1>12. \A e \in live : next[e] \in live \cup {None}
  BY <1>6 DEF Connected, Live
<1>13. Tail(drv[t], prev[t])'
  <2>1. drv'[t] = d /\ d \in Held' /\ next'[d] = None
    BY <1>2, <1>8, <1>9, <1>11
  <2>2. CASE head = None
    <3>1. live' = {d} /\ prev'[t] = None /\ head' = d
      BY <1>2, <1>8, <1>11, <2>2
    <3>2. QED
      BY <1>2, <1>9, <1>11, <2>1, <3>1 DEF Tail
  <2>3. CASE head # None
    <3>1. PICK z \in live : z = Predecessor(None) /\ Ends = {z}
      BY <1>6, <2>3, EndFound
    <3>2. z # d /\ z # None /\ next'[z] = d /\ prev'[t] = z
      BY <1>2, <1>8, <1>11, <2>3, <3>1 DEF TypeInv, TypeOK
    <3>3. \A e \in Held' : next'[e] = d => e = z
      BY <1>2, <1>9, <1>11, <1>12, <3>1
    <3>4. head' # d
      BY <1>6, <1>11, <2>3 DEF Connected, Live
    <3>5. QED
      BY <1>9, <1>11, <2>1, <3>2, <3>3, <3>4 DEF Tail
  <2>4. QED
    BY <2>2, <2>3
<1>14. ASSUME NEW u \in Registrars
       PROVE  /\ pc'[u] \in {"ll_init", "fs_init"} => drv'[u] \in live'
              /\ pc'[u] # "unlink"
              /\ pc'[u] # "idle" /\ MayFail(u)' => Tail(drv[u], prev[u])'
  <2>1. CASE u = t
    BY <1>2, <1>8, <1>11, <1>13, <2>1
  <2>2. CASE u # t
    <3>1. MayFail(u)' => pc'[u] = "idle"
      BY <1>2, <1>3, <1>8, <2>2 DEF MayFail
    <3>2. QED
      BY <1>2, <1>4, <1>8, <1>11, <2>2, <3>1 DEF ListInv
  <2>3. QED
    BY <2>1, <2>2
<1>15. QED
  BY <1>5, <1>10, <1>14 DEF ListInv

-----------------------------------------------------------------------------
\* Taking the end of the list away: the rest of it is as it was, and p ends it.
LEMMA TailRemoved ==
  ASSUME TypeInv, HeldChain, Held \subseteq Drivers, NEW d, NEW p, Tail(d, p),
         next' = IF p # None THEN [next EXCEPT ![p] = None] ELSE next,
         head' = IF p # None THEN head ELSE None,
         Held' = Held \ {d}
  PROVE  HeldChain'
<1>0. None \notin Drivers /\ next \in [Drivers -> Drivers \cup {None}]
  BY FileIOAssumption DEF TypeInv, TypeOK, Pointer
<1>1. CASE p = None
  <2>1. Held' = {} /\ head' = None
    BY <1>1 DEF Tail
  <2>2. QED
    BY <2>1 DEF HeldChain
<1>2. CASE p # None
  <2>1. /\ d \in Held /\ next[d] = None /\ p \in Held /\ p # d /\ next[p] = d /\ head # d
        /\ \A e \in Held : next[e] = d => e = p
    BY <1>2 DEF Tail
  <2>2. head' = head /\ \A e \in Held : next'[e] = IF e = p THEN None ELSE next[e]
    BY <1>0, <1>2
  <2>3. head \in Held \ {d}
    <3>1. head \in Held \cup {None}
      BY DEF HeldChain
    <3>2. head # None
      <4>1. ASSUME head = None PROVE Listed \subseteq {}
        <5>1. {} \in SUBSET Drivers /\ head \in {} \cup {None}
              /\ \A e \in {} : next[e] \in {} \cup {None}
          BY <4>1
        <5>2. QED
          BY <5>1 DEF Listed, Walk
      <4>2. QED
        BY <2>1, <4>1 DEF HeldChain
    <3>3. QED
      BY <2>1, <3>1, <3>2
  <2>4. \A e \in Held' : next'[e] \in Held' \cup {None}
    BY <2>1, <2>2 DEF HeldChain
  <2>5. ASSUME NEW e \in Held \ {d}
        PROVE  Walk(e) \ {d} \subseteq Walk(e)' /\ p \in Walk(e)
    <3>1. ASSUME NEW S \in SUBSET Drivers, e \in S \cup {None},
                 \A g \in S : next'[g] \in S \cup {None}
          PROVE  Walk(e) \ {d} \subseteq S
      <4> DEFINE T == (S \cap Held) \cup {d}
      <4>1. T \in SUBSET Drivers /\ e \in T \cup {None}
        BY <1>0, <2>1, <3>1
      <4>2. \A g \in T : next[g] \in T \cup {None}
        BY <2>1, <2>2, <3>1 DEF HeldChain
      <4> HIDE DEF T
      <4>3. Walk(e) \subseteq T
        BY <4>1, <4>2, WalkLeast
      <4>4. QED
        BY <4>3 DEF T
    <3>2. Walk(e) \ {d} \subseteq Drivers
      BY DEF Walk
    <3>3. Walk(e) \ {d} \subseteq Walk(e)'
      BY <3>1, <3>2 DEF Walk
    <3>4. ASSUME p \notin Walk(e) PROVE FALSE
      <4> DEFINE T == (Walk(e) \cap Held) \ {d}
      <4>1. T \in SUBSET Drivers /\ e \in T
        BY <1>0, WalkStart
      <4>2. \A g \in T : next[g] \in T \cup {None}
        BY <2>1, <3>4, WalkClosed DEF HeldChain
      <4> HIDE DEF T
      <4>3. Walk(e) \subseteq T
        BY <4>1, <4>2, WalkLeast
      <4>4. d \in Walk(e)
        BY <2>1 DEF HeldChain
      <4>5. QED
        BY <4>3, <4>4 DEF T
    <3>5. QED
      BY <3>3, <3>4
  <2>6. Held' \subseteq Listed'
    <3>1. PICK h \in Held \ {d} : h = head
      BY <2>3
    <3>2. Listed = Walk(h) /\ Listed' = Walk(h)'
      BY <2>2, <3>1 DEF Listed, Walk
    <3>3. QED
      BY <2>5, <3>2 DEF HeldChain
  <2>7. p \in Held' /\ next'[p] = None
    BY <2>1, <2>2
  <2>8. ASSUME NEW e \in Held', NEW w \in Held', next'[w] = None
        PROVE  w \in Walk(e)'
    <3>1. CASE w = p
      BY <2>1, <2>5, <3>1
    <3>2. CASE w # p
      <4>1. next[w] = None /\ w \in Held
        BY <2>2, <2>8, <3>2
      <4>2. w \in Walk(e) \ {d}
        BY <2>8, <4>1 DEF HeldChain
      <4>3. QED
        BY <2>5, <4>2
    <3>3. QED
      BY <3>1, <3>2
  <2>9. QED
    BY <2>2, <2>3, <2>4, <2>6, <2>7, <2>8 DEF HeldChain
<1>3. QED
  BY <1>1, <1>2

LEMMA HeldDrivers ==
  ASSUME TypeInv
  PROVE  Held \subseteq Drivers
BY DEF TypeInv, TypeOK, Held

\* The clean-up of a failed registration takes its own driver off the list and nothing else.
LEMMA ListUnlink ==
  ASSUME TypeInv, UsbType, SlotsInv, Orderly, CallersInv, DoomInv, ListInv, scenario' = scenario,
         NEW t \in Registrars, RegisterUnlink(t)
  PROVE  ListInv' /\ MayFail(t) /\ Busy(t)
<1>1. pc[t] = "unlink" /\ Return(t) /\ UNCHANGED live
  BY DEF RegisterUnlink, At
<1>2. t \in Tasks /\ Registrars \subseteq Tasks
  BY CalmConstants
<1>3. MayFail(t) /\ Busy(t) /\ drv[t] \notin live /\ Tail(drv[t], prev[t])
  BY <1>1, WhoActs DEF ListInv
<1>4. \A u \in Tasks : /\ pc'[u] = IF u = t THEN "idle" ELSE pc[u]
                       /\ u # t => drv'[u] = drv[u] /\ prev'[u] = prev[u]
  BY <1>1, <1>2, ReturnLocals
<1>5. \A u \in Registrars : u # t => pc[u] = "idle"
  BY <1>3, OthersIdle
<1>6. Held = live \cup {drv[t]}
  BY <1>1, HeldWhile
<1>7. Held' = live'
  <2>1. \A u \in Tasks : pc'[u] # "unlink"
    BY <1>4, <1>5, WhoActs
  <2>2. QED
    BY <2>1 DEF Held
<1>8. HeldChain'
  <2>1. PICK d, p : d = drv[t] /\ p = prev[t]
    OBVIOUS
  <2>2. /\ next' = IF p # None THEN [next EXCEPT ![p] = None] ELSE next
        /\ head' = IF p # None THEN head ELSE None
    BY <2>1 DEF RegisterUnlink
  <2>3. Tail(d, p) /\ Held' = Held \ {d}
    BY <1>1, <1>3, <1>6, <1>7, <2>1
  <2>4. HeldChain /\ Held \subseteq Drivers
    BY HeldDrivers DEF ListInv
  <2>5. QED
    BY <2>2, <2>3, <2>4, TailRemoved
<1>9. \A u \in Registrars : pc'[u] = "idle"
  BY <1>2, <1>4, <1>5
<1>10. QED
  BY <1>3, <1>8, <1>9 DEF ListInv

-----------------------------------------------------------------------------
(***************************************************************************)
(* Doom                                                                    *)
(***************************************************************************)

LEMMA ListedHeld ==
  ASSUME TypeInv, HeldChain
  PROVE  Listed = Held
<1>1. Held \in SUBSET Drivers
  BY HeldDrivers
<1>2. Listed \subseteq Held
  BY <1>1, WalkLeast DEF Listed, HeldChain
<1>3. QED
  BY <1>2 DEF HeldChain

\* A mount task reads a FAT stick through the first drive of the slot's letter: its own, or one
\* that an earlier stick left behind.
LEMMA StickReads ==
  ASSUME TypeInv, UsbType, SlotsInv, Orderly, CallersInv, DoomInv, ListInv, SticksInv,
         scenario.sticks \subseteq scenario.fat, NEW m \in Mounters, pc[m] = "fs_init"
  PROVE  MountResults(m) = {TRUE}
<1>1. /\ MounterInv(m) /\ m \in Tasks /\ m \in Registrars /\ SticksRead /\ SticksFound
  BY CalmConstants DEF CallersInv, Registrars, SticksInv
<1>2. mount[m] = "fat" /\ drv[m] \in live
  BY <1>1 DEF MounterInv, ListInv
<1>3. PICK i \in MscSlots : i = param[m]
  BY <1>2 DEF UsbType
<1>4. /\ Taken(i) /\ letter[drv[m]] = SlotLetter[i] /\ llslot[drv[m]] = i
  BY <1>1, <1>2, <1>3 DEF MounterInv
<1>5. msc[i].addr \in scenario.fat
  BY <1>4 DEF SlotsInv, SlotsApart, UsbType
<1>6. FatLetter(m) = SlotLetter[i]
  BY <1>4, CalmConstants DEF FatLetter
<1>7. PICK d : d = FirstMatch(SlotLetter[i])
  OBVIOUS
<1>8. d \in Firsts(SlotLetter[i])
  <2>1. Firsts(SlotLetter[i]) # {}
    BY <1>1, <1>2, <1>4 DEF SticksFound
  <2>2. QED
    BY <1>7, <2>1, FirstMatchIs
<1>9. d \in Held /\ letter[d] = SlotLetter[i]
  BY <1>8, ListedHeld DEF ListInv, Firsts
<1>10. \A t \in Registrars : pc[t] # "idle" /\ drv[t] = d => t = m
  <2> SUFFICES ASSUME NEW t \in Registrars, pc[t] # "idle", drv[t] = d
               PROVE  t = m
    OBVIOUS
  <2>1. t # Boot
    BY <1>9, CalmConstants DEF CallersInv, BootInv
  <2>2. t \in Mounters
    BY <2>1 DEF Registrars
  <2>3. mount[t] # "none" /\ SlotLetter[param[t]] = SlotLetter[i]
    BY <1>9, <2>2 DEF CallersInv, MounterInv
  <2>4. param[t] = i
    BY <2>2, <2>3, CalmConstants DEF UsbType
  <2>5. QED
    BY <1>2, <1>3, <2>2, <2>3, <2>4 DEF CallersInv
<1>11. d \in live /\ ~Handleless(d)
  <2>1. ASSUME NEW t \in Tasks, pc[t] \in {"unlink", "ll_init"}, drv[t] = d
        PROVE  FALSE
    <3>1. t \in Registrars
      BY <2>1 DEF CallersInv, DoomInv
    <3>2. QED
      BY <1>10, <2>1, <3>1
  <2>2. QED
    BY <1>9, <2>1 DEF Held, Handleless
<1>12. llslot[d] = i
  BY <1>1, <1>4, <1>9, <1>10, <1>11, CalmConstants DEF SticksRead, Registrars
<1>13. d # None
  BY <1>11, CalmConstants DEF TypeInv, TypeOK
<1>14. QED
  BY <1>2, <1>5, <1>6, <1>7, <1>11, <1>12, <1>13 DEF MountResults

LEMMA MountFails ==
  ASSUME TypeInv, UsbType, SlotsInv, Orderly, CallersInv, DoomInv, ListInv, SticksInv,
         NEW m \in Mounters, MountFsInit(m)
  PROVE  /\ pc[m] = "fs_init" /\ mount[m] \in {"fat", "fatx"}
         /\ \/ /\ RegisterFsInit(m, TRUE)
               /\ mount' = [mount EXCEPT ![m] = "none"]
            \/ /\ MayFail(m) /\ RegisterFsInit(m, FALSE)
               /\ mount' = mount
<1>1. pc[m] = "fs_init" /\ mount[m] \in {"fat", "fatx"}
  BY DEF MountFsInit
<1>2. PICK result \in MountResults(m) :
        /\ RegisterFsInit(m, result)
        /\ mount' = [mount EXCEPT ![m] = IF result THEN "none" ELSE @]
  BY DEF MountFsInit
<1>3. CASE result
  <2>1. RegisterFsInit(m, TRUE)
    BY <1>2, <1>3 DEF RegisterFsInit
  <2>2. mount' = [mount EXCEPT ![m] = "none"]
    BY <1>2, <1>3
  <2>3. QED
    BY <1>1, <2>1, <2>2
<1>4. CASE ~result
  <2>1. RegisterFsInit(m, FALSE)
    BY <1>2, <1>4 DEF RegisterFsInit
  <2>2. mount' = mount
    BY <1>2, <1>4 DEF UsbType
  <2>3. ASSUME scenario.sticks \subseteq scenario.fat
        PROVE  FALSE
    <3>1. MountResults(m) = {TRUE}
      BY <1>1, <2>3, StickReads
    <3>2. result = TRUE
      BY <1>2, <3>1
    <3>3. QED
      BY <1>4, <3>2
  <2>4. MayFail(m)
    BY <2>3 DEF MayFail
  <2>5. QED
    BY <1>1, <2>1, <2>2, <2>4
<1>5. QED
  BY <1>3, <1>4

LEMMA CalmStep ==
  ASSUME TypeInv, UsbType, SlotsInv, Orderly, CallersInv, DoomInv, ListInv, SticksInv, MNext
  PROVE  CalmAccess
<1>1. CASE BootStep
  <2>1. CASE UNCHANGED vars
    BY <2>1 DEF CalmAccess
  <2>2. CASE boot \in {"C", "E"} /\ Register(Boot, boot)
    <3>1. Boot \in Registrars /\ boot \in Chars /\ Busy(Boot)
      BY <2>2, CalmConstants DEF Registrars, Busy
    <3>2. QED
      BY <2>2, <3>1 DEF CalmAccess
  <2>3. QED
    BY <1>1, <2>1, <2>2 DEF BootStep
<1>2. CASE BootInit
  <2>1. Boot \in Registrars
    BY DEF Registrars
  <2>2. CASE RegisterLLInit(Boot, TRUE) \/ RegisterUnlink(Boot)
    BY <2>1, <2>2 DEF CalmAccess
  <2>3. CASE RegisterFsInit(Boot, letter[drv[Boot]] \in scenario.disk)
    <3>1. RegisterFsInit(Boot, TRUE) \/ (MayFail(Boot) /\ RegisterFsInit(Boot, FALSE))
      BY <2>3, BootFails
    <3>2. QED
      BY <2>1, <3>1 DEF CalmAccess
  <2>4. QED
    BY <1>2, <2>2, <2>3 DEF BootInit
<1>3. CASE DoomStep
  BY <1>3 DEF CalmAccess
<1>4. ASSUME NEW a \in Devices, tuh_msc_mount_cb(a) \/ tuh_msc_umount_cb(a)
      PROVE  CalmAccess
  BY <1>4 DEF tuh_msc_mount_cb, tuh_msc_umount_cb, CalmAccess
<1>5. ASSUME NEW m \in Mounters, MountStep(m)
      PROVE  CalmAccess
  <2>1. m \in Registrars /\ MounterInv(m) /\ want[m] \in Chars /\ m # Boot
    BY CalmConstants DEF Registrars, CallersInv, UsbType
  <2>2. CASE MountStart(m)
    BY <2>2 DEF MountStart, CalmAccess
  <2>3. CASE MountRegister(m)
    <3>1. Busy(m) /\ Register(m, want[m])
      BY <2>1, <2>3 DEF MountRegister, Busy
    <3>2. QED
      BY <2>1, <3>1 DEF CalmAccess
  <2>4. CASE usb_disk_init(m)
    BY <2>1, <2>4, DiskFound DEF CalmAccess
  <2>5. CASE MountFsInit(m)
    BY <2>1, <2>5, MountFails DEF CalmAccess
  <2>6. CASE MountFailed(m)
    BY <2>1, <2>6 DEF MountFailed, CalmAccess
  <2>7. QED
    BY <1>5, <2>2, <2>3, <2>4, <2>5, <2>6 DEF MountStep
<1>6. QED
  BY <1>1, <1>2, <1>3, <1>4, <1>5 DEF MNext

\* The drivers of registrations under way are not on E, once boot is done.
LEMMA OtherLetters ==
  ASSUME UsbType, CallersInv, DoomInv, boot = "done",
         NEW t \in Registrars, pc[t] # "idle"
  PROVE  t \in Mounters /\ letter[drv[t]] # "E" /\ mount[t] # "none"
<1>1. t # Boot
  BY DEF CallersInv, BootInv
<1>2. t \in Mounters
  BY <1>1 DEF Registrars
<1>3. mount[t] # "none" /\ letter[drv[t]] = SlotLetter[param[t]]
  BY <1>2 DEF CallersInv, MounterInv
<1>4. param[t] \in MscSlots
  BY <1>2, <1>3 DEF UsbType
<1>5. QED
  BY <1>2, <1>3, <1>4, CalmConstants

\* What is found under E is allocated, also while a freed block is on the list.
LEMMA FoundE ==
  ASSUME TypeInv, UsbType, CallersInv, DoomInv, ListInv, boot = "done", FirstMatch("E") # None
  PROVE  FirstMatch("E") \in live /\ letter[FirstMatch("E")] = "E"
<1>1. FirstMatch("E") \in Listed /\ letter[FirstMatch("E")] = "E"
  BY DEF FirstMatch
<1>2. FirstMatch("E") \in Held
  BY <1>1, ListedHeld DEF ListInv
<1>3. \A t \in Tasks : pc[t] = "unlink" => letter[drv[t]] # "E"
  BY OtherLetters, WhoActs
<1>4. QED
  BY <1>1, <1>2, <1>3 DEF Held

LEMMA DoomOpens ==
  ASSUME TypeInv, UsbType, CallersInv, DoomInv, ListInv, boot = "done", boot' = boot,
         NEW s \in Slots, OpenFind(Doom, "E", s)
  PROVE  DoomInv'
<1>1. fileio_find_driver("E") = FirstMatch("E")
  BY CalmConstants DEF fileio_find_driver
<1>2. FirstMatch("E") # None
  BY <1>1 DEF OpenFind
<1>3. FirstMatch("E") \in live /\ letter[FirstMatch("E")] = "E"
  BY <1>2, FoundE
<1>4. drv'[Doom] = FirstMatch("E") /\ pc'[Doom] = "take"
  BY <1>1, CalmConstants DEF OpenFind, Goto, TypeInv, TypeOK
<1>5. UNCHANGED <<live, letter, files>>
  BY DEF OpenFind, registry
<1>6. QED
  BY <1>3, <1>4, <1>5 DEF DoomInv

LEMMA DoomCalls ==
  ASSUME TypeInv, DoomInv, boot' = boot,
         NEW s \in Slots, NEW o \in Ops, CallOnFile(Doom, s, o)
  PROVE  DoomInv'
<1>1. files[Doom][s] # None
  BY DEF CallOnFile
<1>2. boot = "done" /\ files[Doom][s] \in live /\ letter[files[Doom][s]] = "E"
  BY <1>1, CalmConstants DEF DoomInv
<1>3. drv'[Doom] = files[Doom][s] /\ pc'[Doom] \in {"take", "in_fs"}
  BY CalmConstants DEF CallOnFile, Goto, TypeInv, TypeOK
<1>4. UNCHANGED <<live, letter, files>>
  BY DEF CallOnFile, registry
<1>5. QED
  BY <1>2, <1>3, <1>4 DEF DoomInv

LEMMA DoomGives ==
  ASSUME TypeInv, DoomInv, boot' = boot, GiveMutex(Doom)
  PROVE  DoomInv'
<1>1. pc[Doom] = "give" /\ Return(Doom) /\ UNCHANGED <<live, letter>>
  BY DEF GiveMutex, At, registry
<1>2. boot = "done" /\ drv[Doom] \in live /\ letter[drv[Doom]] = "E"
  BY <1>1 DEF DoomInv
<1>3. pc'[Doom] = "idle"
  BY <1>1, CalmConstants, ReturnLocals
<1>4. \A s \in Slots : files'[Doom][s] \in {files[Doom][s], drv[Doom], None}
  BY CalmConstants DEF GiveMutex, TypeInv, TypeOK
<1>5. \A t \in Tasks : t # Doom => files'[t] = files[t]
  BY CalmConstants DEF GiveMutex, TypeInv, TypeOK
<1>6. ASSUME NEW t \in Tasks, NEW s \in Slots, files'[t][s] # None
      PROVE  /\ t = Doom /\ boot' = "done"
             /\ files'[t][s] \in live' /\ letter'[files'[t][s]] = "E"
  <2>1. CASE t = Doom
    <3>1. files'[Doom][s] \in {files[Doom][s], drv[Doom]}
      BY <1>4, <1>6, <2>1
    <3>2. CASE files'[Doom][s] = drv[Doom]
      BY <1>1, <1>2, <2>1, <3>2
    <3>3. CASE files'[Doom][s] = files[Doom][s]
      BY <1>1, <1>6, <2>1, <3>3 DEF DoomInv
    <3>4. QED
      BY <3>1, <3>2, <3>3
  <2>2. CASE t # Doom
    BY <1>5, <1>6, <2>2 DEF DoomInv
  <2>3. QED
    BY <2>1, <2>2
<1>7. QED
  BY <1>3, <1>6 DEF DoomInv

LEMMA DoomReturns ==
  ASSUME TypeInv, DoomInv, boot' = boot, FsStep(Doom) \/ TakeMutex(Doom)
  PROVE  DoomInv'
<1>1. UNCHANGED <<live, letter, files>>
  BY DEF FsStep, FsReturn, TakeMutex, registry
<1>2. CASE TakeMutex(Doom)
  <2>1. pc[Doom] = "take" /\ pc'[Doom] = "in_fs" /\ drv' = drv
    BY <1>2, CalmConstants DEF TakeMutex, At, Goto, locals, TypeInv, TypeOK
  <2>2. QED
    BY <1>1, <2>1 DEF DoomInv
<1>3. CASE FsStep(Doom)
  <2>1. pc[Doom] = "in_fs" /\ (pc'[Doom] = "idle" \/ (pc'[Doom] = "give" /\ drv' = drv))
    BY <1>3, CalmConstants, ReturnLocals DEF FsStep, FsReturn, At, Goto, TypeInv, TypeOK
  <2>2. QED
    BY <1>1, <2>1 DEF DoomInv
<1>4. QED
  BY <1>2, <1>3

\* Doom's steps leave the registry and everybody else alone.
LEMMA DoomAccess ==
  ASSUME TypeInv, UsbType, CallersInv, DoomInv, ListInv, DoomStep
  PROVE  /\ DoomInv'
         /\ UNCHANGED <<head, next, live, letter, mounted, scenario, boot, usb>>
         /\ \A u \in Tasks : u # Doom =>
              pc'[u] = pc[u] /\ drv'[u] = drv[u] /\ prev'[u] = prev[u]
<1>1. boot = "done" /\ UNCHANGED <<scenario, boot, usb>>
  BY DEF DoomStep
<1>2. DoomInv'
  BY <1>1, DoomOpens, DoomCalls, DoomGives, DoomReturns DEF DoomStep
<1>3. UNCHANGED <<head, next, live, letter, mounted>>
  BY DEF DoomStep, OpenFind, CallOnFile, TakeMutex, FsStep, FsReturn, GiveMutex, registry
<1>4. ASSUME NEW u \in Tasks, u # Doom
      PROVE  pc'[u] = pc[u] /\ drv'[u] = drv[u] /\ prev'[u] = prev[u]
  <2>1. ASSUME NEW s \in Slots, OpenFind(Doom, "E", s)
        PROVE  pc'[u] = pc[u] /\ drv'[u] = drv[u] /\ prev'[u] = prev[u]
    BY <1>4, <2>1, CalmConstants DEF OpenFind, Goto, TypeInv, TypeOK
  <2>2. ASSUME NEW s \in Slots, NEW o \in Ops, CallOnFile(Doom, s, o)
        PROVE  pc'[u] = pc[u] /\ drv'[u] = drv[u] /\ prev'[u] = prev[u]
    BY <1>4, <2>2, CalmConstants DEF CallOnFile, Goto, TypeInv, TypeOK
  <2>3. CASE TakeMutex(Doom)
    BY <1>4, <2>3, CalmConstants DEF TakeMutex, Goto, locals, TypeInv, TypeOK
  <2>4. CASE FsStep(Doom)
    <3>1. CASE Return(Doom)
      BY <1>4, <3>1, CalmConstants, ReturnLocals
    <3>2. CASE Goto(Doom, "give") /\ UNCHANGED <<drv, prev>>
      BY <1>4, <3>2, CalmConstants DEF Goto, TypeInv, TypeOK
    <3>3. QED
      BY <2>4, <3>1, <3>2 DEF FsStep, FsReturn
  <2>5. CASE GiveMutex(Doom)
    BY <1>4, <2>5, CalmConstants, ReturnLocals DEF GiveMutex
  <2>6. QED
    BY <2>1, <2>2, <2>3, <2>4, <2>5 DEF DoomStep
<1>5. QED
  BY <1>1, <1>2, <1>3, <1>4

LEMMA ListDoom ==
  ASSUME TypeInv, UsbType, CallersInv, DoomInv, ListInv, DoomStep
  PROVE  ListInv'
<1>1. /\ UNCHANGED <<head, next, live, scenario>>
      /\ \A u \in Tasks : u # Doom =>
           pc'[u] = pc[u] /\ drv'[u] = drv[u] /\ prev'[u] = prev[u]
  BY DoomAccess
<1>2. Doom \in Tasks /\ Registrars \subseteq Tasks /\ Doom \notin Registrars
  BY CalmConstants
<1>3. pc[Doom] # "unlink" /\ pc'[Doom] # "unlink"
  BY DoomAccess DEF DoomInv
<1>4. Held' = Held
  BY <1>1, <1>3, HeldSame
<1>5. ASSUME NEW u \in Registrars
      PROVE  /\ pc'[u] \in {"ll_init", "fs_init"} => drv'[u] \in live'
             /\ pc'[u] = "unlink" => MayFail(u) /\ drv'[u] \notin live'
             /\ pc'[u] # "idle" => pc[u] # "idle" /\ drv'[u] = drv[u] /\ prev'[u] = prev[u]
  BY <1>1, <1>2 DEF ListInv
<1>6. QED
  BY <1>1, <1>4, <1>5, ListKept

\* The list in every step of a calm scenario.
LEMMA ListStep ==
  ASSUME TypeInv, UsbType, SlotsInv, Orderly, CallersInv, DoomInv, ListInv, scenario' = scenario,
         CalmAccess
  PROVE  ListInv'
<1>1. CASE UNCHANGED vars
  <2>1. Held' = Held
    BY <1>1 DEF vars, Held
  <2>2. QED
    BY <1>1, <2>1, ListKept DEF vars, ListInv
<1>2. ASSUME NEW t \in Registrars, NEW c \in Chars, Busy(t), Register(t, c)
      PROVE  ListInv'
  BY <1>2, ListRegister
<1>3. ASSUME NEW t \in Registrars, RegisterLLInit(t, TRUE) \/ RegisterFsInit(t, TRUE)
      PROVE  ListInv'
  BY <1>3, ListLLInit, ListFsInit
<1>4. ASSUME NEW t \in Registrars, MayFail(t), RegisterFsInit(t, FALSE)
      PROVE  ListInv'
  BY <1>4, ListFails
<1>5. ASSUME NEW t \in Registrars, RegisterUnlink(t)
      PROVE  ListInv'
  BY <1>5, ListUnlink
<1>6. CASE DoomStep
  BY <1>6, ListDoom
<1>7. QED
  BY <1>1, <1>2, <1>3, <1>4, <1>5, <1>6 DEF CalmAccess

\* What Register does to the rest of the state.
LEMMA Registered ==
  ASSUME TypeInv, NEW t \in Registrars, NEW c \in Chars, Register(t, c)
  PROVE  \E d \in Drivers \ live :
           /\ live' = live \cup {d} /\ Appended(d)
           /\ letter' = [letter EXCEPT ![d] = Upper[c]]
           /\ letter'[d] = Upper[c] /\ \A e \in live : letter'[e] = letter[e]
           /\ pc[t] = "idle" /\ UNCHANGED <<mounted, files>>
           /\ \A u \in Tasks : /\ pc'[u] = IF u = t THEN "ll_init" ELSE pc[u]
                               /\ drv'[u] = IF u = t THEN d ELSE drv[u]
<1>1. t \in Tasks
  BY CalmConstants
<1>2. PICK d : /\ Appended(d) /\ letter' = [letter EXCEPT ![d] = Upper[c]]
               /\ drv' = [drv EXCEPT ![t] = d]
  BY <1>1, RegisterAppends
<1>3. d \in Drivers \ live /\ live' = live \cup {d}
  BY <1>2 DEF Appended
<1>4. letter'[d] = Upper[c] /\ \A e \in live : letter'[e] = letter[e]
  BY <1>2, <1>3 DEF TypeInv, TypeOK
<1>5. /\ pc[t] = "idle" /\ pc' = [pc EXCEPT ![t] = "ll_init"] /\ UNCHANGED <<mounted, files>>
  BY DEF Register, Goto
<1>6. \A u \in Tasks : /\ pc'[u] = IF u = t THEN "ll_init" ELSE pc[u]
                       /\ drv'[u] = IF u = t THEN d ELSE drv[u]
  BY <1>2, <1>5 DEF TypeInv, TypeOK
<1>7. QED
  BY <1>2, <1>3, <1>4, <1>5, <1>6

LEMMA DoomInvStep ==
  ASSUME TypeInv, UsbType, SlotsInv, Orderly, CallersInv, DoomInv, ListInv, scenario' = scenario,
         boot = "done" => boot' = "done", CalmAccess
  PROVE  DoomInv'
<1>0. Doom \in Tasks /\ Registrars \subseteq Tasks /\ Doom \notin Registrars
  BY CalmConstants
<1>1. CASE UNCHANGED vars
  BY <1>1 DEF vars, DoomInv
<1>2. ASSUME NEW t \in Registrars, NEW c \in Chars, Register(t, c)
      PROVE  DoomInv'
  <2>1. PICK d \in Drivers \ live :
           /\ live' = live \cup {d} /\ files' = files
           /\ \A e \in live : letter'[e] = letter[e]
           /\ \A u \in Tasks : /\ pc'[u] = IF u = t THEN "ll_init" ELSE pc[u]
                               /\ drv'[u] = IF u = t THEN d ELSE drv[u]
    BY <1>2, Registered
  <2>2. pc'[Doom] = pc[Doom] /\ drv'[Doom] = drv[Doom]
    BY <1>0, <2>1
  <2>3. QED
    BY <2>1, <2>2 DEF DoomInv
<1>3. ASSUME NEW t \in Registrars, RegisterLLInit(t, TRUE)
      PROVE  DoomInv'
  <2>1. pc'[Doom] = pc[Doom] /\ UNCHANGED <<live, letter, files, drv>>
    BY <1>0, <1>3 DEF RegisterLLInit, Goto, locals, TypeInv, TypeOK
  <2>2. QED
    BY <2>1 DEF DoomInv
<1>4. ASSUME NEW t \in Registrars, Return(t), UNCHANGED <<live, letter, files>>
      PROVE  DoomInv'
  <2>1. pc'[Doom] = pc[Doom] /\ drv'[Doom] = drv[Doom]
    BY <1>0, <1>4, ReturnLocals
  <2>2. QED
    BY <1>4, <2>1 DEF DoomInv
<1>5. ASSUME NEW t \in Registrars, MayFail(t), RegisterFsInit(t, FALSE)
      PROVE  DoomInv'
  <2>1. /\ live' = live \ {drv[t]} /\ UNCHANGED <<letter, drv, files>>
        /\ pc[t] = "fs_init" /\ pc'[Doom] = pc[Doom]
    BY <1>0, <1>5 DEF RegisterFsInit, At, Goto, FreeDriver, locals, TypeInv, TypeOK
  <2>2. boot = "done" => letter[drv[t]] # "E"
    BY <2>1, OtherLetters
  <2>3. \A e \in live : boot = "done" /\ letter[e] = "E" => e \in live'
    BY <2>1, <2>2
  <2>4. QED
    BY <2>1, <2>3 DEF DoomInv
<1>6. ASSUME NEW t \in Registrars, RegisterFsInit(t, TRUE) \/ RegisterUnlink(t)
      PROVE  DoomInv'
  <2>1. Return(t) /\ UNCHANGED <<live, letter, files>>
    BY <1>6 DEF RegisterFsInit, RegisterUnlink
  <2>2. QED
    BY <1>4, <2>1
<1>7. CASE DoomStep
  BY <1>7, DoomAccess
<1>8. QED
  BY <1>1, <1>2, <1>3, <1>5, <1>6, <1>7 DEF CalmAccess

-----------------------------------------------------------------------------
(***************************************************************************)
(* The callers                                                             *)
(***************************************************************************)

\* The steps of one registration.
Registers(t) ==
  \/ \E c \in Chars : Busy(t) /\ Register(t, c)
  \/ RegisterLLInit(t, TRUE)
  \/ RegisterFsInit(t, TRUE)
  \/ MayFail(t) /\ RegisterFsInit(t, FALSE)
  \/ RegisterUnlink(t)

\* What a registration leaves to the other tasks.
Spared(u) ==
  /\ pc'[u] = pc[u] /\ drv'[u] = drv[u]
  /\ pc[u] # "idle" /\ u \in Registrars => letter'[drv[u]] = letter[drv[u]]
  /\ live = Drivers /\ u \in Registrars /\ Busy(u) => live' = Drivers

LEMMA OthersSpared ==
  ASSUME TypeInv, UsbType, SlotsInv, Orderly, CallersInv, DoomInv, ListInv, scenario' = scenario,
         NEW t \in Registrars, Registers(t), NEW u \in Tasks, u # t
  PROVE  Spared(u)
<1>0. t \in Tasks /\ Registrars \subseteq Tasks
  BY CalmConstants
<1>1. ASSUME NEW c \in Chars, Busy(t), Register(t, c)
      PROVE  Spared(u)
  <2>1. PICK d \in Drivers \ live :
           /\ live' = live \cup {d} /\ files' = files
           /\ \A e \in live : letter'[e] = letter[e]
           /\ \A v \in Tasks : /\ pc'[v] = IF v = t THEN "ll_init" ELSE pc[v]
                               /\ drv'[v] = IF v = t THEN d ELSE drv[v]
    BY <1>1, Registered
  <2>2. ASSUME u \in Registrars, pc[u] # "idle"
        PROVE  drv[u] \in live
    <3>1. ~MayFail(u)
      BY <1>1, <2>2, Alone, WhoActs
    <3>2. QED
      BY <2>2, <3>1, WhoActs DEF ListInv
  <2>3. QED
    BY <1>0, <2>1, <2>2 DEF Spared
<1>2. CASE RegisterLLInit(t, TRUE)
  BY <1>0, <1>2 DEF RegisterLLInit, Goto, locals, TypeInv, TypeOK, Spared
<1>3. CASE RegisterFsInit(t, TRUE) \/ RegisterUnlink(t)
  <2>1. Return(t) /\ UNCHANGED <<live, letter>>
    BY <1>3 DEF RegisterFsInit, RegisterUnlink
  <2>2. QED
    BY <1>0, <2>1, ReturnLocals DEF Spared
<1>4. CASE MayFail(t) /\ RegisterFsInit(t, FALSE)
  <2>1. pc[t] = "fs_init"
    BY <1>4 DEF RegisterFsInit, At
  <2>2. u \in Registrars => ~Busy(u)
    BY <1>4, <2>1, OthersIdle, WhoActs
  <2>3. UNCHANGED <<letter, drv>> /\ pc' = [pc EXCEPT ![t] = "unlink"]
    BY <1>4, ListFails
  <2>4. pc'[u] = pc[u]
    BY <1>0, <2>3 DEF TypeInv, TypeOK
  <2>5. QED
    BY <2>2, <2>3, <2>4 DEF Spared
<1>5. QED
  BY <1>1, <1>2, <1>3, <1>4 DEF Registers

LEMMA UnchangedSpares ==
  ASSUME UNCHANGED vars, NEW u
  PROVE  Spared(u)
BY DEF vars, Spared

LEMMA DoomSpares ==
  ASSUME TypeInv, UsbType, CallersInv, DoomInv, ListInv, DoomStep, NEW u \in Tasks, u # Doom
  PROVE  Spared(u)
BY DoomAccess DEF Spared

\* A mount task another one's step does not concern.
LEMMA MounterKept ==
  ASSUME UsbType, NEW m \in Mounters, MounterInv(m), Spared(m), scenario' = scenario,
         mount'[m] = mount[m], param'[m] = param[m], want'[m] = want[m],
         mount[m] # "none" => Taken(param[m])',
         pc[m] = "fs_init" => llslot'[drv[m]] = llslot[drv[m]]
  PROVE  MounterInv(m)'
<1>1. m \in Registrars /\ m # Boot
  BY CalmConstants DEF Registrars
<1>2. Busy(m) <=> mount[m] # "none"
  BY <1>1 DEF Busy
<1>3. mount'[m] # "none" => Taken(param[m])'
  OBVIOUS
<1>4. mount'[m] \in {"fat", "fatx"} => want'[m] = SlotLetter[param'[m]]
  BY DEF MounterInv
<1>5. /\ pc'[m] \in {"idle", "ll_init", "fs_init", "unlink"}
      /\ pc'[m] # "idle" =>
           mount'[m] \in {"fat", "fatx"} /\ letter'[drv'[m]] = SlotLetter[param'[m]]
      /\ pc'[m] = "fs_init" => llslot'[drv'[m]] = param'[m]
  BY <1>1 DEF MounterInv, Spared
<1>6. mount'[m] = "fatx" /\ scenario'.sticks \subseteq scenario'.fat =>
        live' = Drivers /\ pc'[m] = "idle"
  BY <1>1, <1>2 DEF MounterInv, Spared
<1>7. QED
  BY <1>3, <1>4, <1>5, <1>6 DEF MounterInv

\* The boot task, likewise.
LEMMA BootKept ==
  ASSUME BootInv, Spared(Boot), UNCHANGED <<scenario, boot>>,
         Late => attached' = {} /\ \A m \in Mounters : mount'[m] = "none"
  PROVE  BootInv'
<1>1. Boot \in Registrars
  BY DEF Registrars
<1>2. pc'[Boot] = pc[Boot] /\ drv'[Boot] = drv[Boot]
      /\ (pc[Boot] # "idle" => letter'[drv[Boot]] = letter[drv[Boot]])
  BY <1>1 DEF Spared
<1>3. /\ pc'[Boot] \in {"idle", "ll_init", "fs_init", "unlink"}
      /\ pc'[Boot] # "idle" => \/ boot' = "E" /\ letter'[drv'[Boot]] = "C"
                               \/ boot' = "start" /\ letter'[drv'[Boot]] = "E"
      /\ pc'[Boot] = "unlink" => letter'[drv'[Boot]] \notin scenario'.disk
  BY <1>2 DEF BootInv
<1>4. Late' => attached' = {} /\ \A m \in Mounters : mount'[m] = "none"
  BY DEF Late
<1>5. QED
  BY <1>3, <1>4 DEF BootInv

\* Mount tasks have different slots, and the other tasks sleep: kept by a step of v.
LEMMA RestKept ==
  ASSUME CallersInv, NEW v \in Registrars \cup {Doom}, \A u \in Tasks : u # v => Spared(u),
         \A m \in Mounters : /\ mount'[m] # "none" => mount[m] # "none"
                             /\ param'[m] = param[m]
  PROVE  /\ \A m, n \in Mounters :
              mount'[m] # "none" /\ mount'[n] # "none" /\ param'[m] = param'[n] => m = n
         /\ \A t \in Tasks \ (Registrars \cup {Doom}) : pc'[t] = "idle"
<1>1. \A m, n \in Mounters :
        mount'[m] # "none" /\ mount'[n] # "none" /\ param'[m] = param'[n] => m = n
  BY DEF CallersInv
<1>2. \A t \in Tasks \ (Registrars \cup {Doom}) : pc'[t] = "idle"
  BY DEF CallersInv, Spared
<1>3. QED
  BY <1>1, <1>2

LEMMA SlotsKept ==
  ASSUME UNCHANGED <<msc, param>>, NEW m
  PROVE  Taken(param[m])' <=> Taken(param[m])
BY DEF Taken, EmptySlot

LEMMA CallersBoot ==
  ASSUME TypeInv, UsbType, SlotsInv, Orderly, CallersInv, DoomInv, ListInv, scenario' = scenario,
         BootStep \/ BootInit
  PROVE  CallersInv'
<1>0. /\ Boot \in Registrars /\ Boot \in Tasks /\ Boot \notin Mounters
      /\ Mounters \subseteq Tasks /\ Mounters \subseteq Registrars
  BY CalmConstants DEF Registrars
<1>1. UNCHANGED usb /\ UNCHANGED <<attached, msc, mount, param, want, llslot>>
  BY DEF BootStep, BootInit, usb
<1>2. \/ /\ boot \in {"C", "E"} /\ Register(Boot, boot)
         /\ boot' = IF boot = "C" THEN "E" ELSE "start"
      \/ boot # "done" /\ pc[Boot] = "idle" /\ UNCHANGED vars
      \/ BootInit /\ UNCHANGED boot
  BY DEF BootStep, BootInit
<1>3. \A u \in Tasks : u # Boot => Spared(u)
  <2>1. CASE boot \in {"C", "E"} /\ Register(Boot, boot)
    <3>1. Busy(Boot) /\ boot \in Chars
      BY <2>1, CalmConstants DEF Busy
    <3>2. Registers(Boot)
      BY <2>1, <3>1 DEF Registers
    <3>3. QED
      BY <1>0, <3>2, OthersSpared
  <2>2. CASE UNCHANGED vars
    BY <2>2, UnchangedSpares
  <2>3. CASE BootInit
    <3>1. Registers(Boot)
      BY <2>3, BootFails DEF BootInit, Registers
    <3>2. QED
      BY <1>0, <3>1, OthersSpared
  <2>4. QED
    BY <1>2, <2>1, <2>2, <2>3
<1>4. Late' => Late
  BY <1>2 DEF Late
<1>5. BootInv'
  <2>1. Late' => attached' = {} /\ \A m \in Mounters : mount'[m] = "none"
    BY <1>1, <1>4 DEF CallersInv, BootInv
  <2>2. CASE boot \in {"C", "E"} /\ Register(Boot, boot)
             /\ boot' = IF boot = "C" THEN "E" ELSE "start"
    <3>1. boot \in Chars /\ Upper[boot] = boot
      BY <2>2, CalmConstants
    <3>2. PICK d \in Drivers \ live :
             /\ letter'[d] = Upper[boot]
             /\ \A u \in Tasks : /\ pc'[u] = IF u = Boot THEN "ll_init" ELSE pc[u]
                                 /\ drv'[u] = IF u = Boot THEN d ELSE drv[u]
      BY <1>0, <2>2, <3>1, Registered
    <3>3. pc'[Boot] = "ll_init" /\ letter'[drv'[Boot]] = boot
      BY <1>0, <3>1, <3>2
    <3>4. QED
      BY <2>1, <2>2, <3>3 DEF BootInv
  <2>3. CASE boot # "done" /\ pc[Boot] = "idle" /\ UNCHANGED vars
    BY <2>1, <2>3 DEF BootInv, vars
  <2>4. CASE BootInit /\ UNCHANGED boot
    <3>1. CASE RegisterLLInit(Boot, TRUE)
      <4>1. pc[Boot] = "ll_init" /\ pc'[Boot] = "fs_init" /\ UNCHANGED <<drv, letter>>
        BY <1>0, <3>1 DEF RegisterLLInit, At, Goto, locals, TypeInv, TypeOK
      <4>2. QED
        BY <2>1, <2>4, <4>1 DEF CallersInv, BootInv
    <3>2. CASE RegisterUnlink(Boot) \/ RegisterFsInit(Boot, TRUE)
      <4>1. Return(Boot)
        BY <3>2 DEF RegisterUnlink, RegisterFsInit
      <4>2. pc'[Boot] = "idle"
        BY <1>0, <4>1, ReturnLocals
      <4>3. QED
        BY <2>1, <4>2 DEF BootInv
    <3>3. CASE letter[drv[Boot]] \notin scenario.disk /\ RegisterFsInit(Boot, FALSE)
      <4>1. pc[Boot] = "fs_init" /\ pc'[Boot] = "unlink" /\ UNCHANGED <<drv, letter>>
        BY <1>0, <3>3 DEF RegisterFsInit, At, Goto, locals, TypeInv, TypeOK
      <4>2. QED
        BY <2>1, <2>4, <3>3, <4>1 DEF CallersInv, BootInv
    <3>4. QED
      BY <2>4, <3>1, <3>2, <3>3, BootFails DEF BootInit
  <2>5. QED
    BY <1>2, <2>2, <2>3, <2>4
<1>6. ASSUME NEW m \in Mounters
      PROVE  MounterInv(m)'
  <2>1. MounterInv(m) /\ Spared(m)
    BY <1>0, <1>3 DEF CallersInv
  <2>2. mount[m] # "none" => Taken(param[m])'
    BY <1>1, <2>1, SlotsKept DEF MounterInv
  <2>3. QED
    BY <1>1, <2>1, <2>2, MounterKept
<1>7. QED
  BY <1>0, <1>1, <1>3, <1>5, <1>6, RestKept DEF CallersInv

LEMMA CallersDoom ==
  ASSUME TypeInv, UsbType, SlotsInv, Orderly, CallersInv, DoomInv, ListInv, DoomStep
  PROVE  CallersInv'
<1>0. Registrars \subseteq Tasks /\ Doom \notin Registrars /\ Boot \in Registrars
      /\ Mounters \subseteq Registrars
  BY CalmConstants DEF Registrars
<1>1. UNCHANGED <<scenario, boot, attached, msc, mount, param, want, llslot>>
  BY DEF DoomStep, usb
<1>2. \A u \in Tasks : u # Doom => Spared(u)
  BY DoomSpares
<1>3. BootInv'
  BY <1>0, <1>1, <1>2, BootKept DEF CallersInv, BootInv
<1>4. ASSUME NEW m \in Mounters
      PROVE  MounterInv(m)'
  <2>1. MounterInv(m) /\ Spared(m)
    BY <1>0, <1>2, <1>4 DEF CallersInv
  <2>2. mount[m] # "none" => Taken(param[m])'
    BY <1>1, <2>1, SlotsKept DEF MounterInv
  <2>3. QED
    BY <1>1, <2>1, <2>2, MounterKept
<1>5. QED
  BY <1>0, <1>1, <1>2, <1>3, <1>4, RestKept DEF CallersInv

\* A stick arrives: no other mount task has its slot.
LEMMA CallersArrival ==
  ASSUME UsbType, SlotsInv, CallersInv, scenario' = scenario,
         NEW a \in Devices, tuh_msc_mount_cb(a)
  PROVE  CallersInv'
<1>0. Registrars \subseteq Tasks /\ Boot \in Registrars /\ Mounters \subseteq Registrars
  BY CalmConstants DEF Registrars
<1> DEFINE free == {i \in MscSlots : msc[i].addr = None}
<1>1. /\ UNCHANGED <<boot, want, llslot>> /\ UNCHANGED vars
      /\ scenario.early \/ boot = "done"
  BY DEF tuh_msc_mount_cb, Arrives
<1>2. \A u : Spared(u)
  BY <1>1, UnchangedSpares
<1>3. ~Late
  BY <1>1 DEF Late
<1>4. BootInv'
  BY <1>0, <1>1, <1>2, <1>3, BootKept DEF CallersInv
<1>5. \A t \in Tasks \ (Registrars \cup {Doom}) : pc'[t] = "idle"
  BY <1>1 DEF CallersInv, vars
<1>6. CASE free = {}
  <2>1. UNCHANGED <<msc, mount, param>>
    BY <1>6 DEF tuh_msc_mount_cb
  <2>2. ASSUME NEW m \in Mounters
        PROVE  MounterInv(m)'
    <3>1. MounterInv(m)
      BY DEF CallersInv
    <3>2. mount[m] # "none" => Taken(param[m])'
      BY <2>1, <3>1, SlotsKept DEF MounterInv
    <3>3. QED
      BY <1>1, <1>2, <2>1, <3>1, <3>2, MounterKept
  <2>3. QED
    BY <1>4, <1>5, <2>1, <2>2 DEF CallersInv
<1>7. CASE free # {}
  <2>0. PICK k : k = Least(free)
    OBVIOUS
  <2>1. k \in MscSlots /\ msc[k].addr = None
    BY <1>7, <2>0, LeastMember
  <2>2. PICK n \in Mounters :
           /\ mount[n] = "none"
           /\ msc' = [msc EXCEPT ![k] = [addr |-> a, letter |-> SlotLetter[k]]]
           /\ mount' = [mount EXCEPT ![n] = "start"]
           /\ param' = [param EXCEPT ![n] = k]
    BY <1>7, <2>0 DEF tuh_msc_mount_cb
  <2> HIDE DEF free
  <2>3. \A m \in Mounters : /\ mount'[m] = IF m = n THEN "start" ELSE mount[m]
                            /\ param'[m] = IF m = n THEN k ELSE param[m]
    BY <2>2 DEF UsbType
  <2>4. Taken(k)' /\ \A i \in MscSlots : Taken(i) => Taken(i)'
    <3>1. \A i \in MscSlots : msc'[i] = IF i = k THEN [addr |-> a, letter |-> SlotLetter[k]]
                                        ELSE msc[i]
      BY <2>2 DEF UsbType
    <3>2. msc'[k].addr = a
      BY <2>1, <3>1
    <3>3. Taken(k)'
      BY <3>2, CalmConstants DEF Taken, EmptySlot
    <3>4. ASSUME NEW i \in MscSlots, Taken(i), i # k
          PROVE  Taken(i)'
      BY <3>1, <3>4 DEF Taken, EmptySlot
    <3>5. QED
      BY <3>3, <3>4
  <2>5. ASSUME NEW m \in Mounters, mount[m] # "none"
        PROVE  Taken(param[m]) /\ param[m] \in MscSlots /\ param[m] # k
    <3>1. Taken(param[m]) /\ param[m] \in MscSlots
      BY <2>5 DEF CallersInv, MounterInv, UsbType
    <3>2. msc[param[m]].addr \in Devices
      <4>1. msc[param[m]].addr \in attached /\ attached \subseteq scenario.sticks
        BY <3>1 DEF SlotsInv, SlotsApart, UsbType
      <4>2. scenario.sticks \subseteq Devices
        BY MountsAssumption DEF UsbType
      <4>3. QED
        BY <4>1, <4>2
    <3>3. QED
      BY <2>1, <3>1, <3>2, CalmConstants
  <2>6. ASSUME NEW m \in Mounters
        PROVE  MounterInv(m)'
    <3>1. MounterInv(m)
      BY DEF CallersInv
    <3>2. CASE m # n
      <4>1. mount'[m] = mount[m] /\ param'[m] = param[m]
        BY <2>3, <3>2
      <4>2. mount[m] # "none" => Taken(param[m])'
        <5>1. mount[m] # "none" => Taken(param[m]) /\ param[m] \in MscSlots
          BY <2>5
        <5>2. PICK i : i = param[m]
          OBVIOUS
        <5>3. mount[m] # "none" => Taken(i)'
          BY <2>4, <5>1, <5>2
        <5>4. param'[m] = i
          BY <4>1, <5>2
        <5>5. QED
          BY <5>3, <5>4 DEF Taken
      <4>3. QED
        BY <1>1, <1>2, <3>1, <4>1, <4>2, MounterKept
    <3>3. CASE m = n
      <4>1. pc[m] = "idle" /\ pc' = pc
        BY <1>1, <2>2, <3>1, <3>3 DEF MounterInv, vars
      <4>2. mount'[m] = "start" /\ param'[m] = k
        BY <2>3, <3>3
      <4>3. Taken(param[m])'
        BY <2>4, <4>2 DEF Taken
      <4>4. QED
        BY <4>1, <4>2, <4>3 DEF MounterInv
    <3>4. QED
      BY <3>2, <3>3
  <2>7. ASSUME NEW m \in Mounters, NEW q \in Mounters,
               mount'[m] # "none", mount'[q] # "none", param'[m] = param'[q]
        PROVE  m = q
    <3>1. CASE m # n /\ q # n
      BY <2>3, <2>7, <3>1 DEF CallersInv
    <3>2. CASE m = n \/ q = n
      BY <2>3, <2>5, <2>7, <3>2
    <3>3. QED
      BY <3>1, <3>2
  <2>8. QED
    BY <1>4, <1>5, <2>6, <2>7 DEF CallersInv
<1>8. QED
  BY <1>6, <1>7

\* A stick leaves, which it only does while no mount task is at work.
LEMMA CallersDeparture ==
  ASSUME UsbType, Orderly, CallersInv, scenario' = scenario,
         NEW a \in Devices, tuh_msc_umount_cb(a)
  PROVE  CallersInv'
<1>0. Boot \in Registrars
  BY DEF Registrars
<1>1. /\ UNCHANGED <<boot, mount, param, want, llslot>> /\ UNCHANGED vars
      /\ attached' = attached \ {a} /\ \A m \in Mounters : mount[m] = "none"
  BY DEF tuh_msc_umount_cb, Orderly
<1>2. \A u : Spared(u)
  BY <1>1, UnchangedSpares
<1>3. BootInv'
  BY <1>0, <1>1, <1>2, BootKept DEF CallersInv, BootInv
<1>4. ASSUME NEW m \in Mounters
      PROVE  MounterInv(m)'
  <2>1. MounterInv(m)
    BY DEF CallersInv
  <2>2. QED
    BY <1>1, <1>2, <2>1, MounterKept
<1>5. \A t \in Tasks \ (Registrars \cup {Doom}) : pc'[t] = "idle"
  BY <1>1 DEF CallersInv, vars
<1>6. QED
  BY <1>1, <1>3, <1>4, <1>5 DEF CallersInv

\* Mount tasks at work have different drivers: their letters differ.
LEMMA DriversApart ==
  ASSUME UsbType, CallersInv, NEW m \in Mounters, NEW n \in Mounters, m # n,
         pc[m] # "idle", pc[n] # "idle"
  PROVE  drv[m] # drv[n]
<1>1. /\ mount[m] # "none" /\ letter[drv[m]] = SlotLetter[param[m]]
      /\ mount[n] # "none" /\ letter[drv[n]] = SlotLetter[param[n]]
  BY DEF CallersInv, MounterInv
<1>2. param[m] \in MscSlots /\ param[n] \in MscSlots /\ param[m] # param[n]
  BY <1>1 DEF CallersInv, UsbType
<1>3. SlotLetter[param[m]] # SlotLetter[param[n]]
  BY <1>2, CalmConstants
<1>4. QED
  BY <1>1, <1>3

\* A step of one mount task leaves the other callers where they are.
LEMMA CallersMounter ==
  ASSUME TypeInv, UsbType, SlotsInv, Orderly, CallersInv, DoomInv, ListInv, NEW m \in Mounters,
         UNCHANGED vars \/ Registers(m),
         UNCHANGED <<scenario, boot, attached, msc, param>>,
         mount'[m] # "none" => mount[m] # "none",
         \A n \in Mounters : n # m => mount'[n] = mount[n] /\ want'[n] = want[n],
         \/ llslot' = llslot
         \/ pc[m] # "idle" /\ \E x : llslot' = [llslot EXCEPT ![drv[m]] = x],
         MounterInv(m)'
  PROVE  CallersInv'
<1>0. /\ Registrars \subseteq Tasks /\ Boot \in Registrars /\ Mounters \subseteq Registrars
      /\ Boot \notin Mounters
  BY CalmConstants DEF Registrars
<1>1. \A u \in Tasks : u # m => Spared(u)
  BY <1>0, UnchangedSpares, OthersSpared
<1>2. BootInv'
  <2>1. Late => attached' = {} /\ \A n \in Mounters : mount'[n] = "none"
    <3>1. Late => attached = {} /\ \A n \in Mounters : mount[n] = "none"
      BY DEF CallersInv, BootInv
    <3>2. mount[m] = "none" => mount'[m] = "none"
      OBVIOUS
    <3>3. QED
      BY <3>1, <3>2
  <2>2. BootInv /\ Spared(Boot)
    BY <1>0, <1>1 DEF CallersInv
  <2>3. QED
    BY <2>1, <2>2, BootKept
<1>3. ASSUME NEW n \in Mounters, n # m
      PROVE  MounterInv(n)'
  <2>1. MounterInv(n) /\ Spared(n)
    BY <1>0, <1>1, <1>3 DEF CallersInv
  <2>2. mount[n] # "none" => Taken(param[n])'
    BY <2>1, SlotsKept DEF MounterInv
  <2>3. pc[n] = "fs_init" => llslot'[drv[n]] = llslot[drv[n]]
    <3>1. CASE pc[m] # "idle" /\ \E x : llslot' = [llslot EXCEPT ![drv[m]] = x]
      <4>1. pc[n] = "fs_init" => drv[n] # drv[m]
        BY <1>3, <3>1, DriversApart
      <4>2. llslot \in [Drivers -> MscSlots \cup {None}] /\ drv[n] \in Drivers \cup {None}
        BY <1>0, <1>3 DEF UsbType, TypeInv, TypeOK, Pointer
      <4>3. pc[n] = "fs_init" => drv[n] \in Drivers
        BY <1>0, <1>3 DEF TypeInv
      <4>4. QED
        BY <3>1, <4>1, <4>2, <4>3
    <3>2. QED
      BY <3>1
  <2>4. QED
    BY <1>3, <2>1, <2>2, <2>3, MounterKept
<1>4. \A n, q \in Mounters :
        mount'[n] # "none" /\ mount'[q] # "none" /\ param'[n] = param'[q] => n = q
  <2>1. \A n \in Mounters : mount'[n] # "none" => mount[n] # "none"
    OBVIOUS
  <2>2. QED
    BY <2>1 DEF CallersInv
<1>5. \A t \in Tasks \ (Registrars \cup {Doom}) : pc'[t] = "idle"
  BY <1>0, <1>1 DEF CallersInv, Spared
<1>6. QED
  BY <1>2, <1>3, <1>4, <1>5 DEF CallersInv

LEMMA CallersMount ==
  ASSUME TypeInv, UsbType, SlotsInv, Orderly, CallersInv, DoomInv, ListInv, SticksInv,
         NEW m \in Mounters, MountStep(m)
  PROVE  CallersInv'
<1>0. /\ m \in Tasks /\ m \in Registrars /\ m # Boot /\ MounterInv(m)
  BY CalmConstants DEF Registrars, CallersInv
<1>1. CASE MountStart(m)
  <2>1. /\ mount[m] = "start" /\ mount' = [mount EXCEPT ![m] = "fat"]
        /\ want' = [want EXCEPT ![m] = msc[param[m]].letter]
        /\ UNCHANGED <<scenario, boot, attached, msc, param, llslot>> /\ UNCHANGED vars
    BY <1>1 DEF MountStart
  <2>2. /\ \A n \in Mounters : mount'[n] = IF n = m THEN "fat" ELSE mount[n]
        /\ \A n \in Mounters : n # m => want'[n] = want[n]
        /\ want'[m] = msc[param[m]].letter
    BY <2>1 DEF UsbType
  <2>3. param[m] \in MscSlots /\ Taken(param[m]) /\ pc[m] = "idle"
    BY <1>0, <2>1 DEF MounterInv, UsbType
  <2>4. want'[m] = SlotLetter[param[m]]
    BY <2>2, <2>3 DEF SlotsInv, SlotsApart
  <2>5. Taken(param[m])'
    BY <2>1, <2>3, SlotsKept
  <2>6. MounterInv(m)'
    BY <2>1, <2>2, <2>3, <2>4, <2>5 DEF MounterInv, vars
  <2>7. QED
    BY <2>1, <2>2, <2>6, CallersMounter
<1>2. ASSUME UNCHANGED <<scenario, boot, attached, msc, param>>, mount[m] # "none"
      PROVE  Taken(param[m])'
  BY <1>0, <1>2, SlotsKept DEF MounterInv
<1>3. CASE MountRegister(m)
  <2>1. /\ mount[m] \in {"fat", "fatx"} /\ Register(m, want[m])
        /\ UNCHANGED <<scenario, boot, attached, msc, mount, param, want, llslot>>
    BY <1>3 DEF MountRegister, usb
  <2>2. want[m] = SlotLetter[param[m]] /\ param[m] \in MscSlots /\ want[m] \in Chars
    BY <1>0, <2>1 DEF MounterInv, UsbType
  <2>3. Upper[want[m]] = want[m]
    BY <2>2, CalmConstants
  <2>4. PICK d \in Drivers \ live :
           /\ letter'[d] = Upper[want[m]] /\ pc[m] = "idle"
           /\ \A u \in Tasks : /\ pc'[u] = IF u = m THEN "ll_init" ELSE pc[u]
                               /\ drv'[u] = IF u = m THEN d ELSE drv[u]
    BY <1>0, <2>1, <2>2, Registered
  <2>5. pc'[m] = "ll_init" /\ letter'[drv'[m]] = SlotLetter[param[m]]
    BY <1>0, <2>2, <2>3, <2>4
  <2>6. ~(mount[m] = "fatx" /\ scenario.sticks \subseteq scenario.fat)
    BY <1>0, <2>4 DEF MounterInv
  <2>7. MounterInv(m)'
    BY <1>2, <2>1, <2>2, <2>5, <2>6 DEF MounterInv
  <2>8. Registers(m)
    BY <1>0, <2>1, <2>2 DEF Registers, Busy
  <2>9. QED
    BY <2>1, <2>7, <2>8, CallersMounter
<1>4. CASE usb_disk_init(m)
  <2>1. RegisterLLInit(m, TRUE) /\ llslot' = [llslot EXCEPT ![drv[m]] = param[m]]
    BY <1>0, <1>4, DiskFound
  <2>2. UNCHANGED <<scenario, boot, attached, msc, mount, param, want>>
    BY <1>4 DEF usb_disk_init
  <2>3. pc[m] = "ll_init" /\ pc'[m] = "fs_init" /\ UNCHANGED <<drv, letter>>
    BY <1>0, <2>1 DEF RegisterLLInit, At, Goto, locals, TypeInv, TypeOK
  <2>4. llslot'[drv[m]] = param[m]
    BY <1>0, <2>1, <2>3 DEF UsbType, TypeInv
  <2>5. mount[m] \in {"fat", "fatx"} /\ ~(mount[m] = "fatx" /\ scenario.sticks \subseteq scenario.fat)
    BY <1>0, <2>3 DEF MounterInv
  <2>6. MounterInv(m)'
    BY <1>0, <1>2, <2>2, <2>3, <2>4, <2>5 DEF MounterInv
  <2>7. Registers(m)
    BY <2>1 DEF Registers
  <2>8. QED
    BY <2>1, <2>2, <2>3, <2>6, <2>7, CallersMounter
<1>5. CASE MountFsInit(m)
  <2>1. UNCHANGED <<scenario, boot, attached, msc, param, want, llslot>>
    BY <1>5 DEF MountFsInit
  <2>2. pc[m] = "fs_init" /\ mount[m] \in {"fat", "fatx"}
    BY <1>0, <1>5, MountFails
  <2>3. CASE RegisterFsInit(m, TRUE) /\ mount' = [mount EXCEPT ![m] = "none"]
    <3>1. Return(m)
      BY <2>3 DEF RegisterFsInit
    <3>2. pc'[m] = "idle"
      BY <1>0, <3>1, ReturnLocals
    <3>3. \A n \in Mounters : mount'[n] = IF n = m THEN "none" ELSE mount[n]
      BY <2>3 DEF UsbType
    <3>4. MounterInv(m)'
      BY <3>2, <3>3 DEF MounterInv
    <3>5. Registers(m)
      BY <2>3 DEF Registers
    <3>6. QED
      BY <2>1, <3>3, <3>4, <3>5, CallersMounter
  <2>4. CASE MayFail(m) /\ RegisterFsInit(m, FALSE) /\ mount' = mount
    <3>1. pc'[m] = "unlink" /\ UNCHANGED <<drv, letter>>
      BY <1>0, <2>4 DEF RegisterFsInit, At, Goto, locals, TypeInv, TypeOK
    <3>2. ~(scenario.sticks \subseteq scenario.fat)
      BY <1>0, <2>4 DEF MayFail
    <3>3. MounterInv(m)'
      BY <1>0, <1>2, <2>1, <2>2, <2>4, <3>1, <3>2 DEF MounterInv
    <3>4. Registers(m)
      BY <2>4 DEF Registers
    <3>5. QED
      BY <2>1, <2>4, <3>3, <3>4, CallersMounter
  <2>5. QED
    BY <1>0, <1>5, <2>3, <2>4, MountFails
<1>6. CASE MountFailed(m)
  <2>1. /\ mount[m] \in {"fat", "fatx"} /\ mount' = AfterFailure(m)
        /\ UNCHANGED <<scenario, boot, attached, msc, param, want, llslot>>
    BY <1>6 DEF MountFailed
  <2>2. \A n \in Mounters :
          mount'[n] = IF n = m THEN IF mount[m] = "fat" THEN "fatx" ELSE "none" ELSE mount[n]
    BY <2>1 DEF AfterFailure, UsbType
  <2>3. mount'[m] \in {"fatx", "none"} /\ want[m] = SlotLetter[param[m]]
    BY <1>0, <2>1, <2>2 DEF MounterInv
  <2>4. Taken(param[m])'
    BY <1>2, <2>1
  <2>5. CASE RegisterUnlink(m)
    <3>1. Return(m)
      BY <2>5 DEF RegisterUnlink
    <3>2. pc'[m] = "idle"
      BY <1>0, <3>1, ReturnLocals
    <3>3. MayFail(m)
      BY <1>0, <2>1, <2>5, ListUnlink
    <3>4. ~(scenario.sticks \subseteq scenario.fat)
      BY <1>0, <3>3 DEF MayFail
    <3>5. MounterInv(m)'
      BY <2>1, <2>3, <2>4, <3>2, <3>4 DEF MounterInv
    <3>6. Registers(m)
      BY <2>5 DEF Registers
    <3>7. QED
      BY <2>1, <2>2, <3>5, <3>6, CallersMounter
  <2>6. CASE pc[m] = "idle" /\ live = Drivers /\ UNCHANGED vars
    <3>1. pc'[m] = "idle" /\ live' = Drivers
      BY <2>6 DEF vars
    <3>2. MounterInv(m)'
      BY <2>1, <2>3, <2>4, <3>1 DEF MounterInv
    <3>3. QED
      BY <2>1, <2>2, <2>6, <3>2, CallersMounter
  <2>7. QED
    BY <1>6, <2>5, <2>6 DEF MountFailed
<1>7. QED
  BY <1>1, <1>3, <1>4, <1>5, <1>6 DEF MountStep

\* Every caller is where it should be, in every step of a calm scenario.
LEMMA CallersStep ==
  ASSUME TypeInv, UsbType, SlotsInv, Orderly, CallersInv, DoomInv, ListInv, SticksInv,
         scenario' = scenario, MNext
  PROVE  CallersInv'
BY CallersBoot, CallersDoom, CallersArrival, CallersDeparture, CallersMount DEF MNext

-----------------------------------------------------------------------------
(***************************************************************************)
(* Drive E                                                                 *)
(***************************************************************************)

\* A mount task's step brings no second E and takes none away.
LEMMA EKept ==
  ASSUME EInv, UNCHANGED <<scenario, boot>>, pc'[Boot] = pc[Boot],
         \A d \in live' : letter'[d] = "E" => d \in live /\ letter[d] = "E",
         \A d \in mounted : letter[d] = "E" => d \in mounted' /\ letter'[d] = "E"
  PROVE  EInv'
<1>1. \A d, e \in live' : letter'[d] = "E" /\ letter'[e] = "E" => d = e
  BY DEF EInv
<1>2. boot' \in {"C", "E"} => \A d \in live' : letter'[d] # "E"
  BY DEF EInv
<1>3. (boot' = "done" \/ (boot' = "start" /\ pc'[Boot] = "idle")) /\ "E" \in scenario'.disk =>
        \E d \in mounted' : letter'[d] = "E"
  BY DEF EInv
<1>4. QED
  BY <1>1, <1>2, <1>3 DEF EInv

LEMMA ERegistrar ==
  ASSUME TypeInv, UsbType, SlotsInv, Orderly, CallersInv, DoomInv, ListInv, EInv,
         UNCHANGED <<scenario, boot>>,
         NEW m \in Mounters, pc'[Boot] = pc[Boot],
         \/ \E c \in Chars : Register(m, c) /\ Upper[c] # "E"
         \/ RegisterLLInit(m, TRUE)
         \/ RegisterFsInit(m, TRUE)
         \/ MayFail(m) /\ RegisterFsInit(m, FALSE)
         \/ RegisterUnlink(m)
  PROVE  EInv'
<1>0. m \in Tasks /\ m \in Registrars
  BY CalmConstants DEF Registrars
<1>1. ASSUME NEW c \in Chars, Register(m, c), Upper[c] # "E"
      PROVE  EInv'
  <2>1. PICK d \in Drivers \ live :
           /\ live' = live \cup {d} /\ mounted' = mounted
           /\ letter'[d] = Upper[c] /\ \A e \in live : letter'[e] = letter[e]
    BY <1>0, <1>1, Registered
  <2>2. mounted \subseteq live
    BY DEF TypeInv, TypeOK
  <2>3. QED
    BY <1>1, <2>1, <2>2, EKept
<1>2. CASE RegisterLLInit(m, TRUE) \/ RegisterFsInit(m, TRUE) \/ RegisterUnlink(m)
  <2>1. UNCHANGED <<live, letter>> /\ mounted \subseteq mounted'
    BY <1>2 DEF RegisterLLInit, RegisterFsInit, RegisterUnlink
  <2>2. QED
    BY <2>1, EKept
<1>3. CASE MayFail(m) /\ RegisterFsInit(m, FALSE)
  <2>1. /\ live' = live \ {drv[m]} /\ mounted' = mounted \ {drv[m]} /\ letter' = letter
        /\ pc[m] = "fs_init"
    BY <1>3 DEF RegisterFsInit, At, FreeDriver
  <2>2. letter[drv[m]] # "E"
    <3>1. letter[drv[m]] = SlotLetter[param[m]] /\ param[m] \in MscSlots
      BY <2>1 DEF CallersInv, MounterInv, UsbType
    <3>2. QED
      BY <3>1, CalmConstants
  <2>3. QED
    BY <2>1, <2>2, EKept
<1>4. QED
  BY <1>1, <1>2, <1>3

LEMMA EMount ==
  ASSUME TypeInv, UsbType, SlotsInv, Orderly, CallersInv, DoomInv, ListInv, EInv, SticksInv,
         NEW m \in Mounters, MountStep(m)
  PROVE  EInv'
<1>0. MounterInv(m) /\ m \in Tasks /\ m \in Registrars /\ m # Boot /\ Boot \in Tasks
  BY CalmConstants DEF CallersInv, Registrars
<1>1. UNCHANGED <<scenario, boot>>
  BY DEF MountStep, MountStart, MountRegister, usb_disk_init, MountFsInit, MountFailed
<1>2. CASE UNCHANGED vars
  BY <1>1, <1>2, EKept DEF vars
<1>3. \/ UNCHANGED vars
      \/ \E c \in Chars : Register(m, c) /\ Upper[c] # "E" /\ Busy(m)
      \/ RegisterLLInit(m, TRUE)
      \/ RegisterFsInit(m, TRUE)
      \/ MayFail(m) /\ RegisterFsInit(m, FALSE)
      \/ RegisterUnlink(m)
  <2>1. CASE MountRegister(m)
    <3>1. mount[m] \in {"fat", "fatx"} /\ Register(m, want[m])
      BY <2>1 DEF MountRegister
    <3>2. want[m] = SlotLetter[param[m]] /\ param[m] \in MscSlots /\ want[m] \in Chars
      BY <1>0, <3>1 DEF MounterInv, UsbType
    <3>3. Upper[want[m]] # "E"
      BY <3>2, CalmConstants
    <3>4. QED
      BY <1>0, <3>1, <3>2, <3>3 DEF Busy
  <2>2. CASE usb_disk_init(m)
    BY <1>0, <2>2, DiskFound
  <2>3. CASE MountFsInit(m)
    BY <1>0, <2>3, MountFails
  <2>4. CASE MountStart(m) \/ MountFailed(m)
    BY <2>4 DEF MountStart, MountFailed
  <2>5. QED
    BY <2>1, <2>2, <2>3, <2>4 DEF MountStep
<1>4. ~(UNCHANGED vars) => Registers(m)
  BY <1>3 DEF Registers
<1>5. pc'[Boot] = pc[Boot]
  BY <1>0, <1>1, <1>4, OthersSpared DEF Spared, vars
<1>6. QED
  BY <1>1, <1>2, <1>3, <1>5, ERegistrar

\* Boot gives the letter E once; when it is done and the disk has E, that drive is mounted.
LEMMA EBoot ==
  ASSUME TypeInv, UsbType, SlotsInv, Orderly, CallersInv, DoomInv, ListInv, EInv, BootHasRoom,
         scenario' = scenario, BootStep \/ BootInit
  PROVE  EInv'
<1>0. Boot \in Tasks /\ Boot \in Registrars /\ mounted \subseteq live
  BY CalmConstants DEF Registrars, TypeInv, TypeOK
<1>1. CASE boot \in {"C", "E"} /\ Register(Boot, boot)
           /\ boot' = IF boot = "C" THEN "E" ELSE "start"
  <2>1. boot \in Chars /\ Upper[boot] = boot
    BY <1>1, CalmConstants
  <2>2. PICK d \in Drivers \ live :
           /\ live' = live \cup {d} /\ mounted' = mounted
           /\ letter'[d] = Upper[boot]
           /\ \A e \in live : letter'[e] = letter[e]
           /\ \A u \in Tasks : pc'[u] = IF u = Boot THEN "ll_init" ELSE pc[u]
    BY <1>0, <1>1, <2>1, Registered
  <2>3. \A e \in live : letter'[e] # "E"
    BY <1>1, <2>2 DEF EInv
  <2>4. pc'[Boot] = "ll_init" /\ boot' # "done" /\ letter'[d] = boot
    BY <1>0, <1>1, <2>1, <2>2
  <2>5. QED
    BY <1>1, <2>2, <2>3, <2>4 DEF EInv
<1>2. CASE boot = "start" /\ boot' = "done" /\ pc[Boot] = "idle" /\ UNCHANGED vars
  BY <1>2 DEF EInv, vars
<1>3. CASE BootInit /\ boot' = boot
  <2>1. pc[Boot] # "idle"
    BY <1>3 DEF BootInit, RegisterLLInit, RegisterFsInit, RegisterUnlink, At
  <2>2. \/ boot = "E" /\ letter[drv[Boot]] = "C"
        \/ boot = "start" /\ letter[drv[Boot]] = "E"
    BY <2>1 DEF CallersInv, BootInv
  <2>3. letter' = letter /\ live' \subseteq live
    BY <1>3 DEF BootInit, RegisterLLInit, RegisterFsInit, RegisterUnlink, FreeDriver
  <2>4. /\ \A d, e \in live' : letter'[d] = "E" /\ letter'[e] = "E" => d = e
        /\ boot' \in {"C", "E"} => \A d \in live' : letter'[d] # "E"
    BY <1>3, <2>3 DEF EInv
  <2>5. ASSUME boot' = "start", pc'[Boot] = "idle", "E" \in scenario.disk
        PROVE  \E d \in mounted' : letter'[d] = "E"
    <3>1. letter[drv[Boot]] = "E"
      BY <1>3, <2>2, <2>5
    <3>2. ~RegisterUnlink(Boot)
      BY <2>5, <3>1 DEF RegisterUnlink, At, CallersInv, BootInv
    <3>3. ~RegisterLLInit(Boot, TRUE)
      BY <1>0, <2>5 DEF RegisterLLInit, Goto, TypeInv, TypeOK
    <3>4. RegisterFsInit(Boot, TRUE)
      BY <1>3, <2>5, <3>1, <3>2, <3>3, BootFails DEF BootInit, CallersInv
    <3>5. drv[Boot] \in mounted'
      BY <3>4 DEF RegisterFsInit
    <3>6. QED
      BY <2>3, <3>1, <3>5
  <2>6. boot' # "done"
    BY <1>3, <2>2
  <2>7. QED
    BY <2>4, <2>5, <2>6 DEF EInv
<1>4. CASE BootStep
  <2>1. \/ boot \in {"C", "E"} /\ Register(Boot, boot)
        \/ boot = "start" /\ pc[Boot] = "idle" /\ UNCHANGED vars
    BY <1>4 DEF BootStep, BootHasRoom, UsbType
  <2>2. boot' = (CASE boot = "C" -> "E" [] boot = "E" -> "start" [] boot = "start" -> "done")
    BY <1>4 DEF BootStep
  <2>3. QED
    BY <1>1, <1>2, <2>1, <2>2
<1>5. QED
  BY <1>3, <1>4 DEF BootInit

LEMMA EStep ==
  ASSUME TypeInv, UsbType, SlotsInv, Orderly, CallersInv, DoomInv, ListInv, EInv, SticksInv,
         BootHasRoom, scenario' = scenario, MNext
  PROVE  EInv'
<1>1. CASE DoomStep
  <2>1. UNCHANGED <<live, letter, mounted, boot>> /\ pc'[Boot] = pc[Boot]
    BY <1>1, DoomAccess, CalmConstants DEF Registrars
  <2>2. QED
    BY <2>1, EKept
<1>2. ASSUME NEW a \in Devices, tuh_msc_mount_cb(a) \/ tuh_msc_umount_cb(a)
      PROVE  EInv'
  <2>1. UNCHANGED vars /\ boot' = boot
    BY <1>2 DEF tuh_msc_mount_cb, tuh_msc_umount_cb
  <2>2. QED
    BY <2>1, EKept DEF vars
<1>3. QED
  BY <1>1, <1>2, EBoot, EMount DEF MNext

-----------------------------------------------------------------------------
(***************************************************************************)
(* The drives of sticks                                                    *)
(***************************************************************************)

\* While sticks stay out there is nothing to show but that.
LEMMA LateSticks ==
  ASSUME UsbType, SlotsInv, BootInv, Late, LateLetters
  PROVE  SticksInv
<1>1. \A d \in live : letter[d] \in {"C", "E"}
  BY DEF LateLetters
<1>2. \A d \in live, i \in MscSlots : letter[d] # SlotLetter[i]
  BY <1>1, CalmConstants
<1>3. \A i \in MscSlots : msc[i].addr \notin scenario.fat
  <2>1. attached = {}
    BY DEF BootInv
  <2>2. \A i \in MscSlots : ~Taken(i)
    BY <2>1 DEF SlotsInv, SlotsApart
  <2>3. scenario.fat \subseteq Devices
    BY MountsAssumption DEF UsbType
  <2>4. QED
    BY <2>2, <2>3, CalmConstants DEF Taken, EmptySlot
<1>4. QED
  BY <1>2, <1>3 DEF SticksInv, SticksRead, SticksServed, SticksFound, LateLetters

LEMMA FirstsSame ==
  ASSUME UNCHANGED <<head, next, letter>>, NEW c
  PROVE  Firsts(c)' = Firsts(c)
<1>1. Listed' = Listed
  BY DEF Listed, Walk
<1>2. \A e : Walk(e)' = Walk(e)
  BY DEF Walk
<1>3. QED
  BY <1>1, <1>2 DEF Firsts

\* A letter that names a driver goes on doing so when one is appended.
LEMMA FirstsAppended ==
  ASSUME TypeInv, TypeInv', Connected, Chain, NEW t \in Tasks, NEW l \in Chars, Register(t, l),
         NEW c, NEW e \in live', letter'[e] = c,
         \A f \in live : letter[f] = c => Firsts(c) # {}
  PROVE  Firsts(c)' # {}
<1>1. PICK d : Appended(d) /\ letter' = [letter EXCEPT ![d] = Upper[l]]
  BY RegisterAppends
<1>2. live' = live \cup {d} /\ d \notin live /\ \A f \in live : letter'[f] = letter[f]
  BY <1>1 DEF Appended, TypeInv, TypeOK
<1>3. CASE \E f \in live : letter[f] = c
  BY <1>3, RegisterKeepsFirst
<1>4. CASE \A f \in live : letter[f] # c
  <2>1. e = d
    BY <1>2, <1>4
  <2>2. Chain' /\ Connected'
    BY <1>1, AppendedChain, AppendedConnected
  <2>3. Listed' = live'
    <3>1. (TypeInv /\ Connected => Listed \subseteq live)'
      BY ListedLive, PTL
    <3>2. QED
      BY <2>2, <3>1 DEF Chain
  <2>4. d \in Firsts(c)'
    BY <1>2, <1>4, <2>1, <2>3 DEF Firsts
  <2>5. QED
    BY <2>4
<1>5. QED
  BY <1>3, <1>4

\* A step that touches neither the list nor what a driver reads.
LEMMA SticksKept ==
  ASSUME UsbType, SticksInv, UNCHANGED <<scenario, head, next, live, letter, llslot>>,
         mounted \subseteq mounted', Late' => Late,
         \A m \in Mounters : pc[m] # "idle" =>
           /\ param'[m] = param[m]
           /\ \/ pc'[m] # "idle" /\ drv'[m] = drv[m]
              \/ drv[m] \in mounted' /\ llslot[drv[m]] = param[m],
         \A i \in MscSlots : msc'[i].addr \in scenario.fat =>
           \/ msc'[i].addr = msc[i].addr
           \/ \E m \in Mounters : mount'[m] # "none" /\ param'[m] = i,
         \A m \in Mounters : mount[m] # "none" =>
           \/ mount'[m] # "none" /\ param'[m] = param[m]
           \/ live = Drivers
           \/ \E d \in live : letter[d] = SlotLetter[param[m]]
  PROVE  SticksInv'
<1> SUFFICES ASSUME scenario.sticks \subseteq scenario.fat
             PROVE  (SticksRead /\ SticksServed /\ SticksFound /\ LateLetters)'
  BY DEF SticksInv
<1>1. SticksRead /\ SticksServed /\ SticksFound /\ LateLetters
  BY DEF SticksInv
<1>2. ASSUME NEW d \in live', NEW i \in MscSlots, letter'[d] = SlotLetter[i]
      PROVE  \/ d \in mounted' /\ llslot'[d] = i
             \/ \E m \in Mounters : param'[m] = i /\ drv'[m] = d /\ pc'[m] # "idle"
  <2>1. CASE d \in mounted /\ llslot[d] = i
    BY <2>1
  <2>2. ASSUME NEW m \in Mounters, param[m] = i, drv[m] = d, pc[m] # "idle"
        PROVE  \/ d \in mounted' /\ llslot'[d] = i
               \/ \E n \in Mounters : param'[n] = i /\ drv'[n] = d /\ pc'[n] # "idle"
    BY <2>2
  <2>3. QED
    BY <1>1, <1>2, <2>1, <2>2 DEF SticksRead
<1>3. ASSUME NEW i \in MscSlots, msc'[i].addr \in scenario'.fat
      PROVE  \/ \E m \in Mounters : mount'[m] # "none" /\ param'[m] = i
             \/ live' = Drivers
             \/ \E d \in live' : letter'[d] = SlotLetter[i]
  <2>1. CASE msc'[i].addr = msc[i].addr
    <3>1. \/ \E m \in Mounters : mount[m] # "none" /\ param[m] = i
          \/ live = Drivers
          \/ \E d \in live : letter[d] = SlotLetter[i]
      BY <1>1, <1>3, <2>1 DEF SticksServed
    <3>2. QED
      BY <3>1
  <2>2. QED
    BY <1>3, <2>1
<1>4. SticksFound'
  BY <1>1, FirstsSame DEF SticksFound
<1>5. LateLetters'
  BY <1>1 DEF LateLetters
<1>6. QED
  BY <1>2, <1>3, <1>4, <1>5 DEF SticksRead, SticksServed

\* A registration of a slot's letter, or of C and E.
LEMMA SticksRegister ==
  ASSUME TypeInv, TypeInv', UsbType, SlotsInv, Orderly, CallersInv, DoomInv, ListInv, SticksInv,
         UNCHANGED <<scenario, msc, mount, param, llslot>>, Late' => Late,
         NEW t \in Registrars, NEW c \in Chars, Busy(t), Register(t, c),
         t \in Mounters => c = SlotLetter[param[t]] /\ mount[t] # "none",
         t = Boot => c \in {"C", "E"}
  PROVE  SticksInv'
<1> SUFFICES ASSUME scenario.sticks \subseteq scenario.fat
             PROVE  (SticksRead /\ SticksServed /\ SticksFound /\ LateLetters)'
  BY DEF SticksInv
<1>1. SticksRead /\ SticksServed /\ SticksFound /\ LateLetters
  BY DEF SticksInv
<1>2. t \in Tasks /\ Mounters \subseteq Tasks
  BY CalmConstants
<1>3. PICK d \in Drivers \ live :
         /\ live' = live \cup {d}
         /\ letter'[d] = Upper[c] /\ \A e \in live : letter'[e] = letter[e]
         /\ pc[t] = "idle" /\ mounted' = mounted
         /\ \A u \in Tasks : /\ pc'[u] = IF u = t THEN "ll_init" ELSE pc[u]
                             /\ drv'[u] = IF u = t THEN d ELSE drv[u]
  BY Registered
<1>4. t \in Mounters => param[t] \in MscSlots /\ letter'[d] = SlotLetter[param[t]]
  BY <1>3, CalmConstants DEF UsbType
<1>5. t = Boot => letter'[d] \in {"C", "E"}
  BY <1>3, CalmConstants
<1>6. ASSUME NEW e \in live', NEW i \in MscSlots, letter'[e] = SlotLetter[i]
      PROVE  \/ e \in mounted' /\ llslot'[e] = i
             \/ \E m \in Mounters : param'[m] = i /\ drv'[m] = e /\ pc'[m] # "idle"
  <2>1. CASE e = d
    <3>1. t \in Mounters
      BY <1>5, <1>6, <2>1, CalmConstants DEF Registrars
    <3>2. param[t] = i
      BY <1>4, <1>6, <2>1, <3>1, CalmConstants
    <3>3. drv'[t] = d /\ pc'[t] # "idle"
      BY <1>2, <1>3
    <3>4. QED
      BY <2>1, <3>1, <3>2, <3>3
  <2>2. CASE e \in live
    <3>1. letter[e] = SlotLetter[i]
      BY <1>3, <1>6, <2>2
    <3>2. CASE e \in mounted /\ llslot[e] = i
      BY <1>3, <3>2
    <3>3. ASSUME NEW m \in Mounters, param[m] = i, drv[m] = e, pc[m] # "idle"
          PROVE  \E n \in Mounters : param'[n] = i /\ drv'[n] = e /\ pc'[n] # "idle"
      <4>1. m # t
        BY <1>3, <3>3
      <4>2. pc'[m] = pc[m] /\ drv'[m] = drv[m]
        BY <1>2, <1>3, <4>1
      <4>3. QED
        BY <3>3, <4>2
    <3>4. QED
      BY <1>1, <2>2, <3>1, <3>2, <3>3 DEF SticksRead
  <2>3. QED
    BY <1>3, <1>6, <2>1, <2>2
<1>7. ASSUME NEW i \in MscSlots, msc'[i].addr \in scenario'.fat
      PROVE  \/ \E m \in Mounters : mount'[m] # "none" /\ param'[m] = i
             \/ live' = Drivers
             \/ \E e \in live' : letter'[e] = SlotLetter[i]
  <2>1. \/ \E m \in Mounters : mount[m] # "none" /\ param[m] = i
        \/ live = Drivers
        \/ \E e \in live : letter[e] = SlotLetter[i]
    BY <1>1, <1>7 DEF SticksServed
  <2>2. live # Drivers
    BY <1>3
  <2>3. QED
    BY <1>3, <2>1, <2>2
<1>8. SticksFound'
  <2>1. Connected /\ Chain
    <3>1. Held = live
      BY ListRegister
    <3>2. QED
      BY <3>1, HeldIsLive DEF ListInv
  <2>2. ASSUME NEW i \in MscSlots, NEW e \in live', letter'[e] = SlotLetter[i]
        PROVE  Firsts(SlotLetter[i])' # {}
    <3>1. PICK l : l = SlotLetter[i]
      OBVIOUS
    <3>2. \A f \in live : letter[f] = l => Firsts(l) # {}
      BY <1>1, <3>1 DEF SticksFound
    <3>3. Firsts(l)' # {}
      BY <1>2, <2>1, <2>2, <3>1, <3>2, FirstsAppended
    <3>4. QED
      BY <3>1, <3>3
  <2>3. QED
    BY <2>2 DEF SticksFound
<1>9. LateLetters'
  <2>1. ASSUME Late PROVE letter'[d] \in {"C", "E"}
    <3>1. t = Boot
      BY <2>1 DEF CallersInv, BootInv, Registrars
    <3>2. QED
      BY <1>5, <3>1
  <2>2. ASSUME Late, NEW e \in live PROVE letter'[e] \in {"C", "E"}
    BY <1>1, <1>3, <2>2 DEF LateLetters
  <2>3. QED
    BY <1>3, <2>1, <2>2 DEF LateLetters
<1>10. QED
  BY <1>6, <1>7, <1>8, <1>9 DEF SticksRead, SticksServed

LEMMA SticksBoot ==
  ASSUME TypeInv, TypeInv', UsbType, UsbType', SlotsInv, SlotsInv', Orderly, CallersInv, CallersInv',
         DoomInv, ListInv, SticksInv, scenario' = scenario, BootStep \/ BootInit
  PROVE  SticksInv'
<1>0. /\ Boot \in Registrars /\ Boot \in Tasks /\ Boot \notin Mounters /\ Mounters \subseteq Tasks
      /\ UNCHANGED usb
  BY CalmConstants DEF Registrars, BootStep, BootInit
<1>1. UNCHANGED <<msc, mount, param, llslot>>
  BY <1>0 DEF usb
<1>2. CASE BootStep
  <2>1. Late' => Late
    BY <1>2 DEF Late, BootStep
  <2>2. CASE boot \in {"C", "E"} /\ Register(Boot, boot)
    <3>1. boot \in Chars /\ Busy(Boot)
      BY <2>2, CalmConstants DEF Busy
    <3>2. QED
      BY <1>0, <1>1, <2>1, <2>2, <3>1, SticksRegister
  <2>3. CASE UNCHANGED vars
    <3>1. UNCHANGED <<head, next, live, letter, mounted, pc, drv>>
      BY <2>3 DEF vars
    <3>2. QED
      BY <1>1, <2>1, <3>1, SticksKept
  <2>4. QED
    BY <1>2, <2>2, <2>3 DEF BootStep
<1>3. CASE BootInit
  <2>1. Late' <=> Late
    BY <1>3 DEF Late, BootInit
  <2>2. CASE RegisterLLInit(Boot, TRUE)
    <3>1. /\ UNCHANGED <<head, next, live, letter, mounted, drv>>
          /\ \A m \in Mounters : pc'[m] = pc[m]
      BY <1>0, <2>2 DEF RegisterLLInit, Goto, locals, TypeInv, TypeOK
    <3>2. QED
      BY <1>1, <2>1, <3>1, SticksKept
  <2>3. CASE RegisterFsInit(Boot, TRUE)
    <3>1. UNCHANGED <<head, next, live, letter>> /\ mounted \subseteq mounted' /\ Return(Boot)
      BY <2>3 DEF RegisterFsInit
    <3>2. \A m \in Mounters : pc'[m] = pc[m] /\ drv'[m] = drv[m]
      BY <1>0, <3>1, ReturnLocals
    <3>3. QED
      BY <1>1, <2>1, <3>1, <3>2, SticksKept
  <2>4. CASE (MayFail(Boot) /\ RegisterFsInit(Boot, FALSE)) \/ RegisterUnlink(Boot)
    <3> SUFFICES ASSUME scenario.sticks \subseteq scenario.fat
                 PROVE  SticksInv'
      <4>1. scenario'.sticks = scenario.sticks /\ scenario'.fat = scenario.fat
        OBVIOUS
      <4>2. QED
        BY <4>1 DEF SticksInv
    <3>1. MayFail(Boot) /\ pc[Boot] # "idle"
      BY <1>0, <2>4 DEF ListInv, RegisterFsInit, RegisterUnlink, At
    <3>2. Late
      <4>1. ~scenario.early
        BY <1>0, <3>1 DEF MayFail, Orderly
      <4>2. boot # "done"
        BY <3>1 DEF CallersInv, BootInv
      <4>3. QED
        BY <4>1, <4>2 DEF Late
    <3>3. live' \subseteq live /\ letter' = letter
      BY <2>4 DEF RegisterFsInit, RegisterUnlink, FreeDriver
    <3>4. LateLetters'
      BY <3>2, <3>3 DEF SticksInv, LateLetters
    <3>5. BootInv'
      BY DEF CallersInv
    <3>6. (UsbType /\ SlotsInv /\ BootInv /\ Late /\ LateLetters => SticksInv)'
      BY LateSticks, PTL
    <3>7. QED
      BY <2>1, <3>2, <3>4, <3>5, <3>6
  <2>5. QED
    <3>1. CASE RegisterFsInit(Boot, letter[drv[Boot]] \in scenario.disk)
      BY <2>3, <2>4, <3>1, BootFails DEF CallersInv
    <3>2. QED
      BY <1>3, <2>2, <2>4, <3>1 DEF BootInit
<1>4. QED
  BY <1>2, <1>3

\* A mount task finds the slot it was given, and its driver reads through it from then on.
LEMMA SticksDisk ==
  ASSUME TypeInv, UsbType, SlotsInv, CallersInv, ListInv, SticksInv, scenario' = scenario,
         NEW m \in Mounters, usb_disk_init(m)
  PROVE  SticksInv'
<1> SUFFICES ASSUME scenario.sticks \subseteq scenario.fat
             PROVE  (SticksRead /\ SticksServed /\ SticksFound /\ LateLetters)'
  BY DEF SticksInv
<1>1. SticksRead /\ SticksServed /\ SticksFound /\ LateLetters
  BY DEF SticksInv
<1>2. MounterInv(m)
  BY DEF CallersInv
<1>3. RegisterLLInit(m, TRUE) /\ llslot' = [llslot EXCEPT ![drv[m]] = param[m]]
  BY <1>2, DiskFound
<1>4. m \in Tasks /\ m \in Registrars /\ Mounters \subseteq Tasks
  BY CalmConstants DEF Registrars
<1>5. pc[m] = "ll_init" /\ drv[m] \in live /\ live \subseteq Drivers
  BY <1>3, <1>4 DEF RegisterLLInit, At, ListInv, TypeInv, TypeOK
<1>6. letter[drv[m]] = SlotLetter[param[m]] /\ param[m] \in MscSlots
  BY <1>2, <1>5 DEF MounterInv, UsbType
<1>7. UNCHANGED <<head, next, live, letter, mounted, drv, msc, mount, param, boot>>
  BY <1>3 DEF RegisterLLInit, locals, usb_disk_init
<1>8. \A n \in Mounters : pc[n] # "idle" => pc'[n] # "idle"
  BY <1>3, <1>4 DEF RegisterLLInit, Goto, TypeInv, TypeOK
<1>9. \A d \in live : llslot'[d] = IF d = drv[m] THEN param[m] ELSE llslot[d]
  BY <1>3, <1>5 DEF UsbType
<1>10. ASSUME NEW d \in live', NEW i \in MscSlots, letter'[d] = SlotLetter[i]
       PROVE  \/ d \in mounted' /\ llslot'[d] = i
              \/ \E n \in Mounters : param'[n] = i /\ drv'[n] = d /\ pc'[n] # "idle"
  <2>1. d \in live /\ letter[d] = SlotLetter[i]
    BY <1>7, <1>10
  <2>2. CASE d \in mounted /\ llslot[d] = i
    <3>1. d = drv[m] => i = param[m]
      BY <1>6, <2>1, CalmConstants
    <3>2. QED
      BY <1>7, <1>9, <2>1, <2>2, <3>1
  <2>3. ASSUME NEW n \in Mounters, param[n] = i, drv[n] = d, pc[n] # "idle"
        PROVE  \E o \in Mounters : param'[o] = i /\ drv'[o] = d /\ pc'[o] # "idle"
    BY <1>7, <1>8, <2>3
  <2>4. QED
    BY <1>1, <2>1, <2>2, <2>3 DEF SticksRead
<1>11. SticksServed'
  BY <1>1, <1>7 DEF SticksServed
<1>12. SticksFound'
  BY <1>1, <1>7, FirstsSame DEF SticksFound
<1>13. LateLetters'
  BY <1>1, <1>7 DEF LateLetters, Late
<1>14. QED
  BY <1>10, <1>11, <1>12, <1>13 DEF SticksRead

LEMMA SticksMount ==
  ASSUME TypeInv, TypeInv', UsbType, SlotsInv, Orderly, CallersInv,
         DoomInv, ListInv, SticksInv, scenario' = scenario, NEW m \in Mounters, MountStep(m)
  PROVE  SticksInv'
<1>0. m \in Tasks /\ m \in Registrars /\ m # Boot /\ MounterInv(m) /\ Mounters \subseteq Tasks
  BY CalmConstants DEF CallersInv, Registrars
<1> SUFFICES ASSUME scenario.sticks \subseteq scenario.fat
             PROVE  SticksInv'
  <2>1. scenario'.sticks = scenario.sticks /\ scenario'.fat = scenario.fat
    OBVIOUS
  <2>2. QED
    BY <2>1 DEF SticksInv
<1>1. ~MayFail(m)
  BY <1>0 DEF MayFail
<1>2. CASE MountStart(m)
  <2>1. /\ UNCHANGED <<head, next, live, letter, mounted, pc, drv, msc, param, llslot, boot>>
        /\ \A n \in Mounters : mount[n] # "none" => mount'[n] # "none"
    BY <1>2 DEF MountStart, vars, UsbType
  <2>2. QED
    BY <2>1, SticksKept DEF Late
<1>3. CASE MountRegister(m)
  <2>1. /\ UNCHANGED <<msc, mount, param, llslot, boot>> /\ Register(m, want[m])
        /\ mount[m] # "none" /\ want[m] = SlotLetter[param[m]] /\ want[m] \in Chars
    BY <1>0, <1>3 DEF MountRegister, usb, MounterInv, UsbType
  <2>2. Busy(m) /\ (Late' => Late)
    BY <1>0, <2>1 DEF Busy, Late
  <2>3. QED
    BY <1>0, <2>1, <2>2, SticksRegister
<1>4. CASE usb_disk_init(m)
  BY <1>4, SticksDisk
<1>5. CASE MountFsInit(m)
  <2>1. /\ pc[m] = "fs_init" /\ RegisterFsInit(m, TRUE)
        /\ mount' = [mount EXCEPT ![m] = "none"]
    BY <1>0, <1>1, <1>5, MountFails
  <2>2. /\ UNCHANGED <<head, next, live, letter, msc, param, llslot, boot>>
        /\ mounted' = mounted \cup {drv[m]} /\ Return(m)
    BY <1>5, <2>1 DEF MountFsInit, RegisterFsInit
  <2>3. \A n \in Mounters : n # m => pc'[n] = pc[n] /\ drv'[n] = drv[n] /\ mount'[n] = mount[n]
    BY <1>0, <2>1, <2>2, ReturnLocals DEF UsbType
  <2>4. /\ drv[m] \in live /\ letter[drv[m]] = SlotLetter[param[m]]
        /\ llslot[drv[m]] = param[m]
    BY <1>0, <2>1 DEF MounterInv, ListInv
  <2>5. ASSUME NEW n \in Mounters, pc[n] # "idle"
        PROVE  /\ param'[n] = param[n]
               /\ \/ pc'[n] # "idle" /\ drv'[n] = drv[n]
                  \/ drv[n] \in mounted' /\ llslot[drv[n]] = param[n]
    BY <2>2, <2>3, <2>4, <2>5
  <2>6. ASSUME NEW n \in Mounters, mount[n] # "none"
        PROVE  \/ mount'[n] # "none" /\ param'[n] = param[n]
               \/ live = Drivers
               \/ \E d \in live : letter[d] = SlotLetter[param[n]]
    BY <2>2, <2>3, <2>4, <2>6
  <2>7. QED
    BY <2>2, <2>5, <2>6, SticksKept DEF Late
<1>6. CASE MountFailed(m)
  <2>1. CASE RegisterUnlink(m)
    BY <1>0, <1>1, <2>1 DEF RegisterUnlink, At, ListInv
  <2>2. CASE live = Drivers /\ UNCHANGED vars
    <3>1. UNCHANGED <<head, next, live, letter, mounted, pc, drv, msc, param, llslot, boot>>
      BY <1>6, <2>2 DEF MountFailed, vars
    <3>2. QED
      BY <2>2, <3>1, SticksKept DEF Late
  <2>3. QED
    BY <1>6, <2>1, <2>2 DEF MountFailed
<1>7. QED
  BY <1>2, <1>3, <1>4, <1>5, <1>6 DEF MountStep

LEMMA SticksArrival ==
  ASSUME UsbType, CallersInv, SticksInv, scenario' = scenario,
         NEW a \in Devices, tuh_msc_mount_cb(a)
  PROVE  SticksInv'
<1> DEFINE free == {i \in MscSlots : msc[i].addr = None}
<1>1. /\ UNCHANGED <<boot, llslot, head, next, live, letter, mounted, pc, drv>>
  BY DEF tuh_msc_mount_cb, vars
<1>2. Late' => Late
  BY <1>1 DEF Late
<1>3. CASE free = {}
  <2>1. UNCHANGED <<msc, mount, param>>
    BY <1>3 DEF tuh_msc_mount_cb
  <2>2. QED
    BY <1>1, <1>2, <2>1, SticksKept
<1>4. CASE free # {}
  <2>0. PICK k : k = Least(free)
    OBVIOUS
  <2>1. k \in MscSlots
    BY <1>4, <2>0, LeastMember
  <2>2. PICK n \in Mounters :
           /\ mount[n] = "none"
           /\ msc' = [msc EXCEPT ![k] = [addr |-> a, letter |-> SlotLetter[k]]]
           /\ mount' = [mount EXCEPT ![n] = "start"]
           /\ param' = [param EXCEPT ![n] = k]
    BY <1>4, <2>0 DEF tuh_msc_mount_cb
  <2> HIDE DEF free
  <2>3. /\ \A m \in Mounters : /\ mount'[m] = IF m = n THEN "start" ELSE mount[m]
                               /\ param'[m] = IF m = n THEN k ELSE param[m]
        /\ \A i \in MscSlots : i # k => msc'[i] = msc[i]
    BY <2>2 DEF UsbType
  <2>4. pc[n] = "idle"
    BY <2>2 DEF CallersInv, MounterInv
  <2>5. \A m \in Mounters : pc[m] # "idle" => param'[m] = param[m]
    BY <2>3, <2>4
  <2>6. ASSUME NEW i \in MscSlots
        PROVE  \/ msc'[i].addr = msc[i].addr
               \/ \E m \in Mounters : mount'[m] # "none" /\ param'[m] = i
    BY <2>3, <2>6
  <2>7. \A m \in Mounters : mount[m] # "none" => mount'[m] # "none" /\ param'[m] = param[m]
    BY <2>2, <2>3
  <2>8. QED
    BY <1>1, <1>2, <2>5, <2>6, <2>7, SticksKept
<1>5. QED
  BY <1>3, <1>4

LEMMA SticksDeparture ==
  ASSUME UsbType, SticksInv, scenario' = scenario, NEW a \in Devices, tuh_msc_umount_cb(a)
  PROVE  SticksInv'
<1>1. UNCHANGED <<boot, mount, param, llslot, head, next, live, letter, mounted, pc, drv>>
  BY DEF tuh_msc_umount_cb, vars
<1>2. \A i \in MscSlots : msc'[i].addr = msc[i].addr \/ msc'[i].addr = None
  BY DEF tuh_msc_umount_cb, EmptySlot
<1>3. None \notin scenario.fat
  BY MountsAssumption DEF UsbType
<1>4. Late' => Late
  BY <1>1 DEF Late
<1>5. QED
  BY <1>1, <1>2, <1>3, <1>4, SticksKept

LEMMA SticksStep ==
  ASSUME TypeInv, TypeInv', UsbType, UsbType', SlotsInv, SlotsInv', Orderly, CallersInv, CallersInv',
         DoomInv, ListInv, SticksInv, scenario' = scenario, MNext
  PROVE  SticksInv'
<1>1. CASE DoomStep
  <2>1. UNCHANGED <<head, next, live, letter, mounted, boot, msc, mount, param, llslot>>
    BY <1>1, DoomAccess DEF usb
  <2>2. \A m \in Mounters : pc'[m] = pc[m] /\ drv'[m] = drv[m]
    <3>1. \A m \in Mounters : m \in Tasks /\ m # Doom
      BY CalmConstants DEF Registrars
    <3>2. QED
      BY <1>1, <3>1, DoomSpares DEF Spared
  <2>3. QED
    BY <2>1, <2>2, SticksKept DEF Late
<1>2. QED
  BY <1>1, SticksBoot, SticksMount, SticksArrival, SticksDeparture DEF MNext

-----------------------------------------------------------------------------
(***************************************************************************)
(* The invariant                                                           *)
(***************************************************************************)

LEMMA InitCalm == MInit => Calm
<1> SUFFICES ASSUME MInit PROVE Calm
  OBVIOUS
<1>1. /\ head = None /\ live = {} /\ mounted = {} /\ boot = "C" /\ attached = {}
      /\ \A t \in Tasks : pc[t] = "idle" /\ \A s \in Slots : files[t][s] = None
      /\ \A m \in Mounters : mount[m] = "none"
      /\ \A i \in MscSlots : msc[i].addr = None
  BY DEF MInit, Init, EmptySlot
<1>2. Boot \in Tasks /\ Doom \in Tasks /\ Mounters \subseteq Tasks /\ Registrars \subseteq Tasks
  BY CalmConstants
<1>3. CallersInv
  BY <1>1, <1>2 DEF CallersInv, BootInv, MounterInv
<1>4. DoomInv /\ EInv
  BY <1>1, <1>2 DEF DoomInv, EInv
<1>5. ListInv
  <2>1. Held = {}
    BY <1>1 DEF Held
  <2>2. HeldChain
    BY <1>1, <2>1 DEF HeldChain
  <2>3. QED
    BY <1>1, <1>2, <2>2 DEF ListInv
<1>6. SticksInv
  <2>1. None \notin scenario.fat
    BY MountsAssumption DEF MInit
  <2>2. QED
    BY <1>1, <2>1 DEF SticksInv, SticksRead, SticksServed, SticksFound, LateLetters
<1>7. QED
  BY <1>3, <1>4, <1>5, <1>6 DEF Calm

CalmInv == MTypeInv /\ SlotsInv /\ (Orderly => Calm)

LEMMA CalmNext ==
  ASSUME CalmInv, Orderly, BootHasRoom, MNext, TypeInv', UsbType', SlotsInv', scenario' = scenario
  PROVE  Calm'
<1>1. TypeInv /\ UsbType /\ SlotsInv /\ CallersInv /\ DoomInv /\ EInv /\ ListInv /\ SticksInv
  BY DEF CalmInv, MTypeInv, Calm
<1>2. boot = "done" => boot' = "done"
  BY DEF MNext, BootStep, BootInit, DoomStep, tuh_msc_mount_cb, tuh_msc_umount_cb, MountStep,
         MountStart, MountRegister, usb_disk_init, MountFsInit, MountFailed
<1>3. CalmAccess
  BY <1>1, CalmStep
<1>4. ListInv' /\ DoomInv'
  BY <1>1, <1>2, <1>3, ListStep, DoomInvStep
<1>5. CallersInv' /\ EInv'
  BY <1>1, CallersStep, EStep
<1>6. SticksInv'
  BY <1>1, <1>5, SticksStep
<1>7. QED
  BY <1>4, <1>5, <1>6 DEF Calm

LEMMA CalmStutter ==
  ASSUME Calm, UNCHANGED mvars
  PROVE  Calm'
<1>1. UNCHANGED <<setup, head, next, letter, live, mounted, files, pc, drv, prev, scenario, boot,
                  attached, msc, mount, param, want, llslot>>
  BY DEF mvars, vars, usb
<1>2. CallersInv'
  BY <1>1 DEF Calm, CallersInv, BootInv, MounterInv, Late, Taken
<1>3. DoomInv' /\ EInv'
  BY <1>1 DEF Calm, DoomInv, EInv
<1>4. ListInv'
  <2>1. Held' = Held
    BY <1>1 DEF Held
  <2>2. ListInv
    BY DEF Calm
  <2>3. \A u \in Registrars :
          /\ pc'[u] \in {"ll_init", "fs_init"} => drv'[u] \in live'
          /\ pc'[u] = "unlink" => MayFail(u) /\ drv'[u] \notin live'
          /\ pc'[u] # "idle" => pc[u] # "idle" /\ drv'[u] = drv[u] /\ prev'[u] = prev[u]
    BY <1>1, <2>2 DEF ListInv
  <2>4. QED
    BY <1>1, <2>1, <2>2, <2>3, ListKept
<1>5. SticksInv'
  <2>1. \A c : Firsts(c)' = Firsts(c)
    BY <1>1, FirstsSame
  <2>2. QED
    BY <1>1, <2>1 DEF Calm, SticksInv, SticksRead, SticksServed, SticksFound, LateLetters, Late
<1>6. QED
  BY <1>2, <1>3, <1>4, <1>5 DEF Calm

LEMMA CalmInvariant == MSpec /\ []BootHasRoom => []CalmInv
<1>1. MInit => CalmInv
  BY InitCalm, InitSlots, InitMTypeInv DEF CalmInv
<1>2. ASSUME CalmInv, BootHasRoom, [MNext]_mvars, MTypeInv' PROVE CalmInv'
  <2>1. MTypeInv /\ UsbType /\ SlotsInv
    BY <1>2 DEF CalmInv, MTypeInv
  <2>2. CASE MNext
    <3>1. SlotsInv' /\ scenario' = scenario
      BY <2>1, <2>2, SlotsStep, UsbTypeStep
    <3>2. TypeInv' /\ UsbType'
      BY <1>2 DEF MTypeInv
    <3>3. Orderly' => Orderly
      BY <3>1 DEF Orderly
    <3>4. QED
      BY <1>2, <2>2, <3>1, <3>2, <3>3, CalmNext DEF CalmInv
  <2>3. CASE UNCHANGED mvars
    <3>1. SlotsInv' /\ (Orderly' => Orderly)
      BY <2>1, <2>3 DEF mvars, usb, SlotsInv, SlotsApart, SticksSeated, EnoughSlots, Taken, Orderly
    <3>2. QED
      BY <1>2, <2>3, <3>1, CalmStutter DEF CalmInv
  <2>4. QED
    BY <1>2, <2>2, <2>3
<1>3. QED
  BY <1>1, <1>2, MTypeInvariant, PTL DEF MSpec

-----------------------------------------------------------------------------
(***************************************************************************)
(* What it gives                                                           *)
(***************************************************************************)

\* The drive Doom's paths name.
LEMMA EFound ==
  ASSUME CalmInv, Orderly, boot = "done", "E" \in scenario.disk
  PROVE  FirstMatch("E") \in mounted /\ FirstMatch("E") # None
<1>1. /\ TypeInv /\ UsbType /\ SlotsInv /\ CallersInv /\ DoomInv /\ EInv /\ ListInv
      /\ mounted \subseteq live /\ live \subseteq Drivers
  BY DEF CalmInv, MTypeInv, Calm, TypeInv, TypeOK
<1>2. PICK d \in mounted : letter[d] = "E"
  BY <1>1 DEF EInv
<1>3. Listed = Held /\ d \in Held
  BY <1>1, ListedHeld DEF ListInv, Held
<1>4. ASSUME NEW e \in Held, letter[e] = "E"
      PROVE  e = d
  <2>1. CASE e \in live
    BY <1>1, <1>2, <1>4, <2>1 DEF EInv
  <2>2. ASSUME NEW t \in Tasks, pc[t] = "unlink", e = drv[t]
        PROVE  FALSE
    BY <1>1, <1>4, <2>2, OtherLetters, WhoActs
  <2>3. QED
    BY <2>1, <2>2 DEF Held
<1>5. {e \in Listed : letter[e] = "E"} = {d}
  BY <1>2, <1>3, <1>4
<1>6. FirstMatch("E") = d
  BY <1>5 DEF FirstMatch
<1>7. QED
  BY <1>1, <1>2, <1>6, FileIOAssumption

\* A walk from e passes e and then what the walk from its next passes.
LEMMA WalkOn ==
  ASSUME TypeInv, NEW e \in Drivers
  PROVE  Walk(e) \subseteq {e} \cup Walk(next[e])
<1> DEFINE S == {e} \cup Walk(next[e])
<1>1. next[e] \in Drivers \cup {None} /\ None \notin Drivers
  BY FileIOAssumption DEF TypeInv, TypeOK, Pointer
<1>2. S \in SUBSET Drivers /\ e \in S \cup {None}
  BY DEF Walk
<1>3. next[e] \in S \cup {None}
  BY <1>1, WalkStart
<1>4. \A f \in Walk(next[e]) : next[f] \in S \cup {None}
  BY WalkClosed
<1>5. \A f \in S : next[f] \in S \cup {None}
  BY <1>3, <1>4
<1> HIDE DEF S
<1>6. Walk(e) \subseteq S
  BY <1>2, <1>5, WalkLeast
<1>7. QED
  BY <1>6 DEF S

\* Doom's look-ups stop before a freed block, which is the last on the list.
LEMMA DoomLooks ==
  ASSUME CalmInv, Orderly, boot = "done"
  PROVE  Visits("E") \subseteq live
<1>1. /\ TypeInv /\ UsbType /\ SlotsInv /\ CallersInv /\ DoomInv /\ EInv /\ ListInv
      /\ live \subseteq Drivers
  BY DEF CalmInv, MTypeInv, Calm, TypeInv, TypeOK
<1>2. Listed = Held /\ Visits("E") \subseteq Listed
  BY <1>1, ListedHeld DEF ListInv, Visits
<1>3. CASE \A t \in Registrars : pc[t] # "unlink"
  BY <1>1, <1>2, <1>3, HeldWhile
<1>4. ASSUME NEW t \in Registrars, pc[t] = "unlink"
      PROVE  Visits("E") \subseteq live
  <2>1. /\ MayFail(t) /\ drv[t] \notin live /\ Tail(drv[t], prev[t])
        /\ Held = live \cup {drv[t]}
    BY <1>1, <1>4, HeldWhile DEF ListInv
  <2>2. t \in Mounters
    BY <1>1, <1>4, OtherLetters
  <2>3. "E" \in scenario.disk
    BY <2>1, <2>2, CalmConstants DEF MayFail, Orderly
  <2>4. PICK e : e = FirstMatch("E")
    OBVIOUS
  <2>5. e \in live /\ e # None /\ e \in Drivers
    BY <1>1, <2>3, <2>4, EFound DEF TypeInv, TypeOK
  <2>6. drv[t] \in Walk(e)
    BY <1>1, <2>1, <2>5 DEF ListInv, HeldChain, Tail, Held
  <2>7. drv[t] \in Walk(next[e])
    BY <1>1, <2>1, <2>5, <2>6, WalkOn
  <2>8. Visits("E") = Listed \ Walk(next[e])
    BY <2>4, <2>5 DEF Visits
  <2>9. QED
    BY <1>2, <2>1, <2>7, <2>8
<1>5. QED
  BY <1>3, <1>4

\* A registrar walks the whole list while nobody has freed a block of it.
LEMMA RegistrarLooks ==
  ASSUME CalmInv, Orderly, NEW t \in Registrars, Busy(t), pc[t] = "idle"
  PROVE  Listed \subseteq live
<1>1. /\ TypeInv /\ UsbType /\ SlotsInv /\ CallersInv /\ DoomInv /\ ListInv
  BY DEF CalmInv, MTypeInv, Calm
<1>2. ASSUME NEW u \in Registrars, pc[u] = "unlink"
      PROVE  FALSE
  <2>1. MayFail(u) /\ Busy(u)
    BY <1>1, <1>2, WhoActs DEF ListInv
  <2>2. QED
    BY <1>1, <1>2, <2>1, Alone
<1>3. Held = live
  BY <1>1, <1>2, HeldWhile
<1>4. QED
  BY <1>1, <1>3, ListedHeld DEF ListInv

LEMMA CallsSafe ==
  ASSUME CalmInv, Orderly, NEW t \in Callers, pc[t] = "idle"
  PROVE  CallDerefs(t) \subseteq live
<1>1. t \in Tasks /\ setup \in Setups /\ UsbType
  BY CalmConstants DEF Callers, CalmInv, MTypeInv, TypeInv, TypeOK
<1>2. CASE t \in Registrars
  <2>1. Busy(t)
    BY <1>2, CalmConstants DEF Callers, Busy, Registrars
  <2>2. \A c : Visits(c) \subseteq Listed
    BY DEF Visits
  <2>3. CallDerefs(t) \subseteq Listed
    BY <2>2 DEF CallDerefs
  <2>4. QED
    BY <1>2, <2>1, <2>3, RegistrarLooks
<1>3. CASE t \notin Registrars
  <2>1. t = Doom /\ boot = "done"
    BY <1>3 DEF Callers, Registrars
  <2>2. \A c \in Chars : /\ <<Doom, c>> \notin setup.registers \cup setup.unregisters
                         /\ <<Doom, c>> \in setup.opens => c = "E"
    BY <1>1, MountsAssumption
  <2>3. CallDerefs(Doom) \subseteq Visits("E")
    <3> DEFINE lookups == {c \in Chars : <<Doom, c>> \in setup.opens \cup setup.unregisters}
    <3>1. CallDerefs(Doom) = UNION {Visits(Upper[c]) : c \in lookups}
      BY <2>2 DEF CallDerefs
    <3>2. \A c \in lookups : c = "E" /\ Upper[c] = "E"
      BY <2>2, CalmConstants
    <3> HIDE DEF lookups
    <3>3. \A c \in lookups : Visits(Upper[c]) = Visits("E")
      BY <3>2
    <3>4. \A x \in UNION {Visits(Upper[c]) : c \in lookups} : x \in Visits("E")
      BY <3>3
    <3>5. QED
      BY <3>1, <3>4
  <2>4. QED
    BY <2>1, <2>3, DoomLooks
<1>4. QED
  BY <1>2, <1>3

\* No task of the BIOS follows a pointer to a freed driver, in every scenario in which no stick
\* leaves while one is being mounted and all mounts succeed, or sticks come after boot and are
\* all FAT or only one; and boot finds memory for its drives.
THEOREM NoTaskUsesFreedHolds == MSpec /\ []BootHasRoom => [](Orderly => NoTaskUsesFreed)
<1>1. ASSUME CalmInv, Orderly, NEW t \in Callers PROVE Derefs(t) \subseteq live
  <2>1. /\ UsbType /\ SlotsInv /\ CallersInv /\ DoomInv /\ ListInv /\ t \in Tasks
    BY <1>1, CalmConstants DEF CalmInv, MTypeInv, Calm, Callers
  <2>2. CASE pc[t] = "idle"
    BY <1>1, <2>2, CallsSafe DEF Derefs
  <2>3. CASE pc[t] = "unlink"
    <3>1. t \in Registrars
      BY <2>1, <2>3, WhoActs
    <3>2. Tail(drv[t], prev[t]) /\ Held = live \cup {drv[t]}
      BY <1>1, <2>1, <2>3, <3>1, HeldWhile DEF ListInv
    <3>3. QED
      BY <2>3, <3>2 DEF Derefs, Tail
  <2>4. CASE pc[t] \notin {"idle", "unlink"}
    <3>1. drv[t] \in live /\ pc[t] # "u_unlink"
      <4>1. CASE t \in Registrars
        BY <2>1, <2>4, <4>1, WhoActs DEF ListInv
      <4>2. CASE t = Doom
        BY <2>1, <2>4, <4>2 DEF DoomInv
      <4>3. QED
        BY <2>1, <2>4, <4>1, <4>2 DEF CallersInv
    <3>2. QED
      BY <2>4, <3>1 DEF Derefs
  <2>5. QED
    BY <2>2, <2>3, <2>4
<1>2. ASSUME CalmInv, Orderly, NEW m \in Mounters PROVE FatWalk(m) \subseteq live
  <2>1. /\ TypeInv /\ UsbType /\ SlotsInv /\ CallersInv /\ DoomInv /\ ListInv
        /\ m \in Registrars
    BY <1>2 DEF CalmInv, MTypeInv, Calm, Registrars
  <2>2. CASE pc[m] = "fs_init"
    <3>1. Busy(m)
      BY <2>1, <2>2, WhoActs
    <3>2. \A t \in Registrars : pc[t] # "unlink"
      BY <1>2, <2>1, <2>2, <3>1, WhoActs, Alone DEF ListInv
    <3>3. Listed = live
      BY <1>2, <2>1, <3>2, HeldWhile, ListedHeld DEF ListInv
    <3>4. QED
      BY <3>3 DEF FatWalk, Visits
  <2>3. QED
    BY <2>2 DEF FatWalk
<1>3. CalmInv => (Orderly => NoTaskUsesFreed)
  BY <1>1, <1>2 DEF NoTaskUsesFreed
<1>4. QED
  BY <1>3, CalmInvariant, PTL

\* In the same scenarios Doom finds its drive, mounted, from its first file on.
THEOREM DoomFindsEHolds == MSpec /\ []BootHasRoom => [](Orderly => DoomFindsE)
<1>1. CalmInv => (Orderly => DoomFindsE)
  <2>1. fileio_find_driver("E") = FirstMatch("E")
    BY CalmConstants DEF fileio_find_driver
  <2>2. QED
    BY <2>1, EFound DEF DoomFindsE
<1>2. QED
  BY <1>1, CalmInvariant, PTL

LEMMA StickFound ==
  ASSUME CalmInv, Orderly, live # Drivers, scenario.sticks \subseteq scenario.fat,
         NEW i \in MscSlots, msc[i].addr \in scenario.fat,
         \A m \in Mounters : mount[m] # "none" => param[m] # i
  PROVE  FirstMatch(SlotLetter[i]) \in mounted /\ llslot[FirstMatch(SlotLetter[i])] = i
<1>1. /\ TypeInv /\ UsbType /\ SlotsInv /\ CallersInv /\ DoomInv /\ ListInv
      /\ SticksRead /\ SticksServed /\ SticksFound
  BY DEF CalmInv, MTypeInv, Calm, SticksInv
<1>2. PICK l : l = SlotLetter[i]
  OBVIOUS
<1>3. Firsts(l) # {}
  BY <1>1, <1>2 DEF SticksServed, SticksFound
<1>4. PICK d : d = FirstMatch(l)
  OBVIOUS
<1>5. d \in Firsts(l)
  BY <1>3, <1>4, FirstMatchIs
<1>6. d \in Held /\ letter[d] = l
  BY <1>1, <1>5, ListedHeld DEF ListInv, Firsts
<1>7. d \in live
  <2>1. ASSUME NEW t \in Tasks, pc[t] = "unlink", d = drv[t]
        PROVE  FALSE
    <3>1. t \in Registrars /\ MayFail(t)
      BY <1>1, <2>1, WhoActs DEF ListInv
    <3>2. t = Boot
      BY <3>1 DEF MayFail
    <3>3. letter[d] \in {"C", "E"}
      BY <1>1, <2>1, <3>2 DEF CallersInv, BootInv
    <3>4. QED
      BY <1>2, <1>6, <3>3, CalmConstants
  <2>2. QED
    BY <1>6, <2>1 DEF Held
<1>8. \A m \in Mounters : param[m] = i => pc[m] = "idle"
  BY <1>1 DEF CallersInv, MounterInv
<1>9. d \in mounted /\ llslot[d] = i
  BY <1>1, <1>2, <1>6, <1>7, <1>8 DEF SticksRead
<1>10. QED
  BY <1>2, <1>4, <1>9

\* In the same scenarios every FAT stick with a slot is a drive that reads that slot, once its
\* mount task is through, unless the heap has no block left for a driver.
THEOREM SticksMountedHolds == MSpec /\ []BootHasRoom => [](Orderly /\ live # Drivers => SticksMounted)
<1>1. ASSUME CalmInv, Orderly, live # Drivers,
             NEW i \in MscSlots, msc[i].addr \in scenario.fat,
             \A m \in Mounters : mount[m] # "none" => param[m] # i
      PROVE  /\ fileio_find_driver(SlotLetter[i]) \in mounted
             /\ llslot[fileio_find_driver(SlotLetter[i])] = i
  <2>1. scenario.sticks \subseteq scenario.fat
    <3>1. Taken(i)
      <4>1. scenario.fat \subseteq Devices
        BY <1>1, MountsAssumption DEF CalmInv, MTypeInv, UsbType
      <4>2. QED
        BY <1>1, <4>1, CalmConstants DEF Taken, EmptySlot
    <3>2. msc[i].addr \in scenario.sticks
      BY <1>1, <3>1 DEF CalmInv, SlotsInv, SlotsApart, MTypeInv, UsbType
    <3>3. QED
      BY <1>1, <3>2 DEF Orderly
  <2>2. fileio_find_driver(SlotLetter[i]) = FirstMatch(SlotLetter[i])
    BY CalmConstants DEF fileio_find_driver
  <2>3. QED
    BY <1>1, <2>1, <2>2, StickFound
<1>2. CalmInv => (Orderly /\ live # Drivers => SticksMounted)
  BY <1>1 DEF SticksMounted
<1>3. QED
  BY <1>2, CalmInvariant, PTL

=============================================================================
