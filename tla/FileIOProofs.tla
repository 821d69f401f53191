---------------------------- MODULE FileIOProofs ----------------------------
(***************************************************************************)
(* What holds of FileIO for every set of tasks, drivers and letters.       *)
(*                                                                         *)
(* TypeOK is proved for every setup.  The safety theorems are about the    *)
(* setups in which no driver is ever freed (Reliable): the inductive       *)
(* invariant then says that the head, every next pointer, every open file  *)
(* and every task's driver are allocated, that a task inside a locked call *)
(* holds its driver's mutex, and (Chain) that the list holds every         *)
(* allocated block and has one end.                                        *)
(***************************************************************************)
EXTENDS FileIO, TLAPS

\* TypeOK is not inductive alone: a task that stores through drv must have one.
TypeInv ==
  /\ TypeOK
  /\ \A t \in Tasks : pc[t] # "idle" => drv[t] \in Drivers

-----------------------------------------------------------------------------
\* What find returns is NULL or a block the walk reaches.
LEMMA FirstMatchListed ==
  ASSUME NEW c
  PROVE  FirstMatch(c) \in Listed \cup {None}
BY DEF FirstMatch

LEMMA ListedDrivers == Listed \subseteq Drivers
BY DEF Listed, Walk

LEMMA PredecessorType ==
  ASSUME NEW p
  PROVE  Predecessor(p) \in Pointer
BY ListedDrivers DEF Predecessor, Pointer

LEMMA FreeDriverType ==
  ASSUME TypeInv, NEW t \in Tasks, FreeDriver(t)
  PROVE  live' \subseteq Drivers /\ mounted' \subseteq live'
BY DEF TypeInv, TypeOK, FreeDriver

\* When a call returns its locals keep their types.
LEMMA ReturnType ==
  ASSUME TypeInv, NEW t \in Tasks, Return(t)
  PROVE  /\ pc' \in [Tasks -> Labels] /\ drv' \in [Tasks -> Pointer]
         /\ prev' \in [Tasks -> Pointer] /\ op' \in [Tasks -> Ops]
         /\ slot' \in [Tasks -> Slots \cup {None}] /\ ok' \in [Tasks -> BOOLEAN]
         /\ \A u \in Tasks : pc'[u] # "idle" => drv'[u] \in Drivers
BY DEF TypeInv, TypeOK, Return, Goto, Pointer, Labels, Ops

LEMMA InitTypeInv == Init => TypeInv
BY DEF Init, TypeInv, TypeOK, Pointer, Labels, Ops

LEMMA CallTypeInv ==
  ASSUME TypeInv, NEW t \in Tasks, Call(t)
  PROVE  TypeInv'
<1> USE DEF TypeInv, TypeOK
<1>1. ASSUME NEW c \in Chars, Register(t, c)
      PROVE  TypeInv'
  <2> PICK d \in Drivers \ live :
         LET tail == Predecessor(None) IN
         /\ live' = live \cup {d}
         /\ letter' = [letter EXCEPT ![d] = Upper[c]]
         /\ mutex' = [mutex EXCEPT ![d] = None]
         /\ IF head = None
            THEN head' = d /\ next' = [next EXCEPT ![d] = None]
            ELSE head' = head /\ next' = [next EXCEPT ![d] = None, ![tail] = d]
         /\ drv' = [drv EXCEPT ![t] = d]
         /\ prev' = [prev EXCEPT ![t] = IF head = None THEN None ELSE tail]
    BY <1>1 DEF Register
  <2>1. Upper[c] \in Chars /\ Predecessor(None) \in Pointer
    BY FileIOAssumption, PredecessorType
  <2>2. next' \in [Drivers -> Pointer] /\ head' \in Pointer
    BY <2>1 DEF Pointer
  <2>3. pc' = [pc EXCEPT ![t] = "ll_init"] /\ UNCHANGED <<setup, mounted, files, op, slot, ok>>
    BY <1>1 DEF Register, Goto
  <2>4. pc' \in [Tasks -> Labels] /\ drv' \in [Tasks -> Pointer] /\ prev' \in [Tasks -> Pointer]
    BY <2>1, <2>3 DEF Pointer, Labels
  <2>5. live' \subseteq Drivers /\ mounted' \subseteq live'
    BY <2>3
  <2>6. letter' \in [Drivers -> Chars \cup {None}] /\ mutex' \in [Drivers -> Tasks \cup {None}]
    BY <2>1
  <2>7. \A u \in Tasks : pc'[u] # "idle" => drv'[u] \in Drivers
    BY <2>3
  <2>8. QED
    BY <2>2, <2>3, <2>4, <2>5, <2>6, <2>7
<1>2. ASSUME NEW c \in Chars, UnregisterFind(t, c)
      PROVE  TypeInv'
  <2>1. FirstMatch(Upper[c]) \in Drivers /\ Predecessor(FirstMatch(Upper[c])) \in Pointer
    BY <1>2, FirstMatchListed, ListedDrivers, PredecessorType DEF UnregisterFind
  <2>2. QED
    BY <1>2, <2>1 DEF UnregisterFind, Goto, registry, Pointer, Labels
<1>3. ASSUME NEW c \in Chars, NEW s \in Slots, OpenFind(t, c, s)
      PROVE  TypeInv'
  <2>1. fileio_find_driver(c) \in Drivers
    BY <1>3, FirstMatchListed, ListedDrivers DEF OpenFind, fileio_find_driver
  <2>2. QED
    BY <1>3, <2>1 DEF OpenFind, Goto, registry, Pointer, Labels, Ops
<1>4. ASSUME NEW s \in Slots, NEW o \in Ops, CallOnFile(t, s, o)
      PROVE  TypeInv'
  BY <1>4 DEF CallOnFile, Goto, registry, Pointer, Labels, Ops
<1>5. QED
  BY <1>1, <1>2, <1>3, <1>4 DEF Call

LEMMA LLInitTypeInv ==
  ASSUME TypeInv, NEW t \in Tasks, NEW result \in BOOLEAN, RegisterLLInit(t, result)
  PROVE  TypeInv'
BY FreeDriverType DEF RegisterLLInit, TypeInv, TypeOK, Pointer, Labels, Ops, locals, Goto, At

LEMMA FsInitTypeInv ==
  ASSUME TypeInv, NEW t \in Tasks, NEW result \in BOOLEAN, RegisterFsInit(t, result)
  PROVE  TypeInv'
<1> USE DEF TypeInv, TypeOK, Pointer, Labels, Ops, locals, registry, Goto, At
<1>1. CASE result
  <2>1. drv[t] \in live
    BY FileIOAssumption DEF RegisterFsInit, Defined, Derefs
  <2>2. QED
    BY <1>1, <2>1, ReturnType DEF RegisterFsInit
<1>2. CASE ~result
  BY <1>2, FreeDriverType DEF RegisterFsInit
<1>3. QED
  BY <1>1, <1>2

LEMMA StepTypeInv ==
  ASSUME TypeInv, NEW t \in Tasks, Step(t) \/ Wait(t)
  PROVE  TypeInv'
<1> USE DEF TypeInv, TypeOK, Pointer, Labels, Ops, locals, registry, Goto, At
<1>3. CASE RegisterUnlink(t)
  BY <1>3, ReturnType DEF RegisterUnlink
<1>4. ASSUME NEW result \in BOOLEAN, FsReturn(t, result)
      PROVE  TypeInv'
  BY <1>4, ReturnType DEF FsReturn
<1>5. CASE GiveMutex(t)
  <2>1. files' \in [Tasks -> [Slots -> Pointer]]
    <3> DEFINE was == files[t][slot[t]]
               entry == CASE op[t] = "open"  -> IF ok[t] THEN drv[t] ELSE None
                          [] op[t] = "close" -> None
                          [] OTHER -> was
               row == [files[t] EXCEPT ![slot[t]] = entry]
    <3>1. files' = [files EXCEPT ![t] = row]
      BY <1>5, Zenon DEF GiveMutex
    <3>2. CASE slot[t] \in Slots
      <4>1. entry \in Pointer
        BY <3>2
      <4>2. row \in [Slots -> Pointer]
        BY <4>1
      <4> HIDE DEF row
      <4>3. QED
        BY <3>1, <4>2
    <3>3. CASE slot[t] \notin Slots
      <4>1. row = files[t]
        BY <3>3
      <4> HIDE DEF row
      <4>2. QED
        BY <3>1, <4>1
    <3>4. QED
      BY <3>2, <3>3
  <2>2. mutex' \in [Drivers -> Tasks \cup {None}]
    BY <1>5 DEF GiveMutex
  <2>3. QED
    BY <1>5, <2>1, <2>2, ReturnType DEF GiveMutex
<1>6. CASE UnregisterDeinit(t)
  BY <1>6 DEF UnregisterDeinit
<1>7. CASE UnregisterUnlink(t)
  BY <1>7 DEF UnregisterUnlink
<1>8. CASE UnregisterGive(t)
  BY <1>8 DEF UnregisterGive
<1>9. CASE UnregisterFree(t)
  BY <1>9, FreeDriverType, ReturnType DEF UnregisterFree
<1>10. CASE TakeMutex(t)
  BY <1>10 DEF TakeMutex
<1>11. CASE UnregisterTake(t)
  BY <1>11 DEF UnregisterTake
<1>12. setup.initResults \subseteq BOOLEAN
  BY FileIOAssumption
<1>13. QED
  BY <1>3, <1>4, <1>5, <1>6, <1>7, <1>8, <1>9, <1>10, <1>11, <1>12, LLInitTypeInv, FsInitTypeInv
     DEF Step, InitStep, FsStep, Wait

\* Every variable keeps its type, whatever fails and whatever is unregistered.
THEOREM TypeCorrect == Spec => []TypeOK
<1>1. TypeInv /\ [Next]_vars => TypeInv'
  <2> SUFFICES ASSUME TypeInv, [Next]_vars PROVE TypeInv'
    OBVIOUS
  <2>1. CASE Next
    BY <2>1, CallTypeInv, StepTypeInv DEF Next
  <2>2. CASE UNCHANGED vars
    BY <2>2 DEF vars, TypeInv, TypeOK
  <2>3. QED
    BY <2>1, <2>2
<1>2. TypeInv => TypeOK
  BY DEF TypeInv
<1>3. QED
  BY InitTypeInv, <1>1, <1>2, PTL DEF Spec

-----------------------------------------------------------------------------
(***************************************************************************)
(* Setups in which no driver is freed                                      *)
(***************************************************************************)

\* t is inside a call it made under its driver's mutex.
Locked(t) == pc[t] = "give" \/ (pc[t] = "in_fs" /\ op[t] # "write")

Live == live \cup {None}

Connected ==
  /\ head \in Live
  /\ \A d \in live : next[d] \in Live

TaskSafe(t) ==
  /\ pc[t] \in {"idle", "ll_init", "fs_init", "take", "in_fs", "give"}
  /\ pc[t] # "idle" => drv[t] \in live
  /\ \A s \in Slots : files[t][s] \in Live
  /\ Locked(t) => mutex[drv[t]] = t

Safe == Connected /\ \A t \in Tasks : TaskSafe(t)

SafeInv == TypeInv /\ (Reliable => Safe)

\* A walk from an allocated block stays in allocated blocks: they are closed under next.
LEMMA WalkLive ==
  ASSUME TypeInv, Connected, NEW p \in Live
  PROVE  Walk(p) \subseteq live
<1>1. live \in SUBSET Drivers
  BY DEF TypeInv, TypeOK
<1>2. p \in live \cup {None} /\ \A e \in live : next[e] \in live \cup {None}
  BY DEF Connected, Live
<1>3. QED
  BY <1>1, <1>2 DEF Walk

LEMMA ListedLive ==
  ASSUME TypeInv, Connected
  PROVE  Listed \subseteq live
BY WalkLive DEF Listed, Connected

LEMMA InitSafe == Init => Safe
BY DEF Init, Safe, Connected, TaskSafe, Live, Locked

\* Appending: what Register does to the list.
Appended(d) ==
  /\ d \in Drivers \ live
  /\ live' = live \cup {d}
  /\ head' = IF head = None THEN d ELSE head
  /\ next' = IF head = None THEN [next EXCEPT ![d] = None]
             ELSE [next EXCEPT ![d] = None, ![Predecessor(None)] = d]

LEMMA RegisterAppends ==
  ASSUME NEW t \in Tasks, NEW c \in Chars, Register(t, c)
  PROVE  \E d : /\ Appended(d) /\ letter' = [letter EXCEPT ![d] = Upper[c]]
               /\ mutex' = [mutex EXCEPT ![d] = None] /\ drv' = [drv EXCEPT ![t] = d]
               /\ prev' = [prev EXCEPT ![t] = IF head = None THEN None ELSE Predecessor(None)]
BY DEF Register, Appended

LEMMA AppendedConnected ==
  ASSUME TypeInv, Connected, NEW d, Appended(d)
  PROVE  Connected'
<1>1. head' \in live' \cup {None}
  BY DEF Appended, Connected, Live
<1>2. ASSUME NEW e \in live'
      PROVE  next'[e] \in live' \cup {None}
  <2>1. e \in Drivers /\ next \in [Drivers -> Pointer]
    BY DEF TypeInv, TypeOK, Appended
  <2>2. CASE e = d
    BY <2>1, <2>2 DEF Appended
  <2>3. CASE e # d
    <3>1. next[e] \in live \cup {None}
      BY <2>3 DEF Connected, Live, Appended
    <3>2. next'[e] \in {next[e], d}
      BY <2>1, <2>3 DEF Appended
    <3>3. QED
      BY <3>1, <3>2 DEF Appended
  <2>4. QED
    BY <2>2, <2>3
<1>3. QED
  BY <1>1, <1>2 DEF Connected, Live

LEMMA RegisterSafe ==
  ASSUME TypeInv, Safe, NEW t \in Tasks, NEW c \in Chars, Register(t, c)
  PROVE  Safe'
<1> PICK d : /\ Appended(d) /\ mutex' = [mutex EXCEPT ![d] = None]
             /\ drv' = [drv EXCEPT ![t] = d]
  BY RegisterAppends
<1>1. /\ pc' = [pc EXCEPT ![t] = "ll_init"] /\ pc[t] = "idle" /\ UNCHANGED <<files, op>>
      /\ d \in Drivers \ live /\ live' = live \cup {d}
  BY DEF Register, Goto, Appended
<1>2. Connected'
  BY AppendedConnected DEF Safe
<1>3. ASSUME NEW u \in Tasks
      PROVE  TaskSafe(u)'
  <2>1. TaskSafe(u) /\ Live \subseteq Live'
    BY <1>1 DEF Safe, Live
  <2>2. CASE u = t
    BY <1>1, <2>1, <2>2 DEF TaskSafe, Locked, TypeInv, TypeOK, Live
  <2>3. CASE u # t
    <3>1. pc'[u] = pc[u] /\ drv'[u] = drv[u] /\ op'[u] = op[u] /\ files' = files
      BY <1>1, <2>3 DEF TypeInv, TypeOK
    <3>2. Locked(u) => mutex'[drv[u]] = mutex[drv[u]]
      BY <1>1, <2>1 DEF TaskSafe, Locked, TypeInv, TypeOK
    <3>3. QED
      BY <1>1, <2>1, <3>1, <3>2 DEF TaskSafe, Locked
  <2>4. QED
    BY <2>2, <2>3
<1>4. QED
  BY <1>2, <1>3 DEF Safe

\* A step of t that changes neither the registry nor what other tasks hold keeps the others safe.
LEMMA OthersSafe ==
  ASSUME TypeInv, Safe, NEW t \in Tasks, NEW u \in Tasks, u # t,
         UNCHANGED <<head, next, live>>,
         pc'[u] = pc[u], drv'[u] = drv[u], op'[u] = op[u], files'[u] = files[u],
         Locked(u) => mutex'[drv[u]] = mutex[drv[u]]
  PROVE  TaskSafe(u)'
BY DEF Safe, TaskSafe, Locked, Live

LEMMA OpenFindSafe ==
  ASSUME TypeInv, Safe, NEW t \in Tasks, NEW c \in Chars, NEW s \in Slots, OpenFind(t, c, s)
  PROVE  Safe'
<1>1. fileio_find_driver(c) \in live
  BY FirstMatchListed, ListedLive DEF OpenFind, fileio_find_driver, Safe
<1>2. Connected'
  BY DEF OpenFind, registry, Safe, Connected, Live
<1>3. TaskSafe(t)'
  BY <1>1 DEF OpenFind, registry, Goto, Safe, TaskSafe, Locked, Live, TypeInv, TypeOK
<1>4. ASSUME NEW u \in Tasks, u # t
      PROVE  TaskSafe(u)'
  BY <1>4, OthersSafe DEF OpenFind, registry, Goto, TypeInv, TypeOK
<1>5. QED
  BY <1>2, <1>3, <1>4 DEF Safe

LEMMA CallOnFileSafe ==
  ASSUME TypeInv, Safe, NEW t \in Tasks, NEW s \in Slots, NEW o \in Ops, CallOnFile(t, s, o)
  PROVE  Safe'
<1>1. Connected'
  BY DEF CallOnFile, registry, Safe, Connected, Live
<1>2. TaskSafe(t)'
  BY DEF CallOnFile, registry, Goto, Safe, TaskSafe, Locked, Live, TypeInv, TypeOK, Ops
<1>3. ASSUME NEW u \in Tasks, u # t
      PROVE  TaskSafe(u)'
  BY <1>3, OthersSafe DEF CallOnFile, registry, Goto, TypeInv, TypeOK
<1>4. QED
  BY <1>1, <1>2, <1>3 DEF Safe

LEMMA LLInitSafe ==
  ASSUME TypeInv, Safe, NEW t \in Tasks, RegisterLLInit(t, TRUE)
  PROVE  Safe'
<1>1. Connected' /\ UNCHANGED <<head, next, live, mutex, files, drv, op>>
  BY DEF RegisterLLInit, locals, Safe, Connected, Live
<1>2. TaskSafe(t)'
  BY <1>1 DEF RegisterLLInit, At, Goto, Safe, TaskSafe, Locked, Live, TypeInv, TypeOK
<1>3. ASSUME NEW u \in Tasks, u # t
      PROVE  TaskSafe(u)'
  BY <1>1, <1>3, OthersSafe DEF RegisterLLInit, Goto, TypeInv, TypeOK
<1>4. QED
  BY <1>1, <1>2, <1>3 DEF Safe

LEMMA FsInitSafe ==
  ASSUME TypeInv, Safe, NEW t \in Tasks, RegisterFsInit(t, TRUE)
  PROVE  Safe'
<1>1. Connected' /\ UNCHANGED <<head, next, live, mutex, files>>
  BY DEF RegisterFsInit, Safe, Connected, Live
<1>2. TaskSafe(t)'
  BY <1>1 DEF RegisterFsInit, Return, Goto, Safe, TaskSafe, Locked, Live, TypeInv, TypeOK
<1>3. ASSUME NEW u \in Tasks, u # t
      PROVE  TaskSafe(u)'
  BY <1>1, <1>3, OthersSafe DEF RegisterFsInit, Return, Goto, TypeInv, TypeOK
<1>4. QED
  BY <1>1, <1>2, <1>3 DEF Safe

LEMMA FsReturnSafe ==
  ASSUME TypeInv, Safe, NEW t \in Tasks, NEW result \in BOOLEAN, FsReturn(t, result)
  PROVE  Safe'
<1>1. Connected' /\ UNCHANGED <<head, next, live, mutex, files>>
  BY DEF FsReturn, registry, Safe, Connected, Live
<1>2. TaskSafe(t)'
  <2>1. CASE op[t] = "write"
    BY <1>1, <2>1 DEF FsReturn, Return, Goto, Safe, TaskSafe, Locked, Live, TypeInv, TypeOK
  <2>2. CASE op[t] # "write"
    BY <1>1, <2>2 DEF FsReturn, At, Goto, Safe, TaskSafe, Locked, Live, TypeInv, TypeOK
  <2>3. QED
    BY <2>1, <2>2
<1>3. ASSUME NEW u \in Tasks, u # t
      PROVE  TaskSafe(u)'
  <2>1. pc'[u] = pc[u] /\ drv'[u] = drv[u] /\ op'[u] = op[u]
    BY <1>3 DEF FsReturn, Return, Goto, TypeInv, TypeOK
  <2>2. QED
    BY <1>1, <1>3, <2>1, OthersSafe
<1>4. QED
  BY <1>1, <1>2, <1>3 DEF Safe

LEMMA GiveMutexSafe ==
  ASSUME TypeInv, Safe, NEW t \in Tasks, GiveMutex(t)
  PROVE  Safe'
<1>1. Connected' /\ UNCHANGED <<head, next, live>>
  BY DEF GiveMutex, registry, Safe, Connected, Live
<1>2. drv[t] \in live /\ mutex[drv[t]] = t /\ \A s \in Slots : files[t][s] \in Live
  BY DEF GiveMutex, At, Safe, TaskSafe, Locked
<1>3. \A s \in Slots : files'[t][s] \in {files[t][s], drv[t], None}
  BY DEF GiveMutex, TypeInv, TypeOK
<1>4. TaskSafe(t)'
  BY <1>1, <1>2, <1>3
     DEF GiveMutex, Return, Goto, Safe, TaskSafe, Locked, Live, TypeInv, TypeOK
<1>5. ASSUME NEW u \in Tasks, u # t
      PROVE  TaskSafe(u)'
  <2>1. pc'[u] = pc[u] /\ drv'[u] = drv[u] /\ op'[u] = op[u] /\ files'[u] = files[u]
    BY <1>5 DEF GiveMutex, Return, Goto, TypeInv, TypeOK
  <2>2. Locked(u) => mutex'[drv[u]] = mutex[drv[u]]
    BY <1>2, <1>5 DEF GiveMutex, Safe, TaskSafe, Locked, TypeInv, TypeOK
  <2>3. QED
    BY <1>1, <1>5, <2>1, <2>2, OthersSafe
<1>6. QED
  BY <1>1, <1>4, <1>5 DEF Safe

LEMMA TakeMutexSafe ==
  ASSUME TypeInv, Safe, NEW t \in Tasks, TakeMutex(t)
  PROVE  Safe'
<1>1. Connected' /\ UNCHANGED <<head, next, live, files, drv, op>>
  BY DEF TakeMutex, registry, locals, Safe, Connected, Live
<1>2. drv[t] \in live /\ mutex[drv[t]] = None
  BY DEF TakeMutex, At, Safe, TaskSafe
<1>3. TaskSafe(t)'
  BY <1>1, <1>2 DEF TakeMutex, Goto, Safe, TaskSafe, Locked, Live, TypeInv, TypeOK
<1>4. ASSUME NEW u \in Tasks, u # t
      PROVE  TaskSafe(u)'
  <2>1. pc'[u] = pc[u]
    BY <1>4 DEF TakeMutex, Goto, TypeInv, TypeOK
  <2>2. Locked(u) => drv[u] # drv[t]
    BY <1>2, FileIOAssumption DEF Safe, TaskSafe
  <2>3. Locked(u) => mutex'[drv[u]] = mutex[drv[u]]
    BY <2>2 DEF TakeMutex, TypeInv, TypeOK
  <2>4. QED
    BY <1>1, <1>4, <2>1, <2>3, OthersSafe
<1>5. QED
  BY <1>1, <1>3, <1>4 DEF Safe

LEMMA CallSafe ==
  ASSUME TypeInv, Safe, Reliable, NEW t \in Tasks, Call(t)
  PROVE  Safe'
<1>1. ASSUME NEW c \in Chars, UnregisterFind(t, c)
      PROVE  FALSE
  BY <1>1 DEF UnregisterFind, Reliable
<1>2. QED
  BY <1>1, RegisterSafe, OpenFindSafe, CallOnFileSafe DEF Call

LEMMA StepSafe ==
  ASSUME TypeInv, Safe, Reliable, NEW t \in Tasks, Step(t) \/ Wait(t)
  PROVE  Safe'
<1>1. pc[t] \in {"idle", "ll_init", "fs_init", "take", "in_fs", "give"}
  BY DEF Safe, TaskSafe
<1>2. ASSUME NEW result \in setup.initResults
      PROVE  result = TRUE
  BY <1>2 DEF Reliable
<1>3. QED
  BY <1>1, <1>2, LLInitSafe, FsInitSafe, FsReturnSafe, GiveMutexSafe, TakeMutexSafe
     DEF Step, InitStep, FsStep, Wait, RegisterUnlink, UnregisterDeinit, UnregisterUnlink,
         UnregisterTake, UnregisterGive, UnregisterFree, At

LEMMA SafeInvariant == Spec => []SafeInv
<1>1. Init => SafeInv
  BY InitTypeInv, InitSafe DEF SafeInv
<1>2. SafeInv /\ [Next]_vars => SafeInv'
  <2> SUFFICES ASSUME SafeInv, [Next]_vars PROVE SafeInv'
    OBVIOUS
  <2>1. CASE UNCHANGED vars
    BY <2>1 DEF vars, SafeInv, TypeInv, TypeOK, Reliable, Safe, Connected, TaskSafe, Locked, Live
  <2>2. ASSUME NEW t \in Tasks, Call(t) \/ Step(t) \/ Wait(t)
        PROVE  SafeInv'
    <3>1. TypeInv'
      BY <2>2, CallTypeInv, StepTypeInv DEF SafeInv
    <3>2. UNCHANGED setup
      BY <2>2 DEF Call, Step, Wait, InitStep, FsStep, Register, UnregisterFind, OpenFind,
                  CallOnFile, RegisterLLInit, RegisterFsInit, RegisterUnlink, FsReturn, GiveMutex,
                  UnregisterDeinit, UnregisterUnlink, UnregisterTake, UnregisterGive,
                  UnregisterFree, TakeMutex
    <3>3. QED
      BY <2>2, <3>1, <3>2, CallSafe, StepSafe DEF SafeInv, Reliable
  <2>3. QED
    BY <2>1, <2>2 DEF Next
<1>3. QED
  BY <1>1, <1>2, PTL DEF Spec

LEMMA DerefsLive ==
  ASSUME TypeInv, Safe, NEW t \in Tasks
  PROVE  Derefs(t) \subseteq live
<1>1. Listed \subseteq live
  BY ListedLive DEF Safe
<1>2. CallDerefs(t) \subseteq Listed
  BY DEF CallDerefs, Visits
<1>3. QED
  BY <1>1, <1>2 DEF Derefs, Safe, TaskSafe

\* While no mount fails and nothing is unregistered, no call goes through a freed driver,
\* for any number of tasks and volumes.
THEOREM NoUseAfterFreeHolds == Spec => [](Reliable => NoUseAfterFree)
<1>1. SafeInv => (Reliable => NoUseAfterFree)
  BY DerefsLive DEF SafeInv, NoUseAfterFree
<1>2. QED
  BY <1>1, SafeInvariant, PTL

\* Under the same condition the mutex of a volume keeps its locked calls apart.
THEOREM LockedSerialHolds == Spec => [](Reliable => LockedSerial)
<1>1. SafeInv => (Reliable => LockedSerial)
  <2> SUFFICES ASSUME SafeInv, Reliable, NEW t \in Tasks, NEW u \in Tasks, NEW d \in Drivers,
                      t # u, InFs(t, d), InFs(u, d), op[t] # "write", op[u] # "write"
               PROVE  FALSE
    BY DEF LockedSerial
  <2>1. Locked(t) /\ Locked(u) /\ drv[t] = drv[u]
    BY DEF InFs, Locked
  <2>2. QED
    BY <2>1 DEF SafeInv, Safe, TaskSafe
<1>2. QED
  BY <1>1, SafeInvariant, PTL

-----------------------------------------------------------------------------
(***************************************************************************)
(* The list itself, while no driver is freed                               *)
(***************************************************************************)

Ends == {w \in live : next[w] = None}

\* The allocated blocks are all on the list, and every one of them leads to its only end.
Chain ==
  /\ live \subseteq Listed
  /\ live # {} => Ends # {}
  /\ \A e \in live, w \in Ends : w \in Walk(e)

\* What a walk is contained in: every set that has its start and is closed under next.
LEMMA WalkLeast ==
  ASSUME NEW p, NEW S \in SUBSET Drivers, p \in S \cup {None},
         \A e \in S : next[e] \in S \cup {None}
  PROVE  Walk(p) \subseteq S
BY DEF Walk

LEMMA WalkStart ==
  ASSUME NEW p \in Drivers, None \notin Drivers
  PROVE  p \in Walk(p)
BY DEF Walk

LEMMA WalkClosed ==
  ASSUME TypeInv, NEW p, NEW e \in Walk(p)
  PROVE  next[e] \in Walk(p) \cup {None}
<1>1. next[e] \in Drivers \cup {None}
  BY DEF Walk, TypeInv, TypeOK, Pointer
<1>2. QED
  BY <1>1 DEF Walk

\* The last block of a list is the only one that ends it.
LEMMA EndAlone ==
  ASSUME TypeInv, Chain, NEW v \in Ends, NEW w \in Ends
  PROVE  v = w
<1>1. w \in Walk(v) /\ v \in Drivers /\ next[v] = None
  BY DEF Chain, Ends, TypeInv, TypeOK
<1>2. {v} \in SUBSET Drivers /\ v \in {v} \cup {None} /\ \A e \in {v} : next[e] \in {v} \cup {None}
  BY <1>1
<1>3. Walk(v) \subseteq {v}
  BY <1>2 DEF Walk
<1>4. QED
  BY <1>1, <1>3

-----------------------------------------------------------------------------
\* The walk that looks for the end finds it.
LEMMA EndFound ==
  ASSUME TypeInv, Connected, Chain, head # None
  PROVE  Predecessor(None) \in live /\ Ends = {Predecessor(None)}
<1>1. head \in live
  BY DEF Connected, Live
<1>2. PICK z \in Ends : TRUE
  BY <1>1 DEF Chain
<1>3. Ends = {z}
  BY <1>2, EndAlone
<1>4. {e \in Listed : next[e] = None} = {z}
  BY <1>3, ListedLive DEF Ends, Chain
<1>5. Predecessor(None) = z
  BY <1>4 DEF Predecessor
<1>6. QED
  BY <1>2, <1>3, <1>5 DEF Ends

\* The new block is behind the end, and nothing else has moved.
LEMMA AppendedNext ==
  ASSUME TypeInv, Connected, Chain, NEW d, Appended(d)
  PROVE  /\ next'[d] = None
         /\ \A e \in live : next'[e] = IF e \in Ends THEN d ELSE next[e]
         /\ live = {} <=> head = None
<1>0. None \notin Drivers /\ next \in [Drivers -> Drivers \cup {None}] /\ live \subseteq Drivers
      /\ d \in Drivers /\ d \notin live
  BY FileIOAssumption DEF TypeInv, TypeOK, Pointer, Appended
<1>1. CASE head = None
  <2>1. Listed \subseteq {}
    <3>1. {} \in SUBSET Drivers /\ head \in {} \cup {None} /\ \A e \in {} : next[e] \in {} \cup {None}
      BY <1>1
    <3>2. QED
      BY <3>1 DEF Listed, Walk
  <2>2. live = {}
    BY <2>1 DEF Chain
  <2>3. QED
    BY <1>0, <1>1, <2>2 DEF Appended
<1>2. CASE head # None
  <2>1. PICK z \in live : z = Predecessor(None) /\ Ends = {z}
    BY <1>2, EndFound
  <2>2. next' = [next EXCEPT ![d] = None, ![z] = d] /\ z # d
    BY <1>0, <1>2, <2>1 DEF Appended
  <2>3. QED
    BY <1>0, <1>2, <2>1, <2>2
<1>3. QED
  BY <1>1, <1>2

\* A walk of the longer list passes what it passed before, and then the new block.
LEMMA AppendedWalk ==
  ASSUME TypeInv, Connected, Chain, NEW d, Appended(d), NEW e \in live
  PROVE  Walk(e)' = Walk(e) \cup {d}
<1>0. /\ None \notin Drivers /\ live \subseteq Drivers /\ d \in Drivers /\ d \notin live
      /\ e \in Live
  BY FileIOAssumption DEF TypeInv, TypeOK, Appended, Live
<1>1. /\ next'[d] = None
      /\ \A f \in live : next'[f] = IF f \in Ends THEN d ELSE next[f]
  BY AppendedNext
<1>2. Walk(e) \subseteq live
  BY <1>0, WalkLive
<1>3. \A f \in live : next[f] \in live \cup {None}
  BY DEF Connected, Live
<1>4. PICK z \in Ends : z \in Walk(e)
  BY DEF Chain
<1>5. ASSUME NEW f \in Walk(e)'
      PROVE  f \in Walk(e) \cup {d}
  <2> DEFINE S == Walk(e) \cup {d}
  <2>1. S \in SUBSET Drivers /\ e \in S
    BY <1>0, <1>2, WalkStart
  <2>2. ASSUME NEW g \in S
        PROVE  next'[g] \in S \cup {None}
    <3>1. CASE g = d
      BY <3>1, <1>1
    <3>2. CASE g # d
      BY <3>2, <1>1, <1>2, WalkClosed
    <3>3. QED
      BY <3>1, <3>2
  <2> HIDE DEF S
  <2>3. f \in S
    BY <2>1, <2>2 DEF Walk
  <2>4. QED
    BY <2>3 DEF S
<1>6. ASSUME NEW f \in Walk(e) \cup {d}
      PROVE  f \in Walk(e)'
  <2>1. f \in Drivers
    BY <1>0, <1>2
  <2>2. ASSUME NEW S \in SUBSET Drivers, e \in S \cup {None},
               \A g \in S : next'[g] \in S \cup {None}
        PROVE  f \in S
    <3>1. S \cap live \in SUBSET Drivers /\ e \in (S \cap live) \cup {None}
      BY <1>0, <2>2
    <3>2. ASSUME NEW g \in S \cap live
          PROVE  next[g] \in (S \cap live) \cup {None}
      BY <1>1, <1>3, <2>2 DEF Ends
    <3>3. Walk(e) \subseteq S \cap live
      BY <3>1, <3>2, WalkLeast
    <3>4. z \in S /\ z \in live
      BY <1>4, <3>3
    <3>5. next'[z] = d
      BY <1>1, <3>4
    <3>6. d \in S
      BY <1>0, <2>2, <3>4, <3>5
    <3>7. QED
      BY <3>3, <3>6
  <2>3. QED
    BY <2>1, <2>2 DEF Walk
<1>7. QED
  BY <1>5, <1>6

\* The longer list still holds every block, and the new block is its end.
LEMMA AppendedChain ==
  ASSUME TypeInv, Connected, Chain, NEW d, Appended(d)
  PROVE  Chain' /\ Walk(d)' = {d} /\ (head # None => Listed' = Listed \cup {d})
<1>0. /\ None \notin Drivers /\ d \in Drivers /\ d \notin live /\ live \subseteq Drivers
      /\ live' = live \cup {d}
  BY FileIOAssumption DEF TypeInv, TypeOK, Appended
<1>1. /\ next'[d] = None
      /\ \A e \in live : next'[e] = IF e \in Ends THEN d ELSE next[e]
      /\ live = {} <=> head = None
  BY AppendedNext
<1>2. Ends' = {d}
  BY <1>0, <1>1 DEF Ends
<1>3. Walk(d)' = {d}
  <2>1. d \in Walk(d)'
    BY <1>0 DEF Walk
  <2>2. {d} \in SUBSET Drivers /\ \A e \in {d} : next'[e] \in {d} \cup {None}
    BY <1>0, <1>1
  <2>3. Walk(d)' \subseteq {d}
    BY <2>2 DEF Walk
  <2>4. QED
    BY <2>1, <2>3
<1>4. ASSUME NEW e \in live
      PROVE  Walk(e)' = Walk(e) \cup {d}
  BY AppendedWalk
<1>5. live' \subseteq Listed' /\ (head # None => Listed' = Listed \cup {d})
  <2>1. CASE head = None
    <3>1. head' = d /\ live' = {d}
      BY <1>0, <1>1, <2>1 DEF Appended
    <3>2. Listed' = Walk(d)'
      BY <3>1 DEF Listed, Walk
    <3>3. QED
      BY <1>3, <2>1, <3>1, <3>2
  <2>2. CASE head # None
    <3>1. PICK h \in live : h = head
      BY <2>2 DEF Connected, Live
    <3>2. head' = h
      BY <2>2, <3>1 DEF Appended
    <3>3. Listed' = Walk(h)' /\ Listed = Walk(h)
      BY <3>1, <3>2 DEF Listed, Walk
    <3>4. QED
      BY <1>0, <1>4, <3>3 DEF Chain
  <2>3. QED
    BY <2>1, <2>2
<1>6. QED
  BY <1>0, <1>2, <1>3, <1>4, <1>5 DEF Chain

\* While nothing is freed, only Register touches the list or a letter.
LEMMA OnlyRegisterMoves ==
  ASSUME TypeInv, Safe, Reliable, NEW t \in Tasks, Call(t) \/ Step(t) \/ Wait(t)
  PROVE  \/ UNCHANGED <<head, next, live, letter>>
         \/ \E c \in Chars : Register(t, c)
<1>1. pc[t] \in {"idle", "ll_init", "fs_init", "take", "in_fs", "give"}
  BY DEF Safe, TaskSafe
<1>2. CASE Call(t)
  BY <1>2 DEF Call, Reliable, UnregisterFind, OpenFind, CallOnFile, registry
<1>3. CASE InitStep(t)
  <2>1. RegisterLLInit(t, TRUE) \/ RegisterFsInit(t, TRUE)
    BY <1>3 DEF InitStep, Reliable
  <2>2. QED
    BY <2>1 DEF RegisterLLInit, RegisterFsInit
<1>4. CASE FsStep(t) \/ GiveMutex(t) \/ TakeMutex(t)
  BY <1>4 DEF FsStep, FsReturn, GiveMutex, TakeMutex, registry
<1>5. ~(RegisterUnlink(t) \/ UnregisterDeinit(t) \/ UnregisterUnlink(t) \/ UnregisterTake(t)
        \/ UnregisterGive(t) \/ UnregisterFree(t))
  BY <1>1 DEF At, RegisterUnlink, UnregisterDeinit, UnregisterUnlink, UnregisterTake,
              UnregisterGive, UnregisterFree
<1>6. QED
  BY <1>2, <1>3, <1>4, <1>5 DEF Step, Wait

LEMMA SetupKept ==
  ASSUME [Next]_vars
  PROVE  UNCHANGED setup
<1>1. \A t \in Tasks : Call(t) => UNCHANGED setup
  BY DEF Call, Register, UnregisterFind, OpenFind, CallOnFile
<1>2. \A t \in Tasks : InitStep(t) \/ RegisterUnlink(t) \/ FsStep(t) => UNCHANGED setup
  BY DEF InitStep, RegisterLLInit, RegisterFsInit, RegisterUnlink, FsStep, FsReturn
<1>3. \A t \in Tasks : UnregisterDeinit(t) \/ UnregisterUnlink(t) \/ UnregisterTake(t)
                       \/ UnregisterGive(t) \/ UnregisterFree(t) => UNCHANGED setup
  BY DEF UnregisterDeinit, UnregisterUnlink, UnregisterTake, UnregisterGive, UnregisterFree
<1>4. \A t \in Tasks : GiveMutex(t) \/ TakeMutex(t) => UNCHANGED setup
  BY DEF GiveMutex, TakeMutex
<1>5. QED
  BY <1>1, <1>2, <1>3, <1>4 DEF Next, Step, Wait, vars

LEMMA ChainInvariant == Spec => [](SafeInv /\ (Reliable => Chain))
<1>1. Init => Chain
  BY DEF Init, Chain, Ends
<1>2. SafeInv /\ (Reliable => Chain) /\ [Next]_vars => (Reliable => Chain)'
  <2> SUFFICES ASSUME SafeInv, Reliable => Chain, [Next]_vars, Reliable'
               PROVE  Chain'
    OBVIOUS
  <2>1. Reliable
    BY SetupKept DEF Reliable
  <2>2. TypeInv /\ Safe /\ Chain
    BY <2>1 DEF SafeInv
  <2>3. CASE UNCHANGED <<head, next, live>>
    BY <2>2, <2>3 DEF Chain, Ends, Listed, Walk
  <2>4. ASSUME NEW t \in Tasks, NEW c \in Chars, Register(t, c)
        PROVE  Chain'
    BY <2>2, <2>4, RegisterAppends, AppendedChain DEF Safe
  <2>5. QED
    BY <2>1, <2>2, <2>3, <2>4, OnlyRegisterMoves DEF Next, vars
<1>3. QED
  BY <1>1, <1>2, SafeInvariant, PTL DEF Spec

\* While no driver is freed, a registered volume stays on the list, however many there are.
THEOREM RegistrationDurableHolds == Spec => [](Reliable => RegistrationDurable)
<1>1. SafeInv /\ (Reliable => Chain) => (Reliable => RegistrationDurable)
  BY DEF SafeInv, TypeInv, TypeOK, Chain, RegistrationDurable
<1>2. QED
  BY <1>1, ChainInvariant, PTL

-----------------------------------------------------------------------------
\* The candidates FirstMatch chooses from: matches no other match leads to.
Firsts(c) ==
  {d \in Listed : letter[d] = c /\ \A e \in Listed : letter[e] = c /\ e # d => d \notin Walk(e)}

LEMMA FirstMatchIs ==
  ASSUME NEW c
  PROVE  /\ FirstMatch(c) = IF Firsts(c) = {} THEN None ELSE CHOOSE d \in Firsts(c) : TRUE
         /\ (FirstMatch(c) = IF Firsts(c) = {} THEN None ELSE CHOOSE d \in Firsts(c) : TRUE)'
<1>1. Firsts(c) = {d \in {f \in Listed : letter[f] = c} :
                     \A e \in {f \in Listed : letter[f] = c} \ {d} : d \notin Walk(e)}
  BY DEF Firsts
<1>2. (Firsts(c) = {d \in {f \in Listed : letter[f] = c} :
                      \A e \in {f \in Listed : letter[f] = c} \ {d} : d \notin Walk(e)})'
  BY DEF Firsts
<1>3. QED
  BY <1>1, <1>2 DEF FirstMatch

\* A volume appended with the letter of a listed one is not found instead of it.
LEMMA RegisterKeepsFirst ==
  ASSUME TypeInv, Connected, Chain, NEW t \in Tasks, NEW l \in Chars, Register(t, l),
         NEW c, NEW m \in live, letter[m] = c
  PROVE  Firsts(c)' = Firsts(c)
<1>1. PICK d : Appended(d) /\ letter' = [letter EXCEPT ![d] = Upper[l]]
  BY RegisterAppends
<1>2. /\ d \in Drivers /\ d \notin live /\ head # None /\ live \subseteq Drivers
      /\ Listed \subseteq live /\ m \in Listed
  BY <1>1, AppendedNext, ListedLive DEF TypeInv, TypeOK, Appended, Chain
<1>3. Walk(d)' = {d} /\ Listed' = Listed \cup {d}
  BY <1>1, <1>2, AppendedChain
<1>4. \A e \in Listed : Walk(e)' = Walk(e) \cup {d} /\ letter'[e] = letter[e]
  BY <1>1, <1>2, AppendedWalk DEF TypeInv, TypeOK
<1>5. Walk(m)' = Walk(m) \cup {d} /\ letter'[m] = c
  BY <1>2, <1>4
<1>6. \A x : x \in Firsts(c)' <=> x \in Firsts(c)
  <2> SUFFICES ASSUME NEW x
               PROVE  x \in Firsts(c)' <=> x \in Firsts(c)
    OBVIOUS
  <2>1. x \in Firsts(c)' <=> /\ x \in Listed \cup {d} /\ letter'[x] = c
                             /\ \A e \in Listed \cup {d} :
                                  letter'[e] = c /\ e # x => x \notin Walk(e)'
    BY <1>3 DEF Firsts
  <2>2. CASE x = d
    BY <1>2, <1>5, <2>1, <2>2 DEF Firsts
  <2>3. CASE x # d
    BY <1>2, <1>3, <1>4, <2>1, <2>3 DEF Firsts
  <2>4. QED
    BY <2>2, <2>3
<1>7. QED
  BY <1>6 DEF Firsts

\* While no driver is freed, a letter that names a mounted volume names it for ever.
THEOREM LetterStableHolds == Spec /\ Reliable => LetterStable
<1> DEFINE Kept == \A d \in mounted \cap mounted' :
                     FirstMatch(letter[d]) = d => FirstMatch(letter[d])' = d
<1>1. SafeInv /\ (Reliable => Chain) /\ Reliable /\ [Next]_vars => [Kept]_vars
  <2> SUFFICES ASSUME SafeInv, Chain, Reliable, Next, NEW m \in mounted,
                      FirstMatch(letter[m]) = m
               PROVE  FirstMatch(letter[m])' = m
    OBVIOUS
  <2>1. TypeInv /\ Safe /\ m \in live /\ m \in Drivers
    BY DEF SafeInv, TypeInv, TypeOK
  <2>2. CASE UNCHANGED <<head, next, live, letter>>
    BY <2>2 DEF FirstMatch, Listed, Walk
  <2>3. ASSUME NEW t \in Tasks, NEW l \in Chars, Register(t, l)
        PROVE  FirstMatch(letter[m])' = m
    <3>1. PICK c : c = letter[m]
      OBVIOUS
    <3>2. Firsts(c)' = Firsts(c)
      BY <2>1, <2>3, <3>1, RegisterKeepsFirst DEF Safe
    <3>3. letter'[m] = c
      BY <2>1, <2>3, <3>1, RegisterAppends DEF Appended, TypeInv, TypeOK
    <3>4. FirstMatch(c)' = FirstMatch(c)
      BY <3>2, FirstMatchIs
    <3>5. FirstMatch(letter[m])' = FirstMatch(c)'
      BY <3>3 DEF FirstMatch
    <3>6. QED
      BY <3>1, <3>4, <3>5
  <2>4. QED
    BY <2>1, <2>2, <2>3, OnlyRegisterMoves DEF Next
<1>2. Reliable /\ [Next]_vars => Reliable'
  BY SetupKept DEF Reliable
<1>3. QED
  BY <1>1, <1>2, ChainInvariant, PTL DEF Spec, LetterStable

=============================================================================
