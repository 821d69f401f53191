------------------------------- MODULE FileIO -------------------------------
(***************************************************************************)
(* The drive registry and the file handles of src/fileio.c.                *)
(*                                                                         *)
(* A volume is a file_io_driver_t: a heap block with a drive letter, a     *)
(* mutex (a binary semaphore) and a next pointer; fs_driver_head is the    *)
(* head of the list.  The list is walked with the scheduler suspended, so  *)
(* finding a driver and appending one are single steps; everything else    *)
(* (the file-system calls, the clean-up of a failed registration, the      *)
(* removal of a driver) can be preempted between any two statements that   *)
(* touch shared state, and is one action per such statement.               *)
(*                                                                         *)
(* What a task may call is not fixed by the library: a setup, picked by    *)
(* Init and never changed, says which task makes which calls, whether a    *)
(* volume is only unregistered while nobody uses it (quiet), and which     *)
(* outcomes a volume's init functions have.                                *)
(***************************************************************************)
EXTENDS FiniteSets, Naturals

CONSTANTS
  Tasks,      \* the FreeRTOS tasks that call the library
  Drivers,    \* the heap blocks a file_io_driver_t can live in (bounds the mounts)
  Slots,      \* names of the descriptors one task can hold (bounds the open files)
  Chars,      \* the drive-letter characters callers pass
  Alnum,      \* those isalnum() accepts
  Upper,      \* toupper()
  Setups,     \* the configurations Init chooses from
  None        \* NULL

ASSUME FileIOAssumption ==
  /\ None \notin Drivers \cup Tasks
  /\ Alnum \subseteq Chars
  /\ Upper \in [Chars -> Chars]
  /\ \A c \in Chars : Upper[Upper[c]] = Upper[c]
  /\ Setups \subseteq [registers : SUBSET (Tasks \X Chars),
                       unregisters : SUBSET (Tasks \X Chars),
                       opens : SUBSET (Tasks \X Chars),
                       quiet : BOOLEAN,
                       initResults : SUBSET BOOLEAN]

VARIABLES
  setup,    \* the configuration
  head,     \* fs_driver_head
  next,     \* driver->next
  letter,   \* driver->drive_letter
  live,     \* the blocks that are allocated
  mounted,  \* the drivers whose ll_handle and handle are set
  mutex,    \* the task that holds driver->mutex, None when the semaphore is given
  files,    \* files[t][s]: the driver of the descriptor, None when s is closed
  pc,       \* where a task is
  drv,      \* its local `driver` (or fp->driver)
  prev,     \* its local `prev`
  op,       \* the call it is making
  slot,     \* the descriptor it is making it on
  ok        \* the result of the file-system call it is inside

vars == <<setup, head, next, letter, live, mounted, mutex, files,
          pc, drv, prev, op, slot, ok>>
registry == <<head, next, letter, live, mounted>>
locals == <<drv, prev, op, slot, ok>>

Pointer == Drivers \cup {None}

Labels == {"idle", "ll_init", "fs_init", "unlink", "take", "in_fs", "give",
           "u_deinit", "u_unlink", "u_take", "u_give", "u_free"}

\* "access" stands for read(), lseek() and readdir(): the same steps around another io call.
Ops == {"open", "access", "close", "write"}

-----------------------------------------------------------------------------
(***************************************************************************)
(* The list                                                                *)
(***************************************************************************)

\* The blocks the walk p = p->next passes when it starts at p.
Walk(p) ==
  {d \in Drivers : \A S \in SUBSET Drivers :
     (/\ p \in S \cup {None}
      /\ \A e \in S : next[e] \in S \cup {None}) => d \in S}

Listed == Walk(head)

\* The first listed driver with letter c, as find and unregister look for it.
FirstMatch(c) ==
  LET Matches == {d \in Listed : letter[d] = c}
      First   == {d \in Matches : \A e \in Matches \ {d} : d \notin Walk(e)}
  IN IF First = {} THEN None ELSE CHOOSE d \in First : TRUE

\* fileio_find_driver: an invalid letter is refused, a valid one is folded to upper case.
fileio_find_driver(c) == IF c \in Alnum THEN FirstMatch(Upper[c]) ELSE None

\* The predecessor a walk remembers when it stops at p, None at the head.
Predecessor(p) ==
  LET Before == {d \in Listed : next[d] = p}
  IN IF p = head \/ Before = {} THEN None ELSE CHOOSE d \in Before : TRUE

-----------------------------------------------------------------------------
(***************************************************************************)
(* What a task is about to dereference                                     *)
(***************************************************************************)

\* The blocks a search for letter c passes: the list up to the match.
Visits(c) ==
  IF FirstMatch(c) = None THEN Listed ELSE Listed \ Walk(next[FirstMatch(c)])

\* The blocks the calls t may make would walk through.
CallDerefs(t) ==
  LET lookups == {c \in Chars : <<t, c>> \in setup.opens \cup setup.unregisters}
  IN IF \E c \in Chars : <<t, c>> \in setup.registers
     THEN Listed
     ELSE UNION {Visits(Upper[c]) : c \in lookups}

\* The blocks the next statement of t reads or writes through a pointer.
Derefs(t) ==
  (CASE pc[t] = "idle"   -> CallDerefs(t)
     [] pc[t] = "unlink" -> {prev[t]}
     [] pc[t] = "u_unlink" -> {drv[t], prev[t]}
     [] OTHER -> {drv[t]}) \ {None}

\* Past a use after free nothing is promised: the model stops the task there.
Defined(t) == Derefs(t) \subseteq live

At(t, label) == pc[t] = label /\ Defined(t)

Goto(t, label) == pc' = [pc EXCEPT ![t] = label]

\* The call returns and its locals go out of scope.
Return(t) ==
  /\ Goto(t, "idle")
  /\ drv' = [drv EXCEPT ![t] = None]
  /\ prev' = [prev EXCEPT ![t] = None]
  /\ op' = [op EXCEPT ![t] = "open"]
  /\ slot' = [slot EXCEPT ![t] = None]
  /\ ok' = [ok EXCEPT ![t] = FALSE]

-----------------------------------------------------------------------------
(***************************************************************************)
(* fileio_register_driver                                                  *)
(***************************************************************************)

\* Fault: the new driver goes to the front of the list.
Register_AtHead(t, c) ==
  /\ pc[t] = "idle"
  /\ <<t, c>> \in setup.registers
  /\ Listed \subseteq live
  /\ \E d \in Drivers \ live :
       /\ live' = live \cup {d}
       /\ letter' = [letter EXCEPT ![d] = Upper[c]]
       /\ mutex' = [mutex EXCEPT ![d] = None]
       /\ head' = d
       /\ next' = [next EXCEPT ![d] = head]
       /\ drv' = [drv EXCEPT ![t] = d]
  /\ Goto(t, "ll_init")
  /\ UNCHANGED <<setup, mounted, files, prev, op, slot, ok>>

\* Allocate the driver and its mutex, then append it with the scheduler suspended.
\* (When the heap is exhausted the call returns -1 and has changed nothing.)
Register(t, c) ==
  /\ pc[t] = "idle"
  /\ <<t, c>> \in setup.registers
  /\ Listed \subseteq live
  /\ \E d \in Drivers \ live :
       LET tail == Predecessor(None) IN
       /\ live' = live \cup {d}
       /\ letter' = [letter EXCEPT ![d] = Upper[c]]
       /\ mutex' = [mutex EXCEPT ![d] = None]
       /\ IF head = None
          THEN head' = d /\ next' = [next EXCEPT ![d] = None]
          ELSE head' = head /\ next' = [next EXCEPT ![d] = None, ![tail] = d]
       /\ drv' = [drv EXCEPT ![t] = d]
       /\ prev' = [prev EXCEPT ![t] = IF head = None THEN None ELSE tail]
  /\ Goto(t, "ll_init")
  /\ UNCHANGED <<setup, mounted, files, op, slot, ok>>

\* The block is freed while the list still points at it.
FreeDriver(t) ==
  /\ live' = live \ {drv[t]}
  /\ mounted' = mounted \ {drv[t]}

RegisterLLInit(t, result) ==
  /\ At(t, "ll_init")
  /\ IF result THEN Goto(t, "fs_init") /\ UNCHANGED <<live, mounted>>
     ELSE Goto(t, "unlink") /\ FreeDriver(t)
  /\ UNCHANGED <<setup, head, next, letter, mutex, files, locals>>

\* Fault: the handle is stored before it is compared with NULL.
RegisterFsInit_NoCheck(t, result) ==
  /\ At(t, "fs_init")
  /\ mounted' = mounted \cup {drv[t]}
  /\ IF result THEN Return(t) /\ UNCHANGED live
     ELSE Goto(t, "unlink") /\ live' = live \ {drv[t]} /\ UNCHANGED locals
  /\ UNCHANGED <<setup, head, next, letter, mutex, files>>

RegisterFsInit(t, result) ==
  /\ At(t, "fs_init")
  /\ IF result
     THEN Return(t) /\ mounted' = mounted \cup {drv[t]} /\ UNCHANGED live
     ELSE Goto(t, "unlink") /\ FreeDriver(t) /\ UNCHANGED locals
  /\ UNCHANGED <<setup, head, next, letter, mutex, files>>

\* Fault: a failed registration leaves its block on the list.
RegisterUnlink_Nothing(t) ==
  /\ At(t, "unlink")
  /\ Return(t)
  /\ UNCHANGED <<setup, registry, mutex, files>>

\* Fault: the remembered predecessor is ignored and the list emptied.
RegisterUnlink_Head(t) ==
  /\ At(t, "unlink")
  /\ head' = None
  /\ Return(t)
  /\ UNCHANGED <<setup, next, letter, live, mounted, mutex, files>>

\* prev->next = NULL, or fs_driver_head = NULL: whatever hangs below goes with it.
RegisterUnlink(t) ==
  /\ At(t, "unlink")
  /\ IF prev[t] # None
     THEN next' = [next EXCEPT ![prev[t]] = None] /\ UNCHANGED head
     ELSE head' = None /\ UNCHANGED next
  /\ Return(t)
  /\ UNCHANGED <<setup, letter, live, mounted, mutex, files>>

-----------------------------------------------------------------------------
(***************************************************************************)
(* open, read, lseek, close, write and the directory calls                 *)
(***************************************************************************)

\* open() and opendir(): find the driver, allocate the handle, go and take the mutex.
OpenFind(t, c, s) ==
  /\ pc[t] = "idle"
  /\ <<t, c>> \in setup.opens
  /\ files[t][s] = None
  /\ Visits(Upper[c]) \subseteq live
  /\ fileio_find_driver(c) # None
  /\ drv' = [drv EXCEPT ![t] = fileio_find_driver(c)]
  /\ op' = [op EXCEPT ![t] = "open"]
  /\ slot' = [slot EXCEPT ![t] = s]
  /\ Goto(t, "take")
  /\ UNCHANGED <<setup, registry, mutex, files, prev, ok>>

\* A call on an open descriptor; write() goes to the file system without the mutex.
CallOnFile(t, s, o) ==
  /\ pc[t] = "idle"
  /\ files[t][s] # None
  /\ o # "open"
  /\ drv' = [drv EXCEPT ![t] = files[t][s]]
  /\ op' = [op EXCEPT ![t] = o]
  /\ slot' = [slot EXCEPT ![t] = s]
  /\ Goto(t, IF o = "write" THEN "in_fs" ELSE "take")
  /\ UNCHANGED <<setup, registry, mutex, files, prev, ok>>

\* Fault: the take times out at once and its result is ignored.
TakeMutex_NoWait(t) ==
  /\ At(t, "take")
  /\ mutex' = [mutex EXCEPT ![drv[t]] = t]
  /\ Goto(t, "in_fs")
  /\ UNCHANGED <<setup, registry, files, locals>>

TakeMutex(t) ==
  /\ At(t, "take")
  /\ mutex[drv[t]] = None
  /\ mutex' = [mutex EXCEPT ![drv[t]] = t]
  /\ Goto(t, "in_fs")
  /\ UNCHANGED <<setup, registry, files, locals>>

\* The file-system call returns; only open's result decides what happens next.
FsReturn(t, result) ==
  /\ At(t, "in_fs")
  /\ IF op[t] = "write" THEN Return(t)
     ELSE /\ Goto(t, "give")
          /\ ok' = [ok EXCEPT ![t] = result]
          /\ UNCHANGED <<drv, prev, op, slot>>
  /\ UNCHANGED <<setup, registry, mutex, files>>

\* Fault: a failed open returns without giving the mutex back.
GiveMutex_NotOnFailure(t) ==
  /\ At(t, "give")
  /\ mutex' = [mutex EXCEPT ![drv[t]] = IF op[t] = "open" /\ ~ok[t] THEN @ ELSE None]
  /\ files' = [files EXCEPT ![t][slot[t]] =
                 CASE op[t] = "open"  -> IF ok[t] THEN drv[t] ELSE None
                   [] op[t] = "close" -> None
                   [] OTHER -> @]
  /\ Return(t)
  /\ UNCHANGED <<setup, registry>>

\* Give the mutex back; a failed open and a close free the handle.
GiveMutex(t) ==
  /\ At(t, "give")
  /\ mutex' = [mutex EXCEPT ![drv[t]] = None]
  /\ files' = [files EXCEPT ![t][slot[t]] =
                 CASE op[t] = "open"  -> IF ok[t] THEN drv[t] ELSE None
                   [] op[t] = "close" -> None
                   [] OTHER -> @]
  /\ Return(t)
  /\ UNCHANGED <<setup, registry>>

-----------------------------------------------------------------------------
(***************************************************************************)
(* fileio_unregister_driver                                                *)
(***************************************************************************)

\* Some task has a file open on d, or is inside a call on it.
InUse(d) ==
  \E t \in Tasks : \/ \E s \in Slots : files[t][s] = d
                  \/ (pc[t] # "idle" /\ drv[t] = d)

UnregisterFind(t, c) ==
  /\ pc[t] = "idle"
  /\ <<t, c>> \in setup.unregisters
  /\ setup.quiet => ~InUse(FirstMatch(Upper[c]))
  /\ Visits(Upper[c]) \subseteq live
  /\ FirstMatch(Upper[c]) # None
  /\ drv' = [drv EXCEPT ![t] = FirstMatch(Upper[c])]
  /\ prev' = [prev EXCEPT ![t] = Predecessor(FirstMatch(Upper[c]))]
  /\ Goto(t, "u_deinit")
  /\ UNCHANGED <<setup, registry, mutex, files, op, slot, ok>>

\* io->deinit and io_ll->deinit: the two handles are gone.
UnregisterDeinit(t) ==
  /\ At(t, "u_deinit")
  /\ mounted' = mounted \ {drv[t]}
  /\ Goto(t, "u_unlink")
  /\ UNCHANGED <<setup, head, next, letter, live, mutex, files, locals>>

UnregisterUnlink(t) ==
  /\ At(t, "u_unlink")
  /\ IF prev[t] = None
     THEN head' = next[drv[t]] /\ UNCHANGED next
     ELSE next' = [next EXCEPT ![prev[t]] = next[drv[t]]] /\ UNCHANGED head
  /\ Goto(t, "u_take")
  /\ UNCHANGED <<setup, letter, live, mounted, mutex, files, locals>>

UnregisterTake(t) ==
  /\ At(t, "u_take")
  /\ mutex[drv[t]] = None
  /\ mutex' = [mutex EXCEPT ![drv[t]] = t]
  /\ Goto(t, "u_give")
  /\ UNCHANGED <<setup, registry, files, locals>>

UnregisterGive(t) ==
  /\ At(t, "u_give")
  /\ mutex' = [mutex EXCEPT ![drv[t]] = None]
  /\ Goto(t, "u_free")
  /\ UNCHANGED <<setup, registry, files, locals>>

UnregisterFree(t) ==
  /\ At(t, "u_free")
  /\ FreeDriver(t)
  /\ Return(t)
  /\ UNCHANGED <<setup, head, next, letter, mutex, files>>

-----------------------------------------------------------------------------
Init ==
  /\ setup \in Setups
  /\ head = None
  /\ next = [d \in Drivers |-> None]
  /\ letter = [d \in Drivers |-> None]
  /\ live = {}
  /\ mounted = {}
  /\ mutex = [d \in Drivers |-> None]
  /\ files = [t \in Tasks |-> [s \in Slots |-> None]]
  /\ pc = [t \in Tasks |-> "idle"]
  /\ drv = [t \in Tasks |-> None]
  /\ prev = [t \in Tasks |-> None]
  /\ op = [t \in Tasks |-> "open"]
  /\ slot = [t \in Tasks |-> None]
  /\ ok = [t \in Tasks |-> FALSE]

Call(t) ==
  \/ \E c \in Chars : Register(t, c) \/ UnregisterFind(t, c)
  \/ \E c \in Chars, s \in Slots : OpenFind(t, c, s)
  \/ \E s \in Slots, o \in Ops : CallOnFile(t, s, o)

InitStep(t) ==
  \E result \in setup.initResults : RegisterLLInit(t, result) \/ RegisterFsInit(t, result)

FsStep(t) == \E result \in BOOLEAN : FsReturn(t, result)

\* The steps that wait for nobody.
Step(t) ==
  \/ InitStep(t)
  \/ RegisterUnlink(t)
  \/ FsStep(t)
  \/ GiveMutex(t)
  \/ UnregisterDeinit(t)
  \/ UnregisterUnlink(t)
  \/ UnregisterGive(t)
  \/ UnregisterFree(t)

Wait(t) == TakeMutex(t) \/ UnregisterTake(t)

Next == \E t \in Tasks : Call(t) \/ Step(t) \/ Wait(t)

Spec == Init /\ [][Next]_vars

\* A task that can run is scheduled, a file-system call ends, and a task that waits for a
\* mutex others keep giving back gets it.
Fairness == \A t \in Tasks : WF_vars(Step(t)) /\ SF_vars(Wait(t))

FairSpec == Spec /\ Fairness

-----------------------------------------------------------------------------
(***************************************************************************)
(* Properties                                                              *)
(***************************************************************************)

\* The types of the variables of fileio.c and of its callers' locals.
TypeOK ==
  /\ setup \in Setups
  /\ head \in Pointer
  /\ next \in [Drivers -> Pointer]
  /\ letter \in [Drivers -> Chars \cup {None}]
  /\ live \subseteq Drivers
  /\ mounted \subseteq live
  /\ mutex \in [Drivers -> Tasks \cup {None}]
  /\ files \in [Tasks -> [Slots -> Pointer]]
  /\ pc \in [Tasks -> Labels]
  /\ drv \in [Tasks -> Pointer]
  /\ prev \in [Tasks -> Pointer]
  /\ op \in [Tasks -> Ops]
  /\ slot \in [Tasks -> Slots \cup {None}]
  /\ ok \in [Tasks -> BOOLEAN]

\* No statement of fileio.c goes through a pointer to a driver that was freed, be it the
\* driver a call found, the remembered predecessor or a node of the list.
NoUseAfterFree == \A t \in Tasks : Derefs(t) \subseteq live

InFs(t, d) == pc[t] = "in_fs" /\ drv[t] = d

\* The mutex of a driver keeps the file-system calls made under it apart: when two tasks are
\* inside the same volume's io functions, one of them is in write(), which takes no mutex.
LockedSerial ==
  \A t, u \in Tasks, d \in Drivers :
    t # u /\ InFs(t, d) /\ InFs(u, d) => "write" \in {op[t], op[u]}

\* Every volume mounts and none is unregistered: no driver is ever freed.
Reliable == setup.initResults = {TRUE} /\ setup.unregisters = {}

\* A registration that returned 0 lasts: until it is unregistered, the driver can be found.
RegistrationDurable == mounted \subseteq Listed

\* A letter keeps its volume: no call of another task makes the letter of a mounted driver
\* name a different one.
LetterStable ==
  [][\A d \in mounted \cap mounted' :
       FirstMatch(letter[d]) = d => FirstMatch(letter[d])' = d]_vars

\* Every call returns: nobody waits for ever on a driver's mutex.
CallsReturn == \A t \in Tasks : pc[t] # "idle" ~> pc[t] = "idle"

=============================================================================
