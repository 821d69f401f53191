------------------------------- MODULE SMBus -------------------------------
(***************************************************************************)
(* smbus_io of lib/pc/smbus.c: a call takes the spinlock, programs the     *)
(* controller's registers one port write at a time, starts the transfer,   *)
(* polls for its end, and reads the status and the data back before it     *)
(* lets go of the lock; after a collision it starts over.  The controller  *)
(* and the devices are external: a transfer ends well, with an error, or   *)
(* with a collision, and reads or writes the addressed device's register.  *)
(* A datum is one value whatever its width; a block has a count beside it. *)
(***************************************************************************)
EXTENDS Integers

CONSTANTS
  Tasks,      \* the FreeRTOS tasks that call the library
  Addresses,  \* the bus addresses callers use
  Present,    \* those where a device answers
  Commands,   \* the numbers of the devices' registers
  Bytes,      \* the register contents
  Counts,     \* the block lengths a device can announce
  Calls,      \* the calls the tasks make (bounds the inputs)
  None        \* no call, no value

ASSUME SMBusAssumption ==
  /\ Counts \subseteq Nat
  /\ Present \subseteq Addresses
  /\ None \notin Addresses \cup Commands \cup Bytes
  /\ None \notin Calls
  /\ Calls \subseteq [address : Addresses, command : Commands, len : {0, 1, 2, 4},
                     read : BOOLEAN, value : Bytes \cup {None}]
  /\ \A c \in Calls : IF c.read THEN c.len > 0 ELSE c.len > 0 => c.value \in Bytes

VARIABLES
  lock,       \* the spinlock: TRUE when the flag is set
  pc,         \* where in smbus_io a task is
  call,       \* its arguments
  result,     \* its return value and the datum it fetched
  busy,       \* SMBUS_STATUS_BUSY
  status,     \* the status bits of the last transfer
  regs,       \* the registers a call programs
  started,    \* the bit pattern of SMBUS_CONTROL: the transfer's type
  mem         \* the devices' registers

task == <<lock, pc, call, result>>
controller == <<busy, status, regs, started, mem>>
svars == <<task, controller>>

Points == {"idle", "acquire", "ready", "address", "command", "clear", "data",
           "start", "poll", "status", "fetch", "unlock", "retry", "return"}

Types == {"zero", "byte", "word", "block"}

Registers == [address : Addresses \cup {None}, read : BOOLEAN, command : Commands \cup {None},
              data : Bytes \cup {None}, count : Nat, block : Bytes \cup {None}]

NoRegisters == [address |-> None, read |-> FALSE, command |-> None,
                data |-> None, count |-> 0, block |-> None]

NoResult == [status |-> 0, value |-> None]

transfer_type(len) ==
  CASE len = 0 -> "zero" [] len = 1 -> "byte" [] len = 2 -> "word" [] OTHER -> "block"

Goto(t, point) == pc' = [pc EXCEPT ![t] = point]

Move(t, from, to) == pc[t] = from /\ Goto(t, to)

-----------------------------------------------------------------------------
(***************************************************************************)
(* smbus_io                                                                *)
(***************************************************************************)

\* smbus_poke, smbus_input_byte, ... : the call and its arguments.
Invoke(t) ==
  /\ Move(t, "idle", "acquire")
  /\ \E c \in Calls : call' = [call EXCEPT ![t] = c]
  /\ UNCHANGED <<lock, result, controller>>

\* Fault: the flag is set without looking whether it was set.
spinlock_acquire_NoTest(t) ==
  /\ Move(t, "acquire", "ready")
  /\ lock' = TRUE
  /\ UNCHANGED <<call, result, controller>>

spinlock_acquire(t) ==
  /\ Move(t, "acquire", "ready")
  /\ ~lock
  /\ lock' = TRUE
  /\ UNCHANGED <<call, result, controller>>

WaitReady(t) ==
  /\ Move(t, "ready", "address")
  /\ ~busy
  /\ UNCHANGED <<lock, call, result, controller>>

ProgramAddress(t) ==
  /\ Move(t, "address", IF call[t].len > 0 THEN "command" ELSE "clear")
  /\ regs' = [regs EXCEPT !.address = call[t].address, !.read = call[t].read]
  /\ UNCHANGED <<lock, call, result, busy, status, started, mem>>

ProgramCommand(t) ==
  /\ Move(t, "command", "clear")
  /\ regs' = [regs EXCEPT !.command = call[t].command]
  /\ UNCHANGED <<lock, call, result, busy, status, started, mem>>

ClearStatus(t) ==
  /\ Move(t, "clear", IF call[t].read \/ call[t].len = 0 THEN "start" ELSE "data")
  /\ status' = "none"
  /\ UNCHANGED <<lock, call, result, busy, regs, started, mem>>

\* A block goes byte by byte into its own register, its length into the data register.
ProgramData(t) ==
  /\ Move(t, "data", "start")
  /\ regs' = IF call[t].len > 2
             THEN [regs EXCEPT !.count = call[t].len, !.block = call[t].value]
             ELSE [regs EXCEPT !.data = call[t].value]
  /\ UNCHANGED <<lock, call, result, busy, status, started, mem>>

StartTransfer(t) ==
  /\ Move(t, "start", "poll")
  /\ started' = transfer_type(call[t].len)
  /\ busy' = TRUE
  /\ UNCHANGED <<lock, call, result, status, regs, mem>>

Poll(t) ==
  /\ Move(t, "poll", "status")
  /\ ~busy
  /\ UNCHANGED <<lock, call, result, controller>>

\* Fault: the status that decides is the one left after the clearing write.
ReadStatus_Late(t) ==
  /\ Move(t, "status", IF call[t].read THEN "fetch" ELSE "unlock")
  /\ result' = [result EXCEPT ![t] = [status |-> call[t].len, value |-> None]]
  /\ status' = "none"
  /\ UNCHANGED <<lock, call, busy, regs, started, mem>>

\* Read and clear the status; an error ends the call, a collision the attempt.
ReadStatus(t) ==
  /\ pc[t] = "status"
  /\ \/ /\ status = "complete"
        /\ Goto(t, IF call[t].read THEN "fetch" ELSE "unlock")
        /\ result' = [result EXCEPT ![t] = [status |-> call[t].len, value |-> None]]
     \/ /\ status = "error"
        /\ Goto(t, "unlock")
        /\ result' = [result EXCEPT ![t] = [status |-> -1, value |-> None]]
     \/ status = "collision" /\ Goto(t, "retry") /\ UNCHANGED result
  /\ status' = "none"
  /\ UNCHANGED <<lock, call, busy, regs, started, mem>>

\* Fault: the device's block length is not clamped to the caller's buffer.
Received_NoClamp(c) ==
  IF c.len <= 2 THEN [status |-> c.len, value |-> regs.data]
  ELSE [status |-> regs.count, value |-> regs.block]

\* What a read stores for its caller and returns.
Received(c) ==
  IF c.len <= 2 THEN [status |-> c.len, value |-> regs.data]
  ELSE [status |-> IF regs.count > c.len THEN c.len ELSE regs.count, value |-> regs.block]

FetchData(t) ==
  /\ Move(t, "fetch", "unlock")
  /\ result' = [result EXCEPT ![t] = Received(call[t])]
  /\ UNCHANGED <<lock, call, controller>>

\* Fault: the lock is kept for the next attempt, which takes it again.
spinlock_release_NotOnRetry(t) ==
  /\ \/ Move(t, "unlock", "return") /\ lock' = FALSE
     \/ Move(t, "retry", "acquire") /\ UNCHANGED lock
  /\ UNCHANGED <<call, result, controller>>

spinlock_release(t) ==
  /\ Move(t, "unlock", "return") \/ Move(t, "retry", "acquire")
  /\ lock' = FALSE
  /\ UNCHANGED <<call, result, controller>>

Return(t) ==
  /\ Move(t, "return", "idle")
  /\ call' = [call EXCEPT ![t] = None]
  /\ result' = [result EXCEPT ![t] = NoResult]
  /\ UNCHANGED <<lock, controller>>

-----------------------------------------------------------------------------
(***************************************************************************)
(* The controller and the devices                                          *)
(***************************************************************************)

\* The device answers: a read fills the data registers, a write changes the device.
Answer ==
  /\ regs.address \in Present
  /\ CASE started = "zero" -> UNCHANGED <<mem, regs>>
       [] started # "zero" /\ regs.read ->
            /\ UNCHANGED mem
            /\ LET value == mem[regs.address][regs.command] IN
               IF started = "block"
               THEN \E n \in Counts : regs' = [regs EXCEPT !.count = n, !.block = value]
               ELSE regs' = [regs EXCEPT !.data = value]
       [] OTHER ->
            /\ UNCHANGED regs
            /\ mem' = [mem EXCEPT ![regs.address][regs.command] =
                         IF started = "block" THEN regs.block ELSE regs.data]

\* A transfer ends.  An error can strike before or after the device did its part; a
\* collision is lost before anything reached the device.
Complete(outcome) ==
  /\ busy
  /\ busy' = FALSE
  /\ status' = outcome
  /\ CASE outcome = "complete" -> Answer
       [] outcome = "error" -> UNCHANGED <<mem, regs>> \/ Answer
       [] outcome = "collision" -> UNCHANGED <<mem, regs>>
  /\ UNCHANGED <<task, started>>

-----------------------------------------------------------------------------
\* The boot ROM may have left a transfer to nobody running.
SInit ==
  /\ lock = FALSE
  /\ pc = [t \in Tasks |-> "idle"]
  /\ call = [t \in Tasks |-> None]
  /\ result = [t \in Tasks |-> NoResult]
  /\ busy \in BOOLEAN
  /\ status = "none"
  /\ regs = NoRegisters
  /\ started = "zero"
  /\ mem \in [Present -> [Commands -> Bytes]]

\* The statements of a call, from the acquired lock to the return.
Step(t) ==
  \/ WaitReady(t)
  \/ ProgramAddress(t)
  \/ ProgramCommand(t)
  \/ ClearStatus(t)
  \/ ProgramData(t)
  \/ StartTransfer(t)
  \/ Poll(t)
  \/ ReadStatus(t)
  \/ FetchData(t)
  \/ spinlock_release(t)
  \/ Return(t)

Controller == \E outcome \in {"complete", "error", "collision"} : Complete(outcome)

SNext ==
  \/ \E t \in Tasks : Invoke(t) \/ spinlock_acquire(t) \/ Step(t)
  \/ Controller

SSpec == SInit /\ [][SNext]_svars

\* Tasks of one priority share the processor, and the controller ends what it started.
SFairSpec == SSpec /\ (\A t \in Tasks : WF_svars(Step(t))) /\ WF_svars(Controller)

-----------------------------------------------------------------------------
(***************************************************************************)
(* Properties                                                              *)
(***************************************************************************)

\* The types of smbus_io's locals, of the lock and of the controller's registers; a return
\* value is an error or the length of what the caller's buffer took, four bytes at most.
STypeOK ==
  /\ lock \in BOOLEAN
  /\ pc \in [Tasks -> Points]
  /\ call \in [Tasks -> Calls \cup {None}]
  /\ result \in [Tasks -> [status : -1 .. 4, value : Bytes \cup {None}]]
  /\ busy \in BOOLEAN
  /\ status \in {"none", "complete", "error", "collision"}
  /\ regs \in Registers
  /\ started \in Types
  /\ mem \in [Present -> [Commands -> Bytes]]

Holds(t) == pc[t] \notin {"idle", "acquire", "return"}

\* The spinlock works: one call at a time is between acquire and release, and the flag is
\* set exactly then (a retried collision gives it up in between).
LockExclusive ==
  /\ lock <=> \E t \in Tasks : Holds(t)
  /\ \A t, u \in Tasks : Holds(t) /\ Holds(u) => t = u

\* A running transfer is left alone: no task writes a register before the controller is done,
\* be it a transfer of its own or one that ran before it had the lock.
QuietWhileBusy == [][busy /\ busy' => UNCHANGED <<regs, status, started>>]_svars

\* The bus does not stay locked, whatever errors and collisions happen.
LockReleased == lock ~> ~lock

\* The call has taken its effect.
Effective(t) ==
  \/ pc[t] \in {"fetch", "unlock", "return"}
  \/ pc[t] \in {"poll", "status"} /\ ~busy /\ status # "collision"

\* What it will return is then fixed.
Outcome(t) ==
  IF ~Effective(t) THEN NoResult
  ELSE IF pc[t] \in {"poll", "status"} /\ status = "error"
  THEN [status |-> -1, value |-> None]
  ELSE IF pc[t] \in {"poll", "status", "fetch"}
  THEN IF call[t].read THEN Received(call[t]) ELSE [status |-> call[t].len, value |-> None]
  ELSE result[t]

Phase(t) == IF pc[t] = "idle" THEN "idle" ELSE IF Effective(t) THEN "done" ELSE "called"

Atomic == INSTANCE SMBusAtomic WITH
  phase <- [t \in Tasks |-> Phase(t)],
  result <- [t \in Tasks |-> Outcome(t)]

\* smbus_io is atomic: every call takes effect at one moment, on its own arguments, and
\* returns the outcome and the datum of its own transfer.
AtomicCalls == Atomic!ASpec

=============================================================================
