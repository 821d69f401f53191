---------------------------- MODULE SMBusAtomic ----------------------------
(***************************************************************************)
(* What the callers of lib/pc/smbus.c rely on: a call takes effect once,   *)
(* on the devices' registers, at one moment between its start and its      *)
(* return; a read returns what its own register held at that moment, and a *)
(* call that reports an error has at most done its own write.              *)
(***************************************************************************)
EXTENDS Integers

CONSTANTS
  Tasks,      \* the callers
  Present,    \* the addresses where a device answers
  Commands,   \* the numbers of the devices' registers
  Bytes,      \* the register contents
  Counts,     \* the block lengths a device can announce
  Calls,      \* the calls the tasks make
  None        \* no call, no value

VARIABLES
  mem,        \* the devices' registers
  phase,      \* of each task's call
  call,       \* the call
  result      \* what it returns: the return value and, for a read, the datum

avars == <<mem, phase, call, result>>

NoResult == [status |-> 0, value |-> None]

\* The return value of a call that succeeds: its length, or the device's shorter block.
Lengths(c) ==
  IF c.read /\ c.len > 2 THEN {IF n > c.len THEN c.len ELSE n : n \in Counts} ELSE {c.len}

\* The registers after a successful call.
Written(m, c) ==
  IF c.read \/ c.len = 0 THEN m ELSE [m EXCEPT ![c.address][c.command] = c.value]

\* The datum a successful call stores for its caller.
Fetched(m, c) == IF c.read THEN m[c.address][c.command] ELSE None

AInit ==
  /\ mem \in [Present -> [Commands -> Bytes]]
  /\ phase = [t \in Tasks |-> "idle"]
  /\ call = [t \in Tasks |-> None]
  /\ result = [t \in Tasks |-> NoResult]

Invoke(t) ==
  /\ phase[t] = "idle"
  /\ \E c \in Calls : call' = [call EXCEPT ![t] = c]
  /\ phase' = [phase EXCEPT ![t] = "called"]
  /\ UNCHANGED <<mem, result>>

Succeed(t) ==
  /\ phase[t] = "called"
  /\ call[t].address \in Present
  /\ mem' = Written(mem, call[t])
  /\ \E n \in Lengths(call[t]) :
       result' = [result EXCEPT ![t] = [status |-> n, value |-> Fetched(mem, call[t])]]
  /\ phase' = [phase EXCEPT ![t] = "done"]
  /\ UNCHANGED call

Fail(t) ==
  /\ phase[t] = "called"
  /\ \/ UNCHANGED mem
     \/ call[t].address \in Present /\ mem' = Written(mem, call[t])
  /\ result' = [result EXCEPT ![t] = [status |-> -1, value |-> None]]
  /\ phase' = [phase EXCEPT ![t] = "done"]
  /\ UNCHANGED call

Finish(t) ==
  /\ phase[t] = "done"
  /\ phase' = [phase EXCEPT ![t] = "idle"]
  /\ call' = [call EXCEPT ![t] = None]
  /\ result' = [result EXCEPT ![t] = NoResult]
  /\ UNCHANGED mem

ANext == \E t \in Tasks : Invoke(t) \/ Succeed(t) \/ Fail(t) \/ Finish(t)

ASpec == AInit /\ [][ANext]_avars

=============================================================================
