-------------------------------- MODULE ATA --------------------------------
(***************************************************************************)
(* The DMA transfers of lib/pc/ata.c on the Xbox's hard disk: drives C and *)
(* E have mutexes of their own and share one drive, its registers, the bus *)
(* master and the static PRD table under the spinlock of the driver.  The  *)
(* drive and the bus master are external: a command is carried out, fails, *)
(* or takes so long that the driver gives it up and it ends later.         *)
(*                                                                         *)
(* The disk lies within LBA28 and is the bus's master, which stays         *)
(* selected (D, the slave, is compiled out).                               *)
(***************************************************************************)
EXTENDS Integers, Sequences, FiniteSets

CONSTANTS
  Tasks,
  SectorSize,   \* ATA_SECTOR_SIZE
  SectorCount,  \* the sectors of the disk
  Boundary,     \* the 64 KB that a PRD entry must not cross
  Alignment,    \* of a PRD entry's address
  MaxQueue,     \* ATA_MAX_DMA_QUEUE_BYTES
  MemorySize,   \* the bytes of memory the buffers are in
  Requests,     \* what a task asks for (bounds the inputs)
  Scenarios,    \* what the hardware may do
  Junk,         \* what a buffer holds before it is read into
  Blank,        \* what the disk holds at first
  None

ASSUME ATAAssumption ==
  /\ {SectorSize, SectorCount, Boundary, Alignment, MemorySize} \subseteq Nat \ {0}
  /\ MaxQueue \in Nat /\ MaxQueue >= 2 * Boundary
  /\ Boundary % Alignment = 0 /\ SectorSize % Alignment = 0
  /\ None \notin Tasks
  /\ \A t \in Tasks : \A r \in Requests[t] :
       /\ r.write \in BOOLEAN /\ r.lba \in Nat /\ r.count \in Nat \ {0}
       /\ r.base \in Nat /\ r.base % Alignment = 0
       /\ r.lba + r.count <= SectorCount /\ r.base + r.count * SectorSize <= MemorySize
       \* a cluster is the most that libfatx asks for at once, the others have to be refused
       /\ r.count * SectorSize < Boundary \/ r.count * SectorSize > MaxQueue
  /\ \A t, u \in Tasks : t # u => \A r \in Requests[t], q \in Requests[u] :
       \A k \in 0 .. r.count * SectorSize - 1 : r.base + k \notin q.base .. q.base + q.count * SectorSize - 1
  /\ Scenarios \subseteq [errors : BOOLEAN,   \* commands and transfers may fail
                          timeouts : BOOLEAN] \* or take too long

VARIABLES
  scenario,
  lock,    \* the spinlock: who has set it
  pc,      \* where in ide_dma_io a task is
  req,     \* what it was asked for
  error,   \* the result so far: has something failed
  prd,     \* prd_table, and the bus master's direction: is it a read
  start,   \* START of the bus master's command register
  intr,    \* INTERRUPT and ERROR of its status register
  drive,   \* the command the drive has, and its state: idle, busy, drq or error
  disk,    \* the drive's sectors, byte by byte
  unsynced,\* those of them that are not on the medium yet
  memory

avars == <<scenario, lock, pc, req, error, prd, start, intr, drive, disk, unsynced, memory>>
driver == <<lock, pc, req, error>>
busmaster == <<prd, start, intr>>
contents == <<disk, unsynced, memory>>

Memory == 0 .. MemorySize - 1
Bytes == 0 .. SectorCount * SectorSize - 1
NoRequest == [write |-> FALSE, lba |-> 0, count |-> 0, base |-> 0]
FlushCommand == [write |-> TRUE, lba |-> 0, count |-> 0, base |-> 0]

Size(r) == r.count * SectorSize
Buffer(r) == r.base .. r.base + Size(r) - 1
Sectors(r) == r.lba .. r.lba + r.count - 1

Goto(t, point) == pc' = [pc EXCEPT ![t] = point]
Move(t, from, to) == pc[t] = from /\ Goto(t, to)
Fail(t) == error' = [error EXCEPT ![t] = TRUE]

\* ata_busy_wait gives up while the drive is busy only if it is too slow.
Settled == drive.state # "busy" \/ scenario.timeouts

-----------------------------------------------------------------------------
(***************************************************************************)
(* The PRD table of busmaster_dma_transfer                                 *)
(***************************************************************************)

\* Fault: an entry may cross a 64 KB boundary.
PrdTable_Cross(r) ==
  LET table[left \in 0 .. Size(r)] ==
        IF left = 0 THEN <<>>
        ELSE LET bytes == IF left > Boundary - 1 THEN Boundary - 1 ELSE left
             IN <<[base |-> r.base + Size(r) - left, count |-> bytes]>> \o table[left - bytes]
  IN table[Size(r)]

\* One entry for each piece of the buffer that fits the 16 bits of its count and does not
\* cross a 64 KB boundary.
PrdTable(r) ==
  LET table[left \in 0 .. Size(r)] ==
        IF left = 0 THEN <<>>
        ELSE LET at == r.base + Size(r) - left
                 cap == IF left > Boundary - 1 THEN Boundary - 1 ELSE left
                 max == Boundary - (at % Boundary)
                 bytes == IF cap > max THEN max ELSE cap
             IN <<[base |-> at, count |-> bytes]>> \o table[left - bytes]
  IN table[Size(r)]

\* The address of the k-th byte of an entry: the bus master ignores the bits below the
\* alignment and does not carry into those above the boundary.
AddressIn(entry, k) ==
  LET first == entry.base - (entry.base % Alignment)
  IN first - (first % Boundary) + ((first + k) % Boundary)

\* The addresses a table names, in order.
Addresses(table) ==
  LET upTo[j \in 0 .. Len(table)] ==
        IF j = 0 THEN <<>>
        ELSE upTo[j - 1] \o [k \in 1 .. table[j].count |-> AddressIn(table[j], k - 1)]
  IN upTo[Len(table)]

-----------------------------------------------------------------------------
(***************************************************************************)
(* ide_dma_read, ide_dma_write: ide_dma_io                                 *)
(***************************************************************************)

\* A task calls with its data, or with a buffer to read into; what is longer than the table
\* can take is refused.
Call(t) ==
  /\ pc[t] = "idle"
  /\ \E r \in Requests[t] :
       /\ req' = [req EXCEPT ![t] = r]
       /\ memory' = [a \in Memory |-> IF r.write /\ a \in Buffer(r) THEN t ELSE memory[a]]
       /\ error' = [error EXCEPT ![t] = Size(r) > MaxQueue]
       /\ Goto(t, IF Size(r) > MaxQueue THEN "return" ELSE "acquire")
  /\ UNCHANGED <<scenario, lock, busmaster, drive, disk, unsynced>>

Acquire(t) ==
  /\ Move(t, "acquire", "send")
  /\ lock = None
  /\ lock' = t
  /\ UNCHANGED <<scenario, req, error, busmaster, drive, contents>>

\* The registers and the command are written whatever the drive is doing; one that is still
\* at a command may take the new one or ignore it.
Issue(command) ==
  \/ drive' = [command |-> command, state |-> "busy"]
  \/ drive.state \in {"busy", "drq"} /\ UNCHANGED drive

SendCommand(t) ==
  /\ Move(t, "send", "sent")
  /\ Issue(req[t])
  /\ UNCHANGED <<scenario, lock, req, error, busmaster, contents>>

\* Fault: a command that the drive refuses is sent again and again.
CommandStatus_Again(t) ==
  /\ pc[t] = "sent"
  /\ \/ drive.state = "error" /\ Goto(t, "send") /\ UNCHANGED error
     \/ drive.state = "busy" /\ Settled /\ Goto(t, "release") /\ Fail(t)
     \/ drive.state \in {"idle", "drq"} /\ Goto(t, "program") /\ UNCHANGED error
  /\ UNCHANGED <<scenario, lock, req, busmaster, drive, contents>>

\* The rest of ata_send_command: an error, or a drive that stays busy, ends the call.
CommandStatus(t) ==
  /\ pc[t] = "sent"
  /\ \/ drive.state = "error" /\ Goto(t, "release") /\ Fail(t)
     \/ drive.state = "busy" /\ Settled /\ Goto(t, "release") /\ Fail(t)
     \/ drive.state \in {"idle", "drq"} /\ Goto(t, "program") /\ UNCHANGED error
  /\ UNCHANGED <<scenario, lock, req, busmaster, drive, contents>>

\* Fault: what the status register has from before is not cleared.
Program_KeepStatus(t) ==
  /\ Move(t, "program", "start")
  /\ prd' = [table |-> PrdTable(req[t]), read |-> ~req[t].write]
  /\ UNCHANGED <<scenario, lock, req, error, start, intr, drive, contents>>

\* The table, the direction, and the status bits of whatever came before.
Program(t) ==
  /\ Move(t, "program", "start")
  /\ prd' = [table |-> PrdTable(req[t]), read |-> ~req[t].write]
  /\ intr' = [interrupt |-> FALSE, error |-> FALSE]
  /\ UNCHANGED <<scenario, lock, req, error, start, drive, contents>>

Start(t) ==
  /\ Move(t, "start", "poll")
  /\ start' = TRUE
  /\ UNCHANGED <<scenario, lock, req, error, prd, intr, drive, contents>>

\* The transfer's end, or 5 s and 100 ms per MB.
Poll(t) ==
  /\ Move(t, "poll", "stop")
  /\ IF intr.interrupt THEN UNCHANGED error
     ELSE /\ scenario.timeouts \/ drive.state \in {"idle", "error"}
          /\ Fail(t)
  /\ UNCHANGED <<scenario, lock, req, busmaster, drive, contents>>

\* Fault: the bus master is left running.
Stop_Running(t) ==
  /\ Move(t, "stop", "status")
  /\ UNCHANGED <<scenario, lock, req, error, busmaster, drive, contents>>

Stop(t) ==
  /\ Move(t, "stop", "status")
  /\ start' = FALSE
  /\ UNCHANGED <<scenario, lock, req, error, prd, intr, drive, contents>>

\* Wait once more, whatever comes of it, then read and clear the status bits.
TransferStatus(t) ==
  /\ Settled
  /\ Move(t, "status", IF req[t].write THEN "flush" ELSE "release")
  /\ error' = [error EXCEPT ![t] = @ \/ intr.error \/ drive.state = "error"]
  /\ intr' = [interrupt |-> FALSE, error |-> FALSE]
  /\ UNCHANGED <<scenario, lock, req, prd, start, drive, contents>>

Flush(t) ==
  /\ Move(t, "flush", "flushing")
  /\ Issue(FlushCommand)
  /\ UNCHANGED <<scenario, lock, req, error, busmaster, contents>>

\* Fault: the drive is not waited for.
FlushStatus_NoWait(t) ==
  /\ Move(t, "flushing", "release")
  /\ UNCHANGED <<scenario, lock, req, error, busmaster, drive, contents>>

\* What comes of the flush is not looked at.
FlushStatus(t) ==
  /\ Settled
  /\ Move(t, "flushing", "release")
  /\ UNCHANGED <<scenario, lock, req, error, busmaster, drive, contents>>

Release(t) ==
  /\ Move(t, "release", "return")
  /\ lock' = None
  /\ UNCHANGED <<scenario, req, error, busmaster, drive, contents>>

\* The caller has used what it read.
Return(t) ==
  /\ Move(t, "return", "idle")
  /\ req' = [req EXCEPT ![t] = NoRequest]
  /\ error' = [error EXCEPT ![t] = FALSE]
  /\ memory' = [a \in Memory |-> IF a \in Buffer(req[t]) THEN Junk ELSE memory[a]]
  /\ UNCHANGED <<scenario, lock, busmaster, drive, disk, unsynced>>

-----------------------------------------------------------------------------
(***************************************************************************)
(* The drive and the bus master                                            *)
(***************************************************************************)

Done(state) == drive' = [command |-> NoRequest, state |-> state]
Interrupt(failed) == intr' = [intr EXCEPT !.interrupt = TRUE, !.error = @ \/ failed]

Ready ==
  /\ drive.state = "busy" /\ drive.command # FlushCommand
  /\ drive' = [drive EXCEPT !.state = "drq"]
  /\ UNCHANGED <<scenario, driver, busmaster, contents>>

Flushed ==
  /\ drive.state = "busy" /\ drive.command = FlushCommand
  /\ Done("idle")
  /\ unsynced' = {}
  /\ Interrupt(FALSE)
  /\ UNCHANGED <<scenario, driver, prd, start, disk, memory>>

Abort ==
  /\ scenario.errors
  /\ drive.state \in {"busy", "drq"}
  /\ Done("error")
  /\ Interrupt(FALSE)
  /\ UNCHANGED <<scenario, driver, prd, start, contents>>

\* The first n bytes go from the sectors to the addresses of the table, or back.
Copy(n) ==
  LET c == drive.command
      at == Addresses(prd.table)
  IN IF c.write
     THEN /\ disk' = [b \in Bytes |-> LET k == b - c.lba * SectorSize
                                      IN IF k \in 0 .. n - 1 THEN memory[at[k + 1]] ELSE disk[b]]
          /\ unsynced' = unsynced \cup {s \in Sectors(c) : (s - c.lba) * SectorSize < n}
          /\ UNCHANGED memory
     ELSE /\ memory' = [a \in Memory |-> IF \E k \in 1 .. n : at[k] = a
                                         THEN disk[c.lba * SectorSize - 1 + CHOOSE k \in 1 .. n : at[k] = a]
                                         ELSE memory[a]]
          /\ UNCHANGED <<disk, unsynced>>

\* All of it, or a part because the drive fails or the bus does.
Transfer ==
  /\ drive.state = "drq" /\ start /\ prd.read = ~drive.command.write
  /\ LET length == Len(Addresses(prd.table))
         all == IF Size(drive.command) < length THEN Size(drive.command) ELSE length
     IN \/ /\ Copy(all)
           /\ Done("idle")
           /\ Interrupt(FALSE)
        \/ /\ scenario.errors
           /\ \E s \in 0 .. all \div SectorSize - 1 : Copy(s * SectorSize)
           /\ \/ Done("error") /\ Interrupt(FALSE)
              \/ Done("idle") /\ Interrupt(TRUE)
  /\ UNCHANGED <<scenario, driver, prd, start>>

-----------------------------------------------------------------------------
AInit ==
  /\ scenario \in Scenarios
  /\ lock = None
  /\ pc = [t \in Tasks |-> "idle"]
  /\ req = [t \in Tasks |-> NoRequest]
  /\ error = [t \in Tasks |-> FALSE]
  /\ prd = [table |-> <<>>, read |-> FALSE]
  /\ start = FALSE
  /\ intr \in [interrupt : BOOLEAN, error : {FALSE}]
  /\ drive = [command |-> NoRequest, state |-> "idle"]
  /\ disk = [b \in Bytes |-> Blank]
  /\ unsynced = {}
  /\ memory = [a \in Memory |-> Junk]

TransferStep(t) ==
  \/ Acquire(t) \/ SendCommand(t) \/ CommandStatus(t) \/ Program(t) \/ Start(t) \/ Poll(t)
  \/ Stop(t) \/ TransferStatus(t) \/ Flush(t) \/ FlushStatus(t) \/ Release(t) \/ Return(t)

Hardware == Ready \/ Flushed \/ Abort \/ Transfer

ANext == Hardware \/ \E t \in Tasks : Call(t) \/ TransferStep(t)

ASpec == AInit /\ [][ANext]_avars

\* The tasks run, and hardware that is not too slow does its work.
AFairSpec ==
  /\ ASpec
  /\ \A t \in Tasks : WF_avars(TransferStep(t))
  /\ WF_avars(~scenario.timeouts /\ Hardware)

-----------------------------------------------------------------------------
(***************************************************************************)
(* Properties                                                              *)
(***************************************************************************)

Locked == {"send", "sent", "program", "start", "poll", "stop", "status", "flush", "flushing",
           "release"}

\* The types; the lock is set exactly while a task is between spinlock_acquire and
\* spinlock_release; the table's entries are what the bus master can do (the code asserts the
\* alignment, the comments want the boundary).
ATypeOK ==
  /\ scenario \in Scenarios
  /\ \A t \in Tasks : pc[t] \in Locked <=> lock = t
  /\ \A t \in Tasks : req[t] \in Requests[t] \cup {NoRequest}
  /\ error \in [Tasks -> BOOLEAN] /\ start \in BOOLEAN /\ prd.read \in BOOLEAN
  /\ intr \in [interrupt : BOOLEAN, error : BOOLEAN]
  /\ drive.state \in {"idle", "busy", "drq", "error"}
  /\ unsynced \subseteq 0 .. SectorCount - 1
  /\ disk \in [Bytes -> Tasks \cup {Blank, Junk}] /\ memory \in [Memory -> Tasks \cup {Blank, Junk}]
  /\ Len(prd.table) <= MaxQueue \div Boundary
  /\ \A j \in DOMAIN prd.table :
       LET e == prd.table[j]
       IN e.base % Alignment = 0 /\ (e.base % Boundary) + e.count <= Boundary

\* A call about to report success has transferred exactly its sectors from or to its buffer:
\* neither another command's data nor a stale status bit passes for them, after errors of
\* earlier transfers too.
TransferredWhenReported ==
  \A t \in Tasks : pc[t] = "release" /\ ~error[t] /\ ~scenario.timeouts =>
    \A k \in 0 .. Size(req[t]) - 1 :
      memory[req[t].base + k] = disk[req[t].lba * SectorSize + k]

\* A write about to report success is on the medium, unless the drive refused the flush.
SyncedWhenReported ==
  \A t \in Tasks :
    pc[t] = "release" /\ req[t].write /\ ~error[t] /\ ~scenario.timeouts /\ drive.state # "error"
      => Sectors(req[t]) \cap unsynced = {}

\* The bus master writes memory only in the buffer of a read that waits for it, also when a
\* transfer that was given up ends late; and, while none is given up, the disk only in the
\* sectors of a write that waits for it.
DmaConfined ==
  [][/\ \A a \in Memory : memory'[a] # memory[a] =>
          \E t \in Tasks : \/ pc[t] \in {"idle", "return"} /\ pc'[t] # pc[t]
                           \/ pc[t] \in {"poll", "stop"} /\ ~req[t].write /\ a \in Buffer(req[t])
     /\ \A b \in Bytes : disk'[b] # disk[b] =>
          \/ scenario.timeouts
          \/ \E t \in Tasks : /\ pc[t] \in {"poll", "stop"} /\ req[t].write
                              /\ b \div SectorSize \in Sectors(req[t])]_avars

\* The lock is never kept: whatever fails or takes too long, the other drive's calls go on.
LockFreed == lock # None ~> lock = None

=============================================================================
