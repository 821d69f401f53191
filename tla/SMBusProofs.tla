----------------------------- MODULE SMBusProofs -----------------------------
(***************************************************************************)
(* Proofs about SMBus, for any tasks, devices, calls and register contents *)
(* and any outcomes of the transfers.                                      *)
(***************************************************************************)
EXTENDS SMBus, TLAPS

(***************************************************************************)
(* What a task in the middle of smbus_io has established: how far the      *)
(* controller is programmed for its call, and what the controller is doing.*)
(***************************************************************************)
Programmed(t) ==
  /\ pc[t] \in {"command", "clear", "data", "start", "poll"} =>
       regs.address = call[t].address /\ regs.read = call[t].read
  /\ pc[t] \in {"clear", "data", "start", "poll"} /\ call[t].len > 0 =>
       regs.command = call[t].command
  /\ pc[t] \in {"start", "poll"} /\ ~call[t].read /\ call[t].len > 0 =>
       (IF call[t].len > 2 THEN regs.block ELSE regs.data) = call[t].value
  /\ pc[t] = "poll" => started = transfer_type(call[t].len)

Stage(t) ==
  /\ pc[t] # "idle" => call[t] \in Calls
  /\ pc[t] = "command" => call[t].len > 0
  /\ pc[t] = "data" => ~call[t].read /\ call[t].len > 0
  /\ pc[t] = "fetch" => call[t].read
  /\ pc[t] \in {"address", "command", "clear", "data", "start",
                "status", "fetch", "unlock", "retry"} => ~busy
  /\ pc[t] \in {"data", "start"} => status = "none"
  /\ pc[t] = "poll" => (busy <=> status = "none")
  /\ pc[t] = "status" => status # "none"

\* The transfer that runs is the lock holder's, or the one the boot ROM left.
Owned == busy => started = "zero" \/ \E t \in Tasks : pc[t] = "poll"

IInv ==
  /\ STypeOK
  /\ LockExclusive
  /\ Owned
  /\ \A t \in Tasks : Programmed(t) /\ Stage(t)

-----------------------------------------------------------------------------
\* The fields of a call's arguments.
LEMMA CallFields ==
  ASSUME NEW c \in Calls
  PROVE  /\ c.address \in Addresses /\ c.command \in Commands
         /\ c.len \in {0, 1, 2, 4} /\ c.read \in BOOLEAN
         /\ c.value \in Bytes \cup {None}
         /\ c.read => c.len > 0
         /\ ~c.read /\ c.len > 0 => c.value \in Bytes
BY SMBusAssumption

LEMMA InitInv == SInit => IInv
<1> SUFFICES ASSUME SInit PROVE IInv
  OBVIOUS
<1>1. STypeOK
  <2>1. regs \in Registers
    BY DEF SInit, NoRegisters, Registers
  <2>2. result \in [Tasks -> [status : -1 .. 4, value : Bytes \cup {None}]]
    BY DEF SInit, NoResult
  <2> QED BY <2>1, <2>2 DEF SInit, STypeOK, Points, Types
<1>2. LockExclusive
  BY DEF SInit, LockExclusive, Holds
<1>3. Owned
  BY DEF SInit, Owned
<1>4. ASSUME NEW t \in Tasks PROVE Programmed(t) /\ Stage(t)
  BY DEF SInit, Programmed, Stage
<1> QED BY <1>1, <1>2, <1>3, <1>4 DEF IInv

\* What the controller works on is the call of a task that polls for it.
LEMMA PollerServed ==
  ASSUME IInv, NEW t \in Tasks, pc[t] = "poll"
  PROVE  /\ call[t] \in Calls
         /\ started = transfer_type(call[t].len)
         /\ regs.address = call[t].address /\ regs.read = call[t].read
         /\ started = "zero" <=> call[t].len = 0
         /\ started = "block" <=> call[t].len > 2
         /\ call[t].len > 0 => regs.command = call[t].command
         /\ ~call[t].read /\ call[t].len > 0 =>
              (IF started = "block" THEN regs.block ELSE regs.data) = call[t].value
<1>1. call[t] \in Calls
  BY DEF IInv, Stage
<1>2. call[t].len \in {0, 1, 2, 4}
  BY <1>1, CallFields
<1>3. /\ regs.address = call[t].address /\ regs.read = call[t].read
      /\ call[t].len > 0 => regs.command = call[t].command
      /\ ~call[t].read /\ call[t].len > 0 =>
           (IF call[t].len > 2 THEN regs.block ELSE regs.data) = call[t].value
      /\ started = transfer_type(call[t].len)
  BY DEF IInv, Programmed
<1>4. /\ started = "zero" <=> call[t].len = 0
      /\ started = "block" <=> call[t].len > 2
  BY <1>2, <1>3 DEF transfer_type
<1> QED BY <1>1, <1>3, <1>4

LEMMA TypeStep == IInv /\ [SNext]_svars => STypeOK'
<1> SUFFICES ASSUME IInv, [SNext]_svars PROVE STypeOK'
  OBVIOUS
<1> USE SMBusAssumption DEF IInv, STypeOK, Points, Types, Goto, Move
<1>1. ASSUME NEW t \in Tasks, Invoke(t) PROVE STypeOK'
  BY <1>1 DEF Invoke, controller
<1>2. ASSUME NEW t \in Tasks, spinlock_acquire(t) PROVE STypeOK'
  BY <1>2 DEF spinlock_acquire, controller
<1>3. ASSUME NEW t \in Tasks, WaitReady(t) PROVE STypeOK'
  BY <1>3 DEF WaitReady, controller
<1>4. ASSUME NEW t \in Tasks, ProgramAddress(t) PROVE STypeOK'
  <2>1. call[t] \in Calls
    BY <1>4 DEF ProgramAddress, Stage
  <2>2. call[t].address \in Addresses /\ call[t].read \in BOOLEAN
    BY <2>1, CallFields
  <2>3. regs' \in Registers
    BY <1>4, <2>2 DEF ProgramAddress, Registers
  <2> QED BY <1>4, <2>3 DEF ProgramAddress
<1>5. ASSUME NEW t \in Tasks, ProgramCommand(t) PROVE STypeOK'
  <2>1. call[t] \in Calls
    BY <1>5 DEF ProgramCommand, Stage
  <2>2. call[t].command \in Commands
    BY <2>1, CallFields
  <2>3. regs' \in Registers
    BY <1>5, <2>2 DEF ProgramCommand, Registers
  <2> QED BY <1>5, <2>3 DEF ProgramCommand
<1>6. ASSUME NEW t \in Tasks, ClearStatus(t) PROVE STypeOK'
  BY <1>6 DEF ClearStatus
<1>7. ASSUME NEW t \in Tasks, ProgramData(t) PROVE STypeOK'
  <2>1. call[t] \in Calls
    BY <1>7 DEF ProgramData, Stage
  <2>2. call[t].value \in Bytes \cup {None} /\ call[t].len \in Nat
    BY <2>1, CallFields
  <2>3. regs' \in Registers
    BY <1>7, <2>2 DEF ProgramData, Registers
  <2> QED BY <1>7, <2>3 DEF ProgramData
<1>8. ASSUME NEW t \in Tasks, StartTransfer(t) PROVE STypeOK'
  BY <1>8 DEF StartTransfer, transfer_type
<1>9. ASSUME NEW t \in Tasks, Poll(t) PROVE STypeOK'
  BY <1>9 DEF Poll, controller
<1>10. ASSUME NEW t \in Tasks, ReadStatus(t) PROVE STypeOK'
  <2>1. call[t] \in Calls
    BY <1>10 DEF ReadStatus, Stage
  <2>2. call[t].len \in 0 .. 4
    BY <2>1, CallFields
  <2> QED BY <1>10, <2>2 DEF ReadStatus
<1>11. ASSUME NEW t \in Tasks, FetchData(t) PROVE STypeOK'
  <2>1. call[t] \in Calls
    BY <1>11 DEF FetchData, Stage
  <2>2. Received(call[t]) \in [status : -1 .. 4, value : Bytes \cup {None}]
    <3> DEFINE c == call[t]
    <3>1. c.len \in {0, 1, 2, 4}
      BY <2>1, CallFields
    <3>2. regs.count \in Nat /\ regs.data \in Bytes \cup {None}
          /\ regs.block \in Bytes \cup {None}
      BY DEF Registers
    <3>3. Received(c).value \in Bytes \cup {None} /\ Received(c).status \in -1 .. 4
      <4> HIDE DEF c, IInv
      <4> QED BY <3>1, <3>2 DEF Received
    <3>4. Received(c) = [status |-> Received(c).status, value |-> Received(c).value]
      <4> HIDE DEF c, IInv
      <4> QED BY DEF Received
    <3> QED BY <3>3, <3>4
  <2> QED BY <1>11, <2>2 DEF FetchData, controller
<1>12. ASSUME NEW t \in Tasks, spinlock_release(t) PROVE STypeOK'
  BY <1>12 DEF spinlock_release, controller
<1>13. ASSUME NEW t \in Tasks, Return(t) PROVE STypeOK'
  BY <1>13 DEF Return, controller, NoResult
<1>14. ASSUME NEW outcome \in {"complete", "error", "collision"}, Complete(outcome)
       PROVE STypeOK'
  <2>1. CASE UNCHANGED <<mem, regs>>
    BY <1>14, <2>1 DEF Complete, task
  <2>2. CASE Answer
    <3>1. CASE started = "zero"
      BY <1>14, <2>2, <3>1 DEF Answer, Complete, task
    <3> DEFINE datum == IF started = "block" THEN regs.block ELSE regs.data
    <3>4. ASSUME started # "zero"
          PROVE  regs.command \in Commands /\ (~regs.read => datum \in Bytes)
      <4>1. PICK t \in Tasks : pc[t] = "poll"
        BY <1>14, <3>4 DEF Owned, Complete
      <4>2. call[t] \in Calls
        BY <4>1, PollerServed
      <4>3. call[t].len \in {0, 1, 2, 4}
        BY <4>2, CallFields
      <4>4. call[t].len > 0
        BY <3>4, <4>1, <4>3, PollerServed
      <4>5. call[t].command \in Commands /\ (~call[t].read => call[t].value \in Bytes)
        BY <4>2, <4>4, CallFields
      <4> QED BY <4>1, <4>4, <4>5, PollerServed
    <3>2. CASE started # "zero" /\ regs.read
      <4>1. mem[regs.address][regs.command] \in Bytes
        <5>1. regs.address \in Present /\ regs.command \in Commands
          BY <2>2, <3>2, <3>4 DEF Answer
        <5>2. mem \in [Present -> [Commands -> Bytes]]
          OBVIOUS
        <5> QED BY <5>1, <5>2
      <4> DEFINE read == mem[regs.address][regs.command]
      <4>2. mem' = mem
        BY <2>2, <3>2 DEF Answer
      <4>3. \/ \E n \in Counts : regs' = [regs EXCEPT !.count = n, !.block = read]
            \/ regs' = [regs EXCEPT !.data = read]
        BY <2>2, <3>2 DEF Answer
      <4>4. regs' \in Registers
        <5>1. regs \in Registers /\ Counts \subseteq Nat
          OBVIOUS
        <5>2. read \in Bytes
          BY <4>1
        <5> HIDE DEF read, IInv, STypeOK
        <5>3. ASSUME NEW n \in Counts, regs' = [regs EXCEPT !.count = n, !.block = read]
              PROVE  regs' \in Registers
          BY <5>1, <5>2, <5>3 DEF Registers
        <5>4. ASSUME regs' = [regs EXCEPT !.data = read] PROVE regs' \in Registers
          BY <5>1, <5>2, <5>4 DEF Registers
        <5> QED BY <4>3, <5>3, <5>4
      <4> QED BY <1>14, <4>2, <4>4 DEF Complete, task
    <3>3. CASE started # "zero" /\ ~regs.read
      <4>1. datum \in Bytes
        BY <3>3, <3>4
      <4>2. regs' = regs /\ mem' \in [Present -> [Commands -> Bytes]]
        BY <2>2, <3>3, <4>1 DEF Answer
      <4> QED BY <1>14, <4>2 DEF Complete, task
    <3> QED BY <3>1, <3>2, <3>3
  <2> QED BY <1>14, <2>1, <2>2 DEF Complete
<1>15. CASE UNCHANGED svars
  BY <1>15 DEF svars, task, controller
<1> QED
  BY <1>1, <1>2, <1>3, <1>4, <1>5, <1>6, <1>7, <1>8, <1>9, <1>10, <1>11, <1>12, <1>13,
     <1>14, <1>15 DEF SNext, Step, Controller


-----------------------------------------------------------------------------
\* Every step of a task keeps the lock with the one task that may have it.
LEMMA LockStep == IInv /\ [SNext]_svars => LockExclusive'
<1> SUFFICES ASSUME IInv, [SNext]_svars PROVE LockExclusive'
  OBVIOUS
<1>0. /\ lock <=> \E t \in Tasks : Holds(t)
      /\ \A t, u \in Tasks : Holds(t) /\ Holds(u) => t = u
      /\ pc \in [Tasks -> Points] /\ lock \in BOOLEAN
  BY DEF IInv, LockExclusive, STypeOK
<1> HIDE DEF IInv
<1>1. ASSUME NEW t \in Tasks, NEW p \in Points, pc' = [pc EXCEPT ![t] = p], lock' = lock,
             Holds(t) <=> p \notin {"idle", "acquire", "return"}
      PROVE  LockExclusive'
  <2>1. \A u \in Tasks : Holds(u)' <=> Holds(u)
    BY <1>0, <1>1 DEF Holds
  <2> QED BY <1>0, <1>1, <2>1 DEF LockExclusive
<1>2. ASSUME NEW t \in Tasks, spinlock_acquire(t) PROVE LockExclusive'
  <2>1. ~lock /\ lock' = TRUE /\ pc' = [pc EXCEPT ![t] = "ready"]
    BY <1>2 DEF spinlock_acquire, Move, Goto
  <2>2. \A u \in Tasks : Holds(u)' <=> u = t
    BY <1>0, <2>1 DEF Holds
  <2> QED BY <2>1, <2>2 DEF LockExclusive
<1>3. ASSUME NEW t \in Tasks, spinlock_release(t) PROVE LockExclusive'
  <2>1. /\ lock' = FALSE /\ Holds(t)
        /\ pc' = [pc EXCEPT ![t] = "return"] \/ pc' = [pc EXCEPT ![t] = "acquire"]
    BY <1>3 DEF spinlock_release, Move, Goto, Holds
  <2>2. \A u \in Tasks : ~Holds(u)'
    BY <1>0, <2>1 DEF Holds
  <2> QED BY <2>1, <2>2 DEF LockExclusive
<1>4. ASSUME NEW t \in Tasks, Invoke(t) \/ Return(t) PROVE LockExclusive'
  <2>1. /\ lock' = lock /\ ~Holds(t)
        /\ pc' = [pc EXCEPT ![t] = "idle"] \/ pc' = [pc EXCEPT ![t] = "acquire"]
    BY <1>4 DEF Invoke, Return, Move, Goto, Holds
  <2> QED BY <1>1, <2>1 DEF Points
<1>5. ASSUME NEW t \in Tasks,
             \/ WaitReady(t) \/ ProgramAddress(t) \/ ProgramCommand(t) \/ ClearStatus(t)
             \/ ProgramData(t) \/ StartTransfer(t) \/ Poll(t) \/ ReadStatus(t) \/ FetchData(t)
      PROVE  LockExclusive'
  <2>1. /\ lock' = lock /\ Holds(t)
        /\ \E p \in {"address", "command", "clear", "data", "start", "poll", "status",
                     "fetch", "unlock", "retry"} : pc' = [pc EXCEPT ![t] = p]
    BY <1>5 DEF WaitReady, ProgramAddress, ProgramCommand, ClearStatus, ProgramData,
                StartTransfer, Poll, ReadStatus, FetchData, Move, Goto, Holds
  <2> QED BY <1>1, <2>1 DEF Points
<1>6. CASE UNCHANGED task
  BY <1>0, <1>6 DEF LockExclusive, Holds, task
<1> QED
  BY <1>2, <1>3, <1>4, <1>5, <1>6 DEF SNext, Step, Controller, Complete, svars

\* A task that is not inside keeps what it has established, whatever the others do.
LEMMA OthersKeep ==
  ASSUME NEW u \in Tasks, Programmed(u), Stage(u),
         pc'[u] = pc[u], call'[u] = call[u],
         Holds(u) => UNCHANGED controller
  PROVE  Programmed(u)' /\ Stage(u)'
BY DEF Programmed, Stage, Holds, controller, transfer_type

\* The statements of a call, one by one: what the task itself establishes.
LEMMA StageStep ==
  IInv /\ [SNext]_svars => Owned' /\ \A u \in Tasks : Programmed(u)' /\ Stage(u)'
<1> SUFFICES ASSUME IInv, [SNext]_svars
             PROVE  Owned' /\ \A u \in Tasks : Programmed(u)' /\ Stage(u)'
  OBVIOUS
<1> DEFINE Established(t) == Programmed(t)' /\ Stage(t)'
<1>0. /\ \A u \in Tasks : Programmed(u) /\ Stage(u)
      /\ Owned
      /\ \A t, u \in Tasks : Holds(t) /\ Holds(u) => t = u
      /\ lock <=> \E t \in Tasks : Holds(t)
      /\ pc \in [Tasks -> Points] /\ call \in [Tasks -> Calls \cup {None}]
      /\ regs \in Registers
      /\ status \in {"none", "complete", "error", "collision"} /\ busy \in BOOLEAN
  BY DEF IInv, STypeOK, LockExclusive
<1> HIDE DEF IInv
\* One task takes a step; if it touches the controller, it holds the lock.
<1>1. ASSUME NEW t \in Tasks, NEW p \in Points, pc' = [pc EXCEPT ![t] = p],
             \A u \in Tasks \ {t} : call'[u] = call[u],
             Holds(t) \/ UNCHANGED controller,
             Established(t), Owned'
      PROVE  Owned' /\ \A u \in Tasks : Programmed(u)' /\ Stage(u)'
  <2>1. ASSUME NEW u \in Tasks \ {t} PROVE Programmed(u)' /\ Stage(u)'
    <3>1. pc'[u] = pc[u] /\ call'[u] = call[u]
      BY <1>0, <1>1
    <3>2. Holds(u) => UNCHANGED controller
      BY <1>0, <1>1
    <3> QED BY <1>0, <3>1, <3>2, OthersKeep
  <2> QED BY <1>1, <2>1
<1>2. ASSUME NEW t \in Tasks, Invoke(t) \/ spinlock_acquire(t) \/ spinlock_release(t) \/ Return(t)
      PROVE  Owned' /\ \A u \in Tasks : Programmed(u)' /\ Stage(u)'
  <2>1. /\ UNCHANGED controller /\ pc[t] # "poll"
        /\ \A u \in Tasks \ {t} : call'[u] = call[u]
        /\ \E p \in {"idle", "acquire", "ready", "return"} : pc' = [pc EXCEPT ![t] = p]
    BY <1>0, <1>2 DEF Invoke, spinlock_acquire, spinlock_release, Return, Move, Goto
  <2>2. pc'[t] # "idle" => call'[t] \in Calls
    BY <1>0, <1>2 DEF Invoke, spinlock_acquire, spinlock_release, Return, Move, Goto, Stage
  <2>3. Established(t)
    BY <1>0, <2>1, <2>2 DEF Programmed, Stage
  <2>4. Owned'
    BY <1>0, <2>1 DEF Owned, controller
  <2> QED BY <1>1, <2>1, <2>3, <2>4 DEF Points
<1>3. ASSUME NEW t \in Tasks,
             \/ WaitReady(t) \/ ProgramAddress(t) \/ ProgramCommand(t) \/ ClearStatus(t)
             \/ ProgramData(t) \/ StartTransfer(t) \/ Poll(t) \/ ReadStatus(t) \/ FetchData(t)
      PROVE  Owned' /\ \A u \in Tasks : Programmed(u)' /\ Stage(u)'
  <2>1. /\ Holds(t) /\ call' = call /\ call[t] \in Calls
        /\ \E p \in Points : pc' = [pc EXCEPT ![t] = p]
    BY <1>0, <1>3 DEF WaitReady, ProgramAddress, ProgramCommand, ClearStatus, ProgramData,
                      StartTransfer, Poll, ReadStatus, FetchData, Move, Goto, Holds, Stage, Points
  <2>2. call[t].len \in {0, 1, 2, 4} /\ call[t].read \in BOOLEAN /\ (call[t].read => call[t].len > 0)
    BY <2>1, CallFields
  <2>3. Programmed(t) /\ Stage(t)
    BY <1>0
  <2>4. CASE WaitReady(t)
    <3>1. Established(t) /\ Owned'
      BY <1>0, <2>1, <2>3, <2>4 DEF WaitReady, Move, Goto, controller, Programmed, Stage, Owned
    <3> QED BY <1>1, <2>1, <3>1
  <2>5. CASE ProgramAddress(t)
    <3>1. pc'[t] \in {"command", "clear"} /\ (pc'[t] = "command" <=> call[t].len > 0)
      BY <1>0, <2>2, <2>5 DEF ProgramAddress, Move, Goto
    <3>2. regs'.address = call[t].address /\ regs'.read = call[t].read
      BY <1>0, <2>5 DEF ProgramAddress, Registers
    <3>3. pc[t] = "address" /\ busy' = busy /\ call' = call
      BY <2>5 DEF ProgramAddress, Move
    <3>4. Established(t)
      BY <2>1, <2>2, <2>3, <3>1, <3>2, <3>3 DEF Programmed, Stage
    <3>5. Owned'
      BY <2>3, <3>3 DEF Owned, Stage
    <3> QED BY <1>1, <2>1, <3>4, <3>5
  <2>6. CASE ProgramCommand(t)
    <3>1. pc'[t] = "clear" /\ pc[t] = "command" /\ busy' = busy /\ call' = call
      BY <1>0, <2>6 DEF ProgramCommand, Move, Goto
    <3>2. /\ regs'.command = call[t].command
          /\ regs'.address = regs.address /\ regs'.read = regs.read
      BY <1>0, <2>6 DEF ProgramCommand, Registers
    <3>4. Established(t)
      BY <2>1, <2>3, <3>1, <3>2 DEF Programmed, Stage
    <3>5. Owned'
      BY <2>3, <3>1 DEF Owned, Stage
    <3> QED BY <1>1, <2>1, <3>4, <3>5
  <2>7. CASE ClearStatus(t)
    <3>1. /\ pc'[t] = IF call[t].read \/ call[t].len = 0 THEN "start" ELSE "data"
          /\ pc[t] = "clear" /\ busy' = busy /\ call' = call /\ status' = "none" /\ regs' = regs
      BY <1>0, <2>7 DEF ClearStatus, Move, Goto
    <3>4. Established(t)
      BY <2>1, <2>2, <2>3, <3>1 DEF Programmed, Stage
    <3>5. Owned'
      BY <2>3, <3>1 DEF Owned, Stage
    <3> QED BY <1>1, <2>1, <3>4, <3>5
  <2>8. CASE ProgramData(t)
    <3>1. /\ pc'[t] = "start" /\ pc[t] = "data"
          /\ busy' = busy /\ call' = call /\ status' = status
      BY <1>0, <2>8 DEF ProgramData, Move, Goto
    <3>2. /\ regs'.address = regs.address /\ regs'.read = regs.read
          /\ regs'.command = regs.command
          /\ (IF call[t].len > 2 THEN regs'.block ELSE regs'.data) = call[t].value
      BY <1>0, <2>2, <2>8 DEF ProgramData, Registers
    <3>4. Established(t)
      BY <2>1, <2>3, <3>1, <3>2 DEF Programmed, Stage
    <3>5. Owned'
      BY <2>3, <3>1 DEF Owned, Stage
    <3> QED BY <1>1, <2>1, <3>4, <3>5
  <2>9. CASE StartTransfer(t)
    <3>1. /\ pc'[t] = "poll" /\ pc[t] = "start" /\ busy' = TRUE /\ call' = call
          /\ status' = status /\ regs' = regs /\ started' = transfer_type(call[t].len)
      BY <1>0, <2>9 DEF StartTransfer, Move, Goto
    <3>4. Established(t)
      BY <2>1, <2>3, <3>1 DEF Programmed, Stage, transfer_type
    <3>5. Owned'
      BY <3>1 DEF Owned
    <3> QED BY <1>1, <2>1, <3>4, <3>5
  <2>10. CASE Poll(t)
    <3>1. /\ pc'[t] = "status" /\ pc[t] = "poll" /\ ~busy /\ ~busy' /\ call' = call
          /\ status' = status
      BY <1>0, <2>10 DEF Poll, Move, Goto, controller
    <3>4. Established(t)
      BY <2>1, <2>3, <3>1 DEF Programmed, Stage
    <3>5. Owned'
      BY <3>1 DEF Owned
    <3> QED BY <1>1, <2>1, <3>4, <3>5
  <2>11. CASE ReadStatus(t)
    <3>1. /\ pc'[t] \in {"fetch", "unlock", "retry"} /\ (pc'[t] = "fetch" => call[t].read)
          /\ pc[t] = "status" /\ busy' = busy /\ call' = call
      BY <1>0, <2>11 DEF ReadStatus, Goto
    <3>4. Established(t)
      BY <2>1, <2>3, <3>1 DEF Programmed, Stage
    <3>5. Owned'
      BY <2>3, <3>1 DEF Owned, Stage
    <3> QED BY <1>1, <2>1, <3>4, <3>5
  <2>12. CASE FetchData(t)
    <3>1. pc'[t] = "unlock" /\ pc[t] = "fetch" /\ busy' = busy /\ call' = call
      BY <1>0, <2>12 DEF FetchData, Move, Goto, controller
    <3>4. Established(t)
      BY <2>1, <2>3, <3>1 DEF Programmed, Stage
    <3>5. Owned'
      BY <2>3, <3>1 DEF Owned, Stage
    <3> QED BY <1>1, <2>1, <3>4, <3>5
  <2> QED BY <1>3, <2>4, <2>5, <2>6, <2>7, <2>8, <2>9, <2>10, <2>11, <2>12
\* The controller ends a transfer: only the poller can tell.
<1>4. ASSUME NEW outcome \in {"complete", "error", "collision"}, Complete(outcome)
      PROVE  Owned' /\ \A u \in Tasks : Programmed(u)' /\ Stage(u)'
  <2>1. /\ busy /\ ~busy' /\ status' = outcome /\ started' = started
        /\ pc' = pc /\ call' = call
    BY <1>4 DEF Complete, task
  <2>2. Owned'
    BY <2>1 DEF Owned
  <2>3. ASSUME NEW u \in Tasks PROVE Programmed(u)' /\ Stage(u)'
    <3>1. pc[u] \in {"idle", "acquire", "ready", "poll", "return"}
      BY <1>0, <2>1 DEF Stage, Points
    <3>2. CASE pc[u] # "poll"
      BY <1>0, <2>1, <3>1, <3>2 DEF Programmed, Stage
    <3>3. CASE pc[u] = "poll"
      <4>1. /\ regs'.address = regs.address /\ regs'.read = regs.read
            /\ regs'.command = regs.command
        BY <1>0, <1>4 DEF Complete, Answer, Registers
      <4>2. ~regs.read => regs' = regs
        BY <1>4 DEF Complete, Answer
      <4>3. regs.read = call[u].read
        BY <1>0, <3>3 DEF Programmed
      <4>4. Programmed(u)'
        BY <1>0, <2>1, <3>3, <4>1, <4>2, <4>3 DEF Programmed, transfer_type
      <4>5. Stage(u)'
        BY <1>0, <2>1, <3>3 DEF Stage
      <4> QED BY <4>4, <4>5
    <3> QED BY <3>2, <3>3
  <2> QED BY <2>2, <2>3
<1>5. CASE UNCHANGED svars
  BY <1>0, <1>5 DEF svars, task, controller, Owned, Programmed, Stage, transfer_type
<1> QED
  BY <1>2, <1>3, <1>4, <1>5 DEF SNext, Step, Controller

LEMMA InvStep == IInv /\ [SNext]_svars => IInv'
BY TypeStep, LockStep, StageStep DEF IInv

\* smbus_io's locals, the spinlock and the controller's registers keep their types, and no
\* call returns more than its caller's buffer takes.
THEOREM SMBusTypeCorrect == SSpec => []STypeOK
<1>1. IInv => STypeOK
  BY DEF IInv
<1> QED BY InitInv, InvStep, <1>1, PTL DEF SSpec

\* The spinlock of smbus.c admits one call at a time, and is set exactly while one is inside.
THEOREM LockExclusiveHolds == SSpec => []LockExclusive
<1>1. IInv => LockExclusive
  BY DEF IInv
<1> QED BY InitInv, InvStep, <1>1, PTL DEF SSpec

-----------------------------------------------------------------------------
\* No task writes a register of the controller while a transfer runs.
THEOREM QuietWhileBusyHolds == SSpec => QuietWhileBusy
<1>1. IInv /\ [SNext]_svars => [busy /\ busy' => UNCHANGED <<regs, status, started>>]_svars
  <2> SUFFICES ASSUME IInv, SNext, busy, busy' PROVE UNCHANGED <<regs, status, started>>
    BY DEF svars, task, controller
  <2>1. \A t \in Tasks : pc[t] \notin {"address", "command", "clear", "data", "start", "status"}
    BY DEF IInv, Stage
  <2>2. ASSUME NEW t \in Tasks, Invoke(t) \/ spinlock_acquire(t) \/ Step(t)
        PROVE  UNCHANGED <<regs, status, started>>
    BY <2>1, <2>2
    DEF Invoke, spinlock_acquire, Step, WaitReady, ProgramAddress, ProgramCommand, ClearStatus,
        ProgramData, StartTransfer, Poll, ReadStatus, FetchData, spinlock_release, Return,
        Move, controller
  <2>3. ~Controller
    BY DEF Controller, Complete
  <2> QED BY <2>2, <2>3 DEF SNext
<1> QED BY InitInv, InvStep, <1>1, PTL DEF SSpec, QuietWhileBusy

-----------------------------------------------------------------------------
(***************************************************************************)
(* smbus_io implements SMBusAtomic: the call takes effect when the         *)
(* controller ends a transfer that did not collide; every other statement  *)
(* between the call and the return is a stutter.                           *)
(***************************************************************************)

\* A task that takes no step, or one inside smbus_io, is seen as it was.
LEMMA SeenKept ==
  ASSUME NEW u \in Tasks, pc'[u] = pc[u], call'[u] = call[u], result'[u] = result[u],
         Holds(u) => UNCHANGED controller
  PROVE  Phase(u)' = Phase(u) /\ Outcome(u)' = Outcome(u)
BY DEF Phase, Outcome, Effective, Received, Holds, controller, NoResult

\* A step that leaves everyone as seen and the devices as they are is a stutter.
LEMMA Stutter ==
  ASSUME mem' = mem, call' = call,
         \A u \in Tasks : Phase(u)' = Phase(u) /\ Outcome(u)' = Outcome(u)
  PROVE  UNCHANGED Atomic!avars
BY DEF Atomic!avars

LEMMA AtomicStep == IInv /\ [SNext]_svars => [Atomic!ANext]_(Atomic!avars)
<1> SUFFICES ASSUME IInv, [SNext]_svars PROVE [Atomic!ANext]_(Atomic!avars)
  OBVIOUS
<1>0. /\ \A u \in Tasks : Programmed(u) /\ Stage(u)
      /\ Owned
      /\ \A t, u \in Tasks : Holds(t) /\ Holds(u) => t = u
      /\ lock <=> \E t \in Tasks : Holds(t)
      /\ pc \in [Tasks -> Points] /\ call \in [Tasks -> Calls \cup {None}]
      /\ result \in [Tasks -> [status : -1 .. 4, value : Bytes \cup {None}]]
      /\ regs \in Registers
      /\ mem \in [Present -> [Commands -> Bytes]]
      /\ status \in {"none", "complete", "error", "collision"} /\ busy \in BOOLEAN
  BY DEF IInv, STypeOK, LockExclusive
<1> HIDE DEF IInv
\* A step of one task is seen by nobody else.
<1>1. ASSUME NEW t \in Tasks, Holds(t) \/ UNCHANGED controller,
             \A u \in Tasks \ {t} : /\ pc'[u] = pc[u] /\ call'[u] = call[u]
                                    /\ result'[u] = result[u]
      PROVE  \A u \in Tasks \ {t} : Phase(u)' = Phase(u) /\ Outcome(u)' = Outcome(u)
  BY <1>0, <1>1, SeenKept
<1>2. ASSUME NEW t \in Tasks, Invoke(t) PROVE Atomic!Invoke(t)
  <2>1. /\ pc[t] = "idle" /\ pc'[t] = "acquire"
        /\ \A u \in Tasks \ {t} : /\ pc'[u] = pc[u] /\ call'[u] = call[u]
                                  /\ result'[u] = result[u]
        /\ mem' = mem /\ UNCHANGED controller
        /\ \E c \in Calls : call' = [call EXCEPT ![t] = c]
    BY <1>0, <1>2 DEF Invoke, Move, Goto, controller
  <2>2. /\ Phase(t) = "idle" /\ Phase(t)' = "called"
        /\ Outcome(t)' = Outcome(t)
    BY <2>1 DEF Phase, Effective, Outcome, NoResult
  <2>3. \A u \in Tasks \ {t} : Phase(u)' = Phase(u) /\ Outcome(u)' = Outcome(u)
    BY <1>1, <2>1
  <2> QED BY <2>1, <2>2, <2>3 DEF Atomic!Invoke
<1>3. ASSUME NEW t \in Tasks, Return(t) PROVE Atomic!Finish(t)
  <2>1. /\ pc[t] = "return" /\ pc'[t] = "idle"
        /\ \A u \in Tasks \ {t} : /\ pc'[u] = pc[u] /\ call'[u] = call[u]
                                  /\ result'[u] = result[u]
        /\ mem' = mem /\ UNCHANGED controller
        /\ call' = [call EXCEPT ![t] = None]
    BY <1>0, <1>3 DEF Return, Move, Goto, controller
  <2>2. /\ Phase(t) = "done" /\ Phase(t)' = "idle"
        /\ Outcome(t)' = Atomic!NoResult
    BY <2>1 DEF Phase, Effective, Outcome, NoResult, Atomic!NoResult
  <2>3. \A u \in Tasks \ {t} : Phase(u)' = Phase(u) /\ Outcome(u)' = Outcome(u)
    BY <1>1, <2>1
  <2> QED BY <2>1, <2>2, <2>3 DEF Atomic!Finish
\* The statements in between.
<1>4. ASSUME NEW t \in Tasks,
             \/ spinlock_acquire(t) \/ WaitReady(t) \/ ProgramAddress(t) \/ ProgramCommand(t)
             \/ ClearStatus(t) \/ ProgramData(t) \/ StartTransfer(t) \/ Poll(t)
             \/ ReadStatus(t) \/ FetchData(t) \/ spinlock_release(t)
      PROVE  UNCHANGED Atomic!avars
  <2>1. /\ mem' = mem /\ call' = call
        /\ Holds(t) \/ UNCHANGED controller
        /\ \A u \in Tasks \ {t} : /\ pc'[u] = pc[u] /\ call'[u] = call[u]
                                  /\ result'[u] = result[u]
    BY <1>0, <1>4
    DEF spinlock_acquire, WaitReady, ProgramAddress, ProgramCommand, ClearStatus, ProgramData,
        StartTransfer, Poll, ReadStatus, FetchData, spinlock_release, Move, Goto, Holds,
        controller
  <2>2. Phase(t)' = Phase(t) /\ Outcome(t)' = Outcome(t)
    <3>1. CASE /\ pc[t] \in {"acquire", "ready", "address", "command", "clear", "data", "retry"}
               /\ pc'[t] \in {"ready", "address", "command", "clear", "data", "start", "acquire"}
      BY <3>1 DEF Phase, Effective, Outcome
    <3>2. CASE StartTransfer(t)
      BY <1>0, <3>2 DEF StartTransfer, Move, Goto, Phase, Effective, Outcome
    <3>3. CASE Poll(t)
      BY <1>0, <2>1, <3>3
      DEF Poll, Move, Goto, Phase, Effective, Outcome, Received, controller, NoResult
    <3>4. CASE ReadStatus(t)
      <4>1. pc[t] = "status" /\ ~busy /\ call' = call /\ regs' = regs
        BY <1>0, <3>4 DEF ReadStatus, Stage
      <4>2. CASE status = "complete" /\ call[t].read
        BY <1>0, <3>4, <4>1, <4>2 DEF ReadStatus, Goto, Phase, Effective, Outcome, Received
      <4>3. CASE status = "complete" /\ ~call[t].read
        BY <1>0, <3>4, <4>1, <4>3 DEF ReadStatus, Goto, Phase, Effective, Outcome
      <4>4. CASE status = "error"
        BY <1>0, <3>4, <4>1, <4>4 DEF ReadStatus, Goto, Phase, Effective, Outcome
      <4>5. CASE status = "collision"
        BY <1>0, <3>4, <4>1, <4>5 DEF ReadStatus, Goto, Phase, Effective, Outcome, NoResult
      <4> QED BY <3>4, <4>2, <4>3, <4>4, <4>5 DEF ReadStatus
    <3>5. CASE FetchData(t)
      BY <1>0, <3>5 DEF FetchData, Move, Goto, Phase, Effective, Outcome, Stage
    <3>6. CASE spinlock_release(t)
      BY <1>0, <3>6 DEF spinlock_release, Move, Goto, Phase, Effective, Outcome, NoResult
    <3>7. CASE ProgramData(t) \/ ClearStatus(t)
      BY <1>0, <3>7 DEF ProgramData, ClearStatus, Move, Goto, Phase, Effective, Outcome, NoResult
    <3> QED
      BY <1>0, <1>4, <3>1, <3>2, <3>3, <3>4, <3>5, <3>6, <3>7
      DEF spinlock_acquire, WaitReady, ProgramAddress, ProgramCommand, Move, Goto
  <2>3. \A u \in Tasks : Phase(u)' = Phase(u) /\ Outcome(u)' = Outcome(u)
    BY <1>1, <2>1, <2>2
  <2> QED BY <2>1, <2>3, Stutter
\* The controller ends a transfer of nobody, or of the one task that polls.
<1>5. ASSUME NEW outcome \in {"complete", "error", "collision"}, Complete(outcome)
      PROVE  Atomic!ANext \/ UNCHANGED Atomic!avars
  <2>1. /\ busy /\ ~busy' /\ status' = outcome /\ started' = started
        /\ pc' = pc /\ call' = call /\ result' = result
    BY <1>5 DEF Complete, task
  <2>2. ASSUME NEW u \in Tasks, pc[u] # "poll"
        PROVE  Phase(u)' = Phase(u) /\ Outcome(u)' = Outcome(u)
    <3>1. ~Holds(u) \/ pc[u] = "ready"
      BY <1>0, <2>1, <2>2 DEF Stage, Holds, Points
    <3> QED BY <2>1, <3>1 DEF Holds, Phase, Effective, Outcome, NoResult
  <2>3. CASE \A u \in Tasks : pc[u] # "poll"
    <3>1. mem' = mem
      BY <1>0, <1>5, <2>1, <2>3 DEF Owned, Complete, Answer
    <3> QED BY <2>1, <2>2, <2>3, <3>1, Stutter
  <2>4. ASSUME NEW t \in Tasks, pc[t] = "poll"
        PROVE  Atomic!ANext \/ UNCHANGED Atomic!avars
    <3> DEFINE c == call[t]
    <3>1. /\ c \in Calls
          /\ regs.address = c.address /\ regs.read = c.read
          /\ started = "zero" <=> c.len = 0
          /\ started = "block" <=> c.len > 2
          /\ c.len > 0 => regs.command = c.command
          /\ ~c.read /\ c.len > 0 =>
               (IF started = "block" THEN regs.block ELSE regs.data) = c.value
      BY <2>4, PollerServed
    <3>2. c.len \in {0, 1, 2, 4} /\ c.read \in BOOLEAN /\ (c.read => c.len > 0)
      BY <3>1, CallFields
    <3>3. \A u \in Tasks \ {t} : Phase(u)' = Phase(u) /\ Outcome(u)' = Outcome(u)
      <4>1. \A u \in Tasks \ {t} : pc[u] # "poll"
        BY <1>0, <2>4 DEF Holds
      <4> QED BY <2>2, <4>1
    <3>4. Phase(t) = "called" /\ Outcome(t) = NoResult
      BY <2>1, <2>4 DEF Phase, Effective, Outcome
    \* An answer is the atomic call.
    <3>5. ASSUME Answer
          PROVE  /\ c.address \in Present /\ mem' = Atomic!Written(mem, c)
                 /\ outcome = "complete" =>
                      \E n \in Atomic!Lengths(c) :
                        Outcome(t)' = [status |-> n, value |-> Atomic!Fetched(mem, c)]
      <4>1. c.address \in Present
        BY <3>1, <3>5 DEF Answer
      <4>2. outcome = "complete" =>
              Outcome(t)' = IF c.read THEN Received(c)' ELSE [status |-> c.len, value |-> None]
        BY <2>1, <2>4 DEF Outcome, Effective, Received
      <4>3. CASE c.len = 0
        BY <3>1, <3>2, <3>5, <4>1, <4>2, <4>3
        DEF Answer, Atomic!Written, Atomic!Lengths, Atomic!Fetched
      <4>4. CASE c.len > 0 /\ ~c.read
        BY <3>1, <3>2, <3>5, <4>1, <4>2, <4>4
        DEF Answer, Atomic!Written, Atomic!Lengths, Atomic!Fetched
      <4>5. CASE c.read
        <5> DEFINE datum == mem[c.address][c.command]
        <5>1. mem' = mem /\ c.len > 0 /\ started # "zero"
          <6>1. c.len > 0
            BY <3>2, <4>5
          <6>2. started # "zero" /\ regs.read
            BY <3>1, <3>2, <4>5, <6>1
          <6>3. mem' = mem
            BY <3>5, <6>2 DEF Answer
          <6> QED BY <6>1, <6>2, <6>3
        <5>2. CASE c.len > 2
          <6>1. PICK n \in Counts : regs' = [regs EXCEPT !.count = n, !.block = datum]
            BY <3>1, <3>5, <4>5, <5>1, <5>2 DEF Answer
          <6>2. regs'.count = n /\ regs'.block = datum
            BY <1>0, <6>1 DEF Registers
          <6>3. Received(c)' = [status |-> IF n > c.len THEN c.len ELSE n, value |-> datum]
            BY <2>1, <5>2, <6>2, <3>2 DEF Received
          <6> QED BY <2>1, <4>1, <4>2, <4>5, <5>1, <5>2, <6>3
                  DEF Atomic!Written, Atomic!Lengths, Atomic!Fetched
        <5>3. CASE c.len <= 2
          <6>1. regs' = [regs EXCEPT !.data = datum]
            <7>1. started # "block" /\ started # "zero" /\ regs.read
              BY <3>1, <3>2, <4>5, <5>1, <5>3
            <7>2. datum = mem[regs.address][regs.command]
              BY <3>1, <5>1
            <7> HIDE DEF datum
            <7> QED BY <3>5, <7>1, <7>2 DEF Answer
          <6>2. regs'.data = datum
            BY <1>0, <6>1 DEF Registers
          <6>3. Received(c)' = [status |-> c.len, value |-> datum]
            BY <2>1, <5>3, <6>2 DEF Received
          <6> QED BY <2>1, <3>2, <4>1, <4>2, <4>5, <5>1, <5>3, <6>3
                  DEF Atomic!Written, Atomic!Lengths, Atomic!Fetched
        <5> QED BY <3>2, <5>2, <5>3
      <4> QED BY <3>2, <4>3, <4>4, <4>5
    <3>6. CASE outcome = "complete"
      <4>1. Answer
        BY <1>5, <3>6 DEF Complete
      <4>2. Phase(t)' = "done"
        BY <2>1, <2>4, <3>6 DEF Phase, Effective
      <4>3. Atomic!Succeed(t)
        BY <2>1, <3>3, <3>4, <3>5, <3>6, <4>1, <4>2 DEF Atomic!Succeed
      <4> QED BY <4>3 DEF Atomic!ANext
    <3>7. CASE outcome = "error"
      <4>1. mem' = mem \/ (c.address \in Present /\ mem' = Atomic!Written(mem, c))
        BY <1>5, <3>5, <3>7 DEF Complete
      <4>2. Phase(t)' = "done" /\ Outcome(t)' = [status |-> -1, value |-> None]
        BY <2>1, <2>4, <3>7 DEF Phase, Effective, Outcome
      <4>3. Atomic!Fail(t)
        BY <2>1, <3>3, <3>4, <4>1, <4>2 DEF Atomic!Fail
      <4> QED BY <4>3 DEF Atomic!ANext
    <3>8. CASE outcome = "collision"
      <4>1. mem' = mem
        BY <1>5, <3>8 DEF Complete
      <4>2. Phase(t)' = Phase(t) /\ Outcome(t)' = Outcome(t)
        BY <2>1, <2>4, <3>4, <3>8 DEF Phase, Effective, Outcome, NoResult
      <4> QED BY <2>1, <3>3, <4>1, <4>2, Stutter
    <3> QED BY <3>6, <3>7, <3>8
  <2> QED BY <2>3, <2>4
<1>6. CASE UNCHANGED svars
  BY <1>6, Stutter
  DEF svars, task, controller, Phase, Outcome, Effective, Received, NoResult
<1> QED
  BY <1>2, <1>3, <1>4, <1>5, <1>6 DEF SNext, Step, Controller, Atomic!ANext

\* Every call of smbus.c is atomic on the devices' registers.
THEOREM AtomicCallsHold == SSpec => AtomicCalls
<1>1. SInit => Atomic!AInit
  BY DEF SInit, Atomic!AInit, Phase, Outcome, Effective, NoResult, Atomic!NoResult
<1> QED BY InitInv, InvStep, AtomicStep, <1>1, PTL DEF SSpec, AtomicCalls, Atomic!ASpec

=============================================================================
