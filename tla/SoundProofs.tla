---------------------------- MODULE SoundProofs ----------------------------
(***************************************************************************)
(* What holds of Sound in every scenario in which no buffer ends inside    *)
(* XAudioProvideSamples, engines that run dry included.                    *)
(*                                                                         *)
(* The invariant is a balance.  A buffer the sound task has a token for is *)
(* still to be queued, and to be counted, for each engine until it has     *)
(* reached the descriptors and the counters; with those, the larger of     *)
(* the two counts and the tokens make two buffers, and no engine has more  *)
(* queued than is counted for it.  When an engine has run dry, buffers it  *)
(* plays go uncounted: counts stay high and tokens are lost, never made    *)
(* up.                                                                     *)
(***************************************************************************)
EXTENDS Sound, TLAPS

\* The types, without the limits that only hold while no buffer ends amid a call.
SndTyped ==
  /\ scenario \in Scenarios
  /\ running \in BOOLEAN
  /\ queue \in [Engines -> Seq(Buffers)]
  /\ status \in [Engines -> {{}, {"done"}, {"done", "last"}}]
  /\ count \in [Engines -> Nat]
  /\ drained \in [Engines -> BOOLEAN]
  /\ semaphore \in 0 .. 2
  /\ logic_mutex \in {None, "sound", "doom"}
  /\ pc \in Provide \cup {"play", "wait", "lock", "mix", "fill"}
  /\ out \in Buffers
  /\ loaded \in Nat
  /\ frame \in {"input", "update", "draw"}
  /\ owed \in [Engines -> Int]

\* Where the buffer the task is at work on is still to be queued, or counted, for e.
BeforeQueue(e) ==
  {"lock", "mix", "fill", "analog_lvi"} \cup
    (IF e = "analog" THEN {} ELSE {"analog_load", "analog_store", "digital_lvi"})
BeforeCount(e) ==
  BeforeQueue(e) \cup
    (IF e = "analog" THEN {"analog_load", "analog_store"} ELSE {"digital_load", "digital_store"})

\* The second of the two buffers that are provided before XAudioPlay.
Priming == IF ~running /\ out = 0 THEN 1 ELSE 0

ToQueue(e) == Priming + (IF pc \in BeforeQueue(e) THEN 1 ELSE 0)
ToCount(e) == Priming + (IF pc \in BeforeCount(e) THEN 1 ELSE 0)

\* Buffers queued, and counted, when the task is back at "wait".
Queued(e) == Len(queue[e]) + ToQueue(e)
Due(e) == count[e] + ToCount(e)
Pending(e) == IF status[e] = {} THEN 0 ELSE 1

\* The buffer queued last for e.
Latest(e) == IF pc \in BeforeQueue(e) THEN 1 - out ELSE out

\* Where the sound task can be.
Phases ==
  /\ pc \in Provide \/ ~running => \A e \in Engines : status[e] = {}
  /\ ~running => semaphore = 0 /\ pc \in Provide \cup {"play"}
  /\ running => pc # "play"
  /\ pc = "play" => out = 1
  /\ loaded = (CASE pc = "analog_store" -> count["analog"]
                 [] pc = "digital_store" -> count["digital"]
                 [] OTHER -> 0)

Balance ==
  /\ \A e \in Engines : Queued(e) + Pending(e) <= Due(e) /\ Due(e) + semaphore <= 2
  /\ \E e \in Engines : Due(e) + semaphore = 2
  /\ \A e \in Engines : owed[e] = 2 - semaphore - Queued(e)

\* The buffers alternate.
Alternate ==
  \A e \in Engines : \A i \in 1 .. Len(queue[e]) :
    queue[e][i] = IF i = Len(queue[e]) THEN Latest(e) ELSE 1 - Latest(e)

\* The engines never run dry, and every buffer is counted.
Exact ==
  \A e \in Engines : ~drained[e] /\ "last" \notin status[e] /\ Queued(e) + Pending(e) = Due(e)

SndInv ==
  /\ SndTyped
  /\ ~scenario.amid => Phases /\ Balance /\ Alternate
  /\ ~scenario.amid /\ ~scenario.underrun => Exact


-----------------------------------------------------------------------------
LEMMA Scenario ==
  ASSUME NEW s \in Scenarios
  PROVE  s.underrun \in BOOLEAN /\ s.amid \in BOOLEAN /\ s.haltBits \in BOOLEAN
BY SoundAssumption

LEMMA SndInitInv == SndInit => SndInv
<1> SUFFICES ASSUME SndInit PROVE SndInv
  OBVIOUS
<1>1. SndTyped
  <2>1. <<>> \in Seq(Buffers) /\ 0 \in Buffers
    BY DEF Buffers
  <2>2. queue \in [Engines -> Seq(Buffers)]
    BY <2>1 DEF SndInit
  <2>3. status \in [Engines -> {{}, {"done"}, {"done", "last"}}] /\ owed \in [Engines -> Int]
    BY DEF SndInit
  <2>4. count \in [Engines -> Nat] /\ drained \in [Engines -> BOOLEAN]
    BY DEF SndInit
  <2>5. semaphore \in 0 .. 2 /\ loaded \in Nat
    <3>1. semaphore = 0 /\ loaded = 0
      BY DEF SndInit
    <3>2. QED
      BY <3>1
  <2>6. /\ scenario \in Scenarios /\ logic_mutex \in {None, "sound", "doom"} /\ out \in Buffers
        /\ pc \in Provide \cup {"play", "wait", "lock", "mix", "fill"}
        /\ frame \in {"input", "update", "draw"} /\ running \in BOOLEAN
    BY <2>1 DEF SndInit, Provide
  <2>7. QED
    BY <2>2, <2>3, <2>4, <2>5, <2>6 DEF SndTyped
<1>2. Phases
  BY DEF SndInit, Phases, Provide, Engines
<1>3. \A e \in Engines : Len(queue[e]) = 0 /\ ToQueue(e) = 2 /\ ToCount(e) = 2 /\ Pending(e) = 0
  BY DEF SndInit, ToQueue, ToCount, Priming, BeforeQueue, BeforeCount, Pending
<1>4. "analog" \in Engines /\ semaphore = 0 /\ \A e \in Engines : count[e] = 0 /\ owed[e] = 0
  BY DEF Engines, SndInit
<1>5. \A e \in Engines : Queued(e) = 2 /\ Due(e) = 2
  BY <1>3, <1>4 DEF Queued, Due
<1>6. Balance
  BY <1>3, <1>4, <1>5 DEF Balance
<1>7. Alternate
  BY <1>3 DEF Alternate
<1>8. Exact
  BY <1>3, <1>5 DEF Exact, SndInit
<1>9. QED
  BY <1>1, <1>2, <1>6, <1>7, <1>8 DEF SndInv

\* The types do not depend on the balance.
LEMMA SndTypedStep ==
  ASSUME SndTyped, SndNext
  PROVE  SndTyped' /\ scenario' = scenario
<1> USE DEF Buffers, Goto, hardware, driver, soundtask
<1>1. CASE SetLastValid
  <2>1. PICK e \in Engines : queue' = [queue EXCEPT ![e] = Append(@, out)]
    BY <1>1 DEF SetLastValid
  <2>2. queue' \in [Engines -> Seq(Buffers)]
    <3>1. queue[e] \in Seq(Buffers) /\ out \in Buffers
      BY DEF SndTyped
    <3>2. Append(queue[e], out) \in Seq(Buffers)
      BY <3>1
    <3>3. QED
      BY <2>1, <3>2 DEF SndTyped
  <2>3. pc' \in Provide
    BY <1>1 DEF SetLastValid, Provide, Engines
  <2>4. QED
    BY <1>1, <2>2, <2>3 DEF SetLastValid, SndTyped
<1>2. CASE LoadCount
  BY <1>2 DEF LoadCount, SndTyped, Provide, Engines
<1>3. CASE StoreCount
  <2>1. count' \in [Engines -> Nat]
    <3>1. \E e \in Engines : count' = [count EXCEPT ![e] = loaded + 1]
      BY <1>3 DEF StoreCount, Engines
    <3>2. count \in [Engines -> Nat] /\ loaded + 1 \in Nat
      BY DEF SndTyped
    <3>3. QED
      BY <3>1, <3>2
  <2>0. loaded' \in Nat /\ out' \in Buffers
    <3>1. loaded' = 0 /\ (out' = out \/ out' = 1)
      BY <1>3 DEF StoreCount
    <3>2. QED
      BY <3>1 DEF SndTyped
  <2>2. pc' \in Provide \cup {"play", "wait", "lock", "mix", "fill"}
    BY <1>3 DEF StoreCount, Provide
  <2>3. UNCHANGED <<scenario, running, queue, status, drained, semaphore, logic_mutex, frame, owed>>
    BY <1>3 DEF StoreCount
  <2>4. QED
    BY <2>0, <2>1, <2>2, <2>3 DEF SndTyped
<1>4. CASE XAudioPlay
  BY <1>4 DEF XAudioPlay, SndTyped
<1>5. CASE TakeToken
  <2>1. semaphore' \in 0 .. 2 /\ out' \in Buffers /\ pc' = "lock"
    BY <1>5 DEF TakeToken, SndTyped
  <2>2. UNCHANGED <<scenario, running, queue, status, count, drained, logic_mutex, loaded, frame,
                    owed>>
    BY <1>5 DEF TakeToken
  <2>3. QED
    BY <2>1, <2>2 DEF SndTyped
<1>6. CASE UnlockLogic \/ Fill \/ LockLogic
  BY <1>6 DEF UnlockLogic, Fill, LockLogic, SndTyped, Provide
<1>7. CASE DoomLock \/ DoomUnlock \/ DoomDraw
  BY <1>7 DEF DoomLock, DoomUnlock, DoomDraw, SndTyped
<1>8. ASSUME NEW e \in Engines, BufferEnds(e)
      PROVE  SndTyped' /\ scenario' = scenario
  <2>1. queue' \in [Engines -> Seq(Buffers)]
    <3>1. queue[e] \in Seq(Buffers) /\ queue[e] # <<>>
      BY <1>8 DEF BufferEnds, SndTyped
    <3>2. Tail(queue[e]) \in Seq(Buffers)
      BY <3>1
    <3>3. QED
      BY <1>8, <3>2 DEF BufferEnds, SndTyped
  <2>2. status' \in [Engines -> {{}, {"done"}, {"done", "last"}}]
    <3>1. {"done"} \cup (IF Len(queue[e]) = 1 THEN {"last"} ELSE {})
            \in {{}, {"done"}, {"done", "last"}}
      OBVIOUS
    <3>2. QED
      BY <1>8, <3>1 DEF BufferEnds, SndTyped
  <2>3. owed' \in [Engines -> Int]
    BY <1>8 DEF BufferEnds, SndTyped
  <2>4. QED
    BY <1>8, <2>1, <2>2, <2>3 DEF BufferEnds, SndTyped
<1>9. CASE aci_handler
  <2>1. PICK w \in BOOLEAN : Serve(w)
    BY <1>9 DEF aci_handler
  <2>2. count' \in [Engines -> Nat]
    <3>1. \A e \in Engines : Counted(e) \in Nat
      BY DEF Counted, Counts, SndTyped
    <3>2. QED
      BY <2>1, <3>1 DEF Serve
  <2>3. drained' \in [Engines -> BOOLEAN]
    <3>1. ASSUME NEW e \in Engines
          PROVE  (IF Signals(e) THEN "last" \in status[e] ELSE drained[e]) \in BOOLEAN
      <4>1. drained[e] \in BOOLEAN
        BY DEF SndTyped
      <4>2. ("last" \in status[e]) = TRUE \/ ("last" \in status[e]) = FALSE
        OBVIOUS
      <4>3. QED
        BY <4>1, <4>2, Zenon
    <3>2. drained' = [e \in Engines |-> IF Signals(e) THEN "last" \in status[e] ELSE drained[e]]
      BY <2>1 DEF Serve
    <3>3. QED
      BY <3>1, <3>2, Zenon
  <2>4. status' \in [Engines -> {{}, {"done"}, {"done", "last"}}]
    BY <2>1 DEF Serve
  <2>5. semaphore' \in 0 .. 2 /\ owed' \in [Engines -> Int]
    BY <2>1 DEF Serve, SndTyped
  <2>6. QED
    BY <2>1, <2>2, <2>3, <2>4, <2>5 DEF Serve, SndTyped
<1>10. QED
  BY <1>1, <1>2, <1>3, <1>4, <1>5, <1>6, <1>7, <1>8, <1>9
     DEF SndNext, SoundStep, SoundLock, DoomStep, DoomTurn

-----------------------------------------------------------------------------
(***************************************************************************)
(* The steps of the tasks                                                  *)
(***************************************************************************)

Good == Phases /\ Balance /\ Alternate

LEMMA EngineTypes ==
  ASSUME SndTyped, NEW e \in Engines
  PROVE  /\ Len(queue[e]) \in Nat /\ count[e] \in Nat /\ owed[e] \in Int
         /\ ToQueue(e) \in Nat /\ ToCount(e) \in Nat /\ Pending(e) \in {0, 1}
         /\ Queued(e) \in Nat /\ Due(e) \in Nat /\ Latest(e) \in Int /\ semaphore \in Nat
<1>1. queue[e] \in Seq(Buffers) /\ count[e] \in Nat /\ owed[e] \in Int /\ semaphore \in 0 .. 2
      /\ out \in {0, 1}
  BY DEF SndTyped, Buffers
<1>2. Len(queue[e]) \in Nat
  BY <1>1
<1>3. ToQueue(e) \in Nat /\ ToCount(e) \in Nat /\ Pending(e) \in {0, 1}
  BY DEF ToQueue, ToCount, Priming, Pending
<1>4. Latest(e) \in Int
  BY <1>1 DEF Latest
<1>5. QED
  BY <1>1, <1>2, <1>3, <1>4 DEF Queued, Due

\* A step that only moves a buffer on: from the task to the descriptors, or to the counters.
LEMMA BalanceKept ==
  ASSUME Balance, UNCHANGED <<semaphore, owed>>,
         \A e \in Engines : /\ Queued(e)' = Queued(e) /\ Due(e)' = Due(e)
                            /\ Pending(e)' = Pending(e)
  PROVE  Balance'
BY DEF Balance

LEMMA AlternateKept ==
  ASSUME Alternate, UNCHANGED queue, \A e \in Engines : Latest(e)' = Latest(e)
  PROVE  Alternate'
BY DEF Alternate

LEMMA ExactKept ==
  ASSUME Exact, UNCHANGED <<drained, status>>,
         \A e \in Engines : /\ Queued(e)' = Queued(e) /\ Due(e)' = Due(e)
                            /\ Pending(e)' = Pending(e)
  PROVE  Exact'
BY DEF Exact

LEMMA SetLastValidGood ==
  ASSUME SndTyped, Good, SetLastValid
  PROVE  Good' /\ (Exact => Exact')
<1>1. PICK e \in Engines :
        /\ pc = (CASE e = "analog" -> "analog_lvi" [] e = "digital" -> "digital_lvi")
        /\ queue' = [queue EXCEPT ![e] = Append(@, out)]
        /\ pc' = (CASE e = "analog" -> "analog_load" [] e = "digital" -> "digital_load")
  BY DEF SetLastValid, Goto
<1>2. UNCHANGED <<running, status, count, drained, semaphore, out, loaded, owed>>
  BY DEF SetLastValid, driver
<1>3. /\ pc \in BeforeQueue(e) /\ pc' \notin BeforeQueue(e)
      /\ pc \in BeforeCount(e) /\ pc' \in BeforeCount(e)
      /\ \A f \in Engines : f # e => /\ pc' \in BeforeQueue(f) <=> pc \in BeforeQueue(f)
                                     /\ pc' \in BeforeCount(f) <=> pc \in BeforeCount(f)
  BY <1>1 DEF Engines, BeforeQueue, BeforeCount
<1>4. queue[e] \in Seq(Buffers) /\ out \in {0, 1} /\ queue \in [Engines -> Seq(Buffers)]
  BY DEF SndTyped, Buffers
<1>5. /\ Len(queue'[e]) = Len(queue[e]) + 1 /\ queue'[e][Len(queue[e]) + 1] = out
      /\ \A i \in 1 .. Len(queue[e]) : queue'[e][i] = queue[e][i]
      /\ \A f \in Engines : f # e => queue'[f] = queue[f]
  BY <1>1, <1>4 DEF Buffers
<1>6. Priming' = Priming
  BY <1>2 DEF Priming
<1>7. ASSUME NEW f \in Engines
      PROVE  Queued(f)' = Queued(f) /\ Due(f)' = Due(f) /\ Pending(f)' = Pending(f)
  <2>1. ToCount(f)' = ToCount(f) /\ Due(f)' = Due(f) /\ Pending(f)' = Pending(f)
    BY <1>2, <1>3, <1>6 DEF ToCount, Due, Pending
  <2>2. CASE f = e
    <3>1. ToQueue(f) = Priming + 1 /\ ToQueue(f)' = Priming
      BY <1>3, <1>6, <2>2 DEF ToQueue, Priming
    <3>2. Priming \in Nat /\ Len(queue[e]) \in Nat
      BY <1>4 DEF Priming
    <3>3. Len(queue'[f]) = Len(queue[f]) + 1 /\ Len(queue[f]) \in Nat
      BY <1>5, <2>2, <3>2
    <3>4. Queued(f) = Len(queue[f]) + (Priming + 1) /\ Queued(f)' = Len(queue'[f]) + Priming
      BY <3>1 DEF Queued
    <3>5. Queued(f)' = Queued(f)
      <4>1. PICK n \in Nat, p \in Nat : n = Len(queue[f]) /\ p = Priming
        BY <3>2, <3>3
      <4>2. Queued(f) = n + (p + 1) /\ Queued(f)' = (n + 1) + p
        BY <3>3, <3>4, <4>1
      <4>3. n + (p + 1) = (n + 1) + p
        OBVIOUS
      <4>4. QED
        BY <4>2, <4>3
    <3>6. QED
      BY <2>1, <3>5
  <2>3. CASE f # e
    <3>1. ToQueue(f)' = ToQueue(f)
      BY <1>3, <1>6, <2>3 DEF ToQueue
    <3>2. QED
      BY <1>5, <2>1, <2>3, <3>1 DEF Queued
  <2>4. QED
    BY <2>2, <2>3
<1>8. Balance' /\ (Exact => Exact')
  BY <1>2, <1>7, BalanceKept, ExactKept DEF Good
<1>9. Phases'
  BY <1>1, <1>2 DEF Good, Phases, Provide, Engines
<1>10. Alternate'
  <2>1. Len(queue[e]) <= 1
    <3>1. Queued(e) <= 2
      <4>1. Queued(e) + Pending(e) <= Due(e) /\ Due(e) + semaphore <= 2
        BY DEF Good, Balance
      <4>2. QED
        BY <4>1, EngineTypes
    <3>2. ToQueue(e) >= 1
      BY <1>3 DEF ToQueue, Priming
    <3>3. Len(queue[e]) \in Nat /\ ToQueue(e) \in Nat
      BY EngineTypes
    <3>4. QED
      BY <3>1, <3>2, <3>3 DEF Queued
  <2>2. Latest(e) = 1 - out /\ Latest(e)' = out
    BY <1>2, <1>3 DEF Latest
  <2>3. ASSUME NEW i \in 1 .. Len(queue'[e])
        PROVE  queue'[e][i] = IF i = Len(queue'[e]) THEN Latest(e)' ELSE 1 - Latest(e)'
    <3>0. Len(queue[e]) \in Nat
      BY <1>4
    <3>1. CASE i = Len(queue'[e])
      BY <1>5, <2>2, <3>1
    <3>2. CASE i # Len(queue'[e])
      <4>0. PICK n \in Nat : n = Len(queue[e])
        BY <3>0
      <4>5. i \in 1 .. (n + 1) /\ i # n + 1 /\ n <= 1
        BY <1>5, <2>1, <2>3, <3>2, <4>0
      <4>6. i = 1 /\ n = 1
        BY <4>5
      <4>1. i = 1 /\ Len(queue[e]) = 1
        BY <4>0, <4>6
      <4>2. queue[e][i] = Latest(e)
        BY <4>1 DEF Good, Alternate
      <4>3. QED
        BY <1>5, <2>2, <3>2, <4>1, <4>2
    <3>3. QED
      BY <3>1, <3>2
  <2>4. ASSUME NEW f \in Engines, f # e
        PROVE  Latest(f)' = Latest(f) /\ queue'[f] = queue[f]
    BY <1>2, <1>3, <1>5, <2>4 DEF Latest
  <2>5. ASSUME NEW f \in Engines, NEW i \in 1 .. Len(queue'[f])
        PROVE  queue'[f][i] = IF i = Len(queue'[f]) THEN Latest(f)' ELSE 1 - Latest(f)'
    <3>1. CASE f = e
      BY <2>3, <2>5, <3>1
    <3>2. CASE f # e
      BY <2>4, <2>5, <3>2 DEF Good, Alternate
    <3>3. QED
      BY <3>1, <3>2
  <2>6. QED
    BY <2>5 DEF Alternate
<1>11. QED
  BY <1>8, <1>9, <1>10 DEF Good

\* Where the other steps of a task leave the buffer it has.
LEMMA TaskGood ==
  ASSUME SndTyped, Good, UNCHANGED <<queue, status, drained, semaphore, owed>>, Phases',
         \A e \in Engines : /\ ToQueue(e)' = ToQueue(e) /\ Latest(e)' = Latest(e)
                            /\ count'[e] + ToCount(e)' = count[e] + ToCount(e)
  PROVE  Good' /\ (Exact => Exact')
<1>1. \A e \in Engines : /\ Queued(e)' = Queued(e) /\ Due(e)' = Due(e)
                         /\ Pending(e)' = Pending(e)
  BY DEF Queued, Due, Pending
<1>2. QED
  BY <1>1, BalanceKept, AlternateKept, ExactKept DEF Good

LEMMA LoadCountGood ==
  ASSUME SndTyped, Good, LoadCount
  PROVE  Good' /\ (Exact => Exact')
<1>1. UNCHANGED <<queue, status, drained, semaphore, owed, running, out, count>>
  BY DEF LoadCount, hardware, driver
<1>2. \/ pc = "analog_load" /\ pc' = "analog_store" /\ loaded' = count["analog"]
      \/ pc = "digital_load" /\ pc' = "digital_store" /\ loaded' = count["digital"]
  BY DEF LoadCount, Goto
<1>3. Phases'
  BY <1>1, <1>2 DEF Good, Phases, Provide
<1>4. \A e \in Engines : /\ pc' \in BeforeQueue(e) <=> pc \in BeforeQueue(e)
                         /\ pc' \in BeforeCount(e) <=> pc \in BeforeCount(e)
  BY <1>2 DEF Engines, BeforeQueue, BeforeCount
<1>5. \A e \in Engines : /\ ToQueue(e)' = ToQueue(e) /\ Latest(e)' = Latest(e)
                         /\ count'[e] + ToCount(e)' = count[e] + ToCount(e)
  BY <1>1, <1>4 DEF ToQueue, ToCount, Priming, Latest
<1>6. QED
  BY <1>1, <1>3, <1>5, TaskGood

LEMMA StoreCountGood ==
  ASSUME SndTyped, Good, StoreCount
  PROVE  Good' /\ (Exact => Exact')
<1>1. UNCHANGED <<queue, status, drained, semaphore, owed, running>> /\ loaded' = 0
  BY DEF StoreCount, hardware
<1>2. count \in [Engines -> Nat] /\ out \in {0, 1} /\ running \in BOOLEAN
  BY DEF SndTyped, Buffers
<1>3. CASE pc = "analog_store"
  <2>1. pc' = "digital_lvi" /\ out' = out /\ count' = [count EXCEPT !["analog"] = loaded + 1]
    BY <1>3 DEF StoreCount, Goto
  <2>2. loaded = count["analog"]
    BY <1>3 DEF Good, Phases
  <2>3. Phases'
    BY <1>1, <1>3, <2>1 DEF Good, Phases, Provide
  <2>4. \A e \in Engines : /\ pc' \in BeforeQueue(e) <=> pc \in BeforeQueue(e)
                           /\ pc \in BeforeCount(e)
                           /\ pc' \in BeforeCount(e) <=> e # "analog"
    BY <1>3, <2>1 DEF Engines, BeforeQueue, BeforeCount
  <2>5. count'["analog"] = count["analog"] + 1 /\ count'["digital"] = count["digital"]
    BY <1>2, <2>1, <2>2 DEF Engines
  <2>6. Priming' = Priming /\ Priming \in {0, 1}
    BY <1>1, <2>1 DEF Priming
  <2>7. ASSUME NEW e \in Engines
        PROVE  /\ ToQueue(e)' = ToQueue(e) /\ Latest(e)' = Latest(e)
               /\ count'[e] + ToCount(e)' = count[e] + ToCount(e)
    <3>1. ToQueue(e)' = ToQueue(e) /\ Latest(e)' = Latest(e)
      BY <2>1, <2>4, <2>6 DEF ToQueue, Latest
    <3>2. ToCount(e) = Priming + 1 /\ ToCount(e)' = Priming + (IF e = "analog" THEN 0 ELSE 1)
      BY <2>4, <2>6 DEF ToCount
    <3>3. QED
      BY <1>2, <2>5, <2>6, <3>1, <3>2 DEF Engines
  <2>8. QED
    BY <1>1, <2>3, <2>7, TaskGood
<1>4. CASE pc = "digital_store"
  <2>1. /\ count' = [count EXCEPT !["digital"] = loaded + 1]
        /\ \/ running /\ pc' = "wait" /\ out' = out
           \/ ~running /\ out = 0 /\ pc' = "analog_lvi" /\ out' = 1
           \/ ~running /\ out = 1 /\ pc' = "play" /\ out' = out
    BY <1>2, <1>4 DEF StoreCount, Goto
  <2>2. loaded = count["digital"]
    BY <1>4 DEF Good, Phases
  <2>3. Phases'
    <3>1. pc \in Provide
      BY <1>4 DEF Provide
    <3>2. QED
      BY <1>1, <2>1, <3>1 DEF Good, Phases, Provide
  <2>4. count'["analog"] = count["analog"] /\ count'["digital"] = count["digital"] + 1
    BY <1>2, <2>1, <2>2 DEF Engines
  <2>5. \A e \in Engines : /\ pc \notin BeforeQueue(e)
                           /\ pc \in BeforeCount(e) <=> e = "digital"
    BY <1>4 DEF Engines, BeforeQueue, BeforeCount
  <2>6. \A e \in Engines : /\ pc' \in BeforeQueue(e) <=> pc' = "analog_lvi"
                           /\ pc' \in BeforeCount(e) <=> pc' = "analog_lvi"
    BY <2>1 DEF Engines, BeforeQueue, BeforeCount
  <2>7. ASSUME NEW e \in Engines
        PROVE  /\ ToQueue(e)' = ToQueue(e) /\ Latest(e)' = Latest(e)
               /\ count'[e] + ToCount(e)' = count[e] + ToCount(e)
    <3>1. ToQueue(e)' = ToQueue(e) /\ Latest(e)' = Latest(e)
      BY <1>1, <1>2, <2>1, <2>5, <2>6 DEF ToQueue, Latest, Priming
    <3>2. ToCount(e) = Priming + (IF e = "digital" THEN 1 ELSE 0) /\ ToCount(e)' = Priming
      BY <1>1, <1>2, <2>1, <2>5, <2>6 DEF ToCount, Priming
    <3>3. Priming \in {0, 1}
      BY DEF Priming
    <3>4. QED
      BY <1>2, <2>4, <3>1, <3>2, <3>3 DEF Engines
  <2>8. QED
    BY <1>1, <2>3, <2>7, TaskGood
<1>5. QED
  BY <1>3, <1>4 DEF StoreCount

\* XAudioPlay, the mutex, mixing, and Doom's own steps leave the buffer where it is.
LEMMA OthersGood ==
  ASSUME SndTyped, Good, ~Interrupted,
         XAudioPlay \/ LockLogic \/ UnlockLogic \/ Fill \/ DoomLock \/ DoomUnlock \/ DoomDraw
  PROVE  Good' /\ (Exact => Exact')
<1>1. UNCHANGED <<queue, status, drained, semaphore, owed, count, out, loaded>>
  BY DEF XAudioPlay, LockLogic, UnlockLogic, Fill, DoomLock, DoomUnlock, DoomDraw,
         hardware, driver, soundtask
<1>2. \/ pc = "play" /\ pc' = "wait" /\ running' = TRUE
      \/ /\ running' = running
         /\ \/ pc = "lock" /\ pc' = "mix"
            \/ pc = "mix" /\ pc' = "fill"
            \/ pc = "fill" /\ pc' = "analog_lvi"
            \/ pc' = pc
  BY DEF XAudioPlay, LockLogic, UnlockLogic, Fill, DoomLock, DoomUnlock, DoomDraw, Goto,
         hardware, soundtask
<1>3. \A e \in Engines : /\ pc' \in BeforeQueue(e) <=> pc \in BeforeQueue(e)
                         /\ pc' \in BeforeCount(e) <=> pc \in BeforeCount(e)
  BY <1>2 DEF Engines, BeforeQueue, BeforeCount
<1>4. Priming' = Priming
  BY <1>1, <1>2 DEF Good, Phases, Priming
<1>5. \A e \in Engines : /\ ToQueue(e)' = ToQueue(e) /\ Latest(e)' = Latest(e)
                         /\ count'[e] + ToCount(e)' = count[e] + ToCount(e)
  BY <1>1, <1>3, <1>4 DEF ToQueue, ToCount, Latest
<1>6. Phases'
  BY <1>1, <1>2 DEF Interrupted, Good, Phases, Provide
<1>7. QED
  BY <1>1, <1>5, <1>6, TaskGood

\* A token becomes a buffer to provide.
LEMMA TakeTokenGood ==
  ASSUME SndTyped, Good, ~Interrupted, TakeToken
  PROVE  Good' /\ (Exact => Exact')
<1>1. /\ UNCHANGED <<queue, status, drained, owed, count, running, loaded>>
      /\ pc = "wait" /\ pc' = "lock" /\ semaphore > 0 /\ semaphore' = semaphore - 1 /\ out' = 1 - out
  BY DEF TakeToken, hardware, driver, Goto
<1>2. running /\ out \in {0, 1}
  BY <1>1 DEF Good, Phases, Provide, SndTyped, Buffers
<1>3. Priming = 0 /\ Priming' = 0
  BY <1>1, <1>2 DEF Priming
<1>4. \A e \in Engines : /\ pc \notin BeforeQueue(e) /\ pc' \in BeforeQueue(e)
                         /\ pc \notin BeforeCount(e) /\ pc' \in BeforeCount(e)
  BY <1>1 DEF BeforeQueue, BeforeCount, Engines
<1>5. \A e \in Engines : /\ ToQueue(e) = 0 /\ ToQueue(e)' = 1 /\ ToCount(e) = 0 /\ ToCount(e)' = 1
                         /\ Latest(e)' = Latest(e) /\ Pending(e)' = Pending(e)
  BY <1>1, <1>2, <1>3, <1>4 DEF ToQueue, ToCount, Latest, Pending
<1>6. ASSUME NEW e \in Engines
      PROVE  /\ Queued(e)' = Queued(e) + 1 /\ Due(e)' = Due(e) + 1
             /\ Queued(e) \in Nat /\ Due(e) \in Nat /\ Pending(e) \in {0, 1}
  <2>1. PICK n \in Nat, k \in Nat : n = Len(queue[e]) /\ k = count[e]
    BY EngineTypes
  <2>2. Queued(e) = n + 0 /\ Queued(e)' = n + 1 /\ Due(e) = k + 0 /\ Due(e)' = k + 1
    BY <1>1, <1>5, <2>1 DEF Queued, Due
  <2>3. QED
    BY <2>2, EngineTypes
<1>7. semaphore \in Nat /\ semaphore' = semaphore - 1
  BY <1>1 DEF SndTyped
<1>8. Balance'
  <2>1. ASSUME NEW e \in Engines
        PROVE  /\ (Queued(e) + Pending(e) <= Due(e))' /\ (Due(e) + semaphore <= 2)'
               /\ (owed[e] = 2 - semaphore - Queued(e))'
               /\ Due(e) + semaphore = 2 => (Due(e) + semaphore = 2)'
    <3>1. /\ Queued(e) + Pending(e) <= Due(e) /\ Due(e) + semaphore <= 2
          /\ owed[e] = 2 - semaphore - Queued(e)
      BY DEF Good, Balance
    <3>2. QED
      BY <1>1, <1>5, <1>6, <1>7, <3>1
  <2>2. QED
    BY <2>1 DEF Good, Balance
<1>9. Alternate'
  BY <1>1, <1>5, AlternateKept DEF Good
<1>10. Phases'
  BY <1>1, <1>2 DEF Good, Phases, Provide
<1>11. Exact => Exact'
  BY <1>1, <1>5, <1>6 DEF Exact
<1>12. QED
  BY <1>8, <1>9, <1>10, <1>11 DEF Good

-----------------------------------------------------------------------------
(***************************************************************************)
(* The end of a buffer                                                     *)
(***************************************************************************)

LEMMA BufferEndsGood ==
  ASSUME SndTyped, Good, ~scenario.amid, NEW e \in Engines, BufferEnds(e)
  PROVE  Good' /\ (Exact /\ ~scenario.underrun => Exact')
<1>1. /\ UNCHANGED <<running, count, drained, semaphore, pc, out, loaded>>
      /\ running /\ queue[e] # <<>> /\ status[e] = {} /\ pc \notin Provide
      /\ scenario.underrun \/ Len(queue[e]) > 1
      /\ queue' = [queue EXCEPT ![e] = Tail(@)]
      /\ status' = [status EXCEPT ![e] = {"done"} \cup (IF Len(queue[e]) = 1 THEN {"last"} ELSE {})]
      /\ owed' = [owed EXCEPT ![e] = @ + 1]
  BY DEF BufferEnds, driver, soundtask
<1>2. queue[e] \in Seq(Buffers) /\ queue \in [Engines -> Seq(Buffers)] /\ owed \in [Engines -> Int]
      /\ status \in [Engines -> {{}, {"done"}, {"done", "last"}}]
  BY DEF SndTyped
<1>3. PICK n \in Nat : Len(queue[e]) = n + 1
  <2>1. Len(queue[e]) \in Nat /\ Len(queue[e]) # 0
    BY <1>1, <1>2
  <2>2. Len(queue[e]) - 1 \in Nat /\ Len(queue[e]) = (Len(queue[e]) - 1) + 1
    BY <2>1
  <2>3. QED
    BY <2>2
<1>4. /\ queue'[e] = Tail(queue[e]) /\ Len(queue'[e]) = n
      /\ \A i \in 1 .. n : queue'[e][i] = queue[e][i + 1]
      /\ owed'[e] = owed[e] + 1 /\ status'[e] # {}
      /\ \A f \in Engines : f # e => queue'[f] = queue[f] /\ owed'[f] = owed[f] /\ status'[f] = status[f]
  <2>1. queue'[e] = Tail(queue[e]) /\ owed'[e] = owed[e] + 1 /\ status'[e] # {}
        /\ \A f \in Engines : f # e => queue'[f] = queue[f] /\ owed'[f] = owed[f] /\ status'[f] = status[f]
    BY <1>1, <1>2
  <2>2. Len(Tail(queue[e])) = n /\ \A i \in 1 .. n : Tail(queue[e])[i] = queue[e][i + 1]
    BY <1>1, <1>2, <1>3
  <2>3. QED
    BY <2>1, <2>2
<1>5. \A f \in Engines : /\ ToQueue(f)' = ToQueue(f) /\ ToCount(f)' = ToCount(f)
                         /\ Latest(f)' = Latest(f) /\ Due(f)' = Due(f)
  BY <1>1 DEF ToQueue, ToCount, Priming, Latest, Due
<1>6. /\ Pending(e) = 0 /\ Pending(e)' = 1
      /\ \A f \in Engines : f # e => Pending(f)' = Pending(f) /\ Queued(f)' = Queued(f)
  BY <1>1, <1>4, <1>5 DEF Pending, Queued
<1>7. PICK k \in Nat : Queued(e) = k + 1 /\ Queued(e)' = k
  <2>1. PICK t \in Nat : t = ToQueue(e)
    BY EngineTypes
  <2>2. Queued(e) = (n + 1) + t /\ Queued(e)' = n + t
    BY <1>3, <1>4, <1>5, <2>1 DEF Queued
  <2>3. n + t \in Nat /\ (n + 1) + t = (n + t) + 1
    OBVIOUS
  <2>4. QED
    BY <2>2, <2>3
<1>8. Balance'
  <2>1. ASSUME NEW f \in Engines
        PROVE  /\ (Queued(f) + Pending(f) <= Due(f))' /\ (Due(f) + semaphore <= 2)'
               /\ (owed[f] = 2 - semaphore - Queued(f))'
               /\ Due(f) + semaphore = 2 => (Due(f) + semaphore = 2)'
    <3>1. /\ Queued(f) + Pending(f) <= Due(f) /\ Due(f) + semaphore <= 2
          /\ owed[f] = 2 - semaphore - Queued(f)
          /\ Due(f) \in Nat /\ semaphore \in Nat /\ owed[f] \in Int
      BY EngineTypes DEF Good, Balance
    <3>2. CASE f = e
      BY <1>1, <1>4, <1>5, <1>6, <1>7, <3>1, <3>2
    <3>3. CASE f # e
      BY <1>1, <1>4, <1>5, <1>6, <3>1, <3>3
    <3>4. QED
      BY <3>2, <3>3
  <2>2. QED
    BY <2>1 DEF Good, Balance
<1>9. Phases'
  BY <1>1 DEF Good, Phases, Provide
<1>10. Alternate'
  <2>1. ASSUME NEW i \in 1 .. n
        PROVE  queue'[e][i] = IF i = n THEN Latest(e) ELSE 1 - Latest(e)
    <3>1. i + 1 \in 1 .. (n + 1) /\ (i + 1 = n + 1 <=> i = n)
      OBVIOUS
    <3>2. queue[e][i + 1] = IF i + 1 = n + 1 THEN Latest(e) ELSE 1 - Latest(e)
      BY <1>3, <3>1 DEF Good, Alternate
    <3>3. QED
      BY <1>4, <3>1, <3>2
  <2>2. ASSUME NEW f \in Engines, NEW i \in 1 .. Len(queue'[f])
        PROVE  queue'[f][i] = IF i = Len(queue'[f]) THEN Latest(f)' ELSE 1 - Latest(f)'
    <3>1. CASE f = e
      <4>1. i \in 1 .. n
        BY <1>4, <2>2, <3>1
      <4>2. queue'[e][i] = IF i = n THEN Latest(e) ELSE 1 - Latest(e)
        BY <2>1, <4>1
      <4>3. QED
        BY <1>4, <1>5, <3>1, <4>2
    <3>2. CASE f # e
      BY <1>4, <1>5, <2>2, <3>2 DEF Good, Alternate
    <3>3. QED
      BY <3>1, <3>2
  <2>3. QED
    BY <2>2 DEF Alternate
<1>11. ASSUME Exact, ~scenario.underrun
       PROVE  Exact'
  <2>1. status'[e] = {"done"}
    <3>1. Len(queue[e]) # 1
      BY <1>1, <1>3, <1>11
    <3>2. QED
      BY <1>1, <1>2, <3>1
  <2>2. ASSUME NEW f \in Engines
        PROVE  "last" \notin status'[f] /\ (Queued(f) + Pending(f) = Due(f))'
    <3>1. "last" \notin status[f] /\ Queued(f) + Pending(f) = Due(f)
      BY <1>11 DEF Exact
    <3>2. CASE f = e
      BY <1>5, <1>6, <1>7, <2>1, <3>1, <3>2
    <3>3. CASE f # e
      BY <1>4, <1>5, <1>6, <3>1, <3>3
    <3>4. QED
      BY <3>2, <3>3
  <2>3. QED
    BY <1>1, <1>11, <2>2 DEF Exact
<1>12. QED
  BY <1>8, <1>9, <1>10, <1>11 DEF Good

-----------------------------------------------------------------------------
(***************************************************************************)
(* The interrupt                                                           *)
(***************************************************************************)

\* The arithmetic of the handler: a and d are the counts, x and y say what is counted, t is
\* the buffer the task is at, s the tokens.
LEMMA Completed ==
  ASSUME NEW a \in Nat, NEW d \in Nat, NEW t \in Nat, NEW s \in Nat,
         NEW x \in {0, 1}, NEW y \in {0, 1}, NEW z \in {0, 1}, x <= a, y <= d,
         a + t + s <= 2, d + t + s <= 2, a + t + s = 2 \/ d + t + s = 2,
         z = 1 <=> (x = 1 /\ a > d) \/ (y = 1 /\ d > a - x)
  PROVE  /\ (a - x) + t + (s + z) <= 2 /\ (d - y) + t + (s + z) <= 2
         /\ (a - x) + t + (s + z) = 2 \/ (d - y) + t + (s + z) = 2
OBVIOUS

LEMMA HandlerGood ==
  ASSUME SndTyped, Good, aci_handler
  PROVE  Good' /\ (Exact => Exact')
<1> DEFINE w == \/ Counts("analog") /\ count["analog"] > count["digital"]
                \/ Counts("digital") /\ count["digital"] > Counted("analog")
           x(e) == IF Counts(e) THEN 1 ELSE 0
           z == IF w THEN 1 ELSE 0
<1>0. Serve(w)
  BY DEF aci_handler
<1> HIDE DEF w
<1>1. /\ UNCHANGED <<running, queue, pc, out, loaded>>
      /\ \E e \in Engines : status[e] # {}
      /\ count' = [e \in Engines |-> Counted(e)]
      /\ drained' = [e \in Engines |-> IF Signals(e) THEN "last" \in status[e] ELSE drained[e]]
      /\ status' = [e \in Engines |-> {}]
  BY <1>0 DEF Serve, soundtask
<1>2. semaphore \in 0 .. 2 /\ owed \in [Engines -> Int]
  BY DEF SndTyped
<1>3. pc \notin Provide /\ running
  BY <1>1 DEF Good, Phases
<1>4. PICK t \in {0, 1} : t = IF pc \in {"lock", "mix", "fill"} THEN 1 ELSE 0
  OBVIOUS
<1>5. \A e \in Engines : ToQueue(e) = t /\ ToCount(e) = t
  BY <1>3, <1>4 DEF ToQueue, ToCount, Priming, BeforeQueue, BeforeCount, Provide, Engines
<1>6. \A e \in Engines : /\ ToQueue(e)' = ToQueue(e) /\ ToCount(e)' = ToCount(e)
                         /\ Latest(e)' = Latest(e) /\ Queued(e)' = Queued(e) /\ Pending(e)' = 0
  BY <1>1 DEF ToQueue, ToCount, Priming, Latest, Queued, Pending
<1>7. ASSUME NEW e \in Engines
      PROVE  /\ x(e) \in {0, 1} /\ x(e) <= count[e] /\ x(e) <= Pending(e)
             /\ Counted(e) = count[e] - x(e) /\ count'[e] = count[e] - x(e)
             /\ Due(e) = count[e] + t /\ Due(e)' = (count[e] - x(e)) + t
  <2>1. count[e] \in Nat
    BY DEF SndTyped
  <2>2. CASE Counts(e)
    <3>1. count[e] > 0 /\ status[e] # {}
      BY <2>2 DEF Counts
    <3>2. x(e) = 1 /\ Counted(e) = count[e] - 1 /\ Pending(e) = 1
      BY <2>2, <3>1 DEF Counted, Pending
    <3>3. QED
      BY <1>1, <1>5, <1>6, <2>1, <3>1, <3>2 DEF Due
  <2>3. CASE ~Counts(e)
    <3>1. x(e) = 0 /\ Counted(e) = count[e] - 0 /\ Pending(e) \in {0, 1}
      BY <2>1, <2>3 DEF Counted, Pending
    <3>2. QED
      BY <1>1, <1>5, <1>6, <2>1, <3>1 DEF Due
  <2>4. QED
    BY <2>2, <2>3
<1>8. PICK a \in Nat, d \in Nat, u \in {0, 1}, v \in {0, 1}, k \in {0, 1} :
        /\ a = count["analog"] /\ d = count["digital"]
        /\ u = x("analog") /\ v = x("digital") /\ k = z
  <2>1. count["analog"] \in Nat /\ count["digital"] \in Nat
    BY DEF SndTyped, Engines
  <2>2. QED
    BY <2>1
<1>9. /\ u <= a /\ v <= d
      /\ k = 1 <=> (u = 1 /\ a > d) \/ (v = 1 /\ d > a - u)
  <2>1. Counted("analog") = a - u /\ u <= a /\ v <= d
    BY <1>7, <1>8 DEF Engines
  <2>2. (u = 1 <=> Counts("analog")) /\ (v = 1 <=> Counts("digital")) /\ (k = 1 <=> w)
    BY <1>8
  <2>3. QED
    BY <1>8, <2>1, <2>2 DEF w
<1>10. /\ Due("analog") = a + t /\ Due("digital") = d + t
       /\ Due("analog")' = (a - u) + t /\ Due("digital")' = (d - v) + t
  BY <1>7, <1>8 DEF Engines
<1>11. PICK s \in 0 .. 2 : s = semaphore
  BY <1>2
<1>12. a + t + s <= 2 /\ d + t + s <= 2 /\ (a + t + s = 2 \/ d + t + s = 2)
  BY <1>10, <1>11 DEF Good, Balance, Engines
<1>13. /\ (a - u) + t + (s + k) <= 2 /\ (d - v) + t + (s + k) <= 2
       /\ (a - u) + t + (s + k) = 2 \/ (d - v) + t + (s + k) = 2
  BY <1>9, <1>12, Completed
<1>14. semaphore' = s + k /\ \A e \in Engines : owed'[e] = owed[e] - k
  <2>1. CASE w
    <3>1. k = 1 /\ s < 2
      <4>1. k = 1
        BY <1>8, <2>1
      <4>2. QED
        BY <1>9, <1>12, <4>1
    <3>2. /\ semaphore' = IF semaphore < 2 THEN semaphore + 1 ELSE 2
          /\ owed' = [e \in Engines |-> owed[e] - 1]
      BY <1>0, <2>1 DEF Serve
    <3>3. QED
      BY <1>11, <3>1, <3>2
  <2>2. CASE ~w
    <3>1. k = 0
      BY <1>8, <2>2
    <3>2. semaphore' = semaphore /\ owed' = owed
      BY <1>0, <2>2 DEF Serve
    <3>3. QED
      BY <1>2, <1>11, <3>1, <3>2
  <2>3. QED
    BY <2>1, <2>2
<1>15. Balance'
  <2>1. \A e \in Engines : (Due(e) + semaphore <= 2)'
    BY <1>10, <1>13, <1>14 DEF Engines
  <2>2. \E e \in Engines : (Due(e) + semaphore = 2)'
    BY <1>10, <1>13, <1>14 DEF Engines
  <2>3. ASSUME NEW e \in Engines
        PROVE  (Queued(e) + Pending(e) <= Due(e))'
    <3>1. Queued(e) + Pending(e) <= Due(e) /\ Queued(e) \in Nat /\ Pending(e) \in {0, 1}
      BY EngineTypes DEF Good, Balance
    <3>2. PICK c \in Nat, y \in {0, 1}, q \in Nat : c = count[e] /\ y = x(e) /\ q = Queued(e)
      BY <1>7, <3>1 DEF SndTyped
    <3>3. Due(e) = c + t /\ Due(e)' = (c - y) + t /\ y <= Pending(e)
      BY <1>7, <3>2
    <3>4. q + Pending(e) <= c + t
      BY <3>1, <3>2, <3>3
    <3>5. q + 0 <= (c - y) + t
      BY <3>1, <3>3, <3>4
    <3>6. Queued(e)' = q /\ Pending(e)' = 0
      BY <1>6, <3>2
    <3>7. QED
      BY <3>3, <3>5, <3>6
  <2>4. ASSUME NEW e \in Engines
        PROVE  (owed[e] = 2 - semaphore - Queued(e))'
    <3>1. owed[e] = 2 - semaphore - Queued(e) /\ Queued(e) \in Nat
      BY EngineTypes DEF Good, Balance
    <3>2. QED
      BY <1>6, <1>11, <1>14, <3>1
  <2>5. QED
    BY <2>1, <2>2, <2>3, <2>4 DEF Balance
<1>16. Phases'
  BY <1>1, <1>3 DEF Good, Phases, Provide
<1>17. Alternate'
  BY <1>1, <1>6, AlternateKept DEF Good
<1>18. ASSUME Exact
       PROVE  Exact'
  <2>1. ASSUME NEW e \in Engines
        PROVE  ~drained'[e] /\ "last" \notin status'[e] /\ (Queued(e) + Pending(e) = Due(e))'
    <3>1. ~drained[e] /\ "last" \notin status[e] /\ Queued(e) + Pending(e) = Due(e)
      BY <1>18 DEF Exact
    <3>2. ~drained'[e] /\ "last" \notin status'[e]
      BY <1>1, <3>1
    <3>3. PICK c \in Nat, n \in Nat : c = count[e] /\ n = Len(queue[e])
      BY EngineTypes
    <3>4. Queued(e) = n + t /\ Due(e) = c + t
      BY <1>5, <1>7, <3>3 DEF Queued
    <3>5. n + Pending(e) = c
      <4>1. Pending(e) \in {0, 1}
        BY EngineTypes
      <4>2. QED
        BY <3>1, <3>4, <4>1
    <3>6. x(e) = Pending(e)
      <4>1. CASE status[e] = {}
        BY <4>1 DEF Counts, Pending
      <4>2. CASE status[e] # {}
        <5>1. "done" \in status[e]
          BY <4>2 DEF SndTyped
        <5>2. Pending(e) = 1 /\ c > 0
          BY <3>5, <4>2 DEF Pending
        <5>3. Counts(e)
          BY <3>1, <3>3, <5>1, <5>2 DEF Counts
        <5>4. QED
          BY <5>2, <5>3
      <4>3. QED
        BY <4>1, <4>2
    <3>7. Due(e)' = (c - Pending(e)) + t
      BY <1>7, <3>3, <3>6
    <3>8. Due(e)' = n + t
      <4>1. PICK y \in {0, 1} : y = Pending(e)
        BY EngineTypes
      <4>2. n + y = c
        BY <3>5, <4>1
      <4>3. (c - y) + t = n + t
        BY <4>2
      <4>4. QED
        BY <3>7, <4>1, <4>3
    <3>9. QED
      BY <1>6, <3>2, <3>4, <3>8
  <2>2. QED
    BY <2>1 DEF Exact
<1>19. QED
  BY <1>15, <1>16, <1>17, <1>18 DEF Good

-----------------------------------------------------------------------------
(***************************************************************************)
(* The invariant, and what it gives                                        *)
(***************************************************************************)

LEMMA SndInvNext ==
  ASSUME SndInv, SndNext
  PROVE  SndInv'
<1>1. SndTyped /\ SndTyped' /\ scenario' = scenario
  BY SndTypedStep DEF SndInv
<1>2. ASSUME ~scenario.amid
      PROVE  Good' /\ (Exact /\ ~scenario.underrun => Exact')
  <2>1. Good
    BY <1>2 DEF SndInv, Good
  <2>2. CASE SoundStep
    BY <1>1, <2>1, <2>2, SetLastValidGood, LoadCountGood, StoreCountGood, OthersGood, TakeTokenGood
       DEF SoundStep
  <2>3. CASE SoundLock \/ DoomStep \/ DoomTurn
    BY <1>1, <2>1, <2>3, OthersGood DEF SoundLock, DoomStep, DoomTurn
  <2>4. ASSUME NEW e \in Engines, BufferEnds(e)
        PROVE  Good' /\ (Exact /\ ~scenario.underrun => Exact')
    BY <1>1, <1>2, <2>1, <2>4, BufferEndsGood
  <2>5. CASE aci_handler
    BY <1>1, <2>1, <2>5, HandlerGood
  <2>6. QED
    BY <2>2, <2>3, <2>4, <2>5 DEF SndNext
<1>3. QED
  BY <1>1, <1>2 DEF SndInv, Good

LEMMA SndStutter ==
  ASSUME SndInv, UNCHANGED sndvars
  PROVE  SndInv'
<1>1. UNCHANGED <<scenario, running, queue, status, count, drained, semaphore, logic_mutex, pc, out,
                  loaded, frame, owed>>
  BY DEF sndvars, hardware, driver, soundtask
<1>2. SndTyped'
  BY <1>1 DEF SndInv, SndTyped
<1>3. \A e : /\ ToQueue(e)' = ToQueue(e) /\ ToCount(e)' = ToCount(e) /\ Latest(e)' = Latest(e)
             /\ Queued(e)' = Queued(e) /\ Due(e)' = Due(e) /\ Pending(e)' = Pending(e)
  BY <1>1 DEF ToQueue, ToCount, Priming, Latest, Queued, Due, Pending
<1>4. QED
  BY <1>1, <1>2, <1>3 DEF SndInv, Phases, Balance, Alternate, Exact

LEMMA SndInvariant == SndSpec => []SndInv
<1>1. SndInv /\ [SndNext]_sndvars => SndInv'
  BY SndInvNext, SndStutter
<1>2. QED
  BY <1>1, SndInitInv, PTL DEF SndSpec

LEMMA QueueBound ==
  ASSUME SndTyped, Balance, NEW e \in Engines
  PROVE  /\ Len(queue[e]) + ToQueue(e) <= 2 /\ count[e] + ToCount(e) <= 2
         /\ Len(queue[e]) \in Nat /\ ToQueue(e) \in Nat /\ count[e] \in Nat /\ ToCount(e) \in Nat
<1>1. Queued(e) + Pending(e) <= Due(e) /\ Due(e) + semaphore <= 2
  BY DEF Balance
<1>2. Queued(e) <= 2 /\ Due(e) <= 2
  BY <1>1, EngineTypes
<1>3. QED
  BY <1>2, EngineTypes DEF Queued, Due

\* As long as no buffer ends inside XAudioProvideSamples, no engine ever has more than two
\* buffers queued, the counts and tokens stay within two, and every variable has its type.
THEOREM SndTypeCorrect == SndSpec => [](~scenario.amid => SndTypeOK)
<1>1. ASSUME SndInv, ~scenario.amid PROVE SndTypeOK
  <2>1. SndTyped /\ Balance /\ Phases
    BY <1>1 DEF SndInv
  <2>2. ASSUME NEW e \in Engines
        PROVE  /\ Len(queue[e]) <= 2 /\ \A i \in 1 .. Len(queue[e]) : queue[e][i] \in Buffers
               /\ count[e] \in 0 .. 2
    <3>1. queue[e] \in Seq(Buffers)
      BY <2>1 DEF SndTyped
    <3>2. Len(queue[e]) <= 2 /\ count[e] \in 0 .. 2
      BY <2>1, QueueBound
    <3>3. QED
      BY <3>1, <3>2
  <2>3. count \in [Engines -> 0 .. 2]
    BY <2>1, <2>2 DEF SndTyped
  <2>4. loaded \in 0 .. 2
    <3>1. loaded \in {0, count["analog"], count["digital"]}
      BY <2>1 DEF Phases
    <3>2. QED
      BY <2>2, <3>1 DEF Engines
  <2>5. status \in [Engines -> SUBSET {"done", "last"}]
    <3>1. {{}, {"done"}, {"done", "last"}} \subseteq SUBSET {"done", "last"}
      OBVIOUS
    <3>2. QED
      BY <2>1, <3>1 DEF SndTyped
  <2>6. QED
    BY <2>1, <2>2, <2>3, <2>4, <2>5 DEF SndTyped, SndTypeOK
<1>2. SndInv => (~scenario.amid => SndTypeOK)
  BY <1>1
<1>3. QED
  BY <1>2, SndInvariant, PTL

\* The sound task never mixes into a buffer that an engine still has to play, also after an
\* engine has run dry, as long as no buffer ends inside XAudioProvideSamples.
THEOREM NoOverwriteHolds == SndSpec => []NoOverwrite
<1>1. ASSUME SndInv, ~scenario.amid, pc = "fill", NEW e \in Engines, NEW i \in 1 .. Len(queue[e])
      PROVE  queue[e][i] # out
  <2>1. SndTyped /\ Balance /\ Phases /\ Alternate
    BY <1>1 DEF SndInv
  <2>2. pc \in BeforeQueue(e)
    BY <1>1 DEF BeforeQueue
  <2>3. ToQueue(e) >= 1
    BY <2>2 DEF ToQueue, Priming
  <2>4. i = Len(queue[e])
    <3>1. PICK n \in Nat : n = Len(queue[e])
      BY <2>1, QueueBound
    <3>2. n <= 1 /\ i \in 1 .. n
      BY <1>1, <2>1, <2>3, <3>1, QueueBound
    <3>3. i = n
      BY <3>2
    <3>4. QED
      BY <3>1, <3>3
  <2>5. queue[e][i] = 1 - out
    BY <1>1, <2>1, <2>2, <2>4 DEF Alternate, Latest
  <2>6. out \in {0, 1}
    BY <2>1 DEF SndTyped, Buffers
  <2>7. QED
    BY <2>5, <2>6
<1>2. SndInv => NoOverwrite
  BY <1>1 DEF NoOverwrite
<1>3. QED
  BY <1>2, SndInvariant, PTL

\* While the engines never run dry and end no buffer inside XAudioProvideSamples, a buffer
\* both outputs have played has been asked for, no other has, and the driver's counts are the
\* engines' queues.
THEOREM AskedWhenTimelyHolds == SndSpec => []AskedWhenTimely
<1>1. ASSUME SndInv, ~scenario.underrun, ~scenario.amid PROVE AskedForEachBuffer
  <2>1. SndTyped /\ Balance /\ Exact
    BY <1>1 DEF SndInv
  <2>2. SUFFICES ASSUME \A e \in Engines : status[e] = {}
                 PROVE  /\ \A e \in Engines : owed[e] >= 0
                        /\ \E e \in Engines : owed[e] = 0
    BY DEF AskedForEachBuffer
  <2>3. ASSUME NEW e \in Engines
        PROVE  owed[e] = 2 - semaphore - Due(e) /\ Due(e) + semaphore <= 2
               /\ Due(e) \in Nat /\ semaphore \in Nat
    <3>1. Pending(e) = 0 /\ Queued(e) + Pending(e) = Due(e) /\ Queued(e) \in Nat
      BY <2>1, <2>2, EngineTypes DEF Pending, Exact
    <3>2. Queued(e) = Due(e)
      BY <3>1
    <3>3. QED
      BY <2>1, <3>2, EngineTypes DEF Balance
  <2>4. \A e \in Engines : owed[e] >= 0
    BY <2>3
  <2>5. PICK e \in Engines : Due(e) + semaphore = 2
    BY <2>1 DEF Balance
  <2>6. owed[e] = 0
    BY <2>3, <2>5
  <2>7. QED
    BY <2>4, <2>6
<1>2. ASSUME SndInv, ~scenario.underrun, ~scenario.amid, pc \notin Provide, NEW e \in Engines
      PROVE  count[e] = Len(queue[e]) + (IF status[e] = {} THEN 0 ELSE 1)
  <2>1. SndTyped /\ Phases /\ Queued(e) + Pending(e) = Due(e)
    BY <1>2 DEF SndInv, Exact
  <2>2. Priming \in {0, 1} /\ ToQueue(e) = ToCount(e)
    BY <1>2 DEF ToQueue, ToCount, BeforeQueue, BeforeCount, Provide, Priming, Engines
  <2>3. PICK n \in Nat, k \in Nat, t \in Nat :
          n = Len(queue[e]) /\ k = count[e] /\ t = ToCount(e)
    BY <2>1, EngineTypes
  <2>4. (n + t) + Pending(e) = k + t /\ Pending(e) \in {0, 1}
    BY <2>1, <2>2, <2>3, EngineTypes DEF Queued, Due
  <2>5. n + Pending(e) = k
    BY <2>4
  <2>6. QED
    BY <2>3, <2>5 DEF Pending
<1>3. SndInv => AskedWhenTimely
  BY <1>1, <1>2 DEF AskedWhenTimely
<1>4. QED
  BY <1>3, SndInvariant, PTL

=============================================================================
