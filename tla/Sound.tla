------------------------------- MODULE Sound -------------------------------
(***************************************************************************)
(* Double-buffered sound: the sound task of src/doom_audio.c, which mixes  *)
(* a buffer whenever one has been played, the AC97 driver of               *)
(* lib/xbox/audio.c with its interrupt handler, and Doom's frame loop,     *)
(* which shares the logic mutex with the sound task.  The two DMA engines  *)
(* are external: each plays its queue of descriptors and raises bit 8 at   *)
(* the end of a buffer, bit 4 too when that was the last valid one.        *)
(*                                                                         *)
(* Nothing here masks interrupts, so the handler preempts the tasks as     *)
(* soon as a status bit is set, and is one step.  The engines play the     *)
(* same buffers at one sample rate: neither is a buffer ahead.  The 32     *)
(* descriptors are a queue: at most two are ever in use.                   *)
(***************************************************************************)
EXTENDS Integers, Sequences

CONSTANTS
  Scenarios,  \* how the engines may run into the tasks
  None        \* nobody

ASSUME SoundAssumption ==
  /\ Scenarios \subseteq [underrun : BOOLEAN,   \* an engine may run out of buffers
                          amid : BOOLEAN,       \* a buffer may end amid XAudioProvideSamples
                          haltBits : BOOLEAN]   \* a halted engine's status reads non-zero
  /\ None \notin {"sound", "doom"}

Engines == {"analog", "digital"}
Buffers == {0, 1}

VARIABLES
  scenario,
  running,       \* XAudioPlay was called
  queue,         \* the buffers each engine has yet to finish
  status,        \* the interrupt bits of its status register
  count,         \* analogBufferCount and digitalBufferCount
  drained,       \* analogDrained and digitalDrained
  semaphore,     \* doom_audio_semaphore, at most 2
  logic_mutex,   \* doom_logic_mutex: who holds it
  pc,            \* where doom_sound_task is
  out,           \* its out_buffer
  loaded,        \* a buffer count it is about to store back
  frame,         \* where doom_entry's loop is
  owed           \* per engine, the buffers played less the callbacks made (history)

hardware == <<running, queue, status>>
driver == <<count, drained>>
soundtask == <<pc, out, loaded>>
sndvars == <<scenario, hardware, driver, semaphore, logic_mutex, soundtask, frame, owed>>

Provide == {"analog_lvi", "analog_load", "analog_store",
            "digital_lvi", "digital_load", "digital_store"}

Goto(p) == pc' = p

-----------------------------------------------------------------------------
(***************************************************************************)
(* XAudioProvideSamples, once for the analog and once for the digital      *)
(* engine: make the new descriptor the last valid one, count the buffer.   *)
(***************************************************************************)

SetLastValid ==
  \E e \in Engines :
    /\ pc = (CASE e = "analog" -> "analog_lvi" [] e = "digital" -> "digital_lvi")
    /\ queue' = [queue EXCEPT ![e] = Append(@, out)]
    /\ Goto(CASE e = "analog" -> "analog_load" [] e = "digital" -> "digital_load")
  /\ UNCHANGED <<scenario, running, status, driver, semaphore, logic_mutex, out, loaded,
                 frame, owed>>

\* The increment of a volatile counter is a load and a store.
LoadCount ==
  /\ \/ pc = "analog_load" /\ loaded' = count["analog"] /\ Goto("analog_store")
     \/ pc = "digital_load" /\ loaded' = count["digital"] /\ Goto("digital_store")
  /\ UNCHANGED <<scenario, hardware, driver, semaphore, logic_mutex, out, frame, owed>>

\* After the digital count the call returns: to the second priming call, to XAudioPlay, or
\* to the top of the loop.
StoreCount ==
  /\ \/ /\ pc = "analog_store"
        /\ count' = [count EXCEPT !["analog"] = loaded + 1]
        /\ Goto("digital_lvi")
        /\ UNCHANGED out
     \/ /\ pc = "digital_store"
        /\ count' = [count EXCEPT !["digital"] = loaded + 1]
        /\ IF running THEN Goto("wait") /\ UNCHANGED out
           ELSE IF out = 0 THEN Goto("analog_lvi") /\ out' = 1
           ELSE Goto("play") /\ UNCHANGED out
  /\ loaded' = 0
  /\ UNCHANGED <<scenario, hardware, drained, semaphore, logic_mutex, frame, owed>>

XAudioPlay ==
  /\ pc = "play"
  /\ running' = TRUE
  /\ Goto("wait")
  /\ UNCHANGED <<scenario, queue, status, driver, semaphore, logic_mutex, out, loaded,
                 frame, owed>>

-----------------------------------------------------------------------------
(***************************************************************************)
(* The loop of doom_sound_task                                             *)
(***************************************************************************)

\* The buffers alternate; a token says that one has been played.
TakeToken ==
  /\ pc = "wait"
  /\ semaphore > 0
  /\ semaphore' = semaphore - 1
  /\ out' = 1 - out
  /\ Goto("lock")
  /\ UNCHANGED <<scenario, hardware, driver, logic_mutex, loaded, frame, owed>>

LockLogic ==
  /\ pc = "lock"
  /\ logic_mutex = None
  /\ logic_mutex' = "sound"
  /\ Goto("mix")
  /\ UNCHANGED <<scenario, hardware, driver, semaphore, out, loaded, frame, owed>>

\* Fault: the mutex is kept until the samples are provided, and nobody gives it then.
UnlockLogic_Never ==
  /\ pc = "mix"
  /\ Goto("fill")
  /\ UNCHANGED <<scenario, hardware, driver, semaphore, logic_mutex, out, loaded, frame, owed>>

\* The samples are fetched and the music rendered under the mutex.
UnlockLogic ==
  /\ pc = "mix"
  /\ logic_mutex' = None
  /\ Goto("fill")
  /\ UNCHANGED <<scenario, hardware, driver, semaphore, out, loaded, frame, owed>>

\* Mixing and resampling write out_buffer, then it is provided.
Fill ==
  /\ pc = "fill"
  /\ Goto("analog_lvi")
  /\ UNCHANGED <<scenario, hardware, driver, semaphore, logic_mutex, out, loaded, frame, owed>>

-----------------------------------------------------------------------------
(***************************************************************************)
(* doom_entry: doom_update runs under the mutex, drawing does not          *)
(***************************************************************************)

DoomLock ==
  /\ frame = "input"
  /\ logic_mutex = None
  /\ logic_mutex' = "doom"
  /\ frame' = "update"
  /\ UNCHANGED <<scenario, hardware, driver, semaphore, soundtask, owed>>

DoomUnlock ==
  /\ frame = "update"
  /\ logic_mutex' = None
  /\ frame' = "draw"
  /\ UNCHANGED <<scenario, hardware, driver, semaphore, soundtask, owed>>

DoomDraw ==
  /\ frame = "draw"
  /\ frame' = "input"
  /\ UNCHANGED <<scenario, hardware, driver, semaphore, logic_mutex, soundtask, owed>>

-----------------------------------------------------------------------------
(***************************************************************************)
(* The engines and the interrupt                                           *)
(***************************************************************************)

\* An engine finishes a buffer the other has finished or is playing; the interrupt of the
\* one before has been served.
BufferEnds(e) ==
  /\ running
  /\ \A f \in Engines : owed[e] <= owed[f]
  /\ queue[e] # <<>>
  /\ status[e] = {}
  /\ scenario.underrun \/ Len(queue[e]) > 1
  /\ scenario.amid \/ pc \notin Provide
  /\ queue' = [queue EXCEPT ![e] = Tail(@)]
  /\ status' = [status EXCEPT ![e] = {"done"} \cup (IF Len(queue[e]) = 1 THEN {"last"} ELSE {})]
  /\ owed' = [owed EXCEPT ![e] = @ + 1]
  /\ UNCHANGED <<scenario, running, driver, semaphore, logic_mutex, soundtask, frame>>

\* What aci_handler reads from the status register is not zero.
Signals(e) == status[e] # {} \/ (scenario.haltBits /\ running /\ queue[e] = <<>>)

\* The handler counts a buffer that ended, unless the engine had run dry before.
Counts(e) == "done" \in status[e] /\ ~drained[e] /\ count[e] > 0

Counted(e) == IF Counts(e) THEN count[e] - 1 ELSE count[e]

\* Both engines are looked at, and the callback gives a token if a wait has completed.
Serve(waitCompleted) ==
  /\ \E e \in Engines : status[e] # {}
  /\ count' = [e \in Engines |-> Counted(e)]
  /\ drained' = [e \in Engines |-> IF Signals(e) THEN "last" \in status[e] ELSE drained[e]]
  /\ status' = [e \in Engines |-> {}]
  /\ IF waitCompleted
     THEN /\ semaphore' = IF semaphore < 2 THEN semaphore + 1 ELSE 2
          /\ owed' = [e \in Engines |-> owed[e] - 1]
     ELSE UNCHANGED <<semaphore, owed>>
  /\ UNCHANGED <<scenario, running, queue, logic_mutex, soundtask, frame>>

\* Fault: a buffer played by the analog output is taken for a buffer played by both.
aci_handler_AnalogOnly == Serve(Counts("analog"))

\* Fault: an output that is not behind the other is taken for the last to finish as well.
aci_handler_NotBehind ==
  Serve(\/ Counts("analog") /\ count["analog"] >= count["digital"]
        \/ Counts("digital") /\ count["digital"] >= Counted("analog"))

\* A wait has completed when the engine that finishes a buffer was behind: analog is looked
\* at first, so digital compares with the analog count already lowered.
aci_handler ==
  Serve(\/ Counts("analog") /\ count["analog"] > count["digital"]
        \/ Counts("digital") /\ count["digital"] > Counted("analog"))

-----------------------------------------------------------------------------
\* XAudioInit has reset the engines and the counts; the first call provides buffer 0.
SndInit ==
  /\ scenario \in Scenarios
  /\ running = FALSE
  /\ queue = [e \in Engines |-> <<>>]
  /\ status = [e \in Engines |-> {}]
  /\ count = [e \in Engines |-> 0]
  /\ drained = [e \in Engines |-> FALSE]
  /\ semaphore = 0
  /\ logic_mutex = None
  /\ pc = "analog_lvi"
  /\ out = 0
  /\ loaded = 0
  /\ frame = "input"
  /\ owed = [e \in Engines |-> 0]

Interrupted == \E e \in Engines : status[e] # {}

SoundStep ==
  /\ ~Interrupted
  /\ SetLastValid \/ LoadCount \/ StoreCount \/ XAudioPlay \/ TakeToken \/ UnlockLogic \/ Fill

SoundLock == ~Interrupted /\ LockLogic

DoomStep == ~Interrupted /\ (DoomUnlock \/ DoomDraw)

DoomTurn == ~Interrupted /\ DoomLock

SndNext ==
  \/ SoundStep
  \/ SoundLock
  \/ DoomStep
  \/ DoomTurn
  \/ \E e \in Engines : BufferEnds(e)
  \/ aci_handler

\* The tasks run, the mutex is not refused for ever, the engines play and interrupt.
SndSpec ==
  /\ SndInit /\ [][SndNext]_sndvars
  /\ WF_sndvars(SoundStep) /\ SF_sndvars(SoundLock)
  /\ WF_sndvars(DoomStep) /\ SF_sndvars(DoomTurn)
  /\ \A e \in Engines : WF_sndvars(BufferEnds(e))
  /\ WF_sndvars(aci_handler)

-----------------------------------------------------------------------------
(***************************************************************************)
(* Properties                                                              *)
(***************************************************************************)

\* The types of the two tasks' and the driver's state.
SndTypeOK ==
  /\ scenario \in Scenarios
  /\ running \in BOOLEAN
  /\ \A e \in Engines : Len(queue[e]) <= 2 /\ \A i \in 1 .. Len(queue[e]) : queue[e][i] \in Buffers
  /\ status \in [Engines -> SUBSET {"done", "last"}]
  /\ count \in [Engines -> 0 .. 2]
  /\ drained \in [Engines -> BOOLEAN]
  /\ semaphore \in 0 .. 2
  /\ logic_mutex \in {None, "sound", "doom"}
  /\ pc \in Provide \cup {"play", "wait", "lock", "mix", "fill"}
  /\ out \in Buffers
  /\ loaded \in 0 .. 2
  /\ frame \in {"input", "update", "draw"}
  /\ owed \in [Engines -> Int]

\* The buffer the sound task writes is not one an engine still has to play, also after
\* underruns, as long as no buffer ends inside XAudioProvideSamples.
NoOverwrite ==
  ~scenario.amid /\ pc = "fill" => \A e \in Engines : \A i \in 1 .. Len(queue[e]) : queue[e][i] # out

\* A buffer played by both outputs has been asked for, and no other, once the interrupt is
\* served ("If a buffer was consumed by analog and digital output, we ask for a DPC").
AskedForEachBuffer ==
  (\A e \in Engines : status[e] = {}) =>
    /\ \A e \in Engines : owed[e] >= 0
    /\ \E e \in Engines : owed[e] = 0

\* As long as the engines never run dry and end no buffer inside XAudioProvideSamples, that is
\* so, and the counts are the queues' lengths.
AskedWhenTimely ==
  ~scenario.underrun /\ ~scenario.amid =>
    /\ AskedForEachBuffer
    /\ pc \notin Provide => \A e \in Engines :
         count[e] = Len(queue[e]) + (IF status[e] = {} THEN 0 ELSE 1)

\* As long as the engines never run dry, the sound goes on.
SoundGoesOn == ~scenario.underrun => []<>(pc = "fill")

=============================================================================
