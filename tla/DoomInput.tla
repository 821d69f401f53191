----------------------------- MODULE DoomInput -----------------------------
(***************************************************************************)
(* The game pads' way into Doom: doom_input.c makes key events of what has *)
(* changed since the report before, in the USB host task; PureDOOM's event *)
(* ring, a plain array with two indices, takes them to Doom's task, which  *)
(* also posts the movement of the right stick itself.  The model is about  *)
(* Doom in a level, where key releases reach G_Responder (a menu eats key  *)
(* presses only); the sticks and triggers are given as dooom_new_input     *)
(* digitises them.                                                         *)
(***************************************************************************)
EXTENDS Integers, Sequences, FiniteSets

CONSTANTS
  Pads,
  MaxEvents,  \* MAXEVENTS
  WeaponKeys, \* the number keys of the weapons
  Scenarios,  \* which pads and controls are used
  None

DOOM_KEY_1 == "1"

VARIABLES
  scenario,
  pads,         \* what is held on each pad
  last,         \* the pad whose report came last
  doom_initd,
  doom_rightx,  \* is the right stick out of its dead zone
  old,          \* old_buttons, old_lt, old_rt, old_lx, old_ly
  key,          \* the weapon key that was pressed last
  critical,     \* the USB task is between vPortEnterCritical and vPortExitCritical
  out,          \* what it has still to post there, and the report it came from
  events, eventhead, eventtail,
  pc, head,     \* where Doom's task is, and the index it has read in D_PostEvent
  gamekeydown,  \* the keys Doom takes to be down
  queue,        \* what was posted and not yet processed
  raced,        \* a report came while Doom's task was in D_PostEvent
  unsteady      \* a stick has gone from end to end, or the left one was clicked with the shoulder held

world == <<scenario, pads, last>>
usb == <<old, key, out, critical>>
ring == <<events, eventhead, eventtail>>
doom == <<doom_initd, pc, head, gamekeydown>>
history == <<queue, raced, unsteady>>
ivars == <<world, doom_rightx, usb, ring, doom, history>>

Keys == {"ctrl", "up", "down", "period", "comma", "left", "right", "shift", "enter", "escape",
         "space", "backspace", "tab", "minus", "equals"} \cup WeaponKeys
Axis == {-1, 0, 1}
Buttons == {"dpad_up", "dpad_down", "dpad_left", "dpad_right", "left_thumb", "a", "start", "x",
            "b", "back", "y", "left_shoulder", "right_shoulder"}
Reports == [buttons : SUBSET Buttons, lt : BOOLEAN, rt : BOOLEAN, lx : Axis, ly : Axis]
Rest == [buttons |-> {}, lt |-> FALSE, rt |-> FALSE, lx |-> 0, ly |-> 0]

ASSUME InputAssumption ==
  /\ MaxEvents \in Nat /\ MaxEvents > 1
  /\ DOOM_KEY_1 \in WeaponKeys
  /\ None \notin Keys /\ None \notin Reports
  /\ \A s \in Scenarios : /\ s.pads # {} /\ s.pads \subseteq Pads
                          /\ s.reports # {} /\ s.reports \subseteq Reports
                          /\ s.stick \in BOOLEAN

KeyEvents == [key : Keys, down : BOOLEAN]
Mouse == [key |-> None, down |-> FALSE]

\* What a slot holds after it was processed is left open.
Stale == [key |-> None, down |-> TRUE]

Succ(k) == (k + 1) % MaxEvents

-----------------------------------------------------------------------------
(***************************************************************************)
(* dooom_new_input: the keys of the controls                               *)
(***************************************************************************)

Down(k) == [key |-> k, down |-> TRUE]
Up(k) == [key |-> k, down |-> FALSE]

\* A key that follows a control.
Follow(was, is, k) == IF was = is THEN <<>> ELSE IF is THEN <<Down(k)>> ELSE <<Up(k)>>

\* Fault: coming back from the lower end is not seen.
Stick_NoMinus(was, is, plus, minus) ==
  CASE was = is -> <<>>
    [] was # is /\ is = 1 -> <<Down(plus)>>
    [] was # is /\ is = -1 -> <<Down(minus)>>
    [] was # is /\ is = 0 -> <<Up(plus)>>

\* The two keys of a stick's axis; from end to end, the one it leaves is not released.
Stick(was, is, plus, minus) ==
  CASE was = is -> <<>>
    [] was # is /\ is = 1 -> <<Down(plus)>>
    [] was # is /\ is = -1 -> <<Down(minus)>>
    [] was # is /\ is = 0 -> <<Up(IF was = 1 THEN plus ELSE minus)>>

Button(was, is, b, k) == Follow(b \in was.buttons, b \in is.buttons, k)

\* A click of the left stick presses the run key if the shoulder is held, and releases it if not.
LeftThumb(was, is) ==
  IF "left_thumb" \in was.buttons <=> "left_thumb" \in is.buttons THEN <<>>
  ELSE IF "left_shoulder" \in is.buttons THEN <<Down("shift")>> ELSE <<Up("shift")>>

\* The events of a report, in the order of the code; weapon is the key that Y presses.
Posts(was, is, weapon) ==
  Follow(was.rt, is.rt, "ctrl")
  \o Stick(was.ly, is.ly, "up", "down") \o Stick(was.lx, is.lx, "period", "comma")
  \o Button(was, is, "dpad_up", "up") \o Button(was, is, "dpad_down", "down")
  \o Button(was, is, "dpad_left", "left") \o Button(was, is, "dpad_right", "right")
  \o LeftThumb(was, is) \o Follow(was.lt, is.lt, "shift")
  \o Button(was, is, "a", "enter") \o Button(was, is, "start", "escape")
  \o Button(was, is, "x", "space") \o Button(was, is, "b", "backspace")
  \o Button(was, is, "back", "tab") \o Button(was, is, "y", weapon)
  \o Button(was, is, "left_shoulder", "minus") \o Button(was, is, "right_shoulder", "equals")

\* The events in the ring.
Pending == (eventhead - eventtail) % MaxEvents

\* The ring has room for n events more, and one of Doom's own.
Room(n) == Pending + n + (IF scenario.stick THEN 1 ELSE 0) < MaxEvents

\* After a race there is nothing to compare the ring with.
Posted(event) == queue' = IF raced THEN <<>> ELSE Append(queue, event)

\* The next weapon the player has, when Y goes down.
NextWeapon(r) ==
  IF "y" \in r.buttons \ old.buttons THEN WeaponKeys ELSE {key}

\* Reports that are not dealt with cleanly: see unsteady.
Unsteady(r) ==
  \/ r.lx * old.lx = -1 \/ r.ly * old.ly = -1
  \/ LeftThumb(old, r) # <<>> /\ "left_shoulder" \in r.buttons

\* Fault: the critical section is missing.
Report_NotCritical(p, r) ==
  /\ ~critical /\ out.report = None
  /\ pads' = [pads EXCEPT ![p] = r]
  /\ last' = p
  /\ \E x \in IF doom_initd /\ scenario.stick THEN BOOLEAN ELSE {doom_rightx} : doom_rightx' = x
  /\ IF ~doom_initd \/ r = old THEN UNCHANGED <<usb, history>>
     ELSE \E weapon \in NextWeapon(r) :
            /\ Room(Len(Posts(old, r, weapon)))
            /\ key' = weapon
            /\ out' = [events |-> Posts(old, r, weapon), report |-> r]
            /\ raced' = (raced \/ pc = "post")
            /\ queue' = IF raced' THEN <<>> ELSE queue
            /\ unsteady' = (unsteady \/ Unsteady(r))
            /\ UNCHANGED <<critical, old>>
  /\ UNCHANGED <<scenario, ring, doom>>

\* tuh_xinput_report_received_cb and dooom_new_input up to vPortEnterCritical.  The ring is
\* large enough for what people do with a pad in a tic.
Report(p, r) ==
  /\ ~critical /\ out.report = None
  /\ pads' = [pads EXCEPT ![p] = r]
  /\ last' = p
  /\ \E x \in IF doom_initd /\ scenario.stick THEN BOOLEAN ELSE {doom_rightx} : doom_rightx' = x
  /\ IF ~doom_initd \/ r = old THEN UNCHANGED <<usb, history>>
     ELSE \E weapon \in NextWeapon(r) :
            /\ Room(Len(Posts(old, r, weapon)))
            /\ key' = weapon
            /\ out' = [events |-> Posts(old, r, weapon), report |-> r]
            /\ critical' = TRUE
            /\ raced' = (raced \/ pc = "post")
            /\ queue' = IF raced' THEN <<>> ELSE queue
            /\ unsteady' = (unsteady \/ Unsteady(r))
            /\ UNCHANGED old
  /\ UNCHANGED <<scenario, ring, doom>>

\* doom_key_down, doom_key_up: D_PostEvent in the USB task.
PostKey ==
  /\ out.events # <<>>
  /\ events' = [events EXCEPT ![eventhead] = Head(out.events)]
  /\ eventhead' = Succ(eventhead)
  /\ Posted(Head(out.events))
  /\ out' = [out EXCEPT !.events = Tail(@)]
  /\ UNCHANGED <<world, doom_rightx, old, key, critical, eventtail, doom, raced, unsteady>>

\* Fault: the report is not remembered.
Remember_Nothing ==
  /\ out.report # None /\ out.events = <<>>
  /\ out' = [out EXCEPT !.report = None]
  /\ critical' = FALSE
  /\ UNCHANGED <<world, doom_rightx, old, key, ring, doom, history>>

\* The report becomes the old one, and vPortExitCritical.
Remember ==
  /\ out.report # None /\ out.events = <<>>
  /\ old' = out.report
  /\ out' = [out EXCEPT !.report = None]
  /\ critical' = FALSE
  /\ UNCHANGED <<world, doom_rightx, key, ring, doom, history>>

-----------------------------------------------------------------------------
(***************************************************************************)
(* Doom's task: doom_entry, doom_mouse_move, D_ProcessEvents               *)
(***************************************************************************)

\* Doom's task runs where pc is, outside the USB task's critical section.
Doom(from, to) == ~critical /\ pc = from /\ pc' = to

Initialised ==
  /\ Doom("init", "frame")
  /\ doom_initd' = TRUE
  /\ UNCHANGED <<world, doom_rightx, usb, ring, head, gamekeydown, history>>

\* doom_mouse_move posts a movement, if there is one, without a critical section.
MouseMove ==
  /\ IF doom_rightx
     THEN /\ Doom("frame", "post")
          /\ Pending + 1 < MaxEvents
          /\ head' = eventhead
          /\ events' = [events EXCEPT ![eventhead] = Mouse]
          /\ Posted(Mouse)
     ELSE Doom("frame", "update") /\ UNCHANGED <<head, events, queue>>
  /\ UNCHANGED <<world, doom_rightx, usb, eventhead, eventtail, doom_initd, gamekeydown, raced, unsteady>>

\* Fault: the index runs past the end of the ring.
MousePosted_NoMask ==
  /\ Doom("post", "update")
  /\ eventhead' = head + 1
  /\ head' = 0
  /\ UNCHANGED <<world, doom_rightx, usb, events, eventtail, doom_initd, gamekeydown, history>>

\* The index is moved on, from where it was read first or from where it is now.
MousePosted ==
  /\ Doom("post", "update")
  /\ eventhead' \in {Succ(head), Succ(eventhead)}
  /\ head' = 0
  /\ UNCHANGED <<world, doom_rightx, usb, events, eventtail, doom_initd, gamekeydown, history>>

\* doom_update runs the tics that have passed; there may be none.
Tic ==
  /\ Doom("update", "process")
  /\ UNCHANGED <<world, doom_rightx, usb, ring, doom_initd, head, gamekeydown, history>>

NoTic ==
  /\ Doom("update", "frame")
  /\ Room(1)
  /\ UNCHANGED <<world, doom_rightx, usb, ring, doom_initd, head, gamekeydown, history>>

\* G_Responder: a press counts unless another responder has eaten it.
Respond(event) ==
  \/ event.key \in Keys /\ event.down /\ gamekeydown' = gamekeydown \cup {event.key}
  \/ event.key \in Keys /\ ~event.down /\ gamekeydown' = gamekeydown \ {event.key}
  \/ (event = Mouse \/ event.down) /\ UNCHANGED gamekeydown
  \/ event = Stale /\ gamekeydown' \in {gamekeydown, Keys}

ProcessEvent ==
  /\ Doom("process", "process")
  /\ eventtail # eventhead
  /\ Respond(events[eventtail])
  /\ events' = [events EXCEPT ![eventtail] = Stale]
  /\ eventtail' = Succ(eventtail)
  /\ queue' = IF queue = <<>> THEN queue ELSE Tail(queue)
  /\ UNCHANGED <<world, doom_rightx, usb, eventhead, doom_initd, head, raced, unsteady>>

TicDone ==
  /\ Doom("process", "frame")
  /\ eventtail = eventhead
  /\ UNCHANGED <<world, doom_rightx, usb, ring, doom_initd, head, gamekeydown, history>>

-----------------------------------------------------------------------------
IInit ==
  /\ scenario \in Scenarios
  /\ pads = [p \in Pads |-> Rest]
  /\ last \in scenario.pads
  /\ doom_initd = FALSE /\ doom_rightx = FALSE
  /\ old = Rest
  /\ key = DOOM_KEY_1
  /\ critical = FALSE
  /\ out = [events |-> <<>>, report |-> None]
  /\ events = [k \in 0 .. MaxEvents - 1 |-> Stale]
  /\ eventhead = 0 /\ eventtail = 0
  /\ pc = "init" /\ head = 0
  /\ gamekeydown = {}
  /\ queue = <<>> /\ raced = FALSE /\ unsteady = FALSE

INext ==
  \/ \E p \in scenario.pads, r \in scenario.reports : Report(p, r)
  \/ PostKey \/ Remember
  \/ Initialised \/ MouseMove \/ MousePosted \/ Tic \/ NoTic \/ ProcessEvent \/ TicDone

\* The tasks run, and tics pass.
ISpec ==
  /\ IInit /\ [][INext]_ivars
  /\ WF_ivars(PostKey) /\ WF_ivars(Remember)
  /\ WF_ivars(Initialised \/ MouseMove \/ MousePosted \/ ProcessEvent \/ TicDone)
  /\ SF_ivars(Tic)

-----------------------------------------------------------------------------
(***************************************************************************)
(* Properties                                                              *)
(***************************************************************************)

\* The types of the static variables, the ring's indices and Doom's keys.
InputTypeOK ==
  /\ old \in Reports /\ pads \in [Pads -> Reports]
  /\ key \in WeaponKeys
  /\ events \in [0 .. MaxEvents - 1 -> KeyEvents \cup {Mouse, Stale}]
  /\ {eventhead, eventtail, head} \subseteq 0 .. MaxEvents - 1
  /\ gamekeydown \subseteq Keys

\* What is between the indices is what the two tasks have posted, in order: no event is lost,
\* changed or made up, unless a report comes in the middle of doom_mouse_move's D_PostEvent,
\* which has no critical section ("Send all the events ... down the responder chain").
RingIsQueue ==
  ~raced /\ pc # "post" =>
    /\ Pending = Len(queue)
    /\ \A k \in 1 .. Len(queue) : events[(eventtail + k - 1) % MaxEvents] = queue[k]

\* The keys that controls held on a pad stand for.
ButtonKey ==
  [dpad_up |-> "up", dpad_down |-> "down", dpad_left |-> "left", dpad_right |-> "right",
   left_thumb |-> "shift", a |-> "enter", start |-> "escape", x |-> "space", b |-> "backspace",
   back |-> "tab", y |-> key, left_shoulder |-> "minus", right_shoulder |-> "equals"]

KeysOf(r) ==
  {ButtonKey[b] : b \in r.buttons}
  \cup {k \in {"ctrl"} : r.rt} \cup {k \in {"shift"} : r.lt}
  \cup {k \in {"up"} : r.ly = 1} \cup {k \in {"down"} : r.ly = -1}
  \cup {k \in {"period"} : r.lx = 1} \cup {k \in {"comma"} : r.lx = -1}

\* When Doom has caught up, every key it takes to be down is held on the pad that has sent the
\* last report: none is stuck, with one pad or two, through keys that two controls share.
NoKeyStuck ==
  ~raced /\ ~unsteady /\ out.report = None /\ queue = <<>> => gamekeydown \subseteq KeysOf(pads[last])

\* When the pads are let go, Doom's keys all come up in the end.
RestReleases ==
  <>[](pads[last] = Rest /\ ~raced /\ ~unsteady) => <>[](gamekeydown = {})

=============================================================================
