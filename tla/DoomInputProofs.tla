-------------------------- MODULE DoomInputProofs --------------------------
(***************************************************************************)
(* PureDOOM's event ring is a queue, for every length of the ring, every   *)
(* set of pads and every use of them, as long as no report comes amid      *)
(* doom_mouse_move's D_PostEvent.  The invariant says what the two indices *)
(* and the slots between them are while either task is amid a post.  On it *)
(* rests that no key is stuck: what is not held in the report that the     *)
(* coming events lead up to is released by them.                           *)
(***************************************************************************)
EXTENDS DoomInput, TLAPS

Indices == 0 .. MaxEvents - 1

-----------------------------------------------------------------------------
(***************************************************************************)
(* Indices of a ring                                                       *)
(***************************************************************************)

LEMMA Wrap ==
  ASSUME NEW x \in 0 .. 2 * MaxEvents - 1
  PROVE  x % MaxEvents = IF x < MaxEvents THEN x ELSE x - MaxEvents
BY InputAssumption

LEMMA Distance ==
  ASSUME NEW h \in Indices, NEW t \in Indices
  PROVE  (h - t) % MaxEvents = IF h >= t THEN h - t ELSE h - t + MaxEvents
BY InputAssumption DEF Indices

LEMMA SuccIndex ==
  ASSUME NEW k \in Indices
  PROVE  Succ(k) \in Indices /\ Succ(k) = IF k + 1 < MaxEvents THEN k + 1 ELSE 0
BY InputAssumption DEF Indices, Succ

\* Posting: the head is the slot behind the pending ones, and the distance grows by one.
LEMMA PostIndex ==
  ASSUME NEW h \in Indices, NEW t \in Indices, NEW n \in Nat,
         n = (h - t) % MaxEvents, n + 1 < MaxEvents
  PROVE  /\ (Succ(h) - t) % MaxEvents = n + 1
         /\ (t + n) % MaxEvents = h
         /\ \A k \in 1 .. n : (t + k - 1) % MaxEvents \in Indices \ {h}
<1>1. n = IF h >= t THEN h - t ELSE h - t + MaxEvents
  BY Distance
<1>2. /\ Succ(h) = IF h + 1 < MaxEvents THEN h + 1 ELSE 0
      /\ Succ(h) \in Indices
  BY SuccIndex
<1>3. (Succ(h) - t) % MaxEvents = IF Succ(h) >= t THEN Succ(h) - t ELSE Succ(h) - t + MaxEvents
  BY <1>2, Distance
<1>4. (Succ(h) - t) % MaxEvents = n + 1
  BY <1>1, <1>2, <1>3, InputAssumption DEF Indices
<1>5. (t + n) % MaxEvents = h
  <2>1. t + n \in 0 .. 2 * MaxEvents - 1
    BY <1>1, InputAssumption DEF Indices
  <2>2. QED
    BY <1>1, <2>1, Wrap, InputAssumption DEF Indices
<1>6. ASSUME NEW k \in 1 .. n
      PROVE  (t + k - 1) % MaxEvents \in Indices \ {h}
  <2>1. t + k - 1 \in 0 .. 2 * MaxEvents - 1
    BY <1>1, InputAssumption DEF Indices
  <2>2. (t + k - 1) % MaxEvents = IF t + k - 1 < MaxEvents THEN t + k - 1 ELSE t + k - 1 - MaxEvents
    <3> DEFINE x == t + k - 1
    <3>1. x \in 0 .. 2 * MaxEvents - 1
      BY <2>1
    <3> HIDE DEF x
    <3>2. x % MaxEvents = IF x < MaxEvents THEN x ELSE x - MaxEvents
      BY <3>1, Wrap
    <3>3. QED
      BY <2>1, <3>2, InputAssumption DEF x, Indices
  <2>3. (t + k - 1) % MaxEvents \in Indices
    BY <2>1, <2>2, InputAssumption DEF Indices
  <2>4. (t + k - 1) % MaxEvents # h
    <3>1. CASE h >= t
      BY <1>1, <2>2, <3>1, InputAssumption DEF Indices
    <3>2. CASE ~(h >= t)
      BY <1>1, <2>2, <3>2, InputAssumption DEF Indices
    <3>3. QED
      BY <3>1, <3>2
  <2>5. QED
    BY <2>3, <2>4
<1>7. QED
  BY <1>4, <1>5, <1>6

\* Processing: the distance shrinks by one, and the slots left are those behind the tail.
LEMMA ProcessIndex ==
  ASSUME NEW h \in Indices, NEW t \in Indices, h # t, NEW n \in Nat, n = (h - t) % MaxEvents
  PROVE  /\ n > 0 /\ (h - Succ(t)) % MaxEvents = n - 1
         /\ \A k \in 1 .. n - 1 : /\ (Succ(t) + k - 1) % MaxEvents = (t + k) % MaxEvents
                                  /\ (t + k) % MaxEvents \in Indices \ {t}
<1>1. n = (IF h >= t THEN h - t ELSE h - t + MaxEvents) /\ n > 0 /\ n < MaxEvents
  BY Distance, InputAssumption DEF Indices
<1>2. /\ Succ(t) = IF t + 1 < MaxEvents THEN t + 1 ELSE 0
      /\ Succ(t) \in Indices
  BY SuccIndex
<1>3. (h - Succ(t)) % MaxEvents = IF h >= Succ(t) THEN h - Succ(t) ELSE h - Succ(t) + MaxEvents
  BY <1>2, Distance
<1>4. (h - Succ(t)) % MaxEvents = n - 1
  BY <1>1, <1>2, <1>3, InputAssumption DEF Indices
<1>5. ASSUME NEW k \in 1 .. n - 1
      PROVE  /\ (Succ(t) + k - 1) % MaxEvents = (t + k) % MaxEvents
             /\ (t + k) % MaxEvents \in Indices \ {t}
  <2>1. t + k \in 0 .. 2 * MaxEvents - 1 /\ Succ(t) + k - 1 \in 0 .. 2 * MaxEvents - 1
    BY <1>1, <1>2, InputAssumption DEF Indices
  <2>2. /\ (t + k) % MaxEvents = IF t + k < MaxEvents THEN t + k ELSE t + k - MaxEvents
        /\ (Succ(t) + k - 1) % MaxEvents =
             IF Succ(t) + k - 1 < MaxEvents THEN Succ(t) + k - 1 ELSE Succ(t) + k - 1 - MaxEvents
    <3> DEFINE x == t + k
               y == Succ(t) + k - 1
    <3>1. x \in 0 .. 2 * MaxEvents - 1 /\ y \in 0 .. 2 * MaxEvents - 1
      BY <2>1
    <3> HIDE DEF x, y
    <3>2. /\ x % MaxEvents = IF x < MaxEvents THEN x ELSE x - MaxEvents
          /\ y % MaxEvents = IF y < MaxEvents THEN y ELSE y - MaxEvents
      BY <3>1, Wrap
    <3>3. QED
      BY <1>2, <2>1, <3>2, InputAssumption DEF x, y, Indices
  <2>3. (Succ(t) + k - 1) % MaxEvents = (t + k) % MaxEvents
    <3>1. CASE t + 1 < MaxEvents
      BY <1>2, <2>2, <3>1, InputAssumption DEF Indices
    <3>2. CASE ~(t + 1 < MaxEvents)
      BY <1>1, <1>2, <2>2, <3>2, InputAssumption DEF Indices
    <3>3. QED
      BY <3>1, <3>2
  <2>4. (t + k) % MaxEvents \in Indices \ {t}
    BY <1>1, <2>1, <2>2, InputAssumption DEF Indices
  <2>5. QED
    BY <2>3, <2>4
<1>6. QED
  BY <1>1, <1>4, <1>5

-----------------------------------------------------------------------------
(***************************************************************************)
(* Types                                                                   *)
(***************************************************************************)

Values == KeyEvents \cup {Mouse, Stale}

\* InputTypeOK with what the USB task has still to post, the history and the flags.
TypeInv ==
  /\ InputTypeOK
  /\ scenario \in Scenarios
  /\ out \in [events : Seq(KeyEvents), report : Reports \cup {None}]
  /\ queue \in Seq(Values)
  /\ critical \in BOOLEAN /\ raced \in BOOLEAN
  /\ pc \in {"init", "frame", "post", "update", "process"}

LEMMA Concatenated ==
  ASSUME NEW S, NEW s \in Seq(S), NEW t \in Seq(S)
  PROVE  s \o t \in Seq(S)
OBVIOUS

LEMMA FollowType ==
  ASSUME NEW was \in BOOLEAN, NEW is \in BOOLEAN, NEW k \in Keys
  PROVE  Follow(was, is, k) \in Seq(KeyEvents)
<1>1. Down(k) \in KeyEvents /\ Up(k) \in KeyEvents
  BY DEF Down, Up, KeyEvents
<1>2. QED
  BY <1>1 DEF Follow

LEMMA StickType ==
  ASSUME NEW was \in Axis, NEW is \in Axis, NEW plus \in Keys, NEW minus \in Keys
  PROVE  Stick(was, is, plus, minus) \in Seq(KeyEvents)
<1>1. \A k \in {plus, minus} : Down(k) \in KeyEvents /\ Up(k) \in KeyEvents
  BY DEF Down, Up, KeyEvents
<1>2. QED
  BY <1>1 DEF Stick, Axis

LEMMA ButtonType ==
  ASSUME NEW was \in Reports, NEW is \in Reports, NEW b, NEW k \in Keys
  PROVE  Button(was, is, b, k) \in Seq(KeyEvents)
<1>1. (b \in was.buttons) \in BOOLEAN /\ (b \in is.buttons) \in BOOLEAN
  OBVIOUS
<1> DEFINE x == b \in was.buttons
           y == b \in is.buttons
<1>2. Follow(x, y, k) \in Seq(KeyEvents)
  <2> HIDE DEF x, y
  <2>1. x \in BOOLEAN /\ y \in BOOLEAN
    BY <1>1 DEF x, y
  <2>2. QED
    BY <2>1, FollowType
<1>3. QED
  BY <1>2, Zenon DEF Button

LEMMA LeftThumbType ==
  ASSUME NEW was \in Reports, NEW is \in Reports
  PROVE  LeftThumb(was, is) \in Seq(KeyEvents)
<1>1. Down("shift") \in KeyEvents /\ Up("shift") \in KeyEvents
  BY DEF Down, Up, KeyEvents, Keys
<1>2. QED
  BY <1>1 DEF LeftThumb

\* Whatever a report brings is a sequence of key events.
LEMMA PostsType ==
  ASSUME NEW was \in Reports, NEW is \in Reports, NEW weapon \in WeaponKeys
  PROVE  Posts(was, is, weapon) \in Seq(KeyEvents)
<1>1. /\ was.rt \in BOOLEAN /\ is.rt \in BOOLEAN /\ was.lt \in BOOLEAN /\ is.lt \in BOOLEAN
      /\ was.ly \in Axis /\ is.ly \in Axis /\ was.lx \in Axis /\ is.lx \in Axis
  BY DEF Reports
<1>2. {"ctrl", "up", "down", "period", "comma", "left", "right", "shift", "enter", "escape",
       "space", "backspace", "tab", "minus", "equals", weapon} \subseteq Keys
  BY DEF Keys
<1>3. /\ Follow(was.rt, is.rt, "ctrl") \in Seq(KeyEvents)
      /\ Follow(was.lt, is.lt, "shift") \in Seq(KeyEvents)
  BY <1>1, <1>2, FollowType
<1>4. /\ Stick(was.ly, is.ly, "up", "down") \in Seq(KeyEvents)
      /\ Stick(was.lx, is.lx, "period", "comma") \in Seq(KeyEvents)
  BY <1>1, <1>2, StickType
<1>5. \A b, k : k \in Keys => Button(was, is, b, k) \in Seq(KeyEvents)
  BY ButtonType
<1>6. LeftThumb(was, is) \in Seq(KeyEvents)
  BY LeftThumbType
<1> DEFINE arrows == Follow(was.rt, is.rt, "ctrl")
                     \o Stick(was.ly, is.ly, "up", "down") \o Stick(was.lx, is.lx, "period", "comma")
                     \o Button(was, is, "dpad_up", "up") \o Button(was, is, "dpad_down", "down")
           moves == arrows \o Button(was, is, "dpad_left", "left")
                    \o Button(was, is, "dpad_right", "right")
                    \o LeftThumb(was, is) \o Follow(was.lt, is.lt, "shift")
           menus == moves \o Button(was, is, "a", "enter") \o Button(was, is, "start", "escape")
                    \o Button(was, is, "x", "space") \o Button(was, is, "b", "backspace")
           all == menus \o Button(was, is, "back", "tab") \o Button(was, is, "y", weapon)
                  \o Button(was, is, "left_shoulder", "minus")
                  \o Button(was, is, "right_shoulder", "equals")
<1>7. arrows \in Seq(KeyEvents)
  BY <1>2, <1>3, <1>4, <1>5, Concatenated
<1>8. moves \in Seq(KeyEvents)
  <2> HIDE DEF arrows
  <2>1. QED
    BY <1>2, <1>3, <1>5, <1>6, <1>7, Concatenated
<1>9. menus \in Seq(KeyEvents)
  <2> HIDE DEF moves
  <2>1. QED
    BY <1>2, <1>5, <1>8, Concatenated
<1>10. all \in Seq(KeyEvents)
  <2> HIDE DEF menus
  <2>1. QED
    BY <1>2, <1>5, <1>9, Concatenated
<1>11. Posts(was, is, weapon) = all
  BY DEF Posts
<1>12. QED
  BY <1>10, <1>11

LEMMA InitTypeInv == IInit => TypeInv
<1> SUFFICES ASSUME IInit PROVE TypeInv
  OBVIOUS
<1>1. Rest \in Reports
  BY DEF Rest, Reports, Axis
<1>2. events \in [0 .. MaxEvents - 1 -> Values] /\ {eventhead, eventtail, head} \subseteq 0 .. MaxEvents - 1
  BY InputAssumption DEF IInit, Values
<1>3. out \in [events : Seq(KeyEvents), report : Reports \cup {None}] /\ queue \in Seq(Values)
  BY DEF IInit
<1>4. QED
  BY <1>1, <1>2, <1>3, InputAssumption DEF IInit, TypeInv, InputTypeOK, Values

LEMMA PostedType ==
  ASSUME TypeInv, NEW event \in Values, Posted(event)
  PROVE  queue' \in Seq(Values)
BY DEF Posted, TypeInv

LEMMA UsbTypeInv ==
  ASSUME TypeInv
  PROVE  /\ \A p \in scenario.pads, r \in scenario.reports : Report(p, r) => TypeInv'
         /\ PostKey \/ Remember => TypeInv'
<1> USE DEF TypeInv, InputTypeOK, world, usb, ring, doom, history
<1>1. ASSUME NEW p \in scenario.pads, NEW r \in scenario.reports, Report(p, r)
      PROVE  TypeInv'
  <2>1. p \in Pads /\ r \in Reports
    BY InputAssumption
  <2>2. pads' \in [Pads -> Reports] /\ UNCHANGED <<scenario, ring, doom>>
    BY <1>1, <2>1 DEF Report
  <2>3. CASE ~doom_initd \/ r = old
    BY <1>1, <2>2, <2>3 DEF Report
  <2>4. CASE ~(~doom_initd \/ r = old)
    <3>1. PICK weapon \in NextWeapon(r) :
            /\ key' = weapon
            /\ out' = [events |-> Posts(old, r, weapon), report |-> r]
            /\ critical' = TRUE
            /\ raced' = (raced \/ pc = "post")
            /\ queue' = IF raced' THEN <<>> ELSE queue
            /\ UNCHANGED old
      BY <1>1, <2>4 DEF Report
    <3>2. weapon \in WeaponKeys
      BY DEF NextWeapon
    <3>3. Posts(old, r, weapon) \in Seq(KeyEvents)
      BY <2>1, <3>2, PostsType
    <3>4. out' \in [events : Seq(KeyEvents), report : Reports \cup {None}] /\ queue' \in Seq(Values)
      BY <2>1, <3>1, <3>3
    <3>5. QED
      BY <2>2, <3>1, <3>2, <3>4
  <2>5. QED
    BY <2>3, <2>4
<1>2. CASE PostKey
  <2>1. Head(out.events) \in KeyEvents /\ Tail(out.events) \in Seq(KeyEvents)
    BY <1>2 DEF PostKey
  <2>2. queue' \in Seq(Values)
    BY <1>2, <2>1, PostedType DEF PostKey, Values
  <2>3. eventhead' \in 0 .. MaxEvents - 1
    BY <1>2, SuccIndex DEF PostKey, Indices
  <2>4. events' \in [0 .. MaxEvents - 1 -> Values]
    BY <1>2, <2>1 DEF PostKey, Values
  <2>5. out' \in [events : Seq(KeyEvents), report : Reports \cup {None}]
    BY <1>2, <2>1 DEF PostKey
  <2>6. UNCHANGED <<scenario, pads, old, key, eventtail, head, gamekeydown, critical, raced, pc>>
    BY <1>2 DEF PostKey
  <2>7. QED
    BY <2>2, <2>3, <2>4, <2>5, <2>6 DEF Values
<1>3. CASE Remember
  BY <1>3 DEF Remember
<1>4. QED
  BY <1>1, <1>2, <1>3

LEMMA DoomTypeInv ==
  ASSUME TypeInv,
         Initialised \/ MouseMove \/ MousePosted \/ Tic \/ NoTic \/ ProcessEvent \/ TicDone
  PROVE  TypeInv'
<1> USE DEF TypeInv, InputTypeOK, world, usb, ring, doom, history, Doom
<1>1. CASE Initialised
  BY <1>1 DEF Initialised
<1>2. CASE MouseMove
  <2>1. Mouse \in Values
    BY DEF Values
  <2>2. queue' \in Seq(Values)
    BY <1>2, <2>1, PostedType DEF MouseMove
  <2>3. events' \in [0 .. MaxEvents - 1 -> Values] /\ head' \in 0 .. MaxEvents - 1
    BY <1>2, <2>1 DEF MouseMove, Values
  <2>4. QED
    BY <1>2, <2>2, <2>3 DEF MouseMove, Values
<1>3. CASE MousePosted
  <2>1. Succ(head) \in Indices /\ Succ(eventhead) \in Indices /\ 0 \in Indices
    BY SuccIndex, InputAssumption DEF Indices
  <2>2. QED
    BY <1>3, <2>1 DEF MousePosted, Indices
<1>4. CASE Tic \/ NoTic \/ TicDone
  BY <1>4 DEF Tic, NoTic, TicDone
<1>5. CASE ProcessEvent
  <2>1. Succ(eventtail) \in 0 .. MaxEvents - 1
    BY SuccIndex DEF Indices
  <2>2. events' \in [0 .. MaxEvents - 1 -> Values]
    BY <1>5 DEF ProcessEvent, Values
  <2>3. gamekeydown' \subseteq Keys
    BY <1>5 DEF ProcessEvent, Respond
  <2>4. queue' \in Seq(Values)
    BY <1>5 DEF ProcessEvent
  <2>5. QED
    BY <1>5, <2>1, <2>2, <2>3, <2>4 DEF ProcessEvent, Values
<1>6. QED
  BY <1>1, <1>2, <1>3, <1>4, <1>5

LEMMA TypeInvariant == ISpec => []TypeInv
<1>1. TypeInv /\ [INext]_ivars => TypeInv'
  <2>1. TypeInv /\ UNCHANGED ivars => TypeInv'
    BY DEF TypeInv, InputTypeOK, ivars, world, usb, ring, doom, history
  <2>2. QED
    BY <2>1, UsbTypeInv, DoomTypeInv DEF INext
<1>2. QED
  BY <1>1, InitTypeInv, PTL DEF ISpec

\* The static variables, the ring and Doom's keys keep their types, for every ring length.
THEOREM InputTypeCorrect == ISpec => []InputTypeOK
<1>1. TypeInv => InputTypeOK
  BY DEF TypeInv
<1>2. QED
  BY <1>1, TypeInvariant, PTL

-----------------------------------------------------------------------------
(***************************************************************************)
(* The ring                                                                *)
(***************************************************************************)

\* The slots from the tail on hold what is queued.
Matches == \A k \in 1 .. Len(queue) : events[(eventtail + k - 1) % MaxEvents] = queue[k]

\* The USB task has something to post in its critical section only; Doom's task is not amid a
\* post then, unless they race.  While they have not, the pending events are those queued,
\* less the one that Doom's task has written and not yet moved the head past.
RingInv ==
  /\ ~critical => out.events = <<>>
  /\ pc = "post" /\ ~raced => ~critical /\ head = eventhead
  /\ ~raced => /\ Len(queue) = Pending + (IF pc = "post" THEN 1 ELSE 0)
               /\ Len(queue) + Len(out.events) < MaxEvents
               /\ Matches

LEMMA PendingNat ==
  ASSUME TypeInv
  PROVE  /\ Pending \in Nat /\ eventhead \in Indices /\ eventtail \in Indices
         /\ MaxEvents \in Nat /\ DOMAIN events = Indices /\ Len(queue) \in Nat
<1>1. eventhead \in Indices /\ eventtail \in Indices /\ DOMAIN events = Indices
  BY DEF TypeInv, InputTypeOK, Indices
<1>2. Pending \in Nat
  BY <1>1, Distance, InputAssumption DEF Pending, Indices
<1>3. QED
  BY <1>1, <1>2, InputAssumption DEF TypeInv

LEMMA InitRingInv == IInit => RingInv
<1> SUFFICES ASSUME IInit PROVE RingInv
  OBVIOUS
<1>1. Pending = 0
  <2>1. 0 \in Indices
    BY InputAssumption DEF Indices
  <2>2. QED
    BY <2>1, Distance DEF IInit, Pending
<1>2. QED
  BY <1>1, InputAssumption DEF IInit, RingInv, Matches

\* An event written at the head of a ring with room, and queued.
LEMMA WriteMatches ==
  ASSUME TypeInv, Matches, Len(queue) = Pending, Pending + 1 < MaxEvents, NEW event \in Values,
         events' = [events EXCEPT ![eventhead] = event], queue' = Append(queue, event),
         eventtail' = eventtail
  PROVE  Matches' /\ Len(queue') = Len(queue) + 1
<1> DEFINE n == Len(queue)
<1>1. /\ n \in Nat /\ queue \in Seq(Values) /\ eventhead \in Indices /\ eventtail \in Indices
      /\ n = (eventhead - eventtail) % MaxEvents /\ n + 1 < MaxEvents
  BY PendingNat DEF Pending, TypeInv
<1>2. /\ (eventtail + n) % MaxEvents = eventhead
      /\ \A k \in 1 .. n : (eventtail + k - 1) % MaxEvents \in Indices \ {eventhead}
  BY <1>1, PostIndex
<1>3. Len(queue') = n + 1
  BY <1>1
<1>4. ASSUME NEW k \in 1 .. n + 1
      PROVE  events'[(eventtail + k - 1) % MaxEvents] = queue'[k]
  <2>1. CASE k = n + 1
    <3>1. eventtail + k - 1 = eventtail + n
      BY <1>1, <2>1 DEF Indices
    <3>2. events'[eventhead] = event
      BY <1>1, PendingNat
    <3>3. queue'[k] = event
      BY <1>1, <2>1
    <3>4. QED
      BY <1>2, <3>1, <3>2, <3>3
  <2>2. CASE k # n + 1
    <3>1. k \in 1 .. n
      BY <1>1, <2>2
    <3>2. events'[(eventtail + k - 1) % MaxEvents] = events[(eventtail + k - 1) % MaxEvents]
      BY <1>2, <3>1, PendingNat
    <3>3. queue'[k] = queue[k]
      BY <1>1, <3>1
    <3>4. QED
      BY <3>1, <3>2, <3>3 DEF Matches
  <2>3. QED
    BY <2>1, <2>2
<1>5. QED
  BY <1>3, <1>4 DEF Matches

LEMMA UsbRingInv ==
  ASSUME TypeInv, TypeInv', RingInv
  PROVE  /\ \A p \in scenario.pads, r \in scenario.reports : Report(p, r) => RingInv'
         /\ PostKey \/ Remember => RingInv'
<1>1. ASSUME NEW p \in scenario.pads, NEW r \in scenario.reports, Report(p, r)
      PROVE  RingInv'
  <2>1. UNCHANGED <<scenario, ring, doom>> /\ ~critical
    BY <1>1 DEF Report
  <2>2. CASE ~doom_initd \/ r = old
    BY <1>1, <2>1, <2>2 DEF Report, RingInv, Matches, Pending, ring, doom, usb, history
  <2>3. CASE ~(~doom_initd \/ r = old)
    <3>1. PICK weapon \in NextWeapon(r) :
            /\ Room(Len(Posts(old, r, weapon)))
            /\ out' = [events |-> Posts(old, r, weapon), report |-> r]
            /\ critical' = TRUE
            /\ raced' = (raced \/ pc = "post")
            /\ queue' = IF raced' THEN <<>> ELSE queue
      BY <1>1, <2>3 DEF Report
    <3>2. CASE raced'
      BY <3>1, <3>2 DEF RingInv
    <3>3. CASE ~raced'
      <4>0. ~raced /\ pc # "post"
        BY <3>1, <3>3, Zenon
      <4>1. ~raced /\ pc # "post" /\ queue' = queue /\ Len(queue) = Pending
        BY <3>1, <3>3, <4>0, PendingNat DEF RingInv
      <4>2. Len(queue) + Len(out'.events) < MaxEvents
        <5>1. out'.events = Posts(old, r, weapon)
          BY <3>1
        <5>2. Len(out'.events) \in Nat
          BY DEF TypeInv
        <5>3. QED
          BY <3>1, <4>1, <5>1, <5>2, PendingNat DEF Room
      <4>3. UNCHANGED <<events, eventhead, eventtail, pc>>
        BY <2>1 DEF ring, doom
      <4>4. QED
        BY <3>1, <4>1, <4>2, <4>3, PendingNat DEF RingInv, Matches, Pending
    <3>4. QED
      BY <3>2, <3>3
  <2>4. QED
    BY <2>2, <2>3
<1>2. CASE PostKey
  <2>1. /\ out.events # <<>> /\ critical
        /\ events' = [events EXCEPT ![eventhead] = Head(out.events)]
        /\ eventhead' = Succ(eventhead)
        /\ out' = [out EXCEPT !.events = Tail(@)]
        /\ UNCHANGED <<critical, eventtail, pc, head, raced>>
    BY <1>2 DEF PostKey, RingInv, doom
  <2>2. CASE raced
    BY <2>1, <2>2 DEF RingInv
  <2>3. CASE ~raced
    <3>1. pc # "post" /\ Len(queue) = Pending /\ Matches
      BY <2>1, <2>3, PendingNat DEF RingInv
    <3>2. /\ out.events \in Seq(KeyEvents) /\ out'.events = Tail(out.events)
          /\ Len(out'.events) = Len(out.events) - 1 /\ Len(out.events) \in Nat \ {0}
      BY <2>1 DEF TypeInv
    <3>4. Pending + 1 < MaxEvents
      BY <2>3, <3>1, <3>2, PendingNat DEF RingInv
    <3>5. Head(out.events) \in Values /\ queue' = Append(queue, Head(out.events))
      BY <1>2, <2>1, <2>3, <3>2 DEF PostKey, Posted, Values
    <3>6. Matches' /\ Len(queue') = Len(queue) + 1
      BY <2>1, <3>1, <3>4, <3>5, WriteMatches
    <3>7. Pending' = Pending + 1
      BY <2>1, <3>4, PendingNat, PostIndex DEF Pending
    <3>8. QED
      BY <2>1, <2>3, <3>1, <3>2, <3>6, <3>7, PendingNat DEF RingInv
  <2>4. QED
    BY <2>2, <2>3
<1>3. CASE Remember
  BY <1>3 DEF Remember, RingInv, Matches, Pending, ring, doom, history, TypeInv
<1>4. QED
  BY <1>1, <1>2, <1>3

LEMMA DoomRingInv ==
  ASSUME TypeInv, RingInv,
         Initialised \/ MouseMove \/ MousePosted \/ Tic \/ NoTic \/ ProcessEvent \/ TicDone
  PROVE  RingInv'
<1> USE DEF Doom
<1>1. CASE Initialised \/ Tic \/ NoTic \/ TicDone
  BY <1>1 DEF Initialised, Tic, NoTic, TicDone, RingInv, Matches, Pending, ring, usb, history
<1>2. CASE MouseMove
  <2>1. CASE ~doom_rightx
    BY <1>2, <2>1 DEF MouseMove, RingInv, Matches, Pending, usb
  <2>2. CASE doom_rightx
    <3>1. /\ ~critical /\ pc = "frame" /\ pc' = "post" /\ Pending + 1 < MaxEvents
          /\ head' = eventhead /\ events' = [events EXCEPT ![eventhead] = Mouse] /\ Posted(Mouse)
          /\ UNCHANGED <<critical, out, eventhead, eventtail, raced>>
      BY <1>2, <2>2 DEF MouseMove, usb
    <3>2. CASE raced
      BY <3>1, <3>2 DEF RingInv
    <3>3. CASE ~raced
      <4>1. Len(queue) = Pending /\ Matches /\ Mouse \in Values /\ queue' = Append(queue, Mouse)
        BY <3>1, <3>3, PendingNat DEF RingInv, Posted, Values
      <4>2. Matches' /\ Len(queue') = Len(queue) + 1
        BY <3>1, <4>1, WriteMatches
      <4>3. Pending' = Pending /\ Len(out'.events) = 0
        BY <3>1 DEF Pending, RingInv
      <4>4. QED
        BY <3>1, <3>3, <4>1, <4>2, <4>3, PendingNat DEF RingInv
    <3>4. QED
      BY <3>2, <3>3
  <2>3. QED
    BY <2>1, <2>2
<1>3. CASE MousePosted
  <2>1. /\ ~critical /\ pc = "post" /\ pc' = "update"
        /\ eventhead' \in {Succ(head), Succ(eventhead)}
        /\ UNCHANGED <<critical, out, events, eventtail, queue, raced>>
    BY <1>3 DEF MousePosted, usb, history
  <2>2. CASE raced
    BY <2>1, <2>2 DEF RingInv
  <2>3. CASE ~raced
    <3>1. eventhead' = Succ(eventhead) /\ Len(queue) = Pending + 1 /\ Len(queue) < MaxEvents
      BY <2>1, <2>3, PendingNat DEF RingInv
    <3>2. Pending' = Pending + 1
      BY <2>1, <3>1, PendingNat, PostIndex DEF Pending
    <3>3. QED
      BY <2>1, <2>3, <3>1, <3>2, PendingNat DEF RingInv, Matches
  <2>4. QED
    BY <2>2, <2>3
<1>4. CASE ProcessEvent
  <2>1. /\ ~critical /\ pc = "process" /\ pc' = "process" /\ eventtail # eventhead
        /\ events' = [events EXCEPT ![eventtail] = Stale]
        /\ eventtail' = Succ(eventtail)
        /\ queue' = IF queue = <<>> THEN queue ELSE Tail(queue)
        /\ UNCHANGED <<critical, out, eventhead, raced>>
    BY <1>4 DEF ProcessEvent, usb
  <2>2. CASE raced
    BY <2>1, <2>2 DEF RingInv
  <2>3. CASE ~raced
    <3> DEFINE n == Len(queue)
    <3>1. n = Pending /\ n + Len(out.events) < MaxEvents /\ Matches /\ queue \in Seq(Values)
      BY <2>1, <2>3, PendingNat DEF RingInv, TypeInv
    <3>2. /\ n > 0 /\ (eventhead - Succ(eventtail)) % MaxEvents = n - 1
          /\ \A k \in 1 .. n - 1 :
               /\ (Succ(eventtail) + k - 1) % MaxEvents = (eventtail + k) % MaxEvents
               /\ (eventtail + k) % MaxEvents \in Indices \ {eventtail}
      BY <2>1, <3>1, PendingNat, ProcessIndex DEF Pending
    <3>3. queue' = Tail(queue) /\ Len(queue') = n - 1
      BY <2>1, <3>1, <3>2
    <3>4. Pending' = n - 1
      BY <2>1, <3>2 DEF Pending
    <3>5. ASSUME NEW k \in 1 .. n - 1
          PROVE  events'[(eventtail' + k - 1) % MaxEvents] = queue'[k]
      <4>1. (eventtail' + k - 1) % MaxEvents = (eventtail + k) % MaxEvents
        BY <2>1, <3>2
      <4>2. events'[(eventtail + k) % MaxEvents] = events[(eventtail + k) % MaxEvents]
        BY <2>1, <3>2, PendingNat
      <4>3. k + 1 \in 1 .. n /\ eventtail + (k + 1) - 1 = eventtail + k
        BY <3>1, PendingNat DEF Indices
      <4>4. events[(eventtail + k) % MaxEvents] = queue[k + 1]
        BY <3>1, <4>3 DEF Matches
      <4>5. queue'[k] = queue[k + 1]
        BY <3>1, <3>2, <3>3
      <4>6. QED
        BY <4>1, <4>2, <4>4, <4>5
    <3>6. Matches'
      BY <3>3, <3>5 DEF Matches
    <3>7. Len(out.events) \in Nat
      BY DEF TypeInv
    <3>8. Len(queue') + Len(out'.events) < MaxEvents
      <4>1. out' = out /\ n \in Nat /\ MaxEvents \in Nat
        BY <2>1, PendingNat
      <4>2. n - 1 + Len(out.events) < MaxEvents
        BY <3>1, <3>7, <4>1
      <4>3. QED
        BY <3>3, <4>1, <4>2
    <3>9. Len(queue') = Pending'
      BY <3>3, <3>4
    <3>10. pc' # "post" /\ (~critical' => out'.events = <<>>)
      BY <2>1 DEF RingInv
    <3>11. n - 1 \in Nat /\ (IF pc' = "post" THEN 1 ELSE 0) = 0
      BY <3>2, <3>10, PendingNat
    <3>12. Len(queue') = Pending' + (IF pc' = "post" THEN 1 ELSE 0)
      BY <3>4, <3>9, <3>11
    <3>13. QED
      BY <3>6, <3>8, <3>10, <3>12 DEF RingInv
  <2>4. QED
    BY <2>2, <2>3
<1>5. QED
  BY <1>1, <1>2, <1>3, <1>4

LEMMA RingInvariant == ISpec => []RingInv
<1>1. TypeInv /\ TypeInv' /\ RingInv /\ [INext]_ivars => RingInv'
  <2>1. RingInv /\ UNCHANGED ivars => RingInv'
    BY DEF RingInv, Matches, Pending, ivars, world, usb, ring, doom, history
  <2>2. QED
    BY <2>1, UsbRingInv, DoomRingInv DEF INext
<1>2. QED
  BY <1>1, InitRingInv, TypeInvariant, PTL DEF ISpec

\* Between the indices is what was posted, in order, for every ring length, every set of pads
\* and everything they send, unless a report comes amid doom_mouse_move's D_PostEvent.
THEOREM RingIsQueueHolds == ISpec => []RingIsQueue
<1>1. TypeInv /\ RingInv => RingIsQueue
  BY PendingNat DEF RingInv, RingIsQueue, Matches
<1>2. QED
  BY <1>1, TypeInvariant, RingInvariant, PTL

-----------------------------------------------------------------------------
(***************************************************************************)
(* The events of a report                                                  *)
(***************************************************************************)

EventsOf(s) == {s[j] : j \in DOMAIN s}

LEMMA ConcatParts ==
  ASSUME NEW S, NEW s \in Seq(S), NEW t \in Seq(S)
  PROVE  /\ s \o t \in Seq(S) /\ Len(s \o t) = Len(s) + Len(t)
         /\ \A j \in 1 .. Len(s) : (s \o t)[j] = s[j]
         /\ \A j \in 1 .. Len(t) : (s \o t)[Len(s) + j] = t[j]
OBVIOUS

LEMMA EventsOfConcat ==
  ASSUME NEW S, NEW s \in Seq(S), NEW t \in Seq(S)
  PROVE  EventsOf(s \o t) = EventsOf(s) \cup EventsOf(t) /\ s \o t \in Seq(S)
<1> DEFINE u == s \o t
<1>1. /\ u \in Seq(S) /\ Len(u) = Len(s) + Len(t) /\ Len(s) \in Nat /\ Len(t) \in Nat
      /\ DOMAIN u = 1 .. Len(u) /\ DOMAIN s = 1 .. Len(s) /\ DOMAIN t = 1 .. Len(t)
  OBVIOUS
<1>2. /\ \A j \in 1 .. Len(s) : u[j] = s[j]
      /\ \A j \in 1 .. Len(t) : u[Len(s) + j] = t[j]
  OBVIOUS
<1>3. ASSUME NEW j \in DOMAIN u PROVE u[j] \in EventsOf(s) \cup EventsOf(t)
  <2>1. CASE j <= Len(s)
    BY <1>1, <1>2, <2>1 DEF EventsOf
  <2>2. CASE ~(j <= Len(s))
    <3>1. j - Len(s) \in 1 .. Len(t) /\ Len(s) + (j - Len(s)) = j
      BY <1>1, <2>2
    <3>2. u[j] = t[j - Len(s)]
      BY <1>2, <3>1
    <3>3. QED
      BY <1>1, <3>1, <3>2 DEF EventsOf
  <2>3. QED
    BY <2>1, <2>2
<1>4. \A j \in DOMAIN s : j \in DOMAIN u /\ u[j] = s[j]
  BY <1>1, <1>2
<1>5. \A j \in DOMAIN t : Len(s) + j \in DOMAIN u /\ u[Len(s) + j] = t[j]
  BY <1>1, <1>2
<1> HIDE DEF u
<1>6. EventsOf(s) \subseteq EventsOf(u) /\ EventsOf(t) \subseteq EventsOf(u)
  BY <1>4, <1>5 DEF EventsOf
<1>7. EventsOf(u) \subseteq EventsOf(s) \cup EventsOf(t)
  BY <1>3 DEF EventsOf
<1>8. QED
  BY <1>1, <1>6, <1>7 DEF u

LEMMA EventsOfOne ==
  ASSUME NEW e
  PROVE  EventsOf(<<e>>) = {e} /\ EventsOf(<<>>) = {}
BY DEF EventsOf

LEMMA Events ==
  /\ \A k \in Keys, l \in Keys : Down(k) # Up(l) /\ (Down(k) = Down(l) => k = l)
  /\ \A k \in Keys : Up(k).key = k
BY DEF Down, Up

\* s does not press k, and releases it if it is one of the keys that were held.
Deals(s, k, held) ==
  /\ s \in Seq(KeyEvents)
  /\ Down(k) \notin EventsOf(s)
  /\ k \in held => Up(k) \in EventsOf(s)

LEMMA DealsBoth ==
  ASSUME NEW s, NEW t, NEW k, NEW G, NEW H, Deals(s, k, G), Deals(t, k, H)
  PROVE  Deals(s \o t, k, G \cup H)
<1>1. s \in Seq(KeyEvents) /\ t \in Seq(KeyEvents)
  BY DEF Deals
<1>2. EventsOf(s \o t) = EventsOf(s) \cup EventsOf(t) /\ s \o t \in Seq(KeyEvents)
  BY <1>1, EventsOfConcat
<1>3. QED
  BY <1>2, Zenon DEF Deals

LEMMA DealsFive ==
  ASSUME NEW a, NEW b, NEW c, NEW d, NEW e, NEW k, NEW A, NEW B, NEW C, NEW D, NEW E,
         Deals(a, k, A), Deals(b, k, B), Deals(c, k, C), Deals(d, k, D), Deals(e, k, E)
  PROVE  Deals(a \o b \o c \o d \o e, k, A \cup B \cup C \cup D \cup E)
<1>1. Deals(a \o b, k, A \cup B)
  BY DealsBoth
<1>2. Deals(a \o b \o c, k, A \cup B \cup C)
  BY <1>1, DealsBoth
<1>3. Deals(a \o b \o c \o d, k, A \cup B \cup C \cup D)
  BY <1>2, DealsBoth
<1>4. QED
  BY <1>3, DealsBoth

\* A key that follows a control.
LEMMA FollowDeals ==
  ASSUME NEW was \in BOOLEAN, NEW is \in BOOLEAN, NEW k \in Keys, NEW l \in Keys, ~(is /\ k = l)
  PROVE  Deals(Follow(was, is, l), k, {x \in {l} : was})
<1>1. Follow(was, is, l) \in Seq(KeyEvents)
  BY FollowType
<1>2. CASE was = is
  BY <1>1, <1>2, EventsOfOne DEF Follow, Deals
<1>3. CASE was # is /\ is
  <2>1. EventsOf(Follow(was, is, l)) = {Down(l)} /\ ~was
    BY <1>3, EventsOfOne DEF Follow
  <2>2. QED
    BY <1>1, <1>3, <2>1, Events DEF Deals
<1>4. CASE was # is /\ ~is
  <2>1. EventsOf(Follow(was, is, l)) = {Up(l)}
    BY <1>4, EventsOfOne DEF Follow
  <2>2. QED
    BY <1>1, <2>1, Events DEF Deals
<1>5. QED
  BY <1>2, <1>3, <1>4

\* A stick that does not go from end to end.
LEMMA StickDeals ==
  ASSUME NEW was \in Axis, NEW is \in Axis, is * was # -1,
         NEW k \in Keys, NEW plus \in Keys, NEW minus \in Keys,
         ~(is = 1 /\ k = plus), ~(is = -1 /\ k = minus)
  PROVE  Deals(Stick(was, is, plus, minus), k, {x \in {plus} : was = 1} \cup {x \in {minus} : was = -1})
<1> DEFINE es == EventsOf(Stick(was, is, plus, minus))
<1>1. Stick(was, is, plus, minus) \in Seq(KeyEvents)
  BY StickType
<1>2. CASE was = is
  <2>1. es = {} /\ (was = 1 => k # plus) /\ (was = -1 => k # minus)
    BY <1>2, EventsOfOne DEF Stick
  <2>2. QED
    BY <1>1, <2>1 DEF Deals
<1>3. CASE was # is /\ is = 1
  <2>1. Stick(was, is, plus, minus) = <<Down(plus)>> /\ was = 0
    BY <1>3 DEF Stick, Axis
  <2>2. QED
    BY <1>1, <1>3, <2>1, EventsOfOne, Events DEF Deals
<1>4. CASE was # is /\ is = -1
  <2>1. Stick(was, is, plus, minus) = <<Down(minus)>> /\ was = 0
    BY <1>4 DEF Stick, Axis
  <2>2. QED
    BY <1>1, <1>4, <2>1, EventsOfOne, Events DEF Deals
<1>5. CASE was # is /\ is = 0
  <2>1. CASE was = 1
    <3>1. Stick(was, is, plus, minus) = <<Up(plus)>>
      BY <1>5, <2>1 DEF Stick
    <3>2. QED
      BY <1>1, <2>1, <3>1, EventsOfOne, Events DEF Deals
  <2>2. CASE was = -1
    <3>1. Stick(was, is, plus, minus) = <<Up(minus)>>
      BY <1>5, <2>2 DEF Stick
    <3>2. QED
      BY <1>1, <2>2, <3>1, EventsOfOne, Events DEF Deals
  <2>3. QED
    BY <1>5, <2>1, <2>2 DEF Axis
<1>6. QED
  BY <1>2, <1>3, <1>4, <1>5 DEF Axis

LEMMA ButtonDeals ==
  ASSUME NEW was \in Reports, NEW is \in Reports, NEW b, NEW k \in Keys, NEW l \in Keys,
         ~(b \in is.buttons /\ k = l)
  PROVE  Deals(Button(was, is, b, l), k, {x \in {l} : b \in was.buttons})
<1> DEFINE x == b \in was.buttons
           y == b \in is.buttons
<1>1. x \in BOOLEAN /\ y \in BOOLEAN
  OBVIOUS
<1>2. ~(y /\ k = l)
  OBVIOUS
<1>3. Deals(Follow(x, y, l), k, {z \in {l} : x})
  <2> HIDE DEF x, y
  <2>1. QED
    BY <1>1, <1>2, FollowDeals
<1>4. QED
  BY <1>3, Zenon DEF Button

\* A click of the left stick, the shoulder being let go.
LEMMA LeftThumbDeals ==
  ASSUME NEW was \in Reports, NEW is \in Reports, NEW k \in Keys,
         ~("left_thumb" \in is.buttons /\ k = "shift"),
         LeftThumb(was, is) # <<>> => "left_shoulder" \notin is.buttons
  PROVE  Deals(LeftThumb(was, is), k, {x \in {"shift"} : "left_thumb" \in was.buttons})
<1>1. "shift" \in Keys /\ LeftThumb(was, is) \in Seq(KeyEvents)
  BY LeftThumbType DEF Keys
<1>2. CASE "left_thumb" \in was.buttons <=> "left_thumb" \in is.buttons
  BY <1>1, <1>2, EventsOfOne DEF LeftThumb, Deals
<1>3. CASE ~("left_thumb" \in was.buttons <=> "left_thumb" \in is.buttons)
  <2>1. "left_shoulder" \notin is.buttons
    BY <1>3 DEF LeftThumb
  <2>2. LeftThumb(was, is) = <<Up("shift")>>
    BY <1>3, <2>1 DEF LeftThumb
  <2>3. EventsOf(LeftThumb(was, is)) = {Up("shift")}
    BY <2>2, EventsOfOne
  <2>4. QED
    BY <1>1, <2>3, Events DEF Deals
<1>4. QED
  BY <1>2, <1>3

\* KeysOf with the weapon key given, control by control in the order of Posts.
HeldKeys(r, weapon) ==
  {x \in {"ctrl"} : r.rt}
  \cup ({x \in {"up"} : r.ly = 1} \cup {x \in {"down"} : r.ly = -1})
  \cup ({x \in {"period"} : r.lx = 1} \cup {x \in {"comma"} : r.lx = -1})
  \cup {x \in {"up"} : "dpad_up" \in r.buttons} \cup {x \in {"down"} : "dpad_down" \in r.buttons}
  \cup {x \in {"left"} : "dpad_left" \in r.buttons} \cup {x \in {"right"} : "dpad_right" \in r.buttons}
  \cup {x \in {"shift"} : "left_thumb" \in r.buttons} \cup {x \in {"shift"} : r.lt}
  \cup {x \in {"enter"} : "a" \in r.buttons} \cup {x \in {"escape"} : "start" \in r.buttons}
  \cup {x \in {"space"} : "x" \in r.buttons} \cup {x \in {"backspace"} : "b" \in r.buttons}
  \cup {x \in {"tab"} : "back" \in r.buttons} \cup {x \in {weapon} : "y" \in r.buttons}
  \cup {x \in {"minus"} : "left_shoulder" \in r.buttons}
  \cup {x \in {"equals"} : "right_shoulder" \in r.buttons}

ButtonKeyWith(weapon) ==
  [dpad_up |-> "up", dpad_down |-> "down", dpad_left |-> "left", dpad_right |-> "right",
   left_thumb |-> "shift", a |-> "enter", start |-> "escape", x |-> "space", b |-> "backspace",
   back |-> "tab", y |-> weapon, left_shoulder |-> "minus", right_shoulder |-> "equals"]

LEMMA HeldByButtons ==
  ASSUME NEW r \in Reports, NEW weapon
  PROVE  HeldKeys(r, weapon) =
           {ButtonKeyWith(weapon)[b] : b \in r.buttons}
           \cup {k \in {"ctrl"} : r.rt} \cup {k \in {"shift"} : r.lt}
           \cup {k \in {"up"} : r.ly = 1} \cup {k \in {"down"} : r.ly = -1}
           \cup {k \in {"period"} : r.lx = 1} \cup {k \in {"comma"} : r.lx = -1}
<1> DEFINE f == ButtonKeyWith(weapon)
<1>1. r.buttons \subseteq Buttons
  BY DEF Reports
<1>2. /\ f["dpad_up"] = "up" /\ f["dpad_down"] = "down" /\ f["dpad_left"] = "left"
      /\ f["dpad_right"] = "right" /\ f["left_thumb"] = "shift" /\ f["a"] = "enter"
      /\ f["start"] = "escape" /\ f["x"] = "space" /\ f["b"] = "backspace" /\ f["back"] = "tab"
      /\ f["y"] = weapon /\ f["left_shoulder"] = "minus" /\ f["right_shoulder"] = "equals"
  BY DEF ButtonKeyWith
<1> HIDE DEF f
<1>3. {f[b] : b \in r.buttons} =
        {x \in {"up"} : "dpad_up" \in r.buttons} \cup {x \in {"down"} : "dpad_down" \in r.buttons}
        \cup {x \in {"left"} : "dpad_left" \in r.buttons} \cup {x \in {"right"} : "dpad_right" \in r.buttons}
        \cup {x \in {"shift"} : "left_thumb" \in r.buttons}
        \cup {x \in {"enter"} : "a" \in r.buttons} \cup {x \in {"escape"} : "start" \in r.buttons}
        \cup {x \in {"space"} : "x" \in r.buttons} \cup {x \in {"backspace"} : "b" \in r.buttons}
        \cup {x \in {"tab"} : "back" \in r.buttons} \cup {x \in {weapon} : "y" \in r.buttons}
        \cup {x \in {"minus"} : "left_shoulder" \in r.buttons}
        \cup {x \in {"equals"} : "right_shoulder" \in r.buttons}
  BY <1>1, <1>2 DEF Buttons
<1>4. QED
  BY <1>3 DEF HeldKeys, f

\* In this state and in the next.
LEMMA KeysOfHeld ==
  ASSUME NEW r \in Reports
  PROVE  KeysOf(r) = HeldKeys(r, key) /\ KeysOf(r)' = HeldKeys(r, key')
BY HeldByButtons DEF KeysOf, ButtonKey, ButtonKeyWith

\* A report that is dealt with cleanly presses no key that it does not hold, and releases the
\* keys that it holds no more.
LEMMA PostsDeals ==
  ASSUME NEW was \in Reports, NEW is \in Reports, NEW weapon \in WeaponKeys, NEW k \in Keys,
         k \notin HeldKeys(is, weapon),
         is.lx * was.lx # -1, is.ly * was.ly # -1,
         LeftThumb(was, is) # <<>> => "left_shoulder" \notin is.buttons
  PROVE  Deals(Posts(was, is, weapon), k, HeldKeys(was, weapon))
<1>1. /\ was.rt \in BOOLEAN /\ is.rt \in BOOLEAN /\ was.lt \in BOOLEAN /\ is.lt \in BOOLEAN
      /\ was.ly \in Axis /\ is.ly \in Axis /\ was.lx \in Axis /\ is.lx \in Axis
  BY DEF Reports
<1>2. {"ctrl", "up", "down", "period", "comma", "left", "right", "shift", "enter", "escape",
       "space", "backspace", "tab", "minus", "equals", weapon} \subseteq Keys
  BY DEF Keys
<1>3. /\ ~(is.rt /\ k = "ctrl") /\ ~(is.lt /\ k = "shift")
      /\ ~(is.ly = 1 /\ k = "up") /\ ~(is.ly = -1 /\ k = "down")
      /\ ~(is.lx = 1 /\ k = "period") /\ ~(is.lx = -1 /\ k = "comma")
      /\ ~("left_thumb" \in is.buttons /\ k = "shift")
  BY ZenonT(40) DEF HeldKeys
<1>4. /\ /\ ~("dpad_up" \in is.buttons /\ k = "up") /\ ~("dpad_down" \in is.buttons /\ k = "down")
         /\ ~("dpad_left" \in is.buttons /\ k = "left") /\ ~("dpad_right" \in is.buttons /\ k = "right")
         /\ ~("a" \in is.buttons /\ k = "enter") /\ ~("start" \in is.buttons /\ k = "escape")
      /\ /\ ~("x" \in is.buttons /\ k = "space") /\ ~("b" \in is.buttons /\ k = "backspace")
         /\ ~("back" \in is.buttons /\ k = "tab") /\ ~("y" \in is.buttons /\ k = weapon)
         /\ ~("left_shoulder" \in is.buttons /\ k = "minus")
         /\ ~("right_shoulder" \in is.buttons /\ k = "equals")
  BY ZenonT(60) DEF HeldKeys
<1>5. Deals(Follow(was.rt, is.rt, "ctrl"), k, {x \in {"ctrl"} : was.rt})
  BY <1>1, <1>2, <1>3, FollowDeals
<1>6. Deals(Stick(was.ly, is.ly, "up", "down"), k,
             {x \in {"up"} : was.ly = 1} \cup {x \in {"down"} : was.ly = -1})
  BY <1>1, <1>2, <1>3, StickDeals
<1>7. Deals(Stick(was.lx, is.lx, "period", "comma"), k,
             {x \in {"period"} : was.lx = 1} \cup {x \in {"comma"} : was.lx = -1})
  BY <1>1, <1>2, <1>3, StickDeals
<1>8. Deals(Button(was, is, "dpad_up", "up"), k, {x \in {"up"} : "dpad_up" \in was.buttons})
  BY <1>2, <1>4, ButtonDeals
<1>9. Deals(Button(was, is, "dpad_down", "down"), k, {x \in {"down"} : "dpad_down" \in was.buttons})
  BY <1>2, <1>4, ButtonDeals
<1>10. Deals(Button(was, is, "dpad_left", "left"), k, {x \in {"left"} : "dpad_left" \in was.buttons})
  BY <1>2, <1>4, ButtonDeals
<1>11. Deals(Button(was, is, "dpad_right", "right"), k, {x \in {"right"} : "dpad_right" \in was.buttons})
  BY <1>2, <1>4, ButtonDeals
<1>12. Deals(LeftThumb(was, is), k, {x \in {"shift"} : "left_thumb" \in was.buttons})
  BY <1>3, LeftThumbDeals
<1>13. Deals(Follow(was.lt, is.lt, "shift"), k, {x \in {"shift"} : was.lt})
  BY <1>1, <1>2, <1>3, FollowDeals
<1>14. Deals(Button(was, is, "a", "enter"), k, {x \in {"enter"} : "a" \in was.buttons})
  BY <1>2, <1>4, ButtonDeals
<1>15. Deals(Button(was, is, "start", "escape"), k, {x \in {"escape"} : "start" \in was.buttons})
  BY <1>2, <1>4, ButtonDeals
<1>16. Deals(Button(was, is, "x", "space"), k, {x \in {"space"} : "x" \in was.buttons})
  BY <1>2, <1>4, ButtonDeals
<1>17. Deals(Button(was, is, "b", "backspace"), k, {x \in {"backspace"} : "b" \in was.buttons})
  BY <1>2, <1>4, ButtonDeals
<1>18. Deals(Button(was, is, "back", "tab"), k, {x \in {"tab"} : "back" \in was.buttons})
  BY <1>2, <1>4, ButtonDeals
<1>19. Deals(Button(was, is, "y", weapon), k, {x \in {weapon} : "y" \in was.buttons})
  BY <1>2, <1>4, ButtonDeals
<1>20. Deals(Button(was, is, "left_shoulder", "minus"), k,
              {x \in {"minus"} : "left_shoulder" \in was.buttons})
  BY <1>2, <1>4, ButtonDeals
<1>21. Deals(Button(was, is, "right_shoulder", "equals"), k,
              {x \in {"equals"} : "right_shoulder" \in was.buttons})
  BY <1>2, <1>4, ButtonDeals
<1> DEFINE arrows == Follow(was.rt, is.rt, "ctrl") \o Stick(was.ly, is.ly, "up", "down")
                     \o Stick(was.lx, is.lx, "period", "comma") \o Button(was, is, "dpad_up", "up")
                     \o Button(was, is, "dpad_down", "down")
           moves == arrows \o Button(was, is, "dpad_left", "left") \o Button(was, is, "dpad_right", "right")
                    \o LeftThumb(was, is) \o Follow(was.lt, is.lt, "shift")
           menus == moves \o Button(was, is, "a", "enter") \o Button(was, is, "start", "escape")
                    \o Button(was, is, "x", "space") \o Button(was, is, "b", "backspace")
           all == menus \o Button(was, is, "back", "tab") \o Button(was, is, "y", weapon)
                  \o Button(was, is, "left_shoulder", "minus")
                  \o Button(was, is, "right_shoulder", "equals")
           arrowsHeld == {x \in {"ctrl"} : was.rt} \cup ({x \in {"up"} : was.ly = 1}
                         \cup {x \in {"down"} : was.ly = -1}) \cup ({x \in {"period"} : was.lx = 1}
                         \cup {x \in {"comma"} : was.lx = -1})
                         \cup {x \in {"up"} : "dpad_up" \in was.buttons}
                         \cup {x \in {"down"} : "dpad_down" \in was.buttons}
           movesHeld == arrowsHeld \cup {x \in {"left"} : "dpad_left" \in was.buttons}
                        \cup {x \in {"right"} : "dpad_right" \in was.buttons}
                        \cup {x \in {"shift"} : "left_thumb" \in was.buttons}
                        \cup {x \in {"shift"} : was.lt}
           menusHeld == movesHeld \cup {x \in {"enter"} : "a" \in was.buttons}
                        \cup {x \in {"escape"} : "start" \in was.buttons}
                        \cup {x \in {"space"} : "x" \in was.buttons}
                        \cup {x \in {"backspace"} : "b" \in was.buttons}
           allHeld == menusHeld \cup {x \in {"tab"} : "back" \in was.buttons}
                      \cup {x \in {weapon} : "y" \in was.buttons}
                      \cup {x \in {"minus"} : "left_shoulder" \in was.buttons}
                      \cup {x \in {"equals"} : "right_shoulder" \in was.buttons}
<1>22. Deals(arrows, k, arrowsHeld)
  BY <1>5, <1>6, <1>7, <1>8, <1>9, DealsFive
<1>23. Deals(moves, k, movesHeld)
  <2> HIDE DEF arrows, arrowsHeld
  <2>1. QED
    BY <1>10, <1>11, <1>12, <1>13, <1>22, DealsFive
<1>24. Deals(menus, k, menusHeld)
  <2> HIDE DEF moves, movesHeld
  <2>1. QED
    BY <1>14, <1>15, <1>16, <1>17, <1>23, DealsFive
<1>25. Deals(all, k, allHeld)
  <2> HIDE DEF menus, menusHeld
  <2>1. QED
    BY <1>18, <1>19, <1>20, <1>21, <1>24, DealsFive
<1>26. Posts(was, is, weapon) = all
  BY DEF Posts
<1>27. HeldKeys(was, weapon) = allHeld
  BY DEF HeldKeys
<1>28. QED
  <2> HIDE DEF all, allHeld
  <2>1. QED
    BY <1>25, <1>26, <1>27

-----------------------------------------------------------------------------
(***************************************************************************)
(* No key is stuck                                                         *)
(***************************************************************************)

\* What Doom has still to process, the events included that the USB task has still to post.
Coming == queue \o out.events

\* The report that these events lead up to.
Shown == IF out.report = None THEN old ELSE out.report

Names(s, k) == \E j \in DOMAIN s : s[j].key = k

\* The key is up when s is processed: it is up or named, and after each press it is named again.
Released(keys, s, k) ==
  /\ k \in keys => Names(s, k)
  /\ \A i \in DOMAIN s : s[i] = Down(k) => \E j \in DOMAIN s : j > i /\ s[j].key = k

KeyEventsOrMouse == KeyEvents \cup {Mouse}

\* What is not held in the report that the events lead up to will be released by them.
KeyInv ==
  /\ queue \in Seq(KeyEventsOrMouse)
  /\ critical <=> out.report # None
  /\ out.report # None => out.report = pads[last]
  /\ out.report = None => old \in {pads[last], Rest}
  /\ ~doom_initd => old = Rest /\ out.report = None
  /\ ~raced /\ ~unsteady => \A k \in Keys \ KeysOf(Shown) : Released(gamekeydown, Coming, k)

\* The first event that the USB task has still to post becomes the last of the queue.
LEMMA HeadMoved ==
  ASSUME NEW S, NEW s \in Seq(S), NEW t \in Seq(S), t # <<>>
  PROVE  Append(s, Head(t)) \o Tail(t) = s \o t
<1> DEFINE u == Append(s, Head(t))
           v == Tail(t)
<1>1. /\ Len(s) \in Nat /\ Len(t) \in Nat /\ Len(t) > 0
      /\ u \in Seq(S) /\ Len(u) = Len(s) + 1 /\ v \in Seq(S) /\ Len(v) = Len(t) - 1
      /\ \A j \in 1 .. Len(s) : u[j] = s[j]
      /\ u[Len(s) + 1] = t[1]
      /\ \A j \in 1 .. Len(t) - 1 : v[j] = t[j + 1]
  OBVIOUS
<1> HIDE DEF u, v
<1>2. /\ u \o v \in Seq(S) /\ Len(u \o v) = Len(u) + Len(v)
      /\ \A j \in 1 .. Len(u) : (u \o v)[j] = u[j]
      /\ \A j \in 1 .. Len(v) : (u \o v)[Len(u) + j] = v[j]
  <2>1. u \in Seq(S) /\ v \in Seq(S)
    BY <1>1
  <2>2. QED
    BY <2>1, ConcatParts
<1>3. ASSUME NEW j \in 1 .. Len(s) + Len(t) PROVE (u \o v)[j] = (s \o t)[j]
  <2>0. /\ s \o t \in Seq(S) /\ Len(s \o t) = Len(s) + Len(t)
        /\ \A i \in 1 .. Len(s) : (s \o t)[i] = s[i]
        /\ \A i \in 1 .. Len(t) : (s \o t)[Len(s) + i] = t[i]
    BY ConcatParts
  <2> DEFINE x == u \o v
             y == s \o t
  <2> HIDE DEF x, y
  <2>1. CASE j <= Len(s)
    BY <1>1, <1>2, <2>0, <2>1 DEF x, y
  <2>2. CASE j = Len(s) + 1
    <3>1. y[j] = t[1]
      BY <1>1, <2>0, <2>2 DEF y
    <3>2. x[j] = u[j]
      BY <1>1, <1>2, <2>2 DEF x
    <3>3. QED
      BY <1>1, <2>2, <3>1, <3>2 DEF x, y
  <2>3. CASE j > Len(s) + 1
    <3> DEFINE i == j - Len(s)
    <3>1. i \in 1 .. Len(t) /\ i - 1 \in 1 .. Len(v) /\ Len(s) + i = j /\ Len(u) + (i - 1) = j
      BY <1>1, <2>3
    <3> HIDE DEF i
    <3>2. y[j] = t[i]
      BY <2>0, <3>1 DEF y
    <3>3. x[j] = v[i - 1]
      BY <1>2, <3>1 DEF x
    <3>4. v[i - 1] = t[i]
      BY <1>1, <3>1
    <3>5. QED
      BY <3>2, <3>3, <3>4 DEF x, y
  <2>4. QED
    BY <1>1, <2>1, <2>2, <2>3
<1>4. u \o v = s \o t
  <2> DEFINE x == u \o v
             y == s \o t
  <2>1. x \in Seq(S) /\ y \in Seq(S) /\ Len(x) = Len(y) /\ \A j \in 1 .. Len(y) : x[j] = y[j]
    BY <1>1, <1>2, <1>3, ConcatParts
  <2> HIDE DEF x, y
  <2>2. x = y
    BY <2>1
  <2>3. QED
    BY <2>2 DEF x, y
<1>5. QED
  BY <1>4 DEF u, v

\* Events that do not press the key: it is released if it was, or if they name it.
LEMMA ReleasedMore ==
  ASSUME NEW S, NEW s \in Seq(S), NEW t \in Seq(S), NEW keys, NEW k, Down(k) \notin EventsOf(t),
         Released(keys, s, k) \/ Names(t, k)
  PROVE  Released(keys, s \o t, k)
<1> DEFINE u == s \o t
<1>1. /\ Len(s) \in Nat /\ Len(t) \in Nat
      /\ DOMAIN u = 1 .. Len(s) + Len(t) /\ DOMAIN s = 1 .. Len(s) /\ DOMAIN t = 1 .. Len(t)
      /\ \A j \in 1 .. Len(s) : u[j] = s[j]
      /\ \A j \in 1 .. Len(t) : u[Len(s) + j] = t[j]
  OBVIOUS
<1> HIDE DEF u
<1>2. \A i \in DOMAIN u : u[i] = Down(k) => i \in DOMAIN s
  <2> SUFFICES ASSUME NEW i \in DOMAIN u, u[i] = Down(k), ~(i <= Len(s)) PROVE FALSE
    BY <1>1
  <2>1. i - Len(s) \in 1 .. Len(t) /\ Len(s) + (i - Len(s)) = i
    BY <1>1
  <2>2. t[i - Len(s)] = Down(k)
    BY <1>1, <2>1
  <2>3. QED
    BY <1>1, <2>1, <2>2 DEF EventsOf
<1>3. CASE Names(t, k)
  <2>1. PICK j \in 1 .. Len(t) : t[j].key = k
    BY <1>1, <1>3 DEF Names
  <2>2. Len(s) + j \in DOMAIN u /\ u[Len(s) + j].key = k /\ \A i \in DOMAIN s : Len(s) + j > i
    BY <1>1, <2>1
  <2>3. QED
    BY <1>2, <2>2 DEF u, Released, Names
<1>4. CASE Released(keys, s, k)
  <2>1. k \in keys => Names(u, k)
    BY <1>1, <1>4 DEF Released, Names
  <2>2. ASSUME NEW i \in DOMAIN u, u[i] = Down(k)
        PROVE  \E j \in DOMAIN u : j > i /\ u[j].key = k
    <3>1. i \in DOMAIN s /\ s[i] = Down(k)
      BY <1>1, <1>2, <2>2
    <3>2. PICK j \in DOMAIN s : j > i /\ s[j].key = k
      BY <1>4, <3>1 DEF Released
    <3>3. QED
      BY <1>1, <3>2
  <2>3. QED
    BY <2>1, <2>2 DEF Released, u
<1>5. QED
  BY <1>3, <1>4

\* Doom processes the first event: a key that is released stays released by the others.
LEMMA ReleasedTail ==
  ASSUME NEW s \in Seq(KeyEventsOrMouse), s # <<>>, NEW k \in Keys, NEW keys, NEW after,
         \/ s[1].key \in Keys /\ s[1].down /\ after = keys \cup {s[1].key}
         \/ s[1].key \in Keys /\ ~s[1].down /\ after = keys \ {s[1].key}
         \/ (s[1] = Mouse \/ s[1].down) /\ after = keys,
         Released(keys, s, k)
  PROVE  Released(after, Tail(s), k)
<1> DEFINE u == Tail(s)
<1>1. /\ Len(s) \in Nat /\ Len(s) > 0 /\ DOMAIN s = 1 .. Len(s) /\ DOMAIN u = 1 .. Len(s) - 1
      /\ \A j \in 1 .. Len(s) - 1 : u[j] = s[j + 1]
      /\ s[1] \in KeyEventsOrMouse
  OBVIOUS
<1> HIDE DEF u
<1>2. \A j \in DOMAIN s : j > 1 /\ s[j].key = k => Names(u, k)
  <2> SUFFICES ASSUME NEW j \in DOMAIN s, j > 1, s[j].key = k PROVE Names(u, k)
    OBVIOUS
  <2>1. j - 1 \in DOMAIN u /\ u[j - 1] = s[j]
    BY <1>1
  <2>2. QED
    BY <2>1 DEF Names
<1>3. ASSUME k \in after PROVE Names(u, k)
  <2>1. CASE s[1] = Down(k)
    BY <1>1, <1>2, <2>1 DEF Released
  <2>2. CASE s[1] # Down(k)
    <3>1. Mouse.key \notin Keys
      BY InputAssumption DEF Mouse
    <3>2. s[1].down /\ s[1].key = k => s[1] = Down(k)
      <4>1. CASE s[1] = Mouse
        BY <3>1, <4>1
      <4>2. CASE s[1] \in KeyEvents
        BY <4>2 DEF KeyEvents, Down
      <4>3. QED
        BY <1>1, <4>1, <4>2 DEF KeyEventsOrMouse
    <3>3. s[1].key # k /\ k \in keys
      BY <1>3, <2>2, <3>1, <3>2
    <3>4. PICK j \in DOMAIN s : s[j].key = k
      BY <3>3 DEF Released, Names
    <3>5. QED
      BY <1>1, <1>2, <3>3, <3>4
  <2>3. QED
    BY <2>1, <2>2
<1>4. ASSUME NEW i \in DOMAIN u, u[i] = Down(k)
      PROVE  \E j \in DOMAIN u : j > i /\ u[j].key = k
  <2>1. i + 1 \in DOMAIN s /\ s[i + 1] = Down(k)
    BY <1>1, <1>4
  <2>2. PICK j \in DOMAIN s : j > i + 1 /\ s[j].key = k
    BY <2>1 DEF Released
  <2>3. j - 1 \in DOMAIN u /\ j - 1 > i /\ u[j - 1] = s[j]
    BY <1>1, <2>2
  <2>4. QED
    BY <2>2, <2>3
<1>5. QED
  BY <1>3, <1>4 DEF Released, u

LEMMA InitKeyInv == IInit => KeyInv
<1> SUFFICES ASSUME IInit PROVE KeyInv
  OBVIOUS
<1>1. queue = <<>> /\ out.events = <<>> /\ out.report = None /\ gamekeydown = {} /\ Coming = <<>>
  BY DEF IInit, Coming
<1>2. queue \in Seq(KeyEventsOrMouse)
  BY <1>1
<1>3. \A k : Released(gamekeydown, Coming, k)
  BY <1>1 DEF Released
<1>4. QED
  BY <1>1, <1>2, <1>3 DEF IInit, KeyInv

LEMMA UsbKeyInv ==
  ASSUME TypeInv, TypeInv', RingInv, KeyInv
  PROVE  /\ \A p \in scenario.pads, r \in scenario.reports : Report(p, r) => KeyInv'
         /\ PostKey \/ Remember => KeyInv'
<1>1. ASSUME NEW p \in scenario.pads, NEW r \in scenario.reports, Report(p, r)
      PROVE  KeyInv'
  <2>1. p \in Pads /\ r \in Reports /\ r # None
    BY InputAssumption DEF TypeInv
  <2>2. /\ ~critical /\ out.report = None /\ pads' = [pads EXCEPT ![p] = r] /\ last' = p
        /\ UNCHANGED <<doom_initd, pc, gamekeydown>>
    BY <1>1 DEF Report, doom
  <2>3. pads'[last'] = r
    BY <2>1, <2>2 DEF TypeInv, InputTypeOK
  <2>4. CASE ~doom_initd \/ r = old
    <3>1. UNCHANGED <<old, key, out, critical, queue, raced, unsteady>>
      BY <1>1, <2>4 DEF Report, usb, history
    <3>2. old \in {r, Rest}
      BY <2>4 DEF KeyInv
    <3>3. KeysOf(Shown)' = KeysOf(Shown) /\ Coming' = Coming
      BY <3>1 DEF Shown, Coming, KeysOf, ButtonKey
    <3>4. QED
      BY <2>2, <2>3, <3>1, <3>2, <3>3 DEF KeyInv
  <2>5. CASE ~(~doom_initd \/ r = old)
    <3>1. PICK weapon \in NextWeapon(r) :
            /\ key' = weapon
            /\ out' = [events |-> Posts(old, r, weapon), report |-> r]
            /\ critical' = TRUE
            /\ raced' = (raced \/ pc = "post")
            /\ queue' = IF raced' THEN <<>> ELSE queue
            /\ unsteady' = (unsteady \/ Unsteady(r))
            /\ UNCHANGED old
      BY <1>1, <2>5 DEF Report
    <3>2. weapon \in WeaponKeys /\ old \in Reports /\ key \in WeaponKeys
      BY DEF NextWeapon, TypeInv, InputTypeOK
    <3>3. queue' \in Seq(KeyEventsOrMouse)
      BY <3>1 DEF KeyInv
    <3>4. Shown' = r /\ KeysOf(Shown)' = HeldKeys(r, weapon)
      <4>1. Shown' = r
        BY <2>1, <3>1 DEF Shown
      <4>2. KeysOf(r)' = HeldKeys(r, key')
        BY <2>1, KeysOfHeld
      <4>3. KeysOf(Shown)' = KeysOf(r)'
        BY <4>1 DEF KeysOf, ButtonKey
      <4>4. QED
        BY <3>1, <4>1, <4>2, <4>3
    <3>5. ASSUME ~raced', ~unsteady', NEW k \in Keys \ HeldKeys(r, weapon)
          PROVE  Released(gamekeydown', Coming', k)
      <4>1. ~raced /\ ~unsteady /\ ~Unsteady(r) /\ queue' = queue
        BY <3>1, <3>5, Zenon
      <4>2. Deals(Posts(old, r, weapon), k, HeldKeys(old, weapon))
        <5>1. r.lx * old.lx # -1 /\ r.ly * old.ly # -1
          BY <4>1 DEF Unsteady
        <5>2. LeftThumb(old, r) # <<>> => "left_shoulder" \notin r.buttons
          BY <4>1 DEF Unsteady
        <5>3. QED
          BY <2>1, <3>2, <3>5, <5>1, <5>2, PostsDeals
      <4>3. HeldKeys(old, weapon) = HeldKeys(old, key) /\ HeldKeys(old, key) = KeysOf(old)
        <5>1. CASE "y" \in old.buttons
          BY <3>2, <5>1, KeysOfHeld DEF NextWeapon
        <5>2. CASE "y" \notin old.buttons
          BY <3>2, <5>2, KeysOfHeld DEF HeldKeys
        <5>3. QED
          BY <5>1, <5>2
      <4>4. Coming' = queue \o Posts(old, r, weapon) /\ Coming = queue /\ Shown = old
        <5>1. out.events = <<>> /\ queue \in Seq(Values)
          BY <2>2 DEF RingInv, TypeInv
        <5>2. out'.events = Posts(old, r, weapon)
          BY <3>1
        <5>3. QED
          BY <2>2, <4>1, <5>1, <5>2 DEF Coming, Shown
      <4>5. Released(gamekeydown, queue, k) \/ Names(Posts(old, r, weapon), k)
        <5>1. CASE k \in KeysOf(old)
          <6>1. Up(k) \in EventsOf(Posts(old, r, weapon)) /\ Up(k).key = k
            BY <3>5, <4>2, <4>3, <5>1, Events DEF Deals
          <6>2. QED
            BY <6>1 DEF EventsOf, Names
        <5>2. CASE k \notin KeysOf(old)
          BY <3>5, <4>1, <4>4, <5>2 DEF KeyInv
        <5>3. QED
          BY <5>1, <5>2
      <4>6. /\ queue \in Seq(KeyEventsOrMouse) /\ Posts(old, r, weapon) \in Seq(KeyEventsOrMouse)
            /\ Down(k) \notin EventsOf(Posts(old, r, weapon))
        BY <4>2 DEF Deals, KeyInv, KeyEventsOrMouse
      <4>7. QED
        BY <2>2, <4>4, <4>5, <4>6, ReleasedMore
    <3>6. QED
      BY <2>1, <2>2, <2>3, <2>5, <3>1, <3>3, <3>4, <3>5 DEF KeyInv
  <2>6. QED
    BY <2>4, <2>5
<1>2. CASE PostKey
  <2>1. /\ out.events # <<>> /\ out' = [out EXCEPT !.events = Tail(@)] /\ Posted(Head(out.events))
        /\ UNCHANGED <<old, key, critical, pads, last, doom_initd, gamekeydown, raced, unsteady>>
    BY <1>2 DEF PostKey, world, doom
  <2>2. /\ out.events \in Seq(KeyEvents) /\ out'.events = Tail(out.events) /\ out'.report = out.report
        /\ Head(out.events) \in KeyEvents /\ queue \in Seq(KeyEventsOrMouse)
    BY <2>1 DEF TypeInv, KeyInv
  <2>3. queue' \in Seq(KeyEventsOrMouse)
    BY <2>1, <2>2 DEF Posted, KeyEventsOrMouse
  <2>4. KeysOf(Shown)' = KeysOf(Shown)
    BY <2>1, <2>2 DEF Shown, KeysOf, ButtonKey
  <2>5. ~raced => Coming' = Coming
    <3> DEFINE e == out.events
    <3>1. ~raced => queue' = Append(queue, Head(e)) /\ Coming' = queue' \o Tail(e)
      BY <2>1, <2>2 DEF Posted, Coming
    <3>2. e \in Seq(KeyEventsOrMouse) /\ e # <<>>
      BY <2>1, <2>2 DEF KeyEventsOrMouse
    <3> HIDE DEF e
    <3>3. Append(queue, Head(e)) \o Tail(e) = queue \o e
      BY <2>2, <3>2, HeadMoved
    <3>4. QED
      BY <3>1, <3>3 DEF Coming, e
  <2>6. QED
    BY <2>1, <2>2, <2>3, <2>4, <2>5 DEF KeyInv
<1>3. CASE Remember
  <2>1. /\ out.report # None /\ out.events = <<>> /\ old' = out.report /\ critical' = FALSE
        /\ out' = [out EXCEPT !.report = None]
        /\ UNCHANGED <<pads, last, key, doom_initd, gamekeydown, queue, raced, unsteady>>
    BY <1>3 DEF Remember, world, doom, history
  <2>2. out'.report = None /\ out'.events = out.events
    BY <2>1 DEF TypeInv
  <2>3. Shown' = Shown /\ Coming' = Coming
    BY <2>1, <2>2 DEF Shown, Coming
  <2>4. KeysOf(Shown)' = KeysOf(Shown)
    BY <2>1, <2>3 DEF KeysOf, ButtonKey
  <2>5. QED
    BY <2>1, <2>2, <2>3, <2>4 DEF KeyInv
<1>4. QED
  BY <1>1, <1>2, <1>3

LEMMA DoomKeyInv ==
  ASSUME TypeInv, RingInv, KeyInv,
         Initialised \/ MouseMove \/ MousePosted \/ Tic \/ NoTic \/ ProcessEvent \/ TicDone
  PROVE  KeyInv'
<1> USE DEF Doom
<1>1. CASE Initialised \/ MousePosted \/ Tic \/ NoTic \/ TicDone
  <2>1. UNCHANGED <<pads, last, old, key, critical, out, gamekeydown, queue, raced, unsteady>>
    BY <1>1 DEF Initialised, MousePosted, Tic, NoTic, TicDone, world, usb, history
  <2>2. doom_initd' \/ doom_initd' = doom_initd
    BY <1>1 DEF Initialised, MousePosted, Tic, NoTic, TicDone
  <2>3. KeysOf(Shown)' = KeysOf(Shown) /\ Coming' = Coming
    BY <2>1 DEF Shown, Coming, KeysOf, ButtonKey
  <2>4. QED
    BY <2>1, <2>2, <2>3 DEF KeyInv
<1>2. CASE MouseMove
  <2>1. /\ ~critical
        /\ UNCHANGED <<pads, last, old, key, critical, out, doom_initd, gamekeydown, raced, unsteady>>
    BY <1>2 DEF MouseMove, world, usb
  <2>2. out.events = <<>>
    BY <2>1 DEF RingInv
  <2>3. CASE UNCHANGED queue
    <3>1. KeysOf(Shown)' = KeysOf(Shown) /\ Coming' = Coming
      BY <2>1, <2>3 DEF Shown, Coming, KeysOf, ButtonKey
    <3>2. QED
      BY <2>1, <2>3, <3>1 DEF KeyInv
  <2>4. CASE Posted(Mouse)
    <3>1. queue' \in Seq(KeyEventsOrMouse)
      BY <2>4 DEF Posted, KeyInv, KeyEventsOrMouse
    <3>2. KeysOf(Shown)' = KeysOf(Shown)
      BY <2>1 DEF Shown, KeysOf, ButtonKey
    <3>3. ASSUME ~raced, ~unsteady, NEW k \in Keys \ KeysOf(Shown)
          PROVE  Released(gamekeydown, Coming', k)
      <4>1. Released(gamekeydown, queue, k) /\ queue \in Seq(KeyEventsOrMouse)
        BY <2>2, <3>3 DEF KeyInv, Coming
      <4>2. Coming' = queue \o <<Mouse>> /\ <<Mouse>> \in Seq(KeyEventsOrMouse)
        BY <2>1, <2>2, <2>4, <3>3, <4>1 DEF Coming, Posted, KeyEventsOrMouse
      <4>3. Down(k) \notin EventsOf(<<Mouse>>)
        BY EventsOfOne DEF Down, Mouse
      <4>4. QED
        BY <4>1, <4>2, <4>3, ReleasedMore
    <3>4. QED
      BY <2>1, <3>1, <3>2, <3>3 DEF KeyInv
  <2>5. QED
    BY <1>2, <2>3, <2>4 DEF MouseMove
<1>3. CASE ProcessEvent
  <2>1. /\ ~critical /\ pc = "process" /\ eventtail # eventhead /\ Respond(events[eventtail])
        /\ queue' = IF queue = <<>> THEN queue ELSE Tail(queue)
        /\ UNCHANGED <<pads, last, old, key, critical, out, doom_initd, raced, unsteady>>
    BY <1>3 DEF ProcessEvent, world, usb
  <2>2. out.events = <<>> /\ queue \in Seq(KeyEventsOrMouse)
    BY <2>1 DEF RingInv, KeyInv
  <2>3. queue' \in Seq(KeyEventsOrMouse)
    BY <2>1, <2>2
  <2>4. KeysOf(Shown)' = KeysOf(Shown) /\ Coming = queue /\ Coming' = queue'
    BY <2>1, <2>2, <2>3 DEF Shown, Coming, KeysOf, ButtonKey
  <2>5. ASSUME ~raced, ~unsteady, NEW k \in Keys \ KeysOf(Shown)
        PROVE  Released(gamekeydown', queue', k)
    <3>1. Len(queue) = Pending /\ Matches
      BY <2>1, <2>5, PendingNat DEF RingInv
    <3>2. Len(queue) > 0
      BY <2>1, <3>1, PendingNat, ProcessIndex DEF Pending
    <3>3. queue # <<>> /\ queue' = Tail(queue) /\ 1 \in 1 .. Len(queue)
      BY <2>1, <2>2, <3>2
    <3>4. eventtail + 1 - 1 = eventtail /\ eventtail % MaxEvents = eventtail
      BY PendingNat, InputAssumption DEF Indices
    <3>5. events[eventtail] = queue[1]
      BY <3>1, <3>3, <3>4 DEF Matches
    <3>6. queue[1] \in KeyEventsOrMouse
      BY <2>2, <3>3
    <3>7. queue[1] # Stale
      BY <3>6, InputAssumption DEF KeyEventsOrMouse, KeyEvents, Mouse, Stale
    <3>8. \/ queue[1].key \in Keys /\ queue[1].down /\ gamekeydown' = gamekeydown \cup {queue[1].key}
          \/ queue[1].key \in Keys /\ ~queue[1].down /\ gamekeydown' = gamekeydown \ {queue[1].key}
          \/ (queue[1] = Mouse \/ queue[1].down) /\ gamekeydown' = gamekeydown
      BY <2>1, <3>5, <3>7 DEF Respond
    <3>9. Released(gamekeydown, queue, k)
      BY <2>4, <2>5 DEF KeyInv
    <3>10. QED
      BY <2>2, <2>5, <3>3, <3>8, <3>9, ReleasedTail
  <2>6. QED
    BY <2>1, <2>3, <2>4, <2>5 DEF KeyInv
<1>4. QED
  BY <1>1, <1>2, <1>3

\* When Doom has caught up, no key is stuck, for every set of pads, every use of them and every
\* length of the ring: what is not held by the last report has been released by the events that
\* led up to it.
THEOREM NoKeyStuckHolds == ISpec => []NoKeyStuck
<1>1. TypeInv /\ TypeInv' /\ RingInv /\ KeyInv /\ [INext]_ivars => KeyInv'
  <2>1. KeyInv /\ UNCHANGED ivars => KeyInv'
    BY DEF KeyInv, Shown, Coming, KeysOf, ButtonKey, ivars, world, usb, ring, doom, history
  <2>2. QED
    BY <2>1, UsbKeyInv, DoomKeyInv DEF INext
<1>2. TypeInv /\ RingInv /\ KeyInv => NoKeyStuck
  <2> SUFFICES ASSUME TypeInv, RingInv, KeyInv, ~raced, ~unsteady, out.report = None, queue = <<>>,
                      NEW k \in gamekeydown
               PROVE  k \in KeysOf(pads[last])
    BY DEF NoKeyStuck
  <2>1. Coming = <<>> /\ Shown = old /\ k \in Keys
    BY DEF KeyInv, RingInv, Coming, Shown, TypeInv, InputTypeOK
  <2>2. k \in KeysOf(old)
    BY <2>1 DEF KeyInv, Released, Names
  <2>3. KeysOf(Rest) = {}
    BY DEF KeysOf, Rest
  <2>4. QED
    BY <2>2, <2>3 DEF KeyInv
<1>3. QED
  BY <1>1, <1>2, InitKeyInv, TypeInvariant, RingInvariant, PTL DEF ISpec

=============================================================================
