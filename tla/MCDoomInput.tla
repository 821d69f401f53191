---------------------------- MODULE MCDoomInput ----------------------------
(***************************************************************************)
(* An instance of DoomInput: a ring of four events and, in each scenario,   *)
(* two or three controls that share a key or a state.                      *)
(***************************************************************************)
EXTENDS DoomInput

CONSTANTS p1, p2

Pressed(bs) == {[Rest EXCEPT !.buttons = s] : s \in SUBSET bs}

MCScenarios ==
  \* turning with the right stick, walking with the left one
  {[pads |-> {p1}, stick |-> TRUE, reports |-> {[Rest EXCEPT !.ly = y] : y \in Axis}],
   \* the left stick and the D-pad, both on the arrow keys
   [pads |-> {p1}, stick |-> FALSE,
    reports |-> {[Rest EXCEPT !.ly = y, !.buttons = s] : y \in Axis, s \in SUBSET {"dpad_up"}}],
   \* the run key: trigger, stick and shoulder
   [pads |-> {p1}, stick |-> FALSE,
    reports |-> {[r EXCEPT !.lt = h] : r \in Pressed({"left_thumb", "left_shoulder"}), h \in BOOLEAN}],
   \* two pads, weapons
   [pads |-> {p1, p2}, stick |-> FALSE, reports |-> Pressed({"a", "y"})]}

=============================================================================
