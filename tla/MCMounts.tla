------------------------------ MODULE MCMounts ------------------------------
(***************************************************************************)
(* Instances of Mounts.  Calm: two FAT sticks arrive at any time, also     *)
(* during boot, and stay; or one stick comes and goes between mounts after *)
(* boot, with FAT beside any disk, without it beside a disk whose E        *)
(* mounts; or a FAT stick does so during boot too, until the heap is used  *)
(* up; or sticks leave at any moment and the next is plugged in when none  *)
(* is being mounted.  Hasty: a stick without FAT arrives during boot.      *)
(***************************************************************************)
EXTENDS Mounts, TLC

CONSTANTS u1, u2, m1, m2, d1, d2, d3, d4

\* Which heap block and which mount task serve a call makes no difference.
Symmetry == Permutations(Drivers) \cup Permutations(Mounters)

MCChars == {"C", "E", "0", "1", "nul"}
MCAlnum == MCChars \ {"nul"}
MCUpper == [c \in MCChars |-> c]
MCSlotLetter == (0 :> "0") @@ (1 :> "1")

MCSetups ==
  {[registers |-> {Boot} \X {"C", "E"} \cup Mounters \X {"0", "1", "nul"},
    unregisters |-> {}, opens |-> {<<Doom, "E">>}, quiet |-> TRUE, initResults |-> BOOLEAN]}

CalmScenarios ==
  {[disk |-> {"C", "E"}, sticks |-> {u1, u2}, fat |-> {u1, u2},
    early |-> TRUE, unplug |-> "never", settled |-> FALSE]}
  \cup [disk : SUBSET {"C", "E"}, sticks : {{u1}}, fat : {{u1}},
        early : {FALSE}, unplug : {"between"}, settled : {FALSE}]
  \cup [disk : {{"E"}, {"C", "E"}}, sticks : {{u1}}, fat : {{}},
        early : {FALSE}, unplug : {"between"}, settled : {FALSE}]
  \cup [disk : {{"C", "E"}}, sticks : {{u1}}, fat : {{u1}},
        early : {TRUE}, unplug : {"between"}, settled : {FALSE}]
  \cup [disk : {{"E"}}, sticks : {{u1}}, fat : {{}},
        early : {FALSE}, unplug : {"any"}, settled : {TRUE}]
  \cup [disk : {{"E"}}, sticks : {{u1, u2}}, fat : {{u1, u2}},
        early : {FALSE}, unplug : {"any"}, settled : {TRUE}]

HastyScenarios ==
  {[disk |-> {"C", "E"}, sticks |-> {u1}, fat |-> {}, early |-> TRUE, unplug |-> "never",
    settled |-> FALSE]}

=============================================================================
