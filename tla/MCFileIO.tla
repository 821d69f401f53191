------------------------------ MODULE MCFileIO ------------------------------
(***************************************************************************)
(* Instances of FileIO.  "serial" is one task that makes every call in any *)
(* order, with volumes that may fail to mount; "shared" is two tasks that  *)
(* register volumes and use each other's, with volumes that mount.         *)
(***************************************************************************)
EXTENDS FileIO

CONSTANTS t1, t2, d1, d2, d3

MCChars == {"C", "c", "E", ":"}
MCAlnum == {"C", "c", "E"}
MCUpper == [c \in MCChars |-> IF c = "c" THEN "C" ELSE c]

Serial ==
  [registers |-> {<<t1, "C">>, <<t1, "E">>},
   unregisters |-> {<<t1, "c">>, <<t1, "E">>},
   opens |-> {<<t1, "c">>, <<t1, "E">>, <<t1, ":">>},
   quiet |-> TRUE,
   initResults |-> BOOLEAN]

Shared ==
  [registers |-> {<<t1, "C">>, <<t1, "E">>, <<t2, "C">>},
   unregisters |-> {},
   opens |-> {<<t1, "C">>, <<t2, "c">>, <<t2, "E">>},
   quiet |-> TRUE,
   initResults |-> {TRUE}]

MCSetups == {Serial, Shared}

=============================================================================
