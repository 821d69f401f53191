------------------------------- MODULE MCATA -------------------------------
(***************************************************************************)
(* An instance of ATA: two tasks whose requests have a sector in common,   *)
(* one of them with a buffer across a 64 KB boundary.  A sector is two     *)
(* bytes and 64 KB are eight; the request of nine sectors is more than the *)
(* table can take.                                                         *)
(***************************************************************************)
EXTENDS ATA, TLC

CONSTANTS t1, t2

MCRequests ==
  t1 :> {[write |-> w, lba |-> 0, count |-> 2, base |-> 6] : w \in BOOLEAN}
        \cup {[write |-> TRUE, lba |-> 0, count |-> 9, base |-> 0]}
  @@ t2 :> {[write |-> w, lba |-> 1, count |-> 1, base |-> 18] : w \in BOOLEAN}

MCScenarios ==
  {[errors |-> TRUE, timeouts |-> FALSE], [errors |-> TRUE, timeouts |-> TRUE]}

=============================================================================
