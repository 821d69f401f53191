------------------------------ MODULE MCSMBus ------------------------------
(***************************************************************************)
(* An instance of SMBus: two tasks that poke a device, read and write its  *)
(* registers as bytes and as blocks, and call an address where nobody is.  *)
(***************************************************************************)
EXTENDS SMBus

CONSTANTS t1, t2

MCCalls ==
  {[address |-> a, command |-> "r", len |-> 1, read |-> TRUE, value |-> None] : a \in {"smc", "gone"}}
  \cup {[address |-> "smc", command |-> "r", len |-> 0, read |-> FALSE, value |-> None],
        [address |-> "smc", command |-> "r", len |-> 1, read |-> FALSE, value |-> "x"],
        [address |-> "rom", command |-> "r", len |-> 4, read |-> TRUE, value |-> None],
        [address |-> "rom", command |-> "r", len |-> 4, read |-> FALSE, value |-> "y"]}

=============================================================================
