----------------------------- MODULE MCFatxDev -----------------------------
(***************************************************************************)
(* Instances of FatxDev: a device of three sectors of two bytes, every     *)
(* position and every length on it.  Calm: writes may fail.  Rough: reads  *)
(* may fail too.  Rewrites: nothing fails, whole sectors are overwritten.  *)
(***************************************************************************)
EXTENDS FatxDev

\* A write brings one value throughout; what a buffer holds before a read does not matter.
MCRequests ==
  {r \in UNION {[write : {TRUE}, offset : Addresses, size : {n}, data : {[i \in 0 .. n - 1 |-> v] : v \in Bytes}] :
                  n \in 1 .. SectorSize * SectorCount}
         \cup UNION {[write : {FALSE}, offset : Addresses, size : {n},
                      data : {[i \in 0 .. n - 1 |-> CHOOSE v \in Bytes : TRUE]}] :
                       n \in 1 .. SectorSize * SectorCount} :
     r.offset + r.size <= SectorSize * SectorCount}

CalmScenario == [readErrors |-> FALSE, writeErrors |-> TRUE, rewrites |-> FALSE]
RoughScenario == [readErrors |-> TRUE, writeErrors |-> TRUE, rewrites |-> TRUE]
RewriteScenario == [readErrors |-> FALSE, writeErrors |-> FALSE, rewrites |-> TRUE]

PassScenarios == {CalmScenario, RoughScenario}
RewriteScenarios == {RewriteScenario}

=============================================================================
