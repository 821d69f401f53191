------------------------------ MODULE MCSound ------------------------------
(***************************************************************************)
(* Instances of Sound: engines that may run dry, or never do, while no     *)
(* buffer ends inside XAudioProvideSamples; engines that run dry.  Nothing *)
(* needs a bound: two buffers, two tokens and two engines are what the     *)
(* code has.                                                               *)
(***************************************************************************)
EXTENDS Sound

Undisturbed == [underrun : BOOLEAN, amid : {FALSE}, haltBits : BOOLEAN]
Underruns == [underrun : {TRUE}, amid : {FALSE}, haltBits : BOOLEAN]

=============================================================================
