---------------------------- MODULE MCTrapController ----------------------------
(***************************************************************************)
(* An instance of TrapController for TLC.                                  *)
(***************************************************************************)
EXTENDS TrapController

MCDecode == [w \in 0 .. 3 |-> nop]
MCMasks == {{"MachineTimer"}}
================================================================================
