--------------------------------- MODULE MCVm ---------------------------------
(***************************************************************************)
(* Instances of Vm for model checking; the programs are in MCPrograms.     *)
(***************************************************************************)
EXTENDS Vm, MCPrograms
===============================================================================
