----------------------------- MODULE MCVerifiedVm -----------------------------
(***************************************************************************)
(* Instances of VerifiedVm; the programs are in MCPrograms.                *)
(***************************************************************************)
EXTENDS VerifiedVm, MCPrograms
===============================================================================
