------------------------------ MODULE MCVerifier ------------------------------
(***************************************************************************)
(* Instances of Verifier; the programs are in MCPrograms.                  *)
(***************************************************************************)
EXTENDS Verifier, MCPrograms
===============================================================================
