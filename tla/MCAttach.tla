------------------------------ MODULE MCAttach ------------------------------
(* Constants of Attach for TLC, and its mutants.                           *)
EXTENDS Attach, TLC
=============================================================================
