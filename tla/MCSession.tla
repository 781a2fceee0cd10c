----------------------------- MODULE MCSession ------------------------------
(* Constants of Session for TLC.                                           *)
EXTENDS Session, TLC
=============================================================================
