------------------------------ MODULE MCServer ------------------------------
(* Constants of Server for TLC.                                            *)
EXTENDS Server
=============================================================================
