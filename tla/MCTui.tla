------------------------------- MODULE MCTui --------------------------------
EXTENDS Tui

CONSTANTS p, x

(* A project with one domain.                                              *)
OneProject == <<[project |-> p, domain |-> None], [project |-> p, domain |-> x]>>
=============================================================================
