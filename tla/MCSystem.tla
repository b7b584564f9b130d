------------------------------ MODULE MCSystem ------------------------------
(***************************************************************************)
(* An instance of System for TLC.                                          *)
(***************************************************************************)
EXTENDS System

CONSTANTS t1, t2

(* The two templates are interchangeable: the Deployment starts with t1. *)
MCInit == Init /\ versions[1].template = t1

MCSpec == MCInit /\ [][Next]_vars

=============================================================================
