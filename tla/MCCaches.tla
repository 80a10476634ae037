------------------------------ MODULE MCCaches ------------------------------
(***************************************************************************)
(* A small instance of Caches for TLC: two zones in the first of two areas. *)
(***************************************************************************)
EXTENDS Caches, TLC

MCAreaOf == [z \in Zone |-> 0]

(* The order is that of elk.py; the two halves have no line in common.      *)
MCElementLists == {<<"zones", "areas">>, <<"lights", "outputs">>}
=============================================================================
