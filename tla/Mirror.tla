------------------------------- MODULE Mirror -------------------------------
(***************************************************************************)
(* What the elements of elkm1_lib promise of the states they hold: each is  *)
(* one that the panel was in, and none is followed by an earlier one. How   *)
(* far the client lags behind is not said.                                 *)
(***************************************************************************)
EXTENDS Naturals

CONSTANT Fact           \* what the panel has a state of

VARIABLES
    truth,      \* how often the state of each fact has changed
    view        \* which of these states the client holds, 0 for none

vars == <<truth, view>>

Init ==
    /\ truth \in [Fact -> Nat]
    /\ view = [f \in Fact |-> 0]

(* The panel changes.                                                      *)
Change ==
    /\ truth' \in [Fact -> Nat]
    /\ \A f \in Fact : truth'[f] >= truth[f]
    /\ UNCHANGED view

(* The client learns of some changes.                                      *)
Learn ==
    /\ view' \in [Fact -> Nat]
    /\ \A f \in Fact : view[f] <= view'[f] /\ view'[f] <= truth[f]
    /\ UNCHANGED truth

Next == Change \/ Learn

Spec == Init /\ [][Next]_vars
=============================================================================
