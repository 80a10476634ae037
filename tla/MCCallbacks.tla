---------------------------- MODULE MCCallbacks ----------------------------
(***************************************************************************)
(* Small instances of Callbacks for TLC.                                   *)
(***************************************************************************)
EXTENDS Callbacks, TLC

CONSTANTS HandlerA, HandlerB, ObserverA, ObserverB, Low, High

MCSymmetry == Permutations({HandlerA, HandlerB}) \cup Permutations({ObserverA, ObserverB})
                  \cup Permutations({Low, High})
=============================================================================
