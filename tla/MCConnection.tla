---------------------------- MODULE MCConnection ----------------------------
(***************************************************************************)
(* Small instances of Connection for TLC.                                  *)
(***************************************************************************)
EXTENDS ConnectionOutbox, TLC

CONSTANTS VN, SD    \* two response commands

(* A password sent raw, then a request: what a session begins with.        *)
MCGreeting == <<NoCmd, VN>>
MCRequest == <<VN>>
EveryHabit == Habit
=============================================================================
