------------------------- MODULE MCSynchronization -------------------------
(***************************************************************************)
(* Small instances of Synchronization for TLC.                             *)
(***************************************************************************)
EXTENDS Synchronization, TLC

CONSTANTS Counter, User, Output, Thermostat     \* kinds of elements

(* A kind whose values are waited for, and users with a placeholder.        *)
MCOrder == <<Counter, User>>
MCDescribable == ({Counter} \X Unit) \cup {<<User, 0>>}
MCUnnamed == {<<User, 0>>}

(* A kind that asks for its state first, one whose values are not waited for. *)
MCOtherOrder == <<Output, Thermostat>>
MCOtherDescribable == {<<Output, 1>>, <<Thermostat, 0>>}
=============================================================================
