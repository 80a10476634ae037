---------------------------- MODULE MCDiscovery ----------------------------
(***************************************************************************)
(* A small instance of Discovery for TLC: two addresses, two systems, and   *)
(* timers that are late by less than half of an interval.                  *)
(***************************************************************************)
EXTENDS Discovery
=============================================================================
