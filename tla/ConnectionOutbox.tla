-------------------------- MODULE ConnectionOutbox --------------------------
(***************************************************************************)
(* The tasks, events and responses of Connection keep the promise Outbox   *)
(* makes to the client: _write_queue is the box, what was written to each  *)
(* stream is out, pause and resume block and unblock, _writer is the line. *)
(***************************************************************************)
EXTENDS Connection

Promise == INSTANCE Outbox WITH
    Message <- Entry, Line <- Session,
    box <- writeQueue, out <- wire, blocked <- paused, line <- writer

(* Every step of the connection puts, drops, writes or keeps the messages   *)
(* as an outbox may, and the message at the front of the queue leaves it    *)
(* while a session is open: the write task neither sleeps on it nor stays   *)
(* in its wait for a response (connection.py:103-163).                      *)
KeepsPromise == Promise!Spec

(* The part of it that says what a step may do.                             *)
KeepsOrder == Promise!Safety
=============================================================================
