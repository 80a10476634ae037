------------------------------- MODULE Outbox -------------------------------
(***************************************************************************)
(* What a client of elkm1_lib.connection.Connection is promised about the  *)
(* messages it sends, with no task, event, timer or response in sight:     *)
(* messages wait in a box, leave it one at a time from the front, each     *)
(* onto the line that is open when it leaves, in the order of the box; a   *)
(* blocked box is empty and takes nothing; and while there is a line a     *)
(* message at the front does not wait for ever.                            *)
(***************************************************************************)
EXTENDS Integers, Sequences, SequencesExt

CONSTANTS
    Message,    \* what a client may send
    Line        \* the lines that may be opened, one after the other; not 0

VARIABLES
    box,        \* messages accepted and not yet written
    out,        \* out[l]: what was written to line l
    blocked,    \* is the box refusing messages?
    line        \* the open line, 0 when there is none

vars == <<box, out, blocked, line>>

Init ==
    /\ box = <<>>
    /\ out = [l \in Line |-> <<>>]
    /\ blocked = FALSE
    /\ line = 0

(* A message is accepted at the back of the box, or at its front when it   *)
(* has priority; a blocked box accepts nothing.                            *)
Put ==
    /\ ~blocked
    /\ box' # <<>>
    /\ Last(box') \in Message
    /\ box' = Append(box, Last(box'))
    /\ UNCHANGED <<out, blocked, line>>

PutFirst ==
    /\ ~blocked
    /\ box' # <<>>
    /\ Head(box') \in Message
    /\ box' = <<Head(box')>> \o box
    /\ UNCHANGED <<out, blocked, line>>

Block ==
    /\ box' = <<>>
    /\ blocked' = TRUE
    /\ UNCHANGED <<out, line>>

Unblock ==
    /\ blocked' = FALSE
    /\ UNCHANGED <<box, out, line>>

(* The front message leaves the box for the open line.                     *)
Write ==
    /\ box # <<>>
    /\ line # 0
    /\ out' = [out EXCEPT ![line] = Append(@, Head(box))]
    /\ box' = Tail(box)
    /\ UNCHANGED <<blocked, line>>

(* A line opens or closes. What waits in the box stays there, in order; a  *)
(* greeting for the new line may queue up behind it.                       *)
LineChange ==
    /\ line' \in Line \cup {0}
    /\ box' \in Seq(Message)
    /\ IsPrefix(box, box')
    /\ blocked => box' = box
    /\ UNCHANGED <<out, blocked>>

Next == Put \/ PutFirst \/ Block \/ Unblock \/ Write \/ LineChange

Safety == Init /\ [][Next]_vars

Spec == Safety /\ WF_vars(Write)
=============================================================================
