-------------------------- MODULE ConnectionProofs --------------------------
(***************************************************************************)
(* What holds of Connection for every client, panel and bound, and that it  *)
(* implements the safety part of Outbox.                                    *)
(***************************************************************************)
EXTENDS ConnectionOutbox, TLAPS

(* A reader that keeps the loop still has lines in hand.                    *)
ReaderHasLines == \A s \in Session : running = <<"read", s>> => batch > 0

TypeInv == TypeOK /\ ReaderHasLines

LEMMA GreetingType ==
    ASSUME NEW s \in Session PROVE GreetingOf(s) \in Seq(Entry)
  <1>1. Greeting \in Seq(Cmd \cup {NoCmd}) /\ MaxSession \in Nat
    BY ConnectionAssumption
  <1>2. Len(Greeting) \in Nat
    BY <1>1
  <1>3. \A i \in 1..Len(Greeting) :
            [session |-> s, n |-> i, resp |-> Greeting[i]] \in Entry
    BY <1>1 DEF Entry, Session
  <1> QED
    BY <1>2, <1>3 DEF GreetingOf

LEMMA SendType ==
    ASSUME TypeOK, NEW es \in Seq(Entry), NEW front \in BOOLEAN,
           NEW pcs \in [Session -> WriteState], Send(es, front, pcs)
    PROVE  /\ writeQueue' \in Seq(Entry)
           /\ checkWriteQueue' \in BOOLEAN
           /\ writePc' \in [Session -> WriteState]
  <1>1. CASE ~Takes(es)
    BY <1>1 DEF Send, TypeOK, queueVars
  <1>2. CASE Takes(es)
    <2>1. writeQueue \in Seq(Entry)
      BY DEF TypeOK
    <2>2. writeQueue' = IF front THEN es \o writeQueue ELSE writeQueue \o es
      BY <1>2 DEF Send
    <2>3. writeQueue' \in Seq(Entry)
      BY <2>1, <2>2
    <2>4. checkWriteQueue' = TRUE /\ writePc' = WakeWriters(pcs)
      BY <1>2 DEF Send
    <2>5. WakeWriters(pcs) \in [Session -> WriteState]
      BY DEF WakeWriters, Wake, WriteState
    <2> QED
      BY <2>3, <2>4, <2>5
  <1> QED
    BY <1>1, <1>2

LEMMA ClientSendType ==
    ASSUME TypeOK, NEW front \in BOOLEAN,
           NEW pcs \in [Session -> WriteState], ClientSend(front, pcs)
    PROVE  /\ writeQueue' \in Seq(Entry)
           /\ checkWriteQueue' \in BOOLEAN
           /\ writePc' \in [Session -> WriteState]
           /\ sent' \in 0..MaxSend
  <1>1. PICK c \in Cmd \cup {NoCmd} :
            Send(<<[session |-> 0, n |-> sent + 1, resp |-> c]>>, front, pcs)
    BY DEF ClientSend
  <1>2. [session |-> 0, n |-> sent + 1, resp |-> c] \in Entry
    BY ConnectionAssumption DEF Entry, TypeOK
  <1>3. sent' \in 0..MaxSend
    BY ConnectionAssumption DEF ClientSend, TypeOK
  <1>4. <<[session |-> 0, n |-> sent + 1, resp |-> c]>> \in Seq(Entry)
    BY <1>2
  <1>5. /\ writeQueue' \in Seq(Entry)
        /\ checkWriteQueue' \in BOOLEAN
        /\ writePc' \in [Session -> WriteState]
    BY <1>1, <1>4, SendType
  <1> QED
    BY <1>3, <1>5

LEMMA DisconnectType ==
    ASSUME TypeOK, NEW me, NEW pcs \in [Session -> WriteState],
           NEW hbs \in [Session -> HeartbeatState], Disconnect(me, pcs, hbs)
    PROVE  /\ writer' \in 0..MaxSession
           /\ tasks' \subseteq Task
           /\ writePc' \in [Session -> WriteState]
           /\ readPc' \in [Session -> {"none", "reading", "done"}]
           /\ heartbeatPc' \in [Session -> HeartbeatState]
           /\ link' \in [Session -> {"none", "up", "eof", "dead", "closed"}]
           /\ balance' \in Int
           /\ unanswered' \subseteq Entry
  BY ConnectionAssumption DEF Disconnect, Cancel, TypeOK, WriteState, HeartbeatState

LEMMA ConnectsType ==
    ASSUME TypeOK
    PROVE  /\ NewConnect \in Nat
           /\ [connects EXCEPT !["new"] = @ + NewConnect] \in [ConnectState -> Nat]
           /\ Reconnecting \in [ConnectState -> Nat]
  BY DEF TypeOK, NewConnect, Reconnecting, ConnectState

(* The part of the state a handler of a notification may change.            *)
HandlerType ==
    /\ paused \in BOOLEAN /\ writeQueue \in Seq(Entry) /\ checkWriteQueue \in BOOLEAN
    /\ writer \in 0..MaxSession /\ tasks \subseteq Task
    /\ writePc \in [Session -> WriteState]
    /\ readPc \in [Session -> {"none", "reading", "done"}]
    /\ heartbeatPc \in [Session -> HeartbeatState]
    /\ link \in [Session -> {"none", "up", "eof", "dead", "closed"}]
    /\ balance \in Int
    /\ connects \in [ConnectState -> Nat]
    /\ sent \in 0..MaxSend /\ called \in 0..MaxCall /\ wanted \in BOOLEAN

LEMMA ClientDisconnectType ==
    ASSUME TypeOK, NEW me, NEW pcs \in [Session -> WriteState], ClientDisconnect(me, pcs)
    PROVE  HandlerType' /\ unanswered' \subseteq Entry
  <1>1. heartbeatPc \in [Session -> HeartbeatState]
    BY DEF TypeOK
  <1>2. Disconnect(me, pcs, heartbeatPc)
    BY DEF ClientDisconnect
  <1>3. called' \in 0..MaxCall
    BY ConnectionAssumption DEF ClientDisconnect, TypeOK
  <1>4. connects' \in [ConnectState -> Nat] /\ wanted' \in BOOLEAN
    BY ConnectsType DEF ClientDisconnect
  <1>5. /\ writer' \in 0..MaxSession
        /\ tasks' \subseteq Task
        /\ writePc' \in [Session -> WriteState]
        /\ readPc' \in [Session -> {"none", "reading", "done"}]
        /\ heartbeatPc' \in [Session -> HeartbeatState]
        /\ link' \in [Session -> {"none", "up", "eof", "dead", "closed"}]
        /\ balance' \in Int
        /\ unanswered' \subseteq Entry
    BY <1>1, <1>2, DisconnectType
  <1> QED
    BY <1>3, <1>4, <1>5 DEF ClientDisconnect, TypeOK, queueVars, HandlerType

LEMMA QuietType ==
    ASSUME TypeOK, NEW pcs \in [Session -> WriteState], Quiet(pcs)
    PROVE  HandlerType'
  BY DEF Quiet, TypeOK, HandlerType, queueVars, sessionVars, clientVars

LEMMA ReplyType ==
    ASSUME TypeOK, NEW front \in BOOLEAN, NEW pcs \in [Session -> WriteState],
           Reply(front, pcs)
    PROVE  HandlerType'
  BY ClientSendType DEF Reply, TypeOK, HandlerType, sessionVars

LEMMA RemoteProgrammingType ==
    ASSUME TypeOK, NEW c, NEW pcs \in [Session -> WriteState],
           ReportRemoteProgramming(c, pcs)
    PROVE  HandlerType'
  <1>1. writeQueue' \in Seq(Entry) /\ checkWriteQueue' \in BOOLEAN /\ paused' \in BOOLEAN
    <2>1. CASE Pause
      BY <2>1 DEF Pause, TypeOK
    <2>2. CASE Resume
      BY <2>2 DEF Resume, TypeOK, queueVars
    <2> QED
      BY <2>1, <2>2 DEF ReportRemoteProgramming
  <1>2. writePc' \in [Session -> WriteState]
    BY DEF ReportRemoteProgramming
  <1> QED
    BY <1>1, <1>2 DEF ReportRemoteProgramming, TypeOK, HandlerType, sessionVars, clientVars

(* Every step keeps the types.                                              *)
LEMMA TypeStep == TypeInv /\ [Next]_vars => TypeInv'
  <1> SUFFICES ASSUME TypeInv, [Next]_vars PROVE TypeInv'
    OBVIOUS
  <1> USE ConnectionAssumption DEF TypeInv
  <1>1. CASE AppConnect
    BY <1>1 DEF AppConnect, TypeOK, ReaderHasLines, queueVars, responseVars, ConnectState
  <1>2. ASSUME NEW where \in ConnectState, TestWriter(where) PROVE TypeInv'
    BY <1>2 DEF TestWriter, TypeOK, ReaderHasLines, queueVars, responseVars, clientVars,
                ConnectState
  <1>3. CASE OpenFail
    <2>0. connects["opening"] \in Nat /\ connects["opening"] - 1 \in Nat
      BY <1>3 DEF OpenFail, TypeOK, ConnectState
    <2>1. connects' \in [ConnectState -> Nat]
      <3>1. connects \in [ConnectState -> Nat] /\ connects["sleeping"] + 1 \in Nat
        BY DEF TypeOK, ConnectState
      <3>2. connects' = [connects EXCEPT !["opening"] = connects["opening"] - 1,
                                         !["sleeping"] = connects["sleeping"] + 1]
        BY <1>3 DEF OpenFail
      <3> QED
        BY <2>0, <3>1, <3>2
    <2> QED
      BY <1>3, <2>1 DEF OpenFail, TypeOK, ReaderHasLines, queueVars, responseVars, clientVars
  <1>4. ASSUME NEW s \in Session, OpenOk(s) PROVE TypeInv'
    <2>1. [writePc EXCEPT ![s] = "top"] \in [Session -> WriteState]
      BY DEF TypeOK, WriteState
    <2>2. /\ writeQueue' \in Seq(Entry) /\ checkWriteQueue' \in BOOLEAN
          /\ writePc' \in [Session -> WriteState]
      BY <1>4, <2>1, GreetingType, SendType DEF OpenOk, Started
    <2>3. StartedTasks(s) \subseteq Task
      BY DEF StartedTasks, Task
    <2>4. /\ writer' \in 0..MaxSession /\ tasks' \subseteq Task
          /\ opened' \in 0..MaxSession
          /\ readPc' \in [Session -> {"none", "reading", "done"}]
          /\ heartbeatPc' \in [Session -> HeartbeatState]
          /\ link' \in [Session -> {"none", "up", "eof", "dead", "closed"}]
      BY <1>4, <2>3 DEF OpenOk, Started, TypeOK, HeartbeatState, Session
    <2>5. connects' \in [ConnectState -> Nat] /\ balance' \in Int
      BY <1>4 DEF OpenOk, CanOpen, TypeOK, ConnectState
    <2> QED
      BY <1>4, <2>2, <2>4, <2>5 DEF OpenOk, TypeOK, ReaderHasLines, responseVars, clientVars
  <1>5. ASSUME NEW s \in Session, OpenAndDrop(s) PROVE TypeInv'
    <2> DEFINE pcs == Cancel("write", [writePc EXCEPT ![s] = "done"], Idle)
    <2>1. pcs \in [Session -> WriteState]
      BY DEF Cancel, TypeOK, WriteState
    <2>2. Send(GreetingOf(s), FALSE, pcs)
      BY <1>5 DEF OpenAndDrop
    <2> HIDE DEF pcs
    <2>3. /\ writeQueue' \in Seq(Entry) /\ checkWriteQueue' \in BOOLEAN
          /\ writePc' \in [Session -> WriteState]
      BY <2>1, <2>2, GreetingType, SendType
    <2>4. /\ writer' \in 0..MaxSession /\ tasks' \subseteq Task
          /\ opened' \in 0..MaxSession /\ called' \in 0..MaxCall
          /\ readPc' \in [Session -> {"none", "reading", "done"}]
          /\ heartbeatPc' \in [Session -> HeartbeatState]
          /\ link' \in [Session -> {"none", "up", "eof", "dead", "closed"}]
      BY <1>5 DEF OpenAndDrop, Cancel, TypeOK, HeartbeatState, Session
    <2>5. connects' \in [ConnectState -> Nat] /\ wanted' \in BOOLEAN
      BY <1>5, ConnectsType DEF OpenAndDrop
    <2> QED
      BY <1>5, <2>3, <2>4, <2>5 DEF OpenAndDrop, TypeOK, ReaderHasLines, responseVars
  <1>6. CASE AppSend
    <2>1. HandlerType'
      BY <1>6, ReplyType DEF AppSend, TypeOK
    <2> QED
      BY <1>6, <2>1 DEF AppSend, HandlerType, TypeOK, ReaderHasLines, responseVars
  <1>7. CASE AppDisconnect
    <2>1. HandlerType' /\ unanswered' \subseteq Entry
      BY <1>7, ClientDisconnectType DEF AppDisconnect, TypeOK
    <2> QED
      BY <1>7, <2>1 DEF AppDisconnect, HandlerType, TypeOK, ReaderHasLines, responseVars
  <1>8. ASSUME NEW s \in Session, ReadData(s) PROVE TypeInv'
    <2>1. PICK n \in 0..MaxBatch :
            batch' = n /\ running' = IF n = 0 THEN Idle ELSE <<"read", s>>
      BY <1>8 DEF ReadData
    <2>2. batch' \in Nat /\ running' \in {Idle} \cup ({"read", "write"} \X Session)
      BY <2>1
    <2>3. ReaderHasLines'
      BY <2>1 DEF ReaderHasLines, Idle
    <2>4. heartbeatPc' \in [Session -> HeartbeatState]
      BY <1>8 DEF ReadData, WakeHeartbeats, Wake, TypeOK, HeartbeatState
    <2> QED
      BY <1>8, <2>2, <2>3, <2>4 DEF ReadData, TypeOK, queueVars, responseVars, clientVars
  <1>9. ASSUME NEW s \in Session, HandleLine(s) PROVE TypeInv'
    <2>1. PICK c \in Cmd \cup {NoCmd} : \E matches \in BOOLEAN :
            LET pcs == IF matches THEN WakeAwaiting(writePc) ELSE writePc
            IN  /\ responseReceived' = (responseReceived \/ matches)
                /\ \/ /\ \/ Quiet(pcs)
                         \/ \E front \in BOOLEAN : Reply(front, pcs)
                         \/ ReportRemoteProgramming(c, pcs)
                      /\ unanswered' \subseteq unanswered
                   \/ ClientDisconnect(<<"read", s>>, pcs)
      BY <1>9 DEF HandleLine
    <2>2. PICK matches \in BOOLEAN :
            LET pcs == IF matches THEN WakeAwaiting(writePc) ELSE writePc
            IN  /\ responseReceived' = (responseReceived \/ matches)
                /\ \/ /\ \/ Quiet(pcs)
                         \/ \E front \in BOOLEAN : Reply(front, pcs)
                         \/ ReportRemoteProgramming(c, pcs)
                      /\ unanswered' \subseteq unanswered
                   \/ ClientDisconnect(<<"read", s>>, pcs)
      BY <2>1
    <2> DEFINE pcs == IF matches THEN WakeAwaiting(writePc) ELSE writePc
    <2>3. pcs \in [Session -> WriteState]
      BY DEF WakeAwaiting, Wake, TypeOK, WriteState
    <2>4. \/ /\ \/ Quiet(pcs)
                \/ \E front \in BOOLEAN : Reply(front, pcs)
                \/ ReportRemoteProgramming(c, pcs)
             /\ unanswered' \subseteq unanswered
          \/ ClientDisconnect(<<"read", s>>, pcs)
      BY <2>2
    <2> HIDE DEF pcs
    <2>5. HandlerType' /\ unanswered' \subseteq Entry
      BY <2>3, <2>4, QuietType, ReplyType, RemoteProgrammingType, ClientDisconnectType
         DEF TypeOK
    <2>6. responseReceived' \in BOOLEAN
      BY <2>2 DEF TypeOK
    <2>7. batch' \in Nat /\ running' \in {Idle} \cup ({"read", "write"} \X Session)
      BY <1>9 DEF HandleLine, TypeOK, ReaderHasLines
    <2>8. ReaderHasLines'
      BY <1>9 DEF HandleLine, TypeOK, ReaderHasLines, Idle
    <2> QED
      BY <1>9, <2>5, <2>6, <2>7, <2>8 DEF HandleLine, HandlerType, TypeOK
  <1>10. ASSUME NEW s \in Session, ReadEnd(s) PROVE TypeInv'
    BY <1>10 DEF ReadEnd, TypeOK, ReaderHasLines, queueVars, responseVars, clientVars
  <1>11. ASSUME NEW s \in Session, WriterPark(s) PROVE TypeInv'
    BY <1>11 DEF WriterPark, TypeOK, ReaderHasLines, Idle, WriteState, queueVars,
                 responseVars, sessionVars, clientVars
  <1>12. ASSUME NEW s \in Session, WriterExit(s) PROVE TypeInv'
    BY <1>12 DEF WriterExit, TypeOK, ReaderHasLines, Idle, WriteState, queueVars,
                 responseVars, sessionVars, clientVars
  <1>13. ASSUME NEW s \in Session, WriterSend(s) PROVE TypeInv'
    <2> DEFINE e == Head(writeQueue)
               waits == e.resp # NoCmd /\ ~responseReceived
    <2>0. writeQueue \in Seq(Entry) /\ writeQueue # <<>> /\ writeQueue' = Tail(writeQueue)
      BY <1>13 DEF WriterSend, TypeOK
    <2>1. e \in Entry /\ writeQueue' \in Seq(Entry)
      BY <2>0
    <2>1a. e.resp \in Cmd \cup {NoCmd}
      BY <2>1 DEF Entry
    <2>2. writer \in Session
      BY <1>13 DEF WriterSend, TypeOK, Session
    <2>3. /\ qEntry' = [qEntry EXCEPT ![s] = e]
          /\ wire' = [wire EXCEPT ![writer] = Append(@, e)]
          /\ awaitingResponse' = IF waits THEN e.resp
                                 ELSE IF e.resp = NoCmd THEN awaitingResponse ELSE NoCmd
          /\ responseReceived' = (responseReceived /\ e.resp = NoCmd)
          /\ writePc' = [writePc EXCEPT ![s] = IF waits THEN "awaiting" ELSE "top"]
          /\ running' = IF waits THEN Idle ELSE <<"write", s>>
          /\ unanswered' = unanswered \cup (IF e.resp = NoCmd THEN {} ELSE {e})
          /\ checkWriteQueue' = FALSE
          /\ UNCHANGED <<paused, sessionVars, batch, opened, clientVars>>
      BY <1>13 DEF WriterSend
    <2> HIDE DEF e, waits
    <2>4. /\ qEntry' \in [Session -> Entry] /\ wire' \in [Session -> Seq(Entry)]
          /\ writePc' \in [Session -> WriteState]
      BY <2>1, <2>2, <2>3 DEF TypeOK, WriteState
    <2>5. /\ awaitingResponse' \in Cmd \cup {NoCmd} /\ responseReceived' \in BOOLEAN
          /\ unanswered' \subseteq Entry /\ checkWriteQueue' \in BOOLEAN
      BY <2>1, <2>1a, <2>3 DEF TypeOK
    <2>6. running' \in {Idle} \cup ({"read", "write"} \X Session) /\ ReaderHasLines'
      BY <2>3 DEF ReaderHasLines, Idle
    <2> QED
      BY <2>1, <2>3, <2>4, <2>5, <2>6 DEF TypeOK, sessionVars, clientVars
  <1>14. ASSUME NEW s \in Session, ResponseSeen(s) PROVE TypeInv'
    <2>1. [writePc EXCEPT ![s] = "top"] \in [Session -> WriteState]
      BY DEF TypeOK, WriteState
    <2>2. HandlerType'
      BY <1>14, <2>1, QuietType DEF ResponseSeen, TypeOK
    <2> QED
      BY <1>14, <2>2 DEF ResponseSeen, Settled, HandlerType, TypeOK, ReaderHasLines,
                         Idle
  <1>15. ASSUME NEW s \in Session, ResponseTimer(s) PROVE TypeInv'
    BY <1>15 DEF ResponseTimer, TypeOK, ReaderHasLines, WriteState, queueVars,
                 responseVars, sessionVars, clientVars
  <1>16. ASSUME NEW s \in Session, ResponseTimeout(s) PROVE TypeInv'
    <2> DEFINE pcs == [writePc EXCEPT ![s] = "top"]
    <2>1. pcs \in [Session -> WriteState]
      BY DEF TypeOK, WriteState
    <2>2. \/ (Quiet(pcs) \/ Reply(FALSE, pcs)) /\ unanswered' \subseteq unanswered
          \/ ClientDisconnect(<<"write", s>>, pcs)
      BY <1>16 DEF ResponseTimeout
    <2> HIDE DEF pcs
    <2>3. HandlerType' /\ unanswered' \subseteq Entry
      BY <2>1, <2>2, QuietType, ReplyType, ClientDisconnectType DEF TypeOK
    <2> QED
      BY <1>16, <2>3 DEF ResponseTimeout, Settled, HandlerType, TypeOK, ReaderHasLines,
                         Idle
  <1>17. ASSUME NEW s \in Session, HeartbeatRun(s) \/ HeartbeatTimer(s) \/ HeartbeatIgnored(s)
         PROVE  TypeInv'
    BY <1>17 DEF HeartbeatRun, HeartbeatTimer, HeartbeatIgnored, TypeOK, ReaderHasLines,
                 HeartbeatState, queueVars, responseVars, clientVars
  <1>18. ASSUME NEW s \in Session, HeartbeatLost(s) PROVE TypeInv'
    <2> DEFINE hbs == [heartbeatPc EXCEPT ![s] = "done"]
    <2>1. hbs \in [Session -> HeartbeatState] /\ writePc \in [Session -> WriteState]
      BY DEF TypeOK, HeartbeatState
    <2>2. Disconnect(<<"heartbeat", s>>, writePc, hbs)
      BY <1>18 DEF HeartbeatLost
    <2> HIDE DEF hbs
    <2>3. /\ writer' \in 0..MaxSession
          /\ tasks' \subseteq Task
          /\ writePc' \in [Session -> WriteState]
          /\ readPc' \in [Session -> {"none", "reading", "done"}]
          /\ heartbeatPc' \in [Session -> HeartbeatState]
          /\ link' \in [Session -> {"none", "up", "eof", "dead", "closed"}]
          /\ balance' \in Int
          /\ unanswered' \subseteq Entry
      BY <2>1, <2>2, DisconnectType
    <2>4. connects' \in [ConnectState -> Nat] /\ wanted' \in BOOLEAN
      BY <1>18, ConnectsType DEF HeartbeatLost, TypeOK
    <2> QED
      BY <1>18, <2>3, <2>4 DEF HeartbeatLost, TypeOK, ReaderHasLines, queueVars, responseVars
  <1>19. ASSUME NEW s \in Session, LinkLost(s) PROVE TypeInv'
    BY <1>19 DEF LinkLost, TypeOK, ReaderHasLines, queueVars, responseVars, clientVars
  <1>20. CASE UNCHANGED vars
    BY <1>20 DEF vars, TypeOK, ReaderHasLines
  <1> QED
    BY <1>1, <1>2, <1>3, <1>4, <1>5, <1>6, <1>7, <1>8, <1>9, <1>10, <1>11, <1>12, <1>13,
       <1>14, <1>15, <1>16, <1>17, <1>18, <1>19, <1>20
       DEF Next, Client, Connect, Reader, Writer, Heartbeat, ConnectStart, SleepDone,
           ConnectState

LEMMA TypeInit == Init => TypeInv
  <1> SUFFICES ASSUME Init PROVE TypeInv
    OBVIOUS
  <1> USE ConnectionAssumption DEF Init
  <1>1. NoEntry \in Entry
    BY DEF NoEntry, Entry
  <1>2. /\ writePc \in [Session -> WriteState]
        /\ heartbeatPc \in [Session -> HeartbeatState]
        /\ connects \in [ConnectState -> Nat]
        /\ qEntry \in [Session -> Entry]
    BY <1>1 DEF WriteState, HeartbeatState
  <1>3. writeQueue \in Seq(Entry) /\ wire \in [Session -> Seq(Entry)]
    OBVIOUS
  <1>4. ReaderHasLines
    BY DEF ReaderHasLines, Idle
  <1>5. running \in {Idle} \cup ({"read", "write"} \X Session) /\ tasks \subseteq Task
    OBVIOUS
  <1>6. /\ readPc \in [Session -> {"none", "reading", "done"}]
        /\ link \in [Session -> {"none", "up", "eof", "dead", "closed"}]
    OBVIOUS
  <1>7. /\ writer \in 0..MaxSession /\ opened \in 0..MaxSession
        /\ sent \in 0..MaxSend /\ called \in 0..MaxCall
        /\ batch \in Nat /\ balance \in Int /\ unanswered \subseteq Entry
    OBVIOUS
  <1> QED
    BY <1>2, <1>3, <1>4, <1>5, <1>6, <1>7 DEF TypeInv, TypeOK

(* In every reachable state every variable has its type, for any number of  *)
(* sessions, messages and calls and any habits of the client.               *)
THEOREM TypeCorrect == Spec => []TypeOK
  <1>1. TypeInv => TypeOK
    BY DEF TypeInv
  <1> QED
    BY <1>1, TypeInit, TypeStep, PTL DEF Spec
-----------------------------------------------------------------------------
(* The queue. A handler is called with control states pcs in which nobody   *)
(* parked on the way to it.                                                 *)
QueueInv == NoStrandedMessage /\ PausedIsEmpty

NoneParks(pcs) == \A s \in Session : pcs[s] = "parked" => writePc[s] = "parked"

LEMMA SendQueue ==
    ASSUME QueueInv, NEW es, NEW front, NEW pcs, NoneParks(pcs),
           Send(es, front, pcs), paused' = paused
    PROVE  QueueInv'
  <1>1. CASE ~Takes(es)
    BY <1>1 DEF Send, QueueInv, NoStrandedMessage, PausedIsEmpty, NoneParks, queueVars
  <1>2. CASE Takes(es)
    BY <1>2 DEF Send, Takes, QueueInv, NoStrandedMessage, PausedIsEmpty, WakeWriters, Wake
  <1> QED
    BY <1>1, <1>2

LEMMA DisconnectQueue ==
    ASSUME QueueInv, NEW me, NEW pcs, NEW hbs, NoneParks(pcs), Disconnect(me, pcs, hbs),
           UNCHANGED <<queueVars, paused>>
    PROVE  QueueInv'
  BY DEF Disconnect, Cancel, QueueInv, NoStrandedMessage, PausedIsEmpty, NoneParks, queueVars

LEMMA HandlerQueue ==
    ASSUME QueueInv, NEW me, NEW pcs, NEW c, NoneParks(pcs),
           \/ Quiet(pcs)
           \/ \E front \in BOOLEAN : Reply(front, pcs)
           \/ ReportRemoteProgramming(c, pcs)
           \/ ClientDisconnect(me, pcs)
    PROVE  QueueInv'
  <1>1. CASE Quiet(pcs)
    BY <1>1 DEF Quiet, QueueInv, NoStrandedMessage, PausedIsEmpty, NoneParks, queueVars
  <1>2. CASE \E front \in BOOLEAN : Reply(front, pcs)
    BY <1>2, SendQueue DEF Reply, ClientSend
  <1>3. CASE ReportRemoteProgramming(c, pcs)
    BY <1>3 DEF ReportRemoteProgramming, Pause, Resume, QueueInv, NoStrandedMessage,
                PausedIsEmpty, NoneParks, queueVars
  <1>4. CASE ClientDisconnect(me, pcs)
    BY <1>4, DisconnectQueue DEF ClientDisconnect
  <1> QED
    BY <1>1, <1>2, <1>3, <1>4

(* Every step keeps the queue's invariant.                                  *)
LEMMA QueueStep == TypeOK /\ QueueInv /\ [Next]_vars => QueueInv'
  <1> SUFFICES ASSUME TypeOK, QueueInv, [Next]_vars PROVE QueueInv'
    OBVIOUS
  <1>0. ASSUME UNCHANGED <<queueVars, paused, writePc>> PROVE QueueInv'
    BY <1>0 DEF QueueInv, NoStrandedMessage, PausedIsEmpty, queueVars
  <1>1. CASE AppConnect \/ OpenFail
    BY <1>0, <1>1 DEF AppConnect, OpenFail
  <1>2. ASSUME NEW where, TestWriter(where) PROVE QueueInv'
    BY <1>0, <1>2 DEF TestWriter
  <1>3. ASSUME NEW s \in Session, OpenOk(s) PROVE QueueInv'
    <2>1. NoneParks([writePc EXCEPT ![s] = "top"])
      BY DEF NoneParks, TypeOK
    <2> QED
      BY <1>3, <2>1, SendQueue DEF OpenOk, Started
  <1>4. ASSUME NEW s \in Session, OpenAndDrop(s) PROVE QueueInv'
    <2>1. NoneParks(Cancel("write", [writePc EXCEPT ![s] = "done"], Idle))
      BY DEF NoneParks, Cancel, TypeOK
    <2> QED
      BY <1>4, <2>1, SendQueue DEF OpenAndDrop
  <1>5. CASE AppSend \/ AppDisconnect
    <2>1. NoneParks(writePc)
      BY DEF NoneParks
    <2> QED
      BY <1>5, <2>1, HandlerQueue DEF AppSend, AppDisconnect
  <1>6. ASSUME NEW s \in Session, ReadData(s) \/ ReadEnd(s) PROVE QueueInv'
    BY <1>0, <1>6 DEF ReadData, ReadEnd
  <1>7. ASSUME NEW s \in Session, HandleLine(s) PROVE QueueInv'
    <2>1. PICK c \in Cmd \cup {NoCmd}, pcs \in {writePc, WakeAwaiting(writePc)} :
            \/ Quiet(pcs)
            \/ \E front \in BOOLEAN : Reply(front, pcs)
            \/ ReportRemoteProgramming(c, pcs)
            \/ ClientDisconnect(<<"read", s>>, pcs)
      BY <1>7 DEF HandleLine
    <2>2. NoneParks(pcs)
      BY DEF NoneParks, WakeAwaiting, Wake
    <2> QED
      BY <2>1, <2>2, HandlerQueue
  <1>8. ASSUME NEW s \in Session, WriterPark(s) PROVE QueueInv'
    BY <1>8 DEF WriterPark, QueueInv, NoStrandedMessage, PausedIsEmpty, TypeOK
  <1>9. ASSUME NEW s \in Session, WriterExit(s) PROVE QueueInv'
    BY <1>9 DEF WriterExit, QueueInv, NoStrandedMessage, PausedIsEmpty, TypeOK, queueVars
  <1>10. ASSUME NEW s \in Session, WriterSend(s) PROVE QueueInv'
    <2>1. ~paused /\ \A t \in Session : writePc[t] # "parked"
      BY <1>10 DEF WriterSend, QueueInv, NoStrandedMessage, PausedIsEmpty
    <2>2. \A t \in Session : writePc'[t] # "parked"
      BY <1>10, <2>1 DEF WriterSend, TypeOK
    <2> QED
      BY <1>10, <2>1, <2>2 DEF WriterSend, QueueInv, NoStrandedMessage, PausedIsEmpty
  <1>11. ASSUME NEW s \in Session, ResponseSeen(s) \/ ResponseTimeout(s) PROVE QueueInv'
    <2> DEFINE pcs == [writePc EXCEPT ![s] = "top"]
    <2>1. NoneParks(pcs)
      BY DEF NoneParks, TypeOK
    <2>2. \/ Quiet(pcs)
          \/ \E front \in BOOLEAN : Reply(front, pcs)
          \/ ClientDisconnect(<<"write", s>>, pcs)
      BY <1>11 DEF ResponseSeen, ResponseTimeout
    <2> QED
      BY <2>1, <2>2, HandlerQueue
  <1>12. ASSUME NEW s \in Session, ResponseTimer(s) PROVE QueueInv'
    BY <1>12 DEF ResponseTimer, QueueInv, NoStrandedMessage, PausedIsEmpty, TypeOK, queueVars
  <1>13. ASSUME NEW s \in Session, HeartbeatRun(s) \/ HeartbeatTimer(s) \/ HeartbeatIgnored(s)
         PROVE  QueueInv'
    BY <1>0, <1>13 DEF HeartbeatRun, HeartbeatTimer, HeartbeatIgnored
  <1>14. ASSUME NEW s \in Session, HeartbeatLost(s) PROVE QueueInv'
    <2>1. NoneParks(writePc)
      BY DEF NoneParks
    <2> QED
      BY <1>14, <2>1, DisconnectQueue DEF HeartbeatLost
  <1>15. ASSUME NEW s \in Session, LinkLost(s) PROVE QueueInv'
    BY <1>0, <1>15 DEF LinkLost
  <1>16. CASE UNCHANGED vars
    BY <1>0, <1>16 DEF vars, queueVars
  <1> QED
    BY <1>1, <1>2, <1>3, <1>4, <1>5, <1>6, <1>7, <1>8, <1>9, <1>10, <1>11, <1>12, <1>13,
       <1>14, <1>15, <1>16
       DEF Next, Client, Connect, Reader, Writer, Heartbeat, ConnectStart, SleepDone

LEMMA QueueInvariant == Spec => [](TypeOK /\ QueueInv)
  <1>1. Init => QueueInv
    BY DEF Init, QueueInv, NoStrandedMessage, PausedIsEmpty
  <1> QED
    BY <1>1, TypeCorrect, QueueStep, PTL DEF Spec

(* Whatever runs between the write task's test of the queue and its wait,   *)
(* no message is left behind while the task sleeps.                         *)
THEOREM NoLostWakeup == Spec => []NoStrandedMessage
  <1>1. QueueInv => NoStrandedMessage
    BY DEF QueueInv
  <1> QED
    BY <1>1, QueueInvariant, PTL

(* Nothing waits to be written during remote programming.                   *)
THEOREM PauseEmptiesQueue == Spec => []PausedIsEmpty
  <1>1. QueueInv => PausedIsEmpty
    BY DEF QueueInv
  <1> QED
    BY <1>1, QueueInvariant, PTL

(* No step of any task writes to any stream during remote programming.      *)
THEOREM PauseStopsWriting == Spec => QuietWhilePaused
  <1>1. QueueInv /\ [Next]_vars => [paused => wire' = wire]_vars
    <2> SUFFICES ASSUME QueueInv, [Next]_vars, paused PROVE wire' = wire
      OBVIOUS
    <2>1. \A s \in Session : ~WriterSend(s)
      BY DEF QueueInv, PausedIsEmpty, WriterSend
    <2> QED
      BY <2>1 DEF Next, Client, Connect, Reader, Writer, Heartbeat, ConnectStart, SleepDone,
           TestWriter, AppConnect, AppSend, AppDisconnect, OpenFail, OpenOk, OpenAndDrop,
           ReadData, HandleLine, ReadEnd, WriterPark, WriterExit, ResponseSeen,
           ResponseTimer, ResponseTimeout, HeartbeatRun, HeartbeatTimer, HeartbeatIgnored,
           HeartbeatLost, LinkLost, vars
  <1> QED
    BY <1>1, QueueInvariant, PTL DEF Spec, QuietWhilePaused
-----------------------------------------------------------------------------
(* Flow control of the first session. While it is the only one the flag of  *)
(* a response is down whenever the write task is about to write, so that it *)
(* does wait; and what is unanswered is what it waits for.                  *)
NoneBeyond ==
    \A s \in Session : s > opened =>
        writePc[s] = "none" /\ \A k \in {"write", "read", "heartbeat"} : <<k, s>> \notin tasks

Paced(pcs, awaited, received, requests) ==
    /\ \A e \in requests : \E s \in Session :
          pcs[s] \in {"awaiting", "answered", "expired"} /\ qEntry[s] = e
    /\ \A s \in Session : s = 1 =>
          /\ pcs[s] \in {"none", "top", "parked", "called"} => awaited = NoCmd /\ ~received
          /\ pcs[s] = "awaiting" => ~received /\ awaited = qEntry[s].resp
          /\ pcs[s] = "answered" => requests = {}

PacedInv ==
    /\ NoneBeyond
    /\ opened <= 1 => Paced(writePc, awaitingResponse, responseReceived, unanswered)

(* What a handler does to the write tasks: wakes them or ends them.         *)
Follows(pcs) ==
    \A s \in Session :
        \/ writePc'[s] = pcs[s]
        \/ pcs[s] = "parked" /\ writePc'[s] = "called"
        \/ /\ writePc'[s] = "done" /\ unanswered' = {}
           /\ <<"write", s>> \in tasks

LEMMA SendFollows ==
    ASSUME NEW es, NEW front, NEW pcs \in [Session -> WriteState], Send(es, front, pcs)
    PROVE  Follows(pcs)
  BY DEF Send, Follows, WakeWriters, Wake

LEMMA DisconnectFollows ==
    ASSUME NEW me, NEW pcs \in [Session -> WriteState], NEW hbs, Disconnect(me, pcs, hbs)
    PROVE  Follows(pcs) /\ tasks' = {}
  BY DEF Disconnect, Cancel, Cancelled, Follows

LEMMA HandlerFollows ==
    ASSUME NEW me, NEW pcs \in [Session -> WriteState], NEW c,
           \/ Quiet(pcs)
           \/ \E front \in BOOLEAN : Reply(front, pcs)
           \/ ReportRemoteProgramming(c, pcs)
           \/ ClientDisconnect(me, pcs)
    PROVE  Follows(pcs) /\ (tasks' = tasks \/ tasks' = {})
  <1>1. CASE Quiet(pcs) \/ ReportRemoteProgramming(c, pcs)
    BY <1>1 DEF Quiet, ReportRemoteProgramming, Follows, sessionVars
  <1>2. CASE \E front \in BOOLEAN : Reply(front, pcs)
    BY <1>2, SendFollows DEF Reply, ClientSend, sessionVars
  <1>3. CASE ClientDisconnect(me, pcs)
    BY <1>3, DisconnectFollows DEF ClientDisconnect
  <1> QED
    BY <1>1, <1>2, <1>3

LEMMA FollowsPaced ==
    ASSUME NEW pcs, NEW requests, Follows(pcs), qEntry' = qEntry,
           Paced(pcs, awaitingResponse', responseReceived', requests),
           unanswered' = {} \/ unanswered' \subseteq requests
    PROVE  Paced(writePc, awaitingResponse, responseReceived, unanswered)'
  BY DEF Follows, Paced

LEMMA FollowsBeyond ==
    ASSUME NEW pcs, NoneBeyond, Follows(pcs), opened' = opened,
           \A s \in Session : s > opened => pcs[s] = "none",
           tasks' = tasks \/ tasks' = {}
    PROVE  NoneBeyond'
  BY DEF Follows, NoneBeyond

(* Every step keeps the invariant.                                          *)
LEMMA PacedStep == TypeOK /\ PacedInv /\ [Next]_vars => PacedInv'
  <1> SUFFICES ASSUME TypeOK, PacedInv, [Next]_vars PROVE PacedInv'
    OBVIOUS
  <1> USE ConnectionAssumption
  <1>a. writePc \in [Session -> WriteState] /\ opened \in Nat
    BY DEF TypeOK
  <1>b. \A t \in Session : t \in Nat /\ t >= 1
    BY DEF Session
  <1>c. \A t \in Session : t > opened => writePc[t] = "none" /\ <<"write", t>> \notin tasks
    BY DEF PacedInv, NoneBeyond
  <1>d. ASSUME opened <= 1 PROVE \A t \in Session : t # 1 => writePc[t] = "none"
    <2>1. \A t \in Session : t # 1 => t > opened
      BY <1>a, <1>b, <1>d
    <2> QED
      BY <1>c, <2>1
  <1>0. ASSUME UNCHANGED <<tasks, writePc, opened, qEntry, responseVars, unanswered>>
        PROVE  PacedInv'
    BY <1>0 DEF PacedInv, NoneBeyond, Paced, responseVars
  <1>1. CASE AppConnect \/ OpenFail
    BY <1>0, <1>1 DEF AppConnect, OpenFail, clientVars
  <1>2. ASSUME NEW where, TestWriter(where) PROVE PacedInv'
    BY <1>0, <1>2 DEF TestWriter
  <1>3. ASSUME NEW s \in Session, OpenOk(s) PROVE PacedInv'
    <2> DEFINE pcs == [writePc EXCEPT ![s] = "top"]
    <2>1. pcs \in [Session -> WriteState]
      BY <1>a DEF WriteState
    <2>2. Send(GreetingOf(s), FALSE, pcs) /\ s = opened + 1 /\ opened' = s
          /\ UNCHANGED <<responseVars, qEntry, unanswered>>
      BY <1>3 DEF OpenOk, Started, CanOpen
    <2>3. Follows(pcs)
      BY <2>1, <2>2, SendFollows
    <2>4. NoneBeyond'
      <3>1. tasks' = tasks \cup StartedTasks(s)
        BY <1>3 DEF OpenOk, Started
      <3>2. ASSUME NEW t \in Session, t > s PROVE writePc'[t] = "none"
        <4>1. t > opened /\ t # s
          BY <1>a, <1>b, <2>2, <3>2
        <4>2. pcs[t] = "none" /\ <<"write", t>> \notin tasks
          BY <1>a, <1>c, <4>1
        <4> QED
          BY <2>3, <4>2 DEF Follows
      <3> QED
        BY <1>a, <2>2, <3>1, <3>2 DEF PacedInv, NoneBeyond, StartedTasks, Session
    <2>5. ASSUME s <= 1
          PROVE  Paced(pcs, awaitingResponse', responseReceived', unanswered)
      <3>1. \A t \in Session : writePc[t] = "none"
        <4>1. \A t \in Session : t > opened
          BY <1>a, <1>b, <2>2, <2>5
        <4> QED
          BY <1>c, <4>1
      <3>2. s = 1 /\ Paced(writePc, awaitingResponse, responseReceived, unanswered)
        BY <1>a, <1>b, <2>2, <2>5 DEF PacedInv
      <3> QED
        BY <2>2, <3>1, <3>2 DEF Paced, responseVars
    <2> HIDE DEF pcs
    <2> QED
      BY <2>2, <2>3, <2>4, <2>5, FollowsPaced DEF PacedInv
  <1>4. ASSUME NEW s \in Session, OpenAndDrop(s) PROVE PacedInv'
    <2> DEFINE pcs == Cancel("write", [writePc EXCEPT ![s] = "done"], Idle)
    <2>1. pcs \in [Session -> WriteState]
      BY <1>a DEF Cancel, WriteState
    <2>2. Send(GreetingOf(s), FALSE, pcs) /\ s = opened + 1 /\ opened' = s
          /\ unanswered' = {} /\ tasks' = {} /\ UNCHANGED <<responseVars, qEntry>>
      BY <1>4 DEF OpenAndDrop, CanOpen
    <2>3. Follows(pcs)
      BY <2>1, <2>2, SendFollows
    <2>4. \A t \in Session : t > s => pcs[t] = "none"
      BY <1>a, <1>b, <1>c, <2>2 DEF Cancel, Cancelled
    <2>5. s <= 1 => pcs[1] = "done"
      BY <1>a, <2>2 DEF Cancel, Session
    <2>6. s <= 1 => Paced(pcs, awaitingResponse', responseReceived', {})
      BY <2>5 DEF Paced
    <2> HIDE DEF pcs
    <2>7. NoneBeyond'
      <3>1. ASSUME NEW t \in Session, t > s PROVE writePc'[t] = "none"
        <4>1. pcs[t] = "none"
          BY <2>4, <3>1
        <4>2. t > opened
          BY <1>a, <1>b, <2>2, <3>1
        <4>3. <<"write", t>> \notin tasks
          BY <1>c, <4>2
        <4> QED
          BY <2>3, <4>1, <4>3 DEF Follows
      <3> QED
        BY <2>2, <3>1 DEF NoneBeyond
    <2> QED
      BY <2>2, <2>3, <2>6, <2>7, FollowsPaced DEF PacedInv
  <1>5. ASSUME NEW me, NEW pcs \in [Session -> WriteState], NEW c, NEW requests,
               \/ Quiet(pcs)
               \/ \E front \in BOOLEAN : Reply(front, pcs)
               \/ ReportRemoteProgramming(c, pcs)
               \/ ClientDisconnect(me, pcs),
               UNCHANGED <<qEntry, opened>>,
               \A t \in Session : writePc[t] = "none" => pcs[t] = "none",
               opened <= 1 => Paced(pcs, awaitingResponse', responseReceived', requests),
               unanswered' = {} \/ unanswered' \subseteq requests
        PROVE  PacedInv'
    <2>1. Follows(pcs) /\ (tasks' = tasks \/ tasks' = {})
      BY <1>5, HandlerFollows
    <2>2. NoneBeyond'
      BY <1>5, <2>1, FollowsBeyond DEF PacedInv, NoneBeyond
    <2> QED
      BY <1>5, <2>1, <2>2, FollowsPaced DEF PacedInv
  <1>6. CASE AppSend \/ AppDisconnect
    <2>1. \/ \E front \in BOOLEAN : Reply(front, writePc)
          \/ ClientDisconnect(Idle, writePc)
      BY <1>6 DEF AppSend, AppDisconnect
    <2>2. unanswered' = {} \/ unanswered' = unanswered
      BY <1>6 DEF AppSend, AppDisconnect, ClientDisconnect, Disconnect
    <2>3. UNCHANGED <<qEntry, opened, responseVars>>
      BY <1>6 DEF AppSend, AppDisconnect
    <2> QED
      BY <1>a, <1>5, <2>1, <2>2, <2>3 DEF PacedInv, responseVars
  <1>7. ASSUME NEW s \in Session, ReadData(s) \/ ReadEnd(s) PROVE PacedInv'
    BY <1>0, <1>7 DEF ReadData, ReadEnd
  <1>8. ASSUME NEW s \in Session, HandleLine(s) PROVE PacedInv'
    <2>1. PICK c \in Cmd \cup {NoCmd}, matches \in BOOLEAN,
               pcs \in {writePc, WakeAwaiting(writePc)}, pending \in SUBSET unanswered :
            /\ matches => /\ c # NoCmd /\ c = awaitingResponse
                          /\ pcs = WakeAwaiting(writePc)
                          /\ pending = unanswered \ AnsweredBy(c)
            /\ ~matches => pcs = writePc
            /\ responseReceived' = (responseReceived \/ matches)
            /\ \/ Quiet(pcs)
               \/ \E front \in BOOLEAN : Reply(front, pcs)
               \/ ReportRemoteProgramming(c, pcs)
               \/ ClientDisconnect(<<"read", s>>, pcs)
            /\ unanswered' = {} \/ unanswered' = pending
      <3>1. PICK c \in Cmd \cup {NoCmd} :
              LET matches == c # NoCmd /\ c = awaitingResponse
                  pcs == IF matches THEN WakeAwaiting(writePc) ELSE writePc
                  pending == unanswered \ (IF c = NoCmd THEN {} ELSE AnsweredBy(c))
              IN  /\ responseReceived' = (responseReceived \/ matches)
                  /\ \/ /\ \/ Quiet(pcs)
                           \/ \E front \in BOOLEAN : Reply(front, pcs)
                           \/ ReportRemoteProgramming(c, pcs)
                        /\ unanswered' = pending
                     \/ /\ "drop_on_message" \in Habits
                        /\ ClientDisconnect(<<"read", s>>, pcs)
        BY <1>8 DEF HandleLine
      <3> DEFINE matches == c # NoCmd /\ c = awaitingResponse
                 pcs == IF matches THEN WakeAwaiting(writePc) ELSE writePc
                 pending == unanswered \ (IF c = NoCmd THEN {} ELSE AnsweredBy(c))
      <3>2. /\ responseReceived' = (responseReceived \/ matches)
            /\ \/ /\ \/ Quiet(pcs)
                     \/ \E front \in BOOLEAN : Reply(front, pcs)
                     \/ ReportRemoteProgramming(c, pcs)
                  /\ unanswered' = pending
               \/ ClientDisconnect(<<"read", s>>, pcs) /\ unanswered' = {}
        BY <3>1 DEF ClientDisconnect, Disconnect
      <3>3. /\ matches \in BOOLEAN /\ pcs \in {writePc, WakeAwaiting(writePc)}
            /\ pending \in SUBSET unanswered
            /\ matches => /\ c # NoCmd /\ c = awaitingResponse
                          /\ pcs = WakeAwaiting(writePc)
                          /\ pending = unanswered \ AnsweredBy(c)
            /\ ~matches => pcs = writePc
        OBVIOUS
      <3> HIDE DEF matches, pcs, pending
      <3> QED
        BY <3>2, <3>3
    <2>2. pcs \in [Session -> WriteState]
      BY <1>a, <2>1 DEF WakeAwaiting, Wake, WriteState
    <2>3. UNCHANGED <<qEntry, opened, awaitingResponse>>
      BY <1>8 DEF HandleLine
    <2>4. ASSUME opened <= 1
          PROVE  Paced(pcs, awaitingResponse', responseReceived', pending)
      <3>1. Paced(writePc, awaitingResponse, responseReceived, unanswered)
        BY <2>4 DEF PacedInv
      <3>2. CASE ~matches
        BY <2>1, <2>3, <3>1, <3>2 DEF Paced
      <3>3. CASE matches
        <4>1. pcs = [t \in Session |-> IF writePc[t] = "awaiting" THEN "answered"
                                       ELSE writePc[t]]
          BY <2>1, <3>3 DEF WakeAwaiting, Wake
        <4>2. \A e \in pending : e \in unanswered /\ e.resp # awaitingResponse
          BY <2>1, <3>3 DEF AnsweredBy
        <4>3. \A e \in pending : \E t \in Session :
                  pcs[t] \in {"awaiting", "answered", "expired"} /\ qEntry[t] = e
          BY <3>1, <4>1, <4>2 DEF Paced
        <4>4. ASSUME NEW t \in Session, t = 1, pcs[t] = "answered" PROVE pending = {}
          <5>1. CASE writePc[t] = "answered"
            BY <2>1, <3>1, <4>4, <5>1 DEF Paced
          <5>2. CASE writePc[t] = "awaiting"
            <6>1. \A e \in unanswered : e = qEntry[t]
              BY <1>d, <2>4, <3>1, <4>4 DEF Paced
            <6>2. awaitingResponse = qEntry[t].resp
              BY <3>1, <4>4, <5>2 DEF Paced
            <6> QED
              BY <4>2, <6>1, <6>2
          <5> QED
            BY <4>1, <4>4, <5>1, <5>2
        <4>5. ASSUME NEW t \in Session, t = 1
              PROVE  pcs[t] \notin {"none", "top", "parked", "called", "awaiting"}
          BY <2>1, <3>1, <3>3, <4>1, <4>5 DEF Paced
        <4> QED
          BY <2>3, <4>3, <4>4, <4>5 DEF Paced
      <3> QED
        BY <3>2, <3>3
    <2>5. \A t \in Session : writePc[t] = "none" => pcs[t] = "none"
      BY <2>1 DEF WakeAwaiting, Wake
    <2>6. unanswered' = {} \/ unanswered' \subseteq pending
      BY <2>1
    <2> QED
      BY <1>5, <2>1, <2>2, <2>3, <2>4, <2>5, <2>6
  <1>9. ASSUME NEW s \in Session, WriterPark(s) \/ WriterExit(s) \/ ResponseTimer(s)
        PROVE  PacedInv'
    <2>1. UNCHANGED <<qEntry, opened, responseVars, unanswered, tasks>>
      BY <1>9 DEF WriterPark, WriterExit, ResponseTimer, sessionVars
    <2>2. \/ writePc[s] \in {"top", "called"} /\ writePc' = [writePc EXCEPT ![s] = "parked"]
          \/ writePc[s] \in {"top", "called"} /\ writePc' = [writePc EXCEPT ![s] = "done"]
          \/ writePc[s] \in {"awaiting", "answered"}
             /\ writePc' = [writePc EXCEPT ![s] = "expired"]
      BY <1>9 DEF WriterPark, WriterExit, ResponseTimer
    <2>3. NoneBeyond'
      BY <1>a, <2>1, <2>2 DEF PacedInv, NoneBeyond
    <2>4. opened <= 1 => Paced(writePc, awaitingResponse, responseReceived, unanswered)'
      BY <1>a, <2>1, <2>2 DEF PacedInv, Paced, responseVars
    <2> QED
      BY <2>1, <2>3, <2>4 DEF PacedInv
  <1>10. ASSUME NEW s \in Session, WriterSend(s) PROVE PacedInv'
    <2> DEFINE e == Head(writeQueue)
               waits == e.resp # NoCmd /\ ~responseReceived
    <2>1. /\ writePc[s] \in {"top", "called"}
          /\ qEntry' = [qEntry EXCEPT ![s] = e]
          /\ awaitingResponse' = IF waits THEN e.resp
                                 ELSE IF e.resp = NoCmd THEN awaitingResponse ELSE NoCmd
          /\ responseReceived' = (responseReceived /\ e.resp = NoCmd)
          /\ writePc' = [writePc EXCEPT ![s] = IF waits THEN "awaiting" ELSE "top"]
          /\ unanswered' = unanswered \cup (IF e.resp = NoCmd THEN {} ELSE {e})
          /\ UNCHANGED <<opened, tasks>>
      BY <1>10 DEF WriterSend, sessionVars
    <2> HIDE DEF e
    <2>2. NoneBeyond'
      BY <1>a, <2>1 DEF PacedInv, NoneBeyond
    <2>3. ASSUME opened <= 1
          PROVE  Paced(writePc, awaitingResponse, responseReceived, unanswered)'
      <3>1. s = 1 /\ \A t \in Session : t # 1 => writePc[t] = "none"
        BY <1>d, <2>1, <2>3
      <3>2. unanswered = {} /\ awaitingResponse = NoCmd /\ ~responseReceived
        BY <2>1, <2>3, <3>1 DEF PacedInv, Paced
      <3>3. CASE e.resp = NoCmd
        BY <1>a, <2>1, <3>1, <3>2, <3>3 DEF Paced
      <3>4. CASE e.resp # NoCmd
        <4>1. /\ unanswered' = {e} /\ ~responseReceived'
              /\ writePc'[s] = "awaiting" /\ qEntry'[s] = e
              /\ awaitingResponse' = qEntry'[s].resp
          BY <1>a, <2>1, <3>2, <3>4 DEF TypeOK
        <4> QED
          BY <3>1, <4>1 DEF Paced
      <3> QED
        BY <3>3, <3>4
    <2> QED
      BY <2>1, <2>2, <2>3 DEF PacedInv
  <1>11. ASSUME NEW s \in Session, ResponseSeen(s) \/ ResponseTimeout(s) PROVE PacedInv'
    <2> DEFINE pcs == [writePc EXCEPT ![s] = "top"]
               requests == unanswered \ {qEntry[s]}
    <2>1. pcs \in [Session -> WriteState]
      BY <1>a DEF WriteState
    <2>2. /\ writePc[s] \in {"answered", "expired"}
          /\ awaitingResponse' = NoCmd /\ responseReceived' = FALSE
          /\ UNCHANGED <<qEntry, opened>>
      BY <1>11 DEF ResponseSeen, ResponseTimeout, Settled
    <2>3. \/ Quiet(pcs)
          \/ \E front \in BOOLEAN : Reply(front, pcs)
          \/ ClientDisconnect(<<"write", s>>, pcs)
      BY <1>11 DEF ResponseSeen, ResponseTimeout
    <2>4. /\ ResponseSeen(s) => writePc[s] = "answered" /\ unanswered' = unanswered
          /\ ResponseTimeout(s) => unanswered' = requests \/ unanswered' = {}
      BY <1>11 DEF ResponseSeen, ResponseTimeout, ClientDisconnect, Disconnect
    <2>5. ASSUME opened <= 1
          PROVE  s = 1 /\ requests = {} /\ (ResponseSeen(s) => unanswered' = requests)
      <3>1. s = 1 /\ \A t \in Session : t # 1 => writePc[t] = "none"
        BY <1>d, <2>2, <2>5
      <3>2. Paced(writePc, awaitingResponse, responseReceived, unanswered)
        BY <2>5 DEF PacedInv
      <3>3. \A e \in unanswered : e = qEntry[s]
        BY <3>1, <3>2 DEF Paced
      <3>4. writePc[s] = "answered" => unanswered = {}
        BY <3>1, <3>2 DEF Paced
      <3> QED
        BY <2>4, <3>1, <3>3, <3>4
    <2>6. opened <= 1 => Paced(pcs, awaitingResponse', responseReceived', requests)
      BY <1>a, <2>2, <2>5 DEF Paced
    <2>7. \A t \in Session : writePc[t] = "none" => pcs[t] = "none"
      BY <1>a, <2>2
    <2>8. Follows(pcs) /\ (tasks' = tasks \/ tasks' = {})
      BY <2>1, <2>3, HandlerFollows
    <2> HIDE DEF pcs
    <2>9. NoneBeyond'
      BY <2>2, <2>7, <2>8, FollowsBeyond DEF PacedInv, NoneBeyond
    <2>10. opened <= 1 => unanswered' = {} \/ unanswered' \subseteq requests
      BY <1>11, <2>4, <2>5
    <2> QED
      BY <2>2, <2>6, <2>8, <2>9, <2>10, FollowsPaced DEF PacedInv
  <1>12. ASSUME NEW s \in Session, HeartbeatRun(s) \/ HeartbeatTimer(s) \/ HeartbeatIgnored(s)
         PROVE  PacedInv'
    BY <1>0, <1>12 DEF HeartbeatRun, HeartbeatTimer, HeartbeatIgnored
  <1>13. ASSUME NEW s \in Session, HeartbeatLost(s) PROVE PacedInv'
    <2> DEFINE hbs == [heartbeatPc EXCEPT ![s] = "done"]
    <2>1. Disconnect(<<"heartbeat", s>>, writePc, hbs) /\ unanswered' = {}
          /\ UNCHANGED <<qEntry, opened, responseVars>>
      BY <1>13 DEF HeartbeatLost, Disconnect
    <2>2. Follows(writePc) /\ tasks' = {}
      BY <1>a, <2>1, DisconnectFollows
    <2>3. NoneBeyond'
      BY <1>c, <2>1, <2>2, FollowsBeyond DEF PacedInv
    <2>4. opened <= 1 => Paced(writePc, awaitingResponse', responseReceived', unanswered)
      BY <2>1 DEF PacedInv, responseVars
    <2> QED
      BY <2>1, <2>2, <2>3, <2>4, FollowsPaced DEF PacedInv
  <1>14. ASSUME NEW s \in Session, LinkLost(s) PROVE PacedInv'
    BY <1>0, <1>14 DEF LinkLost
  <1>15. CASE UNCHANGED vars
    BY <1>0, <1>15 DEF vars, responseVars
  <1> QED
    BY <1>1, <1>2, <1>3, <1>4, <1>6, <1>7, <1>8, <1>9, <1>10, <1>11, <1>12, <1>13, <1>14,
       <1>15
       DEF Next, Client, Connect, Reader, Writer, Heartbeat, ConnectStart, SleepDone

(* While the first session lasts, a request on the wire with neither answer *)
(* nor timeout is one that a write task waits for, whatever the client and  *)
(* the panel do.                                                            *)
THEOREM FirstSessionIsPaced == Spec => []FirstSessionPaced
  <1>1. Init => PacedInv
    BY DEF Init, PacedInv, NoneBeyond, Paced
  <1>2. PacedInv => FirstSessionPaced
    BY DEF PacedInv, Paced, FirstSessionPaced, AwaitedBy
  <1> QED
    BY <1>1, <1>2, TypeCorrect, PacedStep, PTL DEF Spec
-----------------------------------------------------------------------------
(* A disciplined client: it asks for one connection at a time, disconnects  *)
(* only a session that is open and not from a handler of "connected" or     *)
(* "timeout", and answers "disconnected" with connect only where no         *)
(* heartbeat does that already.                                             *)
Disciplined ==
    /\ Habits \subseteq {"drop_on_message", "reconnect"}
    /\ "reconnect" \in Habits => Serial

(* A client that wants a connection has one session or one coroutine that   *)
(* opens it, any other client has neither; a task that is alive and can     *)
(* write, or can end a session, is of the open session.                     *)
Connecting == connects["new"] + connects["opening"] + connects["sleeping"]
IsOpen == IF writer = 0 THEN 0 ELSE 1

OneSession ==
    /\ Connecting + IsOpen = IF wanted THEN 1 ELSE 0
    /\ balance = IsOpen
    /\ \A k \in {"write", "read", "heartbeat"}, s \in Session :
          <<k, s>> \in tasks => s = writer
    /\ \A s \in Session :
          /\ WriterAlive(s) => <<"write", s>> \in tasks
          /\ heartbeatPc[s] \notin {"none", "done"} => <<"heartbeat", s>> \in tasks
          /\ readPc[s] = "reading" => <<"read", s>> \in tasks \/ link[s] = "closed"
          /\ Serial => heartbeatPc[s] \in {"none", "done"}

(* The write tasks that are alive in pcs are alive now.                     *)
NoneRises(pcs) ==
    \A s \in Session : pcs[s] \notin {"none", "done"} => WriterAlive(s)

LEMMA KeepsOneSession ==
    ASSUME TypeOK, OneSession, NEW pcs, NoneRises(pcs),
           writePc' = pcs \/ writePc' = WakeWriters(pcs),
           UNCHANGED <<sessionVars, wanted>>
    PROVE  OneSession'
  <1>1. ASSUME NEW s \in Session, WriterAlive(s)' PROVE WriterAlive(s)
    BY <1>1 DEF WakeWriters, Wake, WriterAlive, NoneRises
  <1> QED
    BY <1>1 DEF OneSession, Connecting, IsOpen, sessionVars

LEMMA SendKeepsOneSession ==
    ASSUME TypeOK, OneSession, NEW es, NEW front, NEW pcs, NoneRises(pcs),
           Send(es, front, pcs), UNCHANGED <<sessionVars, wanted>>
    PROVE  OneSession'
  BY KeepsOneSession DEF Send

(* disconnect() of the open session, from anywhere but a write task.        *)
LEMMA DisconnectKeepsTasks ==
    ASSUME TypeOK, OneSession, writer # 0, NEW me, NEW pcs, NoneRises(pcs),
           \A s \in Session : me # <<"write", s>>,
           NEW hbs \in [Session -> HeartbeatState],
           \A s \in Session : hbs[s] = "done" \/ hbs[s] = heartbeatPc[s],
           \A s \in Session : me = <<"heartbeat", s>> => hbs[s] = "done",
           Disconnect(me, pcs, hbs)
    PROVE  /\ writer' = 0 /\ balance' = 0 /\ tasks' = {}
           /\ \A s \in Session :
                 /\ ~WriterAlive(s)'
                 /\ heartbeatPc'[s] \in {"none", "done"}
                 /\ readPc'[s] = "reading" => link'[s] = "closed"
  <1>1. writer' = 0 /\ balance' = 0 /\ tasks' = {}
    BY DEF Disconnect, OneSession, IsOpen
  <1>2. ASSUME NEW s \in Session PROVE ~WriterAlive(s)'
    <2>1. writePc'[s] = IF s \in Cancelled("write", me) THEN "done" ELSE pcs[s]
      BY DEF Disconnect, Cancel
    <2>2. CASE s \in Cancelled("write", me)
      BY <2>1, <2>2 DEF WriterAlive
    <2>3. CASE s \notin Cancelled("write", me)
      <3>1. <<"write", s>> # me
        OBVIOUS
      <3>2. <<"write", s>> \notin tasks
        BY <2>3, <3>1 DEF Cancelled
      <3> QED
        BY <2>1, <2>3, <3>2 DEF OneSession, NoneRises, WriterAlive
    <2> QED
      BY <2>2, <2>3
  <1>3. ASSUME NEW s \in Session PROVE heartbeatPc'[s] \in {"none", "done"}
    <2>1. heartbeatPc'[s] = IF s \in Cancelled("heartbeat", me) THEN "done" ELSE hbs[s]
      BY DEF Disconnect, Cancel
    <2>2. CASE s \notin Cancelled("heartbeat", me)
      <3>1. <<"heartbeat", s>> \notin tasks \/ hbs[s] = "done"
        BY <2>2 DEF Cancelled
      <3> QED
        BY <2>1, <2>2, <3>1 DEF OneSession
    <2> QED
      BY <2>1, <2>2
  <1>4. ASSUME NEW s \in Session, readPc'[s] = "reading" PROVE link'[s] = "closed"
    <2>1. readPc'[s] = IF s \in Cancelled("read", me) THEN "done" ELSE readPc[s]
      BY DEF Disconnect, Cancel
    <2>2. readPc[s] = "reading"
      BY <1>4, <2>1
    <2>3. s = writer \/ link[s] = "closed"
      BY <2>2 DEF OneSession
    <2> QED
      BY <2>3 DEF Disconnect
  <1> QED
    BY <1>1, <1>2, <1>3, <1>4

LEMMA HandlerKeepsOneSession ==
    ASSUME Disciplined, TypeOK, OneSession, NEW me, NEW pcs, NEW c, NoneRises(pcs),
           \/ Quiet(pcs)
           \/ \E front \in BOOLEAN : Reply(front, pcs)
           \/ ReportRemoteProgramming(c, pcs)
           \/ ClientDisconnect(me, pcs) /\ \A s \in Session : me # <<"write", s>>
                                        /\ me # <<"heartbeat", s>>
    PROVE  OneSession'
  <1>1. CASE Quiet(pcs) \/ ReportRemoteProgramming(c, pcs)
    BY <1>1, KeepsOneSession DEF Quiet, ReportRemoteProgramming, clientVars
  <1>2. CASE \E front \in BOOLEAN : Reply(front, pcs)
    BY <1>2, SendKeepsOneSession DEF Reply, ClientSend
  <1>3. CASE /\ ClientDisconnect(me, pcs)
             /\ \A s \in Session : me # <<"write", s>> /\ me # <<"heartbeat", s>>
    <2>1. writer # 0 /\ Disconnect(me, pcs, heartbeatPc)
          /\ connects' = [connects EXCEPT !["new"] = @ + NewConnect]
          /\ wanted' = ("reconnect" \in Habits)
      BY <1>3 DEF ClientDisconnect, Disciplined
    <2>2. heartbeatPc \in [Session -> HeartbeatState]
      BY DEF TypeOK
    <2>3. /\ writer' = 0 /\ balance' = 0 /\ tasks' = {}
          /\ \A s \in Session :
                /\ ~WriterAlive(s)'
                /\ heartbeatPc'[s] \in {"none", "done"}
                /\ readPc'[s] = "reading" => link'[s] = "closed"
      BY <1>3, <2>1, <2>2, DisconnectKeepsTasks
    <2>4. Connecting = 0 /\ connects \in [ConnectState -> Nat]
      BY <2>1 DEF OneSession, IsOpen, Connecting, TypeOK, ConnectState
    <2>5. Connecting' = NewConnect
      BY <2>1, <2>4 DEF Connecting, ConnectState, NewConnect
    <2>6. Connecting' = IF wanted' THEN 1 ELSE 0
      <3>1. CASE "reconnect" \in Habits
        BY <2>1, <2>5, <3>1 DEF NewConnect
      <3>2. CASE "reconnect" \notin Habits
        BY <2>1, <2>5, <3>2 DEF NewConnect
      <3> QED
        BY <3>1, <3>2
    <2>7. IsOpen' = 0
      BY <2>3 DEF IsOpen
    <2>8. Connecting' + IsOpen' = IF wanted' THEN 1 ELSE 0
      BY <2>6, <2>7
    <2> QED
      BY <2>3, <2>7, <2>8 DEF OneSession
  <1> QED
    BY <1>1, <1>2, <1>3

(* Every step of a system with a disciplined client keeps the invariant.    *)
LEMMA OneSessionStep ==
    ASSUME Disciplined PROVE TypeOK /\ OneSession /\ [Next]_vars => OneSession'
  <1> SUFFICES ASSUME TypeOK, OneSession, [Next]_vars PROVE OneSession'
    OBVIOUS
  <1>a. /\ connects \in [ConnectState -> Nat] /\ wanted \in BOOLEAN
        /\ writePc \in [Session -> WriteState]
        /\ heartbeatPc \in [Session -> HeartbeatState]
        /\ readPc \in [Session -> {"none", "reading", "done"}]
    BY DEF TypeOK
  <1>0. ASSUME UNCHANGED <<sessionVars, wanted, writePc>> PROVE OneSession'
    BY <1>0 DEF OneSession, Connecting, IsOpen, sessionVars, WriterAlive
  <1>b. NoneRises(writePc)
    BY DEF NoneRises, WriterAlive
  <1>1. CASE AppConnect
    <2>1. Connecting = 0 /\ IsOpen = 0
      BY <1>1, <1>a DEF AppConnect, Disciplined, OneSession, Connecting, IsOpen, ConnectState
    <2>2. Connecting' = 1 /\ IsOpen' = 0 /\ wanted' = TRUE
      BY <1>1, <1>a, <2>1 DEF AppConnect, Connecting, IsOpen, ConnectState
    <2> QED
      BY <1>1, <2>1, <2>2 DEF AppConnect, OneSession, WriterAlive
  <1>2. ASSUME NEW where \in {"new", "sleeping"}, TestWriter(where) PROVE OneSession'
    <2>1. writer = 0 /\ Connecting = 1
      <3>1. connects[where] > 0 /\ Connecting + IsOpen = IF wanted THEN 1 ELSE 0
        BY <1>2 DEF TestWriter, OneSession
      <3>2. CASE where = "new"
        BY <1>a, <3>1, <3>2 DEF Connecting, IsOpen, ConnectState
      <3>3. CASE where = "sleeping"
        BY <1>a, <3>1, <3>3 DEF Connecting, IsOpen, ConnectState
      <3> QED
        BY <3>2, <3>3
    <2>2. Connecting' = 1
      <3>1. connects' = [connects EXCEPT ![where] = @ - 1, !["opening"] = @ + 1]
        BY <1>2, <2>1 DEF TestWriter
      <3>2. CASE where = "new"
        BY <1>a, <2>1, <3>1, <3>2 DEF Connecting, ConnectState
      <3>3. CASE where = "sleeping"
        BY <1>a, <2>1, <3>1, <3>3 DEF Connecting, ConnectState
      <3> QED
        BY <3>2, <3>3
    <2> QED
      BY <1>2, <2>1, <2>2 DEF TestWriter, OneSession, IsOpen, WriterAlive, clientVars
  <1>3. CASE OpenFail
    <2>1. connects' = [connects EXCEPT !["opening"] = connects["opening"] - 1,
                                       !["sleeping"] = connects["sleeping"] + 1]
      BY <1>3 DEF OpenFail
    <2>2. Connecting' = Connecting
      BY <1>a, <2>1 DEF Connecting, ConnectState
    <2> QED
      BY <1>3, <2>2 DEF OpenFail, OneSession, IsOpen, WriterAlive, clientVars
  <1>4. ASSUME NEW s \in Session, OpenOk(s) PROVE OneSession'
    <2>1. writer = 0 /\ Connecting = 1 /\ wanted
      BY <1>4, <1>a DEF OpenOk, CanOpen, OneSession, Connecting, IsOpen, ConnectState
    <2>2. Connecting' = 0
      BY <1>4, <1>a, <2>1 DEF OpenOk, CanOpen, Connecting, ConnectState
    <2>3. tasks = {} /\ \A t \in Session : ~WriterAlive(t)
      <3>1. \A k \in {"write", "read", "heartbeat"}, t \in Session : <<k, t>> \notin tasks
        BY <2>1 DEF OneSession, Session
      <3>2. tasks = {}
        BY <3>1 DEF TypeOK, Task
      <3> QED
        BY <3>1 , <3>2 DEF OneSession
    <2>4. writer' = s /\ s # 0 /\ balance' = 1 /\ wanted' = wanted
          /\ tasks' = StartedTasks(s)
      BY <1>4, <2>1, <2>3 DEF OpenOk, Started, Session, OneSession, IsOpen, clientVars
    <2>5. ASSUME NEW t \in Session, t # s PROVE ~WriterAlive(t)'
      <3> DEFINE pcs == [writePc EXCEPT ![s] = "top"]
      <3>1. Send(GreetingOf(s), FALSE, pcs) /\ pcs[t] = writePc[t]
        BY <1>4, <1>a, <2>5 DEF OpenOk, Started
      <3> HIDE DEF pcs
      <3>2. writePc'[t] = pcs[t] \/ (pcs[t] = "parked" /\ writePc'[t] = "called")
        BY <3>1 DEF Send, WakeWriters, Wake
      <3> QED
        BY <2>3, <3>1, <3>2 DEF WriterAlive
    <2>6. ASSUME NEW t \in Session
          PROVE  /\ heartbeatPc'[t] \notin {"none", "done"} => <<"heartbeat", t>> \in tasks'
                 /\ Serial => heartbeatPc'[t] \in {"none", "done"}
      BY <1>4, <1>a, <2>3, <2>4 DEF OpenOk, Started, OneSession, StartedTasks
    <2>7. ASSUME NEW t \in Session
          PROVE  readPc'[t] = "reading" => <<"read", t>> \in tasks' \/ link'[t] = "closed"
      <3>1. CASE t = s
        BY <2>4, <3>1 DEF StartedTasks
      <3>2. CASE t # s
        BY <1>4, <1>a, <2>3, <3>2 DEF OpenOk, Started, OneSession, TypeOK
      <3> QED
        BY <3>1, <3>2
    <2>8. \A t \in Session : WriterAlive(t)' => <<"write", t>> \in tasks'
      BY <2>4, <2>5 DEF StartedTasks
    <2>9. \A k \in {"write", "read", "heartbeat"}, t \in Session :
              <<k, t>> \in tasks' => t = writer'
      BY <2>4 DEF StartedTasks
    <2> QED
      BY <2>1, <2>2, <2>4, <2>6, <2>7, <2>8, <2>9 DEF OneSession, IsOpen
  <1>5. ASSUME NEW s \in Session, OpenAndDrop(s) PROVE OneSession'
    BY <1>5 DEF OpenAndDrop, Disciplined
  <1>6. CASE AppSend \/ AppDisconnect
    <2>1. \A s \in Session : Idle # <<"write", s>> /\ Idle # <<"heartbeat", s>>
      BY DEF Idle
    <2> QED
      BY <1>6, <1>b, <2>1, HandlerKeepsOneSession DEF AppSend, AppDisconnect
  <1>7. ASSUME NEW s \in Session, ReadData(s) PROVE OneSession'
    BY <1>7, <1>a DEF ReadData, WakeHeartbeats, Wake, OneSession, Connecting, IsOpen,
                      WriterAlive, clientVars
  <1>8. ASSUME NEW s \in Session, HandleLine(s) PROVE OneSession'
    <2>1. PICK c \in Cmd \cup {NoCmd}, pcs \in {writePc, WakeAwaiting(writePc)} :
            \/ Quiet(pcs)
            \/ \E front \in BOOLEAN : Reply(front, pcs)
            \/ ReportRemoteProgramming(c, pcs)
            \/ ClientDisconnect(<<"read", s>>, pcs)
      BY <1>8 DEF HandleLine
    <2>2. NoneRises(pcs)
      BY DEF NoneRises, WakeAwaiting, Wake, WriterAlive
    <2> QED
      BY <2>1, <2>2, HandlerKeepsOneSession
  <1>9. ASSUME NEW s \in Session, ReadEnd(s) PROVE OneSession'
    BY <1>9, <1>a DEF ReadEnd, OneSession, Connecting, IsOpen, WriterAlive, clientVars
  <1>10. ASSUME NEW s \in Session,
                \/ WriterPark(s) \/ WriterExit(s) \/ WriterSend(s) \/ ResponseTimer(s)
         PROVE  OneSession'
    <2>1. UNCHANGED <<sessionVars, wanted>>
      BY <1>10 DEF WriterPark, WriterExit, WriterSend, ResponseTimer, clientVars
    <2>2. WriterAlive(s) /\ \A t \in Session : t # s => writePc'[t] = writePc[t]
      BY <1>10, <1>a DEF WriterPark, WriterExit, WriterSend, ResponseTimer, WriterAlive
    <2>3. NoneRises(writePc')
      BY <2>2 DEF NoneRises, WriterAlive
    <2> QED
      BY <2>1, <2>3, KeepsOneSession
  <1>11. ASSUME NEW s \in Session, ResponseSeen(s) \/ ResponseTimeout(s) PROVE OneSession'
    <2> DEFINE pcs == [writePc EXCEPT ![s] = "top"]
    <2>1. NoneRises(pcs)
      BY <1>11, <1>a DEF NoneRises, WriterAlive, ResponseSeen, ResponseTimeout
    <2>2. Quiet(pcs) \/ \E front \in BOOLEAN : Reply(front, pcs)
      BY <1>11 DEF ResponseSeen, ResponseTimeout, Disciplined
    <2> QED
      BY <2>1, <2>2, HandlerKeepsOneSession
  <1>12. ASSUME NEW s \in Session, HeartbeatRun(s) \/ HeartbeatTimer(s) \/ HeartbeatIgnored(s)
         PROVE  OneSession'
    <2>1. heartbeatPc[s] \notin {"none", "done"}
          /\ \A t \in Session : t # s => heartbeatPc'[t] = heartbeatPc[t]
      BY <1>12, <1>a DEF HeartbeatRun, HeartbeatTimer, HeartbeatIgnored
    <2>2. UNCHANGED <<writer, tasks, readPc, link, balance, connects, writePc, wanted>>
      BY <1>12 DEF HeartbeatRun, HeartbeatTimer, HeartbeatIgnored, clientVars
    <2> QED
      BY <2>1, <2>2 DEF OneSession, Connecting, IsOpen, WriterAlive
  <1>13. ASSUME NEW s \in Session, HeartbeatLost(s) PROVE OneSession'
    <2> DEFINE hbs == [heartbeatPc EXCEPT ![s] = "done"]
    <2>1. ~Serial /\ s = writer /\ s # 0
      <3>1. heartbeatPc[s] = "expired"
        BY <1>13 DEF HeartbeatLost
      <3>2. ~Serial /\ <<"heartbeat", s>> \in tasks
        BY <3>1 DEF OneSession
      <3>3. s = writer
        BY <3>2 DEF OneSession
      <3> QED
        BY <3>2, <3>3 DEF Session
    <2>2. NewConnect = 0
      BY <2>1 DEF Disciplined, NewConnect
    <2>3. hbs \in [Session -> HeartbeatState]
      BY <1>a DEF HeartbeatState
    <2>4. \A t \in Session : /\ hbs[t] = "done" \/ hbs[t] = heartbeatPc[t]
                             /\ <<"heartbeat", s>> # <<"write", t>>
                             /\ <<"heartbeat", s>> = <<"heartbeat", t>> => hbs[t] = "done"
      BY <1>a
    <2>5. Disconnect(<<"heartbeat", s>>, writePc, hbs)
      BY <1>13 DEF HeartbeatLost
    <2> HIDE DEF hbs
    <2>6. /\ writer' = 0 /\ balance' = 0 /\ tasks' = {}
          /\ \A t \in Session :
                /\ ~WriterAlive(t)'
                /\ heartbeatPc'[t] \in {"none", "done"}
                /\ readPc'[t] = "reading" => link'[t] = "closed"
      BY <1>b, <2>1, <2>3, <2>4, <2>5, DisconnectKeepsTasks
    <2>7. Connecting = 0 /\ wanted
      BY <1>a, <2>1 DEF OneSession, IsOpen, Connecting, ConnectState
    <2>8. Connecting' = 1 /\ wanted' = TRUE
      <3>1. connects' = Reconnecting /\ wanted' = TRUE
        BY <1>13, <1>a, <2>7 DEF HeartbeatLost
      <3>2. connects["new"] = 0 /\ connects["opening"] = 0 /\ connects["sleeping"] = 0
        BY <1>a, <2>7 DEF Connecting, ConnectState
      <3> QED
        BY <1>a, <2>2, <3>1, <3>2 DEF Reconnecting, Connecting, ConnectState
    <2> QED
      BY <2>6, <2>8 DEF OneSession, IsOpen
  <1>14. ASSUME NEW s \in Session, LinkLost(s) PROVE OneSession'
    BY <1>14 DEF LinkLost, OneSession, Connecting, IsOpen, WriterAlive, TypeOK, clientVars
  <1>15. CASE UNCHANGED vars
    BY <1>0, <1>15 DEF vars, sessionVars
  <1> QED
    BY <1>1, <1>2, <1>3, <1>4, <1>5, <1>6, <1>7, <1>8, <1>9, <1>10, <1>11, <1>12, <1>13,
       <1>14, <1>15
       DEF Next, Client, Connect, Reader, Writer, Heartbeat, ConnectStart, SleepDone

LEMMA OneSessionInvariant ==
    ASSUME Disciplined PROVE Spec => [](TypeOK /\ OneSession)
  <1>1. Init => OneSession
    BY DEF Init, OneSession, Connecting, IsOpen, WriterAlive, ConnectState
  <1> QED
    BY <1>1, TypeCorrect, OneSessionStep, PTL DEF Spec

(* With a disciplined client at most one write task lives, and it is the    *)
(* one of the open session.                                                 *)
THEOREM DisciplineKeepsSingleWriter ==
    ASSUME Disciplined PROVE Spec => []SingleWriter
  <1>1. OneSession => SingleWriter
    BY DEF OneSession, SingleWriter
  <1> QED
    BY <1>1, OneSessionInvariant, PTL

(* With a disciplined client disconnect() leaves no task behind.            *)
THEOREM DisciplineLeaksNoTask ==
    ASSUME Disciplined PROVE Spec => []NoLeakedTask
  <1>1. OneSession => NoLeakedTask
    BY DEF OneSession, NoLeakedTask
  <1> QED
    BY <1>1, OneSessionInvariant, PTL

(* With a disciplined client the notifications tell what is_connected()     *)
(* tells.                                                                   *)
THEOREM DisciplineMatchesEvents ==
    ASSUME Disciplined PROVE Spec => []EventsMatchState
  <1>1. OneSession => EventsMatchState
    BY DEF OneSession, IsOpen, EventsMatchState
  <1> QED
    BY <1>1, OneSessionInvariant, PTL

(* No session opens for a disciplined client whose last call was disconnect. *)
THEOREM DisciplineMakesDisconnectFinal ==
    ASSUME Disciplined PROVE Spec => DisconnectIsFinal
  <1>1. TypeOK /\ OneSession /\ [Next]_vars => [opened' # opened => wanted]_vars
    <2> SUFFICES ASSUME TypeOK, OneSession, Next, opened' # opened PROVE wanted
      OBVIOUS
    <2>1. PICK s \in Session : OpenOk(s) \/ OpenAndDrop(s)
      BY DEF Next, Client, Connect, Reader, Writer, Heartbeat, ConnectStart, SleepDone,
           TestWriter, AppConnect, AppSend, AppDisconnect, OpenFail,
           ReadData, HandleLine, ReadEnd, WriterPark, WriterExit, WriterSend, ResponseSeen,
           ResponseTimer, ResponseTimeout, HeartbeatRun, HeartbeatTimer, HeartbeatIgnored,
           HeartbeatLost, LinkLost
    <2>2. connects["opening"] > 0 /\ connects \in [ConnectState -> Nat]
      BY <2>1 DEF OpenOk, OpenAndDrop, CanOpen, TypeOK
    <2> QED
      BY <2>2 DEF OneSession, Connecting, IsOpen, ConnectState, TypeOK
  <1> QED
    BY <1>1, OneSessionInvariant, PTL DEF Spec, DisconnectIsFinal

-----------------------------------------------------------------------------
(* The refinement of Outbox.                                               *)
LEMMA ConcatPrefix ==
    ASSUME NEW q \in Seq(Entry), NEW es \in Seq(Entry)
    PROVE  Promise!IsPrefix(q, q \o es)
  BY DEF Promise!IsPrefix

(* A step of the box or one that leaves it alone.                           *)
BoxStep == Promise!Next \/ UNCHANGED Promise!vars

LEMMA KeptBox ==
    ASSUME UNCHANGED <<writeQueue, wire, paused, writer>> PROVE BoxStep
  BY DEF BoxStep, Promise!vars

LEMMA LineChanges ==
    ASSUME TypeOK, TypeOK', NEW es \in Seq(Entry),
           writeQueue' = writeQueue \/ (~paused /\ writeQueue' = writeQueue \o es),
           UNCHANGED <<wire, paused>>
    PROVE  BoxStep
  <1>1. writeQueue \in Seq(Entry) /\ writeQueue' \in Seq(Entry)
    BY DEF TypeOK
  <1>2. Promise!IsPrefix(writeQueue, writeQueue')
    <2>1. CASE writeQueue' = writeQueue
      BY <1>1, <2>1 DEF Promise!IsPrefix
    <2>2. CASE writeQueue' = writeQueue \o es
      BY <1>1, <2>2, ConcatPrefix
    <2> QED
      BY <2>1, <2>2
  <1>3. writer' \in Session \cup {0}
    BY ConnectionAssumption DEF TypeOK, Session
  <1> QED
    BY <1>1, <1>2, <1>3 DEF BoxStep, Promise!Next, Promise!LineChange

LEMMA ClientSendKeepsOrder ==
    ASSUME TypeOK, TypeOK', NEW front \in BOOLEAN, NEW pcs, ClientSend(front, pcs),
           UNCHANGED <<wire, paused, writer>>
    PROVE  BoxStep
  <1>1. PICK c \in Cmd \cup {NoCmd} :
            Send(<<[session |-> 0, n |-> sent + 1, resp |-> c]>>, front, pcs)
    BY DEF ClientSend
  <1> DEFINE m == [session |-> 0, n |-> sent + 1, resp |-> c]
  <1>2. m \in Entry
    BY ConnectionAssumption DEF Entry, TypeOK
  <1>3. writeQueue \in Seq(Entry) /\ Send(<<m>>, front, pcs)
    BY <1>1 DEF TypeOK
  <1> HIDE DEF m
  <1>4. CASE writeQueue' = writeQueue
    BY <1>4, KeptBox
  <1>5. CASE ~paused /\ front /\ writeQueue' = <<m>> \o writeQueue
    <2>1. writeQueue' # <<>> /\ Head(writeQueue') = m
      BY <1>2, <1>3, <1>5
    <2> QED
      BY <1>2, <1>5, <2>1 DEF BoxStep, Promise!Next, Promise!PutFirst
  <1>6. CASE ~paused /\ ~front /\ writeQueue' = writeQueue \o <<m>>
    <2>1. writeQueue' = Append(writeQueue, m)
      BY <1>2, <1>3, <1>6
    <2>2. writeQueue' # <<>> /\ Promise!Last(writeQueue') = m
      BY <1>2, <1>3, <2>1 DEF Promise!Last
    <2> QED
      BY <1>2, <1>6, <2>1, <2>2 DEF BoxStep, Promise!Next, Promise!Put
  <1> QED
    BY <1>3, <1>4, <1>5, <1>6 DEF Send, Takes, queueVars

LEMMA HandlerKeepsOrder ==
    ASSUME TypeOK, TypeOK', NEW me, NEW pcs, NEW c, wire' = wire,
           \/ Quiet(pcs)
           \/ \E front \in BOOLEAN : Reply(front, pcs)
           \/ ReportRemoteProgramming(c, pcs)
           \/ ClientDisconnect(me, pcs)
    PROVE  BoxStep
  <1>1. CASE Quiet(pcs)
    BY <1>1, KeptBox DEF Quiet, queueVars, sessionVars
  <1>2. CASE \E front \in BOOLEAN : Reply(front, pcs)
    BY <1>2, ClientSendKeepsOrder DEF Reply, sessionVars
  <1>3. CASE ReportRemoteProgramming(c, pcs)
    BY <1>3 DEF ReportRemoteProgramming, Pause, Resume, BoxStep, Promise!Next,
                Promise!Block, Promise!Unblock, queueVars, sessionVars
  <1>4. CASE ClientDisconnect(me, pcs)
    <2>1. <<>> \in Seq(Entry) /\ UNCHANGED <<writeQueue, paused>>
      BY <1>4 DEF ClientDisconnect, queueVars
    <2> QED
      BY <2>1, LineChanges
  <1> QED
    BY <1>1, <1>2, <1>3, <1>4

(* Every step of the connection is a step of the outbox or leaves it alone. *)
LEMMA StepKeepsOrder == TypeOK /\ TypeOK' /\ [Next]_vars => BoxStep
  <1> SUFFICES ASSUME TypeOK, TypeOK', [Next]_vars PROVE BoxStep
    OBVIOUS
  <1>1. CASE AppConnect \/ OpenFail
    BY <1>1, KeptBox DEF AppConnect, OpenFail, queueVars
  <1>2. ASSUME NEW where, TestWriter(where) PROVE BoxStep
    BY <1>2, KeptBox DEF TestWriter, queueVars
  <1>3. ASSUME NEW s \in Session, OpenOk(s) \/ OpenAndDrop(s) PROVE BoxStep
    <2>1. PICK pcs : Send(GreetingOf(s), FALSE, pcs)
      BY <1>3 DEF OpenOk, OpenAndDrop, Started
    <2>2. GreetingOf(s) \in Seq(Entry) /\ UNCHANGED <<wire, paused>>
      BY <1>3, GreetingType DEF OpenOk, OpenAndDrop
    <2>3. \/ writeQueue' = writeQueue
          \/ ~paused /\ writeQueue' = writeQueue \o GreetingOf(s)
      BY <2>1 DEF Send, Takes, queueVars
    <2> QED
      BY <2>2, <2>3, LineChanges
  <1>4. CASE AppSend \/ AppDisconnect
    BY <1>4, HandlerKeepsOrder DEF AppSend, AppDisconnect
  <1>5. ASSUME NEW s \in Session, ReadData(s) \/ ReadEnd(s) PROVE BoxStep
    BY <1>5, KeptBox DEF ReadData, ReadEnd, queueVars
  <1>6. ASSUME NEW s \in Session, HandleLine(s) PROVE BoxStep
    <2>1. PICK c, pcs :
            \/ Quiet(pcs)
            \/ \E front \in BOOLEAN : Reply(front, pcs)
            \/ ReportRemoteProgramming(c, pcs)
            \/ ClientDisconnect(<<"read", s>>, pcs)
      BY <1>6 DEF HandleLine
    <2> QED
      BY <1>6, <2>1, HandlerKeepsOrder DEF HandleLine
  <1>7. ASSUME NEW s \in Session, WriterPark(s) \/ WriterExit(s) \/ ResponseTimer(s)
        PROVE  BoxStep
    BY <1>7, KeptBox DEF WriterPark, WriterExit, ResponseTimer, queueVars, sessionVars
  <1>8. ASSUME NEW s \in Session, WriterSend(s) PROVE BoxStep
    BY <1>8 DEF WriterSend, BoxStep, Promise!Next, Promise!Write, sessionVars
  <1>9. ASSUME NEW s \in Session, ResponseSeen(s) \/ ResponseTimeout(s) PROVE BoxStep
    BY <1>9, HandlerKeepsOrder DEF ResponseSeen, ResponseTimeout
  <1>10. ASSUME NEW s \in Session, HeartbeatRun(s) \/ HeartbeatTimer(s) \/ HeartbeatIgnored(s)
         PROVE  BoxStep
    BY <1>10, KeptBox DEF HeartbeatRun, HeartbeatTimer, HeartbeatIgnored, queueVars
  <1>11. ASSUME NEW s \in Session, HeartbeatLost(s) PROVE BoxStep
    <2>1. <<>> \in Seq(Entry) /\ UNCHANGED <<writeQueue, wire, paused>>
      BY <1>11 DEF HeartbeatLost, queueVars
    <2> QED
      BY <2>1, LineChanges
  <1>12. ASSUME NEW s \in Session, LinkLost(s) PROVE BoxStep
    BY <1>12, KeptBox DEF LinkLost, queueVars
  <1>13. CASE UNCHANGED vars
    BY <1>13, KeptBox DEF vars
  <1> QED
    BY <1>1, <1>2, <1>3, <1>4, <1>5, <1>6, <1>7, <1>8, <1>9, <1>10, <1>11, <1>12, <1>13
       DEF Next, Client, Connect, Reader, Writer, Heartbeat, ConnectStart, SleepDone

(* The connection writes what it accepted, in the order it was accepted and *)
(* each message to one stream, whatever the tasks, the events, the timeouts *)
(* and the client do.                                                       *)
THEOREM ConnectionKeepsOrder == Spec => KeepsOrder
  <1>1. Init => Promise!Init
    BY DEF Init, Promise!Init
  <1>2. BoxStep => [Promise!Next]_(Promise!vars)
    BY DEF BoxStep
  <1> QED
    BY <1>1, <1>2, TypeCorrect, StepKeepsOrder, PTL DEF Spec, KeepsOrder, Promise!Safety
=============================================================================
