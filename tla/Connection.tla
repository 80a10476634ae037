----------------------------- MODULE Connection -----------------------------
(***************************************************************************)
(* elkm1_lib/connection.py: the tasks that keep an asyncio stream to an    *)
(* ElkM1 panel, one reader, one writer and one heartbeat task per session, *)
(* and the coroutines that open sessions.                                  *)
(*                                                                         *)
(* Asyncio runs one task at a time and switches only at an await that has  *)
(* to wait. An action is what a task does between two such points, cut     *)
(* again after each line the reader handles and each message the writer    *)
(* sends; "running" then keeps the loop for that task. Cancelling a task   *)
(* ends it at the await where it is, since no code here catches            *)
(* CancelledError, and what it would have reset stays as it was.           *)
(***************************************************************************)
EXTENDS Integers, Sequences, FiniteSets

CONSTANTS
    Cmd,                \* response commands a request may wait for ("VN", "SD", ...)
    NoCmd,              \* a request without response; a line nobody waits for
    Greeting,           \* the response commands of what Elk._connected sends
    Serial,             \* is the url serial://? (then there is no heartbeat)
    RemoteProgramming,  \* does the panel report remote programming (RP lines)?
    Habits,             \* what the client's handlers and callers do, see Habit
    MaxSession,         \* bound: sessions opened
    MaxSend,            \* bound: messages the client sends
    MaxCall,            \* bound: connect and disconnect calls of the client
    MaxBatch            \* bound: lines the reader finds in one read

(* overlap:          calls connect although its last call was connect       *)
(* early_disconnect: calls disconnect although is_connected() is false      *)
(* reconnect:        calls connect in its handler of "disconnected"         *)
(* drop_on_...:      may call disconnect in its handler of "connected", of  *)
(*                   "timeout", of a message from the panel                 *)
Habit == {"overlap", "early_disconnect", "reconnect",
          "drop_on_connected", "drop_on_timeout", "drop_on_message"}

ASSUME ConnectionAssumption ==
    /\ NoCmd \notin Cmd
    /\ Greeting \in Seq(Cmd \cup {NoCmd})
    /\ Serial \in BOOLEAN
    /\ RemoteProgramming \in BOOLEAN
    /\ Habits \subseteq Habit
    /\ MaxSession \in Nat /\ MaxSend \in Nat /\ MaxCall \in Nat /\ MaxBatch \in Nat

Session == 1..MaxSession

(* A QueuedWrite: the n-th message of the client (session 0) or of the     *)
(* greeting of a session, and the response it waits for.                   *)
Entry == [session : 0..MaxSession, n : Nat, resp : Cmd \cup {NoCmd}]

Task == {"write", "read", "heartbeat"} \X Session
Idle == <<"loop", 0>>

(* Where a write task is: at the top of its loop; waiting for the queue,    *)
(* woken from there; waiting for a response, woken by it or by the deadline.*)
WriteState == {"none", "top", "parked", "called", "awaiting", "answered", "expired", "done"}
HeartbeatState == {"none", "new", "waiting", "beaten", "expired", "done"}

(* Where a coroutine in connect() is: before its first step, in the attempt *)
(* to open a stream, in the sleep after a failure.                          *)
ConnectState == {"new", "opening", "sleeping"}

VARIABLES
    \* the fields of Connection
    writer,             \* _writer: the session it writes to, 0 for None
    awaitingResponse,   \* _awaiting_response_command, NoCmd for None
    paused,             \* _paused
    writeQueue,         \* _write_queue
    checkWriteQueue,    \* _check_write_queue.is_set()
    responseReceived,   \* _response_received.is_set()
    tasks,              \* _tasks
    \* where the tasks are
    running,            \* the task that keeps the loop, Idle when any may run
    batch,              \* lines the running reader still has in hand
    writePc,            \* the write task of each session
    qEntry,             \* its q_entry
    readPc,             \* the read task of each session
    heartbeatPc,        \* the heartbeat task of each session
    connects,           \* coroutines in connect(): how many are where
    \* the world
    opened,             \* sessions opened so far
    link,               \* the stream of each session
    wire,               \* what was written to it
    sent,               \* messages sent by the client so far
    called,             \* connect and disconnect calls of the client so far
    \* history
    wanted,             \* was the client's last call connect?
    balance,            \* "connected" less "disconnected" notifications
    unanswered          \* requests on the open stream with neither answer nor timeout

queueVars == <<writeQueue, checkWriteQueue>>
responseVars == <<awaitingResponse, responseReceived>>
sessionVars == <<writer, tasks, readPc, heartbeatPc, link, balance, connects>>
clientVars == <<sent, called, wanted>>
vars == <<writer, awaitingResponse, paused, writeQueue, checkWriteQueue,
          responseReceived, tasks, running, batch, writePc, qEntry, readPc,
          heartbeatPc, connects, opened, link, wire, sent, called, wanted,
          balance, unanswered>>

NoEntry == [session |-> 0, n |-> 0, resp |-> NoCmd]

Init ==
    /\ writer = 0 /\ awaitingResponse = NoCmd /\ paused = FALSE
    /\ writeQueue = <<>> /\ checkWriteQueue = FALSE /\ responseReceived = FALSE
    /\ tasks = {} /\ running = Idle /\ batch = 0
    /\ writePc = [s \in Session |-> "none"]
    /\ qEntry = [s \in Session |-> NoEntry]
    /\ readPc = [s \in Session |-> "none"]
    /\ heartbeatPc = [s \in Session |-> "none"]
    /\ connects = [c \in ConnectState |-> 0]
    /\ opened = 0
    /\ link = [s \in Session |-> "none"]
    /\ wire = [s \in Session |-> <<>>]
    /\ sent = 0 /\ called = 0 /\ wanted = FALSE /\ balance = 0 /\ unanswered = {}

-----------------------------------------------------------------------------
(* Parts of the handlers. pcs and hbs are the write and heartbeat control   *)
(* states the caller has reached before it calls.                          *)

(* Event.set() wakes every task that waits for the event.                   *)
Wake(pcs, from, to) == [s \in Session |-> IF pcs[s] = from THEN to ELSE pcs[s]]
WakesNobody(pcs) == pcs     \* slip: append without set()
WakeWriters(pcs) == Wake(pcs, "parked", "called")
WakeAwaiting(pcs) == Wake(pcs, "awaiting", "answered")
WakeHeartbeats(hbs) == Wake(hbs, "waiting", "beaten")

(* _send for each of the messages es, at the front when they have priority. *)
TakesWhilePaused(es) == es # <<>>     \* slip: no test of _paused
Takes(es) == ~paused /\ es # <<>>

Send(es, front, pcs) ==
    \/ /\ ~Takes(es)
       /\ writePc' = pcs
       /\ UNCHANGED queueVars
    \/ /\ Takes(es)
       /\ writeQueue' = IF front THEN es \o writeQueue ELSE writeQueue \o es
       /\ checkWriteQueue' = TRUE
       /\ writePc' = WakeWriters(pcs)

(* The client sends its next message, with or without a response.          *)
ClientSend(front, pcs) ==
    /\ sent < MaxSend
    /\ sent' = sent + 1
    /\ \E c \in Cmd \cup {NoCmd} :
          Send(<<[session |-> 0, n |-> sent + 1, resp |-> c]>>, front, pcs)

GreetingOf(s) ==
    [i \in 1..Len(Greeting) |-> [session |-> s, n |-> i, resp |-> Greeting[i]]]

(* task.cancel() for every task of _tasks but the current one.             *)
SparesHeartbeat(kind, me) ==     \* slip: the heartbeat task is not in _tasks
    {s \in Session : <<kind, s>> \in tasks /\ <<kind, s>> # me /\ kind # "heartbeat"}
Cancelled(kind, me) == {s \in Session : <<kind, s>> \in tasks /\ <<kind, s>> # me}
Cancel(kind, pcs, me) ==
    [s \in Session |-> IF s \in Cancelled(kind, me) THEN "done" ELSE pcs[s]]

(* disconnect(), called from task me: the flags of the write task, the      *)
(* queue and paused keep their values. "disconnected" is notified in every  *)
(* case; a client with the habit calls connect from its handler.            *)
Disconnect(me, pcs, hbs) ==
    /\ link' = [s \in Session |-> IF s = writer THEN "closed" ELSE link[s]]
    /\ writer' = 0
    /\ writePc' = Cancel("write", pcs, me)
    /\ readPc' = Cancel("read", readPc, me)
    /\ heartbeatPc' = Cancel("heartbeat", hbs, me)
    /\ tasks' = {}
    /\ balance' = balance - 1
    /\ unanswered' = {}

ConnectsTwice == IF "reconnect" \in Habits THEN 2 ELSE 0     \* slip: two handlers do
NewConnect == IF "reconnect" \in Habits THEN 1 ELSE 0

(* The client calls disconnect from task me.                               *)
ClientDisconnect(me, pcs) ==
    /\ called < MaxCall
    /\ writer # 0 \/ "early_disconnect" \in Habits
    /\ called' = called + 1
    /\ Disconnect(me, pcs, heartbeatPc)
    /\ wanted' = ("reconnect" \in Habits)
    /\ connects' = [connects EXCEPT !["new"] = @ + NewConnect]
    /\ UNCHANGED <<queueVars, paused, sent>>

(* A handler that leaves the connection alone.                             *)
Quiet(pcs) ==
    /\ writePc' = pcs
    /\ UNCHANGED <<queueVars, paused, sessionVars, clientVars>>

(* A handler that sends.                                                   *)
Reply(front, pcs) ==
    /\ ClientSend(front, pcs)
    /\ UNCHANGED <<paused, sessionVars, called, wanted>>

-----------------------------------------------------------------------------
(* connect()                                                               *)

AppConnect ==
    /\ running = Idle
    /\ called < MaxCall
    /\ ~wanted \/ "overlap" \in Habits
    /\ called' = called + 1
    /\ wanted' = TRUE
    /\ connects' = [connects EXCEPT !["new"] = @ + 1]
    /\ UNCHANGED <<writer, responseVars, paused, queueVars, tasks, running, batch,
                   writePc, qEntry, readPc, heartbeatPc, opened, link, wire, sent,
                   balance, unanswered>>

(* A coroutine at "where" tests "while not self._writer": it opens a       *)
(* connection or returns.                                                  *)
TestWriter(where) ==
    /\ running = Idle
    /\ connects[where] > 0
    /\ connects' = [connects EXCEPT ![where] = @ - 1,
                                    !["opening"] = @ + (IF writer = 0 THEN 1 ELSE 0)]
    /\ UNCHANGED <<writer, responseVars, paused, queueVars, tasks, running, batch,
                   writePc, qEntry, readPc, heartbeatPc, opened, link, wire, clientVars,
                   balance, unanswered>>

ConnectStart == TestWriter("new")
SleepDone == TestWriter("sleeping")

(* The attempt fails, or times out after 30 seconds: sleep and try again.  *)
OpenFail ==
    /\ running = Idle
    /\ connects["opening"] > 0
    /\ connects' = [connects EXCEPT !["opening"] = @ - 1, !["sleeping"] = @ + 1]
    /\ UNCHANGED <<writer, responseVars, paused, queueVars, tasks, running, batch,
                   writePc, qEntry, readPc, heartbeatPc, opened, link, wire, clientVars,
                   balance, unanswered>>

(* The attempt succeeds: the new writer replaces whatever _writer is, the  *)
(* tasks are created and "connected" is notified, whose first handler is   *)
(* Elk._connected, which sends the greeting. A client handler may then     *)
(* disconnect, and the coroutine opens again.                              *)
ForgetsWriter(s) ==     \* slip: the write task is not added to _tasks
    {<<"read", s>>} \cup (IF Serial THEN {} ELSE {<<"heartbeat", s>>})
StartedTasks(s) ==
    {<<"read", s>>, <<"write", s>>} \cup (IF Serial THEN {} ELSE {<<"heartbeat", s>>})

Started(s) ==
    /\ writer' = s
    /\ tasks' = tasks \cup StartedTasks(s)
    /\ link' = [link EXCEPT ![s] = "up"]
    /\ readPc' = [readPc EXCEPT ![s] = "reading"]
    /\ heartbeatPc' = [heartbeatPc EXCEPT ![s] = IF Serial THEN "none" ELSE "new"]
    /\ Send(GreetingOf(s), FALSE, [writePc EXCEPT ![s] = "top"])

OpensUnasked(s) == running = Idle /\ s = opened + 1     \* slip: nobody is in connect()
CanOpen(s) ==
    /\ running = Idle
    /\ connects["opening"] > 0
    /\ s = opened + 1

OpenOk(s) ==
    /\ CanOpen(s)
    /\ opened' = s
    /\ Started(s)
    /\ balance' = balance + 1
    /\ connects' = [connects EXCEPT !["opening"] = @ - 1]
    /\ UNCHANGED <<responseVars, paused, running, batch, qEntry, wire, clientVars,
                   unanswered>>

(* The same when a handler of "connected" calls disconnect: the tasks just  *)
(* created end before they ran, with all others in _tasks, and the loop of  *)
(* connect() goes round again.                                              *)
OpenAndDrop(s) ==
    /\ "drop_on_connected" \in Habits
    /\ CanOpen(s)
    /\ called < MaxCall
    /\ opened' = s
    /\ called' = called + 1
    /\ Send(GreetingOf(s), FALSE, Cancel("write", [writePc EXCEPT ![s] = "done"], Idle))
    /\ readPc' = Cancel("read", [readPc EXCEPT ![s] = "done"], Idle)
    /\ heartbeatPc' = Cancel("heartbeat", [heartbeatPc EXCEPT ![s] = "done"], Idle)
    /\ link' = [link EXCEPT ![s] = "closed"]
    /\ writer' = 0
    /\ tasks' = {}
    /\ unanswered' = {}
    /\ wanted' = ("reconnect" \in Habits)
    /\ connects' = [connects EXCEPT !["new"] = @ + NewConnect]
    /\ UNCHANGED <<responseVars, paused, running, batch, qEntry, wire, sent, balance>>

-----------------------------------------------------------------------------
(* Calls of the client from the loop.                                      *)

AppSend ==
    /\ running = Idle
    /\ Reply(FALSE, writePc)
    /\ UNCHANGED <<responseVars, running, batch, qEntry, opened, wire, unanswered>>

AppDisconnect ==
    /\ running = Idle
    /\ ClientDisconnect(Idle, writePc)
    /\ UNCHANGED <<responseVars, running, batch, qEntry, opened, wire>>

-----------------------------------------------------------------------------
(* _read_stream                                                            *)

(* read() returns data with n complete lines; _heartbeat() is called.      *)
ReadData(s) ==
    /\ running = Idle
    /\ readPc[s] = "reading"
    /\ link[s] = "up"
    /\ \E n \in 0..MaxBatch :
          /\ batch' = n
          /\ running' = IF n = 0 THEN Idle ELSE <<"read", s>>
    /\ heartbeatPc' = WakeHeartbeats(heartbeatPc)
    /\ UNCHANGED <<writer, responseVars, paused, queueVars, tasks, writePc, qEntry,
                   readPc, connects, opened, link, wire, clientVars, balance, unanswered>>

(* What the handlers of a line do: nothing, send, disconnect; Panel's       *)
(* handler of RP, a line nobody waits for, pauses and resumes.              *)
PauseKeepsQueue ==     \* slip: no _write_queue.clear()
    /\ paused' = TRUE
    /\ UNCHANGED queueVars

Pause ==
    /\ writeQueue' = <<>>
    /\ paused' = TRUE
    /\ UNCHANGED checkWriteQueue

Resume ==
    /\ paused' = FALSE
    /\ UNCHANGED queueVars

ReportRemoteProgramming(c, pcs) ==
    /\ RemoteProgramming
    /\ c = NoCmd
    /\ Pause \/ Resume
    /\ writePc' = pcs
    /\ UNCHANGED <<sessionVars, clientVars>>

AnsweredBy(c) == {e \in unanswered : e.resp = c}

HandleLine(s) ==
    /\ running = <<"read", s>>
    /\ \E c \in Cmd \cup {NoCmd} :
          LET matches == c # NoCmd /\ c = awaitingResponse
              pcs == IF matches THEN WakeAwaiting(writePc) ELSE writePc
              pending == unanswered \ (IF c = NoCmd THEN {} ELSE AnsweredBy(c))
          IN  /\ responseReceived' = (responseReceived \/ matches)
              /\ \/ /\ \/ Quiet(pcs)
                       \/ \E front \in BOOLEAN : Reply(front, pcs)
                       \/ ReportRemoteProgramming(c, pcs)
                    /\ unanswered' = pending
                 \/ /\ "drop_on_message" \in Habits
                    /\ ClientDisconnect(<<"read", s>>, pcs)
    /\ batch' = batch - 1
    /\ running' = IF batch = 1 THEN Idle ELSE running
    /\ UNCHANGED <<awaitingResponse, qEntry, opened, wire>>

(* read() returns nothing, at the end of the stream and after close(): the  *)
(* task ends and tells nobody.                                              *)
ReadEnd(s) ==
    /\ running = Idle
    /\ readPc[s] = "reading"
    /\ link[s] \in {"eof", "closed"}
    /\ readPc' = [readPc EXCEPT ![s] = "done"]
    /\ UNCHANGED <<writer, responseVars, paused, queueVars, tasks, running, batch, writePc,
                   qEntry, heartbeatPc, connects, opened, link, wire, clientVars, balance,
                   unanswered>>

-----------------------------------------------------------------------------
(* _write_stream                                                           *)

MayRun(kind, s) == running \in {Idle, <<kind, s>>}

(* The task at the top of its loop, or back from waiting for               *)
(* _check_write_queue, finds no message and waits. It has cleared the event *)
(* unless it had to wait at once.                                           *)
Waits(s) == writePc[s] = "top" /\ writeQueue = <<>> /\ ~checkWriteQueue

WriterPark(s) ==
    /\ MayRun("write", s)
    /\ writePc[s] \in {"top", "called"}
    /\ writeQueue = <<>>
    /\ writer # 0 \/ Waits(s)
    /\ checkWriteQueue' = FALSE
    /\ writePc' = [writePc EXCEPT ![s] = "parked"]
    /\ running' = Idle
    /\ UNCHANGED <<writeQueue, responseVars, paused, sessionVars, batch, qEntry, opened,
                   wire, clientVars, unanswered>>

WriterExit(s) ==
    /\ MayRun("write", s)
    /\ writePc[s] \in {"top", "called"}
    /\ writer = 0
    /\ ~Waits(s)
    /\ writePc' = [writePc EXCEPT ![s] = "done"]
    /\ running' = Idle
    /\ UNCHANGED <<queueVars, responseVars, paused, sessionVars, batch, qEntry, opened,
                   wire, clientVars, unanswered>>

(* It takes the first message, writes it to _writer, whichever session that *)
(* is, and waits for its response when it has one. wait() returns at once   *)
(* when the event is set already.                                           *)
WriterSend(s) ==
    /\ MayRun("write", s)
    /\ writePc[s] \in {"top", "called"}
    /\ writeQueue # <<>>
    /\ writer # 0
    /\ checkWriteQueue' = FALSE
    /\ writeQueue' = Tail(writeQueue)
    /\ LET e == Head(writeQueue)
           waits == e.resp # NoCmd /\ ~responseReceived
       IN  /\ qEntry' = [qEntry EXCEPT ![s] = e]
           /\ wire' = [wire EXCEPT ![writer] = Append(@, e)]
           /\ awaitingResponse' = IF waits THEN e.resp
                                  ELSE IF e.resp = NoCmd THEN awaitingResponse ELSE NoCmd
           /\ responseReceived' = (responseReceived /\ e.resp = NoCmd)
           /\ writePc' = [writePc EXCEPT ![s] = IF waits THEN "awaiting" ELSE "top"]
           /\ running' = IF waits THEN Idle ELSE <<"write", s>>
           /\ unanswered' = unanswered \cup (IF e.resp = NoCmd THEN {} ELSE {e})
    /\ UNCHANGED <<paused, sessionVars, batch, opened, clientVars>>

(* The end of await_msg_response.                                          *)
KeepsFlag(s) ==     \* slip: no _response_received.clear()
    /\ awaitingResponse' = NoCmd
    /\ running' = <<"write", s>>
    /\ UNCHANGED responseReceived

Settled(s) ==
    /\ responseReceived' = FALSE
    /\ awaitingResponse' = NoCmd
    /\ running' = <<"write", s>>

ResponseSeen(s) ==
    /\ running = Idle
    /\ writePc[s] = "answered"
    /\ Settled(s)
    /\ Quiet([writePc EXCEPT ![s] = "top"])
    /\ UNCHANGED <<batch, qEntry, opened, wire, unanswered>>

(* MESSAGE_RESPONSE_TIME passes. The timer also beats a response that woke  *)
(* the task but did not yet run it.                                         *)
ResponseTimer(s) ==
    /\ running = Idle
    /\ writePc[s] \in {"awaiting", "answered"}
    /\ writePc' = [writePc EXCEPT ![s] = "expired"]
    /\ UNCHANGED <<responseVars, paused, queueVars, sessionVars, running, batch, qEntry,
                   opened, wire, clientVars, unanswered>>

(* "timeout" is notified; its handlers may send or disconnect.             *)
ResponseTimeout(s) ==
    /\ running = Idle
    /\ writePc[s] = "expired"
    /\ Settled(s)
    /\ LET pcs == [writePc EXCEPT ![s] = "top"]
       IN  \/ /\ Quiet(pcs) \/ Reply(FALSE, pcs)
              /\ unanswered' = unanswered \ {qEntry[s]}
           \/ /\ "drop_on_timeout" \in Habits
              /\ ClientDisconnect(<<"write", s>>, pcs)
    /\ UNCHANGED <<batch, qEntry, opened, wire>>

-----------------------------------------------------------------------------
(* _heartbeat_timer                                                        *)

(* The task starts, or was woken by data: clear the event and wait again.  *)
HeartbeatRun(s) ==
    /\ running = Idle
    /\ heartbeatPc[s] \in {"new", "beaten"}
    /\ heartbeatPc' = [heartbeatPc EXCEPT ![s] = "waiting"]
    /\ UNCHANGED <<writer, responseVars, paused, queueVars, tasks, running, batch, writePc,
                   qEntry, readPc, connects, opened, link, wire, clientVars, balance,
                   unanswered>>

(* HEARTBEAT_TIME passes without data. On a link that is up this is a long  *)
(* silence; it is bounded by leaving the last session in peace.             *)
HeartbeatTimer(s) ==
    /\ running = Idle
    /\ heartbeatPc[s] \in {"waiting", "beaten"}
    /\ link[s] = "up" => opened < MaxSession
    /\ heartbeatPc' = [heartbeatPc EXCEPT ![s] = "expired"]
    /\ UNCHANGED <<writer, responseVars, paused, queueVars, tasks, running, batch, writePc,
                   qEntry, readPc, connects, opened, link, wire, clientVars, balance,
                   unanswered>>

(* While paused the task only waits again.                                 *)
HeartbeatIgnored(s) ==
    /\ running = Idle
    /\ heartbeatPc[s] = "expired"
    /\ paused
    /\ heartbeatPc' = [heartbeatPc EXCEPT ![s] = "waiting"]
    /\ UNCHANGED <<writer, responseVars, paused, queueVars, tasks, running, batch, writePc,
                   qEntry, readPc, connects, opened, link, wire, clientVars, balance,
                   unanswered>>

(* Otherwise it disconnects, then runs connect() itself, outside _tasks.   *)
LeavesItToClient == [connects EXCEPT !["new"] = @ + NewConnect]     \* slip: no connect()
Reconnecting == [connects EXCEPT !["new"] = @ + NewConnect, !["opening"] = @ + 1]

HeartbeatLost(s) ==
    /\ running = Idle
    /\ heartbeatPc[s] = "expired"
    /\ ~paused
    /\ Disconnect(<<"heartbeat", s>>, writePc, [heartbeatPc EXCEPT ![s] = "done"])
    /\ connects' = Reconnecting
    /\ wanted' = (wanted \/ "reconnect" \in Habits)
    /\ UNCHANGED <<responseVars, paused, queueVars, running, batch, qEntry, opened, wire,
                   sent, called>>

-----------------------------------------------------------------------------
(* The network: the peer closes or resets the stream, or falls silent for  *)
(* ever. The last session is left in peace.                                 *)
LinkLost(s) ==
    /\ link[s] = "up"
    /\ opened < MaxSession
    /\ \E fate \in {"eof", "dead"} : link' = [link EXCEPT ![s] = fate]
    /\ UNCHANGED <<writer, responseVars, paused, queueVars, tasks, running, batch, writePc,
                   qEntry, readPc, heartbeatPc, connects, opened, wire, clientVars, balance,
                   unanswered>>

-----------------------------------------------------------------------------
Client == AppConnect \/ AppSend \/ AppDisconnect

Connect == ConnectStart \/ SleepDone \/ OpenFail
              \/ \E s \in Session : OpenOk(s) \/ OpenAndDrop(s)

Reader(s) == ReadData(s) \/ HandleLine(s) \/ ReadEnd(s)

Writer(s) == WriterPark(s) \/ WriterExit(s) \/ WriterSend(s)
                \/ ResponseSeen(s) \/ ResponseTimer(s) \/ ResponseTimeout(s)

Heartbeat(s) == HeartbeatRun(s) \/ HeartbeatTimer(s) \/ HeartbeatIgnored(s) \/ HeartbeatLost(s)

Next ==
    \/ Client
    \/ Connect
    \/ \E s \in Session : Reader(s) \/ Writer(s) \/ Heartbeat(s) \/ LinkLost(s)

Spec == Init /\ [][Next]_vars

(* The ready queue of asyncio is first in, first out: a task that can run   *)
(* does run, however often others run before it. A deadline passes unless   *)
(* its wait ends: the messages are bounded, so infinitely many chances are  *)
(* all of one wait; and a stream that is not up delivers nothing that would *)
(* push the heartbeat's deadline back. The panel can be reached again: not  *)
(* every attempt to connect fails.                                          *)
WriterStep(s) == WriterPark(s) \/ WriterExit(s) \/ WriterSend(s)
                    \/ ResponseSeen(s) \/ ResponseTimeout(s)
HeartbeatStep(s) == HeartbeatRun(s) \/ HeartbeatIgnored(s) \/ HeartbeatLost(s)
SilenceNoticed(s) == link[s] # "up" /\ HeartbeatTimer(s)

TasksRun ==
    /\ WF_vars(\E s \in Session : HandleLine(s))
    /\ SF_vars(\E s \in Session : WriterStep(s))
    /\ SF_vars(\E s \in Session : HeartbeatStep(s))
    /\ SF_vars(ConnectStart \/ SleepDone)

DeadlinesPass ==
    /\ SF_vars(\E s \in Session : ResponseTimer(s))
    /\ SF_vars(\E s \in Session : SilenceNoticed(s))

PanelReachable == SF_vars(\E s \in Session : OpenOk(s))

FairSpec == Spec /\ TasksRun /\ DeadlinesPass /\ PanelReachable

-----------------------------------------------------------------------------
(* Every variable has its type.                                            *)
TypeOK ==
    /\ writer \in 0..MaxSession
    /\ awaitingResponse \in Cmd \cup {NoCmd}
    /\ paused \in BOOLEAN
    /\ writeQueue \in Seq(Entry)
    /\ checkWriteQueue \in BOOLEAN
    /\ responseReceived \in BOOLEAN
    /\ tasks \subseteq Task
    /\ running \in {Idle} \cup ({"read", "write"} \X Session)
    /\ batch \in Nat
    /\ writePc \in [Session -> WriteState]
    /\ qEntry \in [Session -> Entry]
    /\ readPc \in [Session -> {"none", "reading", "done"}]
    /\ heartbeatPc \in [Session -> HeartbeatState]
    /\ connects \in [ConnectState -> Nat]
    /\ opened \in 0..MaxSession
    /\ link \in [Session -> {"none", "up", "eof", "dead", "closed"}]
    /\ wire \in [Session -> Seq(Entry)]
    /\ sent \in 0..MaxSend
    /\ called \in 0..MaxCall
    /\ wanted \in BOOLEAN
    /\ balance \in Int
    /\ unanswered \subseteq Entry

(* No lost wake-up: a write task that sleeps on _check_write_queue has no   *)
(* message to write and has not missed a set(); whatever ran between its    *)
(* test of the queue and its wait (connection.py:123-133 and 135-142).      *)
NoStrandedMessage ==
    \A s \in Session :
        writePc[s] = "parked" => writeQueue = <<>> /\ ~checkWriteQueue

(* Remote programming: once pause() returned nothing is queued, so that no  *)
(* write task can write before resume() (connection.py:135-142, 156-163).   *)
PausedIsEmpty == paused => writeQueue = <<>>

(* The same seen from the wire: no step that begins while paused writes.    *)
QuietWhilePaused == [][paused => wire' = wire]_vars

(* Flow control of the first session: a request on the wire that has had    *)
(* neither answer nor timeout is the one some write task waits for; so two  *)
(* are never outstanding (connection.py:92-93, 113-121, 131-133).           *)
AwaitedBy(e) == \E s \in Session :
    writePc[s] \in {"awaiting", "answered", "expired"} /\ qEntry[s] = e

FirstSessionPaced == opened <= 1 => \A e \in unanswered : AwaitedBy(e)

(* Two write tasks would share the queue, the awaited command and its       *)
(* event: at most one is alive, and it is the one of the open session       *)
(* (connection.py:75-78, 165-175, 180-191).                                 *)
WriterAlive(s) == writePc[s] \notin {"none", "done"}

SingleWriter == \A s \in Session : WriterAlive(s) => s = writer

(* disconnect() leaves nothing behind: a task that is alive can still be    *)
(* cancelled, or it is the one that called disconnect and either has not    *)
(* yet given the loop back or will find its stream closed                   *)
(* (connection.py:165-175).                                                 *)
NoLeakedTask ==
    \A s \in Session :
        /\ WriterAlive(s) => <<"write", s>> \in tasks \cup {running}
        /\ heartbeatPc[s] \notin {"none", "done"} => <<"heartbeat", s>> \in tasks
        /\ readPc[s] = "reading" => <<"read", s>> \in tasks \/ link[s] = "closed"

(* "connected" and "disconnected" alternate and tell what is_connected()    *)
(* tells (connection.py:79, 152-154, 165-175).                              *)
EventsMatchState == balance = (IF writer = 0 THEN 0 ELSE 1)

(* A client whose last call was disconnect gets no new session: neither a   *)
(* sleeping attempt nor the heartbeat opens one (connection.py:54, 165-175, *)
(* 189-190).                                                                *)
DisconnectIsFinal == [][opened' # opened => wanted]_vars

(* A session whose stream is lost ends, even when no byte and no end of     *)
(* file tells: the heartbeat replaces it, or the client gave it up          *)
(* (connection.py:180-191).                                                 *)
LostLinkReplaced ==
    \A s \in Session :
        (writer = s /\ link[s] \in {"eof", "dead"})
            ~> (writer # s /\ (writer # 0 \/ ~wanted))
=============================================================================
