-------------------------- MODULE Synchronization --------------------------
(***************************************************************************)
(* elkm1_lib/elk.py and elements.py: how a session reads the panel. The    *)
(* greeting asks for the state of every kind of element and for the first  *)
(* description of the kind; each SD response asks for the next one, ahead  *)
(* of everything queued; the UA response at the end says that the          *)
(* synchronisation is complete.                                            *)
(*                                                                         *)
(* Of Connection this module keeps the queue, the request that is waited   *)
(* for and the rule that the next one is written when it was answered or   *)
(* timed out. A reader that has several lines in hand handles them all     *)
(* before anything else runs.                                              *)
(***************************************************************************)
EXTENDS Integers, Sequences, FiniteSets, SequencesExt

CONSTANTS
    Kind,           \* the kinds of elements: zones, counters, ...
    NoKind,         \* of a message that is about no kind
    Order,          \* element_list: the kinds in the order of their sync()
    MaxUnit,        \* the last index of a kind
    Stateful,       \* kinds that ask for their state before the descriptions
    Counters,       \* kinds that ask for a value, and wait, once configured
    Thermostats,    \* kinds that ask for a value and do not wait
    Describable,    \* the elements the panel may have a description of
    Unnamed,        \* users whose description is the placeholder "USER nnn"
    Secure,         \* does the panel want a user id and a password?
    Habits,         \* what the client does, see Habit
    MaxSession,     \* bound: sessions
    MaxLost,        \* bound: answers lost or late
    MaxExit,        \* bound: exits from installer mode
    MaxProgram,     \* bound: times the panel is programmed remotely
    MaxBatch        \* bound: lines in one read

(* ua_on_sync: sends UA when told that the synchronisation is complete;     *)
(* drop_on_ua: may disconnect in a handler of UA (simple_program.py).       *)
Habit == {"ua_on_sync", "drop_on_ua"}

ASSUME SynchronizationAssumption ==
    /\ NoKind \notin Kind
    /\ Order \in Seq(Kind)
    /\ Stateful \subseteq Kind /\ Counters \subseteq Kind /\ Thermostats \subseteq Kind
    /\ Describable \subseteq ToSet(Order) \X (0..MaxUnit) /\ Unnamed \subseteq Describable
    /\ Secure \in BOOLEAN /\ Habits \subseteq Habit
    /\ {MaxUnit, MaxSession, MaxLost, MaxExit, MaxProgram, MaxBatch} \subseteq Nat

Unit == 0..MaxUnit
NoUnit == -1        \* what the panel says when no description is left

Request ==
    [what : {"userid", "password", "vn", "ua"}, kind : {NoKind}, unit : {0}]
        \cup [what : {"status"}, kind : Kind \cup {NoKind}, unit : {0}]
        \cup [what : {"sd"}, kind : Kind, unit : 0..MaxUnit + 1]
        \cup [what : {"value"}, kind : Kind, unit : Unit]

(* A line of the panel. "edition" counts what was programmed: it stands for *)
(* the text of a description.                                              *)
Line == [what : {"granted", "refused", "vn", "ua", "status", "sd", "value", "ie",
                 "rp_on", "rp_off"},
         kind : Kind \cup {NoKind}, unit : Unit \cup {NoUnit}, edition : 0..MaxExit + 1]

VARIABLES
    \* of the connection
    up,             \* is a session open?
    queue,          \* _write_queue
    awaited,        \* the request whose response the write task waits for
    paused,         \* _paused
    hand,           \* lines the reader has in hand
    \* of Elk and the elements
    loggedIn,       \* _logged_in
    uaHandler,      \* is _sync_complete attached to UA?
    textDesc,       \* the kinds whose _text_desc is set
    name,           \* the edition of the name of each element, 0 for the default
    value,          \* the edition of the value of each element, 0 when not known
    \* the panel
    described,      \* the elements it has a description of
    edition,        \* counts what was programmed
    programmed,     \* is it programmed remotely?
    granted,        \* did the session give its password?
    line,           \* lines on their way to the client
    \* bounds and history
    opened, lost, programs,
    logins,         \* successful logins notified in this session
    disturbed       \* did anything disturb the last synchronisation?

connVars == <<up, queue, awaited, paused, hand>>
elkVars == <<loggedIn, uaHandler, textDesc, name, value>>
panelVars == <<described, edition, programmed, granted, line>>
vars == <<connVars, elkVars, panelVars, opened, lost, programs, logins, disturbed>>

Element == Kind \X Unit
NoRequest == [what |-> "none", kind |-> NoKind, unit |-> 0]
Req(what, k, u) == [what |-> what, kind |-> k, unit |-> u]

Init ==
    /\ up = FALSE /\ queue = <<>> /\ awaited = NoRequest /\ paused = FALSE /\ hand = <<>>
    /\ loggedIn = FALSE /\ uaHandler = FALSE /\ textDesc = {}
    /\ name = [e \in Element |-> 0] /\ value = [e \in Element |-> 0]
    /\ described \in SUBSET Describable
    /\ edition = 1 /\ programmed = FALSE /\ granted = FALSE /\ line = <<>>
    /\ opened = 0 /\ lost = 0 /\ programs = 0 /\ logins = 0 /\ disturbed = FALSE

-----------------------------------------------------------------------------
(* The requests of a synchronisation, _call_sync_handlers: version and      *)
(* state of the panel, state and first description of every kind, and the  *)
(* marker of the end.                                                      *)
KindSync(k) ==
    (IF k \in Stateful THEN <<Req("status", k, 0)>> ELSE <<>>) \o <<Req("sd", k, 0)>>

NoMarker ==     \* slip: no ua at the end
    <<Req("vn", NoKind, 0), Req("status", NoKind, 0)>>
        \o FlattenSeq([i \in 1..Len(Order) |-> KindSync(Order[i])])
Sync ==
    <<Req("vn", NoKind, 0), Req("status", NoKind, 0)>>
        \o FlattenSeq([i \in 1..Len(Order) |-> KindSync(Order[i])])
        \o <<Req("ua", NoKind, 0)>>

Credentials ==
    IF Secure THEN <<Req("userid", NoKind, 0), Req("password", NoKind, 0)>> ELSE <<>>

(* send(): nothing is queued while paused.                                 *)
Queued(q, es) == IF paused THEN q ELSE q \o es
QueuedLast(q, es) == IF paused THEN q ELSE q \o es     \* slip: no priority_send
QueuedFirst(q, es) == IF paused THEN q ELSE es \o q

(* Is anything on its way that the last synchronisation, or what came      *)
(* before it, has asked for?                                               *)
Pending == queue # <<>> \/ awaited # NoRequest \/ hand # <<>> \/ line # <<>>

Begin(greeting) ==
    /\ queue' = Queued(queue, greeting)
    /\ uaHandler' = TRUE
    /\ textDesc' = {Order[i] : i \in 1..Len(Order)}

(* A session opens; _connected sends the credentials and synchronises.     *)
Open ==
    /\ ~up /\ hand = <<>>
    /\ opened < MaxSession
    /\ opened' = opened + 1
    /\ up' = TRUE
    /\ Begin(Credentials \o Sync)
    /\ granted' = ~Secure
    /\ logins' = 0
    /\ disturbed' = (paused \/ Pending)
    /\ UNCHANGED <<awaited, paused, hand, loggedIn, name, value, described, edition,
                   programmed, line, lost, programs>>

(* disconnect(): the write task ends at its await, the queue stays.        *)
Disconnect ==
    /\ up' = FALSE
    /\ awaited' = NoRequest
    /\ line' = <<>>
    /\ loggedIn' = FALSE
    /\ disturbed' = TRUE

Drop ==
    /\ up /\ hand = <<>>
    /\ opened < MaxSession
    /\ Disconnect
    /\ UNCHANGED <<queue, paused, hand, uaHandler, textDesc, name, value, described,
                   edition, programmed, granted, opened, lost, programs, logins>>

-----------------------------------------------------------------------------
(* The write task and the panel that answers it.                           *)

(* The panel answers a description request with the first description at or *)
(* after the unit asked for.                                               *)
Found(k, u) == {v \in Unit : v >= u /\ <<k, v>> \in described}
FirstFound(k, u) ==
    IF Found(k, u) = {} THEN NoUnit
    ELSE CHOOSE v \in Found(k, u) : \A w \in Found(k, u) : v <= w

Reply(r) ==
    LET Says(what) == [what |-> what, kind |-> r.kind, unit |-> r.unit, edition |-> edition]
    IN  CASE r.what = "password" -> {Says("granted"), Says("refused")}
          [] r.what = "sd" -> {[Says("sd") EXCEPT !.unit = FirstFound(r.kind, r.unit)]}
          [] OTHER -> {Says(r.what)}

(* The response a request waits for. tr_encode waits for none.             *)
Waits(r) == r.what \in {"vn", "status", "sd", "ua"} \/ (r.what = "value" /\ r.kind \in Counters)

(* The panel says nothing while it is programmed, before it granted access  *)
(* and, afterwards, to a password.                                         *)
Mute(r) == programmed \/ r.what = "userid" \/ (granted <=> r.what = "password")

Write ==
    /\ up /\ hand = <<>>
    /\ awaited = NoRequest
    /\ queue # <<>>
    /\ queue' = Tail(queue)
    /\ LET r == Head(queue)
       IN  /\ awaited' = IF Waits(r) THEN r ELSE NoRequest
           /\ \/ /\ ~Mute(r)
                 /\ \E answer \in Reply(r) :
                       /\ line' = Append(line, answer)
                       /\ granted' = (granted \/ answer.what = "granted")
                 /\ UNCHANGED lost
              \/ /\ ~Mute(r)
                 /\ lost < MaxLost
                 /\ lost' = lost + 1
                 /\ UNCHANGED <<line, granted>>
              \/ /\ Mute(r)
                 /\ UNCHANGED <<line, granted, lost>>
           /\ disturbed' = (disturbed \/ (line' = line /\ r.what # "userid"))
    /\ UNCHANGED <<up, paused, hand, elkVars, described, edition, programmed, opened,
                   programs, logins>>

(* get_elk_command(line) == _awaiting_response_command.                    *)
Answers(l, r) ==
    /\ l.what = r.what
    /\ r.what = "status" => l.kind = r.kind
    /\ r.what = "value" => l.kind \in Counters

OnItsWay(r) == \E i \in 1..Len(line) : Answers(line[i], r)

(* The deadline of the response passes: it was lost, or it is late.        *)
Timeout ==
    /\ up /\ hand = <<>>
    /\ awaited # NoRequest
    /\ \/ ~OnItsWay(awaited) /\ UNCHANGED lost
       \/ OnItsWay(awaited) /\ lost < MaxLost /\ lost' = lost + 1
    /\ awaited' = NoRequest
    /\ disturbed' = TRUE
    /\ UNCHANGED <<up, queue, paused, hand, elkVars, panelVars, opened, programs, logins>>

-----------------------------------------------------------------------------
(* The read task. Handle(l) is what the handlers of a line do.             *)

Read ==
    /\ up /\ hand = <<>>
    /\ \E n \in 1..MaxBatch :
          /\ n <= Len(line)
          /\ hand' = SubSeq(line, 1, n)
          /\ line' = SubSeq(line, n + 1, Len(line))
    /\ UNCHANGED <<up, queue, awaited, paused, elkVars, described, edition, programmed,
                   granted, opened, lost, programs, logins, disturbed>>

Answered(l) == awaited' = IF Answers(l, awaited) THEN NoRequest ELSE awaited

(* _sd_handler of the kind of the line. An element that becomes configured *)
(* asks for its value first, so that the next description overtakes that.  *)
SkipsOne(l) == <<Req("sd", l.kind, l.unit + 2)>>     \* slip: unit + 1 twice
AsksAgain(l) == <<Req("sd", l.kind, l.unit)>>        \* slip: no unit + 1
NextRequests(l) ==
    <<Req("sd", l.kind, l.unit + 1)>>
        \o (IF l.kind \in Counters \cup Thermostats /\ <<l.kind, l.unit>> \notin Unnamed
            THEN <<Req("value", l.kind, l.unit)>> ELSE <<>>)

HandleDescription(l) ==
    /\ l.what = "sd"
    /\ \/ /\ l.kind \in textDesc /\ l.unit # NoUnit
          /\ name' = IF <<l.kind, l.unit>> \in Unnamed THEN name
                     ELSE [name EXCEPT ![<<l.kind, l.unit>>] = l.edition]
          /\ queue' = QueuedFirst(queue, NextRequests(l))
          /\ UNCHANGED textDesc
       \/ /\ l.kind \in textDesc => l.unit = NoUnit
          /\ textDesc' = textDesc \ {l.kind}
          /\ UNCHANGED <<name, queue>>
    /\ Answered(l)
    /\ UNCHANGED <<up, paused, loggedIn, uaHandler, value, line, logins, disturbed>>

HandleValue(l) ==
    /\ l.what \in {"value", "status"}
    /\ value' = IF l.what = "value" THEN [value EXCEPT ![<<l.kind, l.unit>>] = l.edition]
                ELSE value
    /\ Answered(l)
    /\ UNCHANGED <<up, queue, paused, loggedIn, uaHandler, textDesc, name, line, logins,
                   disturbed>>

(* "login" is notified when the panel says so and by the first VN.         *)
LogsInAgain(l) ==     \* slip: no test of _logged_in
    /\ l.what \in {"granted", "vn"}
    /\ loggedIn' = TRUE
    /\ logins' = logins + 1
    /\ Answered(l)
    /\ UNCHANGED <<up, queue, paused, uaHandler, textDesc, name, value, line, disturbed>>
HandleLogin(l) ==
    /\ \/ l.what = "granted"
       \/ l.what = "vn" /\ ~loggedIn
    /\ loggedIn' = TRUE
    /\ logins' = logins + 1
    /\ Answered(l)
    /\ UNCHANGED <<up, queue, paused, uaHandler, textDesc, name, value, line, disturbed>>

HandleVersion(l) ==
    /\ l.what = "vn" /\ loggedIn
    /\ Answered(l)
    /\ UNCHANGED <<up, queue, paused, elkVars, line, logins, disturbed>>

HandleRefusal(l) ==
    /\ l.what = "refused"
    /\ Disconnect
    /\ UNCHANGED <<queue, paused, uaHandler, textDesc, name, value, logins>>

(* UA: the first one since a synchronisation began ends it; a handler of    *)
(* "sync_complete" may send UA, one of UA may disconnect.                   *)
HandleUA(l) ==
    /\ l.what = "ua"
    /\ uaHandler' = FALSE
    /\ queue' = IF uaHandler /\ "ua_on_sync" \in Habits
                THEN Queued(queue, <<Req("ua", NoKind, 0)>>) ELSE queue
    /\ \/ /\ Answered(l)
          /\ UNCHANGED <<up, loggedIn, line, disturbed>>
       \/ /\ "drop_on_ua" \in Habits
          /\ up
          /\ Disconnect
    /\ UNCHANGED <<paused, textDesc, name, value, logins>>

(* IE: the panel left installer mode, everything is read again.            *)
HandleExit(l) ==
    /\ l.what = "ie"
    /\ Begin(Sync)
    /\ disturbed' = (~up \/ paused \/ queue # <<>> \/ awaited # NoRequest
                        \/ Len(hand) > 1 \/ line # <<>>)
    /\ UNCHANGED <<up, awaited, paused, loggedIn, name, value, line, logins>>

(* RP: pause and resume.                                                   *)
HandleProgramming(l) ==
    /\ \/ /\ l.what = "rp_on"
          /\ queue' = <<>>
          /\ paused' = TRUE
          /\ disturbed' = TRUE
       \/ /\ l.what = "rp_off"
          /\ paused' = FALSE
          /\ UNCHANGED <<queue, disturbed>>
    /\ UNCHANGED <<up, awaited, elkVars, line, logins>>

HandleLine ==
    /\ hand # <<>>
    /\ hand' = Tail(hand)
    /\ LET l == Head(hand)
       IN  \/ HandleDescription(l) \/ HandleValue(l) \/ HandleLogin(l) \/ HandleVersion(l)
           \/ HandleRefusal(l) \/ HandleUA(l) \/ HandleExit(l) \/ HandleProgramming(l)
    /\ UNCHANGED <<described, edition, programmed, granted, opened, lost, programs>>

-----------------------------------------------------------------------------
(* The panel is programmed, at a keypad or remotely. Leaving installer mode *)
(* makes every text a new one and adds or removes at most one description.  *)

Tell(what) ==
    line' = IF up /\ granted
            THEN Append(line, [what |-> what, kind |-> NoKind, unit |-> 0, edition |-> edition])
            ELSE line

ExitInstaller ==
    /\ hand = <<>>
    /\ edition <= MaxExit
    /\ edition' = edition + 1
    /\ \E e \in Describable : described' \in {described, described \cup {e}, described \ {e}}
    /\ Tell("ie")
    /\ disturbed' = TRUE
    /\ UNCHANGED <<connVars, elkVars, programmed, granted, opened, lost, programs, logins>>

Program ==
    /\ hand = <<>>
    /\ ~programmed /\ programs < MaxProgram
    /\ programmed' = TRUE
    /\ programs' = programs + 1
    /\ Tell("rp_on")
    /\ UNCHANGED <<connVars, elkVars, described, edition, granted, opened, lost, logins,
                   disturbed>>

ProgramDone ==
    /\ hand = <<>>
    /\ programmed
    /\ programmed' = FALSE
    /\ Tell("rp_off")
    /\ UNCHANGED <<connVars, elkVars, described, edition, granted, opened, lost, programs,
                   logins, disturbed>>

-----------------------------------------------------------------------------
Panel == ExitInstaller \/ Program \/ ProgramDone

Next == Open \/ Drop \/ Write \/ Timeout \/ Read \/ HandleLine \/ Panel

Spec == Init /\ [][Next]_vars

(* The tasks run, the deadline of a lost response passes.                  *)
FairSpec == Spec /\ WF_vars(Write) /\ WF_vars(Timeout) /\ WF_vars(Read) /\ WF_vars(HandleLine)

-----------------------------------------------------------------------------
TypeOK ==
    /\ up \in BOOLEAN /\ queue \in Seq(Request) /\ awaited \in Request \cup {NoRequest}
    /\ paused \in BOOLEAN /\ hand \in Seq(Line)
    /\ loggedIn \in BOOLEAN /\ uaHandler \in BOOLEAN /\ textDesc \subseteq Kind
    /\ name \in [Element -> 0..MaxExit + 1] /\ value \in [Element -> 0..MaxExit + 1]
    /\ described \subseteq Describable /\ edition \in 1..MaxExit + 1
    /\ programmed \in BOOLEAN /\ granted \in BOOLEAN /\ line \in Seq(Line)
    /\ opened \in 0..MaxSession /\ lost \in 0..MaxLost /\ programs \in 0..MaxProgram
    /\ logins \in Nat /\ disturbed \in BOOLEAN

(* What the client knows of every element the panel describes is what was  *)
(* programmed last.                                                        *)
AllRead ==
    \A e \in described \ Unnamed :
        /\ name[e] = edition
        /\ e[1] \in Counters \cup Thermostats => value[e] = edition

SyncCompletes == uaHandler /\ ~uaHandler'

(* When nothing was lost, late, muted or programmed, "sync_complete" comes  *)
(* after every description and value was read: the requests the responses  *)
(* trigger overtake the marker (elk.py:103-116, elements.py:131-147).      *)
UndisturbedMeansRead == [][SyncCompletes => disturbed \/ AllRead]_vars

(* The same in every case.                                                 *)
CompleteMeansRead == [][SyncCompletes => AllRead]_vars

(* A session has one successful login (elk.py:84-101).                      *)
OneLogin == up => logins <= 1

(* A synchronisation that nothing disturbed is announced by the time that   *)
(* every request was answered (elk.py:103-116).                             *)
SyncAnnounced == up /\ ~Pending /\ ~disturbed => ~uaHandler

(* The chains of requests end: the queue of a session runs empty.          *)
ChainsEnd == <>[](queue = <<>> \/ ~up)
=============================================================================
