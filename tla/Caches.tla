------------------------------- MODULE Caches -------------------------------
(***************************************************************************)
(* areas.py, zones.py, outputs.py and lights.py of elkm1_lib: what the     *)
(* client knows of the panel. The panel says what changes in lines of      *)
(* their own (ZC, CC, PC, EE) or in a report of everything of a kind (AS); *)
(* two lines only hint at a change and make a handler ask for the report:  *)
(* AS for the alarms of the zones, ZB for the zones when all of an area    *)
(* were bypassed. A synchronisation asks for every report.                 *)
(*                                                                         *)
(* Of the connection this module keeps the queue, what a pause and the end *)
(* of a session lose, and lines with a wrong checksum; that requests wait  *)
(* for their responses only delays them. A status, a level or a state is   *)
(* represented by how often it has changed.                                *)
(***************************************************************************)
EXTENDS Integers, Sequences, SequencesExt

CONSTANTS
    MaxZone, MaxArea, MaxOutput,    \* the last index of a kind
    BankSize, MaxBank,              \* lights in a bank, the last bank
    AreaOf,                         \* the area of each zone
    ElementLists,   \* what a client may have as element_list, in the order of their sync()
    MaxChange,      \* bound: changes at the panel and calls of the client
    MaxTrouble      \* bound: sessions dropped, lines garbled, remote programmings

Zone == 0..MaxZone
Area == 0..MaxArea
Output == 0..MaxOutput
Bank == 0..MaxBank
Light == 0..(MaxBank + 1) * BankSize - 1
Kind == {"zones", "lights", "areas", "outputs"}

(* The numbers of zb and ZB: those of zones begin at 1, 0 and 999 are every  *)
(* zone of an area.                                                        *)
AllZones == 999
ZbNumbers == 0..MaxZone + 1 \cup {AllZones}

ASSUME CachesAssumption ==
    /\ {MaxZone, MaxArea, MaxOutput, MaxBank} \subseteq Nat
    /\ BankSize \in Nat \ {0}
    /\ MaxZone < AllZones - 1
    /\ AreaOf \in [Zone -> Area]
    /\ ElementLists \subseteq Seq(Kind)
    /\ {MaxChange, MaxTrouble} \subseteq Nat

(* What there is to know of the panel; Unknown is what an element holds     *)
(* before the first report.                                                *)
Unknown == "None"
Version == Nat
View == [zone : [Zone -> Version], output : [Output -> Version], light : [Light -> Version],
         armed : [Area -> {"armed", "disarmed", Unknown}],
         alarm : [Area -> {"active", "none", Unknown}],
         triggered : [Zone -> BOOLEAN]]

Report == [cmd : {"AS", "AZ", "ZS", "CS"}, bank : {0}] \cup [cmd : {"PS"}, bank : Bank]

Request ==
    [cmd : {"as", "az", "zs", "cs"}, number : {0}, area : {0}]
        \cup [cmd : {"ps"}, number : Bank, area : {0}]
        \cup [cmd : {"arm", "disarm"}, number : {0}, area : Area]
        \cup [cmd : {"zb"}, number : ZbNumbers, area : Area]
        \cup [cmd : {"cn"}, number : Output, area : {0}]
        \cup [cmd : {"pc"}, number : Light, area : {0}]

Line ==
    [cmd : {"ZC"}, index : Zone, status : Version]
        \cup [cmd : {"CC"}, index : Output, status : Version]
        \cup [cmd : {"PC"}, index : Light, status : Version]
        \cup [cmd : {"EE"}, area : Area, armed_status : {"armed", "disarmed"}]
        \cup [cmd : {"AS"}, armed_statuses : [Area -> {"armed", "disarmed"}],
              alarm_states : [Area -> {"active", "none"}]]
        \cup [cmd : {"AZ"}, alarm_status : [Zone -> BOOLEAN]]
        \cup [cmd : {"ZS"}, zone_statuses : [Zone -> Version]]
        \cup [cmd : {"CS"}, output_status : [Output -> Version]]
        \cup [cmd : {"PS"}, bank : Bank, statuses : [0..BankSize - 1 -> Version]]
        \cup [cmd : {"ZB"}, zone_number : -1..MaxZone \cup {AllZones - 1}]
        \cup [cmd : {"RP"}, connected : BOOLEAN]
        \cup [cmd : {"IE"}]

VARIABLES
    elementList,    \* element_list; the panel has nothing of a kind that is not listed
    panel,          \* what is the case
    cache,          \* what the elements hold
    programmed,     \* is the panel programmed remotely?
    open,           \* is a session open?
    paused,         \* _paused
    queue,          \* _write_queue
    line,           \* lines on their way to the client
    lost,           \* history: reports that the client can no longer count on
    changes, troubles       \* bounds

bounds == <<changes, troubles>>
vars == <<elementList, panel, cache, programmed, open, paused, queue, line, lost, bounds>>

Init ==
    /\ elementList \in ElementLists
    /\ panel = [zone |-> [z \in Zone |-> 1], output |-> [o \in Output |-> 1],
                light |-> [l \in Light |-> 1], armed |-> [a \in Area |-> "disarmed"],
                alarm |-> [a \in Area |-> "none"], triggered |-> [z \in Zone |-> FALSE]]
    /\ cache = [zone |-> [z \in Zone |-> 0], output |-> [o \in Output |-> 0],
                light |-> [l \in Light |-> 0], armed |-> [a \in Area |-> Unknown],
                alarm |-> [a \in Area |-> Unknown], triggered |-> [z \in Zone |-> FALSE]]
    /\ programmed = FALSE /\ open = FALSE /\ paused = FALSE
    /\ queue = <<>> /\ line = <<>> /\ lost = Report
    /\ changes = 0 /\ troubles = 0

-----------------------------------------------------------------------------
(* Requests. as_encode() and the others.                                   *)

Req(cmd, number, area) == [cmd |-> cmd, number |-> number, area |-> area]
Rep(cmd) == [cmd |-> cmd, bank |-> 0]

(* zb_encode: zone < 0 is every zone, to clear, > Max.ZONES to bypass.      *)
Unbounded(zone) == zone + 1     \* slip: 999 is a zone as well
ZbNumber(zone) == IF zone < 0 THEN 0 ELSE IF zone > MaxZone + 1 THEN AllZones ELSE zone + 1

LightBanks == [b \in 1..MaxBank + 1 |-> Req("ps", b - 1, 0)]
KindSync(k) ==
    CASE k = "zones" -> <<Req("az", 0, 0), Req("zs", 0, 0)>>
      [] k = "lights" -> LightBanks
      [] k = "areas" -> <<Req("as", 0, 0)>>
      [] k = "outputs" -> <<Req("cs", 0, 0)>>
Sync == FlattenSeq([i \in 1..Len(elementList) |-> KindSync(elementList[i])])

Has(k) == k \in ToSet(elementList)

(* Reports that a request or a line was to bring or to ask for.             *)
Wanted(r) ==
    {q \in {Rep("AZ"), Rep("ZS")} : <<r.cmd, q.cmd>> \in {<<"az", "AZ">>, <<"zs", "ZS">>}}

Told(l) ==
    CASE l.cmd = "ZC" -> {Rep("ZS")}
      [] l.cmd = "CC" -> {Rep("CS")}
      [] l.cmd = "PC" -> {[cmd |-> "PS", bank |-> l.index \div BankSize]}
      [] l.cmd = "AS" -> {Rep("AS"), Rep("AZ")}
      [] l.cmd = "EE" -> {Rep("AS")}
      [] l.cmd = "ZB" -> IF l.zone_number \in Zone THEN {} ELSE {Rep("ZS")}
      [] l.cmd \in {"AZ", "ZS", "CS"} -> {Rep(l.cmd)}
      [] l.cmd = "PS" -> {[cmd |-> "PS", bank |-> l.bank]}
      [] OTHER -> {}

WantedBy(rs) == UNION {Wanted(rs[i]) : i \in DOMAIN rs}
ToldBy(ls) == UNION {Told(ls[i]) : i \in DOMAIN ls}

(* send(): nothing is queued while paused.                                 *)
Send(rs) ==
    /\ queue' = IF paused THEN queue ELSE queue \o rs
    /\ lost' = IF paused THEN lost \cup WantedBy(rs) ELSE lost

-----------------------------------------------------------------------------
(* The panel. It reports every change, unless nobody listens or it is being *)
(* programmed. The client takes the end of an alarm that it never saw for   *)
(* no change, so that only an answer to az restores the alarms then.        *)

ASLine(p) == [cmd |-> "AS", armed_statuses |-> p.armed, alarm_states |-> p.alarm]

Happens(p, ls) ==
    /\ panel' = p
    /\ line' = IF open /\ ~programmed THEN line \o ls ELSE line
    /\ lost' =
         IF open /\ ~programmed
         THEN (IF ASLine(p) \notin ToSet(ls) THEN lost
               ELSE IF Rep("AS") \in lost THEN (lost \cup {Rep("AZ")}) \ {Rep("AS")} ELSE lost)
         ELSE lost \cup ToldBy(ls)

ZoneChanges(z) ==
    LET p == [panel EXCEPT !.zone[z] = @ + 1]
    IN  Happens(p, <<[cmd |-> "ZC", index |-> z, status |-> p.zone[z]]>>)

OutputChanges(o) ==
    LET p == [panel EXCEPT !.output[o] = @ + 1]
    IN  Happens(p, <<[cmd |-> "CC", index |-> o, status |-> p.output[o]]>>)

LightChanges(l) ==
    LET p == [panel EXCEPT !.light[l] = @ + 1]
    IN  Happens(p, <<[cmd |-> "PC", index |-> l, status |-> p.light[l]]>>)

Triggers(z) ==
    LET p == [panel EXCEPT !.triggered[z] = TRUE, !.alarm[AreaOf[z]] = "active"]
    IN  Happens(p, <<ASLine(p)>>)

AlarmEnds(a) ==
    LET p == [panel EXCEPT !.alarm[a] = "none",
                           !.triggered = [z \in Zone |-> panel.triggered[z] /\ AreaOf[z] # a]]
    IN  Happens(p, <<ASLine(p)>>)

Armed(a) ==
    LET p == [panel EXCEPT !.armed[a] = "armed"]
    IN  Happens(p, <<[cmd |-> "EE", area |-> a, armed_status |-> "armed"], ASLine(p)>>)

Disarmed(a) ==
    LET p == [panel EXCEPT !.armed[a] = "disarmed"]
    IN  Happens(p, <<ASLine(p)>>)

(* A zone that is bypassed changes its status, all of an area do so without *)
(* a ZC.                                                                    *)
Bypassed(number, a) ==
    LET zb == [cmd |-> "ZB", zone_number |-> number - 1]
    IN  IF number - 1 \in Zone
        THEN LET z == number - 1
                 p == [panel EXCEPT !.zone[z] = @ + 1]
             IN  Happens(p, <<zb, [cmd |-> "ZC", index |-> z, status |-> p.zone[z]]>>)
        ELSE Happens([panel EXCEPT !.zone = [z \in Zone |-> IF AreaOf[z] = a THEN @[z] + 1 ELSE @[z]]],
                     <<zb>>)

Change ==
    /\ changes < MaxChange
    /\ changes' = changes + 1
    /\ \/ Has("zones") /\ \E z \in Zone : ZoneChanges(z) \/ Triggers(z)
       \/ Has("zones") /\ \E a \in Area, n \in ZbNumbers : Bypassed(n, a)
       \/ Has("outputs") /\ \E o \in Output : OutputChanges(o)
       \/ Has("lights") /\ \E l \in Light : LightChanges(l)
       \/ Has("areas") /\ \E a \in Area : AlarmEnds(a) \/ Armed(a) \/ Disarmed(a)
    /\ panel' # panel
    /\ UNCHANGED <<elementList, cache, programmed, open, paused, queue, troubles>>

Trouble ==
    /\ troubles < MaxTrouble
    /\ troubles' = troubles + 1

(* Remote programming and installer mode.                                   *)
Notice(l) == line' = IF open THEN Append(line, l) ELSE line

Program ==
    /\ ~programmed
    /\ Trouble
    /\ programmed' = TRUE
    /\ Notice([cmd |-> "RP", connected |-> TRUE])
    /\ UNCHANGED <<elementList, panel, cache, open, paused, queue, lost, changes>>

ProgramDone ==
    /\ programmed
    /\ programmed' = FALSE
    /\ \/ Notice([cmd |-> "RP", connected |-> FALSE])
       \/ line' = IF open THEN line \o <<[cmd |-> "RP", connected |-> FALSE], [cmd |-> "IE"]>>
                  ELSE line
    /\ UNCHANGED <<elementList, panel, cache, open, paused, queue, lost, bounds>>

-----------------------------------------------------------------------------
(* The client: its calls, the sessions, and what the panel does when a      *)
(* request is written.                                                     *)

(* Area.arm sends nothing for an area that it believes to be armed.         *)
FirstArmed(a) == cache.armed[0] \notin {Unknown, "disarmed"}     \* slip: of another area
IsArmed(a) == cache.armed[a] \notin {Unknown, "disarmed"}

Arm(a) == Send(IF IsArmed(a) THEN <<>> ELSE <<Req("arm", 0, a)>>)
Disarm(a) == Send(<<Req("disarm", 0, a)>>)
Bypass(z) == Send(<<Req("zb", ZbNumber(z), 0)>>)
BypassArea(a) == Send(<<Req("zb", ZbNumber(AllZones), a)>>)
ClearBypass(a) == Send(<<Req("zb", ZbNumber(-1), a)>>)
TurnOn(o) == Send(<<Req("cn", o, 0)>>)
Level(l) == Send(<<Req("pc", l, 0)>>)

Call ==
    /\ changes < MaxChange
    /\ changes' = changes + 1
    /\ \/ Has("areas") /\ \E a \in Area : Arm(a) \/ Disarm(a) \/ BypassArea(a) \/ ClearBypass(a)
       \/ Has("zones") /\ \E z \in Zone : Bypass(z)
       \/ Has("outputs") /\ \E o \in Output : TurnOn(o)
       \/ Has("lights") /\ \E l \in Light : Level(l)
    /\ UNCHANGED <<elementList, panel, cache, programmed, open, paused, line, troubles>>

Open ==
    /\ ~open
    /\ open' = TRUE
    /\ Send(Sync)
    /\ UNCHANGED <<elementList, panel, cache, programmed, paused, line, bounds>>

(* The queue outlives the session, what is on its way does not.             *)
Drop ==
    /\ open
    /\ Trouble
    /\ open' = FALSE
    /\ line' = <<>>
    /\ lost' = lost \cup ToldBy(line)
    /\ UNCHANGED <<elementList, panel, cache, programmed, paused, queue, changes>>

Answer(l) ==
    /\ line' = Append(line, l)
    /\ lost' = lost \ (IF l.cmd = "AS" THEN {Rep("AS")} ELSE Told(l))
    /\ UNCHANGED panel

Statuses(b) == [i \in 0..BankSize - 1 |-> panel.light[b * BankSize + i]]

(* What the panel answers to a query, or does when told to.                 *)
Obey(r) ==
    \/ r.cmd = "as" /\ Answer(ASLine(panel))
    \/ r.cmd = "az" /\ Answer([cmd |-> "AZ", alarm_status |-> panel.triggered])
    \/ r.cmd = "zs" /\ Answer([cmd |-> "ZS", zone_statuses |-> panel.zone])
    \/ r.cmd = "cs" /\ Answer([cmd |-> "CS", output_status |-> panel.output])
    \/ r.cmd = "ps" /\ Answer([cmd |-> "PS", bank |-> r.number, statuses |-> Statuses(r.number)])
    \/ r.cmd = "arm" /\ Armed(r.area)
    \/ r.cmd = "disarm" /\ Disarmed(r.area)
    \/ r.cmd = "zb" /\ Bypassed(r.number, r.area)
    \/ r.cmd = "cn" /\ OutputChanges(r.number)
    \/ r.cmd = "pc" /\ LightChanges(r.number)
    \/ /\ r.cmd \in {"arm", "disarm", "zb"}      \* a wrong code
       /\ UNCHANGED <<panel, line, lost>>

Write ==
    /\ open
    /\ queue # <<>>
    /\ queue' = Tail(queue)
    /\ \/ /\ ~programmed
          /\ Obey(Head(queue))
       \/ /\ programmed
          /\ lost' = lost \cup Wanted(Head(queue))
          /\ UNCHANGED <<panel, line>>
    /\ UNCHANGED <<elementList, cache, programmed, open, paused, bounds>>

-----------------------------------------------------------------------------
(* The handlers of the lines.                                              *)

HandleZC(l) ==
    /\ l.cmd = "ZC"
    /\ cache' = [cache EXCEPT !.zone[l.index] = l.status]
    /\ UNCHANGED <<queue, paused, lost>>

HandleCC(l) ==
    /\ l.cmd = "CC"
    /\ cache' = [cache EXCEPT !.output[l.index] = l.status]
    /\ UNCHANGED <<queue, paused, lost>>

HandlePC(l) ==
    /\ l.cmd = "PC"
    /\ cache' = [cache EXCEPT !.light[l.index] = l.status]
    /\ UNCHANGED <<queue, paused, lost>>

HandleZS(l) ==
    /\ l.cmd = "ZS"
    /\ cache' = [cache EXCEPT !.zone = l.zone_statuses]
    /\ UNCHANGED <<queue, paused, lost>>

HandleCS(l) ==
    /\ l.cmd = "CS"
    /\ cache' = [cache EXCEPT !.output = l.output_status]
    /\ UNCHANGED <<queue, paused, lost>>

FirstBank(b) == 0..BankSize - 1     \* slip: bank 0, whichever it is
OfBank(b) == b * BankSize..(b + 1) * BankSize - 1

HandlePS(l) ==
    /\ l.cmd = "PS"
    /\ cache' = [cache EXCEPT !.light =
                    [i \in Light |-> IF i \in OfBank(l.bank) THEN l.statuses[i % BankSize] ELSE @[i]]]
    /\ UNCHANGED <<queue, paused, lost>>

HandleAZ(l) ==
    /\ l.cmd = "AZ"
    /\ cache' = [cache EXCEPT !.triggered = l.alarm_status]
    /\ UNCHANGED <<queue, paused, lost>>

(* update_alarm_triggers: an alarm that began, ended or goes on.            *)
OnlyChanges(l) == \E a \in Area : cache.alarm[a] # l.alarm_states[a]    \* slip
AlarmsMayDiffer(l) ==
    \E a \in Area : cache.alarm[a] # l.alarm_states[a] \/ l.alarm_states[a] # "none"

AsksAreas == Req("as", 0, 0)    \* slip: as for az
AsksAlarms == Req("az", 0, 0)

HandleAS(l) ==
    /\ l.cmd = "AS"
    /\ cache' = [cache EXCEPT !.armed = l.armed_statuses, !.alarm = l.alarm_states]
    /\ Send(IF AlarmsMayDiffer(l) THEN <<AsksAlarms>> ELSE <<>>)
    /\ UNCHANGED paused

HandleEE(l) ==
    /\ l.cmd = "EE"
    /\ cache' = [cache EXCEPT !.armed[l.area] = l.armed_status]
    /\ UNCHANGED <<queue, paused, lost>>

(* One zone is reported by ZC; when it is every zone of an area the report  *)
(* must be asked for.                                                      *)
NoSingleZone(zone) == zone < 0 \/ zone >= MaxZone + 1

HandleZB(l) ==
    /\ l.cmd = "ZB"
    /\ Send(IF NoSingleZone(l.zone_number) THEN <<Req("zs", 0, 0)>> ELSE <<>>)
    /\ UNCHANGED <<cache, paused>>

(* RP pauses or resumes the connection, IE synchronises.                    *)
HandleRP(l) ==
    /\ l.cmd = "RP"
    /\ paused' = l.connected
    /\ queue' = IF l.connected THEN <<>> ELSE queue
    /\ lost' = IF l.connected THEN lost \cup WantedBy(queue) ELSE lost
    /\ UNCHANGED cache

HandleIE(l) ==
    /\ l.cmd = "IE"
    /\ Send(Sync)
    /\ UNCHANGED <<cache, paused>>

HandleLine ==
    /\ line # <<>>
    /\ line' = Tail(line)
    /\ LET l == Head(line)
       IN  \/ HandleZC(l) \/ HandleCC(l) \/ HandlePC(l) \/ HandleZS(l) \/ HandleCS(l)
           \/ HandlePS(l) \/ HandleAZ(l) \/ HandleAS(l) \/ HandleEE(l) \/ HandleZB(l)
           \/ HandleRP(l) \/ HandleIE(l)
    /\ UNCHANGED <<elementList, panel, programmed, open, bounds>>

(* A line whose length or checksum is wrong is passed over.                 *)
PassOver ==
    /\ line # <<>>
    /\ Trouble
    /\ line' = Tail(line)
    /\ lost' = lost \cup Told(Head(line))
    /\ UNCHANGED <<elementList, panel, cache, programmed, open, paused, queue, changes>>

-----------------------------------------------------------------------------
Panel == Change \/ Program \/ ProgramDone
Client == Call \/ Open \/ Drop \/ Write \/ HandleLine \/ PassOver

Next == Panel \/ Client

Spec == Init /\ [][Next]_vars

(* The tasks of the connection run.                                        *)
FairSpec == Spec /\ WF_vars(Write) /\ WF_vars(HandleLine)

-----------------------------------------------------------------------------
TypeOK ==
    /\ elementList \in ElementLists /\ cache \in View
    /\ panel \in View /\ \A a \in Area : Unknown \notin {panel.armed[a], panel.alarm[a]}
    /\ programmed \in BOOLEAN /\ open \in BOOLEAN /\ paused \in BOOLEAN
    /\ queue \in Seq(Request) /\ line \in Seq(Line) /\ lost \subseteq Report
    /\ changes \in 0..MaxChange /\ troubles \in 0..MaxTrouble

Agrees(q) ==
    CASE q.cmd = "AS" -> cache.armed = panel.armed /\ cache.alarm = panel.alarm
      [] q.cmd = "AZ" -> cache.triggered = panel.triggered
      [] q.cmd = "ZS" -> cache.zone = panel.zone
      [] q.cmd = "CS" -> cache.output = panel.output
      [] q.cmd = "PS" -> \A l \in OfBank(q.bank) : cache.light[l] = panel.light[l]

(* When nothing is queued or on its way, the elements hold what is the case *)
(* at the panel, but for the reports that a pause, the end of a session or  *)
(* a garbled line lost and no synchronisation has brought since             *)
(* (areas.py:99-117, zones.py:94-130, outputs.py, lights.py).               *)
AgreesAtRest == queue = <<>> /\ line = <<>> => \A q \in Report \ lost : Agrees(q)

(* A zone, an output or a light only ever holds a status that the panel had, *)
(* and never returns to one that the panel has left, whatever reports and   *)
(* changes are on their way together (zones.py:109-130, outputs.py:43-48,   *)
(* lights.py:45-50).                                                       *)
Versioned == ({"zone"} \X Zone) \cup ({"output"} \X Output) \cup ({"light"} \X Light)
Versions(v) == [f \in Versioned |-> v[f[1]][f[2]]]
Seen == INSTANCE Mirror WITH Fact <- Versioned, truth <- Versions(panel), view <- Versions(cache)
NeverBack == Seen!Spec

SendsNothing == changes' # changes /\ panel' = panel /\ queue' = queue

(* arm() of an area sends nothing, though nothing is paused, only when this *)
(* very area is armed, unless news of it was lost or is on its way: its     *)
(* early return reads a cached status (areas.py:52-56).                     *)
ArmIsHeeded ==
    [][\A a \in Area :
         Arm(a) /\ SendsNothing /\ ~paused /\ line = <<>> /\ Rep("AS") \notin lost
           => panel.armed[a] = "armed"]_vars

(* Handlers that ask for reports do not ask for ever: the connection comes  *)
(* to rest (areas.py:116, zones.py:106).                                    *)
ComesToRest == <>[]((queue = <<>> /\ line = <<>>) \/ ~open)
=============================================================================
