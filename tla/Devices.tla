------------------------------ MODULE Devices ------------------------------
(***************************************************************************)
(* keypads.py, thermostats.py, counters.py, settings.py and tasks.py of     *)
(* elkm1_lib, the temperatures, voltages, chimes, timers and lists of       *)
(* zones.py and areas.py, panel.py, and the decoders and encoders of        *)
(* their lines in message.py: all that the lines of Caches do not bring.    *)
(*                                                                         *)
(* The panel numbers from 1, offsets its temperatures and packs times into  *)
(* one number; its lines hold them so. What the client sends reaches the    *)
(* panel at once: queue, pacing and pauses are those of Connection. Lines   *)
(* arrive in order, or not at all.                                         *)
(***************************************************************************)
EXTENDS Integers, Sequences, FiniteSets

CONSTANTS
    None,           \* None of Python
    MaxIndex,       \* the last index of every kind
    Temp,           \* temperatures
    Word,           \* what a counter or a setting may hold, 16 bits
    TimeOfDay,      \* or as time, <<hour, minute>>
    UserOf,         \* the user of each code that is entered, 0 if it is nobody's
    Watched,        \* what changes in one behaviour: sets of facts and events
    MaxChange       \* bound: changes, reports and calls

Index == 0..MaxIndex
Word16 == 0..65535
Format == {"NUMBER", "TIMER", "TIME_OF_DAY"}

(* The positions in SS that only tell of a trouble, and those that name a   *)
(* zone; the client does not know the others.                              *)
Plain == {0, 2, 3, 4, 6, 7, 9, 10, 11, 12, 14, 16, 17, 19, 21, 22, 31, 32}
ZoneEncoded == {1, 5, 18, 20, 33}
Position == 0..33

ASSUME DevicesAssumption ==
    /\ MaxIndex \in Nat /\ MaxChange \in Nat
    /\ Temp \subseteq -39..99 /\ 0 \in Temp
    /\ Word \subseteq Word16 /\ 0 \in Word
    /\ TimeOfDay \subseteq (0..255) \X (0..255)
    /\ UserOf \in [DOMAIN UserOf -> Nat] /\ {"", "****"} \cap DOMAIN UserOf = {}
    /\ None \notin Int /\ None \notin {"0", "1", "C"}

(* What there is to know of the panel, field by field.                      *)
Stored == [format : Format \ {"TIME_OF_DAY"}, value : Word]
            \cup [format : {"TIME_OF_DAY"}, value : TimeOfDay]
OfPanel == {"elkm1_version", "xep_version", "real_time_clock", "user_code_length",
            "temperature_units"}
Places(f) ==
    CASE f = "trouble" -> Position
      [] f \in OfPanel \cup {"weekday"} -> {0}
      [] OTHER -> Index
Truth ==
    [zone_temp |-> Temp \cup {None}, keypad_temp |-> Temp \cup {None},
     current_temp |-> Temp \cap Nat, cool_setpoint |-> Temp \cap Nat,
     heat_setpoint |-> Temp \cap Nat, mode |-> 0..4, hold |-> BOOLEAN, fan |-> 0..1,
     humidity |-> 0..1, voltage |-> 0..1, is_exit |-> BOOLEAN, timer1 |-> 0..1, timer2 |-> 0..1,
     keypad_area |-> Index \cup {None}, chime |-> 0..3, alarm_memory |-> BOOLEAN,
     definition |-> 0..1, zone_area |-> Index, setting |-> Stored, counter |-> Word,
     last_log |-> 0..1, trouble |-> 0..2, weekday |-> 0..6,
     elkm1_version |-> 0..1, xep_version |-> 0..1, real_time_clock |-> 0..1,
     user_code_length |-> 0..1, temperature_units |-> 0..1]
Field == DOMAIN Truth
Fact == UNION {{f} \X Places(f) : f \in Field}

Event == {"press", "task"} \X Index     \* at a keypad, of a task

ASSUME WatchedAssumption == \A w \in Watched : w \subseteq Fact \cup Event

VARIABLES
    watched,        \* what changes
    panel,          \* what is the case
    client,         \* what the elements hold, in the same fields
    keypad,         \* what a keypad element holds of presses and codes
    last_change,    \* of each task
    line,           \* lines on their way to the client
    now,            \* the clock, later for every line that is handled
    lost,           \* history: facts the client can no longer count on
    untold,         \* history: presses and tasks said, less calls of observers
    meant,          \* history: what the client set a field to
    changes         \* bound

vars == <<watched, panel, client, keypad, last_change, line, now, lost, untold, meant, changes>>

(* What an element holds before it was told.                                *)
Unread(f) ==
    CASE f = "zone_temp" -> -60
      [] f = "keypad_temp" -> -40
      [] f \in {"keypad_area", "zone_area"} -> -1
      [] f \in {"hold", "alarm_memory", "is_exit"} -> FALSE
      [] f = "setting" -> [format |-> "NUMBER", value |-> None]
      [] f \in {"mode", "fan", "counter", "chime", "last_log"} \cup OfPanel -> None
      [] OTHER -> 0

Init ==
    /\ watched \in Watched
    /\ panel = [f \in Field |-> [i \in Places(f) |->
                    CASE f \in {"zone_temp", "keypad_temp"} -> None
                      [] f \in {"hold", "alarm_memory", "is_exit"} -> FALSE
                      [] f = "setting" -> [format |-> "NUMBER", value |-> 0]
                      [] OTHER -> 0]]
    /\ client = [f \in Field |-> [i \in Places(f) |-> Unread(f)]]
    /\ keypad = [i \in Index |-> [last_keypress |-> None, last_function_key |-> None,
                                  last_user |-> -1, last_user_time |-> 0, code |-> ""]]
    /\ last_change = [i \in Index |-> None]
    /\ line = <<>> /\ now = 1 /\ changes = 0
    /\ lost = Fact
    /\ untold = [e \in Event |-> 0]
    /\ meant = [f \in Fact |-> None]

-----------------------------------------------------------------------------
(* The lines of the panel, as the panel writes them.                        *)

Number(i) == i + 1
Offset(t, by) == IF t = None THEN 0 ELSE t + by
Raw(s) == IF s.format = "TIME_OF_DAY" THEN s.value[1] * 256 + s.value[2] ELSE s.value
RawSetting(s) == [value |-> Raw(s), format |-> s.format]

LW(p) == [cmd |-> "LW", keypad_temps |-> [i \in Index |-> Offset(p.keypad_temp[i], 40)],
          zone_temps |-> [i \in Index |-> Offset(p.zone_temp[i], 60)]]
ST(group, i, temperature) ==
    [cmd |-> "ST", group |-> group, device |-> Number(i), temperature |-> temperature]
TR(p, i) ==
    [cmd |-> "TR", thermostat |-> Number(i), mode |-> p.mode[i],
     hold |-> IF p.hold[i] THEN "1" ELSE "0", fan |-> p.fan[i],
     current_temp |-> p.current_temp[i], heat_setpoint |-> p.heat_setpoint[i],
     cool_setpoint |-> p.cool_setpoint[i], humidity |-> p.humidity[i]]
KA(p) == [cmd |-> "KA", areas |-> [i \in Index |-> IF p.keypad_area[i] = None THEN 48
                                                   ELSE 48 + Number(p.keypad_area[i])]]
KC(i, key) == [cmd |-> "KC", keypad |-> Number(i), key |-> key]
KF(p, i, key) == [cmd |-> "KF", keypad |-> Number(i), key |-> key, chime_mode |-> p.chime]
IC(i, code) == [cmd |-> "IC", code |-> code, user |-> UserOf[code], keypad |-> Number(i)]
AllCR(p) == [cmd |-> "CR", number |-> 0, values |-> [i \in Index |-> RawSetting(p.setting[i])]]
CR(p, i) == [cmd |-> "CR", number |-> Number(i), values |-> RawSetting(p.setting[i])]
CV(p, i) == [cmd |-> "CV", counter |-> Number(i), value |-> p.counter[i]]
TC(i) == [cmd |-> "TC", task |-> Number(i)]
LD(p, i) == [cmd |-> "LD", area |-> Number(i), log |-> p.last_log[i]]
AM(p) == [cmd |-> "AM", list |-> [i \in Index |-> IF p.alarm_memory[i] THEN "1" ELSE "0"]]
ZD(p) == [cmd |-> "ZD", list |-> [i \in Index |-> 48 + p.definition[i]]]
ZP(p) == [cmd |-> "ZP", list |-> [i \in Index |-> 48 + Number(p.zone_area[i])]]
ZV(p, i) == [cmd |-> "ZV", zone |-> Number(i), tenths |-> 10 * p.voltage[i]]
EE(p, i) == [cmd |-> "EE", area |-> Number(i), is_exit |-> IF p.is_exit[i] THEN "0" ELSE "1",
             timer1 |-> p.timer1[i], timer2 |-> p.timer2[i]]
VN(p) == [cmd |-> "VN", elkm1_version |-> p.elkm1_version[0], xep_version |-> p.xep_version[0]]
XK(p) == [cmd |-> "XK", real_time_clock |-> p.real_time_clock[0]]
UA(p) == [cmd |-> "UA", user_code_length |-> p.user_code_length[0],
          temperature_units |-> p.temperature_units[0]]
SS(p) == [cmd |-> "SS", troubles |-> [i \in Position |-> 48 + p.trouble[i]]]

(* Facts that a line brings, and the press or task it tells of.             *)
Device(g) == CASE g = 0 -> "zone_temp" [] g = 1 -> "keypad_temp" [] g = 2 -> "current_temp"
Told(l) ==
    CASE l.cmd = "LW" -> {"zone_temp", "keypad_temp"} \X Index
      [] l.cmd = "ST" -> {<<Device(l.group), l.device - 1>>}
      [] l.cmd = "TR" -> {"mode", "hold", "fan", "current_temp", "heat_setpoint", "cool_setpoint",
                          "humidity"} \X {l.thermostat - 1}
      [] l.cmd = "KA" -> {"keypad_area"} \X Index
      [] l.cmd = "KF" -> {"chime"} \X Index
      [] l.cmd = "CR" -> {"setting"} \X {i \in Index : l.number \in {0, Number(i)}}
      [] l.cmd = "CV" -> {<<"counter", l.counter - 1>>}
      [] l.cmd = "LD" -> {<<"last_log", l.area - 1>>}
      [] l.cmd = "AM" -> {"alarm_memory"} \X Index
      [] l.cmd = "ZD" -> {"definition"} \X Index
      [] l.cmd = "ZP" -> {"zone_area"} \X Index
      [] l.cmd = "ZV" -> {<<"voltage", l.zone - 1>>}
      [] l.cmd = "EE" -> {"is_exit", "timer1", "timer2"} \X {l.area - 1}
      [] l.cmd = "VN" -> {"elkm1_version", "xep_version"} \X {0}
      [] l.cmd = "XK" -> {<<"real_time_clock", 0>>}
      [] l.cmd = "UA" -> {"user_code_length", "temperature_units"} \X {0}
      [] l.cmd = "SS" -> {"trouble"} \X Position
      [] OTHER -> {}
Events(l) ==
    CASE l.cmd \in {"KC", "KF", "IC"} /\ (l.cmd = "KC" => l.key # 0) -> {<<"press", l.keypad - 1>>}
      [] l.cmd = "TC" -> {<<"task", l.task - 1>>}
      [] OTHER -> {}

Changed(p) == {f \in Fact : p[f[1]][f[2]] # panel[f[1]][f[2]]}

(* The panel becomes p, and says so with l, or the client does not hear it. *)
Says(p, l) ==
    /\ panel' = p
    /\ \/ /\ line' = Append(line, l)
          /\ lost' = lost \ Told(l)
          /\ untold' = [e \in Event |-> IF e \in Events(l) THEN untold[e] + 1 ELSE untold[e]]
       \/ /\ lost' = lost \cup Changed(p)
          /\ UNCHANGED <<line, untold>>

-----------------------------------------------------------------------------
(* What happens at the panel.                                              *)

Announcements(p, f, i) ==
    CASE f = "zone_temp" -> {LW(p)} \cup {ST(0, i, t + 60) : t \in {p.zone_temp[i]} \ {None}}
      [] f = "keypad_temp" -> {LW(p)} \cup {ST(1, i, t + 40) : t \in {p.keypad_temp[i]} \ {None}}
      [] f = "current_temp" -> {ST(2, i, p.current_temp[i]), TR(p, i)}
      [] f \in {"mode", "hold", "fan", "heat_setpoint", "cool_setpoint", "humidity"} -> {TR(p, i)}
      [] f = "keypad_area" -> {KA(p)}
      [] f = "chime" -> {KF(p, k, "C") : k \in Index}
      [] f = "setting" -> {CR(p, i), AllCR(p)}
      [] f = "counter" -> {CV(p, i)}
      [] f = "last_log" -> {LD(p, i)}
      [] f = "alarm_memory" -> {AM(p)}
      [] f = "definition" -> {ZD(p)}
      [] f = "zone_area" -> {ZP(p)}
      [] f = "voltage" -> {ZV(p, i)}
      [] f \in {"is_exit", "timer1", "timer2"} -> {EE(p, i)}
      [] f \in {"elkm1_version", "xep_version"} -> {VN(p)}
      [] f = "real_time_clock" -> {XK(p)}
      [] f \in {"user_code_length", "temperature_units"} -> {UA(p)}
      [] f = "trouble" -> {SS(p)}

(* A fact becomes v, by what happens at the panel or by what it was told.   *)
Becomes(f, i, v) ==
    LET p == [panel EXCEPT ![f][i] = v]
    IN  \E l \in Announcements(p, f, i) : Says(p, l)

Named(f) == IF f = "trouble" THEN ZoneEncoded ELSE Places(f)
Change(f, i) ==
    /\ \E v \in (IF i \in Named(f) THEN Truth[f] ELSE 0..1) \ {panel[f][i]} : Becomes(f, i, v)
    /\ meant' = [meant EXCEPT ![<<f, i>>] = None]

FunctionKey(i, key) ==
    LET a == panel.keypad_area[i]
        p == IF key = "C" /\ a # None THEN [panel EXCEPT !.chime[a] = (@ + 1) % 4] ELSE panel
    IN  Says(p, KF(p, i, key))

TaskRuns(i) == Says(panel, TC(i))

Press(i) ==
    \/ \E key \in 0..1 : Says(panel, KC(i, key))
    \/ \E code \in DOMAIN UserOf : Says(panel, IC(i, code))
    \/ \E key \in {"1", "C"} : FunctionKey(i, key)

(* The reports that sync() of the elements and get() ask for.               *)
Reports ==
    {LW(panel), KA(panel), KF(panel, 0, "0"), AllCR(panel), SS(panel), ZD(panel), ZP(panel),
     VN(panel), UA(panel)}
        \cup UNION {{TR(panel, i), CV(panel, i), ZV(panel, i)} : i \in Index}

Counted ==
    /\ changes < MaxChange
    /\ changes' = changes + 1

Happens ==
    /\ Counted
    /\ \/ \E f \in watched \cap Fact : f[1] # "weekday" /\ Change(f[1], f[2])
       \/ /\ \/ \E e \in watched \cap Event :
                   \/ e[1] = "press" /\ Press(e[2])
                   \/ e[1] = "task" /\ TaskRuns(e[2])
             \/ \E l \in Reports : Told(l) \cap watched # {} /\ Says(panel, l)
          /\ UNCHANGED meant
    /\ UNCHANGED <<watched, client, keypad, last_change, now>>

-----------------------------------------------------------------------------
(* The calls of the client: what each sends, and what the panel does then.  *)

(* Is what the client holds of a fact up to date?                           *)
Knows(f, i) == <<f, i>> \notin lost /\ \A n \in DOMAIN line : <<f, i>> \notin Told(line[n])
Means(f, i, v) == meant' = [meant EXCEPT ![<<f, i>>] = v]

(* ts_encode. The type of a value must be that of the setting.              *)
SettingTyping == [mode |-> "ThermostatMode", hold |-> "bool", fan |-> "ThermostatFan",
                  cool_setpoint |-> "int", heat_setpoint |-> "int"]
ElementNumber == [mode |-> 0, hold |-> 1, fan |-> 2, cool_setpoint |-> 4, heat_setpoint |-> 5]
Ts(i, s, v) == [thermostat |-> Number(i), element |-> ElementNumber[s],
                value |-> IF v.type = "bool" THEN (IF v.value THEN 1 ELSE 0) ELSE v.value]
Values ==
    [type : {"ThermostatMode"}, value : 0..4] \cup [type : {"bool"}, value : BOOLEAN]
        \cup [type : {"ThermostatFan"}, value : 0..1] \cup [type : {"int"}, value : Temp \cap Nat]

ObeyTs(r) ==
    LET s == CHOOSE x \in DOMAIN ElementNumber : ElementNumber[x] = r.element
    IN  Becomes(s, r.thermostat - 1, IF s = "hold" THEN r.value = 1 ELSE r.value)

AnyType(s, v) == TRUE     \* slip: no test of the type
Accepts(s, v) == v.type = SettingTyping[s]

SetThermostat(i, s, v) ==
    /\ Accepts(s, v)
    /\ ObeyTs(Ts(i, s, v))
    /\ Means(s, i, v.value)

(* cw_encode: how a value is written depends on the format that is cached.  *)
Decimal(v) == v[1] * 100 + v[2]     \* slip: as one would write it
Packed(v) == v[1] * 256 + v[2]
Cw(i, v) == [number |-> Number(i),
             value |-> IF client.setting[i].format = "TIME_OF_DAY" THEN Packed(v) ELSE v]

Unpacked(n) == <<n \div 256, n % 256>>
ObeyCw(r) ==
    LET s == panel.setting[r.number - 1]
    IN  Becomes("setting", r.number - 1,
                [s EXCEPT !.value = IF s.format = "TIME_OF_DAY" THEN Unpacked(r.value) ELSE r.value])

SetSetting(i) ==
    \E v \in IF client.setting[i].format = "TIME_OF_DAY" THEN TimeOfDay ELSE Word :
        /\ ObeyCw(Cw(i, v))
        /\ Means("setting", i, IF Knows("setting", i) THEN v ELSE None)

Cx(i, value) == [counter |-> Number(i), value |-> value]
SetCounter(i, value) ==
    LET r == Cx(i, value)
    IN  Becomes("counter", r.counter - 1, r.value) /\ Means("counter", i, value)

Tn(i) == [task |-> Number(i)]
Activate(i) == TaskRuns(Tn(i).task - 1) /\ UNCHANGED meant

Kf(i, key) == [keypad |-> Number(i), key |-> key]
PressFunctionKey(i, key) ==
    FunctionKey(Kf(i, key).keypad - 1, Kf(i, key).key) /\ UNCHANGED meant

(* rw_encode: days are numbered from 0 for Monday, at the panel from 1 for   *)
(* Sunday.                                                                 *)
ElkWeekday(w) == ((w + 1) % 7) + 1
SetTime(w) ==
    /\ panel' = [panel EXCEPT !.weekday[0] = (ElkWeekday(w) + 5) % 7]
    /\ Means("weekday", 0, w)
    /\ UNCHANGED <<line, lost, untold>>

Call ==
    /\ Counted
    /\ \E x \in watched :
          LET i == x[2]
          IN  \/ x[1] \in DOMAIN SettingTyping /\ \E v \in Values : SetThermostat(i, x[1], v)
              \/ x[1] = "setting" /\ SetSetting(i)
              \/ x[1] = "counter" /\ \E v \in Word : SetCounter(i, v)
              \/ x[1] = "task" /\ Activate(i)
              \/ x[1] = "press" /\ \E key \in {"1", "C"} : PressFunctionKey(i, key)
              \/ x[1] = "weekday" /\ \E w \in 0..6 : SetTime(w)
    /\ UNCHANGED <<watched, client, keypad, last_change, now>>

-----------------------------------------------------------------------------
(* The handlers, with the decoders of their lines. Observers are called     *)
(* when an attribute changed.                                              *)

Stores(c) == client' = c /\ UNCHANGED <<keypad, last_change, untold>>

(* A report of temperatures says nothing of those without a sensor.         *)
Swapped(raw) == raw - 40        \* slip: zones as keypads
ZoneDegrees(raw) == raw - 60
KeypadDegrees(raw) == raw - 40

HandleLW(l) ==
    /\ l.cmd = "LW"
    /\ LET zone(i) == ZoneDegrees(l.zone_temps[i])
           kp(i) == KeypadDegrees(l.keypad_temps[i])
       IN  Stores([client EXCEPT
             !.zone_temp = [i \in Index |-> IF zone(i) > -60 THEN zone(i) ELSE @[i]],
             !.keypad_temp = [i \in Index |-> IF kp(i) > -40 THEN kp(i) ELSE @[i]]])

HandleST(l) ==
    /\ l.cmd = "ST"
    /\ LET i == l.device - 1
       IN  Stores(CASE l.group = 0 -> [client EXCEPT !.zone_temp[i] = ZoneDegrees(l.temperature)]
                    [] l.group = 1 -> [client EXCEPT !.keypad_temp[i] = KeypadDegrees(l.temperature)]
                    [] l.group = 2 -> [client EXCEPT !.current_temp[i] = l.temperature])

HandleTR(l) ==
    /\ l.cmd = "TR"
    /\ LET i == l.thermostat - 1
       IN  Stores([client EXCEPT
             !.mode[i] = l.mode, !.hold[i] = l.hold = "1", !.fan[i] = l.fan,
             !.current_temp[i] = l.current_temp, !.heat_setpoint[i] = l.heat_setpoint,
             !.cool_setpoint[i] = l.cool_setpoint, !.humidity[i] = l.humidity])

HandleKA(l) ==
    /\ l.cmd = "KA"
    /\ LET area(i) == l.areas[i] - 49
       IN  Stores([client EXCEPT
             !.keypad_area = [i \in Index |-> IF area(i) >= 0 THEN area(i) ELSE @[i]]])

(* A setting is stored without calling anyone; 0 announces all of them.     *)
Setting(s) == [format |-> s.format,
               value |-> IF s.format = "TIME_OF_DAY" THEN Unpacked(s.value) ELSE s.value]
HandleCR(l) ==
    /\ l.cmd = "CR"
    /\ IF l.number > 0
       THEN Stores([client EXCEPT !.setting[l.number - 1] = Setting(l.values)])
       ELSE Stores([client EXCEPT !.setting = [i \in Index |-> Setting(l.values[i])]])

HandleCV(l) == l.cmd = "CV" /\ Stores([client EXCEPT !.counter[l.counter - 1] = l.value])
HandleZV(l) == l.cmd = "ZV" /\ Stores([client EXCEPT !.voltage[l.zone - 1] = l.tenths \div 10])
HandleLD(l) == l.cmd = "LD" /\ Stores([client EXCEPT !.last_log[l.area - 1] = l.log])

HandleList(l) ==
    \/ /\ l.cmd = "AM"
       /\ Stores([client EXCEPT !.alarm_memory = [i \in Index |-> l.list[i] = "1"]])
    \/ l.cmd = "ZD" /\ Stores([client EXCEPT !.definition = [i \in Index |-> l.list[i] - 48]])
    \/ l.cmd = "ZP" /\ Stores([client EXCEPT !.zone_area = [i \in Index |-> l.list[i] - 49]])

(* The status that EE brings as well is that of Caches.                     *)
HandleEE(l) ==
    /\ l.cmd = "EE"
    /\ LET i == l.area - 1
       IN  Stores([client EXCEPT !.timer1[i] = l.timer1, !.timer2[i] = l.timer2,
                                 !.is_exit[i] = l.is_exit = "0"])

HandlePanel(l) ==
    \/ /\ l.cmd = "VN"
       /\ Stores([client EXCEPT !.elkm1_version[0] = l.elkm1_version,
                                !.xep_version[0] = l.xep_version])
    \/ l.cmd = "XK" /\ Stores([client EXCEPT !.real_time_clock[0] = l.real_time_clock])
    \/ /\ l.cmd = "UA"
       /\ Stores([client EXCEPT !.user_code_length[0] = l.user_code_length,
                                !.temperature_units[0] = l.temperature_units])

HandleSS(l) ==
    /\ l.cmd = "SS"
    /\ LET status(i) == CASE i \in Plain -> IF l.troubles[i] # 48 THEN 1 ELSE 0
                          [] i \in ZoneEncoded -> l.troubles[i] - 48
                          [] OTHER -> 0
       IN  Stores([client EXCEPT !.trouble = [i \in Position |-> status(i)]])

Tells(e, changed) == untold' = IF changed THEN [untold EXCEPT ![e] = @ - 1] ELSE untold

(* What a keypad held is forgotten before the same can be set again.        *)
Kept(k) == k        \* slip: an equal key is no change
Forgotten(k) == [k EXCEPT !.last_keypress = None, !.last_function_key = None]

HandleKC(l) ==
    /\ l.cmd = "KC"
    /\ IF l.key = 0
       THEN UNCHANGED <<keypad, untold>>
       ELSE LET i == l.keypad - 1
            IN  /\ keypad' = [keypad EXCEPT ![i].last_keypress = l.key]
                /\ Tells(<<"press", i>>, Forgotten(keypad[i]).last_keypress # l.key)
    /\ UNCHANGED <<client, last_change>>

HandleKF(l) ==
    /\ l.cmd = "KF"
    /\ LET i == l.keypad - 1
       IN  /\ keypad' = [keypad EXCEPT ![i].last_function_key = l.key]
           /\ Tells(<<"press", i>>, Forgotten(keypad[i]).last_function_key # l.key)
    /\ client' = [client EXCEPT !.chime = l.chime_mode]
    /\ UNCHANGED last_change

(* User 000 entered a code that is nobody's; its index is -1.               *)
NoUser(user) == user <= 0       \* slip: the first user is nobody
Invalid(user) == user < 0

HandleIC(l) ==
    /\ l.cmd = "IC"
    /\ LET i == l.keypad - 1
           user == l.user - 1
           k == [keypad[i] EXCEPT !.last_user_time = now, !.last_user = user,
                                  !.code = IF Invalid(user) THEN l.code ELSE "****"]
       IN  keypad' = [keypad EXCEPT ![i] = k] /\ Tells(<<"press", i>>, k # keypad[i])
    /\ UNCHANGED <<client, last_change>>

HandleTC(l) ==
    /\ l.cmd = "TC"
    /\ last_change' = [last_change EXCEPT ![l.task - 1] = now]
    /\ Tells(<<"task", l.task - 1>>, last_change[l.task - 1] # now)
    /\ UNCHANGED <<client, keypad>>

Handle ==
    /\ line # <<>>
    /\ line' = Tail(line)
    /\ now' = now + 1
    /\ LET l == Head(line)
       IN  \/ HandleLW(l) \/ HandleST(l) \/ HandleTR(l) \/ HandleKA(l) \/ HandleCR(l)
           \/ HandleCV(l) \/ HandleZV(l) \/ HandleLD(l) \/ HandleList(l) \/ HandleEE(l)
          \/ HandlePanel(l) \/ HandleSS(l)
           \/ HandleKC(l) \/ HandleKF(l) \/ HandleIC(l) \/ HandleTC(l)
    /\ UNCHANGED <<watched, panel, lost, meant, changes>>

-----------------------------------------------------------------------------
Next == Happens \/ Call \/ Handle

Spec == Init /\ [][Next]_vars

-----------------------------------------------------------------------------
SettingValue == [format : Format \ {"TIME_OF_DAY"}, value : Word16 \cup {None}]
                    \cup [format : {"TIME_OF_DAY"}, value : (0..255) \X (0..255)]

HasPlaces(c) == c = [f \in Field |-> [i \in Places(f) |-> c[f][i]]]

TypeOK ==
    /\ watched \in Watched
    /\ HasPlaces(panel) /\ HasPlaces(client)
    /\ \A f \in Field \ {"setting"} : \A i \in Places(f) :
          panel[f][i] \in Truth[f] /\ (client[f][i] = Unread(f) \/ client[f][i] \in Truth[f])
    /\ \A i \in Index : panel.setting[i] \in SettingValue /\ client.setting[i] \in SettingValue
    /\ keypad \in [Index -> [last_keypress : {None, 1}, last_function_key : {None, "0", "1", "C"},
                             last_user : Nat \cup {-1}, last_user_time : Nat,
                             code : DOMAIN UserOf \cup {"", "****"}]]
    /\ last_change \in [Index -> Nat \cup {None}]
    /\ now \in Nat \ {0} /\ changes \in 0..MaxChange
    /\ lost \subseteq Fact
    /\ untold \in [Event -> Int] /\ meant = [f \in Fact |-> meant[f]]

(* Facts that no line tells.                                               *)
Unspoken(f) ==
    \/ panel[f[1]][f[2]] = None
    \/ f[1] = "trouble" /\ f[2] \notin Plain \cup ZoneEncoded

(* When no line is on its way, the elements hold what is the case at the    *)
(* panel, by whichever line they learnt it, but for what the client did not *)
(* hear of and no report has told it since: temperatures in degrees, times, *)
(* areas and zones by their index (message.py, zones.py:91-99,              *)
(* keypads.py:59-98, thermostats.py:75-97, settings.py:44-49).              *)
HeldIsTrue ==
    line = <<>> =>
        \A f \in Fact \ lost : Unspoken(f) \/ client[f[1]][f[2]] = panel[f[1]][f[2]]

(* Every key, function key and code that was entered at a keypad, and every *)
(* task that ran, calls the observers once, though it leaves the element    *)
(* as it was (keypads.py:49-89, tasks.py:35-36).                            *)
EventsAreTold ==
    \A e \in Event :
        untold[e] = Cardinality({n \in DOMAIN line : e \in Events(line[n])})

(* No keypad shows the code of a user (keypads.py:55-57).                   *)
CodesAreHidden ==
    \A i \in Index : keypad[i].code \in DOMAIN UserOf => UserOf[keypad[i].code] = 0

(* What the client sets is what it meant: the setting of the thermostat it  *)
(* named, the time or the number, the counter, the day of the week, unless  *)
(* the format it knew of was out of date (thermostats.py:40-57,             *)
(* settings.py:22-29, panel.py:51-56, message.py:459-478, 561-580).         *)
SetIsMeant ==
    \A f \in Fact : meant[f] # None =>
        panel[f[1]][f[2]] = IF f[1] = "setting" THEN [panel.setting[f[2]] EXCEPT !.value = meant[f]]
                            ELSE meant[f]
=============================================================================
