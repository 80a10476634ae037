--------------------------- MODULE DevicesProofs ---------------------------
(***************************************************************************)
(* What holds of the elements that Devices models, for every number of them, *)
(* every set of temperatures, words and times, and whatever is watched.     *)
(***************************************************************************)
EXTENDS Devices, FiniteSetTheorems, TLAPS

-----------------------------------------------------------------------------
(* Fields and places.                                                      *)
LEMMA FieldNames ==
  Field = {"zone_temp", "keypad_temp", "current_temp", "cool_setpoint", "heat_setpoint", "mode",
           "hold", "fan", "humidity", "voltage", "is_exit", "timer1", "timer2", "keypad_area",
           "chime", "alarm_memory", "definition", "zone_area", "setting", "counter", "last_log",
           "trouble", "weekday", "elkm1_version", "xep_version", "real_time_clock",
           "user_code_length", "temperature_units"}
  BY DEF Field, Truth

LEMMA FactShape ==
  /\ \A f \in Fact : f = <<f[1], f[2]>> /\ f[1] \in Field /\ f[2] \in Places(f[1])
  /\ \A g \in Field : \A i \in Places(g) : <<g, i>> \in Fact
  <1>1. ASSUME NEW f \in Fact PROVE f = <<f[1], f[2]>> /\ f[1] \in Field /\ f[2] \in Places(f[1])
    <2>1. PICK g \in Field : f \in {g} \X Places(g)
      BY DEF Fact
    <2> QED
      BY <2>1
  <1>2. ASSUME NEW g \in Field, NEW i \in Places(g) PROVE <<g, i>> \in Fact
    BY DEF Fact
  <1> QED
    BY <1>1, <1>2

LEMMA Indices == Index \subseteq Nat /\ \A i \in Index : Number(i) - 1 = i /\ Number(i) \in Nat \ {0}
  <1>1. MaxIndex \in Nat
    BY DevicesAssumption
  <1> QED
    BY <1>1 DEF Index, Number

(* Where the indices of a field run over the elements.                      *)
LEMMA IndexPlaces ==
  \A g \in Field \ ({"trouble", "weekday"} \cup OfPanel) : Places(g) = Index
  BY DEF Places, OfPanel

(* A record of the fields is told apart by what it holds of each place.     *)
LEMMA PlacesKept ==
  ASSUME NEW c, HasPlaces(c)
  PROVE  /\ c = [g \in Field |-> c[g]]
         /\ \A g \in Field : DOMAIN c[g] = Places(g) /\ c[g] = [i \in Places(g) |-> c[g][i]]
  BY DEF HasPlaces

-----------------------------------------------------------------------------
(* The handlers.                                                           *)
Silent(p, g, i) ==
    \/ g \in {"zone_temp", "keypad_temp", "keypad_area"} /\ p[g][i] = None
    \/ g = "trouble" /\ i \notin Plain \cup ZoneEncoded

LearnsOne(l, p, g, i) ==
    /\ <<g, i>> \notin Told(l) => client'[g][i] = client[g][i]
    /\ <<g, i>> \in Told(l) =>
          \/ client'[g][i] = p[g][i]
          \/ Silent(p, g, i) /\ client'[g][i] \in {client[g][i], 0}
Learns(l, p) == HasPlaces(client') /\ \A g \in Field : \A i \in Places(g) : LearnsOne(l, p, g, i)

(* What the panel may be.                                                  *)
PanelSetting == [format : Format \ {"TIME_OF_DAY"}, value : Word16]
                    \cup [format : {"TIME_OF_DAY"}, value : (0..255) \X (0..255)]
PanelType(p) ==
    /\ HasPlaces(p)
    /\ \A g \in Field \ {"setting"} : \A i \in Places(g) : p[g][i] \in Truth[g]
    /\ \A i \in Index : p.setting[i] \in PanelSetting
    /\ \A i \in Position \ ZoneEncoded : p.trouble[i] \in 0..1

LEMMA PanelFields ==
  ASSUME NEW p, PanelType(p)
  PROVE  /\ \A i \in Index :
               /\ p.zone_temp[i] \in Temp \cup {None} /\ p.keypad_temp[i] \in Temp \cup {None}
               /\ p.hold[i] \in BOOLEAN /\ p.is_exit[i] \in BOOLEAN /\ p.alarm_memory[i] \in BOOLEAN
               /\ p.keypad_area[i] \in Index \cup {None} /\ p.zone_area[i] \in Index
               /\ p.definition[i] \in 0..1 /\ p.voltage[i] \in 0..1 /\ p.chime[i] \in 0..3
         /\ \A i \in Position : p.trouble[i] \in 0..2
  <1>1. \A g \in {"zone_temp", "keypad_temp", "hold", "is_exit", "alarm_memory", "keypad_area",
                  "zone_area", "definition", "voltage", "chime"} :
           g \in Field \ {"setting"} /\ Places(g) = Index
    BY FieldNames, IndexPlaces DEF OfPanel
  <1>2. "trouble" \in Field \ {"setting"} /\ Places("trouble") = Position
    BY FieldNames DEF Places, OfPanel
  <1>3. /\ \A g \in {"zone_temp", "keypad_temp", "hold", "is_exit", "alarm_memory", "keypad_area",
                     "zone_area", "definition", "voltage", "chime"} :
               \A i \in Index : p[g][i] \in Truth[g]
        /\ \A i \in Position : p.trouble[i] \in Truth.trouble
    BY <1>1, <1>2 DEF PanelType
  <1> QED
    BY <1>3 DEF Truth


(* A handler that changes no other fields than these.                       *)
Updates(l, p, fields) ==
    /\ fields \subseteq Field
    /\ client' = [g \in Field |-> client'[g]]
    /\ \A g \in Field \ fields : /\ client'[g] = client[g]
                                 /\ \A i \in Places(g) : <<g, i>> \notin Told(l)
    /\ \A g \in fields : /\ client'[g] = [i \in Places(g) |-> client'[g][i]]
                         /\ \A i \in Places(g) : LearnsOne(l, p, g, i)

LEMMA LearnsOf ==
  ASSUME HasPlaces(client), NEW l, NEW p, NEW fields, Updates(l, p, fields)
  PROVE  Learns(l, p)
  <1> USE DEF Updates
  <1>1. ASSUME NEW g \in Field PROVE client'[g] = [i \in Places(g) |-> client'[g][i]]
    <2>1. CASE g \in fields
      BY <2>1
    <2>2. CASE g \notin fields
      <3>1. PICK d : d = client[g]
        OBVIOUS
      <3>2. d = [i \in Places(g) |-> d[i]]
        BY <3>1, PlacesKept
      <3>3. client'[g] = d
        BY <2>2, <3>1
      <3> QED
        BY <3>2, <3>3
    <2> QED
      BY <2>1, <2>2
  <1>2. HasPlaces(client')
    BY <1>1 DEF HasPlaces
  <1>3. ASSUME NEW g \in Field, NEW i \in Places(g) PROVE LearnsOne(l, p, g, i)
    <2>1. CASE g \in fields
      BY <2>1
    <2>2. CASE g \notin fields
      BY <2>2 DEF LearnsOne
    <2> QED
      BY <2>1, <2>2
  <1> QED
    BY <1>2, <1>3 DEF Learns

LEMMA LearnsPlace ==
  ASSUME HasPlaces(client), NEW l, NEW p, NEW f \in Field, NEW j \in Places(f),
         client' = [client EXCEPT ![f][j] = p[f][j]], Told(l) = {<<f, j>>}
  PROVE  Learns(l, p)
  <1>1. client = [g \in Field |-> client[g]] /\ client[f] = [i \in Places(f) |-> client[f][i]]
    BY PlacesKept
  <1>2. /\ client' = [g \in Field |-> client'[g]]
        /\ \A g \in Field \ {f} : client'[g] = client[g]
        /\ client'[f] = [client[f] EXCEPT ![j] = p[f][j]]
    BY <1>1
  <1>3. \A i \in Places(f) : LearnsOne(l, p, f, i)
    BY <1>1, <1>2 DEF LearnsOne
  <1>4. \A g \in Field \ {f} : \A i \in Places(g) : <<g, i>> \notin Told(l)
    OBVIOUS
  <1>5. client'[f] = [i \in Places(f) |-> client'[f][i]]
    BY <1>1, <1>2
  <1>6. Updates(l, p, {f})
    BY <1>2, <1>3, <1>4, <1>5 DEF Updates
  <1> QED
    BY <1>6, LearnsOf

(* A handler that writes a field anew, place by place.                      *)
Refresh(l, p, f, w) ==
    /\ f \in Field
    /\ Told(l) = {f} \X Places(f)
    /\ client' = [client EXCEPT ![f] = w]
    /\ w = [i \in Places(f) |-> w[i]]
    /\ \A i \in Places(f) : w[i] = p[f][i] \/ (Silent(p, f, i) /\ w[i] \in {client[f][i], 0})

LEMMA LearnsField ==
  ASSUME HasPlaces(client), NEW l, NEW p, NEW f, NEW w, Refresh(l, p, f, w)
  PROVE  Learns(l, p)
  <1> USE DEF Refresh
  <1>1. client = [g \in Field |-> client[g]]
    BY PlacesKept
  <1>2. /\ client' = [g \in Field |-> client'[g]]
        /\ \A g \in Field \ {f} : client'[g] = client[g]
        /\ client'[f] = w
    BY <1>1
  <1>3. \A i \in Places(f) : LearnsOne(l, p, f, i)
    BY <1>2 DEF LearnsOne
  <1>4. \A g \in Field \ {f} : \A i \in Places(g) : <<g, i>> \notin Told(l)
    OBVIOUS
  <1>5. client'[f] = [i \in Places(f) |-> client'[f][i]]
    BY <1>1, <1>2
  <1>6. Updates(l, p, {f})
    BY <1>2, <1>3, <1>4, <1>5 DEF Updates
  <1> QED
    BY <1>6, LearnsOf

-----------------------------------------------------------------------------
(* Every line, handled, teaches the client what it was said of.             *)
LEMMA LearnsTemperatures ==
  ASSUME HasPlaces(client), NEW p, PanelType(p), HandleLW(LW(p))
  PROVE  Learns(LW(p), p)
  <1> DEFINE zone == [i \in Index |-> IF Offset(p.zone_temp[i], 60) - 60 > -60
                                      THEN Offset(p.zone_temp[i], 60) - 60 ELSE client.zone_temp[i]]
             kp == [i \in Index |-> IF Offset(p.keypad_temp[i], 40) - 40 > -40
                                    THEN Offset(p.keypad_temp[i], 40) - 40 ELSE client.keypad_temp[i]]
             fields == {"zone_temp", "keypad_temp"}
  <1>1. client' = [client EXCEPT !.zone_temp = zone, !.keypad_temp = kp]
    BY DEF HandleLW, LW, Stores, ZoneDegrees, KeypadDegrees
  <1>2. Told(LW(p)) = fields \X Index
    BY DEF Told, LW
  <1>3. fields \subseteq Field /\ \A g \in fields : Places(g) = Index
    BY FieldNames, IndexPlaces DEF OfPanel
  <1>4. ASSUME NEW i \in Index
        PROVE  /\ zone[i] = p.zone_temp[i] \/ (p.zone_temp[i] = None /\ zone[i] = client.zone_temp[i])
               /\ kp[i] = p.keypad_temp[i] \/ (p.keypad_temp[i] = None /\ kp[i] = client.keypad_temp[i])
    <2>1. Temp \subseteq -39..99
      BY DevicesAssumption
    <2>2. p.zone_temp[i] \in (-39..99) \cup {None} /\ p.keypad_temp[i] \in (-39..99) \cup {None}
      BY <2>1, PanelFields
    <2> QED
      BY <2>2 DEF Offset
  <1>5. zone = [i \in Index |-> zone[i]] /\ kp = [i \in Index |-> kp[i]]
    OBVIOUS
  <1> HIDE DEF zone, kp
  <1>6. /\ client' = [g \in Field |-> client'[g]]
        /\ \A g \in Field \ fields : client'[g] = client[g]
        /\ client'["zone_temp"] = zone /\ client'["keypad_temp"] = kp
    BY <1>1, <1>3, PlacesKept
  <1>7. \A i \in Index : LearnsOne(LW(p), p, "zone_temp", i) /\ LearnsOne(LW(p), p, "keypad_temp", i)
    BY <1>2, <1>4, <1>6 DEF LearnsOne, Silent
  <1>8. \A g \in Field \ fields : \A i \in Places(g) : <<g, i>> \notin Told(LW(p))
    BY <1>2
  <1>9. Updates(LW(p), p, fields)
    BY <1>3, <1>5, <1>6, <1>7, <1>8 DEF Updates
  <1> QED
    BY <1>9, LearnsOf

(* A handler that changes these fields at one place.                        *)
Row(l, p, fields, j) ==
    /\ fields \subseteq Field /\ \A g \in fields : j \in Places(g)
    /\ Told(l) = fields \X {j}
    /\ client' = [g \in Field |-> client'[g]]
    /\ \A g \in Field \ fields : client'[g] = client[g]
    /\ \A g \in fields : client'[g] = [client[g] EXCEPT ![j] = p[g][j]]

LEMMA LearnsRow ==
  ASSUME HasPlaces(client), NEW l, NEW p, NEW fields, NEW j, Row(l, p, fields, j)
  PROVE  Learns(l, p)
  <1> USE DEF Row
  <1>1. ASSUME NEW g \in fields
        PROVE  /\ client'[g] = [i \in Places(g) |-> client'[g][i]]
               /\ \A i \in Places(g) : client'[g][i] = IF i = j THEN p[g][j] ELSE client[g][i]
    <2>1. client[g] = [i \in Places(g) |-> client[g][i]] /\ j \in Places(g)
      BY PlacesKept
    <2>2. PICK d : d = client[g]
      OBVIOUS
    <2>3. d = [i \in Places(g) |-> d[i]] /\ client'[g] = [d EXCEPT ![j] = p[g][j]]
      BY <2>1, <2>2
    <2> QED
      BY <2>1, <2>2, <2>3
  <1>2. ASSUME NEW g \in fields, NEW i \in Places(g) PROVE LearnsOne(l, p, g, i)
    <2>1. <<g, i>> \in Told(l) <=> i = j
      OBVIOUS
    <2> QED
      BY <1>1, <2>1 DEF LearnsOne
  <1>3. \A g \in Field \ fields : \A i \in Places(g) : <<g, i>> \notin Told(l)
    OBVIOUS
  <1>4. Updates(l, p, fields)
    BY <1>1, <1>2, <1>3 DEF Updates
  <1> QED
    BY <1>4, LearnsOf

LEMMA LearnsThermostat ==
  ASSUME HasPlaces(client), NEW p, PanelType(p), NEW j \in Index, HandleTR(TR(p, j))
  PROVE  Learns(TR(p, j), p)
  <1> DEFINE l == TR(p, j)
             fields == {"mode", "hold", "fan", "current_temp", "heat_setpoint", "cool_setpoint",
                        "humidity"}
  <1>1. p.hold[j] \in BOOLEAN /\ client = [g \in Field |-> client[g]]
    BY PanelFields, PlacesKept
  <1>2. client' = [client EXCEPT
             !.mode[j] = p.mode[j], !.hold[j] = p.hold[j], !.fan[j] = p.fan[j],
             !.current_temp[j] = p.current_temp[j], !.heat_setpoint[j] = p.heat_setpoint[j],
             !.cool_setpoint[j] = p.cool_setpoint[j], !.humidity[j] = p.humidity[j]]
    BY <1>1, Indices DEF HandleTR, TR, Stores
  <1>3. Told(l) = fields \X {j}
    BY Indices DEF Told, TR
  <1>4. fields \subseteq Field /\ \A g \in fields : Places(g) = Index
    BY FieldNames, IndexPlaces DEF OfPanel
  <1>5. /\ client' = [g \in Field |-> client'[g]]
        /\ \A g \in Field \ fields : client'[g] = client[g]
        /\ \A g \in fields : client'[g] = [client[g] EXCEPT ![j] = p[g][j]]
    BY <1>1, <1>2, <1>4
  <1>6. Row(l, p, fields, j)
    BY <1>3, <1>4, <1>5 DEF Row
  <1> QED
    BY <1>6, LearnsRow

LEMMA LearnsTimers ==
  ASSUME HasPlaces(client), NEW p, PanelType(p), NEW j \in Index, HandleEE(EE(p, j))
  PROVE  Learns(EE(p, j), p)
  <1> DEFINE l == EE(p, j)
             fields == {"timer1", "timer2", "is_exit"}
  <1>1. p.is_exit[j] \in BOOLEAN /\ client = [g \in Field |-> client[g]]
    BY PanelFields, PlacesKept
  <1>2. client' = [client EXCEPT !.timer1[j] = p.timer1[j], !.timer2[j] = p.timer2[j],
                                 !.is_exit[j] = p.is_exit[j]]
    BY <1>1, Indices DEF HandleEE, EE, Stores
  <1>3. Told(l) = fields \X {j}
    BY Indices DEF Told, EE
  <1>4. fields \subseteq Field /\ \A g \in fields : Places(g) = Index
    BY FieldNames, IndexPlaces DEF OfPanel
  <1>5. /\ client' = [g \in Field |-> client'[g]]
        /\ \A g \in Field \ fields : client'[g] = client[g]
        /\ \A g \in fields : client'[g] = [client[g] EXCEPT ![j] = p[g][j]]
    BY <1>1, <1>2, <1>4
  <1>6. Row(l, p, fields, j)
    BY <1>3, <1>4, <1>5 DEF Row
  <1> QED
    BY <1>6, LearnsRow

(* The attributes of the panel itself.                                      *)
LEMMA LearnsOfPanel ==
  ASSUME HasPlaces(client), NEW p, NEW l \in {VN(p), XK(p), UA(p)}, HandlePanel(l)
  PROVE  Learns(l, p)
  <1>1. OfPanel \subseteq Field /\ \A g \in OfPanel : Places(g) = {0}
    BY FieldNames DEF Places, OfPanel
  <1>2. client = [g \in Field |-> client[g]]
    BY PlacesKept
  <1>3. ASSUME NEW a \in OfPanel, NEW b \in OfPanel, Told(l) = {a, b} \X {0},
               \/ client' = [client EXCEPT ![a][0] = p[a][0], ![b][0] = p[b][0]] /\ a # b
               \/ client' = [client EXCEPT ![a][0] = p[a][0]] /\ a = b
        PROVE  Learns(l, p)
    <2> DEFINE fields == {a, b}
    <2>1. /\ client' = [g \in Field |-> client'[g]]
          /\ \A g \in Field \ fields : client'[g] = client[g]
          /\ \A g \in fields : client'[g] = [client[g] EXCEPT ![0] = p[g][0]]
      BY <1>1, <1>2, <1>3
    <2>2. Row(l, p, fields, 0)
      BY <1>1, <1>3, <2>1 DEF Row
    <2> QED
      BY <2>2, LearnsRow
  <1>4. CASE l = VN(p)
    <2>1. client' = [client EXCEPT !["elkm1_version"][0] = p["elkm1_version"][0],
                                   !["xep_version"][0] = p["xep_version"][0]]
      BY <1>4 DEF HandlePanel, VN, Stores
    <2>2. Told(l) = {"elkm1_version", "xep_version"} \X {0}
      BY <1>4 DEF Told, VN
    <2> QED
      BY <1>3, <2>1, <2>2 DEF OfPanel
  <1>5. CASE l = XK(p)
    <2>1. client' = [client EXCEPT !["real_time_clock"][0] = p["real_time_clock"][0]]
      BY <1>5 DEF HandlePanel, XK, Stores
    <2>2. Told(l) = {"real_time_clock", "real_time_clock"} \X {0}
      BY <1>5 DEF Told, XK
    <2> QED
      BY <1>3, <2>1, <2>2 DEF OfPanel
  <1>6. CASE l = UA(p)
    <2>1. client' = [client EXCEPT !["user_code_length"][0] = p["user_code_length"][0],
                                   !["temperature_units"][0] = p["temperature_units"][0]]
      BY <1>6 DEF HandlePanel, UA, Stores
    <2>2. Told(l) = {"user_code_length", "temperature_units"} \X {0}
      BY <1>6 DEF Told, UA
    <2> QED
      BY <1>3, <2>1, <2>2 DEF OfPanel
  <1> QED
    BY <1>4, <1>5, <1>6

(* A temperature of its own: the panel says it only when there is one.       *)
SaidTemperature(p, j, l) ==
    \/ p.zone_temp[j] # None /\ l = ST(0, j, p.zone_temp[j] + 60)
    \/ p.keypad_temp[j] # None /\ l = ST(1, j, p.keypad_temp[j] + 40)
    \/ l = ST(2, j, p.current_temp[j])

LEMMA LearnsTemperature ==
  ASSUME HasPlaces(client), NEW p, PanelType(p), NEW j \in Index, NEW l, SaidTemperature(p, j, l),
         HandleST(l)
  PROVE  Learns(l, p)
  <1>1. \A f \in {"zone_temp", "keypad_temp", "current_temp"} : f \in Field /\ j \in Places(f)
    BY FieldNames, IndexPlaces DEF OfPanel
  <1>2. l.device - 1 = j /\ l.cmd = "ST"
    BY Indices DEF SaidTemperature, ST
  <1>3. CASE p.zone_temp[j] # None /\ l = ST(0, j, p.zone_temp[j] + 60)
    <2>1. p.zone_temp[j] \in -39..99
      <3>1. Temp \subseteq -39..99
        BY DevicesAssumption
      <3> QED
        BY <1>3, <3>1, PanelFields
    <2>2. l.group = 0 /\ l.temperature - 60 = p.zone_temp[j]
      <3>1. l.group = 0 /\ l.temperature = p.zone_temp[j] + 60
        BY <1>3 DEF ST
      <3>2. p.zone_temp[j] \in Int
        BY <2>1
      <3> QED
        BY <3>1, <3>2
    <2>3. client' = [client EXCEPT !["zone_temp"][j] = p["zone_temp"][j]]
      BY <1>2, <2>2 DEF HandleST, Stores, ZoneDegrees
    <2>4. Told(l) = {<<"zone_temp", j>>}
      BY <1>2, <2>2 DEF Told, Device
    <2> QED
      BY <1>1, <2>3, <2>4, LearnsPlace
  <1>4. CASE p.keypad_temp[j] # None /\ l = ST(1, j, p.keypad_temp[j] + 40)
    <2>1. p.keypad_temp[j] \in -39..99
      <3>1. Temp \subseteq -39..99
        BY DevicesAssumption
      <3> QED
        BY <1>4, <3>1, PanelFields
    <2>2. l.group = 1 /\ l.temperature - 40 = p.keypad_temp[j]
      <3>1. l.group = 1 /\ l.temperature = p.keypad_temp[j] + 40
        BY <1>4 DEF ST
      <3>2. p.keypad_temp[j] \in Int
        BY <2>1
      <3> QED
        BY <3>1, <3>2
    <2>3. client' = [client EXCEPT !["keypad_temp"][j] = p["keypad_temp"][j]]
      BY <1>2, <2>2 DEF HandleST, Stores, KeypadDegrees
    <2>4. Told(l) = {<<"keypad_temp", j>>}
      BY <1>2, <2>2 DEF Told, Device
    <2> QED
      BY <1>1, <2>3, <2>4, LearnsPlace
  <1>5. CASE l = ST(2, j, p.current_temp[j])
    <2>1. l.group = 2 /\ l.temperature = p.current_temp[j]
      BY <1>5 DEF ST
    <2>2. client' = [client EXCEPT !["current_temp"][j] = p["current_temp"][j]]
      BY <1>2, <2>1 DEF HandleST, Stores
    <2>3. Told(l) = {<<"current_temp", j>>}
      BY <1>2, <2>1 DEF Told, Device
    <2> QED
      BY <1>1, <2>2, <2>3, LearnsPlace
  <1> QED
    BY <1>3, <1>4, <1>5 DEF SaidTemperature

(* What a setting holds survives its packing into one number.               *)
LEMMA PackedIsKept ==
  ASSUME NEW v \in (0..255) \X (0..255)
  PROVE  Unpacked(v[1] * 256 + v[2]) = v
  <1>1. v = <<v[1], v[2]>> /\ v[1] \in 0..255 /\ v[2] \in 0..255
    OBVIOUS
  <1>2. \A h, m \in 0..255 : (h * 256 + m) \div 256 = h /\ (h * 256 + m) % 256 = m
    OBVIOUS
  <1>3. (v[1] * 256 + v[2]) \div 256 = v[1] /\ (v[1] * 256 + v[2]) % 256 = v[2]
    BY <1>1, <1>2
  <1> QED
    BY <1>1, <1>3 DEF Unpacked

LEMMA SettingIsKept ==
  ASSUME NEW s \in PanelSetting
  PROVE  Setting(RawSetting(s)) = s
  <1>1. CASE s \in [format : Format \ {"TIME_OF_DAY"}, value : Word16]
    BY <1>1 DEF Setting, RawSetting, Raw, Format
  <1>2. CASE s \in [format : {"TIME_OF_DAY"}, value : (0..255) \X (0..255)]
    <2>1. s = [format |-> s.format, value |-> s.value] /\ s.format = "TIME_OF_DAY"
          /\ s.value \in (0..255) \X (0..255)
      BY <1>2
    <2>2. Unpacked(s.value[1] * 256 + s.value[2]) = s.value
      BY <2>1, PackedIsKept
    <2> QED
      BY <2>1, <2>2 DEF Setting, RawSetting, Raw
  <1> QED
    BY <1>1, <1>2 DEF PanelSetting

LEMMA LearnsSettings ==
  ASSUME HasPlaces(client), NEW p, PanelType(p), NEW l, HandleCR(l),
         l = AllCR(p) \/ \E j \in Index : l = CR(p, j)
  PROVE  Learns(l, p)
  <1>1. "setting" \in Field /\ Places("setting") = Index
    BY FieldNames, IndexPlaces DEF OfPanel
  <1>2. ASSUME NEW i \in Index PROVE Setting(RawSetting(p.setting[i])) = p.setting[i]
    BY SettingIsKept DEF PanelType
  <1>3. CASE l = AllCR(p)
    <2> DEFINE w == [i \in Index |-> Setting(l.values[i])]
    <2>1. l.cmd = "CR" /\ l.number = 0 /\ l.values = [i \in Index |-> RawSetting(p.setting[i])]
      BY <1>3 DEF AllCR
    <2>2. client' = [client EXCEPT !["setting"] = w]
      BY <2>1 DEF HandleCR, Stores
    <2>3. Told(l) = {"setting"} \X Index
      BY <2>1 DEF Told
    <2>4. \A i \in Index : w[i] = p["setting"][i]
      BY <1>2, <2>1
    <2>5. w = [i \in Index |-> w[i]]
      OBVIOUS
    <2> HIDE DEF w
    <2>6. Refresh(l, p, "setting", w)
      BY <1>1, <2>2, <2>3, <2>4, <2>5 DEF Refresh
    <2> QED
      BY <2>6, LearnsField
  <1>4. ASSUME NEW j \in Index, l = CR(p, j) PROVE Learns(l, p)
    <2>1. l.number > 0 /\ l.number - 1 = j /\ l.number = Number(j) /\ l.cmd = "CR"
          /\ l.values = RawSetting(p.setting[j])
      BY <1>4, Indices DEF CR
    <2>2. client' = [client EXCEPT !["setting"][j] = p["setting"][j]]
      BY <1>2, <2>1 DEF HandleCR, Stores
    <2>3. \A i \in Index : l.number \in {0, Number(i)} <=> i = j
      BY <2>1, Indices DEF Number
    <2>4. Told(l) = {<<"setting", j>>}
      <3>1. Told(l) = {"setting"} \X {i \in Index : l.number \in {0, Number(i)}}
        BY <2>1 DEF Told
      <3> QED
        BY <2>3, <3>1
    <2> QED
      BY <1>1, <2>2, <2>4, LearnsPlace
  <1> QED
    BY <1>3, <1>4

LEMMA LearnsNumbers ==
  ASSUME HasPlaces(client), NEW p, PanelType(p), NEW j \in Index, NEW l,
         \/ l = CV(p, j) /\ HandleCV(l)
         \/ l = ZV(p, j) /\ HandleZV(l)
         \/ l = LD(p, j) /\ HandleLD(l)
  PROVE  Learns(l, p)
  <1>1. \A f \in {"counter", "voltage", "last_log"} : f \in Field /\ j \in Places(f)
    BY FieldNames, IndexPlaces DEF OfPanel
  <1>2. CASE l = CV(p, j) /\ HandleCV(l)
    <2>1. client' = [client EXCEPT !["counter"][j] = p["counter"][j]]
      BY <1>2, Indices DEF HandleCV, CV, Stores
    <2>2. Told(l) = {<<"counter", j>>}
      BY <1>2, Indices DEF Told, CV
    <2> QED
      BY <1>1, <2>1, <2>2, LearnsPlace
  <1>3. CASE l = ZV(p, j) /\ HandleZV(l)
    <2>1. (10 * p.voltage[j]) \div 10 = p.voltage[j]
      <3>1. p.voltage[j] \in 0..1
        BY PanelFields
      <3> QED
        BY <3>1
    <2>2. client' = [client EXCEPT !["voltage"][j] = p["voltage"][j]]
      BY <1>3, <2>1, Indices DEF HandleZV, ZV, Stores
    <2>3. Told(l) = {<<"voltage", j>>}
      BY <1>3, Indices DEF Told, ZV
    <2> QED
      BY <1>1, <2>2, <2>3, LearnsPlace
  <1>4. CASE l = LD(p, j) /\ HandleLD(l)
    <2>1. client' = [client EXCEPT !["last_log"][j] = p["last_log"][j]]
      BY <1>4, Indices DEF HandleLD, LD, Stores
    <2>2. Told(l) = {<<"last_log", j>>}
      BY <1>4, Indices DEF Told, LD
    <2> QED
      BY <1>1, <2>1, <2>2, LearnsPlace
  <1> QED
    BY <1>2, <1>3, <1>4

(* The lists: one character for every element.                              *)
LEMMA LearnsLists ==
  ASSUME HasPlaces(client), NEW p, PanelType(p), NEW l \in {AM(p), ZD(p), ZP(p)}, HandleList(l)
  PROVE  Learns(l, p)
  <1>1. \A f \in {"alarm_memory", "definition", "zone_area"} : f \in Field /\ Places(f) = Index
    BY FieldNames, IndexPlaces DEF OfPanel
  <1>2. CASE l = AM(p)
    <2> DEFINE w == [i \in Index |-> l.list[i] = "1"]
    <2>1. l.cmd = "AM" /\ l.list = [i \in Index |-> IF p.alarm_memory[i] THEN "1" ELSE "0"]
      BY <1>2 DEF AM
    <2>2. client' = [client EXCEPT !["alarm_memory"] = w]
      BY <2>1 DEF HandleList, Stores
    <2>3. Told(l) = {"alarm_memory"} \X Index
      BY <2>1 DEF Told
    <2>4. ASSUME NEW i \in Index PROVE w[i] = p["alarm_memory"][i]
      <3>1. p.alarm_memory[i] \in BOOLEAN
        BY PanelFields
      <3> QED
        BY <2>1, <3>1
    <2>5. w = [i \in Index |-> w[i]]
      OBVIOUS
    <2> HIDE DEF w
    <2>6. Refresh(l, p, "alarm_memory", w)
      BY <1>1, <2>2, <2>3, <2>4, <2>5 DEF Refresh
    <2> QED
      BY <2>6, LearnsField
  <1>3. CASE l = ZD(p)
    <2> DEFINE w == [i \in Index |-> l.list[i] - 48]
    <2>1. l.cmd = "ZD" /\ l.list = [i \in Index |-> 48 + p.definition[i]]
      BY <1>3 DEF ZD
    <2>2. client' = [client EXCEPT !["definition"] = w]
      BY <2>1 DEF HandleList, Stores
    <2>3. Told(l) = {"definition"} \X Index
      BY <2>1 DEF Told
    <2>4. ASSUME NEW i \in Index PROVE w[i] = p["definition"][i]
      <3>1. p.definition[i] \in 0..1
        BY PanelFields
      <3> QED
        BY <2>1, <3>1
    <2>5. w = [i \in Index |-> w[i]]
      OBVIOUS
    <2> HIDE DEF w
    <2>6. Refresh(l, p, "definition", w)
      BY <1>1, <2>2, <2>3, <2>4, <2>5 DEF Refresh
    <2> QED
      BY <2>6, LearnsField
  <1>4. CASE l = ZP(p)
    <2> DEFINE w == [i \in Index |-> l.list[i] - 49]
    <2>1. l.cmd = "ZP" /\ l.list = [i \in Index |-> 48 + Number(p.zone_area[i])]
      BY <1>4 DEF ZP
    <2>2. client' = [client EXCEPT !["zone_area"] = w]
      BY <2>1 DEF HandleList, Stores
    <2>3. Told(l) = {"zone_area"} \X Index
      BY <2>1 DEF Told
    <2>4. ASSUME NEW i \in Index PROVE w[i] = p["zone_area"][i]
      <3>1. p.zone_area[i] \in Nat
        BY PanelFields, Indices
      <3> QED
        BY <2>1, <3>1 DEF Number
    <2>5. w = [i \in Index |-> w[i]]
      OBVIOUS
    <2> HIDE DEF w
    <2>6. Refresh(l, p, "zone_area", w)
      BY <1>1, <2>2, <2>3, <2>4, <2>5 DEF Refresh
    <2> QED
      BY <2>6, LearnsField
  <1> QED
    BY <1>2, <1>3, <1>4

LEMMA LearnsAreas ==
  ASSUME HasPlaces(client), NEW p, PanelType(p), HandleKA(KA(p))
  PROVE  Learns(KA(p), p)
  <1> DEFINE l == KA(p)
             w == [i \in Index |-> IF l.areas[i] - 49 >= 0 THEN l.areas[i] - 49
                                   ELSE client.keypad_area[i]]
  <1>1. "keypad_area" \in Field /\ Places("keypad_area") = Index
    BY FieldNames, IndexPlaces DEF OfPanel
  <1>2. l.cmd = "KA" /\ l.areas = [i \in Index |-> IF p.keypad_area[i] = None THEN 48
                                                    ELSE 48 + Number(p.keypad_area[i])]
    BY DEF KA
  <1>3. Told(l) = {"keypad_area"} \X Index
    BY <1>2 DEF Told
  <1>4. client' = [client EXCEPT !["keypad_area"] = w]
    BY <1>2 DEF HandleKA, Stores
  <1>5. ASSUME NEW i \in Index
        PROVE  \/ w[i] = p["keypad_area"][i]
               \/ Silent(p, "keypad_area", i) /\ w[i] = client["keypad_area"][i]
    <2>1. p.keypad_area[i] \in Nat \cup {None}
      BY PanelFields, Indices
    <2> QED
      BY <1>2, <2>1 DEF Number, Silent
  <1>6. w = [i \in Index |-> w[i]]
    OBVIOUS
  <1> HIDE DEF w, l
  <1>7. Refresh(l, p, "keypad_area", w)
    BY <1>1, <1>3, <1>4, <1>5, <1>6 DEF Refresh
  <1> QED
    BY <1>7, LearnsField DEF l

LEMMA LearnsTroubles ==
  ASSUME HasPlaces(client), NEW p, PanelType(p), HandleSS(SS(p))
  PROVE  Learns(SS(p), p)
  <1> DEFINE l == SS(p)
             w == [i \in Position |-> CASE i \in Plain -> IF l.troubles[i] # 48 THEN 1 ELSE 0
                                        [] i \in ZoneEncoded -> l.troubles[i] - 48
                                        [] OTHER -> 0]
  <1>1. "trouble" \in Field /\ Places("trouble") = Position
    BY FieldNames DEF OfPanel, Places
  <1>2. l.cmd = "SS" /\ l.troubles = [i \in Position |-> 48 + p.trouble[i]]
    BY DEF SS
  <1>3. Told(l) = {"trouble"} \X Position
    BY <1>2 DEF Told
  <1>4. client' = [client EXCEPT !["trouble"] = w]
    BY <1>2 DEF HandleSS, Stores
  <1>5. ASSUME NEW i \in Position
        PROVE  w[i] = p["trouble"][i] \/ (Silent(p, "trouble", i) /\ w[i] = 0)
    <2>1. p.trouble[i] \in 0..2 /\ (i \notin ZoneEncoded => p.trouble[i] \in 0..1)
      BY PanelFields DEF PanelType
    <2>2. Plain \cap ZoneEncoded = {}
      BY DEF Plain, ZoneEncoded
    <2>3. l.troubles[i] = 48 + p.trouble[i]
      BY <1>2
    <2> HIDE DEF l
    <2>4. CASE i \in Plain
      <3>1. i \notin ZoneEncoded
        BY <2>2, <2>4
      <3>2. w[i] = IF l.troubles[i] # 48 THEN 1 ELSE 0
        BY <2>4, <3>1
      <3> QED
        BY <2>1, <2>3, <3>1, <3>2
    <2>5. CASE i \in ZoneEncoded
      <3>1. i \notin Plain
        BY <2>2, <2>5
      <3>2. w[i] = l.troubles[i] - 48
        BY <2>5, <3>1
      <3> QED
        BY <2>1, <2>3, <3>2
    <2>6. CASE i \notin Plain \cup ZoneEncoded
      BY <2>6 DEF Silent
    <2> QED
      BY <2>4, <2>5, <2>6
  <1>6. w = [i \in Position |-> w[i]]
    OBVIOUS
  <1> HIDE DEF w, l
  <1>7. Refresh(l, p, "trouble", w)
    BY <1>1, <1>3, <1>4, <1>5, <1>6 DEF Refresh
  <1> QED
    BY <1>7, LearnsField DEF l

LEMMA LearnsChimes ==
  ASSUME HasPlaces(client), NEW p, PanelType(p), NEW j \in Index, NEW key, HandleKF(KF(p, j, key))
  PROVE  Learns(KF(p, j, key), p)
  <1> DEFINE l == KF(p, j, key)
  <1>1. "chime" \in Field /\ Places("chime") = Index
    BY FieldNames, IndexPlaces DEF OfPanel
  <1>2. l.cmd = "KF" /\ l.chime_mode = p.chime
    BY DEF KF
  <1>3. client' = [client EXCEPT !["chime"] = p.chime]
    BY <1>2 DEF HandleKF
  <1>4. Told(l) = {"chime"} \X Index
    BY <1>2 DEF Told
  <1>5. PICK w : w = p.chime
    OBVIOUS
  <1>6. w = [i \in Index |-> w[i]]
    BY <1>1, <1>5, PlacesKept DEF PanelType
  <1> HIDE DEF l
  <1>7. Refresh(l, p, "chime", w)
    BY <1>1, <1>3, <1>4, <1>5, <1>6 DEF Refresh
  <1> QED
    BY <1>7, LearnsField DEF l

-----------------------------------------------------------------------------
(* The lines that the panel may say when it is p.                           *)
Commands == {"LW", "ST", "TR", "KA", "KC", "KF", "IC", "CR", "CV", "TC", "LD", "AM", "ZD", "ZP",
             "ZV", "EE", "VN", "XK", "UA", "SS"}
Said(l, p) ==
    /\ l.cmd \in Commands
    /\ l.cmd = "LW" => l = LW(p)
    /\ l.cmd = "ST" => \E i \in Index : SaidTemperature(p, i, l)
    /\ l.cmd = "TR" => \E i \in Index : l = TR(p, i)
    /\ l.cmd = "KA" => l = KA(p)
    /\ l.cmd = "KC" => \E i \in Index, key \in 0..1 : l = KC(i, key)
    /\ l.cmd = "KF" => \E i \in Index, key \in {"0", "1", "C"} : l = KF(p, i, key)
    /\ l.cmd = "IC" => \E i \in Index, code \in DOMAIN UserOf : l = IC(i, code)
    /\ l.cmd = "CR" => l = AllCR(p) \/ \E i \in Index : l = CR(p, i)
    /\ l.cmd = "CV" => \E i \in Index : l = CV(p, i)
    /\ l.cmd = "TC" => \E i \in Index : l = TC(i)
    /\ l.cmd = "LD" => \E i \in Index : l = LD(p, i)
    /\ l.cmd = "AM" => l = AM(p)
    /\ l.cmd = "ZD" => l = ZD(p)
    /\ l.cmd = "ZP" => l = ZP(p)
    /\ l.cmd = "ZV" => \E i \in Index : l = ZV(p, i)
    /\ l.cmd = "EE" => \E i \in Index : l = EE(p, i)
    /\ l.cmd = "VN" => l = VN(p)
    /\ l.cmd = "XK" => l = XK(p)
    /\ l.cmd = "UA" => l = UA(p)
    /\ l.cmd = "SS" => l = SS(p)

(* The handlers of Handle that store what a line brings, and the others.    *)
Storing(l) ==
    \/ HandleLW(l) \/ HandleST(l) \/ HandleTR(l) \/ HandleKA(l) \/ HandleCR(l) \/ HandleCV(l)
    \/ HandleZV(l) \/ HandleLD(l) \/ HandleList(l) \/ HandleEE(l) \/ HandlePanel(l) \/ HandleSS(l)
Telling(l) == HandleKC(l) \/ HandleKF(l) \/ HandleIC(l) \/ HandleTC(l)

(* The client learns what it is told, and nothing else, from every line.    *)
LEMMA Learned ==
  ASSUME HasPlaces(client), NEW p, PanelType(p), NEW l, Said(l, p), Storing(l) \/ Telling(l)
  PROVE  Learns(l, p)
  <1> USE DEF Said
  <1>1. CASE HandleLW(l)
    BY <1>1, LearnsTemperatures DEF HandleLW
  <1>2. CASE HandleST(l)
    <2>1. PICK i \in Index : SaidTemperature(p, i, l)
      BY <1>2 DEF HandleST
    <2> QED
      BY <1>2, <2>1, LearnsTemperature
  <1>3. CASE HandleTR(l)
    <2>1. PICK i \in Index : l = TR(p, i)
      BY <1>3 DEF HandleTR
    <2> QED
      BY <1>3, <2>1, LearnsThermostat
  <1>4. CASE HandleKA(l)
    BY <1>4, LearnsAreas DEF HandleKA
  <1>5. CASE HandleCR(l)
    BY <1>5, LearnsSettings DEF HandleCR
  <1>6. CASE HandleCV(l) \/ HandleZV(l) \/ HandleLD(l)
    <2>1. \E i \in Index : \/ l = CV(p, i) /\ HandleCV(l)
                           \/ l = ZV(p, i) /\ HandleZV(l)
                           \/ l = LD(p, i) /\ HandleLD(l)
      BY <1>6 DEF HandleCV, HandleZV, HandleLD
    <2> QED
      BY <2>1, LearnsNumbers
  <1>7. CASE HandleList(l)
    <2>1. l \in {AM(p), ZD(p), ZP(p)}
      BY <1>7 DEF HandleList
    <2> QED
      BY <1>7, <2>1, LearnsLists
  <1>8. CASE HandleEE(l)
    <2>1. PICK i \in Index : l = EE(p, i)
      BY <1>8 DEF HandleEE
    <2> QED
      BY <1>8, <2>1, LearnsTimers
  <1>9. CASE HandlePanel(l)
    <2>1. l \in {VN(p), XK(p), UA(p)}
      BY <1>9 DEF HandlePanel
    <2> QED
      BY <1>9, <2>1, LearnsOfPanel
  <1>10. CASE HandleSS(l)
    BY <1>10, LearnsTroubles DEF HandleSS
  <1>11. CASE HandleKF(l)
    <2>1. PICK i \in Index, key \in {"0", "1", "C"} : l = KF(p, i, key)
      BY <1>11 DEF HandleKF
    <2> QED
      BY <1>11, <2>1, LearnsChimes
  <1>12. CASE HandleKC(l) \/ HandleIC(l) \/ HandleTC(l)
    <2>1. client' = client /\ l.cmd \in {"KC", "IC", "TC"}
      BY <1>12 DEF HandleKC, HandleIC, HandleTC
    <2>2. Told(l) = {}
      BY <2>1 DEF Told
    <2> QED
      BY <2>1, <2>2 DEF Learns, LearnsOne, HasPlaces
  <1> QED
    BY <1>1, <1>2, <1>3, <1>4, <1>5, <1>6, <1>7, <1>8, <1>9, <1>10, <1>11, <1>12
    DEF Storing, Telling

(* No line tells of the day of the week.                                    *)
LEMMA WeekdayIsNotTold ==
  ASSUME NEW p, NEW l, Said(l, p)
  PROVE  <<"weekday", 0>> \notin Told(l)
  <1>1. CASE l.cmd = "ST"
    <2>1. PICK i \in Index : SaidTemperature(p, i, l)
      BY <1>1 DEF Said
    <2>2. l.group \in {0, 1, 2}
      BY <2>1 DEF SaidTemperature, ST
    <2>3. Told(l) = {<<Device(l.group), l.device - 1>>}
      BY <1>1 DEF Told
    <2> QED
      BY <2>2, <2>3 DEF Device
  <1>2. CASE l.cmd # "ST"
    BY <1>2 DEF Said, Commands, Told
  <1> QED
    BY <1>1, <1>2

-----------------------------------------------------------------------------
(* What happens at the panel, and what it is told.                          *)
LEMMA AnnouncementsAreSaid ==
  ASSUME NEW p, NEW f \in Field \ {"weekday"}, NEW i \in Places(f), NEW l \in Announcements(p, f, i)
  PROVE  Said(l, p) /\ <<f, i>> \in Told(l)
  <1>1. CASE f \in {"zone_temp", "keypad_temp", "current_temp"}
    <2>0. i \in Index
      BY <1>1, IndexPlaces, FieldNames DEF OfPanel
    <2>1. CASE l = LW(p) /\ f # "current_temp"
      <3>1. l.cmd = "LW"
        BY <2>1 DEF LW
      <3>2. Told(l) = {"zone_temp", "keypad_temp"} \X Index
        BY <3>1 DEF Told
      <3> QED
        BY <1>1, <2>0, <2>1, <3>1, <3>2 DEF Said, Commands
    <2>2. CASE l = TR(p, i) /\ f = "current_temp"
      <3>1. l.cmd = "TR" /\ l.thermostat - 1 = i
        BY <2>0, <2>2, Indices DEF TR
      <3>2. <<f, i>> \in Told(l)
        BY <2>2, <3>1 DEF Told
      <3> QED
        BY <2>0, <2>2, <3>1, <3>2 DEF Said, Commands
    <2>3. CASE \/ f = "zone_temp" /\ p.zone_temp[i] # None /\ l = ST(0, i, p.zone_temp[i] + 60)
               \/ f = "keypad_temp" /\ p.keypad_temp[i] # None /\ l = ST(1, i, p.keypad_temp[i] + 40)
               \/ f = "current_temp" /\ l = ST(2, i, p.current_temp[i])
      <3>1. l.cmd = "ST" /\ l.device - 1 = i
        BY <2>0, <2>3, Indices DEF ST
      <3>2. Device(l.group) = f
        BY <2>3 DEF ST, Device
      <3>3. <<f, i>> \in Told(l)
        BY <3>1, <3>2 DEF Told
      <3>4. SaidTemperature(p, i, l)
        BY <2>3 DEF SaidTemperature
      <3> QED
        BY <2>0, <3>1, <3>3, <3>4 DEF Said, Commands
    <2> QED
      BY <1>1, <2>1, <2>2, <2>3 DEF Announcements
  <1>2. CASE f \in {"mode", "hold", "fan", "heat_setpoint", "cool_setpoint", "humidity"}
    <2>1. i \in Index /\ l = TR(p, i)
      BY <1>2, IndexPlaces, FieldNames DEF OfPanel, Announcements
    <2>2. l.cmd = "TR" /\ l.thermostat - 1 = i
      BY <2>1, Indices DEF TR
    <2>3. <<f, i>> \in Told(l)
      BY <1>2, <2>2 DEF Told
    <2> QED
      BY <2>1, <2>2, <2>3 DEF Said, Commands
  <1>3. CASE f \in {"keypad_area", "alarm_memory", "definition", "zone_area"}
    <2>1. i \in Index
      BY <1>3, IndexPlaces, FieldNames DEF OfPanel
    <2>2. \/ f = "keypad_area" /\ l = KA(p) /\ l.cmd = "KA"
          \/ f = "alarm_memory" /\ l = AM(p) /\ l.cmd = "AM"
          \/ f = "definition" /\ l = ZD(p) /\ l.cmd = "ZD"
          \/ f = "zone_area" /\ l = ZP(p) /\ l.cmd = "ZP"
      BY <1>3 DEF Announcements, KA, AM, ZD, ZP
    <2>3. <<f, i>> \in Told(l)
      BY <2>1, <2>2 DEF Told
    <2> QED
      BY <2>2, <2>3 DEF Said, Commands
  <1>4. CASE f = "chime"
    <2>1. i \in Index
      BY <1>4, IndexPlaces, FieldNames DEF OfPanel
    <2>2. PICK k \in Index : l = KF(p, k, "C")
      BY <1>4 DEF Announcements
    <2>3. l.cmd = "KF"
      BY <2>2 DEF KF
    <2>4. <<f, i>> \in Told(l)
      BY <1>4, <2>1, <2>3 DEF Told
    <2> QED
      BY <2>2, <2>3, <2>4 DEF Said, Commands
  <1>5. CASE f = "setting"
    <2>1. i \in Index /\ l \in {CR(p, i), AllCR(p)}
      BY <1>5, IndexPlaces, FieldNames DEF OfPanel, Announcements
    <2>2. l.cmd = "CR" /\ l.number \in {0, Number(i)}
      BY <2>1 DEF CR, AllCR
    <2>3. <<f, i>> \in Told(l)
      BY <1>5, <2>1, <2>2 DEF Told
    <2> QED
      BY <2>1, <2>2, <2>3 DEF Said, Commands
  <1>6. CASE f \in {"counter", "last_log", "voltage"}
    <2>1. i \in Index
      BY <1>6, IndexPlaces, FieldNames DEF OfPanel
    <2>2. \/ f = "counter" /\ l = CV(p, i) /\ l.cmd = "CV" /\ l.counter - 1 = i
          \/ f = "last_log" /\ l = LD(p, i) /\ l.cmd = "LD" /\ l.area - 1 = i
          \/ f = "voltage" /\ l = ZV(p, i) /\ l.cmd = "ZV" /\ l.zone - 1 = i
      BY <1>6, <2>1, Indices DEF Announcements, CV, LD, ZV
    <2>3. <<f, i>> \in Told(l)
      BY <2>1, <2>2 DEF Told
    <2> QED
      BY <2>1, <2>2, <2>3 DEF Said, Commands
  <1>7. CASE f \in {"is_exit", "timer1", "timer2"}
    <2>1. i \in Index /\ l = EE(p, i)
      BY <1>7, IndexPlaces, FieldNames DEF OfPanel, Announcements
    <2>2. l.cmd = "EE" /\ l.area - 1 = i
      BY <2>1, Indices DEF EE
    <2>3. <<f, i>> \in Told(l)
      BY <1>7, <2>2 DEF Told
    <2> QED
      BY <2>1, <2>2, <2>3 DEF Said, Commands
  <1>8. CASE f \in OfPanel
    <2>1. i = 0
      BY <1>8 DEF Places, OfPanel
    <2>2. \/ f \in {"elkm1_version", "xep_version"} /\ l = VN(p) /\ l.cmd = "VN"
          \/ f = "real_time_clock" /\ l = XK(p) /\ l.cmd = "XK"
          \/ f \in {"user_code_length", "temperature_units"} /\ l = UA(p) /\ l.cmd = "UA"
      BY <1>8 DEF Announcements, VN, XK, UA, OfPanel
    <2>3. <<f, i>> \in Told(l)
      BY <2>1, <2>2 DEF Told
    <2> QED
      BY <2>2, <2>3 DEF Said, Commands
  <1>9. CASE f = "trouble"
    <2>1. i \in Position /\ l = SS(p)
      BY <1>9 DEF Places, OfPanel, Announcements
    <2>2. l.cmd = "SS"
      BY <2>1 DEF SS
    <2>3. <<f, i>> \in Told(l)
      BY <1>9, <2>1, <2>2 DEF Told
    <2> QED
      BY <2>1, <2>2, <2>3 DEF Said, Commands
  <1> QED
    BY <1>1, <1>2, <1>3, <1>4, <1>5, <1>6, <1>7, <1>8, <1>9, FieldNames DEF OfPanel

(* What a fact may become.                                                  *)
Fits(f, i, v) ==
    /\ f # "setting" => v \in Truth[f]
    /\ f = "setting" => v \in PanelSetting
    /\ f = "trouble" /\ i \notin ZoneEncoded => v \in 0..1

LEMMA PanelBecomes ==
  ASSUME PanelType(panel), NEW f \in Field, NEW i \in Places(f), NEW v, Fits(f, i, v),
         NEW p, p = [panel EXCEPT ![f][i] = v]
  PROVE  /\ PanelType(p)
         /\ p[f][i] = v
         /\ \A g \in Field : \A k \in Places(g) : <<g, k>> # <<f, i>> => p[g][k] = panel[g][k]
         /\ Changed(p) \subseteq {<<f, i>>}
  <1>1. HasPlaces(panel)
    BY DEF PanelType
  <1>2. /\ panel = [g \in Field |-> panel[g]]
        /\ \A g \in Field : panel[g] = [k \in Places(g) |-> panel[g][k]]
    BY <1>1, PlacesKept
  <1>3. /\ p = [g \in Field |-> p[g]]
        /\ \A g \in Field \ {f} : p[g] = panel[g]
        /\ p[f] = [panel[f] EXCEPT ![i] = v]
    BY <1>2
  <1>4. /\ p[f] = [k \in Places(f) |-> p[f][k]]
        /\ \A k \in Places(f) : p[f][k] = IF k = i THEN v ELSE panel[f][k]
    <2>1. PICK d : d = panel[f]
      OBVIOUS
    <2>2. d = [k \in Places(f) |-> d[k]] /\ p[f] = [d EXCEPT ![i] = v]
      BY <1>2, <1>3, <2>1
    <2> QED
      BY <2>1, <2>2
  <1>5. \A g \in Field : \A k \in Places(g) : <<g, k>> # <<f, i>> => p[g][k] = panel[g][k]
    BY <1>3, <1>4
  <1>6. \A g \in Field : p[g] = [k \in Places(g) |-> p[g][k]]
    <2>1. ASSUME NEW g \in Field \ {f} PROVE p[g] = [k \in Places(g) |-> p[g][k]]
      <3>1. PICK d : d = panel[g]
        OBVIOUS
      <3>2. d = [k \in Places(g) |-> d[k]] /\ p[g] = d
        BY <1>2, <1>3, <3>1
      <3> QED
        BY <3>2
    <2> QED
      BY <1>4, <2>1
  <1>7. HasPlaces(p)
    BY <1>3, <1>6 DEF HasPlaces
  <1>8. ASSUME NEW g \in Field \ {"setting"}, NEW k \in Places(g) PROVE p[g][k] \in Truth[g]
    BY <1>4, <1>5 DEF PanelType, Fits
  <1>9. \A k \in Index : p.setting[k] \in PanelSetting
    <2>1. "setting" \in Field /\ Places("setting") = Index
      BY FieldNames, IndexPlaces DEF OfPanel
    <2> QED
      BY <1>4, <1>5, <2>1 DEF PanelType, Fits
  <1>10. \A k \in Position \ ZoneEncoded : p.trouble[k] \in 0..1
    <2>1. "trouble" \in Field /\ Places("trouble") = Position
      BY FieldNames DEF Places, OfPanel
    <2> QED
      BY <1>4, <1>5, <2>1 DEF PanelType, Fits
  <1>11. Changed(p) \subseteq {<<f, i>>}
    BY <1>5, FactShape DEF Changed
  <1> QED
    BY <1>4, <1>5, <1>7, <1>8, <1>9, <1>10, <1>11 DEF PanelType

(* What the client meant by a fact that becomes v: nothing, v itself, or the *)
(* value of a setting in the format that it knew the setting to have.       *)
MeansOf(f, i, v) ==
    \E m : /\ Means(f, i, m)
           /\ \/ m = None
              \/ f \in DOMAIN SettingTyping \cup {"counter"} /\ m = v
              \/ /\ f = "setting" /\ Knows(f, i)
                 /\ client.setting[i].format = panel.setting[i].format =>
                       v = [panel.setting[i] EXCEPT !.value = m]

(* All that a step of the panel, or a call, can do.                         *)
FactBecomes == \E f \in Field \ {"weekday"} : \E i \in Places(f) : \E v :
                  Fits(f, i, v) /\ Becomes(f, i, v) /\ MeansOf(f, i, v)
PanelSays == \E l : Said(l, panel) /\ Says(panel, l) /\ UNCHANGED meant
KeyPressed == \E i \in Index, key \in {"1", "C"} : FunctionKey(i, key) /\ UNCHANGED meant
TimeIsSet == \E w \in 0..6 : SetTime(w)

LEMMA WatchedFacts ==
  ASSUME watched \in Watched, NEW x \in watched
  PROVE  /\ x = <<x[1], x[2]>>
         /\ x[1] \in Field \cup {"press", "task"}
         /\ x[1] \in Field => x[2] \in Places(x[1])
         /\ x[1] \in {"press", "task"} => x[2] \in Index
  <1>1. x \in Fact \cup Event
    BY WatchedAssumption
  <1>2. "press" \notin Field /\ "task" \notin Field
    BY FieldNames
  <1>3. CASE x \in Fact
    BY <1>2, <1>3, FactShape
  <1>4. CASE x \in Event
    BY <1>2, <1>4 DEF Event
  <1> QED
    BY <1>1, <1>3, <1>4

LEMMA ChangeFits ==
  ASSUME PanelType(panel), NEW f \in Field \ {"weekday"}, NEW i \in Places(f), Change(f, i)
  PROVE  FactBecomes
  <1>1. PICK v \in (IF i \in Named(f) THEN Truth[f] ELSE 0..1) : Becomes(f, i, v)
    BY DEF Change
  <1>2. Means(f, i, None)
    BY DEF Change, Means
  <1>3. MeansOf(f, i, v)
    BY <1>2 DEF MeansOf
  <1>4. Fits(f, i, v)
    <2>1. CASE f = "trouble"
      <3>1. i \in ZoneEncoded => v \in Truth.trouble
        BY <1>1, <2>1 DEF Named
      <3>2. i \notin ZoneEncoded => v \in 0..1
        BY <1>1, <2>1 DEF Named
      <3>3. Truth.trouble = 0..2
        BY DEF Truth
      <3>4. v \in 0..2
        BY <3>1, <3>2, <3>3
      <3> QED
        BY <2>1, <3>2, <3>3, <3>4 DEF Fits
    <2>2. CASE f # "trouble"
      <3>1. v \in Truth[f]
        BY <1>1, <2>2 DEF Named
      <3>2. f = "setting" => v \in Stored
        BY <3>1 DEF Truth
      <3>3. Stored \subseteq PanelSetting
        <4>1. Word \subseteq Word16 /\ TimeOfDay \subseteq (0..255) \X (0..255)
          BY DevicesAssumption
        <4> QED
          BY <4>1 DEF Stored, PanelSetting
      <3> QED
        BY <2>2, <3>1, <3>2, <3>3 DEF Fits
    <2> QED
      BY <2>1, <2>2
  <1> QED
    BY <1>1, <1>3, <1>4 DEF FactBecomes

(* The panel decodes what the client encoded for a thermostat.              *)
LEMMA ThermostatObeys ==
  ASSUME NEW i \in Index, NEW s \in DOMAIN SettingTyping, NEW v \in Values, SetThermostat(i, s, v)
  PROVE  FactBecomes
  <1> DEFINE r == Ts(i, s, v)
  <1>1. /\ DOMAIN SettingTyping = {"mode", "hold", "fan", "cool_setpoint", "heat_setpoint"}
        /\ DOMAIN ElementNumber = DOMAIN SettingTyping
    BY DEF SettingTyping, ElementNumber
  <1>2. \A x, y \in DOMAIN ElementNumber : ElementNumber[x] = ElementNumber[y] => x = y
    BY DEF ElementNumber
  <1>3. (CHOOSE x \in DOMAIN ElementNumber : ElementNumber[x] = r.element) = s
    BY <1>1, <1>2 DEF Ts
  <1>4. r.thermostat - 1 = i
    BY Indices DEF Ts
  <1>5. v.type = SettingTyping[s]
    BY DEF SetThermostat, Accepts
  <1>6. /\ s = "mode" => v.type = "ThermostatMode" /\ v.value \in 0..4
        /\ s = "hold" => v.type = "bool" /\ v.value \in BOOLEAN
        /\ s = "fan" => v.type = "ThermostatFan" /\ v.value \in 0..1
        /\ s \in {"cool_setpoint", "heat_setpoint"} => v.type = "int" /\ v.value \in Temp \cap Nat
    BY <1>5 DEF SettingTyping, Values
  <1>7. (IF s = "hold" THEN r.value = 1 ELSE r.value) = v.value
    BY <1>1, <1>6 DEF Ts
  <1>8. Becomes(s, i, v.value)
    <2>1. Becomes(s, i, IF s = "hold" THEN r.value = 1 ELSE r.value)
      BY <1>3, <1>4 DEF SetThermostat, ObeyTs
    <2> QED
      BY <1>7, <2>1
  <1>9. Fits(s, i, v.value)
    BY <1>1, <1>6 DEF Fits, Truth
  <1>10. MeansOf(s, i, v.value)
    BY DEF MeansOf, SetThermostat
  <1>11. s \in Field \ {"weekday"} /\ i \in Places(s)
    BY <1>1, FieldNames, IndexPlaces DEF OfPanel
  <1> QED
    BY <1>8, <1>9, <1>10, <1>11 DEF FactBecomes

LEMMA TwoBytes ==
  /\ \A h, m \in 0..255 : h * 256 + m \in Word16
  /\ \A n \in Word16 : Unpacked(n) \in (0..255) \X (0..255)
  <1>1. \A h, m \in 0..255 : h * 256 + m \in Word16
    BY DEF Word16
  <1>2. ASSUME NEW n \in Word16 PROVE Unpacked(n) \in (0..255) \X (0..255)
    <2>1. n \in Nat /\ n < 256 * 256
      BY DEF Word16
    <2>2. n \div 256 \in Nat
      BY <2>1
    <2>3. n \div 256 < 256
      BY <2>1
    <2>4. n % 256 \in 0..255
      BY <2>1
    <2> QED
      BY <2>2, <2>3, <2>4 DEF Unpacked
  <1> QED
    BY <1>1, <1>2

LEMMA SettingObeys ==
  ASSUME PanelType(panel), NEW i \in Index, SetSetting(i)
  PROVE  FactBecomes
  <1> DEFINE s == panel.setting[i]
             byTime == client.setting[i].format = "TIME_OF_DAY"
  <1>1. PICK v \in IF byTime THEN TimeOfDay ELSE Word :
           /\ ObeyCw(Cw(i, v))
           /\ Means("setting", i, IF Knows("setting", i) THEN v ELSE None)
    BY DEF SetSetting
  <1> DEFINE n == IF byTime THEN Packed(v) ELSE v
             t == [s EXCEPT !.value = IF s.format = "TIME_OF_DAY" THEN Unpacked(n) ELSE n]
  <1>2. Becomes("setting", i, t)
    BY <1>1, Indices DEF ObeyCw, Cw
  <1>3. n \in Word16
    <2>1. Word \subseteq Word16 /\ TimeOfDay \subseteq (0..255) \X (0..255)
      BY DevicesAssumption
    <2>2. CASE byTime
      <3>1. v[1] \in 0..255 /\ v[2] \in 0..255
        BY <1>1, <2>1, <2>2
      <3> QED
        BY <2>2, <3>1, TwoBytes DEF Packed
    <2>3. CASE ~byTime
      BY <1>1, <2>1, <2>3
    <2> QED
      BY <2>2, <2>3
  <1>4. Unpacked(n) \in (0..255) \X (0..255)
    BY <1>3, TwoBytes
  <1>5. s \in PanelSetting
    BY DEF PanelType
  <1>6. t \in PanelSetting
    <2> HIDE DEF s, n
    <2> QED
      BY <1>3, <1>4, <1>5 DEF PanelSetting, Format
  <1>7. byTime => Unpacked(n) = v
    <2>1. byTime => v \in (0..255) \X (0..255)
      BY <1>1, DevicesAssumption
    <2> QED
      BY <2>1, PackedIsKept DEF Packed
  <1>8. client.setting[i].format = s.format => t = [s EXCEPT !.value = v]
    BY <1>7
  <1>9. Fits("setting", i, t)
    BY <1>6 DEF Fits
  <1>10. MeansOf("setting", i, t)
    <2>1. CASE Knows("setting", i)
      <3>1. Means("setting", i, v)
        BY <1>1, <2>1
      <3> QED
        BY <1>8, <2>1, <3>1 DEF MeansOf
    <2>2. CASE ~Knows("setting", i)
      BY <1>1, <2>2 DEF MeansOf
    <2> QED
      BY <2>1, <2>2
  <1>11. "setting" \in Field \ {"weekday"} /\ i \in Places("setting")
    BY FieldNames, IndexPlaces DEF OfPanel
  <1> QED
    BY <1>2, <1>9, <1>10, <1>11 DEF FactBecomes

LEMMA CounterObeys ==
  ASSUME NEW i \in Index, NEW v \in Word, SetCounter(i, v)
  PROVE  FactBecomes
  <1>1. Becomes("counter", i, v) /\ Means("counter", i, v)
    BY Indices DEF SetCounter, Cx
  <1>2. Fits("counter", i, v)
    BY DEF Fits, Truth
  <1>3. "counter" \in Field \ {"weekday"} /\ i \in Places("counter")
    BY FieldNames, IndexPlaces DEF OfPanel
  <1> QED
    BY <1>1, <1>2, <1>3 DEF FactBecomes, MeansOf

LEMMA ReportsAreSaid ==
  ASSUME NEW l \in Reports
  PROVE  Said(l, panel)
  <1>1. CASE \E i \in Index : l \in {TR(panel, i), CV(panel, i), ZV(panel, i)}
    <2>1. PICK i \in Index : l \in {TR(panel, i), CV(panel, i), ZV(panel, i)}
      BY <1>1
    <2>2. \/ l = TR(panel, i) /\ l.cmd = "TR"
          \/ l = CV(panel, i) /\ l.cmd = "CV"
          \/ l = ZV(panel, i) /\ l.cmd = "ZV"
      BY <2>1 DEF TR, CV, ZV
    <2> QED
      BY <2>2 DEF Said, Commands
  <1>2. CASE l = KF(panel, 0, "0")
    <2>1. l.cmd = "KF"
      BY <1>2 DEF KF
    <2>2. 0 \in Index
      <3>1. MaxIndex \in Nat
        BY DevicesAssumption
      <3> QED
        BY <3>1 DEF Index
    <2> QED
      BY <1>2, <2>1, <2>2 DEF Said, Commands
  <1>3. CASE l \in {LW(panel), KA(panel), AllCR(panel), SS(panel), ZD(panel), ZP(panel), VN(panel),
                    UA(panel)}
    <2>1. \/ l = LW(panel) /\ l.cmd = "LW"
          \/ l = KA(panel) /\ l.cmd = "KA"
          \/ l = AllCR(panel) /\ l.cmd = "CR"
          \/ l = SS(panel) /\ l.cmd = "SS"
          \/ l = ZD(panel) /\ l.cmd = "ZD"
          \/ l = ZP(panel) /\ l.cmd = "ZP"
          \/ l = VN(panel) /\ l.cmd = "VN"
          \/ l = UA(panel) /\ l.cmd = "UA"
      BY <1>3 DEF LW, KA, AllCR, SS, ZD, ZP, VN, UA
    <2> QED
      BY <2>1 DEF Said, Commands
  <1> QED
    BY <1>1, <1>2, <1>3 DEF Reports

LEMMA PanelSteps ==
  ASSUME PanelType(panel), watched \in Watched, Happens \/ Call
  PROVE  FactBecomes \/ PanelSays \/ KeyPressed \/ TimeIsSet
  <1>1. ASSUME NEW i \in Index, TaskRuns(i), UNCHANGED meant PROVE PanelSays
    <2>1. TC(i).cmd = "TC"
      BY DEF TC
    <2>2. Said(TC(i), panel)
      BY <2>1 DEF Said, Commands
    <2> QED
      BY <1>1, <2>2 DEF TaskRuns, PanelSays
  <1>2. CASE Happens
    <2>1. ASSUME NEW f \in watched \cap Fact, f[1] # "weekday", Change(f[1], f[2])
          PROVE  FactBecomes
      BY <2>1, FactShape, ChangeFits
    <2>2. ASSUME NEW e \in watched \cap Event, e[1] = "press", Press(e[2]), UNCHANGED meant
          PROVE  PanelSays \/ KeyPressed
      <3>1. PICK i \in Index : i = e[2]
        BY <2>2, WatchedFacts
      <3>2. ASSUME NEW key \in 0..1, Says(panel, KC(i, key)) PROVE PanelSays
        <4>1. KC(i, key).cmd = "KC"
          BY DEF KC
        <4>2. Said(KC(i, key), panel)
          BY <4>1 DEF Said, Commands
        <4> QED
          BY <2>2, <3>2, <4>2 DEF PanelSays
      <3>3. ASSUME NEW code \in DOMAIN UserOf, Says(panel, IC(i, code)) PROVE PanelSays
        <4>1. IC(i, code).cmd = "IC"
          BY DEF IC
        <4>2. Said(IC(i, code), panel)
          BY <4>1 DEF Said, Commands
        <4> QED
          BY <2>2, <3>3, <4>2 DEF PanelSays
      <3>4. ASSUME NEW key \in {"1", "C"}, FunctionKey(i, key) PROVE KeyPressed
        BY <2>2, <3>4 DEF KeyPressed
      <3> QED
        BY <2>2, <3>1, <3>2, <3>3, <3>4 DEF Press
    <2>3. ASSUME NEW e \in watched \cap Event, e[1] = "task", TaskRuns(e[2]), UNCHANGED meant
          PROVE  PanelSays
      BY <1>1, <2>3, WatchedFacts
    <2>4. ASSUME NEW l \in Reports, Says(panel, l), UNCHANGED meant PROVE PanelSays
      BY <2>4, ReportsAreSaid DEF PanelSays
    <2> QED
      BY <1>2, <2>1, <2>2, <2>3, <2>4 DEF Happens
  <1>3. CASE Call
    <2>1. PICK x \in watched :
             \/ x[1] \in DOMAIN SettingTyping /\ \E v \in Values : SetThermostat(x[2], x[1], v)
             \/ x[1] = "setting" /\ SetSetting(x[2])
             \/ x[1] = "counter" /\ \E v \in Word : SetCounter(x[2], v)
             \/ x[1] = "task" /\ Activate(x[2])
             \/ x[1] = "press" /\ \E key \in {"1", "C"} : PressFunctionKey(x[2], key)
             \/ x[1] = "weekday" /\ \E w \in 0..6 : SetTime(w)
      BY <1>3 DEF Call
    <2>2. x[1] \in DOMAIN SettingTyping \cup {"setting", "counter", "task", "press"} => x[2] \in Index
      <3>1. DOMAIN SettingTyping = {"mode", "hold", "fan", "cool_setpoint", "heat_setpoint"}
        BY DEF SettingTyping
      <3> QED
        BY <3>1, WatchedFacts, FieldNames, IndexPlaces DEF OfPanel
    <2>3. CASE x[1] \in DOMAIN SettingTyping /\ \E v \in Values : SetThermostat(x[2], x[1], v)
      BY <2>2, <2>3, ThermostatObeys
    <2>4. CASE x[1] = "setting" /\ SetSetting(x[2])
      BY <2>2, <2>4, SettingObeys
    <2>5. CASE x[1] = "counter" /\ \E v \in Word : SetCounter(x[2], v)
      BY <2>2, <2>5, CounterObeys
    <2>6. CASE x[1] = "task" /\ Activate(x[2])
      <3>1. TaskRuns(x[2]) /\ UNCHANGED meant
        BY <2>2, <2>6, Indices DEF Activate, Tn
      <3> QED
        BY <1>1, <2>2, <2>6, <3>1
    <2>7. CASE x[1] = "press" /\ \E key \in {"1", "C"} : PressFunctionKey(x[2], key)
      BY <2>2, <2>7, Indices DEF PressFunctionKey, Kf, KeyPressed
    <2>8. CASE x[1] = "weekday" /\ \E w \in 0..6 : SetTime(w)
      BY <2>8 DEF TimeIsSet
    <2> QED
      BY <2>1, <2>3, <2>4, <2>5, <2>6, <2>7, <2>8
  <1> QED
    BY <1>2, <1>3

-----------------------------------------------------------------------------
(* The line: what was said stays true of what the client can count on.      *)
LEMMA Appended ==
  ASSUME NEW S, NEW q \in Seq(S), NEW l
  PROVE  /\ Append(q, l) \in Seq(S \cup {l})
         /\ Len(q) \in Nat /\ DOMAIN q = 1..Len(q) /\ DOMAIN Append(q, l) = 1..(Len(q) + 1)
         /\ \A n \in 1..Len(q) : Append(q, l)[n] = q[n]
         /\ Append(q, l)[Len(q) + 1] = l
  <1>1. q \in Seq(S \cup {l})
    OBVIOUS
  <1> QED
    BY <1>1

LEMMA Shortened ==
  ASSUME NEW S, NEW q \in Seq(S), q # <<>>
  PROVE  /\ Tail(q) \in Seq(S) /\ Head(q) = q[1]
         /\ Len(q) \in Nat \ {0} /\ DOMAIN q = 1..Len(q) /\ DOMAIN Tail(q) = 1..(Len(q) - 1)
         /\ \A n \in 1..(Len(q) - 1) : Tail(q)[n] = q[n + 1]
  OBVIOUS

(* Does no later line than n tell of the fact?                              *)
Last(n, g, i) == \A m \in DOMAIN line : m > n => <<g, i>> \notin Told(line[m])

(* What a line said of a fact is the case, if no later line corrects it.     *)
Holds(n, p) ==
    /\ PanelType(p) /\ Said(line[n], p)
    /\ \A g \in Field : \A i \in Places(g) :
          <<g, i>> \in Told(line[n]) \ lost /\ Last(n, g, i) => p[g][i] = panel[g][i]
LineIsSeq == \E S : line \in Seq(S)
LinesHold == LineIsSeq /\ \A n \in DOMAIN line : \E p : Holds(n, p)

(* What the client knows is so, if a line could say it at all.              *)
Known == \A g \in Field : \A i \in Places(g) :
            Knows(g, i) => Silent(panel, g, i) \/ client[g][i] = panel[g][i]

Informed ==
    /\ watched \in Watched
    /\ PanelType(panel) /\ HasPlaces(client)
    /\ <<"weekday", 0>> \in lost
    /\ LinesHold /\ Known

(* Whatever the panel announces keeps the client informed, heard or not.    *)
LEMMA SayingInforms ==
  ASSUME Informed, NEW p, NEW l, PanelType(p), Said(l, p), Changed(p) \subseteq Told(l), Says(p, l),
         UNCHANGED <<watched, client>>
  PROVE  Informed'
  <1>1. PICK S : line \in Seq(S)
    BY DEF Informed, LinesHold, LineIsSeq
  <1>2. PICK N \in Nat : N = Len(line) /\ DOMAIN line = 1..N
    BY <1>1
  <1>3. panel' = p
    BY DEF Says
  <1>4. <<"weekday", 0>> \in lost'
    BY WeekdayIsNotTold DEF Says, Informed
  <1>5. ASSUME NEW g \in Field, NEW i \in Places(g), <<g, i>> \notin Changed(p)
        PROVE  panel'[g][i] = panel[g][i]
    BY <1>3, <1>5, FactShape DEF Changed
  <1>6. CASE line' = Append(line, l) /\ lost' = lost \ Told(l)
    <2>1. /\ line' \in Seq(S \cup {l}) /\ DOMAIN line' = 1..(N + 1)
          /\ \A n \in 1..N : line'[n] = line[n]
          /\ line'[N + 1] = l
      BY <1>1, <1>2, <1>6, Appended
    <2>2. ASSUME NEW g \in Field, NEW i \in Places(g), <<g, i>> \notin Told(l), <<g, i>> \notin lost'
          PROVE  <<g, i>> \notin lost /\ panel'[g][i] = panel[g][i]
      BY <1>5, <1>6, <2>2
    <2>3. ASSUME NEW n \in 1..N PROVE \E q : Holds(n, q)'
      <3>1. PICK q : Holds(n, q)
        BY <1>2 DEF Informed, LinesHold
      <3>2. ASSUME NEW g \in Field, NEW i \in Places(g), <<g, i>> \in Told(line[n]) \ lost',
                   Last(n, g, i)'
            PROVE  q[g][i] = panel'[g][i]
        <4>1. <<g, i>> \notin Told(l)
          <5>1. N + 1 \in DOMAIN line' /\ N + 1 > n
            BY <1>2, <2>1
          <5> QED
            BY <2>1, <3>2, <5>1 DEF Last
        <4>2. Last(n, g, i)
          <5>1. ASSUME NEW m \in DOMAIN line, m > n PROVE <<g, i>> \notin Told(line[m])
            <6>1. m \in DOMAIN line' /\ line'[m] = line[m]
              BY <1>2, <2>1
            <6> QED
              BY <3>2, <5>1, <6>1 DEF Last
          <5> QED
            BY <5>1 DEF Last
        <4> QED
          BY <2>2, <3>1, <3>2, <4>1, <4>2 DEF Holds
      <3>3. line'[n] = line[n]
        BY <2>1
      <3>4. Holds(n, q)'
        BY <3>1, <3>2, <3>3 DEF Holds
      <3> QED
        BY <3>4
    <2>4. Holds(N + 1, p)'
      BY <1>3, <2>1 DEF Holds
    <2>5. LinesHold'
      <3>1. LineIsSeq'
        BY <2>1 DEF LineIsSeq
      <3>2. ASSUME NEW n \in DOMAIN line' PROVE \E q : Holds(n, q)'
        <4>1. n \in 1..N \/ n = N + 1
          BY <1>2, <2>1
        <4> QED
          BY <2>3, <2>4, <4>1
      <3> QED
        BY <3>1, <3>2 DEF LinesHold
    <2>6. Known'
      <3>1. ASSUME NEW g \in Field, NEW i \in Places(g), Knows(g, i)'
            PROVE  (Silent(panel, g, i) \/ client[g][i] = panel[g][i])'
        <4>1. <<g, i>> \notin lost' /\ \A n \in DOMAIN line' : <<g, i>> \notin Told(line'[n])
          BY <3>1 DEF Knows
        <4>2. <<g, i>> \notin Told(l)
          <5>1. N + 1 \in DOMAIN line'
            BY <1>2, <2>1
          <5> QED
            BY <2>1, <4>1, <5>1
        <4>3. Knows(g, i)
          <5>1. ASSUME NEW n \in DOMAIN line PROVE <<g, i>> \notin Told(line[n])
            <6>1. n \in DOMAIN line' /\ line'[n] = line[n]
              BY <1>2, <2>1
            <6> QED
              BY <4>1, <6>1
          <5> QED
            BY <2>2, <4>1, <4>2, <5>1 DEF Knows
        <4>4. Silent(panel, g, i) \/ client[g][i] = panel[g][i]
          BY <4>3 DEF Informed, Known
        <4>5. panel'[g][i] = panel[g][i]
          BY <2>2, <4>1, <4>2
        <4> QED
          BY <4>4, <4>5 DEF Silent
      <3> QED
        BY <3>1 DEF Known
    <2>7. PanelType(panel)' /\ HasPlaces(client)'
      BY <1>3 DEF Informed
    <2> QED
      BY <1>4, <2>5, <2>6, <2>7 DEF Informed
  <1>7. CASE lost' = lost \cup Changed(p) /\ UNCHANGED line
    <2>1. ASSUME NEW g \in Field, NEW i \in Places(g), <<g, i>> \notin lost'
          PROVE  <<g, i>> \notin lost /\ panel'[g][i] = panel[g][i]
      BY <1>5, <1>7, <2>1
    <2>2. ASSUME NEW n \in DOMAIN line PROVE \E q : Holds(n, q)'
      <3>1. PICK q : Holds(n, q)
        BY DEF Informed, LinesHold
      <3>2. ASSUME NEW g \in Field, NEW i \in Places(g), <<g, i>> \in Told(line[n]) \ lost',
                   Last(n, g, i)'
            PROVE  q[g][i] = panel'[g][i]
        <4>1. Last(n, g, i)
          BY <1>7, <3>2 DEF Last
        <4> QED
          BY <2>1, <3>1, <3>2, <4>1 DEF Holds
      <3>3. Holds(n, q)'
        BY <1>7, <3>1, <3>2 DEF Holds
      <3> QED
        BY <3>3
    <2>3. LinesHold'
      BY <1>1, <1>7, <2>2 DEF LinesHold, LineIsSeq
    <2>4. Known'
      <3>1. ASSUME NEW g \in Field, NEW i \in Places(g), Knows(g, i)'
            PROVE  (Silent(panel, g, i) \/ client[g][i] = panel[g][i])'
        <4>1. Knows(g, i) /\ panel'[g][i] = panel[g][i]
          BY <1>7, <2>1, <3>1 DEF Knows
        <4>2. Silent(panel, g, i) \/ client[g][i] = panel[g][i]
          BY <4>1 DEF Informed, Known
        <4> QED
          BY <4>1, <4>2 DEF Silent
      <3> QED
        BY <3>1 DEF Known
    <2>5. PanelType(panel)' /\ HasPlaces(client)'
      BY <1>3 DEF Informed
    <2> QED
      BY <1>4, <2>3, <2>4, <2>5 DEF Informed
  <1> QED
    BY <1>6, <1>7 DEF Says

LEMMA SettingTimeInforms ==
  ASSUME Informed, NEW w \in 0..6, SetTime(w), UNCHANGED <<watched, client>>
  PROVE  Informed'
  <1>1. PICK v : v = (ElkWeekday(w) + 5) % 7
    OBVIOUS
  <1>2. "weekday" \in Field /\ 0 \in Places("weekday")
    BY FieldNames DEF Places, OfPanel
  <1>3. Fits("weekday", 0, v)
    <2>1. v \in 0..6
      BY <1>1 DEF ElkWeekday
    <2> QED
      BY <2>1 DEF Fits, Truth
  <1>4. panel' = [panel EXCEPT !["weekday"][0] = v] /\ UNCHANGED <<line, lost>>
    BY <1>1 DEF SetTime
  <1>5. /\ PanelType(panel')
        /\ \A g \in Field : \A i \in Places(g) : <<g, i>> # <<"weekday", 0>> => panel'[g][i] = panel[g][i]
    <2>1. PICK p : p = panel'
      OBVIOUS
    <2>2. PanelType(panel) /\ p = [panel EXCEPT !["weekday"][0] = v]
      BY <1>4, <2>1 DEF Informed
    <2>3. PanelType(p)
      BY <1>2, <1>3, <2>2, PanelBecomes
    <2>4. \A g \in Field : \A i \in Places(g) : <<g, i>> # <<"weekday", 0>> => p[g][i] = panel[g][i]
      BY <1>2, <1>3, <2>2, PanelBecomes
    <2> QED
      BY <2>1, <2>3, <2>4
  <1>6. ASSUME NEW g \in Field, NEW i \in Places(g), <<g, i>> \notin lost
        PROVE  panel'[g][i] = panel[g][i]
    BY <1>5, <1>6 DEF Informed
  <1>7. LinesHold'
    <2>1. ASSUME NEW n \in DOMAIN line PROVE \E q : Holds(n, q)'
      <3>1. PICK q : Holds(n, q)
        BY DEF Informed, LinesHold
      <3>2. Holds(n, q)'
        BY <1>4, <1>6, <3>1 DEF Holds, Last
      <3> QED
        BY <3>2
    <2> QED
      BY <1>4, <2>1 DEF LinesHold, LineIsSeq, Informed
  <1>8. Known'
    <2>1. ASSUME NEW g \in Field, NEW i \in Places(g), Knows(g, i)'
          PROVE  (Silent(panel, g, i) \/ client[g][i] = panel[g][i])'
      <3>1. Knows(g, i) /\ panel'[g][i] = panel[g][i]
        BY <1>4, <1>6, <2>1 DEF Knows
      <3>2. Silent(panel, g, i) \/ client[g][i] = panel[g][i]
        BY <3>1 DEF Informed, Known
      <3> QED
        BY <3>1, <3>2 DEF Silent
    <2> QED
      BY <2>1 DEF Known
  <1> QED
    BY <1>4, <1>5, <1>7, <1>8 DEF Informed

(* What handling the first line does to the client.                         *)
LEMMA FirstIsLearned ==
  ASSUME Informed, Handle
  PROVE  \E p : Holds(1, p) /\ Learns(line[1], p)
  <1>1. PICK S : line \in Seq(S)
    BY DEF Informed, LinesHold, LineIsSeq
  <1>2. line # <<>> /\ (Storing(Head(line)) \/ Telling(Head(line)))
    BY DEF Handle, Storing, Telling
  <1>3. Head(line) = line[1] /\ 1 \in DOMAIN line
    BY <1>1, <1>2, Shortened
  <1>4. PICK p : Holds(1, p)
    BY <1>3 DEF Informed, LinesHold
  <1>5. Learns(line[1], p)
    BY <1>2, <1>3, <1>4, Learned DEF Informed, Holds
  <1> QED
    BY <1>4, <1>5

LEMMA HandlingInforms ==
  ASSUME Informed, Handle
  PROVE  Informed'
  <1>1. PICK S : line \in Seq(S)
    BY DEF Informed, LinesHold, LineIsSeq
  <1>2. /\ line # <<>> /\ line' = Tail(line)
        /\ UNCHANGED <<watched, panel, lost>>
    BY DEF Handle
  <1>3. PICK N \in Nat \ {0} : N = Len(line) /\ DOMAIN line = 1..N
    BY <1>1, <1>2, Shortened
  <1>4. /\ line' \in Seq(S) /\ DOMAIN line' = 1..(N - 1)
        /\ \A n \in 1..(N - 1) : line'[n] = line[n + 1]
    BY <1>1, <1>2, <1>3, Shortened
  <1>5. PICK p : Holds(1, p) /\ Learns(line[1], p)
    BY FirstIsLearned
  <1>6. LinesHold'
    <2>1. ASSUME NEW n \in 1..(N - 1) PROVE \E q : Holds(n, q)'
      <3>1. n + 1 \in DOMAIN line
        BY <1>3
      <3>2. PICK q : Holds(n + 1, q)
        BY <3>1 DEF Informed, LinesHold
      <3>3. ASSUME NEW g \in Field, NEW i \in Places(g), Last(n, g, i)'
            PROVE  Last(n + 1, g, i)
        <4>1. ASSUME NEW m \in DOMAIN line, m > n + 1 PROVE <<g, i>> \notin Told(line[m])
          <5>1. m - 1 \in DOMAIN line' /\ m - 1 > n /\ line'[m - 1] = line[m]
            BY <1>3, <1>4, <4>1
          <5> QED
            BY <3>3, <5>1 DEF Last
        <4> QED
          BY <4>1 DEF Last
      <3>4. Holds(n, q)'
        BY <1>2, <1>4, <3>2, <3>3 DEF Holds
      <3> QED
        BY <3>4
    <2>2. LineIsSeq'
      BY <1>4 DEF LineIsSeq
    <2> QED
      BY <1>4, <2>1, <2>2 DEF LinesHold
  <1>7. Known'
    <2>1. ASSUME NEW g \in Field, NEW i \in Places(g), Knows(g, i)'
          PROVE  (Silent(panel, g, i) \/ client[g][i] = panel[g][i])'
      <3>1. <<g, i>> \notin lost /\ Last(1, g, i)
        <4>1. ASSUME NEW m \in DOMAIN line, m > 1 PROVE <<g, i>> \notin Told(line[m])
          <5>1. m - 1 \in DOMAIN line' /\ line'[m - 1] = line[m]
            BY <1>3, <1>4, <4>1
          <5> QED
            BY <2>1, <5>1 DEF Knows
        <4> QED
          BY <1>2, <2>1, <4>1 DEF Knows, Last
      <3>2. LearnsOne(line[1], p, g, i)
        BY <1>5 DEF Learns
      <3>3. CASE <<g, i>> \in Told(line[1])
        <4>1. p[g][i] = panel[g][i]
          BY <1>5, <3>1, <3>3 DEF Holds
        <4> QED
          BY <1>2, <3>2, <3>3, <4>1 DEF LearnsOne, Silent
      <3>4. CASE <<g, i>> \notin Told(line[1])
        <4>1. client'[g][i] = client[g][i]
          BY <3>2, <3>4 DEF LearnsOne
        <4>2. Knows(g, i)
          <5>1. \A m \in DOMAIN line : m = 1 \/ m > 1
            BY <1>3
          <5> QED
            BY <3>1, <3>4, <5>1 DEF Knows, Last
        <4>3. Silent(panel, g, i) \/ client[g][i] = panel[g][i]
          BY <4>2 DEF Informed, Known
        <4> QED
          BY <1>2, <4>1, <4>3 DEF Silent
      <3> QED
        BY <3>3, <3>4
    <2> QED
      BY <2>1 DEF Known
  <1>8. HasPlaces(client)'
    BY <1>5 DEF Learns
  <1> QED
    BY <1>2, <1>6, <1>7, <1>8 DEF Informed

LEMMA InitInforms == Init => Informed
  <1> SUFFICES ASSUME Init PROVE Informed
    OBVIOUS
  <1>1. LinesHold
    <2>1. line \in Seq({}) /\ DOMAIN line = {}
      <3>1. line = <<>>
        BY DEF Init
      <3> QED
        BY <3>1
    <2> QED
      BY <2>1 DEF LinesHold, LineIsSeq
  <1>2. Known
    BY FactShape DEF Init, Known, Knows
  <1>3. <<"weekday", 0>> \in lost
    <2>1. "weekday" \in Field /\ 0 \in Places("weekday")
      BY FieldNames DEF Places, OfPanel
    <2> QED
      BY <2>1, FactShape DEF Init
  <1>4. HasPlaces(client)
    BY DEF Init, HasPlaces
  <1>5. PanelType(panel)
    <2>1. \A g \in Field : \A i \in Places(g) : panel[g][i] =
             CASE g \in {"zone_temp", "keypad_temp"} -> None
               [] g \in {"hold", "alarm_memory", "is_exit"} -> FALSE
               [] g = "setting" -> [format |-> "NUMBER", value |-> 0]
               [] OTHER -> 0
      BY DEF Init
    <2>2. HasPlaces(panel)
      BY DEF Init, HasPlaces
    <2>3. 0 \in Temp /\ 0 \in Word /\ 0 \in Index /\ 0 \in Word16
      <3>1. MaxIndex \in Nat /\ 0 \in Temp /\ 0 \in Word /\ Word \subseteq Word16
        BY DevicesAssumption
      <3> QED
        BY <3>1 DEF Index
    <2>4. ASSUME NEW g \in Field \ {"setting"}, NEW i \in Places(g) PROVE panel[g][i] \in Truth[g]
      <3>1. CASE g \in {"zone_temp", "keypad_temp"}
        <4>1. panel[g][i] = None
          BY <2>1, <3>1
        <4>2. None \in Truth[g]
          BY <3>1 DEF Truth
        <4> QED
          BY <4>1, <4>2
      <3>2. CASE g \in {"hold", "alarm_memory", "is_exit"}
        <4>1. panel[g][i] = FALSE
          BY <2>1, <3>2
        <4>2. Truth["hold"] = BOOLEAN /\ Truth["alarm_memory"] = BOOLEAN /\ Truth["is_exit"] = BOOLEAN
          BY DEF Truth
        <4>3. Truth[g] = BOOLEAN
          BY <3>2, <4>2
        <4> QED
          BY <4>1, <4>3
      <3>3. CASE g \notin {"zone_temp", "keypad_temp", "hold", "alarm_memory", "is_exit"}
        <4>1. panel[g][i] = 0
          BY <2>1, <3>3
        <4>2. 0 \in Truth[g]
          BY <2>3, <3>3, FieldNames DEF Truth
        <4> QED
          BY <4>1, <4>2
      <3> QED
        BY <3>1, <3>2, <3>3
    <2>5. \A i \in Index : panel.setting[i] \in PanelSetting
      <3>1. "setting" \in Field /\ Places("setting") = Index
        BY FieldNames, IndexPlaces DEF OfPanel
      <3>2. [format |-> "NUMBER", value |-> 0] \in PanelSetting
        BY <2>3 DEF PanelSetting, Format
      <3> QED
        BY <2>1, <3>1, <3>2
    <2>6. \A i \in Position \ ZoneEncoded : panel.trouble[i] \in 0..1
      <3>1. "trouble" \in Field /\ Places("trouble") = Position
        BY FieldNames DEF Places, OfPanel
      <3>2. \A i \in Position : panel["trouble"][i] = 0
        BY <2>1, <3>1
      <3> QED
        BY <3>2
    <2> QED
      BY <2>2, <2>4, <2>5, <2>6 DEF PanelType
  <1> QED
    BY <1>1, <1>2, <1>3, <1>4, <1>5 DEF Init, Informed

(* Each step of the panel or of a caller is an announcement, or SetTime.     *)
LEMMA KeyChimes ==
  ASSUME PanelType(panel), NEW i \in Index, NEW key \in {"1", "C"}, FunctionKey(i, key)
  PROVE  \E p : /\ PanelType(p) /\ Says(p, KF(p, i, key)) /\ Said(KF(p, i, key), p)
                /\ Changed(p) \subseteq Told(KF(p, i, key))
                /\ \A g \in Field \ {"chime"} : p[g] = panel[g]
  <1> DEFINE a == panel.keypad_area[i]
             p == IF key = "C" /\ a # None THEN [panel EXCEPT !.chime[a] = (@ + 1) % 4] ELSE panel
             l == KF(p, i, key)
  <1>1. Says(p, l)
    BY DEF FunctionKey
  <1>2. l.cmd = "KF"
    BY DEF KF
  <1>3. Said(l, p)
    BY <1>2 DEF Said, Commands
  <1>4. Told(l) = {"chime"} \X Index
    BY <1>2 DEF Told
  <1>5. "chime" \in Field /\ Places("chime") = Index
    BY FieldNames, IndexPlaces DEF OfPanel
  <1>6. CASE key = "C" /\ a # None
    <2>1. a \in Index
      BY <1>6, PanelFields
    <2>2. PICK v : v = (panel.chime[a] + 1) % 4
      OBVIOUS
    <2>3. v \in 0..3
      <3>1. panel.chime[a] \in 0..3
        BY <2>1, PanelFields
      <3> QED
        BY <2>2, <3>1
    <2>4. Fits("chime", a, v)
      BY <2>3 DEF Fits, Truth
    <2>5. p = [panel EXCEPT !["chime"][a] = v]
      BY <1>6, <2>2
    <2>6. panel = [g \in Field |-> panel[g]]
      BY PlacesKept DEF PanelType
    <2> HIDE DEF p
    <2>7. PanelType(p) /\ Changed(p) \subseteq {<<"chime", a>>}
      BY <1>5, <2>1, <2>4, <2>5, PanelBecomes
    <2>8. \A g \in Field \ {"chime"} : p[g] = panel[g]
      BY <2>5, <2>6
    <2> QED
      BY <1>1, <1>3, <1>4, <2>1, <2>7, <2>8
  <1>7. CASE ~(key = "C" /\ a # None)
    <2>1. p = panel
      BY <1>7
    <2> HIDE DEF p
    <2>2. Changed(p) = {}
      BY <2>1 DEF Changed
    <2> QED
      BY <1>1, <1>3, <2>1, <2>2
  <1> QED
    BY <1>6, <1>7

LEMMA FactAnnounced ==
  ASSUME PanelType(panel), NEW f \in Field \ {"weekday"}, NEW i \in Places(f), NEW v,
         Fits(f, i, v), Becomes(f, i, v)
  PROVE  \E p, l : /\ PanelType(p) /\ Says(p, l) /\ Said(l, p) /\ Changed(p) \subseteq Told(l)
                   /\ p[f][i] = v
                   /\ \A g \in Field : \A k \in Places(g) : <<g, k>> # <<f, i>> => p[g][k] = panel[g][k]
  <1>1. PICK p : p = [panel EXCEPT ![f][i] = v]
    OBVIOUS
  <1>2. PICK l \in Announcements(p, f, i) : Says(p, l)
    BY <1>1 DEF Becomes
  <1>3. PanelType(p) /\ p[f][i] = v /\ Changed(p) \subseteq {<<f, i>>}
    <2>1. PanelType(p)
      BY <1>1, PanelBecomes
    <2>2. p[f][i] = v
      <3>1. panel = [g \in Field |-> panel[g]] /\ panel[f] = [k \in Places(f) |-> panel[f][k]]
        BY PlacesKept DEF PanelType
      <3>2. PICK d : d = panel[f]
        OBVIOUS
      <3>3. d = [k \in Places(f) |-> d[k]] /\ p[f] = [d EXCEPT ![i] = v]
        BY <1>1, <3>1, <3>2
      <3> QED
        BY <3>3
    <2>3. Changed(p) \subseteq {<<f, i>>}
      BY <1>1, PanelBecomes
    <2> QED
      BY <2>1, <2>2, <2>3
  <1>4. \A g \in Field : \A k \in Places(g) : <<g, k>> # <<f, i>> => p[g][k] = panel[g][k]
    BY <1>1, PanelBecomes
  <1>5. Said(l, p) /\ <<f, i>> \in Told(l)
    BY <1>2, AnnouncementsAreSaid
  <1> QED
    BY <1>2, <1>3, <1>4, <1>5

LEMMA PanelStepsInform ==
  ASSUME Informed, Happens \/ Call
  PROVE  Informed'
  <1>1. UNCHANGED <<watched, client>>
    BY DEF Happens, Call
  <1>2. PanelType(panel) /\ watched \in Watched
    BY DEF Informed
  <1>3. CASE FactBecomes
    <2>1. PICK f, i, v : /\ f \in Field \ {"weekday"} /\ i \in Places(f)
                         /\ Fits(f, i, v) /\ Becomes(f, i, v)
      BY <1>3 DEF FactBecomes
    <2>2. PICK p, l : PanelType(p) /\ Says(p, l) /\ Said(l, p) /\ Changed(p) \subseteq Told(l)
      BY <1>2, <2>1, FactAnnounced
    <2> QED
      BY <1>1, <2>2, SayingInforms
  <1>4. CASE PanelSays
    <2>1. PICK l : Said(l, panel) /\ Says(panel, l)
      BY <1>4 DEF PanelSays
    <2>2. Changed(panel) = {}
      BY DEF Changed
    <2> QED
      BY <1>1, <1>2, <2>1, <2>2, SayingInforms
  <1>5. CASE KeyPressed
    <2>1. PICK i \in Index, key \in {"1", "C"} : FunctionKey(i, key)
      BY <1>5 DEF KeyPressed
    <2>2. PICK p, l : PanelType(p) /\ Says(p, l) /\ Said(l, p) /\ Changed(p) \subseteq Told(l)
      BY <1>2, <2>1, KeyChimes
    <2> QED
      BY <1>1, <2>2, SayingInforms
  <1>6. CASE TimeIsSet
    BY <1>1, <1>6, SettingTimeInforms DEF TimeIsSet
  <1> QED
    BY <1>2, <1>3, <1>4, <1>5, <1>6, PanelSteps

LEMMA StutterInforms == Informed /\ UNCHANGED vars => Informed'
  <1> SUFFICES ASSUME Informed, UNCHANGED vars PROVE Informed'
    OBVIOUS
  <1>1. UNCHANGED <<watched, panel, client, line, lost>>
    BY DEF vars
  <1>2. ASSUME NEW n \in DOMAIN line PROVE \E q : Holds(n, q)'
    <2>1. PICK q : Holds(n, q)
      BY DEF Informed, LinesHold
    <2>2. Holds(n, q)'
      BY <1>1, <2>1 DEF Holds, Last
    <2> QED
      BY <2>2
  <1>3. LinesHold'
    BY <1>1, <1>2 DEF Informed, LinesHold, LineIsSeq
  <1>4. Known'
    BY <1>1 DEF Informed, Known, Knows, Silent
  <1> QED
    BY <1>1, <1>3, <1>4 DEF Informed

(* Each line on its way was said of a panel whose facts are still the case,  *)
(* unless they were lost or a later line corrects them, and the client holds *)
(* every fact of which no line is on its way: no handler stores anything but *)
(* what its line says (message.py, zones.py:91-133, keypads.py:59-98,       *)
(* thermostats.py:75-97, settings.py:44-49, panel.py:58-68).                *)
THEOREM AlwaysInformed == Spec => []Informed
  <1>1. Informed /\ [Next]_vars => Informed'
    BY PanelStepsInform, HandlingInforms, StutterInforms DEF Next
  <1> QED
    BY InitInforms, <1>1, PTL DEF Spec

(* When no line is on its way, every element holds what is the case at the   *)
(* panel, of all that the client heard of: no line is ever read as           *)
(* something else than the panel said (message.py, zones.py:91-99,          *)
(* keypads.py:59-98, thermostats.py:75-97, settings.py:44-49).              *)
THEOREM WhatIsHeldIsTrue == Spec => []HeldIsTrue
  <1>1. Informed => HeldIsTrue
    <2> SUFFICES ASSUME Informed, line = <<>>, NEW f \in Fact \ lost
                 PROVE  Unspoken(f) \/ client[f[1]][f[2]] = panel[f[1]][f[2]]
      BY DEF HeldIsTrue
    <2>1. f = <<f[1], f[2]>> /\ f[1] \in Field /\ f[2] \in Places(f[1])
      BY FactShape
    <2>2. Knows(f[1], f[2])
      BY <2>1 DEF Knows
    <2>3. Silent(panel, f[1], f[2]) \/ client[f[1]][f[2]] = panel[f[1]][f[2]]
      BY <2>1, <2>2 DEF Informed, Known
    <2> QED
      BY <2>3 DEF Silent, Unspoken
  <1> QED
    BY <1>1, AlwaysInformed, PTL

-----------------------------------------------------------------------------
(* Presses, codes and tasks.                                                *)
KeypadState == [last_keypress : {None, 1}, last_function_key : {None, "0", "1", "C"},
                last_user : Nat \cup {-1}, last_user_time : Nat,
                code : DOMAIN UserOf \cup {"", "****"}]
ElementsType ==
    /\ keypad \in [Index -> KeypadState]
    /\ last_change \in [Index -> Nat \cup {None}]
    /\ now \in Nat \ {0}
    /\ untold \in [Event -> Int]

(* The clock is later than all that the elements remember.                  *)
Clocks == \A i \in Index : /\ keypad[i].last_user_time < now
                           /\ last_change[i] = None \/ last_change[i] < now

Elements == ElementsType /\ Clocks /\ CodesAreHidden

(* A line that is handled is told of, once.                                 *)
Tolled(l) == untold' = [e \in Event |-> IF e \in Events(l) THEN untold[e] - 1 ELSE untold[e]]

LEMMA ToldOnce ==
  ASSUME untold \in [Event -> Int], NEW l, NEW e \in Event, Events(l) = {e}, Tells(e, TRUE)
  PROVE  Tolled(l)
  <1>1. untold' = [untold EXCEPT ![e] = @ - 1]
    BY DEF Tells
  <1> QED
    BY <1>1 DEF Tolled

LEMMA PressTold ==
  ASSUME Elements, NEW p, NEW l, Said(l, p), HandleKC(l), now' = now + 1
  PROVE  Elements' /\ Tolled(l)
  <1> USE DEF Elements
  <1>1. l.cmd = "KC" /\ UNCHANGED last_change
    BY DEF HandleKC
  <1>2. PICK i \in Index, key \in 0..1 : l = KC(i, key)
    BY <1>1 DEF Said
  <1>3. l.keypad - 1 = i /\ l.key = key
    BY <1>2, Indices DEF KC
  <1>4. CASE key = 0
    <2>1. UNCHANGED <<keypad, untold>>
      BY <1>3, <1>4 DEF HandleKC
    <2>2. Events(l) = {}
      BY <1>1, <1>3, <1>4 DEF Events
    <2>3. Tolled(l)
      BY <2>1, <2>2 DEF Tolled, ElementsType
    <2>4. now' \in Nat \ {0} /\ now < now'
      BY DEF ElementsType
    <2>5. ElementsType'
      BY <1>1, <2>1, <2>4 DEF ElementsType
    <2>6. Clocks'
      <3>1. \A k \in Index : keypad[k].last_user_time \in Nat /\ last_change[k] \in Nat \cup {None}
        BY DEF ElementsType, KeypadState
      <3> QED
        BY <1>1, <2>1, <3>1 DEF Clocks, ElementsType
    <2> QED
      BY <2>1, <2>3, <2>5, <2>6 DEF CodesAreHidden
  <1>5. CASE key = 1
    <2>1. /\ keypad' = [keypad EXCEPT ![i].last_keypress = 1]
          /\ Tells(<<"press", i>>, Forgotten(keypad[i]).last_keypress # 1)
      BY <1>3, <1>5 DEF HandleKC
    <2>2. keypad[i] \in KeypadState
      BY DEF ElementsType
    <2>3. Forgotten(keypad[i]).last_keypress # 1
      <3>1. Forgotten(keypad[i]).last_keypress = None
        BY <2>2 DEF Forgotten, KeypadState
      <3>2. None # 1
        <4>1. None \notin Int
          BY DevicesAssumption
        <4> QED
          BY <4>1
      <3> QED
        BY <3>1, <3>2
    <2>4. Events(l) = {<<"press", i>>} /\ <<"press", i>> \in Event
      BY <1>1, <1>3, <1>5 DEF Events, Event
    <2>5. Tolled(l)
      BY <2>1, <2>3, <2>4, ToldOnce DEF ElementsType
    <2>6. keypad' \in [Index -> KeypadState]
      BY <2>1, <2>2 DEF ElementsType, KeypadState
    <2>7. \A k \in Index : keypad'[k].last_user_time = keypad[k].last_user_time /\ keypad'[k].code = keypad[k].code
      BY <2>1 DEF ElementsType, KeypadState
    <2>8. ElementsType'
      BY <1>1, <2>5, <2>6 DEF ElementsType, Tolled
    <2>9. Clocks'
      <3>1. \A k \in Index : keypad[k].last_user_time \in Nat /\ last_change[k] \in Nat \cup {None}
        BY DEF ElementsType, KeypadState
      <3> QED
        BY <1>1, <2>7, <3>1 DEF Clocks, ElementsType
    <2>10. CodesAreHidden'
      BY <2>7 DEF CodesAreHidden
    <2> QED
      BY <2>5, <2>8, <2>9, <2>10
  <1> QED
    BY <1>4, <1>5

LEMMA KeyTold ==
  ASSUME Elements, NEW p, NEW l, Said(l, p), HandleKF(l), now' = now + 1
  PROVE  Elements' /\ Tolled(l)
  <1> USE DEF Elements
  <1>1. l.cmd = "KF" /\ UNCHANGED last_change
    BY DEF HandleKF
  <1>2. PICK i \in Index, key \in {"0", "1", "C"} : l = KF(p, i, key)
    BY <1>1 DEF Said
  <1>3. l.keypad - 1 = i /\ l.key = key
    BY <1>2, Indices DEF KF
  <1>4. /\ keypad' = [keypad EXCEPT ![i].last_function_key = key]
        /\ Tells(<<"press", i>>, Forgotten(keypad[i]).last_function_key # key)
    BY <1>3 DEF HandleKF
  <1>5. keypad[i] \in KeypadState
    BY DEF ElementsType
  <1>6. Forgotten(keypad[i]).last_function_key # key
    <2>1. Forgotten(keypad[i]).last_function_key = None
      BY <1>5 DEF Forgotten, KeypadState
    <2>2. None # key
      BY DevicesAssumption
    <2> QED
      BY <2>1, <2>2
  <1>7. Events(l) = {<<"press", i>>} /\ <<"press", i>> \in Event
    BY <1>1, <1>3 DEF Events, Event
  <1>8. Tolled(l)
    BY <1>4, <1>6, <1>7, ToldOnce DEF ElementsType
  <1>9. keypad' \in [Index -> KeypadState]
    BY <1>4, <1>5 DEF ElementsType, KeypadState
  <1>10. \A k \in Index : keypad'[k].last_user_time = keypad[k].last_user_time /\ keypad'[k].code = keypad[k].code
    BY <1>4 DEF ElementsType, KeypadState
  <1>11. ElementsType'
    BY <1>1, <1>8, <1>9 DEF ElementsType, Tolled
  <1>12. Clocks'
    <2>1. \A k \in Index : keypad[k].last_user_time \in Nat /\ last_change[k] \in Nat \cup {None}
      BY DEF ElementsType, KeypadState
    <2> QED
      BY <1>1, <1>10, <2>1 DEF Clocks, ElementsType
  <1>13. CodesAreHidden'
    BY <1>10 DEF CodesAreHidden
  <1> QED
    BY <1>8, <1>11, <1>12, <1>13

LEMMA CodeTold ==
  ASSUME Elements, NEW p, NEW l, Said(l, p), HandleIC(l), now' = now + 1
  PROVE  Elements' /\ Tolled(l)
  <1> USE DEF Elements
  <1>1. l.cmd = "IC" /\ UNCHANGED last_change
    BY DEF HandleIC
  <1>2. PICK i \in Index, code \in DOMAIN UserOf : l = IC(i, code)
    BY <1>1 DEF Said
  <1>3. l.keypad - 1 = i /\ l.code = code /\ l.user = UserOf[code]
    BY <1>2, Indices DEF IC
  <1>4. PICK user : user = UserOf[code] - 1
    OBVIOUS
  <1>5. UserOf[code] \in Nat /\ user \in Nat \cup {-1} /\ (user < 0 => UserOf[code] = 0)
        /\ "" \notin DOMAIN UserOf /\ "****" \notin DOMAIN UserOf
    <2>1. UserOf \in [DOMAIN UserOf -> Nat] /\ "" \notin DOMAIN UserOf /\ "****" \notin DOMAIN UserOf
      BY DevicesAssumption
    <2>2. UserOf[code] \in Nat
      BY <2>1
    <2>3. user \in Nat \cup {-1} /\ (user < 0 => UserOf[code] = 0)
      BY <1>4, <2>2
    <2> QED
      BY <2>1, <2>2, <2>3
  <1>6. PICK k : k = [keypad[i] EXCEPT !.last_user_time = now, !.last_user = user,
                                       !.code = IF Invalid(user) THEN code ELSE "****"]
    OBVIOUS
  <1>7. keypad' = [keypad EXCEPT ![i] = k] /\ Tells(<<"press", i>>, k # keypad[i])
    BY <1>3, <1>4, <1>6 DEF HandleIC
  <1>8. keypad[i] \in KeypadState /\ now \in Nat \ {0} /\ now' \in Nat \ {0} /\ now < now'
    BY DEF ElementsType
  <1>9. k \in KeypadState /\ k.last_user_time = now /\ k.code = IF Invalid(user) THEN code ELSE "****"
    <2>1. k.last_user_time = now /\ k.last_user = user /\ k.code = IF Invalid(user) THEN code ELSE "****"
      BY <1>6, <1>8 DEF KeypadState
    <2>2. k \in KeypadState
      BY <1>5, <1>6, <1>8 DEF KeypadState
    <2> QED
      BY <2>1, <2>2
  <1>10. k # keypad[i]
    BY <1>8, <1>9 DEF Clocks
  <1>11. Events(l) = {<<"press", i>>} /\ <<"press", i>> \in Event
    BY <1>1, <1>3 DEF Events, Event
  <1>12. Tolled(l)
    BY <1>7, <1>10, <1>11, ToldOnce DEF ElementsType
  <1>13. keypad' \in [Index -> KeypadState] /\ \A m \in Index : keypad'[m] = IF m = i THEN k ELSE keypad[m]
    BY <1>7, <1>9 DEF ElementsType
  <1>14. ElementsType'
    BY <1>1, <1>8, <1>12, <1>13 DEF ElementsType, Tolled
  <1>15. Clocks'
    <2>1. \A m \in Index : keypad[m].last_user_time \in Nat /\ last_change[m] \in Nat \cup {None}
      BY DEF ElementsType, KeypadState
    <2> QED
      BY <1>1, <1>8, <1>9, <1>13, <2>1 DEF Clocks
  <1>16. CodesAreHidden'
    <2>1. k.code \in DOMAIN UserOf => UserOf[k.code] = 0
      BY <1>5, <1>9 DEF Invalid
    <2> QED
      BY <1>13, <2>1 DEF CodesAreHidden
  <1> QED
    BY <1>12, <1>14, <1>15, <1>16

LEMMA TaskTold ==
  ASSUME Elements, NEW p, NEW l, Said(l, p), HandleTC(l), now' = now + 1
  PROVE  Elements' /\ Tolled(l)
  <1> USE DEF Elements
  <1>1. l.cmd = "TC" /\ UNCHANGED keypad
    BY DEF HandleTC
  <1>2. PICK i \in Index : l = TC(i)
    BY <1>1 DEF Said
  <1>3. l.task - 1 = i
    BY <1>2, Indices DEF TC
  <1>4. last_change' = [last_change EXCEPT ![i] = now] /\ Tells(<<"task", i>>, last_change[i] # now)
    BY <1>3 DEF HandleTC
  <1>5. now \in Nat \ {0} /\ now' \in Nat \ {0} /\ now < now' /\ last_change[i] \in Nat \cup {None}
    BY DEF ElementsType
  <1>6. last_change[i] # now
    <2>1. None \notin Int
      BY DevicesAssumption
    <2> QED
      BY <1>5, <2>1 DEF Clocks
  <1>7. Events(l) = {<<"task", i>>} /\ <<"task", i>> \in Event
    BY <1>1, <1>3 DEF Events, Event
  <1>8. Tolled(l)
    BY <1>4, <1>6, <1>7, ToldOnce DEF ElementsType
  <1>9. last_change' \in [Index -> Nat \cup {None}]
        /\ \A m \in Index : last_change'[m] = IF m = i THEN now ELSE last_change[m]
    BY <1>4, <1>5 DEF ElementsType
  <1>10. ElementsType'
    BY <1>1, <1>5, <1>8, <1>9 DEF ElementsType, Tolled
  <1>11. Clocks'
    <2>1. \A m \in Index : keypad[m].last_user_time \in Nat /\ last_change[m] \in Nat \cup {None}
      BY DEF ElementsType, KeypadState
    <2> QED
      BY <1>1, <1>5, <1>9, <2>1 DEF Clocks
  <1> QED
    BY <1>1, <1>8, <1>10, <1>11 DEF CodesAreHidden

(* The other lines tell of no press, and leave keypads and tasks alone.     *)
LEMMA NothingTold ==
  ASSUME Elements, NEW p, NEW l, Said(l, p), Storing(l), now' = now + 1
  PROVE  Elements' /\ Tolled(l)
  <1> USE DEF Elements
  <1>1. UNCHANGED <<keypad, last_change, untold>>
        /\ l.cmd \notin {"KC", "KF", "IC", "TC"}
    BY DEF Storing, Stores, HandleLW, HandleST, HandleTR, HandleKA, HandleCR, HandleCV, HandleZV,
           HandleLD, HandleList, HandleEE, HandlePanel, HandleSS
  <1>2. Events(l) = {}
    BY <1>1 DEF Events
  <1>3. Tolled(l)
    BY <1>1, <1>2 DEF Tolled, ElementsType
  <1>4. now' \in Nat \ {0} /\ now < now' /\ now \in Nat
    BY DEF ElementsType
  <1>5. ElementsType'
    BY <1>1, <1>4 DEF ElementsType
  <1>6. Clocks'
    <2>1. \A m \in Index : keypad[m].last_user_time \in Nat /\ last_change[m] \in Nat \cup {None}
      BY DEF ElementsType, KeypadState
    <2> QED
      BY <1>1, <1>4, <2>1 DEF Clocks
  <1> QED
    BY <1>1, <1>3, <1>5, <1>6 DEF CodesAreHidden

LEMMA HandlingTells ==
  ASSUME Informed, Elements, Handle
  PROVE  Elements' /\ Tolled(line[1])
  <1>1. PICK p : Said(line[1], p)
    BY FirstIsLearned DEF Holds
  <1>2. Storing(line[1]) \/ Telling(line[1])
    <2>1. PICK S : line \in Seq(S)
      BY DEF Informed, LinesHold, LineIsSeq
    <2>2. line # <<>> /\ (Storing(Head(line)) \/ Telling(Head(line)))
      BY DEF Handle, Storing, Telling
    <2> QED
      BY <2>1, <2>2, Shortened
  <1>3. now' = now + 1
    BY DEF Handle
  <1> QED
    BY <1>1, <1>2, <1>3, PressTold, KeyTold, CodeTold, TaskTold, NothingTold DEF Telling

(* Lines of q that tell of a press or a task.                               *)
Tellers(q, e) == {n \in DOMAIN q : e \in Events(q[n])}

LEMMA TellersFinite ==
  ASSUME NEW S, NEW q \in Seq(S), NEW e
  PROVE  IsFiniteSet(Tellers(q, e)) /\ Cardinality(Tellers(q, e)) \in Nat
  <1>1. Len(q) \in Nat /\ DOMAIN q = 1..Len(q)
    OBVIOUS
  <1>2. IsFiniteSet(1..Len(q))
    BY <1>1, FS_Interval
  <1>3. Tellers(q, e) \in SUBSET (1..Len(q))
    BY <1>1 DEF Tellers
  <1>4. IsFiniteSet(Tellers(q, e))
    BY <1>2, <1>3, FS_Subset
  <1> QED
    BY <1>4, FS_CardinalityType

LEMMA TellersGrow ==
  ASSUME NEW S, NEW q \in Seq(S), NEW l, NEW e
  PROVE  Cardinality(Tellers(Append(q, l), e)) =
            Cardinality(Tellers(q, e)) + (IF e \in Events(l) THEN 1 ELSE 0)
  <1>1. PICK N \in Nat : N = Len(q)
    OBVIOUS
  <1>2. /\ DOMAIN q = 1..N /\ DOMAIN Append(q, l) = 1..(N + 1)
        /\ \A n \in 1..N : Append(q, l)[n] = q[n]
        /\ Append(q, l)[N + 1] = l
    BY <1>1, Appended
  <1>3. IsFiniteSet(Tellers(q, e)) /\ Cardinality(Tellers(q, e)) \in Nat
    BY TellersFinite
  <1>4. \A n : n \in 1..(N + 1) <=> n \in 1..N \/ n = N + 1
    OBVIOUS
  <1>5. N + 1 \notin Tellers(q, e)
    BY <1>2 DEF Tellers
  <1>6. CASE e \in Events(l)
    <2>1. Tellers(Append(q, l), e) = Tellers(q, e) \cup {N + 1}
      BY <1>2, <1>4, <1>6 DEF Tellers
    <2>2. Cardinality(Tellers(q, e) \cup {N + 1}) = Cardinality(Tellers(q, e)) + 1
      BY <1>3, <1>5, FS_AddElement
    <2> QED
      BY <1>6, <2>1, <2>2
  <1>7. CASE e \notin Events(l)
    <2>1. Tellers(Append(q, l), e) = Tellers(q, e)
      BY <1>2, <1>4, <1>7 DEF Tellers
    <2> QED
      BY <1>3, <1>7, <2>1
  <1> QED
    BY <1>6, <1>7

LEMMA TellersShrink ==
  ASSUME NEW S, NEW q \in Seq(S), q # <<>>, NEW e
  PROVE  Cardinality(Tellers(Tail(q), e)) =
            Cardinality(Tellers(q, e)) - (IF e \in Events(q[1]) THEN 1 ELSE 0)
  <1>1. PICK N \in Nat \ {0} : N = Len(q)
    BY Shortened
  <1>2. /\ Tail(q) \in Seq(S) /\ DOMAIN q = 1..N /\ DOMAIN Tail(q) = 1..(N - 1)
        /\ \A n \in 1..(N - 1) : Tail(q)[n] = q[n + 1]
    BY <1>1, Shortened
  <1> DEFINE T == Tellers(Tail(q), e)
             R == Tellers(q, e) \ {1}
             f == [n \in T |-> n + 1]
  <1>3. IsFiniteSet(T) /\ IsFiniteSet(Tellers(q, e)) /\ Cardinality(Tellers(q, e)) \in Nat
    BY <1>2, TellersFinite
  <1>4. T \subseteq Nat /\ \A n \in Nat : n \in T <=> n + 1 \in R
    <2>1. \A n \in Nat : n \in 1..(N - 1) <=> n + 1 \in 2..N
      OBVIOUS
    <2> QED
      BY <1>2, <2>1 DEF Tellers
  <1>5. ASSUME NEW r \in R PROVE r - 1 \in T /\ f[r - 1] = r
    <2>1. r \in 2..N
      BY <1>2 DEF Tellers
    <2>2. r - 1 \in Nat /\ (r - 1) + 1 = r
      BY <2>1
    <2> QED
      BY <1>4, <2>2
  <1>6. f \in Bijection(T, R)
    <2>1. f \in [T -> R]
      BY <1>4
    <2>2. \A a, b \in T : f[a] = f[b] => a = b
      BY <1>4
    <2>3. \A r \in R : \E a \in T : f[a] = r
      BY <1>5
    <2> HIDE DEF f, T, R
    <2>4. f \in Injection(T, R)
      BY <2>1, <2>2 DEF Injection, IsInjective
    <2>5. f \in Surjection(T, R)
      BY <2>1, <2>3 DEF Surjection
    <2> QED
      BY <2>4, <2>5 DEF Bijection
  <1>7. Cardinality(R) = Cardinality(T)
    <2>1. ExistsBijection(T, R)
      BY <1>6 DEF ExistsBijection
    <2> QED
      BY <1>3, <2>1, FS_Bijection
  <1>8. Cardinality(R) = IF 1 \in Tellers(q, e) THEN Cardinality(Tellers(q, e)) - 1
                         ELSE Cardinality(Tellers(q, e))
    BY <1>3, FS_RemoveElement
  <1>9. 1 \in Tellers(q, e) <=> e \in Events(q[1])
    BY <1>2 DEF Tellers
  <1> QED
    BY <1>3, <1>7, <1>8, <1>9

(* What the panel and the callers leave to say of a step.                   *)
LEMMA PanelStepsSay ==
  ASSUME Informed, Happens \/ Call
  PROVE  /\ UNCHANGED <<watched, client, keypad, last_change, now>>
         /\ changes' = changes + 1 /\ changes < MaxChange
         /\ (\E p, l : Says(p, l)) \/ UNCHANGED <<line, lost, untold>>
         /\ UNCHANGED meant \/ \E f, i, m : Means(f, i, m)
  <1>1. PanelType(panel) /\ watched \in Watched
    BY DEF Informed
  <1>2. /\ UNCHANGED <<watched, client, keypad, last_change, now>>
        /\ changes' = changes + 1 /\ changes < MaxChange
    BY DEF Happens, Call, Counted
  <1>3. CASE FactBecomes
    <2>1. PICK f, i, v : f \in Field \ {"weekday"} /\ i \in Places(f) /\ Becomes(f, i, v) /\ MeansOf(f, i, v)
      BY <1>3 DEF FactBecomes
    <2>2. \E p, l : Says(p, l)
      BY <2>1 DEF Becomes
    <2>3. \E m : Means(f, i, m)
      BY <2>1 DEF MeansOf
    <2> QED
      BY <1>2, <2>2, <2>3
  <1>4. CASE PanelSays
    BY <1>2, <1>4 DEF PanelSays
  <1>5. CASE KeyPressed
    BY <1>2, <1>5 DEF KeyPressed, FunctionKey
  <1>6. CASE TimeIsSet
    BY <1>2, <1>6 DEF TimeIsSet, SetTime
  <1> QED
    BY <1>1, <1>3, <1>4, <1>5, <1>6, PanelSteps

LEMMA InitElements == Init => Elements
  <1> SUFFICES ASSUME Init PROVE Elements
    OBVIOUS
  <1>1. UserOf \in [DOMAIN UserOf -> Nat] /\ "" \notin DOMAIN UserOf
    BY DevicesAssumption
  <1> DEFINE k == [last_keypress |-> None, last_function_key |-> None, last_user |-> -1,
                    last_user_time |-> 0, code |-> ""]
  <1>2. /\ keypad = [i \in Index |-> k] /\ last_change = [i \in Index |-> None] /\ now = 1
        /\ untold = [e \in Event |-> 0]
    BY DEF Init
  <1>3. k \in KeypadState
    BY DEF KeypadState
  <1>4. k.last_user_time = 0
    OBVIOUS
  <1> HIDE DEF k
  <1>5. ElementsType
    BY <1>2, <1>3 DEF ElementsType
  <1>6. Clocks
    BY <1>2, <1>4 DEF Clocks
  <1>7. CodesAreHidden
    BY <1>1 DEF Init, CodesAreHidden
  <1> QED
    BY <1>5, <1>6, <1>7 DEF Elements

LEMMA ElementsStep ==
  ASSUME Informed, Elements, [Next]_vars
  PROVE  Elements'
  <1>1. CASE Happens \/ Call
    <2>1. UNCHANGED <<keypad, last_change, now>>
      BY <1>1, PanelStepsSay
    <2>2. untold' \in [Event -> Int]
      <3>1. (\E p, l : Says(p, l)) \/ UNCHANGED untold
        BY <1>1, PanelStepsSay
      <3> QED
        BY <3>1 DEF Says, Elements, ElementsType
    <2> QED
      BY <2>1, <2>2 DEF Elements, ElementsType, Clocks, CodesAreHidden
  <1>2. CASE Handle
    BY <1>2, HandlingTells
  <1>3. CASE UNCHANGED vars
    BY <1>3 DEF vars, Elements, ElementsType, Clocks, CodesAreHidden
  <1> QED
    BY <1>1, <1>2, <1>3 DEF Next

(* The elements hold values of their kinds, no keypad or task holds a time   *)
(* that is not in the past, so that each press changes one, and no code of a *)
(* user is kept (keypads.py:49-89, tasks.py:35-36).                         *)
THEOREM ElementsHold == Spec => []Elements
  BY InitElements, ElementsStep, AlwaysInformed, PTL DEF Spec

(* No keypad ever shows the code of a user, whichever codes are entered at   *)
(* it and in which order: only that which nobody has (keypads.py:55-57).     *)
THEOREM NoCodeIsShown == Spec => []CodesAreHidden
  <1>1. Elements => CodesAreHidden
    BY DEF Elements
  <1> QED
    BY <1>1, ElementsHold, PTL

(* Every key, function key and code that was entered at a keypad, and every  *)
(* task that ran, calls the observers once: the lines on their way tell of    *)
(* all that the observers were not called for (keypads.py:49-89,             *)
(* tasks.py:35-36).                                                        *)
THEOREM EveryEventIsTold == Spec => []EventsAreTold
  <1>1. EventsAreTold <=> \A e \in Event : untold[e] = Cardinality(Tellers(line, e))
    BY DEF EventsAreTold, Tellers
  <1>2. Init => EventsAreTold
    <2> SUFFICES ASSUME Init, NEW e \in Event PROVE untold[e] = Cardinality(Tellers(line, e))
      BY <1>1
    <2>1. line = <<>> /\ untold[e] = 0
      BY DEF Init
    <2>2. Tellers(line, e) = {}
      BY <2>1 DEF Tellers
    <2> QED
      BY <2>1, <2>2, FS_EmptySet
  <1>3. Informed /\ Elements /\ EventsAreTold /\ [Next]_vars => EventsAreTold'
    <2> SUFFICES ASSUME Informed, Elements, EventsAreTold, [Next]_vars, NEW e \in Event
                 PROVE  untold'[e] = Cardinality(Tellers(line', e))
      BY DEF EventsAreTold, Tellers
    <2>1. PICK S : line \in Seq(S)
      BY DEF Informed, LinesHold, LineIsSeq
    <2>2. untold[e] = Cardinality(Tellers(line, e)) /\ untold \in [Event -> Int]
      BY DEF EventsAreTold, Tellers, Elements, ElementsType
    <2>3. CASE UNCHANGED <<line, untold>>
      BY <2>2, <2>3
    <2>4. ASSUME NEW p, NEW l, Says(p, l)
          PROVE  untold'[e] = Cardinality(Tellers(line', e))
      <3>1. CASE /\ line' = Append(line, l)
                 /\ untold' = [x \in Event |-> IF x \in Events(l) THEN untold[x] + 1 ELSE untold[x]]
        <4>1. Cardinality(Tellers(line', e)) =
                 Cardinality(Tellers(line, e)) + (IF e \in Events(l) THEN 1 ELSE 0)
          BY <2>1, <3>1, TellersGrow
        <4>2. untold'[e] = untold[e] + (IF e \in Events(l) THEN 1 ELSE 0)
          BY <2>2, <3>1
        <4> QED
          BY <2>2, <4>1, <4>2
      <3> QED
        BY <2>3, <2>4, <3>1 DEF Says
    <2>5. CASE Handle
      <3>1. line # <<>> /\ line' = Tail(line)
        BY <2>5 DEF Handle
      <3>2. Cardinality(Tellers(line', e)) =
               Cardinality(Tellers(line, e)) - (IF e \in Events(line[1]) THEN 1 ELSE 0)
        BY <2>1, <3>1, TellersShrink
      <3>3. untold'[e] = untold[e] - (IF e \in Events(line[1]) THEN 1 ELSE 0)
        <4>1. Tolled(line[1])
          BY <2>5, HandlingTells
        <4> QED
          BY <2>2, <4>1 DEF Tolled
      <3> QED
        BY <2>2, <3>2, <3>3
    <2>6. CASE Happens \/ Call
      BY <2>3, <2>4, <2>6, PanelStepsSay
    <2>7. CASE UNCHANGED vars
      BY <2>3, <2>7 DEF vars
    <2> QED
      BY <2>5, <2>6, <2>7 DEF Next
  <1> QED
    BY <1>2, <1>3, AlwaysInformed, ElementsHold, PTL DEF Spec

-----------------------------------------------------------------------------
(* Types.                                                                  *)
ClientType ==
    /\ \A g \in Field \ {"setting"} : \A i \in Places(g) :
          client[g][i] = Unread(g) \/ client[g][i] \in Truth[g]
    /\ \A i \in Index : client.setting[i] \in SettingValue
Books ==
    /\ changes \in 0..MaxChange
    /\ lost \subseteq Fact
    /\ meant = [f \in Fact |-> meant[f]]

LEMMA InitTypes == Init => ClientType /\ Books
  <1> SUFFICES ASSUME Init PROVE ClientType /\ Books
    OBVIOUS
  <1>1. \A g \in Field : \A i \in Places(g) : client[g][i] = Unread(g)
    BY DEF Init
  <1>2. \A i \in Index : client.setting[i] \in SettingValue
    <2>1. "setting" \in Field /\ Places("setting") = Index
      BY FieldNames, IndexPlaces DEF OfPanel
    <2>2. Unread("setting") = [format |-> "NUMBER", value |-> None]
      BY DEF Unread, OfPanel
    <2>3. [format |-> "NUMBER", value |-> None] \in SettingValue
      BY DEF SettingValue, Format
    <2> QED
      BY <1>1, <2>1, <2>2, <2>3
  <1>3. Books
    <2>1. MaxChange \in Nat
      BY DevicesAssumption
    <2>2. changes = 0 /\ lost = Fact /\ meant = [f \in Fact |-> None]
      BY DEF Init
    <2>3. changes \in 0..MaxChange
      BY <2>1, <2>2
    <2>4. meant = [f \in Fact |-> meant[f]]
      BY <2>2
    <2> QED
      BY <2>2, <2>3, <2>4 DEF Books
  <1> QED
    BY <1>1, <1>2, <1>3 DEF ClientType

LEMMA ClientTypeKept ==
  ASSUME Informed, ClientType, Handle
  PROVE  ClientType'
  <1>1. PICK p : PanelType(p) /\ Learns(line[1], p)
    BY FirstIsLearned DEF Holds
  <1>2. ASSUME NEW g \in Field, NEW i \in Places(g)
        PROVE  \/ client'[g][i] = client[g][i]
               \/ client'[g][i] = p[g][i]
               \/ g \in {"zone_temp", "keypad_temp", "keypad_area", "trouble"} /\ client'[g][i] = 0
    BY <1>1 DEF Learns, LearnsOne, Silent
  <1>3. \A g \in {"zone_temp", "keypad_temp", "keypad_area", "trouble"} : 0 \in Truth[g]
    <2>1. 0 \in Temp /\ MaxIndex \in Nat
      BY DevicesAssumption
    <2>2. 0 \in Index
      BY <2>1 DEF Index
    <2> QED
      BY <2>1, <2>2 DEF Truth
  <1>4. ASSUME NEW g \in Field \ {"setting"}, NEW i \in Places(g)
        PROVE  client'[g][i] = Unread(g) \/ client'[g][i] \in Truth[g]
    <2>1. p[g][i] \in Truth[g]
      BY <1>1 DEF PanelType
    <2>2. client[g][i] = Unread(g) \/ client[g][i] \in Truth[g]
      BY DEF ClientType
    <2> QED
      BY <1>2, <1>3, <2>1, <2>2
  <1>5. ASSUME NEW i \in Index PROVE client'.setting[i] \in SettingValue
    <2>1. "setting" \in Field /\ i \in Places("setting")
      BY FieldNames, IndexPlaces DEF OfPanel
    <2>2. client'.setting[i] = client.setting[i] \/ client'.setting[i] = p.setting[i]
      BY <1>2, <2>1
    <2>3. p.setting[i] \in PanelSetting
      BY <1>1 DEF PanelType
    <2>4. PanelSetting \subseteq SettingValue
      BY DEF PanelSetting, SettingValue
    <2> QED
      BY <2>2, <2>3, <2>4 DEF ClientType
  <1> QED
    BY <1>4, <1>5 DEF ClientType

LEMMA TypesStep ==
  ASSUME Informed, ClientType, Books, [Next]_vars
  PROVE  ClientType' /\ Books'
  <1>1. CASE Happens \/ Call
    <2>1. client' = client /\ changes' = changes + 1 /\ changes < MaxChange
      BY <1>1, PanelStepsSay
    <2>2. lost' \subseteq Fact
      <3>1. (\E p, l : Says(p, l)) \/ UNCHANGED lost
        BY <1>1, PanelStepsSay
      <3>2. \A p : Changed(p) \subseteq Fact
        BY DEF Changed
      <3> QED
        BY <3>1, <3>2 DEF Says, Books
    <2>3. meant' = [f \in Fact |-> meant'[f]]
      <3>1. UNCHANGED meant \/ \E f, i, m : meant' = [meant EXCEPT ![<<f, i>>] = m]
        BY <1>1, PanelStepsSay DEF Means
      <3>2. meant = [f \in Fact |-> meant[f]]
        BY DEF Books
      <3> QED
        BY <3>1, <3>2
    <2>4. changes' \in 0..MaxChange
      <3>1. MaxChange \in Nat
        BY DevicesAssumption
      <3> QED
        BY <2>1, <3>1 DEF Books
    <2> QED
      BY <2>1, <2>2, <2>3, <2>4 DEF ClientType, Books
  <1>2. CASE Handle
    <2>1. UNCHANGED <<lost, meant, changes>>
      BY <1>2 DEF Handle
    <2> QED
      BY <1>2, <2>1, ClientTypeKept DEF Books
  <1>3. CASE UNCHANGED vars
    BY <1>3 DEF vars, ClientType, Books
  <1> QED
    BY <1>1, <1>2, <1>3 DEF Next

(* Every attribute that a line sets is of the values its field may have,     *)
(* whatever the element held before (message.py).                          *)
THEOREM TypeCorrect == Spec => []TypeOK
  <1>1. Informed /\ Elements /\ ClientType /\ Books => TypeOK
    <2> SUFFICES ASSUME Informed, Elements, ClientType, Books PROVE TypeOK
      OBVIOUS
    <2>1. \A i \in Index : panel.setting[i] \in SettingValue
      <3>1. PanelSetting \subseteq SettingValue
        BY DEF PanelSetting, SettingValue
      <3> QED
        BY <3>1 DEF Informed, PanelType
    <2>2. keypad \in [Index -> [last_keypress : {None, 1}, last_function_key : {None, "0", "1", "C"},
                                last_user : Nat \cup {-1}, last_user_time : Nat,
                                code : DOMAIN UserOf \cup {"", "****"}]]
      BY DEF Elements, ElementsType, KeypadState
    <2> QED
      BY <2>1, <2>2 DEF TypeOK, Informed, PanelType, Elements, ElementsType, ClientType, Books
  <1>2. Spec => [](ClientType /\ Books)
    BY InitTypes, TypesStep, AlwaysInformed, PTL DEF Spec
  <1> QED
    BY <1>1, <1>2, AlwaysInformed, ElementsHold, PTL

-----------------------------------------------------------------------------
(* What the client sets.                                                   *)
Settable == {"mode", "hold", "fan", "cool_setpoint", "heat_setpoint", "setting", "counter",
             "weekday"}
IsAsMeant(g, i) ==
    meant[<<g, i>>] # None =>
        /\ g \in Settable
        /\ panel[g][i] = IF g = "setting" THEN [panel.setting[i] EXCEPT !.value = meant[<<g, i>>]]
                         ELSE meant[<<g, i>>]
AllAsMeant == \A g \in Field : \A i \in Places(g) : IsAsMeant(g, i)

LEMMA BecomesAsMeant ==
  ASSUME Informed, Books, AllAsMeant, FactBecomes
  PROVE  AllAsMeant'
  <1>1. PICK f, i, v : /\ f \in Field \ {"weekday"} /\ i \in Places(f)
                       /\ Fits(f, i, v) /\ Becomes(f, i, v) /\ MeansOf(f, i, v)
    BY DEF FactBecomes
  <1>2. PICK p, l : /\ PanelType(p) /\ Says(p, l) /\ p[f][i] = v
                    /\ \A g \in Field : \A k \in Places(g) : <<g, k>> # <<f, i>> => p[g][k] = panel[g][k]
    BY <1>1, FactAnnounced DEF Informed
  <1>3. PICK m : /\ Means(f, i, m)
                 /\ \/ m = None
                    \/ f \in DOMAIN SettingTyping \cup {"counter"} /\ m = v
                    \/ /\ f = "setting" /\ Knows(f, i)
                       /\ client.setting[i].format = panel.setting[i].format =>
                             v = [panel.setting[i] EXCEPT !.value = m]
    BY <1>1 DEF MeansOf
  <1>4. panel' = p
    BY <1>2 DEF Says
  <1>5. /\ meant'[<<f, i>>] = m
        /\ \A g \in Field : \A k \in Places(g) : <<g, k>> # <<f, i>> => meant'[<<g, k>>] = meant[<<g, k>>]
    <2>1. meant = [x \in Fact |-> meant[x]] /\ meant' = [meant EXCEPT ![<<f, i>>] = m]
      BY <1>3 DEF Books, Means
    <2>2. <<f, i>> \in Fact /\ \A g \in Field : \A k \in Places(g) : <<g, k>> \in Fact
      BY <1>1, FactShape
    <2> QED
      BY <2>1, <2>2
  <1>6. ASSUME NEW g \in Field, NEW k \in Places(g), <<g, k>> # <<f, i>> PROVE IsAsMeant(g, k)'
    <2>1. panel'[g][k] = panel[g][k] /\ meant'[<<g, k>>] = meant[<<g, k>>]
      BY <1>2, <1>4, <1>5, <1>6
    <2>2. IsAsMeant(g, k)
      BY DEF AllAsMeant
    <2> QED
      BY <2>1, <2>2 DEF IsAsMeant
  <1>7. IsAsMeant(f, i)'
    <2>1. CASE m = None
      BY <1>5, <2>1 DEF IsAsMeant
    <2>2. CASE f \in DOMAIN SettingTyping \cup {"counter"} /\ m = v
      <3>1. f \in Settable \ {"setting"}
        BY <2>2 DEF SettingTyping, Settable
      <3> QED
        BY <1>2, <1>4, <1>5, <2>2, <3>1 DEF IsAsMeant
    <2>3. CASE /\ f = "setting" /\ Knows(f, i)
               /\ client.setting[i].format = panel.setting[i].format =>
                     v = [panel.setting[i] EXCEPT !.value = m]
      <3>1. Silent(panel, f, i) \/ client[f][i] = panel[f][i]
        BY <1>1, <2>3 DEF Informed, Known
      <3>2. client.setting[i] = panel.setting[i]
        BY <2>3, <3>1 DEF Silent
      <3>3. v = [panel.setting[i] EXCEPT !.value = m]
        BY <2>3, <3>2
      <3>4. panel.setting[i] \in PanelSetting
        <4>1. i \in Index
          BY <1>1, <2>3, IndexPlaces, FieldNames DEF OfPanel
        <4> QED
          BY <4>1 DEF Informed, PanelType
      <3>5. v = [v EXCEPT !.value = m]
        <4>1. PICK s : s = panel.setting[i]
          OBVIOUS
        <4>2. s = [format |-> s.format, value |-> s.value]
          BY <3>4, <4>1 DEF PanelSetting
        <4>3. v = [format |-> s.format, value |-> m]
          BY <3>3, <4>1, <4>2
        <4> QED
          BY <4>3
      <3> QED
        BY <1>2, <1>4, <1>5, <2>3, <3>5 DEF IsAsMeant, Settable
    <2> QED
      BY <1>3, <2>1, <2>2, <2>3
  <1> QED
    BY <1>6, <1>7 DEF AllAsMeant

LEMMA AsMeantStep ==
  ASSUME Informed, Books, AllAsMeant, [Next]_vars
  PROVE  AllAsMeant'
  <1>1. ASSUME UNCHANGED meant,
               \A g \in Field \ {"chime"} : panel'[g] = panel[g]
        PROVE  AllAsMeant'
    <2>1. ASSUME NEW g \in Field, NEW i \in Places(g) PROVE IsAsMeant(g, i)'
      <3>1. IsAsMeant(g, i)
        BY DEF AllAsMeant
      <3>2. "chime" \notin Settable /\ "setting" \in Field \ {"chime"}
        BY FieldNames DEF Settable
      <3>3. panel'["setting"] = panel["setting"]
        BY <1>1, <3>2
      <3>4. g # "chime" => panel'[g] = panel[g]
        BY <1>1
      <3> QED
        BY <1>1, <3>1, <3>2, <3>3, <3>4 DEF IsAsMeant
    <2> QED
      BY <2>1 DEF AllAsMeant
  <1>2. CASE Happens \/ Call
    <2>1. PanelType(panel) /\ watched \in Watched
      BY DEF Informed
    <2>2. CASE FactBecomes
      BY <2>2, BecomesAsMeant
    <2>3. CASE PanelSays
      BY <1>1, <2>3 DEF PanelSays, Says
    <2>4. CASE KeyPressed
      <3>1. PICK i \in Index, key \in {"1", "C"} : FunctionKey(i, key) /\ UNCHANGED meant
        BY <2>4 DEF KeyPressed
      <3>2. PICK p : Says(p, KF(p, i, key)) /\ \A g \in Field \ {"chime"} : p[g] = panel[g]
        BY <2>1, <3>1, KeyChimes
      <3>3. panel' = p
        BY <3>2 DEF Says
      <3> QED
        BY <1>1, <3>1, <3>2, <3>3
    <2>5. CASE TimeIsSet
      <3>1. PICK w \in 0..6 : SetTime(w)
        BY <2>5 DEF TimeIsSet
      <3>2. (ElkWeekday(w) + 5) % 7 = w
        BY DEF ElkWeekday
      <3>3. panel' = [panel EXCEPT !["weekday"][0] = w] /\ meant' = [meant EXCEPT ![<<"weekday", 0>>] = w]
        BY <3>1, <3>2 DEF SetTime, Means
      <3>4. "weekday" \in Field /\ Places("weekday") = {0} /\ "setting" \in Field
        BY FieldNames DEF Places, OfPanel
      <3>5. /\ panel = [g \in Field |-> panel[g]]
            /\ panel["weekday"] = [k \in {0} |-> panel["weekday"][k]]
        BY <2>1, <3>4, PlacesKept DEF PanelType
      <3>6. /\ \A g \in Field \ {"weekday"} : panel'[g] = panel[g]
            /\ panel'["weekday"] = [panel["weekday"] EXCEPT ![0] = w]
        BY <3>3, <3>4, <3>5
      <3>7. panel'["weekday"][0] = w
        BY <3>5, <3>6
      <3>8. /\ meant'[<<"weekday", 0>>] = w
            /\ \A x \in Fact : x # <<"weekday", 0>> => meant'[x] = meant[x]
        <4>1. meant = [x \in Fact |-> meant[x]] /\ <<"weekday", 0>> \in Fact
          BY <3>4, FactShape DEF Books
        <4> QED
          BY <3>3, <4>1
      <3>9. ASSUME NEW g \in Field, NEW i \in Places(g) PROVE IsAsMeant(g, i)'
        <4>1. CASE g = "weekday"
          BY <3>4, <3>7, <3>8, <4>1 DEF IsAsMeant, Settable
        <4>2. CASE g # "weekday"
          <5>1. IsAsMeant(g, i) /\ <<g, i>> \in Fact
            BY FactShape DEF AllAsMeant
          <5>2. panel'[g] = panel[g] /\ panel'["setting"] = panel["setting"]
            BY <3>4, <3>6, <4>2
          <5>3. meant'[<<g, i>>] = meant[<<g, i>>]
            BY <3>8, <4>2, <5>1
          <5> QED
            BY <5>1, <5>2, <5>3 DEF IsAsMeant
        <4> QED
          BY <4>1, <4>2
      <3> QED
        BY <3>9 DEF AllAsMeant
    <2> QED
      BY <1>2, <2>1, <2>2, <2>3, <2>4, <2>5, PanelSteps
  <1>3. CASE Handle
    BY <1>1, <1>3 DEF Handle
  <1>4. CASE UNCHANGED vars
    BY <1>1, <1>4 DEF vars
  <1> QED
    BY <1>2, <1>3, <1>4 DEF Next

(* What the client sets, the panel sets to what the client meant: it decodes *)
(* the number of a thermostat's setting, and a value or a time from the one  *)
(* number of a setting, to what was encoded, as long as the client knows the *)
(* format of the setting (thermostats.py:40-57, settings.py:22-29,          *)
(* panel.py:51-56, message.py:459-478, 561-580).                            *)
THEOREM WhatIsSetIsMeant == Spec => []SetIsMeant
  <1>1. Init => AllAsMeant
    <2> SUFFICES ASSUME Init, NEW g \in Field, NEW i \in Places(g) PROVE IsAsMeant(g, i)
      BY DEF AllAsMeant
    <2>1. meant[<<g, i>>] = None
      BY FactShape DEF Init
    <2> QED
      BY <2>1 DEF IsAsMeant
  <1>2. Spec => []Books
    <2>1. Spec => [](ClientType /\ Books)
      BY InitTypes, TypesStep, AlwaysInformed, PTL DEF Spec
    <2> QED
      BY <2>1, PTL
  <1>3. AllAsMeant => SetIsMeant
    <2> SUFFICES ASSUME AllAsMeant, NEW f \in Fact, meant[f] # None
                 PROVE  panel[f[1]][f[2]] =
                           IF f[1] = "setting" THEN [panel.setting[f[2]] EXCEPT !.value = meant[f]]
                           ELSE meant[f]
      BY DEF SetIsMeant
    <2>1. f = <<f[1], f[2]>> /\ f[1] \in Field /\ f[2] \in Places(f[1])
      BY FactShape
    <2>2. IsAsMeant(f[1], f[2])
      BY <2>1 DEF AllAsMeant
    <2> QED
      BY <2>1, <2>2 DEF IsAsMeant
  <1> QED
    BY <1>1, <1>2, <1>3, AsMeantStep, AlwaysInformed, PTL DEF Spec
=============================================================================
