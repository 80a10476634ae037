---------------------------- MODULE CachesProofs ----------------------------
(***************************************************************************)
(* What holds of the states that the elements of elkm1_lib hold, for every  *)
(* number of zones, areas, outputs and lights, every list of elements and   *)
(* any number of changes, calls and troubles.                              *)
(***************************************************************************)
EXTENDS Caches, SequenceLemmas

-----------------------------------------------------------------------------
(* The inductive invariant. It says of the lines on their way what they     *)
(* bring, so that it holds when nothing is at rest.                        *)

VersionOf(v, f) == v[f[1]][f[2]]

(* Does a line bring the version of a fact, and which?                      *)
Brings(l, f) ==
    \/ f[1] = "zone" /\ (l.cmd = "ZS" \/ (l.cmd = "ZC" /\ l.index = f[2]))
    \/ f[1] = "output" /\ (l.cmd = "CS" \/ (l.cmd = "CC" /\ l.index = f[2]))
    \/ f[1] = "light" /\ ((l.cmd = "PS" /\ f[2] \in OfBank(l.bank)) \/ (l.cmd = "PC" /\ l.index = f[2]))
Brought(l, f) ==
    CASE l.cmd = "ZS" -> l.zone_statuses[f[2]]
      [] l.cmd = "CS" -> l.output_status[f[2]]
      [] l.cmd = "PS" -> l.statuses[f[2] % BankSize]
      [] OTHER -> l.status

ReportOf(f) ==
    CASE f[1] = "zone" -> Rep("ZS")
      [] f[1] = "output" -> Rep("CS")
      [] f[1] = "light" -> [cmd |-> "PS", bank |-> f[2] \div BankSize]

(* The versions that lines bring are in order, between two others.          *)
InOrder(ls, f, low, high) ==
    /\ low <= high
    /\ \A i \in 1..Len(ls) : Brings(ls[i], f) =>
          low <= Brought(ls[i], f) /\ Brought(ls[i], f) <= high
    /\ \A i, j \in 1..Len(ls) : i < j /\ Brings(ls[i], f) /\ Brings(ls[j], f) =>
          Brought(ls[i], f) <= Brought(ls[j], f)

(* A version is held or on its way.                                         *)
Arrives(ls, f, held, version) ==
    held = version \/ \E i \in 1..Len(ls) : Brings(ls[i], f) /\ Brought(ls[i], f) = version

(* A line that makes the handler ask for the report of the zones.           *)
Hints(l) == l.cmd = "ZB" /\ l.zone_number \notin Zone
Hinted(ls) == \E i \in 1..Len(ls) : Hints(ls[i])
Asked(q, cmd) == \E i \in 1..Len(q) : q[i].cmd = cmd

OnTime ==
    \A f \in Versioned : InOrder(line, f, VersionOf(cache, f), VersionOf(panel, f))

VersionsCurrent ==
    \A f \in Versioned : ReportOf(f) \notin lost =>
        \/ Arrives(line, f, VersionOf(cache, f), VersionOf(panel, f))
        \/ f[1] = "zone" /\ (Hinted(line) \/ Asked(queue, "zs"))

(* The last line about the areas says what is the case.                    *)
OfAreas(l) == l.cmd \in {"AS", "EE"}
AreasArrive(ls, c, p) ==
    \/ /\ c.armed = p.armed /\ c.alarm = p.alarm
       /\ \A i \in 1..Len(ls) : ~OfAreas(ls[i])
    \/ \E i \in 1..Len(ls) :
          /\ ls[i] = ASLine(p)
          /\ \A j \in i + 1..Len(ls) : ~OfAreas(ls[j])
AreasCurrent == Rep("AS") \notin lost => AreasArrive(line, cache, panel)

(* The last line about the alarms of zones does, or it will be asked for.   *)
TriggersArrive(ls, c, p) ==
    \/ /\ c.triggered = p.triggered
       /\ \A i \in 1..Len(ls) : ls[i].cmd # "AZ"
    \/ \E i \in 1..Len(ls) :
          /\ ls[i].cmd = "AZ" /\ ls[i].alarm_status = p.triggered
          /\ \A j \in i + 1..Len(ls) : ls[j].cmd # "AZ"
Alarming(alarm) == \E a \in Area : alarm[a] # "none"
WillAsk(ls, c) ==
    \E i \in 1..Len(ls) : ls[i].cmd = "AS" /\ (Alarming(ls[i].alarm_states) \/ Alarming(c.alarm))
AlarmsCurrent ==
    Rep("AZ") \notin lost =>
        TriggersArrive(line, cache, panel) \/ WillAsk(line, cache) \/ Asked(queue, "az")

TriggersAlarm == \A z \in Zone : panel.triggered[z] => panel.alarm[AreaOf[z]] = "active"

Coherent ==
    OnTime /\ VersionsCurrent /\ AreasCurrent /\ AlarmsCurrent /\ TriggersAlarm

-----------------------------------------------------------------------------
(* Lights and banks: a light is in the bank that its number names, and in   *)
(* no other.                                                               *)
LEMMA BankOfLight ==
  ASSUME NEW l \in Light
  PROVE  /\ l \div BankSize \in Bank /\ l % BankSize \in 0..BankSize - 1
         /\ (l \div BankSize) * BankSize + (l % BankSize) = l
         /\ \A b \in Bank : l \in OfBank(b) <=> b = l \div BankSize
  <1> DEFINE q == l \div BankSize
             r == l % BankSize
  <1>1. BankSize \in Nat /\ BankSize >= 1 /\ MaxBank \in Nat /\ l \in Nat
    BY CachesAssumption DEF Light
  <1>2. q \in Int /\ r \in 0..BankSize - 1 /\ l = BankSize * q + r
    BY <1>1, SMT
  <1>3. l < (MaxBank + 1) * BankSize
    BY <1>1 DEF Light
  <1> HIDE DEF q, r
  <1>4. q >= 0
    BY <1>1, <1>2, SMT
  <1>5. q <= MaxBank
    BY <1>1, <1>2, <1>3, <1>4, SMT
  <1>6. ASSUME NEW b \in Bank PROVE l \in OfBank(b) <=> b = q
    BY <1>1, <1>2, <1>4, SMT DEF OfBank, Bank
  <1>7. q \in Bank
    BY <1>1, <1>2, <1>4, <1>5 DEF Bank
  <1>8. q * BankSize + r = l
    BY <1>1, <1>2, SMT
  <1> QED
    BY <1>2, <1>6, <1>7, <1>8 DEF q, r

LEMMA LightOfBank ==
  ASSUME NEW b \in Bank, NEW l \in OfBank(b)
  PROVE  l \in Light /\ b = l \div BankSize
  <1>1. BankSize \in Nat /\ BankSize >= 1 /\ MaxBank \in Nat /\ b \in 0..MaxBank
    BY CachesAssumption DEF Bank
  <1>2. l \in Int /\ b * BankSize <= l /\ l <= (b + 1) * BankSize - 1
    BY <1>1 DEF OfBank
  <1>3. 0 <= b * BankSize /\ (b + 1) * BankSize <= (MaxBank + 1) * BankSize
    BY <1>1, SMT
  <1>4. l \in Light
    BY <1>1, <1>2, <1>3 DEF Light
  <1> QED
    BY <1>4, BankOfLight

(* What the lines of each kind consist of.                                 *)
LEMMA LineFields ==
  ASSUME NEW l \in Line
  PROVE  /\ l.cmd \in {"ZC", "CC", "PC", "EE", "AS", "AZ", "ZS", "CS", "PS", "ZB", "RP", "IE"}
         /\ l.cmd = "ZC" => l.index \in Zone /\ l.status \in Nat
         /\ l.cmd = "CC" => l.index \in Output /\ l.status \in Nat
         /\ l.cmd = "PC" => l.index \in Light /\ l.status \in Nat
         /\ l.cmd = "EE" => l.area \in Area /\ l.armed_status \in {"armed", "disarmed"}
         /\ l.cmd = "AS" => /\ l.armed_statuses \in [Area -> {"armed", "disarmed"}]
                            /\ l.alarm_states \in [Area -> {"active", "none"}]
         /\ l.cmd = "AZ" => l.alarm_status \in [Zone -> BOOLEAN]
         /\ l.cmd = "ZS" => l.zone_statuses \in [Zone -> Nat]
         /\ l.cmd = "CS" => l.output_status \in [Output -> Nat]
         /\ l.cmd = "PS" => l.bank \in Bank /\ l.statuses \in [0..BankSize - 1 -> Nat]
         /\ l.cmd = "ZB" => l.zone_number \in -1..MaxZone \cup {AllZones - 1}
         /\ l.cmd = "RP" => l.connected \in BOOLEAN
  BY DEF Line, Version

LEMMA VersionedFields ==
  ASSUME NEW f \in Versioned
  PROVE  \/ f[1] = "zone" /\ f[2] \in Zone
         \/ f[1] = "output" /\ f[2] \in Output
         \/ f[1] = "light" /\ f[2] \in Light
  BY DEF Versioned

LEMMA VersionType ==
  ASSUME NEW v \in View, NEW f \in Versioned
  PROVE  VersionOf(v, f) \in Nat
  BY VersionedFields DEF View, Version, VersionOf

LEMMA BroughtType ==
  ASSUME NEW l \in Line, NEW f \in Versioned, Brings(l, f)
  PROVE  Brought(l, f) \in Nat /\ ReportOf(f) \in Told(l)
  <1>1. CASE f[1] = "zone"
    BY <1>1, LineFields, VersionedFields DEF Brings, Brought, Told, ReportOf, Rep
  <1>2. CASE f[1] = "output"
    BY <1>2, LineFields, VersionedFields DEF Brings, Brought, Told, ReportOf, Rep
  <1>3. CASE f[1] = "light"
    <2>1. f[2] \in Light /\ (l.cmd = "PS" \/ l.cmd = "PC")
      BY <1>3, VersionedFields DEF Brings
    <2>2. /\ f[2] % BankSize \in 0..BankSize - 1
          /\ \A b \in Bank : f[2] \in OfBank(b) <=> b = f[2] \div BankSize
      BY <2>1, BankOfLight
    <2>3. CASE l.cmd = "PS"
      BY <1>3, <2>2, <2>3, LineFields DEF Brings, Brought, Told, ReportOf
    <2>4. CASE l.cmd = "PC"
      BY <1>3, <2>4, LineFields DEF Brings, Brought, Told, ReportOf
    <2> QED
      BY <2>1, <2>3, <2>4
  <1> QED
    BY <1>1, <1>2, <1>3, VersionedFields

-----------------------------------------------------------------------------
(* What happens to the order of the lines and to what they bring when lines *)
(* are added at the end or the first one is taken.                         *)
LEMMA Joined ==
  ASSUME NEW S, NEW s \in Seq(S), NEW t \in Seq(S)
  PROVE  /\ s \o t \in Seq(S) /\ Len(s \o t) = Len(s) + Len(t)
         /\ \A i \in 1..Len(s) : (s \o t)[i] = s[i]
         /\ \A i \in 1..Len(t) : (s \o t)[Len(s) + i] = t[i]
         /\ \A i \in 1..Len(s \o t) : i \in 1..Len(s) \/ i - Len(s) \in 1..Len(t)
         /\ \A i \in Len(s) + 1..Len(s \o t) : (s \o t)[i] = t[i - Len(s)]
  OBVIOUS

LEMMA Rest ==
  ASSUME NEW S, NEW s \in Seq(S), s # <<>>
  PROVE  /\ Tail(s) \in Seq(S) /\ Len(Tail(s)) = Len(s) - 1 /\ Len(s) \in Nat \ {0}
         /\ Head(s) = s[1] /\ Head(s) \in S
         /\ \A i \in 1..Len(Tail(s)) : Tail(s)[i] = s[i + 1]
  OBVIOUS

LEMMA OrderWhenJoined ==
  ASSUME NEW f \in Versioned, NEW ls \in Seq(Line), NEW new \in Seq(Line),
         NEW c \in Nat, NEW p \in Nat, NEW q \in Nat,
         InOrder(ls, f, c, p), p <= q,
         \A i \in 1..Len(new) : Brings(new[i], f) => Brought(new[i], f) = q
  PROVE  InOrder(ls \o new, f, c, q)
  <1> DEFINE all == ls \o new
  <1>1. /\ Len(ls) \in Nat /\ Len(new) \in Nat /\ Len(all) = Len(ls) + Len(new)
        /\ \A i \in 1..Len(ls) : all[i] = ls[i]
        /\ \A i \in Len(ls) + 1..Len(all) : all[i] = new[i - Len(ls)]
    BY Joined, LenProperties
  <1>2. \A i \in 1..Len(ls) : Brings(ls[i], f) => Brought(ls[i], f) \in Nat
    BY ElementOfSeq, BroughtType
  <1> HIDE DEF all
  <1>3. ASSUME NEW i \in 1..Len(all), Brings(all[i], f)
        PROVE  \/ i <= Len(ls) /\ all[i] = ls[i]
               \/ i > Len(ls) /\ Brought(all[i], f) = q
    BY <1>1, <1>3
  <1>4. \A i \in 1..Len(all) : Brings(all[i], f) =>
            Brought(all[i], f) \in Nat /\ c <= Brought(all[i], f) /\ Brought(all[i], f) <= q
    BY <1>1, <1>2, <1>3 DEF InOrder
  <1>5. ASSUME NEW i \in 1..Len(all), NEW j \in 1..Len(all), i < j,
               Brings(all[i], f), Brings(all[j], f)
        PROVE  Brought(all[i], f) <= Brought(all[j], f)
    BY <1>1, <1>3, <1>4, <1>5 DEF InOrder
  <1>6. c <= q
    BY DEF InOrder
  <1>7. InOrder(all, f, c, q)
    BY <1>4, <1>5, <1>6 DEF InOrder
  <1> QED
    BY <1>7 DEF all

LEMMA OrderOfRest ==
  ASSUME NEW f \in Versioned, NEW ls \in Seq(Line), ls # <<>>,
         NEW c \in Nat, NEW p \in Nat, InOrder(ls, f, c, p)
  PROVE  /\ InOrder(Tail(ls), f, c, p)
         /\ Brings(Head(ls), f) => InOrder(Tail(ls), f, Brought(Head(ls), f), p)
  <1>1. /\ Len(ls) \in Nat \ {0} /\ Len(Tail(ls)) = Len(ls) - 1 /\ Head(ls) = ls[1]
        /\ \A i \in 1..Len(Tail(ls)) : Tail(ls)[i] = ls[i + 1]
    BY Rest
  <1>2. \A i \in 1..Len(ls) : Brings(ls[i], f) => Brought(ls[i], f) \in Nat
    BY ElementOfSeq, BroughtType
  <1>3. InOrder(Tail(ls), f, c, p)
    BY <1>1, <1>2 DEF InOrder
  <1>4. ASSUME Brings(Head(ls), f) PROVE InOrder(Tail(ls), f, Brought(Head(ls), f), p)
    BY <1>1, <1>2, <1>3, <1>4 DEF InOrder
  <1> QED
    BY <1>3, <1>4

LEMMA ArrivesWhenJoined ==
  ASSUME NEW f \in Versioned, NEW ls \in Seq(Line), NEW new \in Seq(Line),
         NEW c \in Nat, NEW p \in Nat
  PROVE  /\ Arrives(ls, f, c, p) => Arrives(ls \o new, f, c, p)
         /\ \A i \in 1..Len(new) :
               Brings(new[i], f) /\ Brought(new[i], f) = p => Arrives(ls \o new, f, c, p)
  <1>1. /\ Len(ls) \in Nat /\ Len(new) \in Nat /\ Len(ls \o new) = Len(ls) + Len(new)
        /\ \A i \in 1..Len(ls) : (ls \o new)[i] = ls[i]
        /\ \A i \in 1..Len(new) : (ls \o new)[Len(ls) + i] = new[i]
    BY Joined, LenProperties
  <1>2. ASSUME Arrives(ls, f, c, p) PROVE Arrives(ls \o new, f, c, p)
    BY <1>1, <1>2 DEF Arrives
  <1>3. ASSUME NEW i \in 1..Len(new), Brings(new[i], f), Brought(new[i], f) = p
        PROVE  Arrives(ls \o new, f, c, p)
    <2>1. Len(ls) + i \in 1..Len(ls \o new) /\ (ls \o new)[Len(ls) + i] = new[i]
      BY <1>1
    <2> QED
      BY <1>3, <2>1 DEF Arrives
  <1> QED
    BY <1>2, <1>3

LEMMA ArrivesAtRest ==
  ASSUME NEW f \in Versioned, NEW ls \in Seq(Line), ls # <<>>,
         NEW c \in Nat, NEW p \in Nat, InOrder(ls, f, c, p), Arrives(ls, f, c, p)
  PROVE  /\ Brings(Head(ls), f) => Arrives(Tail(ls), f, Brought(Head(ls), f), p)
         /\ ~Brings(Head(ls), f) => Arrives(Tail(ls), f, c, p)
  <1>1. /\ Len(ls) \in Nat \ {0} /\ Len(Tail(ls)) = Len(ls) - 1 /\ Head(ls) = ls[1]
        /\ \A i \in 1..Len(Tail(ls)) : Tail(ls)[i] = ls[i + 1]
    BY Rest
  <1>2. \A i \in 1..Len(ls) : Brings(ls[i], f) => Brought(ls[i], f) \in Nat
    BY ElementOfSeq, BroughtType
  <1>3. CASE c = p
    BY <1>1, <1>2, <1>3 DEF InOrder, Arrives
  <1>4. CASE c # p
    <2>1. PICK i \in 1..Len(ls) : Brings(ls[i], f) /\ Brought(ls[i], f) = p
      BY <1>4 DEF Arrives
    <2>2. CASE i = 1
      BY <1>1, <2>1, <2>2 DEF Arrives
    <2>3. CASE i # 1
      <3>1. i - 1 \in 1..Len(Tail(ls)) /\ Tail(ls)[i - 1] = ls[i]
        BY <1>1, <2>3
      <3> QED
        BY <2>1, <3>1 DEF Arrives
    <2> QED
      BY <2>2, <2>3
  <1> QED
    BY <1>3, <1>4

LEMMA AreasWhenJoined ==
  ASSUME NEW ls \in Seq(Line), NEW new \in Seq(Line), NEW c, NEW p, NEW q
  PROVE  /\ /\ AreasArrive(ls, c, p) /\ p.armed = q.armed /\ p.alarm = q.alarm
            /\ \A i \in 1..Len(new) : ~OfAreas(new[i])
            => AreasArrive(ls \o new, c, q)
         /\ new # <<>> /\ new[Len(new)] = ASLine(q) => AreasArrive(ls \o new, c, q)
  <1> DEFINE all == ls \o new
  <1>1. /\ Len(ls) \in Nat /\ Len(new) \in Nat /\ Len(all) = Len(ls) + Len(new)
        /\ \A i \in 1..Len(ls) : all[i] = ls[i]
        /\ \A i \in Len(ls) + 1..Len(all) :
              all[i] = new[i - Len(ls)] /\ i - Len(ls) \in 1..Len(new)
    BY Joined, LenProperties
  <1> HIDE DEF all
  <1>2. ASSUME AreasArrive(ls, c, p), p.armed = q.armed, p.alarm = q.alarm,
               \A i \in 1..Len(new) : ~OfAreas(new[i])
        PROVE  AreasArrive(all, c, q)
    <2>1. \A j \in Len(ls) + 1..Len(all) : ~OfAreas(all[j])
      BY <1>1, <1>2
    <2>2. ASLine(p) = ASLine(q)
      BY <1>2 DEF ASLine
    <2>3. CASE \A i \in 1..Len(ls) : ~OfAreas(ls[i])
      <3>1. \A i \in 1..Len(all) : ~OfAreas(all[i])
        BY <1>1, <2>1, <2>3
      <3>2. c.armed = p.armed /\ c.alarm = p.alarm
        BY <1>2, <2>3 DEF AreasArrive, ASLine, OfAreas
      <3> QED
        BY <1>2, <3>1, <3>2 DEF AreasArrive
    <2>4. CASE \E i \in 1..Len(ls) : /\ ls[i] = ASLine(p)
                                     /\ \A j \in i + 1..Len(ls) : ~OfAreas(ls[j])
      <3>1. PICK i \in 1..Len(ls) : /\ ls[i] = ASLine(p)
                                    /\ \A j \in i + 1..Len(ls) : ~OfAreas(ls[j])
        BY <2>4
      <3>2. i \in 1..Len(all) /\ all[i] = ASLine(q)
        BY <1>1, <2>2, <3>1
      <3>3. \A j \in i + 1..Len(all) : ~OfAreas(all[j])
        BY <1>1, <2>1, <3>1
      <3> QED
        BY <3>2, <3>3 DEF AreasArrive
    <2> QED
      BY <1>2, <2>3, <2>4 DEF AreasArrive
  <1>3. ASSUME new # <<>>, new[Len(new)] = ASLine(q) PROVE AreasArrive(all, c, q)
    <2>1. Len(all) \in 1..Len(all) /\ all[Len(all)] = ASLine(q)
      BY <1>1, <1>3
    <2>2. Len(all) + 1..Len(all) = {}
      BY <1>1
    <2> QED
      BY <2>1, <2>2 DEF AreasArrive
  <1> QED
    BY <1>2, <1>3 DEF all

LEMMA AreasOfRest ==
  ASSUME NEW ls \in Seq(Line), ls # <<>>, NEW c, NEW d, NEW p, AreasArrive(ls, c, p),
         \/ ~OfAreas(Head(ls)) /\ d.armed = c.armed /\ d.alarm = c.alarm
         \/ /\ Head(ls).cmd = "AS"
            /\ d.armed = Head(ls).armed_statuses /\ d.alarm = Head(ls).alarm_states
         \/ Head(ls).cmd = "EE"
  PROVE  AreasArrive(Tail(ls), d, p)
  <1> DEFINE rest == Tail(ls)
  <1>1. /\ Len(ls) \in Nat \ {0} /\ Len(rest) = Len(ls) - 1 /\ Head(ls) = ls[1]
        /\ \A i \in 1..Len(rest) : rest[i] = ls[i + 1]
    BY Rest
  <1> HIDE DEF rest
  <1>2. CASE c.armed = p.armed /\ c.alarm = p.alarm /\ \A i \in 1..Len(ls) : ~OfAreas(ls[i])
    <2>1. ~OfAreas(Head(ls)) /\ \A i \in 1..Len(rest) : ~OfAreas(rest[i])
      BY <1>1, <1>2
    <2>2. d.armed = p.armed /\ d.alarm = p.alarm
      BY <1>2, <2>1 DEF OfAreas
    <2> QED
      BY <2>1, <2>2 DEF AreasArrive, rest
  <1>3. CASE \E i \in 1..Len(ls) : /\ ls[i] = ASLine(p)
                                   /\ \A j \in i + 1..Len(ls) : ~OfAreas(ls[j])
    <2>1. PICK i \in 1..Len(ls) : /\ ls[i] = ASLine(p)
                                  /\ \A j \in i + 1..Len(ls) : ~OfAreas(ls[j])
      BY <1>3
    <2>2. CASE i = 1
      <3>1. \A j \in 1..Len(rest) : ~OfAreas(rest[j])
        BY <1>1, <2>1, <2>2
      <3>2. Head(ls).cmd = "AS" /\ Head(ls).armed_statuses = p.armed /\ Head(ls).alarm_states = p.alarm
        BY <1>1, <2>1, <2>2 DEF ASLine
      <3> QED
        BY <3>1, <3>2 DEF AreasArrive, rest, OfAreas
    <2>3. CASE i # 1
      <3>1. i - 1 \in 1..Len(rest) /\ rest[i - 1] = ASLine(p)
        BY <1>1, <2>1, <2>3
      <3>2. \A j \in i..Len(rest) : ~OfAreas(rest[j])
        BY <1>1, <2>1, <2>3
      <3> QED
        BY <3>1, <3>2 DEF AreasArrive, rest
    <2> QED
      BY <2>2, <2>3
  <1> QED
    BY <1>2, <1>3 DEF AreasArrive

LEMMA TriggersWhenJoined ==
  ASSUME NEW ls \in Seq(Line), NEW new \in Seq(Line), NEW c, NEW p, NEW q
  PROVE  /\ /\ TriggersArrive(ls, c, p) /\ p.triggered = q.triggered
            /\ \A i \in 1..Len(new) : new[i].cmd # "AZ"
            => TriggersArrive(ls \o new, c, q)
         /\ /\ new # <<>> /\ new[Len(new)].cmd = "AZ"
            /\ new[Len(new)].alarm_status = q.triggered
            => TriggersArrive(ls \o new, c, q)
  <1> DEFINE all == ls \o new
  <1>1. /\ Len(ls) \in Nat /\ Len(new) \in Nat /\ Len(all) = Len(ls) + Len(new)
        /\ \A i \in 1..Len(ls) : all[i] = ls[i]
        /\ \A i \in Len(ls) + 1..Len(all) :
              all[i] = new[i - Len(ls)] /\ i - Len(ls) \in 1..Len(new)
    BY Joined, LenProperties
  <1> HIDE DEF all
  <1>2. ASSUME TriggersArrive(ls, c, p), p.triggered = q.triggered,
               \A i \in 1..Len(new) : new[i].cmd # "AZ"
        PROVE  TriggersArrive(all, c, q)
    <2>1. \A j \in Len(ls) + 1..Len(all) : all[j].cmd # "AZ"
      BY <1>1, <1>2
    <2>2. CASE c.triggered = p.triggered /\ \A i \in 1..Len(ls) : ls[i].cmd # "AZ"
      <3>1. \A i \in 1..Len(all) : all[i].cmd # "AZ"
        BY <1>1, <2>1, <2>2
      <3> QED
        BY <1>2, <2>2, <3>1 DEF TriggersArrive
    <2>3. CASE \E i \in 1..Len(ls) :
                  /\ ls[i].cmd = "AZ" /\ ls[i].alarm_status = p.triggered
                  /\ \A j \in i + 1..Len(ls) : ls[j].cmd # "AZ"
      <3>1. PICK i \in 1..Len(ls) :
                  /\ ls[i].cmd = "AZ" /\ ls[i].alarm_status = p.triggered
                  /\ \A j \in i + 1..Len(ls) : ls[j].cmd # "AZ"
        BY <2>3
      <3>2. i \in 1..Len(all) /\ all[i].cmd = "AZ" /\ all[i].alarm_status = q.triggered
        BY <1>1, <1>2, <3>1
      <3>3. \A j \in i + 1..Len(all) : all[j].cmd # "AZ"
        BY <1>1, <2>1, <3>1
      <3> QED
        BY <3>2, <3>3 DEF TriggersArrive
    <2> QED
      BY <1>2, <2>2, <2>3 DEF TriggersArrive
  <1>3. ASSUME new # <<>>, new[Len(new)].cmd = "AZ", new[Len(new)].alarm_status = q.triggered
        PROVE  TriggersArrive(all, c, q)
    <2>1. /\ Len(all) \in 1..Len(all)
          /\ all[Len(all)].cmd = "AZ" /\ all[Len(all)].alarm_status = q.triggered
      BY <1>1, <1>3
    <2>2. Len(all) + 1..Len(all) = {}
      BY <1>1
    <2> QED
      BY <2>1, <2>2 DEF TriggersArrive
  <1> QED
    BY <1>2, <1>3 DEF all

LEMMA TriggersOfRest ==
  ASSUME NEW ls \in Seq(Line), ls # <<>>, NEW c, NEW d, NEW p, TriggersArrive(ls, c, p),
         \/ Head(ls).cmd # "AZ" /\ d.triggered = c.triggered
         \/ Head(ls).cmd = "AZ" /\ d.triggered = Head(ls).alarm_status
  PROVE  TriggersArrive(Tail(ls), d, p)
  <1> DEFINE rest == Tail(ls)
  <1>1. /\ Len(ls) \in Nat \ {0} /\ Len(rest) = Len(ls) - 1 /\ Head(ls) = ls[1]
        /\ \A i \in 1..Len(rest) : rest[i] = ls[i + 1]
    BY Rest
  <1> HIDE DEF rest
  <1>2. CASE c.triggered = p.triggered /\ \A i \in 1..Len(ls) : ls[i].cmd # "AZ"
    BY <1>1, <1>2 DEF TriggersArrive, rest
  <1>3. CASE \E i \in 1..Len(ls) :
                /\ ls[i].cmd = "AZ" /\ ls[i].alarm_status = p.triggered
                /\ \A j \in i + 1..Len(ls) : ls[j].cmd # "AZ"
    <2>1. PICK i \in 1..Len(ls) :
                /\ ls[i].cmd = "AZ" /\ ls[i].alarm_status = p.triggered
                /\ \A j \in i + 1..Len(ls) : ls[j].cmd # "AZ"
      BY <1>3
    <2>2. CASE i = 1
      BY <1>1, <2>1, <2>2 DEF TriggersArrive, rest
    <2>3. CASE i # 1
      <3>1. i - 1 \in 1..Len(rest) /\ rest[i - 1] = ls[i]
        BY <1>1, <2>3
      <3>2. \A j \in i..Len(rest) : rest[j].cmd # "AZ"
        BY <1>1, <2>1, <2>3
      <3> QED
        BY <2>1, <3>1, <3>2 DEF TriggersArrive, rest
    <2> QED
      BY <2>2, <2>3
  <1> QED
    BY <1>2, <1>3 DEF TriggersArrive

LEMMA AskingWhenJoined ==
  ASSUME NEW ls \in Seq(Line), NEW new \in Seq(Line), NEW c
  PROVE  /\ WillAsk(ls, c) => WillAsk(ls \o new, c)
         /\ WillAsk(new, c) => WillAsk(ls \o new, c)
         /\ Hinted(ls) \/ Hinted(new) => Hinted(ls \o new)
  <1>1. /\ Len(ls) \in Nat /\ Len(new) \in Nat /\ Len(ls \o new) = Len(ls) + Len(new)
        /\ \A i \in 1..Len(ls) : i \in 1..Len(ls \o new) /\ (ls \o new)[i] = ls[i]
        /\ \A i \in 1..Len(new) : /\ Len(ls) + i \in 1..Len(ls \o new)
                                  /\ (ls \o new)[Len(ls) + i] = new[i]
    BY Joined, LenProperties
  <1> QED
    BY <1>1 DEF WillAsk, Hinted

LEMMA AskingOfRest ==
  ASSUME NEW ls \in Seq(Line), ls # <<>>, NEW c, NEW d
  PROVE  /\ WillAsk(ls, c) /\ Head(ls).cmd # "AS" /\ d.alarm = c.alarm => WillAsk(Tail(ls), d)
         /\ /\ WillAsk(ls, c) /\ Head(ls).cmd = "AS"
            /\ ~Alarming(c.alarm) /\ ~Alarming(Head(ls).alarm_states)
            => WillAsk(Tail(ls), d)
         /\ Hinted(ls) /\ ~Hints(Head(ls)) => Hinted(Tail(ls))
  <1>1. /\ Len(ls) \in Nat \ {0} /\ Len(Tail(ls)) = Len(ls) - 1 /\ Head(ls) = ls[1]
        /\ \A i \in 1..Len(ls) : i # 1 => i - 1 \in 1..Len(Tail(ls)) /\ Tail(ls)[i - 1] = ls[i]
    BY Rest
  <1> QED
    BY <1>1 DEF WillAsk, Hinted

LEMMA AskedWhenJoined ==
  ASSUME NEW q \in Seq(Request), NEW rs \in Seq(Request), NEW cmd
  PROVE  Asked(q, cmd) \/ Asked(rs, cmd) => Asked(q \o rs, cmd)
  <1>1. /\ Len(q) \in Nat /\ Len(rs) \in Nat /\ Len(q \o rs) = Len(q) + Len(rs)
        /\ \A i \in 1..Len(q) : i \in 1..Len(q \o rs) /\ (q \o rs)[i] = q[i]
        /\ \A i \in 1..Len(rs) : /\ Len(q) + i \in 1..Len(q \o rs)
                                 /\ (q \o rs)[Len(q) + i] = rs[i]
    BY Joined, LenProperties
  <1> QED
    BY <1>1 DEF Asked

LEMMA AskedOfRest ==
  ASSUME NEW q \in Seq(Request), q # <<>>, NEW cmd, Asked(q, cmd), Head(q).cmd # cmd
  PROVE  Asked(Tail(q), cmd)
  <1>1. /\ Len(q) \in Nat \ {0} /\ Len(Tail(q)) = Len(q) - 1 /\ Head(q) = q[1]
        /\ \A i \in 1..Len(q) : i # 1 => i - 1 \in 1..Len(Tail(q)) /\ Tail(q)[i - 1] = q[i]
    BY Rest
  <1> QED
    BY <1>1 DEF Asked

-----------------------------------------------------------------------------
(* What the panel says when something happens: the new state of whatever    *)
(* changed, or a hint that makes the client ask for it.                     *)
PanelView(p) ==
    p \in View /\ \A a \in Area : Unknown \notin {p.armed[a], p.alarm[a]}

Reported(p, ls) ==
    /\ PanelView(p)
    /\ ls \in Seq(Line)
    /\ \A f \in Versioned :
          /\ VersionOf(panel, f) <= VersionOf(p, f)
          /\ \A i \in 1..Len(ls) : Brings(ls[i], f) => Brought(ls[i], f) = VersionOf(p, f)
          /\ \/ VersionOf(p, f) = VersionOf(panel, f)
             \/ \E i \in 1..Len(ls) : Brings(ls[i], f)
             \/ f[1] = "zone" /\ Hinted(ls)
    /\ \A i \in 1..Len(ls) : ls[i].cmd # "AZ"
    /\ \A z \in Zone : p.triggered[z] => p.alarm[AreaOf[z]] = "active"
    /\ \/ /\ p.armed = panel.armed /\ p.alarm = panel.alarm /\ p.triggered = panel.triggered
          /\ \A i \in 1..Len(ls) : ~OfAreas(ls[i])
       \/ /\ ls # <<>> /\ ls[Len(ls)] = ASLine(p)
          /\ p.triggered = panel.triggered \/ Alarming(p.alarm) \/ Alarming(panel.alarm)

PanelInv == PanelView(panel) /\ TriggersAlarm

LEMMA ASLineType ==
  ASSUME NEW p, PanelView(p)
  PROVE  /\ ASLine(p) \in Line /\ ASLine(p).cmd = "AS"
         /\ ASLine(p).armed_statuses = p.armed /\ ASLine(p).alarm_states = p.alarm
  <1>1. p.armed \in [Area -> {"armed", "disarmed"}]
    BY DEF PanelView, View
  <1>2. p.alarm \in [Area -> {"active", "none"}]
    BY DEF PanelView, View
  <1> QED
    BY <1>1, <1>2 DEF ASLine, Line

(* One zone, output or light changes, and a line says so.                   *)
LEMMA ZoneReported ==
  ASSUME PanelInv, NEW z \in Zone
  PROVE  LET p == [panel EXCEPT !.zone[z] = @ + 1]
         IN  Reported(p, <<[cmd |-> "ZC", index |-> z, status |-> p.zone[z]]>>)
  <1> DEFINE p == [panel EXCEPT !.zone[z] = @ + 1]
             l == [cmd |-> "ZC", index |-> z, status |-> p.zone[z]]
  <1>1. panel \in View /\ panel.zone[z] \in Nat
    BY DEF PanelInv, PanelView, View, Version
  <1>2. p \in View /\ p.zone[z] = panel.zone[z] + 1
    BY <1>1 DEF View, Version
  <1>3. p.armed = panel.armed /\ p.alarm = panel.alarm /\ p.triggered = panel.triggered
    BY <1>1 DEF View
  <1>4. l \in Line /\ l.cmd = "ZC"
    BY <1>2 DEF Line, Version, View
  <1>5. ASSUME NEW f \in Versioned
        PROVE  /\ VersionOf(panel, f) <= VersionOf(p, f)
               /\ Brings(l, f) => Brought(l, f) = VersionOf(p, f)
               /\ VersionOf(p, f) = VersionOf(panel, f) \/ Brings(l, f)
    BY <1>1, <1>2, VersionType, VersionedFields DEF VersionOf, Brings, Brought, View, Version
  <1> HIDE DEF p, l
  <1> QED
    BY <1>2, <1>3, <1>4, <1>5 DEF Reported, PanelInv, PanelView, TriggersAlarm, OfAreas, p, l

LEMMA OutputReported ==
  ASSUME PanelInv, NEW o \in Output
  PROVE  LET p == [panel EXCEPT !.output[o] = @ + 1]
         IN  Reported(p, <<[cmd |-> "CC", index |-> o, status |-> p.output[o]]>>)
  <1> DEFINE p == [panel EXCEPT !.output[o] = @ + 1]
             l == [cmd |-> "CC", index |-> o, status |-> p.output[o]]
  <1>1. panel \in View /\ panel.output[o] \in Nat
    BY DEF PanelInv, PanelView, View, Version
  <1>2. p \in View /\ p.output[o] = panel.output[o] + 1
    BY <1>1 DEF View, Version
  <1>3. p.armed = panel.armed /\ p.alarm = panel.alarm /\ p.triggered = panel.triggered
    BY <1>1 DEF View
  <1>4. l \in Line /\ l.cmd = "CC"
    BY <1>2 DEF Line, Version, View
  <1>5. ASSUME NEW f \in Versioned
        PROVE  /\ VersionOf(panel, f) <= VersionOf(p, f)
               /\ Brings(l, f) => Brought(l, f) = VersionOf(p, f)
               /\ VersionOf(p, f) = VersionOf(panel, f) \/ Brings(l, f)
    BY <1>1, <1>2, VersionType, VersionedFields DEF VersionOf, Brings, Brought, View, Version
  <1> HIDE DEF p, l
  <1> QED
    BY <1>2, <1>3, <1>4, <1>5 DEF Reported, PanelInv, PanelView, TriggersAlarm, OfAreas, p, l

LEMMA LightReported ==
  ASSUME PanelInv, NEW i \in Light
  PROVE  LET p == [panel EXCEPT !.light[i] = @ + 1]
         IN  Reported(p, <<[cmd |-> "PC", index |-> i, status |-> p.light[i]]>>)
  <1> DEFINE p == [panel EXCEPT !.light[i] = @ + 1]
             l == [cmd |-> "PC", index |-> i, status |-> p.light[i]]
  <1>1. panel \in View /\ panel.light[i] \in Nat
    BY DEF PanelInv, PanelView, View, Version
  <1>2. p \in View /\ p.light[i] = panel.light[i] + 1
    BY <1>1 DEF View, Version
  <1>3. p.armed = panel.armed /\ p.alarm = panel.alarm /\ p.triggered = panel.triggered
    BY <1>1 DEF View
  <1>4. l \in Line /\ l.cmd = "PC"
    BY <1>2 DEF Line, Version, View
  <1>5. ASSUME NEW f \in Versioned
        PROVE  /\ VersionOf(panel, f) <= VersionOf(p, f)
               /\ Brings(l, f) => Brought(l, f) = VersionOf(p, f)
               /\ VersionOf(p, f) = VersionOf(panel, f) \/ Brings(l, f)
    BY <1>1, <1>2, VersionType, VersionedFields DEF VersionOf, Brings, Brought, View, Version
  <1> HIDE DEF p, l
  <1> QED
    BY <1>2, <1>3, <1>4, <1>5 DEF Reported, PanelInv, PanelView, TriggersAlarm, OfAreas, p, l

LEMMA OneLine ==
  ASSUME NEW l \in Line
  PROVE  /\ <<l>> \in Seq(Line) /\ <<l>> # <<>> /\ Len(<<l>>) = 1 /\ <<l>>[Len(<<l>>)] = l
         /\ \A i \in 1..Len(<<l>>) : <<l>>[i] = l
  OBVIOUS

LEMMA TwoLines ==
  ASSUME NEW k \in Line, NEW l \in Line
  PROVE  /\ <<k, l>> \in Seq(Line) /\ <<k, l>> # <<>> /\ Len(<<k, l>>) = 2
         /\ <<k, l>>[Len(<<k, l>>)] = l
         /\ \A i \in 1..Len(<<k, l>>) : <<k, l>>[i] \in {k, l}
  OBVIOUS

(* An area is armed or its alarm changes: the report of the areas, sent last, *)
(* says so.                                                                *)
LEMMA AreasReported ==
  ASSUME PanelInv, NEW p, PanelView(p), NEW ls \in Seq(Line),
         p.zone = panel.zone, p.output = panel.output, p.light = panel.light,
         ls # <<>>, ls[Len(ls)] = ASLine(p), \A i \in 1..Len(ls) : OfAreas(ls[i]),
         \A z \in Zone : p.triggered[z] => p.alarm[AreaOf[z]] = "active",
         p.triggered = panel.triggered \/ Alarming(p.alarm) \/ Alarming(panel.alarm)
  PROVE  Reported(p, ls)
  <1>1. ASSUME NEW f \in Versioned
        PROVE  /\ VersionOf(panel, f) = VersionOf(p, f) /\ VersionOf(p, f) \in Nat
               /\ \A i \in 1..Len(ls) : ~Brings(ls[i], f)
    BY VersionType, VersionedFields DEF VersionOf, Brings, OfAreas, PanelView
  <1>2. \A i \in 1..Len(ls) : ls[i].cmd # "AZ"
    BY DEF OfAreas
  <1> QED
    BY <1>1, <1>2 DEF Reported

LEMMA TriggersReported ==
  ASSUME PanelInv, NEW z \in Zone
  PROVE  LET p == [panel EXCEPT !.triggered[z] = TRUE, !.alarm[AreaOf[z]] = "active"]
         IN  Reported(p, <<ASLine(p)>>)
  <1> DEFINE p == [panel EXCEPT !.triggered[z] = TRUE, !.alarm[AreaOf[z]] = "active"]
  <1>0. AreaOf[z] \in Area /\ \A y \in Zone : AreaOf[y] \in Area
    BY CachesAssumption
  <1>1. panel \in View /\ PanelView(panel)
    BY DEF PanelInv, PanelView
  <1>2. p.zone = panel.zone /\ p.output = panel.output /\ p.light = panel.light
    BY <1>1 DEF View
  <1>3. /\ p.triggered = [panel.triggered EXCEPT ![z] = TRUE]
        /\ p.alarm = [panel.alarm EXCEPT ![AreaOf[z]] = "active"] /\ p.armed = panel.armed
        /\ p \in View
    BY <1>0, <1>1 DEF View
  <1> HIDE DEF p
  <1>4. PanelView(p)
    BY <1>0, <1>1, <1>3 DEF PanelView, View, Unknown
  <1>5. p.alarm[AreaOf[z]] = "active"
    BY <1>0, <1>1, <1>3 DEF View
  <1>6. Alarming(p.alarm)
    BY <1>0, <1>5 DEF Alarming
  <1>7. \A y \in Zone : p.triggered[y] => p.alarm[AreaOf[y]] = "active"
    BY <1>0, <1>1, <1>3, <1>5 DEF PanelInv, TriggersAlarm, View
  <1>8. ASLine(p) \in Line /\ OfAreas(ASLine(p))
    BY <1>4, ASLineType DEF OfAreas
  <1>9. Reported(p, <<ASLine(p)>>)
    <2> DEFINE ls == <<ASLine(p)>>
    <2>1. /\ ls \in Seq(Line) /\ ls # <<>> /\ ls[Len(ls)] = ASLine(p)
          /\ \A i \in 1..Len(ls) : OfAreas(ls[i])
      BY <1>8, OneLine
    <2> HIDE DEF ls
    <2>2. Reported(p, ls)
      BY <1>2, <1>4, <1>6, <1>7, <2>1, AreasReported
    <2> QED
      BY <2>2 DEF ls
  <1> QED
    BY <1>9 DEF p

LEMMA AlarmEndsReported ==
  ASSUME PanelInv, NEW a \in Area
  PROVE  LET p == [panel EXCEPT !.alarm[a] = "none",
                     !.triggered = [z \in Zone |-> panel.triggered[z] /\ AreaOf[z] # a]]
         IN  Reported(p, <<ASLine(p)>>)
  <1> DEFINE p == [panel EXCEPT !.alarm[a] = "none",
                     !.triggered = [z \in Zone |-> panel.triggered[z] /\ AreaOf[z] # a]]
  <1>0. \A y \in Zone : AreaOf[y] \in Area
    BY CachesAssumption
  <1>1. panel \in View /\ PanelView(panel)
    BY DEF PanelInv, PanelView
  <1>2. p.zone = panel.zone /\ p.output = panel.output /\ p.light = panel.light
    BY <1>1 DEF View
  <1>3. /\ p.triggered = [z \in Zone |-> panel.triggered[z] /\ AreaOf[z] # a]
        /\ p.alarm = [panel.alarm EXCEPT ![a] = "none"] /\ p.armed = panel.armed
        /\ p \in View
    BY <1>0, <1>1 DEF View
  <1> HIDE DEF p
  <1>4. PanelView(p)
    BY <1>1, <1>3 DEF PanelView, View, Unknown
  <1>5. p.triggered = panel.triggered \/ Alarming(panel.alarm)
    <2>1. CASE panel.alarm[a] = "active"
      BY <2>1 DEF Alarming
    <2>2. CASE panel.alarm[a] # "active"
      <3>1. \A z \in Zone : panel.triggered[z] => AreaOf[z] # a
        BY <2>2 DEF PanelInv, TriggersAlarm
      <3>2. panel.triggered \in [Zone -> BOOLEAN]
        BY <1>1 DEF View
      <3>3. \A z \in Zone : p.triggered[z] = panel.triggered[z]
        BY <1>3, <3>1, <3>2
      <3> QED
        BY <1>3, <3>2, <3>3
    <2> QED
      BY <2>1, <2>2
  <1>7. \A y \in Zone : p.triggered[y] => p.alarm[AreaOf[y]] = "active"
    BY <1>0, <1>1, <1>3 DEF PanelInv, TriggersAlarm, View
  <1>8. ASLine(p) \in Line /\ OfAreas(ASLine(p))
    BY <1>4, ASLineType DEF OfAreas
  <1>9. Reported(p, <<ASLine(p)>>)
    <2> DEFINE ls == <<ASLine(p)>>
    <2>1. /\ ls \in Seq(Line) /\ ls # <<>> /\ ls[Len(ls)] = ASLine(p)
          /\ \A i \in 1..Len(ls) : OfAreas(ls[i])
      BY <1>8, OneLine
    <2> HIDE DEF ls
    <2>2. Reported(p, ls)
      BY <1>2, <1>4, <1>5, <1>7, <2>1, AreasReported
    <2> QED
      BY <2>2 DEF ls
  <1> QED
    BY <1>9 DEF p

LEMMA ArmingReported ==
  ASSUME PanelInv, NEW a \in Area, NEW s \in {"armed", "disarmed"}
  PROVE  LET p == [panel EXCEPT !.armed[a] = s]
         IN  /\ Reported(p, <<[cmd |-> "EE", area |-> a, armed_status |-> s], ASLine(p)>>)
             /\ Reported(p, <<ASLine(p)>>)
  <1> DEFINE p == [panel EXCEPT !.armed[a] = s]
             l == [cmd |-> "EE", area |-> a, armed_status |-> s]
  <1>1. panel \in View /\ PanelView(panel)
    BY DEF PanelInv, PanelView
  <1>2. /\ p.zone = panel.zone /\ p.output = panel.output /\ p.light = panel.light
        /\ p.triggered = panel.triggered
        /\ p.alarm = panel.alarm /\ p.armed = [panel.armed EXCEPT ![a] = s]
        /\ p \in View
    BY <1>1 DEF View
  <1>3. l \in Line /\ OfAreas(l)
    BY DEF Line, OfAreas
  <1> HIDE DEF p, l
  <1>4. PanelView(p)
    BY <1>1, <1>2 DEF PanelView, View, Unknown
  <1>5. \A y \in Zone : p.triggered[y] => p.alarm[AreaOf[y]] = "active"
    BY <1>2 DEF PanelInv, TriggersAlarm
  <1>6. ASLine(p) \in Line /\ OfAreas(ASLine(p))
    BY <1>4, ASLineType DEF OfAreas
  <1>7. Reported(p, <<ASLine(p)>>)
    <2> DEFINE ls == <<ASLine(p)>>
    <2>1. /\ ls \in Seq(Line) /\ ls # <<>> /\ ls[Len(ls)] = ASLine(p)
          /\ \A i \in 1..Len(ls) : OfAreas(ls[i])
      BY <1>6, OneLine
    <2> HIDE DEF ls
    <2>2. Reported(p, ls)
      BY <1>2, <1>4, <1>5, <2>1, AreasReported
    <2> QED
      BY <2>2 DEF ls
  <1>8. Reported(p, <<l, ASLine(p)>>)
    <2> DEFINE ls == <<l, ASLine(p)>>
    <2>1. /\ ls \in Seq(Line) /\ ls # <<>> /\ ls[Len(ls)] = ASLine(p)
          /\ \A i \in 1..Len(ls) : OfAreas(ls[i])
      BY <1>3, <1>6, TwoLines
    <2> HIDE DEF ls
    <2>2. Reported(p, ls)
      BY <1>2, <1>4, <1>5, <2>1, AreasReported
    <2> QED
      BY <2>2 DEF ls
  <1> QED
    BY <1>7, <1>8 DEF p, l

(* One zone is bypassed, or all of an area.                                 *)
LEMMA BypassReported ==
  ASSUME PanelInv, NEW n \in ZbNumbers, NEW a \in Area
  PROVE  \E p, ls : Reported(p, ls) /\ (Bypassed(n, a) => Happens(p, ls))
  <1> DEFINE zb == [cmd |-> "ZB", zone_number |-> n - 1]
  <1>0. MaxZone \in Nat /\ MaxZone < 998
    BY CachesAssumption DEF AllZones
  <1>1. zb \in Line /\ zb.cmd = "ZB" /\ zb.zone_number = n - 1 /\ n - 1 \in Int
    BY <1>0 DEF Line, ZbNumbers, AllZones
  <1>2. panel \in View /\ PanelView(panel)
    BY DEF PanelInv, PanelView
  <1>3. CASE n - 1 \in Zone
    <2> DEFINE z == n - 1
               p == [panel EXCEPT !.zone[z] = @ + 1]
               zc == [cmd |-> "ZC", index |-> z, status |-> p.zone[z]]
    <2>1. Reported(p, <<zc>>)
      BY <1>3, ZoneReported
    <2>2. Bypassed(n, a) => Happens(p, <<zb, zc>>)
      BY <1>3 DEF Bypassed
    <2>3. zc.cmd = "ZC"
      OBVIOUS
    <2> HIDE DEF z, p, zb, zc
    <2>4. zc \in Line
      <3>1. <<zc>> \in Seq(Line)
        BY <2>1 DEF Reported
      <3> QED
        BY <3>1, ElementOfSeq
    <2>5. ASSUME NEW f \in Versioned PROVE ~Brings(zb, f)
      BY <1>1 DEF Brings
    <2>6. /\ <<zb, zc>> \in Seq(Line) /\ Len(<<zb, zc>>) = 2
          /\ <<zb, zc>>[1] = zb /\ <<zb, zc>>[2] = zc
      BY <1>1, <2>4
    <2>7. /\ PanelView(p)
          /\ \A f \in Versioned :
                /\ VersionOf(panel, f) <= VersionOf(p, f)
                /\ Brings(zc, f) => Brought(zc, f) = VersionOf(p, f)
                /\ VersionOf(p, f) = VersionOf(panel, f) \/ Brings(zc, f)
      BY <2>1, <2>3 DEF Reported, Hinted, Hints
    <2>8. /\ \A y \in Zone : p.triggered[y] => p.alarm[AreaOf[y]] = "active"
          /\ p.armed = panel.armed /\ p.alarm = panel.alarm /\ p.triggered = panel.triggered
      BY <2>1, <2>3 DEF Reported, ASLine
    <2>9. Reported(p, <<zb, zc>>)
      BY <1>1, <2>3, <2>5, <2>6, <2>7, <2>8 DEF Reported, OfAreas
    <2> QED
      BY <2>2, <2>9
  <1>4. CASE n - 1 \notin Zone
    <2> DEFINE p == [panel EXCEPT !.zone =
                        [z \in Zone |-> IF AreaOf[z] = a THEN @[z] + 1 ELSE @[z]]]
    <2>1. Bypassed(n, a) => Happens(p, <<zb>>)
      BY <1>4 DEF Bypassed
    <2>2. /\ p \in View
          /\ p.zone = [z \in Zone |-> IF AreaOf[z] = a THEN panel.zone[z] + 1 ELSE panel.zone[z]]
          /\ p.output = panel.output /\ p.light = panel.light
          /\ p.armed = panel.armed /\ p.alarm = panel.alarm /\ p.triggered = panel.triggered
      BY <1>2 DEF View, Version
    <2> HIDE DEF p, zb
    <2>3. ASSUME NEW f \in Versioned
          PROVE  /\ VersionOf(panel, f) <= VersionOf(p, f)
                 /\ ~Brings(zb, f)
                 /\ VersionOf(p, f) = VersionOf(panel, f) \/ f[1] = "zone"
      <3>1. VersionOf(panel, f) \in Nat
        BY <1>2, VersionType
      <3> QED
        BY <1>1, <2>2, <3>1, VersionedFields DEF VersionOf, Brings
    <2>4. Hinted(<<zb>>)
      BY <1>1, <1>4 DEF Hinted, Hints
    <2>5. PanelView(p)
      BY <1>2, <2>2 DEF PanelView
    <2>6. Reported(p, <<zb>>)
      BY <1>1, <2>2, <2>3, <2>4, <2>5 DEF Reported, PanelInv, TriggersAlarm, OfAreas
    <2> QED
      BY <2>1, <2>6
  <1> QED
    BY <1>3, <1>4

-----------------------------------------------------------------------------
(* What happens at the panel keeps the invariant, whether the client hears  *)
(* of it or not.                                                           *)
LEMMA OrderWhenChanged ==
  ASSUME NEW f \in Versioned, NEW ls \in Seq(Line), NEW c \in Nat, NEW p \in Nat, NEW q \in Nat,
         InOrder(ls, f, c, p), p <= q
  PROVE  InOrder(ls, f, c, q)
  <1>1. \A i \in 1..Len(ls) : Brings(ls[i], f) => Brought(ls[i], f) \in Nat
    BY ElementOfSeq, BroughtType
  <1> QED
    BY <1>1 DEF InOrder

LEMMA TellsReport ==
  ASSUME NEW ls \in Seq(Line), NEW i \in 1..Len(ls)
  PROVE  /\ Told(ls[i]) \subseteq ToldBy(ls) /\ ls[i] \in Line
         /\ \A f \in Versioned : Brings(ls[i], f) => ReportOf(f) \in ToldBy(ls)
         /\ Hints(ls[i]) => Rep("ZS") \in ToldBy(ls)
         /\ ls[i].cmd = "AS" => Rep("AS") \in ToldBy(ls) /\ Rep("AZ") \in ToldBy(ls)
         /\ ls[i].cmd = "EE" => Rep("AS") \in ToldBy(ls)
         /\ ls[i].cmd = "AZ" => Rep("AZ") \in ToldBy(ls)
  <1>1. ls[i] \in Line
    BY ElementOfSeq
  <1>2. Told(ls[i]) \subseteq ToldBy(ls)
    BY DEF ToldBy
  <1>3. \A f \in Versioned : Brings(ls[i], f) => ReportOf(f) \in Told(ls[i])
    BY <1>1, BroughtType
  <1>4. /\ Hints(ls[i]) => Rep("ZS") \in Told(ls[i])
        /\ ls[i].cmd = "AS" => Rep("AS") \in Told(ls[i]) /\ Rep("AZ") \in Told(ls[i])
        /\ ls[i].cmd = "EE" => Rep("AS") \in Told(ls[i])
        /\ ls[i].cmd = "AZ" => Rep("AZ") \in Told(ls[i])
    BY DEF Hints, Told, Rep
  <1> QED
    BY <1>1, <1>2, <1>3, <1>4

LEMMA ToldType ==
  ASSUME NEW l \in Line
  PROVE  Told(l) \subseteq Report
  <1>1. ASSUME l.cmd = "PC" PROVE l.index \div BankSize \in Bank
    BY <1>1, LineFields, BankOfLight
  <1> QED
    BY <1>1, LineFields DEF Told, Report, Rep

LEMMA ReportsDiffer ==
  /\ Rep("AS") # Rep("AZ")
  /\ \A f \in Versioned : ReportOf(f) # Rep("AS") /\ ReportOf(f) # Rep("AZ")
  BY VersionedFields DEF Rep, ReportOf

(* What the panel is asked to do does not take a query from the queue.      *)
KeepsQueries ==
    \A cmd \in {"az", "zs"} : Asked(queue, cmd) => Asked(queue', cmd)

LEMMA HeardKeepsCoherent ==
  ASSUME TypeOK, Coherent, NEW p, NEW ls, Reported(p, ls), Happens(p, ls),
         open, ~programmed, cache' = cache, KeepsQueries
  PROVE  Coherent'
  <1>1. /\ panel' = p /\ line' = line \o ls
        /\ line \in Seq(Line) /\ ls \in Seq(Line)
        /\ cache \in View /\ panel \in View /\ p \in View
    BY DEF Happens, TypeOK, Reported, PanelView
  <1>2. lost' = IF ASLine(p) \notin ToSet(ls) THEN lost
                ELSE IF Rep("AS") \in lost THEN (lost \cup {Rep("AZ")}) \ {Rep("AS")} ELSE lost
    BY DEF Happens
  <1>3. \A q : q # Rep("AS") /\ q \notin lost' => q \notin lost
    BY <1>2
  <1>4. OnTime'
    <2> SUFFICES ASSUME NEW f \in Versioned
                 PROVE  InOrder(line', f, VersionOf(cache', f), VersionOf(panel', f))
      BY DEF OnTime
    <2>1. /\ VersionOf(cache, f) \in Nat /\ VersionOf(panel, f) \in Nat /\ VersionOf(p, f) \in Nat
      BY <1>1, VersionType
    <2>2. InOrder(line, f, VersionOf(cache, f), VersionOf(panel, f))
      BY DEF Coherent, OnTime
    <2>3. /\ VersionOf(panel, f) <= VersionOf(p, f)
          /\ \A i \in 1..Len(ls) : Brings(ls[i], f) => Brought(ls[i], f) = VersionOf(p, f)
      BY DEF Reported
    <2>4. InOrder(line \o ls, f, VersionOf(cache, f), VersionOf(p, f))
      BY <1>1, <2>1, <2>2, <2>3, OrderWhenJoined
    <2> QED
      BY <1>1, <2>4
  <1>5. VersionsCurrent'
    <2> SUFFICES ASSUME NEW f \in Versioned, ReportOf(f) \notin lost'
                 PROVE  \/ Arrives(line', f, VersionOf(cache', f), VersionOf(panel', f))
                        \/ f[1] = "zone" /\ (Hinted(line') \/ Asked(queue', "zs"))
      BY DEF VersionsCurrent
    <2>1. /\ VersionOf(cache, f) \in Nat /\ VersionOf(panel, f) \in Nat /\ VersionOf(p, f) \in Nat
      BY <1>1, VersionType
    <2>2. ReportOf(f) \notin lost
      BY <1>3, ReportsDiffer
    <2>3. CASE \E i \in 1..Len(ls) : Brings(ls[i], f)
      <3>1. PICK i \in 1..Len(ls) : Brings(ls[i], f)
        BY <2>3
      <3>2. Brought(ls[i], f) = VersionOf(p, f)
        BY <3>1 DEF Reported
      <3> QED
        BY <1>1, <2>1, <3>1, <3>2, ArrivesWhenJoined
    <2>4. CASE f[1] = "zone" /\ Hinted(ls)
      BY <1>1, <2>4, AskingWhenJoined
    <2>5. CASE VersionOf(p, f) = VersionOf(panel, f)
      <3>1. CASE Arrives(line, f, VersionOf(cache, f), VersionOf(panel, f))
        BY <1>1, <2>1, <2>5, <3>1, ArrivesWhenJoined
      <3>2. CASE f[1] = "zone" /\ Hinted(line)
        BY <1>1, <3>2, AskingWhenJoined
      <3>3. CASE f[1] = "zone" /\ Asked(queue, "zs")
        BY <3>3 DEF KeepsQueries
      <3> QED
        BY <2>2, <3>1, <3>2, <3>3 DEF Coherent, VersionsCurrent
    <2> QED
      BY <2>3, <2>4, <2>5 DEF Reported
  <1>6. ASSUME /\ p.armed = panel.armed /\ p.alarm = panel.alarm /\ p.triggered = panel.triggered
               /\ \A i \in 1..Len(ls) : ~OfAreas(ls[i])
        PROVE  AreasCurrent' /\ AlarmsCurrent'
    <2>1. ASLine(p) \notin ToSet(ls)
      BY <1>1, <1>6 DEF ToSet, OfAreas, ASLine
    <2>2. AreasCurrent'
      <3> SUFFICES ASSUME Rep("AS") \notin lost PROVE AreasArrive(line', cache', panel')
        BY <1>2, <2>1 DEF AreasCurrent
      <3>1. AreasArrive(line, cache, panel)
        BY DEF Coherent, AreasCurrent
      <3> QED
        BY <1>1, <1>6, <3>1, AreasWhenJoined
    <2>3. AlarmsCurrent'
      <3> SUFFICES ASSUME Rep("AZ") \notin lost
                   PROVE  \/ TriggersArrive(line', cache', panel') \/ WillAsk(line', cache')
                          \/ Asked(queue', "az")
        BY <1>2, <2>1 DEF AlarmsCurrent
      <3>1. CASE TriggersArrive(line, cache, panel)
        <4>1. \A i \in 1..Len(ls) : ls[i].cmd # "AZ"
          BY DEF Reported
        <4> QED
          BY <1>1, <1>6, <3>1, <4>1, TriggersWhenJoined
      <3>2. CASE WillAsk(line, cache)
        BY <1>1, <3>2, AskingWhenJoined
      <3>3. CASE Asked(queue, "az")
        BY <3>3 DEF KeepsQueries
      <3> QED
        BY <3>1, <3>2, <3>3 DEF Coherent, AlarmsCurrent
    <2> QED
      BY <2>2, <2>3
  <1>7. ASSUME /\ ls # <<>> /\ ls[Len(ls)] = ASLine(p)
               /\ p.triggered = panel.triggered \/ Alarming(p.alarm) \/ Alarming(panel.alarm)
        PROVE  AreasCurrent' /\ AlarmsCurrent'
    <2>1. ASLine(p) \in ToSet(ls) /\ Len(ls) \in 1..Len(ls)
      BY <1>1, <1>7 DEF ToSet
    <2>2. AreasCurrent'
      BY <1>1, <1>7, AreasWhenJoined DEF AreasCurrent
    <2>3. AlarmsCurrent'
      <3> SUFFICES ASSUME Rep("AZ") \notin lost'
                   PROVE  \/ TriggersArrive(line', cache', panel') \/ WillAsk(line', cache')
                          \/ Asked(queue', "az")
        BY DEF AlarmsCurrent
      <3>1. Rep("AZ") \notin lost /\ Rep("AS") \notin lost
        BY <1>2, <2>1, ReportsDiffer
      <3>2. /\ ls[Len(ls)].cmd = "AS" /\ ls[Len(ls)].alarm_states = p.alarm
        BY <1>7, ASLineType DEF Reported
      <3>3. CASE Alarming(p.alarm)
        <4>1. WillAsk(ls, cache)
          BY <2>1, <3>2, <3>3 DEF WillAsk
        <4> QED
          BY <1>1, <4>1, AskingWhenJoined
      <3>4. CASE Alarming(panel.alarm)
        <4>1. AreasArrive(line, cache, panel)
          BY <3>1 DEF Coherent, AreasCurrent
        <4>2. CASE cache.alarm = panel.alarm
          <5>1. WillAsk(ls, cache)
            BY <2>1, <3>2, <3>4, <4>2 DEF WillAsk
          <5> QED
            BY <1>1, <5>1, AskingWhenJoined
        <4>3. CASE \E i \in 1..Len(line) : line[i] = ASLine(panel)
          <5>1. WillAsk(line, cache)
            <6>1. PICK i \in 1..Len(line) : line[i] = ASLine(panel)
              BY <4>3
            <6>2. line[i].cmd = "AS" /\ line[i].alarm_states = panel.alarm
              BY <6>1 DEF ASLine
            <6> QED
              BY <3>4, <6>2 DEF WillAsk
          <5> QED
            BY <1>1, <5>1, AskingWhenJoined
        <4> QED
          BY <4>1, <4>2, <4>3 DEF AreasArrive
      <3>5. CASE p.triggered = panel.triggered
        <4>1. CASE TriggersArrive(line, cache, panel)
          <5>1. \A i \in 1..Len(ls) : ls[i].cmd # "AZ"
            BY DEF Reported
          <5> QED
            BY <1>1, <3>5, <4>1, <5>1, TriggersWhenJoined
        <4>2. CASE WillAsk(line, cache)
          BY <1>1, <4>2, AskingWhenJoined
        <4>3. CASE Asked(queue, "az")
          BY <4>3 DEF KeepsQueries
        <4> QED
          BY <3>1, <4>1, <4>2, <4>3 DEF Coherent, AlarmsCurrent
      <3> QED
        BY <1>7, <3>3, <3>4, <3>5
    <2> QED
      BY <2>2, <2>3
  <1>8. TriggersAlarm'
    BY <1>1 DEF TriggersAlarm, Reported
  <1>9. AreasCurrent' /\ AlarmsCurrent'
    BY <1>6, <1>7 DEF Reported
  <1> QED
    BY <1>4, <1>5, <1>8, <1>9 DEF Coherent

LEMMA UnheardKeepsCoherent ==
  ASSUME TypeOK, Coherent, NEW p, NEW ls, Reported(p, ls), Happens(p, ls),
         ~open \/ programmed, cache' = cache, KeepsQueries
  PROVE  Coherent'
  <1>1. /\ panel' = p /\ line' = line /\ lost' = lost \cup ToldBy(ls)
        /\ line \in Seq(Line) /\ ls \in Seq(Line)
        /\ cache \in View /\ panel \in View /\ p \in View
    BY DEF Happens, TypeOK, Reported, PanelView
  <1>2. OnTime'
    <2> SUFFICES ASSUME NEW f \in Versioned
                 PROVE  InOrder(line, f, VersionOf(cache, f), VersionOf(p, f))
      BY <1>1 DEF OnTime
    <2>1. /\ VersionOf(cache, f) \in Nat /\ VersionOf(panel, f) \in Nat /\ VersionOf(p, f) \in Nat
      BY <1>1, VersionType
    <2>2. InOrder(line, f, VersionOf(cache, f), VersionOf(panel, f))
      BY DEF Coherent, OnTime
    <2>3. VersionOf(panel, f) <= VersionOf(p, f)
      BY DEF Reported
    <2> QED
      BY <1>1, <2>1, <2>2, <2>3, OrderWhenChanged
  <1>3. VersionsCurrent'
    <2> SUFFICES ASSUME NEW f \in Versioned, ReportOf(f) \notin lost, ReportOf(f) \notin ToldBy(ls)
                 PROVE  \/ Arrives(line, f, VersionOf(cache, f), VersionOf(p, f))
                        \/ f[1] = "zone" /\ (Hinted(line) \/ Asked(queue', "zs"))
      BY <1>1 DEF VersionsCurrent
    <2>1. \A i \in 1..Len(ls) : ~Brings(ls[i], f)
      BY <1>1, TellsReport
    <2>2. ASSUME f[1] = "zone" PROVE ~Hinted(ls)
      <3>1. ReportOf(f) = Rep("ZS")
        BY <2>2 DEF ReportOf
      <3> QED
        BY <1>1, <3>1, TellsReport DEF Hinted
    <2>3. VersionOf(p, f) = VersionOf(panel, f)
      BY <2>1, <2>2 DEF Reported
    <2> QED
      BY <2>3 DEF Coherent, VersionsCurrent, KeepsQueries
  <1>4. ASSUME /\ p.armed = panel.armed /\ p.alarm = panel.alarm /\ p.triggered = panel.triggered
               /\ \A i \in 1..Len(ls) : ~OfAreas(ls[i])
        PROVE  AreasCurrent' /\ AlarmsCurrent'
    <2>1. ASLine(p) = ASLine(panel)
      BY <1>4 DEF ASLine
    <2>2. AreasCurrent'
      BY <1>1, <1>4, <2>1 DEF Coherent, AreasCurrent, AreasArrive
    <2>3. TriggersArrive(line, cache, panel) => TriggersArrive(line, cache, p)
      BY <1>4 DEF TriggersArrive
    <2>4. AlarmsCurrent'
      BY <1>1, <2>3 DEF Coherent, AlarmsCurrent, KeepsQueries
    <2> QED
      BY <2>2, <2>4
  <1>5. ASSUME ls # <<>> /\ ls[Len(ls)] = ASLine(p)
        PROVE  AreasCurrent' /\ AlarmsCurrent'
    <2>1. Len(ls) \in 1..Len(ls) /\ ls[Len(ls)].cmd = "AS"
      BY <1>1, <1>5, ASLineType DEF Reported
    <2>2. Rep("AS") \in lost' /\ Rep("AZ") \in lost'
      BY <1>1, <2>1, TellsReport
    <2> QED
      BY <2>2 DEF AreasCurrent, AlarmsCurrent
  <1>6. TriggersAlarm'
    BY <1>1 DEF TriggersAlarm, Reported
  <1>7. AreasCurrent' /\ AlarmsCurrent'
    BY <1>4, <1>5 DEF Reported
  <1> QED
    BY <1>2, <1>3, <1>6, <1>7 DEF Coherent

LEMMA HappensKeepsCoherent ==
  ASSUME TypeOK, Coherent, NEW p, NEW ls, Reported(p, ls), Happens(p, ls),
         cache' = cache, KeepsQueries
  PROVE  /\ Coherent' /\ PanelView(panel') /\ line' \in Seq(Line) /\ lost' \subseteq Report
         /\ \A f \in Versioned : VersionOf(panel, f) <= VersionOf(panel', f)
  <1>1. panel' = p /\ ls \in Seq(Line) /\ line \in Seq(Line) /\ lost \subseteq Report
    BY DEF Happens, Reported, TypeOK
  <1>2. line' \in Seq(Line)
    BY <1>1, Joined DEF Happens
  <1>3. ToldBy(ls) \subseteq Report
    <2>1. \A i \in 1..Len(ls) : Told(ls[i]) \subseteq Report
      BY <1>1, ElementOfSeq, ToldType
    <2> QED
      BY <1>1, <2>1 DEF ToldBy
  <1>4. Rep("AZ") \in Report
    BY DEF Rep, Report
  <1>5. lost' \subseteq Report
    BY <1>1, <1>3, <1>4 DEF Happens
  <1>6. Coherent'
    BY HeardKeepsCoherent, UnheardKeepsCoherent
  <1> QED
    BY <1>1, <1>2, <1>5, <1>6 DEF Reported

-----------------------------------------------------------------------------
(* The steps in which nothing happens at the panel. A query is kept, or its *)
(* report is known to be lost.                                             *)
QueriesKept ==
    /\ Asked(queue, "az") => Asked(queue', "az") \/ Rep("AZ") \in lost'
    /\ Asked(queue, "zs") => Asked(queue', "zs") \/ Rep("ZS") \in lost'

ZoneReport == \A f \in Versioned : f[1] = "zone" => ReportOf(f) = Rep("ZS")

LEMMA ZoneReportHolds == ZoneReport
  BY DEF ZoneReport, ReportOf

(* Nothing new is said of what the elements hold.                           *)
Notices(new) == new \in Seq(Line) /\ \A i \in 1..Len(new) : new[i].cmd \in {"RP", "IE"}

LEMMA QuietKeepsCoherent ==
  ASSUME TypeOK, Coherent, UNCHANGED <<panel, cache>>, lost \subseteq lost', QueriesKept,
         line' = line \/ \E new : Notices(new) /\ line' = line \o new
  PROVE  Coherent'
  <1>1. CASE line' = line
    <2>1. OnTime' /\ TriggersAlarm' /\ AreasCurrent'
      BY <1>1 DEF Coherent, OnTime, TriggersAlarm, AreasCurrent
    <2>2. VersionsCurrent'
      BY <1>1, ZoneReportHolds DEF Coherent, VersionsCurrent, QueriesKept, ZoneReport
    <2>3. AlarmsCurrent'
      BY <1>1 DEF Coherent, AlarmsCurrent, QueriesKept
    <2> QED
      BY <2>1, <2>2, <2>3 DEF Coherent
  <1>2. ASSUME NEW new, Notices(new), line' = line \o new PROVE Coherent'
    <2>1. /\ line \in Seq(Line) /\ new \in Seq(Line) /\ cache \in View /\ panel \in View
          /\ cache' = cache /\ panel' = panel
      BY <1>2 DEF TypeOK, Notices
    <2>2. /\ \A f \in Versioned : \A i \in 1..Len(new) : ~Brings(new[i], f)
          /\ \A i \in 1..Len(new) : ~OfAreas(new[i]) /\ new[i].cmd # "AZ"
      BY <1>2 DEF Notices, Brings, OfAreas
    <2>3. ASSUME NEW f \in Versioned
          PROVE  /\ InOrder(line', f, VersionOf(cache, f), VersionOf(panel, f))
                 /\ Arrives(line, f, VersionOf(cache, f), VersionOf(panel, f))
                       => Arrives(line', f, VersionOf(cache, f), VersionOf(panel, f))
      <3>1. VersionOf(cache, f) \in Nat /\ VersionOf(panel, f) \in Nat
        BY <2>1, VersionType
      <3>2. InOrder(line, f, VersionOf(cache, f), VersionOf(panel, f))
        BY DEF Coherent, OnTime
      <3>3. InOrder(line \o new, f, VersionOf(cache, f), VersionOf(panel, f))
        BY <2>1, <2>2, <3>1, <3>2, OrderWhenJoined
      <3> QED
        BY <1>2, <2>1, <3>1, <3>3, ArrivesWhenJoined
    <2>4. /\ Hinted(line) => Hinted(line')
          /\ WillAsk(line, cache) => WillAsk(line', cache')
      BY <1>2, <2>1, AskingWhenJoined
    <2>5. OnTime'
      BY <2>1, <2>3 DEF OnTime
    <2>6. VersionsCurrent'
      BY <2>1, <2>3, <2>4, ZoneReportHolds DEF Coherent, VersionsCurrent, QueriesKept, ZoneReport
    <2>7. AreasArrive(line, cache, panel) => AreasArrive(line', cache', panel')
      BY <1>2, <2>1, <2>2, AreasWhenJoined
    <2>8. TriggersArrive(line, cache, panel) => TriggersArrive(line', cache', panel')
      BY <1>2, <2>1, <2>2, TriggersWhenJoined
    <2>9. AreasCurrent'
      BY <2>7 DEF Coherent, AreasCurrent
    <2>10. AlarmsCurrent'
      BY <2>4, <2>8 DEF Coherent, AlarmsCurrent, QueriesKept
    <2>11. TriggersAlarm'
      BY <2>1 DEF Coherent, TriggersAlarm
    <2> QED
      BY <2>5, <2>6, <2>9, <2>10, <2>11 DEF Coherent
  <1> QED
    BY <1>1, <1>2

(* A line is handled: the elements hold what it brings, and what it hints   *)
(* at was asked for or is known to be lost.                                *)
TakesIn(l) ==
    /\ \A f \in Versioned :
          VersionOf(cache', f) = IF Brings(l, f) THEN Brought(l, f) ELSE VersionOf(cache, f)
    /\ \/ ~OfAreas(l) /\ cache'.armed = cache.armed /\ cache'.alarm = cache.alarm
       \/ l.cmd = "AS" /\ cache'.armed = l.armed_statuses /\ cache'.alarm = l.alarm_states
       \/ l.cmd = "EE" /\ cache'.alarm = cache.alarm
    /\ \/ l.cmd # "AZ" /\ cache'.triggered = cache.triggered
       \/ l.cmd = "AZ" /\ cache'.triggered = l.alarm_status
    /\ Hints(l) => Asked(queue', "zs") \/ Rep("ZS") \in lost'
    /\ l.cmd = "AS" /\ (Alarming(l.alarm_states) \/ Alarming(cache.alarm))
          => Asked(queue', "az") \/ Rep("AZ") \in lost'

LEMMA HandlingKeepsCoherent ==
  ASSUME TypeOK, Coherent, line # <<>>, line' = Tail(line), panel' = panel, lost \subseteq lost',
         QueriesKept, TakesIn(Head(line))
  PROVE  Coherent'
  <1> DEFINE l == Head(line)
  <1>1. line \in Seq(Line) /\ cache \in View /\ panel \in View /\ l \in Line
    BY Rest DEF TypeOK
  <1>2. TakesIn(l)
    OBVIOUS
  <1> HIDE DEF l
  <1>3. ASSUME NEW f \in Versioned
        PROVE  /\ InOrder(line', f, VersionOf(cache', f), VersionOf(panel, f))
               /\ Arrives(line, f, VersionOf(cache, f), VersionOf(panel, f))
                     => Arrives(line', f, VersionOf(cache', f), VersionOf(panel, f))
    <2>1. VersionOf(cache, f) \in Nat /\ VersionOf(panel, f) \in Nat
      BY <1>1, VersionType
    <2>2. InOrder(line, f, VersionOf(cache, f), VersionOf(panel, f))
      BY DEF Coherent, OnTime
    <2>3. VersionOf(cache', f) = IF Brings(l, f) THEN Brought(l, f) ELSE VersionOf(cache, f)
      BY <1>2 DEF TakesIn
    <2>4. CASE Brings(l, f)
      BY <1>1, <2>1, <2>2, <2>3, <2>4, OrderOfRest, ArrivesAtRest DEF l
    <2>5. CASE ~Brings(l, f)
      BY <1>1, <2>1, <2>2, <2>3, <2>5, OrderOfRest, ArrivesAtRest DEF l
    <2> QED
      BY <2>4, <2>5
  <1>4. OnTime'
    BY <1>3 DEF OnTime
  <1>5. VersionsCurrent'
    <2>1. Hinted(line) => Hinted(line') \/ Asked(queue', "zs") \/ Rep("ZS") \in lost'
      BY <1>1, <1>2, AskingOfRest DEF TakesIn, l
    <2> QED
      BY <1>3, <2>1, ZoneReportHolds DEF Coherent, VersionsCurrent, QueriesKept, ZoneReport
  <1>6. AreasCurrent'
    <2>1. AreasArrive(line, cache, panel) => AreasArrive(Tail(line), cache', panel)
      BY <1>1, <1>2, AreasOfRest DEF TakesIn, l
    <2> QED
      BY <2>1 DEF Coherent, AreasCurrent
  <1>7. AlarmsCurrent'
    <2>1. TriggersArrive(line, cache, panel) => TriggersArrive(Tail(line), cache', panel)
      BY <1>1, <1>2, TriggersOfRest DEF TakesIn, l
    <2>2. WillAsk(line, cache)
             => WillAsk(Tail(line), cache') \/ Asked(queue', "az") \/ Rep("AZ") \in lost'
      <3>1. CASE l.cmd # "AS"
        <4>1. cache'.alarm = cache.alarm
          BY <1>2, <3>1 DEF TakesIn, OfAreas
        <4> QED
          BY <1>1, <3>1, <4>1, AskingOfRest DEF l
      <3>2. CASE l.cmd = "AS"
        BY <1>1, <1>2, <3>2, AskingOfRest DEF TakesIn, l
      <3> QED
        BY <3>1, <3>2
    <2> QED
      BY <2>1, <2>2 DEF Coherent, AlarmsCurrent, QueriesKept
  <1>8. TriggersAlarm'
    BY DEF Coherent, TriggersAlarm
  <1> QED
    BY <1>4, <1>5, <1>6, <1>7, <1>8 DEF Coherent

(* A line is passed over.                                                  *)
LEMMA PassingKeepsCoherent ==
  ASSUME TypeOK, Coherent, line # <<>>, line' = Tail(line), lost' = lost \cup Told(Head(line)),
         UNCHANGED <<panel, cache, queue>>
  PROVE  Coherent'
  <1> DEFINE l == Head(line)
  <1>1. /\ line \in Seq(Line) /\ cache \in View /\ panel \in View /\ l \in Line
        /\ cache' = cache /\ panel' = panel /\ queue' = queue
    BY Rest DEF TypeOK
  <1>2. lost' = lost \cup Told(l)
    OBVIOUS
  <1> HIDE DEF l
  <1>3. ASSUME NEW f \in Versioned
        PROVE  /\ InOrder(line', f, VersionOf(cache, f), VersionOf(panel, f))
               /\ Arrives(line, f, VersionOf(cache, f), VersionOf(panel, f))
                     /\ ReportOf(f) \notin lost'
                     => Arrives(line', f, VersionOf(cache, f), VersionOf(panel, f))
    <2>1. VersionOf(cache, f) \in Nat /\ VersionOf(panel, f) \in Nat
      BY <1>1, VersionType
    <2>2. InOrder(line, f, VersionOf(cache, f), VersionOf(panel, f))
      BY DEF Coherent, OnTime
    <2>3. ReportOf(f) \notin lost' => ~Brings(l, f)
      BY <1>1, <1>2, BroughtType
    <2> QED
      BY <1>1, <2>1, <2>2, <2>3, OrderOfRest, ArrivesAtRest DEF l
  <1>4. OnTime'
    BY <1>1, <1>3 DEF OnTime
  <1>5. VersionsCurrent'
    <2>1. Hinted(line) => Hinted(line') \/ Rep("ZS") \in lost'
      BY <1>1, <1>2, AskingOfRest DEF Hints, Told, l
    <2> QED
      BY <1>1, <1>2, <1>3, <2>1, ZoneReportHolds DEF Coherent, VersionsCurrent, ZoneReport
  <1>6. ASSUME Rep("AS") \notin lost' PROVE AreasArrive(line', cache', panel')
    <2>1. ~OfAreas(l) /\ AreasArrive(line, cache, panel)
      BY <1>2, <1>6 DEF Coherent, AreasCurrent, OfAreas, Told
    <2> QED
      BY <1>1, <2>1, AreasOfRest DEF l
  <1>7. ASSUME Rep("AZ") \notin lost'
        PROVE  TriggersArrive(line', cache', panel') \/ WillAsk(line', cache')
                  \/ Asked(queue', "az")
    <2>1. l.cmd # "AS" /\ l.cmd # "AZ"
      BY <1>2, <1>7 DEF Told
    <2>2. TriggersArrive(line, cache, panel) \/ WillAsk(line, cache) \/ Asked(queue, "az")
      BY <1>2, <1>7 DEF Coherent, AlarmsCurrent
    <2>3. TriggersArrive(line, cache, panel) => TriggersArrive(Tail(line), cache, panel)
      BY <1>1, <2>1, TriggersOfRest DEF l
    <2>4. WillAsk(line, cache) => WillAsk(Tail(line), cache)
      BY <1>1, <2>1, AskingOfRest DEF l
    <2> QED
      BY <1>1, <2>2, <2>3, <2>4
  <1>8. TriggersAlarm'
    BY <1>1 DEF Coherent, TriggersAlarm
  <1> QED
    BY <1>4, <1>5, <1>6, <1>7, <1>8 DEF Coherent, AreasCurrent, AlarmsCurrent

(* A session ends, and what was on its way is lost.                         *)
LEMMA DroppingKeepsCoherent ==
  ASSUME TypeOK, Coherent, line' = <<>>, lost' = lost \cup ToldBy(line),
         UNCHANGED <<panel, cache, queue>>
  PROVE  Coherent'
  <1>1. /\ line \in Seq(Line) /\ cache' = cache /\ panel' = panel /\ queue' = queue
        /\ Len(line') = 0
    BY DEF TypeOK
  <1>2. OnTime'
    BY <1>1 DEF Coherent, OnTime, InOrder
  <1>3. ASSUME NEW f \in Versioned, ReportOf(f) \notin lost'
        PROVE  \/ Arrives(line', f, VersionOf(cache, f), VersionOf(panel, f))
               \/ f[1] = "zone" /\ Asked(queue, "zs")
    <2>1. /\ \A i \in 1..Len(line) : ~Brings(line[i], f)
          /\ f[1] = "zone" => ~Hinted(line)
      BY <1>1, <1>3, TellsReport, ZoneReportHolds DEF Hinted, ZoneReport
    <2> QED
      BY <1>1, <1>3, <2>1 DEF Coherent, VersionsCurrent, Arrives
  <1>4. VersionsCurrent'
    BY <1>1, <1>3 DEF VersionsCurrent
  <1>5. AreasCurrent'
    <2> SUFFICES ASSUME Rep("AS") \notin lost' PROVE AreasArrive(line', cache, panel)
      BY <1>1 DEF AreasCurrent
    <2>1. \A i \in 1..Len(line) : ~OfAreas(line[i])
      BY <1>1, TellsReport DEF OfAreas
    <2>2. AreasArrive(line, cache, panel)
      BY DEF Coherent, AreasCurrent
    <2>3. cache.armed = panel.armed /\ cache.alarm = panel.alarm
      BY <2>1, <2>2 DEF AreasArrive, OfAreas, ASLine
    <2> QED
      BY <1>1, <2>3 DEF AreasArrive
  <1>6. AlarmsCurrent'
    <2> SUFFICES ASSUME Rep("AZ") \notin lost'
                 PROVE  TriggersArrive(line', cache, panel) \/ Asked(queue, "az")
      BY <1>1 DEF AlarmsCurrent
    <2>1. \A i \in 1..Len(line) : line[i].cmd # "AZ" /\ line[i].cmd # "AS"
      BY <1>1, TellsReport
    <2>2. TriggersArrive(line, cache, panel) \/ Asked(queue, "az")
      BY <2>1 DEF Coherent, AlarmsCurrent, WillAsk
    <2>3. TriggersArrive(line, cache, panel) => cache.triggered = panel.triggered
      BY <2>1 DEF TriggersArrive
    <2> QED
      BY <1>1, <2>2, <2>3 DEF TriggersArrive
  <1>7. TriggersAlarm'
    BY <1>1 DEF Coherent, TriggersAlarm
  <1> QED
    BY <1>2, <1>4, <1>5, <1>6, <1>7 DEF Coherent

-----------------------------------------------------------------------------
(* The panel answers a query with what is the case.                        *)
AnswerTo(r, l) ==
    \/ r.cmd = "as" /\ l = ASLine(panel)
    \/ r.cmd = "az" /\ l = [cmd |-> "AZ", alarm_status |-> panel.triggered]
    \/ r.cmd = "zs" /\ l = [cmd |-> "ZS", zone_statuses |-> panel.zone]
    \/ r.cmd = "cs" /\ l = [cmd |-> "CS", output_status |-> panel.output]
    \/ r.cmd = "ps" /\ l = [cmd |-> "PS", bank |-> r.number, statuses |-> Statuses(r.number)]

LEMMA StatusesType ==
  ASSUME PanelInv, NEW b \in Bank
  PROVE  Statuses(b) \in [0..BankSize - 1 -> Nat]
  <1>1. BankSize \in Nat /\ BankSize >= 1 /\ MaxBank \in Nat /\ b \in 0..MaxBank
    BY CachesAssumption DEF Bank
  <1>2. panel.light \in [Light -> Nat]
    BY DEF PanelInv, PanelView, View, Version
  <1>3. ASSUME NEW i \in 0..BankSize - 1 PROVE b * BankSize + i \in Light
    <2>1. b * BankSize + BankSize <= (MaxBank + 1) * BankSize /\ b * BankSize >= 0
      <3>1. MaxBank - b >= 0 /\ MaxBank - b \in Nat
        BY <1>1
      <3>2. (MaxBank - b) * BankSize >= 0
        BY <1>1, <3>1, SMT
      <3>3. b * BankSize >= 0
        BY <1>1, SMT
      <3> QED
        BY <1>1, <3>2, <3>3, SMT
    <2>2. b * BankSize \in Int /\ (MaxBank + 1) * BankSize \in Int
      BY <1>1
    <2> QED
      BY <1>1, <2>1, <2>2 DEF Light
  <1> QED
    BY <1>2, <1>3 DEF Statuses

LEMMA AnswersSayWhatIs ==
  ASSUME PanelInv, NEW r \in Request, NEW l, AnswerTo(r, l)
  PROVE  /\ l \in Line /\ l.cmd \in {"AS", "AZ", "ZS", "CS", "PS"}
         /\ \A f \in Versioned : Brings(l, f) => Brought(l, f) = VersionOf(panel, f)
         /\ \A f \in Versioned : ReportOf(f) \in Told(l) => Brings(l, f)
         /\ l.cmd = "AS" => l = ASLine(panel)
         /\ l.cmd = "AZ" => l.alarm_status = panel.triggered
         /\ l.cmd = "ZS" <=> r.cmd = "zs"
         /\ l.cmd = "AZ" <=> r.cmd = "az"
  <1>1. PanelView(panel) /\ panel \in View
    BY DEF PanelInv, PanelView
  <1>2. CASE r.cmd = "as"
    BY <1>1, <1>2, ASLineType, VersionedFields DEF AnswerTo, Brings, ReportOf, Told, Rep
  <1>3. CASE r.cmd = "az"
    BY <1>1, <1>3, VersionedFields DEF AnswerTo, Brings, ReportOf, Told, Rep, Line, View
  <1>4. CASE r.cmd = "zs"
    BY <1>1, <1>4, VersionedFields
    DEF AnswerTo, Brings, Brought, ReportOf, Told, Rep, Line, View, VersionOf
  <1>5. CASE r.cmd = "cs"
    BY <1>1, <1>5, VersionedFields
    DEF AnswerTo, Brings, Brought, ReportOf, Told, Rep, Line, View, VersionOf
  <1>6. CASE r.cmd = "ps"
    <2>1. r.number \in Bank
      BY <1>6 DEF Request
    <2>2. /\ l.cmd = "PS" /\ l.bank = r.number /\ l.statuses = Statuses(r.number)
          /\ l = [cmd |-> "PS", bank |-> r.number, statuses |-> Statuses(r.number)]
      BY <1>6 DEF AnswerTo
    <2>3. l \in Line
      BY <2>1, <2>2, StatusesType DEF Line, Version
    <2>4. ASSUME NEW f \in Versioned, Brings(l, f)
          PROVE  Brought(l, f) = VersionOf(panel, f)
      <3>1. f[1] = "light" /\ f[2] \in Light /\ f[2] \in OfBank(r.number)
        BY <2>2, <2>4, VersionedFields DEF Brings
      <3>2. /\ f[2] % BankSize \in 0..BankSize - 1 /\ r.number = f[2] \div BankSize
            /\ (f[2] \div BankSize) * BankSize + (f[2] % BankSize) = f[2]
        BY <2>1, <3>1, BankOfLight
      <3>3. Statuses(r.number)[f[2] % BankSize] = panel.light[f[2]]
        BY <3>2 DEF Statuses
      <3> QED
        BY <2>2, <3>1, <3>3 DEF Brought, VersionOf
    <2>5. ASSUME NEW f \in Versioned, ReportOf(f) \in Told(l) PROVE Brings(l, f)
      <3>1. ReportOf(f) = [cmd |-> "PS", bank |-> r.number]
        BY <2>2, <2>5 DEF Told
      <3>2. f[1] = "light" /\ f[2] \in Light /\ f[2] \div BankSize = r.number
        BY <3>1, VersionedFields DEF ReportOf, Rep
      <3>3. f[2] \in OfBank(r.number)
        BY <2>1, <3>2, BankOfLight
      <3> QED
        BY <2>2, <3>2, <3>3 DEF Brings
    <2> QED
      BY <1>6, <2>2, <2>3, <2>4, <2>5
  <1> QED
    BY <1>2, <1>3, <1>4, <1>5, <1>6 DEF AnswerTo

LEMMA AnsweringKeepsCoherent ==
  ASSUME TypeOK, Coherent, queue # <<>>, queue' = Tail(queue), cache' = cache,
         NEW l, AnswerTo(Head(queue), l), Answer(l)
  PROVE  Coherent' /\ l \in Line
  <1> DEFINE r == Head(queue)
             new == <<l>>
             X == IF l.cmd = "AS" THEN {Rep("AS")} ELSE Told(l)
  <1>0. r \in Request /\ PanelInv
    BY Rest DEF TypeOK, Coherent, PanelInv, PanelView
  <1>1. /\ l \in Line /\ l.cmd \in {"AS", "AZ", "ZS", "CS", "PS"}
        /\ \A f \in Versioned : Brings(l, f) => Brought(l, f) = VersionOf(panel, f)
        /\ \A f \in Versioned : ReportOf(f) \in Told(l) => Brings(l, f)
        /\ l.cmd = "AS" => l = ASLine(panel)
        /\ l.cmd = "AZ" => l.alarm_status = panel.triggered
        /\ l.cmd = "ZS" <=> r.cmd = "zs"
        /\ l.cmd = "AZ" <=> r.cmd = "az"
    BY <1>0, AnswersSayWhatIs
  <1>2. /\ line \in Seq(Line) /\ queue \in Seq(Request) /\ cache \in View /\ panel \in View
        /\ panel' = panel /\ line' = line \o new /\ lost' = lost \ X
    BY <1>1 DEF TypeOK, Answer
  <1>3. /\ new \in Seq(Line) /\ new # <<>> /\ new[Len(new)] = l /\ Len(new) = 1
        /\ \A i \in 1..Len(new) : new[i] = l
    BY <1>1, OneLine
  <1>4. /\ Asked(queue, "zs") => Asked(queue', "zs") \/ l.cmd = "ZS"
        /\ Asked(queue, "az") => Asked(queue', "az") \/ l.cmd = "AZ"
    BY <1>1, <1>2, AskedOfRest
  <1> HIDE DEF r, new
  <1>5. ASSUME NEW f \in Versioned
        PROVE  /\ InOrder(line', f, VersionOf(cache, f), VersionOf(panel, f))
               /\ \/ Arrives(line, f, VersionOf(cache, f), VersionOf(panel, f))
                  \/ Brings(l, f)
                  => Arrives(line', f, VersionOf(cache, f), VersionOf(panel, f))
    <2>1. VersionOf(cache, f) \in Nat /\ VersionOf(panel, f) \in Nat
      BY <1>2, VersionType
    <2>2. InOrder(line, f, VersionOf(cache, f), VersionOf(panel, f))
      BY DEF Coherent, OnTime
    <2>3. \A i \in 1..Len(new) : Brings(new[i], f) => Brought(new[i], f) = VersionOf(panel, f)
      BY <1>1, <1>3
    <2>4. InOrder(line \o new, f, VersionOf(cache, f), VersionOf(panel, f))
      BY <1>2, <1>3, <2>1, <2>2, <2>3, OrderWhenJoined
    <2>5. Arrives(line, f, VersionOf(cache, f), VersionOf(panel, f))
             => Arrives(line \o new, f, VersionOf(cache, f), VersionOf(panel, f))
      BY <1>2, <1>3, <2>1, ArrivesWhenJoined
    <2>6. ASSUME Brings(l, f)
          PROVE  Arrives(line \o new, f, VersionOf(cache, f), VersionOf(panel, f))
      <3>1. 1 \in 1..Len(new) /\ new[1] = l
        BY <1>3
      <3>2. Brings(new[1], f) /\ Brought(new[1], f) = VersionOf(panel, f)
        BY <1>1, <2>6, <3>1
      <3> QED
        BY <1>2, <1>3, <2>1, <3>1, <3>2, ArrivesWhenJoined
    <2> QED
      BY <1>2, <2>4, <2>5, <2>6
  <1>6. OnTime'
    BY <1>2, <1>5 DEF OnTime
  <1>7. VersionsCurrent'
    <2> SUFFICES ASSUME NEW f \in Versioned, ReportOf(f) \notin lost'
                 PROVE  \/ Arrives(line', f, VersionOf(cache, f), VersionOf(panel, f))
                        \/ f[1] = "zone" /\ (Hinted(line') \/ Asked(queue', "zs"))
      BY <1>2 DEF VersionsCurrent
    <2>1. CASE Brings(l, f)
      BY <1>5, <2>1
    <2>2. CASE ~Brings(l, f)
      <3>1. ReportOf(f) \notin lost
        BY <1>1, <1>2, <2>2, ReportsDiffer
      <3>2. f[1] = "zone" => l.cmd # "ZS"
        BY <2>2 DEF Brings
      <3>3. Hinted(line) => Hinted(line')
        BY <1>2, <1>3, AskingWhenJoined
      <3> QED
        BY <1>4, <1>5, <3>1, <3>2, <3>3 DEF Coherent, VersionsCurrent
    <2> QED
      BY <2>1, <2>2
  <1>8. AreasCurrent'
    <2> SUFFICES ASSUME Rep("AS") \notin lost' PROVE AreasArrive(line \o new, cache, panel)
      BY <1>2 DEF AreasCurrent
    <2>1. CASE l.cmd = "AS"
      BY <1>1, <1>2, <1>3, <2>1, AreasWhenJoined
    <2>2. CASE l.cmd # "AS"
      <3>1. Rep("AS") \notin Told(l) /\ ~OfAreas(l)
        BY <1>1, <2>2 DEF Told, Rep, OfAreas
      <3>2. AreasArrive(line, cache, panel)
        BY <1>2, <2>2, <3>1 DEF Coherent, AreasCurrent
      <3>3. \A i \in 1..Len(new) : ~OfAreas(new[i])
        BY <1>3, <3>1
      <3> QED
        BY <1>2, <1>3, <3>2, <3>3, AreasWhenJoined
    <2> QED
      BY <2>1, <2>2
  <1>9. AlarmsCurrent'
    <2> SUFFICES ASSUME Rep("AZ") \notin lost'
                 PROVE  \/ TriggersArrive(line \o new, cache, panel)
                        \/ WillAsk(line \o new, cache) \/ Asked(queue', "az")
      BY <1>2 DEF AlarmsCurrent
    <2>1. CASE l.cmd = "AZ"
      BY <1>1, <1>2, <1>3, <2>1, TriggersWhenJoined
    <2>2. CASE l.cmd # "AZ"
      <3>1. l.cmd # "AS" => Rep("AZ") \notin Told(l)
        BY <1>1, <2>2 DEF Told, Rep
      <3>2. Rep("AZ") \notin lost
        BY <1>2, <3>1, ReportsDiffer
      <3>3. \A i \in 1..Len(new) : new[i].cmd # "AZ"
        BY <1>3, <2>2
      <3>4. TriggersArrive(line, cache, panel) => TriggersArrive(line \o new, cache, panel)
        BY <1>2, <1>3, <3>3, TriggersWhenJoined
      <3>5. WillAsk(line, cache) => WillAsk(line \o new, cache)
        BY <1>2, <1>3, AskingWhenJoined
      <3> QED
        BY <1>4, <2>2, <3>2, <3>4, <3>5 DEF Coherent, AlarmsCurrent
    <2> QED
      BY <2>1, <2>2
  <1>10. TriggersAlarm'
    BY <1>2 DEF Coherent, TriggersAlarm
  <1> QED
    BY <1>1, <1>6, <1>7, <1>8, <1>9, <1>10 DEF Coherent

-----------------------------------------------------------------------------
(* What the client sends.                                                  *)
LEMMA SyncType ==
  ASSUME elementList \in ElementLists
  PROVE  Sync \in Seq(Request)
  <1>1. elementList \in Seq(Kind)
    BY CachesAssumption
  <1>2. LightBanks \in Seq(Request)
    <2>1. MaxBank \in Nat /\ \A b \in 1..MaxBank + 1 : b - 1 \in Bank
      BY CachesAssumption DEF Bank
    <2>2. \A b \in 1..MaxBank + 1 : Req("ps", b - 1, 0) \in Request
      BY <2>1 DEF Req, Request
    <2>3. MaxBank + 1 \in Nat
      BY <2>1
    <2> QED
      BY <2>2, <2>3, IsASeq DEF LightBanks
  <1>3. ASSUME NEW k \in Kind PROVE KindSync(k) \in Seq(Request)
    <2>1. /\ Req("az", 0, 0) \in Request /\ Req("zs", 0, 0) \in Request
          /\ Req("as", 0, 0) \in Request /\ Req("cs", 0, 0) \in Request
      BY DEF Req, Request
    <2> QED
      BY <1>2, <2>1 DEF KindSync, Kind
  <1> DEFINE seqs == [i \in 1..Len(elementList) |-> KindSync(elementList[i])]
  <1>4. seqs \in Seq(Seq(Request))
    <2>1. Len(elementList) \in Nat /\ \A i \in 1..Len(elementList) : elementList[i] \in Kind
      BY <1>1
    <2> QED
      BY <1>3, <2>1, IsASeq
  <1> HIDE DEF seqs
  <1>5. FlattenSeq(seqs) \in Seq(Request)
    BY <1>4, FlattenSeqType
  <1> QED
    BY <1>5 DEF Sync, seqs

LEMMA SendKeeps ==
  ASSUME queue \in Seq(Request), lost \subseteq Report, NEW rs \in Seq(Request), Send(rs)
  PROVE  /\ queue' \in Seq(Request) /\ lost' \subseteq Report /\ lost \subseteq lost'
         /\ QueriesKept
         /\ Asked(rs, "az") => Asked(queue', "az") \/ Rep("AZ") \in lost'
         /\ Asked(rs, "zs") => Asked(queue', "zs") \/ Rep("ZS") \in lost'
  <1>1. Rep("AZ") \in Report /\ Rep("ZS") \in Report
    BY DEF Rep, Report
  <1>2. WantedBy(rs) \subseteq Report
    BY <1>1 DEF WantedBy, Wanted
  <1>3. CASE paused
    <2>1. queue' = queue /\ lost' = lost \cup WantedBy(rs)
      BY <1>3 DEF Send
    <2>2. \A i \in 1..Len(rs) : rs[i].cmd = "az" => Rep("AZ") \in WantedBy(rs)
      BY DEF WantedBy, Wanted, Rep
    <2>3. \A i \in 1..Len(rs) : rs[i].cmd = "zs" => Rep("ZS") \in WantedBy(rs)
      BY DEF WantedBy, Wanted, Rep
    <2> QED
      BY <1>2, <2>1, <2>2, <2>3 DEF QueriesKept, Asked
  <1>4. CASE ~paused
    <2>1. queue' = queue \o rs /\ lost' = lost
      BY <1>4 DEF Send
    <2> QED
      BY <2>1, Joined, AskedWhenJoined DEF QueriesKept
  <1> QED
    BY <1>3, <1>4

-----------------------------------------------------------------------------
(* Every step keeps the invariant.                                         *)
Inv == TypeOK /\ Coherent

LEMMA InitCoherent == Init => Inv
  <1> SUFFICES ASSUME Init PROVE Inv
    OBVIOUS
  <1>1. TypeOK
    <2>1. panel \in View /\ \A a \in Area : Unknown \notin {panel.armed[a], panel.alarm[a]}
      BY DEF Init, View, Version, Unknown
    <2>2. cache \in View
      BY DEF Init, View, Version
    <2>3. 0 \in 0..MaxChange /\ 0 \in 0..MaxTrouble
      BY CachesAssumption
    <2>4. <<>> \in Seq(Request) /\ <<>> \in Seq(Line)
      OBVIOUS
    <2>5. /\ elementList \in ElementLists /\ queue = <<>> /\ line = <<>> /\ lost = Report
          /\ programmed = FALSE /\ open = FALSE /\ paused = FALSE
          /\ changes = 0 /\ troubles = 0
      BY DEF Init
    <2>6. queue \in Seq(Request) /\ line \in Seq(Line)
      BY <2>4, <2>5
    <2> HIDE DEF Init
    <2> QED
      BY <2>1, <2>2, <2>3, <2>5, <2>6 DEF TypeOK
  <1>2. \A f \in Versioned : VersionOf(cache, f) = 0 /\ VersionOf(panel, f) = 1
    BY VersionedFields DEF Init, VersionOf
  <1>3. Len(line) = 0
    BY DEF Init
  <1>4. OnTime
    BY <1>2, <1>3 DEF OnTime, InOrder
  <1>5. \A f \in Versioned : ReportOf(f) \in Report
    BY VersionedFields, BankOfLight DEF ReportOf, Report, Rep
  <1>6. Rep("AS") \in lost /\ Rep("AZ") \in lost
    BY DEF Init, Rep, Report
  <1>7. VersionsCurrent /\ AreasCurrent /\ AlarmsCurrent
    BY <1>5, <1>6 DEF Init, VersionsCurrent, AreasCurrent, AlarmsCurrent
  <1>8. TriggersAlarm
    BY DEF Init, TriggersAlarm
  <1> QED
    BY <1>1, <1>4, <1>7, <1>8 DEF Inv, Coherent

LEMMA PanelInvHolds ==
  ASSUME Inv
  PROVE  PanelInv
  BY DEF Inv, TypeOK, Coherent, PanelInv, PanelView

(* Every change at the panel is reported.                                  *)
LEMMA ChangeIsReported ==
  ASSUME PanelInv
  PROVE  /\ \A z \in Zone : ZoneChanges(z) \/ Triggers(z)
               => \E p, ls : Reported(p, ls) /\ Happens(p, ls)
         /\ \A o \in Output : OutputChanges(o) => \E p, ls : Reported(p, ls) /\ Happens(p, ls)
         /\ \A l \in Light : LightChanges(l) => \E p, ls : Reported(p, ls) /\ Happens(p, ls)
         /\ \A a \in Area : AlarmEnds(a) \/ Armed(a) \/ Disarmed(a)
               => \E p, ls : Reported(p, ls) /\ Happens(p, ls)
         /\ \A a \in Area, n \in ZbNumbers : Bypassed(n, a)
               => \E p, ls : Reported(p, ls) /\ Happens(p, ls)
  <1>1. ASSUME NEW z \in Zone, ZoneChanges(z) PROVE \E p, ls : Reported(p, ls) /\ Happens(p, ls)
    BY <1>1, ZoneReported DEF ZoneChanges
  <1>2. ASSUME NEW z \in Zone, Triggers(z) PROVE \E p, ls : Reported(p, ls) /\ Happens(p, ls)
    BY <1>2, TriggersReported DEF Triggers
  <1>3. ASSUME NEW o \in Output, OutputChanges(o)
        PROVE  \E p, ls : Reported(p, ls) /\ Happens(p, ls)
    BY <1>3, OutputReported DEF OutputChanges
  <1>4. ASSUME NEW l \in Light, LightChanges(l)
        PROVE  \E p, ls : Reported(p, ls) /\ Happens(p, ls)
    BY <1>4, LightReported DEF LightChanges
  <1>5. ASSUME NEW a \in Area, AlarmEnds(a) PROVE \E p, ls : Reported(p, ls) /\ Happens(p, ls)
    BY <1>5, AlarmEndsReported DEF AlarmEnds
  <1>6. ASSUME NEW a \in Area, Armed(a) PROVE \E p, ls : Reported(p, ls) /\ Happens(p, ls)
    BY <1>6, ArmingReported DEF Armed
  <1>7. ASSUME NEW a \in Area, Disarmed(a) PROVE \E p, ls : Reported(p, ls) /\ Happens(p, ls)
    BY <1>7, ArmingReported DEF Disarmed
  <1> QED
    BY <1>1, <1>2, <1>3, <1>4, <1>5, <1>6, <1>7, BypassReported

LEMMA HappensKeepsInv ==
  ASSUME Inv, \E p, ls : Reported(p, ls) /\ Happens(p, ls), cache' = cache,
         KeepsQueries, queue' \in Seq(Request), changes' \in 0..MaxChange,
         UNCHANGED <<elementList, programmed, open, paused, troubles>>
  PROVE  Inv'
  <1>1. /\ Coherent' /\ PanelView(panel') /\ line' \in Seq(Line) /\ lost' \subseteq Report
    BY HappensKeepsCoherent DEF Inv
  <1> QED
    BY <1>1 DEF Inv, TypeOK, PanelView

LEMMA ChangeKeepsInv == Inv /\ Change => Inv'
  <1> SUFFICES ASSUME Inv, Change PROVE Inv'
    OBVIOUS
  <1>1. \E p, ls : Reported(p, ls) /\ Happens(p, ls)
    BY PanelInvHolds, ChangeIsReported DEF Change
  <1>2. /\ cache' = cache /\ queue' = queue /\ UNCHANGED <<elementList, programmed, open, paused, troubles>>
        /\ changes' = changes + 1 /\ changes < MaxChange
    BY DEF Change
  <1>3. KeepsQueries
    BY <1>2 DEF KeepsQueries
  <1>4. changes' \in 0..MaxChange /\ queue' \in Seq(Request)
    BY <1>2, CachesAssumption DEF Inv, TypeOK
  <1> QED
    BY <1>1, <1>2, <1>3, <1>4, HappensKeepsInv

LEMMA ProgrammingKeepsInv == Inv /\ (Program \/ ProgramDone) => Inv'
  <1> SUFFICES ASSUME Inv, Program \/ ProgramDone PROVE Inv'
    OBVIOUS
  <1> DEFINE on == [cmd |-> "RP", connected |-> TRUE]
             off == [cmd |-> "RP", connected |-> FALSE]
             ie == [cmd |-> "IE"]
  <1>1. on \in Line /\ off \in Line /\ ie \in Line
    BY DEF Line
  <1>2. Notices(<<on>>) /\ Notices(<<off>>) /\ Notices(<<off, ie>>)
    BY <1>1 DEF Notices
  <1>3. line \in Seq(Line)
    BY DEF Inv, TypeOK
  <1>4. \A l \in Line : Append(line, l) = line \o <<l>>
    BY <1>3, AppendIsConcat
  <1>5. line' = line \/ \E new : Notices(new) /\ line' = line \o new
    BY <1>1, <1>2, <1>4 DEF Program, ProgramDone, Notice
  <1>6. line' \in Seq(Line)
    BY <1>3, <1>5, Joined DEF Notices
  <1>7. /\ UNCHANGED <<elementList, panel, cache, open, paused, queue, lost, changes>>
        /\ programmed' \in BOOLEAN /\ troubles' \in 0..MaxTrouble
    <2>1. troubles \in 0..MaxTrouble /\ MaxTrouble \in Nat
      BY CachesAssumption DEF Inv, TypeOK
    <2>2. CASE Program
      BY <2>1, <2>2 DEF Program, Trouble
    <2>3. CASE ProgramDone
      BY <2>1, <2>3 DEF ProgramDone, bounds
    <2> QED
      BY <2>2, <2>3
  <1>8. TypeOK'
    BY <1>6, <1>7 DEF Inv, TypeOK
  <1>9. QueriesKept
    BY <1>7 DEF QueriesKept
  <1>10. Coherent'
    BY <1>5, <1>7, <1>9, QuietKeepsCoherent DEF Inv
  <1> QED
    BY <1>8, <1>10 DEF Inv

LEMMA SendingKeepsInv ==
  ASSUME Inv, NEW rs \in Seq(Request), Send(rs), changes' \in 0..MaxChange, open' \in BOOLEAN,
         UNCHANGED <<elementList, panel, cache, programmed, paused, line, troubles>>
  PROVE  Inv'
  <1>1. queue \in Seq(Request) /\ lost \subseteq Report
    BY DEF Inv, TypeOK
  <1>2. queue' \in Seq(Request) /\ lost' \subseteq Report /\ lost \subseteq lost' /\ QueriesKept
    BY <1>1, SendKeeps
  <1>3. TypeOK'
    BY <1>2 DEF Inv, TypeOK
  <1>4. Coherent'
    BY <1>2, QuietKeepsCoherent DEF Inv
  <1> QED
    BY <1>3, <1>4 DEF Inv

(* What the calls of the client send.                                      *)
LEMMA CallSends ==
  ASSUME Call
  PROVE  \E rs \in Seq(Request) : Send(rs)
  <1>0. MaxZone \in Nat
    BY CachesAssumption
  <1>1. ASSUME NEW r \in Request, Send(<<r>>)
        PROVE  \E rs \in Seq(Request) : Send(rs)
    <2> DEFINE one == <<r>>
    <2>1. one \in Seq(Request) /\ Send(one)
      BY <1>1
    <2> HIDE DEF one
    <2> QED
      BY <2>1
  <1>2. ASSUME NEW a \in Area, Arm(a)
        PROVE  \E rs \in Seq(Request) : Send(rs)
    <2>1. Req("arm", 0, a) \in Request
      BY DEF Req, Request
    <2>2. CASE IsArmed(a)
      <3> DEFINE none == <<>>
      <3>1. none \in Seq(Request) /\ Send(none)
        BY <1>2, <2>2 DEF Arm
      <3> HIDE DEF none
      <3> QED
        BY <3>1
    <2>3. CASE ~IsArmed(a)
      BY <1>1, <1>2, <2>1, <2>3 DEF Arm
    <2> QED
      BY <2>2, <2>3
  <1>3. /\ \A a \in Area : Req("disarm", 0, a) \in Request
        /\ \A z \in Zone : Req("zb", ZbNumber(z), 0) \in Request
        /\ \A a \in Area : Req("zb", ZbNumber(AllZones), a) \in Request
        /\ \A a \in Area : Req("zb", ZbNumber(-1), a) \in Request
        /\ \A o \in Output : Req("cn", o, 0) \in Request
        /\ \A l \in Light : Req("pc", l, 0) \in Request
    <2>1. /\ \A z \in Zone : ZbNumber(z) \in ZbNumbers
          /\ ZbNumber(AllZones) \in ZbNumbers /\ ZbNumber(-1) \in ZbNumbers
      BY <1>0, CachesAssumption DEF ZbNumber, ZbNumbers, Zone, AllZones
    <2>2. 0 \in Area
      BY CachesAssumption DEF Area
    <2> QED
      BY <2>1, <2>2 DEF Req, Request
  <1> QED
    BY <1>1, <1>2, <1>3
    DEF Call, Disarm, Bypass, BypassArea, ClearBypass, TurnOn, Level

LEMMA CallKeepsInv == Inv /\ Call => Inv'
  <1> SUFFICES ASSUME Inv, Call PROVE Inv'
    OBVIOUS
  <1>1. PICK rs \in Seq(Request) : Send(rs)
    BY CallSends
  <1>2. changes' \in 0..MaxChange /\ open' \in BOOLEAN
    BY CachesAssumption DEF Call, Inv, TypeOK
  <1>3. UNCHANGED <<elementList, panel, cache, programmed, paused, line, troubles>>
    BY DEF Call
  <1> QED
    BY <1>1, <1>2, <1>3, SendingKeepsInv

LEMMA OpenKeepsInv == Inv /\ Open => Inv'
  <1> SUFFICES ASSUME Inv, Open PROVE Inv'
    OBVIOUS
  <1>1. Sync \in Seq(Request) /\ Send(Sync)
    BY SyncType DEF Open, Inv, TypeOK
  <1>2. changes' \in 0..MaxChange /\ open' \in BOOLEAN
    BY DEF Open, Inv, TypeOK, bounds
  <1>3. UNCHANGED <<elementList, panel, cache, programmed, paused, line, troubles>>
    BY DEF Open, bounds
  <1> QED
    BY <1>1, <1>2, <1>3, SendingKeepsInv

LEMMA DropKeepsInv == Inv /\ Drop => Inv'
  <1> SUFFICES ASSUME Inv, Drop PROVE Inv'
    OBVIOUS
  <1>1. /\ line' = <<>> /\ lost' = lost \cup ToldBy(line) /\ open' = FALSE
        /\ UNCHANGED <<elementList, panel, cache, programmed, paused, queue, changes>>
        /\ troubles' = troubles + 1 /\ troubles < MaxTrouble
    BY DEF Drop, Trouble
  <1>2. line \in Seq(Line) /\ troubles \in 0..MaxTrouble /\ MaxTrouble \in Nat
    BY CachesAssumption DEF Inv, TypeOK
  <1>3. ToldBy(line) \subseteq Report
    <2>1. \A i \in 1..Len(line) : Told(line[i]) \subseteq Report
      BY <1>2, ElementOfSeq, ToldType
    <2> QED
      BY <1>2, <2>1 DEF ToldBy
  <1>4. TypeOK'
    <2>1. line' \in Seq(Line)
      BY <1>1
    <2>2. lost' \subseteq Report /\ open' \in BOOLEAN
      BY <1>1, <1>3 DEF Inv, TypeOK
    <2>3. troubles' \in 0..MaxTrouble
      BY <1>1, <1>2
    <2> QED
      BY <1>1, <2>1, <2>2, <2>3 DEF Inv, TypeOK
  <1>5. Coherent'
    BY <1>1, DroppingKeepsCoherent DEF Inv
  <1> QED
    BY <1>4, <1>5 DEF Inv

LEMMA PassOverKeepsInv == Inv /\ PassOver => Inv'
  <1> SUFFICES ASSUME Inv, PassOver PROVE Inv'
    OBVIOUS
  <1>1. /\ line # <<>> /\ line' = Tail(line) /\ lost' = lost \cup Told(Head(line))
        /\ UNCHANGED <<elementList, panel, cache, programmed, open, paused, queue, changes>>
        /\ troubles' = troubles + 1 /\ troubles < MaxTrouble
    BY DEF PassOver, Trouble
  <1>2. line \in Seq(Line) /\ troubles \in 0..MaxTrouble /\ MaxTrouble \in Nat
    BY CachesAssumption DEF Inv, TypeOK
  <1>3. line' \in Seq(Line) /\ Told(Head(line)) \subseteq Report
    BY <1>1, <1>2, Rest, ToldType
  <1>4. TypeOK'
    BY <1>1, <1>2, <1>3 DEF Inv, TypeOK
  <1>5. Coherent'
    BY <1>1, PassingKeepsCoherent DEF Inv
  <1> QED
    BY <1>4, <1>5 DEF Inv

(* What the panel does for a request that is not a query.                   *)
LEMMA ObeyReports ==
  ASSUME PanelInv, NEW r \in Request, Obey(r)
  PROVE  \/ /\ r.cmd \in {"arm", "disarm", "zb", "cn", "pc"}
            /\ \E p, ls : Reported(p, ls) /\ Happens(p, ls)
         \/ r.cmd \in {"arm", "disarm", "zb"} /\ UNCHANGED <<panel, line, lost>>
         \/ \E l : AnswerTo(r, l) /\ Answer(l)
  <1>1. CASE \/ r.cmd = "as" /\ Answer(ASLine(panel))
             \/ r.cmd = "az" /\ Answer([cmd |-> "AZ", alarm_status |-> panel.triggered])
             \/ r.cmd = "zs" /\ Answer([cmd |-> "ZS", zone_statuses |-> panel.zone])
             \/ r.cmd = "cs" /\ Answer([cmd |-> "CS", output_status |-> panel.output])
             \/ /\ r.cmd = "ps"
                /\ Answer([cmd |-> "PS", bank |-> r.number, statuses |-> Statuses(r.number)])
    BY <1>1 DEF AnswerTo
  <1>2. CASE r.cmd = "arm" /\ Armed(r.area)
    <2>1. r.area \in Area
      BY <1>2 DEF Request
    <2> QED
      BY <1>2, <2>1, ChangeIsReported
  <1>3. CASE r.cmd = "disarm" /\ Disarmed(r.area)
    <2>1. r.area \in Area
      BY <1>3 DEF Request
    <2> QED
      BY <1>3, <2>1, ChangeIsReported
  <1>4. CASE r.cmd = "zb" /\ Bypassed(r.number, r.area)
    <2>1. r.area \in Area /\ r.number \in ZbNumbers
      BY <1>4 DEF Request
    <2> QED
      BY <1>4, <2>1, ChangeIsReported
  <1>5. CASE r.cmd = "cn" /\ OutputChanges(r.number)
    <2>1. r.number \in Output
      BY <1>5 DEF Request
    <2> QED
      BY <1>5, <2>1, ChangeIsReported
  <1>6. CASE r.cmd = "pc" /\ LightChanges(r.number)
    <2>1. r.number \in Light
      BY <1>6 DEF Request
    <2> QED
      BY <1>6, <2>1, ChangeIsReported
  <1>7. CASE r.cmd \in {"arm", "disarm", "zb"} /\ UNCHANGED <<panel, line, lost>>
    BY <1>7
  <1> QED
    BY <1>1, <1>2, <1>3, <1>4, <1>5, <1>6, <1>7 DEF Obey

LEMMA WriteKeepsInv == Inv /\ Write => Inv'
  <1> SUFFICES ASSUME Inv, Write PROVE Inv'
    OBVIOUS
  <1> DEFINE r == Head(queue)
  <1>1. /\ queue # <<>> /\ queue' = Tail(queue)
        /\ UNCHANGED <<elementList, cache, programmed, open, paused, changes, troubles>>
    BY DEF Write, bounds
  <1>2. /\ queue \in Seq(Request) /\ queue' \in Seq(Request) /\ r \in Request
        /\ line \in Seq(Line) /\ lost \subseteq Report
    BY <1>1, Rest DEF Inv, TypeOK
  <1>3. \A cmd : Asked(queue, cmd) => Asked(queue', cmd) \/ r.cmd = cmd
    BY <1>1, <1>2, AskedOfRest
  <1> HIDE DEF r
  <1>4. CASE programmed
    <2>1. UNCHANGED <<panel, line>> /\ lost' = lost \cup Wanted(r)
      BY <1>4 DEF Write, r
    <2>2. Wanted(r) \subseteq Report
      BY DEF Wanted, Rep, Report
    <2>3. QueriesKept
      BY <1>3, <2>1 DEF QueriesKept, Wanted, Rep
    <2>4. Coherent'
      BY <1>1, <2>1, <2>3, QuietKeepsCoherent DEF Inv
    <2>5. TypeOK'
      BY <1>1, <1>2, <2>1, <2>2 DEF Inv, TypeOK
    <2> QED
      BY <2>4, <2>5 DEF Inv
  <1>5. CASE ~programmed
    <2>1. Obey(r)
      BY <1>5 DEF Write, r
    <2>2. CASE \E l : AnswerTo(r, l) /\ Answer(l)
      <3>1. PICK l : AnswerTo(r, l) /\ Answer(l)
        BY <2>2
      <3>2. Coherent' /\ l \in Line
        BY <1>1, <3>1, AnsweringKeepsCoherent DEF Inv, r
      <3>3. line' \in Seq(Line) /\ lost' \subseteq Report /\ panel' = panel
        BY <1>2, <3>1, <3>2 DEF Answer
      <3>4. TypeOK'
        BY <1>1, <1>2, <3>3 DEF Inv, TypeOK
      <3> QED
        BY <3>2, <3>4 DEF Inv
    <2>3. ASSUME r.cmd \in {"arm", "disarm", "zb", "cn", "pc"},
                 \E p, ls : Reported(p, ls) /\ Happens(p, ls)
          PROVE  Inv'
      <3>1. KeepsQueries
        BY <1>3, <2>3 DEF KeepsQueries
      <3>2. changes' \in 0..MaxChange
        BY <1>1 DEF Inv, TypeOK
      <3> QED
        BY <1>1, <1>2, <2>3, <3>1, <3>2, HappensKeepsInv
    <2>4. CASE r.cmd \in {"arm", "disarm", "zb"} /\ UNCHANGED <<panel, line, lost>>
      <3>1. QueriesKept
        BY <1>3, <2>4 DEF QueriesKept
      <3>2. Coherent'
        BY <1>1, <2>4, <3>1, QuietKeepsCoherent DEF Inv
      <3>3. TypeOK'
        BY <1>1, <1>2, <2>4 DEF Inv, TypeOK
      <3> QED
        BY <3>2, <3>3 DEF Inv
    <2> QED
      BY <1>2, <2>1, <2>2, <2>3, <2>4, ObeyReports, PanelInvHolds
  <1> QED
    BY <1>4, <1>5

LEMMA WriteReports ==
  ASSUME Inv, Write
  PROVE  panel' = panel \/ \E p, ls : Reported(p, ls) /\ Happens(p, ls)
  <1>1. CASE programmed
    BY <1>1 DEF Write
  <1>2. CASE ~programmed
    <2>1. Obey(Head(queue)) /\ queue # <<>>
      BY <1>2 DEF Write
    <2>2. Head(queue) \in Request
      BY <2>1, Rest DEF Inv, TypeOK
    <2> QED
      BY <2>1, <2>2, ObeyReports, PanelInvHolds DEF Answer
  <1> QED
    BY <1>1, <1>2

-----------------------------------------------------------------------------
(* The handlers. Each takes in what its line brings; those of a change      *)
(* (ZC, CC, PC) and of a report (ZS, CS, PS) send nothing.                  *)
LEMMA ChangeTakenIn ==
  ASSUME cache \in View, NEW l \in Line, HandleZC(l) \/ HandleCC(l) \/ HandlePC(l)
  PROVE  cache' \in View /\ TakesIn(l)
  <1>1. CASE HandleZC(l)
    <2>1. /\ l.cmd = "ZC" /\ l.index \in Zone /\ l.status \in Nat
          /\ cache' = [cache EXCEPT !.zone[l.index] = l.status]
      BY <1>1, LineFields DEF HandleZC
    <2>2. cache' \in View
      BY <2>1 DEF View, Version
    <2>3. \A f \in Versioned :
              VersionOf(cache', f) = IF Brings(l, f) THEN Brought(l, f) ELSE VersionOf(cache, f)
      BY <2>1, VersionedFields DEF View, VersionOf, Brings, Brought
    <2> QED
      BY <2>1, <2>2, <2>3 DEF TakesIn, OfAreas, Hints, View
  <1>2. CASE HandleCC(l)
    <2>1. /\ l.cmd = "CC" /\ l.index \in Output /\ l.status \in Nat
          /\ cache' = [cache EXCEPT !.output[l.index] = l.status]
      BY <1>2, LineFields DEF HandleCC
    <2>2. cache' \in View
      BY <2>1 DEF View, Version
    <2>3. \A f \in Versioned :
              VersionOf(cache', f) = IF Brings(l, f) THEN Brought(l, f) ELSE VersionOf(cache, f)
      BY <2>1, VersionedFields DEF View, VersionOf, Brings, Brought
    <2> QED
      BY <2>1, <2>2, <2>3 DEF TakesIn, OfAreas, Hints, View
  <1>3. CASE HandlePC(l)
    <2>1. /\ l.cmd = "PC" /\ l.index \in Light /\ l.status \in Nat
          /\ cache' = [cache EXCEPT !.light[l.index] = l.status]
      BY <1>3, LineFields DEF HandlePC
    <2>2. cache' \in View
      BY <2>1 DEF View, Version
    <2>3. \A f \in Versioned :
              VersionOf(cache', f) = IF Brings(l, f) THEN Brought(l, f) ELSE VersionOf(cache, f)
      BY <2>1, VersionedFields DEF View, VersionOf, Brings, Brought
    <2> QED
      BY <2>1, <2>2, <2>3 DEF TakesIn, OfAreas, Hints, View
  <1> QED
    BY <1>1, <1>2, <1>3

LEMMA ReportTakenIn ==
  ASSUME cache \in View, NEW l \in Line, HandleZS(l) \/ HandleCS(l) \/ HandlePS(l)
  PROVE  cache' \in View /\ TakesIn(l)
  <1>1. CASE HandleZS(l)
    <2>1. /\ l.cmd = "ZS" /\ l.zone_statuses \in [Zone -> Nat]
          /\ cache' = [cache EXCEPT !.zone = l.zone_statuses]
      BY <1>1, LineFields DEF HandleZS
    <2>2. cache' \in View
      BY <2>1 DEF View, Version
    <2>3. \A f \in Versioned :
              VersionOf(cache', f) = IF Brings(l, f) THEN Brought(l, f) ELSE VersionOf(cache, f)
      BY <2>1, VersionedFields DEF View, VersionOf, Brings, Brought
    <2> QED
      BY <2>1, <2>2, <2>3 DEF TakesIn, OfAreas, Hints, View
  <1>2. CASE HandleCS(l)
    <2>1. /\ l.cmd = "CS" /\ l.output_status \in [Output -> Nat]
          /\ cache' = [cache EXCEPT !.output = l.output_status]
      BY <1>2, LineFields DEF HandleCS
    <2>2. cache' \in View
      BY <2>1 DEF View, Version
    <2>3. \A f \in Versioned :
              VersionOf(cache', f) = IF Brings(l, f) THEN Brought(l, f) ELSE VersionOf(cache, f)
      BY <2>1, VersionedFields DEF View, VersionOf, Brings, Brought
    <2> QED
      BY <2>1, <2>2, <2>3 DEF TakesIn, OfAreas, Hints, View
  <1>3. CASE HandlePS(l)
    <2>1. /\ l.cmd = "PS" /\ l.statuses \in [0..BankSize - 1 -> Nat]
          /\ cache' = [cache EXCEPT !.light =
                [i \in Light |-> IF i \in OfBank(l.bank) THEN l.statuses[i % BankSize] ELSE @[i]]]
      BY <1>3, LineFields DEF HandlePS
    <2>2. \A i \in Light : i % BankSize \in 0..BankSize - 1
      BY BankOfLight
    <2>3. cache.light \in [Light -> Nat]
      BY DEF View, Version
    <2> DEFINE light == [i \in Light |-> IF i \in OfBank(l.bank) THEN l.statuses[i % BankSize]
                                                                 ELSE cache.light[i]]
    <2>4. cache' = [cache EXCEPT !.light = light]
      BY <2>1
    <2>5. light \in [Light -> Nat]
      <3>1. \A i \in Light : (IF i \in OfBank(l.bank) THEN l.statuses[i % BankSize]
                                                      ELSE cache.light[i]) \in Nat
        BY <2>1, <2>2, <2>3
      <3> QED
        BY <3>1
    <2>6. \A i \in Light : light[i] = IF i \in OfBank(l.bank) THEN l.statuses[i % BankSize]
                                                              ELSE cache.light[i]
      OBVIOUS
    <2> HIDE DEF light
    <2>7. cache' \in View
      BY <2>4, <2>5 DEF View, Version
    <2>8. \A f \in Versioned :
              VersionOf(cache', f) = IF Brings(l, f) THEN Brought(l, f) ELSE VersionOf(cache, f)
      <3>1. /\ cache'.zone = cache.zone /\ cache'.output = cache.output /\ cache'.light = light
        BY <2>4 DEF View
      <3>2. ASSUME NEW f \in Versioned, f[1] = "light"
            PROVE  VersionOf(cache', f) = IF Brings(l, f) THEN Brought(l, f) ELSE VersionOf(cache, f)
        <4>1. f[2] \in Light /\ (Brings(l, f) <=> f[2] \in OfBank(l.bank))
          BY <2>1, <3>2, VersionedFields DEF Brings
        <4>2. VersionOf(cache, f) = cache.light[f[2]] /\ VersionOf(cache', f) = light[f[2]]
          BY <3>1, <3>2 DEF VersionOf
        <4>3. Brought(l, f) = l.statuses[f[2] % BankSize]
          BY <2>1 DEF Brought
        <4> QED
          BY <2>6, <4>1, <4>2, <4>3
      <3>3. ASSUME NEW f \in Versioned, f[1] \in {"zone", "output"}
            PROVE  VersionOf(cache', f) = IF Brings(l, f) THEN Brought(l, f) ELSE VersionOf(cache, f)
        <4>1. ~Brings(l, f)
          BY <2>1, <3>3 DEF Brings
        <4>2. VersionOf(cache', f) = VersionOf(cache, f)
          BY <3>1, <3>3 DEF VersionOf
        <4> QED
          BY <4>1, <4>2
      <3>4. \A f \in Versioned : f[1] = "light" \/ f[1] \in {"zone", "output"}
        BY VersionedFields
      <3> QED
        BY <3>2, <3>3, <3>4
    <2>9. /\ cache'.armed = cache.armed /\ cache'.alarm = cache.alarm
          /\ cache'.triggered = cache.triggered
      BY <2>4 DEF View
    <2> QED
      BY <2>1, <2>7, <2>8, <2>9 DEF TakesIn, OfAreas, Hints
  <1> QED
    BY <1>1, <1>2, <1>3

(* Those of the areas and of the alarms of zones.                           *)
LEMMA AreasTakenIn ==
  ASSUME TypeOK, NEW l \in Line, HandleAZ(l) \/ HandleAS(l) \/ HandleEE(l)
  PROVE  /\ cache' \in View /\ TakesIn(l) /\ QueriesKept
         /\ queue' \in Seq(Request) /\ lost' \subseteq Report /\ lost \subseteq lost'
         /\ paused' = paused
  <1>1. cache \in View /\ queue \in Seq(Request) /\ lost \subseteq Report
    BY DEF TypeOK
  <1>2. ASSUME cache'.zone = cache.zone, cache'.output = cache.output, cache'.light = cache.light,
               l.cmd \in {"AZ", "AS", "EE"}
        PROVE  \A f \in Versioned :
                  VersionOf(cache', f) = IF Brings(l, f) THEN Brought(l, f) ELSE VersionOf(cache, f)
    BY <1>2, VersionedFields DEF VersionOf, Brings
  <1>3. CASE HandleAZ(l)
    <2>1. /\ l.cmd = "AZ" /\ l.alarm_status \in [Zone -> BOOLEAN]
          /\ cache' = [cache EXCEPT !.triggered = l.alarm_status]
          /\ UNCHANGED <<queue, paused, lost>>
      BY <1>3, LineFields DEF HandleAZ
    <2>2. /\ cache' \in View /\ cache'.zone = cache.zone /\ cache'.output = cache.output
          /\ cache'.light = cache.light /\ cache'.armed = cache.armed
          /\ cache'.alarm = cache.alarm /\ cache'.triggered = l.alarm_status
      BY <1>1, <2>1 DEF View
    <2>3. TakesIn(l)
      BY <1>2, <2>1, <2>2 DEF TakesIn, OfAreas, Hints
    <2> QED
      BY <1>1, <2>1, <2>2, <2>3 DEF QueriesKept
  <1>4. CASE HandleEE(l)
    <2>1. /\ l.cmd = "EE" /\ l.area \in Area /\ l.armed_status \in {"armed", "disarmed"}
          /\ cache' = [cache EXCEPT !.armed[l.area] = l.armed_status]
          /\ UNCHANGED <<queue, paused, lost>>
      BY <1>4, LineFields DEF HandleEE
    <2>2. /\ cache' \in View /\ cache'.zone = cache.zone /\ cache'.output = cache.output
          /\ cache'.light = cache.light
          /\ cache'.alarm = cache.alarm /\ cache'.triggered = cache.triggered
      BY <1>1, <2>1 DEF View
    <2>3. TakesIn(l)
      BY <1>2, <2>1, <2>2 DEF TakesIn, OfAreas, Hints
    <2> QED
      BY <1>1, <2>1, <2>2, <2>3 DEF QueriesKept
  <1>5. CASE HandleAS(l)
    <2> DEFINE rs == IF AlarmsMayDiffer(l) THEN <<AsksAlarms>> ELSE <<>>
    <2>1. /\ l.cmd = "AS" /\ l.armed_statuses \in [Area -> {"armed", "disarmed"}]
          /\ l.alarm_states \in [Area -> {"active", "none"}]
          /\ cache' = [cache EXCEPT !.armed = l.armed_statuses, !.alarm = l.alarm_states]
          /\ Send(rs) /\ paused' = paused
      BY <1>5, LineFields DEF HandleAS
    <2>2. AsksAlarms \in Request
      BY DEF AsksAlarms, Req, Request
    <2>3. rs \in Seq(Request)
      BY <2>2
    <2>4. Alarming(l.alarm_states) \/ Alarming(cache.alarm) => AlarmsMayDiffer(l)
      BY DEF Alarming, AlarmsMayDiffer
    <2>5. AlarmsMayDiffer(l) => Asked(rs, "az")
      <3>1. ASSUME AlarmsMayDiffer(l) PROVE Asked(rs, "az")
        <4>1. rs = <<AsksAlarms>>
          BY <3>1
        <4>2. 1 \in 1..Len(rs) /\ rs[1].cmd = "az"
          BY <4>1 DEF AsksAlarms, Req
        <4> HIDE DEF rs
        <4> QED
          BY <4>2 DEF Asked
      <3> QED
        BY <3>1
    <2> HIDE DEF rs
    <2>6. /\ cache' \in View /\ cache'.zone = cache.zone /\ cache'.output = cache.output
          /\ cache'.light = cache.light /\ cache'.armed = l.armed_statuses
          /\ cache'.alarm = l.alarm_states /\ cache'.triggered = cache.triggered
      BY <1>1, <2>1 DEF View
    <2>7. /\ queue' \in Seq(Request) /\ lost' \subseteq Report /\ lost \subseteq lost'
          /\ QueriesKept
          /\ Asked(rs, "az") => Asked(queue', "az") \/ Rep("AZ") \in lost'
      BY <1>1, <2>1, <2>3, SendKeeps
    <2>8. TakesIn(l)
      BY <1>2, <2>1, <2>4, <2>5, <2>6, <2>7 DEF TakesIn, Hints
    <2> QED
      BY <2>1, <2>6, <2>7, <2>8
  <1> QED
    BY <1>3, <1>4, <1>5

(* Those of the lines that say nothing of what the elements hold.           *)
LEMMA OthersTakenIn ==
  ASSUME TypeOK, NEW l \in Line, HandleZB(l) \/ HandleRP(l) \/ HandleIE(l)
  PROVE  /\ cache' \in View /\ TakesIn(l) /\ QueriesKept /\ paused' \in BOOLEAN
         /\ queue' \in Seq(Request) /\ lost' \subseteq Report /\ lost \subseteq lost'
  <1>1. /\ cache \in View /\ queue \in Seq(Request) /\ lost \subseteq Report
        /\ paused \in BOOLEAN /\ elementList \in ElementLists
    BY DEF TypeOK
  <1>2. ASSUME cache' = cache, l.cmd \in {"ZB", "RP", "IE"},
               Hints(l) => Asked(queue', "zs") \/ Rep("ZS") \in lost'
        PROVE  TakesIn(l)
    <2>1. \A f \in Versioned : ~Brings(l, f)
      BY <1>2 DEF Brings
    <2> QED
      BY <1>2, <2>1 DEF TakesIn, OfAreas
  <1>3. CASE HandleZB(l)
    <2> DEFINE rs == IF NoSingleZone(l.zone_number) THEN <<Req("zs", 0, 0)>> ELSE <<>>
    <2>1. /\ l.cmd = "ZB" /\ l.zone_number \in -1..MaxZone \cup {AllZones - 1}
          /\ Send(rs) /\ cache' = cache /\ paused' = paused
      BY <1>3, LineFields DEF HandleZB
    <2>2. Req("zs", 0, 0) \in Request
      BY DEF Req, Request
    <2>3. rs \in Seq(Request)
      BY <2>2
    <2>4. Hints(l) => NoSingleZone(l.zone_number)
      BY <2>1, CachesAssumption DEF Hints, NoSingleZone, Zone, AllZones
    <2>5. NoSingleZone(l.zone_number) => Asked(rs, "zs")
      <3>1. ASSUME NoSingleZone(l.zone_number) PROVE Asked(rs, "zs")
        <4>1. rs = <<Req("zs", 0, 0)>>
          BY <3>1
        <4>2. 1 \in 1..Len(rs) /\ rs[1].cmd = "zs"
          BY <4>1 DEF Req
        <4> HIDE DEF rs
        <4> QED
          BY <4>2 DEF Asked
      <3> QED
        BY <3>1
    <2> HIDE DEF rs
    <2>6. /\ queue' \in Seq(Request) /\ lost' \subseteq Report /\ lost \subseteq lost'
          /\ QueriesKept
          /\ Asked(rs, "zs") => Asked(queue', "zs") \/ Rep("ZS") \in lost'
      BY <1>1, <2>1, <2>3, SendKeeps
    <2> QED
      BY <1>1, <1>2, <2>1, <2>4, <2>5, <2>6
  <1>4. CASE HandleIE(l)
    <2>1. l.cmd = "IE" /\ Send(Sync) /\ cache' = cache /\ paused' = paused
      BY <1>4 DEF HandleIE
    <2>2. /\ queue' \in Seq(Request) /\ lost' \subseteq Report /\ lost \subseteq lost'
          /\ QueriesKept
      BY <1>1, <2>1, SyncType, SendKeeps
    <2>3. TakesIn(l)
      BY <1>2, <2>1 DEF Hints
    <2> QED
      BY <1>1, <2>1, <2>2, <2>3
  <1>5. CASE HandleRP(l)
    <2>1. /\ l.cmd = "RP" /\ l.connected \in BOOLEAN /\ paused' = l.connected /\ cache' = cache
          /\ queue' = IF l.connected THEN <<>> ELSE queue
          /\ lost' = IF l.connected THEN lost \cup WantedBy(queue) ELSE lost
      BY <1>5, LineFields DEF HandleRP
    <2>2. TakesIn(l)
      BY <1>2, <2>1 DEF Hints
    <2>3. WantedBy(queue) \subseteq Report
      BY DEF WantedBy, Wanted, Rep, Report
    <2>4. /\ Asked(queue, "az") => Rep("AZ") \in WantedBy(queue)
          /\ Asked(queue, "zs") => Rep("ZS") \in WantedBy(queue)
      <3>1. \A i \in 1..Len(queue) : queue[i].cmd = "az" => Rep("AZ") \in WantedBy(queue)
        BY <1>1 DEF WantedBy, Wanted, Rep
      <3>2. \A i \in 1..Len(queue) : queue[i].cmd = "zs" => Rep("ZS") \in WantedBy(queue)
        BY <1>1 DEF WantedBy, Wanted, Rep
      <3> QED
        BY <3>1, <3>2 DEF Asked
    <2>5. QueriesKept
      BY <2>1, <2>4 DEF QueriesKept
    <2>6. queue' \in Seq(Request)
      BY <1>1, <2>1
    <2> QED
      BY <1>1, <2>1, <2>2, <2>3, <2>5, <2>6
  <1> QED
    BY <1>3, <1>4, <1>5

LEMMA LineTakenIn ==
  ASSUME TypeOK, HandleLine
  PROVE  /\ cache' \in View /\ TakesIn(Head(line)) /\ QueriesKept /\ paused' \in BOOLEAN
         /\ queue' \in Seq(Request) /\ lost' \subseteq Report /\ lost \subseteq lost'
  <1> DEFINE l == Head(line)
  <1>1. /\ line # <<>>
        /\ \/ HandleZC(l) \/ HandleCC(l) \/ HandlePC(l) \/ HandleZS(l) \/ HandleCS(l)
           \/ HandlePS(l) \/ HandleAZ(l) \/ HandleAS(l) \/ HandleEE(l) \/ HandleZB(l)
           \/ HandleRP(l) \/ HandleIE(l)
    BY DEF HandleLine
  <1>2. /\ cache \in View /\ line \in Seq(Line) /\ queue \in Seq(Request)
        /\ lost \subseteq Report /\ paused \in BOOLEAN
    BY DEF TypeOK
  <1>3. l \in Line
    BY <1>1, <1>2, Rest
  <1> HIDE DEF l
  <1>4. /\ cache' \in View /\ TakesIn(l) /\ QueriesKept /\ paused' \in BOOLEAN
        /\ queue' \in Seq(Request) /\ lost' \subseteq Report /\ lost \subseteq lost'
    <2>1. CASE \/ HandleZC(l) \/ HandleCC(l) \/ HandlePC(l)
               \/ HandleZS(l) \/ HandleCS(l) \/ HandlePS(l)
      <3>1. cache' \in View /\ TakesIn(l)
        BY <1>2, <1>3, <2>1, ChangeTakenIn, ReportTakenIn
      <3>2. UNCHANGED <<queue, paused, lost>>
        BY <2>1 DEF HandleZC, HandleCC, HandlePC, HandleZS, HandleCS, HandlePS
      <3> QED
        BY <1>2, <3>1, <3>2 DEF QueriesKept
    <2>2. CASE HandleAZ(l) \/ HandleAS(l) \/ HandleEE(l)
      BY <1>2, <1>3, <2>2, AreasTakenIn
    <2>3. CASE HandleZB(l) \/ HandleRP(l) \/ HandleIE(l)
      BY <1>2, <1>3, <2>3, OthersTakenIn
    <2> QED
      BY <1>1, <2>1, <2>2, <2>3
  <1> QED
    BY <1>4 DEF l

LEMMA HandleLineKeepsInv == Inv /\ HandleLine => Inv'
  <1> SUFFICES ASSUME Inv, HandleLine PROVE Inv'
    OBVIOUS
  <1>1. /\ line # <<>> /\ line' = Tail(line)
        /\ UNCHANGED <<elementList, panel, programmed, open, changes, troubles>>
    BY DEF HandleLine, bounds
  <1>2. TypeOK /\ Coherent /\ line \in Seq(Line)
    BY DEF Inv, TypeOK
  <1>3. line' \in Seq(Line)
    BY <1>1, <1>2, Rest
  <1>4. /\ cache' \in View /\ TakesIn(Head(line)) /\ QueriesKept /\ paused' \in BOOLEAN
        /\ queue' \in Seq(Request) /\ lost' \subseteq Report /\ lost \subseteq lost'
    BY <1>2, LineTakenIn
  <1>5. TypeOK'
    BY <1>1, <1>2, <1>3, <1>4 DEF TypeOK
  <1>6. Coherent'
    BY <1>1, <1>2, <1>4, HandlingKeepsCoherent
  <1> QED
    BY <1>5, <1>6 DEF Inv

LEMMA NextKeepsInv == Inv /\ [Next]_vars => Inv'
  <1> SUFFICES ASSUME Inv, [Next]_vars PROVE Inv'
    OBVIOUS
  <1>1. CASE Panel
    BY <1>1, ChangeKeepsInv, ProgrammingKeepsInv DEF Panel
  <1>2. CASE Client
    BY <1>2, CallKeepsInv, OpenKeepsInv, DropKeepsInv, WriteKeepsInv, HandleLineKeepsInv,
       PassOverKeepsInv DEF Client
  <1>3. CASE UNCHANGED vars
    <2>1. /\ UNCHANGED <<elementList, panel, cache, programmed, open, paused, queue, line, lost>>
          /\ UNCHANGED <<changes, troubles>>
      BY <1>3 DEF vars, bounds
    <2>2. TypeOK'
      BY <2>1 DEF Inv, TypeOK
    <2>3. Coherent'
      BY <2>1 DEF Inv, Coherent, OnTime, VersionsCurrent, AreasCurrent, AlarmsCurrent, TriggersAlarm
    <2> QED
      BY <2>2, <2>3 DEF Inv
  <1> QED
    BY <1>1, <1>2, <1>3 DEF Next

-----------------------------------------------------------------------------
(* The invariant holds in every state: what the elements hold, what is on   *)
(* its way and what was asked for together say what is the case at the      *)
(* panel, but for what is known to be lost (areas.py:99-117,               *)
(* zones.py:94-130, outputs.py:43-48, lights.py:45-59).                    *)
THEOREM InvHolds == Spec => []Inv
  <1>1. Init => Inv
    BY InitCoherent
  <1>2. Inv /\ [Next]_vars => Inv'
    BY NextKeepsInv
  <1> QED
    BY <1>1, <1>2, PTL DEF Spec

(* The elements hold states of their kind, the queue requests and the line  *)
(* lines that the panel can say.                                           *)
THEOREM TypeCorrect == Spec => []TypeOK
  <1>1. Inv => TypeOK
    BY DEF Inv
  <1> QED
    BY <1>1, InvHolds, PTL

(* Nothing of a report is missing when neither a request nor a line is on   *)
(* its way.                                                                *)
LEMMA RestAgrees ==
  ASSUME Inv, queue = <<>>, line = <<>>, NEW q \in Report, q \notin lost
  PROVE  Agrees(q)
  <1>1. /\ Len(line) = 0 /\ Len(queue) = 0 /\ cache \in View /\ panel \in View
        /\ OnTime /\ VersionsCurrent /\ AreasCurrent /\ AlarmsCurrent
    BY DEF Inv, TypeOK, Coherent
  <1>2. ~Hinted(line) /\ ~Asked(queue, "zs") /\ ~Asked(queue, "az") /\ ~WillAsk(line, cache)
    BY <1>1 DEF Hinted, Asked, WillAsk
  <1>3. ASSUME NEW f \in Versioned, ReportOf(f) = q
        PROVE  cache[f[1]][f[2]] = panel[f[1]][f[2]]
    BY <1>1, <1>2, <1>3 DEF VersionsCurrent, Arrives, VersionOf
  <1>4. CASE q.cmd = "AS"
    <2>1. q = Rep("AS")
      BY <1>4 DEF Report, Rep
    <2>2. cache.armed = panel.armed /\ cache.alarm = panel.alarm
      BY <1>1, <2>1 DEF AreasCurrent, AreasArrive
    <2> QED
      BY <1>4, <2>2 DEF Agrees
  <1>5. CASE q.cmd = "AZ"
    <2>1. q = Rep("AZ")
      BY <1>5 DEF Report, Rep
    <2>2. cache.triggered = panel.triggered
      BY <1>1, <1>2, <2>1 DEF AlarmsCurrent, TriggersArrive
    <2> QED
      BY <1>5, <2>2 DEF Agrees
  <1>6. CASE q.cmd = "ZS"
    <2>1. q = Rep("ZS")
      BY <1>6 DEF Report, Rep
    <2>2. ASSUME NEW z \in Zone PROVE cache.zone[z] = panel.zone[z]
      <3> DEFINE f == <<"zone", z>>
      <3>1. f \in Versioned /\ f[1] = "zone" /\ f[2] = z
        BY DEF Versioned
      <3> HIDE DEF f
      <3>2. ReportOf(f) = q
        BY <2>1, <3>1 DEF ReportOf
      <3> QED
        BY <1>3, <3>1, <3>2
    <2>3. cache.zone \in [Zone -> Nat] /\ panel.zone \in [Zone -> Nat]
      BY <1>1 DEF View, Version
    <2>4. cache.zone = panel.zone
      BY <2>2, <2>3
    <2> QED
      BY <1>6, <2>4 DEF Agrees
  <1>7. CASE q.cmd = "CS"
    <2>1. q = Rep("CS")
      BY <1>7 DEF Report, Rep
    <2>2. ASSUME NEW o \in Output PROVE cache.output[o] = panel.output[o]
      <3> DEFINE f == <<"output", o>>
      <3>1. f \in Versioned /\ f[1] = "output" /\ f[2] = o
        BY DEF Versioned
      <3> HIDE DEF f
      <3>2. ReportOf(f) = q
        BY <2>1, <3>1 DEF ReportOf
      <3> QED
        BY <1>3, <3>1, <3>2
    <2>3. cache.output \in [Output -> Nat] /\ panel.output \in [Output -> Nat]
      BY <1>1 DEF View, Version
    <2>4. cache.output = panel.output
      BY <2>2, <2>3
    <2> QED
      BY <1>7, <2>4 DEF Agrees
  <1>8. CASE q.cmd = "PS"
    <2>1. q.bank \in Bank /\ q = [cmd |-> "PS", bank |-> q.bank]
      BY <1>8 DEF Report
    <2>2. ASSUME NEW l \in OfBank(q.bank) PROVE cache.light[l] = panel.light[l]
      <3> DEFINE f == <<"light", l>>
      <3>1. l \in Light /\ q.bank = l \div BankSize
        BY <2>1, LightOfBank
      <3>2. f \in Versioned /\ f[1] = "light" /\ f[2] = l
        BY <3>1 DEF Versioned
      <3> HIDE DEF f
      <3>3. ReportOf(f) = q
        BY <2>1, <3>1, <3>2 DEF ReportOf
      <3> QED
        BY <1>3, <3>2, <3>3
    <2> QED
      BY <1>8, <2>2 DEF Agrees
  <1>9. q.cmd \in {"AS", "AZ", "ZS", "CS", "PS"}
    BY DEF Report
  <1> QED
    BY <1>4, <1>5, <1>6, <1>7, <1>8, <1>9

(* At rest the elements hold what is the case at the panel, but for the     *)
(* reports that were lost: the hints of AS and ZB (areas.py:116,            *)
(* zones.py:106) make up for the lines that the panel does not send.        *)
THEOREM CacheAgreesAtRest == Spec => []AgreesAtRest
  <1>1. Inv => AgreesAtRest
    BY RestAgrees DEF AgreesAtRest
  <1> QED
    BY <1>1, InvHolds, PTL

(* A call of arm() that sends nothing is for an area that is itself armed   *)
(* at the panel, unless news of the areas was lost or is on its way: the    *)
(* early return of areas.py:52-56 does not eat a command that was needed.   *)
THEOREM ArmsAreHeeded == Spec => ArmIsHeeded
  <1>1. ASSUME Inv, NEW a \in Area, Arm(a), SendsNothing, ~paused, line = <<>>, Rep("AS") \notin lost
        PROVE  panel.armed[a] = "armed"
    <2>1. IsArmed(a)
      <3> SUFFICES ASSUME ~IsArmed(a) PROVE FALSE
        OBVIOUS
      <3>1. queue' = queue \o <<Req("arm", 0, a)>> /\ queue' = queue /\ queue \in Seq(Request)
        BY <1>1 DEF Arm, Send, SendsNothing, Inv, TypeOK
      <3>2. Req("arm", 0, a) \in Request
        BY DEF Req, Request
      <3>3. Len(queue \o <<Req("arm", 0, a)>>) = Len(queue) + 1 /\ Len(queue) \in Nat
        BY <3>1, <3>2
      <3> QED
        BY <3>1, <3>3
    <2>2. cache.armed = panel.armed
      <3>1. Len(line) = 0 /\ AreasArrive(line, cache, panel)
        BY <1>1 DEF Inv, Coherent, AreasCurrent
      <3> QED
        BY <3>1 DEF AreasArrive
    <2> QED
      BY <1>1, <2>1, <2>2 DEF IsArmed, Inv, TypeOK, View
  <1>2. Inv /\ [Next]_vars
           => [\A a \in Area :
                 Arm(a) /\ SendsNothing /\ ~paused /\ line = <<>> /\ Rep("AS") \notin lost
                   => panel.armed[a] = "armed"]_vars
    BY <1>1
  <1> QED
    BY <1>2, InvHolds, PTL DEF Spec, ArmIsHeeded

-----------------------------------------------------------------------------
(* The abstract specification: the panel's states only grow, and a line that *)
(* is handled takes the element to one between its own and the panel's.     *)
LEMMA VersionsType ==
  ASSUME NEW v \in View
  PROVE  /\ Versions(v) \in [Versioned -> Nat]
         /\ \A f \in Versioned : Versions(v)[f] = VersionOf(v, f)
  <1>1. \A f \in Versioned : v[f[1]][f[2]] = VersionOf(v, f)
    BY DEF VersionOf
  <1> QED
    BY <1>1, VersionType DEF Versions

LEMMA PanelGoesOn ==
  ASSUME Inv, cache' = cache, panel' = panel \/ \E p, ls : Reported(p, ls) /\ Happens(p, ls)
  PROVE  [Seen!Next]_(Seen!vars)
  <1>1. panel \in View /\ cache \in View
    BY DEF Inv, TypeOK
  <1>2. Versions(cache)' = Versions(cache)
    BY DEF Versions
  <1>3. CASE panel' = panel
    <2>1. Versions(panel)' = Versions(panel)
      BY <1>3 DEF Versions
    <2> QED
      BY <1>2, <2>1 DEF Seen!vars
  <1>4. CASE \E p, ls : Reported(p, ls) /\ Happens(p, ls)
    <2>1. /\ panel' \in View
          /\ \A f \in Versioned : VersionOf(panel, f) <= VersionOf(panel', f)
      BY <1>4 DEF Reported, Happens, PanelView
    <2>2. Versions(panel') \in [Versioned -> Nat]
      BY <2>1, VersionsType
    <2>3. \A f \in Versioned : /\ Versions(panel)[f] = VersionOf(panel, f)
                               /\ Versions(panel')[f] = VersionOf(panel', f)
                               /\ VersionOf(panel, f) \in Nat /\ VersionOf(panel', f) \in Nat
      BY <1>1, <2>1, VersionsType, VersionType
    <2>4. \A f \in Versioned : Versions(panel')[f] >= Versions(panel)[f]
      BY <2>1, <2>3
    <2>5. Seen!Change
      BY <1>2, <2>2, <2>4 DEF Seen!Change
    <2> QED
      BY <2>5 DEF Seen!Next
  <1> QED
    BY <1>3, <1>4

LEMMA ClientLearns ==
  ASSUME Inv, HandleLine
  PROVE  [Seen!Next]_(Seen!vars)
  <1> DEFINE l == Head(line)
  <1>1. /\ panel \in View /\ cache \in View /\ cache' \in View /\ panel' = panel
        /\ TakesIn(l) /\ line # <<>> /\ line \in Seq(Line)
    BY LineTakenIn DEF HandleLine, Inv, TypeOK
  <1>2. l = line[1] /\ 1 \in 1..Len(line) /\ l \in Line
    BY <1>1, Rest
  <1> HIDE DEF l
  <1>3. ASSUME NEW f \in Versioned
        PROVE  /\ Versions(cache)[f] <= Versions(cache')[f]
               /\ Versions(cache')[f] <= Versions(panel)[f]
    <2>1. /\ Versions(cache)[f] = VersionOf(cache, f) /\ VersionOf(cache, f) \in Nat
          /\ Versions(panel)[f] = VersionOf(panel, f) /\ VersionOf(panel, f) \in Nat
          /\ Versions(cache')[f] = VersionOf(cache', f)
      BY <1>1, VersionsType, VersionType
    <2>2. VersionOf(cache', f) = IF Brings(l, f) THEN Brought(l, f) ELSE VersionOf(cache, f)
      BY <1>1 DEF TakesIn
    <2>3. InOrder(line, f, VersionOf(cache, f), VersionOf(panel, f))
      BY DEF Inv, Coherent, OnTime
    <2>4. VersionOf(cache, f) <= VersionOf(panel, f)
      BY <2>3 DEF InOrder
    <2>5. Brings(l, f) => /\ VersionOf(cache, f) <= Brought(l, f)
                          /\ Brought(l, f) <= VersionOf(panel, f)
      BY <1>2, <2>3 DEF InOrder
    <2> QED
      BY <2>1, <2>2, <2>4, <2>5
  <1>4. Versions(cache') \in [Versioned -> Nat]
    BY <1>1, VersionsType
  <1>5. Versions(panel)' = Versions(panel)
    BY <1>1 DEF Versions
  <1>6. Seen!Learn
    BY <1>3, <1>4, <1>5 DEF Seen!Learn
  <1> QED
    BY <1>6 DEF Seen!Next

(* What the elements hold goes through states of the panel, and never back: *)
(* the connection implements Mirror (zones.py:109-130, outputs.py:43-48,   *)
(* lights.py:45-59).                                                       *)
THEOREM NeverGoesBack == Spec => NeverBack
  <1>1. Init => Seen!Init
    <2> SUFFICES ASSUME Init PROVE Seen!Init
      OBVIOUS
    <2>1. panel \in View /\ cache \in View
      BY InitCoherent DEF Inv, TypeOK
    <2>2. Versions(panel) \in [Versioned -> Nat] /\ Versions(cache) \in [Versioned -> Nat]
      BY <2>1, VersionsType
    <2>3. \A f \in Versioned : Versions(cache)[f] = 0
      BY VersionedFields DEF Init, Versions
    <2> QED
      BY <2>2, <2>3 DEF Seen!Init
  <1>2. Inv /\ [Next]_vars => [Seen!Next]_(Seen!vars)
    <2> SUFFICES ASSUME Inv, [Next]_vars PROVE [Seen!Next]_(Seen!vars)
      OBVIOUS
    <2>1. CASE Change
      <3>1. cache' = cache /\ \E p, ls : Reported(p, ls) /\ Happens(p, ls)
        BY <2>1, PanelInvHolds, ChangeIsReported DEF Change
      <3> QED
        BY <3>1, PanelGoesOn
    <2>2. CASE Write
      <3>1. cache' = cache
        BY <2>2 DEF Write
      <3> QED
        BY <2>2, <3>1, PanelGoesOn, WriteReports
    <2>3. CASE HandleLine
      BY <2>3, ClientLearns
    <2>4. CASE Program \/ ProgramDone \/ Call \/ Open \/ Drop \/ PassOver \/ UNCHANGED vars
      <3>1. cache' = cache /\ panel' = panel
        BY <2>4 DEF Program, ProgramDone, Call, Open, Drop, PassOver, vars
      <3> QED
        BY <3>1, PanelGoesOn
    <2> QED
      BY <2>1, <2>2, <2>3, <2>4 DEF Next, Panel, Client
  <1> QED
    BY <1>1, <1>2, InvHolds, PTL DEF Spec, NeverBack, Seen!Spec
=============================================================================
