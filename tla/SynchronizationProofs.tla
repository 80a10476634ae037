----------------------- MODULE SynchronizationProofs -----------------------
(***************************************************************************)
(* What holds of a synchronisation for every list of kinds, every set of    *)
(* descriptions at the panel and any number of sessions and disturbances.   *)
(***************************************************************************)
EXTENDS Synchronization, SequenceLemmas

-----------------------------------------------------------------------------
(* Types.                                                                  *)
LEMMA JoinedType ==
  ASSUME NEW S, NEW s \in Seq(S), NEW t \in Seq(S)
  PROVE  s \o t \in Seq(S)
  OBVIOUS

LEMMA RestType ==
  ASSUME NEW S, NEW s \in Seq(S), s # <<>>
  PROVE  Head(s) \in S /\ Tail(s) \in Seq(S)
  OBVIOUS

LEMMA UnitBounds == MaxUnit \in Nat /\ 0 \in Unit /\ NoUnit \notin Unit
  BY SynchronizationAssumption DEF Unit, NoUnit

LEMMA KindsType ==
  /\ Order \in Seq(Kind) /\ Len(Order) \in Nat
  /\ ToSet(Order) = {Order[i] : i \in 1..Len(Order)} /\ ToSet(Order) \subseteq Kind
  <1>1. Order \in Seq(Kind)
    BY SynchronizationAssumption
  <1>2. Len(Order) \in Nat /\ DOMAIN Order = 1..Len(Order) /\ \A i \in 1..Len(Order) : Order[i] \in Kind
    BY <1>1
  <1> QED
    BY <1>1, <1>2 DEF ToSet

(* The requests of the kinds, before the marker.                            *)
OfKinds == FlattenSeq([i \in 1..Len(Order) |-> KindSync(Order[i])])
KindRequest == [what : {"status", "sd"}, kind : Kind, unit : {0}]

LEMMA KindSyncsType == [i \in 1..Len(Order) |-> KindSync(Order[i])] \in Seq(Seq(KindRequest))
  <1>1. ASSUME NEW k \in Kind PROVE KindSync(k) \in Seq(KindRequest)
    <2>1. Req("status", k, 0) \in KindRequest /\ Req("sd", k, 0) \in KindRequest
      BY DEF Req, KindRequest
    <2> QED
      BY <2>1 DEF KindSync
  <1>2. \A i \in 1..Len(Order) : Order[i] \in Kind
    BY KindsType
  <1> QED
    BY <1>1, <1>2, KindsType, IsASeq

LEMMA OfKindsType == OfKinds \in Seq(KindRequest)
  <1> DEFINE seqs == [i \in 1..Len(Order) |-> KindSync(Order[i])]
  <1>1. seqs \in Seq(Seq(KindRequest))
    BY KindSyncsType
  <1> HIDE DEF seqs
  <1>2. FlattenSeq(seqs) \in Seq(KindRequest)
    BY <1>1, FlattenSeqType
  <1> QED
    BY <1>2 DEF OfKinds, seqs

LEMMA KindIsAsked ==
  ASSUME NEW k \in ToSet(Order)
  PROVE  \E p \in 1..Len(OfKinds) : OfKinds[p] = Req("sd", k, 0)
  <1> DEFINE seqs == [i \in 1..Len(Order) |-> KindSync(Order[i])]
  <1>1. PICK i \in 1..Len(Order) : Order[i] = k
    BY KindsType
  <1>2. seqs \in Seq(Seq(KindRequest)) /\ Len(seqs) = Len(Order)
    BY KindSyncsType, KindsType
  <1>3. seqs[i] = KindSync(k)
    BY <1>1
  <1>4. PICK j \in 1..Len(KindSync(k)) : KindSync(k)[j] = Req("sd", k, 0)
    <2> DEFINE sd == <<Req("sd", k, 0)>>
    <2>1. CASE k \in Stateful
      <3>1. KindSync(k) = <<Req("status", k, 0)>> \o sd
        BY <2>1 DEF KindSync
      <3>2. Len(KindSync(k)) = 2 /\ KindSync(k)[2] = Req("sd", k, 0)
        BY <3>1
      <3> QED
        BY <3>2
    <2>2. CASE k \notin Stateful
      <3>1. KindSync(k) = <<>> \o sd
        BY <2>2 DEF KindSync
      <3>2. Len(KindSync(k)) = 1 /\ KindSync(k)[1] = Req("sd", k, 0)
        BY <3>1
      <3> QED
        BY <3>2
    <2> QED
      BY <2>1, <2>2
  <1> HIDE DEF seqs
  <1>5. i \in 1..Len(seqs) /\ j \in 1..Len(seqs[i]) /\ seqs[i][j] = Req("sd", k, 0)
    BY <1>2, <1>3, <1>4
  <1>6. \E p \in 1..Len(FlattenSeq(seqs)) : FlattenSeq(seqs)[p] = seqs[i][j]
    BY <1>2, <1>5, FlattenSeqContains
  <1> QED
    BY <1>5, <1>6 DEF OfKinds, seqs

LEMMA RequestTypes ==
  /\ KindRequest \subseteq Request
  /\ \A what \in {"userid", "password", "vn", "ua", "status"} : Req(what, NoKind, 0) \in Request
  /\ \A k \in Kind, u \in 0..MaxUnit + 1 : Req("sd", k, u) \in Request
  /\ \A k \in Kind, u \in Unit : Req("value", k, u) \in Request
  <1>1. 0 \in 0..MaxUnit + 1
    BY UnitBounds
  <1> QED
    BY <1>1 DEF KindRequest, Request, Req

LEMMA SyncType == Sync \in Seq(Request) /\ Credentials \in Seq(Request)
  <1>1. OfKinds \in Seq(Request)
    BY OfKindsType, RequestTypes
  <1> DEFINE first == <<Req("vn", NoKind, 0), Req("status", NoKind, 0)>>
             last == <<Req("ua", NoKind, 0)>>
  <1>2. first \in Seq(Request) /\ last \in Seq(Request)
    BY RequestTypes
  <1>3. Credentials \in Seq(Request)
    BY RequestTypes DEF Credentials
  <1>4. Sync = first \o OfKinds \o last
    BY DEF Sync, OfKinds
  <1> HIDE DEF first, last
  <1>5. Sync \in Seq(Request)
    BY <1>1, <1>2, <1>4, JoinedType
  <1> QED
    BY <1>3, <1>5

LEMMA QueuedType ==
  ASSUME NEW q \in Seq(Request), NEW es \in Seq(Request)
  PROVE  Queued(q, es) \in Seq(Request) /\ QueuedFirst(q, es) \in Seq(Request)
  BY JoinedType DEF Queued, QueuedFirst

LEMMA FirstFoundType ==
  ASSUME NEW k, NEW u \in Nat
  PROVE  /\ FirstFound(k, u) \in Unit \cup {NoUnit}
         /\ FirstFound(k, u) # NoUnit => /\ FirstFound(k, u) \in Found(k, u)
                                         /\ \A w \in Found(k, u) : FirstFound(k, u) <= w
         /\ FirstFound(k, u) = NoUnit => Found(k, u) = {}
  <1>1. Found(k, u) \subseteq Unit /\ Unit \subseteq Nat
    BY UnitBounds DEF Found, Unit
  <1>2. CASE Found(k, u) = {}
    BY <1>2, UnitBounds DEF FirstFound
  <1>3. CASE Found(k, u) # {}
    <2>1. \E v \in Found(k, u) : \A w \in Found(k, u) : v <= w
      BY <1>1, <1>3, LeastNumber
    <2>2. FirstFound(k, u) \in Found(k, u) /\ \A w \in Found(k, u) : FirstFound(k, u) <= w
      BY <1>3, <2>1 DEF FirstFound
    <2> QED
      BY <1>1, <2>2, UnitBounds
  <1> QED
    BY <1>2, <1>3

LEMMA ReplyType ==
  ASSUME NEW r \in Request, r.what # "userid", edition \in 1..MaxExit + 1, NEW l \in Reply(r)
  PROVE  l \in Line
  <1>1. edition \in 0..MaxExit + 1 /\ 0 \in Unit
    BY SynchronizationAssumption, UnitBounds
  <1>2. r.kind \in Kind \cup {NoKind} /\ r.unit \in Nat
    BY UnitBounds DEF Request, Unit
  <1>3. CASE r.what = "sd"
    <2>1. l = [what |-> "sd", kind |-> r.kind, unit |-> FirstFound(r.kind, r.unit),
               edition |-> edition]
      BY <1>3 DEF Reply
    <2> QED
      BY <1>1, <1>2, <2>1, FirstFoundType DEF Line
  <1>4. CASE r.what # "sd"
    <2>1. r.unit \in Unit /\ r.what \in {"password", "vn", "ua", "status", "value"}
      BY <1>1, <1>4 DEF Request
    <2>2. \E what \in {"granted", "refused", "vn", "ua", "status", "value"} :
             l = [what |-> what, kind |-> r.kind, unit |-> r.unit, edition |-> edition]
      BY <1>4, <2>1 DEF Reply
    <2> QED
      BY <1>1, <1>2, <2>1, <2>2 DEF Line
  <1> QED
    BY <1>3, <1>4

LEMMA BeginType ==
  ASSUME NEW greeting \in Seq(Request), queue \in Seq(Request), Begin(greeting)
  PROVE  queue' \in Seq(Request) /\ uaHandler' = TRUE /\ textDesc' = ToSet(Order)
  BY QueuedType, KindsType DEF Begin

LEMMA NextRequestsType ==
  ASSUME NEW l \in Line, l.kind \in Kind, l.unit # NoUnit
  PROVE  NextRequests(l) \in Seq(Request)
  <1>1. l.unit \in Unit /\ l.unit + 1 \in 0..MaxUnit + 1
    BY UnitBounds DEF Line, Unit
  <1> DEFINE sd == <<Req("sd", l.kind, l.unit + 1)>>
             value_ == <<Req("value", l.kind, l.unit)>>
             none == <<>>
  <1>2. sd \in Seq(Request) /\ value_ \in Seq(Request) /\ none \in Seq(Request)
    BY <1>1, RequestTypes
  <1>3. NextRequests(l) = sd \o value_ \/ NextRequests(l) = sd \o none
    BY DEF NextRequests
  <1> HIDE DEF sd, value_, none
  <1> QED
    BY <1>2, <1>3, JoinedType

(* The lines that the panel says of itself.                                 *)
LEMMA TellType ==
  ASSUME line \in Seq(Line), edition \in 1..MaxExit + 1, NEW what \in {"ie", "rp_on", "rp_off"},
         Tell(what)
  PROVE  line' \in Seq(Line)
  <1> DEFINE l == [what |-> what, kind |-> NoKind, unit |-> 0, edition |-> edition]
  <1>1. edition \in 0..MaxExit + 1 /\ l \in Line
    BY SynchronizationAssumption, UnitBounds DEF Line
  <1>2. line' = Append(line, l) \/ line' = line
    BY DEF Tell
  <1> HIDE DEF l
  <1> QED
    BY <1>1, <1>2

LEMMA InitType == Init => TypeOK
  <1> SUFFICES ASSUME Init PROVE TypeOK
    OBVIOUS
  <1>1. MaxExit \in Nat /\ MaxSession \in Nat /\ MaxLost \in Nat /\ MaxProgram \in Nat
    BY SynchronizationAssumption
  <1>2. name \in [Element -> 0..MaxExit + 1] /\ value \in [Element -> 0..MaxExit + 1]
    BY <1>1 DEF Init
  <1>3. /\ queue = <<>> /\ hand = <<>> /\ line = <<>>
        /\ <<>> \in Seq(Request) /\ <<>> \in Seq(Line)
    BY DEF Init
  <1>4. queue \in Seq(Request) /\ hand \in Seq(Line) /\ line \in Seq(Line)
    BY <1>3
  <1>5. /\ up = FALSE /\ awaited = NoRequest /\ paused = FALSE
        /\ loggedIn = FALSE /\ uaHandler = FALSE /\ textDesc = {}
        /\ described \subseteq Describable /\ edition = 1 /\ programmed = FALSE /\ granted = FALSE
        /\ opened = 0 /\ lost = 0 /\ programs = 0 /\ logins = 0 /\ disturbed = FALSE
    BY DEF Init
  <1>6. edition \in 1..MaxExit + 1 /\ 0 \in 0..MaxSession /\ 0 \in 0..MaxLost /\ 0 \in 0..MaxProgram
    BY <1>1, <1>5
  <1> QED
    BY <1>2, <1>4, <1>5, <1>6 DEF TypeOK

LEMMA SessionType == TypeOK /\ (Open \/ Drop) => TypeOK'
  <1>0. MaxSession \in Nat
    BY SynchronizationAssumption
  <1>1. ASSUME TypeOK, Open PROVE TypeOK'
    <2>1. Credentials \o Sync \in Seq(Request)
      BY SyncType, JoinedType
    <2>2. queue' \in Seq(Request) /\ uaHandler' = TRUE /\ textDesc' \subseteq Kind
      BY <1>1, <2>1, BeginType, KindsType DEF Open, TypeOK
    <2>3. opened' \in 0..MaxSession
      BY <1>0, <1>1 DEF Open, TypeOK
    <2>4. /\ up' = TRUE /\ granted' = ~Secure /\ logins' = 0 /\ disturbed' = (paused \/ Pending)
          /\ UNCHANGED <<awaited, paused, hand, loggedIn, name, value, described, edition,
                         programmed, line, lost, programs>>
      BY <1>1 DEF Open
    <2>5. granted' \in BOOLEAN /\ disturbed' \in BOOLEAN
      BY <1>1, <2>4 DEF TypeOK
    <2> QED
      BY <1>1, <2>2, <2>3, <2>4, <2>5 DEF TypeOK
  <1>2. ASSUME TypeOK, Drop PROVE TypeOK'
    <2>1. /\ up' = FALSE /\ awaited' = NoRequest /\ line' = <<>> /\ loggedIn' = FALSE
          /\ disturbed' = TRUE
          /\ UNCHANGED <<queue, paused, hand, uaHandler, textDesc, name, value, described,
                         edition, programmed, granted, opened, lost, programs, logins>>
      BY <1>2 DEF Drop, Disconnect
    <2>2. line' \in Seq(Line)
      BY <2>1
    <2> QED
      BY <1>2, <2>1, <2>2 DEF TypeOK
  <1> QED
    BY <1>1, <1>2

LEMMA WriteType == TypeOK /\ Write => TypeOK'
  <1> SUFFICES ASSUME TypeOK, Write PROVE TypeOK'
    OBVIOUS
  <1> DEFINE r == Head(queue)
  <1>1. /\ queue \in Seq(Request) /\ queue # <<>> /\ queue' = Tail(queue)
        /\ awaited' \in {r, NoRequest} /\ edition \in 1..MaxExit + 1
        /\ disturbed' = (disturbed \/ (line' = line /\ r.what # "userid"))
        /\ UNCHANGED <<up, paused, hand, loggedIn, uaHandler, textDesc, name, value, described,
                       edition, programmed, opened, programs, logins>>
    BY DEF Write, TypeOK, elkVars
  <1>2. r \in Request /\ queue' \in Seq(Request)
    BY <1>1, RestType
  <1>3. \/ /\ ~Mute(r)
           /\ \E answer \in Reply(r) :
                 /\ line' = Append(line, answer)
                 /\ granted' = (granted \/ answer.what = "granted")
           /\ UNCHANGED lost
        \/ /\ UNCHANGED <<line, granted>>
           /\ lost' = lost \/ (lost < MaxLost /\ lost' = lost + 1)
    BY DEF Write
  <1> HIDE DEF r
  <1>4. line' \in Seq(Line) /\ granted' \in BOOLEAN /\ lost' \in 0..MaxLost
    <2>1. CASE ~Mute(r) /\ UNCHANGED lost /\ \E answer \in Reply(r) :
                  /\ line' = Append(line, answer)
                  /\ granted' = (granted \/ answer.what = "granted")
      <3>1. PICK answer \in Reply(r) : /\ line' = Append(line, answer)
                                       /\ granted' = (granted \/ answer.what = "granted")
        BY <2>1
      <3>2. answer \in Line
        BY <1>1, <1>2, <2>1, ReplyType DEF Mute
      <3> QED
        BY <2>1, <3>1, <3>2 DEF TypeOK
    <2>2. CASE UNCHANGED <<line, granted>> /\ (lost' = lost \/ (lost < MaxLost /\ lost' = lost + 1))
      BY <2>2, SynchronizationAssumption DEF TypeOK
    <2> QED
      BY <1>3, <2>1, <2>2
  <1>5. awaited' \in Request \cup {NoRequest} /\ disturbed' \in BOOLEAN
    BY <1>1, <1>2 DEF TypeOK
  <1> QED
    BY <1>1, <1>2, <1>4, <1>5 DEF TypeOK

LEMMA TimeoutType == TypeOK /\ Timeout => TypeOK'
  <1> SUFFICES ASSUME TypeOK, Timeout PROVE TypeOK'
    OBVIOUS
  <1>1. /\ lost' = lost \/ (lost < MaxLost /\ lost' = lost + 1)
        /\ awaited' = NoRequest /\ disturbed' = TRUE
        /\ UNCHANGED <<up, queue, paused, hand, opened, programs, logins>>
        /\ UNCHANGED <<loggedIn, uaHandler, textDesc, name, value>>
        /\ UNCHANGED <<described, edition, programmed, granted, line>>
    BY DEF Timeout, elkVars, panelVars
  <1>2. lost' \in 0..MaxLost
    BY <1>1, SynchronizationAssumption DEF TypeOK
  <1> QED
    BY <1>1, <1>2 DEF TypeOK

(* What Read leaves of the lines on their way, and what it takes.           *)
LEMMA ReadTakes ==
  ASSUME line \in Seq(Line), hand = <<>>, Read
  PROVE  hand' \in Seq(Line) /\ line' \in Seq(Line) /\ hand' \o line' = line
  <1>1. PICK n \in 1..MaxBatch :
              /\ n <= Len(line) /\ hand' = SubSeq(line, 1, n)
              /\ line' = SubSeq(line, n + 1, Len(line))
    BY DEF Read
  <1>2. n \in 1..Len(line) /\ n \in Nat
    BY <1>1, SynchronizationAssumption
  <1>3. SubSeq(line, 1, n) \in Seq(Line) /\ SubSeq(line, n + 1, Len(line)) \in Seq(Line)
    BY <1>2, SubSeqProperties
  <1>4. SubSeq(line, 1, n) \o SubSeq(line, n + 1, Len(line)) = line
    BY <1>2
  <1> QED
    BY <1>1, <1>3, <1>4

LEMMA ReadType == TypeOK /\ Read => TypeOK'
  <1> SUFFICES ASSUME TypeOK, Read PROVE TypeOK'
    OBVIOUS
  <1>1. /\ hand = <<>>
        /\ UNCHANGED <<up, queue, awaited, paused, loggedIn, uaHandler, textDesc, name, value,
                       described, edition, programmed, granted, opened, lost, programs, logins,
                       disturbed>>
    BY DEF Read, elkVars
  <1>2. hand' \in Seq(Line) /\ line' \in Seq(Line)
    BY <1>1, ReadTakes DEF TypeOK
  <1> QED
    BY <1>1, <1>2 DEF TypeOK

(* A handler changes these and, with them, the queue.                       *)
HandlerTypes ==
    /\ up' \in BOOLEAN /\ queue' \in Seq(Request) /\ awaited' \in Request \cup {NoRequest}
    /\ paused' \in BOOLEAN /\ loggedIn' \in BOOLEAN /\ uaHandler' \in BOOLEAN
    /\ textDesc' \subseteq Kind
    /\ name' \in [Element -> 0..MaxExit + 1] /\ value' \in [Element -> 0..MaxExit + 1]
    /\ line' \in Seq(Line) /\ logins' \in Nat /\ disturbed' \in BOOLEAN

LEMMA AnsweredType ==
  ASSUME TypeOK, NEW l, Answered(l)
  PROVE  awaited' \in Request \cup {NoRequest}
  BY DEF Answered, TypeOK

LEMMA DescriptionType ==
  ASSUME TypeOK, NEW l \in Line, HandleDescription(l)
  PROVE  HandlerTypes
  <1>1. /\ awaited' \in Request \cup {NoRequest}
        /\ UNCHANGED <<up, paused, loggedIn, uaHandler, value, line, logins, disturbed>>
    BY AnsweredType DEF HandleDescription
  <1>2. CASE /\ l.kind \in textDesc /\ l.unit # NoUnit
             /\ name' = IF <<l.kind, l.unit>> \in Unnamed THEN name
                        ELSE [name EXCEPT ![<<l.kind, l.unit>>] = l.edition]
             /\ queue' = QueuedFirst(queue, NextRequests(l))
             /\ UNCHANGED textDesc
    <2>1. l.kind \in Kind /\ l.edition \in 0..MaxExit + 1
      BY <1>2 DEF TypeOK, Line
    <2>2. queue' \in Seq(Request)
      BY <1>2, <2>1, NextRequestsType, QueuedType DEF TypeOK
    <2>3. name' \in [Element -> 0..MaxExit + 1]
      BY <1>2, <2>1 DEF TypeOK
    <2> QED
      BY <1>1, <1>2, <2>2, <2>3 DEF TypeOK, HandlerTypes
  <1>3. CASE textDesc' = textDesc \ {l.kind} /\ UNCHANGED <<name, queue>>
    BY <1>1, <1>3 DEF TypeOK, HandlerTypes
  <1> QED
    BY <1>2, <1>3 DEF HandleDescription

LEMMA ValueType ==
  ASSUME TypeOK, NEW l \in Line, HandleValue(l)
  PROVE  HandlerTypes
  <1>1. /\ awaited' \in Request \cup {NoRequest}
        /\ UNCHANGED <<up, queue, paused, loggedIn, uaHandler, textDesc, name, line, logins,
                       disturbed>>
        /\ \/ value' = [value EXCEPT ![<<l.kind, l.unit>>] = l.edition]
           \/ value' = value
    BY AnsweredType DEF HandleValue
  <1>2. l.edition \in 0..MaxExit + 1
    BY DEF Line
  <1>3. value' \in [Element -> 0..MaxExit + 1]
    BY <1>1, <1>2 DEF TypeOK
  <1> QED
    BY <1>1, <1>3 DEF TypeOK, HandlerTypes

LEMMA LoginType ==
  ASSUME TypeOK, NEW l \in Line, HandleLogin(l) \/ HandleVersion(l) \/ HandleRefusal(l)
  PROVE  HandlerTypes
  <1>1. CASE HandleLogin(l)
    <2>1. awaited' \in Request \cup {NoRequest} /\ logins' = logins + 1 /\ loggedIn' = TRUE
      BY <1>1, AnsweredType DEF HandleLogin
    <2>2. logins' \in Nat
      BY <2>1 DEF TypeOK
    <2> QED
      BY <1>1, <2>1, <2>2 DEF HandleLogin, HandlerTypes, TypeOK
  <1>2. CASE HandleVersion(l)
    <2>1. /\ awaited' \in Request \cup {NoRequest}
          /\ UNCHANGED <<up, queue, paused, loggedIn, uaHandler, textDesc, name, value, line,
                         logins, disturbed>>
      BY <1>2, AnsweredType DEF HandleVersion, elkVars
    <2> QED
      BY <2>1 DEF HandlerTypes, TypeOK
  <1>3. CASE HandleRefusal(l)
    <2>1. /\ up' = FALSE /\ awaited' = NoRequest /\ line' = <<>> /\ loggedIn' = FALSE
          /\ disturbed' = TRUE
          /\ UNCHANGED <<queue, paused, uaHandler, textDesc, name, value, logins>>
      BY <1>3 DEF HandleRefusal, Disconnect
    <2>2. line' \in Seq(Line)
      BY <2>1
    <2> QED
      BY <2>1, <2>2 DEF HandlerTypes, TypeOK
  <1> QED
    BY <1>1, <1>2, <1>3

LEMMA UAType ==
  ASSUME TypeOK, NEW l \in Line, HandleUA(l)
  PROVE  HandlerTypes
  <1>1. /\ uaHandler' = FALSE
        /\ UNCHANGED <<paused, textDesc, name, value, logins>>
        /\ \/ queue' = queue
           \/ queue' = Queued(queue, <<Req("ua", NoKind, 0)>>)
    BY DEF HandleUA
  <1>2. queue' \in Seq(Request)
    <2>1. <<Req("ua", NoKind, 0)>> \in Seq(Request) /\ queue \in Seq(Request)
      BY RequestTypes DEF TypeOK
    <2> QED
      BY <1>1, <2>1, QueuedType
  <1>3. /\ up' \in BOOLEAN /\ awaited' \in Request \cup {NoRequest} /\ loggedIn' \in BOOLEAN
        /\ line' \in Seq(Line) /\ disturbed' \in BOOLEAN
    <2>1. CASE Answered(l) /\ UNCHANGED <<up, loggedIn, line, disturbed>>
      BY <2>1, AnsweredType DEF TypeOK
    <2>2. CASE Disconnect
      <3>1. /\ up' = FALSE /\ awaited' = NoRequest /\ line' = <<>> /\ loggedIn' = FALSE
            /\ disturbed' = TRUE
        BY <2>2 DEF Disconnect
      <3>2. line' \in Seq(Line)
        BY <3>1
      <3> QED
        BY <3>1, <3>2
    <2> QED
      BY <2>1, <2>2 DEF HandleUA
  <1> QED
    BY <1>1, <1>2, <1>3 DEF HandlerTypes, TypeOK

LEMMA ProgrammingType ==
  ASSUME TypeOK, NEW l \in Line, HandleExit(l) \/ HandleProgramming(l)
  PROVE  HandlerTypes
  <1>1. CASE HandleExit(l)
    <2>1. queue' \in Seq(Request) /\ uaHandler' = TRUE /\ textDesc' \subseteq Kind
      BY <1>1, SyncType, BeginType, KindsType DEF HandleExit, TypeOK
    <2>2. disturbed' \in BOOLEAN
      BY <1>1 DEF HandleExit
    <2> QED
      BY <1>1, <2>1, <2>2 DEF HandleExit, HandlerTypes, TypeOK
  <1>2. CASE HandleProgramming(l)
    <2>1. /\ queue' \in {<<>>, queue} /\ paused' \in BOOLEAN /\ disturbed' \in {TRUE, disturbed}
          /\ UNCHANGED <<up, awaited, loggedIn, uaHandler, textDesc, name, value, line, logins>>
      BY <1>2 DEF HandleProgramming, elkVars
    <2>2. <<>> \in Seq(Request)
      OBVIOUS
    <2>3. queue' \in Seq(Request)
      BY <2>1, <2>2 DEF TypeOK
    <2> QED
      BY <2>1, <2>3 DEF HandlerTypes, TypeOK
  <1> QED
    BY <1>1, <1>2

LEMMA HandleLineType == TypeOK /\ HandleLine => TypeOK'
  <1> SUFFICES ASSUME TypeOK, HandleLine PROVE TypeOK'
    OBVIOUS
  <1> DEFINE l == Head(hand)
  <1>1. /\ hand # <<>> /\ hand' = Tail(hand) /\ hand \in Seq(Line)
        /\ \/ HandleDescription(l) \/ HandleValue(l) \/ HandleLogin(l) \/ HandleVersion(l)
           \/ HandleRefusal(l) \/ HandleUA(l) \/ HandleExit(l) \/ HandleProgramming(l)
        /\ UNCHANGED <<described, edition, programmed, granted, opened, lost, programs>>
    BY DEF HandleLine, TypeOK
  <1>2. l \in Line /\ hand' \in Seq(Line)
    BY <1>1, RestType
  <1> HIDE DEF l
  <1>3. HandlerTypes
    BY <1>1, <1>2, DescriptionType, ValueType, LoginType, UAType, ProgrammingType
  <1> QED
    BY <1>1, <1>2, <1>3 DEF TypeOK, HandlerTypes

LEMMA PanelType == TypeOK /\ Panel => TypeOK'
  <1> SUFFICES ASSUME TypeOK, Panel PROVE TypeOK'
    OBVIOUS
  <1>1. CASE ExitInstaller
    <2>1. /\ edition <= MaxExit /\ edition' = edition + 1 /\ disturbed' = TRUE
          /\ line' \in Seq(Line)
          /\ UNCHANGED <<up, queue, awaited, paused, hand>>
          /\ UNCHANGED <<loggedIn, uaHandler, textDesc, name, value>>
          /\ UNCHANGED <<programmed, granted, opened, lost, programs, logins>>
      BY <1>1, TellType DEF ExitInstaller, connVars, elkVars, TypeOK
    <2>2. described' \subseteq Describable
      BY <1>1 DEF ExitInstaller, TypeOK
    <2>3. edition' \in 1..MaxExit + 1
      BY <2>1, SynchronizationAssumption DEF TypeOK
    <2> QED
      BY <2>1, <2>2, <2>3 DEF TypeOK
  <1>2. CASE Program \/ ProgramDone
    <2>1. /\ programmed' \in BOOLEAN /\ line' \in Seq(Line)
          /\ programs' = programs \/ (programs < MaxProgram /\ programs' = programs + 1)
          /\ UNCHANGED <<up, queue, awaited, paused, hand>>
          /\ UNCHANGED <<loggedIn, uaHandler, textDesc, name, value>>
          /\ UNCHANGED <<described, edition, granted, opened, lost, logins, disturbed>>
      BY <1>2, TellType DEF Program, ProgramDone, connVars, elkVars, TypeOK
    <2>2. programs' \in 0..MaxProgram
      BY <2>1, SynchronizationAssumption DEF TypeOK
    <2> QED
      BY <2>1, <2>2 DEF TypeOK
  <1> QED
    BY <1>1, <1>2 DEF Panel

LEMMA NextType == TypeOK /\ [Next]_vars => TypeOK'
  <1>1. TypeOK /\ UNCHANGED vars => TypeOK'
    BY DEF TypeOK, vars, connVars, elkVars, panelVars
  <1> QED
    BY <1>1, SessionType, WriteType, TimeoutType, ReadType, HandleLineType, PanelType DEF Next

(* Every request and every line is one of those that the code sends or      *)
(* handles, and no kind has more elements than it may.                      *)
THEOREM TypeCorrect == Spec => []TypeOK
  BY InitType, NextType, PTL DEF Spec

-----------------------------------------------------------------------------
(* The lines that the client will still handle, in hand or on their way:    *)
(* how each kind of step changes them.                                     *)
Coming == hand \o line

Gained(l) ==
    /\ Coming' \in Seq(Line) /\ Len(Coming') = Len(Coming) + 1
    /\ \A i \in 1..Len(Coming) : Coming'[i] = Coming[i]
    /\ Coming'[Len(Coming) + 1] = l

Handled(l) ==
    /\ Len(Coming) \in Nat \ {0} /\ Coming[1] = l
    /\ Coming' \in Seq(Line) /\ Len(Coming') = Len(Coming) - 1
    /\ \A i \in 1..Len(Coming') : Coming'[i] = Coming[i + 1]

LEMMA ComingType ==
  ASSUME TypeOK
  PROVE  Coming \in Seq(Line) /\ Len(Coming) \in Nat /\ \A i \in 1..Len(Coming) : Coming[i] \in Line
  <1>1. Coming \in Seq(Line)
    BY JoinedType DEF Coming, TypeOK
  <1> QED
    BY <1>1

LEMMA SaidIsGained ==
  ASSUME TypeOK, NEW l \in Line, hand' = hand, line' = Append(line, l)
  PROVE  Gained(l)
  <1> DEFINE one == <<l>>
             c == Coming
  <1>1. c \in Seq(Line) /\ one \in Seq(Line) /\ Len(one) = 1 /\ one[1] = l
    BY ComingType
  <1>2. hand \in Seq(Line) /\ line \in Seq(Line)
    BY DEF TypeOK
  <1>3. line' = line \o one
    BY <1>2, AppendIsConcat
  <1> HIDE DEF one
  <1>4. hand \o (line \o one) = (hand \o line) \o one
    <2>1. \A s, t, u \in Seq(Line) : (s \o t) \o u = s \o (t \o u)
      BY ConcatAssociative
    <2> HIDE DEF c
    <2> QED
      BY <1>1, <1>2, <2>1
  <1>5. Coming' = c \o one
    BY <1>3, <1>4 DEF Coming
  <1> HIDE DEF c
  <1>6. /\ c \o one \in Seq(Line) /\ Len(c \o one) = Len(c) + 1
        /\ \A i \in 1..Len(c) : (c \o one)[i] = c[i]
        /\ (c \o one)[Len(c) + 1] = l
    <2>1. /\ c \o one \in Seq(Line) /\ Len(c \o one) = Len(c) + Len(one)
          /\ \A i \in 1..Len(c) + Len(one) :
                (c \o one)[i] = IF i <= Len(c) THEN c[i] ELSE one[i - Len(c)]
      BY <1>1, ConcatProperties
    <2>2. Len(c) \in Nat /\ Len(c) + 1 \in 1..Len(c) + 1 /\ (Len(c) + 1) - Len(c) = 1
      BY <1>1
    <2> QED
      BY <1>1, <2>1, <2>2
  <1> QED
    BY <1>5, <1>6 DEF Gained, c

LEMMA FirstIsHandled ==
  ASSUME TypeOK, hand # <<>>, hand' = Tail(hand), line' = line
  PROVE  Handled(Head(hand))
  <1>1. hand \in Seq(Line) /\ line \in Seq(Line)
    BY DEF TypeOK
  <1>2. Len(hand) \in Nat \ {0} /\ Tail(hand) \in Seq(Line) /\ Len(Tail(hand)) = Len(hand) - 1
    BY <1>1
  <1>3. \A i \in 1..Len(Tail(hand)) : Tail(hand)[i] = hand[i + 1]
    BY <1>1
  <1> DEFINE rest == Tail(hand)
  <1>4. Len(hand \o line) = Len(hand) + Len(line) /\ (hand \o line)[1] = hand[1] /\ hand[1] = Head(hand)
    BY <1>1, <1>2
  <1> HIDE DEF rest
  <1>5. rest \o line \in Seq(Line) /\ Len(rest \o line) = Len(rest) + Len(line)
    BY <1>1, <1>2 DEF rest
  <1>6. ASSUME NEW i \in 1..Len(rest \o line)
        PROVE  (rest \o line)[i] = (hand \o line)[i + 1]
    <2>1. CASE i <= Len(rest)
      <3>1. (rest \o line)[i] = rest[i] /\ (hand \o line)[i + 1] = hand[i + 1]
        BY <1>1, <1>2, <1>5, <2>1 DEF rest
      <3> QED
        BY <1>2, <1>3, <2>1, <3>1 DEF rest
    <2>2. CASE i > Len(rest)
      <3>1. (rest \o line)[i] = line[i - Len(rest)]
        BY <1>1, <1>2, <1>5, <2>2 DEF rest
      <3>2. (hand \o line)[i + 1] = line[i + 1 - Len(hand)]
        BY <1>1, <1>2, <1>5, <2>2 DEF rest
      <3>3. i - Len(rest) = i + 1 - Len(hand)
        BY <1>2 DEF rest
      <3> QED
        BY <3>1, <3>2, <3>3
    <2> QED
      BY <1>2, <1>5, <2>1, <2>2 DEF rest
  <1>7. Coming' = rest \o line /\ Coming = hand \o line
    BY DEF Coming, rest
  <1>8. Len(Coming) \in Nat \ {0} /\ Len(rest \o line) = Len(Coming) - 1
    BY <1>1, <1>2, <1>4, <1>5, <1>7 DEF rest
  <1> QED
    BY <1>4, <1>5, <1>6, <1>7, <1>8 DEF Handled

LEMMA ReadKeepsComing ==
  ASSUME TypeOK, Read
  PROVE  Coming' = Coming
  <1>1. hand = <<>> /\ line \in Seq(Line)
    BY DEF Read, TypeOK
  <1> QED
    BY <1>1, ReadTakes DEF Coming

(* What the panel says by itself.                                          *)
LEMMA TellGains ==
  ASSUME TypeOK, hand' = hand, NEW what \in {"ie", "rp_on", "rp_off"}, Tell(what)
  PROVE  \/ Coming' = Coming
         \/ /\ up /\ granted
            /\ \E l \in Line : Gained(l) /\ l.what = what
  <1> DEFINE l == [what |-> what, kind |-> NoKind, unit |-> 0, edition |-> edition]
  <1>1. edition \in 0..MaxExit + 1 /\ l \in Line /\ l.what = what
    BY SynchronizationAssumption, UnitBounds DEF Line, TypeOK
  <1>2. (up /\ granted /\ line' = Append(line, l)) \/ line' = line
    BY DEF Tell
  <1> HIDE DEF l
  <1>3. CASE up /\ granted /\ line' = Append(line, l)
    BY <1>1, <1>3, SaidIsGained
  <1>4. CASE line' = line
    BY <1>4 DEF Coming
  <1> QED
    BY <1>2, <1>3, <1>4

(* What a request makes the panel say.                                      *)
LEMMA WriteGains ==
  ASSUME TypeOK, Write
  PROVE  LET r == Head(queue)
         IN  /\ r \in Request
             /\ \/ /\ ~Mute(r) /\ \E l \in Reply(r) : /\ l \in Line /\ Gained(l)
                                                      /\ granted' = (granted \/ l.what = "granted")
                \/ Coming' = Coming /\ granted' = granted /\ (disturbed' \/ r.what = "userid")
  <1> DEFINE r == Head(queue)
  <1>1. r \in Request /\ hand' = hand /\ edition \in 1..MaxExit + 1
    BY RestType DEF Write, TypeOK
  <1>2. \/ /\ ~Mute(r)
           /\ \E l \in Reply(r) : /\ line' = Append(line, l)
                                  /\ granted' = (granted \/ l.what = "granted")
        \/ UNCHANGED <<line, granted>> /\ (disturbed' \/ r.what = "userid")
    BY DEF Write
  <1> HIDE DEF r
  <1>3. CASE UNCHANGED <<line, granted>> /\ (disturbed' \/ r.what = "userid")
    BY <1>1, <1>3 DEF Coming, r
  <1>4. CASE /\ ~Mute(r)
             /\ \E l \in Reply(r) : /\ line' = Append(line, l)
                                    /\ granted' = (granted \/ l.what = "granted")
    <2>1. PICK l \in Reply(r) : /\ line' = Append(line, l)
                                /\ granted' = (granted \/ l.what = "granted")
      BY <1>4
    <2>2. l \in Line
      BY <1>1, <1>4, ReplyType DEF Mute
    <2>3. Gained(l)
      BY <1>1, <2>1, <2>2, SaidIsGained
    <2> QED
      BY <1>1, <1>4, <2>1, <2>2, <2>3 DEF r
  <1> QED
    BY <1>2, <1>3, <1>4

-----------------------------------------------------------------------------
(* Between sessions nothing is on its way, and neither a pause nor the end   *)
(* of a session leaves a synchronisation undisturbed.                       *)
Between ==
    /\ ~up => line = <<>> /\ awaited = NoRequest
    /\ up \/ disturbed \/ (hand = <<>> /\ ~uaHandler)
    /\ paused => disturbed

LEMMA HandleKeepsBetween ==
  ASSUME TypeOK, Between, HandleLine
  PROVE  Between'
  <1> DEFINE l == Head(hand)
  <1>1. /\ hand # <<>>
        /\ \/ HandleDescription(l) \/ HandleValue(l) \/ HandleLogin(l) \/ HandleVersion(l)
           \/ HandleRefusal(l) \/ HandleUA(l) \/ HandleExit(l) \/ HandleProgramming(l)
    BY DEF HandleLine
  <1>2. up \/ disturbed
    BY <1>1 DEF Between
  <1> HIDE DEF l
  <1>3. CASE Disconnect /\ paused' = paused
    BY <1>3 DEF Disconnect, Between
  <1>4. ASSUME Answered(l), UNCHANGED <<up, paused, line, disturbed>> PROVE Between'
    <2>1. awaited = NoRequest => awaited' = NoRequest
      BY <1>4 DEF Answered
    <2> QED
      BY <1>2, <1>4, <2>1 DEF Between
  <1>5. CASE HandleDescription(l) \/ HandleValue(l) \/ HandleLogin(l) \/ HandleVersion(l)
    BY <1>4, <1>5 DEF HandleDescription, HandleValue, HandleLogin, HandleVersion
  <1>6. CASE HandleRefusal(l)
    BY <1>3, <1>6 DEF HandleRefusal
  <1>7. CASE HandleUA(l)
    BY <1>3, <1>4, <1>7 DEF HandleUA
  <1>8. CASE HandleExit(l)
    BY <1>8 DEF HandleExit, Between
  <1>9. CASE HandleProgramming(l)
    BY <1>2, <1>9 DEF HandleProgramming, Between
  <1> QED
    BY <1>1, <1>5, <1>6, <1>7, <1>8, <1>9

LEMMA NextKeepsBetween == TypeOK /\ Between /\ [Next]_vars => Between'
  <1> SUFFICES ASSUME TypeOK, Between, [Next]_vars PROVE Between'
    OBVIOUS
  <1>1. CASE Open
    BY <1>1 DEF Open, Begin, Between
  <1>2. CASE Drop
    BY <1>2 DEF Drop, Disconnect, Between
  <1>3. CASE Write
    <2>1. UNCHANGED <<up, paused, hand, uaHandler>> /\ up /\ (disturbed => disturbed')
      BY <1>3 DEF Write, elkVars
    <2> QED
      BY <2>1 DEF Between
  <1>4. CASE Timeout
    BY <1>4 DEF Timeout, Between, elkVars, panelVars
  <1>5. CASE Read
    BY <1>5 DEF Read, Between, elkVars
  <1>6. CASE HandleLine
    BY <1>6, HandleKeepsBetween
  <1>7. CASE Panel
    <2>1. UNCHANGED <<up, awaited, paused, hand, uaHandler>> /\ (disturbed => disturbed')
      BY <1>7 DEF Panel, ExitInstaller, Program, ProgramDone, connVars, elkVars
    <2>2. ~up => line' = line
      BY <1>7 DEF Panel, ExitInstaller, Program, ProgramDone, Tell
    <2> QED
      BY <2>1, <2>2 DEF Between
  <1>8. CASE UNCHANGED vars
    BY <1>8 DEF Between, vars, connVars, elkVars, panelVars
  <1> QED
    BY <1>1, <1>2, <1>3, <1>4, <1>5, <1>6, <1>7, <1>8 DEF Next

-----------------------------------------------------------------------------
(* Logins. The panel grants access once in a session and says its version    *)
(* only after that, so that the first VN is a login of its own only when no *)
(* password was needed.                                                     *)
Says(whats) == \E i \in 1..Len(Coming) : Coming[i].what \in whats

LoginInv ==
    up =>
      /\ ~granted => logins = 0 /\ ~Says({"granted", "vn"})
      /\ logins <= 1
      /\ logins = 1 => loggedIn /\ ~Says({"granted"})
      /\ \A i, j \in 1..Len(Coming) :
            i < j /\ Coming[j].what = "granted" => Coming[i].what \notin {"vn", "granted"}

LEMMA GainKeepsLogin ==
  ASSUME TypeOK, LoginInv, NEW l \in Line, Gained(l), up, granted',
         UNCHANGED <<logins, loggedIn>>,
         IF granted THEN l.what # "granted" ELSE TRUE
  PROVE  LoginInv'
  <1>1. Len(Coming) \in Nat
    BY ComingType
  <1>2. ASSUME NEW i \in 1..Len(Coming')
        PROVE  \/ i \in 1..Len(Coming) /\ Coming'[i] = Coming[i]
               \/ i = Len(Coming) + 1 /\ Coming'[i] = l
    BY <1>1 DEF Gained
  <1>3. Says({"granted"})' => Says({"granted"}) \/ l.what = "granted"
    BY <1>2 DEF Says
  <1>4. ASSUME NEW i \in 1..Len(Coming'), NEW j \in 1..Len(Coming'), i < j,
               Coming'[j].what = "granted"
        PROVE  Coming'[i].what \notin {"vn", "granted"}
    <2>1. i \in 1..Len(Coming) /\ Coming'[i] = Coming[i]
      BY <1>1, <1>2, <1>4 DEF Gained
    <2>2. CASE j \in 1..Len(Coming) /\ Coming'[j] = Coming[j]
      BY <1>4, <2>1, <2>2 DEF LoginInv
    <2>3. CASE Coming'[j] = l
      <3>1. ~granted
        BY <1>4, <2>3
      <3> QED
        BY <2>1, <3>1 DEF LoginInv, Says
    <2> QED
      BY <1>2, <2>2, <2>3
  <1>5. logins' <= 1 /\ (logins' = 1 => loggedIn' /\ ~Says({"granted"})')
    BY <1>3 DEF LoginInv
  <1> QED
    BY <1>4, <1>5 DEF LoginInv

(* Lines that have nothing to do with logins.                               *)
LEMMA QuietKeepsLogin ==
  ASSUME TypeOK, LoginInv, up, UNCHANGED <<logins, loggedIn, granted>>,
         \/ Coming' = Coming
         \/ \E l : Handled(l)
         \/ granted /\ \E l \in Line : Gained(l) /\ l.what # "granted"
         \/ ~granted /\ \E l \in Line : Gained(l) /\ l.what \notin {"granted", "vn"}
  PROVE  LoginInv'
  <1>1. Len(Coming) \in Nat
    BY ComingType
  <1>2. CASE Coming' = Coming
    BY <1>2 DEF LoginInv, Says
  <1>3. CASE \E l : Handled(l)
    <2>1. /\ Len(Coming') = Len(Coming) - 1
          /\ \A i \in 1..Len(Coming') : i + 1 \in 1..Len(Coming) /\ Coming'[i] = Coming[i + 1]
      BY <1>1, <1>3 DEF Handled
    <2>2. \A whats : Says(whats)' => Says(whats)
      BY <2>1 DEF Says
    <2>3. ASSUME NEW i \in 1..Len(Coming'), NEW j \in 1..Len(Coming'), i < j,
                 Coming'[j].what = "granted"
          PROVE  Coming'[i].what \notin {"vn", "granted"}
      <3>1. i + 1 < j + 1
        BY <1>1, <2>1, <2>3
      <3> QED
        BY <2>1, <2>3, <3>1 DEF LoginInv
    <2> QED
      BY <2>2, <2>3 DEF LoginInv
  <1>4. CASE granted /\ \E l \in Line : Gained(l) /\ l.what # "granted"
    BY <1>4, GainKeepsLogin
  <1>5. CASE ~granted /\ \E l \in Line : Gained(l) /\ l.what \notin {"granted", "vn"}
    <2>1. PICK l \in Line : Gained(l) /\ l.what \notin {"granted", "vn"}
      BY <1>5
    <2>2. ASSUME NEW i \in 1..Len(Coming')
          PROVE  Coming'[i] = l \/ (i \in 1..Len(Coming) /\ Coming'[i] = Coming[i])
      BY <1>1, <2>1 DEF Gained
    <2>3. ~Says({"granted", "vn"})'
      BY <1>5, <2>1, <2>2 DEF LoginInv, Says
    <2> QED
      BY <1>5, <2>3 DEF LoginInv, Says
  <1> QED
    BY <1>2, <1>3, <1>4, <1>5

LEMMA HandleKeepsLogin ==
  ASSUME TypeOK, Between, LoginInv, HandleLine
  PROVE  LoginInv'
  <1> DEFINE l == Head(hand)
  <1>1. /\ hand # <<>> /\ hand' = Tail(hand) /\ granted' = granted
        /\ \/ HandleDescription(l) \/ HandleValue(l) \/ HandleLogin(l) \/ HandleVersion(l)
           \/ HandleRefusal(l) \/ HandleUA(l) \/ HandleExit(l) \/ HandleProgramming(l)
    BY DEF HandleLine
  <1>2. line' = line => Handled(l)
    BY <1>1, FirstIsHandled
  <1> HIDE DEF l
  <1>3. CASE ~up'
    BY <1>3 DEF LoginInv
  <1>4. CASE up' /\ HandleLogin(l)
    <2>1. Handled(l) /\ up /\ loggedIn' /\ logins' = logins + 1 /\ logins \in Nat
          /\ (l.what = "granted" \/ (l.what = "vn" /\ ~loggedIn))
      BY <1>2, <1>4 DEF HandleLogin, TypeOK
    <2>2. /\ Len(Coming) \in Nat /\ 1 \in 1..Len(Coming) /\ Coming[1] = l
          /\ Len(Coming') = Len(Coming) - 1
          /\ \A i \in 1..Len(Coming') : i + 1 \in 1..Len(Coming) /\ Coming'[i] = Coming[i + 1]
      BY <2>1 DEF Handled
    <2>3. Says({l.what})
      BY <2>2 DEF Says
    <2>4. granted /\ logins = 0
      BY <2>1, <2>3 DEF LoginInv, Says
    <2>5. ASSUME NEW i \in 1..Len(Coming') PROVE Coming'[i].what # "granted"
      <3>1. 1 < i + 1 /\ i + 1 \in 1..Len(Coming) /\ Coming'[i] = Coming[i + 1]
        BY <2>2
      <3> QED
        BY <2>1, <2>2, <3>1 DEF LoginInv
    <2>6. ~Says({"granted"})'
      BY <2>5 DEF Says
    <2> QED
      BY <1>1, <2>1, <2>4, <2>5, <2>6 DEF LoginInv
  <1>5. ASSUME up', line' = line, UNCHANGED <<up, logins, loggedIn>> PROVE LoginInv'
    BY <1>1, <1>2, <1>5, QuietKeepsLogin
  <1>6. CASE up' /\ (HandleDescription(l) \/ HandleValue(l) \/ HandleVersion(l))
    BY <1>5, <1>6 DEF HandleDescription, HandleValue, HandleVersion, elkVars
  <1>7. CASE up' /\ (HandleUA(l) \/ HandleRefusal(l))
    BY <1>5, <1>7 DEF HandleUA, HandleRefusal, Disconnect
  <1>8. CASE up' /\ (HandleExit(l) \/ HandleProgramming(l))
    BY <1>5, <1>8 DEF HandleExit, HandleProgramming, elkVars
  <1> QED
    BY <1>1, <1>3, <1>4, <1>6, <1>7, <1>8

LEMMA NextKeepsLogin == TypeOK /\ Between /\ LoginInv /\ [Next]_vars => LoginInv'
  <1> SUFFICES ASSUME TypeOK, Between, LoginInv, [Next]_vars PROVE LoginInv'
    OBVIOUS
  <1>1. CASE Open
    <2>1. hand' = <<>> /\ line' = <<>> /\ logins' = 0
      BY <1>1 DEF Open, Between
    <2>2. Len(Coming') = 0
      BY <2>1 DEF Coming
    <2>3. 1..Len(Coming') = {}
      BY <2>2
    <2> QED
      BY <2>1, <2>3 DEF LoginInv, Says
  <1>2. CASE Drop
    BY <1>2 DEF Drop, Disconnect, LoginInv
  <1>3. CASE Write
    <2> DEFINE r == Head(queue)
    <2>1. up /\ UNCHANGED <<logins, loggedIn>>
      BY <1>3 DEF Write, elkVars
    <2>2. r \in Request
      BY <1>3, WriteGains
    <2>3. \/ /\ ~Mute(r) /\ \E l \in Reply(r) : /\ l \in Line /\ Gained(l)
                                                /\ granted' = (granted \/ l.what = "granted")
          \/ Coming' = Coming /\ granted' = granted
      BY <1>3, WriteGains
    <2> HIDE DEF r
    <2>4. CASE Coming' = Coming /\ granted' = granted
      BY <2>1, <2>4, QuietKeepsLogin
    <2>5. CASE ~Mute(r) /\ \E l \in Reply(r) : /\ l \in Line /\ Gained(l)
                                               /\ granted' = (granted \/ l.what = "granted")
      <3>1. PICK l \in Reply(r) : /\ l \in Line /\ Gained(l)
                                  /\ granted' = (granted \/ l.what = "granted")
        BY <2>5
      <3>2. CASE granted
        <4>1. r.what \in {"vn", "ua", "status", "sd", "value"}
          BY <2>2, <2>5, <3>2 DEF Mute, Request
        <4>2. l.what # "granted"
          BY <3>1, <4>1 DEF Reply
        <4>3. granted' = granted
          BY <3>1, <4>2 DEF TypeOK
        <4> QED
          BY <2>1, <3>1, <3>2, <4>2, <4>3, QuietKeepsLogin
      <3>3. CASE ~granted
        <4>1. l.what \in {"granted", "refused"}
          BY <2>5, <3>1, <3>3 DEF Mute, Reply
        <4>2. CASE l.what = "granted"
          BY <2>1, <3>1, <3>3, <4>2, GainKeepsLogin
        <4>3. CASE l.what = "refused"
          BY <2>1, <3>1, <3>3, <4>3, QuietKeepsLogin DEF TypeOK
        <4> QED
          BY <4>1, <4>2, <4>3
      <3> QED
        BY <3>2, <3>3
    <2> QED
      BY <2>3, <2>4, <2>5
  <1>4. CASE Timeout
    <2>1. UNCHANGED <<up, hand, line, logins, loggedIn, granted>>
      BY <1>4 DEF Timeout, elkVars, panelVars
    <2> QED
      BY <2>1 DEF LoginInv, Says, Coming
  <1>5. CASE Read
    <2>1. UNCHANGED <<up, logins, loggedIn, granted>> /\ Coming' = Coming
      BY <1>5, ReadKeepsComing DEF Read, elkVars
    <2> QED
      BY <2>1 DEF LoginInv, Says
  <1>6. CASE HandleLine
    BY <1>6, HandleKeepsLogin
  <1>7. CASE Panel
    <2>1. /\ UNCHANGED <<up, hand, logins, loggedIn, granted>>
          /\ Tell("ie") \/ Tell("rp_on") \/ Tell("rp_off")
      BY <1>7 DEF Panel, ExitInstaller, Program, ProgramDone, connVars, elkVars
    <2>2. Coming' = Coming \/ (up /\ granted /\ \E l \in Line : Gained(l) /\ l.what # "granted")
      BY <2>1, TellGains
    <2>3. CASE up
      BY <2>1, <2>2, <2>3, QuietKeepsLogin
    <2>4. CASE ~up
      BY <2>1, <2>4 DEF LoginInv
    <2> QED
      BY <2>3, <2>4
  <1>8. CASE UNCHANGED vars
    BY <1>8 DEF LoginInv, Says, Coming, vars, connVars, elkVars, panelVars
  <1> QED
    BY <1>1, <1>2, <1>3, <1>4, <1>5, <1>6, <1>7, <1>8 DEF Next

(* A session has one successful login, though two lines may announce it     *)
(* (elk.py:84-101).                                                         *)
THEOREM SessionsLogInOnce == Spec => []OneLogin
  <1>1. Init => TypeOK /\ Between /\ LoginInv
    BY InitType DEF Init, Between, LoginInv
  <1>2. TypeOK /\ Between /\ LoginInv /\ [Next]_vars => (TypeOK /\ Between /\ LoginInv)'
    BY NextType, NextKeepsBetween, NextKeepsLogin
  <1>3. LoginInv => OneLogin
    BY DEF LoginInv, OneLogin
  <1> QED
    BY <1>1, <1>2, <1>3, PTL DEF Spec

-----------------------------------------------------------------------------
(* The conversation of a synchronisation that nothing disturbed.            *)
Marker == Req("ua", NoKind, 0)

(* No request waits for these lines.                                       *)
Free(l) ==
    \/ l.what \in {"granted", "refused", "rp_on", "rp_off"}
    \/ l.what = "value" /\ l.kind \notin Counters

(* The only other line on its way is the one that is waited for.            *)
FreeBut(i) == \A j \in 1..Len(Coming) : j # i => Free(Coming[j])
InTurn ==
    /\ awaited = NoRequest => \A i \in 1..Len(Coming) : Free(Coming[i])
    /\ awaited # NoRequest =>
          Waits(awaited) /\ \E i \in 1..Len(Coming) : Coming[i] \in Reply(awaited) /\ FreeBut(i)
    /\ \A i \in 1..Len(Coming) : Coming[i].what = "value" => Coming[i].edition = edition

(* The marker is the last request, and its answer follows all other answers. *)
MarkerIsLast ==
    /\ \/ /\ queue # <<>> /\ queue[Len(queue)] = Marker /\ awaited # Marker
          /\ \A i \in 1..Len(queue) - 1 : queue[i] # Marker
       \/ queue = <<>> /\ awaited = Marker
    /\ \A i, j \in 1..Len(Coming) :
          i < j /\ Coming[i].what = "ua" => Coming[j].what \in {"rp_on", "rp_off"}

Asks == {queue[i] : i \in 1..Len(queue)} \cup {awaited}

(* What is to be known of an element is known, but that its value may be on  *)
(* its way.                                                                *)
ValueComes(e) ==
    \/ value[e] = edition
    \/ Req("value", e[1], e[2]) \in Asks
    \/ \E i \in 1..Len(Coming) :
          Coming[i].what = "value" /\ Coming[i].kind = e[1] /\ Coming[i].unit = e[2]
Done(e) == name[e] = edition /\ (e[1] \in Counters \cup Thermostats => ValueComes(e))

(* The description of an element will be read: its kind has a request for   *)
(* it or for one before it.                                                *)
AsksFor(r, e) == r.what = "sd" /\ r.kind = e[1] /\ r.unit <= e[2]
WillBeRead(e) == e[1] \in textDesc /\ \E r \in Asks : AsksFor(r, e)

(* Every element is done or will be read, and those that the requests have  *)
(* passed are done.                                                        *)
Known == described \ Unnamed
Progress ==
    /\ \A e \in Known : Done(e) \/ WillBeRead(e)
    /\ \A r \in Asks : r.what = "sd" => \A e \in Known : e[1] = r.kind /\ e[2] < r.unit => Done(e)

Undisturbed ==
    up /\ ~disturbed => InTurn /\ (uaHandler => MarkerIsLast /\ Progress)

(* What a synchronisation asks for at first.                                *)
LEMMA SyncAsks ==
  ASSUME NEW s, s = Sync \/ s = Credentials \o Sync
  PROVE  /\ s \in Seq(Request) /\ Len(s) \in Nat \ {0} /\ s[Len(s)] = Marker
         /\ \A i \in 1..Len(s) - 1 : s[i] # Marker
         /\ \A i \in 1..Len(s) : s[i].what = "sd" => s[i].unit = 0
         /\ \A k \in ToSet(Order) : \E i \in 1..Len(s) : s[i] = Req("sd", k, 0)
  <1> DEFINE vn == <<Req("vn", NoKind, 0), Req("status", NoKind, 0)>>
             last == <<Marker>>
             Other == {r \in Request : r.what # "ua" /\ (r.what = "sd" => r.unit = 0)}
  <1>1. PICK first \in Seq(Other) : s = first \o OfKinds \o last
    <2>1. /\ Req("vn", NoKind, 0) \in Other /\ Req("status", NoKind, 0) \in Other
          /\ Req("userid", NoKind, 0) \in Other /\ Req("password", NoKind, 0) \in Other
      BY RequestTypes DEF Req
    <2>2. vn \in Seq(Other) /\ Credentials \in Seq(Other)
      <3> HIDE DEF Other
      <3>1. <<Req("userid", NoKind, 0), Req("password", NoKind, 0)>> \in Seq(Other)
        BY <2>1
      <3>2. <<>> \in Seq(Other) /\ vn \in Seq(Other)
        BY <2>1
      <3> QED
        BY <3>1, <3>2 DEF Credentials
    <2>3. Sync = vn \o OfKinds \o last
      BY DEF Sync, OfKinds, Marker
    <2>4. OfKinds \in Seq(Request) /\ last \in Seq(Request) /\ vn \in Seq(Request)
          /\ Credentials \in Seq(Request)
      <3>1. Marker \in Request
        BY RequestTypes DEF Marker
      <3> QED
        BY <2>2, <3>1, OfKindsType, RequestTypes, SyncType
    <2> HIDE DEF vn, last, Other
    <2>5. Credentials \o Sync = (Credentials \o vn) \o OfKinds \o last
      <3>1. \A a, b, c \in Seq(Request) : (a \o b) \o c = a \o (b \o c)
        BY ConcatAssociative
      <3>2. vn \o OfKinds \in Seq(Request)
        BY <2>4, JoinedType
      <3>3. Credentials \o (vn \o OfKinds \o last) = (Credentials \o (vn \o OfKinds)) \o last
        BY <2>4, <3>1, <3>2
      <3>4. Credentials \o (vn \o OfKinds) = (Credentials \o vn) \o OfKinds
        BY <2>4, <3>1
      <3> QED
        BY <2>3, <3>3, <3>4
    <2>6. Credentials \o vn \in Seq(Other)
      BY <2>2, JoinedType
    <2> QED
      BY <2>2, <2>3, <2>5, <2>6
  <1>2. OfKinds \in Seq(Other)
    <2>1. KindRequest \subseteq Other
      BY RequestTypes DEF KindRequest
    <2> HIDE DEF Other
    <2> QED
      BY <2>1, OfKindsType
  <1> DEFINE front == first \o OfKinds
  <1>3. front \in Seq(Other)
    BY <1>1, <1>2, JoinedType
  <1>4. s = front \o last /\ Len(last) = 1 /\ last[1] = Marker
    BY <1>1
  <1>5. \A i \in 1..Len(front) : front[i] \in Other
    <2> HIDE DEF Other, front
    <2> QED
      BY <1>3
  <1>6. s \in Seq(Request)
    BY SyncType, JoinedType
  <1>7. /\ Len(front) \in Nat /\ Len(s) = Len(front) + 1 /\ s[Len(s)] = Marker
        /\ \A i \in 1..Len(front) : s[i] = front[i]
    <2> DEFINE t == front
               u == last
    <2>1. t \in Seq(Other) /\ u \in Seq({Marker}) /\ Len(u) = 1 /\ u[1] = Marker /\ s = t \o u
      BY <1>3, <1>4
    <2> DEFINE All == Other \cup {Marker}
    <2> HIDE DEF t, u, Other
    <2>3. t \in Seq(All) /\ u \in Seq(All) /\ Len(t) \in Nat
      BY <2>1
    <2> HIDE DEF All
    <2>4. /\ Len(t \o u) = Len(t) + Len(u)
          /\ \A i \in 1..Len(t) + Len(u) : (t \o u)[i] = IF i <= Len(t) THEN t[i] ELSE u[i - Len(t)]
      BY <2>3, ConcatProperties
    <2>2. Len(t) \in Nat /\ Len(t \o u) = Len(t) + 1 /\ (t \o u)[Len(t) + 1] = Marker
          /\ \A i \in 1..Len(t) : (t \o u)[i] = t[i]
      BY <2>1, <2>3, <2>4
    <2> QED
      BY <2>1, <2>2 DEF t
  <1>8. Marker.what = "ua"
    BY DEF Marker, Req
  <1> HIDE DEF front, last
  <1>9. \A i \in 1..Len(s) - 1 : s[i] # Marker
    BY <1>5, <1>7, <1>8
  <1>10. \A i \in 1..Len(s) : s[i].what = "sd" => s[i].unit = 0
    <2>1. ASSUME NEW i \in 1..Len(s) PROVE (i \in 1..Len(front) /\ s[i] = front[i]) \/ s[i] = Marker
      BY <1>7
    <2> QED
      BY <1>5, <1>8, <2>1
  <1>11. ASSUME NEW k \in ToSet(Order) PROVE \E i \in 1..Len(s) : s[i] = Req("sd", k, 0)
    <2>1. PICK p \in 1..Len(OfKinds) : OfKinds[p] = Req("sd", k, 0)
      BY KindIsAsked
    <2>2. Len(first) + p \in 1..Len(front) /\ front[Len(first) + p] = OfKinds[p]
      <3> DEFINE t == first
                 u == OfKinds
      <3>1. t \in Seq(Other) /\ u \in Seq(Other) /\ p \in 1..Len(u) /\ front = t \o u
        BY <1>1, <1>2, <2>1 DEF front
      <3> HIDE DEF t, u, Other
      <3>2. Len(t) + p \in 1..Len(t \o u) /\ (t \o u)[Len(t) + p] = u[p]
        BY <3>1
      <3> QED
        BY <3>1, <3>2 DEF t, u
    <2>3. Len(first) + p \in 1..Len(s)
      BY <1>7, <2>2
    <2> QED
      BY <1>7, <2>1, <2>2, <2>3
  <1> QED
    BY <1>6, <1>7, <1>9, <1>10, <1>11

(* What the panel replies to a request.                                     *)
LEMMA ReplyShape ==
  ASSUME NEW r \in Request, r.what # "userid", NEW l \in Reply(r)
  PROVE  /\ l.kind = r.kind /\ l.edition = edition
         /\ r.what # "password" => l.what = r.what
         /\ r.what = "password" => l.what \in {"granted", "refused"}
         /\ r.what # "sd" => l.unit = r.unit
         /\ r.what = "sd" => l.unit = FirstFound(r.kind, r.unit)
         /\ Waits(r) => ~Free(l) /\ Answers(l, r)
         /\ ~Waits(r) => Free(l)
  <1>1. r.what \in {"password", "vn", "ua", "status", "sd", "value"}
    BY DEF Request
  <1>2. CASE r.what = "sd"
    BY <1>2 DEF Reply, Waits, Free, Answers
  <1>3. CASE r.what = "password"
    BY <1>3 DEF Reply, Waits, Free
  <1>4. CASE r.what \in {"vn", "ua", "status", "value"}
    BY <1>4 DEF Reply, Waits, Free, Answers
  <1> QED
    BY <1>1, <1>2, <1>3, <1>4

LEMMA NothingAsked == NoRequest \notin Request /\ Marker \in Request /\ Marker # NoRequest
  BY RequestTypes DEF NoRequest, Request, Marker, Req

(* A line that is handled is either free or the answer to the request that   *)
(* is waited for, and the conversation stays in turn.                        *)
LEMMA TurnKept ==
  ASSUME TypeOK, InTurn, NEW l, Handled(l), Answered(l), UNCHANGED <<described, edition>>
  PROVE  /\ InTurn'
         /\ Free(l) => awaited' = awaited
         /\ ~Free(l) => /\ awaited \in Request /\ awaited.what = l.what
                        /\ l \in Reply(awaited) /\ awaited' = NoRequest
         /\ l.what = "value" => l.edition = edition
  <1>1. /\ Len(Coming) \in Nat /\ 1 \in 1..Len(Coming) /\ Coming[1] = l /\ l \in Line
        /\ Len(Coming') = Len(Coming) - 1
        /\ \A i \in 1..Len(Coming') : /\ i + 1 \in 1..Len(Coming) /\ i + 1 # 1
                                      /\ Coming'[i] = Coming[i + 1]
    BY ComingType DEF Handled
  <1>2. awaited \in Request \/ awaited = NoRequest
    BY DEF TypeOK
  <1>3. /\ awaited' = IF Answers(l, awaited) THEN NoRequest ELSE awaited
        /\ \A i \in 1..Len(Coming) : Coming[i].what = "value" => Coming[i].edition = edition
        /\ \A i \in 1..Len(Coming') : Coming'[i].what = "value" => Coming'[i].edition = edition'
    BY <1>1 DEF Answered, InTurn
  <1>4. CASE Free(l)
    <2>1. ~Answers(l, awaited)
      BY <1>2, <1>4 DEF Free, Answers, Request, NoRequest
    <2>2. awaited' = awaited /\ Reply(awaited)' = Reply(awaited) /\ Waits(awaited)' = Waits(awaited)
      BY <1>3, <2>1 DEF Reply, FirstFound, Found, Waits
    <2>3. CASE awaited = NoRequest
      <3>1. \A i \in 1..Len(Coming') : Free(Coming'[i])
        BY <1>1, <2>3 DEF InTurn
      <3> QED
        BY <1>1, <1>3, <1>4, <2>2, <2>3, <3>1 DEF InTurn, Free
    <2>4. CASE awaited # NoRequest
      <3>1. PICK i \in 1..Len(Coming) : Coming[i] \in Reply(awaited) /\ FreeBut(i) /\ Waits(awaited)
        BY <2>4 DEF InTurn
      <3>2. awaited.what # "userid"
        BY <3>1 DEF Waits
      <3>3. i # 1
        BY <1>1, <1>2, <1>4, <2>4, <3>1, <3>2, ReplyShape
      <3>4. i - 1 \in 1..Len(Coming') /\ Coming'[i - 1] = Coming[i]
        BY <1>1, <3>1, <3>3
      <3>5. ASSUME NEW j \in 1..Len(Coming'), j # i - 1 PROVE Free(Coming'[j])
        BY <1>1, <3>1, <3>5 DEF FreeBut
      <3>6. FreeBut(i - 1)'
        BY <3>5 DEF FreeBut, Free
      <3> QED
        BY <1>1, <1>3, <1>4, <2>2, <2>4, <3>1, <3>4, <3>6 DEF InTurn
    <2> QED
      BY <2>3, <2>4
  <1>5. CASE ~Free(l)
    <2>1. awaited # NoRequest
      BY <1>1, <1>5 DEF InTurn
    <2>2. PICK i \in 1..Len(Coming) : Coming[i] \in Reply(awaited) /\ FreeBut(i) /\ Waits(awaited)
      BY <2>1 DEF InTurn
    <2>3. i = 1
      BY <1>1, <1>5, <2>2 DEF FreeBut
    <2>4. l \in Reply(awaited) /\ awaited.what \notin {"userid", "password"}
      BY <1>1, <2>2, <2>3 DEF Waits
    <2>5. Answers(l, awaited) /\ awaited.what = l.what /\ l.edition = edition
      BY <1>2, <2>1, <2>2, <2>4, ReplyShape
    <2>6. awaited' = NoRequest
      BY <1>3, <2>5
    <2>7. \A j \in 1..Len(Coming') : Free(Coming'[j])
      BY <1>1, <2>2, <2>3 DEF FreeBut
    <2> QED
      BY <1>2, <1>3, <1>5, <2>1, <2>4, <2>5, <2>6, <2>7 DEF InTurn, Free
  <1> QED
    BY <1>1, <1>3, <1>4, <1>5

(* A synchronisation that begins when nothing else is going on.             *)
LEMMA FreshStart ==
  ASSUME TypeOK, NEW s, s = Sync \/ s = Credentials \o Sync, Begin(s), queue = <<>>, ~paused,
         awaited' = NoRequest, Coming' = <<>>, UNCHANGED <<described, edition>>
  PROVE  InTurn' /\ MarkerIsLast' /\ Progress'
  <1>1. /\ s \in Seq(Request) /\ Len(s) \in Nat \ {0} /\ s[Len(s)] = Marker
        /\ \A i \in 1..Len(s) - 1 : s[i] # Marker
        /\ \A i \in 1..Len(s) : s[i].what = "sd" => s[i].unit = 0
        /\ \A k \in ToSet(Order) : \E i \in 1..Len(s) : s[i] = Req("sd", k, 0)
    BY SyncAsks
  <1>2. queue' = s /\ textDesc' = ToSet(Order)
    <2>1. queue' = queue \o s /\ textDesc' = ToSet(Order)
      BY KindsType DEF Begin, Queued
    <2> QED
      BY <1>1, <2>1
  <1>3. Len(Coming') = 0 /\ 1..Len(Coming') = {}
    <2>1. Len(Coming') = 0
      OBVIOUS
    <2> QED
      BY <2>1
  <1>4. InTurn'
    BY <1>3 DEF InTurn
  <1>5. s # <<>>
    BY <1>1
  <1>6. MarkerIsLast'
    <2>1. Marker' = Marker /\ awaited' # Marker
      BY NothingAsked DEF Marker, Req
    <2> QED
      BY <1>1, <1>2, <1>3, <1>5, <2>1 DEF MarkerIsLast
  <1>7. Asks' = {s[i] : i \in 1..Len(s)} \cup {NoRequest}
    BY <1>2 DEF Asks
  <1>8. \A e \in Known' : e[1] \in ToSet(Order) /\ e[2] \in Nat
    <2>1. Known' \subseteq ToSet(Order) \X (0..MaxUnit)
      BY SynchronizationAssumption DEF Known, TypeOK
    <2> QED
      BY <2>1
  <1>9. ASSUME NEW e \in Known' PROVE WillBeRead(e)'
    <2>1. Req("sd", e[1], 0) \in Asks'
      BY <1>1, <1>7, <1>8
    <2>2. AsksFor(Req("sd", e[1], 0), e)
      BY <1>8 DEF AsksFor, Req
    <2> QED
      BY <1>2, <1>8, <2>1, <2>2 DEF WillBeRead
  <1>10. ASSUME NEW r \in Asks', r.what = "sd" PROVE r.unit = 0
    BY <1>1, <1>7, <1>10 DEF NoRequest
  <1>11. Progress'
    BY <1>8, <1>9, <1>10 DEF Progress
  <1> QED
    BY <1>4, <1>6, <1>11

(* A pause and its end leave everything else alone.                         *)
LEMMA PauseKeepsOrder ==
  ASSUME TypeOK, Undisturbed, Coming' = Coming \/ \E l \in Line : Gained(l) /\ l.what \in {"rp_on", "rp_off"},
         UNCHANGED <<up, disturbed, queue, awaited, uaHandler, textDesc, name, value, described, edition>>
  PROVE  Undisturbed'
  <1> SUFFICES ASSUME up, ~disturbed, up', ~disturbed'
               PROVE  InTurn' /\ (uaHandler' => MarkerIsLast' /\ Progress')
    BY DEF Undisturbed
  <1>1. Len(Coming) \in Nat /\ InTurn /\ (uaHandler => MarkerIsLast /\ Progress)
    BY ComingType DEF Undisturbed
  <1>2. /\ \A i \in 1..Len(Coming) : i \in 1..Len(Coming') /\ Coming'[i] = Coming[i]
        /\ \A i \in 1..Len(Coming') : \/ i \in 1..Len(Coming)
                                      \/ Coming'[i].what \in {"rp_on", "rp_off"}
    BY <1>1 DEF Gained
  <1>3. InTurn'
    <2>1. Reply(awaited)' = Reply(awaited) /\ Waits(awaited)' = Waits(awaited)
      BY DEF Reply, FirstFound, Found, Waits
    <2>2. ASSUME NEW i \in 1..Len(Coming), FreeBut(i) PROVE FreeBut(i)'
      BY <1>2, <2>2 DEF FreeBut, Free
    <2>3. awaited = NoRequest => \A i \in 1..Len(Coming') : Free(Coming'[i])
      BY <1>1, <1>2 DEF InTurn, Free
    <2>4. ASSUME awaited # NoRequest
          PROVE  Waits(awaited) /\ \E i \in 1..Len(Coming') : Coming'[i] \in Reply(awaited) /\ FreeBut(i)'
      BY <1>1, <1>2, <2>2, <2>4 DEF InTurn
    <2>5. \A i \in 1..Len(Coming') : Coming'[i].what = "value" => Coming'[i].edition = edition
      BY <1>1, <1>2 DEF InTurn
    <2> QED
      BY <2>1, <2>3, <2>4, <2>5 DEF InTurn, Free
  <1>4. ASSUME uaHandler PROVE MarkerIsLast' /\ Progress'
    <2>1. Asks' = Asks /\ Known' = Known /\ \A e : ValueComes(e) => ValueComes(e)'
      BY <1>2 DEF Asks, Known, ValueComes
    <2>2. Progress'
      BY <1>1, <1>4, <2>1 DEF Progress, Done, WillBeRead
    <2>3. ASSUME NEW i \in 1..Len(Coming'), NEW j \in 1..Len(Coming'), i < j, Coming'[i].what = "ua"
          PROVE  Coming'[j].what \in {"rp_on", "rp_off"}
      BY <1>1, <1>2, <1>4, <2>3 DEF MarkerIsLast
    <2> QED
      BY <1>1, <1>4, <2>2, <2>3 DEF MarkerIsLast, Marker
  <1> QED
    BY <1>3, <1>4

(* Steps that read nothing new keep what was reached.                       *)
LEMMA ProgressKept ==
  ASSUME Progress, UNCHANGED <<textDesc, described>>,
         \A r \in Asks : r.what = "sd" => r \in Asks',
         \A r \in Asks' : r.what = "sd" => r \in Asks,
         \A e \in Known : Done(e) => Done(e)'
  PROVE  Progress'
  <1>1. Known' = Known
    BY DEF Known
  <1>2. ASSUME NEW e \in Known, WillBeRead(e) PROVE WillBeRead(e)'
    BY <1>2 DEF WillBeRead, AsksFor
  <1> QED
    BY <1>1, <1>2 DEF Progress

LEMMA ReplyKept ==
  ASSUME NEW r, awaited' = r, UNCHANGED <<described, edition>>
  PROVE  Reply(awaited)' = Reply(r) /\ (Waits(awaited)' <=> Waits(r))
  <1>1. FirstFound(awaited.kind, awaited.unit)' = FirstFound(r.kind, r.unit)
    BY DEF FirstFound, Found
  <1>2. Reply(awaited)' = Reply(r)
    BY <1>1 DEF Reply
  <1> QED
    BY <1>2 DEF Waits

(* The next request goes to the panel.                                      *)
LEMMA WriteKeepsOrder ==
  ASSUME TypeOK, Undisturbed, Write
  PROVE  Undisturbed'
  <1> DEFINE r == Head(queue)
  <1>1. /\ up /\ up' = up /\ awaited = NoRequest /\ queue # <<>> /\ queue' = Tail(queue)
        /\ awaited' = IF Waits(r) THEN r ELSE NoRequest
        /\ UNCHANGED <<uaHandler, textDesc, name, value, described, edition>>
        /\ (disturbed => disturbed')
    BY DEF Write, elkVars
  <1> SUFFICES ASSUME ~disturbed' PROVE InTurn' /\ (uaHandler' => MarkerIsLast' /\ Progress')
    BY DEF Undisturbed
  <1>2. Len(Coming) \in Nat /\ InTurn /\ (uaHandler => MarkerIsLast /\ Progress)
    BY <1>1, ComingType DEF Undisturbed
  <1>3. /\ r \in Request /\ r = queue[1] /\ Len(queue) \in Nat \ {0} /\ Len(queue') = Len(queue) - 1
        /\ \A i \in 1..Len(queue') : queue'[i] = queue[i + 1] /\ i + 1 \in 1..Len(queue)
        /\ (queue' = <<>>) <=> (Len(queue) = 1)
    <2>1. queue \in Seq(Request)
      BY DEF TypeOK
    <2>2. /\ r \in Request /\ r = queue[1] /\ Len(queue) \in Nat \ {0} /\ queue' \in Seq(Request)
          /\ Len(queue') = Len(queue) - 1
      BY <1>1, <2>1
    <2>3. \A i \in 1..Len(queue') : queue'[i] = queue[i + 1] /\ i + 1 \in 1..Len(queue)
      BY <1>1, <2>1
    <2>4. queue' = <<>> <=> Len(queue') = 0
      BY <2>2
    <2> QED
      BY <2>2, <2>3, <2>4
  <1>4. \/ r.what # "userid" /\ \E l \in Reply(r) : l \in Line /\ Gained(l)
        \/ r.what = "userid" /\ Coming' = Coming
    <2>1. ~Mute(r) => r.what # "userid"
      BY DEF Mute
    <2> QED
      BY <2>1, WriteGains
  <1>5. \A i \in 1..Len(Coming) : Free(Coming[i]) /\ i \in 1..Len(Coming') /\ Coming'[i] = Coming[i]
    BY <1>1, <1>2, <1>4 DEF InTurn, Gained
  <1>6. \A i \in 1..Len(Coming') : \/ i \in 1..Len(Coming)
                                   \/ i = Len(Coming) + 1 /\ r.what # "userid" /\ Coming'[i] \in Reply(r)
    BY <1>2, <1>4 DEF Gained
  <1>7. r.what # "userid" => Len(Coming) + 1 \in 1..Len(Coming') /\ Coming'[Len(Coming) + 1] \in Reply(r)
    BY <1>2, <1>4 DEF Gained
  <1> HIDE DEF r
  <1>8. /\ Waits(r) => r.what # "userid"
        /\ r.what = "sd" => Waits(r)
        /\ r = Marker => Waits(r)
        /\ r # NoRequest
    BY <1>3, NothingAsked DEF Waits, Marker, Req
  <1>9. InTurn'
    <2>1. \A i \in 1..Len(Coming') : Coming'[i].what = "value" => Coming'[i].edition = edition
      BY <1>2, <1>3, <1>5, <1>6, ReplyShape DEF InTurn
    <2>2. CASE Waits(r)
      <3>1. awaited' = r /\ Reply(awaited)' = Reply(r) /\ (Waits(awaited)' <=> Waits(r))
        BY <1>1, <2>2, ReplyKept
      <3>2. PICK n \in Nat : n = Len(Coming) + 1
        BY <1>2
      <3>3. FreeBut(n)'
        BY <1>5, <1>6, <3>2 DEF FreeBut, Free
      <3> QED
        BY <1>1, <1>7, <1>8, <2>1, <2>2, <3>1, <3>2, <3>3 DEF InTurn
    <2>3. CASE ~Waits(r)
      <3>1. awaited' = NoRequest /\ \A i \in 1..Len(Coming') : Free(Coming'[i])
        BY <1>1, <1>3, <1>5, <1>6, <2>3, ReplyShape
      <3> QED
        BY <1>1, <2>1, <3>1 DEF InTurn, Free
    <2> QED
      BY <2>2, <2>3
  <1>10. ASSUME uaHandler PROVE MarkerIsLast'
    <2>1. Marker' = Marker
      BY DEF Marker, Req
    <2>2. ASSUME NEW i \in 1..Len(Coming'), NEW j \in 1..Len(Coming'), i < j PROVE Coming'[i].what # "ua"
      <3>1. i \in 1..Len(Coming) /\ Free(Coming[i]) /\ Coming'[i] = Coming[i]
        BY <1>2, <1>5, <1>6, <2>2
      <3> QED
        BY <3>1 DEF Free
    <2>3. queue[Len(queue)] = Marker /\ \A i \in 1..Len(queue) - 1 : queue[i] # Marker
      BY <1>1, <1>2, <1>10 DEF MarkerIsLast
    <2>4. CASE Len(queue) = 1
      BY <1>1, <1>3, <1>8, <2>1, <2>2, <2>3, <2>4 DEF MarkerIsLast
    <2>5. CASE Len(queue) # 1
      <3>1. r # Marker /\ awaited' # Marker
        BY <1>1, <1>3, <2>3, <2>5, NothingAsked
      <3>2. queue' # <<>> /\ Len(queue') \in Nat \ {0} /\ queue'[Len(queue')] = Marker
        BY <1>3, <2>3, <2>5
      <3>3. \A i \in 1..Len(queue') - 1 : queue'[i] # Marker
        BY <1>3, <2>3, <2>5
      <3> QED
        BY <2>1, <2>2, <3>1, <3>2, <3>3 DEF MarkerIsLast
    <2> QED
      BY <2>4, <2>5
  <1>11. ASSUME uaHandler PROVE Progress'
    <2>1. /\ \A q \in Asks : q \in Asks' \/ q = NoRequest \/ (q = r /\ ~Waits(r))
          /\ \A q \in Asks' : q \in Asks \/ q = NoRequest
      <3>1. r \in Asks /\ r = queue[1]
        BY <1>3 DEF Asks
      <3>2. ASSUME NEW i \in 1..Len(queue) PROVE queue[i] = r \/ \E j \in 1..Len(queue') : queue'[j] = queue[i]
        <4>1. i # 1 => i - 1 \in 1..Len(queue') /\ queue'[i - 1] = queue[i]
          BY <1>3
        <4> QED
          BY <3>1, <4>1
      <3>3. ASSUME NEW j \in 1..Len(queue') PROVE \E i \in 1..Len(queue) : queue[i] = queue'[j]
        BY <1>3
      <3> QED
        BY <1>1, <3>1, <3>2, <3>3 DEF Asks
    <2>2. /\ \A q \in Asks : q.what = "sd" => q \in Asks'
          /\ \A q \in Asks' : q.what = "sd" => q \in Asks
      BY <1>8, <2>1 DEF NoRequest
    <2>3. ASSUME NEW e, ValueComes(e) PROVE ValueComes(e)'
      <3>1. CASE value[e] = edition
        BY <1>1, <3>1 DEF ValueComes
      <3>2. CASE Req("value", e[1], e[2]) \in Asks
        <4>1. Req("value", e[1], e[2]) # NoRequest
          BY DEF Req, NoRequest
        <4>2. CASE Req("value", e[1], e[2]) \in Asks'
          BY <4>2 DEF ValueComes, Req
        <4>3. CASE Req("value", e[1], e[2]) = r
          <5>1. r.what = "value" /\ r.kind = e[1] /\ r.unit = e[2]
            BY <4>3 DEF Req
          <5>2. \E i \in 1..Len(Coming') :
                  Coming'[i].what = "value" /\ Coming'[i].kind = e[1] /\ Coming'[i].unit = e[2]
            BY <1>3, <1>7, <5>1, ReplyShape
          <5> QED
            BY <5>2 DEF ValueComes
        <4> QED
          BY <2>1, <3>2, <4>1, <4>2, <4>3
      <3>3. CASE \E i \in 1..Len(Coming) :
                    Coming[i].what = "value" /\ Coming[i].kind = e[1] /\ Coming[i].unit = e[2]
        <4>1. \E i \in 1..Len(Coming') :
                Coming'[i].what = "value" /\ Coming'[i].kind = e[1] /\ Coming'[i].unit = e[2]
          BY <1>5, <3>3
        <4> QED
          BY <4>1 DEF ValueComes
      <3> QED
        BY <2>3, <3>1, <3>2, <3>3 DEF ValueComes
    <2>4. \A e \in Known : Done(e) => Done(e)'
      BY <1>1, <2>3 DEF Done
    <2> QED
      BY <1>1, <1>2, <1>11, <2>2, <2>4, ProgressKept
  <1> QED
    BY <1>1, <1>9, <1>10, <1>11

(* What a line that is handled leaves.                                      *)
IsValueOf(l, e) == l.what = "value" /\ l.kind = e[1] /\ l.unit = e[2]
LEMMA LinesLeft ==
  ASSUME TypeOK, NEW l, Handled(l)
  PROVE  /\ l \in Line
         /\ \A e : (\E i \in 1..Len(Coming) : IsValueOf(Coming[i], e))
                      => IsValueOf(l, e) \/ \E i \in 1..Len(Coming') : IsValueOf(Coming'[i], e)
         /\ MarkerIsLast => \A i, j \in 1..Len(Coming') :
               i < j /\ Coming'[i].what = "ua" => Coming'[j].what \in {"rp_on", "rp_off"}
  <1>1. /\ Len(Coming) \in Nat /\ 1 \in 1..Len(Coming) /\ Coming[1] = l /\ l \in Line
        /\ Len(Coming') = Len(Coming) - 1
        /\ \A i \in 1..Len(Coming') : i + 1 \in 1..Len(Coming) /\ Coming'[i] = Coming[i + 1]
    BY ComingType DEF Handled
  <1>2. ASSUME NEW i \in 1..Len(Coming), i # 1
        PROVE  i - 1 \in 1..Len(Coming') /\ Coming'[i - 1] = Coming[i]
    BY <1>1, <1>2
  <1>3. ASSUME NEW e, NEW i \in 1..Len(Coming), IsValueOf(Coming[i], e)
        PROVE  IsValueOf(l, e) \/ \E j \in 1..Len(Coming') : IsValueOf(Coming'[j], e)
    BY <1>1, <1>2, <1>3
  <1>4. ASSUME MarkerIsLast, NEW i \in 1..Len(Coming'), NEW j \in 1..Len(Coming'), i < j,
               Coming'[i].what = "ua"
        PROVE  Coming'[j].what \in {"rp_on", "rp_off"}
    <2>1. i + 1 < j + 1
      BY <1>1, <1>4
    <2> QED
      BY <1>1, <1>4, <2>1 DEF MarkerIsLast
  <1> QED
    BY <1>1, <1>3, <1>4

LEMMA KnownIsElement ==
  ASSUME TypeOK
  PROVE  \A e \in Known : /\ e \in Element /\ e = <<e[1], e[2]>> /\ e[1] \in Kind /\ e[2] \in Unit
                          /\ e \in described /\ e \notin Unnamed
  <1>1. Known \subseteq Kind \X Unit
    BY SynchronizationAssumption, KindsType DEF TypeOK, Known, Unit
  <1> QED
    BY <1>1 DEF Element, Known

(* A line that is no description changes at most a value.                   *)
LEMMA OthersKeepOrder ==
  ASSUME TypeOK, InTurn, MarkerIsLast, Progress, NEW l, Handled(l), Answered(l),
         l.what \notin {"sd", "ua"}, UNCHANGED <<queue, textDesc, name, described, edition>>,
         value' = IF l.what = "value" THEN [value EXCEPT ![<<l.kind, l.unit>>] = l.edition]
                  ELSE value
  PROVE  MarkerIsLast' /\ Progress'
  <1>1. /\ awaited' = awaited \/ (awaited' = NoRequest /\ awaited \in Request /\ l \in Reply(awaited)
                                    /\ awaited.what = l.what)
        /\ l.what = "value" => l.edition = edition
    BY TurnKept
  <1>2. awaited.what = "sd" \/ awaited = Marker => awaited' = awaited
    BY <1>1 DEF Marker, Req
  <1>3. MarkerIsLast'
    <2>1. Marker' = Marker
      BY DEF Marker, Req
    <2>2. awaited' # Marker \/ awaited = Marker
      BY <1>1, NothingAsked
    <2> QED
      BY <1>2, <2>1, <2>2, LinesLeft DEF MarkerIsLast
  <1>4. /\ \A r \in Asks : r \in Asks' \/ (r = awaited /\ awaited' # awaited)
        /\ \A r \in Asks' : r \in Asks \/ r = NoRequest
    BY <1>1 DEF Asks
  <1>5. ASSUME NEW e \in Known, ValueComes(e) PROVE ValueComes(e)'
    <2>1. e = <<e[1], e[2]>> /\ e \in Element
      BY KnownIsElement
    <2>2. IsValueOf(l, e) => value'[e] = edition
      BY <1>1, <2>1 DEF IsValueOf, TypeOK
    <2>3. value[e] = edition => value'[e] = edition
      BY <1>1, <2>1 DEF TypeOK
    <2>4. ASSUME \E i \in 1..Len(Coming) : IsValueOf(Coming[i], e) PROVE ValueComes(e)'
      <3>1. IsValueOf(l, e) \/ \E i \in 1..Len(Coming') : IsValueOf(Coming'[i], e)
        BY <2>4, LinesLeft
      <3> QED
        BY <2>2, <3>1 DEF ValueComes, IsValueOf
    <2>5. ASSUME Req("value", e[1], e[2]) \in Asks PROVE ValueComes(e)'
      <3>1. CASE Req("value", e[1], e[2]) \in Asks'
        BY <3>1 DEF ValueComes, Req
      <3>2. CASE Req("value", e[1], e[2]) = awaited /\ awaited' # awaited
        <4>1. awaited.what = "value" /\ awaited.kind = e[1] /\ awaited.unit = e[2]
          BY <3>2 DEF Req
        <4>2. IsValueOf(l, e)
          BY <1>1, <3>2, <4>1, ReplyShape DEF IsValueOf
        <4> QED
          BY <2>2, <4>2 DEF ValueComes
      <3> QED
        BY <1>4, <2>5, <3>1, <3>2
    <2> QED
      BY <1>5, <2>3, <2>4, <2>5 DEF ValueComes, IsValueOf
  <1>6. \A e \in Known : Done(e) => Done(e)'
    BY <1>5 DEF Done
  <1>7. /\ \A r \in Asks : r.what = "sd" => r \in Asks'
        /\ \A r \in Asks' : r.what = "sd" => r \in Asks
    BY <1>2, <1>4 DEF NoRequest
  <1>8. Progress'
    BY <1>6, <1>7, ProgressKept
  <1> QED
    BY <1>3, <1>8

(* An SD response: its element is read, and the chain of the kind goes on or *)
(* ends. What is asked next goes ahead of everything queued.                 *)
NextAsked(l) ==
    /\ Req("sd", l.kind, l.unit + 1) \in Asks'
    /\ l.kind \in Counters \cup Thermostats /\ <<l.kind, l.unit>> \notin Unnamed
          => Req("value", l.kind, l.unit) \in Asks'
    /\ \A r \in Asks' : \/ r \in Asks \/ r = NoRequest
                        \/ r = Req("sd", l.kind, l.unit + 1) \/ r = Req("value", l.kind, l.unit)
    /\ \A i \in 1..Len(queue) : queue[i] \in Asks'

LEMMA NextIsAsked ==
  ASSUME TypeOK, NEW l \in Line, l.kind \in Kind, l.unit # NoUnit, awaited' = NoRequest,
         queue # <<>>, queue[Len(queue)] = Marker, \A i \in 1..Len(queue) - 1 : queue[i] # Marker,
         queue' = NextRequests(l) \o queue
  PROVE  /\ NextAsked(l)
         /\ queue' # <<>> /\ queue'[Len(queue')] = Marker
         /\ \A i \in 1..Len(queue') - 1 : queue'[i] # Marker
  <1> DEFINE sd == Req("sd", l.kind, l.unit + 1)
             asked == Req("value", l.kind, l.unit)
             first == NextRequests(l)
  <1>1. first \in Seq(Request) /\ queue \in Seq(Request)
    BY NextRequestsType DEF TypeOK
  <1>2. \/ /\ l.kind \in Counters \cup Thermostats /\ <<l.kind, l.unit>> \notin Unnamed
           /\ first = <<sd>> \o <<asked>>
        \/ /\ ~(l.kind \in Counters \cup Thermostats /\ <<l.kind, l.unit>> \notin Unnamed)
           /\ first = <<sd>> \o <<>>
    BY DEF NextRequests
  <1>3. sd # Marker /\ asked # Marker
    BY DEF Req, Marker
  <1> HIDE DEF sd, asked
  <1>4. \/ /\ l.kind \in Counters \cup Thermostats /\ <<l.kind, l.unit>> \notin Unnamed
           /\ Len(first) = 2 /\ first[1] = sd /\ first[2] = asked
        \/ /\ ~(l.kind \in Counters \cup Thermostats /\ <<l.kind, l.unit>> \notin Unnamed)
           /\ Len(first) = 1 /\ first[1] = sd
    <2> HIDE DEF first
    <2>1. ASSUME first = <<sd>> \o <<asked>> PROVE Len(first) = 2 /\ first[1] = sd /\ first[2] = asked
      BY <2>1
    <2>2. ASSUME first = <<sd>> \o <<>> PROVE Len(first) = 1 /\ first[1] = sd
      BY <2>2
    <2> QED
      BY <1>2, <2>1, <2>2
  <1> HIDE DEF first
  <1>5. Len(first) \in {1, 2} /\ \A i \in 1..Len(first) : first[i] \in {sd, asked}
    BY <1>4
  <1>6. /\ Len(queue') = Len(first) + Len(queue) /\ Len(queue) \in Nat \ {0}
        /\ \A i \in 1..Len(first) : queue'[i] = first[i] /\ i \in 1..Len(queue')
        /\ \A i \in 1..Len(queue) : Len(first) + i \in 1..Len(queue') /\ queue'[Len(first) + i] = queue[i]
        /\ \A i \in 1..Len(queue') : \/ i \in 1..Len(first)
                                     \/ i - Len(first) \in 1..Len(queue) /\ queue'[i] = queue[i - Len(first)]
    <2>1. queue' = first \o queue
      BY DEF first
    <2>2. /\ Len(first \o queue) = Len(first) + Len(queue)
          /\ \A i \in 1..Len(first) + Len(queue) :
                (first \o queue)[i] = IF i <= Len(first) THEN first[i] ELSE queue[i - Len(first)]
      BY <1>1, ConcatProperties
    <2>3. Len(queue) \in Nat \ {0} /\ Len(first) \in Nat
      BY <1>1
    <2> QED
      BY <2>1, <2>2, <2>3
  <1>7. NextAsked(l)
    <2>1. sd \in Asks' /\ (Len(first) = 2 => asked \in Asks')
      <3>1. \A i \in 1..Len(queue') : queue'[i] \in Asks'
        BY DEF Asks
      <3>2. ASSUME NEW i \in 1..Len(first) PROVE first[i] \in Asks'
        BY <1>6, <3>1
      <3>3. first[1] = sd /\ 1 \in 1..Len(first)
        BY <1>4
      <3>4. Len(first) = 2 => first[2] = asked /\ 2 \in 1..Len(first)
        BY <1>4
      <3> QED
        BY <3>2, <3>3, <3>4
    <2>2. \A i \in 1..Len(queue) : queue[i] \in Asks'
      BY <1>6 DEF Asks
    <2>3. \A r \in Asks' : r \in Asks \/ r = NoRequest \/ r = sd \/ r = asked
      BY <1>5, <1>6 DEF Asks
    <2> QED
      BY <1>4, <2>1, <2>2, <2>3 DEF NextAsked, sd, asked
  <1>8. \A i \in 1..Len(queue') - 1 : queue'[i] # Marker
    BY <1>3, <1>5, <1>6
  <1>9. queue'[Len(queue')] = Marker /\ queue' # <<>>
    <2>1. Len(queue') # 0 /\ Len(queue) \in 1..Len(queue) /\ Len(first) + Len(queue) = Len(queue')
      BY <1>5, <1>6
    <2>2. queue'[Len(queue')] = queue[Len(queue)]
      BY <1>6, <2>1
    <2>3. queue' # <<>>
      BY <2>1
    <2> QED
      BY <2>2, <2>3
  <1> QED
    BY <1>7, <1>8, <1>9

LEMMA DescriptionKeepsOrder ==
  ASSUME TypeOK, InTurn, MarkerIsLast, Progress, ~paused, NEW l, Handled(l), HandleDescription(l),
         UNCHANGED <<described, edition>>
  PROVE  MarkerIsLast' /\ Progress'
  <1> DEFINE a == awaited
             k == l.kind
             u == l.unit
  <1>1. l.what = "sd" /\ Answered(l) /\ value' = value
    BY DEF HandleDescription
  <1>2. /\ a \in Request /\ a.what = "sd" /\ l \in Reply(a) /\ awaited' = NoRequest
        /\ l \in Line
    BY <1>1, TurnKept, LinesLeft DEF Free
  <1>3. k = a.kind /\ u = FirstFound(k, a.unit) /\ l.edition = edition /\ k \in Kind /\ a.unit \in Nat
    <2>1. k = a.kind /\ u = FirstFound(k, a.unit) /\ l.edition = edition
      BY <1>2, ReplyShape
    <2>2. a.kind \in Kind /\ a.unit \in Nat
      BY <1>2, UnitBounds DEF Request, Unit
    <2> QED
      BY <2>1, <2>2
  <1>4. /\ queue # <<>> /\ queue[Len(queue)] = Marker
        /\ \A i \in 1..Len(queue) - 1 : queue[i] # Marker
    BY <1>2 DEF MarkerIsLast, Marker, Req
  <1>5. /\ \A i, j \in 1..Len(Coming') :
              i < j /\ Coming'[i].what = "ua" => Coming'[j].what \in {"rp_on", "rp_off"}
        /\ awaited' # Marker /\ Marker' = Marker /\ a \in Asks
    BY <1>2, LinesLeft, NothingAsked DEF Marker, Req, Asks
  (* The elements that the request has in view come at or after the found one. *)
  <1>6. ASSUME NEW e \in Known, e[1] = k, a.unit <= e[2]
        PROVE  u # NoUnit /\ u \in Unit /\ u <= e[2]
    <2>1. e = <<k, e[2]>> /\ e[2] \in Unit /\ e \in described
      BY <1>6, KnownIsElement
    <2>2. e[2] \in Found(k, a.unit)
      BY <1>6, <2>1 DEF Found
    <2> QED
      BY <1>3, <2>2, FirstFoundType
  (* What is done stays done: the value of an element may be on its way.      *)
  <1>7. ASSUME NEW e \in Known, Done(e), name'[e] \in {name[e], edition},
               Req("value", e[1], e[2]) \in Asks => Req("value", e[1], e[2]) \in Asks'
        PROVE  Done(e)'
    <2>1. ASSUME ValueComes(e) PROVE ValueComes(e)'
      <3>1. CASE value[e] = edition \/ Req("value", e[1], e[2]) \in Asks
        BY <1>1, <1>7, <3>1 DEF ValueComes, Req
      <3>2. CASE \E i \in 1..Len(Coming) : IsValueOf(Coming[i], e)
        <4>1. ~IsValueOf(l, e)
          BY <1>1 DEF IsValueOf
        <4>2. \E i \in 1..Len(Coming') : IsValueOf(Coming'[i], e)
          BY <3>2, <4>1, LinesLeft
        <4> QED
          BY <4>2 DEF ValueComes, IsValueOf
      <3> QED
        BY <2>1, <3>1, <3>2 DEF ValueComes, IsValueOf
    <2> QED
      BY <1>7, <2>1 DEF Done
  <1>8. Known' = Known
    BY DEF Known
  <1> HIDE DEF a, k, u
  <1>9. CASE /\ l.kind \in textDesc /\ l.unit # NoUnit
             /\ name' = IF <<l.kind, l.unit>> \in Unnamed THEN name
                        ELSE [name EXCEPT ![<<l.kind, l.unit>>] = l.edition]
             /\ queue' = QueuedFirst(queue, NextRequests(l))
             /\ UNCHANGED textDesc
    <2>1. queue' = NextRequests(l) \o queue
      BY <1>9 DEF QueuedFirst
    <2>2. /\ NextAsked(l)
          /\ queue' # <<>> /\ queue'[Len(queue')] = Marker /\ \A i \in 1..Len(queue') - 1 : queue'[i] # Marker
      BY <1>2, <1>3, <1>4, <1>9, <2>1, NextIsAsked DEF k
    <2>3. MarkerIsLast'
      BY <1>5, <2>2 DEF MarkerIsLast
    <2>4. \A r \in Asks : r = a \/ r \in Asks'
      BY <2>2 DEF Asks, NextAsked, a
    <2>5. u \in Unit /\ <<k, u>> \in Element
      BY <1>2, <1>3, <1>9 DEF u, k, Line, Element
    <2>6. ASSUME NEW e \in Known PROVE e \in Element /\ name'[e] \in {name[e], edition}
      <3>1. e \in Element
        BY KnownIsElement
      <3> QED
        BY <1>3, <1>9, <2>5, <3>1 DEF u, k, TypeOK
    <2>7. ASSUME NEW e \in Known, Done(e) PROVE Done(e)'
      <3>1. Req("value", e[1], e[2]) # a
        BY <1>2 DEF Req
      <3> QED
        BY <1>7, <2>4, <2>6, <2>7, <3>1
    <2>8. ASSUME NEW e \in Known, e[1] = k, e[2] = u PROVE Done(e)'
      <3>1. e = <<k, u>> /\ e \notin Unnamed /\ e \in Element
        BY <2>8, KnownIsElement
      <3>2. name'[e] = edition
        BY <1>3, <1>9, <3>1 DEF k, u, TypeOK
      <3>3. k \in Counters \cup Thermostats => Req("value", k, u) \in Asks'
        BY <2>2, <3>1 DEF NextAsked, k, u
      <3> QED
        BY <2>8, <3>2, <3>3 DEF Done, ValueComes, Req
    <2>9. ASSUME NEW e \in Known PROVE Done(e)' \/ WillBeRead(e)'
      <3>1. CASE Done(e)
        BY <2>7, <3>1
      <3>2. CASE WillBeRead(e)
        <4>1. e[1] \in textDesc'
          BY <1>9, <3>2 DEF WillBeRead
        <4>2. PICK r \in Asks : AsksFor(r, e)
          BY <3>2 DEF WillBeRead
        <4>3. CASE r \in Asks'
          BY <4>1, <4>2, <4>3 DEF WillBeRead, AsksFor
        <4>4. CASE r = a
          <5>1. e[1] = k /\ a.unit <= e[2]
            BY <1>3, <4>2, <4>4 DEF AsksFor
          <5>2. u <= e[2] /\ e[2] \in Nat /\ u \in Nat
            BY <1>6, <2>5, <5>1, KnownIsElement, UnitBounds DEF Unit
          <5>3. CASE u = e[2]
            BY <2>8, <5>1, <5>3
          <5>4. CASE u # e[2]
            <6>1. AsksFor(Req("sd", k, u + 1), e)
              BY <5>1, <5>2, <5>4 DEF AsksFor, Req
            <6>2. Req("sd", k, u + 1) \in Asks'
              BY <2>2 DEF NextAsked, k, u
            <6> QED
              BY <4>1, <6>1, <6>2 DEF WillBeRead, AsksFor
          <5> QED
            BY <5>3, <5>4
        <4> QED
          BY <2>4, <4>3, <4>4
      <3> QED
        BY <3>1, <3>2 DEF Progress
    <2>10. ASSUME NEW r \in Asks', r.what = "sd", NEW e \in Known, e[1] = r.kind, e[2] < r.unit
           PROVE  Done(e)'
      <3>1. CASE r \in Asks
        BY <2>7, <2>10, <3>1 DEF Progress
      <3>2. CASE r = Req("sd", k, u + 1)
        <4>1. e[1] = k /\ e[2] \in Nat /\ u \in Nat /\ e[2] <= u
          BY <2>5, <2>10, <3>2, KnownIsElement, UnitBounds DEF Unit, Req
        <4>2. CASE e[2] = u
          BY <2>8, <4>1, <4>2
        <4>3. CASE e[2] < u
          <5>1. e[2] < a.unit
            BY <1>3, <1>6, <4>1, <4>3
          <5>2. Done(e)
            BY <1>2, <1>3, <1>5, <4>1, <5>1 DEF Progress
          <5> QED
            BY <2>7, <5>2
        <4> QED
          BY <4>1, <4>2, <4>3
      <3> QED
        BY <2>2, <2>10, <3>1, <3>2 DEF NextAsked, NoRequest, Req, k, u
    <2> QED
      BY <1>8, <2>3, <2>9, <2>10 DEF Progress
  <1>10. CASE /\ l.kind \in textDesc => l.unit = NoUnit
              /\ textDesc' = textDesc \ {l.kind}
              /\ UNCHANGED <<name, queue>>
    <2>1. MarkerIsLast'
      BY <1>4, <1>5, <1>10 DEF MarkerIsLast
    <2>2. /\ \A r \in Asks : r = a \/ r \in Asks'
          /\ \A r \in Asks' : r \in Asks \/ r = NoRequest
      BY <1>2, <1>10 DEF Asks, a
    <2>3. ASSUME NEW e \in Known, Done(e) PROVE Done(e)'
      <3>1. Req("value", e[1], e[2]) # a
        BY <1>2 DEF Req
      <3> QED
        BY <1>7, <1>10, <2>2, <2>3, <3>1
    <2>4. ASSUME NEW e \in Known PROVE Done(e)' \/ WillBeRead(e)'
      <3>1. CASE Done(e)
        BY <2>3, <3>1
      <3>2. CASE WillBeRead(e) /\ e[1] # k
        <4>1. PICK r \in Asks : AsksFor(r, e)
          BY <3>2 DEF WillBeRead
        <4>2. r # a /\ e[1] \in textDesc'
          BY <1>3, <1>10, <3>2, <4>1 DEF AsksFor, WillBeRead, k
        <4> QED
          BY <2>2, <4>1, <4>2 DEF WillBeRead, AsksFor
      <3>3. CASE WillBeRead(e) /\ e[1] = k
        <4>1. u = NoUnit
          BY <1>10, <3>3 DEF WillBeRead, k, u
        <4>2. ~(a.unit <= e[2]) /\ e[2] \in Nat
          BY <1>6, <3>3, <4>1, KnownIsElement, UnitBounds DEF Unit
        <4>3. Done(e)
          BY <1>2, <1>3, <1>5, <3>3, <4>2 DEF Progress
        <4> QED
          BY <2>3, <4>3
      <3> QED
        BY <3>1, <3>2, <3>3 DEF Progress
    <2>5. ASSUME NEW r \in Asks', r.what = "sd", NEW e \in Known, e[1] = r.kind, e[2] < r.unit
          PROVE  Done(e)'
      BY <2>2, <2>3, <2>5 DEF Progress, NoRequest
    <2> QED
      BY <1>8, <2>1, <2>4, <2>5 DEF Progress
  <1> QED
    BY <1>9, <1>10 DEF HandleDescription

LEMMA HandleKeepsOrder ==
  ASSUME TypeOK, Between, Undisturbed, HandleLine
  PROVE  Undisturbed'
  <1> DEFINE l == Head(hand)
  <1>1. /\ hand # <<>> /\ hand' = Tail(hand) /\ UNCHANGED <<described, edition>>
        /\ \/ HandleDescription(l) \/ HandleValue(l) \/ HandleLogin(l) \/ HandleVersion(l)
           \/ HandleRefusal(l) \/ HandleUA(l) \/ HandleExit(l) \/ HandleProgramming(l)
    BY DEF HandleLine
  <1>2. line' = line => Handled(l)
    BY <1>1, FirstIsHandled
  <1>3. hand \in Seq(Line) /\ Len(hand) \in Nat \ {0} /\ l \in Line
    BY <1>1, RestType DEF TypeOK
  <1> HIDE DEF l
  <1> SUFFICES ASSUME up', ~disturbed'
               PROVE  InTurn' /\ (uaHandler' => MarkerIsLast' /\ Progress')
    BY DEF Undisturbed
  <1>4. CASE HandleExit(l)
    <2>1. /\ Begin(Sync) /\ ~paused /\ queue = <<>> /\ awaited = NoRequest /\ awaited' = awaited
          /\ Len(hand) = 1 /\ line = <<>> /\ line' = <<>>
      <3>1. /\ Begin(Sync) /\ ~paused /\ queue = <<>> /\ awaited = NoRequest /\ awaited' = awaited
            /\ ~(Len(hand) > 1) /\ line = <<>> /\ line' = line
        BY <1>4, Zenon DEF HandleExit
      <3> QED
        BY <1>3, <3>1
    <2>2. hand' = <<>>
      BY <1>1, <1>3, <2>1
    <2>3. Coming' = <<>>
      BY <2>1, <2>2 DEF Coming
    <2> QED
      BY <1>1, <2>1, <2>3, FreshStart
  <1>5. CASE HandleRefusal(l)
    BY <1>5 DEF HandleRefusal, Disconnect
  <1>6. ASSUME UNCHANGED <<up, line, disturbed>>, Answered(l)
        PROVE  /\ InTurn /\ InTurn' /\ Handled(l) /\ ~paused
               /\ (uaHandler => MarkerIsLast /\ Progress)
    BY <1>1, <1>2, <1>6, TurnKept DEF Undisturbed, Between
  <1>7. CASE HandleUA(l)
    BY <1>6, <1>7 DEF HandleUA, Disconnect
  <1>8. CASE HandleDescription(l)
    <2>1. UNCHANGED <<up, line, disturbed, uaHandler>> /\ Answered(l)
      BY <1>8 DEF HandleDescription
    <2> QED
      BY <1>1, <1>6, <1>8, <2>1, DescriptionKeepsOrder
  <1>9. ASSUME UNCHANGED <<up, line, disturbed, uaHandler, queue, textDesc, name>>, Answered(l),
               l.what \notin {"sd", "ua"},
               value' = IF l.what = "value" THEN [value EXCEPT ![<<l.kind, l.unit>>] = l.edition]
                        ELSE value
        PROVE  InTurn' /\ (uaHandler' => MarkerIsLast' /\ Progress')
    BY <1>1, <1>6, <1>9, OthersKeepOrder
  <1>10. CASE HandleValue(l)
    BY <1>9, <1>10 DEF HandleValue
  <1>11. CASE HandleLogin(l)
    BY <1>9, <1>11 DEF HandleLogin
  <1>12. CASE HandleVersion(l)
    BY <1>9, <1>12 DEF HandleVersion, elkVars
  <1>13. CASE HandleProgramming(l)
    <2>1. /\ l.what = "rp_off" /\ awaited' = awaited
          /\ UNCHANGED <<up, line, disturbed, uaHandler, queue, textDesc, name, value>>
      BY <1>13 DEF HandleProgramming, elkVars
    <2>2. ~Answers(l, awaited)
      BY <2>1 DEF Answers, TypeOK, Request, NoRequest
    <2>3. Answered(l)
      BY <2>1, <2>2 DEF Answered
    <2> QED
      BY <1>9, <2>1, <2>3
  <1> QED
    BY <1>1, <1>4, <1>5, <1>7, <1>8, <1>10, <1>11, <1>12, <1>13

LEMMA NextKeepsOrder == TypeOK /\ Between /\ Undisturbed /\ [Next]_vars => Undisturbed'
  <1> SUFFICES ASSUME TypeOK, Between, Undisturbed, [Next]_vars PROVE Undisturbed'
    OBVIOUS
  <1>1. CASE Open
    <2> SUFFICES ASSUME ~disturbed' PROVE InTurn' /\ MarkerIsLast' /\ Progress'
      BY DEF Undisturbed
    <2>1. /\ Begin(Credentials \o Sync) /\ ~paused /\ queue = <<>> /\ awaited = NoRequest
          /\ hand' = <<>> /\ line' = <<>> /\ UNCHANGED <<awaited, described, edition>>
      BY <1>1 DEF Open, Pending
    <2>2. Coming' = <<>>
      BY <2>1 DEF Coming
    <2> QED
      BY <2>1, <2>2, FreshStart
  <1>2. CASE Drop
    BY <1>2 DEF Drop, Disconnect, Undisturbed
  <1>3. CASE Write
    BY <1>3, WriteKeepsOrder
  <1>4. CASE Timeout
    BY <1>4 DEF Timeout, Undisturbed
  <1>5. CASE Read
    <2>1. Coming' = Coming
      BY <1>5, ReadKeepsComing
    <2>2. UNCHANGED <<up, disturbed, queue, awaited, uaHandler, textDesc, name, value, described,
                      edition>>
      BY <1>5 DEF Read, elkVars
    <2> QED
      BY <2>1, <2>2, PauseKeepsOrder
  <1>6. CASE HandleLine
    BY <1>6, HandleKeepsOrder
  <1>7. CASE ExitInstaller
    BY <1>7 DEF ExitInstaller, Undisturbed
  <1>8. CASE Program \/ ProgramDone
    <2>1. /\ Tell("rp_on") \/ Tell("rp_off")
          /\ hand' = hand
          /\ UNCHANGED <<up, disturbed, queue, awaited, uaHandler, textDesc, name, value, described,
                         edition>>
      BY <1>8 DEF Program, ProgramDone, connVars, elkVars
    <2>2. Coming' = Coming \/ \E l \in Line : Gained(l) /\ l.what \in {"rp_on", "rp_off"}
      BY <2>1, TellGains
    <2> QED
      BY <2>1, <2>2, PauseKeepsOrder
  <1>9. CASE UNCHANGED vars
    <2>1. /\ UNCHANGED <<hand, line>>
          /\ UNCHANGED <<up, disturbed, queue, awaited, uaHandler, textDesc, name, value, described,
                         edition>>
      BY <1>9 DEF vars, connVars, elkVars, panelVars
    <2>2. Coming' = Coming
      BY <2>1 DEF Coming
    <2> QED
      BY <2>1, <2>2, PauseKeepsOrder
  <1> QED
    BY <1>1, <1>2, <1>3, <1>4, <1>5, <1>6, <1>7, <1>8, <1>9 DEF Next, Panel

LEMMA InOrder == Spec => [](TypeOK /\ Between /\ Undisturbed)
  <1>1. Init => TypeOK /\ Between /\ Undisturbed
    BY InitType DEF Init, Between, Undisturbed
  <1>2. TypeOK /\ Between /\ Undisturbed /\ [Next]_vars => (TypeOK /\ Between /\ Undisturbed)'
    BY NextType, NextKeepsBetween, NextKeepsOrder
  <1> QED
    BY <1>1, <1>2, PTL DEF Spec

(* A synchronisation that nothing disturbed is announced by the time that    *)
(* every request was answered: its marker is still queued or waited for as   *)
(* long as _sync_complete is attached to UA (elk.py:103-116).                *)
THEOREM EverySyncIsAnnounced == Spec => []SyncAnnounced
  <1>1. Undisturbed => SyncAnnounced
    BY NothingAsked DEF Undisturbed, SyncAnnounced, Pending, MarkerIsLast
  <1> QED
    BY <1>1, InOrder, PTL

(* The end of a synchronisation is the handling of the marker's answer.      *)
LEMMA CompletedByUA ==
  ASSUME TypeOK, [Next]_vars, SyncCompletes
  PROVE  HandleLine /\ HandleUA(Head(hand))
  <1>1. uaHandler /\ ~uaHandler'
    BY DEF SyncCompletes
  <1>2. HandleLine
    <2>1. ~Open /\ ~Drop /\ ~Write /\ ~Timeout /\ ~Read /\ ~Panel /\ vars' # vars
      BY <1>1 DEF Open, Begin, Drop, Write, Timeout, Read, Panel, ExitInstaller, Program,
                  ProgramDone, vars, elkVars
    <2> QED
      BY <2>1 DEF Next
  <1> DEFINE l == Head(hand)
  <1>3. \/ HandleDescription(l) \/ HandleValue(l) \/ HandleLogin(l) \/ HandleVersion(l)
        \/ HandleRefusal(l) \/ HandleUA(l) \/ HandleExit(l) \/ HandleProgramming(l)
    BY <1>2 DEF HandleLine
  <1> HIDE DEF l
  <1>4. HandleUA(l)
    BY <1>1, <1>3 DEF HandleDescription, HandleValue, HandleLogin, HandleVersion, HandleRefusal,
                      HandleExit, HandleProgramming, Begin, elkVars
  <1> QED
    BY <1>2, <1>4 DEF l

(* When nothing was lost, late, muted or programmed, "sync_complete" comes   *)
(* after every description and value was read, whatever the elements are and *)
(* wherever descriptions are missing (elk.py:103-116, elements.py:131-147).  *)
THEOREM UndisturbedIsRead == Spec => UndisturbedMeansRead
  <1>1. ASSUME TypeOK, Between, Undisturbed, [Next]_vars, SyncCompletes, ~disturbed PROVE AllRead
    <2> DEFINE l == Head(hand)
    <2>1. uaHandler /\ hand # <<>> /\ l.what = "ua"
      BY <1>1, CompletedByUA DEF SyncCompletes, HandleLine, HandleUA
    <2>2. up /\ InTurn /\ MarkerIsLast /\ Progress
      BY <1>1, <2>1 DEF Between, Undisturbed
    <2>3. Len(Coming) \in Nat \ {0} /\ Coming[1] = l
      <3>1. hand \in Seq(Line) /\ line \in Seq(Line)
        BY <1>1 DEF TypeOK
      <3>2. Len(hand \o line) = Len(hand) + Len(line) /\ (hand \o line)[1] = hand[1]
            /\ hand[1] = Head(hand) /\ Len(hand) \in Nat \ {0} /\ Len(line) \in Nat
        BY <2>1, <3>1
      <3> QED
        BY <3>2 DEF Coming
    <2> HIDE DEF l
    <2>4. ~Free(l) /\ 1 \in 1..Len(Coming)
      BY <2>1, <2>3 DEF Free
    <2>5. /\ awaited \in Request /\ awaited # NoRequest
          /\ \E i \in 1..Len(Coming) : Waits(awaited) /\ Coming[i] \in Reply(awaited) /\ FreeBut(i)
      BY <1>1, <2>2, <2>3, <2>4 DEF InTurn, TypeOK
    <2>6. l \in Reply(awaited) /\ Waits(awaited)
      BY <2>3, <2>4, <2>5 DEF FreeBut
    <2>7. awaited = Marker
      <3>1. awaited.what = "ua"
        BY <2>1, <2>5, <2>6, ReplyShape DEF Waits
      <3> QED
        BY <2>5, <3>1 DEF Request, Marker, Req
    <2>8. queue = <<>>
      BY <2>2, <2>7 DEF MarkerIsLast
    <2>9. Asks = {Marker}
      <3>1. Len(queue) = 0
        BY <2>8
      <3> QED
        BY <2>7, <3>1 DEF Asks
    <2>10. ASSUME NEW i \in 1..Len(Coming) PROVE Coming[i].what # "value"
      <3>1. i = 1 \/ 1 < i
        BY <2>3
      <3> QED
        BY <2>1, <2>2, <2>3, <2>4, <3>1 DEF MarkerIsLast
    <2>11. ASSUME NEW e \in Known
           PROVE  name[e] = edition /\ (e[1] \in Counters \cup Thermostats => value[e] = edition)
      <3>1. ~WillBeRead(e)
        BY <2>9 DEF WillBeRead, AsksFor, Marker, Req
      <3>2. Done(e)
        BY <2>2, <3>1 DEF Progress
      <3>3. ValueComes(e) => value[e] = edition
        BY <2>9, <2>10 DEF ValueComes, Marker, Req
      <3> QED
        BY <3>2, <3>3 DEF Done
    <2> QED
      BY <2>11 DEF AllRead, Known
  <1>2. TypeOK /\ Between /\ Undisturbed /\ [Next]_vars => (SyncCompletes => disturbed \/ AllRead)
    BY <1>1
  <1> QED
    BY <1>2, InOrder, PTL DEF Spec, UndisturbedMeansRead
=============================================================================
