-------------------------- MODULE DiscoveryProofs --------------------------
(***************************************************************************)
(* What holds of a scan for every timeout, every delay of the timers and   *)
(* any number of addresses, answers and scans.                             *)
(***************************************************************************)
EXTENDS Discovery, TLAPS

(* The type invariant (discovery.py as a whole).                            *)
THEOREM TypeCorrect == Spec => []TypeOK
  <1> USE DiscoveryAssumption
  <1>0. NoResponses \in [Address -> System \cup {NoSystem}]
    BY DEF NoResponses
  <1>1. Init => TypeOK
    <2> SUFFICES ASSUME Init PROVE TypeOK
      OBVIOUS
    <2>1. /\ responses \in [Address -> System \cup {NoSystem}]
          /\ found \in [Address -> System \cup {NoSystem}]
      BY <1>0 DEF Init
    <2>2. /\ pc \in {"idle", "scanning", "done"} /\ address \in Address \cup {NoAddress}
          /\ foundAll \in BOOLEAN
      BY DEF Init
    <2>3. /\ now \in Nat /\ quitTime \in Nat /\ deadline \in Nat
          /\ scans \in 0..MaxScan /\ answers \in 0..MaxAnswer /\ sent \in 0..4 /\ lastSent \in Nat
      BY DEF Init
    <2> QED
      BY <2>1, <2>2, <2>3 DEF TypeOK
  <1>2. TypeOK /\ [Next]_vars => TypeOK'
    <2> SUFFICES ASSUME TypeOK, [Next]_vars PROVE TypeOK'
      OBVIOUS
    <2> USE DEF TypeOK
    <2>1. CASE Start
      <3>1. address' \in Address \cup {NoAddress} /\ scans' \in 0..MaxScan
        BY <2>1 DEF Start
      <3>2. /\ pc' \in {"idle", "scanning", "done"} /\ foundAll' \in BOOLEAN
            /\ responses' \in [Address -> System \cup {NoSystem}]
            /\ found' \in [Address -> System \cup {NoSystem}]
        BY <2>1, <1>0 DEF Start
      <3>3. /\ now' \in Nat /\ quitTime' \in Nat /\ deadline' \in Nat /\ answers' \in 0..MaxAnswer
            /\ sent' \in 0..4 /\ lastSent' \in Nat
        BY <2>1 DEF Start, NextDeadline, Earlier, Timeout
      <3> QED
        BY <3>1, <3>2, <3>3
    <2>2. CASE ReturnsAll
      BY <2>2 DEF ReturnsAll, Return, scan
    <2>3. CASE TimesOut
      BY <2>3 DEF TimesOut, Return, SendTo, NextDeadline, Earlier, scan
    <2>4. CASE Tick
      BY <2>4 DEF Tick, scan
    <2>5. ASSUME NEW a \in Address, NEW d \in Data, Receive(a, d) PROVE TypeOK'
      <3>1. d.kind = "answer" => d.system \in System
        BY DEF Data
      <3>2. responses' \in [Address -> System \cup {NoSystem}]
        BY <2>5, <3>1 DEF Receive, Decoded
      <3>3. answers' \in 0..MaxAnswer
        BY <2>5 DEF Receive
      <3>4. foundAll' \in BOOLEAN
        BY <2>5 DEF Receive
      <3> QED
        BY <2>5, <3>2, <3>3, <3>4 DEF Receive, scan
    <2>6. CASE UNCHANGED vars
      BY <2>6 DEF vars, scan
    <2> QED
      BY <2>1, <2>2, <2>3, <2>4, <2>5, <2>6 DEF Next
  <1> QED
    BY <1>1, <1>2, PTL DEF Spec

-----------------------------------------------------------------------------
(* A scan that began at quitTime - Timeout has sent its broadcasts a third   *)
(* apart, but for the delays of the timers so far, and waits for the next   *)
(* third or for the end.                                                   *)
Begun == quitTime - Timeout

ScanTimes ==
    /\ sent \in 1..3
    /\ deadline = Earlier(quitTime, lastSent + Third)
    /\ now <= deadline + MaxLate
    /\ lastSent <= now
    /\ sent = 1 => lastSent = Begun
    /\ sent = 2 => Begun + Third <= lastSent /\ lastSent <= Begun + Third + MaxLate
    /\ sent = 3 => Begun + 2 * Third <= lastSent

TimeInv == pc = "scanning" => ScanTimes

LEMMA TimeBegins == Init => TimeInv
  BY DEF Init, TimeInv

LEMMA TimeStep == TypeOK /\ TimeInv /\ [Next]_vars => TimeInv'
  <1> SUFFICES ASSUME TypeOK, TimeInv, [Next]_vars, pc' = "scanning"
               PROVE  ScanTimes'
    BY DEF TimeInv
  <1> USE DiscoveryAssumption
  <1>1. /\ now \in Nat /\ quitTime \in Nat /\ deadline \in Nat /\ lastSent \in Nat
        /\ sent \in 0..4 /\ Third \in Nat /\ MaxLate \in Nat
    BY DEF TypeOK
  <1>2. CASE Start
    <2>1. /\ quitTime' = now + 3 * Third /\ now' = now /\ lastSent' = now /\ sent' = 1
          /\ deadline' = Earlier(quitTime', now + Third)
      BY <1>2 DEF Start, Timeout, NextDeadline
    <2> QED
      BY <2>1, <1>1 DEF ScanTimes, Begun, Timeout, Earlier
  <1>3. CASE ReturnsAll
    BY <1>3 DEF ReturnsAll, Return
  <1>4. CASE TimesOut
    <2>1. /\ now >= deadline /\ now < quitTime
          /\ sent' = (IF sent < 4 THEN sent + 1 ELSE sent) /\ lastSent' = now
          /\ deadline' = Earlier(quitTime, now + Third)
          /\ now' = now /\ quitTime' = quitTime
          /\ ScanTimes
      BY <1>4, <1>1 DEF TimesOut, TimeIsUp, Return, SendTo, NextDeadline, scan, TimeInv
    <2>2. deadline = lastSent + Third
      BY <2>1, <1>1 DEF ScanTimes, Earlier
    <2>3. sent # 3
      BY <2>1, <2>2, <1>1 DEF ScanTimes, Begun, Timeout
    <2>4. sent \in {1, 2} /\ sent' = sent + 1
      BY <2>1, <2>3 DEF ScanTimes
    <2>5. sent = 1 => /\ Begun + Third <= now /\ now <= Begun + Third + MaxLate
      BY <2>1, <2>2, <1>1 DEF ScanTimes, Begun, Timeout
    <2>6. sent = 2 => Begun + 2 * Third <= now
      BY <2>1, <2>2, <1>1 DEF ScanTimes, Begun, Timeout
    <2>7. now <= Earlier(quitTime, now + Third) + MaxLate
      BY <2>1, <1>1 DEF Earlier
    <2>8. Begun' = Begun
      BY <2>1 DEF Begun
    <2> QED
      BY <2>1, <2>4, <2>5, <2>6, <2>7, <2>8, <1>1 DEF ScanTimes, Earlier
  <1>5. CASE Tick
    <2>1. /\ now < deadline + MaxLate /\ now' = now + 1 /\ ScanTimes
          /\ UNCHANGED <<quitTime, deadline, sent, lastSent>>
      BY <1>5 DEF Tick, scan, TimeInv
    <2> QED
      BY <2>1, <1>1 DEF ScanTimes, Begun, Earlier
  <1>6. CASE UNCHANGED <<pc, quitTime, now, deadline, sent, lastSent>>
    BY <1>6 DEF TimeInv, ScanTimes, Begun, Earlier
  <1>7. ASSUME NEW a \in Address, NEW d \in Data, Receive(a, d)
        PROVE  UNCHANGED <<pc, quitTime, now, deadline, sent, lastSent>>
    BY <1>7 DEF Receive, scan
  <1> QED
    BY <1>2, <1>3, <1>4, <1>5, <1>6, <1>7 DEF Next, vars, scan

LEMMA TimesHold == Spec => []TimeInv
  BY TypeCorrect, TimeBegins, TimeStep, PTL DEF Spec

(* A scan is over by its timeout, but for the delay of one timer            *)
(* (discovery.py:131-152): its deadline is never behind its end.            *)
THEOREM ScanEndsInTime == Spec => []EndsInTime
  <1>1. TypeOK /\ TimeInv => EndsInTime
    BY DiscoveryAssumption DEF TypeOK, TimeInv, ScanTimes, EndsInTime, Earlier
  <1> QED
    BY <1>1, TypeCorrect, TimesHold, PTL

(* A scan asks at most three times, and three times when nothing ended it   *)
(* and no timer was late by half of an interval (discovery.py:135-150).     *)
THEOREM ScanAsksThreeTimes == Spec => AsksThreeTimes
  <1>1. TypeOK /\ TimeInv /\ [Next]_vars =>
          [pc = "scanning" /\ pc' = "done" =>
             /\ sent <= 3
             /\ now >= quitTime /\ 2 * MaxLate < Third => sent = 3]_vars
    <2> SUFFICES ASSUME TypeOK, TimeInv, pc = "scanning"
                 PROVE  /\ sent <= 3
                        /\ now >= quitTime /\ 2 * MaxLate < Third => sent = 3
      OBVIOUS
    <2>1. ScanTimes
      BY DEF TimeInv
    <2>2. /\ now \in Nat /\ quitTime \in Nat /\ deadline \in Nat /\ lastSent \in Nat
          /\ Third \in Nat /\ MaxLate \in Nat
      BY DiscoveryAssumption DEF TypeOK
    <2>3. sent \in 1..3
      BY <2>1 DEF ScanTimes
    <2>4. ASSUME now >= quitTime, 2 * MaxLate < Third
          PROVE  sent # 1 /\ sent # 2
      BY <2>1, <2>2, <2>4 DEF ScanTimes, Begun, Timeout, Earlier
    <2> QED
      BY <2>3, <2>4
  <1> QED
    BY <1>1, TypeCorrect, TimesHold, PTL DEF Spec, AsksThreeTimes

-----------------------------------------------------------------------------
(* Only an answer of the address that is asked for completes the future.    *)
AnswerInv == pc = "scanning" /\ foundAll => address \in Address /\ responses[address] # NoSystem

(* A scan that ends before its time has the answer of the address it was     *)
(* given (discovery.py:117, 137-150).                                       *)
THEOREM ScanEndsEarlyWhenAnswered == Spec => EndsEarlyWhenAnswered
  <1> USE DiscoveryAssumption
  <1>1. Init => AnswerInv
    BY DEF Init, AnswerInv
  <1>2. TypeOK /\ AnswerInv /\ [Next]_vars => AnswerInv'
    <2> SUFFICES ASSUME TypeOK, AnswerInv, [Next]_vars PROVE AnswerInv'
      OBVIOUS
    <2> USE DEF AnswerInv
    <2>1. CASE Start
      BY <2>1 DEF Start
    <2>2. CASE ReturnsAll
      BY <2>2 DEF ReturnsAll, Return
    <2>3. CASE TimesOut
      BY <2>3 DEF TimesOut, Return, scan
    <2>4. CASE Tick
      BY <2>4 DEF Tick, scan
    <2>5. ASSUME NEW a \in Address, NEW d \in Data, Receive(a, d) PROVE AnswerInv'
      BY <2>5 DEF Receive, Data, Decoded, IsAsked, scan, TypeOK
    <2>6. CASE UNCHANGED vars
      BY <2>6 DEF vars, scan
    <2> QED
      BY <2>1, <2>2, <2>3, <2>4, <2>5, <2>6 DEF Next
  <1>3. TypeOK /\ AnswerInv /\ [Next]_vars =>
          [pc = "scanning" /\ pc' = "done" /\ now < quitTime =>
             address \in Address /\ found'[address] # NoSystem]_vars
    <2> SUFFICES ASSUME TypeOK, AnswerInv, Next, pc = "scanning", pc' = "done", now < quitTime
                 PROVE  address \in Address /\ found'[address] # NoSystem
      OBVIOUS
    <2>1. CASE ReturnsAll
      BY <2>1 DEF ReturnsAll, Return, AnswerInv
    <2>2. ~TimesOut
      BY DEF TimesOut, TimeIsUp, scan, TypeOK
    <2>3. ~Start /\ ~Tick
      BY DEF Start, Tick
    <2>4. ASSUME NEW a \in Address, NEW d \in Data PROVE ~Receive(a, d)
      BY DEF Receive
    <2> QED
      BY <2>1, <2>2, <2>3, <2>4 DEF Next
  <1> QED
    BY <1>1, <1>2, <1>3, TypeCorrect, PTL DEF Spec, EndsEarlyWhenAnswered
=============================================================================
