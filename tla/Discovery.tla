----------------------------- MODULE Discovery -----------------------------
(***************************************************************************)
(* elkm1_lib/discovery.py: a scan for panels. It broadcasts a datagram, or  *)
(* sends it to one address, repeats it every third of its time, and ends   *)
(* when its time is over or the address it was given has answered.         *)
(*                                                                         *)
(* Datagrams may be lost, repeated and late: any may arrive at any time    *)
(* while the socket is open. A timer of the event loop never fires early,   *)
(* and at most MaxLate late.                                               *)
(***************************************************************************)
EXTENDS Integers

CONSTANTS
    Address,        \* where datagrams come from
    NoAddress,      \* async_scan(address=None): a broadcast
    System,         \* the systems that valid answers tell of
    NoSystem,       \* of an address without an answer
    Third,          \* a third (BROADCAST_FREQUENCY) of the timeout
    MaxLate,        \* how late a timer may fire
    MaxScan,        \* bound: scans
    MaxAnswer       \* bound: datagrams per scan

ASSUME DiscoveryAssumption ==
    /\ NoAddress \notin Address /\ NoSystem \notin System
    /\ Third \in Nat /\ MaxLate \in Nat
    /\ MaxScan \in Nat /\ MaxAnswer \in Nat

Timeout == 3 * Third

(* What a datagram holds: a valid answer, an answer that is too short to be *)
(* decoded, or the own broadcast and what else there is.                   *)
Data == [kind : {"answer"}, system : System] \cup [kind : {"short", "other"}, system : {NoSystem}]

VARIABLES
    pc,             \* idle, scanning, done
    address,        \* of the scan
    now,            \* time.monotonic()
    quitTime,       \* quit_time
    deadline,       \* of the wait_for
    foundAll,       \* is found_all_future done?
    responses,      \* response_list
    found,          \* found_devices
    \* bounds and history
    scans, answers,
    sent,           \* broadcasts of this scan, up to four
    lastSent        \* when the last one was sent

scan == <<address, quitTime>>
vars == <<pc, scan, now, deadline, foundAll, responses, found, scans, answers, sent, lastSent>>

NoResponses == [a \in Address |-> NoSystem]

Init ==
    /\ pc = "idle" /\ address = NoAddress
    /\ now = 0 /\ quitTime = 0 /\ deadline = 0
    /\ foundAll = FALSE /\ responses = NoResponses /\ found = NoResponses
    /\ scans = 0 /\ answers = 0 /\ sent = 0 /\ lastSent = 0

-----------------------------------------------------------------------------
Earlier(s, t) == IF s <= t THEN s ELSE t

(* min(remain_time, timeout / BROADCAST_FREQUENCY) from now.                *)
EveryThird(quit) == now + Third             \* slip: the rest may be less
OnlyOnce(quit) == quit                      \* slip: no repetition
NextDeadline(quit) == Earlier(quit, now + Third)

(* More than three is what must not be; four stands for any more.           *)
SendTo ==
    /\ sent' = IF sent < 4 THEN sent + 1 ELSE sent
    /\ lastSent' = now

(* async_scan begins: a socket of its own, the first broadcast, quit_time.  *)
(* With no time at all it ends before anything could arrive.                *)
Start ==
    /\ pc # "scanning"
    /\ scans < MaxScan
    /\ scans' = scans + 1
    /\ address' \in Address \cup {NoAddress}
    /\ quitTime' = now + Timeout
    /\ deadline' = NextDeadline(quitTime')
    /\ pc' = IF Third = 0 THEN "done" ELSE "scanning"
    /\ foundAll' = FALSE
    /\ responses' = NoResponses
    /\ found' = IF Third = 0 THEN NoResponses ELSE found
    /\ sent' = 1 /\ lastSent' = now
    /\ answers' = 0
    /\ UNCHANGED now

(* datagram_received, _on_response and _process_response. The future is     *)
(* done at most once: a second answer of the address raises in the callback *)
(* of the loop, after it was stored.                                       *)
AnyAnswer(a) == TRUE        \* slip: from_address is not compared
IsAsked(a) == a = address

Undecoded(d) == d           \* slip: the datagram itself
Decoded(d) == d.system

Receive(a, d) ==
    /\ pc = "scanning"
    /\ answers < MaxAnswer
    /\ answers' = answers + 1
    /\ IF d.kind = "answer"
       THEN /\ responses' = [responses EXCEPT ![a] = Decoded(d)]
            /\ foundAll' = (foundAll \/ IsAsked(a))
       ELSE UNCHANGED <<responses, foundAll>>
    /\ UNCHANGED <<pc, scan, now, deadline, found, scans, sent, lastSent>>

Return ==
    /\ pc' = "done"
    /\ found' = responses
    /\ UNCHANGED <<scan, now, deadline, foundAll, responses, scans, answers, sent, lastSent>>

ReturnsAll ==
    /\ pc = "scanning"
    /\ foundAll
    /\ Return

(* wait_for raises TimeoutError, even when the future is done but the task  *)
(* has not run since. Another broadcast, or the end.                       *)
OnlyIfFound == foundAll /\ now >= quitTime      \* slip
TimeIsUp == now >= quitTime

TimesOut ==
    /\ pc = "scanning"
    /\ now >= deadline
    /\ \/ /\ TimeIsUp
          /\ Return
       \/ /\ ~TimeIsUp
          /\ SendTo
          /\ deadline' = NextDeadline(quitTime)
          /\ UNCHANGED <<pc, scan, now, foundAll, responses, found, scans, answers>>

Tick ==
    /\ pc = "scanning"
    /\ now < deadline + MaxLate
    /\ now' = now + 1
    /\ UNCHANGED <<pc, scan, deadline, foundAll, responses, found, scans, answers, sent, lastSent>>

-----------------------------------------------------------------------------
Next ==
    \/ Start \/ ReturnsAll \/ TimesOut \/ Tick
    \/ \E a \in Address, d \in Data : Receive(a, d)

Spec == Init /\ [][Next]_vars

(* Time passes and the task runs.                                          *)
FairSpec == Spec /\ WF_vars(Tick) /\ WF_vars(TimesOut) /\ WF_vars(ReturnsAll)

-----------------------------------------------------------------------------
TypeOK ==
    /\ pc \in {"idle", "scanning", "done"}
    /\ address \in Address \cup {NoAddress}
    /\ now \in Nat /\ quitTime \in Nat /\ deadline \in Nat
    /\ foundAll \in BOOLEAN
    /\ responses \in [Address -> System \cup {NoSystem}]
    /\ found \in [Address -> System \cup {NoSystem}]
    /\ scans \in 0..MaxScan /\ answers \in 0..MaxAnswer
    /\ sent \in 0..4 /\ lastSent \in Nat

(* A scan is over by its timeout, but for the delay of one timer, however   *)
(* late the timers before fired (discovery.py:131-152).                     *)
EndsInTime == pc = "scanning" => now <= quitTime + MaxLate

(* A scan that ends before its time has an answer of the address it was     *)
(* given; a broadcast goes on to the end, for more panels (discovery.py:117, *)
(* 137-150).                                                               *)
EndsEarlyWhenAnswered ==
    [][pc = "scanning" /\ pc' = "done" /\ now < quitTime =>
          address \in Address /\ found'[address] # NoSystem]_vars

(* No scan asks more than three times, and one that ran to its end has      *)
(* asked three times, unless timers are late by half of an interval         *)
(* (discovery.py:93, 135-150).                                              *)
AsksThreeTimes ==
    [][pc = "scanning" /\ pc' = "done" =>
          /\ sent <= 3
          /\ now >= quitTime /\ 2 * MaxLate < Third => sent = 3]_vars

(* Every scan ends (discovery.py:137-152).                                  *)
ScanEnds == pc = "scanning" ~> pc = "done"
=============================================================================
