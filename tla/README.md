# Models of elkm1_lib

`elkm1_lib` keeps an asyncio connection to an ElkM1 alarm panel, sends it
requests, decodes what it says and caches the state of zones, areas, lights and
so on for a client such as a home automation system. This directory holds TLA+
models of it, TLC configurations that check them on small instances, and
proofs that TLAPS checks for instances of every size.

To repeat the checks: `tlc -config MCConnection_any.cfg MCConnection` for a run,
`tlapm ConnectionProofs.tla` for the proofs of a module.

## The system

| component | source | state | operations |
|---|---|---|---|
| Connection | `connection.py` | `_writer`, `_write_queue`, the awaited command, three events, `_paused`, `_tasks`; one read, write and heartbeat task per session | `connect`, `disconnect`, `send`, `send_raw`, `pause`, `resume`, the loops of the tasks |
| Notifier | `notify.py` | handlers per message or event name | `attach`, `detach`, `notify` |
| Elk | `elk.py` | `_logged_in`, the list of elements to synchronise | login, greeting, synchronisation, helpers |
| Elements, Element | `elements.py` | `_text_desc` of the description chain; attributes, changeset, observers, `configured` | `get_descriptions`, handler of SD, `setattr`, callbacks |
| Areas, Zones, Keypads, Lights, Outputs, Counters, Tasks, Thermostats, Settings, Users, Panel | one file each | caches of what the panel reported | a handler per message, helpers that send |
| codecs | `message.py` | none | decoders, encoders, checksum, housecodes |
| Discovery | `discovery.py` | a future, a table of answers | scan |
| constants, URLs, tools | `const.py`, `util.py`, `bin/`, `examples/` | none | tables, parsing, scripts |

How they interact. The client creates an `Elk`, which owns a `Connection` and a
`Notifier`. `connect()` opens a stream, starts the three tasks and notifies
"connected"; `Elk._connected` answers with the greeting (user id and password on a
secure url, then what every kind of element asks of the panel, then `ua`). The
read task cuts the stream into lines, sets the response event when the command
of a line is the awaited one, decodes the line and notifies its command; handlers
store values in elements, which call their observers, and may send, pause, resume
or disconnect, all before the read task gives the loop back. The write task
takes one message at a time from the queue and waits up to five seconds for its
response. The heartbeat task disconnects and reconnects after two minutes
without data, unless remote programming has paused the connection.

What is hard. Everything runs on one loop, so the races are between awaits: the
write task against those who fill, clear or mute its queue; a response against its
deadline and against the cancellation of the task that waits for it; `connect`,
`disconnect` and the heartbeat against each other, and calls of any of them from
handlers that a task is just running; state (`_paused`, the two response
variables, the queue) that outlives the session it belongs to.

What makes each part correct:

- Connection: no message is left behind by a sleeping write task; one write task
  at a time; requests are paced by their responses; remote programming silences
  the client; `disconnect` is final and leaves nothing behind; a lost link is noticed.
- Notifier and Element: every handler attached throughout a notification is called
  once, with the change; a handler cannot disturb the others.
- Elk: "sync_complete" comes after every description
  that was asked for; "login" is notified once per session.
- caches: when the panel is quiet they agree with it, they never go back, and what they
  make the client ask for comes to an end.
- codecs: whatever happens to the bytes, what is handled is what the panel said; a
  message is understood as it was meant, or not at all, and as it was meant if its numbers fit and
  its texts are ASCII.
- keypads, thermostats, settings and the like: a value is the one the panel has, by
  whichever line it came; each press is told once, however often the same key is
  pressed; no user's code is shown; what the client sets is what it meant.
- Discovery: a scan ends by its deadline, returns every valid answer, and stops
  early only for the address it was given.

## The modules

| module | what it is |
|---|---|
| `Outbox` | the abstract promise: a box of messages that leave from the front, in order, onto the open line |
| `Connection` | `connection.py` with the handlers of `elk.py` and `panel.py` that act on it |
| `ConnectionOutbox` | `Connection` refines `Outbox` |
| `ConnectionProofs` | theorems about `Connection` and about its refinement of `Outbox` |
| `Synchronization` | greeting, login, description chains and the end of the synchronisation, with the panel |
| `SynchronizationProofs` | theorems about `Synchronization` |
| `SequenceLemmas` | induction over numbers, sums of lengths, and what `FlattenSeq` of the community modules returns and in which order |
| `Callbacks` | `notify.py`, and `setattr`, `_notify` and the callbacks of `elements.py` |
| `CallbacksProofs` | theorems about `Callbacks` |
| `Caches` | what areas, zones, outputs and lights hold of the panel, and the requests that keep it fresh |
| `CachesProofs` | theorems about `Caches` and about its refinement of `Mirror` |
| `Mirror` | the abstract promise of the elements: their states are those of the panel, in its order |
| `Devices` | what keypads, thermostats, counters, settings, tasks and the panel hold, and what `Caches` leaves out of zones and areas |
| `DevicesProofs` | theorems about `Devices` |
| `Codecs` | `message.py` byte by byte: the frame of a line, the layout of what is sent |
| `Wire` | the bytes between panel and client: `read()`, the lines in its buffer, what is written |
| `WireProofs` | theorems about `Codecs` and `Wire` |
| `Discovery` | a scan of `discovery.py` |
| `DiscoveryProofs` | theorems about `Discovery` |
| `MCConnection`, `MCSynchronization`, `MCCallbacks`, `MCCaches`, `MCDevices`, `MCWire`, `MCDiscovery` | small instances for TLC |

A definition commented "slip" is not in the code: it is a
plausible error of the definition beside it, kept to show that a property notices it.

### Connection

An action is what one task does between two awaits that really wait. Two of these
stretches are cut finer: the read task, which may find several lines in one
`read(500)`, handles one line per step (`HandleLine`), and the write task one message
per step (`WriterSend`); `running` then keeps the loop for that task, so that nothing
else interleaves, exactly as in asyncio.

| state | in the code |
|---|---|
| `writer` | `_writer`: the session it belongs to, 0 for `None` |
| `writeQueue`, `paused` | `_write_queue`, `_paused` |
| `checkWriteQueue`, `responseReceived` | the two `asyncio.Event`s; a waiter woken by `set()` is in a state of its own (`called`, `answered`) until it runs |
| `awaitingResponse` | `_awaiting_response_command` |
| `tasks` | `_tasks`; the task that calls `disconnect` is spared and leaves the set |
| `writePc`, `readPc`, `heartbeatPc`, `qEntry` | where the three tasks of each session are, and what the write task holds |
| `connects` | how many coroutines are in `connect()`, and where: not yet started, in `open_connection`, in the back-off sleep |
| `link`, `wire` | the stream of each session and what was written to it |
| `wanted`, `balance`, `unanswered` | history: the last call of the client, notifications, requests nobody answered yet |

Every handler that acts on the connection is part of the step that calls it:
`Reply` and `ClientDisconnect` are what a handler of the client does inside of a read,
a timeout or a notification; `ReportRemoteProgramming` is `Panel._rp_handler` with its
`pause` and `resume`. The client is described by `Habits`: it may overlap calls of
`connect`, disconnect while nothing is open, reconnect by itself, and disconnect in
handlers of "connected", "timeout" or a message. The heartbeat's event is a state
of its task (`beaten`), since only that task waits for it. The back-off time and the
bytes of lines and messages are abstracted: a line is the response command it carries.

### Synchronization

Keeps from `Connection` the queue, the awaited request and the rule that the next is
written when it was answered or timed out; the race of a response with its deadline
and the flags that outlive a session are left to `Connection`. `Open` and `Drop` are
sessions; `Write` includes the panel's answer, which is put on the `line`; `Read` and
`HandleLine` are the read task, with one `Handle...` disjunct per handler
(`_sd_handler`, `_login_status`, `_got_first_message`, `_sync_complete`, the handler of
IE, `_rp_handler`). `edition` counts what was programmed at the panel and stands for the
texts and values it reports: the client is up to date about an element when
`name[e] = edition`. Kinds differ in what the constants say: `Stateful` kinds ask for
their state before the descriptions, `Counters` and `Thermostats` ask for a value of each
element that becomes configured, the first waiting for it, the second not; `Unnamed`
are the users whose description is a placeholder. The panel is external: it answers in
order, says nothing before the password and while it is programmed remotely.

### Callbacks

`Receive`, `CallHandler`, `HandlerReturns`, `NotifyReturns` are `Notifier.notify`; a
handler that raises goes on as one that returns. `StoreElement` is the two calls of
`setattr` per zone in `Zones._zs_handler`, the second of which closes the changeset;
`CallObserver`, `ObserverReturns`, `ObserverRaises`, `ObserversDone` are `Element._notify`.
Whenever the code of the client runs it may attach and detach handlers and add and
remove observers; `RemovesPassed` says whether an observer may remove itself or one that
was called before it. An observer that calls `setattr` of the element it observes is
left out: no helper of the library stores a value before the panel answered.

### Caches

`panel` is what is the case, `cache` what the elements hold. Both are a `View`; a zone's
status, an output or a light is represented by how often it has changed, so that "older"
has a meaning. `queue` and `paused` are those of the connection; the rule that a request
waits for its response only delays requests, and belongs to `Connection`. Each `Handle...`
is a handler of `areas.py`, `zones.py`, `outputs.py`, `lights.py`, `panel.py` or `elk.py`,
with the request it sends; `Arm`, `Bypass`, ... are the helpers.

The panel is external. It announces every change to an open session unless it is being
programmed: a zone by ZC, an output by CC, a light by PC, arming by EE and AS, an alarm by
AS. A bypass of all zones of an area has no ZC, as the comment in `Zones._zb_handler` says.
It answers requests in order, and obeys or refuses those that carry a user code.

`lost` is history: the reports the client can no longer count on, because a line was
garbled, the session ended, the panel said nothing, or a pause dropped the request.
A report that arrives ends it. One case is less obvious. The zones' alarms (AZ) are only
announced through AS, which makes `Areas._as_handler` ask for them when an alarm began,
goes on or ended compared with what the area holds. When an AS was lost and the alarm is
over before the next, the handler sees nothing to ask for, and `triggered_alarm` stays set
although a fresh AS has come: it stays until the next synchronisation or alarm. A
synchronisation does not always help, as the zones come before the areas in it: `az` may
be answered during the alarm and `as` after it. `Happens` therefore marks AZ as lost when
an AS is said while one was lost.

`NeverBack` says that `Caches` implements `Mirror`: of each zone, output and light the
client holds a state that the panel was in, and never an earlier one than before. `Seen`
is the refinement, with `panel` for what is true and `cache` for what is held.

### Devices

`panel` is what is the case and `client` what the elements hold, field by field under the
same names, so that `HeldIsTrue` can compare them: `panel.zone_temp[i]` is in degrees, the
line LW holds it with 60 added, and `HandleLW` takes them off again. A line is a record with
the numbers the panel writes: elements from 1, letters as their codes, times packed. A
`Handle...` disjunct is a handler with its decoder (`HandleKF` those of keypads and areas,
since both get the line). `Happens` is the panel: something changes and is announced, or
the client does not hear of it; keys and codes are entered; a report is sent that `sync()` or
`get()` asked for. `Call` are the helpers that set something, with their encoders; what they
send reaches the panel at once. `watched` selects the facts and events of a behaviour, as
the fields are independent but for those that share lines: the instance has one group for
each set of them. `now` is the clock of `last_user_time` and `last_change`; every line that is
handled is later than the one before.

`lost` is history: facts the panel changed without the client hearing of it. `SetSetting`
means something only when the client knows the format the setting has; with one that is out of
date it writes the value in another format, and `meant` does not count that. Settings
are assigned without `setattr`: `Settings._cr_handler` never calls their observers, although
the README of the library says that callbacks are called when an attribute changes.

### Codecs and Wire

`Codecs` has no variables. A line is a sequence of codes. `HexValue` is `int(s, 16)` with the
blanks and signs it takes, since the length of a garbled line may be read as a number that
way. `Encoders` is the table of the layouts of all messages the client sends; `Encode`
formats the arguments as Python does: a width is a minimum. The texts of `dm` are cut or filled
to their width (`Shown`). A message is made of characters, over which `Framed` has the checksum;
`Written` is what `encode()` makes of them, one to four bytes each. A function key and
the time of `rw` are ASCII of one width and stand as zeros (`Fixed`).

In `Wire` every code on its way knows which line it is of, so that `unsound`, the lines of
which a code was touched, is known. `Read(n)` is one `read()` of n codes, with the loop over
the complete lines; a handled line is the event that is notified. `NewSession` drops the
buffer and any beginning of what is on its way. `Call` formats a message, writes it as bytes and
lets the panel read these, by the length, checksum, command and digits it expects. Numbers come
from `Arg`, texts from `Words`. Left out are texts with a surrogate, for which `encode()` raises, and
with CR or LF, which end a line. Lines and calls share
nothing and are separate behaviours. A session that begins with the last two codes of a line
whose checksum is 00 reads a frame of length 00 with a good checksum and no command, which
is notified as "unknown"; `Known` leaves these out, as nothing in the library listens to them.
`IsSpoken` is what the panel may say: the length of a line in two digits, and a command the
client has a decoder for. Two damaged bytes may cancel in a checksum (a `6` and an `0` of
`06IE00AC` that become `5` and `1`, say), so the run checks `HandledWasSaid` with one. And a line
may end like another one: `IE` in the text of a line, with its length before and a checksum after
it. A session that begins right there would take the rest of the line for a report. `NoEchoes`
says that no line of the script does, and `MCWire` assumes it of its scripts.

### Discovery

`now` is `time.monotonic()`, counted in units of which `Third` make a third of the timeout;
`deadline` is the one of the `wait_for` in hand. `Receive` is a datagram with
`_on_response` and `_process_response`; any datagram may come at any time, so that lost,
late and repeated ones need no network. An address stands for one port of one host.
`TimesOut` may be taken although the future is done, when both happen before the task
runs. A timer never fires early, and at most `MaxLate` late.

## What is checked

| run | instance | shows |
|---|---|---|
| `any` | every habit, two response commands, two sessions, remote programming | no write task sleeps on a message; nothing is queued or written while paused; in the first session every request on the wire is answered, timed out or waited for; every step is one of `Outbox` |
| `disciplined` | a client that disconnects from message handlers and from outside, three sessions, two lines per read, fairness | one write task; `disconnect` leaves no task; notifications agree with `is_connected()`; `disconnect` is final; a lost network link is replaced unless the client gave up; the front of the queue is written as `Outbox` promises |
| `sync` | a secure panel, two kinds, two sessions, one lost or late answer, one exit from installer mode, remote programming | an undisturbed synchronisation is announced, and after everything was read; one "login" per session; chains of requests end |
| `callbacks` | two handlers, two elements with up to two observers each, two messages, four calls | each handler attached when the message came is called once; observers know the values, or the change is still pending; pending changes are told with the next message |
| `caches` | zones and areas, or outputs and lights, two of each but one output; two changes or calls, and one dropped session, garbled line or remote programming | at rest the elements hold what is the case, but for the reports that were lost; zones, outputs and lights follow the panel as `Mirror` promises; `arm` of an area is only swallowed if that area is armed; requests of handlers end |
| `devices` | two elements of every kind, ten groups of facts and events, three changes, reports or calls | what is held is true, by whichever line it came; every press and task is told once; no user's code is kept; what is set is what was meant |
| `wire` | three lines, one of them with the checksum 00, or a login; one byte lost or replaced, or a session ended; every message with six numbers per field and three texts: two letters, one with an umlaut, 20 characters | only what was said is handled, in order; all that was not touched is handled; messages are understood as asked or not at all, and as asked whenever the numbers fit and the texts are ASCII |
| `discovery` | two scans, two addresses, two systems, three datagrams each, timers late by a ninth of the timeout | a scan ends in time, early only with an answer of its address; it asks three times; it ends |
| `twice` | violated: `SingleWriter` | a handler of "disconnected" that reconnects competes with the heartbeat: two sessions, two write tasks on one queue |
| `paused` | violated: `LostLinkReplaced` | a link lost during remote programming is never noticed |
| `early` | violated: `CompleteMeansRead` | the UA left in the queue by a dropped session announces the next synchronisation too early |
| `skipped` | violated: `ObserversKnow` | an observer that removes itself makes the next one miss a change |

The violated runs are disagreements of the code with what its README, change log or
comments say; PROJECT.json quotes the lines. Each uses the smallest client that shows
it, and the passing runs and theorems say which clients are safe from it.

The models reach three more disagreements, which no run is given to:

- `disconnect` while a `connect` is under way does not stop that coroutine, which is in no set
  of tasks, and the session opens afterwards. With the habit "early_disconnect" in the
  configuration of `disciplined` TLC finds `DisconnectIsFinal` violated.
- A VN that the reader has in hand when a handler disconnects is taken for a login after the end
  of the session, and that of the next one is not told. `OneLogin` does not see it.
- A text for the displays with a character beyond ASCII makes `dm` longer than it says: length and
  checksum count characters, `encode()` writes bytes, and the panel does not take the message.
  `AskedIsObeyed` promises an obeyed message of ASCII texts only.

`FirstSessionPaced` says nothing of later sessions, which `_response_received` may reach set, and
counts a late response to the same command as the answer, as nothing tells them apart.

Bounds. Two sessions are what a race between an old and a new one needs; the third in
`disciplined` lets a reconnection be followed by another. One message of the
client beside the greeting of each session gives a queue of up to four entries from
three sources, which is enough for a message to be overtaken, dropped and left over.
Two connect and disconnect calls give every order of a pair, the three of
`disciplined` a call after a reconnection. Two lines per read are the smallest burst in
which a handler runs after one that disconnected. In `sync` an index of 0 and 1 gives
chains with a gap, without one, and empty ones; the two kinds have one chain cut while
the other waits. `early` uses the other two sorts of kinds: one with a state, one
whose values are not waited for. `callbacks` needs two observers for one to be skipped,
and two messages for a change that stays pending to be told by the second.
`SYMMETRY` there permutes handlers, observers and values, which no definition tells
apart; the run has no liveness property. `caches` splits the elements in two halves, since zones and areas share lines and requests
and lights and outputs share none with them nor with one another. Two changes let an alarm
begin and end, or a change overtake a report, or a call follow a change; one trouble
loses one of the lines in between. In `devices` three steps
let a format or a sensor change, a report come and a call follow it; temperatures are one
below zero, zero and one above, the value of a setting and its packed time exceed a byte. In `wire` three
lines let a line end be lost between two and the third be read soundly; the arguments are
at and beyond the ends of fields of one to five digits, the texts below and above the
width of a display line, with and without a character beyond ASCII. In `discovery` a second scan starts from what the
first left, and three datagrams bring an answer that is repeated and one of another
address. The theorems have no bounds.

`CHECK_DEADLOCK FALSE` everywhere: a client that disconnected and does nothing is at
rest, and so is every system whose bounds are used up.

Fairness (`FairSpec`). In `Connection`: asyncio's ready queue is first in, first out, so
a task that can run does run, even when it is disabled now and then by another that
keeps the loop: strong fairness for the steps of tasks. A deadline passes unless its
wait ends, a lost stream delivers nothing that would push the heartbeat's deadline back.
Not every attempt to connect fails (`PanelReachable`), without which nothing could
be promised. No fairness is assumed of the client, of the panel's answers or of the loss
of streams; the last session's stream is not lost, because there is no further one to
replace it. In `Synchronization` weak fairness is enough: its steps, once possible, stay
possible until the session ends or the reader, which is fair too, has finished. The same
holds of `Write` and `HandleLine` in `Caches`. In `Discovery` time passes, and the task of
the scan runs when its timer fired or its future is done; a step that became possible stays so.

## What is proved

For every number of sessions, messages, calls and lines, every greeting, every client,
with only `ConnectionAssumption` (types of the constants, `NoCmd` is not a command):

- `TypeCorrect`. The type invariant is not inductive without `ReaderHasLines`: a
  read task that keeps the loop has a line in hand.
- `NoLostWakeup`, `PauseEmptiesQueue`, from `QueueInv`, the conjunction of the two
  invariants, which is inductive with the types: a pause would otherwise have to say what
  the write task that wakes may find. `PauseStopsWriting` follows step by step: only
  `WriterSend` writes, and it needs a message.
- `FirstSessionIsPaced`, from `PacedInv`: beyond the last session opened no task
  exists (`NoneBeyond`), the response flag is down and nothing is awaited while the first
  write task is outside of its wait, and what it waits for is what it holds.
  The invariant is about the first session because only that one starts with clean
  flags: a session that ends in the handler of the awaited response leaves
  `_response_received` set to the next, whose first request is then not waited for.
- `ConnectionKeepsOrder`: every step of `Connection` is a step of `Outbox` or a stutter.

For a disciplined client (`Disciplined`: no overlapping calls, no early disconnect, none
from the handlers of "connected" and "timeout", and own reconnection only over a serial
line):

- `DisciplineKeepsSingleWriter`, `DisciplineLeaksNoTask`, `DisciplineMatchesEvents`,
  `DisciplineMakesDisconnectFinal`, all from `OneSession`: coroutines in `connect()` plus
  open sessions are one when the client wants a connection and none otherwise. That sum is
  what every await of `connect`, `disconnect` and the heartbeat preserves together, and
  what a habit outside of the discipline breaks.

About `Callbacks`, for any number of elements, handlers, observers and messages, with
only `CallbacksAssumption`:

- `TypeCorrect`, with the fact that while something is stored `element` is one of the elements.
- `EveryHandlerOnce`, from `CalledInv`: lists of handlers have no duplicates (`attach` tests
  that), and the handlers called are those at the places the notification has passed.
- `PendingIsReported`, from `PendingInv`: the library's handler stays attached, and unless an
  observer raised, the elements before the one being stored are done, and all are once
  that handler has returned.
- `ObserversAreTold`, when `RemovesPassed` is false, from `KnowInv`: an observer knows every
  attribute that is not in the changeset, and the observers up to the one being called
  know all. The second part is what removing an earlier entry of the live list breaks
  (run `skipped`).

About `Discovery`, for every timeout, delay of timers, set of addresses and number of
datagrams, with only `DiscoveryAssumption`:

- `TypeCorrect`, by itself inductive.
- `ScanEndsInTime` and `ScanAsksThreeTimes`, from `TimeInv`: the deadline is never after
  `quit_time` nor more than a third after the last broadcast, and the number of broadcasts
  says between which moments the last one lies. That is what bounds them: each delay moves
  the later ones, and only the minimum with the remaining time keeps the last at the end.
- `ScanEndsEarlyWhenAnswered`, from `AnswerInv`: the future is done only when the scan has an
  address and its answer is stored.

About `Synchronization`, for every list of kinds, every set of descriptions the panel has,
any number of sessions and disturbances, with only `SynchronizationAssumption` (types of the
constants; the descriptions are of kinds that are in the list of elements):

- `TypeCorrect`. The type of `Sync`, which flattens the requests of the kinds into one
  sequence, needs an induction over that list, `FlattenSeqType` in `SequenceLemmas`.
- `SessionsLogInOnce`, from `LoginInv`: a session that was not granted yet has no line on
  its way that says so; behind a first line that does, none is a second one.
- `EverySyncIsAnnounced` and `UndisturbedIsRead`, from `Undisturbed`, which speaks of an open
  session that nothing disturbed: the answer to what is awaited is on its way and no other
  answer is (`InTurn`); the UA that ends the synchronisation is the last request in the queue
  or the one awaited, and its answer is behind all others (`MarkerIsLast`); and of each
  description and value the panel has, it was read, or is on its way, or a request further
  back in the chain of its kind is (`Progress`). The three are needed together: a chain asks
  with priority, so that it stays before the marker only because the marker is not sent while
  a request is awaited. `Between` says what is left of a session that ended.

About `Caches`, for any number of zones, areas, outputs and banks of lights, any list of
elements and any number of changes, calls and troubles, with only `CachesAssumption`:

- `InvHolds`: the inductive invariant. It speaks of what is on its way: the versions of a
  zone, output or light that the lines bring are in order, between the one held and the one
  that is the case (`OnTime`); unless the report was lost, the current one is held, or a line
  brings it, or a line or request will ask for it (`VersionsCurrent`); the last line about areas
  says what is the case (`AreasCurrent`); and so does the last AZ, unless an AS on its way
  will make the handler ask again or it was asked already (`AlarmsCurrent`). The last one
  is the argument for the condition in `_as_handler`: an alarm that ends is seen, as
  long as the AS that began it was.
- `TypeCorrect`, `CacheAgreesAtRest`: with no line and no request, only "held" is left of each part.
- `ArmsAreHeeded`, from `AreasCurrent` where no line is on its way: it holds of every area.
- `NeverGoesBack`: every step of `Caches` is a step of `Mirror` or a stutter, from `OnTime`.

About `Devices`, for any number of elements, every set of temperatures, words, times of day and
codes, and whatever is watched, with only `DevicesAssumption` (temperatures fit into the
fields, words into 16 bits, the user codes do not contain the code "****" of the panel nor the
empty one):

- `AlwaysInformed`: the inductive invariant `Informed`. `Said(l, p)` is what the panel may say
  when it is `p`. Each line on its way was said of a panel whose facts are still the case,
  unless they are lost or a later line tells them (`LinesHold`); a fact that no line on its way
  tells is held (`Known`). It rests on `Learned`: each of the handlers stores exactly what the
  line says of each field and leaves every other one alone. That is where the arithmetic of the
  codecs is proved: indices, offsets of temperatures, packed times and statuses.
- `WhatIsHeldIsTrue`: what is left of `Informed` when no line is on its way.
- `ElementsHold`: types, the clock is after every time that is kept, and no code of a
  user is held; `NoCodeIsShown` is its last part, `EveryEventIsTold` needs the clock, since a
  task that runs twice is told only because its time changes. The latter counts the lines on
  their way that tell an event, by the theorems on cardinality.
- `TypeCorrect`, with `Books`, the types of the history.
- `WhatIsSetIsMeant`, from `AllAsMeant`: a fact that was set is what was meant until something
  else happens to it; with `Informed` for the format of a setting, and the lemmas that undo
  what the encoders did.

Two things are outside of these theorems by what they say, not by what could be proved.
`weekday` is what the panel has from `set_time()`; no line tells it, so that it is
among the lost facts from the start. And the fact of a `SetSetting` by a client whose format
is out of date is not counted as meant.

About `Codecs` and `Wire`, for any number of lines of any length, any cut of `read()`, any noise
and any number of troubles, with only `WireAssumption` (the panel writes the length of a line in
two digits, does not use CR and LF inside, and says what the client has a decoder for),
of the calls `ArgAssumption` and `WordsAssumption`, and of one trouble the hypothesis `NoEchoes`:

- `ChecksumsAreGood`, `SpokenIsDecoded`, `LineIsDecoded`: adding its checksum makes the sum of a
  message a multiple of 256, the two digits of a number below 256 are read as that number, and so
  the client decodes every line that arrives as it was said to what it means.
- `TypeCorrect`, from `TypeInv`, in which a code knows a line that was said: what is left in
  the buffer begins after the last line end, so that it has none.
- `SoundLinesAreHandled`, from `SoundInv`. The stream is what is in the buffer and on its way
  together. A line that nobody touched was handled or is `Whole` in the stream: all its codes, one
  after another, behind the line end of the one before or first. And there is room for one more
  behind the last, unless its start was touched. The invariant has to speak of the line end before:
  without it the loop would take the line together with what precedes it. That is why losing a
  line end makes the next line unsound, and so does a session that begins between CR and LF. The
  troubles move lines, but keep those whole of which they touch no code (`OtherLost`,
  `OtherReplaced`).
- `QuietLinesAreHandledOnce`: without trouble `HandledWasSaid` holds, from `QuietInv`: every code
  of the stream belongs to a whole line, the lines are in their order, and what was handled came of
  lines before them, one event of each at most. A read takes the lines up to the last line end
  and nothing of the one behind it (`CoverIsLeft`, `LinesAreSaid`).
- `OneTroubleIsHarmless`: with one trouble, any byte lost or replaced by any other or a session
  that ends and is followed by one that begins anywhere, `HandledWasSaid` still holds; this is what
  the run checks (`HandledWasSaidAlways`), for every script without echoes and every noise. See
  below for the argument.
- `LettersApartHaveNoEchoes`: lines without two letters in a row after the command, as are those
  that report only numbers, have no echoes. What such a line ends with has no command where a message
  has one.
- `CallsAreObeyed`, from `CallInv`: what the panel made of the call is what it understands of the
  message for it. It needs of `ArgAssumption` only that a number has no more digits than
  `Digits` writes, and of `WordsAssumption` that a text is of characters. The argument: a message of
  ASCII is written as it is (`AsciiIsWritten`); one with any other character is longer on the
  wire than it says, so that nothing is understood (`OthersAreLonger`, `LengthIsStated`,
  `LongerIsInvalid`). For ASCII, the length that a layout states is that of its command and its
  fields (`LayoutsAreBalanced`); a field is never shorter than its width, and if it has its width
  it is read as its argument or not at all (`FieldIsWritten`, over `PaddedNumber`,
  `PaddedNegative` and `DecimalOfDigits`); so a message has the length it states if and only if
  no field is too long (`ValidIfExact`, `NoneIsLonger`), and then every field is where the panel
  looks for it (`ExactIsLaidOut`, over `FlattenAt`). No two commands are the same, and where one is
  the beginning of others, the "a" of arming, a digit follows instead of a letter
  (`OnlyOneHears`). Where all fields fit, no character is beyond ASCII (`FitIsAscii`).

The argument of `OneTroubleIsHarmless` is about `Ahead`, the stream with the line that the panel
says next, since a lost line end takes that one with it. As long as nothing was touched it is
`Clean`: every code is at its place on a whole line, and the lines are in order. One trouble makes
a `Damaged` stream of it: codes are gone at one place, or one is another. Between two ends of such
a stream is a part which one decode() is given (`PartsAreSaid`), and it means what one of its lines
means, or nothing (`PartsStaySaid`). There are six kinds of parts:

- a line that nothing happened to (`IntactIsSaid`);
- two lines of which the CR or LF between them was lost or replaced. It is longer than its first
  two codes say, which are read as the length (`OtherLength`, `MergedIsSaid`);
- a line with the LF before it, since a session began there: LF is white space for `int()`, so
  that the length is one digit and too small (`AfterLineFeed`, `FeedIsSaid`);
- a line with one code replaced. If it is one of the message the sum is another, as no code
  is 256 or more; if it is one of the checksum the client may read the same number of it,
  like `a` for `A`, but then the message is as it was (`ReplacedIsSaid`);
- a line with one code lost. Without one of the first two, a digit or a letter, the sum is wrong,
  and without any other the line is shorter than it says (`LostIsInvalid`);
- the end of a line, when a session began inside it. The protocol has nothing that tells it from a
  line, and so here, and only here, `NoEchoes` is needed.

No trouble puts a line end inside a line (`EndsRemain`): a new CR or LF does not come with its
partner, and those that are there have each other. So the lines of different parts are different and in
order (`Separated`), and this with `PartsAreSaid` is kept by all that the panel says and the
client reads (`NoisyInv`, `NoisySay`, `NoisyRead`). What was handled has lines before those of all
that is still on its way (`KnownFrom`). The two hypotheses, one trouble and `NoEchoes`, are both
needed: TLC finds a behaviour that violates `HandledWasSaid` when `MaxTrouble` is 2, with two
replaced bytes, and one when `Scripts` has a line that ends like another.

Only model-checked: liveness (`LostLinkReplaced`, `KeepsPromise`, `ChainsEnd`, `ComesToRest`,
`ScanEnds`), which is out of the prover's reach. Every invariant and every action property of a
passing run is also a theorem.

## What is not modelled, and the plan

Not modelled for good: `const.py` (tables), `util.py` (string handling and TLS set-up),
the command line tools, examples beyond their handlers, formatting for display.

Left out of modelled parts: decoders that raise for a line with a good checksum, which no
panel sends; observers that themselves call `setattr`; the contents of a log entry;
`User.username`, a look-up.

Of the plan nothing is left. What could be added: `Connection` over `Wire` instead of over whole
lines, which would show at what a link with damaged bytes reconnects; and liveness, once the
provers can do it.
