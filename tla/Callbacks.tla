----------------------------- MODULE Callbacks -----------------------------
(***************************************************************************)
(* elkm1_lib/notify.py and elements.py: who is told what when a message    *)
(* arrives. The notifier calls the handlers of the message one after the   *)
(* other; the handler of the library, as Zones._zs_handler, stores two     *)
(* attributes in every element, and an element that changed calls its      *)
(* observers. Handlers and observers of the client may attach, detach, add *)
(* and remove each other, and may raise.                                   *)
(*                                                                         *)
(* Everything happens in the read task without an await; a step is what    *)
(* happens between two calls of the client's code.                         *)
(***************************************************************************)
EXTENDS Integers, Sequences, SequencesExt

CONSTANTS
    MaxElement,     \* the elements of a kind are 1..MaxElement, in the order of the list
    Value,          \* the values of an attribute
    Unset,          \* the value before the first message
    Handler,        \* handlers of the client for the message
    Store,          \* the handler of the library for it
    Observer,       \* observers of the client
    RemovesPassed,  \* does an observer remove itself or one called before it?
    MaxMessage,     \* bound: messages
    MaxChange,      \* bound: calls that attach, detach, add or remove
    MaxAdded        \* bound: entries in the list of an element

ASSUME CallbacksAssumption ==
    /\ MaxElement \in Nat \ {0}
    /\ Unset \notin Value
    /\ Store \notin Handler
    /\ RemovesPassed \in BOOLEAN
    /\ MaxMessage \in Nat /\ MaxChange \in Nat /\ MaxAdded \in Nat

Element == 1..MaxElement
Handlers == Handler \cup {Store}
Attr == {"logical_status", "physical_status"}
Values == [Attr -> Value \cup {Unset}]

VARIABLES
    handlers,       \* Notifier._observers of the message
    observers,      \* _observers of each element
    attr,           \* the attributes of each element
    changeset,      \* the attributes in _changeset of each element
    \* where the read task is
    pc,             \* outside, between handlers, in one, storing, between observers, in one
    list,           \* the handlers this notification goes through
    next,           \* the place in it of the next handler
    element,        \* the element being stored
    place,          \* the place in its observers
    \* bounds and history
    message,        \* what the last message said
    messages, changes,
    calls,          \* how often each handler was called by this notification
    seen,           \* the values each observer of an element was last told
    raised          \* did an observer raise during this notification?

apparatus == <<handlers, observers>>
cache == <<attr, changeset>>
control == <<pc, list, next, element, place>>
history == <<message, messages, calls, seen, raised>>
vars == <<apparatus, cache, control, history, changes>>

AllUnset == [a \in Attr |-> Unset]

Init ==
    /\ handlers = <<Store>>
    /\ observers = [e \in Element |-> <<>>]
    /\ attr = [e \in Element |-> AllUnset]
    /\ changeset = [e \in Element |-> {}]
    /\ pc = "outside" /\ list = <<>> /\ next = 1 /\ element = 1 /\ place = 1
    /\ message = [e \in Element |-> AllUnset]
    /\ messages = 0 /\ changes = 0
    /\ calls = [h \in Handlers |-> 0]
    /\ seen = [e \in Element |-> [o \in Observer |-> AllUnset]]
    /\ raised = FALSE

-----------------------------------------------------------------------------
(* What the client's code may do, outside and inside of its callbacks.     *)

Client == pc \in {"outside", "in handler", "in observer"} /\ changes < MaxChange

Attach(h) ==
    /\ Client
    /\ h \notin ToSet(handlers)
    /\ handlers' = Append(handlers, h)
    /\ changes' = changes + 1
    /\ UNCHANGED <<observers, cache, control, history>>

(* list.remove removes the first entry that is equal.                      *)
FirstPlace(s, x) == {p \in DOMAIN s : s[p] = x /\ \A q \in 1..p - 1 : s[q] # x}

Detach(h) ==
    /\ Client
    /\ \E p \in FirstPlace(handlers, h) : handlers' = RemoveAt(handlers, p)
    /\ changes' = changes + 1
    /\ UNCHANGED <<observers, cache, control, history>>

(* A client that adds an observer reads the attributes at that time.       *)
AddCallback(e, o) ==
    /\ Client
    /\ Len(observers[e]) < MaxAdded
    /\ observers' = [observers EXCEPT ![e] = Append(@, o)]
    /\ seen' = [seen EXCEPT ![e][o] = attr[e]]
    /\ changes' = changes + 1
    /\ UNCHANGED <<handlers, cache, control, message, messages, calls, raised>>

RemoveCallback(e, o) ==
    /\ Client
    /\ \E p \in FirstPlace(observers[e], o) :
          /\ pc = "in observer" /\ e = element => RemovesPassed \/ p > place
          /\ observers' = [observers EXCEPT ![e] = RemoveAt(@, p)]
    /\ changes' = changes + 1
    /\ UNCHANGED <<handlers, cache, control, history>>

-----------------------------------------------------------------------------
(* Notifier.notify goes through a copy of the list of handlers.            *)

Live(copy) == handlers      \* slip: no copy
Copied(copy) == copy

Receive ==
    /\ pc = "outside"
    /\ messages < MaxMessage
    /\ messages' = messages + 1
    /\ message' \in [Element -> [Attr -> Value]]
    /\ list' = handlers
    /\ next' = 1
    /\ pc' = "between handlers"
    /\ calls' = [h \in Handlers |-> 0]
    /\ raised' = FALSE
    /\ UNCHANGED <<apparatus, cache, element, place, changes, seen>>

CallHandler ==
    /\ pc = "between handlers"
    /\ next <= Len(Copied(list))
    /\ LET h == Copied(list)[next]
       IN  /\ calls' = [calls EXCEPT ![h] = @ + 1]
           /\ pc' = IF h = Store THEN "storing" ELSE "in handler"
    /\ next' = next + 1
    /\ element' = 1
    /\ UNCHANGED <<apparatus, cache, list, place, changes, message, messages, seen, raised>>

(* A handler of the client returns, or raises, which is the same.          *)
HandlerReturns ==
    /\ pc = "in handler"
    /\ pc' = "between handlers"
    /\ UNCHANGED <<apparatus, cache, list, next, element, place, changes, history>>

NotifyReturns ==
    /\ pc = "between handlers"
    /\ next > Len(Copied(list))
    /\ pc' = "outside"
    /\ UNCHANGED <<apparatus, cache, list, next, element, place, changes, history>>

-----------------------------------------------------------------------------
(* The handler of the library: setattr for each attribute of each element,  *)
(* the last of which closes the changeset.                                 *)

SwapsKey(e) == {message[e][a] : a \in {b \in Attr : attr[e][b] # message[e][b]}}     \* slip
Changed(e) == {a \in Attr : attr[e][a] # message[e][a]}

AfterElement ==
    /\ element' = element + 1
    /\ pc' = IF element + 1 \in Element THEN "storing" ELSE "between handlers"

ForgetsPending(e) == Changed(e)     \* slip: the changeset begins empty
Collected(e) == changeset[e] \cup Changed(e)

StoreElement ==
    /\ pc = "storing"
    /\ attr' = [attr EXCEPT ![element] = message[element]]
    /\ changeset' = [changeset EXCEPT ![element] = Collected(element)]
    /\ place' = 1
    /\ \/ /\ Collected(element) = {}
          /\ AfterElement
       \/ /\ Collected(element) # {}
          /\ pc' = "between observers"
          /\ UNCHANGED element
    /\ UNCHANGED <<apparatus, list, next, changes, history>>

(* _notify goes through the list itself.                                   *)
CallObserver ==
    /\ pc = "between observers"
    /\ place <= Len(observers[element])
    /\ seen' = [seen EXCEPT ![element][observers[element][place]] =
                   [a \in Attr |-> IF a \in changeset[element] THEN attr[element][a] ELSE @[a]]]
    /\ pc' = "in observer"
    /\ UNCHANGED <<apparatus, cache, list, next, element, place, changes, message, messages,
                   calls, raised>>

ObserverReturns ==
    /\ pc = "in observer"
    /\ pc' = "between observers"
    /\ place' = place + 1
    /\ UNCHANGED <<apparatus, cache, list, next, element, changes, history>>

(* What it raises goes through _notify, setattr and the handler to the     *)
(* notifier, which calls the next handler.                                 *)
ObserverRaises ==
    /\ pc = "in observer"
    /\ pc' = "between handlers"
    /\ raised' = TRUE
    /\ UNCHANGED <<apparatus, cache, list, next, element, place, changes, message, messages,
                   calls, seen>>

KeepsChangeset == changeset     \* slip: the changeset is not emptied
Reported == [changeset EXCEPT ![element] = {}]

ObserversDone ==
    /\ pc = "between observers"
    /\ place > Len(observers[element])
    /\ changeset' = Reported
    /\ AfterElement
    /\ UNCHANGED <<apparatus, attr, list, next, place, changes, history>>

-----------------------------------------------------------------------------
ClientActs ==
    \/ \E h \in Handler : Attach(h) \/ Detach(h)
    \/ \E e \in Element, o \in Observer : AddCallback(e, o) \/ RemoveCallback(e, o)

Notify == Receive \/ CallHandler \/ HandlerReturns \/ NotifyReturns

Update == StoreElement \/ CallObserver \/ ObserverReturns \/ ObserverRaises \/ ObserversDone

Next == ClientActs \/ Notify \/ Update

Spec == Init /\ [][Next]_vars

-----------------------------------------------------------------------------
TypeOK ==
    /\ handlers \in Seq(Handlers)
    /\ observers \in [Element -> Seq(Observer)]
    /\ attr \in [Element -> Values]
    /\ changeset \in [Element -> SUBSET Attr]
    /\ pc \in {"outside", "between handlers", "in handler", "storing", "between observers",
               "in observer"}
    /\ list \in Seq(Handlers)
    /\ next \in Nat \ {0} /\ element \in Nat \ {0} /\ place \in Nat \ {0}
    /\ message \in [Element -> Values]
    /\ messages \in 0..MaxMessage /\ changes \in 0..MaxChange
    /\ calls \in [Handlers -> Nat]
    /\ seen \in [Element -> [Observer -> Values]]
    /\ raised \in BOOLEAN

(* Every handler that was attached when the message came is called once,    *)
(* whatever handlers and observers attach, detach and raise (notify.py:33). *)
HandlersCalledOnce ==
    [][pc = "between handlers" /\ pc' = "outside" =>
          \A h \in Handlers : calls[h] = IF h \in ToSet(list) THEN 1 ELSE 0]_vars

(* Between messages an observer that is on the list of an element has been *)
(* told the value of every attribute, but for the changes that an element  *)
(* still has to report because an observer raised (elements.py:51-67).     *)
ObserversKnow ==
    pc = "outside" =>
        \A e \in Element : \A o \in ToSet(observers[e]) : \A a \in Attr \ changeset[e] :
            seen[e][o][a] = attr[e][a]

(* A change that was not reported because an observer raised is reported   *)
(* with the next message that is stored without an exception, changed or   *)
(* not (elements.py:60-67).                                                 *)
PendingReported ==
    pc = "outside" /\ messages > 0 /\ ~raised =>
        \A e \in Element : changeset[e] = {} /\ attr[e] = message[e]
=============================================================================
