-------------------------- MODULE CallbacksProofs --------------------------
(***************************************************************************)
(* What holds of Callbacks for any number of elements, handlers, observers  *)
(* and messages.                                                           *)
(***************************************************************************)
EXTENDS Callbacks, TLAPS

(* While a message is stored there is an element that is stored.           *)
Updating == pc \in {"storing", "between observers", "in observer"}

TypeInv == TypeOK /\ (Updating => element \in Element)

LEMMA RemoveAtType ==
    ASSUME NEW S, NEW s \in Seq(S), NEW p \in DOMAIN s
    PROVE  /\ RemoveAt(s, p) \in Seq(S)
           /\ Len(RemoveAt(s, p)) = Len(s) - 1
           /\ \A i \in 1..Len(s) - 1 :
                 RemoveAt(s, p)[i] = IF i < p THEN s[i] ELSE s[i + 1]
  <1> DEFINE front == SubSeq(s, 1, p - 1)
             back == SubSeq(s, p + 1, Len(s))
  <1>1. p \in 1..Len(s) /\ Len(s) \in Nat
    OBVIOUS
  <1>2. /\ front \in Seq(S) /\ Len(front) = p - 1
        /\ \A i \in 1..p - 1 : front[i] = s[i]
    BY <1>1
  <1>3. /\ back \in Seq(S) /\ Len(back) = Len(s) - p
        /\ \A i \in 1..Len(s) - p : back[i] = s[p + i]
    BY <1>1
  <1> HIDE DEF front, back
  <1>4. /\ front \o back \in Seq(S) /\ Len(front \o back) = Len(s) - 1
        /\ \A i \in 1..Len(s) - 1 :
              (front \o back)[i] = IF i < p THEN front[i] ELSE back[i - p + 1]
    BY <1>1, <1>2, <1>3
  <1>5. \A i \in 1..Len(s) - 1 : (front \o back)[i] = IF i < p THEN s[i] ELSE s[i + 1]
    <2> SUFFICES ASSUME NEW i \in 1..Len(s) - 1
                 PROVE  (front \o back)[i] = IF i < p THEN s[i] ELSE s[i + 1]
      OBVIOUS
    <2>1. CASE i < p
      <3>1. i \in 1..p - 1
        BY <2>1, <1>1
      <3> QED
        BY <2>1, <3>1, <1>2, <1>4
    <2>2. CASE ~(i < p)
      <3>1. i - p + 1 \in 1..Len(s) - p /\ p + (i - p + 1) = i + 1
        BY <2>2, <1>1
      <3> QED
        BY <2>2, <3>1, <1>3, <1>4
    <2> QED
      BY <2>1, <2>2
  <1> QED
    BY <1>4, <1>5 DEF RemoveAt, front, back

LEMMA FirstPlaceType ==
    ASSUME NEW S, NEW s \in Seq(S), NEW x, NEW p \in FirstPlace(s, x)
    PROVE  p \in DOMAIN s /\ s[p] = x
  BY DEF FirstPlace

(* What every call of the client's code adds to the count of changes.      *)
LEMMA ChangesType ==
    ASSUME changes \in 0..MaxChange, Client, changes' = changes + 1
    PROVE  changes' \in 0..MaxChange
  <1>1. MaxChange \in Nat
    BY CallbacksAssumption
  <1>2. changes < MaxChange
    BY DEF Client
  <1> QED
    BY <1>1, <1>2

LEMMA TypeStep == TypeInv /\ [Next]_vars => TypeInv'
  <1> SUFFICES ASSUME TypeInv, [Next]_vars PROVE TypeInv'
    OBVIOUS
  <1>t1. handlers \in Seq(Handlers) /\ list \in Seq(Handlers)
    BY DEF TypeInv, TypeOK
  <1>t2. observers \in [Element -> Seq(Observer)]
    BY DEF TypeInv, TypeOK
  <1>t3. attr \in [Element -> Values] /\ message \in [Element -> Values]
    BY DEF TypeInv, TypeOK
  <1>t4. changeset \in [Element -> SUBSET Attr]
    BY DEF TypeInv, TypeOK
  <1>t5. next \in Nat \ {0} /\ element \in Nat \ {0} /\ place \in Nat \ {0}
    BY DEF TypeInv, TypeOK
  <1>t6. messages \in 0..MaxMessage /\ changes \in 0..MaxChange
    BY DEF TypeInv, TypeOK
  <1>t7. calls \in [Handlers -> Nat]
    BY DEF TypeInv, TypeOK
  <1>t8. seen \in [Element -> [Observer -> Values]]
    BY DEF TypeInv, TypeOK
  <1>t9. Updating => element \in Element
    BY DEF TypeInv
  <1>1. ASSUME NEW h \in Handler, Attach(h) PROVE TypeInv'
    <2>1. handlers' = Append(handlers, h) /\ h \in Handlers
      BY <1>1 DEF Attach, Handlers
    <2>2. handlers' \in Seq(Handlers)
      BY <2>1, <1>t1
    <2>3. changes' \in 0..MaxChange
      BY <1>1, <1>t6, ChangesType DEF Attach
    <2> QED
      BY <1>1, <2>2, <2>3 DEF Attach, TypeInv, TypeOK, Updating, cache, control, history
  <1>2. ASSUME NEW h \in Handler, Detach(h) PROVE TypeInv'
    <2>1. PICK p \in FirstPlace(handlers, h) : handlers' = RemoveAt(handlers, p)
      BY <1>2 DEF Detach
    <2>2. handlers' \in Seq(Handlers)
      BY <2>1, <1>t1, RemoveAtType, FirstPlaceType
    <2>3. changes' \in 0..MaxChange
      BY <1>2, <1>t6, ChangesType DEF Detach
    <2> QED
      BY <1>2, <2>2, <2>3 DEF Detach, TypeInv, TypeOK, Updating, cache, control, history
  <1>3. ASSUME NEW e \in Element, NEW o \in Observer, AddCallback(e, o) PROVE TypeInv'
    <2>1. observers' \in [Element -> Seq(Observer)]
      <3>1. observers' = [observers EXCEPT ![e] = Append(observers[e], o)]
        BY <1>3 DEF AddCallback
      <3>2. Append(observers[e], o) \in Seq(Observer)
        BY <1>t2
      <3> QED
        BY <3>1, <3>2, <1>t2
    <2>2. seen' \in [Element -> [Observer -> Values]]
      <3>1. seen' = [seen EXCEPT ![e][o] = attr[e]]
        BY <1>3 DEF AddCallback
      <3> QED
        BY <3>1, <1>t3, <1>t8
    <2>3. changes' \in 0..MaxChange
      BY <1>3, <1>t6, ChangesType DEF AddCallback
    <2> QED
      BY <1>3, <2>1, <2>2, <2>3 DEF AddCallback, TypeInv, TypeOK, Updating, cache, control
  <1>4. ASSUME NEW e \in Element, NEW o \in Observer, RemoveCallback(e, o) PROVE TypeInv'
    <2>1. PICK p \in FirstPlace(observers[e], o) :
              observers' = [observers EXCEPT ![e] = RemoveAt(observers[e], p)]
      BY <1>4 DEF RemoveCallback
    <2>2. RemoveAt(observers[e], p) \in Seq(Observer)
      BY <1>t2, RemoveAtType, FirstPlaceType
    <2>3. observers' \in [Element -> Seq(Observer)]
      BY <2>1, <2>2, <1>t2
    <2>4. changes' \in 0..MaxChange
      BY <1>4, <1>t6, ChangesType DEF RemoveCallback
    <2> QED
      BY <1>4, <2>3, <2>4 DEF RemoveCallback, TypeInv, TypeOK, Updating, cache, control, history
  <1>5. CASE Receive
    <2>1. message' \in [Element -> Values]
      BY <1>5 DEF Receive, Values
    <2>2. messages' \in 0..MaxMessage
      <3>1. MaxMessage \in Nat
        BY CallbacksAssumption
      <3>2. messages < MaxMessage /\ messages' = messages + 1
        BY <1>5 DEF Receive
      <3> QED
        BY <3>1, <3>2, <1>t6
    <2>3. calls' = [h \in Handlers |-> 0] /\ list' = handlers /\ next' = 1
      BY <1>5 DEF Receive
    <2>4. calls' \in [Handlers -> Nat] /\ list' \in Seq(Handlers) /\ next' \in Nat \ {0}
      BY <2>3, <1>t1
    <2> QED
      BY <1>5, <2>1, <2>2, <2>4 DEF Receive, TypeInv, TypeOK, Updating, apparatus, cache
  <1>6. CASE CallHandler
    <2>0. next <= Len(list) /\ next' = next + 1
      BY <1>6 DEF CallHandler, Copied
    <2>1. list[next] \in Handlers
      BY <2>0, <1>t1, <1>t5
    <2>2. calls' = [calls EXCEPT ![list[next]] = @ + 1]
      BY <1>6 DEF CallHandler, Copied
    <2>3. calls' \in [Handlers -> Nat]
      BY <2>1, <2>2, <1>t7
    <2>4. next' \in Nat \ {0}
      BY <2>0, <1>t5
    <2>5. element' = 1
      BY <1>6 DEF CallHandler
    <2>7. 1 \in Element /\ 1 \in Nat \ {0}
      BY CallbacksAssumption DEF Element
    <2>6. pc' \in {"storing", "in handler"}
      BY <1>6 DEF CallHandler
    <2> QED
      BY <1>6, <2>3, <2>4, <2>5, <2>6, <2>7 DEF CallHandler, TypeInv, TypeOK, Updating, apparatus, cache
  <1>7. CASE HandlerReturns
    BY <1>7 DEF HandlerReturns, TypeInv, TypeOK, Updating, apparatus, cache, history
  <1>8. CASE NotifyReturns
    BY <1>8 DEF NotifyReturns, TypeInv, TypeOK, Updating, apparatus, cache, history
  <1>a. ASSUME AfterElement
        PROVE  /\ element' \in Nat \ {0} /\ pc' \in {"storing", "between handlers"}
               /\ Updating' => element' \in Element
    <2>1. element' = element + 1
      BY <1>a DEF AfterElement
    <2>2. pc' = IF element + 1 \in Element THEN "storing" ELSE "between handlers"
      BY <1>a DEF AfterElement
    <2>3. element' \in Nat \ {0}
      BY <2>1, <1>t5
    <2>4. CASE element + 1 \in Element
      BY <2>1, <2>2, <2>3, <2>4
    <2>5. CASE element + 1 \notin Element
      <3>1. pc' = "between handlers"
        BY <2>2, <2>5
      <3> QED
        BY <2>3, <3>1 DEF Updating
    <2> QED
      BY <2>4, <2>5
  <1>9. CASE StoreElement
    <2>0. element \in Element
      BY <1>9, <1>t9 DEF StoreElement, Updating
    <2>1. attr' \in [Element -> Values]
      BY <1>9, <2>0, <1>t3 DEF StoreElement
    <2>2. changeset' = [changeset EXCEPT ![element] = Collected(element)]
      BY <1>9 DEF StoreElement
    <2>3. Collected(element) \in SUBSET Attr
      BY <2>0, <1>t4 DEF Collected, Changed
    <2>4. changeset' \in [Element -> SUBSET Attr]
      BY <2>2, <2>3, <1>t4
    <2>5. /\ element' \in Nat \ {0}
          /\ pc' \in {"storing", "between handlers", "between observers"}
          /\ Updating' => element' \in Element
      BY <1>9, <1>a, <2>0, <1>t5 DEF StoreElement
    <2>6. place' = 1 /\ UNCHANGED <<apparatus, list, next, changes, history>>
      BY <1>9 DEF StoreElement
    <2>7. place' \in Nat \ {0}
      BY <2>6
    <2> QED
      BY <2>1, <2>4, <2>5, <2>6, <2>7 DEF TypeInv, TypeOK, apparatus, history
  <1>10. CASE CallObserver
    <2> DEFINE o == observers[element][place]
               told == [a \in Attr |-> IF a \in changeset[element] THEN attr[element][a]
                                       ELSE seen[element][o][a]]
    <2>0. element \in Element
      BY <1>10, <1>t9 DEF CallObserver, Updating
    <2>6. place <= Len(observers[element])
      BY <1>10 DEF CallObserver
    <2>1. o \in Observer
      BY <2>0, <2>6, <1>t2, <1>t5
    <2>2. seen[element][o] \in Values /\ attr[element] \in Values
      BY <2>0, <2>1, <1>t3, <1>t8
    <2>3. told \in Values
      BY <2>2 DEF Values
    <2>4. seen' = [seen EXCEPT ![element][o] = told]
      BY <1>10 DEF CallObserver
    <2> HIDE DEF o, told
    <2>5. seen' \in [Element -> [Observer -> Values]]
      BY <2>0, <2>1, <2>3, <2>4, <1>t8
    <2> QED
      BY <1>10, <2>0, <2>5 DEF CallObserver, TypeInv, TypeOK, Updating, apparatus, cache
  <1>11. CASE ObserverReturns
    <2>0. place' = place + 1
      BY <1>11 DEF ObserverReturns
    <2>1. place' \in Nat \ {0}
      BY <2>0, <1>t5
    <2> QED
      BY <1>11, <2>1 DEF ObserverReturns, TypeInv, TypeOK, Updating, apparatus, cache, history
  <1>12. CASE ObserverRaises
    BY <1>12 DEF ObserverRaises, TypeInv, TypeOK, Updating, apparatus, cache
  <1>13. CASE ObserversDone
    <2>1. changeset' \in [Element -> SUBSET Attr]
      BY <1>13, <1>t4 DEF ObserversDone, Reported
    <2>2. /\ element' \in Nat \ {0} /\ pc' \in {"storing", "between handlers"}
          /\ Updating' => element' \in Element
      BY <1>13, <1>a DEF ObserversDone
    <2> QED
      BY <1>13, <2>1, <2>2 DEF ObserversDone, TypeInv, TypeOK, apparatus, history
  <1>14. CASE UNCHANGED vars
    BY <1>14 DEF vars, TypeInv, TypeOK, Updating, apparatus, cache, control, history
  <1> QED
    BY <1>1, <1>2, <1>3, <1>4, <1>5, <1>6, <1>7, <1>8, <1>9, <1>10, <1>11, <1>12, <1>13, <1>14
       DEF Next, ClientActs, Notify, Update

LEMMA TypeInit == Init => TypeInv
  <1> SUFFICES ASSUME Init PROVE TypeInv
    OBVIOUS
  <1>1. AllUnset \in Values
    BY DEF AllUnset, Values
  <1>2. handlers \in Seq(Handlers) /\ list \in Seq(Handlers)
    BY DEF Init, Handlers
  <1>3. observers \in [Element -> Seq(Observer)]
    BY DEF Init
  <1>4. messages \in 0..MaxMessage /\ changes \in 0..MaxChange
    BY CallbacksAssumption DEF Init
  <1>5. calls \in [Handlers -> Nat]
    BY DEF Init
  <1>6. next \in Nat \ {0} /\ element \in Nat \ {0} /\ place \in Nat \ {0}
    BY DEF Init
  <1>7. attr \in [Element -> Values] /\ message \in [Element -> Values]
    BY <1>1 DEF Init
  <1>8. seen \in [Element -> [Observer -> Values]]
    BY <1>1 DEF Init
  <1>9. changeset \in [Element -> SUBSET Attr]
    BY DEF Init
  <1>10. pc = "outside" /\ raised \in BOOLEAN
    BY DEF Init
  <1> QED
    BY <1>2, <1>3, <1>4, <1>5, <1>6, <1>7, <1>8, <1>9, <1>10 DEF TypeInv, TypeOK, Updating

(* Every variable has its type, whatever handlers and observers do.        *)
THEOREM TypeCorrect == Spec => []TypeOK
  <1>1. TypeInv => TypeOK
    BY DEF TypeInv
  <1> QED
    BY <1>1, TypeInit, TypeStep, PTL DEF Spec
-----------------------------------------------------------------------------
(* A handler is attached once, so it is in the copy once; it was called     *)
(* when the notification is past its place.                                *)
Distinct(s) == \A i, j \in 1..Len(s) : s[i] = s[j] => i = j
Passed(h) == \E i \in 1..next - 1 : list[i] = h

CalledInv ==
    /\ Distinct(handlers)
    /\ pc # "outside" =>
          /\ Distinct(list)
          /\ next <= Len(list) + 1
          /\ \A h \in Handlers : calls[h] = IF Passed(h) THEN 1 ELSE 0

LEMMA ToSetPlaces ==
    ASSUME NEW S, NEW s \in Seq(S), NEW x
    PROVE  x \in ToSet(s) <=> \E i \in 1..Len(s) : s[i] = x
  BY DEF ToSet

LEMMA AppendDistinct ==
    ASSUME NEW S, NEW s \in Seq(S), NEW x \in S, x \notin ToSet(s), Distinct(s)
    PROVE  Distinct(Append(s, x))
  <1>1. /\ Len(Append(s, x)) = Len(s) + 1 /\ Append(s, x)[Len(s) + 1] = x
        /\ \A i \in 1..Len(s) : Append(s, x)[i] = s[i]
    OBVIOUS
  <1>2. \A i \in 1..Len(s) : s[i] # x
    BY ToSetPlaces
  <1> QED
    BY <1>1, <1>2 DEF Distinct

LEMMA RemoveDistinct ==
    ASSUME NEW S, NEW s \in Seq(S), NEW p \in DOMAIN s, Distinct(s)
    PROVE  Distinct(RemoveAt(s, p))
  <1> DEFINE r == RemoveAt(s, p)
             old(i) == IF i < p THEN i ELSE i + 1
  <1>1. Len(s) \in Nat /\ p \in 1..Len(s)
    OBVIOUS
  <1>2. Len(r) = Len(s) - 1 /\ \A i \in 1..Len(s) - 1 : r[i] = s[old(i)]
    BY RemoveAtType
  <1> HIDE DEF r
  <1> SUFFICES ASSUME NEW i \in 1..Len(s) - 1, NEW j \in 1..Len(s) - 1, r[i] = r[j]
               PROVE  i = j
    BY <1>2 DEF Distinct, r
  <1>3. old(i) \in 1..Len(s) /\ old(j) \in 1..Len(s)
    BY <1>1
  <1>4. old(i) = old(j)
    BY <1>2, <1>3 DEF Distinct
  <1> QED
    BY <1>1, <1>4

LEMMA CalledStep == TypeInv /\ CalledInv /\ [Next]_vars => CalledInv'
  <1> SUFFICES ASSUME TypeInv, CalledInv, [Next]_vars PROVE CalledInv'
    OBVIOUS
  <1>t. handlers \in Seq(Handlers) /\ list \in Seq(Handlers) /\ next \in Nat \ {0}
    BY DEF TypeInv, TypeOK
  <1>c. calls \in [Handlers -> Nat]
    BY DEF TypeInv, TypeOK
  <1>k. ASSUME Distinct(handlers'), UNCHANGED <<list, next, calls>>, pc' # "outside" => pc # "outside"
        PROVE  CalledInv'
    BY <1>k DEF CalledInv, Passed
  <1>1. ASSUME NEW h \in Handler, Attach(h) PROVE CalledInv'
    <2>1. handlers' = Append(handlers, h) /\ h \in Handlers /\ h \notin ToSet(handlers)
      BY <1>1 DEF Attach, Handlers
    <2>2. Distinct(handlers')
      BY <2>1, <1>t, AppendDistinct DEF CalledInv
    <2> QED
      BY <1>1, <1>k, <2>2 DEF Attach, control, history
  <1>2. ASSUME NEW h \in Handler, Detach(h) PROVE CalledInv'
    <2>1. PICK p \in FirstPlace(handlers, h) : handlers' = RemoveAt(handlers, p)
      BY <1>2 DEF Detach
    <2>2. Distinct(handlers')
      BY <2>1, <1>t, FirstPlaceType, RemoveDistinct DEF CalledInv
    <2> QED
      BY <1>2, <1>k, <2>2 DEF Detach, control, history
  <1>3. CASE Receive
    <2>1. list' = handlers /\ next' = 1 /\ calls' = [h \in Handlers |-> 0]
          /\ handlers' = handlers
      BY <1>3 DEF Receive, apparatus
    <2>2. \A h \in Handlers : ~Passed(h)'
      BY <2>1 DEF Passed
    <2>3. next' <= Len(list') + 1
      BY <2>1, <1>t
    <2> QED
      BY <2>1, <2>2, <2>3 DEF CalledInv, Distinct
  <1>4. CASE CallHandler
    <2>1. /\ pc = "between handlers" /\ next <= Len(list) /\ next' = next + 1
          /\ calls' = [calls EXCEPT ![list[next]] = @ + 1] /\ UNCHANGED <<handlers, list>>
      BY <1>4 DEF CallHandler, Copied, apparatus
    <2>2. /\ Distinct(list)
          /\ \A h \in Handlers : calls[h] = IF Passed(h) THEN 1 ELSE 0
      BY <2>1 DEF CalledInv
    <2>a. next <= Len(list) /\ next' = next + 1 /\ list' = list
      BY <2>1
    <2>3. list[next] \in Handlers /\ next' <= Len(list') + 1
      BY <2>a, <1>t
    <2>4. ~Passed(list[next])
      <3>1. \A i \in 1..next - 1 : i \in 1..Len(list) /\ i # next
        BY <2>a, <1>t
      <3>2. next \in 1..Len(list) /\ Distinct(list)
        BY <2>a, <2>2, <1>t
      <3> QED
        BY <3>1, <3>2 DEF Passed, Distinct
    <2>5. ASSUME NEW h \in Handlers PROVE calls'[h] = IF Passed(h)' THEN 1 ELSE 0
      <3>1. Passed(h)' <=> Passed(h) \/ h = list[next]
        <4>1. 1..next' - 1 = (1..next - 1) \cup {next}
          BY <2>a, <1>t
        <4> QED
          BY <4>1, <2>a DEF Passed
      <3>2. CASE h = list[next]
        <4>1. calls[h] = 0 /\ calls'[h] = calls[h] + 1
          BY <3>2, <2>1, <2>2, <2>3, <2>4, <1>c
        <4> QED
          BY <3>1, <3>2, <4>1
      <3>3. CASE h # list[next]
        <4>1. calls'[h] = calls[h]
          BY <3>3, <2>1, <1>c
        <4> QED
          BY <3>1, <3>3, <4>1, <2>2
      <3> QED
        BY <3>2, <3>3
    <2> QED
      BY <2>1, <2>2, <2>3, <2>5 DEF CalledInv
  <1>5. ASSUME NEW e \in Element, NEW o \in Observer, AddCallback(e, o) \/ RemoveCallback(e, o)
        PROVE  CalledInv'
    BY <1>5, <1>k DEF AddCallback, RemoveCallback, control, history, CalledInv
  <1>6. CASE HandlerReturns \/ NotifyReturns
    BY <1>6, <1>k DEF HandlerReturns, NotifyReturns, apparatus, history, CalledInv
  <1>7. CASE StoreElement
    BY <1>7, <1>k DEF StoreElement, apparatus, history, CalledInv
  <1>8. CASE CallObserver
    BY <1>8, <1>k DEF CallObserver, apparatus, CalledInv
  <1>9. CASE ObserverReturns \/ ObserverRaises
    BY <1>9, <1>k DEF ObserverReturns, ObserverRaises, apparatus, history, CalledInv
  <1>10. CASE ObserversDone
    BY <1>10, <1>k DEF ObserversDone, apparatus, history, CalledInv
  <1>11. CASE UNCHANGED vars
    BY <1>11, <1>k DEF vars, apparatus, control, history, CalledInv
  <1> QED
    BY <1>1, <1>2, <1>3, <1>4, <1>5, <1>6, <1>7, <1>8, <1>9, <1>10, <1>11
       DEF Next, ClientActs, Notify, Update

LEMMA CalledInvariant == Spec => [](TypeInv /\ CalledInv)
  <1>1. Init => CalledInv
    BY DEF Init, CalledInv, Distinct
  <1> QED
    BY <1>1, TypeInit, TypeStep, CalledStep, PTL DEF Spec

(* Every handler that was attached when the message came is called once,    *)
(* whatever handlers and observers attach, detach and raise (notify.py:33). *)
THEOREM EveryHandlerOnce == Spec => HandlersCalledOnce
  <1> DEFINE Once == \A h \in Handlers : calls[h] = IF h \in ToSet(list) THEN 1 ELSE 0
  <1>1. ASSUME TypeInv, CalledInv, [Next]_vars, pc = "between handlers", pc' = "outside"
        PROVE  Once
    <2>1. NotifyReturns
      BY <1>1 DEF Next, ClientActs, Notify, Update, Attach, Detach, AddCallback, RemoveCallback,
         Receive, CallHandler, HandlerReturns, StoreElement, CallObserver, ObserverReturns,
         ObserverRaises, ObserversDone, Client, vars, control
    <2>2. next > Len(list)
      BY <2>1 DEF NotifyReturns, Copied
    <2>3. /\ next <= Len(list) + 1
          /\ \A h \in Handlers : calls[h] = IF Passed(h) THEN 1 ELSE 0
      BY <1>1 DEF CalledInv
    <2>4. list \in Seq(Handlers) /\ next \in Nat \ {0}
      BY <1>1 DEF TypeInv, TypeOK
    <2>5. next - 1 = Len(list)
      BY <2>2, <2>3, <2>4
    <2>6. \A h : Passed(h) <=> h \in ToSet(list)
      BY <2>4, <2>5, ToSetPlaces DEF Passed
    <2> QED
      BY <2>3, <2>6
  <1> QED
    BY <1>1, CalledInvariant, PTL DEF Spec, HandlersCalledOnce
-----------------------------------------------------------------------------
(* An element is done when it has what the message said and has reported    *)
(* it. Unless an observer raised, the elements before the one that is       *)
(* stored are done, and all are when the library's handler has returned.    *)
Done(e) == changeset[e] = {} /\ attr[e] = message[e]
AllDone == \A e \in Element : Done(e)
Reporting == pc \in {"between observers", "in observer"}

StoreAttached ==
    /\ \E i \in 1..Len(handlers) : handlers[i] = Store
    /\ pc # "outside" => \E i \in 1..Len(list) : list[i] = Store

DoneSoFar ==
    /\ pc = "outside" /\ messages > 0 => AllDone
    /\ pc \in {"between handlers", "in handler"} /\ Passed(Store) => AllDone
    /\ Updating => \A e \in Element : e < element => Done(e)
    /\ Reporting => attr[element] = message[element]

PendingInv == StoreAttached /\ (~raised => DoneSoFar)

LEMMA StoreStep == TypeInv /\ StoreAttached /\ [Next]_vars => StoreAttached'
  <1> SUFFICES ASSUME TypeInv, StoreAttached, [Next]_vars PROVE StoreAttached'
    OBVIOUS
  <1>t. handlers \in Seq(Handlers)
    BY DEF TypeInv, TypeOK
  <1>i. PICK i \in 1..Len(handlers) : handlers[i] = Store
    BY DEF StoreAttached
  <1>1. ASSUME NEW h \in Handler, Attach(h) PROVE StoreAttached'
    <2>1. handlers' = Append(handlers, h) /\ UNCHANGED <<pc, list>>
      BY <1>1 DEF Attach, control
    <2>2. Len(handlers') = Len(handlers) + 1 /\ handlers'[i] = Store
      BY <2>1, <1>t, <1>i
    <2>3. i \in 1..Len(handlers')
      BY <2>2, <1>t
    <2> QED
      BY <2>1, <2>2, <2>3 DEF StoreAttached
  <1>2. ASSUME NEW h \in Handler, Detach(h) PROVE StoreAttached'
    <2>1. UNCHANGED <<pc, list>>
      BY <1>2 DEF Detach, control
    <2>2. PICK p \in FirstPlace(handlers, h) : handlers' = RemoveAt(handlers, p)
      BY <1>2 DEF Detach
    <2>3. p \in DOMAIN handlers /\ p # i
      BY <2>2, <1>t, <1>i, FirstPlaceType, CallbacksAssumption
    <2>4. /\ Len(handlers') = Len(handlers) - 1
          /\ \A j \in 1..Len(handlers) - 1 :
                handlers'[j] = IF j < p THEN handlers[j] ELSE handlers[j + 1]
      BY <2>2, <2>3, <1>t, RemoveAtType
    <2>5. p \in 1..Len(handlers)
      BY <2>3, <1>t
    <2> DEFINE j == IF i < p THEN i ELSE i - 1
    <2>6. j \in 1..Len(handlers) - 1 /\ (IF j < p THEN j ELSE j + 1) = i
      BY <2>3, <2>5, <1>t
    <2>7. handlers'[j] = Store
      BY <2>4, <2>6, <1>i
    <2>8. j \in 1..Len(handlers')
      BY <2>4, <2>6
    <2> QED
      BY <2>1, <2>7, <2>8 DEF StoreAttached
  <1>3. CASE Receive
    BY <1>3 DEF Receive, apparatus, StoreAttached
  <1>4. CASE UNCHANGED <<handlers, list>> /\ (pc' # "outside" => pc # "outside")
    BY <1>4 DEF StoreAttached
  <1>5. ASSUME NEW e \in Element, NEW o \in Observer, AddCallback(e, o) \/ RemoveCallback(e, o)
        PROVE  StoreAttached'
    BY <1>5, <1>4 DEF AddCallback, RemoveCallback, control
  <1>6. CASE CallHandler \/ HandlerReturns \/ NotifyReturns
    BY <1>6, <1>4 DEF CallHandler, HandlerReturns, NotifyReturns, apparatus
  <1>7. CASE Update
    BY <1>7, <1>4 DEF Update, StoreElement, CallObserver, ObserverReturns, ObserverRaises,
       ObserversDone, apparatus
  <1>8. CASE UNCHANGED vars
    BY <1>8, <1>4 DEF vars, apparatus, control
  <1> QED
    BY <1>1, <1>2, <1>3, <1>5, <1>6, <1>7, <1>8 DEF Next, ClientActs, Notify

(* When the element that was stored is done, so are those before the next,  *)
(* and all of them when there is no next one.                              *)
LEMMA DoneAfter ==
    ASSUME TypeInv, NEW x \in Element, x = element, Done(x)',
           \A e \in Element : e < element => Done(e)', AfterElement, ~Reporting'
    PROVE  DoneSoFar'
  <1>1. element \in Nat \ {0}
    BY DEF TypeInv, TypeOK
  <1>2. element' = element + 1
    BY DEF AfterElement
  <1>3. pc' = IF element + 1 \in Element THEN "storing" ELSE "between handlers"
    BY DEF AfterElement
  <1>4. \A e \in Element : e < element' => e < element \/ e = element
    BY <1>1, <1>2 DEF Element
  <1>5. \A e \in Element : e < element' => Done(e)'
    BY <1>4
  <1>6. CASE element + 1 \in Element
    <2>1. pc' = "storing"
      BY <1>3, <1>6
    <2> QED
      BY <2>1, <1>5 DEF DoneSoFar, Updating, Reporting
  <1>7. CASE element + 1 \notin Element
    <2>1. MaxElement \in Nat
      BY CallbacksAssumption
    <2>2. \A e \in Element : e < element'
      BY <2>1, <1>1, <1>2, <1>7 DEF Element
    <2>3. pc' = "between handlers"
      BY <1>3, <1>7
    <2> QED
      BY <2>2, <2>3, <1>5 DEF DoneSoFar, AllDone, Updating, Reporting
  <1> QED
    BY <1>6, <1>7

LEMMA PendingStep == TypeInv /\ CalledInv /\ PendingInv /\ [Next]_vars => PendingInv'
  <1> SUFFICES ASSUME TypeInv, CalledInv, PendingInv, [Next]_vars, ~raised' PROVE DoneSoFar'
    BY StoreStep DEF PendingInv
  <1>t. next \in Nat \ {0} /\ list \in Seq(Handlers)
    BY DEF TypeInv, TypeOK
  <1>u. Updating => element \in Element /\ element \in Nat
    BY DEF TypeInv, TypeOK
  <1>k. ASSUME ~raised, UNCHANGED <<cache, control, message, messages>> PROVE DoneSoFar'
    BY <1>k DEF PendingInv, DoneSoFar, AllDone, Done, Passed, Updating, Reporting, cache, control
  <1>1. CASE ClientActs
    <2>1. ASSUME NEW h \in Handler, Attach(h) \/ Detach(h) PROVE DoneSoFar'
      BY <2>1, <1>k DEF Attach, Detach, history
    <2>2. ASSUME NEW e \in Element, NEW o \in Observer, AddCallback(e, o) PROVE DoneSoFar'
      BY <2>2, <1>k DEF AddCallback
    <2>3. ASSUME NEW e \in Element, NEW o \in Observer, RemoveCallback(e, o) PROVE DoneSoFar'
      BY <2>3, <1>k DEF RemoveCallback, history
    <2> QED
      BY <1>1, <2>1, <2>2, <2>3 DEF ClientActs
  <1>2. CASE Receive
    <2>1. next' = 1
      BY <1>2 DEF Receive
    <2>2. ~Passed(Store)'
      BY <2>1 DEF Passed
    <2>3. pc' = "between handlers"
      BY <1>2 DEF Receive
    <2> QED
      BY <2>2, <2>3 DEF DoneSoFar, Updating, Reporting
  <1>3. CASE CallHandler
    <2>1. /\ pc = "between handlers" /\ UNCHANGED <<cache, message, messages, list>> /\ ~raised
          /\ pc' = IF list[next] = Store THEN "storing" ELSE "in handler"
      BY <1>3 DEF CallHandler, Copied
    <2>a. next' = next + 1 /\ list' = list /\ element' = 1
      BY <1>3 DEF CallHandler
    <2>2. CASE list[next] = Store
      <3>1. \A e \in Element : ~(e < element')
        BY <2>a DEF Element
      <3>2. pc' = "storing"
        BY <2>1, <2>2
      <3> QED
        BY <3>1, <3>2 DEF DoneSoFar, Updating, Reporting
    <2>3. CASE list[next] # Store
      <3>1. 1..next' - 1 = (1..next - 1) \cup {next}
        BY <2>a, <1>t
      <3>2. Passed(Store)' => Passed(Store)
        BY <3>1, <2>3, <2>a DEF Passed
      <3>3. Passed(Store)' => AllDone'
        BY <3>2, <2>1 DEF PendingInv, DoneSoFar, AllDone, Done, cache
      <3>4. pc' = "in handler"
        BY <2>1, <2>3
      <3> QED
        BY <3>3, <3>4 DEF DoneSoFar, Updating, Reporting
    <2> QED
      BY <2>2, <2>3
  <1>4. CASE HandlerReturns
    <2>1. /\ pc = "in handler" /\ pc' = "between handlers" /\ ~raised
          /\ UNCHANGED <<cache, message, messages, list, next>>
      BY <1>4 DEF HandlerReturns, history
    <2> QED
      BY <2>1 DEF PendingInv, DoneSoFar, AllDone, Done, Passed, Updating, Reporting, cache
  <1>5. CASE NotifyReturns
    <2>1. /\ pc = "between handlers" /\ pc' = "outside" /\ ~raised
          /\ UNCHANGED <<cache, message>>
      BY <1>5 DEF NotifyReturns, history
    <2>2. next > Len(list)
      BY <1>5 DEF NotifyReturns, Copied
    <2>3. PICK i \in 1..Len(list) : list[i] = Store
      BY <2>1 DEF PendingInv, StoreAttached
    <2>4. i \in 1..next - 1
      BY <2>2, <1>t
    <2>5. Passed(Store)
      BY <2>3, <2>4 DEF Passed
    <2>6. AllDone
      BY <2>1, <2>5 DEF PendingInv, DoneSoFar
    <2>7. AllDone'
      BY <2>1, <2>6 DEF AllDone, Done, cache
    <2> QED
      BY <2>1, <2>7 DEF DoneSoFar, Updating, Reporting
  <1>6. CASE StoreElement
    <2>1. /\ pc = "storing" /\ ~raised /\ UNCHANGED message
          /\ attr' = [attr EXCEPT ![element] = message[element]]
          /\ changeset' = [changeset EXCEPT ![element] = Collected(element)]
      BY <1>6 DEF StoreElement, history
    <2>2. /\ attr \in [Element -> Values] /\ changeset \in [Element -> SUBSET Attr]
          /\ element \in Element /\ element \in Nat
      BY <2>1, <1>u DEF TypeInv, TypeOK, Updating
    <2>3. attr'[element] = message'[element] /\ changeset'[element] = Collected(element)
      BY <2>1, <2>2
    <2>4. \A e \in Element : e < element => Done(e)
      BY <2>1 DEF PendingInv, DoneSoFar, Updating
    <2>5. \A e \in Element : e < element => e # element
      BY <2>2
    <2>6. \A e \in Element : e < element => Done(e)'
      BY <2>1, <2>2, <2>4, <2>5 DEF Done
    <2>7. CASE Collected(element) = {}
      <3>1. AfterElement
        BY <1>6, <2>7 DEF StoreElement
      <3>2. PICK x \in Element : x = element
        BY <2>2
      <3>4. Done(x)'
        BY <2>3, <2>7, <3>2 DEF Done
      <3>3. ~Reporting'
        BY <3>1 DEF AfterElement, Reporting
      <3> QED
        BY <2>6, <3>1, <3>2, <3>3, <3>4, DoneAfter
    <2>8. CASE Collected(element) # {}
      <3>1. pc' = "between observers" /\ element' = element
        BY <1>6, <2>8 DEF StoreElement
      <3> QED
        BY <2>3, <2>6, <3>1 DEF DoneSoFar
    <2> QED
      BY <2>7, <2>8
  <1>7. CASE CallObserver \/ ObserverReturns
    <2>1. Reporting /\ Reporting'
      BY <1>7 DEF CallObserver, ObserverReturns, Reporting
    <2>2. ~raised /\ UNCHANGED <<cache, message, element>>
      <3>1. CASE CallObserver
        BY <3>1 DEF CallObserver
      <3>2. CASE ObserverReturns
        BY <3>2 DEF ObserverReturns, history
      <3> QED
        BY <1>7, <3>1, <3>2
    <2> QED
      BY <2>1, <2>2 DEF PendingInv, DoneSoFar, Done, Updating, Reporting, cache
  <1>8. CASE ObserverRaises
    BY <1>8 DEF ObserverRaises
  <1>9. CASE ObserversDone
    <2>1. /\ pc = "between observers" /\ ~raised /\ UNCHANGED <<attr, message>>
          /\ changeset' = [changeset EXCEPT ![element] = {}] /\ AfterElement
      BY <1>9 DEF ObserversDone, Reported, history
    <2>2. changeset \in [Element -> SUBSET Attr] /\ element \in Element
      BY <2>1, <1>u DEF TypeInv, TypeOK, Updating
    <2>3. PICK x \in Element : x = element
      BY <2>2
    <2>6. attr[element] = message[element]
      BY <2>1 DEF PendingInv, DoneSoFar, Reporting
    <2>7. Done(x)'
      BY <2>1, <2>2, <2>3, <2>6 DEF Done
    <2>4. \A e \in Element : e < element => Done(e)'
      BY <2>1, <2>2 DEF Done, PendingInv, DoneSoFar, Updating
    <2>5. ~Reporting'
      BY <2>1 DEF AfterElement, Reporting
    <2> QED
      BY <2>1, <2>3, <2>4, <2>5, <2>7, DoneAfter
  <1>10. CASE UNCHANGED vars
    <2>1. ~raised /\ UNCHANGED <<cache, control, message, messages>>
      BY <1>10 DEF vars, history
    <2> QED
      BY <2>1, <1>k
  <1> QED
    BY <1>1, <1>2, <1>3, <1>4, <1>5, <1>6, <1>7, <1>8, <1>9, <1>10 DEF Next, Notify, Update

(* A change that an observer's exception kept from being reported is       *)
(* reported with the next message that is stored without one.               *)
THEOREM PendingIsReported == Spec => []PendingReported
  <1>1. Init => PendingInv
    <2> SUFFICES ASSUME Init PROVE PendingInv
      OBVIOUS
    <2>1. StoreAttached
      BY DEF Init, StoreAttached
    <2>2. DoneSoFar
      BY DEF Init, DoneSoFar, Updating, Reporting
    <2> QED
      BY <2>1, <2>2 DEF PendingInv
  <1>2. PendingInv => PendingReported
    BY DEF PendingInv, DoneSoFar, AllDone, Done, PendingReported
  <1> QED
    BY <1>1, <1>2, CalledInvariant, PendingStep, PTL DEF Spec
-----------------------------------------------------------------------------
(* Where no observer removes itself or one that was called before it, the   *)
(* observers up to the one being called know everything.                   *)
Told(i) == i < place \/ (i = place /\ pc = "in observer")
Knows(e, i, a) == seen[e][observers[e][i]][a] = attr[e][a]

KnowOld ==
    \A e \in Element : \A i \in 1..Len(observers[e]) : \A a \in Attr \ changeset[e] :
        Knows(e, i, a)

KnowNew ==
    Reporting =>
        \A e \in Element : e = element =>
            \A i \in 1..Len(observers[e]) : Told(i) => \A a \in Attr : Knows(e, i, a)

KnowInv == KnowOld /\ KnowNew

LEMMA KnowStep ==
    ASSUME ~RemovesPassed, TypeInv, KnowInv, [Next]_vars PROVE KnowInv'
  <1>t. /\ observers \in [Element -> Seq(Observer)]
        /\ seen \in [Element -> [Observer -> Values]]
        /\ attr \in [Element -> Values] /\ message \in [Element -> Values]
        /\ changeset \in [Element -> SUBSET Attr]
    BY DEF TypeInv, TypeOK
  <1>p. place \in Nat \ {0}
    BY DEF TypeInv, TypeOK
  <1>u. Updating => element \in Element
    BY DEF TypeInv
  <1>k. ASSUME UNCHANGED <<observers, cache, seen>>, Reporting' => FALSE PROVE KnowInv'
    BY <1>k DEF KnowInv, KnowOld, KnowNew, Knows, cache
  <1>s. ASSUME UNCHANGED <<observers, cache, seen, pc, element, place>> PROVE KnowInv'
    <2>1. KnowOld'
      BY <1>s DEF KnowInv, KnowOld, Knows, cache
    <2>2. \A i : Told(i)' <=> Told(i)
      BY <1>s DEF Told
    <2>3. Reporting' <=> Reporting
      BY <1>s DEF Reporting
    <2>4. KnowNew'
      BY <1>s, <2>2, <2>3 DEF KnowInv, KnowNew, Knows, cache
    <2> QED
      BY <2>1, <2>4 DEF KnowInv
  <1>1. ASSUME NEW h \in Handler, Attach(h) \/ Detach(h) PROVE KnowInv'
    BY <1>1, <1>s DEF Attach, Detach, control, history
  <1>2. ASSUME NEW e \in Element, NEW o \in Observer, AddCallback(e, o) PROVE KnowInv'
    <2>1. /\ observers' = [observers EXCEPT ![e] = Append(observers[e], o)]
          /\ seen' = [seen EXCEPT ![e][o] = attr[e]]
          /\ UNCHANGED <<attr, changeset, pc, element, place>>
      BY <1>2 DEF AddCallback, cache, control
    <2>2. /\ observers[e] \in Seq(Observer) /\ Len(observers'[e]) = Len(observers[e]) + 1
          /\ observers'[e][Len(observers[e]) + 1] = o
          /\ \A i \in 1..Len(observers[e]) : observers'[e][i] = observers[e][i]
      <3>1. observers'[e] = Append(observers[e], o)
        BY <2>1, <1>t
      <3> QED
        BY <3>1, <1>t
    <2>3. \A a : seen'[e][o][a] = attr[e][a]
      BY <2>1, <1>t
    <2>4. \A x \in Observer : x # o => seen'[e][x] = seen[e][x]
      BY <2>1, <1>t
    <2>5. \A i \in 1..Len(observers[e]) + 1 : i \in 1..Len(observers[e]) \/ i = Len(observers[e]) + 1
      BY <2>2
    <2>6. \A i \in 1..Len(observers'[e]) : \A a :
              (i \in 1..Len(observers[e]) /\ Knows(e, i, a)) \/ i = Len(observers[e]) + 1
                  => Knows(e, i, a)'
      <3> SUFFICES ASSUME NEW i \in 1..Len(observers'[e]), NEW a,
                          \/ i \in 1..Len(observers[e]) /\ Knows(e, i, a)
                          \/ i = Len(observers[e]) + 1
                   PROVE  Knows(e, i, a)'
        OBVIOUS
      <3>1. CASE observers'[e][i] = o
        BY <3>1, <2>1, <2>3 DEF Knows
      <3>2. CASE observers'[e][i] # o
        <4>1. i \in 1..Len(observers[e]) /\ Knows(e, i, a)
          BY <3>2, <2>2
        <4>2. observers'[e][i] = observers[e][i] /\ observers[e][i] \in Observer
          BY <4>1, <2>2
        <4> QED
          BY <3>2, <4>1, <4>2, <2>1, <2>4 DEF Knows
      <3> QED
        BY <3>1, <3>2
    <2>7. \A d \in Element : d # e => observers'[d] = observers[d] /\ seen'[d] = seen[d]
      BY <2>1, <1>t
    <2>8. \A i : Told(i)' <=> Told(i)
      BY <2>1 DEF Told
    <2>9. ASSUME NEW d \in Element, NEW i \in 1..Len(observers'[d]), NEW a \in Attr \ changeset[d]
          PROVE  Knows(d, i, a)'
      <3>1. CASE d = e
        BY <3>1, <2>2, <2>5, <2>6 DEF KnowInv, KnowOld
      <3>2. CASE d # e
        BY <3>2, <2>1, <2>7 DEF KnowInv, KnowOld, Knows
      <3> QED
        BY <3>1, <3>2
    <2>10. ASSUME NEW d \in Element, d = element, Reporting,
                  NEW i \in 1..Len(observers'[d]), Told(i), NEW a \in Attr
           PROVE  Knows(d, i, a)'
      <3>1. CASE d = e
        BY <3>1, <2>2, <2>5, <2>6, <2>10 DEF KnowInv, KnowNew
      <3>2. CASE d # e
        BY <3>2, <2>1, <2>7, <2>10 DEF KnowInv, KnowNew, Knows
      <3> QED
        BY <3>1, <3>2
    <2>11. Reporting' => Reporting /\ element \in Element
      BY <2>1, <1>u DEF Reporting, Updating
    <2>12. KnowOld'
      BY <2>1, <2>9 DEF KnowOld
    <2>13. KnowNew'
      BY <2>1, <2>8, <2>10, <2>11 DEF KnowNew
    <2> QED
      BY <2>12, <2>13 DEF KnowInv
  <1>3. ASSUME NEW e \in Element, NEW o \in Observer, RemoveCallback(e, o) PROVE KnowInv'
    <2>1. PICK p \in FirstPlace(observers[e], o) :
              /\ pc = "in observer" /\ e = element => p > place
              /\ observers' = [observers EXCEPT ![e] = RemoveAt(observers[e], p)]
      BY <1>3 DEF RemoveCallback
    <2>2. UNCHANGED <<attr, changeset, pc, element, place, seen>>
      BY <1>3 DEF RemoveCallback, cache, control, history
    <2>3. Reporting => pc = "in observer"
      BY <1>3 DEF RemoveCallback, Client, Reporting
    <2> DEFINE old(i) == IF i < p THEN i ELSE i + 1
    <2>4. p \in 1..Len(observers[e]) /\ Len(observers[e]) \in Nat
      BY <1>t, FirstPlaceType
    <2>5. /\ Len(observers'[e]) = Len(observers[e]) - 1
          /\ \A i \in 1..Len(observers[e]) - 1 : observers'[e][i] = observers[e][old(i)]
      <3>1. observers'[e] = RemoveAt(observers[e], p) /\ p \in DOMAIN observers[e]
        BY <2>1, <1>t, FirstPlaceType
      <3>2. observers[e] \in Seq(Observer)
        BY <1>t
      <3> QED
        BY <3>1, <3>2, RemoveAtType
    <2>6. \A i \in 1..Len(observers'[e]) : old(i) \in 1..Len(observers[e])
      BY <2>4, <2>5
    <2>7. \A d \in Element : d # e => observers'[d] = observers[d]
      BY <2>1, <1>t
    <2>8. ASSUME NEW i \in 1..Len(observers'[e]), NEW a, Knows(e, old(i), a)
          PROVE  Knows(e, i, a)'
      BY <2>2, <2>5, <2>8 DEF Knows
    <2> HIDE DEF old
    <2>9. ASSUME NEW d \in Element, NEW i \in 1..Len(observers'[d]), NEW a \in Attr \ changeset[d]
          PROVE  Knows(d, i, a)'
      <3>1. CASE d = e
        BY <3>1, <2>6, <2>8, <2>9 DEF KnowInv, KnowOld
      <3>2. CASE d # e
        BY <3>2, <2>2, <2>7, <2>9 DEF KnowInv, KnowOld, Knows
      <3> QED
        BY <3>1, <3>2
    <2>10. ASSUME NEW d \in Element, d = element, Reporting,
                  NEW i \in 1..Len(observers'[d]), Told(i), NEW a \in Attr
           PROVE  Knows(d, i, a)'
      <3>1. CASE d = e
        <4>1. p > place
          BY <3>1, <2>1, <2>3, <2>10
        <4>a. i < place \/ i = place
          BY <2>10 DEF Told
        <4>2. i <= place
          BY <4>a, <1>p
        <4>3. i \in Int /\ p \in Int
          BY <2>4, <2>5, <3>1
        <4>4. old(i) = i
          BY <4>1, <4>2, <4>3, <1>p DEF old
        <4>5. i \in 1..Len(observers[e])
          BY <2>4, <2>5, <3>1
        <4>6. Knows(e, old(i), a)
          BY <3>1, <4>4, <4>5, <2>10 DEF KnowInv, KnowNew
        <4> QED
          BY <3>1, <4>6, <2>8
      <3>2. CASE d # e
        BY <3>2, <2>2, <2>7, <2>10 DEF KnowInv, KnowNew, Knows
      <3> QED
        BY <3>1, <3>2
    <2>11. Reporting' <=> Reporting
      BY <2>2 DEF Reporting
    <2>12. \A i : Told(i)' <=> Told(i)
      BY <2>2 DEF Told
    <2>13. KnowOld'
      BY <2>2, <2>9 DEF KnowOld
    <2>14. KnowNew'
      BY <2>2, <2>10, <2>11, <2>12 DEF KnowNew
    <2> QED
      BY <2>13, <2>14 DEF KnowInv
  <1>4. CASE Notify
    <2>1. UNCHANGED <<observers, cache, seen>>
      BY <1>4 DEF Notify, Receive, CallHandler, HandlerReturns, NotifyReturns, apparatus, history
    <2>2. ~Reporting'
      BY <1>4 DEF Notify, Receive, CallHandler, HandlerReturns, NotifyReturns, Reporting
    <2> QED
      BY <2>1, <2>2, <1>k
  <1>5. CASE StoreElement
    <2>1. /\ attr' = [attr EXCEPT ![element] = message[element]]
          /\ changeset' = [changeset EXCEPT ![element] = Collected(element)]
          /\ UNCHANGED <<observers, seen>>
      BY <1>5 DEF StoreElement, apparatus, history
    <2>2. place' = 1
      BY <1>5 DEF StoreElement
    <2>3. element \in Element
      BY <1>5, <1>u DEF StoreElement, Updating
    <2>4. ASSUME NEW e \in Element, NEW i \in 1..Len(observers[e]), NEW a \in Attr \ changeset'[e]
          PROVE  Knows(e, i, a)'
      <3>1. CASE e = element
        <4>1. changeset'[e] = Collected(e) /\ attr'[e] = message[e]
          BY <3>1, <2>1, <2>3, <1>t
        <4>2. a \in Attr \ changeset[e] /\ attr[e][a] = message[e][a]
          BY <4>1, <2>4 DEF Collected, Changed
        <4>3. Knows(e, i, a)
          BY <4>2 DEF KnowInv, KnowOld
        <4> QED
          BY <4>1, <4>2, <4>3, <2>1 DEF Knows
      <3>2. CASE e # element
        <4>1. changeset'[e] = changeset[e] /\ attr'[e] = attr[e]
          BY <3>2, <2>1, <1>t
        <4>2. Knows(e, i, a)
          BY <4>1, <2>4 DEF KnowInv, KnowOld
        <4> QED
          BY <4>1, <4>2, <2>1 DEF Knows
      <3> QED
        BY <3>1, <3>2
    <2>5. KnowOld'
      BY <2>1, <2>4 DEF KnowOld
    <2>6. pc' # "in observer"
      BY <1>5 DEF StoreElement, AfterElement
    <2>a. \A n : Told(n)' => n < place'
      BY <2>6 DEF Told
    <2>7. \A n \in Int : n >= 1 => ~Told(n)'
      BY <2>2, <2>a
    <2>8. KnowNew'
      BY <2>7 DEF KnowNew
    <2> QED
      BY <2>5, <2>8 DEF KnowInv
  <1>6. CASE CallObserver
    <2> DEFINE o == observers[element][place]
               told == [a \in Attr |-> IF a \in changeset[element] THEN attr[element][a]
                                       ELSE seen[element][o][a]]
    <2>1. /\ seen' = [seen EXCEPT ![element][o] = told]
          /\ UNCHANGED <<observers, attr, changeset, element, place>>
      BY <1>6 DEF CallObserver, apparatus, cache
    <2>2. pc = "between observers" /\ pc' = "in observer" /\ element \in Element
      BY <1>6, <1>u DEF CallObserver, Updating
    <2>3. place <= Len(observers[element])
      BY <1>6 DEF CallObserver
    <2>a. observers[element] \in Seq(Observer)
      BY <2>2, <1>t
    <2>4. place \in 1..Len(observers[element])
      BY <2>3, <2>a, <1>p
    <2>5. o \in Observer
      BY <2>4, <2>a
    <2>6. \A a \in Attr : told[a] = attr[element][a]
      BY <2>2, <2>4 DEF KnowInv, KnowOld, Knows
    <2>7. seen'[element][o] = told
      BY <2>1, <2>2, <2>5, <1>t
    <2>8. \A x \in Observer : x # o => seen'[element][x] = seen[element][x]
      BY <2>1, <2>2, <1>t
    <2>9. \A e \in Element : e # element => seen'[e] = seen[e]
      BY <2>1, <1>t
    <2> HIDE DEF o, told
    <2>10. ASSUME NEW e \in Element, e = element, NEW i \in 1..Len(observers[e]), NEW a \in Attr,
                  Knows(e, i, a) \/ observers[e][i] = o
           PROVE  Knows(e, i, a)'
      <3>1. observers[e][i] \in Observer
        BY <1>t
      <3>2. CASE observers[e][i] = o
        BY <3>2, <2>1, <2>6, <2>7, <2>10 DEF Knows
      <3>3. CASE observers[e][i] # o
        BY <3>1, <3>3, <2>1, <2>8, <2>10 DEF Knows
      <3> QED
        BY <3>2, <3>3
    <2>11. ASSUME NEW e \in Element, NEW i \in 1..Len(observers[e]), NEW a \in Attr \ changeset[e]
           PROVE  Knows(e, i, a)'
      <3>1. Knows(e, i, a)
        BY DEF KnowInv, KnowOld
      <3>2. CASE e = element
        BY <3>1, <3>2, <2>10
      <3>3. CASE e # element
        BY <3>1, <3>3, <2>1, <2>9 DEF Knows
      <3> QED
        BY <3>2, <3>3
    <2>12. ASSUME NEW e \in Element, e = element, NEW i \in 1..Len(observers[e]), Told(i)',
                  NEW a \in Attr
           PROVE  Knows(e, i, a)'
      <3>1. i < place \/ i = place
        BY <2>1, <2>12 DEF Told
      <3>2. CASE i < place
        <4>1. Told(i) /\ Reporting
          BY <3>2, <2>2 DEF Told, Reporting
        <4>2. Knows(e, i, a)
          BY <4>1, <2>12 DEF KnowInv, KnowNew
        <4> QED
          BY <4>2, <2>10, <2>12
      <3>3. CASE i = place
        <4>1. observers[e][i] = o
          BY <3>3, <2>12 DEF o
        <4> QED
          BY <4>1, <2>10, <2>12
      <3> QED
        BY <3>1, <3>2, <3>3
    <2>13. KnowOld'
      BY <2>1, <2>11 DEF KnowOld
    <2>14. KnowNew'
      BY <2>1, <2>12 DEF KnowNew
    <2> QED
      BY <2>13, <2>14 DEF KnowInv
  <1>7. CASE ObserverReturns
    <2>1. place' = place + 1 /\ UNCHANGED <<observers, attr, changeset, seen, element>>
      BY <1>7 DEF ObserverReturns, apparatus, cache, history
    <2>2. pc = "in observer" /\ pc' = "between observers" /\ Reporting
      BY <1>7 DEF ObserverReturns, Reporting
    <2>3. \A i \in Int : Told(i)' => i < place + 1
      BY <2>1, <2>2 DEF Told
    <2>4. \A i \in Int : i < place + 1 => i < place \/ i = place
      BY <1>p
    <2>5. \A i \in Int : Told(i)' => Told(i)
      BY <2>2, <2>3, <2>4 DEF Told
    <2>6. KnowOld'
      BY <2>1 DEF KnowInv, KnowOld, Knows
    <2>7. KnowNew'
      <3> SUFFICES ASSUME NEW e \in Element, e = element, NEW i \in 1..Len(observers[e]), Told(i)',
                          NEW a \in Attr
                   PROVE  Knows(e, i, a)'
        BY <2>1 DEF KnowNew
      <3>1. Told(i)
        BY <2>5
      <3>2. Knows(e, i, a)
        BY <3>1, <2>2 DEF KnowInv, KnowNew
      <3> QED
        BY <3>2, <2>1 DEF Knows
    <2> QED
      BY <2>6, <2>7 DEF KnowInv
  <1>8. CASE ObserverRaises
    <2>1. UNCHANGED <<observers, cache, seen>>
      BY <1>8 DEF ObserverRaises, apparatus
    <2>2. ~Reporting'
      BY <1>8 DEF ObserverRaises, Reporting
    <2> QED
      BY <2>1, <2>2, <1>k
  <1>9. CASE ObserversDone
    <2>1. /\ UNCHANGED <<observers, attr, seen>>
          /\ changeset' = [changeset EXCEPT ![element] = {}]
      BY <1>9 DEF ObserversDone, Reported, apparatus, history
    <2>2. pc = "between observers" /\ element \in Element
      BY <1>9, <1>u DEF ObserversDone, Updating
    <2>3. place > Len(observers[element])
      BY <1>9 DEF ObserversDone
    <2>4. ASSUME NEW e \in Element, NEW i \in 1..Len(observers[e]), NEW a \in Attr \ changeset'[e]
          PROVE  Knows(e, i, a)
      <3>1. CASE e = element
        <4>1. i < place
          BY <3>1, <2>3, <1>p, <1>t
        <4>2. Told(i) /\ Reporting
          BY <4>1, <2>2 DEF Told, Reporting
        <4> QED
          BY <3>1, <4>2 DEF KnowInv, KnowNew
      <3>2. CASE e # element
        <4>1. changeset'[e] = changeset[e]
          BY <3>2, <2>1, <1>t
        <4> QED
          BY <4>1, <2>4 DEF KnowInv, KnowOld
      <3> QED
        BY <3>1, <3>2
    <2>5. KnowOld'
      BY <2>1, <2>4 DEF KnowOld, Knows
    <2>6. ~Reporting'
      BY <1>9 DEF ObserversDone, AfterElement, Reporting
    <2> QED
      BY <2>5, <2>6 DEF KnowInv, KnowNew
  <1>10. CASE UNCHANGED vars
    BY <1>10, <1>s DEF vars, apparatus, control, history
  <1> QED
    BY <1>1, <1>2, <1>3, <1>4, <1>5, <1>6, <1>7, <1>8, <1>9, <1>10 DEF Next, ClientActs, Update

(* Between messages every observer knows every value, but for the changes   *)
(* that are still to be reported, as long as no observer removes itself or  *)
(* one that was called before it (elements.py:51-67).                       *)
THEOREM ObserversAreTold ==
    ASSUME ~RemovesPassed PROVE Spec => []ObserversKnow
  <1>1. Init => KnowInv
    BY DEF Init, KnowInv, KnowOld, KnowNew, Reporting
  <1>2. ASSUME TypeInv, KnowInv PROVE ObserversKnow
    <2> SUFFICES ASSUME NEW e \in Element, NEW o \in ToSet(observers[e]), NEW a \in Attr \ changeset[e]
                 PROVE  seen[e][o][a] = attr[e][a]
      BY DEF ObserversKnow
    <2>1. observers[e] \in Seq(Observer)
      BY <1>2 DEF TypeInv, TypeOK
    <2>2. PICK i \in 1..Len(observers[e]) : observers[e][i] = o
      BY <2>1, ToSetPlaces
    <2> QED
      BY <1>2, <2>2 DEF KnowInv, KnowOld, Knows
  <1>3. TypeInv /\ KnowInv /\ [Next]_vars => KnowInv'
    BY KnowStep
  <1> QED
    BY <1>1, <1>2, <1>3, TypeInit, TypeStep, PTL DEF Spec
=============================================================================
