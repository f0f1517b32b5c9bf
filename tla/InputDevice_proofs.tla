------------------------- MODULE InputDevice_proofs -------------------------
(***************************************************************************)
(* InputDevice keeps DeviceContract, for any writers, keys and positions.   *)
(* The invariant is about the events in flight, those that are to be written*)
(* and those that wait for a SYN_REPORT: an event of the pointer is the     *)
(* mover's and outside of the mutex, any other belongs to the mutex's       *)
(* holder, no two are for the same thing, and each is exactly what the      *)
(* reader still misses of what was asked.                                   *)
(***************************************************************************)
EXTENDS InputDevice, TLAPS

Pointer == {"REL_X", "REL_Y"}

\* The events in flight.
InFlight == pending \union UNION {left[w] : w \in Writers}

Owned == /\ \A w \in Writers : \A e \in left[w] : e.by = w
         /\ \A e \in pending : e.by \in busy

LockHeld == \A e \in InFlight :
                IF e.thing \in Pointer THEN e.by = Mover /\ holder # Mover
                                       ELSE e.by = holder

Once == /\ \A d, e \in InFlight : d.thing = e.thing => d = e
        /\ \A d, e \in InFlight : d.thing \notin Pointer /\ e.thing \notin Pointer => d = e
        /\ \A w \in Writers : left[w] \intersect pending = {}

\* What the reader makes of an event of thing x.
Effect(x, e) == IF x \in Axes THEN shown[x] + e.value ELSE e.value

Missing == /\ \A x \in Things : \A e \in InFlight : e.thing = x => asked[x] = Effect(x, e)
           /\ \A x \in Things : (\A e \in InFlight : e.thing # x) => asked[x] = shown[x]

IInv == TypeOK /\ Owned /\ LockHeld /\ Once /\ Missing

-----------------------------------------------------------------------------
LEMMA InitIInv == Init => IInv
<1> SUFFICES ASSUME Init PROVE IInv
  OBVIOUS
<1> USE DeviceAssumption
<1>1. 0 \in Values
  BY SMT DEF Values
<1>2. InFlight = {}
  BY DEF Init, InFlight
<1>3. TypeOK
  BY <1>1 DEF Init, TypeOK
<1>4. Owned /\ LockHeld /\ Once
  BY <1>2 DEF Init, Owned, LockHeld, Once
<1>5. Missing
  BY <1>2 DEF Init, Missing
<1> QED BY <1>3, <1>4, <1>5 DEF IInv

\* An event in flight is of a call that has not returned.
LEMMA Calls == IInv => \A e \in InFlight : /\ e \in Events
                                          /\ e.by \in busy
                                          /\ e \in left[e.by] \union pending
  BY DEF IInv, TypeOK, Owned, InFlight

\* A call that begins adds its events to those in flight, where there was none
\* for the same things before.
LEMMA Begins ==
    ASSUME IInv, NEW w \in Writers, NEW events \in SUBSET Events,
           Begin(w, events),
           \A e \in events : e.by = w,
           \A e \in events : \A d \in InFlight : d.thing # e.thing
    PROVE  /\ InFlight' = InFlight \union events
           /\ Owned'
           /\ \A v \in Writers : left'[v] \intersect pending' = {}
           /\ left' \in [Writers -> SUBSET Events]
           /\ \A v \in Writers \ busy' : left'[v] = {}
<1> USE DEF IInv, TypeOK, Begin
<1>1. left[w] = {} /\ left' \in [Writers -> SUBSET Events]
  OBVIOUS
<1>2. /\ left'[w] = events
      /\ \A v \in Writers \ {w} : left'[v] = left[v]
  OBVIOUS
<1>3. InFlight' = InFlight \union events
  BY <1>1, <1>2 DEF InFlight
<1>4. Owned'
  BY <1>2 DEF Owned
<1>5. \A v \in Writers : left'[v] \intersect pending' = {}
  BY <1>2 DEF Once, InFlight
<1> QED BY <1>1, <1>2, <1>3, <1>4, <1>5

LEMMA MoveStep ==
    ASSUME IInv, NEW dx \in Steps \union {0}, NEW dy \in Steps \union {0}, ReportMove(dx, dy)
    PROVE  IInv'
<1> DEFINE M == Movement(dx, dy)
<1> USE DeviceAssumption
<1>a. dx \in -1 .. 1 /\ dy \in -1 .. 1
  BY SMT DEF Steps
<1>b. {"REL_X", "REL_Y"} \subseteq Axes /\ {"REL_X", "REL_Y"} \subseteq Things
  BY DEF Axes, Things
<1>1. M \subseteq Events
  BY <1>a, <1>b DEF Movement, Events
<1>2. \A e \in M : e.by = Mover /\ e.thing \in Pointer
  BY DEF Movement, Pointer
<1>3. Mover \notin busy /\ \A d \in InFlight : d.thing \notin Pointer
  BY Calls DEF ReportMove, Begin, IInv, LockHeld
<1>4. Begin(Mover, M) /\ UNCHANGED holder
  BY DEF ReportMove
<1>5. /\ InFlight' = InFlight \union M
      /\ Owned'
      /\ \A v \in Writers : left'[v] \intersect pending' = {}
      /\ left' \in [Writers -> SUBSET Events]
      /\ \A v \in Writers \ busy' : left'[v] = {}
  <2>1. \A e \in M : \A d \in InFlight : d.thing # e.thing
    BY <1>2, <1>3
  <2> HIDE DEF M
  <2> QED BY <1>1, <1>2, <1>4, <2>1, Begins
<1>6. holder # Mover
  BY <1>3 DEF IInv, TypeOK
<1>7. TypeOK'
  BY <1>4, <1>5 DEF IInv, TypeOK, Begin
<1>8. LockHeld'
  BY <1>2, <1>4, <1>5, <1>6 DEF IInv, LockHeld
<1>9. \A d, e \in M : d.thing = e.thing => d = e
  BY DEF Movement
<1>10. Once'
  BY <1>2, <1>3, <1>5, <1>9 DEF IInv, Once
<1>11. Missing'
  <2>1. UNCHANGED shown /\ asked \in [Things -> Values] /\ shown \in [Things -> Values]
    BY <1>4 DEF Begin, IInv, TypeOK
  <2>2. asked' = [asked EXCEPT !["REL_X"] = @ + dx, !["REL_Y"] = @ + dy]
    BY DEF ReportMove
  <2>3. /\ asked'["REL_X"] = asked["REL_X"] + dx
        /\ asked'["REL_Y"] = asked["REL_Y"] + dy
        /\ \A x \in Things \ Pointer : asked'[x] = asked[x]
    BY <1>b, <2>1, <2>2 DEF Pointer
  <2>4. asked["REL_X"] = shown["REL_X"] /\ asked["REL_Y"] = shown["REL_Y"]
    BY <1>b, <1>3 DEF IInv, Missing, Pointer
  <2>5. \A x \in Things : x \in Pointer => shown[x] \in Int
    BY <2>1 DEF Values
  <2>6. \A x \in Things, e \in M : e.thing = x => asked'[x] = Effect(x, e)'
    BY <1>b, <2>1, <2>3, <2>4 DEF Movement, Effect
  <2>7. \A x \in Things, e \in InFlight : e.thing = x => asked'[x] = Effect(x, e)'
    BY <1>3, <2>1, <2>3 DEF IInv, Missing, Effect
  <2>8. \A x \in Things : (\A e \in InFlight \union M : e.thing # x) => asked'[x] = shown'[x]
    <3> SUFFICES ASSUME NEW x \in Things, \A e \in InFlight \union M : e.thing # x
                 PROVE  asked'[x] = shown'[x]
      OBVIOUS
    <3>1. CASE x \notin Pointer
      BY <3>1, <2>1, <2>3 DEF IInv, Missing
    <3>2. CASE x = "REL_X"
      <4>1. ~ ([thing |-> "REL_X", value |-> dx, by |-> Mover] \in M)
        BY <3>2
      <4>2. dx = 0
        BY <4>1 DEF Movement
      <4> QED BY <1>b, <3>2, <4>2, <2>1, <2>3, <2>4, <2>5 DEF Pointer
    <3>3. CASE x = "REL_Y"
      <4>1. ~ ([thing |-> "REL_Y", value |-> dy, by |-> Mover] \in M)
        BY <3>3
      <4>2. dy = 0
        BY <4>1 DEF Movement
      <4> QED BY <1>b, <3>3, <4>2, <2>1, <2>3, <2>4, <2>5 DEF Pointer
    <3> QED BY <3>1, <3>2, <3>3 DEF Pointer
  <2> HIDE DEF M
  <2> QED BY <1>5, <2>6, <2>7, <2>8 DEF Missing
<1> QED BY <1>5, <1>7, <1>8, <1>10, <1>11 DEF IInv

\* A call inside the mutex: one event, for a thing that is not the pointer.
LEMMA LockedStep ==
    ASSUME IInv, NEW w \in Writers, NEW thing \in (Axes \ Pointer) \union Codes,
           NEW v \in -1 .. 1, Locked(w, thing, v),
           \A x \in Things \ {thing} : asked'[x] = asked[x],
           thing \in Things =>
               asked'[thing] = Effect(thing, [thing |-> thing, value |-> v, by |-> w])
    PROVE  IInv'
<1> DEFINE e0 == [thing |-> thing, value |-> v, by |-> w]
<1> USE DeviceAssumption
<1>1. e0 \in Events /\ e0.by = w /\ e0.thing = thing
  BY DEF Events
<1>2. thing \notin Pointer
  BY DEF Pointer, Axes
<1>3. holder = NobodyHolds /\ holder' = w /\ Begin(w, {e0})
  BY DEF Locked, MutexFree
<1>4. \A d \in InFlight : d.thing \in Pointer /\ d.by = Mover /\ d.by \in busy
  BY <1>3, Calls DEF IInv, LockHeld, TypeOK
<1>5. /\ InFlight' = InFlight \union {e0}
      /\ Owned'
      /\ \A u \in Writers : left'[u] \intersect pending' = {}
      /\ left' \in [Writers -> SUBSET Events]
      /\ \A u \in Writers \ busy' : left'[u] = {}
  <2>1. \A e \in {e0} : e.by = w /\ \A d \in InFlight : d.thing # e.thing
    BY <1>1, <1>2, <1>4
  <2> HIDE DEF e0
  <2>2. {e0} \in SUBSET Events
    BY <1>1
  <2> QED BY <1>3, <2>1, <2>2, Begins
<1>6. TypeOK'
  BY <1>3, <1>5 DEF IInv, TypeOK, Begin
<1>7. w \notin busy
  BY <1>3 DEF Begin
<1> HIDE DEF e0
<1>8. LockHeld'
  BY <1>1, <1>2, <1>3, <1>4, <1>5, <1>7 DEF IInv, LockHeld
<1>9. Once'
  BY <1>1, <1>2, <1>4, <1>5 DEF IInv, Once
<1>10. UNCHANGED shown
  BY <1>3 DEF Begin
<1>11. Missing'
  <2>1. \A x \in Things, e \in InFlight : e.thing = x => asked'[x] = Effect(x, e)'
    BY <1>2, <1>4, <1>10 DEF IInv, Missing, Effect
  <2>2. thing \in Things => asked'[thing] = Effect(thing, e0)'
    BY <1>10 DEF Effect, e0
  <2>3. \A x \in Things : (\A e \in InFlight \union {e0} : e.thing # x) => asked'[x] = shown'[x]
    BY <1>1, <1>10 DEF IInv, Missing
  <2> QED BY <1>1, <1>5, <2>1, <2>2, <2>3 DEF Missing
<1> QED BY <1>5, <1>6, <1>8, <1>9, <1>11 DEF IInv

LEMMA KeyStep ==
    ASSUME IInv, NEW w \in Writers, NEW k \in Codes, NEW v \in 0 .. 1, ReportKey(w, k, v)
    PROVE  IInv'
<1>1. k \notin Axes /\ v \in -1 .. 1
  BY DeviceAssumption
<1>2. Locked(w, k, v) /\ asked \in [Things -> Values]
  BY DEF ReportKey, IInv, TypeOK
<1>3. \A x \in Things \ {k} : asked'[x] = asked[x]
  BY <1>2 DEF ReportKey
<1>4. k \in Things => asked'[k] = v
  BY <1>2 DEF ReportKey
<1>5. k \in Things => asked'[k] = Effect(k, [thing |-> k, value |-> v, by |-> w])
  BY <1>1, <1>4 DEF Effect
<1> QED BY <1>1, <1>2, <1>3, <1>5, LockedStep

LEMMA WheelStep ==
    ASSUME IInv, NEW w \in Writers, NEW v \in Steps, ReportMWheel(w, v)
    PROVE  IInv'
<1> DEFINE k == "REL_WHEEL"
<1>1. k \in Axes \ Pointer /\ k \in Things /\ v \in -1 .. 1
  BY SMT DEF Axes, Pointer, Things, Steps
<1>2. Locked(w, k, v) /\ asked \in [Things -> Values]
  BY DEF ReportMWheel, IInv, TypeOK
<1>3. asked' = [asked EXCEPT !["REL_WHEEL"] = @ + v]
  BY DEF ReportMWheel
<1>4. \A x \in Things \ {k} : asked'[x] = asked[x]
  BY <1>2, <1>3
<1>5. \A d \in InFlight : d.thing # k
  BY <1>1, <1>2 , Calls, DeviceAssumption DEF Locked, MutexFree, IInv, LockHeld, TypeOK
<1>6. asked'[k] = shown[k] + v
  BY <1>1, <1>2, <1>3, <1>5 DEF IInv, Missing
<1>7. asked'[k] = Effect(k, [thing |-> k, value |-> v, by |-> w])
  BY <1>1, <1>6 DEF Effect
<1> HIDE DEF k
<1> QED BY <1>1, <1>2, <1>4, <1>7, LockedStep

LEMMA WriteStep ==
    ASSUME IInv, NEW w \in Writers, WriteEvent(w)
    PROVE  /\ IInv'
           /\ \A v \in Writers : Owed(v)' = Owed(v)
<1>1. PICK e \in left[w] : /\ left' = [left EXCEPT ![w] = @ \ {e}]
                           /\ pending' = IF Supported(e) THEN pending \union {e} ELSE pending
                           /\ UNCHANGED <<busy, holder, shown, asked>>
  BY DEF WriteEvent
<1>2. e \in Events /\ e.by = w /\ w \in busy /\ e \in InFlight /\ e \notin pending
  BY DEF IInv, TypeOK, Owned, Once, InFlight
<1>3. left'[w] = left[w] \ {e} /\ \A v \in Writers \ {w} : left'[v] = left[v]
  BY <1>1 DEF IInv, TypeOK
<1>4. ~Supported(e) => e.thing \notin Things
  BY <1>2 DEF Supported, Registered, Things, Events
<1>5. InFlight' \subseteq InFlight
  BY <1>1, <1>2, <1>3 DEF InFlight
<1>6. \A d \in InFlight : d.thing \in Things => d \in InFlight'
  BY <1>1, <1>3, <1>4 DEF InFlight
<1>7. TypeOK'
  BY <1>1, <1>2, <1>3 DEF IInv, TypeOK
<1>8. Owned'
  BY <1>1, <1>2, <1>3 DEF IInv, Owned
<1>9. LockHeld'
  BY <1>1, <1>5 DEF IInv, LockHeld
<1>10. Once'
  <2>1. \A v \in Writers \ {w} : e \notin left[v]
    BY <1>2 DEF IInv, Owned
  <2>2. \A v \in Writers : left'[v] \intersect pending' = {}
    BY <1>1, <1>3, <2>1 DEF IInv, Once
  <2> QED BY <1>5, <2>2 DEF IInv, Once
<1>11. Missing'
  BY <1>1, <1>5, <1>6 DEF IInv, Missing, Effect
<1>12. ASSUME NEW v \in Writers PROVE Owed(v)' = Owed(v)
  <2>1. {d \in left[v] \union pending : d.by = v} \ {e} =
        {d \in left'[v] \union pending' : d.by = v} \ {e}
    BY <1>1, <1>3
  <2>2. CASE v = w /\ Supported(e)
    <3>1. {d \in left[v] \union pending : d.by = v} =
          {d \in left'[v] \union pending' : d.by = v}
      BY <1>1, <1>3, <2>2
    <3> QED BY <3>1 DEF Owed
  <2>3. CASE v # w
    <3>1. {d \in left[v] \union pending : d.by = v} =
          {d \in left'[v] \union pending' : d.by = v}
      BY <1>1, <1>2, <1>3, <2>3
    <3> QED BY <3>1 DEF Owed
  <2>4. CASE ~Supported(e)
    BY <1>4, <2>1, <2>4 DEF Owed
  <2> QED BY <2>2, <2>3, <2>4
<1> QED BY <1>7, <1>8, <1>9, <1>10, <1>11, <1>12 DEF IInv

\* A SYN_REPORT shows exactly what its frame's events still owed.
LEMMA SynStep ==
    ASSUME IInv, NEW w \in Writers, ReportSyn(w)
    PROVE  /\ IInv'
           /\ \A x \in Things : shown'[x] = IF \E e \in pending : e.thing = x THEN asked[x]
                                                                         ELSE shown[x]
<1>1. /\ w \in busy /\ left[w] = {}
      /\ shown' = Applied(pending)
      /\ pending' = {}
      /\ busy' = busy \ {w}
      /\ holder' = IF holder = w THEN NobodyHolds ELSE holder
      /\ UNCHANGED <<left, asked>>
  BY DEF ReportSyn, Released
<1>2. \A x \in Things : shown'[x] = IF \E e \in pending : e.thing = x THEN asked[x]
                                                                     ELSE shown[x]
  <2> SUFFICES ASSUME NEW x \in Things
               PROVE  shown'[x] = IF \E e \in pending : e.thing = x THEN asked[x] ELSE shown[x]
    OBVIOUS
  <2>1. CASE \E e \in pending : e.thing = x
    <3> DEFINE e == CHOOSE d \in pending : d.thing = x
    <3>1. e \in pending /\ e.thing = x
      BY <2>1
    <3>2. shown'[x] = Effect(x, e)
      BY <1>1, <2>1 DEF Applied, Effect
    <3> HIDE DEF e
    <3>3. asked[x] = Effect(x, e)
      BY <3>1 DEF IInv, Missing, InFlight
    <3> QED BY <2>1, <3>2, <3>3
  <2>2. CASE \A e \in pending : e.thing # x
    BY <1>1, <2>2 DEF Applied
  <2> QED BY <2>1, <2>2
<1>3. InFlight' = UNION {left[v] : v \in Writers} /\ InFlight' \subseteq InFlight
  BY <1>1 DEF InFlight
<1>4. TypeOK'
  <2>1. shown' \in [Things -> Values]
    BY <1>1, <1>2 DEF IInv, TypeOK, Applied
  <2> QED BY <1>1, <2>1 DEF IInv, TypeOK
<1>5. Owned'
  BY <1>1 DEF IInv, Owned
<1>6. LockHeld'
  <2>1. \A e \in InFlight' : e.by # w
    BY <1>1, <1>3 DEF IInv, Owned
  <2>2. Mover # NobodyHolds
    BY DeviceAssumption
  <2> QED BY <1>1, <1>3, <2>1, <2>2 DEF IInv, LockHeld
<1>7. Once'
  BY <1>1, <1>3 DEF IInv, Once
<1>8. Missing'
  <2>1. \A d \in InFlight' : \A e \in pending : d.thing # e.thing
    BY <1>3 DEF IInv, Once, InFlight
  <2>2. \A x \in Things : \A e \in InFlight' : e.thing = x => asked'[x] = Effect(x, e)'
    <3> SUFFICES ASSUME NEW x \in Things, NEW e \in InFlight', e.thing = x
                 PROVE  asked'[x] = Effect(x, e)'
      OBVIOUS
    <3>1. shown'[x] = shown[x]
      BY <1>2, <2>1
    <3> QED BY <1>1, <1>3, <3>1 DEF IInv, Missing, Effect
  <2>3. \A x \in Things : (\A e \in InFlight' : e.thing # x) => asked'[x] = shown'[x]
    <3> SUFFICES ASSUME NEW x \in Things, \A e \in InFlight' : e.thing # x
                 PROVE  asked'[x] = shown'[x]
      OBVIOUS
    <3>1. CASE \E e \in pending : e.thing = x
      BY <1>1, <1>2, <3>1
    <3>2. CASE \A e \in pending : e.thing # x
      BY <1>1, <1>2, <1>3, <3>2 DEF IInv, Missing, InFlight
    <3> QED BY <3>1, <3>2
  <2> QED BY <2>2, <2>3 DEF Missing
<1> QED BY <1>2, <1>4, <1>5, <1>6, <1>7, <1>8 DEF IInv

THEOREM Inductive == Spec => []IInv
<1>1. Init => IInv
  BY InitIInv
<1>2. IInv /\ [Next]_vars => IInv'
  <2> SUFFICES ASSUME IInv, [Next]_vars PROVE IInv'
    OBVIOUS
  <2>1. CASE \E dx, dy \in Steps \union {0} : ReportMove(dx, dy)
    BY <2>1, MoveStep
  <2>2. CASE \E w \in Writers : \E k \in Codes, v \in 0 .. 1 : ReportKey(w, k, v)
    BY <2>2, KeyStep
  <2>3. CASE \E w \in Writers : \E v \in Steps : ReportMWheel(w, v)
    BY <2>3, WheelStep
  <2>4. CASE \E w \in Writers : WriteEvent(w)
    BY <2>4, WriteStep
  <2>5. CASE \E w \in Writers : ReportSyn(w)
    BY <2>5, SynStep
  <2>6. CASE UNCHANGED vars
    BY <2>6 DEF vars, IInv, TypeOK, Owned, LockHeld, Once, Missing, Effect, InFlight
  <2> QED BY <2>1, <2>2, <2>3, <2>4, <2>5, <2>6 DEF Next
<1> QED BY <1>1, <1>2, PTL DEF Spec

\* The fields have values of their types, and the mutex's holder is in a call.
THEOREM TypeCorrect == Spec => []TypeOK
<1>1. IInv => TypeOK
  BY DEF IInv
<1> QED BY <1>1, Inductive, PTL

\* What was asked is what a reader sees, but for the calls that have not returned.
THEOREM Shown == Spec => []ShownWhenReturned
<1>1. IInv => ShownWhenReturned
  <2> SUFFICES ASSUME IInv, NEW x \in Things, \A w \in Writers : x \notin Owed(w)
               PROVE  shown[x] = asked[x]
    BY DEF ShownWhenReturned
  <2>1. ASSUME NEW e \in InFlight, e.thing = x PROVE FALSE
    <3>1. e.by \in Writers /\ e \in left[e.by] \union pending
      BY Calls DEF IInv, TypeOK
    <3> QED BY <2>1, <3>1 DEF Owed
  <2> QED BY <2>1 DEF IInv, Missing
<1> QED BY <1>1, Inductive, PTL

\* A frame holds one key or wheel event at most.
THEOREM OneKey == Spec => []OneKeyPerFrame
<1>1. IInv => OneKeyPerFrame
  BY DEF IInv, Once, OneKeyPerFrame, InFlight, Pointer
<1> QED BY <1>1, Inductive, PTL

-----------------------------------------------------------------------------
\* A call that begins asks the contract for the things it has events for.
LEMMA Asks ==
    ASSUME IInv, NEW w \in Writers, NEW events \in SUBSET Events,
           Begin(w, events),
           \A e \in events : e.by = w,
           \A e \in events : \A d \in InFlight : d.thing # e.thing,
           \A x \in Things : (\A e \in events : e.thing # x) => asked'[x] = asked[x]
    PROVE  Contract!Next
<1> DEFINE changed == {e.thing : e \in events} \intersect Things
<1>1. /\ left[w] = {} /\ left'[w] = events
      /\ \A v \in Writers \ {w} : left'[v] = left[v]
      /\ \A e \in pending : e.by # w
      /\ pending' = pending
  BY DEF IInv, TypeOK, Owned, Begin
<1>2. Owed(w)' = changed
  <2>1. {d \in left'[w] \union pending' : d.by = w} = events
    BY <1>1
  <2> QED BY <2>1 DEF Owed
<1>3. \A v \in Writers \ {w} : Owed(v)' = Owed(v)
  BY <1>1 DEF Owed
<1>4. \A v \in Writers : \A x \in Owed(v) : \E d \in InFlight : d.thing = x
  BY DEF Owed, InFlight
<1>5. \A v \in Writers : changed \intersect Owed(v) = {}
  BY <1>4
<1>6. \A x \in Things \ changed : asked'[x] = asked[x]
  OBVIOUS
<1> HIDE DEF changed
<1>7. [v \in Writers |-> Owed(v)'] = [[v \in Writers |-> Owed(v)] EXCEPT ![w] = changed]
  BY <1>2, <1>3
<1>8. /\ w \notin busy /\ asked' \in [Things -> Values]
      /\ busy' = busy \union {w} /\ UNCHANGED shown
  BY DEF Begin
<1>9. \A v \in Writers : changed \intersect [u \in Writers |-> Owed(u)][v] = {}
  BY <1>5
<1>10. Contract!Ask(w, changed)
  BY <1>6, <1>7, <1>8, <1>9 DEF Contract!Ask
<1>11. changed \in SUBSET Things
  BY DEF changed
<1> QED BY <1>10, <1>11 DEF Contract!Next

LEMMA Shows == ASSUME IInv, NEW w \in Writers, ReportSyn(w) PROVE Contract!Next
<1> DEFINE seen == {e.thing : e \in pending} \intersect Things
<1>1. /\ w \in busy /\ left[w] = {} /\ pending' = {} /\ busy' = busy \ {w}
      /\ UNCHANGED <<left, asked>>
  BY DEF ReportSyn
<1>2. shown' = [x \in Things |-> IF x \in seen THEN asked[x] ELSE shown[x]]
  <2>1. \A x \in Things : x \in seen <=> \E e \in pending : e.thing = x
    OBVIOUS
  <2>2. shown' \in [Things -> Values]
    BY SynStep DEF IInv, TypeOK
  <2>3. \A x \in Things : shown'[x] = IF x \in seen THEN asked[x] ELSE shown[x]
    BY <2>1, SynStep
  <2> HIDE DEF seen
  <2> QED BY <2>2, <2>3
<1>3. ASSUME NEW v \in Writers PROVE Owed(v)' = Owed(v) \ seen
  <2>1. {d \in left'[v] \union pending' : d.by = v} = left[v]
    BY <1>1 DEF IInv, Owned
  <2>2. Owed(v)' = {e.thing : e \in left[v]} \intersect Things
    BY <2>1 DEF Owed
  <2>3. \A e \in left[v], d \in pending : e.thing # d.thing
    BY DEF IInv, Once, InFlight
  <2>4. left[v] \subseteq {d \in left[v] \union pending : d.by = v}
    BY DEF IInv, Owned
  <2>5. Owed(v) \subseteq {e.thing : e \in left[v]} \union {e.thing : e \in pending}
    BY DEF Owed
  <2>6. Owed(v) \ seen \subseteq Owed(v)'
    BY <2>2, <2>5 DEF Owed
  <2>7. Owed(v)' \subseteq Owed(v) \ seen
    BY <2>2, <2>3, <2>4 DEF Owed
  <2> QED BY <2>6, <2>7
<1>4. Owed(w)' = {}
  BY <1>1 DEF Owed
<1>5. seen \in SUBSET Things
  OBVIOUS
<1> HIDE DEF seen
<1>6. [v \in Writers |-> Owed(v)'] =
      [v \in Writers |-> [u \in Writers |-> Owed(u)][v] \ seen]
  BY <1>3
<1>7. \A v \in {w} : [u \in Writers |-> Owed(u)'][v] = {}
  BY <1>4
<1>8. Contract!Show(seen, {w})
  BY <1>1, <1>2, <1>6, <1>7 DEF Contract!Show
<1> QED BY <1>5, <1>8 DEF Contract!Next

\* InputDevice implements DeviceContract: nothing asked of the device is lost,
\* doubled or shown in parts, whatever the order of the writes.
THEOREM Implementation == Spec => ImplementsContract
<1>1. Init => Contract!Init
  <2> SUFFICES ASSUME Init PROVE Contract!Init
    OBVIOUS
  <2>1. [v \in Writers |-> Owed(v)] = [v \in Writers |-> {}]
    BY DEF Init, Owed
  <2>2. asked \in [Things -> Values]
    BY InitIInv DEF IInv, TypeOK
  <2> QED BY <2>1, <2>2 DEF Init, Contract!Init
<1>2. IInv /\ [Next]_vars => [Contract!Next]_(Contract!vars)
  <2> SUFFICES ASSUME IInv, [Next]_vars PROVE Contract!Next \/ UNCHANGED Contract!vars
    OBVIOUS
  <2>1. ASSUME NEW dx \in Steps \union {0}, NEW dy \in Steps \union {0}, ReportMove(dx, dy)
        PROVE  Contract!Next
    <3> DEFINE M == Movement(dx, dy)
    <3>1. Begin(Mover, M) /\ asked \in [Things -> Values]
      BY <2>1 DEF ReportMove, IInv, TypeOK
    <3>2. M \subseteq Events
      BY SMT, DeviceAssumption DEF Movement, Events, Axes, Steps
    <3>3. \A e \in M : e.by = Mover /\ e.thing \in Pointer
      BY DEF Movement, Pointer
    <3>4. \A d \in InFlight : d.thing \notin Pointer
      BY <3>1, Calls DEF Begin, IInv, LockHeld
    <3>5. \A x \in Things \ Pointer : asked'[x] = asked[x]
      BY <2>1, <3>1 DEF ReportMove, Pointer
    <3>6. ASSUME NEW x \in Pointer, x \in Things, \A e \in M : e.thing # x
          PROVE  asked'[x] = asked[x]
      <4>1. asked' = [asked EXCEPT !["REL_X"] = @ + dx, !["REL_Y"] = @ + dy]
        BY <2>1 DEF ReportMove
      <4>2. asked[x] \in Int
        BY <3>1, <3>6 DEF Values
      <4>3. CASE x = "REL_X"
        <5>1. [thing |-> "REL_X", value |-> dx, by |-> Mover] \notin M
          BY <3>6, <4>3
        <5>2. dx = 0
          BY <5>1 DEF Movement
        <5> QED BY <3>1, <3>6, <4>1, <4>2, <4>3, <5>2
      <4>4. CASE x = "REL_Y"
        <5>1. [thing |-> "REL_Y", value |-> dy, by |-> Mover] \notin M
          BY <3>6, <4>4
        <5>2. dy = 0
          BY <5>1 DEF Movement
        <5> QED BY <3>1, <3>6, <4>1, <4>2, <4>4, <5>2
      <4> QED BY <4>3, <4>4 DEF Pointer
    <3>7. \A x \in Things : (\A e \in M : e.thing # x) => asked'[x] = asked[x]
      BY <3>5, <3>6
    <3>8. \A e \in M : \A d \in InFlight : d.thing # e.thing
      BY <3>3, <3>4
    <3> HIDE DEF M
    <3> QED BY <3>1, <3>2, <3>3, <3>7, <3>8, Asks, DeviceAssumption
  <2>2. ASSUME NEW w \in Writers, NEW thing \in (Axes \ Pointer) \union Codes,
               NEW v \in -1 .. 1, Locked(w, thing, v),
               \A x \in Things \ {thing} : asked'[x] = asked[x]
        PROVE  Contract!Next
    <3> DEFINE e0 == [thing |-> thing, value |-> v, by |-> w]
    <3>1. {e0} \in SUBSET Events /\ e0.by = w /\ e0.thing = thing
      BY DEF Events
    <3>2. Begin(w, {e0}) /\ holder = NobodyHolds
      BY <2>2 DEF Locked, MutexFree
    <3>3. \A d \in InFlight : d.thing \in Pointer
      BY <3>2, Calls, DeviceAssumption DEF IInv, LockHeld, TypeOK
    <3>4. thing \notin Pointer
      BY DeviceAssumption DEF Pointer, Axes
    <3> HIDE DEF e0
    <3>5. \A e \in {e0} : e.by = w /\ \A d \in InFlight : d.thing # e.thing
      BY <3>1, <3>3, <3>4
    <3>6. \A x \in Things : (\A e \in {e0} : e.thing # x) => asked'[x] = asked[x]
      BY <2>2, <3>1
    <3> QED BY <3>1, <3>2, <3>5, <3>6, Asks
  <2>3. ASSUME NEW w \in Writers, NEW k \in Codes, NEW v \in 0 .. 1, ReportKey(w, k, v)
        PROVE  Contract!Next
    <3>1. Locked(w, k, v) /\ v \in -1 .. 1
      BY <2>3 DEF ReportKey
    <3>2. \A x \in Things \ {k} : asked'[x] = asked[x]
      BY <2>3 DEF ReportKey, IInv, TypeOK
    <3> QED BY <2>2, <3>1, <3>2
  <2>4. ASSUME NEW w \in Writers, NEW v \in Steps, ReportMWheel(w, v)
        PROVE  Contract!Next
    <3>1. Locked(w, "REL_WHEEL", v) /\ v \in -1 .. 1
      BY <2>4, SMT DEF ReportMWheel, Steps
    <3>2. \A x \in Things \ {"REL_WHEEL"} : asked'[x] = asked[x]
      BY <2>4 DEF ReportMWheel, IInv, TypeOK
    <3>3. "REL_WHEEL" \in Axes \ Pointer
      BY DEF Axes, Pointer
    <3> QED BY <2>2, <3>1, <3>2, <3>3
  <2>5. ASSUME NEW w \in Writers, WriteEvent(w) PROVE UNCHANGED Contract!vars
    <3>1. [v \in Writers |-> Owed(v)'] = [v \in Writers |-> Owed(v)]
      BY <2>5, WriteStep
    <3>2. UNCHANGED <<busy, shown, asked>>
      BY <2>5 DEF WriteEvent
    <3> QED BY <3>1, <3>2 DEF Contract!vars
  <2>6. CASE UNCHANGED vars
    BY <2>6 DEF vars, Contract!vars, Owed
  <2> QED BY <2>1, <2>3, <2>4, <2>5, <2>6, Shows DEF Next
<1> QED BY <1>1, <1>2, Inductive, PTL DEF Spec, ImplementsContract, Contract!Spec
=============================================================================
