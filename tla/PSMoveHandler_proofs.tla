------------------------- MODULE PSMoveHandler_proofs -----------------------
(***************************************************************************)
(* What PSMoveHandler promises for any bits, gestures and key maps.         *)
(* A controller is served by its own thread only, the second one as long as *)
(* the first one's thread has not taken the flag of its trigger; and while  *)
(* its thread is in the reporting loop the device has been told the new     *)
(* value of the bits behind the loop and the old one of those before it.    *)
(***************************************************************************)
EXTENDS PSMoveHandler, TLAPS

\* The thread of controller t is in onButtons() for it: before, or in, its loop.
Comparing(t) == pc[t] = "compare" /\ ctl[t] = t
Looping(t) == pc[t] \in Reporting /\ ctl[t] = t

\* Nobody else serves controller t.
Own(t) == t = "FIRST" \/ ~crossed

\* The buttons the handler can know to be held.
Held(t) == IF t \in told THEN cached[t] ELSE {}

Sound(t) ==
    /\ Comparing(t) \/ Looping(t) => Masked(arg[t]) = Held(t)
    /\ Looping(t) => /\ todo[t] \subseteq Changed(t, arg[t])
                     /\ reported[t] = (arg[t] \ todo[t]) \union (buttons[t] \intersect todo[t])
    /\ ~Looping(t) => reported[t] = buttons[t]
    /\ ~Looping(t) /\ ~Comparing(t) => Masked(buttons[t]) = Held(t)

Calling == \A t \in Ids : /\ callers[t] \subseteq {t}
                          /\ pc[t] # "idle" => callers[t] # {}

Serving ==
    /\ ctl["SECOND"] = "SECOND"
    /\ ctl["FIRST"] = "FIRST" => arg["FIRST"] \subseteq HwBits
    /\ pc["FIRST"] = "idle" => ctl["FIRST"] = "FIRST"
    /\ ~crossed => ctl["FIRST"] = "FIRST" /\ pc["FIRST"] \notin {"clear", "gesture", "mask"}

\* A key that a single bit is mapped to.
Alone(c, i) == \A d \in Ids : \A j \in Bits : KeyMap[d][j] = KeyMap[c][i] => d = c /\ j = i

DeviceTold ==
    \A c \in Ids : \A i \in Bits :
        KeyMap[c][i] \notin Special \union {"none"} \union stuck /\ Alone(c, i)
            => (KeyMap[c][i] \in down <=> i \in reported[c])

IInv == /\ TypeOK /\ Calling /\ Serving /\ DeviceTold
        /\ \A t \in Ids : Own(t) => Sound(t)

-----------------------------------------------------------------------------
\* The bits of gestures are no buttons.
LEMMA Apart == \A g \in Gestures : \A b \in SUBSET Bits :
                   Masked(g \union Masked(b)) = Masked(b)
<1>1. \A i \in HwBits : i \notin GestureBits
  <2> SUFFICES ASSUME NEW i \in HwBits, i \in GestureBits PROVE FALSE
    OBVIOUS
  <2>1. i < i /\ i \in Nat
    BY HandlerAssumption
  <2> QED BY <2>1
<1>2. \A g \in Gestures : g \subseteq GestureBits
  BY HandlerAssumption
<1> QED BY <1>1, <1>2 DEF Masked

\* A step that is none of controller u's leaves it sound.
LEMMA Others ==
    ASSUME NEW u \in Ids, Sound(u), pc'[u] = pc[u], ctl'[u] = ctl[u], arg'[u] = arg[u],
           todo'[u] = todo[u], buttons'[u] = buttons[u], reported'[u] = reported[u],
           cached'[u] = cached[u], u \in told' <=> u \in told
    PROVE  Sound(u)'
  BY DEF Sound, Comparing, Looping, Held, Changed, Masked

LEMMA Unchanged == ASSUME DeviceTold, UNCHANGED <<down, reported, stuck>> PROVE DeviceTold'
  BY DEF DeviceTold, Alone

LEMMA InitIInv == Init => IInv
<1> SUFFICES ASSUME Init PROVE IInv
  OBVIOUS
<1> USE DEF Init
<1>1. Promised!TypeOK
  BY DEF Promised!Init, Promised!TypeOK
<1>2. TypeOK
  BY <1>1 DEF TypeOK, HandlerPoints, Ids
<1>3. Calling
  BY DEF Calling, Promised!Init
<1>4. Serving /\ DeviceTold
  BY DEF Serving, DeviceTold, Ids
<1>5. \A t \in Ids : Sound(t)
  BY DEF Sound, Comparing, Looping, Reporting, Held, Masked
<1> QED BY <1>2, <1>3, <1>4, <1>5 DEF IInv

LEMMA OnButtonsStep ==
    ASSUME IInv, NEW t \in Ids, NEW b \in SUBSET HwBits, OnButtons(t, b) PROVE IInv'
<1> USE DEF IInv, OnButtons, Call, Step, triggerVars, deviceVars, callerVars
<1>1. TypeOK'
  BY DEF TypeOK, HandlerPoints, Bits, Reporting, Promised!TypeOK
<1>2. /\ pc[t] = "idle" /\ pc'[t] = "compare" /\ ctl'[t] = t /\ arg'[t] = b /\ cached'[t] = b
      /\ t \in told'
      /\ \A u \in Ids \ {t} : /\ pc'[u] = pc[u] /\ ctl'[u] = ctl[u] /\ arg'[u] = arg[u]
                              /\ cached'[u] = cached[u] /\ (u \in told' <=> u \in told)
  BY DEF TypeOK
<1>3. Calling'
  BY <1>2 DEF Calling
<1>4. Serving'
  BY <1>2 DEF Serving, Ids
<1>5. ASSUME NEW u \in Ids, Own(u)' PROVE Sound(u)'
  <2>1. Sound(u)
    BY <1>5 DEF Own
  <2>2. CASE u = t
    BY <1>2, <2>1, <2>2 DEF Sound, Comparing, Looping, Reporting, Held, Masked
  <2>3. CASE u # t
    BY <1>2, <2>1, <2>3, Others
  <2> QED BY <2>2, <2>3
<1>6. DeviceTold'
  BY Unchanged
<1> QED BY <1>1, <1>3, <1>4, <1>5, <1>6

LEMMA OnGestureStep ==
    ASSUME IInv, NEW t \in Ids, NEW g \in Gestures, OnGesture(t, g) PROVE IInv'
<1> USE DEF IInv, OnGesture, Call, Step, triggerVars, deviceVars, callerVars, callVars,
            GestureController
<1>0. g \subseteq Bits
  BY HandlerAssumption DEF Bits
<1>1. CASE ~(measured /\ GesturesOn)
  <2>1. UNCHANGED <<buttons, triggerVars, cached, deviceVars, told, crossed, callerVars, pc,
                    callVars>>
        /\ measured' \in BOOLEAN
    BY <1>1
  <2>2. TypeOK'
    BY <2>1 DEF TypeOK, Promised!TypeOK
  <2>3. \A u \in Ids : Own(u)' => Sound(u)'
    BY <2>1, Others DEF Own
  <2>4. Calling' /\ Serving'
    BY <2>1 DEF Calling, Serving
  <2> QED BY <2>1, <2>2, <2>3, <2>4, Unchanged
<1>2. CASE measured /\ GesturesOn
  <2> DEFINE b == g \union Masked(buttons["SECOND"])
  <2>1. /\ t = "SECOND" /\ callers[t] # {} /\ pc[t] = "idle" /\ measured' = TRUE
        /\ pc' = [pc EXCEPT ![t] = "compare"] /\ arg' = [arg EXCEPT ![t] = b]
        /\ ctl' = [ctl EXCEPT ![t] = "SECOND"]
        /\ UNCHANGED <<todo, buttons, triggerVars, cached, deviceVars, told, crossed, callerVars>>
    BY <1>2
  <2>2. b \subseteq Bits /\ Masked(b) = Masked(buttons["SECOND"])
    BY <1>0, Apart DEF TypeOK, Ids, Masked
  <2> HIDE DEF b
  <2>3. TypeOK'
    BY <2>1, <2>2 DEF TypeOK, HandlerPoints, Reporting, Promised!TypeOK
  <2>4. /\ pc'[t] = "compare" /\ ctl'[t] = t /\ arg'[t] = b
        /\ \A u \in Ids \ {t} : pc'[u] = pc[u] /\ ctl'[u] = ctl[u] /\ arg'[u] = arg[u]
    BY <2>1 DEF TypeOK
  <2>5. Calling' /\ Serving'
    BY <2>1, <2>4 DEF Calling, Serving, Ids
  <2>6. ASSUME NEW u \in Ids, Own(u)' PROVE Sound(u)'
    <3>1. Sound(u)
      BY <2>1, <2>6 DEF Own
    <3>2. CASE u = t
      BY <2>1, <2>2, <2>4, <3>1, <3>2 DEF Sound, Comparing, Looping, Reporting, Held
    <3>3. CASE u # t
      BY <2>1, <2>4, <3>1, <3>3, Others
    <3> QED BY <3>2, <3>3
  <2> QED BY <2>1, <2>3, <2>5, <2>6, Unchanged
<1> QED BY <1>1, <1>2

LEMMA CompareStep == ASSUME IInv, NEW t \in Ids, Compare(t) PROVE IInv'
<1> DEFINE diff == Changed(ctl[t], arg[t])
<1> USE DEF IInv, Compare, Step, triggerVars, deviceVars, callerVars
<1>0. ctl[t] \in Ids /\ diff \subseteq Bits
  BY DEF TypeOK, Changed
<1>1. /\ pc[t] = "compare"
      /\ pc' = [pc EXCEPT ![t] = IF diff = {} THEN "flag" ELSE "report"]
      /\ todo' = [todo EXCEPT ![t] = diff]
      /\ UNCHANGED <<buttons, triggerVars, measured, cached, ctl, arg, deviceVars, told, crossed,
                     callerVars>>
  OBVIOUS
<1>3. diff = {} => buttons[ctl[t]] = arg[t]
  BY DEF Changed
<1>4. ctl[t] = t => diff = Changed(t, arg[t])
  OBVIOUS
<1>5. ctl[t] = t => (arg[t] \ diff) \union (buttons[t] \intersect diff) = buttons[t]
  BY DEF Changed
<1> HIDE DEF diff
<1>6. TypeOK'
  BY <1>0, <1>1 DEF TypeOK, HandlerPoints, Reporting, Promised!TypeOK
<1>7. /\ pc'[t] = IF diff = {} THEN "flag" ELSE "report"
      /\ todo'[t] = diff
      /\ \A u \in Ids \ {t} : pc'[u] = pc[u] /\ todo'[u] = todo[u]
  BY <1>1 DEF TypeOK
<1>8. Calling' /\ Serving'
  BY <1>1, <1>7 DEF Calling, Serving, Ids
<1>9. ASSUME NEW u \in Ids, Own(u)' PROVE Sound(u)'
  <2>1. Sound(u)
    BY <1>1, <1>9 DEF Own
  <2>2. CASE u = t /\ ctl[t] = t
    <3>1. /\ Masked(arg[t]) = Held(t) /\ reported[t] = buttons[t] /\ Comparing(t)
          /\ UNCHANGED Held(t)
      BY <1>1, <2>1, <2>2 DEF Sound, Comparing, Looping, Reporting, Held
    <3>2. CASE diff = {}
      BY <1>1, <1>3, <1>7, <2>2, <3>1, <3>2 DEF Sound, Comparing, Looping, Reporting
    <3>3. CASE diff # {}
      BY <1>1, <1>4, <1>5, <1>7, <2>2, <3>1, <3>3
         DEF Sound, Comparing, Looping, Reporting, Changed, Masked
    <3> QED BY <3>2, <3>3
  <2>3. CASE u = t /\ ctl[t] # t
    BY <1>1, <2>1, <2>3 DEF Sound, Comparing, Looping, Held, Masked
  <2>4. CASE u # t
    BY <1>1, <1>7, <2>1, <2>4, Others
  <2> QED BY <2>2, <2>3, <2>4
<1> QED BY <1>1, <1>6, <1>8, <1>9, Unchanged

LEMMA RaiseFlagStep == ASSUME IInv, NEW t \in Ids, RaiseFlag(t) PROVE IInv'
<1> USE DEF IInv, deviceVars, callerVars, callVars
<1>1. /\ pc[t] = "report" /\ pc' = [pc EXCEPT ![t] = "trigger"] /\ releaseGestureKeys' \in BOOLEAN
      /\ UNCHANGED <<buttons, gestureTrigger, moveTrigger, measured, cached, callVars, deviceVars,
                     told, crossed, callerVars>>
  BY DEF RaiseFlag, Step
<1>2. TypeOK'
  BY <1>1 DEF TypeOK, HandlerPoints, Reporting, Promised!TypeOK
<1>3. pc'[t] = "trigger" /\ \A u \in Ids \ {t} : pc'[u] = pc[u]
  BY <1>1 DEF TypeOK
<1>4. Calling' /\ Serving'
  BY <1>1, <1>3 DEF Calling, Serving, Ids
<1>5. ASSUME NEW u \in Ids, Own(u)' PROVE Sound(u)'
  BY <1>1, <1>3, <1>5 DEF Own, Sound, Comparing, Looping, Reporting, Held, Changed, Masked
<1> QED BY <1>1, <1>2, <1>4, <1>5, Unchanged

\* One report: what the device is told of a bit, and what has been reported.
LEMMA Told ==
    ASSUME IInv, NEW c \in Ids, NEW i \in Bits, NEW pressed \in BOOLEAN, ReportKey(i, pressed, c)
    PROVE  /\ DeviceTold'
           /\ down' \subseteq Codes /\ stuck' \subseteq Codes
           /\ moveTrigger' \in BOOLEAN /\ gestureTrigger' \in BOOLEAN
           /\ reported' \in [Ids -> SUBSET Bits]
           /\ reported'[c] = IF pressed THEN reported[c] \union {i} ELSE reported[c] \ {i}
           /\ \A d \in Ids \ {c} : reported'[d] = reported[d]
<1> DEFINE k == KeyMap[c][i]
           inside == k = "none" \/ HandledInside(k, c, pressed)
<1>1. /\ down' = IF inside THEN down ELSE IF pressed THEN down \union {k} ELSE down \ {k}
      /\ stuck' = IF inside THEN stuck ELSE stuck \ {k}
      /\ moveTrigger' = IF k = "MOVE_TRIGGER" /\ c = "FIRST" THEN pressed ELSE moveTrigger
      /\ gestureTrigger' = IF k = "GESTURE_TRIGGER" /\ c = "SECOND" THEN pressed
                           ELSE gestureTrigger
      /\ reported' = [reported EXCEPT ![c] = IF pressed THEN @ \union {i} ELSE @ \ {i}]
  BY DEF ReportKey
<1>2. inside => k \in Special \union {"none"}
  BY DEF HandledInside, Special
<1>3. ~inside => k \in Codes
  BY DEF Codes
<1>4. moveTrigger' \in BOOLEAN /\ gestureTrigger' \in BOOLEAN
  BY <1>1 DEF IInv, TypeOK
<1> HIDE DEF inside
<1>5. down' \subseteq Codes /\ stuck' \subseteq Codes
  BY <1>1, <1>3 DEF IInv, TypeOK
<1>6. /\ reported' \in [Ids -> SUBSET Bits]
      /\ reported'[c] = IF pressed THEN reported[c] \union {i} ELSE reported[c] \ {i}
      /\ \A d \in Ids \ {c} : reported'[d] = reported[d]
  BY <1>1 DEF IInv, TypeOK
<1>7. ASSUME NEW d \in Ids, NEW j \in Bits, Alone(d, j),
             KeyMap[d][j] \notin Special \union {"none"} \union stuck'
      PROVE  KeyMap[d][j] \in down' <=> j \in reported'[d]
  <2>1. CASE KeyMap[d][j] = k
    <3>1. d = c /\ j = i
      BY <1>7, <2>1 DEF Alone
    <3>2. ~inside
      BY <1>2, <1>7, <2>1
    <3> QED BY <1>1, <1>6, <2>1, <3>1, <3>2
  <2>2. CASE KeyMap[d][j] # k
    <3>1. KeyMap[d][j] \notin stuck /\ (KeyMap[d][j] \in down' <=> KeyMap[d][j] \in down)
      BY <1>1, <1>7, <2>2
    <3>2. j \in reported'[d] <=> j \in reported[d]
      BY <1>6, <2>2
    <3> QED BY <1>7, <3>1, <3>2 DEF IInv, DeviceTold
  <2> QED BY <2>1, <2>2
<1>8. DeviceTold'
  BY <1>7 DEF DeviceTold, Alone
<1> QED BY <1>4, <1>5, <1>6, <1>8

LEMMA ReportStep ==
    ASSUME IInv, NEW t \in Ids, Report(t)
    PROVE  /\ IInv'
           /\ Own(ctl[t]) /\ ctl[t] = t => reported' # reported
<1> USE DEF callerVars
<1>1. PICK i \in NextBit(t) :
          /\ pc[t] \in Reporting
          /\ ReportKey(i, i \in arg[t], ctl[t])
          /\ todo' = [todo EXCEPT ![t] = @ \ {i}]
  BY DEF Report, Reporting
<1>2. /\ pc' = [pc EXCEPT ![t] = "report"]
      /\ UNCHANGED <<buttons, releaseGestureKeys, measured, cached, ctl, arg, told, crossed,
                     callerVars>>
  BY DEF Report
<1>3. ctl[t] \in Ids /\ i \in Bits /\ i \in todo[t]
  BY <1>1 DEF IInv, TypeOK, NextBit
<1>4. /\ DeviceTold'
      /\ down' \subseteq Codes /\ stuck' \subseteq Codes
      /\ moveTrigger' \in BOOLEAN /\ gestureTrigger' \in BOOLEAN
      /\ reported' \in [Ids -> SUBSET Bits]
      /\ reported'[ctl[t]] = IF i \in arg[t] THEN reported[ctl[t]] \union {i}
                                             ELSE reported[ctl[t]] \ {i}
      /\ \A d \in Ids \ {ctl[t]} : reported'[d] = reported[d]
  <2>0. PICK c \in Ids : c = ctl[t]
    BY <1>3
  <2>1. ReportKey(i, i \in arg[t], c)
    BY <1>1, <2>0
  <2>2. CASE i \in arg[t]
    <3>1. ReportKey(i, TRUE, c)
      BY <2>1, <2>2 DEF ReportKey, HandledInside
    <3>2. /\ DeviceTold'
          /\ down' \subseteq Codes /\ stuck' \subseteq Codes
          /\ moveTrigger' \in BOOLEAN /\ gestureTrigger' \in BOOLEAN
          /\ reported' \in [Ids -> SUBSET Bits]
          /\ reported'[c] = reported[c] \union {i}
          /\ \A d \in Ids \ {c} : reported'[d] = reported[d]
      BY <1>3, <3>1, Told
    <3> QED BY <2>0, <2>2, <3>2
  <2>3. CASE i \notin arg[t]
    <3>0. (i \in arg[t]) = FALSE
      BY <2>3
    <3>1. ReportKey(i, FALSE, c)
      BY <2>1, <3>0, Zenon
    <3>2. /\ DeviceTold'
          /\ down' \subseteq Codes /\ stuck' \subseteq Codes
          /\ moveTrigger' \in BOOLEAN /\ gestureTrigger' \in BOOLEAN
          /\ reported' \in [Ids -> SUBSET Bits]
          /\ reported'[c] = reported[c] \ {i}
          /\ \A d \in Ids \ {c} : reported'[d] = reported[d]
      BY <1>3, <3>1, Told
    <3> QED BY <2>0, <2>3, <3>2
  <2> QED BY <2>2, <2>3
<1>5. /\ pc'[t] = "report" /\ todo'[t] = todo[t] \ {i}
      /\ \A u \in Ids \ {t} : pc'[u] = pc[u] /\ todo'[u] = todo[u]
  BY <1>1, <1>2 DEF IInv, TypeOK
<1>6. TypeOK'
  <2>1. todo' \in [Ids -> SUBSET Bits] /\ pc' \in [Ids -> HandlerPoints]
    BY <1>1, <1>2 DEF IInv, TypeOK, HandlerPoints, Reporting
  <2>2. \A u \in Ids : pc'[u] \notin Reporting => todo'[u] = {}
    BY <1>5 DEF IInv, TypeOK, Reporting
  <2>3. {gestureTrigger', moveTrigger', releaseGestureKeys', measured'} \subseteq BOOLEAN
    BY <1>2, <1>4 DEF IInv, TypeOK
  <2> QED BY <1>2, <1>4, <2>1, <2>2, <2>3 DEF IInv, TypeOK, Promised!TypeOK
<1>7. Calling'
  BY <1>1, <1>2, <1>5 DEF IInv, Calling, Reporting
<1>8. Serving'
  BY <1>1, <1>2, <1>5 DEF IInv, Serving, Ids, Reporting
<1>9. ASSUME NEW u \in Ids, Own(u)' PROVE Sound(u)'
  <2>1. Sound(u) /\ Own(u)
    BY <1>2, <1>9 DEF IInv, Own
  <2>2. CASE u = t /\ ctl[t] = t
    <3>1. Looping(t) /\ Looping(t)' /\ ~Comparing(t)'
      BY <1>1, <1>2, <1>5, <2>2 DEF Looping, Comparing, Reporting
    <3>2. /\ Masked(arg[t]) = Held(t)
          /\ todo[t] \subseteq Changed(t, arg[t])
          /\ reported[t] = (arg[t] \ todo[t]) \union (buttons[t] \intersect todo[t])
      BY <2>1, <2>2, <3>1 DEF Sound
    <3>3. Masked(arg[t])' = Held(t)'
      BY <1>2, <3>2 DEF Masked, Held
    <3>4. todo'[t] \subseteq Changed(t, arg[t])'
      BY <1>2, <1>5, <3>2 DEF Changed
    <3>5. reported'[t] = (arg[t] \ todo'[t]) \union (buttons[t] \intersect todo'[t])
      BY <1>3, <1>4, <1>5, <2>2, <3>2 DEF Changed
    <3> QED BY <1>2, <2>2, <3>1, <3>3, <3>4, <3>5 DEF Sound
  <2>3. CASE u = t /\ ctl[t] # t
    <3>1. reported'[t] = reported[t]
      BY <1>4, <2>3
    <3> QED BY <1>2, <2>1, <2>3, <3>1 DEF Sound, Comparing, Looping, Held, Masked
  <2>4. CASE u # t
    <3>1. ctl[t] # u
      BY <2>1, <2>4 DEF IInv, Serving, Own, Ids
    <3> QED BY <1>2, <1>4, <1>5, <2>1, <2>4, <3>1, Others
  <2> QED BY <2>2, <2>3, <2>4
<1>10. ASSUME Own(ctl[t]), ctl[t] = t PROVE reported' # reported
  <2>1. Looping(t) /\ Sound(t)
    BY <1>1, <1>10 DEF IInv, Looping
  <2>2. i \in reported[t] <=> i \notin arg[t]
    BY <1>3, <2>1 DEF Sound, Changed
  <2> QED BY <1>4, <1>10, <2>2
<1> QED BY <1>4, <1>6, <1>7, <1>8, <1>9, <1>10 DEF IInv

LEMMA StoreStep == ASSUME IInv, NEW t \in Ids, Store(t) PROVE IInv'
<1> USE DEF callerVars, callVars, deviceVars, triggerVars
<1>1. /\ pc[t] = "report" /\ pc' = [pc EXCEPT ![t] = "flag"] /\ todo[t] = {}
      /\ buttons' = [buttons EXCEPT ![ctl[t]] = arg[t]]
      /\ UNCHANGED <<triggerVars, measured, cached, callVars, deviceVars, told, crossed,
                     callerVars>>
  BY DEF Store, Step, LoopDone, Stored
<1>2. ctl[t] \in Ids /\ (ctl[t] = "FIRST" => arg[t] \subseteq HwBits)
  BY DEF IInv, TypeOK, Serving, Ids
<1>3. /\ pc'[t] = "flag" /\ buttons'[ctl[t]] = arg[t]
      /\ \A u \in Ids \ {t} : pc'[u] = pc[u]
      /\ \A u \in Ids \ {ctl[t]} : buttons'[u] = buttons[u]
  BY <1>1, <1>2 DEF IInv, TypeOK
<1>4. TypeOK'
  <2>1. /\ buttons' \in [Ids -> SUBSET Bits] /\ buttons'["FIRST"] \subseteq HwBits
        /\ pc' \in [Ids -> HandlerPoints]
    BY <1>1, <1>2 DEF IInv, TypeOK, HandlerPoints, Ids
  <2>2. \A u \in Ids : pc'[u] \notin Reporting => todo'[u] = {}
    BY <1>1, <1>3 DEF IInv, TypeOK
  <2> QED BY <1>1, <2>1, <2>2 DEF IInv, TypeOK, Promised!TypeOK
<1>5. Calling' /\ Serving'
  BY <1>1, <1>3 DEF IInv, Calling, Serving, Ids
<1>6. ASSUME NEW u \in Ids, Own(u)' PROVE Sound(u)'
  <2>1. Sound(u) /\ Own(u)
    BY <1>1, <1>6 DEF IInv, Own
  <2>2. CASE u = t /\ ctl[t] = t
    <3>1. Looping(t) /\ ~Looping(t)' /\ ~Comparing(t)'
      BY <1>1, <1>3, <2>2 DEF Looping, Comparing, Reporting
    <3>2. Masked(arg[t]) = Held(t) /\ reported[t] = arg[t]
      BY <1>1, <2>1, <2>2, <3>1 DEF Sound
    <3> QED BY <1>1, <1>3, <2>2, <3>1, <3>2 DEF Sound, Masked, Held
  <2>3. CASE u = t /\ ctl[t] # t
    BY <1>1, <1>3, <2>1, <2>3 DEF Sound, Comparing, Looping, Held, Masked
  <2>4. CASE u # t
    <3>1. ctl[t] # u
      BY <2>1, <2>4 DEF IInv, Serving, Own, Ids
    <3> QED BY <1>1, <1>3, <2>1, <2>4, <3>1, Others
  <2> QED BY <2>2, <2>3, <2>4
<1> QED BY <1>1, <1>4, <1>5, <1>6, Unchanged DEF IInv

\* The end of a call is neither before nor in the loop.
LEMMA After ==
    ASSUME IInv, NEW t \in Ids, pc[t] \in {"flag", "clear", "gesture"},
           NEW to \in {"idle", "clear", "gesture", "mask"}, pc' = [pc EXCEPT ![t] = to],
           \/ to = "idle" /\ arg' = [arg EXCEPT ![t] = {}] /\ ctl' = [ctl EXCEPT ![t] = t]
           \/ to # "idle" /\ UNCHANGED <<arg, ctl>>,
           UNCHANGED <<buttons, cached, deviceVars, told, todo, callerVars, gestureTrigger,
                       moveTrigger>>,
           {releaseGestureKeys', measured', crossed'} \subseteq BOOLEAN,
           crossed => crossed',
           t = "FIRST" /\ to # "idle" => crossed'
    PROVE  IInv'
<1> USE DEF callerVars, deviceVars
<1>1. TypeOK'
  <2>1. pc' \in [Ids -> HandlerPoints] /\ arg' \in [Ids -> SUBSET Bits] /\ ctl' \in [Ids -> Ids]
    BY DEF IInv, TypeOK, HandlerPoints
  <2>2. \A u \in Ids : pc'[u] \notin Reporting => todo'[u] = {}
    BY DEF IInv, TypeOK, Reporting
  <2>3. {gestureTrigger', moveTrigger', releaseGestureKeys', measured'} \subseteq BOOLEAN
    BY DEF IInv, TypeOK
  <2> QED BY <2>1, <2>2, <2>3 DEF IInv, TypeOK, Promised!TypeOK
<1>2. /\ pc'[t] = to
      /\ \A u \in Ids \ {t} : pc'[u] = pc[u] /\ arg'[u] = arg[u] /\ ctl'[u] = ctl[u]
      /\ to = "idle" => arg'[t] = {} /\ ctl'[t] = t
      /\ to # "idle" => arg'[t] = arg[t] /\ ctl'[t] = ctl[t]
  BY DEF IInv, TypeOK
<1>3. Calling'
  BY <1>2 DEF IInv, Calling
<1>4. Serving'
  BY <1>2 DEF IInv, Serving, Ids
<1>5. ASSUME NEW u \in Ids, Own(u)' PROVE Sound(u)'
  <2>1. Sound(u)
    BY <1>5 DEF IInv, Own
  <2>2. CASE u = t
    <3>1. ~Looping(t) /\ ~Comparing(t) /\ ~Looping(t)' /\ ~Comparing(t)'
      BY <1>2 DEF Looping, Comparing, Reporting
    <3> QED BY <2>1, <2>2, <3>1 DEF Sound, Held, Masked
  <2>3. CASE u # t
    BY <1>2, <2>1, <2>3, Others
  <2> QED BY <2>2, <2>3
<1> QED BY <1>1, <1>3, <1>4, <1>5, Unchanged DEF IInv

LEMMA EndSteps ==
    ASSUME IInv, NEW t \in Ids, TestFlag(t) \/ ClearFlag(t) \/ ReleaseGestures(t) PROVE IInv'
<1> USE DEF callerVars, triggerVars, callVars, deviceVars, Step, Return
<1>1. CASE TestFlag(t)
  <2>1. crossed' = (crossed \/ (releaseGestureKeys /\ t = "FIRST"))
        /\ UNCHANGED <<buttons, triggerVars, measured, cached, deviceVars, told, callerVars>>
    BY <1>1 DEF TestFlag
  <2>2. {releaseGestureKeys', measured', crossed'} \subseteq BOOLEAN
    BY <2>1 DEF IInv, TypeOK
  <2>3. CASE releaseGestureKeys
    <3>1. /\ pc[t] = "flag" /\ pc' = [pc EXCEPT ![t] = "clear"] /\ UNCHANGED <<arg, ctl, todo>>
      BY <1>1, <2>3 DEF TestFlag
    <3> QED BY <2>1, <2>2, <2>3, <3>1, After
  <2>4. CASE ~releaseGestureKeys
    <3>1. /\ pc[t] = "flag" /\ pc' = [pc EXCEPT ![t] = "idle"] /\ UNCHANGED todo
          /\ arg' = [arg EXCEPT ![t] = {}] /\ ctl' = [ctl EXCEPT ![t] = t]
      BY <1>1, <2>4 DEF TestFlag
    <3> QED BY <2>1, <2>2, <2>4, <3>1, After
  <2> QED BY <2>3, <2>4
<1>2. CASE ClearFlag(t)
  <2>1. /\ pc[t] = "clear" /\ pc' = [pc EXCEPT ![t] = "gesture"] /\ releaseGestureKeys' = FALSE
        /\ UNCHANGED <<buttons, gestureTrigger, moveTrigger, measured, cached, callVars,
                       deviceVars, told, crossed, callerVars>>
    BY <1>2 DEF ClearFlag
  <2>2. {releaseGestureKeys', measured', crossed'} \subseteq BOOLEAN
    BY <2>1 DEF IInv, TypeOK
  <2>3. t = "FIRST" => crossed
    BY <2>1 DEF IInv, Serving
  <2> QED BY <2>1, <2>2, <2>3, After
<1>3. CASE ReleaseGestures(t)
  <2>1. /\ pc[t] = "gesture" /\ measured' = TRUE
        /\ UNCHANGED <<buttons, triggerVars, cached, deviceVars, told, crossed, callerVars>>
    BY <1>3 DEF ReleaseGestures
  <2>2. {releaseGestureKeys', measured', crossed'} \subseteq BOOLEAN
    BY <2>1 DEF IInv, TypeOK
  <2>3. t = "FIRST" => crossed
    BY <2>1 DEF IInv, Serving
  <2>4. CASE measured /\ GesturesOn
    <3>1. pc' = [pc EXCEPT ![t] = "mask"] /\ UNCHANGED <<arg, ctl, todo>>
      BY <1>3, <2>4 DEF ReleaseGestures
    <3> QED BY <2>1, <2>2, <2>3, <3>1, After
  <2>5. CASE ~(measured /\ GesturesOn)
    <3>1. /\ pc' = [pc EXCEPT ![t] = "idle"] /\ UNCHANGED todo
          /\ arg' = [arg EXCEPT ![t] = {}] /\ ctl' = [ctl EXCEPT ![t] = t]
      BY <1>3, <2>5 DEF ReleaseGestures
    <3> QED BY <2>1, <2>2, <2>3, <3>1, After
  <2> QED BY <2>4, <2>5
<1> QED BY <1>1, <1>2, <1>3

LEMMA ReportNoGestureStep == ASSUME IInv, NEW t \in Ids, ReportNoGesture(t) PROVE IInv'
<1> DEFINE b == Masked(buttons["SECOND"])
<1> USE DEF callerVars, deviceVars
<1>1. /\ pc[t] = "mask" /\ pc' = [pc EXCEPT ![t] = "compare"]
      /\ arg' = [arg EXCEPT ![t] = b] /\ ctl' = [ctl EXCEPT ![t] = "SECOND"]
      /\ UNCHANGED <<buttons, triggerVars, measured, cached, todo, deviceVars, told, crossed,
                     callerVars>>
  BY DEF ReportNoGesture, Call, Step, GestureController
<1>2. b \subseteq HwBits /\ Masked(b) = b
  BY DEF Masked
<1> HIDE DEF b
<1>3. /\ pc'[t] = "compare" /\ arg'[t] = b /\ ctl'[t] = "SECOND"
      /\ \A u \in Ids \ {t} : pc'[u] = pc[u] /\ arg'[u] = arg[u] /\ ctl'[u] = ctl[u]
  BY <1>1 DEF IInv, TypeOK
<1>4. TypeOK'
  <2>1. /\ pc' \in [Ids -> HandlerPoints] /\ arg' \in [Ids -> SUBSET Bits]
        /\ ctl' \in [Ids -> Ids]
    BY <1>1, <1>2 DEF IInv, TypeOK, HandlerPoints, Bits, Ids
  <2>2. \A u \in Ids : pc'[u] \notin Reporting => todo'[u] = {}
    BY <1>1, <1>3 DEF IInv, TypeOK, Reporting
  <2> QED BY <1>1, <2>1, <2>2 DEF IInv, TypeOK, triggerVars, Promised!TypeOK
<1>5. Calling'
  BY <1>1, <1>3 DEF IInv, Calling
<1>6. Serving'
  BY <1>1, <1>2, <1>3 DEF IInv, Serving, Ids
<1>7. ASSUME NEW u \in Ids, Own(u)' PROVE Sound(u)'
  <2>1. Sound(u) /\ Own(u)
    BY <1>1, <1>7 DEF IInv, Own
  <2>2. CASE u = t /\ t = "SECOND"
    <3>1. Masked(buttons[t]) = Held(t) /\ reported[t] = buttons[t]
      BY <1>1, <2>1, <2>2 DEF Sound, Looping, Comparing, Reporting
    <3>2. Masked(arg'[t]) = Held(t)
      BY <1>2, <1>3, <2>2, <3>1 DEF b
    <3>3. ~Looping(t)'
      BY <1>3 DEF Looping, Reporting
    <3> QED BY <1>1, <1>3, <2>2, <3>1, <3>2, <3>3 DEF Sound, Comparing, Held, Masked
  <2>3. CASE u = t /\ t = "FIRST"
    <3>1. ~Looping(t)' /\ ~Comparing(t)' /\ ~Looping(t) /\ ~Comparing(t)
      BY <1>1, <1>3, <2>3 DEF Looping, Comparing, Reporting
    <3> QED BY <1>1, <2>1, <2>3, <3>1 DEF Sound, Held, Masked
  <2>4. CASE u # t
    BY <1>1, <1>3, <2>1, <2>4, Others
  <2> QED BY <2>2, <2>3, <2>4 DEF Ids
<1> QED BY <1>1, <1>4, <1>5, <1>6, <1>7, Unchanged DEF IInv

LEMMA ConnectSteps ==
    ASSUME IInv, NEW t \in Ids, Connect(t) \/ Disconnect(t) PROVE IInv'
<1>1. /\ UNCHANGED <<buttons, triggerVars, measured, cached, pc, callVars, deviceVars, told,
                     crossed>>
      /\ callers' \in [Ids -> SUBSET Ids] /\ dirty' \in BOOLEAN
      /\ \A u \in Ids : callers'[u] \subseteq {u} /\ (pc[u] # "idle" => callers'[u] # {})
  <2>1. CASE Connect(t)
    BY <2>1 DEF Connect, Promised!Start, IInv, TypeOK, Promised!TypeOK, Calling
  <2>2. CASE Disconnect(t)
    BY <2>2 DEF Disconnect, Promised!Leave, IInv, TypeOK, Promised!TypeOK, Calling
  <2> QED BY <2>1, <2>2
<1> USE DEF callVars, deviceVars, triggerVars
<1>2. TypeOK'
  BY <1>1 DEF IInv, TypeOK, Promised!TypeOK
<1>3. Calling' /\ Serving'
  BY <1>1 DEF IInv, Calling, Serving
<1>4. \A u \in Ids : Own(u)' => Sound(u)'
  BY <1>1, Others DEF IInv, Own
<1> QED BY <1>1, <1>2, <1>3, <1>4, Unchanged DEF IInv

LEMMA ResetStep == ASSUME IInv, Reset PROVE IInv'
<1> USE DEF callVars
<1>1. /\ \A t \in Ids : callers[t] = {}
      /\ dirty' = FALSE
      /\ buttons' = [c \in Ids |-> {}] /\ reported' = [c \in Ids |-> {}]
      /\ gestureTrigger' = FALSE /\ moveTrigger' = FALSE /\ measured' = FALSE
      /\ told' = {} /\ stuck' = down /\ crossed' = FALSE
      /\ UNCHANGED <<releaseGestureKeys, cached, pc, callVars, down, callers>>
  BY DEF Reset, Promised!Reset
<1>2. \A t \in Ids : pc[t] = "idle"
  BY <1>1 DEF IInv, Calling
<1>3. TypeOK'
  BY <1>1 DEF IInv, TypeOK, Promised!TypeOK, Ids
<1>4. Calling'
  BY <1>1, <1>2 DEF IInv, Calling
<1>5. Serving'
  BY <1>1, <1>2 DEF IInv, Serving, Ids
<1>6. \A u \in Ids : Sound(u)'
  BY <1>1, <1>2 DEF Sound, Comparing, Looping, Reporting, Held, Masked
<1>7. DeviceTold'
  BY <1>1 DEF DeviceTold
<1> QED BY <1>3, <1>4, <1>5, <1>6, <1>7 DEF IInv

LEMMA Stutter == ASSUME IInv, UNCHANGED vars PROVE IInv'
<1> USE DEF vars, triggerVars, callVars, deviceVars, callerVars
<1>1. TypeOK'
  BY DEF IInv, TypeOK, Promised!TypeOK
<1>2. Calling' /\ Serving'
  BY DEF IInv, Calling, Serving
<1>3. \A u \in Ids : Own(u)' => Sound(u)'
  BY Others DEF IInv, Own
<1> QED BY <1>1, <1>2, <1>3, Unchanged DEF IInv

-----------------------------------------------------------------------------
LEMMA NextIInv == IInv /\ [Next]_vars => IInv'
<1> SUFFICES ASSUME IInv, [Next]_vars PROVE IInv'
  OBVIOUS
<1>1. CASE Reset
  BY <1>1, ResetStep
<1>2. CASE UNCHANGED vars
  BY <1>2, Stutter
<1>3. ASSUME NEW t \in Ids, Connect(t) \/ Disconnect(t) PROVE IInv'
  BY <1>3, ConnectSteps
<1>4. ASSUME NEW t \in Ids, NEW b \in SUBSET HwBits, OnButtons(t, b) PROVE IInv'
  BY <1>4, OnButtonsStep
<1>5. ASSUME NEW t \in Ids, NEW g \in Gestures, OnGesture(t, g) PROVE IInv'
  BY <1>5, OnGestureStep
<1>6. ASSUME NEW t \in Ids, Compare(t) \/ RaiseFlag(t) \/ Report(t) \/ Store(t) PROVE IInv'
  BY <1>6, CompareStep, RaiseFlagStep, ReportStep, StoreStep
<1>7. ASSUME NEW t \in Ids, TestFlag(t) \/ ClearFlag(t) \/ ReleaseGestures(t) PROVE IInv'
  BY <1>7, EndSteps
<1>8. ASSUME NEW t \in Ids, ReportNoGesture(t) PROVE IInv'
  BY <1>8, ReportNoGestureStep
<1> QED BY <1>1, <1>2, <1>3, <1>4, <1>5, <1>6, <1>7, <1>8 DEF Next

\* What every state of the handler satisfies: see IInv.
THEOREM Inductive == Spec => []IInv
<1> QED BY InitIInv, NextIInv, PTL DEF Spec

\* The fields keep the values of their types (TypeOK).
THEOREM TypeCorrect == Spec => []TypeOK
<1>1. IInv => TypeOK
  BY DEF IInv
<1> QED BY <1>1, Inductive, PTL

\* Between calls buttons_ is what the device has been told (lines 199 to 217).
THEOREM ReportsMatchHolds == Spec => []ReportsMatch
<1>1. IInv => ReportsMatch
  <2> SUFFICES ASSUME IInv, Quiescent, ~crossed PROVE reported = buttons
    BY DEF ReportsMatch
  <2>1. \A t \in Ids : reported[t] = buttons[t]
    BY DEF IInv, Own, Quiescent, Sound, Looping, Reporting
  <2> QED BY <2>1 DEF IInv, TypeOK
<1> QED BY <1>1, Inductive, PTL

\* Between calls buttons_ is what the controllers hold (line 184).
THEOREM AgreementHolds == Spec => []Agreement
<1>1. IInv => Agreement
  <2> SUFFICES ASSUME IInv, Quiescent, ~crossed, NEW c \in told
               PROVE Masked(buttons[c]) = cached[c]
    BY DEF Agreement
  <2>1. c \in Ids /\ Own(c) /\ pc[c] = "idle"
    BY DEF IInv, TypeOK, Own, Quiescent
  <2> QED BY <2>1 DEF IInv, Sound, Looping, Comparing, Reporting, Held
<1> QED BY <1>1, Inductive, PTL

\* The first controller's own state is never disturbed (lines 194 to 222).
THEOREM FirstUnaffectedHolds == Spec => []FirstUnaffected
<1>1. IInv => FirstUnaffected
  <2> SUFFICES ASSUME IInv, pc["FIRST"] = "idle"
               PROVE /\ reported["FIRST"] = buttons["FIRST"]
                     /\ "FIRST" \in told => buttons["FIRST"] = cached["FIRST"]
    BY DEF FirstUnaffected
  <2>1. Sound("FIRST") /\ ~Looping("FIRST") /\ ~Comparing("FIRST")
    BY DEF IInv, Own, Ids, Looping, Comparing, Reporting
  <2>2. Masked(buttons["FIRST"]) = buttons["FIRST"]
    BY DEF IInv, TypeOK, Masked
  <2> QED BY <2>1, <2>2 DEF Sound, Held
<1> QED BY <1>1, Inductive, PTL

\* Between calls the keys at the device are those of the buttons that are held
\* (lines 199 to 217 and 227 to 237).
THEOREM KeysTellTheTruthHolds == Spec => []KeysTellTheTruth
<1>1. IInv => KeysTellTheTruth
  <2> SUFFICES ASSUME IInv, Quiescent, ~crossed, NEW c \in Ids, NEW i \in HwBits,
                      KeyMap[c][i] \notin Special \union {"none"} \union stuck, Alone(c, i)
               PROVE KeyMap[c][i] \in down <=> c \in told /\ i \in cached[c]
    BY DEF KeysTellTheTruth, Alone
  <2>1. KeyMap[c][i] \in down <=> i \in reported[c]
    BY DEF IInv, DeviceTold, Bits
  <2>2. reported[c] = buttons[c] /\ Masked(buttons[c]) = Held(c)
    BY DEF IInv, Own, Quiescent, Sound, Looping, Comparing, Reporting
  <2> QED BY <2>1, <2>2 DEF Held, Masked
<1> QED BY <1>1, Inductive, PTL

\* Every report of a bit changes what was last reported of it (lines 201 and 202).
THEOREM EveryReportIsAChangeHolds == Spec => EveryReportIsAChange
<1>1. ASSUME IInv, [Next]_vars, NEW t \in Ids, todo'[t] # todo[t], pc[t] \in Reporting, ~crossed
      PROVE  reported' # reported
  <2>1. Own(ctl[t]) /\ ctl[t] = t
    BY <1>1 DEF IInv, Serving, Own, Ids
  <2>2. CASE Report(t)
    BY <1>1, <2>1, <2>2, ReportStep
  <2>3. CASE \E u \in Ids : u # t /\ (Compare(u) \/ Report(u))
    BY <1>1, <2>3 DEF Compare, Report, IInv, TypeOK
  <2>4. CASE ~Report(t) /\ ~\E u \in Ids : u # t /\ (Compare(u) \/ Report(u))
    <3>1. ~Compare(t)
      BY <1>1 DEF Compare, Step, Reporting
    <3>2. UNCHANGED todo
      BY <1>1, <2>4, <3>1
         DEF Next, vars, callVars, Connect, Disconnect, OnButtons, OnGesture, Call, RaiseFlag,
             Store, TestFlag, ClearFlag, ReleaseGestures, Return, ReportNoGesture, Reset
    <3> QED BY <1>1, <3>2
  <2> QED BY <2>2, <2>3, <2>4
<1>2. IInv /\ [Next]_vars
        => [\A t \in Ids : todo'[t] # todo[t] /\ pc[t] \in Reporting /\ ~crossed
                             => reported' # reported]_vars
  BY <1>1
<1> QED BY <1>2, Inductive, PTL DEF Spec, EveryReportIsAChange

-----------------------------------------------------------------------------
(* Gestures and their trigger: while nobody else takes its flag, the second   *)
(* controller's own thread reports a gesture only under the trigger.          *)

\* A held trigger is a button that was reported.
TriggerReported ==
    gestureTrigger => \E i \in reported["SECOND"] : KeyMap["SECOND"][i] = "GESTURE_TRIGGER"

\* A set of bits has no gestures without a button that is their trigger.
Triggered(b) ==
    b \intersect GestureBits # {} =>
        \E i \in Masked(b) : KeyMap["SECOND"][i] = "GESTURE_TRIGGER"

\* Nothing else is stored for the second controller, or about to be.
GesturesUnderTrigger == Triggered(buttons["SECOND"]) /\ Triggered(arg["SECOND"])

\* A thread outside the handler has no arguments left.
IdleArg == \A t \in Ids : pc[t] = "idle" => arg[t] = {}

GestureInv == /\ TriggerReported /\ IdleArg
              /\ UseGestureTrigger /\ ~crossed => GesturesUnderTrigger

LEMMA IdleArgStep == ASSUME IInv, IdleArg, [Next]_vars PROVE IdleArg'
<1>0. pc \in [Ids -> HandlerPoints] /\ arg \in [Ids -> SUBSET Bits]
  BY DEF IInv, TypeOK
<1>1. CASE UNCHANGED <<pc, arg>>
  BY <1>1 DEF IdleArg
<1>2. ASSUME NEW t \in Ids, NEW to, pc' = [pc EXCEPT ![t] = to], to # "idle",
             \A u \in Ids \ {t} : arg'[u] = arg[u]
      PROVE  IdleArg'
  BY <1>0, <1>2 DEF IdleArg
<1>3. ASSUME NEW t \in Ids, NEW from, Return(t, from) PROVE IdleArg'
  BY <1>0, <1>3 DEF Return, Step, IdleArg
<1>4. ASSUME NEW t \in Ids, NEW from, NEW b, NEW c, Call(t, from, b, c) PROVE IdleArg'
  <2>1. \A u \in Ids \ {t} : arg'[u] = arg[u]
    BY <1>0, <1>4 DEF Call
  <2> QED BY <1>2, <1>4, <2>1 DEF Call, Step
<1>5. ASSUME NEW t \in Ids PROVE
        /\ Connect(t) \/ Disconnect(t) => IdleArg'
        /\ \A b \in SUBSET HwBits : OnButtons(t, b) => IdleArg'
        /\ \A g \in Gestures : OnGesture(t, g) => IdleArg'
        /\ Compare(t) \/ RaiseFlag(t) \/ Report(t) \/ Store(t) => IdleArg'
        /\ TestFlag(t) \/ ClearFlag(t) \/ ReleaseGestures(t) \/ ReportNoGesture(t) => IdleArg'
  <2>1. Connect(t) \/ Disconnect(t) => IdleArg'
    BY <1>1 DEF Connect, Disconnect, callVars
  <2>2. /\ \A b \in SUBSET HwBits : OnButtons(t, b) => IdleArg'
        /\ \A g \in Gestures : OnGesture(t, g) => IdleArg'
    BY <1>1, <1>4 DEF OnButtons, OnGesture, callVars
  <2>3. Compare(t) \/ RaiseFlag(t) \/ Report(t) \/ Store(t) => IdleArg'
    BY <1>2 DEF Compare, RaiseFlag, Report, Store, Step, callVars
  <2>4. TestFlag(t) \/ ClearFlag(t) \/ ReleaseGestures(t) \/ ReportNoGesture(t) => IdleArg'
    BY <1>2, <1>3, <1>4
       DEF TestFlag, ClearFlag, ReleaseGestures, ReportNoGesture, Step, callVars
  <2> QED BY <2>1, <2>2, <2>3, <2>4
<1>6. Reset \/ UNCHANGED vars => IdleArg'
  BY <1>1 DEF Reset, vars, callVars
<1> QED BY <1>5, <1>6 DEF Next

LEMMA TriggerReportedStep ==
    ASSUME IInv, TriggerReported, [Next]_vars PROVE TriggerReported'
<1>1. CASE UNCHANGED <<gestureTrigger, reported>>
  BY <1>1 DEF TriggerReported
<1>2. ASSUME NEW t \in Ids, Report(t) PROVE TriggerReported'
  <2>1. PICK i \in NextBit(t) : ReportKey(i, i \in arg[t], ctl[t])
    BY <1>2 DEF Report
  <2>2. ctl[t] \in Ids /\ reported \in [Ids -> SUBSET Bits]
    BY DEF IInv, TypeOK
  <2> QED BY <2>1, <2>2 DEF ReportKey, TriggerReported, Ids
<1>3. CASE Reset
  BY <1>3 DEF Reset, TriggerReported
<1>4. CASE ~Reset /\ ~\E t \in Ids : Report(t)
  <2>1. UNCHANGED <<gestureTrigger, reported>>
    BY <1>4 DEF Next, vars, triggerVars, deviceVars, Connect, Disconnect, OnButtons, OnGesture,
                Compare, RaiseFlag, Store, TestFlag, ClearFlag, ReleaseGestures, ReportNoGesture
  <2> QED BY <1>1, <2>1
<1> QED BY <1>2, <1>3, <1>4

\* The gestures of one measurement are reported only while a trigger is held.
LEMMA GestureCall ==
    ASSUME IInv, TriggerReported, GesturesUnderTrigger, UseGestureTrigger, ~crossed,
           NEW g \in Gestures, OnGesture("SECOND", g), measured, GesturesOn
    PROVE  Triggered(g \union Masked(buttons["SECOND"]))
<1> DEFINE B == buttons["SECOND"]
<1>1. "SECOND" \in Ids /\ B \subseteq Bits
  BY DEF IInv, TypeOK, Ids
<1>2. reported["SECOND"] = B
  <2>1. ~Looping("SECOND")
    BY DEF OnGesture, Call, Step, Looping, Reporting
  <2> QED BY <1>1, <2>1 DEF IInv, Own, Sound
<1>3. PICK i \in B : KeyMap["SECOND"][i] = "GESTURE_TRIGGER"
  BY <1>2 DEF GesturesOn, TriggerReported
<1>4. PICK h \in Masked(B) : KeyMap["SECOND"][h] = "GESTURE_TRIGGER"
  <2>1. CASE i \in HwBits
    BY <1>3, <2>1 DEF Masked
  <2>2. CASE i \in GestureBits
    BY <1>3, <2>2 DEF GesturesUnderTrigger, Triggered
  <2> QED BY <1>1, <1>3, <2>1, <2>2 DEF Bits
<1>5. Masked(g \union Masked(B)) = Masked(B)
  BY <1>1, Apart
<1> QED BY <1>4, <1>5 DEF Triggered

\* Buttons alone need no trigger.
LEMMA ButtonsTriggered == \A b \in SUBSET HwBits : Triggered(b)
<1>1. ASSUME NEW i \in HwBits, i \in GestureBits PROVE FALSE
  <2>1. i < i /\ i \in Nat
    BY <1>1, HandlerAssumption
  <2> QED BY <2>1
<1> QED BY <1>1 DEF Triggered

\* A step of the second controller's thread.
LEMMA SecondStep ==
    ASSUME IInv, TriggerReported, GesturesUnderTrigger, UseGestureTrigger, ~crossed,
           \/ \E b \in SUBSET HwBits : OnButtons("SECOND", b)
           \/ \E g \in Gestures : OnGesture("SECOND", g)
           \/ Compare("SECOND") \/ RaiseFlag("SECOND") \/ Report("SECOND") \/ Store("SECOND")
           \/ TestFlag("SECOND") \/ ClearFlag("SECOND") \/ ReleaseGestures("SECOND")
           \/ ReportNoGesture("SECOND")
    PROVE  GesturesUnderTrigger'
<1> DEFINE S == "SECOND"
<1>0. /\ S \in Ids /\ ctl[S] = S
      /\ arg \in [Ids -> SUBSET Bits] /\ buttons \in [Ids -> SUBSET Bits]
  BY DEF IInv, TypeOK, Serving, Ids
<1>1. ASSUME NEW b, Triggered(b), arg' = [arg EXCEPT ![S] = b], UNCHANGED buttons
      PROVE  GesturesUnderTrigger'
  <2>1. arg'[S] = b
    BY <1>0, <1>1
  <2> QED BY <1>1, <2>1 DEF GesturesUnderTrigger, Triggered, Masked
<1>2. ASSUME UNCHANGED <<arg, buttons>> PROVE GesturesUnderTrigger'
  BY <1>2 DEF GesturesUnderTrigger, Triggered, Masked
<1>3. Triggered({}) /\ Triggered(Masked(buttons[S]))
  BY ButtonsTriggered DEF Masked
<1>4. ASSUME NEW b \in SUBSET HwBits, OnButtons(S, b) PROVE GesturesUnderTrigger'
  BY <1>1, <1>4, ButtonsTriggered DEF OnButtons, Call
<1>5. ASSUME NEW g \in Gestures, OnGesture(S, g) PROVE GesturesUnderTrigger'
  <2>1. CASE measured /\ GesturesOn
    <3>1. Triggered(g \union Masked(buttons[S]))
      BY <1>5, <2>1, GestureCall
    <3> QED BY <1>1, <1>5, <2>1, <3>1 DEF OnGesture, Call
  <2>2. CASE ~(measured /\ GesturesOn)
    BY <1>2, <1>5, <2>2 DEF OnGesture, callVars
  <2> QED BY <2>1, <2>2
<1>6. CASE Store(S)
  <2>1. UNCHANGED arg /\ buttons'[S] = arg[S]
    BY <1>0, <1>6 DEF Store, Stored, callVars
  <2> QED BY <2>1 DEF GesturesUnderTrigger, Triggered, Masked
<1>7. CASE TestFlag(S) \/ ReleaseGestures(S)
  BY <1>1, <1>2, <1>3, <1>7 DEF TestFlag, ReleaseGestures, Return, callVars
<1>8. CASE ReportNoGesture(S)
  BY <1>1, <1>3, <1>8 DEF ReportNoGesture, Call
<1>9. CASE Compare(S) \/ RaiseFlag(S) \/ Report(S) \/ ClearFlag(S)
  BY <1>2, <1>9 DEF Compare, RaiseFlag, Report, ClearFlag, callVars
<1> QED BY <1>4, <1>5, <1>6, <1>7, <1>8, <1>9

\* The first controller's thread serves the first controller.
LEMMA FirstStep ==
    ASSUME IInv, GesturesUnderTrigger, ~crossed, NEW t \in Ids \ {"SECOND"},
           \/ \E b \in SUBSET HwBits : OnButtons(t, b)
           \/ \E g \in Gestures : OnGesture(t, g)
           \/ Compare(t) \/ RaiseFlag(t) \/ Report(t) \/ Store(t)
           \/ TestFlag(t) \/ ClearFlag(t) \/ ReleaseGestures(t) \/ ReportNoGesture(t)
    PROVE  GesturesUnderTrigger'
<1>1. ctl[t] # "SECOND"
  BY DEF IInv, Serving, Ids
<1>2. arg'["SECOND"] = arg["SECOND"] /\ buttons'["SECOND"] = buttons["SECOND"]
  BY <1>1 DEF IInv, TypeOK, Ids, Call, Return, OnButtons, OnGesture, Compare, RaiseFlag,
     Report, Store, Stored, TestFlag, ClearFlag, ReleaseGestures, ReportNoGesture, callVars
<1> QED BY <1>2 DEF GesturesUnderTrigger, Triggered, Masked

LEMMA GestureInvStep ==
    ASSUME IInv, GestureInv, [Next]_vars PROVE GestureInv'
<1>1. TriggerReported' /\ IdleArg'
  BY TriggerReportedStep, IdleArgStep DEF GestureInv
<1>2. ASSUME UseGestureTrigger, ~crossed' PROVE GesturesUnderTrigger'
  <2>1. CASE Reset
    <3>1. pc["SECOND"] = "idle" /\ UNCHANGED arg /\ buttons'["SECOND"] = {}
      BY <2>1 DEF Reset, Promised!Reset, IInv, Calling, Ids, callVars
    <3>2. arg["SECOND"] = {}
      BY <3>1 DEF GestureInv, IdleArg, Ids
    <3> QED BY <3>1, <3>2 DEF GesturesUnderTrigger, Triggered
  <2>2. CASE ~Reset
    <3>1. ~crossed
      BY <1>2, <2>2 DEF Next, vars, Connect, Disconnect, OnButtons, OnGesture, Compare, RaiseFlag,
                        Report, Store, TestFlag, ClearFlag, ReleaseGestures, ReportNoGesture
    <3>2. GesturesUnderTrigger
      BY <1>2, <3>1 DEF GestureInv
    <3>3. CASE UNCHANGED vars \/ \E t \in Ids : Connect(t) \/ Disconnect(t)
      BY <3>2, <3>3 DEF vars, Connect, Disconnect, callVars, GesturesUnderTrigger, Triggered, Masked
    <3>4. ASSUME NEW t \in Ids,
                 \/ \E b \in SUBSET HwBits : OnButtons(t, b)
                 \/ \E g \in Gestures : OnGesture(t, g)
                 \/ Compare(t) \/ RaiseFlag(t) \/ Report(t) \/ Store(t)
                 \/ TestFlag(t) \/ ClearFlag(t) \/ ReleaseGestures(t) \/ ReportNoGesture(t)
          PROVE  GesturesUnderTrigger'
      <4>1. CASE t = "SECOND"
        BY <1>2, <3>1, <3>2, <3>4, <4>1, SecondStep DEF GestureInv
      <4>2. CASE t # "SECOND"
        BY <3>1, <3>2, <3>4, <4>2, FirstStep
      <4> QED BY <4>1, <4>2
    <3> QED BY <2>2, <3>3, <3>4 DEF Next
  <2> QED BY <2>1, <2>2
<1>3. UseGestureTrigger' <=> UseGestureTrigger
  BY DEF UseGestureTrigger
<1> QED BY <1>1, <1>2, <1>3 DEF GestureInv

\* Gesture keys are down only while a button mapped to their trigger is held, unless
\* the other controller's thread has taken the flag (lines 150 to 191 and 220 to
\* 224), for every key map, also one that makes a gesture a trigger.
THEOREM OwnFlagReleasesGesturesHolds == Spec => []OwnFlagReleasesGestures
<1>1. Init => GestureInv
  BY DEF Init, GestureInv, TriggerReported, IdleArg, GesturesUnderTrigger, Triggered, Ids
<1>2. IInv /\ GestureInv /\ [Next]_vars => GestureInv'
  BY GestureInvStep
<1>3. IInv /\ GestureInv => OwnFlagReleasesGestures
  <2> SUFFICES ASSUME IInv, GestureInv, ~crossed, Quiescent, UseGestureTrigger,
                      reported["SECOND"] \intersect GestureBits # {}
               PROVE  \E i \in cached["SECOND"] : KeyMap["SECOND"][i] = "GESTURE_TRIGGER"
    BY DEF OwnFlagReleasesGestures, GestureKeysNeedTrigger
  <2>1. /\ reported["SECOND"] = buttons["SECOND"]
        /\ Masked(buttons["SECOND"]) = Held("SECOND")
    BY DEF IInv, Own, Sound, Quiescent, Looping, Comparing, Reporting, Ids
  <2>2. \E i \in Held("SECOND") : KeyMap["SECOND"][i] = "GESTURE_TRIGGER"
    BY <2>1 DEF GestureInv, GesturesUnderTrigger, Triggered
  <2> QED BY <2>2 DEF Held
<1> QED BY <1>1, <1>2, <1>3, Inductive, PTL DEF Spec

-----------------------------------------------------------------------------
(* The mutex: whoever has raised the flag of a trigger's release completes it. *)

\* The thread that has set releaseGestureKeys_ is alone in mutex_, and the bit it is
\* at is still a held trigger that is let go, whatever the other thread has done
\* outside the mutex since: line 292 follows line 289 undisturbed.
HolderUndisturbed ==
    \A t \in Ids : pc[t] = "trigger" =>
        /\ \A u \in Ids \ {t} : pc[u] # "trigger"
        /\ \E i \in NextBit(t) : ReleasesTrigger(t, i)

\* A step of u that does not enter the mutex disturbs nobody else.
LEMMA OutsideMutex ==
    ASSUME IInv, HolderUndisturbed, NEW u \in Ids,
           pc'[u] # "trigger",
           \A t \in Ids \ {u} : /\ pc'[t] = pc[t] /\ todo'[t] = todo[t]
                                 /\ ctl'[t] = ctl[t] /\ arg'[t] = arg[t],
           UNCHANGED gestureTrigger \/ MutexFree \/ pc[u] = "trigger"
    PROVE  HolderUndisturbed'
<1> SUFFICES ASSUME NEW t \in Ids, pc'[t] = "trigger"
             PROVE  /\ \A v \in Ids \ {t} : pc'[v] # "trigger"
                    /\ \E i \in NextBit(t)' : ReleasesTrigger(t, i)'
  BY DEF HolderUndisturbed
<1>1. t # u /\ pc[t] = "trigger"
  OBVIOUS
<1>2. /\ \A v \in Ids \ {t} : pc[v] # "trigger"
      /\ \E i \in NextBit(t) : ReleasesTrigger(t, i)
  BY <1>1 DEF HolderUndisturbed
<1>3. \A v \in Ids \ {t} : pc'[v] # "trigger"
  BY <1>1, <1>2
<1>4. UNCHANGED gestureTrigger
  BY <1>1, <1>2 DEF MutexFree
<1>5. \E i \in NextBit(t)' : ReleasesTrigger(t, i)'
  BY <1>1, <1>2, <1>4 DEF NextBit, ReleasesTrigger
<1> QED BY <1>3, <1>5

LEMMA HolderStep == ASSUME IInv, HolderUndisturbed, [Next]_vars PROVE HolderUndisturbed'
<1>1. TypeOK
  BY DEF IInv
<1>2. ASSUME UNCHANGED <<pc, callVars, gestureTrigger>> PROVE HolderUndisturbed'
  BY <1>2 DEF HolderUndisturbed, NextBit, ReleasesTrigger, callVars
<1>3. ASSUME NEW u \in Ids, RaiseFlag(u) PROVE HolderUndisturbed'
  <2>1. /\ pc'[u] = "trigger" /\ MutexFree
        /\ \A t \in Ids \ {u} : pc'[t] = pc[t]
        /\ UNCHANGED <<gestureTrigger, callVars>>
        /\ \E i \in NextBit(u) : ReleasesTrigger(u, i)
    BY <1>1, <1>3 DEF RaiseFlag, Step, TypeOK
  <2>2. \E i \in NextBit(u)' : ReleasesTrigger(u, i)'
    BY <2>1 DEF NextBit, ReleasesTrigger, callVars
  <2> QED BY <2>1, <2>2 DEF HolderUndisturbed, MutexFree
<1>4. ASSUME NEW u \in Ids, Report(u) PROVE HolderUndisturbed'
  <2>1. /\ pc'[u] = "report"
        /\ MutexFree \/ pc[u] = "trigger"
        /\ \A t \in Ids \ {u} : /\ pc'[t] = pc[t] /\ todo'[t] = todo[t]
                                 /\ ctl'[t] = ctl[t] /\ arg'[t] = arg[t]
    BY <1>1, <1>4 DEF Report, TypeOK
  <2> QED BY <2>1, OutsideMutex
<1>5. ASSUME NEW u \in Ids, NEW from, NEW b, NEW c, Call(u, from, b, c) \/ Return(u, from),
             UNCHANGED gestureTrigger
      PROVE  HolderUndisturbed'
  BY <1>1, <1>5, OutsideMutex DEF Call, Return, Step, TypeOK
<1>6. ASSUME NEW u \in Ids, NEW from, NEW to \in HandlerPoints \ {"trigger"}, Step(u, from, to),
             \A t \in Ids \ {u} : todo'[t] = todo[t], UNCHANGED <<ctl, arg, gestureTrigger>>
      PROVE  HolderUndisturbed'
  BY <1>1, <1>6, OutsideMutex DEF Step, TypeOK
<1>7. ASSUME NEW u \in Ids PROVE
        /\ Connect(u) \/ Disconnect(u) => HolderUndisturbed'
        /\ \A b \in SUBSET HwBits : OnButtons(u, b) => HolderUndisturbed'
        /\ \A g \in Gestures : OnGesture(u, g) => HolderUndisturbed'
        /\ Compare(u) \/ Store(u) \/ ClearFlag(u) => HolderUndisturbed'
        /\ TestFlag(u) \/ ReleaseGestures(u) \/ ReportNoGesture(u) => HolderUndisturbed'
  <2>1. Connect(u) \/ Disconnect(u) => HolderUndisturbed'
    BY <1>2 DEF Connect, Disconnect, triggerVars
  <2>2. /\ \A b \in SUBSET HwBits : OnButtons(u, b) => HolderUndisturbed'
        /\ \A g \in Gestures : OnGesture(u, g) => HolderUndisturbed'
    BY <1>2, <1>5 DEF OnButtons, OnGesture, triggerVars
  <2>3. Compare(u) => HolderUndisturbed'
    BY <1>1, <1>6 DEF Compare, triggerVars, TypeOK, HandlerPoints, Reporting
  <2>4. Store(u) \/ ClearFlag(u) => HolderUndisturbed'
    BY <1>6 DEF Store, ClearFlag, callVars, triggerVars, HandlerPoints
  <2>5. TestFlag(u) \/ ReleaseGestures(u) \/ ReportNoGesture(u) => HolderUndisturbed'
    BY <1>5, <1>6
       DEF TestFlag, ReleaseGestures, ReportNoGesture, callVars, triggerVars, HandlerPoints
  <2> QED BY <2>1, <2>2, <2>3, <2>4, <2>5
<1>8. CASE Reset
  <2>1. \A t \in Ids : pc'[t] = "idle"
    BY <1>8 DEF Reset, Promised!Reset, IInv, Calling
  <2> QED BY <2>1 DEF HolderUndisturbed
<1>9. CASE UNCHANGED vars
  BY <1>2, <1>9 DEF vars, triggerVars
<1> QED BY <1>3, <1>4, <1>7, <1>8, <1>9 DEF Next

\* For all key maps, and also when the first controller's thread reports for the
\* second one after it has taken the flag.
THEOREM HolderUndisturbedHolds == Spec => []HolderUndisturbed
<1>1. Init => HolderUndisturbed
  BY DEF Init, HolderUndisturbed
<1> QED BY <1>1, HolderStep, Inductive, PTL DEF Spec

-----------------------------------------------------------------------------
(* The calls the handler is modelled under are those HandlerCallers promises: *)
(* what PSMoveListener is shown to keep is all that the handler assumes.      *)

\* Each thread's connection and departure is a Start or Leave of the abstract
\* specification, reset() its Reset, and no call of the handler changes who calls.
THEOREM CallsAsPromised == Spec => Promised!Spec
<1>1. Init => Promised!Init
  BY DEF Init
<1>2. ASSUME TypeOK, [Next]_vars PROVE [Promised!Next]_(Promised!vars)
  <2>1. ASSUME NEW t \in Ids, Connect(t) \/ Disconnect(t) PROVE Promised!Next
    <3>1. Connect(t) => Promised!Start(t, t) /\ t \in callers'[t]
      BY <1>2 DEF Connect, Promised!Start, TypeOK, Promised!TypeOK
    <3>2. Disconnect(t) => Promised!Leave(t, t) /\ t \in callers[t]
      BY DEF Disconnect, Promised!Leave
    <3> QED BY <2>1, <3>1, <3>2 DEF Promised!Next
  <2>2. CASE Reset
    BY <2>2 DEF Reset, Promised!Next
  <2>3. CASE ~Reset /\ ~\E t \in Ids : Connect(t) \/ Disconnect(t)
    <3>1. UNCHANGED callerVars
      BY <1>2, <2>3 DEF Next, vars, OnButtons, OnGesture, Compare, RaiseFlag, Report, Store,
                        TestFlag, ClearFlag, ReleaseGestures, ReportNoGesture
    <3> QED BY <3>1 DEF callerVars, Promised!vars
  <2> QED BY <2>1, <2>2, <2>3
<1> QED BY <1>1, <1>2, TypeCorrect, PTL DEF Spec, Promised!Spec
=============================================================================
