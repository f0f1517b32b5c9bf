---------------------------- MODULE PSMoveHandler ---------------------------
(***************************************************************************)
(* PSMoveHandler (psmove_handler.cpp) between the controller threads that   *)
(* call it and the input device it reports keys to.                         *)
(*                                                                          *)
(* The thread of each connected controller calls onButtons() when the       *)
(* controller's buttons have changed, and the second one's also onGesture().*)
(* onButtons() reports one changed bit after the other, each under mutex_,  *)
(* but compares and stores buttons_, and serves releaseGestureKeys_, outside*)
(* the mutex: these are steps of their own below.  The calls that follow    *)
(* each other in a thread share one program counter, because onGesture()    *)
(* calls onButtons(), and onButtons() onGesture(), as the last thing but    *)
(* setting a timestamp.                                                     *)
(*                                                                          *)
(* Who calls, and when reset() is called, is what HandlerCallers promises   *)
(* and PSMoveListener is shown to keep.                                     *)
(***************************************************************************)
EXTENDS Integers

CONSTANTS
    HwBits,       \* bits of psmove_get_buttons(), by position
    GestureBits,  \* BTN_GESTURE_UP and so on, above the former
    Gestures,     \* the sets of gesture bits one measurement can yield
    KeyMap        \* keymaps_: controller -> bit -> key code, or "none"

Ids == {"FIRST", "SECOND"}
Bits == HwBits \union GestureBits
Special == {"DISCONNECT", "MOVE_TRIGGER", "GESTURE_TRIGGER", "MWHEEL_UP", "MWHEEL_DOWN"}
Codes == {KeyMap[c][i] : c \in Ids, i \in Bits} \ {"none"}

ASSUME HandlerAssumption ==
    /\ HwBits \subseteq Nat /\ GestureBits \subseteq Nat
    /\ \A i \in HwBits, j \in GestureBits : i < j
    /\ {} \in Gestures /\ Gestures \subseteq SUBSET GestureBits
    /\ KeyMap \in [Ids -> [Bits -> STRING]]

VARIABLES
    buttons,             \* buttons_
    gestureTrigger,      \* gestureTrigger_
    moveTrigger,         \* moveTrigger_
    releaseGestureKeys,  \* releaseGestureKeys_
    measured,            \* lastGestureTp_ is set
    cached,              \* buttons_ of the controller's ControllerThread
    pc,                  \* where the controller's thread is in the handler
    ctl, arg,            \* the arguments of the onButtons() call it is in
    todo,                \* the changed bits that call has still to report
    down,                \* the device: the keys it was last told to be down
    reported,            \* history: bits last reported as pressed, since reset()
    told,                \* history: controllers that changed a button since reset()
    stuck,               \* history: keys down at a reset(), and not told of since
    crossed,             \* history: the first controller's thread has taken the flag
                         \* of the second one's trigger since reset()
    callers, dirty       \* HandlerCallers: who calls the handler

Promised == INSTANCE HandlerCallers WITH Slots <- Ids, Threads <- Ids

triggerVars == <<gestureTrigger, moveTrigger, releaseGestureKeys>>
callVars == <<ctl, arg, todo>>
deviceVars == <<down, reported, stuck>>
callerVars == <<callers, dirty>>
vars == <<buttons, triggerVars, measured, cached, pc, callVars, deviceVars, told, crossed,
          callerVars>>

Reporting == {"report", "trigger"}
HandlerPoints == {"idle", "compare", "flag", "clear", "gesture", "mask"}
                    \union Reporting

\* The fields have values of their types; no bit is left over from a finished
\* reporting loop, and the first controller has no gesture bits.
TypeOK ==
    /\ buttons \in [Ids -> SUBSET Bits]
    /\ buttons["FIRST"] \subseteq HwBits
    /\ {gestureTrigger, moveTrigger, releaseGestureKeys, measured} \subseteq BOOLEAN
    /\ cached \in [Ids -> SUBSET HwBits]
    /\ pc \in [Ids -> HandlerPoints]
    /\ ctl \in [Ids -> Ids]
    /\ arg \in [Ids -> SUBSET Bits]
    /\ todo \in [Ids -> SUBSET Bits]
    /\ \A t \in Ids : pc[t] \notin Reporting => todo[t] = {}
    /\ down \subseteq Codes /\ stuck \subseteq Codes
    /\ reported \in [Ids -> SUBSET Bits]
    /\ told \subseteq Ids
    /\ crossed \in BOOLEAN
    /\ Promised!TypeOK

Init ==
    /\ buttons = [c \in Ids |-> {}]
    /\ gestureTrigger = FALSE
    /\ moveTrigger = FALSE
    /\ releaseGestureKeys = FALSE
    /\ measured = FALSE
    /\ cached = [c \in Ids |-> {}]
    /\ pc = [t \in Ids |-> "idle"]
    /\ ctl = [t \in Ids |-> t]
    /\ arg = [t \in Ids |-> {}]
    /\ todo = [t \in Ids |-> {}]
    /\ down = {} /\ stuck = {}
    /\ reported = [c \in Ids |-> {}]
    /\ told = {}
    /\ crossed = FALSE
    /\ Promised!Init

-----------------------------------------------------------------------------
(* Mut... is a faulty variant of the operator it precedes, to confirm that   *)
(* the properties can fail.                                                  *)

\* checkTriggers(): some bit of the second key map is the gesture trigger.
UseGestureTrigger == \E i \in Bits : KeyMap["SECOND"][i] = "GESTURE_TRIGGER"

MutGesturesOn == TRUE
\* Gestures count while their trigger is held, or if there is no trigger.
GesturesOn == UseGestureTrigger => gestureTrigger

MutMasked(b) == {}
\* & BTN_GESTURE_MASK: the bits that are not gestures.
Masked(b) == b \intersect HwBits

\* pressed | released: the bits of b that differ from buttons_.
MutChanged(c, b) == b \ buttons[c]
Changed(c, b) == (b \ buttons[c]) \union (buttons[c] \ b)

\* The bit the loop of onButtons() comes to next, if any, and its end.
NextBit(t) == {i \in todo[t] : \A j \in todo[t] : i <= j}
MutLoopDone(t) == todo[t] \subseteq {i \in Bits : \A j \in Bits : j <= i}
LoopDone(t) == todo[t] = {}

\* buttons_[buttonIndex] = buttons
MutStored(c, b) == buttons
Stored(c, b) == [buttons EXCEPT ![c] = b]

MutGestureController(t) == t
\* onGesture() reports for the second controller, whoever calls it.
GestureController(t) == "SECOND"

\* handleSpecialKeys() takes this key itself; a wheel key only when pressed.
HandledInside(k, c, pressed) ==
    \/ k = "DISCONNECT"
    \/ k = "MOVE_TRIGGER" /\ c = "FIRST"
    \/ k = "GESTURE_TRIGGER" /\ c = "SECOND"
    \/ k \in {"MWHEEL_UP", "MWHEEL_DOWN"} /\ pressed

\* reportKey(): the device hears of the key that bit i of controller c is
\* mapped to, unless the handler takes it, which may move a trigger.
ReportKey(i, pressed, c) ==
    LET k == KeyMap[c][i]
        inside == k = "none" \/ HandledInside(k, c, pressed)
    IN
    /\ down' = IF inside THEN down ELSE IF pressed THEN down \union {k} ELSE down \ {k}
    /\ stuck' = IF inside THEN stuck ELSE stuck \ {k}
    /\ moveTrigger' = IF k = "MOVE_TRIGGER" /\ c = "FIRST" THEN pressed ELSE moveTrigger
    /\ gestureTrigger' = IF k = "GESTURE_TRIGGER" /\ c = "SECOND" THEN pressed
                         ELSE gestureTrigger
    /\ reported' = [reported EXCEPT ![c] = IF pressed THEN @ \union {i} ELSE @ \ {i}]

-----------------------------------------------------------------------------

Step(t, from, to) == pc[t] = from /\ pc' = [pc EXCEPT ![t] = to]

\* onButtons(b, c) begins; "compare" is its first read of buttons_.
Call(t, from, b, c) == /\ Step(t, from, "compare")
                       /\ arg' = [arg EXCEPT ![t] = b]
                       /\ ctl' = [ctl EXCEPT ![t] = c]
                       /\ UNCHANGED todo

\* The thread is back in ControllerThread; its arguments are canonical then.
Return(t, from) == /\ Step(t, from, "idle")
                   /\ arg' = [arg EXCEPT ![t] = {}]
                   /\ ctl' = [ctl EXCEPT ![t] = t]
                   /\ UNCHANGED todo

\* The controller's buttons have changed: the button signal.
OnButtons(t, b) ==
    /\ b # cached[t] /\ callers[t] # {}
    /\ Call(t, "idle", b, t)
    /\ cached' = [cached EXCEPT ![t] = b]
    /\ told' = told \union {t}
    /\ UNCHANGED <<buttons, triggerVars, measured, deviceVars, crossed, callerVars>>

\* The gesture signal: a measurement of the second controller, with the
\* gestures it shows.  The first measurement only sets the timestamp.
OnGesture(t, g) ==
    /\ t = "SECOND" /\ callers[t] # {}
    /\ measured' = TRUE
    /\ IF measured /\ GesturesOn
         THEN Call(t, "idle", g \union Masked(buttons["SECOND"]), GestureController(t))
         ELSE pc[t] = "idle" /\ UNCHANGED <<pc, callVars>>
    /\ UNCHANGED <<buttons, triggerVars, cached, deviceVars, told, crossed, callerVars>>

\* if (buttons_[buttonIndex] != buttons)
Compare(t) ==
    /\ LET diff == Changed(ctl[t], arg[t]) IN
       /\ Step(t, "compare", IF diff = {} THEN "flag" ELSE "report")
       /\ todo' = [todo EXCEPT ![t] = diff]
    /\ UNCHANGED <<buttons, triggerVars, measured, cached, ctl, arg, deviceVars, told, crossed,
                   callerVars>>

\* Nobody is inside mutex_.
MutexFree == \A t \in Ids : pc[t] # "trigger"

\* The release of a gesture trigger that was held: inside the mutex, but seen
\* by the reads outside of it, releaseGestureKeys_ is set before the trigger.
ReleasesTrigger(t, i) ==
    /\ KeyMap[ctl[t]][i] = "GESTURE_TRIGGER"
    /\ ctl[t] = "SECOND"
    /\ i \notin arg[t]
    /\ gestureTrigger

RaiseFlag(t) ==
    /\ Step(t, "report", "trigger")
    /\ MutexFree /\ ~LoopDone(t)
    /\ \E i \in NextBit(t) : ReleasesTrigger(t, i)
    /\ releaseGestureKeys' = TRUE
    /\ UNCHANGED <<buttons, gestureTrigger, moveTrigger, measured, cached, callVars,
                   deviceVars, told, crossed, callerVars>>

\* One iteration of the loop over the bits, for a bit that has changed.
Report(t) ==
    /\ pc' = [pc EXCEPT ![t] = "report"]
    /\ \E i \in NextBit(t) :
          /\ \/ pc[t] = "report" /\ MutexFree /\ ~LoopDone(t) /\ ~ReleasesTrigger(t, i)
             \/ pc[t] = "trigger"
          /\ ReportKey(i, i \in arg[t], ctl[t])
          /\ todo' = [todo EXCEPT ![t] = @ \ {i}]
    /\ UNCHANGED <<buttons, releaseGestureKeys, measured, cached, ctl, arg, told, crossed,
                   callerVars>>

\* After the loop: buttons_ = buttons, outside the mutex.
Store(t) ==
    /\ Step(t, "report", "flag")
    /\ LoopDone(t)
    /\ buttons' = Stored(ctl[t], arg[t])
    /\ UNCHANGED <<triggerVars, measured, cached, callVars, deviceVars, told, crossed,
                   callerVars>>

\* if (releaseGestureKeys_ == true), the end of onButtons() ...
TestFlag(t) ==
    /\ IF releaseGestureKeys THEN Step(t, "flag", "clear") /\ UNCHANGED callVars
                             ELSE Return(t, "flag")
    /\ crossed' = (crossed \/ (releaseGestureKeys /\ t = "FIRST"))
    /\ UNCHANGED <<buttons, triggerVars, measured, cached, deviceVars, told, callerVars>>

\* ... releaseGestureKeys_ = false ...
ClearFlag(t) ==
    /\ Step(t, "clear", "gesture")
    /\ releaseGestureKeys' = FALSE
    /\ UNCHANGED <<buttons, gestureTrigger, moveTrigger, measured, cached, callVars,
                   deviceVars, told, crossed, callerVars>>

\* ... onGesture(0, 0), in whichever thread this is: nothing unless a gesture
\* could be reported now ...
ReleaseGestures(t) ==
    /\ measured' = TRUE
    /\ IF measured /\ GesturesOn THEN Step(t, "gesture", "mask") /\ UNCHANGED callVars
                                 ELSE Return(t, "gesture")
    /\ UNCHANGED <<buttons, triggerVars, cached, deviceVars, told, crossed, callerVars>>

\* ... and else the second controller's buttons without any gesture.
ReportNoGesture(t) ==
    /\ Call(t, "mask", Masked(buttons["SECOND"]), GestureController(t))
    /\ UNCHANGED <<buttons, triggerVars, measured, cached, deviceVars, told, crossed,
                   callerVars>>

\* The controller's thread enters its loop, or leaves it: it starts or stops calling.
Connect(t) == /\ Promised!Start(t, t)
              /\ UNCHANGED <<buttons, triggerVars, measured, cached, pc, callVars, deviceVars,
                             told, crossed>>

Disconnect(t) == /\ pc[t] = "idle"
                 /\ Promised!Leave(t, t)
                 /\ UNCHANGED <<buttons, triggerVars, measured, cached, pc, callVars,
                                deviceVars, told, crossed>>

\* reset(), on the main thread.  The device hears nothing, and
\* ControllerThread::buttons_ stays as it is.
Reset ==
    /\ Promised!Reset
    /\ buttons' = [c \in Ids |-> {}]
    /\ gestureTrigger' = FALSE
    /\ moveTrigger' = FALSE
    /\ measured' = FALSE
    /\ reported' = [c \in Ids |-> {}]
    /\ told' = {}
    /\ stuck' = down
    /\ crossed' = FALSE
    /\ UNCHANGED <<releaseGestureKeys, cached, pc, callVars, down>>

Next ==
    \/ \E t \in Ids :
          \/ Connect(t) \/ Disconnect(t)
          \/ \E b \in SUBSET HwBits : OnButtons(t, b)
          \/ \E g \in Gestures : OnGesture(t, g)
          \/ Compare(t) \/ RaiseFlag(t) \/ Report(t) \/ Store(t)
          \/ TestFlag(t) \/ ClearFlag(t) \/ ReleaseGestures(t) \/ ReportNoGesture(t)
    \/ Reset

Spec == Init /\ [][Next]_vars

-----------------------------------------------------------------------------
Quiescent == \A t \in Ids : pc[t] = "idle"

\* config/psmoveinput.conf, lines 119 to 121: with a gesture trigger mapped,
\* gesture keys are down only while a button mapped to it is held.
GestureKeysNeedTrigger ==
    Quiescent /\ UseGestureTrigger /\ reported["SECOND"] \intersect GestureBits # {} =>
        \E i \in cached["SECOND"] : KeyMap["SECOND"][i] = "GESTURE_TRIGGER"

(* That does not hold: the first controller's thread may find the flag that the *)
(* release of the trigger has raised and report no gestures in the middle of the*)
(* second one's own report (line 220).  As long as that has not happened, two   *)
(* controllers do not disturb each other.                                       *)

\* Between calls, buttons_ is exactly what the device has been told since the
\* last reset(): every bit of it was reported as pressed and no other (lines 199
\* to 217), across gesture reports, trigger releases and nested calls.
ReportsMatch == Quiescent /\ ~crossed => reported = buttons

\* Between calls, buttons_ holds the buttons the controller holds, for each
\* controller that has changed one since the last reset(): the bits a gesture
\* report merges in (line 184) are not stale.
Agreement == Quiescent /\ ~crossed => \A c \in told : Masked(buttons[c]) = cached[c]

\* The gesture keys follow their trigger if nobody else takes its flag.
OwnFlagReleasesGestures == ~crossed => GestureKeysNeedTrigger

\* From the controller to the device: between calls a key is down exactly if the
\* button mapped to it is held and has changed since the last reset().  Keys that
\* were down at a reset() stay down until they are reported again (lines 227 to 237).
KeysTellTheTruth ==
    Quiescent /\ ~crossed =>
        \A c \in Ids : \A i \in HwBits :
            LET k == KeyMap[c][i]
                alone == \A d \in Ids : \A j \in Bits : KeyMap[d][j] = k => d = c /\ j = i
            IN  k \notin Special \union {"none"} \union stuck /\ alone =>
                    (k \in down <=> c \in told /\ i \in cached[c])

\* Every report is a change: no bit of a controller is reported as pressed twice or as
\* released twice in a row without a reset() in between (lines 201 and 202).  Two bits
\* that are mapped to one key may still press it twice.
EveryReportIsAChange ==
    [][\A t \in Ids : todo'[t] # todo[t] /\ pc[t] \in Reporting /\ ~crossed
                          => reported' # reported]_vars

\* The first controller's reports are its own, whatever its thread does for the
\* second one: buttons_[0] agrees with it and with the device at the end.
FirstUnaffected ==
    pc["FIRST"] = "idle" =>
        /\ reported["FIRST"] = buttons["FIRST"]
        /\ "FIRST" \in told => buttons["FIRST"] = cached["FIRST"]
=============================================================================
