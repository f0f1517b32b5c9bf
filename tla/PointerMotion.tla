---------------------------- MODULE PointerMotion ---------------------------
(***************************************************************************)
(* The arithmetic of PSMoveHandler::onGyroscope() and onGesture()            *)
(* (psmove_handler.cpp): pointer movement, or gestures, from angular speed   *)
(* and the time between measurements.  The two have the same calculations    *)
(* and differ in their timestamp, trigger and threshold and in what becomes  *)
(* of the movement: they are the two channels of this module.  Times are     *)
(* timespecs; the elapsed time is computed from tv_nsec alone.  A            *)
(* coefficient, a double in the source, is the rational Num / Den.           *)
(***************************************************************************)
EXTENDS Integers

CONSTANTS
    Times,       \* instants the clock shows, [sec |-> .., nsec |-> ..]
    GyroValues,  \* gyroscope readings
    Num, Den,    \* coeffs_.cx and cy
    threshold,   \* channel -> moveThreshold_ or gestureThreshold_
    UseTrigger   \* channel -> useMoveTrigger_ or useGestureTrigger_

Channels == {"pointer", "gesture"}
NsPerMs == 1000000
NsPerSec == 1000000000
Timespec == [sec : Nat, nsec : 0 .. NsPerSec - 1]
Zero == [sec |-> 0, nsec |-> 0]

ASSUME MotionAssumption ==
    /\ Times \subseteq Timespec
    /\ GyroValues \subseteq Int
    /\ Num \in Int /\ Den \in Nat \ {0}
    /\ threshold \in [Channels -> Nat]
    /\ UseTrigger \in [Channels -> BOOLEAN]

VARIABLES
    now,       \* CLOCK_MONOTONIC_RAW
    lastTp,    \* channel -> lastGyroTp_ or lastGestureTp_
    trigger,   \* channel -> moveTrigger_ or gestureTrigger_
    lastCall,  \* history: when the channel was last called since reset(), or Zero
    call,      \* history: the channel and the reading of the last call, whether its
               \* trigger let it through, and the instant of the call before
    elapsed,   \* history: milliseconds that really passed before it, or -1
    timeDelta, \* the milliseconds it computed, or -1 if it computed nothing
    moved,     \* what it computed for the two axes
    gestures   \* the gesture bits it passed to onButtons()

vars == <<now, lastTp, trigger, lastCall, call, elapsed, timeDelta, moved, gestures>>

-----------------------------------------------------------------------------
(* Mut... is a faulty variant of the operator it precedes, to confirm that   *)
(* the properties can fail.                                                  *)

\* C division, towards zero.
TruncDiv(a, b) == IF a >= 0 THEN a \div b ELSE -((-a) \div b)

MutDeltaMs(from, to) == TruncDiv(to.nsec - from.nsec, NsPerMs)
\* timeDelta of lines 90 to 94 and 140 to 144: the difference of the nanoseconds, in
\* milliseconds, moved up by a second when negative.
DeltaMs(from, to) ==
    LET d == TruncDiv(to.nsec - from.nsec, NsPerMs)
    IN  IF d < 0 THEN d + 1000 ELSE d

\* The milliseconds that really passed, for reference.
ElapsedMs(from, to) ==
    (to.sec - from.sec) * 1000 + (to.nsec - from.nsec) \div NsPerMs

Later(a, b) == a.sec < b.sec \/ (a.sec = b.sec /\ a.nsec < b.nsec)

MutHalfDeadZone(d, least) == IF 0 < d /\ d < least THEN 0 ELSE d
MutDeadZone(d, least) == IF d < least THEN 0 ELSE d
\* The movement below the threshold is no movement.
DeadZone(d, least) == IF -least < d /\ d < least THEN 0 ELSE d

Movement(g, delta, least) == DeadZone(TruncDiv(g * delta * Num, Den), least)

\* There is a previous measurement, as the code sees it.
Measured(tp) == tp.sec # 0 /\ tp.nsec # 0

MutSharedStamp(c, tp) == [ch \in Channels |-> tp]
\* lastGyroTp_ = gyroTp in onGyroscope(), lastGestureTp_ = gestureTp in onGesture()
Stamp(c, tp) == [lastTp EXCEPT ![c] = tp]

\* Lines 161 to 181: the bits of a movement <<dx, dy>>.
GestureButtons(d) ==
    (CASE d[1] > 0 -> {"RIGHT"} [] d[1] < 0 -> {"LEFT"} [] OTHER -> {})
    \union (CASE d[2] > 0 -> {"UP"} [] d[2] < 0 -> {"DOWN"} [] OTHER -> {})

-----------------------------------------------------------------------------
\* timeDelta is a number of milliseconds below a second; no gesture comes with the
\* opposite one.
TypeOK ==
    /\ now \in Times
    /\ lastTp \in [Channels -> Times \union {Zero}]
    /\ lastCall \in [Channels -> Times \union {Zero}]
    /\ trigger \in [Channels -> BOOLEAN]
    /\ call \in [channel : Channels, reading : GyroValues \X GyroValues,
                 armed : BOOLEAN, since : Times \union {Zero}]
    /\ elapsed \in Int /\ elapsed >= -1
    /\ timeDelta \in -1 .. 999
    /\ moved \in Int \X Int
    /\ gestures \subseteq {"LEFT", "RIGHT", "UP", "DOWN"}
    /\ ~({"LEFT", "RIGHT"} \subseteq gestures) /\ ~({"UP", "DOWN"} \subseteq gestures)

Init ==
    /\ now \in Times
    /\ lastTp = [c \in Channels |-> Zero] /\ lastCall = [c \in Channels |-> Zero]
    /\ trigger = [c \in Channels |-> FALSE]
    /\ call \in [channel : Channels, reading : GyroValues \X GyroValues,
                 armed : {FALSE}, since : {Zero}]
    /\ elapsed = -1
    /\ timeDelta = -1
    /\ moved = <<0, 0>>
    /\ gestures = {}

callVars == <<call, elapsed, timeDelta, moved, gestures>>

Tick == \E t \in Times :
    /\ Later(now, t)
    /\ now' = t
    /\ UNCHANGED <<lastTp, lastCall, trigger, callVars>>

\* reportKey() moves a trigger when its button is pressed or released.
Trigger(c) == /\ trigger' = [trigger EXCEPT ![c] = ~@]
              /\ UNCHANGED <<now, lastTp, lastCall, callVars>>

\* What onGyroscope() and onGesture() do before they use the movement.
Measure(c, gx, gy) ==
    LET armed == UseTrigger[c] => trigger[c]
    IN  /\ call' = [channel |-> c, reading |-> <<gx, gy>>, armed |-> armed,
                    since |-> lastCall[c]]
        /\ elapsed' = IF lastCall[c] = Zero THEN -1 ELSE ElapsedMs(lastCall[c], now)
        /\ IF Measured(lastTp[c]) /\ armed
             THEN /\ timeDelta' = DeltaMs(lastTp[c], now)
                  /\ moved' = <<Movement(gx, timeDelta', threshold[c]),
                                Movement(gy, timeDelta', threshold[c])>>
             ELSE timeDelta' = -1 /\ moved' = <<0, 0>>
        /\ lastTp' = Stamp(c, now)
        /\ lastCall' = [lastCall EXCEPT ![c] = now]
        /\ UNCHANGED <<now, trigger>>

\* The pointer moves by what was computed, if that is not <<0, 0>>.
OnGyroscope(gx, gy) == Measure("pointer", gx, gy) /\ gestures' = {}

\* The gestures are reported as buttons.
OnGesture(gx, gy) == Measure("gesture", gx, gy) /\ gestures' = GestureButtons(moved')

\* reset(): the next measurement is a first one again.
Reset == /\ lastTp' = [c \in Channels |-> Zero] /\ lastCall' = [c \in Channels |-> Zero]
         /\ trigger' = [c \in Channels |-> FALSE]
         /\ UNCHANGED <<now, callVars>>

Next == \/ Tick \/ Reset
        \/ \E c \in Channels : Trigger(c)
        \/ \E gx, gy \in GyroValues : OnGyroscope(gx, gy) \/ OnGesture(gx, gy)

Spec == Init /\ [][Next]_vars

-----------------------------------------------------------------------------
\* Measurements of the pointer, or of gestures, that are less than 999 ms apart are
\* timed to the millisecond although the code looks at the nanoseconds only, also
\* across a full second and with measurements of the other kind between them.  (A
\* longer interval loses its whole seconds.)
AccurateWithinASecond ==
    timeDelta # -1 /\ elapsed < 999 => timeDelta \in {elapsed, elapsed + 1}

\* The pointer moves, or a gesture is reported, in the direction of the rotation on
\* each axis and by at least the threshold, or not at all (lines 98 to 113 and 148
\* to 181).
MovesWithTheGyroscope ==
    LET least == threshold[call.channel]
        Turned(axis) == call.reading[axis] * Num
    IN  /\ \A axis \in 1 .. 2 : moved[axis] # 0 =>
              /\ moved[axis] >= least \/ moved[axis] <= -least
              /\ (moved[axis] > 0) <=> (Turned(axis) > 0)
        /\ "RIGHT" \in gestures => Turned(1) > 0
        /\ "LEFT" \in gestures => Turned(1) < 0
        /\ "UP" \in gestures => Turned(2) > 0
        /\ "DOWN" \in gestures => Turned(2) < 0

\* A fast enough rotation is not lost: it moves the pointer, or shows as a gesture,
\* in either direction by what it has turned, up to the millisecond that the timing
\* may be off.  The exceptions are the first measurement since reset(), an idle
\* trigger and a previous measurement at a full second or in the first one since
\* boot, which line 80 (132) takes for none.
RotationCounts ==
    \A axis \in 1 .. 2 :
        LET turned == IF call.reading[axis] >= 0 THEN call.reading[axis] * elapsed * Num
                                                 ELSE -(call.reading[axis] * elapsed * Num)
        IN  /\ call.since.sec # 0 /\ call.since.nsec # 0 /\ call.armed
            /\ elapsed < 999 /\ Num > 0
            /\ turned >= Den * (threshold[call.channel] + 1)
            => /\ moved[axis] # 0
               /\ call.channel = "gesture" =>
                     gestures \intersect (IF axis = 1 THEN {"LEFT", "RIGHT"}
                                                     ELSE {"UP", "DOWN"}) # {}
=============================================================================
