---------------------------- MODULE ControllerLoop --------------------------
(***************************************************************************)
(* The timing of a controller thread's loop (psmove_listener.cpp,           *)
(* ControllerThread::operator()()): how often it writes the LEDs and reports*)
(* gestures, both counted and not timed, and when it gives its controller   *)
(* up, timed in whole seconds.                                              *)
(*                                                                          *)
(* One ControllerThread object is connected and disconnected again and      *)
(* again; its poll counter outlives the connections.  PSMoveListener has    *)
(* the sharing of its other fields between threads, PSMoveHandler its       *)
(* buttons_; here the clock runs, which PSMoveListener only knows as        *)
(* "fresh" and "stale".                                                     *)
(***************************************************************************)
EXTENDS Integers

CONSTANTS
    MsPerSec,           \* milliseconds of a second
    pollTimeout, ledTimeout, gestureTimeout,  \* in milliseconds
    disconnectTimeout,  \* in seconds
    MaxTime             \* bound: when the clock stops

ASSUME LoopAssumption ==
    /\ MsPerSec \in Nat \ {0} /\ pollTimeout \in Nat \ {0}
    /\ ledTimeout \in Nat /\ gestureTimeout \in Nat /\ disconnectTimeout \in Nat
    /\ MaxTime \in Nat /\ MsPerSec <= MaxTime

VARIABLES
    id,           \* id_
    pc,           \* where the thread is in operator()(), "off" without one
    now,          \* CLOCK_MONOTONIC_RAW, in milliseconds
    lastTp,       \* the seconds of lastTp_
    pollCount,    \* pollCount_
    gestureCount, \* gestureCount
    ledAge,       \* history: time slept since the LEDs were last written
    updateAge,    \* history: ... since updateLeds() last did so for this connection, or Never
    gestureAge,   \* history: ... since the last gesture signal, or Never
    frames,       \* history: frames since the last sleep, none, one or several
    burst,        \* history: a poll since the last gesture signal found several
    lastFrame,    \* history: when this connection's last frame came, or Never
    quiet,        \* history: how long there was no frame at the last timeout test
    gaveUp        \* history: the thread has ended because of the timeout

Never == -1

clockVars == <<now, lastTp, lastFrame, quiet, gaveUp>>
ledVars == <<pollCount, ledAge, updateAge>>
gestureVars == <<gestureCount, gestureAge, frames, burst>>
vars == <<id, pc, clockVars, ledVars, gestureVars>>

\* The fields have values of their types, the counters in their ranges.
TypeOK ==
    /\ id \in {"FIRST", "SECOND"}
    /\ pc \in {"off", "top", "poll", "leds", "test", "sleep"}
    /\ now \in 0 .. MaxTime
    /\ lastTp \in Nat
    /\ pollCount \in 0 .. ledTimeout \div pollTimeout
    /\ gestureCount \in 0 .. gestureTimeout \div pollTimeout
    /\ ledAge \in Nat
    /\ updateAge \in Nat \union {Never} /\ gestureAge \in Nat \union {Never}
    /\ frames \in 0 .. 2 /\ burst \in BOOLEAN
    /\ lastFrame \in Nat \union {Never} /\ quiet \in Nat \union {Never}
    /\ gaveUp \in BOOLEAN

\* The computer has been up for a second: no frame has the time zero.
Init ==
    /\ id \in {"FIRST", "SECOND"}
    /\ pc = "off"
    /\ now = MsPerSec
    /\ lastTp = 0
    /\ pollCount = 0
    /\ gestureCount = 0
    /\ ledAge = 0
    /\ updateAge = Never /\ gestureAge = Never
    /\ frames = 0 /\ burst = FALSE
    /\ lastFrame = Never /\ quiet = Never
    /\ gaveUp = FALSE

-----------------------------------------------------------------------------
(* Mut... is a faulty variant of the operator it precedes, to confirm that   *)
(* the properties can fail.                                                  *)

MutLedsDue(n) == n >= ledTimeout \div pollTimeout
\* updateLeds(): pollCount_ > (ledTimeout_ / pollTimeout_)
LedsDue(n) == n > ledTimeout \div pollTimeout

MutLedPolls(n) == n
\* pollCount_++
LedPolls(n) == n + 1

MutGestureDue(n) == n >= gestureTimeout \div pollTimeout
\* gestureCount > (gestureTimeout_ / pollTimeout_)
GestureDue(n) == n > gestureTimeout \div pollTimeout

\* tv_sec of an instant.
Seconds(t) == t \div MsPerSec

MutTimedOut == lastTp # 0 /\ Seconds(now) - lastTp >= disconnectTimeout
\* There was data once, and it is older than the timeout in whole seconds.
TimedOut == lastTp # 0 /\ Seconds(now) - lastTp > disconnectTimeout

\* A time slept, since something that may never have happened.
Aged(age) == IF age = Never THEN Never ELSE age + pollTimeout

Step(from, to) == pc = from /\ pc' = to

-----------------------------------------------------------------------------
\* start() and the beginning of operator()(): setLeds(), and no gesture counted.
Connect ==
    /\ Step("off", "top")
    /\ gestureCount' = 0 /\ gestureAge' = Never
    /\ frames' = 0 /\ burst' = FALSE
    /\ ledAge' = 0 /\ updateAge' = Never
    /\ lastFrame' = Never /\ quiet' = Never /\ gaveUp' = FALSE
    /\ UNCHANGED <<id, now, lastTp, pollCount>>

\* The end of operator()(), for the fields of this module.
Leave(from, timeout) ==
    /\ Step(from, "off")
    /\ lastTp' = 0
    /\ gaveUp' = timeout
    /\ UNCHANGED <<id, now, lastFrame, ledVars, gestureVars>>

\* needToStop()
Stop == Leave("top", FALSE) /\ UNCHANGED quiet

Continue == /\ Step("top", "poll")
            /\ frames' = 0
            /\ UNCHANGED <<id, clockVars, ledVars, gestureCount, gestureAge, burst>>

\* A gesture signal is due after so many frames, for the second controller.
CountGesture ==
    LET due == GestureDue(gestureCount + 1)
        several == frames > 0
    IN  /\ gestureCount' = IF due THEN 0 ELSE gestureCount + 1
        /\ gestureAge' = IF due THEN 0 ELSE gestureAge
        /\ frames' = IF several THEN 2 ELSE 1
        /\ burst' = (~due /\ (burst \/ several))

\* psmove_poll() has a frame: its signals, and lastTp_ is now.
Frame ==
    /\ Step("poll", "poll")
    /\ IF id = "SECOND" THEN CountGesture ELSE UNCHANGED gestureVars
    /\ lastTp' = Seconds(now)
    /\ lastFrame' = now
    /\ UNCHANGED <<id, now, quiet, gaveUp, ledVars>>

\* psmove_poll() has no frame (left).
Drained == Step("poll", "leds") /\ UNCHANGED <<id, clockVars, ledVars, gestureVars>>

UpdateLeds ==
    /\ Step("leds", "test")
    /\ LET due == LedsDue(LedPolls(pollCount))
       IN  /\ pollCount' = IF due THEN 0 ELSE LedPolls(pollCount)
           /\ ledAge' = IF due THEN 0 ELSE ledAge
           /\ updateAge' = IF due THEN 0 ELSE updateAge
    /\ UNCHANGED <<id, clockVars, gestureVars>>

\* if ((tp.tv_sec - lastTp_.tv_sec) > disconnectTimeout_)
TimeoutTest ==
    /\ quiet' = IF lastFrame = Never THEN Never ELSE now - lastFrame
    /\ \/ TimedOut /\ Leave("test", TRUE)
       \/ /\ ~TimedOut /\ Step("test", "sleep")
          /\ UNCHANGED <<id, now, lastTp, lastFrame, gaveUp, ledVars, gestureVars>>

Sleep ==
    /\ Step("sleep", "top")
    /\ now + pollTimeout <= MaxTime
    /\ now' = now + pollTimeout
    /\ ledAge' = ledAge + pollTimeout
    /\ updateAge' = Aged(updateAge) /\ gestureAge' = Aged(gestureAge)
    /\ UNCHANGED <<id, lastTp, lastFrame, quiet, gaveUp, pollCount, gestureCount, frames, burst>>

\* Any step may take its time.
Delay == /\ now < MaxTime
         /\ now' = now + 1
         /\ UNCHANGED <<id, pc, lastTp, lastFrame, quiet, gaveUp, ledVars, gestureVars>>

\* The bound of the model: the clock does not reach the next poll.
ClockStops == pc = "sleep" /\ now + pollTimeout > MaxTime /\ UNCHANGED vars

Next == \/ Connect \/ Stop \/ Continue \/ Frame \/ Drained
        \/ UpdateLeds \/ TimeoutTest \/ Sleep \/ Delay \/ ClockStops

Spec == Init /\ [][Next]_vars

-----------------------------------------------------------------------------
\* While a controller is connected its LEDs are written before ledTimeout and one
\* more poll have been slept away, in its first period, too, in which pollCount_
\* still counts from an earlier connection (lines 453 to 463); and updateLeds()
\* lets ledTimeout pass from one write to the next within one connection.  (Across
\* a reconnection it need not: the iteration that ends in the timeout counts a
\* poll and does not sleep.)
LedsRefreshed == pc # "off" => ledAge <= ledTimeout + pollTimeout
LedsSpaced == [][pc = "leds" /\ ledAge' < ledAge /\ updateAge # Never
                    => updateAge > ledTimeout]_vars

\* Gestures are counted in frames (lines 382 to 386): gestureTimeout passes between
\* two gesture signals if every poll finds one frame at most.
GesturesSpaced == [][gestureAge' = 0 /\ gestureAge > 0 /\ ~burst /\ frames = 0
                        => gestureAge > gestureTimeout]_vars

\* config/psmoveinput.conf, lines 31 and 32: a controller is given up only if no
\* frame came for disconnectTimeout seconds, and not a second later than that,
\* although line 407 compares whole seconds of two instants.
GivenUpInTime ==
    /\ gaveUp => quiet > disconnectTimeout * MsPerSec
    /\ pc = "sleep" => quiet < (disconnectTimeout + 1) * MsPerSec
=============================================================================
