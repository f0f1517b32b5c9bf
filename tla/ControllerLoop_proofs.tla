------------------------ MODULE ControllerLoop_proofs -----------------------
(***************************************************************************)
(* The pacing of ControllerLoop for all periods.  A counter of polls is at  *)
(* most the quotient of two periods, and each poll it counts was slept; the *)
(* instants are turned into seconds once per frame and once per test.       *)
(***************************************************************************)
EXTENDS ControllerLoop, TLAPS

\* The time that n polls take.
Polls(n) == n * pollTimeout

LEMMA Quotient ==
    ASSUME NEW x \in Nat, NEW m \in Nat \ {0}
    PROVE  /\ x \div m \in Nat
           /\ (x \div m) * m <= x
           /\ x < (x \div m + 1) * m
  BY SMT

LEMMA Product ==
    ASSUME NEW a \in Nat, NEW b \in Nat, NEW m \in Nat, a <= b
    PROVE  a * m <= b * m
<1>1. (b - a) * m >= 0
  BY SMT
<1> QED BY <1>1, SMT

LEMMA PollsFacts ==
    /\ Polls(0) = 0
    /\ \A n \in Nat : /\ Polls(n) \in Nat /\ Polls(n + 1) \in Nat
                     /\ Polls(n + 1) = Polls(n) + pollTimeout
    /\ \A k, n \in Nat : k <= n => Polls(k) <= Polls(n)
<1>1. /\ Polls(0) = 0
      /\ \A n \in Nat : /\ Polls(n) \in Nat /\ Polls(n + 1) \in Nat
                       /\ Polls(n + 1) = Polls(n) + pollTimeout
  BY LoopAssumption, SMT DEF Polls
<1>2. \A k, n \in Nat : k <= n => Polls(k) <= Polls(n)
  BY LoopAssumption, Product DEF Polls
<1> QED BY <1>1, <1>2

\* A counter that may reach the quotient of a period covers the period.
LEMMA Periods ==
    ASSUME NEW period \in Nat
    PROVE  LET q == period \div pollTimeout
           IN  q \in Nat /\ Polls(q) <= period /\ period < Polls(q + 1)
  BY Quotient, LoopAssumption DEF Polls

\* Instants that are so many whole seconds apart are about that time apart.
LEMMA SecondsApart ==
    ASSUME NEW a \in Nat, NEW b \in Nat, NEW d \in Nat
    PROVE  /\ Seconds(a) \in Nat
           /\ a >= MsPerSec => Seconds(a) # 0
           /\ Seconds(b) - Seconds(a) > d => b - a > d * MsPerSec
           /\ ~(Seconds(b) - Seconds(a) > d) => b - a < (d + 1) * MsPerSec
<1> DEFINE qa == a \div MsPerSec
           qb == b \div MsPerSec
           M == MsPerSec
<1>1. /\ qa \in Nat /\ qa * M <= a /\ a < (qa + 1) * M
      /\ qb \in Nat /\ qb * M <= b /\ b < (qb + 1) * M
  BY Quotient, LoopAssumption
<1>2. Seconds(a) = qa /\ Seconds(b) = qb /\ M \in Nat \ {0}
  BY LoopAssumption DEF Seconds
<1> HIDE DEF qa, qb, M
<1>3. a >= M => qa # 0
  BY <1>1, <1>2, SMT
<1>4. ASSUME qb - qa > d PROVE b - a > d * M
  <2>1. (qa + 1 + d) * M <= qb * M
    BY <1>1, <1>2, <1>4, Product
  <2>2. (qa + 1 + d) * M = (qa + 1) * M + d * M
    BY <1>1, <1>2, SMT
  <2>3. (qa + 1) * M \in Nat /\ d * M \in Nat /\ qb * M \in Nat
    BY <1>1, <1>2, SMT
  <2> QED BY <1>1, <2>1, <2>2, <2>3, SMT
<1>5. ASSUME ~(qb - qa > d) PROVE b - a < (d + 1) * M
  <2>1. (qb + 1) * M <= (qa + d + 1) * M
    BY <1>1, <1>2, <1>5, Product
  <2>2. (qa + d + 1) * M = qa * M + (d + 1) * M
    BY <1>1, <1>2, SMT
  <2>3. (qb + 1) * M \in Nat /\ (d + 1) * M \in Nat /\ qa * M \in Nat
    BY <1>1, <1>2, SMT
  <2> QED BY <1>1, <2>1, <2>2, <2>3, SMT
<1> QED BY <1>1, <1>2, <1>3, <1>4, <1>5 DEF M

-----------------------------------------------------------------------------
\* A frame's second is remembered as long as the connection lasts.
Clock ==
    /\ now >= MsPerSec
    /\ pc = "off" => lastTp = 0
    /\ pc # "off" => /\ ~gaveUp
                     /\ lastFrame = Never => lastTp = 0
                     /\ lastFrame # Never => /\ lastFrame >= MsPerSec /\ lastFrame <= now
                                             /\ lastTp = Seconds(lastFrame)

\* The polls that were slept since updateLeds() last reset the counter.
Slept == IF pc \in {"test", "sleep"} THEN pollCount ELSE pollCount + 1

Leds == pc # "off" => /\ ledAge <= Polls(Slept)
                      /\ updateAge # Never => updateAge = Polls(Slept)

\* The polls that were slept since the last gesture signal.
Counted == IF pc = "top" \/ frames = 0 THEN gestureCount + 1 ELSE gestureCount

GesturePolls == pc # "off" /\ gestureAge # Never /\ ~burst => gestureAge >= Polls(Counted)

IInv == TypeOK /\ Clock /\ Leds /\ GesturePolls /\ GivenUpInTime

LEMMA Types == TypeOK => /\ now \in Nat /\ pollCount \in Nat /\ gestureCount \in Nat
                         /\ ledAge \in Nat /\ frames \in 0 .. 2
                         /\ updateAge \in Nat \union {Never} /\ gestureAge \in Nat \union {Never}
                         /\ Never \notin Nat /\ pollTimeout \in Nat \ {0}
  BY LoopAssumption, Quotient DEF TypeOK, Never

LEMMA InitIInv == Init => IInv
<1> SUFFICES ASSUME Init PROVE IInv
  OBVIOUS
<1> USE DEF Init
<1>1. 0 \in 0 .. ledTimeout \div pollTimeout /\ 0 \in 0 .. gestureTimeout \div pollTimeout
  BY LoopAssumption, Quotient, SMT
<1>2. MsPerSec \in 0 .. MaxTime
  BY LoopAssumption, SMT
<1>3. TypeOK
  <2>1. burst \in BOOLEAN /\ gaveUp \in BOOLEAN
    OBVIOUS
  <2>2. 0 \in Nat /\ 0 \in 0 .. 2
    BY SMT
  <2> QED BY <1>1, <1>2, <2>1, <2>2, Zenon DEF TypeOK
<1>4. Clock /\ Leds /\ GesturePolls
  BY LoopAssumption DEF Clock, Leds, GesturePolls
<1>5. GivenUpInTime
  BY DEF GivenUpInTime
<1> QED BY <1>3, <1>4, <1>5 DEF IInv

LEMMA ConnectStep == ASSUME IInv, Connect PROVE IInv'
<1> USE DEF IInv, Connect, Step
<1>1. 0 \in 0 .. gestureTimeout \div pollTimeout
  BY LoopAssumption, Quotient, SMT
<1>2. TypeOK'
  <2>1. burst' \in BOOLEAN /\ gaveUp' \in BOOLEAN
    OBVIOUS
  <2>2. 0 \in Nat /\ 0 \in 0 .. 2
    BY SMT
  <2> QED BY <1>1, <2>1, <2>2, Zenon DEF TypeOK
<1>3. Clock'
  BY DEF Clock
<1>4. Leds'
  BY PollsFacts, Types DEF Leds, Slept
<1>5. GesturePolls' /\ GivenUpInTime'
  BY DEF GesturePolls, GivenUpInTime
<1> QED BY <1>2, <1>3, <1>4, <1>5

LEMMA StopStep == ASSUME IInv, Stop PROVE IInv'
<1> USE DEF IInv, Stop, Leave, Step
<1>1. TypeOK'
  BY DEF TypeOK, ledVars, gestureVars
<1>2. Clock' /\ Leds' /\ GesturePolls' /\ GivenUpInTime'
  BY DEF Clock, Leds, GesturePolls, GivenUpInTime
<1> QED BY <1>1, <1>2

LEMMA ContinueStep == ASSUME IInv, Continue PROVE IInv'
<1> USE DEF IInv, Continue, Step, clockVars, ledVars
<1>1. TypeOK'
  BY DEF TypeOK
<1>2. Clock' /\ GivenUpInTime'
  BY DEF Clock, GivenUpInTime
<1>3. Leds'
  BY DEF Leds, Slept
<1>4. frames' = 0 /\ burst' = burst
  BY DEF TypeOK
<1>5. GesturePolls'
  BY <1>4 DEF GesturePolls, Counted
<1> QED BY <1>1, <1>2, <1>3, <1>5

LEMMA FrameStep == ASSUME IInv, Frame PROVE IInv'
<1> USE DEF IInv, Frame, Step, ledVars
<1> DEFINE q == gestureTimeout \div pollTimeout
<1>0. q \in Nat /\ gestureCount \in 0 .. q /\ gestureCount \in Nat
  BY LoopAssumption, Quotient DEF TypeOK
<1>1. ASSUME id = "SECOND"
      PROVE  /\ gestureCount' \in 0 .. q
             /\ gestureAge' \in Nat \union {Never}
             /\ frames' \in 0 .. 2 /\ burst' \in BOOLEAN
  BY <1>0, <1>1 DEF CountGesture, GestureDue, TypeOK, Never
<1>2. Seconds(now) \in Nat /\ now \in Nat
  BY Types, SecondsApart, LoopAssumption
<1>3. TypeOK'
  <2>1. CASE id = "SECOND"
    BY <1>1, <1>2, <2>1 DEF TypeOK
  <2>2. CASE id # "SECOND"
    BY <1>2, <2>2 DEF TypeOK, gestureVars
  <2> QED BY <2>1, <2>2
<1>4. Clock' /\ GivenUpInTime'
  <2>1. now # Never
    BY <1>2 DEF Never
  <2> QED BY <2>1, <1>2 DEF Clock, GivenUpInTime
<1>5. Leds'
  BY DEF Leds, Slept
<1>6. GesturePolls'
  <2>1. CASE id # "SECOND"
    BY <2>1 DEF GesturePolls, Counted, gestureVars
  <2>2. CASE id = "SECOND" /\ GestureDue(gestureCount + 1)
    <3>1. gestureCount' = 0 /\ gestureAge' = 0 /\ frames' # 0 /\ pc' = "poll"
      BY <2>2 DEF CountGesture
    <3>2. Polls(0) = 0
      BY PollsFacts
    <3> QED BY <3>1, <3>2 DEF GesturePolls, Counted
  <2>3. CASE id = "SECOND" /\ ~GestureDue(gestureCount + 1)
    <3>1. /\ gestureCount' = gestureCount + 1 /\ gestureAge' = gestureAge
          /\ frames' = IF frames > 0 THEN 2 ELSE 1
          /\ burst' = (burst \/ frames > 0)
      BY <2>3 DEF CountGesture
    <3>2. frames > 0 \/ frames = 0
      BY Types
    <3>3. frames' # 0
      BY <3>1
    <3>4. CASE burst \/ frames > 0
      <4>1. burst'
        BY <3>1, <3>4, Zenon
      <4> QED BY <4>1 DEF GesturePolls
    <3>5. CASE ~burst /\ frames = 0
      BY <3>1, <3>3, <3>5 DEF GesturePolls, Counted
    <3> QED BY <3>2, <3>4, <3>5
  <2> QED BY <2>1, <2>2, <2>3
<1> QED BY <1>3, <1>4, <1>5, <1>6

LEMMA DrainedStep == ASSUME IInv, Drained PROVE IInv'
<1> USE DEF IInv, Drained, Step, clockVars, ledVars, gestureVars
<1>1. TypeOK'
  BY DEF TypeOK
<1>2. Clock' /\ GivenUpInTime'
  BY DEF Clock, GivenUpInTime
<1>3. Leds' /\ GesturePolls'
  BY DEF Leds, Slept, GesturePolls, Counted
<1> QED BY <1>1, <1>2, <1>3

LEMMA UpdateLedsStep == ASSUME IInv, UpdateLeds PROVE IInv'
<1> USE DEF IInv, UpdateLeds, Step, clockVars, gestureVars, LedPolls, LedsDue
<1> DEFINE q == ledTimeout \div pollTimeout
<1>0. q \in Nat /\ pollCount \in 0 .. q
  BY LoopAssumption, Quotient DEF TypeOK
<1>1. /\ pollCount' \in 0 .. q
      /\ ledAge' \in Nat
      /\ updateAge' \in Nat \union {Never}
  BY <1>0, Types
<1>2. TypeOK'
  BY <1>1 DEF TypeOK
<1>3. Clock' /\ GivenUpInTime'
  BY DEF Clock, GivenUpInTime
<1>4. Leds'
  <2>1. Slept = pollCount + 1 /\ Slept' = pollCount'
    BY DEF Slept
  <2>2. Polls(pollCount + 1) \in Nat /\ Polls(0) = 0
    BY PollsFacts, Types
  <2>3. CASE pollCount' = 0
    BY <2>1, <2>2, <2>3, Types DEF Leds
  <2>4. CASE pollCount' = pollCount + 1
    BY <2>1, <2>4, Types DEF Leds
  <2> QED BY <2>3, <2>4
<1>5. GesturePolls'
  BY DEF GesturePolls, Counted
<1> QED BY <1>2, <1>3, <1>4, <1>5

LEMMA TimeoutStep == ASSUME IInv, TimeoutTest PROVE IInv'
<1> USE DEF IInv, TimeoutTest, Step, ledVars, gestureVars
<1>0. pc = "test"
  BY DEF Leave
<1>1. quiet' \in Nat \union {Never}
  <2>1. CASE lastFrame = Never
    BY <2>1
  <2>2. CASE lastFrame # Never
    <3>1. lastFrame \in Nat /\ now \in Nat /\ lastFrame <= now
      BY <1>0, <2>2, Types DEF TypeOK, Clock
    <3> QED BY <2>2, <3>1
  <2> QED BY <2>1, <2>2
<1>2. TypeOK'
  <2>1. lastTp' \in Nat /\ gaveUp' \in BOOLEAN /\ pc' \in {"off", "sleep"}
    <3>1. CASE Leave("test", TRUE)
      BY <3>1 DEF Leave
    <3>2. CASE pc' = "sleep" /\ UNCHANGED <<lastTp, gaveUp>>
      BY <3>2 DEF TypeOK
    <3> QED BY <3>1, <3>2
  <2>2. UNCHANGED <<id, now, lastFrame, pollCount, ledAge, updateAge, gestureCount, gestureAge,
                    frames, burst>>
    BY DEF Leave
  <2> QED BY <1>1, <2>1, <2>2 DEF TypeOK
<1>3. Clock'
  BY DEF Clock, Leave
<1>4. Leds' /\ GesturePolls'
  BY DEF Leds, Slept, GesturePolls, Counted, Leave
<1>5. GivenUpInTime'
  <2>1. CASE lastFrame = Never
    <3>1. ~TimedOut /\ quiet' = Never /\ ~gaveUp /\ ~gaveUp'
      BY <1>0, <2>1 DEF Clock, TimedOut
    <3>2. Never < (disconnectTimeout + 1) * MsPerSec
      BY LoopAssumption, SMT DEF Never
    <3> QED BY <3>1, <3>2 DEF GivenUpInTime
  <2>2. CASE lastFrame # Never
    <3>1. /\ lastFrame \in Nat /\ now \in Nat /\ lastTp = Seconds(lastFrame)
          /\ lastTp # 0 /\ quiet' = now - lastFrame /\ ~gaveUp
      <4>1. lastFrame \in Nat /\ now \in Nat
        BY <2>2, Types DEF TypeOK
      <4>2. /\ lastFrame >= MsPerSec /\ lastTp = Seconds(lastFrame) /\ ~gaveUp
            /\ quiet' = now - lastFrame
        BY <1>0, <2>2 DEF Clock
      <4>3. Seconds(lastFrame) # 0
        BY <4>1, <4>2, SecondsApart, LoopAssumption
      <4> QED BY <4>1, <4>2, <4>3
    <3>2. TimedOut => now - lastFrame > disconnectTimeout * MsPerSec
      BY <3>1, SecondsApart, LoopAssumption DEF TimedOut
    <3>3. ~TimedOut => now - lastFrame < (disconnectTimeout + 1) * MsPerSec
      BY <3>1, SecondsApart, LoopAssumption DEF TimedOut
    <3>4. CASE TimedOut
      BY <3>1, <3>2, <3>4 DEF GivenUpInTime, Leave
    <3>5. CASE ~TimedOut
      <4>1. ~gaveUp'
        BY <3>1, <3>5, Zenon
      <4> QED BY <3>1, <3>3, <3>5, <4>1 DEF GivenUpInTime
    <3> QED BY <3>4, <3>5
  <2> QED BY <2>1, <2>2
<1> QED BY <1>2, <1>3, <1>4, <1>5

LEMMA SleepStep == ASSUME IInv, Sleep PROVE IInv'
<1> USE DEF IInv, Sleep, Step
<1>1. now' \in 0 .. MaxTime /\ now' >= now
  BY Types, LoopAssumption
<1>2. ledAge' \in Nat /\ updateAge' \in Nat \union {Never} /\ gestureAge' \in Nat \union {Never}
  BY Types DEF Aged
<1>3. TypeOK'
  BY <1>1, <1>2 DEF TypeOK
<1>4. Clock' /\ GivenUpInTime'
  <2>1. lastFrame \in Nat \union {Never} /\ now \in Nat /\ MsPerSec \in Nat
    BY Types, LoopAssumption DEF TypeOK
  <2>2. lastFrame \in Nat /\ lastFrame <= now => lastFrame <= now'
    BY <1>1, <2>1
  <2> QED BY <1>1, <2>1, <2>2 DEF Clock, GivenUpInTime
<1>5. Leds'
  <2>1. Slept = pollCount /\ Slept' = pollCount + 1
    BY DEF Slept
  <2>2. Polls(Slept') = Polls(Slept) + pollTimeout /\ Polls(Slept) \in Nat
    BY <2>1, Types, PollsFacts
  <2> HIDE DEF Slept
  <2> QED BY <2>2, Types DEF Leds, Aged
<1>6. GesturePolls'
  <2>1. Counted \in {gestureCount, gestureCount + 1} /\ Counted' = gestureCount + 1
    BY DEF Counted
  <2>2. Polls(Counted') <= Polls(Counted) + pollTimeout /\ Polls(Counted) \in Nat
        /\ Polls(Counted') \in Nat
    <3>1. gestureCount \in Nat
      BY Types
    <3>2. /\ Polls(gestureCount) \in Nat /\ Polls(gestureCount + 1) \in Nat
          /\ Polls(gestureCount + 1) = Polls(gestureCount) + pollTimeout
      BY <3>1, PollsFacts
    <3>3. Polls(gestureCount + 1) <= Polls(gestureCount + 1) + pollTimeout
      BY <3>2, Types
    <3>4. CASE Counted = gestureCount
      BY <2>1, <3>2, <3>4, Types
    <3>5. CASE Counted = gestureCount + 1
      BY <2>1, <3>2, <3>3, <3>5
    <3> QED BY <2>1, <3>4, <3>5
  <2> HIDE DEF Counted
  <2> QED BY <2>2, Types DEF GesturePolls, Aged
<1> QED BY <1>3, <1>4, <1>5, <1>6

LEMMA DelayStep == ASSUME IInv, Delay PROVE IInv'
<1> USE DEF IInv, Delay, ledVars, gestureVars
<1>1. now' \in 0 .. MaxTime /\ now' >= now
  BY Types, LoopAssumption
<1>2. TypeOK'
  BY <1>1 DEF TypeOK
<1>3. Clock' /\ GivenUpInTime'
  <2>1. lastFrame \in Nat \union {Never} /\ now \in Nat /\ MsPerSec \in Nat
    BY Types, LoopAssumption DEF TypeOK
  <2>2. lastFrame \in Nat /\ lastFrame <= now => lastFrame <= now'
    BY <1>1, <2>1
  <2> QED BY <1>1, <2>1, <2>2 DEF Clock, GivenUpInTime
<1>4. Leds' /\ GesturePolls'
  BY DEF Leds, Slept, GesturePolls, Counted
<1> QED BY <1>2, <1>3, <1>4

LEMMA StutterStep == ASSUME IInv, UNCHANGED vars PROVE IInv'
<1> USE DEF IInv, vars, clockVars, ledVars, gestureVars
<1>1. TypeOK'
  BY DEF TypeOK
<1>2. Clock' /\ GivenUpInTime' /\ Leds' /\ GesturePolls'
  BY DEF Clock, GivenUpInTime, Leds, Slept, GesturePolls, Counted
<1> QED BY <1>1, <1>2

THEOREM Inductive == Spec => []IInv
<1>1. IInv /\ [Next]_vars => IInv'
  BY ConnectStep, StopStep, ContinueStep, FrameStep, DrainedStep, UpdateLedsStep,
     TimeoutStep, SleepStep, DelayStep, StutterStep DEF Next, ClockStops
<1> QED BY <1>1, InitIInv, PTL DEF Spec

\* The fields have values of their types, the counters in their ranges.
THEOREM TypeCorrect == Spec => []TypeOK
<1>1. IInv => TypeOK
  BY DEF IInv
<1> QED BY <1>1, Inductive, PTL

\* The LEDs of a connected controller are refreshed before its ledTimeout and one
\* more poll have been slept, for all periods.
THEOREM Refreshed == Spec => []LedsRefreshed
<1>1. IInv => LedsRefreshed
  <2> SUFFICES ASSUME IInv, pc # "off" PROVE ledAge <= ledTimeout + pollTimeout
    BY DEF LedsRefreshed
  <2> DEFINE q == ledTimeout \div pollTimeout
  <2>1. q \in Nat /\ Polls(q) <= ledTimeout
    BY Periods, LoopAssumption
  <2>2. pollCount \in 0 .. q
    BY DEF IInv, TypeOK
  <2> HIDE DEF q
  <2>3. Slept \in Nat /\ Slept <= q + 1
    BY <2>1, <2>2 DEF Slept
  <2>4. Polls(Slept) <= Polls(q) + pollTimeout /\ Polls(Slept) \in Nat /\ Polls(q) \in Nat
    BY <2>1, <2>3, PollsFacts
  <2> QED BY <2>1, <2>4, Types, LoopAssumption DEF IInv, Leds
<1> QED BY <1>1, Inductive, PTL

\* ledTimeout passes between two refreshes of one connection.
THEOREM Spaced == Spec => LedsSpaced
<1> DEFINE A == pc = "leds" /\ ledAge' < ledAge /\ updateAge # Never => updateAge > ledTimeout
<1>1. IInv /\ [Next]_vars => [A]_vars
  <2> SUFFICES ASSUME IInv, Next, pc = "leds", ledAge' < ledAge, updateAge # Never
               PROVE  updateAge > ledTimeout
    OBVIOUS
  <2>1. UpdateLeds
    <3>1. ~Connect /\ ~Stop /\ ~Continue /\ ~Frame /\ ~Drained /\ ~TimeoutTest /\ ~Sleep
      BY DEF Connect, Stop, Leave, Continue, Frame, Drained, TimeoutTest, Sleep, Step
    <3>2. ~Delay /\ ~ClockStops
      BY Types DEF IInv, Delay, ClockStops, ledVars
    <3> QED BY <3>1, <3>2 DEF Next
  <2> DEFINE q == ledTimeout \div pollTimeout
  <2>2. pollCount + 1 > q
    BY <2>1, Types DEF IInv, UpdateLeds, LedsDue, LedPolls
  <2>3. q \in Nat /\ ledTimeout < Polls(q + 1)
    BY Periods, LoopAssumption
  <2>4. updateAge = Polls(pollCount + 1)
    BY DEF IInv, Leds, Slept
  <2> HIDE DEF q
  <2>5. Polls(q + 1) <= Polls(pollCount + 1) /\ Polls(q + 1) \in Nat
    BY <2>2, <2>3, PollsFacts, Types DEF IInv
  <2>6. Polls(pollCount + 1) \in Nat
    <3>1. pollCount \in Nat
      BY Types DEF IInv
    <3> QED BY <3>1, PollsFacts
  <2> QED BY <2>3, <2>4, <2>5, <2>6, LoopAssumption
<1>2. []IInv /\ [][Next]_vars => [][A]_vars
  BY <1>1, PTL
<1> QED BY <1>2, Inductive, PTL DEF Spec, LedsSpaced

\* gestureTimeout passes between two gesture signals if no poll finds more than
\* one frame.
THEOREM GestureSpacing == Spec => GesturesSpaced
<1> DEFINE A == gestureAge' = 0 /\ gestureAge > 0 /\ ~burst /\ frames = 0
                    => gestureAge > gestureTimeout
<1>1. IInv /\ [Next]_vars => [A]_vars
  <2> SUFFICES ASSUME IInv, Next, gestureAge' = 0, gestureAge > 0, ~burst,
                      frames = 0
               PROVE  gestureAge > gestureTimeout
    OBVIOUS
  <2>1. Frame /\ id = "SECOND" /\ GestureDue(gestureCount + 1)
    <3>1. ~Connect /\ ~Stop /\ ~Continue /\ ~Drained /\ ~UpdateLeds /\ ~TimeoutTest
      BY Types DEF IInv, Connect, Stop, Leave, Continue, Drained, UpdateLeds, TimeoutTest, Never,
                   gestureVars
    <3>2. ~Delay /\ ~ClockStops /\ ~Sleep
      BY Types DEF IInv, Delay, ClockStops, Sleep, Aged, vars, gestureVars
    <3>3. Frame
      BY <3>1, <3>2 DEF Next
    <3> QED BY <3>3, Types DEF IInv, Frame, CountGesture, gestureVars
  <2> DEFINE q == gestureTimeout \div pollTimeout
  <2>2. gestureCount + 1 > q
    BY <2>1 DEF GestureDue
  <2>3. q \in Nat /\ gestureTimeout < Polls(q + 1)
    BY Periods, LoopAssumption
  <2>4. gestureAge >= Polls(gestureCount + 1)
    BY <2>1, Types DEF IInv, GesturePolls, Counted, Frame, Step, Never
  <2> HIDE DEF q
  <2>5. Polls(q + 1) <= Polls(gestureCount + 1) /\ Polls(q + 1) \in Nat
    BY <2>2, <2>3, PollsFacts, Types DEF IInv
  <2>6. Polls(gestureCount + 1) \in Nat /\ gestureAge \in Nat
    <3>1. gestureCount \in Nat
      BY Types DEF IInv
    <3>2. gestureAge # Never
      BY DEF Never
    <3>3. gestureAge \in Nat
      BY <3>2, Types DEF IInv
    <3> QED BY <3>1, <3>3, PollsFacts
  <2> QED BY <2>3, <2>4, <2>5, <2>6, LoopAssumption
<1>2. []IInv /\ [][Next]_vars => [][A]_vars
  BY <1>1, PTL
<1> QED BY <1>2, Inductive, PTL DEF Spec, GesturesSpaced

\* A controller is given up only after disconnectTimeout seconds without a frame,
\* and less than a second later, for all instants.
THEOREM InTime == Spec => []GivenUpInTime
<1>1. IInv => GivenUpInTime
  BY DEF IInv
<1> QED BY <1>1, Inductive, PTL
=============================================================================
