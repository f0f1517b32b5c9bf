------------------------ MODULE PointerMotion_proofs ------------------------
(***************************************************************************)
(* What TLAPS proves of PointerMotion, for every instant, reading,           *)
(* coefficient and threshold: the types, with the range of timeDelta; its    *)
(* accuracy for measurements that are less than 999 ms apart; that movement  *)
(* and gestures have the direction of the rotation; and that no fast enough  *)
(* rotation is lost.                                                         *)
(***************************************************************************)
EXTENDS PointerMotion, TLAPS

\* A number of nanoseconds below a second, in milliseconds.
LEMMA MsBelowASecond ==
  ASSUME NEW d \in Int, 0 <= d, d < NsPerSec
  PROVE  d \div NsPerMs \in 0 .. 999
  BY SMT DEF NsPerMs, NsPerSec

\* Floor and truncation of a negative number differ by at most one.
LEMMA NegativeDiv ==
  ASSUME NEW d \in Int, d < 0, -NsPerSec < d
  PROVE  /\ d \div NsPerMs \in Int
         /\ d \div NsPerMs >= -1000 /\ d \div NsPerMs <= -1
         /\ \/ d \div NsPerMs = -((-d) \div NsPerMs)
            \/ d \div NsPerMs = -((-d) \div NsPerMs) - 1
  BY SMT DEF NsPerMs, NsPerSec

\* The nanoseconds of two instants differ by less than a second.
LEMMA NsecDifference ==
  ASSUME NEW from \in Timespec, NEW to \in Timespec
  PROVE  /\ to.nsec - from.nsec \in Int
         /\ to.nsec - from.nsec < NsPerSec
         /\ -NsPerSec < to.nsec - from.nsec
<1>1. from.nsec \in 0 .. NsPerSec - 1 /\ to.nsec \in 0 .. NsPerSec - 1
  BY DEF Timespec
<1>2. NsPerSec \in Int
  BY SMT DEF NsPerSec
<1> QED
  BY <1>1, <1>2

\* Lines 90 to 94 yield a number of milliseconds below a second.
LEMMA DeltaRange ==
  ASSUME NEW from \in Timespec, NEW to \in Timespec
  PROVE  DeltaMs(from, to) \in 0 .. 999
<1> DEFINE d == to.nsec - from.nsec
<1> HIDE DEF d
<1>1. d \in Int /\ d < NsPerSec /\ -NsPerSec < d /\ NsPerSec \in Int
  BY NsecDifference DEF d, NsPerSec
<1>2. CASE d >= 0
  <2>1. d \div NsPerMs \in 0 .. 999
    BY <1>1, <1>2, MsBelowASecond
  <2>2. DeltaMs(from, to) = d \div NsPerMs
    BY <1>2, <2>1 DEF DeltaMs, TruncDiv, d
  <2> QED
    BY <2>1, <2>2
<1>3. CASE d < 0
  <2>1. -d \in Int /\ 0 <= -d /\ -d < NsPerSec
    BY <1>1, <1>3
  <2>2. (-d) \div NsPerMs \in 0 .. 999
    BY <2>1, MsBelowASecond
  <2>3. TruncDiv(d, NsPerMs) = -((-d) \div NsPerMs)
    BY <1>1, <1>3 DEF TruncDiv
  <2> QED
    BY <2>2, <2>3 DEF DeltaMs, d
<1> QED
  BY <1>1, <1>2, <1>3

\* Within a second the nanoseconds tell the elapsed time, to a millisecond.
LEMMA DeltaClose ==
  ASSUME NEW from \in Timespec, NEW to \in Timespec,
         ~Later(to, from), ElapsedMs(from, to) < 999
  PROVE  DeltaMs(from, to) \in {ElapsedMs(from, to), ElapsedMs(from, to) + 1}
<1> DEFINE d == to.nsec - from.nsec
           s == to.sec - from.sec
           q == d \div NsPerMs
<1>1. d \in Int /\ d < NsPerSec /\ -NsPerSec < d /\ NsPerSec \in Int
  BY NsecDifference DEF NsPerSec
<1>2. s \in Int /\ s >= 0 /\ (s = 0 => d >= 0)
  <2>1. to.sec \in Int /\ from.sec \in Int /\ to.nsec \in Int /\ from.nsec \in Int
    BY SMT DEF Timespec
  <2> QED
    BY <2>1 DEF Later
<1>3. ElapsedMs(from, to) = s * 1000 + q
  BY DEF ElapsedMs
<1> HIDE DEF d, s
<1>4. CASE d >= 0
  <2>1. q \in 0 .. 999
    BY <1>1, <1>4, MsBelowASecond
  <2>2. s = 0
    BY <1>2, <1>3, <2>1
  <2>3. DeltaMs(from, to) = q
    BY <1>4, <2>1 DEF DeltaMs, TruncDiv, d
  <2> QED
    BY <1>3, <2>1, <2>2, <2>3
<1>5. CASE d < 0
  <2> DEFINE r == (-d) \div NsPerMs
  <2>1. /\ q \in Int /\ q >= -1000 /\ q <= -1
        /\ q = -r \/ q = -r - 1
    BY <1>1, <1>5, NegativeDiv
  <2>2. -d \in Int /\ 0 <= -d /\ -d < NsPerSec
    BY <1>1, <1>5
  <2>3. r \in 0 .. 999
    BY <2>2, MsBelowASecond
  <2>4. DeltaMs(from, to) = IF -r < 0 THEN -r + 1000 ELSE -r
    BY <1>1, <1>5 DEF DeltaMs, TruncDiv, d
  <2> HIDE DEF q, r
  <2>5. s = 1
    <3>1. s # 0
      BY <1>1, <1>2, <1>5
    <3>2. s * 1000 + q < 999
      BY <1>3
    <3> QED
      BY <1>2, <2>1, <3>1, <3>2
  <2>6. r # 0
    BY <1>3, <2>1, <2>5
  <2> QED
    BY <1>3, <2>1, <2>3, <2>4, <2>5, <2>6
<1> QED
  BY <1>1, <1>4, <1>5

-----------------------------------------------------------------------------
\* The division of C is a number of the sign of its dividend, or zero.
LEMMA FloorDiv ==
  ASSUME NEW a \in Nat, NEW b \in Nat \ {0}
  PROVE  a \div b \in Nat
  BY SMT

LEMMA TruncDivSign ==
  ASSUME NEW a \in Int, NEW b \in Nat \ {0}
  PROVE  /\ TruncDiv(a, b) \in Int
         /\ TruncDiv(a, b) > 0 => a > 0
         /\ TruncDiv(a, b) < 0 => a < 0
<1>1. CASE a > 0
  BY <1>1, FloorDiv, a \in Nat DEF TruncDiv
<1>2. CASE a = 0
  <2>1. a \div b = 0
    BY <1>2, SMT
  <2> QED
    BY <1>2, <2>1 DEF TruncDiv
<1>3. CASE a < 0
  <2>1. -a \in Nat
    BY <1>3
  <2>2. (-a) \div b \in Nat
    BY <2>1, FloorDiv
  <2> QED
    BY <1>3, <2>2 DEF TruncDiv
<1> QED
  BY <1>1, <1>2, <1>3

\* A quotient is at least what the dividend contains of the divisor.
LEMMA QuotientAtLeast ==
  ASSUME NEW a \in Int, NEW b \in Nat \ {0}, NEW k \in Nat, a >= b * k
  PROVE  TruncDiv(a, b) \in Int /\ TruncDiv(a, b) >= k
  BY SMT DEF TruncDiv

LEMMA NegativeQuotientAtMost ==
  ASSUME NEW a \in Int, NEW b \in Nat \ {0}, NEW k \in Nat \ {0}, -a >= b * k
  PROVE  TruncDiv(a, b) \in Int /\ TruncDiv(a, b) <= -k
  BY SMT DEF TruncDiv

\* A product with a number of milliseconds has the sign of the other factor.
LEMMA ProductSign ==
  ASSUME NEW g \in Int, NEW delta \in Nat, NEW n \in Int
  PROVE  /\ g * delta * n \in Int /\ g * n \in Int
         /\ g * delta * n > 0 => g * n > 0
         /\ g * delta * n < 0 => g * n < 0
  BY SMT

\* A movement on an axis: zero, or at least the threshold in the direction of the
\* rotation.
LEMMA MovementSign ==
  ASSUME NEW g \in Int, NEW delta \in Nat, NEW least \in Nat
  PROVE  LET m == Movement(g, delta, least) IN
         /\ m \in Int
         /\ m # 0 => m >= least \/ m <= -least
         /\ m > 0 => g * Num > 0
         /\ m < 0 => g * Num < 0
<1> DEFINE a == g * delta * Num
           d == TruncDiv(a, Den)
<1>1. Num \in Int /\ Den \in Nat \ {0}
  BY MotionAssumption
<1>2. /\ a \in Int
      /\ a > 0 => g * Num > 0
      /\ a < 0 => g * Num < 0
  BY <1>1, ProductSign
<1> HIDE DEF a
<1>3. /\ d \in Int
      /\ d > 0 => a > 0
      /\ d < 0 => a < 0
  BY <1>1, <1>2, TruncDivSign
<1>4. Movement(g, delta, least) = IF -least < d /\ d < least THEN 0 ELSE d
  BY DEF Movement, DeadZone, a
<1> HIDE DEF d
<1> QED
  BY <1>2, <1>3, <1>4

\* A movement of more than the threshold is none of the dead zone.
LEMMA MovementCounts ==
  ASSUME NEW g \in Int, NEW delta \in Nat, NEW least \in Nat,
         \/ g * delta * Num >= Den * (least + 1)
         \/ -(g * delta * Num) >= Den * (least + 1)
  PROVE  Movement(g, delta, least) # 0
<1> DEFINE a == g * delta * Num
           d == TruncDiv(a, Den)
<1>1. Num \in Int /\ Den \in Nat \ {0} /\ least + 1 \in Nat \ {0}
  BY MotionAssumption
<1>2. a \in Int
  BY <1>1, ProductSign
<1>3. d \in Int /\ (d >= least + 1 \/ d <= -(least + 1))
  <2>1. CASE a >= Den * (least + 1)
    <3> HIDE DEF a
    <3> QED
      BY <1>1, <1>2, <2>1, QuotientAtLeast
  <2>2. CASE -a >= Den * (least + 1)
    <3> HIDE DEF a
    <3> QED
      BY <1>1, <1>2, <2>2, NegativeQuotientAtMost
  <2> QED
    BY <2>1, <2>2
<1>4. Movement(g, delta, least) = IF -least < d /\ d < least THEN 0 ELSE d
  BY DEF Movement, DeadZone
<1> HIDE DEF d
<1> QED
  BY <1>3, <1>4

\* What turns by e milliseconds turns by no less in a millisecond more.
LEMMA MoreTimeMore ==
  ASSUME NEW g \in Int, NEW e \in Nat, NEW delta \in Nat, delta >= e,
         NEW n \in Nat
  PROVE  /\ g >= 0 => g * delta * n >= g * e * n
         /\ g < 0 => -(g * delta * n) >= -(g * e * n)
  BY SMT

-----------------------------------------------------------------------------
\* The clock does not run backwards past a channel's last measurement, which is the
\* one the code remembers.
Clocks == /\ lastCall = lastTp
          /\ \A c \in Channels : lastTp[c] # Zero => ~Later(now, lastTp[c])

\* Time that passes is not negative.
LEMMA ElapsedNat ==
  ASSUME NEW from \in Timespec, NEW to \in Timespec, ~Later(to, from)
  PROVE  ElapsedMs(from, to) \in Nat
<1> DEFINE d == to.nsec - from.nsec
           s == to.sec - from.sec
<1>1. d \in Int /\ d < NsPerSec /\ -NsPerSec < d
  BY NsecDifference
<1>2. s \in Int /\ s >= 0 /\ (s = 0 => d >= 0)
  <2>1. to.sec \in Int /\ from.sec \in Int /\ to.nsec \in Int /\ from.nsec \in Int
    BY SMT DEF Timespec
  <2> QED
    BY <2>1 DEF Later
<1>3. ElapsedMs(from, to) = s * 1000 + d \div NsPerMs
  BY DEF ElapsedMs
<1> HIDE DEF d, s
<1>4. CASE d >= 0
  <2>1. d \div NsPerMs \in 0 .. 999
    BY <1>1, <1>4, MsBelowASecond
  <2> QED
    BY <1>2, <1>3, <2>1
<1>5. CASE d < 0
  <2>1. d \div NsPerMs \in Int /\ d \div NsPerMs >= -1000
    BY <1>1, <1>5, NegativeDiv
  <2> QED
    BY <1>1, <1>2, <1>3, <1>5, <2>1
<1> QED
  BY <1>1, <1>4, <1>5

\* The movement of both axes, apart from what becomes of it.
MovedRight ==
  \A axis \in 1 .. 2 : moved[axis] # 0 =>
     /\ moved[axis] >= threshold[call.channel] \/ moved[axis] <= -threshold[call.channel]
     /\ moved[axis] > 0 => call.reading[axis] * Num > 0
     /\ moved[axis] < 0 => call.reading[axis] * Num < 0

NothingLost ==
  \A axis \in 1 .. 2 :
     LET turned == IF call.reading[axis] >= 0 THEN call.reading[axis] * elapsed * Num
                                              ELSE -(call.reading[axis] * elapsed * Num)
     IN  /\ call.since.sec # 0 /\ call.since.nsec # 0 /\ call.armed
         /\ elapsed < 999 /\ Num > 0
         /\ turned >= Den * (threshold[call.channel] + 1)
         => moved[axis] # 0

\* The types of the fields a measurement writes, but for the gestures.
Measurement ==
    /\ call \in [channel : Channels, reading : GyroValues \X GyroValues,
                 armed : BOOLEAN, since : Times \union {Zero}]
    /\ elapsed \in Int /\ elapsed >= -1
    /\ timeDelta \in -1 .. 999
    /\ moved \in Int \X Int

Stamps == /\ now \in Times
          /\ lastTp \in [Channels -> Times \union {Zero}]
          /\ lastCall \in [Channels -> Times \union {Zero}]

LEMMA ZeroIsATimespec == Zero \in Timespec
<1>1. NsPerSec - 1 \in Int /\ NsPerSec - 1 >= 0
  BY SMT DEF NsPerSec
<1>2. 0 \in Nat /\ 0 \in 0 .. (NsPerSec - 1)
  BY <1>1
<1> QED
  BY <1>2 DEF Zero, Timespec

LEMMA MeasureStep ==
  ASSUME Stamps, Clocks, NEW c \in Channels, NEW gx \in GyroValues, NEW gy \in GyroValues,
         Measure(c, gx, gy)
  PROVE  /\ Stamps' /\ Clocks' /\ Measurement'
         /\ AccurateWithinASecond' /\ MovedRight' /\ NothingLost'
<1>1. /\ gx \in Int /\ gy \in Int /\ threshold[c] \in Nat
      /\ now \in Timespec /\ lastTp[c] \in Timespec
      /\ UseTrigger[c] \in BOOLEAN
      /\ Num \in Int /\ Den \in Nat \ {0}
  BY MotionAssumption, ZeroIsATimespec DEF Stamps
<1>2. Stamps' /\ Clocks'
  <2>1. Stamps'
    BY DEF Stamps, Measure, Stamp
  <2>2. ~Later(now, now)
    BY <1>1 DEF Later, Timespec
  <2> QED
    BY <2>1, <2>2 DEF Stamps, Clocks, Measure, Stamp
<1>3. /\ call'.channel = c /\ call'.reading = <<gx, gy>>
      /\ call'.armed = (UseTrigger[c] => trigger[c])
      /\ call'.since = lastTp[c]
      /\ call' \in [channel : Channels, reading : GyroValues \X GyroValues,
                    armed : BOOLEAN, since : Times \union {Zero}]
  BY DEF Measure, Clocks, Stamps
<1>4. /\ elapsed' \in Int /\ elapsed' >= -1
      /\ lastTp[c] # Zero => elapsed' = ElapsedMs(lastTp[c], now) /\ elapsed' \in Nat
  <2>1. CASE lastTp[c] = Zero
    BY <2>1 DEF Measure, Clocks
  <2>2. CASE lastTp[c] # Zero
    BY <1>1, <2>2, ElapsedNat DEF Measure, Clocks
  <2> QED
    BY <2>1, <2>2
<1>5. CASE Measured(lastTp[c]) /\ (UseTrigger[c] => trigger[c])
  <2>1. lastTp[c] # Zero
    BY <1>5 DEF Measured, Zero
  <2>2. timeDelta' = DeltaMs(lastTp[c], now) /\ timeDelta' \in 0 .. 999
    BY <1>1, <1>5, DeltaRange DEF Measure
  <2>3. elapsed' < 999 => timeDelta' \in {elapsed', elapsed' + 1}
    BY <1>1, <1>4, <2>1, <2>2, DeltaClose DEF Clocks
  <2> DEFINE mx == Movement(gx, timeDelta', threshold[c])
             my == Movement(gy, timeDelta', threshold[c])
  <2>4. moved' = <<mx, my>>
    BY <1>5 DEF Measure
  <2>5. timeDelta' \in Nat
    BY <2>2
  <2>6. /\ mx \in Int /\ my \in Int
        /\ mx # 0 => mx >= threshold[c] \/ mx <= -threshold[c]
        /\ my # 0 => my >= threshold[c] \/ my <= -threshold[c]
        /\ (mx > 0 => gx * Num > 0) /\ (mx < 0 => gx * Num < 0)
        /\ (my > 0 => gy * Num > 0) /\ (my < 0 => gy * Num < 0)
    BY <1>1, <2>5, MovementSign
  <2>7. ASSUME NEW g \in Int, Num > 0, elapsed' < 999,
               (IF g >= 0 THEN g * elapsed' * Num ELSE -(g * elapsed' * Num))
                  >= Den * (threshold[c] + 1)
        PROVE  Movement(g, timeDelta', threshold[c]) # 0
    <3> HIDE DEF mx, my
    <3>0. Num > 0 /\ elapsed' < 999
      BY <2>7
    <3>1. elapsed' \in Nat /\ timeDelta' >= elapsed' /\ Num \in Nat
      <4>1. elapsed' \in Nat /\ Num \in Nat
        BY <1>1, <1>4, <2>1, <3>0
      <4>2. timeDelta' = elapsed' \/ timeDelta' = elapsed' + 1
        BY <2>3, <3>0
      <4> QED
        BY <4>1, <4>2
    <3>2. /\ g >= 0 => g * timeDelta' * Num >= g * elapsed' * Num
          /\ g < 0 => -(g * timeDelta' * Num) >= -(g * elapsed' * Num)
      BY <2>5, <3>1, MoreTimeMore
    <3>3. /\ g * timeDelta' * Num \in Int /\ g * elapsed' * Num \in Int
          /\ Den * (threshold[c] + 1) \in Int
      BY <1>1, <2>5, <3>1, SMT
    <3>4. \/ g * timeDelta' * Num >= Den * (threshold[c] + 1)
          \/ -(g * timeDelta' * Num) >= Den * (threshold[c] + 1)
      BY <2>7, <3>2, <3>3
    <3> QED
      BY <1>1, <2>5, <3>4, MovementCounts
  <2> HIDE DEF mx, my
  <2>8. Measurement'
    BY <1>3, <1>4, <2>2, <2>4, <2>6 DEF Measurement
  <2>9. MovedRight'
    BY <1>3, <2>4, <2>6 DEF MovedRight
  <2>10. NothingLost'
    BY <1>1, <1>3, <2>4, <2>7 DEF NothingLost, mx, my
  <2> QED
    BY <1>2, <2>3, <2>8, <2>9, <2>10 DEF AccurateWithinASecond
<1>6. CASE ~(Measured(lastTp[c]) /\ (UseTrigger[c] => trigger[c]))
  <2>1. timeDelta' = -1 /\ moved' = <<0, 0>>
    BY <1>6 DEF Measure
  <2>2. Measurement'
    BY <1>3, <1>4, <2>1 DEF Measurement
  <2>3. ~(call'.since.sec # 0 /\ call'.since.nsec # 0 /\ call'.armed)
    BY <1>3, <1>6 DEF Measured
  <2> QED
    BY <1>2, <2>1, <2>2, <2>3 DEF AccurateWithinASecond, MovedRight, NothingLost
<1> QED
  BY <1>5, <1>6

\* Which gestures a movement gives: at most one to each side, and one at all if the
\* movement is not zero.
LEMMA GestureBitsOf ==
  ASSUME NEW dx \in Int, NEW dy \in Int
  PROVE  LET b == GestureButtons(<<dx, dy>>) IN
         /\ b \subseteq {"LEFT", "RIGHT", "UP", "DOWN"}
         /\ ("RIGHT" \in b <=> dx > 0) /\ ("LEFT" \in b <=> dx < 0)
         /\ ("UP" \in b <=> dy > 0) /\ ("DOWN" \in b <=> dy < 0)
<1>1. dx > 0 \/ dx < 0 \/ dx = 0
  OBVIOUS
<1>2. dy > 0 \/ dy < 0 \/ dy = 0
  OBVIOUS
<1>3. <<dx, dy>>[1] = dx /\ <<dx, dy>>[2] = dy
  OBVIOUS
<1> QED
  BY <1>1, <1>2, <1>3 DEF GestureButtons

\* The gestures reported are those of the movement, or there are none.
Shown == gestures = {} \/ gestures = GestureButtons(moved)
ShownIfGesture == call.channel = "gesture" => gestures = GestureButtons(moved)

MInv == /\ Stamps /\ Clocks /\ Measurement
        /\ trigger \in [Channels -> BOOLEAN]
        /\ AccurateWithinASecond /\ MovedRight /\ NothingLost
        /\ Shown /\ ShownIfGesture

\* A measurement gives the invariant, whatever becomes of it.
LEMMA MeasureKeeps ==
  ASSUME MInv, NEW c \in Channels, NEW gx \in GyroValues, NEW gy \in GyroValues,
         Measure(c, gx, gy), Shown', ShownIfGesture'
  PROVE  MInv'
<1>1. Stamps' /\ Clocks' /\ Measurement' /\ AccurateWithinASecond' /\ MovedRight' /\ NothingLost'
  BY MeasureStep DEF MInv
<1>2. trigger' = trigger
  BY DEF Measure
<1> QED
  BY <1>1, <1>2 DEF MInv

LEMMA MInvHolds == Spec => []MInv
<1>1. Init => MInv
  <2> SUFFICES ASSUME Init PROVE MInv
    OBVIOUS
  <2>1. Stamps /\ Clocks /\ trigger \in [Channels -> BOOLEAN] /\ AccurateWithinASecond
    BY DEF Init, Stamps, Clocks, AccurateWithinASecond
  <2>2. Measurement
    <3>1. call \in [channel : Channels, reading : GyroValues \X GyroValues,
                   armed : BOOLEAN, since : Times \union {Zero}]
      BY DEF Init
    <3>2. elapsed \in Int /\ elapsed >= -1 /\ timeDelta \in -1 .. 999
      BY DEF Init
    <3>3. moved \in Int \X Int
      BY DEF Init
    <3> QED
      BY <3>1, <3>2, <3>3 DEF Measurement
  <2>3. MovedRight /\ NothingLost
    <3>1. moved = <<0, 0>> /\ call.since = Zero
      BY DEF Init
    <3>2. call.since.sec = 0
      BY <3>1 DEF Zero
    <3> QED
      BY <3>1, <3>2 DEF MovedRight, NothingLost
  <2>4. Shown /\ ShownIfGesture
    <3>1. gestures = {} /\ moved = <<0, 0>>
      BY DEF Init
    <3>2. GestureButtons(<<0, 0>>) = {}
      BY GestureBitsOf, 0 \in Int
    <3> QED
      BY <3>1, <3>2 DEF Shown, ShownIfGesture
  <2> QED
    BY <2>1, <2>2, <2>3, <2>4 DEF MInv
<1>2. MInv /\ [Next]_vars => MInv'
  <2> SUFFICES ASSUME MInv, [Next]_vars PROVE MInv'
    OBVIOUS
  <2> USE DEF callVars
  <2>1. ASSUME NEW t \in Times, Later(now, t), now' = t,
               UNCHANGED <<lastTp, lastCall, trigger, callVars>>
        PROVE  MInv'
    <3>1. Clocks'
      <4>1. ASSUME NEW c \in Channels, lastTp[c] # Zero PROVE ~Later(t, lastTp[c])
        <5>1. lastTp[c] \in Timespec /\ t \in Timespec /\ now \in Timespec
          BY MotionAssumption, ZeroIsATimespec DEF MInv, Stamps
        <5>2. ~Later(now, lastTp[c])
          BY <4>1 DEF MInv, Clocks
        <5> QED
          BY <2>1, <5>1, <5>2 DEF Later, Timespec
      <4> QED
        BY <2>1, <4>1 DEF MInv, Clocks
    <3>2. Stamps'
      BY <2>1 DEF MInv, Stamps
    <3> QED
      BY <2>1, <3>1, <3>2 DEF MInv, Measurement, AccurateWithinASecond, MovedRight,
                              NothingLost, Shown, ShownIfGesture
  <2>2. ASSUME NEW c \in Channels, Trigger(c)
        PROVE  MInv'
    BY <2>2 DEF Trigger, MInv, Stamps, Clocks, Measurement, AccurateWithinASecond,
                MovedRight, NothingLost, Shown, ShownIfGesture
  <2>3. CASE Reset
    BY <2>3 DEF Reset, MInv, Stamps, Clocks, Measurement, AccurateWithinASecond,
                MovedRight, NothingLost, Shown, ShownIfGesture
  <2>4. ASSUME NEW gx \in GyroValues, NEW gy \in GyroValues, OnGyroscope(gx, gy)
        PROVE  MInv'
    <3>1. Measure("pointer", gx, gy) /\ "pointer" \in Channels
      BY <2>4 DEF OnGyroscope, Channels
    <3>2. Shown' /\ ShownIfGesture'
      BY <2>4 DEF OnGyroscope, Measure, Shown, ShownIfGesture
    <3> QED
      BY <3>1, <3>2, MeasureKeeps
  <2>5. ASSUME NEW gx \in GyroValues, NEW gy \in GyroValues, OnGesture(gx, gy)
        PROVE  MInv'
    <3>1. Measure("gesture", gx, gy) /\ "gesture" \in Channels
      BY <2>5 DEF OnGesture, Channels
    <3>2. Shown' /\ ShownIfGesture'
      BY <2>5 DEF OnGesture, Shown, ShownIfGesture
    <3> QED
      BY <3>1, <3>2, MeasureKeeps
  <2>6. CASE UNCHANGED vars
    BY <2>6 DEF vars, MInv, Stamps, Clocks, Measurement, AccurateWithinASecond,
                MovedRight, NothingLost, Shown, ShownIfGesture
  <2> QED
    BY <2>1, <2>2, <2>3, <2>4, <2>5, <2>6 DEF Next, Tick
<1> QED
  BY <1>1, <1>2, PTL DEF Spec

\* The types, among them the range of timeDelta and that no gesture comes with its
\* opposite.
THEOREM TypeCorrect == Spec => []TypeOK
<1>1. MInv => TypeOK
  <2> SUFFICES ASSUME MInv PROVE TypeOK
    OBVIOUS
  <2>1. PICK dx \in Int, dy \in Int : moved = <<dx, dy>>
    BY DEF MInv, Measurement
  <2>2. /\ gestures \subseteq {"LEFT", "RIGHT", "UP", "DOWN"}
        /\ ~({"LEFT", "RIGHT"} \subseteq gestures) /\ ~({"UP", "DOWN"} \subseteq gestures)
    <3>1. CASE gestures = {}
      BY <3>1
    <3>2. CASE gestures = GestureButtons(<<dx, dy>>)
      BY <3>2, GestureBitsOf
    <3> QED
      BY <2>1, <3>1, <3>2 DEF MInv, Shown
  <2> QED
    BY <2>2 DEF TypeOK, MInv, Stamps, Measurement
<1> QED
  BY <1>1, MInvHolds, PTL

\* Measurements less than 999 ms apart are timed to the millisecond.
THEOREM Accurate == Spec => []AccurateWithinASecond
<1>1. MInv => AccurateWithinASecond
  BY DEF MInv
<1> QED
  BY <1>1, MInvHolds, PTL

\* Movement and gestures have the direction of the rotation.
THEOREM RightDirection == Spec => []MovesWithTheGyroscope
<1>1. MInv => MovesWithTheGyroscope
  <2> SUFFICES ASSUME MInv PROVE MovesWithTheGyroscope
    OBVIOUS
  <2>1. PICK dx \in Int, dy \in Int : moved = <<dx, dy>>
    BY DEF MInv, Measurement
  <2>2. moved[1] = dx /\ moved[2] = dy
    BY <2>1
  <2>3. /\ "RIGHT" \in gestures => dx > 0
        /\ "LEFT" \in gestures => dx < 0
        /\ "UP" \in gestures => dy > 0
        /\ "DOWN" \in gestures => dy < 0
    BY <2>1, GestureBitsOf DEF MInv, Shown
  <2>4. \A axis \in 1 .. 2 : call.reading[axis] * Num \in Int
    <3>1. PICK gx \in Int, gy \in Int : call.reading = <<gx, gy>>
      <4>1. call.reading \in GyroValues \X GyroValues
        BY DEF MInv, Measurement
      <4>2. call.reading \in Int \X Int
        BY <4>1, MotionAssumption
      <4> QED
        BY <4>2
    <3>2. gx * Num \in Int /\ gy * Num \in Int
      BY MotionAssumption
    <3> QED
      BY <3>1, <3>2
  <2>5. \A axis \in 1 .. 2 : moved[axis] # 0 => moved[axis] > 0 \/ moved[axis] < 0
    BY <2>2
  <2>6. \A axis \in 1 .. 2 :
          /\ moved[axis] # 0 =>
                moved[axis] >= threshold[call.channel] \/ moved[axis] <= -threshold[call.channel]
          /\ moved[axis] > 0 => call.reading[axis] * Num > 0
          /\ moved[axis] < 0 => call.reading[axis] * Num < 0
    BY <2>2 DEF MInv, MovedRight
  <2> QED
    BY <2>2, <2>3, <2>4, <2>5, <2>6 DEF MovesWithTheGyroscope
<1> QED
  BY <1>1, MInvHolds, PTL

\* A fast enough rotation is not lost.
THEOREM NoRotationLost == Spec => []RotationCounts
<1>1. MInv => RotationCounts
  <2> SUFFICES ASSUME MInv PROVE RotationCounts
    OBVIOUS
  <2>1. PICK dx \in Int, dy \in Int : moved = <<dx, dy>>
    BY DEF MInv, Measurement
  <2>2. moved[1] = dx /\ moved[2] = dy
    BY <2>1
  <2>3. call.channel = "gesture" =>
          /\ dx # 0 => gestures \intersect {"LEFT", "RIGHT"} # {}
          /\ dy # 0 => gestures \intersect {"UP", "DOWN"} # {}
    <3>1. SUFFICES ASSUME call.channel = "gesture"
                   PROVE  /\ dx # 0 => gestures \intersect {"LEFT", "RIGHT"} # {}
                          /\ dy # 0 => gestures \intersect {"UP", "DOWN"} # {}
      OBVIOUS
    <3>2. gestures = GestureButtons(<<dx, dy>>)
      BY <2>1, <3>1 DEF MInv, ShownIfGesture
    <3>3. (dx # 0 => dx > 0 \/ dx < 0) /\ (dy # 0 => dy > 0 \/ dy < 0)
      OBVIOUS
    <3> QED
      BY <3>2, <3>3, GestureBitsOf
  <2>4. NothingLost
    BY DEF MInv
  <2> QED
    BY <2>2, <2>3, <2>4 DEF RotationCounts, NothingLost
<1> QED
  BY <1>1, MInvHolds, PTL
=============================================================================
