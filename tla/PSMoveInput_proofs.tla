-------------------------- MODULE PSMoveInput_proofs ------------------------
(***************************************************************************)
(* What TLAPS proves of PSMoveInput, for any number of instances of which    *)
(* any may die at any time: what the PID file says of them.                  *)
(***************************************************************************)
EXTENDS PSMoveInput, TLAPS

\* A disjunction of the steps of one instance, to prove facts step by step.
StepOf(p) == \/ Start(p) \/ Run(p) \/ ListenerFails(p)
             \/ KilledBySignal(p) \/ SignalHandler(p) \/ Crash(p)

\* The fields keep their types.
THEOREM TypeCorrect == Spec => []TypeOK
<1>1. Init => TypeOK
  BY InputAssumption DEF Init, TypeOK, Points, Retvals
<1>2. TypeOK /\ [Next]_vars => TypeOK'
  <2> SUFFICES ASSUME TypeOK, [Next]_vars PROVE TypeOK'
    OBVIOUS
  <2> DEFINE FileTyped == pidfile \in Instances \union {NULL, NOPID} /\ opened \subseteq Instances
  <2> USE InputAssumption DEF TypeOK, Points, Starting, Holding, Retvals, fileVars
  <2>1. ASSUME NEW p \in Instances, NEW to \in Points \ {"new", "ended"}, NEW from \in Points,
               from # "ended", Step(p, from, to),
               FileTyped', stop' = stop, raced' \in BOOLEAN
        PROVE  TypeOK'
    BY <2>1 DEF Step
  <2>2. ASSUME NEW p \in Instances, NEW r \in Retvals \ {"none"}, Exit(p, r),
               FileTyped', raced' \in BOOLEAN
        PROVE  TypeOK'
    BY <2>2 DEF Exit
  <2>3. ASSUME NEW p \in Instances, StepOf(p) PROVE TypeOK'
    <3>1. CASE Start(p)
      BY <2>1, <3>1 DEF Start
    <3>2. CASE ProcessConfig(p)
      BY <2>1, <2>2, <3>2 DEF ProcessConfig
    <3>3. CASE CheckPidFile(p)
      BY <2>1, <2>2, <3>3 DEF CheckPidFile
    <3>4. CASE Daemonize(p)
      BY <2>1, <2>2, <3>4 DEF Daemonize
    <3>5. CASE CreatePidFile(p)
      BY <2>1, <2>2, <3>5 DEF CreatePidFile
    <3>11. CASE WritePidFile(p)
      BY <2>1, <3>11 DEF WritePidFile, Written
    <3>6. CASE SetupSignals(p) \/ StartListener(p) \/ RunReturns(p) \/ ListenerFails(p)
      BY <2>1, <3>6 DEF SetupSignals, StartListener, RunReturns, ListenerFails
    <3>7. CASE InitDevice(p)
      BY <2>1, <3>7 DEF InitDevice
    <3>8. CASE RemovePidFile(p)
      BY <2>2, <3>8 DEF RemovePidFile, Unlink
    <3>9. CASE KilledBySignal(p) \/ Crash(p)
      BY <2>2, <3>9 DEF KilledBySignal, Crash
    <3>10. CASE SignalHandler(p)
      BY <3>10 DEF SignalHandler
    <3> QED
      BY <2>3, <3>1, <3>2, <3>3, <3>4, <3>5, <3>6, <3>7, <3>8, <3>9, <3>10, <3>11
      DEF StepOf, Run
  <2>4. CASE UNCHANGED vars
    BY <2>4 DEF vars
  <2> QED
    BY <2>3, <2>4 DEF Next, StepOf, Finished
<1> QED
  BY <1>1, <1>2, PTL DEF Spec

-----------------------------------------------------------------------------
\* While starts do not overlap: the instance that is starting is alone with a
\* missing file, which is why it may write its own.
StartsAlone ==
    ~raced => /\ \A p, q \in Instances : pc[p] \in Starting /\ pc[q] \in Starting => p = q
              /\ \A p \in Instances : pc[p] \in Starting => pidfile = NULL /\ opened = {}

\* A file that does not exist is nobody's.
NoFile == pidfile = NULL => opened = {}

PidInv == TypeOK /\ NoFile /\ PidFileNamesAnInstance /\ StartsAlone /\ OneInstance

LEMMA PidStep == ASSUME PidInv, TypeOK', [Next]_vars PROVE PidInv'
<1> USE InputAssumption DEF TypeOK, NoFile, PidFileNamesAnInstance, StartsAlone, OneInstance,
                            Starting, Holding, fileVars
<1>1. ASSUME NEW p \in Instances, StepOf(p) PROVE PidInv'
  <2>1. CASE Start(p)
    BY <2>1 DEF PidInv, Start, Step
  <2>2. CASE ProcessConfig(p)
    BY <2>2 DEF PidInv, ProcessConfig, Step, Exit
  <2>3. CASE CheckPidFile(p)
    BY <2>3 DEF PidInv, CheckPidFile, Refused, Step, Exit
  <2>4. CASE Daemonize(p)
    BY <2>4 DEF PidInv, Daemonize, Step, Exit
  <2>5. CASE CreatePidFile(p)
    <3>1. CASE Step(p, "create", "write") /\ pidfile' = NOPID /\ opened' = opened \union {p}
      <4>1. /\ pc[p] = "create" /\ pc' = [pc EXCEPT ![p] = "write"]
            /\ UNCHANGED <<retval, raced>>
        BY <2>5, <3>1 DEF CreatePidFile, Step
      <4>2. PidFileNamesAnInstance' /\ NoFile'
        BY <3>1, <4>1 DEF PidInv
      <4>3. StartsAlone' /\ OneInstance'
        BY <3>1, <4>1 DEF PidInv
      <4> QED
        BY <4>2, <4>3 DEF PidInv
    <3>2. CASE Exit(p, "PID") /\ UNCHANGED fileVars
      BY <2>5, <3>2 DEF PidInv, CreatePidFile, Step, Exit
    <3> QED
      BY <2>5, <3>1, <3>2 DEF CreatePidFile
  <2>11. CASE WritePidFile(p)
    <3>1. /\ pc[p] = "write" /\ pc' = [pc EXCEPT ![p] = "signals"]
          /\ UNCHANGED <<retval, raced, opened>> /\ pidfile' \in Written(p)
      BY <2>11 DEF WritePidFile, Step
    <3>2. \A q \in Instances : pc'[q] \in Holding <=> pc[q] \in Holding
      BY <3>1 DEF PidInv
    <3>3. /\ pidfile' = NULL <=> pidfile = NULL
          /\ pidfile' \in {pidfile, NOPID} \/ (pidfile' = p /\ p \in opened)
      BY <3>1 DEF Written, PidInv
    <3>4. PidFileNamesAnInstance' /\ NoFile'
      BY <3>1, <3>2, <3>3 DEF PidInv
    <3>5. StartsAlone' /\ OneInstance'
      BY <3>1, <3>2, <3>3 DEF PidInv
    <3> QED
      BY <3>4, <3>5 DEF PidInv
  <2>6. CASE SetupSignals(p) \/ StartListener(p) \/ RunReturns(p) \/ ListenerFails(p)
    BY <2>6 DEF PidInv, SetupSignals, StartListener, RunReturns, ListenerFails, Step
  <2>7. CASE InitDevice(p)
    BY <2>7 DEF PidInv, InitDevice, Step
  <2>8. CASE RemovePidFile(p)
    BY <2>8 DEF PidInv, RemovePidFile, Unlink, Exit
  <2>9. CASE KilledBySignal(p) \/ Crash(p)
    BY <2>9 DEF PidInv, KilledBySignal, Crash, Exit, Alive
  <2>10. CASE SignalHandler(p)
    BY <2>10 DEF PidInv, SignalHandler
  <2> QED
    BY <1>1, <2>1, <2>2, <2>3, <2>4, <2>5, <2>6, <2>7, <2>8, <2>9, <2>10, <2>11 DEF StepOf, Run
<1>2. CASE UNCHANGED vars
  BY <1>2 DEF PidInv, vars
<1> QED
  BY <1>1, <1>2 DEF Next, StepOf, Finished

\* The three invariants of the PID file together, which is what is inductive.
THEOREM PidInvariant == Spec => []PidInv
<1>1. Init => PidInv
  BY InputAssumption DEF Init, PidInv, TypeOK, NoFile, PidFileNamesAnInstance, StartsAlone,
     OneInstance, Starting, Holding, Points, Retvals
<1> QED
  BY <1>1, TypeCorrect, PidStep, PTL DEF Spec

\* An instance that ends by itself leaves no PID file of its own behind.
THEOREM PidFileHolds == Spec => []PidFileNamesAnInstance
<1>1. PidInv => PidFileNamesAnInstance
  BY DEF PidInv
<1> QED
  BY <1>1, PidInvariant, PTL

\* Without overlapping starts there is one instance at most, and the file is its own.
THEOREM OneInstanceHolds == Spec => []OneInstance
<1>1. PidInv => OneInstance
  BY DEF PidInv
<1> QED
  BY <1>1, PidInvariant, PTL
=============================================================================
