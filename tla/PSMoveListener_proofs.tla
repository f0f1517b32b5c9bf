----------------------- MODULE PSMoveListener_proofs ------------------------
(***************************************************************************)
(* What TLAPS proves of PSMoveListener, for any number of slots, threads    *)
(* and handles: its type invariant, the safety properties that TLC checks   *)
(* on two slots, and that it implements HandlerCallers.                     *)
(***************************************************************************)
EXTENDS PSMoveListener, TLAPS

\* The thread has not yet given its slot back (line 422).
Owning(t) == tpc[t] \in {"entry"} \union Looping \union Leaving

\* Such a thread is the one thread_ points to, unless the main thread has just
\* created it and is about to assign thread_.
Ownership ==
    \A t \in Threads : Owning(t) =>
        \/ thread[tslot[t]] = t
        \/ mpc = "assign" /\ mthread = t /\ mslot = tslot[t]

\* The slot that is being started is still free.
StartedSlotFree == mpc \in {"spawn", "assign"} => thread[mslot] = NULL

\* The thread start() has created, or the one join() waits for: nothing else
\* takes its place in the slot.
AssignedThread == mpc = "assign" => mthread \in Threads
AwaitedThread ==
    mpc = "wait" => mthread \in Threads /\ thread[mslot] \in {mthread, NULL}

\* No thread of the slot delivers events, is still to begin doing so, or has yet to
\* detach itself.
Quiet(s) ==
    \A t \in Threads : tslot[t] = s => tpc[t] \notin Looping \union {"entry", "detach"}

\* The joins leave a quiet slot behind, whether or not they waited.
JoinedQuiet ==
    /\ mpc \in {"join", "joining", "wait"} =>
           \A s \in Slots : s < mslot => Quiet(s)
    /\ mpc \in {"joined", "reset", "exited"} => \A s \in Slots : Quiet(s)

\* Running slots, and the one that is being started.
Held(s) == Running(s) \/ (mpc \in {"spawn", "assign"} /\ s = mslot)

DistinctIds ==
    \A s, r \in Slots : Held(s) /\ Held(r) /\ psmoveId[s] = psmoveId[r] => s = r
FreshId == mpc = "start" => ~Exists(mid)

SlotWaiting == mpc \in {"connect", "start"} => FreeSlots # {}

IInv == /\ TypeOK
        /\ Ownership
        /\ StartedSlotFree
        /\ AssignedThread
        /\ AwaitedThread
        /\ JoinedQuiet
        /\ DistinctIds
        /\ FreshId
        /\ SlotWaiting

-----------------------------------------------------------------------------

\* The loops over slots and identifiers stay in range.
LEMMA SlotRange ==
    /\ 0 \in Slots
    /\ \A i \in Slots : HasNext(i) => i + 1 \in Slots
  BY ListenerAssumption DEF Slots, HasNext

\* Every step keeps the fields and the program counters in their types.
LEMMA TypeStep ==
  ASSUME TypeOK, [Next]_vars
  PROVE  TypeOK'
<1> USE SlotRange DEF Survives, TypeOK, MainPoints, ThreadPoints, Looping,
        Leaving, Straggling, flagVars, slotVars, threadVars, mainVars
<1>1. CASE LoopTop BY <1>1 DEF LoopTop
<1>2. CASE JoinTest BY <1>2 DEF JoinTest, NextJoin
<1>3. CASE JoinCall BY <1>3 DEF JoinCall, NextJoin, HasNext, Running
<1>4. CASE Crash BY <1>4 DEF Crash
<1>5. CASE JoinWait BY <1>5 DEF JoinWait, NextJoin
<1>6. CASE StopTest BY <1>6 DEF StopTest
<1>7. CASE DisconnectComplete BY <1>7 DEF DisconnectComplete, MainStep
<1>8. CASE CapacityTest BY <1>8 DEF CapacityTest
<1>9. CASE ConnectNext BY <1>9 DEF ConnectNext
<1>10. ASSUME NEW h \in Handles, ConnectDevice(h) PROVE TypeOK'
  BY <1>10 DEF ConnectDevice, MainStep
<1>11. ASSUME NEW s \in Slots, StartSlot(s) PROVE TypeOK'
  BY <1>11 DEF StartSlot, MainStep
<1>12. CASE DropDevice BY <1>12 DEF DropDevice, MainStep
<1>13. ASSUME NEW t \in Threads, Spawn(t) PROVE TypeOK'
  BY <1>13 DEF Spawn, MainStep
<1>14. CASE AssignThread BY <1>14 DEF AssignThread, MainStep
<1>15. ASSUME NEW t \in Threads, Enter(t) PROVE TypeOK'
  BY <1>15 DEF Enter, End, ThreadStep
<1>16. ASSUME NEW t \in Threads, StopCheck(t) PROVE TypeOK'
  BY <1>16 DEF StopCheck, LeaveLoop, ThreadStep
<1>17. ASSUME NEW t \in Threads, PollData(t) PROVE TypeOK'
  BY <1>17 DEF PollData, OnDisconnect
<1>18. ASSUME NEW t \in Threads, PollEmpty(t) PROVE TypeOK'
  BY <1>18 DEF PollEmpty, ThreadStep
<1>19. ASSUME NEW t \in Threads, SilenceCheck(t) PROVE TypeOK'
  BY <1>19 DEF SilenceCheck, LeaveLoop, ThreadStep
<1>20. ASSUME NEW t \in Threads, DeleteThread(t) PROVE TypeOK'
  BY <1>20 DEF DeleteThread, ThreadStep
<1>21. ASSUME NEW t \in Threads, NullThread(t) PROVE TypeOK'
  BY <1>21 DEF NullThread, ThreadStep
<1>22. ASSUME NEW t \in Threads, CloseMove(t) PROVE TypeOK'
  BY <1>22 DEF CloseMove, ThreadStep
<1>28. ASSUME NEW t \in Threads, ClearTime(t) PROVE TypeOK'
  BY <1>28 DEF ClearTime, ThreadStep
<1>23. ASSUME NEW t \in Threads, ForgetMove(t) PROVE TypeOK'
  BY <1>23 DEF ForgetMove, ThreadStep
<1>24. ASSUME NEW t \in Threads, Notify(t) PROVE TypeOK'
  BY <1>24 DEF Notify, End, ThreadStep, OnDisconnect
<1>25. ASSUME NEW s \in Slots, Silence(s) PROVE TypeOK'
  BY <1>25 DEF Silence
<1>26. CASE Stop BY <1>26 DEF Stop
<1>27. CASE UNCHANGED vars BY <1>27 DEF vars
<1> QED
  BY <1>1, <1>2, <1>3, <1>4, <1>5, <1>6, <1>7, <1>8, <1>9, <1>10, <1>11, <1>12,
     <1>13, <1>14, <1>15, <1>16, <1>17, <1>18, <1>19, <1>20, <1>21, <1>22,
     <1>23, <1>24, <1>25, <1>26, <1>27, <1>28
  DEF Next, Main, HandleNewDevice, FreeSlots, Run, Terminated, JoinCrash, JoinWaitCrash,
      SpawnCrash, ThreadCrash

\* The fields of psmove_listener.hpp (lines 86 to 121) keep their types.
THEOREM TypeCorrect == Spec => []TypeOK
<1>1. Init => TypeOK
  BY SlotRange DEF Init, TypeOK, MainPoints, ThreadPoints
<1>2. TypeOK /\ [Next]_vars => TypeOK'
  BY TypeStep
<1> QED
  BY <1>1, <1>2, PTL DEF Spec

\* Every step preserves who owns a slot, and what the main thread refers to.
LEMMA OwnershipStep ==
  ASSUME TypeOK, Ownership, StartedSlotFree, AssignedThread, AwaitedThread, [Next]_vars
  PROVE  (Ownership /\ StartedSlotFree /\ AssignedThread /\ AwaitedThread)'
<1> DEFINE Inv == Ownership /\ StartedSlotFree /\ AssignedThread /\ AwaitedThread
<1> USE ListenerAssumption DEF TypeOK, Ownership, StartedSlotFree, AssignedThread,
        AwaitedThread, Owning, Looping, Leaving, flagVars, slotVars, threadVars, mainVars
<1>1. CASE LoopTop BY <1>1 DEF LoopTop
<1>2. CASE JoinTest BY <1>2 DEF JoinTest, NextJoin, Running, HasNext
<1>3. CASE JoinCall BY <1>3 DEF JoinCall, NextJoin, Running, HasNext
<1>4. CASE Crash BY <1>4 DEF Crash
<1>5. CASE JoinWait BY <1>5 DEF JoinWait, NextJoin, HasNext
<1>6. CASE StopTest BY <1>6 DEF StopTest
<1>7. CASE DisconnectComplete BY <1>7 DEF DisconnectComplete, MainStep
<1>8. CASE CapacityTest BY <1>8 DEF CapacityTest, IsFullCapacity
<1>9. CASE ConnectNext BY <1>9 DEF ConnectNext
<1>10. ASSUME NEW h \in Handles, ConnectDevice(h) PROVE Inv'
  BY <1>10 DEF ConnectDevice, MainStep
<1>11. ASSUME NEW s \in Slots, StartSlot(s) PROVE Inv'
  BY <1>11 DEF StartSlot, MainStep, FirstFree, FreeSlots, Running
<1>12. CASE DropDevice BY <1>12 DEF DropDevice, MainStep
<1>13. ASSUME NEW t \in Threads, Spawn(t) PROVE Inv'
  BY <1>13 DEF Spawn, MainStep, Unused
<1>14. CASE AssignThread BY <1>14 DEF AssignThread, MainStep
<1>15. ASSUME NEW t \in Threads, Enter(t) PROVE Inv'
  BY <1>15 DEF Enter, End, ThreadStep
<1>16. ASSUME NEW t \in Threads, StopCheck(t) PROVE Inv'
  BY <1>16 DEF StopCheck, LeaveLoop, ThreadStep
<1>17. ASSUME NEW t \in Threads, PollData(t) PROVE Inv'
  BY <1>17 DEF PollData
<1>18. ASSUME NEW t \in Threads, PollEmpty(t) PROVE Inv'
  BY <1>18 DEF PollEmpty, ThreadStep
<1>19. ASSUME NEW t \in Threads, SilenceCheck(t) PROVE Inv'
  BY <1>19 DEF SilenceCheck, LeaveLoop, ThreadStep
<1>20. ASSUME NEW t \in Threads, DeleteThread(t) PROVE Inv'
  BY <1>20 DEF DeleteThread, ThreadStep
<1>21. ASSUME NEW t \in Threads, NullThread(t) PROVE Inv'
  BY <1>21 DEF NullThread, ThreadStep
<1>22. ASSUME NEW t \in Threads, CloseMove(t) PROVE Inv'
  BY <1>22 DEF CloseMove, ThreadStep
<1>28. ASSUME NEW t \in Threads, ClearTime(t) PROVE Inv'
  BY <1>28 DEF ClearTime, ThreadStep
<1>23. ASSUME NEW t \in Threads, ForgetMove(t) PROVE Inv'
  BY <1>23 DEF ForgetMove, ThreadStep
<1>24. ASSUME NEW t \in Threads, Notify(t) PROVE Inv'
  BY <1>24 DEF Notify, End, ThreadStep
<1>25. ASSUME NEW s \in Slots, Silence(s) PROVE Inv'
  BY <1>25 DEF Silence
<1>26. CASE Stop BY <1>26 DEF Stop
<1>27. CASE UNCHANGED vars BY <1>27 DEF vars
<1> QED
  BY <1>1, <1>2, <1>3, <1>4, <1>5, <1>6, <1>7, <1>8, <1>9, <1>10, <1>11,
     <1>12, <1>13, <1>14, <1>15, <1>16, <1>17, <1>18, <1>19, <1>20, <1>21,
     <1>22, <1>23, <1>24, <1>25, <1>26, <1>27, <1>28
  DEF Next, Main, HandleNewDevice, FreeSlots, Run, Terminated, JoinCrash, JoinWaitCrash,
      SpawnCrash, ThreadCrash

\* join() of a slot that has become quiet leaves all slots up to it quiet.
LEMMA QuietNext ==
  ASSUME TypeOK, NextJoin, UNCHANGED threadVars,
         Quiet(mslot), \A s \in Slots : s < mslot => Quiet(s)
  PROVE  JoinedQuiet'
<1>1. \A s \in Slots : Quiet(s) => Quiet(s)'
  BY DEF Quiet, threadVars
<1>2. CASE HasNext(mslot)
  <2>1. \A s \in Slots : s < mslot + 1 => s < mslot \/ s = mslot
    BY DEF TypeOK, Slots
  <2> QED
    BY <1>1, <1>2, <2>1 DEF NextJoin, JoinedQuiet
<1>3. CASE ~HasNext(mslot)
  <2>1. \A s \in Slots : s < mslot \/ s = mslot
    BY <1>3, ListenerAssumption DEF TypeOK, Slots, HasNext
  <2> QED
    BY <1>1, <1>3, <2>1 DEF NextJoin, JoinedQuiet
<1> QED
  BY <1>2, <1>3

\* Every step preserves what the joins have established so far.
LEMMA QuietStep ==
  ASSUME TypeOK, Ownership, AwaitedThread, JoinedQuiet, [Next]_vars
  PROVE  JoinedQuiet'
<1> USE ListenerAssumption DEF TypeOK, JoinedQuiet, Quiet, Looping, Leaving,
        flagVars, slotVars, threadVars, mainVars
<1>1. CASE LoopTop BY <1>1 DEF LoopTop, Slots
<1>2. CASE JoinTest
  <2>1. CASE Running(mslot) BY <1>2, <2>1 DEF JoinTest
  <2>2. CASE ~Running(mslot)
    <3>1. Quiet(mslot)
      BY <1>2, <2>2 DEF JoinTest, Running, Ownership, Owning
    <3> QED
      BY <1>2, <2>2, <3>1, QuietNext DEF JoinTest
  <2> QED BY <2>1, <2>2
<1>3. CASE JoinCall
  <2>1. CASE tpc[thread[mslot]] = "null"
    <3>1. Quiet(mslot)
      BY <1>3, <2>1 DEF JoinCall, Running, Ownership, Owning
    <3> QED
      BY <1>3, <2>1, <3>1, QuietNext DEF JoinCall
  <2>2. CASE tpc[thread[mslot]] # "null" BY <1>3, <2>2 DEF JoinCall
  <2> QED BY <2>1, <2>2
<1>4. CASE Crash BY <1>4 DEF Crash
<1>5. CASE JoinWait
  <2>1. Quiet(mslot)
    BY <1>5 DEF JoinWait, Ownership, Owning, AwaitedThread
  <2> QED
    BY <1>5, <2>1, QuietNext DEF JoinWait
<1>6. CASE StopTest BY <1>6 DEF StopTest
<1>7. CASE DisconnectComplete BY <1>7 DEF DisconnectComplete, MainStep
<1>8. CASE CapacityTest BY <1>8 DEF CapacityTest, IsFullCapacity
<1>9. CASE ConnectNext BY <1>9 DEF ConnectNext
<1>10. ASSUME NEW h \in Handles, ConnectDevice(h) PROVE JoinedQuiet'
  BY <1>10 DEF ConnectDevice, MainStep
<1>11. ASSUME NEW s \in Slots, StartSlot(s) PROVE JoinedQuiet'
  BY <1>11 DEF StartSlot, MainStep, FirstFree, FreeSlots, Running
<1>12. CASE DropDevice BY <1>12 DEF DropDevice, MainStep
<1>13. ASSUME NEW t \in Threads, Spawn(t) PROVE JoinedQuiet'
  BY <1>13 DEF Spawn, MainStep, Unused
<1>14. CASE AssignThread BY <1>14 DEF AssignThread, MainStep
<1>15. ASSUME NEW t \in Threads, Enter(t) PROVE JoinedQuiet'
  BY <1>15 DEF Enter, End, ThreadStep
<1>16. ASSUME NEW t \in Threads, StopCheck(t) PROVE JoinedQuiet'
  BY <1>16 DEF StopCheck, LeaveLoop, ThreadStep
<1>17. ASSUME NEW t \in Threads, PollData(t) PROVE JoinedQuiet'
  BY <1>17 DEF PollData
<1>18. ASSUME NEW t \in Threads, PollEmpty(t) PROVE JoinedQuiet'
  BY <1>18 DEF PollEmpty, ThreadStep
<1>19. ASSUME NEW t \in Threads, SilenceCheck(t) PROVE JoinedQuiet'
  BY <1>19 DEF SilenceCheck, LeaveLoop, ThreadStep
<1>20. ASSUME NEW t \in Threads, DeleteThread(t) PROVE JoinedQuiet'
  BY <1>20 DEF DeleteThread, ThreadStep
<1>21. ASSUME NEW t \in Threads, NullThread(t) PROVE JoinedQuiet'
  BY <1>21 DEF NullThread, ThreadStep
<1>22. ASSUME NEW t \in Threads, CloseMove(t) PROVE JoinedQuiet'
  BY <1>22 DEF CloseMove, ThreadStep
<1>28. ASSUME NEW t \in Threads, ClearTime(t) PROVE JoinedQuiet'
  BY <1>28 DEF ClearTime, ThreadStep
<1>23. ASSUME NEW t \in Threads, ForgetMove(t) PROVE JoinedQuiet'
  BY <1>23 DEF ForgetMove, ThreadStep
<1>24. ASSUME NEW t \in Threads, Notify(t) PROVE JoinedQuiet'
  BY <1>24 DEF Notify, End, ThreadStep
<1>25. ASSUME NEW s \in Slots, Silence(s) PROVE JoinedQuiet'
  BY <1>25 DEF Silence
<1>26. CASE Stop BY <1>26 DEF Stop
<1>27. CASE UNCHANGED vars BY <1>27 DEF vars
<1> QED
  BY <1>1, <1>2, <1>3, <1>4, <1>5, <1>6, <1>7, <1>8, <1>9, <1>10, <1>11,
     <1>12, <1>13, <1>14, <1>15, <1>16, <1>17, <1>18, <1>19, <1>20, <1>21,
     <1>22, <1>23, <1>24, <1>25, <1>26, <1>27, <1>28
  DEF Next, Main, HandleNewDevice, FreeSlots, Run, Terminated, JoinCrash, JoinWaitCrash,
      SpawnCrash, ThreadCrash

\* Every step keeps the identifiers of the running slots apart, and the slot that
\* isFullCapacity() saw free.
LEMMA IdStep ==
  ASSUME TypeOK, StartedSlotFree, AssignedThread, DistinctIds, FreshId, SlotWaiting, [Next]_vars
  PROVE  (DistinctIds /\ FreshId /\ SlotWaiting)'
<1> DEFINE Inv == DistinctIds /\ FreshId /\ SlotWaiting
<1> USE ListenerAssumption DEF TypeOK, DistinctIds, FreshId, SlotWaiting, Held, Running, Exists, FreeSlots,
        flagVars, slotVars, threadVars, mainVars
<1>1. CASE LoopTop BY <1>1 DEF LoopTop
<1>2. CASE JoinTest BY <1>2 DEF JoinTest, NextJoin
<1>3. CASE JoinCall BY <1>3 DEF JoinCall, NextJoin
<1>4. CASE Crash BY <1>4 DEF Crash
<1>5. CASE JoinWait BY <1>5 DEF JoinWait, NextJoin, HasNext
<1>6. CASE StopTest BY <1>6 DEF StopTest
<1>7. CASE DisconnectComplete BY <1>7 DEF DisconnectComplete, MainStep
<1>8. CASE CapacityTest BY <1>8 DEF CapacityTest, IsFullCapacity
<1>9. CASE ConnectNext BY <1>9 DEF ConnectNext
<1>10. ASSUME NEW h \in Handles, ConnectDevice(h) PROVE Inv'
  BY <1>10 DEF ConnectDevice, MainStep
<1>11. ASSUME NEW s \in Slots, StartSlot(s) PROVE Inv'
  BY <1>11 DEF StartSlot, MainStep, FirstFree
<1>12. CASE DropDevice BY <1>12 DEF DropDevice, MainStep
<1>13. ASSUME NEW t \in Threads, Spawn(t) PROVE Inv'
  BY <1>13 DEF Spawn, MainStep
<1>14. CASE AssignThread BY <1>14 DEF AssignThread, MainStep, StartedSlotFree, AssignedThread
<1>15. ASSUME NEW t \in Threads, Enter(t) PROVE Inv'
  BY <1>15 DEF Enter, End, ThreadStep
<1>16. ASSUME NEW t \in Threads, StopCheck(t) PROVE Inv'
  BY <1>16 DEF StopCheck, LeaveLoop, ThreadStep
<1>17. ASSUME NEW t \in Threads, PollData(t) PROVE Inv'
  BY <1>17 DEF PollData
<1>18. ASSUME NEW t \in Threads, PollEmpty(t) PROVE Inv'
  BY <1>18 DEF PollEmpty, ThreadStep
<1>19. ASSUME NEW t \in Threads, SilenceCheck(t) PROVE Inv'
  BY <1>19 DEF SilenceCheck, LeaveLoop, ThreadStep
<1>20. ASSUME NEW t \in Threads, DeleteThread(t) PROVE Inv'
  BY <1>20 DEF DeleteThread, ThreadStep
<1>21. ASSUME NEW t \in Threads, NullThread(t) PROVE Inv'
  BY <1>21 DEF NullThread, ThreadStep
<1>22. ASSUME NEW t \in Threads, CloseMove(t) PROVE Inv'
  BY <1>22 DEF CloseMove, ThreadStep
<1>28. ASSUME NEW t \in Threads, ClearTime(t) PROVE Inv'
  BY <1>28 DEF ClearTime, ThreadStep
<1>23. ASSUME NEW t \in Threads, ForgetMove(t) PROVE Inv'
  BY <1>23 DEF ForgetMove, ThreadStep
<1>24. ASSUME NEW t \in Threads, Notify(t) PROVE Inv'
  BY <1>24 DEF Notify, End, ThreadStep
<1>25. ASSUME NEW s \in Slots, Silence(s) PROVE Inv'
  BY <1>25 DEF Silence
<1>26. CASE Stop BY <1>26 DEF Stop
<1>27. CASE UNCHANGED vars BY <1>27 DEF vars
<1> QED
  BY <1>1, <1>2, <1>3, <1>4, <1>5, <1>6, <1>7, <1>8, <1>9, <1>10, <1>11,
     <1>12, <1>13, <1>14, <1>15, <1>16, <1>17, <1>18, <1>19, <1>20, <1>21,
     <1>22, <1>23, <1>24, <1>25, <1>26, <1>27, <1>28
  DEF Next, Main, HandleNewDevice, FreeSlots, Run, Terminated, JoinCrash, JoinWaitCrash,
      SpawnCrash, ThreadCrash

\* The inductive invariant: who owns a slot, what the joins have established and
\* which identifiers are taken, at every point of run() and operator()().
THEOREM Inductive == Spec => []IInv
<1>1. Init => IInv
  BY SlotRange DEF Init, IInv, TypeOK, MainPoints, ThreadPoints, Ownership, Owning,
     Looping, Leaving, StartedSlotFree, AssignedThread, AwaitedThread, JoinedQuiet,
     DistinctIds, Held, Running, FreshId, SlotWaiting
<1>2. IInv /\ [Next]_vars => IInv'
  BY TypeStep, OwnershipStep, QuietStep, IdStep DEF IInv
<1> QED
  BY <1>1, <1>2, PTL DEF Spec

\* The owner of a slot is unique, whichever way it owns it.
LEMMA UniqueOwner ==
  ASSUME IInv, NEW t \in Threads, NEW u \in Threads,
         Owning(t), Owning(u), tslot[t] = tslot[u]
  PROVE  t = u
BY ListenerAssumption DEF IInv, TypeOK, Ownership, StartedSlotFree

\* Line 297: a slot never has two threads that deliver its events.
THEOREM SingleDeliveryHolds == Spec => []SingleDelivery
<1>1. IInv => SingleDelivery
  BY UniqueOwner DEF SingleDelivery, Owning
<1> QED
  BY <1>1, Inductive, PTL

\* Line 103: disconnectCompleteSignal_() is raised while nobody delivers.
THEOREM ResetAloneHolds == Spec => []ResetAlone
<1>1. IInv => ResetAlone
  BY DEF IInv, TypeOK, JoinedQuiet, Quiet, ResetAlone
<1> QED
  BY <1>1, Inductive, PTL

\* psmoveinput.cpp, line 78: no thread logs or delivers events once run() is over.
THEOREM QuietAtExitHolds == Spec => []QuietAtExit
<1>1. IInv => QuietAtExit
  BY DEF IInv, TypeOK, JoinedQuiet, Quiet, QuietAtExit, ThreadPoints, Looping, Leaving, Straggling
<1> QED
  BY <1>1, Inductive, PTL

\* Line 206: two connected controllers have different psmoveapi identifiers.
THEOREM UniqueIdsHolds == Spec => []UniqueIds
<1>1. ASSUME IInv, NEW t \in Threads, tpc[t] \in Looping
      PROVE  tslot[t] \in Slots /\ Held(tslot[t])
  BY <1>1, ListenerAssumption DEF IInv, TypeOK, Ownership, Owning, Held, Running
<1>2. IInv => UniqueIds
  BY <1>1 DEF IInv, DistinctIds, UniqueIds
<1> QED
  BY <1>2, Inductive, PTL

\* Line 166: handleNewDevice() always finds a slot for the device it is given.
THEOREM NoHandleDroppedHolds == Spec => []NoHandleDropped
<1>1. IInv => NoHandleDropped
  BY DEF IInv, SlotWaiting, NoHandleDropped
<1> QED
  BY <1>1, Inductive, PTL
\* Steps that move no thread into or out of its loop leave the callers alone.
LEMMA SameCallers ==
  ASSUME TypeOK,
         \A t \in Threads : /\ (tpc'[t] \in Looping) <=> (tpc[t] \in Looping)
                            /\ tpc[t] \in Looping => tslot'[t] = tslot[t]
  PROVE  Callers' = Callers
<1>1. ASSUME NEW s \in Slots
      PROVE  {t \in Threads : tslot'[t] = s /\ tpc'[t] \in Looping}
               = {t \in Threads : tslot[t] = s /\ tpc[t] \in Looping}
  OBVIOUS
<1> QED
  BY <1>1 DEF Callers

\* A thread that leaves its loop is no caller any more.
LEMMA LeaveStep ==
  ASSUME TypeOK, NEW t \in Threads, NEW from \in Looping, LeaveLoop(t, from),
         UNCHANGED tslot
  PROVE  Contract!Leave(tslot[t], t)
<1> DEFINE s == tslot[t]
<1>1. s \in Slots /\ t \in Callers[s]
  BY DEF TypeOK, Callers, LeaveLoop, ThreadStep
<1>2. ASSUME NEW r \in Slots
      PROVE  Callers'[r] = IF r = s THEN Callers[r] \ {t} ELSE Callers[r]
  <2>1. tpc' = [tpc EXCEPT ![t] = "detach"] /\ "detach" \notin Looping
    BY DEF LeaveLoop, ThreadStep, Looping
  <2>2. \A u \in Threads : u # t => tpc'[u] = tpc[u]
    BY <2>1 DEF TypeOK
  <2>3. tpc'[t] \notin Looping
    BY <2>1 DEF TypeOK
  <2> QED
    BY <2>2, <2>3 DEF Callers
<1>3. Callers' = [Callers EXCEPT ![s] = @ \ {t}]
  BY <1>1, <1>2 DEF Callers
<1> QED
  BY <1>1, <1>3 DEF Contract!Leave, LeaveLoop

\* A thread that enters its loop is the only caller of its slot.
LEMMA EnterStep ==
  ASSUME IInv, NEW t \in Threads, Enter(t)
  PROVE  Contract!Start(tslot[t], t) \/ UNCHANGED <<Callers, dirty>>
<1> DEFINE s == tslot[t]
<1> USE DEF TypeOK
<1>0. TypeOK
  BY DEF IInv
<1>1. CASE move[s] = NULL
  BY <1>0, <1>1, SameCallers DEF Enter, End, ThreadStep, Looping
<1>2. CASE move[s] # NULL
  <2>1. tpc[t] = "entry" /\ tpc' = [tpc EXCEPT ![t] = "check"] /\ UNCHANGED <<tslot, dirty>>
    BY <1>0, <1>2 DEF Enter, ThreadStep
  <2>2. \A u \in Threads : tslot[u] = s => tpc[u] \notin Looping
    BY <1>0, <2>1, UniqueOwner DEF Owning, Looping
  <2>3. s \in Slots /\ Callers[s] = {}
    BY <1>0, <2>2 DEF Callers
  <2>4. \A r \in Slots : t \notin Callers[r]
    BY <2>1 DEF Callers, Looping
  <2>5. ASSUME NEW r \in Slots
        PROVE  Callers'[r] = IF r = s THEN {t} ELSE Callers[r]
    <3>1. \A u \in Threads : u # t => tpc'[u] = tpc[u] /\ tslot'[u] = tslot[u]
      BY <1>0, <2>1
    <3>2. tpc'[t] \in Looping /\ tslot'[t] = s
      BY <1>0, <2>1 DEF Looping
    <3>3. CASE r = s
      BY <2>2, <3>1, <3>2, <3>3 DEF Callers
    <3>4. CASE r # s
      BY <2>1, <3>1, <3>2, <3>4 DEF Callers, Looping
    <3> QED
      BY <3>3, <3>4
  <2>6. Callers' = [Callers EXCEPT ![s] = {t}]
    <3>1. Callers' = [r \in Slots |-> Callers'[r]] /\ Callers = [r \in Slots |-> Callers[r]]
      BY DEF Callers
    <3> HIDE DEF TypeOK
    <3> QED
      BY <2>3, <2>5, <3>1
  <2> QED
    BY <2>1, <2>3, <2>4, <2>6 DEF Contract!Start
<1> QED
  BY <1>1, <1>2

\* Either is a step of HandlerCallers.
LEMMA CallerStep ==
  ASSUME NEW s \in Slots, NEW t \in Threads, Contract!Start(s, t) \/ Contract!Leave(s, t)
  PROVE  Contract!Next
<1>1. CASE Contract!Start(s, t)
  <2>1. t \in Callers'[s]
    BY <1>1 DEF Contract!Start, Callers
  <2> QED BY <1>1, <2>1 DEF Contract!Next
<1>2. CASE Contract!Leave(s, t)
  BY <1>2 DEF Contract!Next, Contract!Leave
<1> QED BY <1>1, <1>2

\* Every step of the listener is a step of HandlerCallers or leaves it alone.
LEMMA ContractStep ==
  ASSUME IInv, [Next]_vars
  PROVE  [Contract!Next]_(Contract!vars)
<1> DEFINE Same == UNCHANGED <<Callers, dirty>>
<1>1. TypeOK
  BY DEF IInv
<1>2. ASSUME NEW t \in Threads, Enter(t) PROVE Same \/ Contract!Next
  BY <1>1, <1>2, EnterStep, CallerStep DEF TypeOK
<1>3. ASSUME NEW t \in Threads, StopCheck(t) PROVE Same \/ Contract!Next
  <2>1. CASE LeaveLoop(t, "check")
    BY <1>1, <1>3, <2>1, LeaveStep, CallerStep DEF StopCheck, TypeOK, Looping
  <2>2. CASE ~LeaveLoop(t, "check")
    BY <1>1, <1>3, <2>2, SameCallers DEF StopCheck, ThreadStep, TypeOK, Looping
  <2> QED BY <2>1, <2>2
<1>4. ASSUME NEW t \in Threads, SilenceCheck(t) PROVE Same \/ Contract!Next
  <2>1. CASE LeaveLoop(t, "silence")
    BY <1>1, <1>4, <2>1, LeaveStep, CallerStep DEF SilenceCheck, TypeOK, Looping
  <2>2. CASE ~LeaveLoop(t, "silence")
    BY <1>1, <1>4, <2>2, SameCallers DEF SilenceCheck, ThreadStep, TypeOK, Looping
  <2> QED BY <2>1, <2>2
<1>5. ASSUME DisconnectComplete PROVE Contract!Next
  <2>1. \A s \in Slots : Callers[s] = {}
    BY <1>5 DEF DisconnectComplete, MainStep, IInv, JoinedQuiet, Quiet, Callers
  <2>2. Callers' = Callers
    BY <1>1, <1>5, SameCallers DEF DisconnectComplete, threadVars
  <2> QED
    BY <1>5, <2>1, <2>2 DEF DisconnectComplete, Contract!Next, Contract!Reset
<1>6. ASSUME \/ LoopTop \/ JoinTest \/ JoinCall \/ Crash \/ JoinWait \/ StopTest
             \/ CapacityTest \/ ConnectNext \/ DropDevice \/ AssignThread \/ Stop
             \/ UNCHANGED vars
             \/ \E h \in Handles : ConnectDevice(h)
             \/ \E s \in Slots : StartSlot(s) \/ Silence(s)
             \/ \E t \in Threads : PollData(t)
      PROVE  Same
  <2>1. UNCHANGED <<tpc, tslot, dirty>>
    BY <1>6 DEF LoopTop, JoinTest, JoinCall, Crash, JoinWait, StopTest, CapacityTest,
       ConnectNext, DropDevice, AssignThread, Stop, vars, ConnectDevice, StartSlot,
       Silence, PollData, threadVars
  <2> QED
    BY <1>1, <2>1, SameCallers
<1>7. ASSUME NEW t \in Threads,
             \/ Spawn(t) \/ PollEmpty(t) \/ DeleteThread(t) \/ NullThread(t)
             \/ ClearTime(t) \/ CloseMove(t) \/ ForgetMove(t) \/ Notify(t)
      PROVE  Same
  <2>1. /\ \A u \in Threads \ {t} : tpc'[u] = tpc[u] /\ tslot'[u] = tslot[u]
        /\ (tpc'[t] \in Looping) <=> (tpc[t] \in Looping)
        /\ tpc[t] \in Looping => tslot'[t] = tslot[t]
        /\ UNCHANGED dirty
    BY <1>1, <1>7 DEF Spawn, MainStep, Unused, PollEmpty, DeleteThread, NullThread,
       ClearTime, CloseMove, ForgetMove, Notify, End, ThreadStep, TypeOK, Looping
  <2> QED
    BY <1>1, <2>1, SameCallers
<1>8. Same \/ Contract!Next
  BY <1>2, <1>3, <1>4, <1>5, <1>6, <1>7
  DEF Next, Main, HandleNewDevice, FreeSlots, Run, Terminated, JoinCrash, JoinWaitCrash,
      SpawnCrash, ThreadCrash
<1> QED
  BY <1>8 DEF Contract!vars

\* PSMoveListener implements HandlerCallers, for any number of controllers.
THEOREM Implementation == Spec => ImplementsContract
<1>1. Init => Contract!Init
  BY DEF Init, Contract!Init, Callers, Looping
<1>2. IInv /\ [Next]_vars => [Contract!Next]_(Contract!vars)
  BY ContractStep
<1> QED
  BY <1>1, <1>2, Inductive, PTL DEF Spec, ImplementsContract, Contract!Spec

-----------------------------------------------------------------------------
(* No step of the three properties below needs fairness: they are what is left  *)
(* of StopTerminates and LeaveLeadsToReset once the scheduling is taken away.   *)

\* While a thread has stopped delivering and the handler has not been reset, a
\* request is pending, its reset is under way, or the thread has yet to make it:
\* line 101 may overwrite requests, without the mutex, but never the last one.
NoLostRequest ==
    dirty => \/ stop \/ threadStop \/ mpc = "reset"
             \/ \E t \in Threads : tpc[t] \in Leaving \union Straggling

\* A thread that leaves its loop counts until its request is made, and a request
\* until the reset that answers it.
LEMMA RequestStep ==
  ASSUME TypeOK, NoLostRequest, [Next]_vars
  PROVE  NoLostRequest'
<1> DEFINE Out(t) == tpc[t] \in Leaving \union Straggling
<1> USE DEF NoLostRequest, flagVars, slotVars, threadVars, mainVars
<1>1. ASSUME \/ LoopTop \/ JoinTest \/ JoinCall \/ Crash \/ JoinWait
             \/ CapacityTest \/ ConnectNext \/ DropDevice \/ AssignThread \/ Stop
             \/ UNCHANGED vars
             \/ \E h \in Handles : ConnectDevice(h)
             \/ \E s \in Slots : StartSlot(s) \/ Silence(s)
             \/ \E t \in Threads : PollData(t)
      PROVE  NoLostRequest'
  <2>1. /\ UNCHANGED <<tpc, dirty>>
        /\ stop => stop'
        /\ threadStop => threadStop'
        /\ mpc = "reset" => mpc' = "reset"
    BY <1>1 DEF LoopTop, JoinTest, NextJoin, JoinCall, Crash, JoinWait, CapacityTest, ConnectNext,
       DropDevice, AssignThread, Stop, vars, ConnectDevice, StartSlot, MainStep, Silence,
       PollData, OnDisconnect
  <2> QED
    BY <2>1
<1>2. CASE StopTest BY <1>2 DEF StopTest
<1>3. CASE DisconnectComplete BY <1>3 DEF DisconnectComplete
<1>4. ASSUME NEW t \in Threads, Notify(t) PROVE NoLostRequest'
  BY <1>4 DEF Notify, OnDisconnect
<1>5. ASSUME NEW t \in Threads, \/ StopCheck(t) /\ LeaveLoop(t, "check")
                                \/ SilenceCheck(t) /\ LeaveLoop(t, "silence")
      PROVE  NoLostRequest'
  BY <1>5 DEF LeaveLoop, ThreadStep, TypeOK, Leaving
<1>6. ASSUME NEW t \in Threads,
             \/ Spawn(t) \/ Enter(t) \/ PollEmpty(t) \/ DeleteThread(t) \/ NullThread(t)
             \/ ClearTime(t) \/ CloseMove(t) \/ ForgetMove(t)
             \/ StopCheck(t) /\ ~LeaveLoop(t, "check")
             \/ SilenceCheck(t) /\ ~LeaveLoop(t, "silence")
      PROVE  NoLostRequest'
  <2>1. /\ UNCHANGED <<stop, threadStop, dirty>>
        /\ mpc = "reset" => mpc' = "reset"
        /\ \A u \in Threads : u # t => tpc'[u] = tpc[u]
        /\ Out(t) => Out(t)'
    BY <1>6 DEF Spawn, MainStep, Unused, Enter, End, PollEmpty, DeleteThread, NullThread,
       ClearTime, CloseMove, ForgetMove, StopCheck, SilenceCheck, ThreadStep, TypeOK, Leaving, Straggling
  <2> QED
    BY <2>1
<1> QED
  BY <1>1, <1>2, <1>3, <1>4, <1>5, <1>6
  DEF Next, Main, HandleNewDevice, FreeSlots, Run, Terminated, JoinCrash, JoinWaitCrash,
      SpawnCrash, ThreadCrash

\* Line 101 drops no request that is still needed, for any number of threads.
THEOREM NoLostRequestHolds == Spec => []NoLostRequest
<1>1. Init => NoLostRequest
  BY DEF Init, NoLostRequest
<1> QED
  BY <1>1, RequestStep, TypeCorrect, PTL DEF Spec

-----------------------------------------------------------------------------
(* How far run() is from its end.                                              *)

\* At most so many steps of the main thread are left after stop(), if it is at this
\* point of run(), for this slot and this identifier.
Distance(point, slot, id) ==
    LET N == MAX_CONTROLLERS
    IN  [exited  |-> 0,
         joined  |-> 1,
         wait    |-> 3 * (N - slot) - 1,
         joining |-> 3 * (N - slot),
         join    |-> 3 * (N - slot) + 1,
         loop    |-> 3 * N + 2,
         assign  |-> 3 * N + 3,
         spawn   |-> 3 * N + 4,
         start   |-> 3 * N + 5,
         connect |-> 4 * N + 6 - id,
         capacity |-> 4 * N + 7,
         reset   |-> 4 * N + 8][point]

ToExit == Distance(mpc, mslot, mid)

\* After stop() every step of the main thread brings run() nearer to its end, and no
\* other step takes it away from it: a signal that comes while controllers are
\* connected (lines 105 to 118) is not lost to another turn of the loop.
StopConverges ==
    [][stop => /\ stop'
               /\ ToExit' <= ToExit
               /\ Main => (crashed' \/ ToExit' < ToExit)]_vars

\* The distance, point by point.
LEMMA DistanceAt ==
  ASSUME NEW slot \in Slots, NEW id \in Slots
  PROVE  LET N == MAX_CONTROLLERS
         IN  /\ Distance("exited", slot, id) = 0
             /\ Distance("joined", slot, id) = 1
             /\ Distance("wait", slot, id) = 3 * (N - slot) - 1
             /\ Distance("joining", slot, id) = 3 * (N - slot)
             /\ Distance("join", slot, id) = 3 * (N - slot) + 1
             /\ Distance("loop", slot, id) = 3 * N + 2
             /\ Distance("assign", slot, id) = 3 * N + 3
             /\ Distance("spawn", slot, id) = 3 * N + 4
             /\ Distance("start", slot, id) = 3 * N + 5
             /\ Distance("connect", slot, id) = 4 * N + 6 - id
             /\ Distance("capacity", slot, id) = 4 * N + 7
             /\ Distance("reset", slot, id) = 4 * N + 8
BY DEF Distance

\* It is bounded: run() is never more than 4 * MAX_CONTROLLERS + 8 steps away.
LEMMA DistanceRange ==
  ASSUME NEW point \in MainPoints, NEW slot \in Slots, NEW id \in Slots
  PROVE  Distance(point, slot, id) \in 0 .. 4 * MAX_CONTROLLERS + 8
BY DistanceAt, ListenerAssumption DEF MainPoints, Slots

\* Every step after stop() keeps to the way out.
LEMMA StopStep ==
  ASSUME TypeOK, stop, [Next]_vars
  PROVE  /\ stop'
         /\ ToExit' <= ToExit
         /\ Main => (crashed' \/ ToExit' < ToExit)
<1> USE ListenerAssumption DEF ToExit, flagVars, slotVars, threadVars, mainVars
<1> DEFINE Nearer == stop' /\ ToExit' < ToExit
           Still == stop' /\ ToExit' = ToExit
<1>a. /\ mpc \in MainPoints /\ mslot \in Slots /\ mid \in Slots
      /\ mpc' \in MainPoints /\ mslot' \in Slots /\ mid' \in Slots
  BY TypeStep DEF TypeOK
<1>b. /\ ToExit \in 0 .. 4 * MAX_CONTROLLERS + 8
      /\ ToExit' \in 0 .. 4 * MAX_CONTROLLERS + 8
  BY <1>a, DistanceRange
<1>c. /\ MAX_CONTROLLERS \in Nat
      /\ mslot \in 0 .. MAX_CONTROLLERS - 1 /\ mid \in 0 .. MAX_CONTROLLERS - 1
      /\ mslot' \in 0 .. MAX_CONTROLLERS - 1 /\ mid' \in 0 .. MAX_CONTROLLERS - 1
  BY <1>a DEF Slots
<1>1. ASSUME LoopTop PROVE Nearer
  BY <1>1, <1>a, <1>c, DistanceAt DEF LoopTop, NeedToStop
<1>2. ASSUME NextJoin, mpc \in {"join", "joining", "wait"}, UNCHANGED <<stop, mid>> PROVE Nearer
  BY <1>2, <1>a, <1>c, DistanceAt DEF NextJoin, HasNext
<1>3. ASSUME JoinTest PROVE Nearer
  BY <1>2, <1>3, <1>a, <1>c, DistanceAt DEF JoinTest
<1>4. ASSUME JoinCall PROVE Nearer
  BY <1>2, <1>4, <1>a, <1>c, DistanceAt DEF JoinCall
<1>5. ASSUME JoinWait PROVE Nearer
  BY <1>2, <1>5 DEF JoinWait
<1>6. ASSUME StopTest PROVE Nearer
  BY <1>6, <1>a, <1>c, DistanceAt DEF StopTest
<1>7. ASSUME DisconnectComplete PROVE Nearer
  BY <1>7, <1>a, <1>c, DistanceAt DEF DisconnectComplete, MainStep
<1>8. ASSUME CapacityTest PROVE Nearer
  BY <1>8, <1>a, <1>c, DistanceAt DEF CapacityTest
<1>9. ASSUME ConnectNext PROVE Nearer
  BY <1>9, <1>a, <1>c, DistanceAt DEF ConnectNext, HasNext
<1>10. ASSUME NEW h \in Handles, ConnectDevice(h) PROVE Nearer
  BY <1>10, <1>a, <1>c, DistanceAt DEF ConnectDevice, MainStep
<1>11. ASSUME NEW s \in Slots, StartSlot(s) PROVE Nearer
  BY <1>11, <1>a, <1>c, DistanceAt DEF StartSlot, MainStep
<1>12. ASSUME DropDevice PROVE Nearer
  BY <1>12, <1>a, <1>c, DistanceAt DEF DropDevice, MainStep
<1>13. ASSUME NEW t \in Threads, Spawn(t) PROVE Nearer
  BY <1>13, <1>a, <1>c, DistanceAt DEF Spawn, MainStep
<1>14. ASSUME AssignThread PROVE Nearer
  BY <1>14, <1>a, <1>c, DistanceAt DEF AssignThread, MainStep
<1>15. ASSUME Crash PROVE Still /\ crashed'
  BY <1>15 DEF Crash
<1>16. ASSUME ~Main, ~Crash PROVE Still
  BY <1>16 DEF Next, Run, Enter, StopCheck, PollEmpty, SilenceCheck, DeleteThread, NullThread,
     ClearTime, CloseMove, ForgetMove, Notify, ThreadCrash, PollData, Silence, Stop, Terminated, vars
<1> QED
  BY <1>b, <1>c, <1>1, <1>3, <1>4, <1>5, <1>6, <1>7, <1>8, <1>9, <1>10, <1>11, <1>12,
     <1>13, <1>14, <1>15, <1>16
  DEF Main, HandleNewDevice, FreeSlots, JoinCrash, JoinWaitCrash, SpawnCrash

\* stop() leaves the main thread a bounded number of steps, whatever the others do.
THEOREM StopConvergesHolds == Spec => StopConverges
<1>1. TypeOK /\ [Next]_vars
        => [stop => /\ stop'
                    /\ ToExit' <= ToExit
                    /\ Main => (crashed' \/ ToExit' < ToExit)]_vars
  BY StopStep
<1> QED
  BY <1>1, TypeCorrect, PTL DEF Spec, StopConverges

-----------------------------------------------------------------------------
(* What join() waits for.                                                      *)

\* The joins are there to answer a request, which only the test after them drops.
JoiningOnRequest == mpc \in {"join", "joining", "wait", "joined"} => NeedToStop

\* At most so many steps of its own are left to a thread that is told to stop.
StepsLeft(t) ==
    [done |-> 0, notify |-> 1, forget |-> 2, close |-> 3, clear |-> 4, null |-> 5, detach |-> 6,
     check |-> 7, silence |-> 8, poll |-> 9, entry |-> 10][tpc[t]]

\* While join() waits (psmove_listener.hpp, line 80), every step of the thread it waits
\* for brings that thread nearer to its end, and nothing sends it back into its
\* loop: the request is dropped (line 101) only after all the joins.
JoinConverges ==
    [][\A t \in Threads :
         mpc = "wait" /\ mthread = t =>
           /\ StepsLeft(t)' <= StepsLeft(t)
           /\ Run(t) => (crashed' \/ StepsLeft(t)' < StepsLeft(t))]_vars

\* Only StopTest, at "joined", takes a request back.
LEMMA JoiningStep ==
  ASSUME TypeOK, JoiningOnRequest, [Next]_vars
  PROVE  JoiningOnRequest'
<1> USE DEF JoiningOnRequest, NeedToStop, flagVars, slotVars, threadVars, mainVars
<1>1. CASE Main
  BY <1>1 DEF Main, LoopTop, JoinTest, JoinCall, JoinCrash, JoinWaitCrash, SpawnCrash, Crash, JoinWait, NextJoin, StopTest,
     DisconnectComplete, CapacityTest, ConnectNext, ConnectDevice, HandleNewDevice,
     StartSlot, DropDevice, Spawn, AssignThread, MainStep
<1>2. CASE ~Main
  <2>1. UNCHANGED mpc /\ (stop => stop') /\ (threadStop => threadStop')
    BY <1>2 DEF Next, Run, Enter, StopCheck, PollEmpty, SilenceCheck, DeleteThread, NullThread,
       ClearTime, CloseMove, ForgetMove, Notify, OnDisconnect, ThreadCrash, Crash, PollData, Silence, Stop,
       Terminated, vars
  <2> QED BY <2>1
<1> QED
  BY <1>1, <1>2

\* A thread that is told to stop does not start another round.
LEMMA ThreadEnds ==
  ASSUME TypeOK, NeedToStop, NEW t \in Threads, Run(t)
  PROVE  StepsLeft(t)' <= StepsLeft(t) /\ (crashed' \/ StepsLeft(t)' < StepsLeft(t))
<1> USE DEF TypeOK, ThreadStep, StepsLeft
<1>1. CASE Enter(t) BY <1>1 DEF Enter, End
<1>2. CASE StopCheck(t) BY <1>2 DEF StopCheck, LeaveLoop
<1>3. CASE PollEmpty(t) BY <1>3 DEF PollEmpty
<1>4. CASE SilenceCheck(t) BY <1>4 DEF SilenceCheck, LeaveLoop
<1>5. CASE DeleteThread(t) BY <1>5 DEF DeleteThread
<1>6. CASE NullThread(t) BY <1>6 DEF NullThread
<1>7. CASE CloseMove(t) BY <1>7 DEF CloseMove
<1>11. CASE ClearTime(t) BY <1>11 DEF ClearTime
<1>8. CASE ForgetMove(t) BY <1>8 DEF ForgetMove
<1>9. CASE Notify(t) BY <1>9 DEF Notify, End
<1>10. CASE ThreadCrash(t)
  BY <1>10 DEF ThreadCrash, Crash, threadVars, ThreadPoints, Looping, Leaving, Straggling
<1> QED
  BY <1>1, <1>2, <1>3, <1>4, <1>5, <1>6, <1>7, <1>8, <1>9, <1>10, <1>11 DEF Run

\* The awaited thread moves towards its end or stays where it is.
LEMMA JoinStep ==
  ASSUME TypeOK, JoiningOnRequest, [Next]_vars, NEW t \in Threads, mpc = "wait", mthread = t
  PROVE  /\ StepsLeft(t)' <= StepsLeft(t)
         /\ Run(t) => (crashed' \/ StepsLeft(t)' < StepsLeft(t))
<1>1. CASE Run(t)
  BY <1>1, ThreadEnds DEF JoiningOnRequest
<1>2. CASE ~Run(t)
  <2>1. tpc'[t] = tpc[t]
    BY <1>2 DEF TypeOK, Next, Main, LoopTop, JoinTest, JoinCall, JoinCrash, JoinWaitCrash, SpawnCrash, Crash,
       JoinWait, StopTest, DisconnectComplete, CapacityTest, ConnectNext, ConnectDevice,
       HandleNewDevice, StartSlot, DropDevice, Spawn, MainStep, AssignThread, Run, Enter,
       End, StopCheck, LeaveLoop, PollEmpty, SilenceCheck, DeleteThread, NullThread,
       ClearTime, CloseMove, ForgetMove, Notify, ThreadCrash, ThreadStep, PollData, Silence, Stop,
       Terminated, vars, threadVars
  <2> QED
    BY <1>2, <2>1 DEF StepsLeft, TypeOK, ThreadPoints, Looping, Leaving, Straggling
<1> QED
  BY <1>1, <1>2

\* join() waits for a thread that is on its way out, for any number of threads.
THEOREM JoinConvergesHolds == Spec => JoinConverges
<1>1. Init => JoiningOnRequest
  BY DEF Init, JoiningOnRequest
<1>2. TypeOK /\ JoiningOnRequest /\ [Next]_vars => JoiningOnRequest'
  BY JoiningStep
<1>3. TypeOK /\ JoiningOnRequest /\ [Next]_vars
        => [\A t \in Threads :
              mpc = "wait" /\ mthread = t =>
                /\ StepsLeft(t)' <= StepsLeft(t)
                /\ Run(t) => (crashed' \/ StepsLeft(t)' < StepsLeft(t))]_vars
  BY JoinStep
<1> QED
  BY <1>1, <1>2, <1>3, TypeCorrect, PTL DEF Spec, JoinConverges

-----------------------------------------------------------------------------
(* What the process dies of.                                                    *)

\* The thread still reads or writes the fields of its slot.
InSlot(t) == tpc[t] \notin {"notify", "done"}
\* A thread has closed the handle of the slot, and is about to null move_.
Forgetting(s) == \E t \in Threads : tpc[t] = "forget" /\ tslot[t] = s

\* A slot has one thread in it at a time.
OneUser ==
    \A t, u \in Threads : InSlot(t) /\ InSlot(u) /\ tslot[t] = tslot[u] => t = u

\* Until a thread has closed its handle, the handle is open.
HandleOpen ==
    \A t \in Threads : InSlot(t) => (tpc[t] = "forget" \/ move[tslot[t]] \in open)

\* The slot that start() fills has nobody in it, and the handle it was given.
SpawnedSlot ==
    mpc = "spawn" => /\ move[mslot] \in open
                     /\ \A t \in Threads : InSlot(t) => tslot[t] # mslot

\* Only a thread about to forget its handle can have one that is closed, or that
\* psmoveapi has handed out again.
DistinctHandles ==
    \A s, r \in Slots : s # r /\ move[s] = move[r] =>
        (move[s] = NULL \/ Forgetting(s) \/ Forgetting(r))
ClosedHandles ==
    \A s \in Slots : move[s] = NULL \/ move[s] \in open \/ Forgetting(s)
NewHandle ==
    mpc = "start" => /\ mmove \in open
                     /\ \A s \in Slots : move[s] = mmove => Forgetting(s)

\* join() finds the thread_ it has just tested.
JoinedHeld == mpc = "joining" => Running(mslot)

\* The inductive invariant between the windows.
Undisturbed == /\ OneUser
               /\ HandleOpen
               /\ SpawnedSlot
               /\ DistinctHandles
               /\ ClosedHandles
               /\ NewHandle
               /\ JoinedHeld

\* A step that moves no thread in its slot, and no handle.
LEMMA SlotsAlone ==
  ASSUME Undisturbed, UNCHANGED <<move, open>>, UNCHANGED <<tslot, tpc>>,
         mpc' = "spawn" => mpc = "spawn" /\ mslot' = mslot,
         mpc' = "start" => mpc = "start" /\ mmove' = mmove,
         JoinedHeld'
  PROVE  Undisturbed'
BY DEF Undisturbed, OneUser, HandleOpen, SpawnedSlot, DistinctHandles, ClosedHandles,
   NewHandle, Forgetting, InSlot

\* A step of a thread that keeps its slot and its handle.
LEMMA ThreadAlone ==
  ASSUME TypeOK, Undisturbed, UNCHANGED <<move, open, tslot, mainVars>>,
         NEW t \in Threads, NEW to \in ThreadPoints \ {"forget", "notify", "done"},
         InSlot(t), tpc[t] # "forget", tpc' = [tpc EXCEPT ![t] = to],
         JoinedHeld'
  PROVE  Undisturbed'
<1>1. /\ \A u \in Threads : InSlot(u)' <=> InSlot(u)
      /\ \A u \in Threads : (tpc[u] = "forget") <=> (tpc'[u] = "forget")
  BY DEF TypeOK, InSlot
<1>2. \A s \in Slots : Forgetting(s)' <=> Forgetting(s)
  BY <1>1 DEF Forgetting
<1> QED
  BY <1>1, <1>2 DEF Undisturbed, OneUser, HandleOpen, SpawnedSlot, DistinctHandles, ClosedHandles,
     NewHandle, mainVars

\* Outside the windows every step keeps slots and handles in order.
LEMMA UndisturbedStep ==
  ASSUME IInv, Undisturbed, ~RaceWindow, ~RaceWindow', [Next]_vars
  PROVE  Undisturbed'
<1>2. TypeOK /\ TypeOK' /\ Ownership
  BY TypeStep DEF IInv
<1>3. ASSUME \/ LoopTop \/ JoinTest \/ JoinCall \/ JoinWait \/ StopTest \/ DisconnectComplete
             \/ CapacityTest \/ ConnectNext \/ DropDevice \/ AssignThread \/ Stop
             \/ Crash \/ UNCHANGED vars
             \/ \E s \in Slots : Silence(s)
             \/ \E t \in Threads : PollData(t)
      PROVE  Undisturbed'
  <2>1. /\ UNCHANGED <<move, open>> /\ UNCHANGED <<tslot, tpc>>
        /\ mpc' = "spawn" => mpc = "spawn" /\ mslot' = mslot
        /\ mpc' = "start" => mpc = "start" /\ mmove' = mmove
        /\ JoinedHeld'
    BY <1>3 DEF LoopTop, JoinTest, NextJoin, JoinCall, JoinWait, StopTest, DisconnectComplete, MainStep,
       CapacityTest, ConnectNext, DropDevice, AssignThread, Stop, Crash, vars, Silence, PollData,
       mainVars, slotVars, threadVars, flagVars, Undisturbed, JoinedHeld, Running
  <2> QED
    BY <2>1, SlotsAlone
<1>4. ASSUME NEW h \in Handles, ConnectDevice(h) PROVE Undisturbed'
  BY <1>4, ListenerAssumption DEF ConnectDevice, MainStep, slotVars, threadVars, Undisturbed, OneUser, HandleOpen,
     SpawnedSlot, DistinctHandles, ClosedHandles, NewHandle, JoinedHeld, InSlot, Forgetting
<1>5. ASSUME NEW s \in Slots, StartSlot(s) PROVE Undisturbed'
  <2>1. mpc' = "spawn" /\ mslot' = s /\ UNCHANGED <<open, tpc, tslot>>
    BY <1>5 DEF StartSlot, MainStep, threadVars
  <2>2. mmove \in open /\ move' = [move EXCEPT ![s] = mmove]
    BY <1>5 DEF StartSlot, MainStep, Undisturbed, NewHandle
  <2>3. \A t \in Threads : InSlot(t) => tslot[t] # s
    <3>1. ASSUME NEW t \in Threads, InSlot(t), tslot[t] = s PROVE FALSE
      <4>1. ~Owning(t)
        BY <1>2, <1>5, <3>1, ListenerAssumption DEF StartSlot, MainStep, FirstFree, FreeSlots, Running, Ownership
      <4>2. tpc[t] \in {"clear", "close", "forget"}
        BY <1>2, <3>1, <4>1 DEF TypeOK, Owning, InSlot, ThreadPoints, Looping, Leaving, Straggling
      <4>3. tpc'[t] \in {"clear", "close", "forget"} /\ tslot'[t] = mslot'
        BY <2>1, <3>1, <4>2
      <4> QED
        BY <2>1, <4>3 DEF RaceWindow, StartedOverStraggler
    <3> QED
      BY <3>1
  <2>4. \A r \in Slots : move'[r] = IF r = s THEN mmove ELSE move[r]
    BY <1>2, <2>2 DEF TypeOK
  <2>5. /\ \A t \in Threads : InSlot(t)' <=> InSlot(t)
        /\ \A r \in Slots : Forgetting(r)' <=> Forgetting(r)
    BY <2>1 DEF InSlot, Forgetting
  <2>6. \A r \in Slots : move[r] = mmove => Forgetting(r)
    BY <1>5 DEF StartSlot, MainStep, Undisturbed, NewHandle
  <2>7. OneUser' /\ HandleOpen'
    BY <1>2, <2>1, <2>3, <2>4, <2>5 DEF TypeOK, Undisturbed, OneUser, HandleOpen
  <2>8. SpawnedSlot' /\ NewHandle' /\ JoinedHeld'
    BY <2>1, <2>2, <2>3, <2>4, <2>5 DEF SpawnedSlot, NewHandle, JoinedHeld
  <2>9. DistinctHandles' /\ ClosedHandles'
    BY <2>1, <2>2, <2>4, <2>5, <2>6 DEF Undisturbed, DistinctHandles, ClosedHandles
  <2> QED
    BY <2>7, <2>8, <2>9 DEF Undisturbed
<1>6. ASSUME NEW t \in Threads, Spawn(t) PROVE Undisturbed'
  <2>1. /\ mpc = "spawn" /\ mpc' = "assign" /\ UNCHANGED <<open, move, mslot>>
        /\ tpc' = [tpc EXCEPT ![t] = "entry"] /\ tslot' = [tslot EXCEPT ![t] = mslot]
        /\ tpc[t] = "done"
    BY <1>6 DEF Spawn, MainStep, Unused, slotVars
  <2>2. /\ tpc'[t] = "entry" /\ tslot'[t] = mslot
        /\ \A u \in Threads : u # t => tpc'[u] = tpc[u] /\ tslot'[u] = tslot[u]
    BY <1>2, <2>1 DEF TypeOK
  <2>3. \A r \in Slots : Forgetting(r)' <=> Forgetting(r)
    BY <2>1, <2>2 DEF Forgetting
  <2> QED
    BY <2>1, <2>2, <2>3 DEF Undisturbed, OneUser, HandleOpen, SpawnedSlot,
       DistinctHandles, ClosedHandles, NewHandle, JoinedHeld, InSlot
<1>7. ASSUME NEW t \in Threads,
             \/ Enter(t) /\ move[tslot[t]] # NULL
             \/ StopCheck(t) \/ PollEmpty(t) \/ SilenceCheck(t) \/ DeleteThread(t) \/ NullThread(t)
             \/ ClearTime(t)
      PROVE  Undisturbed'
  <2>1. /\ UNCHANGED <<move, open, tslot, mainVars>>
        /\ InSlot(t) /\ tpc[t] # "forget"
    BY <1>7 DEF Enter, StopCheck, PollEmpty, SilenceCheck, LeaveLoop, DeleteThread, NullThread, ClearTime,
       ThreadStep,
       InSlot, slotVars
  <2>2. \E to \in ThreadPoints \ {"forget", "notify", "done"} : tpc' = [tpc EXCEPT ![t] = to]
    BY <1>7 DEF Enter, StopCheck, PollEmpty, SilenceCheck, LeaveLoop, DeleteThread, NullThread, ClearTime,
       ThreadStep,
       ThreadPoints, Looping, Leaving, Straggling
  <2>3. JoinedHeld'
    <3>1. CASE NullThread(t)
      <4>1. thread[tslot[t]] = t \/ mpc = "assign"
        BY <1>2, <3>1 DEF NullThread, ThreadStep, Ownership, Owning, Leaving
      <4>2. mpc = "joining" => tslot[t] # mslot
        BY <1>2, <3>1, <4>1, ListenerAssumption
        DEF NullThread, ThreadStep, RaceWindow, FreedBeneathJoin, Running
      <4> QED
        BY <1>2, <2>1, <3>1, <4>2
        DEF NullThread, mainVars, Undisturbed, JoinedHeld, Running, TypeOK
    <3>2. CASE ~NullThread(t)
      BY <1>7, <2>1, <3>2 DEF Enter, StopCheck, PollEmpty, SilenceCheck, DeleteThread,
         ClearTime, slotVars, mainVars, Undisturbed, JoinedHeld, Running
    <3> QED
      BY <3>1, <3>2
  <2> QED
    BY <1>2, <2>1, <2>2, <2>3, ThreadAlone
<1>8. ASSUME NEW t \in Threads, \/ Enter(t) /\ move[tslot[t]] = NULL
                                \/ Notify(t)
      PROVE  Undisturbed'
  <2>1. /\ tpc' = [tpc EXCEPT ![t] = "done"] /\ tslot' = [tslot EXCEPT ![t] = 0]
        /\ tpc[t] \in {"entry", "notify"} /\ UNCHANGED <<slotVars, mainVars, open>>
    BY <1>8 DEF Enter, Notify, End, ThreadStep
  <2>2. /\ tpc'[t] = "done"
        /\ \A u \in Threads : u # t => tpc'[u] = tpc[u] /\ tslot'[u] = tslot[u]
    BY <1>2, <2>1 DEF TypeOK
  <2>3. \A r \in Slots : Forgetting(r)' <=> Forgetting(r)
    BY <2>1, <2>2 DEF Forgetting
  <2> QED
    BY <2>1, <2>2, <2>3 DEF Undisturbed, OneUser, HandleOpen, SpawnedSlot,
       DistinctHandles, ClosedHandles, NewHandle, JoinedHeld, InSlot, slotVars, mainVars, Running
<1>9. ASSUME NEW t \in Threads, CloseMove(t) PROVE Undisturbed'
  <2> DEFINE s == tslot[t]
  <2>1. /\ tpc[t] = "close" /\ tpc' = [tpc EXCEPT ![t] = "forget"]
        /\ open' = open \ {move[s]}
        /\ UNCHANGED <<move, thread, tslot, mainVars>>
    BY <1>9 DEF CloseMove, ThreadStep, slotVars
  <2>2. s \in Slots /\ tpc'[t] = "forget" /\ \A u \in Threads : u # t => tpc'[u] = tpc[u]
    BY <1>2, <2>1 DEF TypeOK
  <2>3. \A u \in Threads : InSlot(u) /\ tslot[u] = s => u = t
    BY <2>1 DEF Undisturbed, OneUser, InSlot
  <2>4. /\ ~Forgetting(s) /\ Forgetting(s)'
        /\ \A r \in Slots : r # s => (Forgetting(r)' <=> Forgetting(r))
    BY <2>1, <2>2, <2>3 DEF Forgetting, InSlot
  <2>5. \A u \in Threads : InSlot(u)' <=> InSlot(u)
    BY <2>1, <2>2 DEF InSlot
  <2>6. move[s] \in open
    BY <2>1 DEF Undisturbed, HandleOpen, InSlot
  <2>7. \A r \in Slots : r # s /\ move[r] = move[s] => Forgetting(r)
    BY <1>2, <2>2, <2>4, <2>6, ListenerAssumption DEF Undisturbed, DistinctHandles, TypeOK
  <2>8. OneUser' /\ JoinedHeld' /\ DistinctHandles' /\ ClosedHandles'
    BY <2>1, <2>4, <2>5, <2>7 DEF Undisturbed, OneUser, JoinedHeld, DistinctHandles, ClosedHandles,
       mainVars, Running
  <2>9. HandleOpen'
    <3>1. ASSUME NEW u \in Threads, InSlot(u), tpc[u] # "forget", u # t
          PROVE  move[tslot[u]] \in open'
      <4>1. tslot[u] \in Slots /\ tslot[u] # s
        BY <1>2, <2>3, <3>1 DEF TypeOK
      <4>2. ~Forgetting(tslot[u])
        BY <3>1 DEF Undisturbed, OneUser, Forgetting, InSlot
      <4> QED
        BY <2>1, <2>7, <3>1, <4>1, <4>2 DEF Undisturbed, HandleOpen
    <3> QED
      BY <2>1, <2>2, <2>5, <3>1 DEF HandleOpen
  <2>10. SpawnedSlot' /\ NewHandle'
    <3>1. ASSUME mpc = "spawn" PROVE move[mslot] # move[s]
      <4>1. mslot \in Slots /\ mslot # s /\ ~Forgetting(mslot)
        BY <1>2, <2>1, <3>1 DEF Undisturbed, SpawnedSlot, InSlot, Forgetting, TypeOK
      <4> QED
        BY <2>7, <4>1
    <3>2. ASSUME mpc = "start" PROVE mmove # move[s]
      BY <2>2, <2>4, <3>2 DEF Undisturbed, NewHandle
    <3> QED
      BY <2>1, <2>2, <2>4, <2>5, <3>1, <3>2 DEF Undisturbed, SpawnedSlot, NewHandle, mainVars
  <2> QED
    BY <2>8, <2>9, <2>10 DEF Undisturbed
<1>10. ASSUME NEW t \in Threads, ForgetMove(t) PROVE Undisturbed'
  <2> DEFINE s == tslot[t]
  <2>1. /\ tpc[t] = "forget" /\ tpc' = [tpc EXCEPT ![t] = "notify"]
        /\ move' = [move EXCEPT ![s] = NULL]
        /\ UNCHANGED <<open, thread, tslot, mainVars>>
    BY <1>10 DEF ForgetMove, ThreadStep
  <2>2. /\ s \in Slots /\ tpc'[t] = "notify" /\ \A u \in Threads : u # t => tpc'[u] = tpc[u]
        /\ \A r \in Slots : move'[r] = IF r = s THEN NULL ELSE move[r]
    BY <1>2, <2>1 DEF TypeOK
  <2>3. \A u \in Threads : InSlot(u) /\ tslot[u] = s => u = t
    BY <2>1 DEF Undisturbed, OneUser, InSlot
  <2>4. \A r \in Slots : r # s => (Forgetting(r)' <=> Forgetting(r))
    BY <2>1, <2>2 DEF Forgetting
  <2>5. ~InSlot(t)' /\ InSlot(t) /\ \A u \in Threads : u # t => (InSlot(u)' <=> InSlot(u))
    BY <2>1, <2>2 DEF InSlot
  <2>6. OneUser' /\ JoinedHeld'
    BY <2>1, <2>5 DEF Undisturbed, OneUser, JoinedHeld, mainVars, Running
  <2>7. HandleOpen'
    BY <1>2, <2>1, <2>2, <2>3, <2>5 DEF TypeOK, Undisturbed, HandleOpen
  <2>8. DistinctHandles' /\ ClosedHandles'
    BY <2>1, <2>2, <2>4 DEF Undisturbed, DistinctHandles, ClosedHandles
  <2>9. SpawnedSlot'
    BY <1>2, <2>1, <2>2, <2>5 DEF Undisturbed, SpawnedSlot, mainVars, TypeOK
  <2>10. NewHandle'
    BY <2>1, <2>2, <2>4 , <1>2, ListenerAssumption DEF Undisturbed, NewHandle, mainVars, TypeOK
  <2> QED
    BY <2>6, <2>7, <2>8, <2>9, <2>10 DEF Undisturbed
<1> QED
  BY <1>3, <1>4, <1>5, <1>6, <1>7, <1>8, <1>9, <1>10
  DEF Next, Main, HandleNewDevice, FreeSlots, Run, Terminated, JoinCrash, JoinWaitCrash,
      SpawnCrash, ThreadCrash

\* Outside the windows nobody uses a freed or closed object but a join() that waits.
LEMMA CrashStep ==
  ASSUME IInv, Undisturbed, ~RaceWindow, crashed => FreedBeneathWait, [Next]_vars
  PROVE  (crashed => FreedBeneathWait)'
<1>1. TypeOK /\ Ownership
  BY DEF IInv
<1>2. ~JoinCrash
  BY DEF JoinCrash, Undisturbed, JoinedHeld, RaceWindow, FreedBeneathJoin
<1>3. ~SpawnCrash
  BY DEF SpawnCrash, Undisturbed, SpawnedSlot
<1>4. ASSUME NEW t \in Threads PROVE ~ThreadCrash(t)
  <2>1. CASE tpc[t] = "detach" /\ ~Running(tslot[t])
    <3>1. thread[tslot[t]] # t
      BY <2>1, ListenerAssumption DEF Running
    <3>2. mpc = "assign" /\ mthread = t
      BY <1>1, <2>1, <3>1 DEF Ownership, Owning, Leaving
    <3> QED
      BY <2>1, <3>2 DEF RaceWindow, DetachedUnassigned
  <2>2. CASE tpc[t] \in {"entry", "poll", "silence", "close"}
    BY <2>1, <2>2 DEF Undisturbed, HandleOpen, InSlot, ThreadCrash
  <2> QED
    BY <2>1, <2>2 DEF ThreadCrash
<1>5. CASE JoinWaitCrash
  BY <1>5 DEF JoinWaitCrash, FreedBeneathWait, Crash, slotVars, threadVars, mainVars
<1>6. CASE UNCHANGED vars
  BY <1>6 DEF vars, FreedBeneathWait, slotVars, threadVars, mainVars
<1>7. CASE ~JoinWaitCrash /\ ~UNCHANGED vars
  <2>1. ~crashed'
    BY <1>2, <1>3, <1>4, <1>7 DEF Next, Main, LoopTop, JoinTest, JoinCall, JoinWait, StopTest,
     DisconnectComplete, CapacityTest, ConnectNext, ConnectDevice, HandleNewDevice,
     StartSlot, DropDevice, Spawn, AssignThread, Run, Enter, StopCheck, PollData,
     PollEmpty, SilenceCheck, DeleteThread, NullThread, ClearTime, CloseMove, ForgetMove, Notify,
     Survives, Silence, Stop, Terminated
  <2> QED
    BY <2>1
<1> QED
  BY <1>5, <1>6, <1>7

\* Nothing is disturbed at the start.
LEMMA UndisturbedInit == Init => Undisturbed
BY ListenerAssumption DEF Init, Undisturbed, OneUser, HandleOpen, SpawnedSlot, DistinctHandles, ClosedHandles,
   NewHandle, JoinedHeld, InSlot

\* Outside the three windows a join() that wakes in an object its thread has freed
\* (psmove_listener.hpp, line 80) is the only way into undefined behaviour, for any
\* number of slots, threads and handles.
THEOREM NoOtherCrashHolds == Spec => NoOtherCrash
<1>1. Init => Undisturbed /\ ~crashed
  BY UndisturbedInit DEF Init
<1>2. IInv /\ Undisturbed /\ ~RaceWindow /\ (~RaceWindow)' /\ [Next]_vars => Undisturbed'
  BY UndisturbedStep
<1>3. IInv /\ Undisturbed /\ ~RaceWindow /\ (crashed => FreedBeneathWait) /\ [Next]_vars
        => (crashed => FreedBeneathWait)'
  BY CrashStep
<1> QED
  BY <1>1, <1>2, <1>3, Inductive, PTL DEF Spec, NoOtherCrash

\* Line 175: outside the windows the threads of connected controllers can always be
\* re-created, because no slot stays with a thread that has ended.  What the run
\* listener_dead_slot shows has no other origin.
NoDeadSlotWithoutRace == []~RaceWindow => []SlotsReusable

\* A slot that is taken is taken by a thread that has yet to give it back.
Occupied(s, t) == Owning(t) /\ tslot[t] = s
TakenByTheLiving ==
    /\ \A s \in Slots : Running(s) => Occupied(s, thread[s])
    /\ mpc = "assign" => Occupied(mslot, mthread) /\ tpc[mthread] # "null"

\* Every step outside the windows leaves the slots with threads that run.
LEMMA TakenStep ==
  ASSUME IInv, Undisturbed, ~RaceWindow, ~RaceWindow', TakenByTheLiving, [Next]_vars
  PROVE  TakenByTheLiving'
<1>1. TypeOK /\ Ownership /\ AssignedThread
  BY DEF IInv
<1> USE <1>1, ListenerAssumption DEF TypeOK, TakenByTheLiving, Occupied, Owning, Looping, Leaving, Running
<1>2. ASSUME \/ LoopTop \/ JoinTest \/ JoinCall \/ Crash \/ JoinWait \/ StopTest \/ DisconnectComplete
             \/ CapacityTest \/ ConnectNext \/ DropDevice \/ Stop
             \/ UNCHANGED vars
             \/ \E h \in Handles : ConnectDevice(h)
             \/ \E s \in Slots : StartSlot(s) \/ Silence(s)
             \/ \E t \in Threads : PollData(t)
      PROVE  TakenByTheLiving'
  <2>1. /\ UNCHANGED thread /\ UNCHANGED <<tslot, tpc>>
        /\ mpc' = "assign" => mpc = "assign" /\ mslot' = mslot /\ mthread' = mthread
    BY <1>2 DEF LoopTop, JoinTest, NextJoin, JoinCall, JoinWait, StopTest, DisconnectComplete,
       MainStep, CapacityTest, ConnectNext, DropDevice, ConnectDevice, StartSlot, Stop,
       Crash, vars, Silence, PollData, mainVars, slotVars, threadVars
  <2> QED
    BY <2>1
<1>3. CASE AssignThread BY <1>3 DEF AssignThread, MainStep, threadVars
<1>4. ASSUME NEW t \in Threads, Spawn(t) PROVE TakenByTheLiving'
  BY <1>4 DEF Spawn, MainStep, Unused, slotVars
<1>5. ASSUME NEW t \in Threads, NEW to \in {"entry", "detach", "null"} \union Looping,
             tpc' = [tpc EXCEPT ![t] = to], UNCHANGED <<tslot, thread, mainVars>>,
             to = "null" => tpc[t] = "detach"
      PROVE  TakenByTheLiving'
  BY <1>5 DEF mainVars, RaceWindow, DetachedUnassigned
<1>6. ASSUME NEW t \in Threads, Enter(t) \/ StopCheck(t) \/ PollEmpty(t) \/ SilenceCheck(t) \/ DeleteThread(t)
      PROVE  TakenByTheLiving'
  <2>1. Enter(t) => move[tslot[t]] # NULL
    BY DEF Enter, End, ThreadStep, Undisturbed, HandleOpen, InSlot
  <2> QED
    BY <1>5, <1>6, <2>1 DEF Enter, StopCheck, PollEmpty, SilenceCheck, LeaveLoop, DeleteThread, ThreadStep, slotVars
<1>7. ASSUME NEW t \in Threads, NullThread(t) PROVE TakenByTheLiving'
  <2>1. tpc[t] = "null" /\ thread' = [thread EXCEPT ![tslot[t]] = NULL]
        /\ tpc' = [tpc EXCEPT ![t] = "clear"] /\ UNCHANGED <<tslot, mainVars>>
    BY <1>7 DEF NullThread, ThreadStep
  <2>2. mpc = "assign" => mthread # t
    BY <2>1
  <2>3. \A u \in Threads : u # t => tpc'[u] = tpc[u] /\ tslot'[u] = tslot[u]
    BY <2>1
  <2>4. ASSUME NEW s \in Slots, thread'[s] # NULL
        PROVE  thread'[s] = thread[s] /\ thread[s] \in Threads \ {t}
    <3>1. thread'[s] = thread[s] /\ s # tslot[t]
      BY <2>1, <2>4
    <3> QED
      BY <2>4, <3>1
  <2> QED
    BY <2>1, <2>2, <2>3, <2>4 DEF mainVars
<1>8. ASSUME NEW t \in Threads, ClearTime(t) \/ CloseMove(t) \/ ForgetMove(t) \/ Notify(t)
      PROVE  TakenByTheLiving'
  <2>1. /\ UNCHANGED <<thread, mainVars>> /\ tpc[t] \in Straggling
        /\ \A u \in Threads : u # t => tpc'[u] = tpc[u] /\ tslot'[u] = tslot[u]
    BY <1>8 DEF ClearTime, CloseMove, ForgetMove, Notify, End, ThreadStep, slotVars, Straggling
  <2>2. /\ \A s \in Slots : thread[s] # NULL => thread[s] \in Threads \ {t}
        /\ mpc = "assign" => mthread \in Threads \ {t}
    BY <2>1 DEF AssignedThread, Straggling
  <2>3. thread' = thread /\ mpc' = mpc /\ mthread' = mthread /\ mslot' = mslot
    BY <2>1 DEF mainVars
  <2> QED
    BY <2>1, <2>2, <2>3
<1> QED
  BY <1>2, <1>3, <1>4, <1>6, <1>7, <1>8
  DEF Next, Main, HandleNewDevice, FreeSlots, Run, Terminated, JoinCrash, JoinWaitCrash,
      SpawnCrash, ThreadCrash

\* Line 428 and the other lines that touch a slot after 422 are harmless outside the
\* windows, for any number of slots, threads and handles.
THEOREM NoDeadSlotWithoutRaceHolds == Spec => NoDeadSlotWithoutRace
<1>1. Init => Undisturbed /\ TakenByTheLiving
  BY UndisturbedInit DEF Init, TakenByTheLiving, Running
<1>2. IInv /\ Undisturbed /\ ~RaceWindow /\ (~RaceWindow)' /\ [Next]_vars => Undisturbed'
  BY UndisturbedStep
<1>3. IInv /\ Undisturbed /\ TakenByTheLiving /\ ~RaceWindow /\ (~RaceWindow)' /\ [Next]_vars
        => TakenByTheLiving'
  BY TakenStep
<1>4. TakenByTheLiving => SlotsReusable
  BY DEF TakenByTheLiving, Occupied, Owning, Looping, Leaving, SlotsReusable
<1> QED
  BY <1>1, <1>2, <1>3, <1>4, Inductive, PTL DEF Spec, NoDeadSlotWithoutRace
=============================================================================
