--------------------------- MODULE PSMoveListener ---------------------------
(***************************************************************************)
(* PSMoveListener and its controller threads (psmove_listener.cpp).         *)
(*                                                                          *)
(* One main thread runs run(): it joins the controller threads when one of  *)
(* them has asked for it, and otherwise looks for a controller to connect   *)
(* and starts a thread for it in a free slot, an element of                 *)
(* controllerThreads_.  Each controller thread runs operator()() on the     *)
(* fields of its slot, which it shares with the main thread and, since it   *)
(* gives its slot back before it is done with it, with its successor.  None *)
(* of these fields is guarded by a lock: a step below reads or writes one   *)
(* shared field, or several that no other thread can tell apart.            *)
(***************************************************************************)
EXTENDS Integers

CONSTANTS
    MAX_CONTROLLERS,  \* slots, and psmoveapi identifiers (2 in the source)
    Threads,          \* threads of execution that may run operator()()
    Handles,          \* PSMove objects psmoveapi can hand out
    NULL

ASSUME ListenerAssumption ==
    /\ MAX_CONTROLLERS \in Nat \ {0}
    /\ NULL \notin Threads
    /\ NULL \notin Handles

VARIABLES
    stop,        \* stop_
    threadStop,  \* threadStop_
    thread,      \* slot -> thread_ : whose boost::thread object it points to
    move,        \* slot -> move_
    psmoveId,    \* slot -> psmoveId_
    lastTp,      \* slot -> lastTp_ : zero, fresh, or older than the timeout
    tpc,         \* thread -> where it is in operator()()
    tslot,       \* thread -> the ControllerThread it runs
    mpc,         \* where the main thread is in run()
    mslot,       \* main: the slot being joined, or started
    mid,         \* main: psmoveId, the identifier connect() tries
    mthread,     \* main: the thread being joined, or just created
    mmove,       \* main: move, the handle just connected
    open,        \* psmoveapi: the PSMove objects that are not closed
    dirty,       \* history: a thread has left its loop since the last reset()
    crashed      \* the process died on a null or freed object

flagVars == <<stop, threadStop>>
slotVars == <<thread, move, psmoveId, lastTp>>
threadVars == <<tpc, tslot>>
mainVars == <<mpc, mslot, mid, mthread, mmove>>
vars == <<flagVars, slotVars, threadVars, mainVars, open, dirty, crashed>>

Slots == 0 .. MAX_CONTROLLERS - 1

MainPoints == {"loop", "join", "joining", "wait", "joined", "reset",
               "capacity", "connect", "start", "spawn", "assign", "exited"}
Looping == {"check", "poll", "silence"}
Leaving == {"detach", "null"}
Straggling == {"clear", "close", "forget", "notify"}
ThreadPoints == {"entry", "done"} \union Looping \union Leaving \union Straggling

\* The fields have values of their types.  A thread that has never run is "done".
TypeOK ==
    /\ stop \in BOOLEAN
    /\ threadStop \in BOOLEAN
    /\ thread \in [Slots -> Threads \union {NULL}]
    /\ move \in [Slots -> Handles \union {NULL}]
    /\ psmoveId \in [Slots -> Slots]
    /\ lastTp \in [Slots -> {"zero", "fresh", "stale"}]
    /\ tpc \in [Threads -> ThreadPoints]
    /\ tslot \in [Threads -> Slots]
    /\ mpc \in MainPoints
    /\ mslot \in Slots
    /\ mid \in Slots
    /\ mthread \in Threads \union {NULL}
    /\ mmove \in Handles \union {NULL}
    /\ open \subseteq Handles
    /\ dirty \in BOOLEAN
    /\ crashed \in BOOLEAN

Init ==
    /\ stop = FALSE
    /\ threadStop = FALSE
    /\ thread = [s \in Slots |-> NULL]
    /\ move = [s \in Slots |-> NULL]
    /\ psmoveId = [s \in Slots |-> 0]
    /\ lastTp = [s \in Slots |-> "zero"]
    /\ tpc = [t \in Threads |-> "done"]
    /\ tslot = [t \in Threads |-> 0]
    /\ mpc = "loop"
    /\ mslot = 0
    /\ mid = 0
    /\ mthread = NULL
    /\ mmove = NULL
    /\ open = {}
    /\ dirty = FALSE
    /\ crashed = FALSE

-----------------------------------------------------------------------------
(* What the methods of the listener and of ControllerThread compute.        *)
(* Mut... is a faulty variant of the operator it precedes, to confirm that   *)
(* the properties can fail.                                                  *)

MutNeedToStop == threadStop
NeedToStop == stop \/ threadStop

MutRunning(s) == lastTp[s] # "zero"
Running(s) == thread[s] # NULL

IsFullCapacity == \A s \in Slots : Running(s)

\* connect(): a running controller thread has this psmoveapi identifier.
MutExists(i) == FALSE
Exists(i) == \E s \in Slots : Running(s) /\ psmoveId[s] = i

MutFreeSlots == {s \in Slots : move[s] = NULL}
\* handleNewDevice(): the slots that can take the new device, in order.
FreeSlots == {s \in Slots : ~Running(s)}
FirstFree(s) == s \in FreeSlots /\ \A r \in FreeSlots : s <= r

MutOnDisconnect == UNCHANGED threadStop
\* onDisconnect(), under the listener's mutex.
OnDisconnect == threadStop' = TRUE

MutTimedOut(s) == FALSE
\* The timeout test of operator()(): there was data once, and it is too old.
TimedOut(s) == lastTp[s] = "stale"

MutHasNextSlack(i) == i + 1 <= MAX_CONTROLLERS
\* A loop over the slots or the identifiers has an iteration left after i.
HasNext(i) == i + 1 < MAX_CONTROLLERS

-----------------------------------------------------------------------------
(* Steps of the main thread.  Its local variables are 0 or NULL while unused. *)

MainStep(from, to) == mpc = from /\ mpc' = to

\* A step of a process that has not been terminated and goes on.
Survives == ~crashed /\ crashed' = FALSE

Crash == /\ ~crashed /\ crashed' = TRUE
         /\ UNCHANGED <<flagVars, slotVars, threadVars, mainVars, open, dirty>>

\* The top of the loop: stop_ || threadStop_.
LoopTop ==
    /\ mpc = "loop"
    /\ mpc' = IF NeedToStop THEN "join" ELSE "capacity"
    /\ mslot' = 0
    /\ UNCHANGED <<flagVars, slotVars, threadVars, mid, mthread, mmove, open, dirty>>
    /\ Survives

MutNextJoin == mthread' = NULL /\ mpc' = "joined" /\ mslot' = 0
\* join() of the next slot, or the end of the joining loop.
NextJoin ==
    /\ mthread' = NULL
    /\ IF HasNext(mslot) THEN mpc' = "join" /\ mslot' = mslot + 1
                         ELSE mpc' = "joined" /\ mslot' = 0

\* join(): if (thread_ != nullptr) ...
JoinTest ==
    /\ mpc = "join"
    /\ IF Running(mslot) THEN mpc' = "joining" /\ UNCHANGED <<mslot, mthread>>
                         ELSE NextJoin
    /\ UNCHANGED <<flagVars, slotVars, threadVars, mid, mmove, open, dirty>> /\ Survives

\* ... thread_->join(), which reads thread_ again and waits if the object is
\* still attached to its thread.  Detached (line 420), it returns at once; freed
\* (line 421), it may return at once, or die in JoinCrash.
JoinCall ==
    /\ mpc = "joining"
    /\ Running(mslot)
    /\ IF tpc[thread[mslot]] = "null"
         THEN NextJoin
         ELSE mpc' = "wait" /\ mthread' = thread[mslot] /\ UNCHANGED mslot
    /\ UNCHANGED <<flagVars, slotVars, threadVars, mid, mmove, open, dirty>> /\ Survives

\* The owner has nulled thread_ since the test, or has freed the object.
JoinCrash ==
    /\ mpc = "joining"
    /\ Running(mslot) => tpc[thread[mslot]] = "null"
    /\ Crash

\* The thread that join() waits for has deleted the object join() was called on
\* (line 421), as every thread does at the end of operator()().
FreedBeneathWait ==
    /\ mpc = "wait"
    /\ thread[mslot] # mthread \/ tpc[mthread] = "null"

\* Woken by the end of the thread, boost::thread::join() reads and may reset
\* thread_info of its object.  In a freed one this may go well, as in JoinWait, or
\* not.
JoinWaitCrash ==
    /\ FreedBeneathWait
    /\ tpc[mthread] = "done"
    /\ Crash

\* boost::thread::join() returns when the thread has ended.
JoinWait ==
    /\ mpc = "wait"
    /\ tpc[mthread] = "done"
    /\ NextJoin
    /\ UNCHANGED <<flagVars, slotVars, threadVars, mid, mmove, open, dirty>> /\ Survives

\* After the joins: leave run(), or drop the request, without the mutex.
StopTest ==
    /\ mpc = "joined"
    /\ IF stop THEN mpc' = "exited" /\ UNCHANGED threadStop
               ELSE mpc' = "reset" /\ threadStop' = FALSE
    /\ UNCHANGED <<stop, slotVars, threadVars, mslot, mid, mthread, mmove, open, dirty>>
    /\ Survives

\* disconnectCompleteSignal_(), which calls PSMoveHandler::reset().
DisconnectComplete ==
    /\ MainStep("reset", "capacity")
    /\ dirty' = FALSE
    /\ UNCHANGED <<flagVars, slotVars, threadVars, mslot, mid, mthread, mmove, open>>
    /\ Survives

\* isFullCapacity(); when full the main thread sleeps and starts over.
CapacityTest ==
    /\ mpc = "capacity"
    /\ mpc' = IF IsFullCapacity THEN "loop" ELSE "connect"
    /\ mid' = 0
    /\ UNCHANGED <<flagVars, slotVars, threadVars, mslot, mthread, mmove, open, dirty>>
    /\ Survives

\* connect(): a thread has this identifier, or there is no such controller, or
\* it is on USB and its handle is closed at once: try the next identifier.
ConnectNext ==
    /\ mpc = "connect"
    /\ IF HasNext(mid) THEN mid' = mid + 1 /\ UNCHANGED mpc
                       ELSE mpc' = "loop" /\ mid' = 0
    /\ UNCHANGED <<flagVars, slotVars, threadVars, mslot, mthread, mmove, open, dirty>>
    /\ Survives

\* connect(): psmove_connect_by_id() opens a Bluetooth controller.
ConnectDevice(h) ==
    /\ MainStep("connect", "start")
    /\ ~Exists(mid)
    /\ h \notin open
    /\ open' = open \union {h}
    /\ mmove' = h
    /\ UNCHANGED <<flagVars, slotVars, threadVars, mslot, mid, mthread, dirty>>
    /\ Survives

\* handleNewDevice() and the fields start() sets: the first slot that is not
\* running takes the device ...
StartSlot(s) ==
    /\ MainStep("start", "spawn")
    /\ FirstFree(s)
    /\ mslot' = s
    /\ psmoveId' = [psmoveId EXCEPT ![s] = mid]
    /\ move' = [move EXCEPT ![s] = mmove]
    /\ mmove' = NULL /\ mid' = 0
    /\ UNCHANGED <<flagVars, thread, lastTp, threadVars, mthread, open, dirty>>
    /\ Survives

\* ... and with none, the open handle is dropped.
DropDevice ==
    /\ MainStep("start", "loop")
    /\ mmove' = NULL /\ mid' = 0
    /\ UNCHANGED <<flagVars, slotVars, threadVars, mslot, mthread, open, dirty>>
    /\ Survives

HandleNewDevice == IF FreeSlots = {} THEN DropDevice
                                     ELSE \E s \in FreeSlots : StartSlot(s)

\* A thread object can be created for t: t has ended and nothing refers to it.
Unused(t) == /\ tpc[t] = "done"
             /\ \A s \in Slots : thread[s] # t
             /\ mthread # t

\* start(): psmove_get_serial(move_), then new boost::thread.
Spawn(t) ==
    /\ MainStep("spawn", "assign")
    /\ move[mslot] # NULL
    /\ Unused(t)
    /\ tpc' = [tpc EXCEPT ![t] = "entry"]
    /\ tslot' = [tslot EXCEPT ![t] = mslot]
    /\ mthread' = t
    /\ UNCHANGED <<flagVars, slotVars, mslot, mid, mmove, open, dirty>> /\ Survives

\* The serial of a null handle is a null string; a closed one is freed memory.
SpawnCrash ==
    /\ mpc = "spawn"
    /\ move[mslot] \notin open
    /\ Crash

\* start(): thread_ = the object just created, whose thread already runs.
AssignThread ==
    /\ MainStep("assign", "loop")
    /\ thread' = [thread EXCEPT ![mslot] = mthread]
    /\ mthread' = NULL /\ mslot' = 0
    /\ UNCHANGED <<flagVars, move, psmoveId, lastTp, threadVars, mid, mmove, open, dirty>>
    /\ Survives

-----------------------------------------------------------------------------
(* Steps of a controller thread, on the fields of the slot it runs.          *)

ThreadStep(t, from, to) == tpc[t] = from /\ tpc' = [tpc EXCEPT ![t] = to]

\* operator()() returns; an ended thread runs no slot, 0 stands for that.
End(t, from) == ThreadStep(t, from, "done") /\ tslot' = [tslot EXCEPT ![t] = 0]

\* The thread leaves its loop: no event of this controller any more.
LeaveLoop(t, from) == ThreadStep(t, from, "detach") /\ dirty' = TRUE

\* Null handle: return.  Otherwise setLeds() and into the loop.
Enter(t) ==
    /\ IF move[tslot[t]] = NULL THEN End(t, "entry")
                               ELSE ThreadStep(t, "entry", "check") /\ UNCHANGED tslot
    /\ UNCHANGED <<flagVars, slotVars, mainVars, open, dirty>> /\ Survives

\* The top of the thread's loop: listener_->needToStop().
StopCheck(t) ==
    /\ \/ NeedToStop /\ LeaveLoop(t, "check")
       \/ ~NeedToStop /\ ThreadStep(t, "check", "poll") /\ UNCHANGED dirty
    /\ UNCHANGED <<flagVars, slotVars, tslot, mainVars, open>> /\ Survives

\* psmove_poll() returned a frame: its signals are delivered, and lastTp_ is
\* now.  The Disconnect key, pressed or released, calls onDisconnectKey().
PollData(t) ==
    /\ tpc[t] = "poll"
    /\ move[tslot[t]] \in open
    /\ lastTp' = [lastTp EXCEPT ![tslot[t]] = "fresh"]
    /\ OnDisconnect \/ UNCHANGED threadStop
    /\ UNCHANGED <<stop, thread, move, psmoveId, threadVars, mainVars, open, dirty>>
    /\ Survives

\* psmove_poll() has nothing (more); of a null handle it never has anything.
PollEmpty(t) ==
    /\ ThreadStep(t, "poll", "silence")
    /\ UNCHANGED <<flagVars, slotVars, tslot, mainVars, open, dirty>> /\ Survives

\* The timeout test, and the sleep.
SilenceCheck(t) ==
    /\ \/ TimedOut(tslot[t]) /\ LeaveLoop(t, "silence")
       \/ ~TimedOut(tslot[t]) /\ ThreadStep(t, "silence", "check") /\ UNCHANGED dirty
    /\ UNCHANGED <<flagVars, slotVars, tslot, mainVars, open>> /\ Survives

\* The handle is closed here already, and once more in its old place.
MutDeleteThread(t) ==
    /\ ThreadStep(t, "detach", "null")
    /\ Running(tslot[t])
    /\ open' = open \ {move[tslot[t]]}
    /\ UNCHANGED <<flagVars, slotVars, tslot, mainVars, dirty>> /\ Survives

\* thread_->detach() and delete thread_, also beneath a join() that is about to use
\* the object (JoinCrash) or waits in it (JoinWaitCrash).  What join() does on an
\* object that is detached but not freed yet, it can also do on a freed one.
DeleteThread(t) ==
    /\ ThreadStep(t, "detach", "null")
    /\ Running(tslot[t])
    /\ UNCHANGED <<flagVars, slotVars, tslot, mainVars, open, dirty>> /\ Survives

\* thread_ = nullptr: from here on the slot is free for a successor.
NullThread(t) ==
    /\ ThreadStep(t, "null", "clear")
    /\ thread' = [thread EXCEPT ![tslot[t]] = NULL]
    /\ UNCHANGED <<flagVars, move, psmoveId, lastTp, tslot, mainVars, open, dirty>>
    /\ Survives

\* lastTp_ = 0, perhaps a successor's by now.
ClearTime(t) ==
    /\ ThreadStep(t, "clear", "close")
    /\ lastTp' = [lastTp EXCEPT ![tslot[t]] = "zero"]
    /\ UNCHANGED <<flagVars, thread, move, psmoveId, tslot, mainVars, open, dirty>>
    /\ Survives

\* psmove_disconnect(move_), whatever move_ is by now.
CloseMove(t) ==
    /\ ThreadStep(t, "close", "forget")
    /\ open' = open \ {move[tslot[t]]}
    /\ UNCHANGED <<flagVars, slotVars, tslot, mainVars, dirty>>
    /\ Survives

\* move_ = nullptr
ForgetMove(t) ==
    /\ ThreadStep(t, "forget", "notify")
    /\ move' = [move EXCEPT ![tslot[t]] = NULL]
    /\ UNCHANGED <<flagVars, thread, psmoveId, lastTp, tslot, mainVars, open, dirty>>
    /\ Survives

\* listener_->onDisconnect(), and the thread ends.
Notify(t) ==
    /\ End(t, "notify")
    /\ OnDisconnect
    /\ UNCHANGED <<stop, slotVars, mainVars, open, dirty>> /\ Survives

\* detach() of a thread_ that the main thread has not assigned yet, or a use of
\* a PSMove object that somebody else has closed.
ThreadCrash(t) ==
    /\ \/ tpc[t] = "detach" /\ ~Running(tslot[t])
       \/ /\ tpc[t] \in {"entry", "poll", "silence", "close"}
          /\ move[tslot[t]] \notin open \union {NULL}
    /\ Crash

-----------------------------------------------------------------------------
(* The environment.                                                         *)

\* stop(), from the handler of SIGINT or SIGTERM.
Stop == /\ ~stop
        /\ stop' = TRUE
        /\ UNCHANGED <<threadStop, slotVars, threadVars, mainVars, open, dirty>>
        /\ Survives

\* disconnectTimeout_ has passed since the last frame of a controller.
Silence(s) == /\ lastTp[s] = "fresh"
              /\ lastTp' = [lastTp EXCEPT ![s] = "stale"]
              /\ UNCHANGED <<flagVars, thread, move, psmoveId, threadVars, mainVars, open, dirty>>
              /\ Survives

\* run() has returned and every thread has ended, or the process is dead.
Terminated == /\ crashed \/ (mpc = "exited" /\ \A t \in Threads : tpc[t] = "done")
              /\ UNCHANGED vars

Main == \/ LoopTop \/ JoinTest \/ JoinCall \/ JoinCrash \/ JoinWait \/ JoinWaitCrash
        \/ StopTest \/ DisconnectComplete
        \/ CapacityTest \/ ConnectNext \/ \E h \in Handles : ConnectDevice(h)
        \/ HandleNewDevice
        \/ \E t \in Threads : Spawn(t)
        \/ SpawnCrash \/ AssignThread

\* What a controller thread does whether or not its controller sends data.
Run(t) == \/ Enter(t) \/ StopCheck(t) \/ PollEmpty(t) \/ SilenceCheck(t)
          \/ DeleteThread(t) \/ NullThread(t)
          \/ ClearTime(t) \/ CloseMove(t) \/ ForgetMove(t) \/ Notify(t) \/ ThreadCrash(t)

Next == \/ Main
        \/ \E t \in Threads : Run(t) \/ PollData(t)
        \/ \E s \in Slots : Silence(s)
        \/ Stop
        \/ Terminated

Spec == Init /\ [][Next]_vars

\* The operating system schedules the main thread and every controller thread,
\* and psmove_poll() empties its queue faster than a controller fills it.
FairSpec == /\ Spec
            /\ WF_vars(Main)
            /\ \A t \in Threads : WF_vars(Run(t))

-----------------------------------------------------------------------------
(* Safety.                                                                   *)

\* The events of one controller slot come from one thread at a time, so they
\* reach the handler in order: start() never puts a second thread into its loop
\* on a slot (line 297), though the predecessor may still be cleaning up.
SingleDelivery ==
    \A t, u \in Threads : /\ tpc[t] \in Looping
                          /\ tpc[u] \in Looping
                          /\ tslot[t] = tslot[u]
                          => t = u

\* disconnectCompleteSignal_() (line 103) is raised when no controller thread
\* delivers events, although the joins may have missed a thread on its way out.
ResetAlone == mpc = "reset" => \A t \in Threads : tpc[t] \notin Looping

\* Two connected controllers never have the same psmoveapi identifier
\* (connect(), line 206): one controller does not drive both ids.
UniqueIds ==
    \A t, u \in Threads : /\ tpc[t] \in Looping
                          /\ tpc[u] \in Looping
                          /\ psmoveId[tslot[t]] = psmoveId[tslot[u]]
                          => tslot[t] = tslot[u]

\* The slot that isFullCapacity() saw free is still free when the device is
\* handed over, so handleNewDevice() never drops an open handle (line 166).
NoHandleDropped == mpc = "start" => FreeSlots # {}

\* When run() has returned and the destructors may run (psmoveinput.cpp, lines 77 to
\* 95), every controller thread that is still alive has passed its last log entry
\* and its last event: of what they delete it uses the listener only.
QuietAtExit ==
    mpc = "exited" => \A t \in Threads : tpc[t] \in {"null", "done"} \union Straggling

(* The races on the fields of a slot.  The model lets the process die of them; this *)
(* is what it dies of.  One lies on the ordinary way: a join() that waits does so  *)
(* in an object that its thread deletes before it ends (FreedBeneathWait).  The    *)
(* three others are windows of a few instructions each.                            *)

\* join() has found a thread_ (psmove_listener.hpp, line 80) and is about to use it,
\* and its owner has deleted the object and is about to null the pointer.
FreedBeneathJoin == /\ mpc = "joining"
                    /\ Running(mslot)
                    /\ tpc[thread[mslot]] = "null"

\* A new thread has been told to stop, and is at detach() (line 420) before start()
\* has assigned thread_ (line 319).
DetachedUnassigned == mpc = "assign" /\ tpc[mthread] = "detach"

\* start() (line 297) has filled a slot whose previous thread has given it back and
\* has yet to clear lastTp_ and to close and forget the handle it finds there (423 to 428).
StartedOverStraggler ==
    mpc = "spawn" /\ \E t \in Threads : tslot[t] = mslot /\ tpc[t] \in {"clear", "close", "forget"}

RaceWindow == FreedBeneathJoin \/ DetachedUnassigned \/ StartedOverStraggler

\* As long as no window occurs, a join() that waits (psmove_listener.hpp, line 80) is
\* the only one to use a thread_ after delete (line 421), and nobody uses a PSMove
\* handle after psmove_disconnect(), closes one twice or follows a null pointer,
\* however the threads leave, the slots are reused and psmoveapi hands out the
\* memory of closed handles again.
NoOtherCrash == []~RaceWindow => [](crashed => FreedBeneathWait)

(* A comment of the source that the code does not keep.  The root is line 422: *)
(* the pointer is nulled before the thread is done, so that the joins ("wait    *)
(* until all controller threads complete execution", line 84) and start() (line *)
(* 297) take a slot for idle whose thread still changes its fields.             *)

\* Line 175: after a disconnect, threads for connected controllers "will be
\* re-created on next main listener loop iteration": they can be only if no slot
\* is held by a thread that has ended, which nothing would ever take out of it.
SlotsReusable ==
    mpc = "reset" => \A s \in Slots : Running(s) => tpc[thread[s]] # "done"

-----------------------------------------------------------------------------
(* The handler's view: PSMoveListener implements HandlerCallers.             *)

\* The threads that deliver a slot's events: those inside their loop.
Callers == [s \in Slots |-> {t \in Threads : tslot[t] = s /\ tpc[t] \in Looping}]

Contract == INSTANCE HandlerCallers WITH callers <- Callers

\* Every step of the threads is a step of what the handler may rely on: a slot
\* is taken over only after the previous thread has stopped delivering, and
\* reset() (psmoveinput.cpp, line 359) is called while nobody delivers.
ImplementsContract == Contract!Spec

-----------------------------------------------------------------------------
(* Liveness.                                                                 *)

\* stop() makes run() return, whatever the controllers do meanwhile.
StopTerminates == stop ~> mpc = "exited" \/ crashed

\* A controller that is gone leads to a disconnect-complete signal, even when
\* line 101 overwrites the request of a thread the joins did not wait for.
LeaveLeadsToReset == dirty ~> ~dirty \/ stop \/ crashed

\* A controller that has gone silent does not stay connected forever, unless it
\* comes back: its thread leaves the loop on its timeout, and, if a predecessor in
\* the slot clears lastTp_ under it (line 423), on that one's request (line 430).
SilenceEnds ==
    \A s \in Slots :
        lastTp[s] = "stale" ~>
            \/ lastTp[s] = "fresh" \/ crashed
            \/ \A t \in Threads : tslot[t] = s => tpc[t] \notin Looping
=============================================================================
