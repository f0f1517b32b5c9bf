---------------------------- MODULE PSMoveInputRef --------------------------
(***************************************************************************)
(* The singleton PSMoveInput and its reference count (psmoveinput.cpp,      *)
(* main.cpp) between main() and signal_handler().                           *)
(*                                                                          *)
(* main() holds a reference while it is in run().  The handler of SIGINT,   *)
(* SIGQUIT and SIGTERM takes one, calls stop() and releases it.  It runs on *)
(* any thread that the kernel picks: it interrupts that thread, and runs    *)
(* next to the others.  The three signals are masked while it runs, on its  *)
(* own thread only.  Nothing guards refs_ and instance_, so getRef() and    *)
(* releaseRef() are split into their reads and writes.                      *)
(*                                                                          *)
(* A context is a flow of control: PROG is main(), and every other one is   *)
(* the handler on the thread it is named after, MAIN or a controller thread.*)
(* The model begins where setupSignals() ends and stops at the first use of *)
(* an object that has been deleted: what follows is undefined.              *)
(***************************************************************************)
EXTENDS Integers

CONSTANTS
    Threads,  \* threads of execution of the controllers
    MAIN,     \* the main thread, as a host of signal handlers
    PROG,     \* main() on that thread
    Objects,  \* addresses that new PSMoveInput() can return
    First,    \* the one that main()'s getRef() has got
    MaxSignals,  \* bound: how many signals arrive
    NULL

Hosts == Threads \union {MAIN}
Contexts == Hosts \union {PROG}

ASSUME RefAssumption ==
    /\ MAIN \notin Threads /\ PROG \notin Hosts
    /\ First \in Objects /\ NULL \notin Objects
    /\ MaxSignals \in Nat

VARIABLES
    refs,       \* refs_
    instance,   \* instance_
    alive,      \* the objects that are not deleted
    listening,  \* those whose listener_ is not null
    stop,       \* stop_ of the listener
    pc,         \* context -> where it is
    reg,        \* context -> the value of refs_ it has read
    ptr,        \* context -> the object it works on
    thread,     \* controller thread -> whether run() has to wait for it
    signals,    \* how many signals have arrived
    overlapped, \* history: two threads have used the reference count at a time
    late,       \* history: a signal has interrupted the deletion in main()
    dangling    \* a deleted object has been used, or deleted again

sharedVars == <<refs, instance, alive, listening, stop>>
contextVars == <<pc, reg, ptr>>
historyVars == <<overlapped, late, dangling>>
vars == <<sharedVars, contextVars, thread, signals, historyVars>>

Running == {"armed", "listening", "joining"}
Releasing == {"decRead", "decWrite", "decTest", "load", "delete", "forget"}
\* A handler in PSMoveInput::stop().
Stopping == {"stop", "stopping"}
Handling == {"test", "create", "incRead", "incWrite", "deref"} \union Stopping

\* The fields have values of their types; the count stays natural as long as the
\* threads do not get in each other's way.
TypeOK ==
    /\ refs \in Int
    /\ ~overlapped => refs \in 0 .. 2
    /\ instance \in Objects \union {NULL}
    /\ alive \subseteq Objects /\ listening \subseteq alive
    /\ {stop, overlapped, late, dangling} \subseteq BOOLEAN
    /\ pc \in [Contexts -> Running \union Releasing \union Handling
                             \union {"idle", "done", "exited"}]
    /\ pc[PROG] \in Running \union Releasing \union {"done", "exited"}
    /\ \A h \in Hosts : pc[h] \in Handling \union Releasing \union {"idle"}
    /\ reg \in [Contexts -> Int]
    /\ ptr \in [Contexts -> Objects \union {NULL}]
    /\ thread \in [Threads -> {"none", "running", "straggling"}]
    /\ signals \in 0 .. MaxSignals

\* main() has called getRef(), and run() has come to the end of setupSignals().
Init ==
    /\ refs = 1
    /\ instance = First
    /\ alive = {First}
    /\ listening = {}
    /\ stop = FALSE
    /\ pc = [c \in Contexts |-> IF c = PROG THEN "armed" ELSE "idle"]
    /\ reg = [c \in Contexts |-> 0]
    /\ ptr = [c \in Contexts |-> NULL]
    /\ thread = [t \in Threads |-> "none"]
    /\ signals = 0
    /\ overlapped = FALSE
    /\ late = FALSE
    /\ dangling = FALSE

-----------------------------------------------------------------------------
(* Mut... is a faulty variant of the operator it precedes, to confirm that   *)
(* the properties can fail.                                                  *)

MutIncremented(v) == v
\* refs_++
Incremented(v) == v + 1

MutDecremented(v) == v
\* refs_--
Decremented(v) == v - 1

MutForgotten(p) == p
\* instance_ = nullptr, after the deletion.
Forgotten(p) == NULL

MutLastGone(v) == v <= 1
\* if (refs_ == 0)
LastGone(v) == v = 0

MutStopped(o) == stop
\* PSMoveListener::stop() of the listener of o.
Stopped(o) == stop \/ o \in listening

Active(h) == pc[h] # "idle"

\* A context whose thread the kernel can run: main() waits for its own handler.
Step(c, from, to) ==
    /\ ~dangling /\ pc[PROG] # "exited"
    /\ c = PROG => ~Active(MAIN)
    /\ pc[c] = from
    /\ pc' = [pc EXCEPT ![c] = to]

\* The step is a use of o: without o, this is the end of the model.
Uses(o) == dangling' = (o \notin alive)

Calm == UNCHANGED <<overlapped, late, signals>>

-----------------------------------------------------------------------------
(* signal_handler() and getRef() on host h.                                  *)

\* A signal arrives.  It meets another thread that uses the reference count, or
\* main() on its own thread between the decision to delete and its end.
Signal(h) ==
    /\ h # MAIN => thread[h] # "none"
    /\ signals < MaxSignals /\ signals' = signals + 1
    /\ Step(h, "idle", "test")
    /\ overlapped' = (\/ overlapped
                      \/ \E o \in Hosts : Active(o)
                      \/ h # MAIN /\ pc[PROG] \notin Running)
    /\ late' = (late \/ (h = MAIN /\ pc[PROG] \in {"delete", "forget"}))
    /\ UNCHANGED <<sharedVars, reg, ptr, thread, dangling>>

\* if (instance_ == nullptr)
TestInstance(h) ==
    /\ Step(h, "test", IF instance = NULL THEN "create" ELSE "incRead")
    /\ UNCHANGED <<sharedVars, reg, ptr, thread, dangling>> /\ Calm

\* instance_ = new PSMoveInput(): an object without a listener.
Create(h) ==
    /\ Step(h, "create", "incRead")
    /\ \E o \in Objects \ alive : instance' = o /\ alive' = alive \union {o}
    /\ UNCHANGED <<refs, listening, stop, reg, ptr, thread, dangling>> /\ Calm

\* refs_++
IncRead(h) ==
    /\ Step(h, "incRead", "incWrite")
    /\ reg' = [reg EXCEPT ![h] = refs]
    /\ UNCHANGED <<sharedVars, ptr, thread, dangling>> /\ Calm

IncWrite(h) ==
    /\ Step(h, "incWrite", "deref")
    /\ refs' = Incremented(reg[h])
    /\ reg' = [reg EXCEPT ![h] = 0]
    /\ UNCHANGED <<instance, alive, listening, stop, ptr, thread, dangling>> /\ Calm

\* return *instance_
Dereference(h) ==
    /\ Step(h, "deref", "stop")
    /\ ptr' = [ptr EXCEPT ![h] = instance]
    /\ UNCHANGED <<sharedVars, reg, thread, dangling>> /\ Calm

\* PSMoveInput::stop() does nothing without a listener ...
TestListener(h) ==
    /\ Uses(ptr[h])
    /\ \/ /\ ptr[h] \in listening
          /\ Step(h, "stop", "stopping")
          /\ UNCHANGED ptr
       \/ /\ ptr[h] \notin listening
          /\ Step(h, "stop", "decRead")
          /\ ptr' = [ptr EXCEPT ![h] = NULL]
    /\ UNCHANGED <<sharedVars, reg, thread>> /\ Calm

\* ... and calls stop() of the one that it has found.
CallStop(h) ==
    /\ Step(h, "stopping", "decRead")
    /\ Uses(ptr[h])
    /\ stop' = Stopped(ptr[h])
    /\ ptr' = [ptr EXCEPT ![h] = NULL]
    /\ UNCHANGED <<refs, instance, alive, listening, reg, thread>> /\ Calm

-----------------------------------------------------------------------------
(* releaseRef(), called by main() and by the handlers.                       *)

\* refs_--
DecRead(c) ==
    /\ Step(c, "decRead", "decWrite")
    /\ reg' = [reg EXCEPT ![c] = refs]
    /\ UNCHANGED <<sharedVars, ptr, thread, dangling>> /\ Calm

DecWrite(c) ==
    /\ Step(c, "decWrite", "decTest")
    /\ refs' = Decremented(reg[c])
    /\ UNCHANGED <<instance, alive, listening, stop, reg, ptr, thread, dangling>> /\ Calm

\* The call returns to signal_handler() or to main().
After(c) == IF c = PROG THEN "done" ELSE "idle"

\* if (refs_ == 0): refs_ read again, or kept in a register, as compiled.
DecTest(c) ==
    /\ \E v \in {Decremented(reg[c]), refs} :
          Step(c, "decTest", IF LastGone(v) THEN "load" ELSE After(c))
    /\ reg' = [reg EXCEPT ![c] = 0]
    /\ UNCHANGED <<sharedVars, ptr, thread, dangling>> /\ Calm

\* delete instance_ reads the pointer ...
LoadInstance(c) ==
    /\ Step(c, "load", "delete")
    /\ ptr' = [ptr EXCEPT ![c] = instance]
    /\ UNCHANGED <<sharedVars, reg, thread, dangling>> /\ Calm

\* ... and, if it is not null, runs the destructor, which deletes the listener.
Delete(c) ==
    /\ Step(c, "delete", "forget")
    /\ IF ptr[c] = NULL THEN UNCHANGED dangling ELSE Uses(ptr[c])
    /\ alive' = alive \ {ptr[c]}
    /\ listening' = listening \ {ptr[c]}
    /\ ptr' = [ptr EXCEPT ![c] = NULL]
    /\ UNCHANGED <<refs, instance, stop, reg, thread>> /\ Calm

\* instance_ = nullptr
Forget(c) ==
    /\ Step(c, "forget", After(c))
    /\ instance' = Forgotten(instance)
    /\ UNCHANGED <<refs, alive, listening, stop, reg, ptr, thread, dangling>> /\ Calm

-----------------------------------------------------------------------------
(* main() and the controller threads.                                        *)

\* startListener(): from here on a signal finds the listener.
StartListener ==
    /\ Step(PROG, "armed", "listening")
    /\ Uses(First)
    /\ listening' = listening \union ({First} \intersect alive)
    /\ UNCHANGED <<refs, instance, alive, stop, reg, ptr, thread>> /\ Calm

\* run() is over; a handler on another thread may still be at work.
LeaveRun(from) ==
    /\ Step(PROG, from, "decRead")
    /\ Uses(First)
    /\ overlapped' = (overlapped \/ \E t \in Threads : Active(t))
    /\ UNCHANGED <<sharedVars, reg, ptr, thread, signals, late>>

\* The device cannot be created, or a thread of the listener cannot.
RunFails == \E from \in Running : LeaveRun(from)

\* The listener's run() sees stop_ at the top of its loop, connects no controller
\* any more ...
SeeStop == /\ stop
           /\ Step(PROG, "listening", "joining")
           /\ Uses(First)
           /\ UNCHANGED <<sharedVars, reg, ptr, thread>> /\ Calm

\* ... joins the threads, but for stragglers (PSMoveListener!JoinTest), and returns.
RunReturns == /\ \A t \in Threads : thread[t] # "running"
              /\ LeaveRun("joining")

\* main() returns, and the process ends with all its threads.
Exit == /\ Step(PROG, "done", "exited")
        /\ UNCHANGED <<sharedVars, reg, ptr, thread, dangling>> /\ Calm

\* The listener connects a controller and starts its thread.
StartThread(t) ==
    /\ Step(PROG, "listening", "listening")
    /\ Uses(First)
    /\ thread[t] = "none"
    /\ thread' = [thread EXCEPT ![t] = "running"]
    /\ UNCHANGED <<sharedVars, reg, ptr>> /\ Calm

\* A controller thread has nulled thread_, so that the joins pass it by, or ends.
\* What it does with the listener meanwhile is in PSMoveListener.
ThreadStep(t, to) ==
    /\ ~dangling /\ pc[PROG] # "exited"
    /\ ~Active(t)
    /\ thread' = [thread EXCEPT ![t] = to]
    /\ UNCHANGED <<sharedVars, contextVars, signals, historyVars>>

Straggle(t) == thread[t] = "running" /\ ThreadStep(t, "straggling")
EndThread(t) == thread[t] # "none" /\ ThreadStep(t, "none")

\* The process has ended, or died.
Terminated == (dangling \/ pc[PROG] = "exited") /\ UNCHANGED vars

Release(c) == DecRead(c) \/ DecWrite(c) \/ DecTest(c)
                \/ LoadInstance(c) \/ Delete(c) \/ Forget(c)

Handle(h) == \/ TestInstance(h) \/ Create(h) \/ IncRead(h) \/ IncWrite(h)
             \/ Dereference(h) \/ TestListener(h) \/ CallStop(h) \/ Release(h)

\* The way of main() from a stop to the end of the process.
Ends == SeeStop \/ RunReturns \/ Release(PROG) \/ Exit

Next == \/ \E h \in Hosts : Signal(h) \/ Handle(h)
        \/ StartListener \/ RunFails \/ Ends
        \/ \E t \in Threads : StartThread(t) \/ Straggle(t) \/ EndThread(t)
        \/ Terminated

Spec == Init /\ [][Next]_vars

\* A handler runs to its end; controller threads end after stop(), which is
\* StopTerminates of PSMoveListener; and main() is scheduled.
FairSpec == /\ Spec
            /\ \A h \in Hosts : WF_vars(Handle(h))
            /\ \A t \in Threads : WF_vars(stop /\ EndThread(t))
            /\ WF_vars(Ends)

-----------------------------------------------------------------------------
\* A context that has added itself to refs_ and has not subtracted itself yet.
Holds(c) == pc[c] \in Running \union Stopping \union {"deref", "decRead", "decWrite"}
Count(b) == IF b THEN 1 ELSE 0

\* The reference count (lines 46 to 64) is the number of references, also when a
\* handler interrupts main() in the middle of releaseRef(), unless two threads
\* have used it at the same time.
RefsCountHolders ==
    ~overlapped => refs = Count(Holds(PROG)) + Count(\E h \in Hosts : Holds(h))

\* Nobody uses a deleted PSMoveInput or deletes it twice (lines 57 to 64 and 422
\* to 428), unless handlers have run on two threads at once, or a signal has
\* arrived while main() was deleting the object.
NoDanglingUse == ~overlapped /\ ~late => ~dangling

\* An orderly end leaves nothing behind: the object was deleted (psmoveinput.cpp,
\* line 62), and so was every one that a signal after that has created.
DestroyedAtExit == pc[PROG] = "exited" /\ ~overlapped => alive = {} /\ instance = NULL

\* A signal whose handler has not yet called stop() when the listener exists ends
\* the process, whatever other signals arrive.
SignalEndsProcess ==
    pc[PROG] = "listening" /\ (\E h \in Hosts : pc[h] \in Handling)
        ~> pc[PROG] = "exited" \/ dangling

\* What that rests on, however the handlers overlap and whatever they have done to the
\* count: stop() called by a handler in the listener's time is not lost (lines 374 to
\* 380 and 422 to 428), since nobody deletes or replaces the object before one is.
SignalStops ==
    [][\A h \in Hosts :
          ( /\ pc[PROG] \in {"listening", "joining"}
            /\ pc[h] \in Stopping /\ pc'[h] \notin Stopping )
             => stop']_vars
=============================================================================
