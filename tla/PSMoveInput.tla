----------------------------- MODULE PSMoveInput ----------------------------
(***************************************************************************)
(* The life of psmoveinput processes (psmoveinput.cpp): the PID file that   *)
(* is to keep a second instance from starting, and the signals that end one.*)
(*                                                                          *)
(* The file is tested for, created and written by three system calls, with  *)
(* a fork after the first.  A signal kills a process that has not installed *)
(* its handlers yet, reaches PSMoveListener::stop() while the listener      *)
(* exists, and is lost in between.  A process here is the one that goes on  *)
(* after the fork; its parent exits without touching anything of this       *)
(* module.                                                                  *)
(***************************************************************************)
EXTENDS FiniteSets

CONSTANTS
    Instances,  \* processes that may be started
    Crashing,   \* those that may die at any time, of SIGKILL or of a fault
    NULL,       \* no PID file
    NOPID       \* what a PID file holds that is empty, or two PIDs' digits

ASSUME InputAssumption ==
    /\ Crashing \subseteq Instances
    /\ NULL \notin Instances \union {NOPID}
    /\ NOPID \notin Instances

VARIABLES
    pidfile,  \* the instance whose PID the file holds, NOPID, or NULL: no file
    opened,   \* the instances that have opened the present file by creat()
    pc,       \* instance -> where it is in run()
    stop,     \* instance -> stop_ of its listener
    retval,   \* instance -> what it exited with
    raced     \* history: an instance has passed the test during another's start

fileVars == <<pidfile, opened>>
vars == <<fileVars, pc, stop, retval, raced>>

Starting == {"fork", "create"}
Holding == {"write", "signals", "device", "listener", "running", "remove", "failed"}
Points == {"new", "config", "check", "ended"} \union Starting \union Holding
Retvals == {"none", "OK", "FAIL", "CONFIG", "ALREADY", "FORK", "PID", "killed"}

Alive(p) == pc[p] \notin {"new", "ended"}

\* The fields have values of their types, and exactly the ended have a result.
TypeOK ==
    /\ pidfile \in Instances \union {NULL, NOPID}
    /\ opened \subseteq Instances
    /\ pc \in [Instances -> Points]
    /\ stop \in [Instances -> BOOLEAN]
    /\ retval \in [Instances -> Retvals]
    /\ raced \in BOOLEAN
    /\ \A p \in Instances : pc[p] = "ended" <=> retval[p] # "none"

Init ==
    /\ pidfile = NULL
    /\ opened = {}
    /\ pc = [p \in Instances |-> "new"]
    /\ stop = [p \in Instances |-> FALSE]
    /\ retval = [p \in Instances |-> "none"]
    /\ raced = FALSE

-----------------------------------------------------------------------------
(* An operator Mut... is a faulty variant of the one it precedes, and serves  *)
(* to confirm that the properties can fail.                                   *)

MutRefused(p) == pidfile = p
\* checkPidFile(): the file can be opened.
Refused(p) == pidfile # NULL

MutUnlink == UNCHANGED fileVars
\* removePidFile(): whoever has written the file.  Who has it open still writes,
\* but to a file that nobody finds any more.
Unlink == pidfile' = NULL /\ opened' = {}

\* What the file may hold after writePidFile() has written to it: its PID; what it
\* held before, if write() has failed, which is ignored; or part of its PID.
Written(p) == IF p \in opened THEN {p, pidfile, NOPID} ELSE {pidfile}

\* PSMoveListener::run() returns after stop() (PSMoveListener!StopTerminates).
StopSeen(p) == stop[p]

Step(p, from, to) == /\ pc[p] = from
                     /\ pc' = [pc EXCEPT ![p] = to]
                     /\ UNCHANGED retval

MutExit(p, r) == /\ pc' = [pc EXCEPT ![p] = "ended"]
                 /\ stop' = [stop EXCEPT ![p] = FALSE]
                 /\ UNCHANGED retval
\* run() returns, or the process dies.
Exit(p, r) == /\ pc' = [pc EXCEPT ![p] = "ended"]
              /\ retval' = [retval EXCEPT ![p] = r]
              /\ stop' = [stop EXCEPT ![p] = FALSE]

\* The user starts psmoveinput.
Start(p) == Step(p, "new", "config") /\ UNCHANGED <<fileVars, stop, raced>>

\* processConfig() and setupLog(); --help and --version end here with OK.
ProcessConfig(p) ==
    /\ \/ Step(p, "config", "check") /\ UNCHANGED stop
       \/ pc[p] = "config" /\ \E r \in {"OK", "CONFIG"} : Exit(p, r)
    /\ UNCHANGED <<fileVars, raced>>

\* checkPidFile()
CheckPidFile(p) ==
    /\ \/ Refused(p) /\ pc[p] = "check" /\ Exit(p, "ALREADY") /\ UNCHANGED raced
       \/ /\ ~Refused(p) /\ Step(p, "check", "fork")
          /\ raced' = (raced \/ \E q \in Instances : pc[q] \in Starting)
          /\ UNCHANGED stop
    /\ UNCHANGED fileVars

\* daemonize() up to writePidFile(): fork(), setsid() or chdir() may fail.
Daemonize(p) ==
    /\ \/ Step(p, "fork", "create") /\ UNCHANGED stop
       \/ pc[p] = "fork" /\ Exit(p, "FORK")
    /\ UNCHANGED <<fileVars, raced>>

\* writePidFile(): creat() truncates a file that has appeared meanwhile ...
CreatePidFile(p) ==
    /\ \/ /\ Step(p, "create", "write")
          /\ pidfile' = NOPID
          /\ opened' = opened \union {p}
          /\ UNCHANGED stop
       \/ pc[p] = "create" /\ Exit(p, "PID") /\ UNCHANGED fileVars
    /\ UNCHANGED raced

\* ... and write() puts the PID into it.
WritePidFile(p) ==
    /\ Step(p, "write", "signals")
    /\ pidfile' \in Written(p)
    /\ UNCHANGED <<opened, stop, raced>>

SetupSignals(p) == Step(p, "signals", "device") /\ UNCHANGED <<fileVars, stop, raced>>

\* initDevice() throws if /dev/uinput cannot be opened; then initHandler().
InitDevice(p) ==
    /\ \E to \in {"listener", "failed"} : Step(p, "device", to)
    /\ UNCHANGED <<fileVars, stop, raced>>

\* startListener(): listener_ is set, and its run() is called.
StartListener(p) == Step(p, "listener", "running") /\ UNCHANGED <<fileVars, stop, raced>>

\* PSMoveListener::run() returns.
RunReturns(p) == /\ Step(p, "running", "remove")
                 /\ StopSeen(p)
                 /\ UNCHANGED <<fileVars, stop, raced>>

\* boost::thread cannot be created: run() of the listener throws.
ListenerFails(p) == Step(p, "running", "failed") /\ UNCHANGED <<fileVars, stop, raced>>

\* removePidFile(), at the end of run() or in its handler of std::exception.
RemovePidFile(p) ==
    /\ \/ pc[p] = "remove" /\ Exit(p, "OK")
       \/ pc[p] = "failed" /\ Exit(p, "FAIL")
    /\ Unlink
    /\ UNCHANGED raced

\* SIGINT, SIGQUIT or SIGTERM for a process without handlers: it dies.
KilledBySignal(p) ==
    /\ pc[p] \in {"config", "check", "write", "signals"} \union Starting
    /\ Exit(p, "killed")
    /\ UNCHANGED <<fileVars, raced>>

\* One of them for a process with handlers: stop(), if there is a listener.
SignalHandler(p) ==
    /\ pc[p] = "running"
    /\ stop' = [stop EXCEPT ![p] = TRUE]
    /\ UNCHANGED <<fileVars, pc, retval, raced>>

Crash(p) == /\ p \in Crashing /\ Alive(p)
            /\ Exit(p, "killed")
            /\ UNCHANGED <<fileVars, raced>>

\* Nothing is left to start.
Finished == (\A p \in Instances : pc[p] = "ended") /\ UNCHANGED vars

\* What the process does by itself.
Run(p) == \/ ProcessConfig(p) \/ CheckPidFile(p) \/ Daemonize(p)
          \/ CreatePidFile(p) \/ WritePidFile(p) \/ SetupSignals(p)
          \/ InitDevice(p) \/ StartListener(p) \/ RunReturns(p) \/ RemovePidFile(p)

Next == \/ \E p \in Instances : \/ Start(p) \/ Run(p) \/ ListenerFails(p)
                                \/ KilledBySignal(p) \/ SignalHandler(p) \/ Crash(p)
        \/ Finished

Spec == Init /\ [][Next]_vars

\* The operating system runs every process that has been started.
FairSpec == Spec /\ \A p \in Instances : WF_vars(Run(p))

-----------------------------------------------------------------------------
\* Whatever instances race and whoever's file they unlink or write to, no instance
\* that has ended by itself has anything in the PID file: each path out of run()
\* after creat() removes it, so only a killed process leaves one behind, its PID in
\* it or, killed before its write(), not.
PidFileNamesAnInstance ==
    pidfile # NULL =>
        /\ opened # {}
        /\ pidfile \in opened \union {NOPID}
        /\ \A p \in opened : pc[p] \in Holding \/ retval[p] = "killed"

\* If no instance was started while another one was between checkPidFile() and
\* creat(), at most one instance gets past creat(), and for as long as it lives the
\* PID file is its own and names no other, even if its write() has failed.
OneInstance ==
    ~raced => \A p \in Instances :
                  pc[p] \in Holding => opened = {p} /\ pidfile \in {p, NOPID}

\* A signal that finds the listener ends the process, and the file that was there
\* is gone or belongs to another instance.
StopEndsInstance ==
    \A p \in Instances : stop[p] ~> pc[p] = "ended" /\ (p \in opened => p \in Crashing)
=============================================================================
