----------------------------- MODULE InputDevice ----------------------------
(***************************************************************************)
(* InputDevice (input_device.cpp): the events that the controller threads   *)
(* write to one uinput descriptor, and what a reader of the device makes of *)
(* them.                                                                    *)
(*                                                                          *)
(* Every call writes its events one by one and a SYN_REPORT after them.     *)
(* reportKey() and reportMWheel() are called inside the mutex of the handler*)
(* (psmove_handler.cpp, line 206), reportMove() is called outside of it, by *)
(* the thread of the first controller: its events and those of a key may    *)
(* mix, and one call's SYN_REPORT may complete the other's events.          *)
(* The kernel passes on what was written since the last SYN_REPORT when the *)
(* next one comes, without events of codes the device was not set up for.   *)
(***************************************************************************)
EXTENDS Integers

CONSTANTS
    Writers,   \* the controller threads
    Mover,     \* the one of the first controller
    KeyMap,    \* controller -> the key codes it is mapped to
    BeyondMax, \* those above KEY_MAX, the special keys
    MaxValue   \* bound: positions of the pointer and of the wheel

NobodyHolds == "nobody"
Axes == {"REL_X", "REL_Y", "REL_WHEEL"}
Codes == UNION {KeyMap[c] : c \in DOMAIN KeyMap}
Things == Axes \union (Codes \ BeyondMax)
Steps == {-1, 1}
Values == -MaxValue .. MaxValue
Events == [thing : Axes \union Codes, value : -1 .. 1, by : Writers]

ASSUME DeviceAssumption ==
    /\ Mover \in Writers
    /\ NobodyHolds \notin Writers
    /\ Axes \intersect Codes = {}
    /\ MaxValue \in Nat \ {0}

VARIABLES
    busy,     \* the writers that have still to write their SYN_REPORT
    left,     \* writer -> the events it has to write before that
    holder,   \* mutex_ of PSMoveHandler
    pending,  \* the kernel: events since the last SYN_REPORT
    shown,    \* thing -> what a reader has made of the events it got
    asked     \* history: thing -> what the calls amount to

vars == <<busy, left, holder, pending, shown, asked>>

\* The fields have values of their types, and only a busy writer has events left.
TypeOK ==
    /\ busy \subseteq Writers
    /\ left \in [Writers -> SUBSET Events]
    /\ \A w \in Writers \ busy : left[w] = {}
    /\ holder \in busy \union {NobodyHolds}
    /\ pending \subseteq Events
    /\ shown \in [Things -> Values]
    /\ asked \in [Things -> Values]

Init ==
    /\ busy = {}
    /\ left = [w \in Writers |-> {}]
    /\ holder = NobodyHolds
    /\ pending = {}
    /\ shown = [x \in Things |-> 0]
    /\ asked = [x \in Things |-> 0]

-----------------------------------------------------------------------------
(* Mut... is a faulty variant of the operator it precedes, to confirm that   *)
(* the properties can fail.                                                  *)

MutRegistered == KeyMap[Mover]
\* initDevice() sets the key bits of both key maps; UI_SET_KEYBIT refuses codes
\* above KEY_MAX.
Registered == Codes \ BeyondMax

\* The event types and codes the device was set up for.
Supported(e) == e.thing \in Axes \union Registered

MutMutexFree == TRUE
\* boost::lock_guard of PSMoveHandler::onButtons()
MutexFree == holder = NobodyHolds

\* What a reader makes of a frame of events: an axis adds up, a key is down or up.
Applied(frame) ==
    [x \in Things |->
        IF \E e \in frame : e.thing = x
          THEN LET e == CHOOSE d \in frame : d.thing = x
               IN  IF x \in Axes THEN shown[x] + e.value ELSE e.value
          ELSE shown[x]]

MutMovement(dx, dy) == {[thing |-> "REL_X", value |-> dx, by |-> Mover]}
\* reportMove(): an event for each axis that moves.
Movement(dx, dy) ==
    {e \in {[thing |-> "REL_X", value |-> dx, by |-> Mover],
            [thing |-> "REL_Y", value |-> dy, by |-> Mover]} : e.value # 0}

\* The end of the lock_guard's scope, after the call.
Released(w) == IF holder = w THEN NobodyHolds ELSE holder

-----------------------------------------------------------------------------
\* A call begins: these events, then reportSyn().  MaxValue bounds what is asked.
Begin(w, events) ==
    /\ w \notin busy
    /\ busy' = busy \union {w}
    /\ left' = [left EXCEPT ![w] = events]
    /\ asked' \in [Things -> Values]
    /\ UNCHANGED <<pending, shown>>

\* The handler moves the pointer only if it moves on some axis (line 111).
ReportMove(dx, dy) ==
    /\ dx # 0 \/ dy # 0
    /\ asked' = [asked EXCEPT !["REL_X"] = @ + dx, !["REL_Y"] = @ + dy]
    /\ Begin(Mover, Movement(dx, dy))
    /\ UNCHANGED holder

\* A call inside the mutex of the handler.
Locked(w, thing, v) ==
    /\ MutexFree
    /\ holder' = w
    /\ Begin(w, {[thing |-> thing, value |-> v, by |-> w]})

\* Either thread may report any key: the first one's also gesture keys.  Nothing
\* is asked of the device with a code that is no key for it.
ReportKey(w, code, v) ==
    /\ asked' = IF code \in Things THEN [asked EXCEPT ![code] = v] ELSE asked
    /\ Locked(w, code, v)

ReportMWheel(w, v) ==
    /\ asked' = [asked EXCEPT !["REL_WHEEL"] = @ + v]
    /\ Locked(w, "REL_WHEEL", v)

\* write() of an event; REL_X comes before REL_Y.
WriteEvent(w) ==
    \E e \in left[w] :
        /\ e.thing = "REL_Y" => \A d \in left[w] : d.thing # "REL_X"
        /\ left' = [left EXCEPT ![w] = @ \ {e}]
        /\ pending' = IF Supported(e) THEN pending \union {e} ELSE pending
        /\ UNCHANGED <<busy, holder, shown, asked>>

\* reportSyn(), and the call returns.
ReportSyn(w) ==
    /\ w \in busy /\ left[w] = {}
    /\ shown' = Applied(pending)
    /\ pending' = {}
    /\ busy' = busy \ {w}
    /\ holder' = Released(w)
    /\ UNCHANGED <<left, asked>>

Next ==
    \/ \E dx, dy \in Steps \union {0} : ReportMove(dx, dy)
    \/ \E w \in Writers :
          \/ \E k \in Codes, v \in 0 .. 1 : ReportKey(w, k, v)
          \/ \E v \in Steps : ReportMWheel(w, v)
          \/ WriteEvent(w) \/ ReportSyn(w)

Spec == Init /\ [][Next]_vars

-----------------------------------------------------------------------------
\* The things that a call of w has changed and a reader has not seen yet: events
\* to be written and events written but not followed by a SYN_REPORT.
Owed(w) == {e.thing : e \in {d \in left[w] \union pending : d.by = w}} \intersect Things

\* No event is lost, left pending or attributed to something else: a reader sees
\* every thing as the calls have left it, unless a call that changes it has not
\* returned (lines 76 to 153; both controllers' keys are set up, psmoveinput.cpp,
\* lines 305 to 314).
ShownWhenReturned ==
    \A x \in Things : (\A w \in Writers : x \notin Owed(w)) => shown[x] = asked[x]

\* No SYN_REPORT ends two key or wheel events: a short press, or two notches of
\* the wheel, do not cancel each other in one frame, although the movement's
\* SYN_REPORT may come between a key event and its own.
OneKeyPerFrame ==
    \A d, e \in pending : {d.thing, e.thing} \intersect {"REL_X", "REL_Y"} = {} => d = e

\* InputDevice keeps the promise of DeviceContract.
Contract == INSTANCE DeviceContract WITH owed <- [w \in Writers |-> Owed(w)],
                                         calling <- busy
ImplementsContract == Contract!Spec
=============================================================================
