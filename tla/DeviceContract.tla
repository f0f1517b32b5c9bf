---------------------------- MODULE DeviceContract --------------------------
(***************************************************************************)
(* What a program that reads the input device may rely on, seen from the    *)
(* callers of InputDevice: what a call has asked for becomes visible, part  *)
(* by part but each part at once, before the call returns; nothing else     *)
(* ever does.                                                               *)
(***************************************************************************)
CONSTANTS Writers, Things, Values

VARIABLES
    asked,    \* thing (an axis or a key) -> the value the calls so far amount to
    shown,    \* thing -> the value a reader of the device sees
    owed,     \* writer -> the things its call has changed and no reader sees yet
    calling   \* the writers whose calls have not returned

vars == <<asked, shown, owed, calling>>

Init == /\ asked \in [Things -> Values]
        /\ shown = asked
        /\ owed = [w \in Writers |-> {}]
        /\ calling = {}

\* A call begins, for things that no other call is changing.
Ask(w, changed) ==
    /\ w \notin calling
    /\ \A v \in Writers : changed \intersect owed[v] = {}
    /\ asked' \in [Things -> Values]
    /\ \A x \in Things \ changed : asked'[x] = asked[x]
    /\ owed' = [owed EXCEPT ![w] = changed]
    /\ calling' = calling \union {w}
    /\ UNCHANGED shown

\* A reader sees some of the changes, and some calls return that owe nothing.
Show(seen, back) ==
    /\ shown' = [x \in Things |-> IF x \in seen THEN asked[x] ELSE shown[x]]
    /\ owed' = [w \in Writers |-> owed[w] \ seen]
    /\ \A w \in back : owed'[w] = {}
    /\ calling' = calling \ back
    /\ UNCHANGED asked

Next == \/ \E w \in Writers, changed \in SUBSET Things : Ask(w, changed)
        \/ \E seen \in SUBSET Things, back \in SUBSET Writers : Show(seen, back)

Spec == Init /\ [][Next]_vars
=============================================================================
