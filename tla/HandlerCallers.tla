--------------------------- MODULE HandlerCallers ---------------------------
(***************************************************************************)
(* What PSMoveListener promises to PSMoveHandler, seen from the handler:    *)
(* who delivers gyroscope, gesture and button events to it, and when its    *)
(* reset() is called.  Each controller slot delivers from at most one       *)
(* thread, so the events of one controller reach the handler in order; and  *)
(* reset(), which PSMoveInput::initHandler() connects to the listener's     *)
(* disconnect-complete signal, is called while nobody delivers.             *)
(***************************************************************************)
CONSTANTS Slots, Threads

VARIABLES
    callers,  \* slot -> the threads that deliver its controller's events
    dirty     \* a controller has stopped delivering since the last reset()

vars == <<callers, dirty>>

TypeOK == /\ callers \in [Slots -> SUBSET Threads]
          /\ dirty \in BOOLEAN

Init == /\ callers = [s \in Slots |-> {}]
        /\ dirty = FALSE

\* A thread takes over a slot from which nobody delivers.
Start(s, t) == /\ callers[s] = {}
               /\ \A r \in Slots : t \notin callers[r]
               /\ callers' = [callers EXCEPT ![s] = {t}]
               /\ UNCHANGED dirty

\* The delivering thread of a slot stops for good.
Leave(s, t) == /\ t \in callers[s]
               /\ callers' = [callers EXCEPT ![s] = @ \ {t}]
               /\ dirty' = TRUE

\* PSMoveHandler::reset() runs when every controller has been disconnected.
Reset == /\ \A s \in Slots : callers[s] = {}
         /\ dirty' = FALSE
         /\ UNCHANGED callers

\* Who starts delivers then, and who leaves has delivered.
Next == \/ \E s \in Slots : \/ \E t \in Threads \intersect callers'[s] : Start(s, t)
                           \/ \E t \in callers[s] : Leave(s, t)
        \/ Reset

Spec == Init /\ [][Next]_vars
=============================================================================
