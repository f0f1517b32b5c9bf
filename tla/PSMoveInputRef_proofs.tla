------------------------ MODULE PSMoveInputRef_proofs -----------------------
(***************************************************************************)
(* What PSMoveInputRef promises for any number of threads, signals and      *)
(* addresses.  As long as two threads have not used the reference count at  *)
(* the same time, at most one handler runs; main() waits for it if it is on *)
(* its thread, and is in run() if it is on another one.  So what a context  *)
(* has read of refs_ is still what refs_ was before it, and a single object *)
(* is alive at most: the one instance_ points to.                           *)
(***************************************************************************)
EXTENDS PSMoveInputRef, TLAPS

Apart ==
    /\ \A g, h \in Hosts : Active(g) /\ Active(h) => g = h
    /\ \A t \in Threads : Active(t) => pc[PROG] \in Running
    /\ pc[PROG] = "exited" => ~Active(MAIN)

Registers ==
    /\ refs = Count(Holds(PROG)) + Count(\E h \in Hosts : Holds(h))
    /\ pc[PROG] \in {"decWrite", "decTest"} => reg[PROG] = 1
    /\ \A h \in Hosts : /\ pc[h] \in {"incWrite", "decWrite"} => reg[h] = refs
                        /\ pc[h] = "decTest" => reg[h] = refs + 1

\* A context that has found the count to be zero.
Deleting == {"load", "delete", "forget"}

\* Nothing is left once c has come past the deletion.
Cleared(c) == /\ pc[c] = "delete" => alive \subseteq {ptr[c]}
              /\ pc[c] = "forget" => alive = {}

Owned ==
    /\ alive \subseteq {instance}
    /\ Holds(PROG) => instance = First /\ First \in alive
    /\ \A h \in Hosts : /\ pc[h] \in Deleting => ~Holds(PROG)
                        /\ pc[h] = "create" => instance = NULL
                        /\ Cleared(h)
    /\ ~Active(MAIN) => /\ Cleared(PROG)
                        /\ pc[PROG] \in {"done", "exited"} => alive = {} /\ instance = NULL

\* What the contexts are about to use is there.
Usable ==
    /\ ~dangling
    /\ (\A c \in Contexts : pc[c] # "forget") => instance \in alive \union {NULL}
    /\ pc[PROG] \in {"delete", "forget"} => \A h \in Hosts : ~Active(h)
    /\ \A h \in Hosts : /\ pc[h] \in {"incRead", "incWrite", "deref"} => instance \in alive
                        /\ pc[h] \in Stopping => ptr[h] \in alive
    /\ \A c \in Contexts : pc[c] = "delete" => ptr[c] \in alive \union {NULL}

IInv == /\ TypeOK
        /\ pc[PROG] = "exited" => ~dangling
        /\ ~overlapped => Apart /\ Registers
        /\ ~overlapped /\ ~dangling => Owned
        /\ ~overlapped /\ ~late => Usable

-----------------------------------------------------------------------------
\* main() is no host of handlers; every other context is.
LEMMA Facts == /\ PROG \in Contexts /\ MAIN \in Hosts /\ PROG \notin Hosts
               /\ Hosts \subseteq Contexts /\ Threads \subseteq Hosts
               /\ First \in Objects /\ NULL \notin Objects
               /\ \A h \in Hosts : h # MAIN => h \in Threads
               /\ \A c \in Contexts : c # PROG => c \in Hosts
BY RefAssumption DEF Contexts, Hosts

\* What a step leaves alone: the other contexts.
LEMMA StepOf ==
    ASSUME TypeOK, NEW c \in Contexts, NEW from, NEW to, Step(c, from, to)
    PROVE  /\ pc[c] = from /\ pc'[c] = to
           /\ \A d \in Contexts \ {c} : pc'[d] = pc[d]
           /\ DOMAIN pc' = Contexts /\ pc' = [d \in Contexts |-> pc'[d]]
           /\ ~dangling /\ pc[PROG] # "exited"
           /\ c = PROG => ~Active(MAIN)
BY DEF Step, TypeOK

Points == Running \union Releasing \union Handling \union {"idle", "done", "exited"}

\* Program counters keep their types: handlers and main() have points of their own.
LEMMA PcType ==
    ASSUME TypeOK, NEW c \in Contexts, NEW from, NEW to, Step(c, from, to),
           c = PROG => to \in Running \union Releasing \union {"done", "exited"},
           c # PROG => to \in Handling \union Releasing \union {"idle"}
    PROVE  /\ pc' \in [Contexts -> Points]
           /\ pc'[PROG] \in Running \union Releasing \union {"done", "exited"}
           /\ \A h \in Hosts : pc'[h] \in Handling \union Releasing \union {"idle"}
<1>1. \A d \in Contexts : pc'[d] \in Points
  BY StepOf DEF TypeOK, Points
<1> QED BY <1>1, StepOf, Facts DEF TypeOK

LEMMA InitIInv == Init => IInv
<1> SUFFICES ASSUME Init PROVE IInv
  OBVIOUS
<1>1. pc \in [Contexts -> {"armed", "idle"}] /\ pc[PROG] = "armed"
      /\ \A h \in Hosts : pc[h] = "idle"
  BY Facts DEF Init
<1>2. \A h \in Hosts : ~Active(h) /\ ~Holds(h)
  BY <1>1 DEF Active, Holds, Stopping, Running
<1>3. Holds(PROG)
  BY <1>1 DEF Holds, Running
<1>4. TypeOK
  <2>1. /\ pc \in [Contexts -> Running \union Releasing \union Handling
                               \union {"idle", "done", "exited"}]
        /\ pc[PROG] \in Running
        /\ \A h \in Hosts : pc[h] \in Handling \union Releasing \union {"idle"}
    BY <1>1 DEF Running
  <2>2. refs = 1 /\ signals = 0 /\ 0 \in 0 .. MaxSignals
    BY RefAssumption DEF Init
  <2>3. {stop, overlapped, late, dangling} \subseteq BOOLEAN
    BY DEF Init
  <2>4. reg \in [Contexts -> Int] /\ ptr \in [Contexts -> Objects \union {NULL}]
        /\ thread \in [Threads -> {"none", "running", "straggling"}]
    BY DEF Init
  <2>5. instance \in Objects \union {NULL} /\ alive \subseteq Objects /\ listening \subseteq alive
    BY Facts DEF Init
  <2> QED BY <2>1, <2>2, <2>3, <2>4, <2>5 DEF TypeOK
<1>5. Apart /\ Registers
  BY <1>1, <1>2, <1>3, Facts DEF Init, Apart, Registers, Count
<1>6. Owned /\ Usable
  BY <1>1, <1>2, <1>3, Facts DEF Init, Owned, Usable, Stopping, Cleared, Deleting
<1> QED BY <1>1, <1>4, <1>5, <1>6 DEF IInv

-----------------------------------------------------------------------------
(* The steps of a handler.                                                   *)

\* While h runs, no other handler does, and main() is in run() if it can run.
LEMMA HostAlone ==
    ASSUME IInv, ~overlapped, NEW h \in Hosts, Active(h),
           NEW from, NEW to, Step(h, from, to)
    PROVE  /\ \A g \in Hosts \ {h} : pc[g] = "idle" /\ pc'[g] = "idle"
           /\ (\E g \in Hosts : Holds(g)) <=> Holds(h)
           /\ (\E g \in Hosts : Holds(g))' <=> Holds(h)'
           /\ pc'[PROG] = pc[PROG] /\ (Holds(PROG)' <=> Holds(PROG))
           /\ h = MAIN \/ Holds(PROG)
           /\ Apart'
<1>1. TypeOK /\ Apart
  BY DEF IInv
<1>2. /\ pc[h] = from /\ pc'[h] = to /\ pc[PROG] # "exited"
      /\ \A d \in Contexts \ {h} : pc'[d] = pc[d]
  BY <1>1, StepOf, Facts
<1>3. \A g \in Hosts \ {h} : pc[g] = "idle" /\ pc'[g] = "idle"
  BY <1>1, <1>2, Facts DEF Apart, Active
<1>4. \A g \in Hosts \ {h} : ~Holds(g) /\ ~Holds(g)'
  BY <1>3 DEF Holds, Stopping, Running
<1>5. pc'[PROG] = pc[PROG] /\ (Holds(PROG)' <=> Holds(PROG))
  BY <1>2, Facts DEF Holds
<1>6. h = MAIN \/ pc[PROG] \in Running
  BY <1>1, Facts DEF Apart
<1>7. Apart'
  <2>1. \A g \in Hosts : pc'[g] # "idle" => g = h
    BY <1>3
  <2>2. h \in Threads => pc'[PROG] \in Running
    BY <1>1, <1>5, Facts DEF Apart
  <2> QED BY <1>2, <1>5, <2>1, <2>2, Facts DEF Apart, Active
<1> QED BY <1>3, <1>4, <1>5, <1>6, <1>7 DEF Holds

\* A step of h that leaves the objects alone, and is no step of the deletion.
LEMMA HostKeeps ==
    ASSUME IInv, ~overlapped, NEW h \in Hosts, Active(h),
           NEW from, NEW to, Step(h, from, to),
           UNCHANGED <<instance, alive>>, ~dangling', to # "forget",
           \A c \in Contexts \ {h} : ptr'[c] = ptr[c],
           to \in Deleting => ~Holds(PROG),
           to = "create" => instance = NULL,
           to = "delete" => alive \subseteq {ptr'[h]},
           to = "idle" => Holds(PROG)
    PROVE  Owned'
<1>1. TypeOK /\ Owned
  BY StepOf, Facts DEF IInv
<1>2. /\ pc[h] = from /\ pc'[h] = to
      /\ \A d \in Contexts \ {h} : pc'[d] = pc[d]
  BY <1>1, StepOf, Facts
<1>3. pc'[PROG] = pc[PROG] /\ (Holds(PROG)' <=> Holds(PROG))
      /\ \A g \in Hosts \ {h} : pc[g] = "idle" /\ pc'[g] = "idle"
  BY HostAlone
<1>4. \A g \in Hosts : /\ pc'[g] \in Deleting => ~Holds(PROG)'
                       /\ pc'[g] = "create" => instance' = NULL
                       /\ Cleared(g)'
  BY <1>1, <1>2, <1>3, Facts DEF Owned, Cleared, Deleting
<1>5. ~Active(MAIN)' => /\ Cleared(PROG)'
                        /\ pc'[PROG] \in {"done", "exited"} => alive' = {} /\ instance' = NULL
  <2>1. CASE Active(MAIN)
    <3> SUFFICES ASSUME ~Active(MAIN)' PROVE Holds(PROG)
      BY <1>3 DEF Cleared, Holds, Stopping, Running
    <3>1. h = MAIN /\ to = "idle"
      BY <2>1, <1>2, <1>3, Facts DEF Active
    <3> QED BY <3>1
  <2>2. CASE ~Active(MAIN)
    BY <2>2, <1>1, <1>3, Facts DEF Owned, Cleared
  <2> QED BY <2>1, <2>2
<1> QED BY <1>1, <1>3, <1>4, <1>5 DEF Owned

\* Such a step, of which h knows that it may use what it is going to use.
LEMMA HostUses ==
    ASSUME IInv, ~overlapped, ~late, NEW h \in Hosts, Active(h),
           NEW from, NEW to, Step(h, from, to),
           UNCHANGED <<instance, alive>>, ~dangling', from # "forget", to # "forget",
           \A c \in Contexts \ {h} : ptr'[c] = ptr[c],
           to \in {"incRead", "incWrite", "deref"} => instance \in alive,
           to \in Stopping => ptr'[h] \in alive,
           to = "delete" => ptr'[h] \in alive \union {NULL}
    PROVE  Usable'
<1>1. TypeOK /\ Usable
  BY DEF IInv
<1>2. /\ pc[h] = from /\ pc'[h] = to
      /\ \A d \in Contexts \ {h} : pc'[d] = pc[d]
  BY <1>1, StepOf, Facts
<1>3. pc'[PROG] = pc[PROG] /\ \A g \in Hosts \ {h} : pc'[g] = "idle"
  BY HostAlone
<1>4. (\A c \in Contexts : pc'[c] # "forget") => instance \in alive \union {NULL}
  BY <1>1, <1>2, Facts DEF Usable
<1>5. pc'[PROG] \in {"delete", "forget"} => \A g \in Hosts : ~Active(g)'
  BY <1>1, <1>3 DEF Usable
<1>6. \A g \in Hosts : /\ pc'[g] \in {"incRead", "incWrite", "deref"} => instance \in alive
                       /\ pc'[g] \in Stopping => ptr'[g] \in alive
  BY <1>2, <1>3 DEF Stopping
<1>7. \A c \in Contexts : pc'[c] = "delete" => ptr'[c] \in alive \union {NULL}
  BY <1>1, <1>2 DEF Usable
<1> QED BY <1>4, <1>5, <1>6, <1>7 DEF Usable

\* What a step of h has to show.
LEMMA HostStep ==
    ASSUME IInv, NEW h \in Hosts, Active(h), NEW from, NEW to, Step(h, from, to),
           to \in Handling \union Releasing \union {"idle"},
           Calm, UNCHANGED thread,
           instance' \in Objects \union {NULL}, alive' \subseteq Objects,
           listening' \subseteq alive', stop' \in BOOLEAN, dangling' \in BOOLEAN,
           refs' \in Int, reg' \in [Contexts -> Int],
           ptr' \in [Contexts -> Objects \union {NULL}],
           ~overlapped => Registers',
           ~overlapped /\ ~dangling' => Owned',
           ~overlapped /\ ~late => Usable'
    PROVE  IInv'
<1>1. TypeOK
  BY DEF IInv
<1>2. UNCHANGED <<overlapped, late, signals>>
  BY DEF Calm
<1>3. ~overlapped => refs' \in 0 .. 2
  BY <1>2 DEF Registers, Count
<1>4. TypeOK'
  <2>1. /\ pc' \in [Contexts -> Points]
        /\ pc'[PROG] \in Running \union Releasing \union {"done", "exited"}
        /\ \A g \in Hosts : pc'[g] \in Handling \union Releasing \union {"idle"}
    BY <1>1, PcType, Facts
  <2> QED BY <2>1, <1>1, <1>2, <1>3 DEF TypeOK, Points
<1>5. ~overlapped => Apart'
  BY HostAlone
<1>6. pc'[PROG] # "exited"
  BY <1>1, StepOf, Facts
<1> QED BY <1>2, <1>4, <1>5, <1>6 DEF IInv

LEMMA SignalStep == ASSUME IInv, NEW h \in Hosts, Signal(h) PROVE IInv'
<1>1. TypeOK /\ Step(h, "idle", "test")
  BY DEF IInv, Signal
<1>2. /\ pc[h] = "idle" /\ pc'[h] = "test" /\ pc[PROG] # "exited" /\ ~dangling
      /\ \A d \in Contexts \ {h} : pc'[d] = pc[d]
  BY <1>1, StepOf, Facts
<1>3. pc'[PROG] = pc[PROG] /\ (Holds(PROG)' <=> Holds(PROG))
  BY <1>2, Facts DEF Holds
<1>4. \A g \in Hosts : (Holds(g)' <=> Holds(g))
  BY <1>2, Facts DEF Holds, Stopping, Running
<1>5. UNCHANGED <<sharedVars, reg, ptr, thread, dangling>>
  BY DEF Signal
<1>6. TypeOK'
  <2>1. /\ pc' \in [Contexts -> Points]
        /\ pc'[PROG] \in Running \union Releasing \union {"done", "exited"}
        /\ \A g \in Hosts : pc'[g] \in Handling \union Releasing \union {"idle"}
    BY <1>1, PcType, Facts DEF Handling
  <2>2. signals' \in 0 .. MaxSignals /\ overlapped' \in BOOLEAN /\ late' \in BOOLEAN
    BY <1>1, RefAssumption DEF Signal, TypeOK
  <2>3. ~overlapped' => ~overlapped
    BY DEF Signal
  <2> QED BY <2>1, <2>2, <2>3, <1>1, <1>5 DEF TypeOK, Points, sharedVars
<1>7. ASSUME ~overlapped'
      PROVE  /\ ~overlapped /\ Apart /\ Registers /\ \A g \in Hosts : pc[g] = "idle"
             /\ h # MAIN => pc[PROG] \in Running
  BY <1>7 DEF Signal, IInv, Active
<1>8. ASSUME ~overlapped' PROVE Apart' /\ Registers'
  <2>1. Apart'
    <3>1. \A g \in Hosts : pc'[g] # "idle" => g = h
      BY <1>2, <1>7, <1>8, Facts
    <3>2. h \in Threads => pc'[PROG] \in Running
      BY <1>3, <1>7, <1>8, RefAssumption
    <3> QED BY <1>2, <1>3, <3>1, <3>2, Facts DEF Apart, Active
  <2>2. (\E g \in Hosts : Holds(g)') <=> \E g \in Hosts : Holds(g)
    BY <1>4
  <2>3. refs' = Count(Holds(PROG)) + Count(\E g \in Hosts : Holds(g))
    BY <1>5, <1>7, <1>8 DEF Registers, sharedVars
  <2>4. refs' = Count(Holds(PROG)') + Count(\E g \in Hosts : Holds(g)')
    BY <2>2, <2>3, <1>3 DEF Count
  <2>5. \A g \in Hosts : pc'[g] \in {"idle", "test"}
    BY <1>2, <1>7, <1>8, Facts
  <2>6. pc'[PROG] \in {"decWrite", "decTest"} => reg'[PROG] = 1
    BY <1>3, <1>5, <1>7, <1>8 DEF Registers
  <2> QED BY <2>1, <2>4, <2>5, <2>6 DEF Registers, Count
<1>9. ASSUME ~overlapped', ~dangling' PROVE Owned'
  <2>1. Owned
    BY <1>2, <1>7, <1>9 DEF IInv
  <2>2. \A g \in Hosts : pc'[g] \in {"idle", "test"}
    BY <1>2, <1>7, <1>9, Facts
  <2>3. UNCHANGED <<instance, alive, ptr>>
    BY <1>5 DEF sharedVars
  <2>4. ~Active(MAIN)
    BY <1>7, <1>9, Facts DEF Active
  <2> QED BY <2>1, <2>2, <2>3, <2>4, <1>3, Facts DEF Owned, Cleared, Deleting
<1>10. ASSUME ~overlapped', ~late' PROVE Usable'
  <2>1. ~late /\ Usable
    BY <1>7, <1>10 DEF IInv, Signal
  <2>2. \A g \in Hosts : pc'[g] \in {"idle", "test"}
    BY <1>2, <1>7, <1>10, Facts
  <2>3. UNCHANGED <<instance, alive, ptr, dangling>>
    BY <1>5 DEF sharedVars
  <2>4. pc[PROG] \notin {"delete", "forget"}
    BY <1>7, <1>10 DEF Signal, Running
  <2>5. \A c \in Contexts : pc'[c] = "forget" <=> pc[c] = "forget"
    BY <1>2, Facts
  <2>6. \A c \in Contexts : pc'[c] = "delete" => pc[c] = "delete"
    BY <1>2, Facts
  <2> QED BY <2>1, <2>2, <2>3, <2>4, <2>5, <2>6, <1>3 DEF Usable, Stopping
<1> QED BY <1>2, <1>3, <1>6, <1>8, <1>9, <1>10 DEF IInv

\* What the lemmas below need of a step of h that begins at from.
LEMMA HostFacts ==
    ASSUME IInv, NEW h \in Hosts, NEW from, NEW to, Step(h, from, to), from # "idle"
    PROVE  /\ Active(h) /\ TypeOK /\ ~dangling /\ h \in Contexts
           /\ pc[h] = from /\ pc'[h] = to
           /\ ~overlapped => Apart /\ Registers /\ Owned
           /\ ~overlapped /\ ~late => Usable
           /\ refs \in Int /\ reg \in [Contexts -> Int]
           /\ ptr \in [Contexts -> Objects \union {NULL}]
           /\ instance \in Objects \union {NULL} /\ alive \subseteq Objects
           /\ listening \subseteq alive /\ stop \in BOOLEAN
<1>1. TypeOK /\ h \in Contexts
  BY Facts DEF IInv
<1>2. pc[h] = from /\ pc'[h] = to /\ ~dangling
  BY <1>1, StepOf
<1> QED BY <1>1, <1>2 DEF IInv, Active, TypeOK

\* A step of h that leaves the count alone keeps what is known of it.
LEMMA HostCounts ==
    ASSUME IInv, ~overlapped, NEW h \in Hosts, Active(h),
           NEW from, NEW to, Step(h, from, to),
           Holds(h)' <=> Holds(h), UNCHANGED refs,
           \A c \in Contexts \ {h} : reg'[c] = reg[c],
           to \in {"incWrite", "decWrite"} => reg'[h] = refs,
           to # "decTest"
    PROVE  Registers'
<1>1. TypeOK /\ Registers
  BY DEF IInv
<1>2. pc'[h] = to /\ pc'[PROG] = pc[PROG] /\ (Holds(PROG)' <=> Holds(PROG))
      /\ \A g \in Hosts \ {h} : pc'[g] = "idle"
  BY <1>1, StepOf, HostAlone, Facts
<1>3. (\E g \in Hosts : Holds(g))' <=> (\E g \in Hosts : Holds(g))
  BY HostAlone
<1>4. refs' = Count(Holds(PROG)') + Count((\E g \in Hosts : Holds(g))')
  BY <1>1, <1>2, <1>3 DEF Registers, Count
<1>5. pc'[PROG] \in {"decWrite", "decTest"} => reg'[PROG] = 1
  BY <1>1, <1>2, Facts DEF Registers
<1> QED BY <1>2, <1>4, <1>5 DEF Registers

LEMMA TestInstanceStep == ASSUME IInv, NEW h \in Hosts, TestInstance(h) PROVE IInv'
<1> DEFINE to == IF instance = NULL THEN "create" ELSE "incRead"
<1>1. /\ Step(h, "test", to) /\ Calm
      /\ UNCHANGED <<sharedVars, reg, ptr, thread, dangling>>
  BY DEF TestInstance
<1>2. UNCHANGED <<refs, instance, alive, listening, stop, reg, ptr, thread, dangling>>
  BY <1>1 DEF sharedVars
<1>3. /\ Active(h) /\ TypeOK /\ ~dangling /\ pc[h] = "test" /\ pc'[h] = to
      /\ ~overlapped => Apart /\ Owned /\ (~late => Usable)
  BY <1>1, HostFacts
<1>4. to \in {"create", "incRead"} /\ (to = "create" => instance = NULL)
      /\ (to = "incRead" => instance # NULL)
  OBVIOUS
<1> HIDE DEF to
<1>5. Holds(h)' <=> Holds(h)
  BY <1>3, <1>4 DEF Holds, Stopping, Running
<1>6. ~overlapped => Registers'
  BY <1>1, <1>2, <1>3, <1>4, <1>5, HostCounts
<1>7. ~overlapped => Owned'
  BY <1>1, <1>2, <1>3, <1>4, HostKeeps DEF Deleting
<1>8. ASSUME ~overlapped, ~late PROVE Usable'
  <2>1. \A g \in Hosts : pc[g] # "forget"
    BY <1>1, <1>3, <1>8, HostAlone
  <2>2. pc[PROG] # "forget"
    BY <1>3, <1>8 DEF Usable
  <2>3. instance \in alive \union {NULL}
    BY <2>1, <2>2, <1>3, <1>8, Facts DEF Usable
  <2> QED BY <2>3, <1>1, <1>2, <1>3, <1>4, <1>8, HostUses DEF Stopping
<1> QED BY <1>1, <1>2, <1>3, <1>4, <1>6, <1>7, <1>8, HostStep, HostFacts
       DEF TypeOK, Handling

LEMMA CreateStep == ASSUME IInv, NEW h \in Hosts, Create(h) PROVE IInv'
<1>1. /\ Step(h, "create", "incRead") /\ Calm
      /\ UNCHANGED <<refs, listening, stop, reg, ptr, thread, dangling>>
  BY DEF Create
<1>2. PICK o \in Objects \ alive : instance' = o /\ alive' = alive \union {o}
  BY DEF Create
<1>3. /\ Active(h) /\ TypeOK /\ ~dangling /\ pc[h] = "create" /\ pc'[h] = "incRead"
      /\ ~overlapped => Apart /\ Owned /\ (~late => Usable)
  BY <1>1, HostFacts
<1>4. Holds(h)' <=> Holds(h)
  BY <1>3 DEF Holds, Stopping, Running
<1>5. ~overlapped => Registers'
  BY <1>1, <1>3, <1>4, HostCounts
<1>6. ASSUME ~overlapped
      PROVE  /\ ~Holds(PROG) /\ ~Holds(PROG)' /\ h = MAIN /\ alive' = {o}
             /\ pc'[PROG] = pc[PROG] /\ \A g \in Hosts \ {h} : pc'[g] = "idle"
  <2>1. instance = NULL /\ alive \subseteq {NULL} /\ ~Holds(PROG)
    BY <1>3, <1>6, Facts DEF Owned
  <2>2. alive = {}
    BY <2>1, <1>3, Facts DEF TypeOK
  <2> QED BY <2>1, <2>2, <1>1, <1>2, <1>3, <1>6, HostAlone
<1>7. ASSUME ~overlapped PROVE Owned'
  <2>1. \A g \in Hosts : pc'[g] \in {"idle", "incRead"}
    BY <1>3, <1>6, <1>7
  <2>2. Active(MAIN)'
    BY <1>3, <1>6, <1>7 DEF Active
  <2> QED BY <1>2, <1>6, <1>7, <2>1, <2>2 DEF Owned, Cleared, Deleting
<1>8. ASSUME ~overlapped, ~late PROVE Usable'
  <2>1. \A g \in Hosts : pc'[g] \in {"idle", "incRead"}
    BY <1>3, <1>6, <1>8
  <2>2. pc'[PROG] \notin {"delete", "forget"}
    BY <1>3, <1>6, <1>8 DEF Usable
  <2>3. \A c \in Contexts : pc'[c] # "delete"
    BY <2>1, <2>2, Facts
  <2> QED BY <1>1, <1>2, <1>3, <1>6, <1>8, <2>1, <2>2, <2>3 DEF Usable, Stopping
<1>9. instance' \in Objects /\ alive' \subseteq Objects /\ listening' \subseteq alive'
  BY <1>1, <1>2, <1>3 DEF TypeOK
<1> QED BY <1>1, <1>3, <1>5, <1>7, <1>8, <1>9, HostStep DEF TypeOK, Handling

LEMMA IncReadStep == ASSUME IInv, NEW h \in Hosts, IncRead(h) PROVE IInv'
<1>1. /\ Step(h, "incRead", "incWrite") /\ Calm /\ reg' = [reg EXCEPT ![h] = refs]
      /\ UNCHANGED <<refs, instance, alive, listening, stop, ptr, thread, dangling>>
  BY DEF IncRead, sharedVars
<1>2. /\ Active(h) /\ TypeOK /\ ~dangling /\ pc[h] = "incRead" /\ pc'[h] = "incWrite"
      /\ ~overlapped /\ ~late => Usable
  BY <1>1, HostFacts
<1>3. reg' \in [Contexts -> Int] /\ reg'[h] = refs /\ \A c \in Contexts \ {h} : reg'[c] = reg[c]
  BY <1>1, <1>2, Facts DEF TypeOK
<1>4. Holds(h)' <=> Holds(h)
  BY <1>2 DEF Holds, Stopping, Running
<1>5. ~overlapped => Registers'
  BY <1>1, <1>2, <1>3, <1>4, HostCounts
<1>6. ~overlapped => Owned'
  BY <1>1, <1>2, HostKeeps DEF Deleting
<1>7. ASSUME ~overlapped, ~late PROVE Usable'
  BY <1>1, <1>2, <1>7, HostUses DEF Usable, Stopping
<1> QED BY <1>1, <1>2, <1>3, <1>5, <1>6, <1>7, HostStep DEF TypeOK, Handling

LEMMA IncWriteStep == ASSUME IInv, NEW h \in Hosts, IncWrite(h) PROVE IInv'
<1>1. /\ Step(h, "incWrite", "deref") /\ Calm /\ reg' = [reg EXCEPT ![h] = 0]
      /\ refs' = reg[h] + 1
      /\ UNCHANGED <<instance, alive, listening, stop, ptr, thread, dangling>>
  BY DEF IncWrite, Incremented
<1>2. /\ Active(h) /\ TypeOK /\ ~dangling /\ pc[h] = "incWrite" /\ pc'[h] = "deref"
      /\ ~overlapped => Registers
      /\ ~overlapped /\ ~late => Usable
  BY <1>1, HostFacts
<1>3. reg' \in [Contexts -> Int] /\ \A c \in Contexts \ {h} : reg'[c] = reg[c]
  BY <1>1, <1>2, Facts DEF TypeOK
<1>4. ~Holds(h) /\ Holds(h)'
  BY <1>2 DEF Holds, Stopping, Running
<1>5. ASSUME ~overlapped PROVE Registers'
  <2>1. /\ pc'[PROG] = pc[PROG] /\ (Holds(PROG)' <=> Holds(PROG))
        /\ \A g \in Hosts \ {h} : pc'[g] = "idle"
        /\ ~(\E g \in Hosts : Holds(g)) /\ (\E g \in Hosts : Holds(g))'
    BY <1>1, <1>2, <1>4, <1>5, HostAlone
  <2>2. refs' = refs + 1
    BY <1>1, <1>2, <1>5 DEF Registers
  <2>3. refs = Count(Holds(PROG)) + 0
    BY <2>1, <1>2, <1>5 DEF Registers, Count
  <2>4. refs' = Count(Holds(PROG)') + Count((\E g \in Hosts : Holds(g))')
    BY <2>1, <2>2, <2>3 DEF Count
  <2>5. pc'[PROG] \in {"decWrite", "decTest"} => reg'[PROG] = 1
    BY <2>1, <1>2, <1>3, <1>5, Facts DEF Registers
  <2>6. \A g \in Hosts : pc'[g] \in {"idle", "deref"}
    BY <2>1, <1>2
  <2> QED BY <2>4, <2>5, <2>6 DEF Registers
<1>6. ~overlapped => Owned'
  BY <1>1, <1>2, HostKeeps DEF Deleting
<1>7. ASSUME ~overlapped, ~late PROVE Usable'
  BY <1>1, <1>2, <1>7, HostUses DEF Usable, Stopping
<1>8. refs' \in Int
  BY <1>1, <1>2, Facts DEF TypeOK
<1> QED BY <1>1, <1>2, <1>3, <1>5, <1>6, <1>7, <1>8, HostStep DEF TypeOK, Handling

LEMMA DereferenceStep == ASSUME IInv, NEW h \in Hosts, Dereference(h) PROVE IInv'
<1>1. /\ Step(h, "deref", "stop") /\ Calm /\ ptr' = [ptr EXCEPT ![h] = instance]
      /\ UNCHANGED <<refs, instance, alive, listening, stop, reg, thread, dangling>>
  BY DEF Dereference, sharedVars
<1>2. /\ Active(h) /\ TypeOK /\ ~dangling /\ pc[h] = "deref" /\ pc'[h] = "stop"
      /\ ~overlapped /\ ~late => Usable
  BY <1>1, HostFacts
<1>3. /\ ptr' \in [Contexts -> Objects \union {NULL}] /\ ptr'[h] = instance
      /\ \A c \in Contexts \ {h} : ptr'[c] = ptr[c]
  BY <1>1, <1>2, Facts DEF TypeOK
<1>4. Holds(h)' <=> Holds(h)
  BY <1>2 DEF Holds, Stopping, Running
<1>5. ~overlapped => Registers'
  BY <1>1, <1>2, <1>4, HostCounts
<1>6. ~overlapped => Owned'
  BY <1>1, <1>2, <1>3, HostKeeps DEF Deleting
<1>7. ASSUME ~overlapped, ~late PROVE Usable'
  <2>1. ptr'[h] \in alive
    BY <1>2, <1>3, <1>7 DEF Usable
  <2> QED BY <2>1, <1>1, <1>2, <1>3, <1>7, HostUses
<1> QED BY <1>1, <1>2, <1>3, <1>5, <1>6, <1>7, HostStep DEF TypeOK, Handling, Stopping

LEMMA TestListenerStep == ASSUME IInv, NEW h \in Hosts, TestListener(h) PROVE IInv'
<1>1. PICK to \in {"stopping", "decRead"} :
          /\ Step(h, "stop", to)
          /\ to = "stopping" => ptr' = ptr
          /\ ptr' \in {ptr, [ptr EXCEPT ![h] = NULL]}
  BY DEF TestListener
<1>2. /\ Calm /\ dangling' = (ptr[h] \notin alive)
      /\ UNCHANGED <<refs, instance, alive, listening, stop, reg, thread>>
  BY DEF TestListener, Uses, sharedVars
<1>3. /\ Active(h) /\ TypeOK /\ ~dangling /\ pc[h] = "stop" /\ pc'[h] = to
      /\ ~overlapped /\ ~late => Usable
  BY <1>1, HostFacts
<1>4. /\ ptr' \in [Contexts -> Objects \union {NULL}]
      /\ \A c \in Contexts \ {h} : ptr'[c] = ptr[c]
  BY <1>1, <1>3, Facts DEF TypeOK
<1>5. Holds(h)' <=> Holds(h)
  BY <1>1, <1>3 DEF Holds, Running, Stopping
<1>6. ~overlapped => Registers'
  BY <1>1, <1>2, <1>3, <1>5, HostCounts
<1>7. ~overlapped /\ ~dangling' => Owned'
  BY <1>1, <1>2, <1>3, <1>4, HostKeeps DEF Deleting
<1>8. ASSUME ~overlapped, ~late PROVE Usable'
  <2>1. ptr[h] \in alive /\ ~dangling'
    BY <1>2, <1>3, <1>8 DEF Usable, Stopping
  <2>2. to \in Stopping => ptr'[h] \in alive
    BY <1>1, <2>1 DEF Stopping
  <2> QED BY <2>1, <2>2, <1>1, <1>2, <1>3, <1>4, <1>8, HostUses
<1>9. stop' \in BOOLEAN /\ dangling' \in BOOLEAN
  BY <1>2, <1>3 DEF TypeOK
<1>10. to \in Handling \union Releasing
  BY <1>1 DEF Handling, Stopping, Releasing
<1> QED BY <1>1, <1>2, <1>3, <1>4, <1>6, <1>7, <1>8, <1>9, <1>10, HostStep DEF TypeOK

LEMMA CallStopStep == ASSUME IInv, NEW h \in Hosts, CallStop(h) PROVE IInv'
<1>1. /\ Step(h, "stopping", "decRead") /\ Calm /\ ptr' = [ptr EXCEPT ![h] = NULL]
      /\ dangling' = (ptr[h] \notin alive)
      /\ stop' = (stop \/ ptr[h] \in listening)
      /\ UNCHANGED <<refs, instance, alive, listening, reg, thread>>
  BY DEF CallStop, Uses, Stopped
<1>2. /\ Active(h) /\ TypeOK /\ ~dangling /\ pc[h] = "stopping" /\ pc'[h] = "decRead"
      /\ ~overlapped /\ ~late => Usable
  BY <1>1, HostFacts
<1>3. /\ ptr' \in [Contexts -> Objects \union {NULL}]
      /\ \A c \in Contexts \ {h} : ptr'[c] = ptr[c]
  BY <1>1, <1>2, Facts DEF TypeOK
<1>4. Holds(h)' <=> Holds(h)
  BY <1>2 DEF Holds, Stopping, Running
<1>5. ~overlapped => Registers'
  BY <1>1, <1>2, <1>4, HostCounts
<1>6. ~overlapped /\ ~dangling' => Owned'
  BY <1>1, <1>2, <1>3, HostKeeps DEF Deleting
<1>7. ASSUME ~overlapped, ~late PROVE Usable'
  <2>1. ~dangling'
    BY <1>1, <1>2, <1>7 DEF Usable, Stopping
  <2> QED BY <2>1, <1>1, <1>2, <1>3, <1>7, HostUses DEF Stopping
<1>8. stop' \in BOOLEAN /\ dangling' \in BOOLEAN
  BY <1>1, <1>2 DEF TypeOK
<1> QED BY <1>1, <1>2, <1>3, <1>5, <1>6, <1>7, <1>8, HostStep DEF TypeOK, Releasing

-----------------------------------------------------------------------------
(* releaseRef() in a handler.                                                *)

LEMMA HostDecReadStep == ASSUME IInv, NEW h \in Hosts, DecRead(h) PROVE IInv'
<1>1. /\ Step(h, "decRead", "decWrite") /\ Calm /\ reg' = [reg EXCEPT ![h] = refs]
      /\ UNCHANGED <<refs, instance, alive, listening, stop, ptr, thread, dangling>>
  BY DEF DecRead, sharedVars
<1>2. /\ Active(h) /\ TypeOK /\ ~dangling /\ pc[h] = "decRead" /\ pc'[h] = "decWrite"
  BY <1>1, HostFacts
<1>3. reg' \in [Contexts -> Int] /\ reg'[h] = refs /\ \A c \in Contexts \ {h} : reg'[c] = reg[c]
  BY <1>1, <1>2, Facts DEF TypeOK
<1>4. Holds(h)' <=> Holds(h)
  BY <1>2 DEF Holds, Running
<1>5. ~overlapped => Registers'
  BY <1>1, <1>2, <1>3, <1>4, HostCounts
<1>6. ~overlapped => Owned'
  BY <1>1, <1>2, HostKeeps DEF Deleting
<1>7. ASSUME ~overlapped, ~late PROVE Usable'
  BY <1>1, <1>2, <1>7, HostUses DEF Stopping
<1> QED BY <1>1, <1>2, <1>3, <1>5, <1>6, <1>7, HostStep DEF TypeOK, Releasing

LEMMA HostDecWriteStep == ASSUME IInv, NEW h \in Hosts, DecWrite(h) PROVE IInv'
<1>1. /\ Step(h, "decWrite", "decTest") /\ Calm /\ refs' = reg[h] - 1
      /\ UNCHANGED <<instance, alive, listening, stop, reg, ptr, thread, dangling>>
  BY DEF DecWrite, Decremented
<1>2. /\ Active(h) /\ TypeOK /\ ~dangling /\ pc[h] = "decWrite" /\ pc'[h] = "decTest"
      /\ refs \in Int /\ (~overlapped => Registers)
  BY <1>1, HostFacts
<1>3. Holds(h) /\ ~Holds(h)'
  BY <1>2 DEF Holds, Stopping, Running
<1>4. ASSUME ~overlapped PROVE Registers'
  <2>1. /\ pc'[PROG] = pc[PROG] /\ (Holds(PROG)' <=> Holds(PROG))
        /\ \A g \in Hosts \ {h} : pc'[g] = "idle"
        /\ (\E g \in Hosts : Holds(g)) /\ ~(\E g \in Hosts : Holds(g))'
    BY <1>1, <1>2, <1>3, <1>4, HostAlone
  <2>2. reg[h] = refs /\ refs' = refs - 1 /\ reg'[h] = refs' + 1
    <3>1. reg[h] = refs
      BY <1>2, <1>4 DEF Registers
    <3>2. refs' = refs - 1 /\ reg'[h] = refs
      BY <3>1, <1>1
    <3> QED BY <3>1, <3>2, <1>2
  <2>3. refs = Count(Holds(PROG)) + 1
    BY <2>1, <1>2, <1>4 DEF Registers, Count
  <2>4. refs' = Count(Holds(PROG)') + Count((\E g \in Hosts : Holds(g))')
    BY <2>1, <2>2, <2>3 DEF Count
  <2>5. pc'[PROG] \in {"decWrite", "decTest"} => reg'[PROG] = 1
    BY <2>1, <1>1, <1>2, <1>4 DEF Registers
  <2>6. \A g \in Hosts \ {h} : pc'[g] \notin {"incWrite", "decWrite", "decTest"}
    BY <2>1
  <2> QED BY <2>2, <2>4, <2>5, <2>6, <1>2 DEF Registers
<1>5. ~overlapped => Owned'
  BY <1>1, <1>2, HostKeeps DEF Deleting
<1>6. ASSUME ~overlapped, ~late PROVE Usable'
  BY <1>1, <1>2, <1>6, HostUses DEF Stopping
<1>7. refs' \in Int
  BY <1>1, <1>2, Facts DEF TypeOK
<1> QED BY <1>1, <1>2, <1>4, <1>5, <1>6, <1>7, HostStep DEF TypeOK, Releasing

LEMMA HostDecTestStep == ASSUME IInv, NEW h \in Hosts, DecTest(h) PROVE IInv'
<1>1. PICK v \in {reg[h] - 1, refs} : Step(h, "decTest", IF v = 0 THEN "load" ELSE After(h))
  BY DEF DecTest, LastGone, Decremented
<1> DEFINE to == IF v = 0 THEN "load" ELSE "idle"
<1>2. Step(h, "decTest", to)
  BY <1>1, Facts DEF After
<1>3. /\ Calm /\ reg' = [reg EXCEPT ![h] = 0]
      /\ UNCHANGED <<refs, instance, alive, listening, stop, ptr, thread, dangling>>
  BY DEF DecTest, sharedVars
<1>4. to \in {"load", "idle"} /\ (to = "load" <=> v = 0)
  OBVIOUS
<1> HIDE DEF to
<1>5. /\ Active(h) /\ TypeOK /\ ~dangling /\ pc[h] = "decTest" /\ pc'[h] = to
      /\ refs \in Int /\ (~overlapped => Registers)
  BY <1>2, HostFacts
<1>6. reg' \in [Contexts -> Int] /\ \A c \in Contexts \ {h} : reg'[c] = reg[c]
  BY <1>3, <1>5, Facts DEF TypeOK
<1>7. ~Holds(h) /\ (Holds(h)' <=> Holds(h))
  BY <1>4, <1>5 DEF Holds, Stopping, Running
<1>8. ~overlapped => Registers'
  BY <1>2, <1>3, <1>4, <1>5, <1>6, <1>7, HostCounts
<1>9. ~overlapped => (to = "load" <=> ~Holds(PROG))
  <2> SUFFICES ASSUME ~overlapped PROVE v = 0 <=> ~Holds(PROG)
    BY <1>4
  <2>1. ~(\E g \in Hosts : Holds(g))
    BY <1>2, <1>5, <1>7, HostAlone
  <2>2. refs = Count(Holds(PROG)) + 0
    BY <2>1, <1>5 DEF Registers, Count
  <2>3. reg[h] = refs + 1
    BY <1>5 DEF Registers
  <2>4. v = refs
    BY <1>5, <2>3
  <2> QED BY <2>2, <2>4 DEF Count
<1>10. ~overlapped => Owned'
  BY <1>2, <1>3, <1>4, <1>5, <1>9, HostKeeps DEF Deleting
<1>11. ASSUME ~overlapped, ~late PROVE Usable'
  BY <1>2, <1>3, <1>4, <1>5, <1>11, HostUses DEF Stopping
<1> QED BY <1>2, <1>3, <1>4, <1>5, <1>6, <1>8, <1>10, <1>11, HostStep DEF TypeOK, Releasing

LEMMA HostLoadStep == ASSUME IInv, NEW h \in Hosts, LoadInstance(h) PROVE IInv'
<1>1. /\ Step(h, "load", "delete") /\ Calm /\ ptr' = [ptr EXCEPT ![h] = instance]
      /\ UNCHANGED <<refs, instance, alive, listening, stop, reg, thread, dangling>>
  BY DEF LoadInstance, sharedVars
<1>2. /\ Active(h) /\ TypeOK /\ ~dangling /\ pc[h] = "load" /\ pc'[h] = "delete"
      /\ ~overlapped => Owned
      /\ ~overlapped /\ ~late => Usable
  BY <1>1, HostFacts
<1>3. /\ ptr' \in [Contexts -> Objects \union {NULL}] /\ ptr'[h] = instance
      /\ \A c \in Contexts \ {h} : ptr'[c] = ptr[c]
  BY <1>1, <1>2, Facts DEF TypeOK
<1>4. Holds(h)' <=> Holds(h)
  BY <1>2 DEF Holds, Stopping, Running
<1>5. ~overlapped => Registers'
  BY <1>1, <1>2, <1>4, HostCounts
<1>6. ASSUME ~overlapped PROVE Owned'
  <2>1. alive \subseteq {ptr'[h]} /\ ~Holds(PROG)
    BY <1>2, <1>3, <1>6 DEF Owned, Deleting
  <2> QED BY <2>1, <1>1, <1>2, <1>3, <1>6, HostKeeps
<1>7. ASSUME ~overlapped, ~late PROVE Usable'
  <2>1. \A g \in Hosts : pc[g] # "forget"
    BY <1>1, <1>2, <1>7, HostAlone
  <2>2. pc[PROG] # "forget"
    BY <1>2, <1>7 DEF Usable
  <2>3. instance \in alive \union {NULL}
    BY <2>1, <2>2, <1>2, <1>7, Facts DEF Usable
  <2> QED BY <2>3, <1>1, <1>2, <1>3, <1>7, HostUses DEF Stopping
<1> QED BY <1>1, <1>2, <1>3, <1>5, <1>6, <1>7, HostStep DEF TypeOK, Releasing

LEMMA HostDeleteStep == ASSUME IInv, NEW h \in Hosts, Delete(h) PROVE IInv'
<1>1. /\ Step(h, "delete", "forget") /\ Calm /\ ptr' = [ptr EXCEPT ![h] = NULL]
      /\ dangling' = IF ptr[h] = NULL THEN dangling ELSE ptr[h] \notin alive
      /\ alive' = alive \ {ptr[h]} /\ listening' = listening \ {ptr[h]}
      /\ UNCHANGED <<refs, instance, stop, reg, thread>>
  BY DEF Delete, Uses
<1>2. /\ Active(h) /\ TypeOK /\ ~dangling /\ pc[h] = "delete" /\ pc'[h] = "forget"
      /\ h \in Contexts /\ (~overlapped => Owned)
      /\ ~overlapped /\ ~late => Usable
  BY <1>1, HostFacts
<1>3. /\ ptr' \in [Contexts -> Objects \union {NULL}]
      /\ \A c \in Contexts \ {h} : ptr'[c] = ptr[c]
  BY <1>1, <1>2, Facts DEF TypeOK
<1>4. Holds(h)' <=> Holds(h)
  BY <1>2 DEF Holds, Stopping, Running
<1>5. ~overlapped => Registers'
  BY <1>1, <1>2, <1>4, HostCounts
<1>6. ASSUME ~overlapped
      PROVE  /\ ~Holds(PROG) /\ ~Holds(PROG)' /\ h = MAIN /\ alive' = {}
             /\ pc'[PROG] = pc[PROG] /\ \A g \in Hosts \ {h} : pc'[g] = "idle"
  <2>1. ~Holds(PROG) /\ alive \subseteq {ptr[h]}
    BY <1>2, <1>6 DEF Owned, Deleting, Cleared
  <2> QED BY <2>1, <1>1, <1>2, <1>6, HostAlone
<1>7. ASSUME ~overlapped PROVE Owned'
  <2>1. \A g \in Hosts : pc'[g] \in {"idle", "forget"}
    BY <1>2, <1>6, <1>7
  <2>2. Active(MAIN)'
    BY <1>2, <1>6, <1>7 DEF Active
  <2> QED BY <1>6, <1>7, <2>1, <2>2 DEF Owned, Cleared, Deleting
<1>8. ASSUME ~overlapped, ~late PROVE Usable'
  <2>1. \A g \in Hosts : pc'[g] \in {"idle", "forget"}
    BY <1>2, <1>6, <1>8
  <2>2. pc'[PROG] \notin {"delete", "forget"}
    BY <1>2, <1>6, <1>8 DEF Usable
  <2>3. \A c \in Contexts : pc'[c] # "delete"
    BY <2>1, <2>2, Facts
  <2>4. ~dangling'
    BY <1>1, <1>2, <1>8 DEF Usable
  <2> QED BY <1>2, <2>1, <2>2, <2>3, <2>4 DEF Usable, Stopping
<1>9. dangling' \in BOOLEAN /\ alive' \subseteq Objects /\ listening' \subseteq alive'
  BY <1>1, <1>2 DEF TypeOK
<1> QED BY <1>1, <1>2, <1>3, <1>5, <1>7, <1>8, <1>9, HostStep DEF TypeOK, Releasing

LEMMA HostForgetStep == ASSUME IInv, NEW h \in Hosts, Forget(h) PROVE IInv'
<1>1. /\ Step(h, "forget", "idle") /\ Calm /\ instance' = NULL
      /\ UNCHANGED <<refs, alive, listening, stop, reg, ptr, thread, dangling>>
  BY Facts DEF Forget, After, Forgotten
<1>2. /\ Active(h) /\ TypeOK /\ ~dangling /\ pc[h] = "forget" /\ pc'[h] = "idle"
      /\ h \in Contexts /\ (~overlapped => Owned)
      /\ ~overlapped /\ ~late => Usable
  BY <1>1, HostFacts
<1>3. Holds(h)' <=> Holds(h)
  BY <1>2 DEF Holds, Stopping, Running
<1>4. ~overlapped => Registers'
  BY <1>1, <1>2, <1>3, HostCounts
<1>5. ASSUME ~overlapped
      PROVE  /\ ~Holds(PROG)' /\ alive' = {}
             /\ pc'[PROG] = pc[PROG] /\ \A g \in Hosts : pc'[g] = "idle"
  <2>1. ~Holds(PROG) /\ alive = {}
    BY <1>2, <1>5 DEF Owned, Deleting, Cleared
  <2> QED BY <2>1, <1>1, <1>2, <1>5, HostAlone
<1>6. ~overlapped => Owned'
  BY <1>1, <1>5 DEF Owned, Cleared, Deleting
<1>7. ASSUME ~overlapped, ~late PROVE Usable'
  <2>1. pc'[PROG] \notin {"delete", "forget"}
    BY <1>2, <1>5, <1>7 DEF Usable
  <2>2. \A c \in Contexts : pc'[c] # "delete"
    BY <2>1, <1>5, <1>7, Facts
  <2> QED BY <1>1, <1>2, <1>5, <1>7, <2>1, <2>2 DEF Usable, Stopping
<1> QED BY <1>1, <1>2, <1>4, <1>6, <1>7, HostStep, Facts DEF TypeOK

-----------------------------------------------------------------------------
(* The steps of main() while no handler runs.                                *)

\* Once main() has left run(), or leaves it without meeting a handler, none is there.
LEMMA MainAlone ==
    ASSUME IInv, ~overlapped, NEW from, NEW to, Step(PROG, from, to),
           from \notin Running \/ \A t \in Threads : ~Active(t)
    PROVE  \A h \in Hosts : pc[h] = "idle" /\ pc'[h] = "idle"
<1>1. TypeOK /\ Apart
  BY DEF IInv
<1>2. pc[PROG] = from /\ ~Active(MAIN) /\ \A h \in Hosts : pc'[h] = pc[h]
  BY <1>1, StepOf, Facts
<1>3. \A t \in Threads : ~Active(t)
  BY <1>1, <1>2 DEF Apart
<1> QED BY <1>2, <1>3, Facts DEF Active

\* So the invariant is about main() only.
LEMMA MainStep ==
    ASSUME IInv, NEW from, NEW to, Step(PROG, from, to),
           to \in Releasing \union {"done", "exited"},
           UNCHANGED <<late, signals, thread>>, overlapped' \in BOOLEAN,
           instance' \in Objects \union {NULL}, alive' \subseteq Objects,
           listening' \subseteq alive', stop' \in BOOLEAN, dangling' \in BOOLEAN,
           refs' \in Int, reg' \in [Contexts -> Int],
           ptr' \in [Contexts -> Objects \union {NULL}],
           to = "exited" => ~dangling',
           ~overlapped' => /\ \A h \in Hosts : pc'[h] = "idle"
                           /\ refs' = Count(to \in {"decRead", "decWrite"})
                           /\ to \in {"decWrite", "decTest"} => reg'[PROG] = 1,
           ~overlapped' /\ ~dangling' =>
               /\ alive' \subseteq {instance'}
               /\ to \in {"decRead", "decWrite"} => instance' = First /\ First \in alive'
               /\ to = "delete" => alive' \subseteq {ptr'[PROG]}
               /\ to = "forget" => alive' = {}
               /\ to \in {"done", "exited"} => alive' = {} /\ instance' = NULL,
           ~overlapped' /\ ~late =>
               /\ ~dangling'
               /\ to # "forget" => instance' \in alive' \union {NULL}
               /\ to = "delete" => ptr'[PROG] \in alive' \union {NULL}
    PROVE  IInv'
<1>1. TypeOK /\ PROG \in Contexts
  BY Facts DEF IInv
<1>2. pc'[PROG] = to
  BY <1>1, StepOf
<1>3. to \notin Running
  BY DEF Running, Releasing
<1>4. Holds(PROG)' <=> to \in {"decRead", "decWrite"}
  BY <1>2, <1>3 DEF Holds, Stopping, Running, Releasing
<1>5. ASSUME ~overlapped' PROVE Apart' /\ Registers'
  <2>1. Apart'
    BY <1>5, Facts DEF Apart, Active
  <2>2. ~(\E h \in Hosts : Holds(h))'
    BY <1>5 DEF Holds, Stopping, Running
  <2>3. refs' = Count(Holds(PROG)') + Count((\E h \in Hosts : Holds(h))')
    BY <2>2, <1>4, <1>5 DEF Count
  <2> QED BY <2>1, <2>3, <1>2, <1>5 DEF Registers
<1>6. ASSUME ~overlapped', ~dangling' PROVE Owned'
  <2>1. Cleared(PROG)' /\ \A h \in Hosts : Cleared(h)'
    BY <1>2, <1>6 DEF Cleared
  <2> QED BY <2>1, <1>2, <1>4, <1>6 DEF Owned, Deleting
<1>7. ASSUME ~overlapped', ~late' PROVE Usable'
  <2>1. \A c \in Contexts : pc'[c] = "delete" => c = PROG
    BY <1>7, Facts
  <2>2. \A h \in Hosts : ~Active(h)'
    BY <1>7 DEF Active
  <2>3. (\A c \in Contexts : pc'[c] # "forget") => to # "forget"
    BY <1>1, <1>2
  <2> QED BY <2>1, <2>2, <2>3, <1>2, <1>7 DEF Usable, Stopping
<1>8. ~overlapped' => refs' \in 0 .. 2
  BY DEF Count
<1>9. TypeOK'
  <2>1. /\ pc' \in [Contexts -> Points]
        /\ pc'[PROG] \in Running \union Releasing \union {"done", "exited"}
        /\ \A g \in Hosts : pc'[g] \in Handling \union Releasing \union {"idle"}
    BY <1>1, PcType, Facts
  <2> QED BY <2>1, <1>1, <1>8 DEF TypeOK, Points
<1> QED BY <1>2, <1>5, <1>6, <1>7, <1>9 DEF IInv

\* What the invariant says to main() after run().
LEMMA MainFacts ==
    ASSUME IInv, NEW from, NEW to, Step(PROG, from, to), from \notin Running
    PROVE  /\ TypeOK /\ ~dangling /\ PROG \in Contexts
           /\ pc[PROG] = from /\ pc'[PROG] = to
           /\ ~overlapped =>
                 /\ \A h \in Hosts : pc'[h] = "idle"
                 /\ refs = Count(from \in {"decRead", "decWrite"})
                 /\ from \in {"decWrite", "decTest"} => reg[PROG] = 1
                 /\ alive \subseteq {instance}
                 /\ from \in {"decRead", "decWrite"} => instance = First /\ First \in alive
                 /\ from = "delete" => alive \subseteq {ptr[PROG]}
                 /\ from = "forget" => alive = {}
                 /\ from = "done" => alive = {} /\ instance = NULL
           /\ ~overlapped /\ ~late =>
                 /\ from # "forget" => instance \in alive \union {NULL}
                 /\ from = "delete" => ptr[PROG] \in alive \union {NULL}
<1>1. TypeOK /\ PROG \in Contexts
  BY Facts DEF IInv
<1>2. pc[PROG] = from /\ pc'[PROG] = to /\ ~dangling /\ ~Active(MAIN)
  BY <1>1, StepOf
<1>3. Holds(PROG) <=> from \in {"decRead", "decWrite"}
  <2>1. from \notin Stopping \union {"deref"}
    BY <1>1, <1>2 DEF TypeOK, Releasing, Running, Stopping
  <2> QED BY <2>1, <1>2 DEF Holds
<1>4. ASSUME ~overlapped
      PROVE  /\ Registers /\ Owned /\ (~late => Usable)
             /\ \A h \in Hosts : pc[h] = "idle" /\ pc'[h] = "idle"
  BY <1>2, <1>4, MainAlone DEF IInv
<1>5. ASSUME ~overlapped PROVE refs = Count(from \in {"decRead", "decWrite"})
  <2>1. ~(\E h \in Hosts : Holds(h))
    BY <1>4, <1>5 DEF Holds, Stopping, Running
  <2> QED BY <2>1, <1>3, <1>4, <1>5 DEF Registers, Count
<1>6. ASSUME ~overlapped, ~late
      PROVE  /\ from # "forget" => instance \in alive \union {NULL}
             /\ from = "delete" => ptr[PROG] \in alive \union {NULL}
  <2>1. \A c \in Contexts : pc[c] = "forget" => c = PROG
    BY <1>4, <1>6, Facts
  <2> QED BY <2>1, <1>1, <1>2, <1>4, <1>6 DEF Usable
<1>7. ASSUME ~overlapped
      PROVE  /\ from \in {"decWrite", "decTest"} => reg[PROG] = 1
             /\ alive \subseteq {instance}
             /\ from \in {"decRead", "decWrite"} => instance = First /\ First \in alive
             /\ from = "delete" => alive \subseteq {ptr[PROG]}
             /\ from = "forget" => alive = {}
             /\ from = "done" => alive = {} /\ instance = NULL
  BY <1>2, <1>3, <1>4, <1>7 DEF Registers, Owned, Cleared
<1> QED BY <1>1, <1>2, <1>4, <1>5, <1>6, <1>7

LEMMA MainReleaseStep == ASSUME IInv, Release(PROG) PROVE IInv'
<1>1. ASSUME DecRead(PROG) PROVE IInv'
  <2>1. /\ Step(PROG, "decRead", "decWrite") /\ Calm /\ reg' = [reg EXCEPT ![PROG] = refs]
        /\ UNCHANGED <<refs, instance, alive, listening, stop, ptr, thread, dangling>>
    BY <1>1 DEF DecRead, sharedVars
  <2>2. reg' \in [Contexts -> Int] /\ reg'[PROG] = refs
    BY <2>1, Facts DEF IInv, TypeOK
  <2> QED BY <2>1, <2>2, MainFacts, MainStep DEF Calm, TypeOK, Running, Releasing, Count
<1>2. ASSUME DecWrite(PROG) PROVE IInv'
  <2>1. /\ Step(PROG, "decWrite", "decTest") /\ Calm /\ refs' = reg[PROG] - 1
        /\ UNCHANGED <<instance, alive, listening, stop, reg, ptr, thread, dangling>>
    BY <1>2 DEF DecWrite, Decremented
  <2>2. refs' \in Int
    BY <2>1, Facts DEF IInv, TypeOK
  <2> QED BY <2>1, <2>2, MainFacts, MainStep DEF Calm, TypeOK, Running, Releasing, Count
<1>3. ASSUME DecTest(PROG) PROVE IInv'
  <2>1. PICK v \in {reg[PROG] - 1, refs} :
            Step(PROG, "decTest", IF v = 0 THEN "load" ELSE "done")
    BY <1>3 DEF DecTest, LastGone, Decremented, After
  <2> DEFINE to == IF v = 0 THEN "load" ELSE "done"
  <2>2. /\ Calm /\ reg' = [reg EXCEPT ![PROG] = 0]
        /\ UNCHANGED <<refs, instance, alive, listening, stop, ptr, thread, dangling>>
    BY <1>3 DEF DecTest, sharedVars
  <2>3. reg' \in [Contexts -> Int]
    BY <2>2, Facts DEF IInv, TypeOK
  <2>4. Step(PROG, "decTest", to) /\ to \in {"load", "done"} /\ (v = 0 => to = "load")
    BY <2>1
  <2> HIDE DEF to
  <2>5. ~overlapped => to = "load"
    <3> SUFFICES ASSUME ~overlapped PROVE v = 0
      BY <2>4
    <3>1. refs = 0 /\ reg[PROG] = 1
      BY <2>4, MainFacts DEF Running, Count
    <3> QED BY <3>1
  <2> QED BY <2>2, <2>3, <2>4, <2>5, MainFacts, MainStep
             DEF Calm, TypeOK, Running, Releasing, Count
<1>4. ASSUME LoadInstance(PROG) PROVE IInv'
  <2>1. /\ Step(PROG, "load", "delete") /\ Calm /\ ptr' = [ptr EXCEPT ![PROG] = instance]
        /\ UNCHANGED <<refs, instance, alive, listening, stop, reg, thread, dangling>>
    BY <1>4 DEF LoadInstance, sharedVars
  <2>2. ptr' \in [Contexts -> Objects \union {NULL}] /\ ptr'[PROG] = instance
    BY <2>1, Facts DEF IInv, TypeOK
  <2> QED BY <2>1, <2>2, MainFacts, MainStep DEF Calm, TypeOK, Running, Releasing, Count
<1>5. ASSUME Delete(PROG) PROVE IInv'
  <2>1. /\ Step(PROG, "delete", "forget") /\ Calm /\ ptr' = [ptr EXCEPT ![PROG] = NULL]
        /\ dangling' = IF ptr[PROG] = NULL THEN dangling ELSE ptr[PROG] \notin alive
        /\ alive' = alive \ {ptr[PROG]} /\ listening' = listening \ {ptr[PROG]}
        /\ UNCHANGED <<refs, instance, stop, reg, thread>>
    BY <1>5 DEF Delete, Uses
  <2>2. /\ ptr' \in [Contexts -> Objects \union {NULL}]
        /\ dangling' \in BOOLEAN /\ alive' \subseteq Objects /\ listening' \subseteq alive'
    BY <2>1, Facts DEF IInv, TypeOK
  <2> QED BY <2>1, <2>2, MainFacts, MainStep DEF Calm, TypeOK, Running, Releasing, Count
<1>6. ASSUME Forget(PROG) PROVE IInv'
  <2>1. /\ Step(PROG, "forget", "done") /\ Calm /\ instance' = NULL
        /\ UNCHANGED <<refs, alive, listening, stop, reg, ptr, thread, dangling>>
    BY <1>6 DEF Forget, After, Forgotten
  <2> QED BY <2>1, MainFacts, MainStep DEF Calm, TypeOK, Running, Releasing, Count
<1> QED BY <1>1, <1>2, <1>3, <1>4, <1>5, <1>6 DEF Release

LEMMA ExitStep == ASSUME IInv, Exit PROVE IInv'
<1>1. /\ Step(PROG, "done", "exited") /\ Calm
      /\ UNCHANGED <<refs, instance, alive, listening, stop, reg, ptr, thread, dangling>>
  BY DEF Exit, sharedVars
<1> QED BY <1>1, MainFacts, MainStep DEF Calm, TypeOK, Running, Releasing, Count

LEMMA LeaveRunStep == ASSUME IInv, NEW from \in Running, LeaveRun(from) PROVE IInv'
<1>1. /\ Step(PROG, from, "decRead") /\ dangling' = (First \notin alive)
      /\ overlapped' = (overlapped \/ \E t \in Threads : Active(t))
      /\ UNCHANGED <<refs, instance, alive, listening, stop, reg, ptr, thread, signals, late>>
  BY DEF LeaveRun, Uses, sharedVars
<1>2. TypeOK /\ PROG \in Contexts
  BY Facts DEF IInv
<1>3. pc[PROG] = from /\ ~dangling /\ Holds(PROG)
  BY <1>1, <1>2, StepOf DEF Holds
<1>4. ASSUME ~overlapped'
      PROVE  /\ ~overlapped /\ \A h \in Hosts : pc[h] = "idle" /\ pc'[h] = "idle"
             /\ Registers /\ Owned
  BY <1>1, <1>3, <1>4, MainAlone DEF IInv
<1>5. ASSUME ~overlapped' PROVE refs = 1
  <2>1. ~(\E h \in Hosts : Holds(h))
    BY <1>4, <1>5 DEF Holds, Stopping, Running
  <2> QED BY <2>1, <1>3, <1>4, <1>5 DEF Registers, Count
<1>6. ~overlapped' => alive \subseteq {instance} /\ instance = First /\ First \in alive
  BY <1>3, <1>4 DEF Owned
<1>7. overlapped' \in BOOLEAN /\ dangling' \in BOOLEAN
  BY <1>1, <1>2 DEF TypeOK
<1> QED BY <1>1, <1>2, <1>4, <1>5, <1>6, <1>7, MainStep DEF TypeOK, Releasing, Count

-----------------------------------------------------------------------------
(* The steps of main() in run(), and the controller threads.                 *)

\* A step that stays in run() and does not touch the count.
LEMMA RunStep ==
    ASSUME IInv, NEW from \in Running, NEW to \in Running, Step(PROG, from, to),
           Calm, dangling' = (First \notin alive),
           UNCHANGED <<refs, instance, alive, reg, ptr>>,
           listening' \subseteq alive, stop' \in BOOLEAN,
           thread' \in [Threads -> {"none", "running", "straggling"}]
    PROVE  IInv'
<1>1. TypeOK /\ PROG \in Contexts
  BY Facts DEF IInv
<1>2. /\ pc[PROG] = from /\ pc'[PROG] = to /\ ~dangling
      /\ \A h \in Hosts : pc'[h] = pc[h]
  BY <1>1, StepOf, Facts
<1>3. Holds(PROG) /\ Holds(PROG)' /\ \A h \in Hosts : Holds(h)' <=> Holds(h)
  BY <1>2 DEF Holds
<1>4. to \notin Releasing \union {"done", "exited"}
  BY DEF Running, Releasing
<1>5. UNCHANGED <<overlapped, late, signals>>
  BY DEF Calm
<1>6. TypeOK'
  <2>1. /\ pc' \in [Contexts -> Points]
        /\ pc'[PROG] \in Running \union Releasing \union {"done", "exited"}
        /\ \A g \in Hosts : pc'[g] \in Handling \union Releasing \union {"idle"}
    BY <1>1, PcType, Facts
  <2> QED BY <2>1, <1>1, <1>5 DEF TypeOK, Points
<1>7. ASSUME ~overlapped PROVE Apart' /\ Registers'
  <2>1. Apart /\ Registers
    BY <1>7 DEF IInv
  <2>2. Apart'
    BY <2>1, <1>2, <1>4, Facts DEF Apart, Active
  <2>3. (\E h \in Hosts : Holds(h)') <=> \E h \in Hosts : Holds(h)
    BY <1>3
  <2>4. refs' = Count(Holds(PROG)') + Count(\E h \in Hosts : Holds(h)')
    BY <2>1, <2>3, <1>3 DEF Registers, Count
  <2> QED BY <2>1, <2>2, <2>4, <1>2, <1>4 DEF Registers, Releasing
<1>8. ASSUME ~overlapped PROVE Owned'
  <2>1. Owned
    BY <1>2, <1>8 DEF IInv
  <2>2. Cleared(PROG)'
    BY <1>2, <1>4 DEF Cleared, Releasing
  <2>3. \A h \in Hosts : /\ pc'[h] \in Deleting => ~Holds(PROG)'
                         /\ pc'[h] = "create" => instance' = NULL
                         /\ Cleared(h)'
    BY <2>1, <1>2, <1>3 DEF Owned, Cleared
  <2> QED BY <2>1, <2>2, <2>3, <1>2, <1>3, <1>4 DEF Owned
<1>9. ASSUME ~overlapped, ~late PROVE Usable'
  <2>1. Usable /\ First \in alive
    BY <1>2, <1>3, <1>9 DEF IInv, Owned
  <2>2. pc[PROG] \notin {"delete", "forget"} /\ pc'[PROG] \notin {"delete", "forget"}
    BY <1>2 DEF Running
  <2>3. \A c \in Contexts : /\ pc'[c] = "forget" <=> pc[c] = "forget"
                            /\ pc'[c] = "delete" => pc[c] = "delete"
    BY <2>2, <1>2, Facts
  <2> QED BY <2>1, <2>2, <2>3, <1>2 DEF Usable
<1> QED BY <1>2, <1>4, <1>5, <1>6, <1>7, <1>8, <1>9 DEF IInv

\* Nothing but thread changes, or nothing at all.
LEMMA ThreadsStep ==
    ASSUME IInv, thread' \in [Threads -> {"none", "running", "straggling"}],
           UNCHANGED <<sharedVars, contextVars, signals, historyVars>>
    PROVE  IInv'
<1>1. UNCHANGED <<refs, instance, alive, listening, stop, pc, reg, ptr, signals,
                  overlapped, late, dangling>>
  BY DEF sharedVars, contextVars, historyVars
<1>2. TypeOK'
  BY <1>1 DEF IInv, TypeOK
<1>3. /\ Apart' <=> Apart
      /\ Registers' <=> Registers
      /\ Owned' <=> Owned
      /\ Usable' <=> Usable
  BY <1>1 DEF Apart, Registers, Owned, Usable, Cleared, Active, Holds
<1> QED BY <1>1, <1>2, <1>3 DEF IInv

-----------------------------------------------------------------------------
LEMMA HandleStep == ASSUME IInv, NEW h \in Hosts, Handle(h) PROVE IInv'
BY TestInstanceStep, CreateStep, IncReadStep, IncWriteStep, DereferenceStep,
   TestListenerStep, CallStopStep,
   HostDecReadStep, HostDecWriteStep, HostDecTestStep, HostLoadStep, HostDeleteStep,
   HostForgetStep DEF Handle, Release

LEMMA NextIInv == IInv /\ [Next]_vars => IInv'
<1> SUFFICES ASSUME IInv, [Next]_vars PROVE IInv'
  OBVIOUS
<1>1. TypeOK
  BY DEF IInv
<1>2. CASE StartListener
  <2>1. /\ Step(PROG, "armed", "listening") /\ Calm /\ dangling' = (First \notin alive)
        /\ UNCHANGED <<refs, instance, alive, stop, reg, ptr, thread>>
        /\ listening' \subseteq alive
    BY <1>1, <1>2 DEF StartListener, Uses, TypeOK
  <2> QED BY <2>1, <1>1, RunStep DEF TypeOK, Running
<1>3. CASE SeeStop
  <2>1. /\ Step(PROG, "listening", "joining") /\ Calm /\ dangling' = (First \notin alive)
        /\ UNCHANGED <<refs, instance, alive, listening, stop, reg, ptr, thread>>
    BY <1>3 DEF SeeStop, Uses, sharedVars
  <2> QED BY <2>1, <1>1, RunStep DEF TypeOK, Running
<1>4. ASSUME NEW t \in Threads, StartThread(t) PROVE IInv'
  <2>1. /\ Step(PROG, "listening", "listening") /\ Calm /\ dangling' = (First \notin alive)
        /\ UNCHANGED <<refs, instance, alive, listening, stop, reg, ptr>>
        /\ thread' = [thread EXCEPT ![t] = "running"]
    BY <1>4 DEF StartThread, Uses, sharedVars
  <2> QED BY <2>1, <1>1, RunStep DEF TypeOK, Running
<1>5. ASSUME NEW t \in Threads, Straggle(t) \/ EndThread(t) PROVE IInv'
  <2>1. /\ thread' \in [Threads -> {"none", "running", "straggling"}]
        /\ UNCHANGED <<sharedVars, contextVars, signals, historyVars>>
    BY <1>1, <1>5 DEF Straggle, EndThread, ThreadStep, TypeOK
  <2> QED BY <2>1, ThreadsStep
<1>6. CASE UNCHANGED vars
  <2>1. /\ thread' \in [Threads -> {"none", "running", "straggling"}]
        /\ UNCHANGED <<sharedVars, contextVars, signals, historyVars>>
    BY <1>1, <1>6 DEF vars, TypeOK
  <2> QED BY <2>1, ThreadsStep
<1>7. CASE RunFails \/ RunReturns
  BY <1>7, LeaveRunStep DEF RunFails, RunReturns, Running
<1> QED BY <1>2, <1>3, <1>4, <1>5, <1>6, <1>7, SignalStep, HandleStep, MainReleaseStep, ExitStep
        DEF Next, Ends, Terminated

-----------------------------------------------------------------------------
\* The inductive invariant: who can run next to whom, what a context has read of the
\* count, which object is alive, and that what is about to be used is.
THEOREM Inductive == Spec => []IInv
BY InitIInv, NextIInv, PTL DEF Spec

\* For any number of threads, addresses and signals: types, and a count of 0 to 2 as
\* long as the threads keep apart.
THEOREM TypeCorrect == Spec => []TypeOK
<1>1. IInv => TypeOK
  BY DEF IInv
<1> QED BY <1>1, Inductive, PTL

\* refs_ is the number of references, however handlers interrupt main().
THEOREM RefsCountHoldersHolds == Spec => []RefsCountHolders
<1>1. IInv => RefsCountHolders
  BY DEF IInv, Registers, RefsCountHolders
<1> QED BY <1>1, Inductive, PTL

\* No use after deletion, and no second deletion, without handlers on two threads at
\* once or a signal during the deletion.
THEOREM NoDanglingUseHolds == Spec => []NoDanglingUse
<1>1. IInv => NoDanglingUse
  BY DEF IInv, Usable, NoDanglingUse
<1> QED BY <1>1, Inductive, PTL

\* No object is left when the process exits, even if signals arrived after the
\* deletion or in it.
THEOREM DestroyedAtExitHolds == Spec => []DestroyedAtExit
<1>1. IInv => DestroyedAtExit
  <2> SUFFICES ASSUME IInv, pc[PROG] = "exited", ~overlapped
               PROVE  alive = {} /\ instance = NULL
    BY DEF DestroyedAtExit
  <2>1. ~dangling /\ Owned /\ ~Active(MAIN)
    BY DEF IInv, Apart
  <2> QED BY <2>1 DEF Owned
<1> QED BY <1>1, Inductive, PTL

-----------------------------------------------------------------------------
(* No signal is lost in the listener's time.  This holds for overlapping      *)
(* handlers too, of which the invariant above says nothing: when the listener *)
(* starts nobody is in the handler, and none that starts later comes to       *)
(* releaseRef() before it has called stop().                                  *)

\* The points of a handler that has not called stop() on the first object yet.
BeforeStop(h) == /\ pc[h] \in {"idle", "test", "incRead", "incWrite", "deref"} \union Stopping
                 /\ pc[h] \in Stopping => ptr[h] = First

\* The only object, while it has a listener that has not been stopped.
Unstopped == /\ ~dangling
             /\ instance = First /\ First \in listening
             /\ \A h \in Hosts : BeforeStop(h)

Attended ==
    /\ pc[PROG] = "armed" =>
          /\ ~overlapped
          /\ \A t \in Threads : pc[t] = "idle" /\ thread[t] = "none"
    /\ pc[PROG] = "listening" /\ ~stop => Unstopped
    /\ pc[PROG] = "joining" => stop

\* A handler's step, in the listener's time.
LEMMA UnstoppedHandle ==
    ASSUME IInv, Unstopped, ~stop, NEW h \in Hosts, Handle(h)
    PROVE  stop' \/ Unstopped'
<1>1. /\ TypeOK /\ h \in Contexts /\ First \in alive /\ First # NULL
      /\ listening \subseteq alive
  BY Facts DEF IInv, TypeOK, Unstopped
<1>2. pc[h] \in {"idle", "test", "incRead", "incWrite", "deref"} \union Stopping
  BY DEF Unstopped, BeforeStop
<1>3. ASSUME NEW from, NEW to \in {"incRead", "incWrite", "deref"}, Step(h, from, to),
             UNCHANGED <<instance, listening, ptr, dangling>>
      PROVE  Unstopped'
  <2>1. pc'[h] = to /\ \A g \in Hosts \ {h} : pc'[g] = pc[g]
    BY <1>1, <1>3, StepOf, Facts
  <2>2. \A g \in Hosts : BeforeStop(g)'
    BY <1>3, <2>1 DEF Unstopped, BeforeStop, Stopping
  <2> QED BY <1>3, <2>2 DEF Unstopped
<1>4. ASSUME TestInstance(h) PROVE Unstopped'
  <2>1. instance # NULL
    BY <1>1 DEF Unstopped
  <2> QED BY <1>3, <1>4, <2>1 DEF TestInstance, sharedVars
<1>5. ASSUME IncRead(h) \/ IncWrite(h) PROVE Unstopped'
  BY <1>3, <1>5 DEF IncRead, IncWrite, sharedVars
<1>6. ASSUME Dereference(h) PROVE Unstopped'
  <2>1. /\ pc'[h] = "stop" /\ \A g \in Hosts \ {h} : pc'[g] = pc[g]
        /\ ptr'[h] = First /\ \A g \in Hosts \ {h} : ptr'[g] = ptr[g]
    BY <1>1, <1>6, StepOf, Facts DEF Dereference, TypeOK, Unstopped
  <2>2. \A g \in Hosts : BeforeStop(g)'
    BY <2>1 DEF Unstopped, BeforeStop, Stopping
  <2> QED BY <1>6, <2>2 DEF Dereference, sharedVars, Unstopped
<1>7. ASSUME TestListener(h) PROVE Unstopped'
  <2>1. pc[h] = "stop" /\ ptr[h] = First
    BY <1>1, <1>7, StepOf DEF TestListener, Unstopped, BeforeStop
  <2>2. /\ Step(h, "stop", "stopping") /\ UNCHANGED <<instance, listening, ptr>>
        /\ ~dangling'
    BY <1>1, <1>7, <2>1 DEF TestListener, Uses, sharedVars, Unstopped
  <2>3. pc'[h] = "stopping" /\ \A g \in Hosts \ {h} : pc'[g] = pc[g]
    BY <1>1, <2>2, StepOf, Facts
  <2>4. \A g \in Hosts : BeforeStop(g)'
    BY <2>1, <2>2, <2>3 DEF Unstopped, BeforeStop, Stopping
  <2> QED BY <2>2, <2>4 DEF Unstopped
<1>8. ASSUME CallStop(h) PROVE stop'
  <2>1. ptr[h] = First
    BY <1>1, <1>8, StepOf DEF CallStop, Unstopped, BeforeStop
  <2> QED BY <1>8, <2>1 DEF CallStop, Stopped, Unstopped
<1>9. ~Create(h) /\ ~Release(h)
  BY <1>2 DEF Stopping, Create, Step, Release, DecRead, DecWrite, DecTest, LoadInstance, Delete,
          Forget
<1> QED BY <1>4, <1>5, <1>6, <1>7, <1>8, <1>9 DEF Handle

\* A step of main() or of a controller thread, and a signal's arrival.
LEMMA UnstoppedOther ==
    ASSUME IInv, Unstopped, ~dangling', NEW c \in Contexts,
           \/ \A h \in Hosts : pc'[h] = pc[h]
           \/ c \in Hosts /\ Step(c, "idle", "test"),
           UNCHANGED <<instance, listening, ptr>>
    PROVE  Unstopped'
<1>1. ASSUME NEW h \in Hosts PROVE pc'[h] = pc[h] \/ pc'[h] = "test"
  BY StepOf, Facts DEF IInv
<1>2. \A h \in Hosts : BeforeStop(h)'
  BY <1>1 DEF Unstopped, BeforeStop, Stopping
<1> QED BY <1>2 DEF Unstopped

\* The listener starts with nobody in the handler.
LEMMA UnstoppedAtFirst ==
    ASSUME IInv, Attended, StartListener PROVE Unstopped'
<1>1. TypeOK /\ PROG \in Contexts
  BY Facts DEF IInv
<1>2. pc[PROG] = "armed" /\ ~dangling /\ ~Active(MAIN) /\ ~overlapped
  BY <1>1, StepOf DEF StartListener, Attended
<1>3. \A h \in Hosts : pc[h] = "idle" /\ pc'[h] = "idle"
  BY <1>1, <1>2, StepOf, Facts DEF StartListener, Attended, Active
<1>4. instance = First /\ First \in alive
  BY <1>2 DEF IInv, Owned, Holds, Running
<1>5. \A h \in Hosts : BeforeStop(h)'
  BY <1>3 DEF BeforeStop, Stopping
<1> QED BY <1>4, <1>5 DEF StartListener, Uses, Unstopped

LEMMA AttendedStep == ASSUME IInv, Attended, [Next]_vars PROVE Attended'
<1>1. TypeOK /\ PROG \in Contexts
  BY Facts DEF IInv
<1>2. ASSUME NEW h \in Hosts, Signal(h) PROVE Attended'
  <2>1. /\ pc'[PROG] = pc[PROG] /\ UNCHANGED <<instance, listening, ptr, stop, thread, dangling>>
        /\ Step(h, "idle", "test")
    BY <1>1, <1>2, StepOf, Facts DEF Signal, sharedVars
  <2>2. CASE pc[PROG] = "armed"
    <3>1. h = MAIN
      BY <1>2, <2>2, Facts DEF Attended, Signal
    <3>2. /\ \A t \in Threads : pc'[t] = pc[t]
          /\ \A g \in Hosts : ~Active(g)
      <4>1. pc[MAIN] = "idle" /\ \A t \in Threads : pc'[t] = pc[t]
        BY <1>1, <2>1, <3>1, StepOf, Facts, RefAssumption
      <4> QED BY <2>2, <4>1, Facts DEF Attended, Active
    <3>3. ~overlapped'
      BY <1>2, <2>2, <3>1, <3>2 DEF Signal, Attended
    <3> QED BY <2>1, <2>2, <3>2, <3>3 DEF Attended
  <2>3. CASE pc[PROG] = "listening" /\ ~stop
    BY <2>1, <2>3, UnstoppedOther, Facts DEF Attended, Unstopped
  <2> QED BY <2>1, <2>2, <2>3 DEF Attended
<1>3. ASSUME NEW h \in Hosts, Handle(h) PROVE Attended'
  <2>1. PICK from, to : Step(h, from, to)
    BY <1>3 DEF Handle, Release, TestInstance, Create, IncRead, IncWrite, Dereference,
                TestListener, CallStop, DecRead, DecWrite, DecTest, LoadInstance, Delete, Forget
  <2>2. /\ pc'[PROG] = pc[PROG] /\ h \in Contexts
        /\ \A g \in Hosts \ {h} : pc'[g] = pc[g]
    BY <1>1, <2>1, StepOf, Facts
  <2>3. UNCHANGED <<thread, overlapped>> /\ (stop => stop')
    <3>1. TestInstance(h) \/ IncRead(h) \/ IncWrite(h) \/ Dereference(h) \/ TestListener(h)
            => UNCHANGED <<thread, overlapped>> /\ (stop => stop')
      BY DEF TestInstance, IncRead, IncWrite, Dereference, TestListener, Calm, sharedVars
    <3>2. /\ Create(h) => UNCHANGED <<thread, overlapped, stop>>
          /\ CallStop(h) => UNCHANGED <<thread, overlapped>>
      BY DEF Create, CallStop, Calm
    <3>3. CallStop(h) => (stop => stop')
      BY DEF CallStop, Stopped
    <3>4. Release(h) => UNCHANGED <<thread, overlapped>> /\ (stop => stop')
      BY DEF Release, DecRead, DecWrite, DecTest, LoadInstance, Delete, Forget, Calm, sharedVars
    <3> QED BY <1>3, <3>1, <3>2, <3>3, <3>4 DEF Handle
  <2>4. CASE pc[PROG] = "armed"
    <3>1. h = MAIN
      <4>1. Active(h)
        BY <1>3 DEF Active, Handle, Release, TestInstance, Create, IncRead, IncWrite, Dereference,
                TestListener, CallStop, DecRead, DecWrite, DecTest, LoadInstance, Delete, Forget,
                Step
      <4> QED BY <2>4, <4>1, Facts DEF Attended, Active
    <3>2. \A t \in Threads : pc'[t] = pc[t]
      BY <2>2, <3>1, Facts, RefAssumption
    <3> QED BY <2>2, <2>3, <2>4, <3>2 DEF Attended
  <2>5. CASE pc[PROG] = "listening" /\ ~stop
    BY <1>3, <2>2, <2>5, UnstoppedHandle DEF Attended
  <2> QED BY <2>2, <2>3, <2>4, <2>5 DEF Attended
<1>4. ASSUME StartListener PROVE Attended'
  <2>1. pc'[PROG] = "listening"
    BY <1>1, <1>4, StepOf DEF StartListener
  <2> QED BY <1>4, <2>1, UnstoppedAtFirst DEF Attended
<1>5. ASSUME SeeStop PROVE Attended'
  <2>1. pc'[PROG] = "joining" /\ stop'
    BY <1>1, <1>5, StepOf DEF SeeStop, sharedVars
  <2> QED BY <2>1 DEF Attended
<1>6. ASSUME NEW t \in Threads, StartThread(t) PROVE Attended'
  <2>1. /\ pc[PROG] = "listening" /\ pc'[PROG] = "listening"
        /\ \A h \in Hosts : pc'[h] = pc[h]
        /\ UNCHANGED <<instance, alive, listening, stop, ptr>> /\ dangling' = (First \notin alive)
    BY <1>1, <1>6, StepOf, Facts DEF StartThread, Uses, sharedVars
  <2>2. CASE ~stop
    <3>1. First \in alive
      BY <1>1, <2>1, <2>2 DEF Attended, Unstopped, TypeOK
    <3> QED BY <1>1, <2>1, <2>2, <3>1, UnstoppedOther DEF Attended
  <2> QED BY <2>1, <2>2 DEF Attended
<1>7. ASSUME RunFails \/ RunReturns \/ Release(PROG) \/ Exit PROVE Attended'
  <2>1. ASSUME NEW from, NEW to \in Releasing \union {"done", "exited"}, Step(PROG, from, to)
        PROVE  pc'[PROG] \notin Running
    BY <1>1, <2>1, StepOf DEF Releasing, Running
  <2>2. pc'[PROG] \notin Running
    <3>1. RunFails \/ RunReturns \/ Exit => pc'[PROG] \notin Running
      BY <2>1 DEF RunFails, RunReturns, LeaveRun, Exit, Releasing
    <3>2. DecRead(PROG) \/ DecWrite(PROG) \/ LoadInstance(PROG) \/ Delete(PROG) \/ Forget(PROG)
            => pc'[PROG] \notin Running
      BY <2>1 DEF DecRead, DecWrite, LoadInstance, Delete, Forget, After, Releasing
    <3>3. DecTest(PROG) => pc'[PROG] \notin Running
      <4> SUFFICES ASSUME DecTest(PROG) PROVE pc'[PROG] \notin Running
        OBVIOUS
      <4>1. PICK v \in {Decremented(reg[PROG]), refs} :
                Step(PROG, "decTest", IF LastGone(v) THEN "load" ELSE After(PROG))
        BY DEF DecTest
      <4> QED BY <2>1, <4>1 DEF After, Releasing
    <3> QED BY <1>7, <3>1, <3>2, <3>3 DEF Release
  <2> QED BY <2>2 DEF Attended, Running
<1>8. ASSUME NEW t \in Threads, Straggle(t) \/ EndThread(t) PROVE Attended'
  <2>1. /\ UNCHANGED <<instance, listening, stop, pc, ptr, overlapped, dangling>>
        /\ thread' = [thread EXCEPT ![t] = "straggling"] \/ thread' = [thread EXCEPT ![t] = "none"]
        /\ thread[t] # "none"
    BY <1>8 DEF Straggle, EndThread, ThreadStep, sharedVars, contextVars, historyVars
  <2>2. pc[PROG] # "armed"
    BY <2>1 DEF Attended
  <2> QED BY <2>1, <2>2 DEF Attended, Unstopped, BeforeStop
<1>9. ASSUME UNCHANGED vars PROVE Attended'
  BY <1>9 DEF vars, sharedVars, contextVars, historyVars, Attended, Unstopped, BeforeStop
<1> QED BY <1>2, <1>3, <1>4, <1>5, <1>6, <1>7, <1>8, <1>9 DEF Next, Ends, Terminated

\* Nothing but these two steps takes a handler out of PSMoveInput::stop().
LEMMA StopIsCalled ==
    ASSUME TypeOK, [Next]_vars, NEW h \in Hosts, pc[h] \in Stopping, pc'[h] \notin Stopping
    PROVE  TestListener(h) \/ CallStop(h)
<1>1. h \in Contexts /\ h # PROG /\ PROG \in Contexts
  BY Facts
<1>2. ASSUME NEW c \in Contexts, NEW from, NEW to, Step(c, from, to)
      PROVE  c = h /\ from \in Stopping
  BY <1>1, <1>2, StepOf
<1>3. ASSUME NEW g \in Hosts, Signal(g) PROVE FALSE
  <2>1. g \in Contexts /\ Step(g, "idle", "test")
    BY <1>3, Facts DEF Signal
  <2> QED BY <1>2, <2>1 DEF Stopping
<1>4. ~StartListener /\ ~RunFails /\ ~SeeStop /\ ~RunReturns /\ ~Exit
  BY <1>1, <1>2 DEF StartListener, RunFails, LeaveRun, SeeStop, RunReturns, Exit
<1>5. ~\E t \in Threads : StartThread(t) \/ Straggle(t) \/ EndThread(t)
  BY <1>1, <1>2 DEF StartThread, Straggle, EndThread, ThreadStep, contextVars
<1>6. pc' # pc
  OBVIOUS
<1>7. \A c \in Contexts : ~Release(c)
  BY <1>2 DEF Stopping, Release, DecRead, DecWrite, DecTest, LoadInstance, Delete, Forget
<1>8. PICK g \in Hosts : Handle(g)
  BY <1>1, <1>3, <1>4, <1>5, <1>6, <1>7 DEF Next, Ends, Terminated, vars, contextVars
<1>9. g \in Contexts /\ (TestListener(g) \/ CallStop(g))
  BY <1>2, <1>7, <1>8, Facts
     DEF Stopping, Handle, TestInstance, Create, IncRead, IncWrite, Dereference
<1>10. g = h
  BY <1>2, <1>9 DEF TestListener, CallStop
<1> QED BY <1>9, <1>10

\* A signal whose handler calls stop() while the listener runs stops it, whatever the
\* overlapping of handlers has done to the count: what SignalEndsProcess rests on.
THEOREM SignalStopsHolds == Spec => SignalStops
<1>1. Init => Attended
  <2> SUFFICES ASSUME Init PROVE Attended
    OBVIOUS
  <2>1. pc[PROG] = "armed" /\ (\A t \in Threads : pc[t] = "idle" /\ thread[t] = "none")
    BY Facts DEF Init
  <2> QED BY <2>1 DEF Init, Attended
<1>2. IInv /\ Attended /\ [Next]_vars => Attended'
  BY AttendedStep
<1>3. ASSUME IInv, Attended, [Next]_vars,
             NEW h \in Hosts, pc[PROG] \in {"listening", "joining"},
             pc[h] \in Stopping, pc'[h] \notin Stopping
      PROVE  stop'
  <2>1. stop \/ ptr[h] \in listening
    BY <1>3 DEF Attended, Unstopped, BeforeStop
  <2>2. CASE CallStop(h)
    BY <2>1, <2>2 DEF CallStop, Stopped
  <2>3. CASE TestListener(h)
    <3>1. UNCHANGED stop /\ (ptr[h] \in listening => Step(h, "stop", "stopping"))
      BY <2>3 DEF TestListener, sharedVars
    <3>2. ~Step(h, "stop", "stopping")
      BY <1>3, StepOf, Facts DEF IInv, Stopping
    <3> QED BY <2>1, <3>1, <3>2
  <2> QED BY <1>3, <2>2, <2>3, StopIsCalled DEF IInv
<1>4. IInv /\ Attended /\ [Next]_vars
        => [\A h \in Hosts :
               ( /\ pc[PROG] \in {"listening", "joining"}
                 /\ pc[h] \in Stopping /\ pc'[h] \notin Stopping )
                  => stop']_vars
  BY <1>3
<1> QED BY <1>1, <1>2, <1>4, Inductive, PTL DEF Spec, SignalStops

=============================================================================
