----------------------------- MODULE DurableSave -----------------------------
(***************************************************************************)
(* What the game promises about a pilot's save, without sessions, actors,  *)
(* locks or a store that fails: one durable value per save, and at most    *)
(* one working copy of it, made from that value.                           *)
(*                                                                         *)
(* A save's states are told apart by how many changes they hold; 0 is no   *)
(* row, and no working copy.  A mining run lives in the working copy only. *)
(***************************************************************************)
EXTENDS Naturals

CONSTANT Saves

VARIABLES
    stored,   \* the durable state of each save
    live,     \* the working copy of each save
    inRun,    \* the working copy is in a mining run
    down      \* the service is closing and takes no new work

vars == <<stored, live, inRun, down>>

Init ==
    /\ stored = [k \in Saves |-> 0]
    /\ live = [k \in Saves |-> 0]
    /\ inRun = [k \in Saves |-> FALSE]
    /\ down = FALSE

\* Only save k, and of it only what the step sets.
Only(k) ==
    /\ \A j \in Saves \ {k} :
          stored'[j] = stored[j] /\ live'[j] = live[j] /\ inRun'[j] = inRun[j]
    /\ UNCHANGED down

\* A first visit creates the save, whether or not the visitor gets in.
Found(k) == IF stored[k] = 0 THEN 1 ELSE stored[k]

Create(k) ==
    /\ live[k] = 0 /\ live'[k] = 0 /\ ~inRun'[k]
    /\ stored'[k] = Found(k)
    /\ Only(k)

\* Nobody opens a save in the middle of a run.
Open(k) ==
    /\ ~down
    /\ live[k] = 0
    /\ stored'[k] = Found(k) /\ live'[k] = stored'[k] /\ ~inRun'[k]
    /\ Only(k)

\* The copy moves forward, and may be written in the same step.
Change(k) ==
    /\ live[k] # 0 /\ live'[k] >= live[k]
    /\ stored'[k] \in {stored[k], live'[k]}
    /\ Only(k)

\* A copy is given up only once it is stored and its run is over; while the
\* service closes it may be lost.
Close(k) ==
    /\ live[k] # 0 /\ live'[k] = 0 /\ ~inRun'[k]
    /\ \/ ~inRun[k] /\ stored'[k] = live[k]
       \/ down /\ (stored'[k] = stored[k] \/ stored'[k] >= live[k])
    /\ Only(k)

Closing == down' = TRUE /\ UNCHANGED <<stored, live, inRun>>

\* The process dies: every copy is lost, nothing stored is.
Die ==
    /\ live' = [k \in Saves |-> 0]
    /\ inRun' = [k \in Saves |-> FALSE]
    /\ down' = FALSE
    /\ UNCHANGED stored

Next ==
    \/ \E k \in Saves : Create(k) \/ Open(k) \/ Change(k) \/ Close(k)
    \/ Closing
    \/ Die

Spec == Init /\ [][Next]_vars
=============================================================================
