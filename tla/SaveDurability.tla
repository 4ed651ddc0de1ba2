---------------------------- MODULE SaveDurability ----------------------------
(***************************************************************************)
(* The registry, its actors and the store implement DurableSave: the       *)
(* durable value is the row, the working copy the state of the registered  *)
(* actor while its goroutine runs.  Guests have no save and do not appear. *)
(***************************************************************************)
EXTENDS SaveLifecycle

HasCopy(k) == registry[k] # None /\ Alive(registry[k])
WorkingVer(k) == IF HasCopy(k) THEN mem[registry[k]].ver ELSE 0
WorkingRun(k) == HasCopy(k) /\ InRun(mem[registry[k]])

Durable == INSTANCE DurableSave WITH
    stored <- [k \in Saves |-> disk[k].ver],
    live   <- [k \in Saves |-> WorkingVer(k)],
    inRun  <- [k \in Saves |-> WorkingRun(k)],
    down   <- closing

\* Takeovers, failed and late writes, emergency resolutions, disconnects and
\* shutdowns, of whatever sessions, amount to a durable save with one working
\* copy that outside a shutdown is given up only once it is written, with its
\* run resolved (manager.go Attach and detach, actor.go persist and run).
DurableSpec == Durable!Spec
=============================================================================
