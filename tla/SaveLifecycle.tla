---------------------------- MODULE SaveLifecycle ----------------------------
(***************************************************************************)
(* The life of a pilot's save while terminals come and go: the save        *)
(* registry (internal/game/manager.go), the one goroutine that owns each   *)
(* open save (actor.go), the terminal's handle on it (session.go) and the  *)
(* row that outlives the process (internal/store/store.go).                *)
(*                                                                         *)
(* Processes: one goroutine per SSH session (attach, play, detach), one    *)
(* per actor (requests, ticks, autosave, stop), the shutdown goroutine,    *)
(* and the environment (store failures, crash, exit).  m.mu is held across *)
(* several steps of Attach, detach and stopActorLocked, so it is a         *)
(* variable; the actor goroutine runs between those steps.                 *)
(*                                                                         *)
(* An Attach creates at most one actor, so the actor it creates is named   *)
(* after the session whose Attach created it.                              *)
(***************************************************************************)
EXTENDS Naturals, FiniteSets

CONSTANTS
    Sessions,    \* SSH sessions; each connects once
    Saves,       \* (fingerprint, slot) keys: persisted
    Guests,      \* guest ids: never persisted
    KeyOf,       \* the identity each session resolves to
    Policy,      \* "takeover" or "refuse"
    None,        \* nil
    Closer,      \* the shutdown goroutine, as a holder of m.mu
    MaxVer,      \* bound: state changes by play on one lineage of a save
    MaxBoots     \* bound: crashes and exits

Keys == Saves \cup Guests

ASSUME ConstantsAssumption ==
    /\ KeyOf \in [Sessions -> Keys]
    /\ Saves \cap Guests = {}
    /\ Policy \in {"takeover", "refuse"}
    /\ None \notin Sessions \cup {Closer}
    /\ Closer \notin Sessions
    /\ MaxVer \in Nat
    /\ MaxBoots \in Nat

VARIABLES
    mu,         \* holder of Manager.mu
    closing,    \* Manager.closing
    registry,   \* Manager.actors
    pc,         \* where each session's goroutine is
    actorOf,    \* Session.actor
    closed,     \* kickOnce has run: kicked and snapCh are closed
    notice,     \* the reason the kick carried
    astat,      \* the actor goroutine
    mem,        \* actor.state
    dirty,      \* actor.dirty
    owner,      \* actor.session
    finalErr,   \* actor.finalErr # nil
    disk,       \* the saves table
    sd,         \* the shutdown goroutine
    todo,       \* the actors Shutdown copied and has not finished
    cur,        \* the actor it is on
    flushErr,   \* Shutdown's flushErr # nil
    ret,        \* what Manager.Shutdown returned
    boots       \* process starts after the first

mgrVars   == <<mu, closing, registry>>
sessVars  == <<pc, actorOf, closed, notice>>
actorVars == <<astat, mem, dirty, owner, finalErr>>
downVars  == <<sd, todo, cur, flushErr, ret>>
vars == <<mgrVars, sessVars, actorVars, downVars, disk, boots>>

-----------------------------------------------------------------------------
(* Data.  Of a state the properties tell apart how many changes it holds   *)
(* and where the pilot is: docked, at a belt, or in a mining run.          *)

Places == {"docked", "belt", "run"}
State  == [ver : Nat, place : Places]
NoRow  == [ver |-> 0, place |-> "docked"]
NewState == [ver |-> 1, place |-> "docked"]

Keyed(a) == KeyOf[a] \in Saves
InRun(m) == m.place = "run"
Edited(m, p) == [ver |-> m.ver + 1, place |-> p]

\* State.Encode drops the run: its pilot is stored at the belt.
Encode(m) == [m EXCEPT !.place = IF @ = "run" THEN "belt" ELSE @]

\* What an intent may make of a state: depart, lock, dock, or a change that
\* leaves the pilot where it is.
AfterIntent(m) ==
    {Edited(m, p) : p \in CASE m.place = "docked" -> {"docked", "belt"}
                            [] m.place = "belt"   -> Places
                            [] m.place = "run"    -> {"run"}}

\* A tick moves a run on, ends it at the belt, or ends it with the ship lost.
AfterTick(m) == {Edited(m, p) : p \in IF InRun(m) THEN Places ELSE {m.place}}

\* EmergencyResolve on a state with a run: the run ends at the belt or with
\* the ship lost, or the tick budget runs out and the run stays.
Resolved(m) == IF InRun(m) THEN {Edited(m, p) : p \in Places} ELSE {m}

\* SaveState: the row is replaced; or an error; or an error after the row was
\* replaced (the deadline passes while the statement commits).
SaveResults == {"ok", "error", "late"}

\* persist(a) on the actor goroutine, for the state m, dirty flag d and owner
\* w that the surrounding handler has just set.
Stuck(m, w) == w = None /\ InRun(m)
Attempts_EvenStuck(a, m, d, w) == Keyed(a) /\ d
Attempts(a, m, d, w) == Keyed(a) /\ d /\ ~Stuck(m, w)
PersistErr(a, m, d, w, res) ==
    Keyed(a) /\ d /\ (Stuck(m, w) \/ res # "ok")
StillDirty(a, m, d, w, res) ==
    IF Attempts(a, m, d, w) /\ res = "ok" THEN FALSE ELSE d
Written(a, m, d, w, res) ==
    IF Attempts(a, m, d, w) /\ res # "error"
    THEN [disk EXCEPT ![KeyOf[a]] = Encode(m)]
    ELSE disk

-----------------------------------------------------------------------------
Alive(a) == astat[a] \in {"running", "stopping"}

Unlock_Missing == UNCHANGED mu
Unlock == mu' = None

Goto(s, l) == pc' = [pc EXCEPT ![s] = l]

\* deliverKick: kickOnce makes the first call the only one.
DeliverKick(s, why) ==
    IF s # None /\ ~closed[s]
    THEN /\ closed' = [closed EXCEPT ![s] = TRUE]
         /\ notice' = [notice EXCEPT ![s] = why]
    ELSE UNCHANGED <<closed, notice>>

\* The key is in m.actors.
Registered_Never(k) == FALSE
Registered(k) == registry[k] # None

Forget(a) ==
    registry' = [k \in Keys |-> IF k = KeyOf[a] /\ registry[k] = a
                                THEN None ELSE registry[k]]

Init ==
    /\ mu = None
    /\ closing = FALSE
    /\ registry = [k \in Keys |-> None]
    /\ pc = [s \in Sessions |-> "new"]
    /\ actorOf = [s \in Sessions |-> None]
    /\ closed = [s \in Sessions |-> FALSE]
    /\ notice = [s \in Sessions |-> "none"]
    /\ astat = [a \in Sessions |-> "none"]
    /\ mem = [a \in Sessions |-> NoRow]
    /\ dirty = [a \in Sessions |-> FALSE]
    /\ owner = [a \in Sessions |-> None]
    /\ finalErr = [a \in Sessions |-> FALSE]
    /\ disk = [k \in Keys |-> NoRow]
    /\ sd = "idle"
    /\ todo = {}
    /\ cur = None
    /\ flushErr = FALSE
    /\ ret = "none"
    /\ boots = 0

-----------------------------------------------------------------------------
(* Manager.Attach, m.mu held from AttachBegin to the step that ends it.    *)

AttachBegin(s) ==
    /\ pc[s] = "new"
    /\ mu = None
    /\ IF closing
       THEN Goto(s, "gone") /\ UNCHANGED mu
       ELSE Goto(s, "attach") /\ mu' = s
    /\ UNCHANGED <<closing, registry, actorOf, closed, notice, actorVars,
                   downVars, disk, boots>>

\* A new actor in state m with session w attached.
NewActor(s, m, w) ==
    /\ astat' = [astat EXCEPT ![s] = "running"]
    /\ mem' = [mem EXCEPT ![s] = m]
    /\ owner' = [owner EXCEPT ![s] = w]
    /\ registry' = [registry EXCEPT ![KeyOf[s]] = s]
    /\ actorOf' = [actorOf EXCEPT ![s] = s]
    /\ UNCHANGED <<dirty, finalErr>>

AttachGuest(s) ==
    /\ pc[s] = "attach"
    /\ ~Keyed(s)
    /\ IF Registered(KeyOf[s])
       THEN /\ Goto(s, "gone")
            /\ UNCHANGED <<registry, actorOf, actorVars>>
       ELSE /\ NewActor(s, NewState, s)
            /\ Goto(s, "live")
    /\ Unlock
    /\ UNCHANGED <<closing, closed, notice, downVars, disk, boots>>

RowOrNew(k) == IF disk[k] = NoRow THEN NewState ELSE disk[k]

\* TouchAccount, LoadOrCreateSave or DecodeState fails.  The row may already
\* have been inserted when the reload after the insert fails.
AttachFail(s) ==
    /\ pc[s] = "attach"
    /\ Keyed(s)
    /\ \/ UNCHANGED disk
       \/ /\ ~Registered(KeyOf[s])
          /\ disk' = [disk EXCEPT ![KeyOf[s]] = RowOrNew(KeyOf[s])]
    /\ Goto(s, "gone")
    /\ Unlock
    /\ UNCHANGED <<closing, registry, actorOf, closed, notice, actorVars,
                   downVars, boots>>

AttachLoad(s) ==
    /\ pc[s] = "attach"
    /\ Keyed(s)
    /\ ~Registered(KeyOf[s])
    /\ disk' = [disk EXCEPT ![KeyOf[s]] = RowOrNew(KeyOf[s])]
    /\ NewActor(s, RowOrNew(KeyOf[s]), None)
    /\ Goto(s, "bind")
    /\ UNCHANGED <<mu, closing, closed, notice, downVars, boots>>

AttachFound(s) ==
    /\ pc[s] = "attach"
    /\ Keyed(s)
    /\ Registered(KeyOf[s])
    /\ actorOf' = [actorOf EXCEPT ![s] = registry[KeyOf[s]]]
    /\ Goto(s, "bind")
    /\ UNCHANGED <<mgrVars, closed, notice, actorVars, downVars, disk, boots>>

\* The save has a pilot and the policy keeps it.
Busy_Never(a) == FALSE
Busy(a) == owner[a] # None /\ Policy = "refuse"

\* The closure Attach runs on the actor: refuse, or board the ship.  A stamp
\* of LastSeen dirties the save without a change the model counts.
AttachBind(s) ==
    LET a == actorOf[s]
    IN  /\ pc[s] = "bind"
        /\ IF astat[a] = "done"
           THEN /\ registry' = [registry EXCEPT ![KeyOf[s]] = None]
                /\ Goto(s, "gone")
                /\ UNCHANGED <<closed, notice, dirty, owner>>
           ELSE IF Busy(a)
           THEN /\ Goto(s, "gone")
                /\ UNCHANGED <<registry, closed, notice, dirty, owner>>
           ELSE /\ DeliverKick(owner[a], "boarded")
                /\ owner' = [owner EXCEPT ![a] = s]
                /\ dirty' = [dirty EXCEPT ![a] = TRUE]
                /\ Goto(s, "live")
                /\ UNCHANGED registry
        /\ Unlock
        /\ UNCHANGED <<closing, actorOf, astat, mem, finalErr, downVars,
                       disk, boots>>

-----------------------------------------------------------------------------
(* The actor goroutine.  Once stop is closed its select may still pick a   *)
(* request, an autosave or a tick that is ready.                           *)

\* Session.intent with a change that succeeds; a session that no longer owns
\* the actor gets ErrSessionClosed and changes nothing.
Intent(s) ==
    LET a == actorOf[s]
    IN  /\ pc[s] = "live"
        /\ Alive(a)
        /\ owner[a] = s
        /\ mem[a].ver < MaxVer
        /\ \E m \in AfterIntent(mem[a]) : mem' = [mem EXCEPT ![a] = m]
        /\ dirty' = [dirty EXCEPT ![a] = TRUE]
        /\ UNCHANGED <<mgrVars, sessVars, astat, owner, finalErr, downVars,
                       disk, boots>>

\* The ticker runs only while a terminal is attached to a pilot in space.
Ticks(a) == owner[a] # None /\ mem[a].place # "docked"

Tick(a) ==
    /\ Alive(a)
    /\ Ticks(a)
    /\ mem[a].ver < MaxVer
    /\ \E m \in AfterTick(mem[a]) : mem' = [mem EXCEPT ![a] = m]
    /\ dirty' = [dirty EXCEPT ![a] = TRUE]
    /\ UNCHANGED <<mgrVars, sessVars, astat, owner, finalErr, downVars, disk,
                   boots>>

\* The autosave ticker runs whether or not a terminal is attached.
Autosaves_Attended(a) == Keyed(a) /\ dirty[a] /\ owner[a] # None
Autosaves(a) == Keyed(a) /\ dirty[a]

Autosave(a, res) ==
    /\ Alive(a)
    /\ Autosaves(a)
    /\ disk' = Written(a, mem[a], dirty[a], owner[a], res)
    /\ dirty' = [dirty EXCEPT
                 ![a] = StillDirty(a, mem[a], dirty[a], owner[a], res)]
    /\ UNCHANGED <<mgrVars, sessVars, astat, mem, owner, finalErr, downVars,
                   boots>>

\* case <-a.stop: resolve a run that still stands, flush, leave.
StopFlush(a) ==
    /\ astat[a] = "stopping"
    /\ \E m \in IF Keyed(a) THEN Resolved(mem[a]) ELSE {mem[a]},
          res \in SaveResults :
       LET d == dirty[a] \/ (Keyed(a) /\ InRun(mem[a]))
       IN  /\ mem' = [mem EXCEPT ![a] = m]
           /\ disk' = Written(a, m, d, owner[a], res)
           /\ dirty' = [dirty EXCEPT ![a] = StillDirty(a, m, d, owner[a], res)]
           /\ finalErr' = [finalErr EXCEPT
                           ![a] = PersistErr(a, m, d, owner[a], res)]
    /\ astat' = [astat EXCEPT ![a] = "done"]
    /\ UNCHANGED <<mgrVars, sessVars, owner, downVars, boots>>

-----------------------------------------------------------------------------
(* Session.Detach, run by defer when the terminal's program ends.          *)

\* The player quits, the connection drops, the idle timer fires, or a kicked
\* terminal is dismissed.
Dismissed_Stays(s) == pc[s] = "live" /\ ~closed[s]
Dismissed(s) == pc[s] = "live"

Leave(s) ==
    /\ Dismissed(s)
    /\ Goto(s, "detach")
    /\ UNCHANGED <<mgrVars, actorOf, closed, notice, actorVars, downVars,
                   disk, boots>>

DetachBegin(s) ==
    /\ pc[s] = "detach"
    /\ mu = None
    /\ mu' = s
    /\ Goto(s, "detaching")
    /\ UNCHANGED <<closing, registry, actorOf, closed, notice, actorVars,
                   downVars, disk, boots>>

\* Who is attached once s has let go: only the owner lets go of the actor.
Released_Always(a, s) == None
Released_Never(a, s) == owner[a]
Released(a, s) == IF owner[a] = s THEN None ELSE owner[a]

\* The actor stops when nobody is attached and nothing is left to save.
StopRule_GuestsToo(a, w, d) == w = None /\ ~d
StopRule(a, w, d) == w = None /\ (~Keyed(a) \/ ~d)

\* The closure detach runs on the actor; do() returns at once if the actor
\* has stopped.  Only the owner's run is resolved.
DetachDo(s) ==
    LET a == actorOf[s]
        w == Released(a, s)
        abandons == owner[a] = s /\ Keyed(a) /\ InRun(mem[a])
    IN  /\ pc[s] = "detaching"
        /\ IF astat[a] = "done"
           THEN /\ Goto(s, "close") /\ Unlock
                /\ UNCHANGED <<astat, mem, dirty, owner, disk>>
           ELSE \E m \in IF abandons THEN Resolved(mem[a]) ELSE {mem[a]},
                   res \in SaveResults :
                LET d == dirty[a] \/ abandons
                    d2 == StillDirty(a, m, d, w, res)
                IN  /\ mem' = [mem EXCEPT ![a] = m]
                    /\ owner' = [owner EXCEPT ![a] = w]
                    /\ disk' = Written(a, m, d, w, res)
                    /\ dirty' = [dirty EXCEPT ![a] = d2]
                    /\ IF StopRule(a, w, d2)
                       THEN /\ astat' = [astat EXCEPT ![a] = "stopping"]
                            /\ Goto(s, "stopping")
                            /\ UNCHANGED mu
                       ELSE /\ Goto(s, "close")
                            /\ Unlock
                            /\ UNCHANGED astat
        /\ UNCHANGED <<closing, registry, actorOf, closed, notice, finalErr,
                       downVars, boots>>

\* stopActorLocked after <-a.done.
DetachEnd(s) ==
    /\ pc[s] = "stopping"
    /\ astat[actorOf[s]] = "done"
    /\ Forget(actorOf[s])
    /\ Goto(s, "close")
    /\ Unlock
    /\ UNCHANGED <<closing, actorOf, closed, notice, actorVars, downVars,
                   disk, boots>>

\* Session.Detach's deliverKick(""), outside m.mu.
CloseStream(s) ==
    /\ pc[s] = "close"
    /\ DeliverKick(s, "none")
    /\ Goto(s, "gone")
    /\ UNCHANGED <<mgrVars, actorOf, actorVars, downVars, disk, boots>>

-----------------------------------------------------------------------------
(* Manager.Shutdown: the caller waits for the goroutine or for ctx.        *)

\* The actors Shutdown copies under m.mu.
Copied_WithHoles == {registry[k] : k \in Keys}
Copied == {registry[k] : k \in Keys} \ {None}

ShutdownBegin ==
    /\ sd = "idle"
    /\ mu = None
    /\ closing' = TRUE
    /\ todo' = Copied
    /\ sd' = "kick"
    /\ UNCHANGED <<mu, registry, sessVars, actorVars, cur, flushErr, ret,
                   disk, boots>>

\* The closure Shutdown runs on each actor: resolve, tell the terminal its
\* progress is saved, let go of it.  Nothing has been written yet.
ShutdownKick(a) ==
    LET abandons == owner[a] # None /\ Keyed(a) /\ InRun(mem[a])
    IN  /\ sd = "kick"
        /\ a \in todo
        /\ cur' = a
        /\ sd' = "lock"
        /\ IF astat[a] = "done"
           THEN UNCHANGED <<closed, notice, mem, dirty, owner>>
           ELSE /\ \E m \in IF abandons THEN Resolved(mem[a]) ELSE {mem[a]} :
                      mem' = [mem EXCEPT ![a] = m]
                /\ dirty' = [dirty EXCEPT ![a] = @ \/ abandons]
                /\ DeliverKick(owner[a], IF Keyed(a) THEN "saved" ELSE "discarded")
                /\ owner' = [owner EXCEPT ![a] = None]
        /\ UNCHANGED <<mgrVars, pc, actorOf, astat, finalErr, todo, flushErr,
                       ret, disk, boots>>

\* stopActorLocked's select: stop is closed once, and never after done.
Stopped_Never(a) == astat
Stopped(a) == [astat EXCEPT ![a] = IF @ = "done" THEN @ ELSE "stopping"]

ShutdownStop ==
    /\ sd = "lock"
    /\ mu = None
    /\ mu' = Closer
    /\ astat' = Stopped(cur)
    /\ sd' = "wait"
    /\ UNCHANGED <<closing, registry, sessVars, mem, dirty, owner, finalErr,
                   todo, cur, flushErr, ret, disk, boots>>

\* errors.Join(flushErr, a.finalErr) # nil.
Joined_Last(a) == finalErr[a]
Joined(a) == flushErr \/ finalErr[a]

ShutdownNext ==
    /\ sd = "wait"
    /\ astat[cur] = "done"
    /\ Forget(cur)
    /\ flushErr' = Joined(cur)
    /\ todo' = todo \ {cur}
    /\ sd' = "kick"
    /\ Unlock
    /\ UNCHANGED <<closing, sessVars, actorVars, cur, ret, disk, boots>>

ShutdownDone ==
    /\ sd = "kick"
    /\ todo = {}
    /\ sd' = "finished"
    /\ ret' = IF ret # "none" THEN ret ELSE IF flushErr THEN "error" ELSE "nil"
    /\ UNCHANGED <<mgrVars, sessVars, actorVars, todo, cur, flushErr, disk,
                   boots>>

\* ctx.Done() first: the caller returns, the goroutine goes on.
ShutdownTimeout ==
    /\ sd \in {"kick", "lock", "wait"}
    /\ ret = "none"
    /\ ret' = "timeout"
    /\ UNCHANGED <<mgrVars, sessVars, actorVars, sd, todo, cur, flushErr,
                   disk, boots>>

-----------------------------------------------------------------------------
(* The process ends, every goroutine with it, and is started again.        *)

Reboot ==
    /\ boots < MaxBoots
    /\ boots' = boots + 1
    /\ mu' = None
    /\ closing' = FALSE
    /\ registry' = [k \in Keys |-> None]
    /\ pc' = [s \in Sessions |-> IF pc[s] = "new" THEN "new" ELSE "gone"]
    /\ actorOf' = [s \in Sessions |-> None]
    /\ closed' = [s \in Sessions |-> FALSE]
    /\ notice' = [s \in Sessions |-> "none"]
    /\ astat' = [a \in Sessions |-> "none"]
    /\ mem' = [a \in Sessions |-> NoRow]
    /\ dirty' = [a \in Sessions |-> FALSE]
    /\ owner' = [a \in Sessions |-> None]
    /\ finalErr' = [a \in Sessions |-> FALSE]
    /\ sd' = "idle" /\ todo' = {} /\ cur' = None
    /\ flushErr' = FALSE /\ ret' = "none"
    /\ UNCHANGED disk

\* Killed or panicked at any moment.
Crash == ret = "none" /\ Reboot

\* main returns, or exits with an error, after the shutdown hook.
Exit == ret # "none" /\ Reboot

\* Every terminal has gone and no manager call is under way.
Quiet ==
    /\ \A s \in Sessions : pc[s] = "gone"
    /\ mu = None
    /\ sd \in {"idle", "finished"}
    /\ UNCHANGED vars

AttachStep(s) ==
    \/ AttachBegin(s) \/ AttachGuest(s) \/ AttachFail(s)
    \/ AttachLoad(s) \/ AttachFound(s) \/ AttachBind(s)

DetachStep(s) == DetachBegin(s) \/ DetachDo(s) \/ DetachEnd(s) \/ CloseStream(s)

ActorStep(a) ==
    \/ Tick(a)
    \/ \E res \in SaveResults : Autosave(a, res)
    \/ StopFlush(a)

ShutdownStep ==
    \/ ShutdownBegin
    \/ \E a \in Sessions : ShutdownKick(a)
    \/ ShutdownStop \/ ShutdownNext \/ ShutdownDone \/ ShutdownTimeout

Next ==
    \/ \E s \in Sessions :
          AttachStep(s) \/ Intent(s) \/ Leave(s) \/ DetachStep(s) \/ ActorStep(s)
    \/ ShutdownStep
    \/ Crash
    \/ Exit
    \/ Quiet

Spec == Init /\ [][Next]_vars

-----------------------------------------------------------------------------
(* Fairness.  The scheduler runs every goroutine that can run.  A Go mutex *)
(* in starvation mode hands itself to the longest waiter, which is strong  *)
(* fairness of its Lock.  A kicked terminal goes on any key or by its idle *)
(* timer.  Players, crashes, exits and the shutdown signal owe nothing.    *)

ManagerFairness ==
    /\ \A s \in Sessions :
          /\ WF_vars(AttachGuest(s) \/ AttachFail(s) \/ AttachLoad(s)
                      \/ AttachFound(s))
          /\ WF_vars(AttachBind(s))
          /\ WF_vars(closed[s] /\ Leave(s))
          /\ SF_vars(DetachBegin(s))
          /\ WF_vars(DetachDo(s))
          /\ WF_vars(DetachEnd(s))
          /\ WF_vars(CloseStream(s))
          /\ WF_vars(StopFlush(s))
    /\ WF_vars(\E a \in Sessions : ShutdownKick(a))
    /\ SF_vars(ShutdownStop)
    /\ WF_vars(ShutdownNext)
    /\ WF_vars(ShutdownDone)

\* The store recovers: an autosave that keeps being tried succeeds.
StoreRecovers == \A a \in Sessions : WF_vars(Autosave(a, "ok"))

FairSpec == Spec /\ ManagerFairness /\ StoreRecovers

-----------------------------------------------------------------------------
(* Properties. *)

PCs == {"new", "attach", "bind", "live", "detach", "detaching", "stopping",
        "close", "gone"}

\* Every variable has its type.
TypeOK ==
    /\ mu \in Sessions \cup {Closer, None}
    /\ closing \in BOOLEAN
    /\ registry \in [Keys -> Sessions \cup {None}]
    /\ pc \in [Sessions -> PCs]
    /\ actorOf \in [Sessions -> Sessions \cup {None}]
    /\ closed \in [Sessions -> BOOLEAN]
    /\ notice \in [Sessions -> {"none", "boarded", "saved", "discarded"}]
    /\ astat \in [Sessions -> {"none", "running", "stopping", "done"}]
    /\ mem \in [Sessions -> State]
    /\ dirty \in [Sessions -> BOOLEAN]
    /\ owner \in [Sessions -> Sessions \cup {None}]
    /\ finalErr \in [Sessions -> BOOLEAN]
    /\ disk \in [Keys -> State]
    /\ sd \in {"idle", "kick", "lock", "wait", "finished"}
    /\ todo \in SUBSET Sessions
    /\ cur \in Sessions \cup {None}
    /\ flushErr \in BOOLEAN
    /\ ret \in {"none", "nil", "error", "timeout"}
    /\ boots \in Nat

\* Two goroutines never own the same save: a save has at most one actor that
\* can still change or write it, and that actor is the registered one.  A
\* second one would overwrite the first one's row (manager.go Attach reuses
\* the registered actor; stopActorLocked waits for done before deleting it).
SingleWriter ==
    \A a, b \in Sessions :
        Alive(a) =>
            /\ registry[KeyOf[a]] = a
            /\ Alive(b) /\ KeyOf[a] = KeyOf[b] => a = b

\* The terminal an actor pushes snapshots to still has its channels open: a
\* send on a closed snapCh would panic the process (actor.go tick against
\* session.go deliverKick, called from three goroutines).
OwnerStreamOpen ==
    \A a \in Sessions : owner[a] # None =>
        /\ ~closed[owner[a]]
        /\ actorOf[owner[a]] = a

\* A terminal never dies silently: one that still runs its program and no
\* longer owns its save has been told why (deliverKick before the handover).
ReplacedTerminalIsTold ==
    \A s \in Sessions :
        pc[s] = "live" /\ owner[actorOf[s]] # s
            => closed[s] /\ notice[s] # "none"

\* Shutdown returns nil only when every save ever opened is on disk as it was
\* last changed (errors.Join of every actor's finalErr).
NilShutdownSavedAll ==
    ret = "nil" =>
        \A a \in Sessions :
            astat[a] # "none" /\ Keyed(a)
                => disk[KeyOf[a]].ver >= mem[a].ver

\* A guest leaves nothing behind: once its terminal has gone no actor of it
\* is left, and no row is ever written for it (persist, detach's stop rule).
GuestsLeaveNothing ==
    \A s \in Sessions : ~Keyed(s) =>
        /\ disk[KeyOf[s]] = NoRow
        /\ pc[s] = "gone" => ~Alive(s)

\* A stored save never goes back to an older state, whatever the interleaving
\* of takeovers, failed saves, shutdown and restart.
NoRollback == [][\A k \in Keys : disk'[k].ver >= disk[k].ver]_vars

\* Under the refuse policy a pilot in its seat is never moved out of it by
\* another terminal.
SeatIsKept ==
    [][\A a \in Sessions :
         owner[a] # None /\ owner'[a] # None => owner'[a] = owner[a]]_vars

\* A session that wants to leave gets away, however the manager is busy:
\* nobody waits for m.mu, for an actor or for its stop for ever.
DetachCompletes == \A s \in Sessions : pc[s] = "detach" ~> pc[s] = "gone"

\* A kicked terminal releases its session.
KickedTerminalGoes == \A s \in Sessions : closed[s] ~> pc[s] = "gone"

\* Shutdown goes through every actor and returns.
ShutdownCompletes == closing ~> (sd = "finished" \/ ~closing)

\* The save a failed disconnect left in memory is written in the end, taken
\* over by a new terminal, or stopped.  A run the tick budget could not
\* resolve is the exception persist makes.
RetainedSaveIsRetried ==
    \A a \in Sessions :
        (astat[a] = "running" /\ owner[a] = None /\ dirty[a] /\ ~InRun(mem[a])
           /\ Keyed(a))
        ~> (~dirty[a] \/ owner[a] # None \/ astat[a] # "running")
=============================================================================
