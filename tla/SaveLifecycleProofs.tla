------------------------- MODULE SaveLifecycleProofs -------------------------
(***************************************************************************)
(* Proofs about SaveLifecycle, for any sets of sessions, saves and guests, *)
(* any bounds and either attach policy.                                    *)
(*                                                                         *)
(* SingleWriter and OwnerStreamOpen are not inductive: why an Attach never *)
(* meets an actor that is going away depends on who holds m.mu.  The       *)
(* strengthening below says which goroutine holds it at which point, that  *)
(* an actor on its way out is registered only while its stopper holds the  *)
(* lock, and that an actor with a terminal is running.                     *)
(***************************************************************************)
EXTENDS SaveLifecycle, TLAPS

\* m.mu is held exactly between the steps of the call that took it, and no
\* Attach is under way once Shutdown has begun.
Locking ==
    /\ \A s \in Sessions :
          mu = s <=> pc[s] \in {"attach", "bind", "detaching", "stopping"}
    /\ mu = Closer <=> sd = "wait"
    /\ sd # "idle" => closing
    /\ closing => \A s \in Sessions : pc[s] \notin {"attach", "bind"}

\* A session that has not been through Attach has created no actor and has
\* its channels open; one that has holds an actor of its own save.
Handles ==
    \A s \in Sessions :
        /\ pc[s] \in {"new", "attach"} => astat[s] = "none"
        /\ pc[s] \in {"new", "attach", "bind"} => ~closed[s]
        /\ pc[s] \in {"bind", "live", "detach", "detaching", "stopping", "close"}
              => /\ actorOf[s] \in Sessions
                 /\ KeyOf[actorOf[s]] = KeyOf[s]
                 /\ astat[actorOf[s]] # "none"
        /\ pc[s] = "bind" => registry[KeyOf[s]] = actorOf[s]

\* Somebody holding m.mu is waiting for a's goroutine to end.
Stopper(a) ==
    \/ \E s \in Sessions : pc[s] = "stopping" /\ actorOf[s] = a
    \/ sd = "wait" /\ cur = a

\* The registry holds every actor that can still act, under its own key, and
\* holds one on its way out only while its stopper has the lock.
Registration ==
    /\ \A k \in Keys : registry[k] # None =>
          /\ KeyOf[registry[k]] = k
          /\ astat[registry[k]] # "none"
          /\ astat[registry[k]] \in {"stopping", "done"} => Stopper(registry[k])
    /\ \A a \in Sessions : Alive(a) => registry[KeyOf[a]] = a
    /\ \A a \in todo : astat[a] # "none"
    /\ sd \in {"lock", "wait"} => cur \in todo /\ owner[cur] = None

\* The terminal attached to an actor has that actor, has its channels open
\* and has not got past the closure of its detach; the actor is running.
Ownership ==
    /\ \A a \in Sessions : owner[a] # None =>
          /\ astat[a] = "running"
          /\ actorOf[owner[a]] = a
          /\ pc[owner[a]] \in {"live", "detach", "detaching"}
          /\ ~closed[owner[a]]
    /\ ReplacedTerminalIsTold

\* An actor is never behind the row of its save.
Ahead ==
    \A a \in Sessions :
        Alive(a) /\ Keyed(a) => mem[a].ver >= disk[KeyOf[a]].ver

IInv == TypeOK /\ Locking /\ Handles /\ Registration /\ Ownership /\ Ahead

-----------------------------------------------------------------------------
(* What the operators on states return. *)

\* Every session resolves to a key.
LEMMA KeyOfType == \A s \in Sessions : KeyOf[s] \in Keys
  BY ConstantsAssumption DEF Keys

\* Encoding a state keeps it a state and keeps its version.
LEMMA EncodeFacts ==
  ASSUME NEW m \in State
  PROVE  Encode(m) \in State /\ Encode(m).ver = m.ver
  BY DEF Encode, State, Places

\* An intent makes a newer state of a state.
LEMMA AfterIntentFacts ==
  ASSUME NEW m \in State, NEW n \in AfterIntent(m)
  PROVE  n \in State /\ n.ver >= m.ver
<1>1. PICK p \in Places : n = Edited(m, p)
  BY DEF AfterIntent, State, Places
<1>2. QED BY <1>1 DEF Edited, State

\* So does a tick.
LEMMA AfterTickFacts ==
  ASSUME NEW m \in State, NEW n \in AfterTick(m)
  PROVE  n \in State /\ n.ver >= m.ver
<1>1. PICK p \in Places : n = Edited(m, p)
  BY DEF AfterTick, State, Places, InRun
<1>2. QED BY <1>1 DEF Edited, State

\* The emergency resolution never makes a state older.
LEMMA ResolvedFacts ==
  ASSUME NEW m \in State, NEW n \in Resolved(m)
  PROVE  n \in State /\ n.ver >= m.ver
<1>1. CASE InRun(m)
  <2>1. PICK p \in Places : n = Edited(m, p) BY <1>1 DEF Resolved
  <2>2. QED BY <2>1 DEF Edited, State
<1>2. CASE ~InRun(m)
  BY <1>2 DEF Resolved, State
<1>3. QED BY <1>1, <1>2

\* persist leaves the table alone or replaces the row of its own save by the
\* state it was given.
LEMMA WrittenFacts ==
  ASSUME disk \in [Keys -> State], NEW a \in Sessions, NEW m \in State,
         NEW d, NEW w, NEW res
  PROVE  /\ Written(a, m, d, w, res) \in [Keys -> State]
         /\ \A k \in Keys : k # KeyOf[a] => Written(a, m, d, w, res)[k] = disk[k]
         /\ Written(a, m, d, w, res)[KeyOf[a]].ver \in {disk[KeyOf[a]].ver, m.ver}
<1>1. KeyOf[a] \in Keys BY KeyOfType
<1>2. QED BY <1>1, EncodeFacts DEF Written

\* Opening a save gives a state, and never an older one than the row.
LEMMA RowOrNewFacts ==
  ASSUME disk \in [Keys -> State], NEW k \in Keys
  PROVE  /\ RowOrNew(k) \in State
         /\ RowOrNew(k).ver >= disk[k].ver
<1>1. NewState \in State /\ NewState.ver = 1 BY DEF NewState, State, Places
<1>2. NoRow.ver = 0 BY DEF NoRow
<1>3. disk[k] \in State /\ disk[k].ver \in Nat BY DEF State
<1>4. QED BY <1>1, <1>2, <1>3 DEF RowOrNew

-----------------------------------------------------------------------------
(* Type correctness. *)

\* A save that was never opened counts as a state.
LEMMA NoRowType == NoRow \in State
  BY DEF NoRow, State, Places

\* A process that has just started is well typed.
LEMMA TypeInit == Init => TypeOK
<1> SUFFICES ASSUME Init PROVE TypeOK
  OBVIOUS
<1>1. todo \in SUBSET Sessions BY DEF Init
<1>2. QED BY <1>1, NoRowType DEF Init, TypeOK, PCs

\* The session's actor, where the code dereferences it.
LEMMA ActorOfType ==
  ASSUME Handles, NEW s \in Sessions,
         pc[s] \in {"bind", "live", "detach", "detaching", "stopping", "close"}
  PROVE  actorOf[s] \in Sessions
  BY DEF Handles

\* detach's closure on an actor that has not stopped, its case split undone.
LEMMA DetachDoParts ==
  ASSUME NEW s \in Sessions, DetachDo(s), astat[actorOf[s]] # "done"
  PROVE  LET a == actorOf[s]
             w == Released(a, s)
             abandons == owner[a] = s /\ Keyed(a) /\ InRun(mem[a])
             d == dirty[a] \/ abandons
         IN  \E m \in IF abandons THEN Resolved(mem[a]) ELSE {mem[a]},
                res \in SaveResults :
               /\ mem' = [mem EXCEPT ![a] = m]
               /\ owner' = [owner EXCEPT ![a] = w]
               /\ disk' = Written(a, m, d, w, res)
               /\ dirty' = [dirty EXCEPT ![a] = StillDirty(a, m, d, w, res)]
               /\ \/ /\ w = None
                     /\ astat' = [astat EXCEPT ![a] = "stopping"]
                     /\ Goto(s, "stopping") /\ UNCHANGED mu
                  \/ Goto(s, "close") /\ Unlock /\ UNCHANGED astat
  BY DEF DetachDo, StopRule

\* Every step keeps the types.
LEMMA TypeNext == IInv /\ [Next]_vars => TypeOK'
<1> SUFFICES ASSUME IInv, [Next]_vars PROVE TypeOK'
  OBVIOUS
<1>0. TypeOK /\ Handles BY DEF IInv
<1> USE DEF TypeOK, PCs
<1>1. ASSUME NEW s \in Sessions, AttachBegin(s) PROVE TypeOK'
  BY <1>0, <1>1 DEF AttachBegin, Goto, actorVars, downVars
<1>2. ASSUME NEW s \in Sessions, AttachGuest(s) PROVE TypeOK'
  <2>1. NewState \in State BY DEF NewState, State, Places
  <2>2. QED BY <1>0, <1>2, <2>1, KeyOfType
          DEF AttachGuest, NewActor, Goto, Unlock, actorVars, downVars
<1>3. ASSUME NEW s \in Sessions, AttachFail(s) PROVE TypeOK'
  <2>1. KeyOf[s] \in Keys /\ RowOrNew(KeyOf[s]) \in State
    BY <1>0, KeyOfType, RowOrNewFacts
  <2>2. QED BY <1>0, <1>3, <2>1
          DEF AttachFail, Goto, Unlock, actorVars, downVars
<1>4. ASSUME NEW s \in Sessions, AttachLoad(s) PROVE TypeOK'
  <2>1. KeyOf[s] \in Keys /\ RowOrNew(KeyOf[s]) \in State
    BY <1>0, KeyOfType, RowOrNewFacts
  <2>2. QED BY <1>0, <1>4, <2>1 DEF AttachLoad, NewActor, Goto, downVars
<1>5. ASSUME NEW s \in Sessions, AttachFound(s) PROVE TypeOK'
  BY <1>0, <1>5, KeyOfType DEF AttachFound, Goto, mgrVars, actorVars, downVars
<1>6. ASSUME NEW s \in Sessions, AttachBind(s) PROVE TypeOK'
  <2> DEFINE a == actorOf[s]
  <2>1. CASE astat[a] = "done"
    BY <1>0, <1>6, <2>1 DEF AttachBind, Goto, Unlock, downVars
  <2>2. CASE astat[a] # "done" /\ Busy(a)
    BY <1>0, <1>6, <2>2 DEF AttachBind, Goto, Unlock, downVars
  <2>3. CASE astat[a] # "done" /\ ~Busy(a)
    <3>1. DeliverKick(owner[a], "boarded") BY <1>6, <2>3 DEF AttachBind
    <3>2. /\ closed' \in [Sessions -> BOOLEAN]
          /\ notice' \in [Sessions -> {"none", "boarded", "saved", "discarded"}]
      BY <1>0, <3>1 DEF DeliverKick
    <3>3. dirty' \in [Sessions -> BOOLEAN]
      BY <1>0, <1>6, <2>3 DEF AttachBind
    <3>4. /\ owner' \in [Sessions -> Sessions \cup {None}]
          /\ pc' \in [Sessions -> PCs]
          /\ mu' = None
      BY <1>0, <1>6, <2>3 DEF AttachBind, Goto, Unlock
    <3>5. UNCHANGED <<closing, registry, actorOf, astat, mem, finalErr,
                      downVars, disk, boots>>
      BY <1>6, <2>3 DEF AttachBind
    <3>6. QED BY <1>0, <3>2, <3>3, <3>4, <3>5 DEF downVars
  <2>4. QED BY <2>1, <2>2, <2>3
<1>7. ASSUME NEW s \in Sessions, Intent(s) PROVE TypeOK'
  <2>1. PICK m \in AfterIntent(mem[actorOf[s]]) :
          mem' = [mem EXCEPT ![actorOf[s]] = m]
    BY <1>7 DEF Intent
  <2>2. m \in State
    BY <1>0, <1>7, <2>1, ActorOfType, AfterIntentFacts DEF Intent
  <2>3. QED BY <1>0, <1>7, <2>1, <2>2 DEF Intent, mgrVars, sessVars, downVars
<1>8. ASSUME NEW s \in Sessions, Leave(s) PROVE TypeOK'
  BY <1>0, <1>8 DEF Leave, Goto, mgrVars, actorVars, downVars
<1>9. ASSUME NEW s \in Sessions, DetachBegin(s) PROVE TypeOK'
  BY <1>0, <1>9 DEF DetachBegin, Goto, actorVars, downVars
<1>10. ASSUME NEW s \in Sessions, DetachDo(s) PROVE TypeOK'
  <2> DEFINE a == actorOf[s]
             w == Released(a, s)
             abandons == owner[a] = s /\ Keyed(a) /\ InRun(mem[a])
             d == dirty[a] \/ abandons
  <2>1. CASE astat[a] = "done"
    BY <1>0, <1>10, <2>1 DEF DetachDo, Goto, Unlock, downVars
  <2>2. CASE astat[a] # "done"
    <3>1. PICK m \in IF abandons THEN Resolved(mem[a]) ELSE {mem[a]},
               res \in SaveResults :
            /\ mem' = [mem EXCEPT ![a] = m]
            /\ owner' = [owner EXCEPT ![a] = w]
            /\ disk' = Written(a, m, d, w, res)
            /\ dirty' = [dirty EXCEPT ![a] = StillDirty(a, m, d, w, res)]
            /\ \/ /\ w = None
                  /\ astat' = [astat EXCEPT ![a] = "stopping"]
                  /\ Goto(s, "stopping") /\ UNCHANGED mu
               \/ Goto(s, "close") /\ Unlock /\ UNCHANGED astat
      BY <1>10, <2>2, DetachDoParts
    <3>2. a \in Sessions BY <1>0, <1>10, ActorOfType DEF DetachDo
    <3>3. m \in State BY <1>0, <3>1, <3>2, ResolvedFacts
    <3>4. disk' \in [Keys -> State] BY <1>0, <3>1, <3>2, <3>3, WrittenFacts
    <3>5. d \in BOOLEAN BY <1>0, <3>2
    <3>6. dirty' \in [Sessions -> BOOLEAN]
      BY <1>0, <3>1, <3>5 DEF StillDirty
    <3>7. owner' \in [Sessions -> Sessions \cup {None}]
      BY <1>0, <3>1, <3>2 DEF Released
    <3>8. QED BY <1>0, <1>10, <3>1, <3>3, <3>4, <3>6, <3>7
            DEF DetachDo, Goto, Unlock, downVars
  <2>3. QED BY <2>1, <2>2
<1>11. ASSUME NEW s \in Sessions, DetachEnd(s) PROVE TypeOK'
  BY <1>0, <1>11 DEF DetachEnd, Forget, Goto, Unlock, actorVars, downVars
<1>12. ASSUME NEW s \in Sessions, CloseStream(s) PROVE TypeOK'
  BY <1>0, <1>12 DEF CloseStream, DeliverKick, Goto, mgrVars, actorVars, downVars
<1>13. ASSUME NEW a \in Sessions, Tick(a) PROVE TypeOK'
  <2>1. PICK m \in AfterTick(mem[a]) : mem' = [mem EXCEPT ![a] = m]
    BY <1>13 DEF Tick
  <2>2. m \in State BY <1>0, <2>1, AfterTickFacts
  <2>3. QED BY <1>0, <1>13, <2>1, <2>2 DEF Tick, mgrVars, sessVars, downVars
<1>14. ASSUME NEW a \in Sessions, NEW res \in SaveResults, Autosave(a, res)
       PROVE  TypeOK'
  <2>1. disk' \in [Keys -> State]
    BY <1>0, <1>14, WrittenFacts DEF Autosave
  <2>2. dirty' \in [Sessions -> BOOLEAN]
    BY <1>0, <1>14 DEF Autosave, StillDirty
  <2>3. QED BY <1>0, <1>14, <2>1, <2>2 DEF Autosave, mgrVars, sessVars, downVars
<1>15. ASSUME NEW a \in Sessions, StopFlush(a) PROVE TypeOK'
  <2> DEFINE d == dirty[a] \/ (Keyed(a) /\ InRun(mem[a]))
  <2>1. PICK m \in IF Keyed(a) THEN Resolved(mem[a]) ELSE {mem[a]},
             res \in SaveResults :
          /\ mem' = [mem EXCEPT ![a] = m]
          /\ disk' = Written(a, m, d, owner[a], res)
          /\ dirty' = [dirty EXCEPT ![a] = StillDirty(a, m, d, owner[a], res)]
          /\ finalErr' = [finalErr EXCEPT
                          ![a] = PersistErr(a, m, d, owner[a], res)]
    BY <1>15 DEF StopFlush
  <2>2. m \in State BY <1>0, <2>1, ResolvedFacts
  <2>3. disk' \in [Keys -> State] BY <1>0, <2>1, <2>2, WrittenFacts
  <2>4. d \in BOOLEAN BY <1>0
  <2>5. dirty' \in [Sessions -> BOOLEAN] BY <1>0, <2>1, <2>4 DEF StillDirty
  <2>6. finalErr' \in [Sessions -> BOOLEAN] BY <1>0, <2>1 DEF PersistErr
  <2>7. QED BY <1>0, <1>15, <2>1, <2>2, <2>3, <2>5, <2>6
          DEF StopFlush, mgrVars, sessVars, downVars
<1>16. CASE ShutdownBegin
  BY <1>0, <1>16 DEF ShutdownBegin, Copied, sessVars, actorVars
<1>17. ASSUME NEW a \in Sessions, ShutdownKick(a) PROVE TypeOK'
  <2>1. CASE astat[a] = "done"
    BY <1>0, <1>17, <2>1 DEF ShutdownKick, mgrVars
  <2>2. CASE astat[a] # "done"
    <3> DEFINE abandons == owner[a] # None /\ Keyed(a) /\ InRun(mem[a])
    <3>1. PICK m \in IF abandons THEN Resolved(mem[a]) ELSE {mem[a]} :
            mem' = [mem EXCEPT ![a] = m]
      BY <1>17, <2>2 DEF ShutdownKick
    <3>2. m \in State BY <1>0, <3>1, ResolvedFacts
    <3>3. abandons \in BOOLEAN OBVIOUS
    <3>4. dirty' \in [Sessions -> BOOLEAN]
      BY <1>0, <1>17, <2>2, <3>3 DEF ShutdownKick
    <3>5. QED BY <1>0, <1>17, <2>2, <3>1, <3>2, <3>4
            DEF ShutdownKick, DeliverKick, mgrVars
  <2>3. QED BY <2>1, <2>2
<1>18. CASE ShutdownStop
  BY <1>0, <1>18 DEF ShutdownStop, Stopped, sessVars
<1>19. CASE ShutdownNext
  <2>1. cur \in Sessions \/ cur = None BY <1>0
  <2>2. Joined(cur) \in BOOLEAN BY <1>0 DEF Joined
  <2>3. QED BY <1>0, <1>19, <2>2
          DEF ShutdownNext, Forget, Unlock, sessVars, actorVars
<1>20. CASE ShutdownDone
  BY <1>0, <1>20 DEF ShutdownDone, mgrVars, sessVars, actorVars
<1>21. CASE ShutdownTimeout
  BY <1>0, <1>21 DEF ShutdownTimeout, mgrVars, sessVars, actorVars
<1>22. CASE Reboot
  <2>1. todo' \in SUBSET Sessions BY <1>22 DEF Reboot
  <2>2. boots' \in Nat BY <1>0, <1>22 DEF Reboot
  <2>3. pc' \in [Sessions -> PCs] BY <1>0, <1>22 DEF Reboot
  <2>4. mem' \in [Sessions -> State] /\ disk' \in [Keys -> State]
    BY <1>0, <1>22, NoRowType DEF Reboot
  <2>5. QED BY <1>22, <2>1, <2>2, <2>3, <2>4 DEF Reboot
<1>23. CASE UNCHANGED vars
  BY <1>0, <1>23 DEF vars, mgrVars, sessVars, actorVars, downVars
<1>24. QED
  BY <1>1, <1>2, <1>3, <1>4, <1>5, <1>6, <1>7, <1>8, <1>9, <1>10, <1>11,
     <1>12, <1>13, <1>14, <1>15, <1>16, <1>17, <1>18, <1>19, <1>20, <1>21,
     <1>22, <1>23
  DEF Next, AttachStep, DetachStep, ActorStep, ShutdownStep, Crash, Exit, Quiet

\* A kick closes the channels of its own session and of no other, and carries
\* its reason unless an earlier kick did.
LEMMA DeliverKickFacts ==
  ASSUME TypeOK, NEW s, NEW why, DeliverKick(s, why)
  PROVE  /\ \A t \in Sessions : t # s =>
                closed'[t] = closed[t] /\ notice'[t] = notice[t]
         /\ s \in Sessions => closed'[s]
         /\ s \in Sessions /\ ~closed[s] => notice'[s] = why
         /\ \A t \in Sessions : closed[t] => closed'[t] /\ notice'[t] = notice[t]
  BY ConstantsAssumption DEF DeliverKick, TypeOK

\* The actor an Attach has in hand is running: "save closing" cannot happen,
\* because whoever stops an actor holds m.mu until it is out of the registry.
LEMMA FoundIsRunning ==
  ASSUME TypeOK, Locking, Handles, Registration,
         NEW s \in Sessions, pc[s] = "bind"
  PROVE  astat[actorOf[s]] = "running"
<1> DEFINE a == actorOf[s]
<1>1. /\ a \in Sessions /\ registry[KeyOf[s]] = a /\ astat[a] # "none"
      /\ KeyOf[s] \in Keys
  BY KeyOfType DEF Handles
<1>2. mu = s BY DEF Locking
<1>3. ~Stopper(a)
  <2>1. sd # "wait" BY <1>2, ConstantsAssumption DEF Locking
  <2>2. \A t \in Sessions : pc[t] # "stopping" BY <1>2 DEF Locking
  <2>3. QED BY <2>1, <2>2 DEF Stopper
<1>4. astat[a] \notin {"stopping", "done"}
  BY <1>1, <1>3, ConstantsAssumption DEF Registration
<1>5. QED BY <1>1, <1>4 DEF TypeOK

\* Two actors that can still act have two saves.
LEMMA WritersDiffer ==
  ASSUME Registration, NEW a \in Sessions, NEW b \in Sessions,
         Alive(a), Alive(b), KeyOf[a] = KeyOf[b]
  PROVE  a = b
  BY DEF Registration

\* No row gets older in this step.
Forward == \A k \in Keys : disk'[k].ver >= disk[k].ver

\* A step in which at most the actor a, already able to act, moves on to a
\* state m that is not older, and in which persist may write m.
LEMMA PersistForward ==
  ASSUME TypeOK, Registration, Ahead, NEW a \in Sessions, Alive(a),
         NEW m \in State, m.ver >= mem[a].ver, NEW d, NEW w, NEW res,
         mem' = [mem EXCEPT ![a] = m],
         disk' = disk \/ disk' = Written(a, m, d, w, res),
         \A b \in Sessions : Alive(b)' => Alive(b)
  PROVE  Ahead' /\ Forward
<1>1. /\ \A k \in Keys : disk[k].ver \in Nat
      /\ \A b \in Sessions : mem[b].ver \in Nat
      /\ m.ver \in Nat
  BY DEF TypeOK, State
<1>2. KeyOf[a] \in Keys BY KeyOfType
<1>3. /\ \A k \in Keys : k # KeyOf[a] => disk'[k] = disk[k]
      /\ disk'[KeyOf[a]].ver \in {disk[KeyOf[a]].ver, m.ver}
      /\ ~Keyed(a) => disk' = disk
  BY <1>2, WrittenFacts DEF TypeOK, Written, Attempts
<1>4. Keyed(a) => m.ver >= disk[KeyOf[a]].ver
  BY <1>1, <1>2 DEF Ahead
<1>5. Forward BY <1>1, <1>2, <1>3, <1>4 DEF Forward
<1>6. ASSUME NEW b \in Sessions, Alive(b)', Keyed(b)
      PROVE  mem'[b].ver >= disk'[KeyOf[b]].ver
  <2>1. Alive(b) /\ KeyOf[b] \in Keys BY <1>6, KeyOfType
  <2>2. CASE b = a BY <1>1, <1>2, <1>3, <1>4, <1>6, <2>2 DEF TypeOK
  <2>3. CASE b # a
    <3>1. KeyOf[b] # KeyOf[a] BY <2>1, <2>3, WritersDiffer
    <3>2. QED BY <1>3, <1>6, <2>1, <2>3, <3>1 DEF Ahead, TypeOK
  <2>4. QED BY <2>2, <2>3
<1>7. QED BY <1>5, <1>6 DEF Ahead, Keyed

-----------------------------------------------------------------------------
(* The parts of the inductive invariant, one step per action. *)

\* Every step keeps the account of who holds m.mu.
LEMMA LockingNext == IInv /\ [Next]_vars => Locking'
<1> SUFFICES ASSUME IInv, [Next]_vars PROVE Locking'
  OBVIOUS
<1>0. TypeOK /\ Locking BY DEF IInv
<1> USE DEF TypeOK, PCs, Locking
<1>1. ASSUME NEW s \in Sessions, AttachBegin(s) PROVE Locking'
  BY <1>0, <1>1, ConstantsAssumption
  DEF AttachBegin, Goto, actorVars, downVars
<1>2. ASSUME NEW s \in Sessions, AttachGuest(s) PROVE Locking'
  BY <1>0, <1>2, ConstantsAssumption
  DEF AttachGuest, NewActor, Goto, Unlock, Registered, actorVars, downVars
<1>3. ASSUME NEW s \in Sessions, AttachFail(s) PROVE Locking'
  BY <1>0, <1>3, ConstantsAssumption
  DEF AttachFail, Goto, Unlock, actorVars, downVars
<1>4. ASSUME NEW s \in Sessions, AttachLoad(s) PROVE Locking'
  BY <1>0, <1>4, ConstantsAssumption
  DEF AttachLoad, NewActor, Goto, Registered, downVars
<1>5. ASSUME NEW s \in Sessions, AttachFound(s) PROVE Locking'
  BY <1>0, <1>5, ConstantsAssumption
  DEF AttachFound, Goto, Registered, mgrVars, actorVars, downVars
<1>6. ASSUME NEW s \in Sessions, AttachBind(s) PROVE Locking'
  BY <1>0, <1>6, ConstantsAssumption
  DEF AttachBind, Goto, Unlock, downVars
<1>7. ASSUME NEW s \in Sessions, Intent(s) PROVE Locking'
  BY <1>0, <1>7, ConstantsAssumption
  DEF Intent, mgrVars, sessVars, downVars
<1>8. ASSUME NEW s \in Sessions, Leave(s) PROVE Locking'
  BY <1>0, <1>8, ConstantsAssumption
  DEF Leave, Goto, Dismissed, mgrVars, actorVars, downVars
<1>9. ASSUME NEW s \in Sessions, DetachBegin(s) PROVE Locking'
  BY <1>0, <1>9, ConstantsAssumption
  DEF DetachBegin, Goto, actorVars, downVars
<1>10. ASSUME NEW s \in Sessions, DetachDo(s) PROVE Locking'
  BY <1>0, <1>10, ConstantsAssumption
  DEF DetachDo, Goto, Unlock, downVars
<1>11. ASSUME NEW s \in Sessions, DetachEnd(s) PROVE Locking'
  BY <1>0, <1>11, ConstantsAssumption
  DEF DetachEnd, Forget, Goto, Unlock, actorVars, downVars
<1>12. ASSUME NEW s \in Sessions, CloseStream(s) PROVE Locking'
  BY <1>0, <1>12, ConstantsAssumption
  DEF CloseStream, Goto, mgrVars, actorVars, downVars
<1>13. ASSUME NEW a \in Sessions, Tick(a) PROVE Locking'
  BY <1>0, <1>13, ConstantsAssumption
  DEF Tick, mgrVars, sessVars, downVars
<1>14. ASSUME NEW a \in Sessions, NEW res \in SaveResults, Autosave(a, res)
       PROVE  Locking'
  BY <1>0, <1>14, ConstantsAssumption
  DEF Autosave, mgrVars, sessVars, downVars
<1>15. ASSUME NEW a \in Sessions, StopFlush(a) PROVE Locking'
  BY <1>0, <1>15, ConstantsAssumption
  DEF StopFlush, mgrVars, sessVars, downVars
<1>16. CASE ShutdownBegin
  BY <1>0, <1>16, ConstantsAssumption
  DEF ShutdownBegin, Copied, sessVars, actorVars
<1>17. ASSUME NEW a \in Sessions, ShutdownKick(a) PROVE Locking'
  BY <1>0, <1>17, ConstantsAssumption
  DEF ShutdownKick, mgrVars
<1>18. CASE ShutdownStop
  BY <1>0, <1>18, ConstantsAssumption
  DEF ShutdownStop, Stopped, sessVars
<1>19. CASE ShutdownNext
  BY <1>0, <1>19, ConstantsAssumption
  DEF ShutdownNext, Forget, Unlock, sessVars, actorVars
<1>20. CASE ShutdownDone
  BY <1>0, <1>20, ConstantsAssumption
  DEF ShutdownDone, mgrVars, sessVars, actorVars
<1>21. CASE ShutdownTimeout
  BY <1>0, <1>21, ConstantsAssumption
  DEF ShutdownTimeout, mgrVars, sessVars, actorVars
<1>22. CASE Reboot
  BY <1>0, <1>22, ConstantsAssumption DEF Reboot
<1>23. CASE UNCHANGED vars
  BY <1>0, <1>23 DEF vars, mgrVars, sessVars, actorVars, downVars
<1>24. QED
  BY <1>1, <1>2, <1>3, <1>4, <1>5, <1>6, <1>7, <1>8, <1>9, <1>10, <1>11,
     <1>12, <1>13, <1>14, <1>15, <1>16, <1>17, <1>18, <1>19, <1>20, <1>21,
     <1>22, <1>23
  DEF Next, AttachStep, DetachStep, ActorStep, ShutdownStep, Crash, Exit, Quiet

\* Every step keeps the sessions' handles on their actors.
LEMMA HandlesNext == IInv /\ [Next]_vars => Handles'
<1> SUFFICES ASSUME IInv, [Next]_vars PROVE Handles'
  OBVIOUS
<1>0. TypeOK /\ Locking /\ Handles /\ Registration /\ Ownership BY DEF IInv
<1> USE DEF TypeOK, PCs, Locking, Handles
<1>1. ASSUME NEW s \in Sessions, AttachBegin(s) PROVE Handles'
  BY <1>0, <1>1, ConstantsAssumption, KeyOfType
  DEF AttachBegin, Goto, actorVars, downVars
<1>2. ASSUME NEW s \in Sessions, AttachGuest(s) PROVE Handles'
  BY <1>0, <1>2, ConstantsAssumption, KeyOfType
  DEF AttachGuest, NewActor, Goto, Unlock, Registered, actorVars, downVars
<1>3. ASSUME NEW s \in Sessions, AttachFail(s) PROVE Handles'
  BY <1>0, <1>3, ConstantsAssumption, KeyOfType
  DEF AttachFail, Goto, Unlock, actorVars, downVars
<1>4. ASSUME NEW s \in Sessions, AttachLoad(s) PROVE Handles'
  BY <1>0, <1>4, ConstantsAssumption, KeyOfType
  DEF AttachLoad, NewActor, Goto, Registered, downVars
<1>5. ASSUME NEW s \in Sessions, AttachFound(s) PROVE Handles'
  BY <1>0, <1>5, KeyOfType
  DEF AttachFound, Goto, Registered, mgrVars, actorVars, downVars, Registration
<1>6. ASSUME NEW s \in Sessions, AttachBind(s) PROVE Handles'
  <2> DEFINE a == actorOf[s]
  <2>1. UNCHANGED <<actorOf, astat>> /\ pc[s] = "bind" /\ mu = s
    BY <1>0, <1>6 DEF AttachBind
  <2>2. pc' = [pc EXCEPT ![s] = "live"] \/ pc' = [pc EXCEPT ![s] = "gone"]
    BY <1>6 DEF AttachBind, Goto
  <2>3. \A t \in Sessions : t # owner[a] => closed'[t] = closed[t]
    <3>1. CASE astat[a] = "done" \/ Busy(a) BY <1>6, <3>1 DEF AttachBind
    <3>2. CASE astat[a] # "done" /\ ~Busy(a)
      BY <1>0, <1>6, <3>2, DeliverKickFacts DEF AttachBind
    <3>3. QED BY <3>1, <3>2
  <2>4. \A t \in Sessions : pc'[t] \in {"new", "attach", "bind"} => ~closed'[t]
    BY <1>0, <2>1, <2>2, <2>3, ConstantsAssumption, ActorOfType DEF Ownership
  <2>5. \A t \in Sessions : pc'[t] # "bind"
    BY <1>0, <2>1, <2>2
  <2>6. QED BY <1>0, <2>1, <2>2, <2>4, <2>5
<1>7. ASSUME NEW s \in Sessions, Intent(s) PROVE Handles'
  BY <1>0, <1>7, ConstantsAssumption, KeyOfType
  DEF Intent, mgrVars, sessVars, downVars
<1>8. ASSUME NEW s \in Sessions, Leave(s) PROVE Handles'
  BY <1>0, <1>8, ConstantsAssumption, KeyOfType
  DEF Leave, Goto, Dismissed, mgrVars, actorVars, downVars
<1>9. ASSUME NEW s \in Sessions, DetachBegin(s) PROVE Handles'
  BY <1>0, <1>9, ConstantsAssumption, KeyOfType
  DEF DetachBegin, Goto, actorVars, downVars
<1>10. ASSUME NEW s \in Sessions, DetachDo(s) PROVE Handles'
  BY <1>0, <1>10, ConstantsAssumption, KeyOfType
  DEF DetachDo, Goto, Unlock, downVars
<1>11. ASSUME NEW s \in Sessions, DetachEnd(s) PROVE Handles'
  BY <1>0, <1>11, ConstantsAssumption, KeyOfType
  DEF DetachEnd, Forget, Goto, Unlock, actorVars, downVars
<1>12. ASSUME NEW s \in Sessions, CloseStream(s) PROVE Handles'
  <2>1. \A t \in Sessions : t # s => closed'[t] = closed[t]
    BY <1>0, <1>12, DeliverKickFacts DEF CloseStream
  <2>2. QED BY <1>0, <1>12, <2>1 DEF CloseStream, Goto, mgrVars, actorVars
<1>13. ASSUME NEW a \in Sessions, Tick(a) PROVE Handles'
  BY <1>0, <1>13, ConstantsAssumption, KeyOfType
  DEF Tick, mgrVars, sessVars, downVars
<1>14. ASSUME NEW a \in Sessions, NEW res \in SaveResults, Autosave(a, res)
       PROVE  Handles'
  BY <1>0, <1>14, ConstantsAssumption, KeyOfType
  DEF Autosave, mgrVars, sessVars, downVars
<1>15. ASSUME NEW a \in Sessions, StopFlush(a) PROVE Handles'
  BY <1>0, <1>15, ConstantsAssumption, KeyOfType
  DEF StopFlush, mgrVars, sessVars, downVars
<1>16. CASE ShutdownBegin
  BY <1>0, <1>16, ConstantsAssumption, KeyOfType
  DEF ShutdownBegin, Copied, sessVars, actorVars
<1>17. ASSUME NEW a \in Sessions, ShutdownKick(a) PROVE Handles'
  <2>1. UNCHANGED <<mu, registry, pc, actorOf, astat>>
    BY <1>17 DEF ShutdownKick, mgrVars
  <2>2. \A s \in Sessions : s # owner[a] => closed'[s] = closed[s]
    <3>1. CASE astat[a] = "done" BY <1>17, <3>1 DEF ShutdownKick
    <3>2. CASE astat[a] # "done"
      BY <1>0, <1>17, <3>2, DeliverKickFacts DEF ShutdownKick
    <3>3. QED BY <3>1, <3>2
  <2>3. \A s \in Sessions : pc[s] \in {"new", "attach", "bind"} => ~closed'[s]
    BY <1>0, <2>2, ConstantsAssumption DEF Ownership
  <2>4. QED BY <1>0, <2>1, <2>3
<1>18. CASE ShutdownStop
  BY <1>0, <1>18, ConstantsAssumption DEF ShutdownStop, Stopped, sessVars, Registration
<1>19. CASE ShutdownNext
  BY <1>0, <1>19, ConstantsAssumption, KeyOfType
  DEF ShutdownNext, Forget, Unlock, sessVars, actorVars
<1>20. CASE ShutdownDone
  BY <1>0, <1>20, ConstantsAssumption, KeyOfType
  DEF ShutdownDone, mgrVars, sessVars, actorVars
<1>21. CASE ShutdownTimeout
  BY <1>0, <1>21, ConstantsAssumption, KeyOfType
  DEF ShutdownTimeout, mgrVars, sessVars, actorVars
<1>22. CASE Reboot
  BY <1>0, <1>22, ConstantsAssumption, KeyOfType
  DEF Reboot
<1>23. CASE UNCHANGED vars
  BY <1>0, <1>23 DEF vars, mgrVars, sessVars, actorVars, downVars
<1>24. QED
  BY <1>1, <1>2, <1>3, <1>4, <1>5, <1>6, <1>7, <1>8, <1>9, <1>10, <1>11,
     <1>12, <1>13, <1>14, <1>15, <1>16, <1>17, <1>18, <1>19, <1>20, <1>21,
     <1>22, <1>23
  DEF Next, AttachStep, DetachStep, ActorStep, ShutdownStep, Crash, Exit, Quiet

\* Every step keeps the registry of actors that can still act.
LEMMA RegistrationNext == IInv /\ [Next]_vars => Registration'
<1> SUFFICES ASSUME IInv, [Next]_vars PROVE Registration'
  OBVIOUS
<1>0. TypeOK /\ Locking /\ Handles /\ Registration /\ Ownership BY DEF IInv
<1> USE DEF TypeOK, PCs, Locking, Handles, Registration, Stopper, Alive
<1>1. ASSUME NEW s \in Sessions, AttachBegin(s) PROVE Registration'
  BY <1>0, <1>1, ConstantsAssumption, KeyOfType
  DEF AttachBegin, Goto, actorVars, downVars
<1>2. ASSUME NEW s \in Sessions, AttachGuest(s) PROVE Registration'
  BY <1>0, <1>2, ConstantsAssumption, KeyOfType
  DEF AttachGuest, NewActor, Goto, Unlock, Registered, actorVars, downVars
<1>3. ASSUME NEW s \in Sessions, AttachFail(s) PROVE Registration'
  BY <1>0, <1>3, ConstantsAssumption, KeyOfType
  DEF AttachFail, Goto, Unlock, actorVars, downVars
<1>4. ASSUME NEW s \in Sessions, AttachLoad(s) PROVE Registration'
  BY <1>0, <1>4, ConstantsAssumption, KeyOfType
  DEF AttachLoad, NewActor, Goto, Registered, downVars
<1>5. ASSUME NEW s \in Sessions, AttachFound(s) PROVE Registration'
  BY <1>0, <1>5, ConstantsAssumption, KeyOfType
  DEF AttachFound, Goto, Registered, mgrVars, actorVars, downVars
<1>6. ASSUME NEW s \in Sessions, AttachBind(s) PROVE Registration'
  BY <1>0, <1>6, ConstantsAssumption, KeyOfType
  DEF AttachBind, Goto, Unlock, downVars
<1>7. ASSUME NEW s \in Sessions, Intent(s) PROVE Registration'
  BY <1>0, <1>7, ConstantsAssumption, KeyOfType
  DEF Intent, mgrVars, sessVars, downVars
<1>8. ASSUME NEW s \in Sessions, Leave(s) PROVE Registration'
  BY <1>0, <1>8, ConstantsAssumption, KeyOfType
  DEF Leave, Goto, Dismissed, mgrVars, actorVars, downVars
<1>9. ASSUME NEW s \in Sessions, DetachBegin(s) PROVE Registration'
  BY <1>0, <1>9, ConstantsAssumption, KeyOfType
  DEF DetachBegin, Goto, actorVars, downVars
<1>10. ASSUME NEW s \in Sessions, DetachDo(s) PROVE Registration'
  <2> DEFINE a == actorOf[s]
  <2>1. /\ pc[s] = "detaching" /\ a \in Sessions
        /\ UNCHANGED <<registry, actorOf, todo, cur, sd>>
    BY <1>0, <1>10, ActorOfType DEF DetachDo, downVars
  <2>2. sd \in {"lock", "wait"} => owner'[cur] = None
    <3>1. CASE astat[a] = "done" BY <1>0, <1>10, <3>1 DEF DetachDo
    <3>2. CASE astat[a] # "done"
      <4>1. owner' = [owner EXCEPT ![a] = Released(a, s)]
        BY <1>10, <3>2, DetachDoParts
      <4>2. QED BY <1>0, <2>1, <4>1 DEF Released
    <3>3. QED BY <3>1, <3>2
  <2>3. CASE UNCHANGED astat /\ pc' = [pc EXCEPT ![s] = "close"]
    BY <1>0, <2>1, <2>2, <2>3
  <2>4. CASE /\ astat[a] # "done"
             /\ astat' = [astat EXCEPT ![a] = "stopping"]
             /\ pc' = [pc EXCEPT ![s] = "stopping"]
    <3>1. registry[KeyOf[a]] = a BY <1>0, <2>1, <2>4
    <3>2. pc'[s] = "stopping" /\ actorOf'[s] = a BY <1>0, <2>1, <2>4
    <3>3. QED BY <1>0, <2>1, <2>2, <2>4, <3>1, <3>2
  <2>5. \/ UNCHANGED astat /\ pc' = [pc EXCEPT ![s] = "close"]
        \/ /\ astat[a] # "done"
           /\ astat' = [astat EXCEPT ![a] = "stopping"]
           /\ pc' = [pc EXCEPT ![s] = "stopping"]
    BY <1>10, DetachDoParts DEF DetachDo, Goto
  <2>6. QED BY <2>3, <2>4, <2>5
<1>11. ASSUME NEW s \in Sessions, DetachEnd(s) PROVE Registration'
  BY <1>0, <1>11, ConstantsAssumption, KeyOfType
  DEF DetachEnd, Forget, Goto, Unlock, actorVars, downVars
<1>12. ASSUME NEW s \in Sessions, CloseStream(s) PROVE Registration'
  BY <1>0, <1>12, ConstantsAssumption, KeyOfType
  DEF CloseStream, Goto, mgrVars, actorVars, downVars
<1>13. ASSUME NEW a \in Sessions, Tick(a) PROVE Registration'
  BY <1>0, <1>13, ConstantsAssumption, KeyOfType
  DEF Tick, mgrVars, sessVars, downVars
<1>14. ASSUME NEW a \in Sessions, NEW res \in SaveResults, Autosave(a, res)
       PROVE  Registration'
  BY <1>0, <1>14, ConstantsAssumption, KeyOfType
  DEF Autosave, mgrVars, sessVars, downVars
<1>15. ASSUME NEW a \in Sessions, StopFlush(a) PROVE Registration'
  BY <1>0, <1>15, ConstantsAssumption, KeyOfType
  DEF StopFlush, mgrVars, sessVars, downVars
<1>16. CASE ShutdownBegin
  BY <1>0, <1>16, ConstantsAssumption, KeyOfType
  DEF ShutdownBegin, Copied, sessVars, actorVars
<1>17. ASSUME NEW a \in Sessions, ShutdownKick(a) PROVE Registration'
  <2>1. /\ UNCHANGED <<mu, registry, pc, actorOf, astat, todo>>
        /\ sd = "kick" /\ sd' = "lock" /\ a \in todo /\ cur' = a
    BY <1>17 DEF ShutdownKick, mgrVars
  <2>2. owner'[a] = None
    <3>1. CASE astat[a] = "done" BY <1>0, <1>17, <3>1 DEF ShutdownKick, Ownership
    <3>2. CASE astat[a] # "done" BY <1>0, <1>17, <3>2 DEF ShutdownKick
    <3>3. QED BY <3>1, <3>2
  <2>3. QED BY <1>0, <2>1, <2>2
<1>18. CASE ShutdownStop
  BY <1>0, <1>18, ConstantsAssumption, KeyOfType
  DEF ShutdownStop, Stopped, sessVars
<1>19. CASE ShutdownNext
  BY <1>0, <1>19, ConstantsAssumption, KeyOfType
  DEF ShutdownNext, Forget, Unlock, sessVars, actorVars
<1>20. CASE ShutdownDone
  BY <1>0, <1>20, ConstantsAssumption, KeyOfType
  DEF ShutdownDone, mgrVars, sessVars, actorVars
<1>21. CASE ShutdownTimeout
  BY <1>0, <1>21, ConstantsAssumption, KeyOfType
  DEF ShutdownTimeout, mgrVars, sessVars, actorVars
<1>22. CASE Reboot
  BY <1>0, <1>22, ConstantsAssumption, KeyOfType
  DEF Reboot
<1>23. CASE UNCHANGED vars
  BY <1>0, <1>23 DEF vars, mgrVars, sessVars, actorVars, downVars
<1>24. QED
  BY <1>1, <1>2, <1>3, <1>4, <1>5, <1>6, <1>7, <1>8, <1>9, <1>10, <1>11,
     <1>12, <1>13, <1>14, <1>15, <1>16, <1>17, <1>18, <1>19, <1>20, <1>21,
     <1>22, <1>23
  DEF Next, AttachStep, DetachStep, ActorStep, ShutdownStep, Crash, Exit, Quiet

\* Every step keeps attached terminals open, and replaced ones told.
LEMMA OwnershipNext == IInv /\ [Next]_vars => Ownership'
<1> SUFFICES ASSUME IInv, [Next]_vars PROVE Ownership'
  OBVIOUS
<1>0. TypeOK /\ Locking /\ Handles /\ Registration /\ Ownership BY DEF IInv
<1> USE DEF TypeOK, PCs, Ownership, ReplacedTerminalIsTold
<1>1. ASSUME NEW s \in Sessions, AttachBegin(s) PROVE Ownership'
  BY <1>0, <1>1, ConstantsAssumption
  DEF AttachBegin, Goto, actorVars, downVars
<1>2. ASSUME NEW s \in Sessions, AttachGuest(s) PROVE Ownership'
  <2>1. CASE Registered(KeyOf[s])
    BY <1>0, <1>2, <2>1 DEF AttachGuest, Goto, actorVars
  <2>2. CASE ~Registered(KeyOf[s])
    <3>1. /\ pc[s] = "attach"
          /\ pc' = [pc EXCEPT ![s] = "live"]
          /\ astat' = [astat EXCEPT ![s] = "running"]
          /\ owner' = [owner EXCEPT ![s] = s]
          /\ actorOf' = [actorOf EXCEPT ![s] = s]
          /\ UNCHANGED <<closed, notice>>
      BY <1>2, <2>2 DEF AttachGuest, NewActor, Goto
    <3>2. astat[s] = "none" /\ ~closed[s] BY <1>0, <3>1 DEF Handles
    <3>3. \A t \in Sessions : pc[t] = "live" => actorOf[t] \in Sessions \ {s}
      BY <1>0, <3>2 DEF Handles
    <3>4. QED BY <1>0, <3>1, <3>2, <3>3, ConstantsAssumption
  <2>3. QED BY <2>1, <2>2
<1>3. ASSUME NEW s \in Sessions, AttachFail(s) PROVE Ownership'
  BY <1>0, <1>3, ConstantsAssumption
  DEF AttachFail, Goto, Unlock, actorVars, downVars
<1>4. ASSUME NEW s \in Sessions, AttachLoad(s) PROVE Ownership'
  <2>1. /\ pc[s] = "attach"
        /\ pc' = [pc EXCEPT ![s] = "bind"]
        /\ astat' = [astat EXCEPT ![s] = "running"]
        /\ owner' = [owner EXCEPT ![s] = None]
        /\ actorOf' = [actorOf EXCEPT ![s] = s]
        /\ UNCHANGED <<closed, notice>>
    BY <1>4 DEF AttachLoad, NewActor, Goto
  <2>2. astat[s] = "none" BY <1>0, <2>1 DEF Handles
  <2>3. \A t \in Sessions : pc[t] = "live" => actorOf[t] \in Sessions \ {s}
    BY <1>0, <2>2 DEF Handles
  <2>4. QED BY <1>0, <2>1, <2>2, <2>3, ConstantsAssumption
<1>5. ASSUME NEW s \in Sessions, AttachFound(s) PROVE Ownership'
  BY <1>0, <1>5, ConstantsAssumption
  DEF AttachFound, Goto, Registered, mgrVars, actorVars, downVars
<1>6. ASSUME NEW s \in Sessions, AttachBind(s) PROVE Ownership'
  <2> DEFINE a == actorOf[s]
  <2>1. pc[s] = "bind" /\ a \in Sessions /\ UNCHANGED <<actorOf, astat>>
    BY <1>0, <1>6, ActorOfType DEF AttachBind
  <2>2. CASE astat[a] = "done" \/ Busy(a)
    <3>1. pc' = [pc EXCEPT ![s] = "gone"] /\ UNCHANGED <<owner, closed, notice>>
      BY <1>6, <2>2 DEF AttachBind, Goto
    <3>2. QED BY <1>0, <2>1, <3>1
  <2>3. CASE astat[a] # "done" /\ ~Busy(a)
    <3>1. /\ DeliverKick(owner[a], "boarded")
          /\ owner' = [owner EXCEPT ![a] = s]
          /\ pc' = [pc EXCEPT ![s] = "live"]
      BY <1>6, <2>3 DEF AttachBind, Goto
    <3>2. astat[a] = "running" BY <1>0, <2>1, <2>3, FoundIsRunning
    <3>3. ~closed[s] /\ s # owner[a]
      <4>1. ~closed[s] BY <1>0, <2>1 DEF Handles
      <4>2. s # owner[a] BY <1>0, <2>1, ConstantsAssumption
      <4>3. QED BY <4>1, <4>2
    <3>4. \A t \in Sessions : t # owner[a] =>
             closed'[t] = closed[t] /\ notice'[t] = notice[t]
      BY <1>0, <3>1, DeliverKickFacts
    <3>5. owner[a] # None => closed'[owner[a]] /\ notice'[owner[a]] = "boarded"
      BY <1>0, <2>1, <3>1, DeliverKickFacts
    <3>6. \A b \in Sessions : b # a /\ owner[b] # None => owner[b] # owner[a]
      BY <1>0, <2>1
    <3>7. ASSUME NEW b \in Sessions, owner'[b] # None
          PROVE  /\ astat'[b] = "running"
                 /\ actorOf'[owner'[b]] = b
                 /\ pc'[owner'[b]] \in {"live", "detach", "detaching"}
                 /\ ~closed'[owner'[b]]
      <4>1. CASE b = a
        BY <1>0, <2>1, <3>1, <3>2, <3>3, <3>4, <4>1
      <4>2. CASE b # a
        BY <1>0, <2>1, <3>1, <3>4, <3>6, <3>7, <4>2
      <4>3. QED BY <4>1, <4>2
    <3>8. ASSUME NEW t \in Sessions, pc'[t] = "live", owner'[actorOf'[t]] # t
          PROVE  closed'[t] /\ notice'[t] # "none"
      <4>1. t # s BY <1>0, <2>1, <3>1, <3>8
      <4>2. pc[t] = "live" /\ actorOf[t] \in Sessions
        BY <1>0, <2>1, <3>1, <3>8, <4>1, ActorOfType
      <4>3. CASE t = owner[a] BY <3>5, <4>3, ConstantsAssumption
      <4>4. CASE t # owner[a]
        BY <1>0, <2>1, <3>1, <3>4, <3>8, <4>2, <4>4
      <4>5. QED BY <4>3, <4>4
    <3>9. QED BY <3>7, <3>8
  <2>4. QED BY <2>2, <2>3
<1>7. ASSUME NEW s \in Sessions, Intent(s) PROVE Ownership'
  BY <1>0, <1>7, ConstantsAssumption
  DEF Intent, mgrVars, sessVars, downVars
<1>8. ASSUME NEW s \in Sessions, Leave(s) PROVE Ownership'
  BY <1>0, <1>8, ConstantsAssumption
  DEF Leave, Goto, Dismissed, mgrVars, actorVars, downVars
<1>9. ASSUME NEW s \in Sessions, DetachBegin(s) PROVE Ownership'
  BY <1>0, <1>9, ConstantsAssumption
  DEF DetachBegin, Goto, actorVars, downVars
<1>10. ASSUME NEW s \in Sessions, DetachDo(s) PROVE Ownership'
  <2> DEFINE a == actorOf[s]
  <2>1. /\ pc[s] = "detaching" /\ a \in Sessions
        /\ UNCHANGED <<actorOf, closed, notice>>
    BY <1>0, <1>10, ActorOfType DEF DetachDo
  <2>2. \A b \in Sessions : owner[b] = s => b = a
    BY <1>0, <2>1, ConstantsAssumption
  <2>3. CASE astat[a] = "done"
    <3>1. UNCHANGED <<astat, owner>> /\ pc' = [pc EXCEPT ![s] = "close"]
      BY <1>10, <2>3 DEF DetachDo, Goto
    <3>2. QED BY <1>0, <2>1, <2>2, <2>3, <3>1
  <2>4. CASE astat[a] # "done"
    <3>1. owner' = [owner EXCEPT ![a] = Released(a, s)]
      BY <1>10, <2>4, DetachDoParts
    <3>2. \/ /\ Released(a, s) = None
             /\ astat' = [astat EXCEPT ![a] = "stopping"]
             /\ pc' = [pc EXCEPT ![s] = "stopping"]
          \/ UNCHANGED astat /\ pc' = [pc EXCEPT ![s] = "close"]
      BY <1>10, <2>4, DetachDoParts DEF Goto
    <3>3. QED BY <1>0, <2>1, <2>2, <3>1, <3>2, ConstantsAssumption DEF Released
  <2>5. QED BY <2>3, <2>4
<1>11. ASSUME NEW s \in Sessions, DetachEnd(s) PROVE Ownership'
  BY <1>0, <1>11, ConstantsAssumption
  DEF DetachEnd, Forget, Goto, Unlock, actorVars, downVars
<1>12. ASSUME NEW s \in Sessions, CloseStream(s) PROVE Ownership'
  <2>1. /\ pc[s] = "close" /\ DeliverKick(s, "none")
        /\ pc' = [pc EXCEPT ![s] = "gone"]
        /\ UNCHANGED <<actorOf, astat, owner>>
    BY <1>12 DEF CloseStream, Goto, actorVars
  <2>2. \A t \in Sessions : t # s =>
             closed'[t] = closed[t] /\ notice'[t] = notice[t]
    BY <1>0, <2>1, DeliverKickFacts
  <2>3. \A b \in Sessions : owner[b] # s
    BY <1>0, <2>1, ConstantsAssumption
  <2>4. QED BY <1>0, <2>1, <2>2, <2>3
<1>13. ASSUME NEW a \in Sessions, Tick(a) PROVE Ownership'
  BY <1>0, <1>13, ConstantsAssumption
  DEF Tick, mgrVars, sessVars, downVars
<1>14. ASSUME NEW a \in Sessions, NEW res \in SaveResults, Autosave(a, res)
       PROVE  Ownership'
  BY <1>0, <1>14, ConstantsAssumption
  DEF Autosave, mgrVars, sessVars, downVars
<1>15. ASSUME NEW a \in Sessions, StopFlush(a) PROVE Ownership'
  BY <1>0, <1>15, ConstantsAssumption
  DEF StopFlush, mgrVars, sessVars, downVars
<1>16. CASE ShutdownBegin
  BY <1>0, <1>16, ConstantsAssumption
  DEF ShutdownBegin, Copied, sessVars, actorVars
<1>17. ASSUME NEW a \in Sessions, ShutdownKick(a) PROVE Ownership'
  <2>1. UNCHANGED <<pc, actorOf, astat>>
    BY <1>17 DEF ShutdownKick
  <2>2. CASE astat[a] = "done"
    BY <1>0, <1>17, <2>1, <2>2 DEF ShutdownKick
  <2>3. CASE astat[a] # "done"
    <3>1. PICK why \in {"saved", "discarded"} : DeliverKick(owner[a], why)
      BY <1>17, <2>3 DEF ShutdownKick
    <3>2. owner' = [owner EXCEPT ![a] = None]
      BY <1>17, <2>3 DEF ShutdownKick
    <3>3. \A t \in Sessions : t # owner[a] =>
             closed'[t] = closed[t] /\ notice'[t] = notice[t]
      BY <1>0, <3>1, DeliverKickFacts
    <3>4. owner[a] # None => closed'[owner[a]] /\ notice'[owner[a]] # "none"
      BY <1>0, <3>1, DeliverKickFacts
    <3>5. \A b \in Sessions : b # a /\ owner[b] # None => owner[b] # owner[a]
      BY <1>0
    <3>6. ASSUME NEW b \in Sessions, owner'[b] # None
          PROVE  /\ astat'[b] = "running"
                 /\ actorOf'[owner'[b]] = b
                 /\ pc'[owner'[b]] \in {"live", "detach", "detaching"}
                 /\ ~closed'[owner'[b]]
      BY <1>0, <2>1, <3>2, <3>3, <3>5, <3>6
    <3>7. ASSUME NEW t \in Sessions, pc'[t] = "live", owner'[actorOf'[t]] # t
          PROVE  closed'[t] /\ notice'[t] # "none"
      <4>1. actorOf[t] \in Sessions BY <1>0, <2>1, <3>7, ActorOfType
      <4>2. CASE t = owner[a] BY <3>4, <4>2, ConstantsAssumption
      <4>3. CASE t # owner[a] BY <1>0, <2>1, <3>2, <3>3, <3>7, <4>1, <4>3
      <4>4. QED BY <4>2, <4>3
    <3>8. QED BY <3>6, <3>7
  <2>4. QED BY <2>2, <2>3
<1>18. CASE ShutdownStop
  BY <1>0, <1>18, ConstantsAssumption DEF ShutdownStop, Stopped, sessVars, Registration
<1>19. CASE ShutdownNext
  BY <1>0, <1>19, ConstantsAssumption
  DEF ShutdownNext, Forget, Unlock, sessVars, actorVars
<1>20. CASE ShutdownDone
  BY <1>0, <1>20, ConstantsAssumption
  DEF ShutdownDone, mgrVars, sessVars, actorVars
<1>21. CASE ShutdownTimeout
  BY <1>0, <1>21, ConstantsAssumption
  DEF ShutdownTimeout, mgrVars, sessVars, actorVars
<1>22. CASE Reboot
  BY <1>0, <1>22, ConstantsAssumption
  DEF Reboot
<1>23. CASE UNCHANGED vars
  BY <1>0, <1>23 DEF vars, mgrVars, sessVars, actorVars, downVars
<1>24. QED
  BY <1>1, <1>2, <1>3, <1>4, <1>5, <1>6, <1>7, <1>8, <1>9, <1>10, <1>11,
     <1>12, <1>13, <1>14, <1>15, <1>16, <1>17, <1>18, <1>19, <1>20, <1>21,
     <1>22, <1>23
  DEF Next, AttachStep, DetachStep, ActorStep, ShutdownStep, Crash, Exit, Quiet

\* A step that changes no state, no row and no actor.
LEMMA StandsForward ==
  ASSUME TypeOK, Ahead, UNCHANGED <<astat, mem, disk>>
  PROVE  Ahead' /\ Forward
<1>1. Forward BY DEF Forward, TypeOK, State
<1>2. QED BY <1>1 DEF Ahead, Alive, Keyed

\* Opening a save nobody has open: its row is read, or made.
LEMMA OpenForward ==
  ASSUME TypeOK, Registration, Ahead, NEW s \in Sessions,
         ~Registered(KeyOf[s]),
         disk' = [disk EXCEPT ![KeyOf[s]] = RowOrNew(KeyOf[s])],
         \/ UNCHANGED <<astat, mem>>
         \/ /\ astat' = [astat EXCEPT ![s] = "running"]
            /\ mem' = [mem EXCEPT ![s] = RowOrNew(KeyOf[s])]
  PROVE  Ahead' /\ Forward
<1> DEFINE row == RowOrNew(KeyOf[s])
<1>1. KeyOf[s] \in Keys BY KeyOfType
<1>2. row \in State /\ row.ver \in Nat /\ row.ver >= disk[KeyOf[s]].ver
  BY <1>1, RowOrNewFacts DEF TypeOK, State
<1>3. disk'[KeyOf[s]] = row /\ \A k \in Keys : k # KeyOf[s] => disk'[k] = disk[k]
  BY <1>1 DEF TypeOK
<1>4. \A k \in Keys : disk[k].ver \in Nat BY DEF TypeOK, State
<1>5. Forward BY <1>2, <1>3, <1>4 DEF Forward
<1>6. \A b \in Sessions : Alive(b) => KeyOf[b] # KeyOf[s]
  BY ConstantsAssumption DEF Registration, Registered
<1>7. ASSUME NEW b \in Sessions, Alive(b)', Keyed(b)
      PROVE  mem'[b].ver >= disk'[KeyOf[b]].ver
  <2>1. KeyOf[b] \in Keys BY KeyOfType
  <2>2. CASE Alive(b) /\ mem'[b] = mem[b]
    BY <1>3, <1>6, <1>7, <2>1, <2>2 DEF Ahead
  <2>3. CASE b = s /\ mem'[s] = row
    BY <1>2, <1>3, <2>3
  <2>4. QED BY <1>7, <2>2, <2>3 DEF Alive, TypeOK
<1>8. QED BY <1>5, <1>7 DEF Ahead, Keyed


\* Every step keeps actors ahead of their rows, and takes no row back.
LEMMA AheadNext == IInv /\ [Next]_vars => Ahead' /\ Forward
<1> SUFFICES ASSUME IInv, [Next]_vars PROVE Ahead' /\ Forward
  OBVIOUS
<1>0. TypeOK /\ Locking /\ Handles /\ Registration /\ Ownership /\ Ahead BY DEF IInv
<1>1. ASSUME NEW s \in Sessions, AttachBegin(s) PROVE Ahead' /\ Forward
  <2>1. UNCHANGED <<astat, mem, disk>> BY <1>1 DEF AttachBegin, actorVars
  <2>2. QED BY <1>0, <2>1, StandsForward
<1>2. ASSUME NEW s \in Sessions, AttachGuest(s) PROVE Ahead' /\ Forward
  <2>1. CASE Registered(KeyOf[s])
    <3>1. UNCHANGED <<astat, mem, disk>> BY <1>2, <2>1 DEF AttachGuest, actorVars
    <3>2. QED BY <1>0, <3>1, StandsForward
  <2>2. CASE ~Registered(KeyOf[s])
    <3>1. /\ astat' = [astat EXCEPT ![s] = "running"]
          /\ mem' = [mem EXCEPT ![s] = NewState]
          /\ disk' = disk
      BY <1>2, <2>2 DEF AttachGuest, NewActor
    <3>2. ~Keyed(s) BY <1>2 DEF AttachGuest
    <3>3. Forward BY <1>0, <3>1 DEF Forward, TypeOK, State
    <3>4. Ahead' BY <1>0, <3>1, <3>2 DEF Ahead, Alive, Keyed, TypeOK
    <3>5. QED BY <3>3, <3>4
  <2>3. QED BY <2>1, <2>2
<1>3. ASSUME NEW s \in Sessions, AttachFail(s) PROVE Ahead' /\ Forward
  <2>1. UNCHANGED <<astat, mem>> BY <1>3 DEF AttachFail, actorVars
  <2>2. CASE disk' = disk BY <1>0, <2>1, <2>2, StandsForward
  <2>3. CASE /\ ~Registered(KeyOf[s])
             /\ disk' = [disk EXCEPT ![KeyOf[s]] = RowOrNew(KeyOf[s])]
    BY <1>0, <2>1, <2>3, OpenForward
  <2>4. QED BY <1>3, <2>2, <2>3 DEF AttachFail
<1>4. ASSUME NEW s \in Sessions, AttachLoad(s) PROVE Ahead' /\ Forward
  BY <1>0, <1>4, OpenForward DEF AttachLoad, NewActor
<1>5. ASSUME NEW s \in Sessions, AttachFound(s) PROVE Ahead' /\ Forward
  <2>1. UNCHANGED <<astat, mem, disk>> BY <1>5 DEF AttachFound, actorVars
  <2>2. QED BY <1>0, <2>1, StandsForward
<1>6. ASSUME NEW s \in Sessions, AttachBind(s) PROVE Ahead' /\ Forward
  <2>1. UNCHANGED <<astat, mem, disk>> BY <1>6 DEF AttachBind
  <2>2. QED BY <1>0, <2>1, StandsForward
<1>7. ASSUME NEW s \in Sessions, Intent(s) PROVE Ahead' /\ Forward
  <2> DEFINE a == actorOf[s]
  <2>1. PICK m \in AfterIntent(mem[a]) : mem' = [mem EXCEPT ![a] = m]
    BY <1>7 DEF Intent
  <2>2. a \in Sessions /\ Alive(a) /\ UNCHANGED <<astat, disk>>
    BY <1>0, <1>7, ActorOfType DEF Intent
  <2>3. m \in State /\ m.ver >= mem[a].ver
    BY <1>0, <2>1, <2>2, AfterIntentFacts DEF TypeOK
  <2>4. QED BY <1>0, <2>1, <2>2, <2>3, PersistForward DEF Alive
<1>8. ASSUME NEW s \in Sessions, Leave(s) PROVE Ahead' /\ Forward
  <2>1. UNCHANGED <<astat, mem, disk>> BY <1>8 DEF Leave, actorVars
  <2>2. QED BY <1>0, <2>1, StandsForward
<1>9. ASSUME NEW s \in Sessions, DetachBegin(s) PROVE Ahead' /\ Forward
  <2>1. UNCHANGED <<astat, mem, disk>> BY <1>9 DEF DetachBegin, actorVars
  <2>2. QED BY <1>0, <2>1, StandsForward
<1>10. ASSUME NEW s \in Sessions, DetachDo(s) PROVE Ahead' /\ Forward
  <2> DEFINE a == actorOf[s]
             w == Released(a, s)
             abandons == owner[a] = s /\ Keyed(a) /\ InRun(mem[a])
             d == dirty[a] \/ abandons
  <2>1. a \in Sessions /\ astat[a] # "none"
    BY <1>0, <1>10, ActorOfType DEF DetachDo, Handles
  <2>2. CASE astat[a] = "done"
    <3>1. UNCHANGED <<astat, mem, disk>> BY <1>10, <2>2 DEF DetachDo
    <3>2. QED BY <1>0, <3>1, StandsForward
  <2>3. CASE astat[a] # "done"
    <3>1. PICK m \in IF abandons THEN Resolved(mem[a]) ELSE {mem[a]},
               res \in SaveResults :
            /\ mem' = [mem EXCEPT ![a] = m]
            /\ disk' = Written(a, m, d, w, res)
            /\ \/ astat' = [astat EXCEPT ![a] = "stopping"]
               \/ astat' = astat
      BY <1>10, <2>3, DetachDoParts
    <3>2. Alive(a) BY <1>0, <2>1, <2>3 DEF Alive, TypeOK
    <3>3. mem[a] \in State BY <1>0, <2>1 DEF TypeOK
    <3>4. m \in State /\ m.ver >= mem[a].ver
      BY <3>1, <3>3, ResolvedFacts DEF State
    <3>5. \A b \in Sessions : Alive(b)' => Alive(b)
      BY <1>0, <3>1, <3>2 DEF Alive, TypeOK
    <3>6. QED BY <1>0, <2>1, <3>1, <3>2, <3>4, <3>5, PersistForward
  <2>4. QED BY <2>2, <2>3
<1>11. ASSUME NEW s \in Sessions, DetachEnd(s) PROVE Ahead' /\ Forward
  <2>1. UNCHANGED <<astat, mem, disk>> BY <1>11 DEF DetachEnd, actorVars
  <2>2. QED BY <1>0, <2>1, StandsForward
<1>12. ASSUME NEW s \in Sessions, CloseStream(s) PROVE Ahead' /\ Forward
  <2>1. UNCHANGED <<astat, mem, disk>> BY <1>12 DEF CloseStream, actorVars
  <2>2. QED BY <1>0, <2>1, StandsForward
<1>13. ASSUME NEW a \in Sessions, Tick(a) PROVE Ahead' /\ Forward
  <2>1. PICK m \in AfterTick(mem[a]) : mem' = [mem EXCEPT ![a] = m]
    BY <1>13 DEF Tick
  <2>2. Alive(a) /\ UNCHANGED <<astat, disk>> BY <1>13 DEF Tick
  <2>3. m \in State /\ m.ver >= mem[a].ver
    BY <1>0, <2>1, AfterTickFacts DEF TypeOK
  <2>4. QED BY <1>0, <2>1, <2>2, <2>3, PersistForward DEF Alive
<1>14. ASSUME NEW a \in Sessions, NEW res \in SaveResults, Autosave(a, res)
       PROVE  Ahead' /\ Forward
  <2>1. /\ Alive(a) /\ UNCHANGED <<astat, mem>>
        /\ disk' = Written(a, mem[a], dirty[a], owner[a], res)
    BY <1>14 DEF Autosave
  <2>2. mem[a] \in State /\ mem[a].ver >= mem[a].ver
    BY <1>0 DEF TypeOK, State
  <2>3. mem' = [mem EXCEPT ![a] = mem[a]] BY <1>0, <2>1 DEF TypeOK
  <2>4. QED BY <1>0, <2>1, <2>2, <2>3, PersistForward DEF Alive
<1>15. ASSUME NEW a \in Sessions, StopFlush(a) PROVE Ahead' /\ Forward
  <2> DEFINE d == dirty[a] \/ (Keyed(a) /\ InRun(mem[a]))
  <2>1. PICK m \in IF Keyed(a) THEN Resolved(mem[a]) ELSE {mem[a]},
             res \in SaveResults :
          /\ mem' = [mem EXCEPT ![a] = m]
          /\ disk' = Written(a, m, d, owner[a], res)
    BY <1>15 DEF StopFlush
  <2>2. Alive(a) /\ astat' = [astat EXCEPT ![a] = "done"]
    BY <1>15 DEF StopFlush, Alive
  <2>3. mem[a] \in State BY <1>0 DEF TypeOK
  <2>4. m \in State /\ m.ver >= mem[a].ver
    BY <2>1, <2>3, ResolvedFacts DEF State
  <2>5. \A b \in Sessions : Alive(b)' => Alive(b)
    BY <1>0, <2>2 DEF Alive, TypeOK
  <2>6. QED BY <1>0, <2>1, <2>2, <2>4, <2>5, PersistForward
<1>16. CASE ShutdownBegin
  <2>1. UNCHANGED <<astat, mem, disk>> BY <1>16 DEF ShutdownBegin, actorVars
  <2>2. QED BY <1>0, <2>1, StandsForward
<1>17. ASSUME NEW a \in Sessions, ShutdownKick(a) PROVE Ahead' /\ Forward
  <2>1. UNCHANGED <<astat, disk>> BY <1>17 DEF ShutdownKick
  <2>2. CASE astat[a] = "done"
    <3>1. UNCHANGED mem BY <1>17, <2>2 DEF ShutdownKick
    <3>2. QED BY <1>0, <2>1, <3>1, StandsForward
  <2>3. CASE astat[a] # "done"
    <3> DEFINE abandons == owner[a] # None /\ Keyed(a) /\ InRun(mem[a])
    <3>1. PICK m \in IF abandons THEN Resolved(mem[a]) ELSE {mem[a]} :
            mem' = [mem EXCEPT ![a] = m]
      BY <1>17, <2>3 DEF ShutdownKick
    <3>2. Alive(a) BY <1>0, <1>17, <2>3 DEF Alive, TypeOK, Registration, ShutdownKick
    <3>3. mem[a] \in State BY <1>0 DEF TypeOK
    <3>4. m \in State /\ m.ver >= mem[a].ver
      BY <3>1, <3>3, ResolvedFacts DEF State
    <3>5. QED BY <1>0, <2>1, <3>1, <3>2, <3>4, PersistForward DEF Alive
  <2>4. QED BY <2>2, <2>3
<1>18. CASE ShutdownStop
  <2>1. cur \in Sessions /\ astat[cur] # "none"
    BY <1>0, <1>18 DEF ShutdownStop, Registration, TypeOK
  <2>2. UNCHANGED <<mem, disk>> /\ astat' = Stopped(cur) BY <1>18 DEF ShutdownStop
  <2>3. \A b \in Sessions : Alive(b)' => Alive(b)
    BY <1>0, <2>1, <2>2 DEF Stopped, Alive, TypeOK
  <2>4. Forward BY <1>0, <2>2 DEF Forward, TypeOK, State
  <2>5. QED BY <1>0, <2>2, <2>3, <2>4 DEF Ahead, Keyed
<1>19. CASE ShutdownNext
  <2>1. UNCHANGED <<astat, mem, disk>> BY <1>19 DEF ShutdownNext, actorVars
  <2>2. QED BY <1>0, <2>1, StandsForward
<1>20. CASE ShutdownDone
  <2>1. UNCHANGED <<astat, mem, disk>> BY <1>20 DEF ShutdownDone, actorVars
  <2>2. QED BY <1>0, <2>1, StandsForward
<1>21. CASE ShutdownTimeout
  <2>1. UNCHANGED <<astat, mem, disk>> BY <1>21 DEF ShutdownTimeout, actorVars
  <2>2. QED BY <1>0, <2>1, StandsForward
<1>22. CASE Reboot
  <2>1. \A b \in Sessions : ~Alive(b)' BY <1>22 DEF Reboot, Alive
  <2>2. disk' = disk BY <1>22 DEF Reboot
  <2>3. Forward BY <1>0, <2>2 DEF Forward, TypeOK, State
  <2>4. QED BY <2>1, <2>3 DEF Ahead
<1>23. CASE UNCHANGED vars
  BY <1>0, <1>23, StandsForward DEF vars, actorVars
<1>24. QED
  BY <1>1, <1>2, <1>3, <1>4, <1>5, <1>6, <1>7, <1>8, <1>9, <1>10, <1>11,
     <1>12, <1>13, <1>14, <1>15, <1>16, <1>17, <1>18, <1>19, <1>20, <1>21,
     <1>22, <1>23
  DEF Next, AttachStep, DetachStep, ActorStep, ShutdownStep, Crash, Exit, Quiet

-----------------------------------------------------------------------------
(* The theorems. *)

\* The inductive invariant holds at the start.
LEMMA IInvInit == Init => IInv
<1> SUFFICES ASSUME Init PROVE IInv
  OBVIOUS
<1>1. TypeOK BY TypeInit
<1>2. Locking BY ConstantsAssumption DEF Init, Locking
<1>3. Handles BY DEF Init, Handles
<1>4. Registration BY DEF Init, Registration, Alive
<1>5. Ownership BY DEF Init, Ownership, ReplacedTerminalIsTold
<1>6. Ahead BY DEF Init, Ahead, Alive
<1>7. QED BY <1>1, <1>2, <1>3, <1>4, <1>5, <1>6 DEF IInv

\* It is kept by every step.
LEMMA IInvNext == IInv /\ [Next]_vars => IInv'
  BY TypeNext, LockingNext, HandlesNext, RegistrationNext, OwnershipNext,
     AheadNext
  DEF IInv

\* So it always holds.
LEMMA IInvAlways == Spec => []IInv
  BY IInvInit, IInvNext, PTL DEF Spec

\* Every variable of the session layer keeps its type.
THEOREM TypeCorrect == Spec => []TypeOK
<1>1. IInv => TypeOK BY DEF IInv
<1>2. QED BY <1>1, IInvAlways, PTL

\* However many terminals, takeovers, failed saves, shutdowns and crashes, a
\* save never has two goroutines that can write it (manager.go Attach,
\* detach, stopActorLocked).
THEOREM OneWriterPerSave == Spec => []SingleWriter
<1>1. IInv => SingleWriter BY DEF IInv, Registration, SingleWriter
<1>2. QED BY <1>1, IInvAlways, PTL

\* An actor never pushes a snapshot into a closed channel (actor.go tick,
\* session.go deliverKick).
THEOREM NoSendOnClosed == Spec => []OwnerStreamOpen
<1>1. IInv => OwnerStreamOpen BY DEF IInv, Ownership, OwnerStreamOpen
<1>2. QED BY <1>1, IInvAlways, PTL

\* A terminal that lost its save has been told why (manager.go Attach and
\* Shutdown kick before they let go).
THEOREM ReplacedAreTold == Spec => []ReplacedTerminalIsTold
<1>1. IInv => ReplacedTerminalIsTold BY DEF IInv, Ownership
<1>2. QED BY <1>1, IInvAlways, PTL

\* A stored save is never replaced by an older state of it (actor.go persist,
\* store.go SaveState).
THEOREM SavesNeverGoBack == Spec => NoRollback
<1>1. IInv /\ [Next]_vars => [Forward]_vars BY AheadNext
<1>2. Spec => [][Forward]_vars BY <1>1, IInvAlways, PTL DEF Spec
<1>3. [][Forward]_vars => NoRollback BY PTL DEF NoRollback, Forward
<1>4. QED BY <1>2, <1>3, PTL
=============================================================================
