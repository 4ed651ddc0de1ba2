------------------------- MODULE SaveDurabilityProofs -------------------------
(***************************************************************************)
(* SaveLifecycle implements DurableSave, for any sets of sessions, saves   *)
(* and guests; and what is owed to those who leave, below.                 *)
(*                                                                         *)
(* Beyond IInv the proof needs to know what a clean actor is: what it      *)
(* holds is what is stored, and an actor that is on its way out outside a  *)
(* shutdown is clean.                                                      *)
(***************************************************************************)
EXTENDS SaveDurability, SaveLifecycleProofs

\* No run is ever stored, and a row that was written holds a change.
Rows == \A k \in Keys : ~InRun(disk[k]) /\ (disk[k].ver = 0 => disk[k] = NoRow)

\* A live actor of a save has a state; unless it is dirty, the row is that
\* state, and without a terminal no run is on.
Clean ==
    \A a \in Sessions : Alive(a) /\ Keyed(a) =>
        /\ mem[a].ver # 0
        /\ ~dirty[a] => /\ disk[KeyOf[a]].ver = mem[a].ver
                        /\ owner[a] = None => ~InRun(mem[a])
        /\ astat[a] = "stopping" /\ ~closing => ~dirty[a]

JInv == IInv /\ Rows /\ Clean

-----------------------------------------------------------------------------
(* The invariant. *)

\* A row that is opened holds a change, is not in a run, and is the row.
LEMMA OpenedRow ==
  ASSUME TypeOK, Rows, NEW k \in Keys
  PROVE  /\ ~InRun(RowOrNew(k))
         /\ RowOrNew(k).ver = IF disk[k].ver = 0 THEN 1 ELSE disk[k].ver
         /\ RowOrNew(k).ver # 0
<1>1. disk[k] \in State /\ disk[k].ver \in Nat BY DEF TypeOK, State
<1>2. ~InRun(NewState) /\ NewState.ver = 1 /\ NoRow.ver = 0
  BY DEF InRun, NewState, NoRow
<1>3. QED BY <1>1, <1>2 DEF Rows, RowOrNew

\* What is written is not in a run.
LEMMA EncodedIsOut ==
  ASSUME NEW m \in State
  PROVE  ~InRun(Encode(m)) /\ Encode(m).ver = m.ver
  BY DEF Encode, InRun, State

\* persist keeps the rows as they should be, and leaves the actor clean only
\* with its state stored and no abandoned run.
LEMMA PersistCleans ==
  ASSUME TypeOK, Rows, NEW a \in Sessions, NEW m \in State, m.ver # 0,
         NEW d \in BOOLEAN, NEW w, NEW res, disk' = Written(a, m, d, w, res)
  PROVE  /\ Rows'
         /\ Keyed(a) /\ d /\ ~StillDirty(a, m, d, w, res)
               => disk'[KeyOf[a]].ver = m.ver /\ (w = None => ~InRun(m))
         /\ ~d => disk' = disk /\ ~StillDirty(a, m, d, w, res)
         /\ \A k \in Keys : k # KeyOf[a] => disk'[k] = disk[k]
<1>1. KeyOf[a] \in Keys BY KeyOfType
<1>2. ~InRun(Encode(m)) /\ Encode(m).ver = m.ver BY EncodedIsOut
<1>3. disk' \in {disk, [disk EXCEPT ![KeyOf[a]] = Encode(m)]} BY DEF Written
<1>4. Rows' BY <1>1, <1>2, <1>3 DEF Rows, TypeOK
<1>5. ASSUME Keyed(a), d, ~StillDirty(a, m, d, w, res)
      PROVE  disk'[KeyOf[a]].ver = m.ver /\ (w = None => ~InRun(m))
  <2>1. Attempts(a, m, d, w) /\ res = "ok" BY <1>5 DEF StillDirty
  <2>2. disk' = [disk EXCEPT ![KeyOf[a]] = Encode(m)] BY <2>1 DEF Written
  <2>3. QED BY <1>1, <1>2, <2>1, <2>2 DEF TypeOK, Attempts, Stuck
<1>6. ~d => disk' = disk /\ ~StillDirty(a, m, d, w, res)
  BY DEF Written, StillDirty, Attempts
<1>7. \A k \in Keys : k # KeyOf[a] => disk'[k] = disk[k]
  BY <1>1, <1>3 DEF TypeOK
<1>8. QED BY <1>4, <1>5, <1>6, <1>7

\* Nothing of an actor or of a row changes, except who dies or goes dirty.
LEMMA CleanStands ==
  ASSUME Rows, Clean, UNCHANGED <<astat, mem, dirty, owner, disk>>, closing => closing'
  PROVE  Rows' /\ Clean'
  BY DEF Rows, Clean, Alive, Keyed

\* One actor steps, the others and their rows stand.
LEMMA CleanFrame ==
  ASSUME JInv, NEW a \in Sessions, Alive(a), closing => closing',
         \A b \in Sessions \ {a} : /\ astat'[b] = astat[b] /\ mem'[b] = mem[b]
                                   /\ dirty'[b] = dirty[b] /\ owner'[b] = owner[b],
         \A k \in Keys : k # KeyOf[a] => disk'[k] = disk[k],
         Rows',
         Alive(a)' /\ Keyed(a) =>
            /\ mem'[a].ver # 0
            /\ ~dirty'[a] => /\ disk'[KeyOf[a]].ver = mem'[a].ver
                             /\ owner'[a] = None => ~InRun(mem'[a])
            /\ astat'[a] = "stopping" /\ ~closing' => ~dirty'[a]
  PROVE  Rows' /\ Clean'
<1> SUFFICES ASSUME NEW b \in Sessions, Alive(b)', Keyed(b)
             PROVE  /\ mem'[b].ver # 0
                    /\ ~dirty'[b] => /\ disk'[KeyOf[b]].ver = mem'[b].ver
                                     /\ owner'[b] = None => ~InRun(mem'[b])
                    /\ astat'[b] = "stopping" /\ ~closing' => ~dirty'[b]
  BY DEF Clean, Keyed
<1>1. CASE b = a BY <1>1
<1>2. CASE b # a
  <2>1. Alive(b) BY <1>2 DEF Alive
  <2>2. KeyOf[b] # KeyOf[a] BY <1>2, <2>1, WritersDiffer DEF JInv, IInv
  <2>3. disk'[KeyOf[b]] = disk[KeyOf[b]] BY <2>2, KeyOfType
  <2>4. QED BY <1>2, <2>1, <2>3 DEF JInv, Clean
<1>3. QED BY <1>1, <1>2

-----------------------------------------------------------------------------
(* What a step of the registry is to the abstract save. *)

AbsStep == [Durable!Next]_(Durable!vars)

\* Save k looks the same after the step.
SameSave(k) ==
    /\ disk'[k].ver = disk[k].ver
    /\ WorkingVer(k)' = WorkingVer(k)
    /\ WorkingRun(k)' = WorkingRun(k)

\* Nothing to be seen: a stuttering step.
LEMMA NothingSeen ==
  ASSUME \A k \in Saves : SameSave(k), closing' = closing
  PROVE  AbsStep
<1>1. [k \in Saves |-> disk[k].ver]' = [k \in Saves |-> disk[k].ver]
  BY DEF SameSave
<1>2. [k \in Saves |-> WorkingVer(k)]' = [k \in Saves |-> WorkingVer(k)]
  BY DEF SameSave
<1>3. [k \in Saves |-> WorkingRun(k)]' = [k \in Saves |-> WorkingRun(k)]
  BY DEF SameSave
<1>4. QED BY <1>1, <1>2, <1>3 DEF AbsStep, Durable!vars

\* One save moves, the others look the same.
LEMMA OneSaveMoves ==
  ASSUME NEW k \in Saves, \A j \in Saves \ {k} : SameSave(j), closing' = closing,
         LET found == IF disk[k].ver = 0 THEN 1 ELSE disk[k].ver
         IN \/ /\ WorkingVer(k) = 0 /\ WorkingVer(k)' = 0 /\ ~WorkingRun(k)'
               /\ disk'[k].ver = found
            \/ /\ ~closing /\ WorkingVer(k) = 0 /\ disk'[k].ver = found
               /\ WorkingVer(k)' = found /\ ~WorkingRun(k)'
            \/ /\ WorkingVer(k) # 0 /\ WorkingVer(k)' >= WorkingVer(k)
               /\ disk'[k].ver \in {disk[k].ver, WorkingVer(k)'}
            \/ /\ WorkingVer(k) # 0 /\ WorkingVer(k)' = 0 /\ ~WorkingRun(k)'
               /\ \/ ~WorkingRun(k) /\ disk'[k].ver = WorkingVer(k)
                  \/ closing /\ (disk'[k].ver = disk[k].ver \/ disk'[k].ver >= WorkingVer(k))
  PROVE  AbsStep
<1>1. Durable!Only(k) BY DEF Durable!Only, SameSave
<1>2. \/ Durable!Create(k) \/ Durable!Open(k) \/ Durable!Change(k) \/ Durable!Close(k)
  BY <1>1 DEF Durable!Create, Durable!Open, Durable!Change, Durable!Close, Durable!Found
<1>3. QED BY <1>2 DEF AbsStep, Durable!Next

\* A save whose actor, and whose entry in the registry, stand.
LEMMA CopyStands ==
  ASSUME IInv, NEW k \in Saves, registry'[k] = registry[k], disk'[k].ver = disk[k].ver,
         registry[k] # None =>
            astat'[registry[k]] = astat[registry[k]] /\ mem'[registry[k]] = mem[registry[k]]
  PROVE  SameSave(k)
  BY DEF SameSave, WorkingVer, WorkingRun, HasCopy, Alive, InRun

\* Of the registry and its actors nothing changes that is seen.
LEMMA RegistryStands ==
  ASSUME IInv, UNCHANGED <<registry, astat, mem, disk, closing>>
  PROVE  AbsStep
<1>1. \A k \in Saves : SameSave(k) BY CopyStands
<1>2. QED BY <1>1, NothingSeen

\* One actor steps: only its own save may look different.
LEMMA OthersStand ==
  ASSUME IInv, NEW a \in Sessions, UNCHANGED registry,
         \A b \in Sessions \ {a} : astat'[b] = astat[b] /\ mem'[b] = mem[b],
         \A k \in Keys : k # KeyOf[a] => disk'[k] = disk[k]
  PROVE  \A k \in Saves \ {KeyOf[a]} : SameSave(k)
<1> TAKE k \in Saves \ {KeyOf[a]}
<1>1. k \in Keys BY DEF Keys
<1>2. registry[k] # None => registry[k] \in Sessions \ {a}
  BY <1>1 DEF IInv, TypeOK, Registration
<1>3. QED BY <1>1, <1>2, CopyStands

\* A live actor's state is the working copy of its save.
LEMMA LiveCopy ==
  ASSUME IInv, NEW a \in Sessions, Alive(a)
  PROVE  /\ HasCopy(KeyOf[a]) /\ WorkingVer(KeyOf[a]) = mem[a].ver
         /\ WorkingRun(KeyOf[a]) = InRun(mem[a])
<1>1. registry[KeyOf[a]] = a BY DEF IInv, Registration
<1>2. a # None BY ConstantsAssumption
<1>3. QED BY <1>1, <1>2 DEF HasCopy, WorkingVer, WorkingRun, InRun

\* A live actor goes on and may write its state.
LEMMA ActorMoves ==
  ASSUME IInv, IInv', NEW a \in Sessions, Alive(a), Alive(a)',
         Keyed(a) => mem[a].ver # 0,
         UNCHANGED <<registry, closing>>,
         \A b \in Sessions \ {a} : astat'[b] = astat[b] /\ mem'[b] = mem[b],
         \A k \in Keys : k # KeyOf[a] => disk'[k] = disk[k],
         mem'[a].ver >= mem[a].ver,
         disk'[KeyOf[a]].ver \in {disk[KeyOf[a]].ver, mem'[a].ver}
  PROVE  AbsStep
<1>1. \A k \in Saves \ {KeyOf[a]} : SameSave(k) BY OthersStand
<1>2. CASE ~Keyed(a) BY <1>1, <1>2, NothingSeen DEF Keyed
<1>3. CASE Keyed(a)
  <2>1. WorkingVer(KeyOf[a]) = mem[a].ver BY LiveCopy
  <2>2. WorkingVer(KeyOf[a])' = mem'[a].ver
    <3>1. registry'[KeyOf[a]] = a BY DEF IInv, Registration
    <3>2. a # None BY ConstantsAssumption
    <3>3. QED BY <3>1, <3>2 DEF HasCopy, WorkingVer
  <2>3. KeyOf[a] \in Saves BY <1>3 DEF Keyed
  <2>4. QED BY <1>1, <1>3, <2>1, <2>2, <2>3, OneSaveMoves
<1>4. QED BY <1>2, <1>3

-----------------------------------------------------------------------------
(* The actions: the invariant, and the abstract step. *)

Good == Rows' /\ Clean' /\ AbsStep

\* Locks, handles and kicks: nothing of a save changes.
LEMMA QuietStep ==
  ASSUME JInv, UNCHANGED <<registry, astat, mem, dirty, owner, disk, closing>>
  PROVE  Good
  BY CleanStands, RegistryStands DEF JInv, Good

\* A guest's actor is no save's.
LEMMA GuestStep ==
  ASSUME JInv, NEW s \in Sessions, AttachGuest(s)
  PROVE  Good
<1>1. ~Keyed(s) /\ UNCHANGED <<disk, closing>> BY DEF AttachGuest
<1>2. CASE Registered(KeyOf[s])
  <2>1. UNCHANGED <<registry, astat, mem, dirty, owner, disk, closing>>
    BY <1>2 DEF AttachGuest, actorVars
  <2>2. QED BY <2>1, QuietStep
<1>3. CASE ~Registered(KeyOf[s])
  <2>1. NewActor(s, NewState, s) BY <1>3 DEF AttachGuest
  <2>2. /\ registry' = [registry EXCEPT ![KeyOf[s]] = s]
        /\ \A b \in Sessions \ {s} : /\ astat'[b] = astat[b] /\ mem'[b] = mem[b]
                                     /\ dirty'[b] = dirty[b] /\ owner'[b] = owner[b]
    BY <2>1 DEF NewActor, JInv, IInv, TypeOK
  <2>3. \A k \in Saves : SameSave(k)
    <3> TAKE k \in Saves
    <3>1. k \in Keys /\ k # KeyOf[s] BY <1>1 DEF Keys, Keyed
    <3>2. registry'[k] = registry[k] BY <2>2, <3>1 DEF JInv, IInv, TypeOK
    <3>3. registry[k] # None => registry[k] \in Sessions \ {s}
      BY <3>1 DEF JInv, IInv, TypeOK, Registration
    <3>4. QED BY <1>1, <2>2, <3>2, <3>3, CopyStands DEF JInv
  <2>4. AbsStep BY <1>1, <2>3, NothingSeen
  <2>5. Rows' BY <1>1 DEF Rows, JInv
  <2>6. Clean'
    <3>1. \A b \in Sessions : Keyed(b) => b # s BY <1>1
    <3>2. QED BY <1>1, <2>2, <3>1 DEF Clean, JInv, Alive, Keyed
  <2>7. QED BY <2>4, <2>5, <2>6 DEF Good
<1>4. QED BY <1>2, <1>3

\* A save that nobody has open gets its first row, or is opened.
LEMMA OpenStep ==
  ASSUME JInv, NEW s \in Sessions, AttachFail(s) \/ AttachLoad(s)
  PROVE  Good
<1> DEFINE k == KeyOf[s]
<1>1. Keyed(s) /\ k \in Saves /\ k \in Keys /\ UNCHANGED closing
  BY DEF AttachFail, AttachLoad, Keyed, Keys
<1>2. CASE AttachFail(s) /\ UNCHANGED disk
  <2>1. UNCHANGED <<registry, astat, mem, dirty, owner, disk, closing>>
    BY <1>2 DEF AttachFail, actorVars
  <2>2. QED BY <2>1, QuietStep
<1>3. ASSUME registry[k] = None, disk' = [disk EXCEPT ![k] = RowOrNew(k)]
      PROVE  /\ Rows' /\ WorkingVer(k) = 0
             /\ disk'[k].ver = IF disk[k].ver = 0 THEN 1 ELSE disk[k].ver
             /\ \A j \in Keys : j # k => disk'[j] = disk[j]
             /\ \A b \in Sessions : Alive(b) => KeyOf[b] # k
  <2>1. ~InRun(RowOrNew(k)) /\ RowOrNew(k).ver # 0
          /\ RowOrNew(k).ver = IF disk[k].ver = 0 THEN 1 ELSE disk[k].ver
    BY <1>1, OpenedRow DEF JInv, IInv
  <2>2. disk'[k] = RowOrNew(k) /\ \A j \in Keys : j # k => disk'[j] = disk[j]
    BY <1>1, <1>3 DEF JInv, IInv, TypeOK
  <2>3. Rows' BY <2>1, <2>2 DEF Rows, JInv
  <2>4. WorkingVer(k) = 0 BY <1>3 DEF WorkingVer, HasCopy
  <2>5. \A b \in Sessions : Alive(b) => KeyOf[b] # k
    BY <1>3, ConstantsAssumption DEF JInv, IInv, Registration
  <2>6. QED BY <2>1, <2>2, <2>3, <2>4, <2>5
<1>4. CASE AttachFail(s) /\ disk' # disk
  <2>1. /\ registry[k] = None /\ disk' = [disk EXCEPT ![k] = RowOrNew(k)]
        /\ UNCHANGED <<registry, astat, mem, dirty, owner>>
    BY <1>4 DEF AttachFail, actorVars, Registered
  <2>2. \A j \in Saves \ {k} : SameSave(j)
    BY <1>3, <2>1, CopyStands DEF JInv, Keys
  <2>3. WorkingVer(k)' = 0 /\ ~WorkingRun(k)' BY <2>1 DEF WorkingVer, WorkingRun, HasCopy
  <2>4. AbsStep BY <1>1, <1>3, <2>1, <2>2, <2>3, OneSaveMoves
  <2>5. Clean'
    <3>1. \A b \in Sessions : Alive(b)' => disk'[KeyOf[b]] = disk[KeyOf[b]]
      BY <1>3, <2>1, KeyOfType DEF Alive
    <3>2. QED BY <1>1, <2>1, <3>1 DEF Clean, JInv, Alive, Keyed
  <2>6. QED BY <1>3, <2>1, <2>4, <2>5 DEF Good
<1>5. CASE AttachLoad(s)
  <2>1. /\ registry[k] = None /\ disk' = [disk EXCEPT ![k] = RowOrNew(k)]
        /\ NewActor(s, RowOrNew(k), None) /\ pc[s] = "attach"
    BY <1>5 DEF AttachLoad, Registered
  <2>2. /\ registry'[k] = s /\ \A j \in Keys : j # k => registry'[j] = registry[j]
        /\ astat'[s] = "running" /\ mem'[s] = RowOrNew(k)
        /\ \A b \in Sessions \ {s} : /\ astat'[b] = astat[b] /\ mem'[b] = mem[b]
                                     /\ dirty'[b] = dirty[b] /\ owner'[b] = owner[b]
    BY <1>1, <2>1 DEF NewActor, JInv, IInv, TypeOK
  <2>3. \A j \in Saves \ {k} : SameSave(j)
    <3> TAKE j \in Saves \ {k}
    <3>1. j \in Keys BY DEF Keys
    <3>2. registry[j] # None => registry[j] \in Sessions \ {s}
      BY <3>1 DEF JInv, IInv, TypeOK, Registration
    <3>3. disk'[j] = disk[j] BY <1>3, <2>1, <3>1
    <3>4. QED BY <2>2, <3>1, <3>2, <3>3, CopyStands DEF JInv
  <2>4. ~InRun(RowOrNew(k)) /\ RowOrNew(k).ver # 0
          /\ RowOrNew(k).ver = IF disk[k].ver = 0 THEN 1 ELSE disk[k].ver
    BY <1>1, OpenedRow DEF JInv, IInv
  <2>5. WorkingVer(k)' = RowOrNew(k).ver /\ ~WorkingRun(k)'
    BY <2>2, <2>4, ConstantsAssumption DEF WorkingVer, WorkingRun, HasCopy, Alive, InRun
  <2>6. ~closing BY <2>1 DEF JInv, IInv, Locking
  <2>7. AbsStep BY <1>1, <1>3, <2>1, <2>3, <2>4, <2>5, <2>6, OneSaveMoves
  <2>8. Clean'
    <3>1. \A b \in Sessions \ {s} : Alive(b)' => Alive(b) /\ disk'[KeyOf[b]] = disk[KeyOf[b]]
      BY <1>3, <2>1, <2>2, KeyOfType DEF Alive
    <3>2. disk'[k].ver = mem'[s].ver BY <1>3, <2>1, <2>2, <2>4
    <3>3. QED BY <1>1, <2>2, <2>4, <3>1, <3>2 DEF Clean, JInv, Alive, Keyed
  <2>9. QED BY <1>3, <2>1, <2>7, <2>8 DEF Good
<1>6. QED BY <1>2, <1>4, <1>5

\* The closure of an attach: its actor is running, and goes dirty.
LEMMA BindStep ==
  ASSUME JInv, IInv', NEW s \in Sessions, AttachBind(s)
  PROVE  Good
<1> DEFINE a == actorOf[s]
<1>1. a \in Sessions /\ astat[a] = "running"
  BY FoundIsRunning, ActorOfType DEF AttachBind, JInv, IInv
<1>2. UNCHANGED <<registry, astat, mem, disk, closing>>
  BY <1>1 DEF AttachBind
<1>3. AbsStep BY <1>2, RegistryStands DEF JInv
<1>4. CASE Busy(a)
  <2>1. UNCHANGED <<dirty, owner>> BY <1>1, <1>4 DEF AttachBind
  <2>2. QED BY <1>2, <2>1, QuietStep
<1>5. CASE ~Busy(a)
  <2>1. /\ owner' = [owner EXCEPT ![a] = s] /\ dirty' = [dirty EXCEPT ![a] = TRUE]
    BY <1>1, <1>5 DEF AttachBind
  <2>2. /\ dirty'[a] /\ \A b \in Sessions \ {a} : dirty'[b] = dirty[b] /\ owner'[b] = owner[b]
    BY <1>1, <2>1 DEF JInv, IInv, TypeOK
  <2>3. Alive(a) BY <1>1 DEF Alive
  <2>4. Rows' BY <1>2 DEF Rows, JInv
  <2>5. Clean'
    BY <1>1, <1>2, <2>2, <2>3 DEF JInv, Clean, Alive, Keyed
  <2>6. QED BY <1>3, <2>4, <2>5 DEF Good
<1>6. QED BY <1>4, <1>5

\* Play: the state moves on and the actor is dirty.
LEMMA PlayStep ==
  ASSUME JInv, IInv', NEW a \in Sessions, Alive(a), owner[a] # None, NEW m \in State,
         m.ver >= mem[a].ver, mem' = [mem EXCEPT ![a] = m], dirty' = [dirty EXCEPT ![a] = TRUE],
         UNCHANGED <<registry, closing, astat, owner, disk>>
  PROVE  Good
<1>1. mem'[a] = m /\ dirty'[a]
        /\ \A b \in Sessions \ {a} : mem'[b] = mem[b] /\ dirty'[b] = dirty[b]
  BY DEF JInv, IInv, TypeOK
<1>2. Alive(a)' BY DEF Alive
<1>3. Keyed(a) => mem[a].ver # 0 BY DEF JInv, Clean
<1>4. mem[a].ver \in Nat /\ m.ver \in Nat BY DEF JInv, IInv, TypeOK, State
<1>5. AbsStep BY <1>1, <1>2, <1>3, ActorMoves DEF JInv
<1>6. astat[a] = "running" BY DEF JInv, IInv, Ownership
<1>7. Rows' BY DEF JInv, Rows
<1>8. Keyed(a) => mem'[a].ver # 0 BY <1>1, <1>3, <1>4
<1>9. Clean' BY <1>1, <1>6, <1>7, <1>8, CleanFrame
<1>10. QED BY <1>5, <1>7, <1>9 DEF Good

\* persist while the actor goes on, from an autosave or a detach: m and d are
\* the state and the dirty flag it is called with, w the owner.
LEMMA PersistStep ==
  ASSUME JInv, IInv', NEW a \in Sessions, Alive(a), Alive(a)', NEW m \in State,
         m.ver >= mem[a].ver, NEW d \in BOOLEAN, NEW w, NEW res,
         mem' = [mem EXCEPT ![a] = m], owner' = [owner EXCEPT ![a] = w],
         disk' = Written(a, m, d, w, res),
         dirty' = [dirty EXCEPT ![a] = StillDirty(a, m, d, w, res)],
         \A b \in Sessions \ {a} : astat'[b] = astat[b],
         UNCHANGED <<registry, closing>>,
         ~d => ~dirty[a] /\ m = mem[a] /\ (w = None /\ Keyed(a) => owner[a] = None \/ ~InRun(m)),
         astat'[a] = "stopping" /\ ~closing /\ Keyed(a) => ~StillDirty(a, m, d, w, res)
  PROVE  Good
<1> DEFINE d2 == StillDirty(a, m, d, w, res)
<1>0. mem[a] \in State /\ mem[a].ver \in Nat /\ m.ver \in Nat BY DEF JInv, IInv, TypeOK, State
<1>1. /\ mem'[a] = m /\ owner'[a] = w /\ dirty'[a] = d2
      /\ \A b \in Sessions \ {a} : mem'[b] = mem[b] /\ dirty'[b] = dirty[b] /\ owner'[b] = owner[b]
  BY DEF JInv, IInv, TypeOK
<1>2. CASE ~Keyed(a)
  <2>1. disk' = disk BY <1>2 DEF Written, Attempts
  <2>2. \A k \in Saves \ {KeyOf[a]} : SameSave(k) BY <1>1, <2>1, OthersStand DEF JInv
  <2>3. AbsStep BY <1>2, <2>2, NothingSeen DEF Keyed
  <2>4. Rows' BY <2>1 DEF JInv, Rows
  <2>5. Clean' BY <1>1, <1>2, <2>1, <2>4, CleanFrame
  <2>6. QED BY <2>3, <2>4, <2>5 DEF Good
<1>3. CASE Keyed(a)
  <2>1. mem[a].ver # 0 /\ m.ver # 0 BY <1>0, <1>3 DEF JInv, Clean
  <2>2. /\ Rows'
        /\ d /\ ~d2 => disk'[KeyOf[a]].ver = m.ver /\ (w = None => ~InRun(m))
        /\ ~d => disk' = disk /\ ~d2
        /\ \A k \in Keys : k # KeyOf[a] => disk'[k] = disk[k]
    BY <1>3, <2>1, PersistCleans DEF JInv, IInv
  <2>3. disk'[KeyOf[a]].ver \in {disk[KeyOf[a]].ver, m.ver}
    BY WrittenFacts DEF JInv, IInv, TypeOK
  <2>4. AbsStep BY <1>1, <2>1, <2>2, <2>3, ActorMoves DEF JInv
  <2> HIDE DEF d2
  <2>5. ~d2 => disk'[KeyOf[a]].ver = m.ver /\ (w = None => ~InRun(m))
    <3>1. CASE d BY <2>2, <3>1
    <3>2. CASE ~d BY <1>3, <2>2, <3>2 DEF JInv, Clean
    <3>3. QED BY <3>1, <3>2
  <2>6. astat'[a] = "stopping" /\ ~closing => ~d2 BY <1>3 DEF d2
  <2>7. Clean' BY <1>1, <2>1, <2>2, <2>5, <2>6, CleanFrame
  <2>8. QED BY <2>2, <2>4, <2>7 DEF Good
<1>4. QED BY <1>2, <1>3

\* The closure of a detach.
LEMMA DetachDoStep ==
  ASSUME JInv, IInv', NEW s \in Sessions, DetachDo(s)
  PROVE  Good
<1>0. actorOf[s] \in Sessions BY ActorOfType DEF DetachDo, JInv, IInv
<1>01. PICK a \in Sessions : a = actorOf[s] BY <1>0
<1> DEFINE w == Released(a, s)
           abandons == owner[a] = s /\ Keyed(a) /\ InRun(mem[a])
           d == dirty[a] \/ abandons
<1>1. astat[a] # "none" /\ UNCHANGED <<registry, closing>>
  BY <1>01 DEF DetachDo, JInv, IInv, Handles
<1>2. CASE astat[a] = "done"
  <2>1. UNCHANGED <<astat, mem, dirty, owner, disk>> BY <1>01, <1>2 DEF DetachDo
  <2>2. QED BY <1>1, <2>1, QuietStep
<1>3. CASE astat[a] # "done"
  <2>1. PICK m \in IF abandons THEN Resolved(mem[a]) ELSE {mem[a]}, res \in SaveResults :
          /\ mem' = [mem EXCEPT ![a] = m]
          /\ owner' = [owner EXCEPT ![a] = w]
          /\ disk' = Written(a, m, d, w, res)
          /\ dirty' = [dirty EXCEPT ![a] = StillDirty(a, m, d, w, res)]
          /\ \/ /\ StopRule(a, w, StillDirty(a, m, d, w, res))
                /\ astat' = [astat EXCEPT ![a] = "stopping"]
             \/ UNCHANGED astat
    BY <1>01, <1>3 DEF DetachDo
  <2>2. mem[a] \in State /\ dirty[a] \in BOOLEAN BY <1>1 DEF JInv, IInv, TypeOK
  <2>3. m \in State /\ m.ver >= mem[a].ver
    BY <2>1, <2>2, ResolvedFacts DEF State
  <2>4. Alive(a) /\ Alive(a)' /\ \A b \in Sessions \ {a} : astat'[b] = astat[b]
    BY <1>1, <1>3, <2>1 DEF JInv, IInv, TypeOK, Alive
  <2>5. ~d => ~dirty[a] /\ m = mem[a] /\ (w = None /\ Keyed(a) => owner[a] = None \/ ~InRun(m))
    BY <2>1 DEF Released
  <2>6. astat'[a] = "stopping" /\ ~closing /\ Keyed(a) => ~StillDirty(a, m, d, w, res)
    <3>1. CASE StopRule(a, w, StillDirty(a, m, d, w, res)) BY <3>1 DEF StopRule
    <3>2. CASE UNCHANGED astat
      <4> SUFFICES ASSUME astat[a] = "stopping", ~closing, Keyed(a)
                   PROVE  ~StillDirty(a, m, d, w, res)
        BY <3>2
      <4>1. ~dirty[a] BY <1>1, <2>4 DEF JInv, Clean
      <4>2. owner[a] # s
        BY <1>1, ConstantsAssumption DEF JInv, IInv, Ownership
      <4>3. QED BY <4>1, <4>2 DEF StillDirty
    <3>3. QED BY <2>1, <3>1, <3>2
  <2>7. d \in BOOLEAN BY <2>2
  <2> HIDE DEF w, d, abandons
  <2>8. QED BY <1>1, <2>1, <2>3, <2>4, <2>5, <2>6, <2>7, PersistStep
<1>4. QED BY <1>2, <1>3

\* The autosave.
LEMMA AutosaveStep ==
  ASSUME JInv, IInv', NEW a \in Sessions, NEW res, Autosave(a, res)
  PROVE  Good
<1>1. /\ Alive(a) /\ dirty[a] /\ UNCHANGED <<registry, closing, astat, mem, owner>>
      /\ disk' = Written(a, mem[a], dirty[a], owner[a], res)
      /\ dirty' = [dirty EXCEPT ![a] = StillDirty(a, mem[a], dirty[a], owner[a], res)]
  BY DEF Autosave, Autosaves, mgrVars
<1>2. mem[a] \in State /\ dirty[a] \in BOOLEAN /\ mem[a].ver >= mem[a].ver
  BY DEF JInv, IInv, TypeOK, State
<1>3. mem' = [mem EXCEPT ![a] = mem[a]] /\ owner' = [owner EXCEPT ![a] = owner[a]]
  BY <1>1 DEF JInv, IInv, TypeOK
<1>4. Alive(a)' BY <1>1 DEF Alive
<1>5. ~(astat[a] = "stopping" /\ ~closing /\ Keyed(a))
  BY <1>1 DEF JInv, Clean
<1>6. QED BY <1>1, <1>2, <1>3, <1>4, <1>5, PersistStep

\* The last flush: the copy is given up.  Outside a shutdown it was clean.
LEMMA StopFlushStep ==
  ASSUME JInv, IInv', NEW a \in Sessions, StopFlush(a)
  PROVE  Good
<1> DEFINE k == KeyOf[a]
           d == dirty[a] \/ (Keyed(a) /\ InRun(mem[a]))
<1>1. PICK m \in IF Keyed(a) THEN Resolved(mem[a]) ELSE {mem[a]}, res \in SaveResults :
        /\ mem' = [mem EXCEPT ![a] = m]
        /\ disk' = Written(a, m, d, owner[a], res)
        /\ dirty' = [dirty EXCEPT ![a] = StillDirty(a, m, d, owner[a], res)]
  BY DEF StopFlush
<1>2. /\ astat[a] = "stopping" /\ astat' = [astat EXCEPT ![a] = "done"]
      /\ UNCHANGED <<registry, closing, owner>>
  BY DEF StopFlush, mgrVars
<1>3. /\ mem[a] \in State /\ dirty[a] \in BOOLEAN /\ k \in Keys
      /\ mem[a].ver \in Nat /\ disk[k].ver \in Nat
  BY KeyOfType DEF JInv, IInv, TypeOK, State
<1>4. m \in State /\ m.ver >= mem[a].ver /\ m.ver \in Nat
  BY <1>1, <1>3, ResolvedFacts DEF State
<1>5. Alive(a) /\ ~Alive(a)' /\ astat'[a] = "done"
        /\ \A b \in Sessions \ {a} : /\ astat'[b] = astat[b] /\ mem'[b] = mem[b]
                                     /\ dirty'[b] = dirty[b] /\ owner'[b] = owner[b]
  BY <1>1, <1>2 DEF JInv, IInv, TypeOK, Alive
<1>6. CASE ~Keyed(a)
  <2>1. disk' = disk BY <1>1, <1>6 DEF Written, Attempts
  <2>2. \A j \in Saves \ {k} : SameSave(j) BY <1>2, <1>5, <2>1, OthersStand DEF JInv
  <2>3. AbsStep BY <1>2, <1>6, <2>2, NothingSeen DEF Keyed
  <2>4. Rows' BY <2>1 DEF JInv, Rows
  <2>5. Clean' BY <1>2, <1>5, <2>1, <2>4, CleanFrame
  <2>6. QED BY <2>3, <2>4, <2>5 DEF Good
<1>7. CASE Keyed(a)
  <2>1. mem[a].ver # 0 /\ m.ver # 0 BY <1>3, <1>4, <1>5, <1>7 DEF JInv, Clean
  <2>2. d \in BOOLEAN BY <1>3
  <2>3. /\ Rows' /\ (~d => disk' = disk)
        /\ \A j \in Keys : j # k => disk'[j] = disk[j]
    BY <1>1, <1>4, <2>1, <2>2, PersistCleans DEF JInv, IInv
  <2>4. disk'[k].ver \in {disk[k].ver, m.ver}
    BY <1>1, <1>4, WrittenFacts DEF JInv, IInv, TypeOK
  <2>5. \A j \in Saves \ {k} : SameSave(j) BY <1>2, <1>5, <2>3, OthersStand DEF JInv
  <2>6. WorkingVer(k) = mem[a].ver /\ WorkingRun(k) = InRun(mem[a])
    BY <1>5, LiveCopy DEF JInv
  <2>7. registry[k] = a BY <1>5 DEF JInv, IInv, Registration
  <2>8. WorkingVer(k)' = 0 /\ ~WorkingRun(k)'
    BY <1>2, <1>5, <2>7 DEF WorkingVer, WorkingRun, HasCopy, Alive
  <2>9. ~closing => ~WorkingRun(k) /\ disk'[k].ver = WorkingVer(k)
    <3> SUFFICES ASSUME ~closing PROVE ~WorkingRun(k) /\ disk'[k].ver = WorkingVer(k)
      OBVIOUS
    <3>1. ~dirty[a] BY <1>2, <1>5, <1>7 DEF JInv, Clean
    <3>2. owner[a] = None BY <1>2 DEF JInv, IInv, Ownership
    <3>3. ~InRun(mem[a]) /\ disk[k].ver = mem[a].ver
      BY <1>5, <1>7, <3>1, <3>2 DEF JInv, Clean
    <3>4. ~d BY <3>1, <3>3
    <3>5. QED BY <2>3, <2>6, <3>3, <3>4
  <2>10. disk'[k].ver = disk[k].ver \/ disk'[k].ver >= WorkingVer(k)
    BY <1>4, <2>4, <2>6
  <2>11. k \in Saves BY <1>7 DEF Keyed
  <2>12. AbsStep
    BY <1>2, <2>1, <2>5, <2>6, <2>8, <2>9, <2>10, <2>11, OneSaveMoves
  <2>13. Clean' BY <1>2, <1>5, <2>3, CleanFrame
  <2>14. QED BY <2>3, <2>12, <2>13 DEF Good
<1>8. QED BY <1>6, <1>7

\* An actor that has ended leaves the registry unseen.
LEMMA ForgetStep ==
  ASSUME JInv, NEW a \in Sessions, astat[a] = "done", Forget(a),
         UNCHANGED <<astat, mem, dirty, owner, disk, closing>>
  PROVE  Good
<1>1. \A k \in Saves : SameSave(k)
  <2> TAKE k \in Saves
  <2>1. k \in Keys BY DEF Keys
  <2>2. CASE registry[k] = a
    <3>1. ~HasCopy(k) BY <2>2 DEF HasCopy, Alive
    <3>2. registry'[k] \in {a, None} BY <2>1, <2>2 DEF Forget
    <3>3. ~HasCopy(k)' BY <3>2 DEF HasCopy, Alive
    <3>4. QED BY <3>1, <3>3 DEF SameSave, WorkingVer, WorkingRun
  <2>3. CASE registry[k] # a
    <3>1. registry'[k] = registry[k] BY <2>1, <2>3 DEF Forget
    <3>2. QED BY <3>1, CopyStands DEF JInv
  <2>4. QED BY <2>2, <2>3
<1>2. AbsStep BY <1>1, NothingSeen
<1>3. QED BY <1>2, CleanStands DEF JInv, Good

\* Shutdown begins: the abstract service closes.
LEMMA ShutdownBeginStep ==
  ASSUME JInv, ShutdownBegin
  PROVE  Good
<1>1. closing' = TRUE /\ UNCHANGED <<registry, astat, mem, dirty, owner, disk>>
  BY DEF ShutdownBegin, actorVars
<1>2. \A k \in Saves : SameSave(k) BY <1>1, CopyStands DEF JInv
<1>3. Durable!Closing
  <2>1. [k \in Saves |-> disk[k].ver]' = [k \in Saves |-> disk[k].ver]
    BY <1>2 DEF SameSave
  <2>2. [k \in Saves |-> WorkingVer(k)]' = [k \in Saves |-> WorkingVer(k)]
    BY <1>2 DEF SameSave
  <2>3. [k \in Saves |-> WorkingRun(k)]' = [k \in Saves |-> WorkingRun(k)]
    BY <1>2 DEF SameSave
  <2>4. QED BY <1>1, <2>1, <2>2, <2>3 DEF Durable!Closing
<1>4. AbsStep BY <1>3 DEF AbsStep, Durable!Next
<1>5. QED BY <1>1, <1>4, CleanStands DEF JInv, Good

\* Shutdown lets go of a terminal: the run is resolved, nothing is written.
LEMMA ShutdownKickStep ==
  ASSUME JInv, IInv', NEW a \in Sessions, ShutdownKick(a)
  PROVE  Good
<1> DEFINE abandons == owner[a] # None /\ Keyed(a) /\ InRun(mem[a])
<1>1. UNCHANGED <<registry, closing, astat, disk>> /\ closing
  BY DEF ShutdownKick, mgrVars, JInv, IInv, Locking
<1>2. CASE astat[a] = "done"
  <2>1. UNCHANGED <<mem, dirty, owner>> BY <1>2 DEF ShutdownKick
  <2>2. QED BY <1>1, <2>1, QuietStep
<1>3. CASE astat[a] # "done"
  <2>1. PICK m \in IF abandons THEN Resolved(mem[a]) ELSE {mem[a]} :
          mem' = [mem EXCEPT ![a] = m]
    BY <1>3 DEF ShutdownKick
  <2>2. dirty' = [dirty EXCEPT ![a] = dirty[a] \/ abandons] /\ owner' = [owner EXCEPT ![a] = None]
    BY <1>3 DEF ShutdownKick
  <2>3. Alive(a) BY <1>3 DEF Alive, JInv, IInv, TypeOK, Registration, ShutdownKick
  <2>4. mem[a] \in State /\ mem[a].ver \in Nat /\ dirty[a] \in BOOLEAN
    BY DEF JInv, IInv, TypeOK, State
  <2>5. m \in State /\ m.ver >= mem[a].ver /\ m.ver \in Nat
    BY <2>1, <2>4, ResolvedFacts DEF State
  <2>6. /\ mem'[a] = m /\ owner'[a] = None /\ dirty'[a] = (dirty[a] \/ abandons)
        /\ \A b \in Sessions \ {a} : mem'[b] = mem[b] /\ dirty'[b] = dirty[b] /\ owner'[b] = owner[b]
    BY <2>1, <2>2 DEF JInv, IInv, TypeOK
  <2>7. Alive(a)' BY <1>1, <2>3 DEF Alive
  <2>8. Keyed(a) => mem[a].ver # 0 BY <2>3 DEF JInv, Clean
  <2>9. AbsStep BY <1>1, <2>3, <2>5, <2>6, <2>7, <2>8, ActorMoves DEF JInv
  <2>10. Rows' BY <1>1 DEF JInv, Rows
  <2>11. Keyed(a) => mem'[a].ver # 0 BY <2>4, <2>5, <2>6, <2>8
  <2>12. Keyed(a) /\ ~dirty'[a] => disk'[KeyOf[a]].ver = mem'[a].ver /\ ~InRun(mem'[a])
    <3> SUFFICES ASSUME Keyed(a), ~dirty'[a]
                 PROVE  disk'[KeyOf[a]].ver = mem'[a].ver /\ ~InRun(mem'[a])
      OBVIOUS
    <3>1. ~dirty[a] /\ ~abandons BY <2>6
    <3>2. m = mem[a] BY <2>1, <3>1
    <3>3. disk[KeyOf[a]].ver = mem[a].ver /\ (owner[a] = None => ~InRun(mem[a]))
      BY <2>3, <3>1 DEF JInv, Clean
    <3>4. QED BY <1>1, <2>6, <3>1, <3>2, <3>3
  <2>13. Clean' BY <1>1, <2>3, <2>6, <2>10, <2>11, <2>12, CleanFrame
  <2>14. QED BY <2>9, <2>10, <2>13 DEF Good
<1>4. QED BY <1>2, <1>3

\* Shutdown stops an actor, which keeps its copy until it has flushed.
LEMMA ShutdownStopStep ==
  ASSUME JInv, ShutdownStop
  PROVE  Good
<1>1. /\ UNCHANGED <<registry, closing, mem, dirty, owner, disk>> /\ closing
      /\ astat' = Stopped(cur) /\ cur \in Sessions
  BY DEF ShutdownStop, JInv, IInv, Locking, Registration, TypeOK
<1>2. astat[cur] # "none" BY DEF ShutdownStop, JInv, IInv, Registration
<1>3. \A b \in Sessions : astat'[b] \in {"running", "stopping"} <=> Alive(b)
  BY <1>1, <1>2 DEF Stopped, Alive, JInv, IInv, TypeOK
<1>4. \A k \in Saves : SameSave(k)
  <2> TAKE k \in Saves
  <2>1. k \in Keys BY DEF Keys
  <2>2. registry[k] # None => registry[k] \in Sessions BY <2>1 DEF JInv, IInv, TypeOK
  <2>3. HasCopy(k)' <=> HasCopy(k) BY <1>1, <1>3, <2>2 DEF HasCopy, Alive
  <2>4. QED BY <1>1, <2>3 DEF SameSave, WorkingVer, WorkingRun
<1>5. AbsStep BY <1>1, <1>4, NothingSeen
<1>6. Rows' /\ Clean' BY <1>1, <1>3 DEF JInv, Rows, Clean, Alive, Keyed
<1>7. QED BY <1>5, <1>6 DEF Good

\* A crash or an exit loses every copy and no row.
LEMMA RebootStep ==
  ASSUME JInv, Reboot
  PROVE  Good
<1>1. /\ disk' = disk /\ closing' = FALSE /\ \A a \in Sessions : ~Alive(a)'
      /\ \A k \in Keys : registry'[k] = None
  BY DEF Reboot, Alive
<1>2. \A k \in Saves : ~HasCopy(k)' BY <1>1 DEF HasCopy, Keys
<1>3. Durable!Die
  <2>1. [k \in Saves |-> disk[k].ver]' = [k \in Saves |-> disk[k].ver] BY <1>1
  <2>2. [k \in Saves |-> WorkingVer(k)]' = [k \in Saves |-> 0] BY <1>2 DEF WorkingVer
  <2>3. [k \in Saves |-> WorkingRun(k)]' = [k \in Saves |-> FALSE] BY <1>2 DEF WorkingRun
  <2>4. QED BY <1>1, <2>1, <2>2, <2>3 DEF Durable!Die
<1>4. AbsStep BY <1>3 DEF AbsStep, Durable!Next
<1>5. Rows' /\ Clean' BY <1>1 DEF JInv, Rows, Clean
<1>6. QED BY <1>4, <1>5 DEF Good

-----------------------------------------------------------------------------
(* The refinement. *)

\* The initial states map to the abstract initial state.
LEMMA JInvInit == Init => JInv /\ Durable!Init
<1> SUFFICES ASSUME Init PROVE JInv /\ Durable!Init
  OBVIOUS
<1>1. IInv BY IInvInit
<1>2. Rows BY DEF Init, Rows, NoRow, InRun
<1>3. Clean BY DEF Init, Clean, Alive
<1>4. \A k \in Saves : disk[k].ver = 0 /\ WorkingVer(k) = 0 /\ WorkingRun(k) = FALSE
  BY DEF Init, Keys, NoRow, WorkingVer, WorkingRun, HasCopy
<1>5. [k \in Saves |-> disk[k].ver] = [k \in Saves |-> 0] BY <1>4
<1>6. [k \in Saves |-> WorkingVer(k)] = [k \in Saves |-> 0] BY <1>4
<1>7. [k \in Saves |-> WorkingRun(k)] = [k \in Saves |-> FALSE] BY <1>4
<1>8. closing = FALSE BY DEF Init
<1>9. Durable!Init BY <1>5, <1>6, <1>7, <1>8 DEF Durable!Init
<1>10. QED BY <1>1, <1>2, <1>3, <1>9 DEF JInv

\* Every step keeps the invariant and maps to an abstract step or a stutter.
LEMMA StepGood == JInv /\ [Next]_vars => IInv' /\ Good
<1> SUFFICES ASSUME JInv, [Next]_vars PROVE IInv' /\ Good
  OBVIOUS
<1>0. IInv' BY IInvNext DEF JInv
<1> SUFFICES Good
  BY <1>0
<1>1. ASSUME NEW s \in Sessions,
             AttachBegin(s) \/ AttachFound(s) \/ Leave(s) \/ DetachBegin(s) \/ CloseStream(s)
      PROVE  Good
  <2>1. UNCHANGED <<registry, astat, mem, dirty, owner, disk, closing>>
    BY <1>1 DEF AttachBegin, AttachFound, Leave, DetachBegin, CloseStream, mgrVars, actorVars
  <2>2. QED BY <2>1, QuietStep
<1>2. ASSUME NEW s \in Sessions, AttachGuest(s) PROVE Good
  BY <1>2, GuestStep
<1>3. ASSUME NEW s \in Sessions, AttachFail(s) \/ AttachLoad(s) PROVE Good
  BY <1>3, OpenStep
<1>4. ASSUME NEW s \in Sessions, AttachBind(s) PROVE Good
  BY <1>0, <1>4, BindStep
<1>5. ASSUME NEW s \in Sessions, Intent(s) PROVE Good
  <2>1. actorOf[s] \in Sessions BY <1>5, ActorOfType DEF Intent, JInv, IInv
  <2>2. PICK a \in Sessions : a = actorOf[s] BY <2>1
  <2>3. PICK m \in AfterIntent(mem[a]) : mem' = [mem EXCEPT ![a] = m]
    BY <1>5, <2>2 DEF Intent
  <2>4. /\ Alive(a) /\ owner[a] # None /\ dirty' = [dirty EXCEPT ![a] = TRUE]
        /\ UNCHANGED <<registry, closing, astat, owner, disk>>
    BY <1>5, <2>2, ConstantsAssumption DEF Intent, mgrVars
  <2>5. mem[a] \in State BY DEF JInv, IInv, TypeOK
  <2>6. m \in State /\ m.ver >= mem[a].ver BY <2>3, <2>5, AfterIntentFacts
  <2>7. QED BY <1>0, <2>3, <2>4, <2>6, PlayStep
<1>6. ASSUME NEW a \in Sessions, Tick(a) PROVE Good
  <2>1. PICK m \in AfterTick(mem[a]) : mem' = [mem EXCEPT ![a] = m] BY <1>6 DEF Tick
  <2>2. /\ Alive(a) /\ owner[a] # None /\ dirty' = [dirty EXCEPT ![a] = TRUE]
        /\ UNCHANGED <<registry, closing, astat, owner, disk>>
    BY <1>6 DEF Tick, Ticks, mgrVars
  <2>3. mem[a] \in State BY DEF JInv, IInv, TypeOK
  <2>4. m \in State /\ m.ver >= mem[a].ver BY <2>1, <2>3, AfterTickFacts
  <2>5. QED BY <1>0, <2>1, <2>2, <2>4, PlayStep
<1>7. ASSUME NEW a \in Sessions, NEW res \in SaveResults, Autosave(a, res) PROVE Good
  BY <1>0, <1>7, AutosaveStep
<1>8. ASSUME NEW a \in Sessions, StopFlush(a) PROVE Good
  BY <1>0, <1>8, StopFlushStep
<1>9. ASSUME NEW s \in Sessions, DetachDo(s) PROVE Good
  BY <1>0, <1>9, DetachDoStep
<1>10. ASSUME NEW s \in Sessions, DetachEnd(s) PROVE Good
  <2>1. actorOf[s] \in Sessions BY <1>10, ActorOfType DEF DetachEnd, JInv, IInv
  <2>2. PICK a \in Sessions : a = actorOf[s] BY <2>1
  <2>3. /\ astat[a] = "done" /\ Forget(a)
        /\ UNCHANGED <<astat, mem, dirty, owner, disk, closing>>
    BY <1>10, <2>2 DEF DetachEnd, actorVars
  <2>4. QED BY <2>3, ForgetStep
<1>11. CASE ShutdownBegin BY <1>11, ShutdownBeginStep
<1>12. ASSUME NEW a \in Sessions, ShutdownKick(a) PROVE Good
  BY <1>0, <1>12, ShutdownKickStep
<1>13. CASE ShutdownStop BY <1>13, ShutdownStopStep
<1>14. CASE ShutdownNext
  <2>1. cur \in Sessions BY <1>14 DEF ShutdownNext, JInv, IInv, Registration, TypeOK
  <2>2. PICK a \in Sessions : a = cur BY <2>1
  <2>3. /\ astat[a] = "done" /\ Forget(a)
        /\ UNCHANGED <<astat, mem, dirty, owner, disk, closing>>
    BY <1>14, <2>2 DEF ShutdownNext, actorVars
  <2>4. QED BY <2>3, ForgetStep
<1>15. CASE ShutdownDone \/ ShutdownTimeout \/ UNCHANGED vars
  <2>1. UNCHANGED <<registry, astat, mem, dirty, owner, disk, closing>>
    BY <1>15 DEF ShutdownDone, ShutdownTimeout, mgrVars, actorVars, vars
  <2>2. QED BY <2>1, QuietStep
<1>16. CASE Reboot BY <1>16, RebootStep
<1>17. QED
  BY <1>0, <1>1, <1>2, <1>3, <1>4, <1>5, <1>6, <1>7, <1>8, <1>9, <1>10, <1>11,
     <1>12, <1>13, <1>14, <1>15, <1>16
  DEF Next, AttachStep, DetachStep, ActorStep, ShutdownStep, Crash, Exit, Quiet

\* Takeovers, failed and late writes, emergency resolutions, shutdowns and
\* crashes, for any sessions, saves and guests and under either policy, amount
\* to a durable save with one working copy that outside a shutdown is given up
\* only once it is written, with its run resolved (manager.go, actor.go,
\* session.go, store.go).
THEOREM LifecycleImplementsDurableSave == Spec => DurableSpec
<1>1. JInv /\ [Next]_vars => JInv' BY StepGood DEF JInv, Good
<1>2. Spec => []JInv BY <1>1, JInvInit, PTL DEF Spec
<1>3. JInv /\ [Next]_vars => [Durable!Next]_(Durable!vars) BY StepGood DEF Good, AbsStep
<1>4. QED BY <1>2, <1>3, JInvInit, PTL DEF Spec, DurableSpec, Durable!Spec

-----------------------------------------------------------------------------
(***************************************************************************)
(* What a save and a guest are owed when they are left: a guest leaves     *)
(* nothing behind, a shutdown that returns nil has stored every save, and  *)
(* under the refuse policy a pilot keeps its seat.                         *)
(*                                                                         *)
(* A nil is only as good as the errors it was joined from: the invariant   *)
(* follows an actor's failed flush until Shutdown has joined it, and shows *)
(* that an actor stopped by a detach had nothing left to flush.            *)
(***************************************************************************)

\* A guest's session has the actor its Attach created and no other, and is
\* past its detach only with that actor's goroutine gone.
GuestOf(s) ==
    /\ pc[s] # "bind"
    /\ pc[s] \in {"live", "detach", "detaching", "stopping", "close"} => actorOf[s] = s
    /\ pc[s] \in {"close", "gone"} => ~Alive(s)

GuestRow(k) == disk[k] = NoRow

Guestly ==
    /\ \A s \in Sessions : ~Keyed(s) => GuestOf(s)
    /\ \A k \in Guests : GuestRow(k)

\* Shutdown has every actor that can still act before it, and a nil means it
\* is through with no error joined.
Drained ==
    /\ sd # "idle" => \A a \in Sessions : Alive(a) => a \in todo
    /\ sd = "finished" => todo = {}
    /\ ret = "nil" => sd = "finished" /\ ~flushErr

\* A failed flush is joined or about to be; only Shutdown stops an actor that
\* has something to flush; an actor that ended without an error is stored.
FlushedOf(a) ==
    /\ finalErr[a] => flushErr \/ (sd = "wait" /\ cur = a)
    /\ astat[a] = "stopping" /\ Keyed(a) => (sd = "wait" /\ cur = a) \/ ~dirty[a]
    /\ astat[a] = "done" /\ Keyed(a) /\ ~finalErr[a] => disk[KeyOf[a]].ver >= mem[a].ver

Flushed == \A a \in Sessions : FlushedOf(a)

KInv == JInv /\ Guestly /\ Drained /\ Flushed

\* The invariant under the refinement, for use below.
LEMMA JInvNext == JInv /\ [Next]_vars => JInv'
  BY StepGood DEF JInv, Good

-----------------------------------------------------------------------------
(* Guests. *)

\* persist never touches a guest's row.
LEMMA WrittenForSaves ==
  ASSUME TypeOK, NEW a \in Sessions, NEW m, NEW d, NEW w, NEW res,
         disk' = Written(a, m, d, w, res), NEW k \in Guests, GuestRow(k)
  PROVE  GuestRow(k)'
<1>1. k \in Keys BY DEF Keys
<1>2. CASE Keyed(a)
  <2>1. KeyOf[a] # k BY <1>2, ConstantsAssumption DEF Keyed
  <2>2. QED BY <1>1, <2>1 DEF TypeOK, Written, GuestRow
<1>3. CASE ~Keyed(a) BY <1>3 DEF Written, Attempts, GuestRow
<1>4. QED BY <1>2, <1>3

LEMMA GuestRowsNext ==
  ASSUME IInv, [Next]_vars, NEW k \in Guests, GuestRow(k)
  PROVE  GuestRow(k)'
<1>0. TypeOK /\ Handles /\ k \in Keys BY DEF IInv, Keys
<1>1. ASSUME NEW s \in Sessions, AttachFail(s) \/ AttachLoad(s) PROVE GuestRow(k)'
  <2>1. KeyOf[s] # k BY <1>1, ConstantsAssumption DEF AttachFail, AttachLoad, Keyed
  <2>2. disk'[k] = disk[k] BY <1>0, <1>1, <2>1 DEF AttachFail, AttachLoad, TypeOK
  <2>3. QED BY <2>2 DEF GuestRow
<1>2. ASSUME NEW a \in Sessions, NEW res \in SaveResults, Autosave(a, res) PROVE GuestRow(k)'
  <2>1. disk' = Written(a, mem[a], dirty[a], owner[a], res) BY <1>2 DEF Autosave
  <2>2. QED BY <1>0, <2>1, WrittenForSaves
<1>3. ASSUME NEW a \in Sessions, StopFlush(a) PROVE GuestRow(k)'
  <2>1. PICK m \in IF Keyed(a) THEN Resolved(mem[a]) ELSE {mem[a]}, res \in SaveResults :
          disk' = Written(a, m, dirty[a] \/ (Keyed(a) /\ InRun(mem[a])), owner[a], res)
    BY <1>3 DEF StopFlush
  <2>2. QED BY <1>0, <2>1, WrittenForSaves
<1>4. ASSUME NEW s \in Sessions, DetachDo(s) PROVE GuestRow(k)'
  <2>1. actorOf[s] \in Sessions BY <1>0, <1>4, ActorOfType DEF DetachDo
  <2>2. PICK a \in Sessions : a = actorOf[s] BY <2>1
  <2>3. CASE astat[a] = "done"
    <3>1. disk' = disk BY <1>4, <2>2, <2>3 DEF DetachDo
    <3>2. QED BY <3>1 DEF GuestRow
  <2>4. CASE astat[a] # "done"
    <3> DEFINE ab == owner[a] = s /\ Keyed(a) /\ InRun(mem[a])
    <3>1. PICK m \in IF ab THEN Resolved(mem[a]) ELSE {mem[a]}, res \in SaveResults :
            disk' = Written(a, m, dirty[a] \/ ab, Released(a, s), res)
      BY <1>4, <2>2, <2>4, DetachDoParts
    <3>2. QED BY <1>0, <3>1, WrittenForSaves
  <2>5. QED BY <2>3, <2>4
<1>5. ASSUME UNCHANGED disk PROVE GuestRow(k)'
  BY <1>5 DEF GuestRow
<1>6. QED
  BY <1>1, <1>2, <1>3, <1>4, <1>5
  DEF Next, AttachStep, DetachStep, ActorStep, ShutdownStep, Crash, Exit, Quiet, Reboot, vars,
      AttachBegin, AttachGuest, AttachFound, AttachBind, Intent, Leave, Tick, DetachBegin, DetachEnd,
      CloseStream, ShutdownBegin, ShutdownKick, ShutdownStop, ShutdownNext, ShutdownDone, ShutdownTimeout

\* The session stands where it stood, and its actor has not come to life.
LEMMA GuestStands ==
  ASSUME NEW t \in Sessions, GuestOf(t), pc'[t] = pc[t], actorOf'[t] = actorOf[t],
         Alive(t)' => Alive(t)
  PROVE  GuestOf(t)'
  BY DEF GuestOf

\* The terminal attached to a guest's actor is the guest's.
LEMMA GuestOwnsItself ==
  ASSUME IInv, Guestly, NEW s \in Sessions, ~Keyed(s)
  PROVE  owner[s] \in {s, None}
<1> SUFFICES ASSUME owner[s] # None PROVE owner[s] = s OBVIOUS
<1>1. owner[s] \in Sessions BY DEF IInv, TypeOK
<1>2. PICK x \in Sessions : x = owner[s] BY <1>1
<1>3. actorOf[x] = s /\ pc[x] \in {"live", "detach", "detaching"} BY <1>2 DEF IInv, Ownership
<1>4. KeyOf[x] = KeyOf[s] BY <1>3 DEF IInv, Handles
<1>5. actorOf[x] = x BY <1>3, <1>4 DEF Guestly, GuestOf, Keyed
<1>6. QED BY <1>2, <1>3, <1>5

LEMMA GuestNext ==
  ASSUME IInv, Guestly, [Next]_vars, NEW t \in Sessions, ~Keyed(t)
  PROVE  GuestOf(t)'
<1>0. TypeOK /\ Handles /\ Registration /\ GuestOf(t) BY DEF IInv, Guestly
<1>1. ASSUME NEW s \in Sessions, AttachBegin(s) PROVE GuestOf(t)'
  <2>1. CASE t = s
    <3>1. astat[s] = "none" /\ pc'[s] \in {"gone", "attach"} /\ astat' = astat
      BY <1>0, <1>1 DEF AttachBegin, Goto, Handles, TypeOK, actorVars
    <3>2. QED BY <2>1, <3>1 DEF GuestOf, Alive
  <2>2. CASE t # s
    BY <1>0, <1>1, <2>2, GuestStands DEF AttachBegin, Goto, TypeOK, actorVars, Alive
  <2>3. QED BY <2>1, <2>2
<1>2. ASSUME NEW s \in Sessions, AttachGuest(s) PROVE GuestOf(t)'
  <2>1. CASE t = s
    <3>1. astat[s] = "none" BY <1>0, <1>2 DEF AttachGuest, Handles
    <3>2. CASE Registered(KeyOf[s])
      <4>1. pc'[s] = "gone" /\ astat' = astat
        BY <1>0, <1>2, <3>2 DEF AttachGuest, Goto, TypeOK, actorVars
      <4>2. QED BY <2>1, <3>1, <4>1 DEF GuestOf, Alive
    <3>3. CASE ~Registered(KeyOf[s])
      <4>1. pc'[s] = "live" /\ actorOf'[s] = s
        BY <1>0, <1>2, <3>3 DEF AttachGuest, NewActor, Goto, TypeOK
      <4>2. QED BY <2>1, <4>1 DEF GuestOf
    <3>4. QED BY <3>2, <3>3
  <2>2. CASE t # s
    <3>1. pc'[t] = pc[t] /\ actorOf'[t] = actorOf[t] /\ astat'[t] = astat[t]
      BY <1>0, <1>2, <2>2 DEF AttachGuest, NewActor, Goto, TypeOK, actorVars
    <3>2. QED BY <1>0, <3>1, GuestStands DEF Alive
  <2>3. QED BY <2>1, <2>2
<1>3. ASSUME NEW s \in Sessions, AttachFail(s) \/ AttachLoad(s) \/ AttachFound(s) PROVE GuestOf(t)'
  <2>1. t # s BY <1>3 DEF AttachFail, AttachLoad, AttachFound
  <2>2. pc'[t] = pc[t] /\ actorOf'[t] = actorOf[t] /\ astat'[t] = astat[t]
    BY <1>0, <1>3, <2>1 DEF AttachFail, AttachLoad, AttachFound, NewActor, Goto, TypeOK, actorVars
  <2>3. QED BY <1>0, <2>2, GuestStands DEF Alive
<1>4. ASSUME NEW s \in Sessions, AttachBind(s) PROVE GuestOf(t)'
  <2>1. t # s BY <1>0, <1>4 DEF AttachBind, GuestOf
  <2>2. pc'[t] = pc[t] /\ actorOf'[t] = actorOf[t] /\ astat'[t] = astat[t]
    BY <1>0, <1>4, <2>1 DEF AttachBind, Goto, TypeOK
  <2>3. QED BY <1>0, <2>2, GuestStands DEF Alive
<1>5. ASSUME NEW s \in Sessions, Intent(s) \/ Tick(s) \/ (\E res \in SaveResults : Autosave(s, res))
      PROVE  GuestOf(t)'
  <2>1. UNCHANGED <<pc, actorOf, astat>> BY <1>5 DEF Intent, Tick, Autosave, sessVars
  <2>2. QED BY <1>0, <2>1, GuestStands DEF Alive
<1>6. ASSUME NEW a \in Sessions, StopFlush(a) PROVE GuestOf(t)'
  <2>1. UNCHANGED <<pc, actorOf>> /\ astat' = [astat EXCEPT ![a] = "done"]
    BY <1>6 DEF StopFlush, sessVars
  <2>2. Alive(t)' => Alive(t) BY <1>0, <2>1 DEF Alive, TypeOK
  <2>3. QED BY <1>0, <2>1, <2>2, GuestStands
<1>7. ASSUME NEW s \in Sessions, Leave(s) \/ DetachBegin(s) PROVE GuestOf(t)'
  <2>1. UNCHANGED <<actorOf, astat>> BY <1>7 DEF Leave, DetachBegin, actorVars
  <2>2. CASE t = s
    <3>1. pc[s] \in {"live", "detach"} /\ pc'[s] \in {"detach", "detaching"}
      BY <1>0, <1>7 DEF Leave, Dismissed, DetachBegin, Goto, TypeOK
    <3>2. QED BY <1>0, <2>1, <2>2, <3>1 DEF GuestOf
  <2>3. CASE t # s
    <3>1. pc'[t] = pc[t] BY <1>0, <1>7, <2>3 DEF Leave, DetachBegin, Goto, TypeOK
    <3>2. QED BY <1>0, <2>1, <3>1, GuestStands DEF Alive
  <2>4. QED BY <2>2, <2>3
<1>8. ASSUME NEW s \in Sessions, DetachDo(s) PROVE GuestOf(t)'
  <2>1. actorOf[s] \in Sessions BY <1>0, <1>8, ActorOfType DEF DetachDo
  <2>2. PICK a \in Sessions : a = actorOf[s] BY <2>1
  <2>3. astat[a] # "none" /\ pc[s] = "detaching" /\ actorOf' = actorOf
    BY <1>0, <1>8, <2>2 DEF Handles, DetachDo
  <2>4. CASE t = s
    <3>1. a = s BY <1>0, <2>2, <2>3, <2>4 DEF GuestOf
    <3>2. CASE astat[s] = "done"
      <4>1. pc'[s] = "close" /\ astat' = astat
        BY <1>0, <1>8, <2>2, <3>1, <3>2 DEF DetachDo, Goto, TypeOK
      <4>2. QED BY <1>0, <2>3, <2>4, <3>2, <4>1 DEF GuestOf, Alive
    <3>3. CASE astat[s] # "done"
      <4>1. Released(s, s) = None BY <2>4, GuestOwnsItself DEF Released
      <4>2. StopRule(s, None, TRUE) /\ StopRule(s, None, FALSE) BY <2>4 DEF StopRule
      <4>3. Goto(s, "stopping")
        BY <1>8, <2>2, <2>4, <3>1, <3>3, <4>1 DEF DetachDo, StopRule
      <4>4. pc'[s] = "stopping" BY <1>0, <4>3 DEF Goto, TypeOK
      <4>5. QED BY <1>0, <2>3, <2>4, <4>4 DEF GuestOf
    <3>4. QED BY <3>2, <3>3
  <2>5. CASE t # s
    <3>1. pc'[t] = pc[t] BY <1>0, <1>8, <2>5 DEF DetachDo, Goto, TypeOK
    <3>2. astat' = astat \/ (astat[a] # "done" /\ astat' = [astat EXCEPT ![a] = "stopping"])
      BY <1>8, <2>2 DEF DetachDo
    <3>3. Alive(t)' => Alive(t) BY <1>0, <2>3, <3>2 DEF Alive, TypeOK
    <3>4. QED BY <1>0, <2>3, <3>1, <3>3, GuestStands
  <2>6. QED BY <2>4, <2>5
<1>9. ASSUME NEW s \in Sessions, DetachEnd(s) \/ CloseStream(s) PROVE GuestOf(t)'
  <2>1. UNCHANGED <<actorOf, astat>> BY <1>9 DEF DetachEnd, CloseStream, actorVars
  <2>2. CASE t = s
    <3>1. pc'[s] \in {"close", "gone"} /\ pc[s] \in {"stopping", "close"}
      BY <1>0, <1>9 DEF DetachEnd, CloseStream, Goto, TypeOK
    <3>2. actorOf[s] = s BY <1>0, <2>2, <3>1 DEF GuestOf
    <3>3. ~Alive(s) BY <1>0, <1>9, <2>2, <3>2 DEF DetachEnd, CloseStream, GuestOf, Alive
    <3>4. QED BY <2>1, <2>2, <3>1, <3>2, <3>3 DEF GuestOf, Alive
  <2>3. CASE t # s
    <3>1. pc'[t] = pc[t] BY <1>0, <1>9, <2>3 DEF DetachEnd, CloseStream, Goto, TypeOK
    <3>2. QED BY <1>0, <2>1, <3>1, GuestStands DEF Alive
  <2>4. QED BY <2>2, <2>3
<1>10. CASE ShutdownStep
  <2>1. UNCHANGED <<pc, actorOf>>
    BY <1>10 DEF ShutdownStep, ShutdownBegin, ShutdownKick, ShutdownStop, ShutdownNext, ShutdownDone,
                 ShutdownTimeout, sessVars
  <2>2. astat' = astat \/ (sd = "lock" /\ astat' = Stopped(cur))
    BY <1>10 DEF ShutdownStep, ShutdownBegin, ShutdownKick, ShutdownStop, ShutdownNext, ShutdownDone,
                 ShutdownTimeout, actorVars
  <2>3. sd = "lock" => cur \in Sessions /\ astat[cur] # "none" BY <1>0 DEF Registration, TypeOK
  <2>4. Alive(t)' => Alive(t) BY <1>0, <2>2, <2>3 DEF Alive, Stopped, TypeOK
  <2>5. QED BY <1>0, <2>1, <2>4, GuestStands
<1>11. CASE Reboot
  <2>1. pc'[t] \in {"new", "gone"} /\ astat'[t] = "none" BY <1>11 DEF Reboot
  <2>2. QED BY <2>1 DEF GuestOf, Alive
<1>12. CASE UNCHANGED vars
  <2>1. UNCHANGED <<pc, actorOf, astat>> BY <1>12 DEF vars, sessVars, actorVars
  <2>2. QED BY <1>0, <2>1, GuestStands DEF Alive
<1>13. QED
  BY <1>1, <1>2, <1>3, <1>4, <1>5, <1>6, <1>7, <1>8, <1>9, <1>10, <1>11, <1>12
  DEF Next, AttachStep, DetachStep, ActorStep, Crash, Exit, Quiet

-----------------------------------------------------------------------------
(* Shutdown. *)

\* Once Shutdown has begun no actor comes to life.
LEMMA NoNewActors ==
  ASSUME IInv, Next, sd # "idle", NEW a \in Sessions, Alive(a)'
  PROVE  Alive(a)
<1>0. TypeOK /\ Handles /\ Registration /\ Locking BY DEF IInv
<1>1. \A s \in Sessions : pc[s] \notin {"attach", "bind"} BY <1>0 DEF Locking
<1>2. ASSUME NEW s \in Sessions, AttachStep(s) \/ Intent(s) \/ Leave(s) PROVE Alive(a)
  <2>1. astat' = astat
    BY <1>1, <1>2 DEF AttachStep, AttachBegin, AttachGuest, AttachFail, AttachLoad, AttachFound,
                      AttachBind, Intent, Leave, actorVars
  <2>2. QED BY <2>1 DEF Alive
<1>3. ASSUME NEW s \in Sessions, DetachStep(s) PROVE Alive(a)
  <2>1. astat' = astat \/ (DetachDo(s) /\ astat[actorOf[s]] # "done"
                             /\ astat' = [astat EXCEPT ![actorOf[s]] = "stopping"])
    BY <1>3 DEF DetachStep, DetachBegin, DetachDo, DetachEnd, CloseStream, actorVars
  <2>2. DetachDo(s) => actorOf[s] \in Sessions /\ astat[actorOf[s]] # "none"
    BY <1>0 DEF DetachDo, Handles
  <2>3. QED BY <1>0, <2>1, <2>2 DEF Alive, TypeOK
<1>4. ASSUME NEW b \in Sessions, ActorStep(b) PROVE Alive(a)
  <2>1. astat' = astat \/ astat' = [astat EXCEPT ![b] = "done"]
    BY <1>4 DEF ActorStep, Tick, Autosave, StopFlush
  <2>2. QED BY <1>0, <2>1 DEF Alive, TypeOK
<1>5. CASE ShutdownStep
  <2>1. astat' = astat \/ (sd = "lock" /\ astat' = Stopped(cur))
    BY <1>5 DEF ShutdownStep, ShutdownBegin, ShutdownKick, ShutdownStop, ShutdownNext, ShutdownDone,
                ShutdownTimeout, actorVars
  <2>2. sd = "lock" => cur \in Sessions /\ astat[cur] # "none" BY <1>0 DEF Registration, TypeOK
  <2>3. QED BY <1>0, <2>1, <2>2 DEF Alive, Stopped, TypeOK
<1>6. CASE Reboot BY <1>6 DEF Reboot, Alive
<1>7. CASE UNCHANGED vars BY <1>7 DEF vars, actorVars, Alive
<1>8. QED BY <1>2, <1>3, <1>4, <1>5, <1>6, <1>7 DEF Next, Crash, Exit, Quiet

LEMMA DrainedNext ==
  ASSUME IInv, Drained, [Next]_vars
  PROVE  Drained'
<1>0. TypeOK /\ Registration BY DEF IInv
<1>1. CASE Next /\ UNCHANGED downVars
  <2>1. UNCHANGED <<sd, todo, flushErr, ret>> BY <1>1 DEF downVars
  <2>2. sd # "idle" => \A a \in Sessions : Alive(a)' => Alive(a) BY <1>1, NoNewActors
  <2>3. QED BY <2>1, <2>2 DEF Drained
<1>2. CASE ShutdownBegin
  <2>1. astat' = astat /\ todo' = Copied /\ sd' = "kick" /\ ret' = ret /\ flushErr' = flushErr /\ sd = "idle"
    BY <1>2 DEF ShutdownBegin, actorVars
  <2>2. ASSUME NEW a \in Sessions, Alive(a) PROVE a \in Copied
    <3>1. registry[KeyOf[a]] = a /\ KeyOf[a] \in Keys BY <1>0, <2>2, KeyOfType DEF Registration
    <3>2. QED BY <3>1, ConstantsAssumption DEF Copied
  <2>3. QED BY <2>1, <2>2 DEF Drained, Alive
<1>3. ASSUME NEW a \in Sessions, ShutdownKick(a) PROVE Drained'
  <2>1. /\ astat' = astat /\ todo' = todo /\ sd = "kick" /\ sd' = "lock" /\ ret' = ret
        /\ flushErr' = flushErr
    BY <1>3 DEF ShutdownKick
  <2>2. QED BY <2>1 DEF Drained, Alive
<1>4. CASE ShutdownStop
  <2>1. /\ todo' = todo /\ sd = "lock" /\ sd' = "wait" /\ ret' = ret /\ flushErr' = flushErr
    BY <1>4 DEF ShutdownStop
  <2>2. \A a \in Sessions : Alive(a)' => Alive(a)
    BY <1>4, <2>1, NoNewActors DEF Next, ShutdownStep
  <2>3. QED BY <2>1, <2>2 DEF Drained
<1>5. CASE ShutdownNext
  <2>1. /\ astat' = astat /\ todo' = todo \ {cur} /\ sd = "wait" /\ sd' = "kick" /\ ret' = ret
        /\ astat[cur] = "done"
    BY <1>5 DEF ShutdownNext, actorVars
  <2>2. ret # "nil" BY <2>1 DEF Drained
  <2>3. \A a \in Sessions : Alive(a) => a # cur BY <2>1 DEF Alive
  <2>4. QED BY <2>1, <2>2, <2>3 DEF Drained, Alive
<1>6. CASE ShutdownDone
  <2>1. /\ astat' = astat /\ todo' = todo /\ todo = {} /\ sd' = "finished" /\ sd = "kick"
        /\ flushErr' = flushErr
        /\ ret' = IF ret # "none" THEN ret ELSE IF flushErr THEN "error" ELSE "nil"
    BY <1>6 DEF ShutdownDone, actorVars
  <2>2. QED BY <2>1 DEF Drained, Alive
<1>7. CASE ShutdownTimeout
  <2>1. astat' = astat /\ todo' = todo /\ sd' = sd /\ ret' = "timeout"
    BY <1>7 DEF ShutdownTimeout, actorVars
  <2>2. QED BY <2>1 DEF Drained, Alive
<1>8. CASE Reboot BY <1>8 DEF Reboot, Drained
<1>9. CASE UNCHANGED vars
  <2>1. UNCHANGED <<sd, todo, flushErr, ret, astat>> BY <1>9 DEF vars, downVars, actorVars
  <2>2. QED BY <2>1 DEF Drained, Alive
<1>10. ASSUME NEW s \in Sessions,
              AttachStep(s) \/ Intent(s) \/ Leave(s) \/ DetachStep(s) \/ ActorStep(s)
       PROVE  UNCHANGED downVars
  BY <1>10 DEF AttachStep, AttachBegin, AttachGuest, AttachFail, AttachLoad, AttachFound, AttachBind,
               Intent, Leave, DetachStep, DetachBegin, DetachDo, DetachEnd, CloseStream, ActorStep,
               Tick, Autosave, StopFlush
<1>11. QED
  BY <1>1, <1>2, <1>3, <1>4, <1>5, <1>6, <1>7, <1>8, <1>9, <1>10
  DEF Next, ShutdownStep, Crash, Exit, Quiet

\* Nothing that matters to the flush of b happens in this step.
LEMMA FlushedStands ==
  ASSUME TypeOK, TypeOK', Forward, NEW b \in Sessions, FlushedOf(b), finalErr'[b] = finalErr[b],
         flushErr => flushErr', sd = "wait" /\ cur = b => sd' = "wait" /\ cur' = b,
         astat'[b] = "stopping" => astat[b] = "stopping" /\ (dirty'[b] => dirty[b]),
         astat'[b] = "done" => astat[b] = "done" /\ mem'[b] = mem[b]
  PROVE  FlushedOf(b)'
<1>1. finalErr'[b] => flushErr' \/ (sd' = "wait" /\ cur' = b) BY DEF FlushedOf
<1>2. astat'[b] = "stopping" /\ Keyed(b) => (sd' = "wait" /\ cur' = b) \/ ~dirty'[b] BY DEF FlushedOf
<1>3. ASSUME astat'[b] = "done", Keyed(b), ~finalErr'[b] PROVE disk'[KeyOf[b]].ver >= mem'[b].ver
  <2>1. disk[KeyOf[b]].ver >= mem[b].ver /\ mem'[b] = mem[b] BY <1>3 DEF FlushedOf
  <2>2. KeyOf[b] \in Keys BY KeyOfType
  <2>3. disk'[KeyOf[b]].ver >= disk[KeyOf[b]].ver BY <2>2 DEF Forward
  <2>4. disk'[KeyOf[b]].ver \in Nat /\ disk[KeyOf[b]].ver \in Nat /\ mem[b].ver \in Nat
    BY <2>2 DEF TypeOK, State
  <2>5. QED BY <2>1, <2>3, <2>4
<1>4. QED BY <1>1, <1>2, <1>3 DEF FlushedOf, Keyed

\* A flush that meets no error leaves the row at the actor's state.
LEMMA StopFlushFlushed ==
  ASSUME JInv, JInv', Flushed, NEW a \in Sessions, StopFlush(a)
  PROVE  FlushedOf(a)'
<1> DEFINE d == dirty[a] \/ (Keyed(a) /\ InRun(mem[a]))
<1>0. TypeOK /\ Ownership /\ Clean /\ FlushedOf(a) BY DEF JInv, IInv, Flushed
<1>1. astat[a] = "stopping" /\ Alive(a) BY DEF StopFlush, Alive
<1>2. PICK m \in IF Keyed(a) THEN Resolved(mem[a]) ELSE {mem[a]}, res \in SaveResults :
         /\ mem' = [mem EXCEPT ![a] = m]
         /\ disk' = Written(a, m, d, owner[a], res)
         /\ finalErr' = [finalErr EXCEPT ![a] = PersistErr(a, m, d, owner[a], res)]
  BY DEF StopFlush
<1>3. /\ UNCHANGED <<sd, cur, flushErr>> /\ astat' = [astat EXCEPT ![a] = "done"]
  BY DEF StopFlush, downVars
<1>4. owner[a] = None BY <1>0, <1>1 DEF Ownership
<1>5. mem[a] \in State /\ KeyOf[a] \in Keys BY <1>0, KeyOfType DEF TypeOK
<1>6. m \in State
  <2>1. CASE Keyed(a) BY <1>2, <1>5, <2>1, ResolvedFacts
  <2>2. CASE ~Keyed(a) BY <1>2, <1>5, <2>2
  <2>3. QED BY <2>1, <2>2
<1>7. astat'[a] = "done" /\ mem'[a] = m /\ (finalErr'[a] <=> PersistErr(a, m, d, owner[a], res))
  BY <1>0, <1>2, <1>3 DEF TypeOK
<1>8. ASSUME Keyed(a), ~dirty[a] PROVE ~d /\ m = mem[a] /\ disk[KeyOf[a]].ver = mem[a].ver
  <2>1. ~InRun(mem[a]) /\ disk[KeyOf[a]].ver = mem[a].ver BY <1>0, <1>1, <1>4, <1>8 DEF Clean
  <2>2. m = mem[a] BY <1>2, <1>8, <2>1 DEF Resolved
  <2>3. QED BY <1>8, <2>1, <2>2
<1> HIDE DEF d
<1>9. PersistErr(a, m, d, owner[a], res) => Keyed(a) /\ d BY DEF PersistErr
<1>10. finalErr'[a] => sd' = "wait" /\ cur' = a
  <2> SUFFICES ASSUME finalErr'[a] PROVE sd' = "wait" /\ cur' = a OBVIOUS
  <2>1. Keyed(a) /\ d BY <1>7, <1>9
  <2>2. dirty[a] BY <1>8, <2>1
  <2>3. QED BY <1>0, <1>1, <1>3, <2>1, <2>2 DEF FlushedOf
<1>11. ASSUME Keyed(a), ~finalErr'[a] PROVE disk'[KeyOf[a]].ver >= mem'[a].ver
  <2>1. m.ver \in Nat BY <1>6 DEF State
  <2>2. CASE ~d
    <3>1. disk' = disk BY <1>2, <2>2 DEF Written, Attempts
    <3>2. ~dirty[a] BY <2>2 DEF d
    <3>3. disk'[KeyOf[a]].ver = m.ver BY <1>8, <1>11, <3>1, <3>2
    <3>4. QED BY <1>7, <2>1, <3>3
  <2>3. CASE d
    <3>1. ~Stuck(m, owner[a]) /\ res = "ok" BY <1>7, <1>11, <2>3 DEF PersistErr
    <3>2. disk' = [disk EXCEPT ![KeyOf[a]] = Encode(m)]
      BY <1>2, <1>11, <2>3, <3>1 DEF Written, Attempts
    <3>3. disk'[KeyOf[a]].ver = m.ver BY <1>0, <1>5, <1>6, <3>2, EncodeFacts DEF TypeOK
    <3>4. QED BY <1>7, <2>1, <3>3
  <2>4. QED BY <2>2, <2>3
<1>12. QED BY <1>7, <1>10, <1>11 DEF FlushedOf, Keyed

\* While a detach holds m.mu nobody is stopping an actor.
LEMMA DetachingMeetsRunning ==
  ASSUME IInv, NEW s \in Sessions, pc[s] = "detaching", astat[actorOf[s]] # "done"
  PROVE  astat[actorOf[s]] = "running"
<1> DEFINE a == actorOf[s]
<1>0. TypeOK /\ Handles /\ Registration /\ Locking BY DEF IInv
<1>1. a \in Sessions /\ astat[a] # "none" /\ KeyOf[a] \in Keys BY <1>0, KeyOfType DEF Handles
<1>2. mu = s BY <1>0 DEF Locking
<1>3. ~Stopper(a)
  <2>1. sd # "wait" BY <1>0, <1>2, ConstantsAssumption DEF Locking
  <2>2. \A t \in Sessions : pc[t] # "stopping" BY <1>0, <1>2 DEF Locking
  <2>3. QED BY <2>1, <2>2 DEF Stopper
<1>4. ASSUME astat[a] = "stopping" PROVE FALSE
  <2>1. registry[KeyOf[a]] = a BY <1>0, <1>1, <1>4 DEF Registration, Alive
  <2>2. QED BY <1>0, <1>1, <1>3, <1>4, <2>1, ConstantsAssumption DEF Registration
<1>5. QED BY <1>0, <1>1, <1>4 DEF TypeOK

LEMMA FlushedNext ==
  ASSUME JInv, JInv', Flushed, [Next]_vars, NEW b \in Sessions
  PROVE  FlushedOf(b)'
<1>0. /\ IInv /\ TypeOK /\ TypeOK' /\ Handles /\ Registration /\ Ownership /\ Locking /\ Ahead
      /\ FlushedOf(b)
  BY DEF JInv, IInv, Flushed
<1>01. Forward BY <1>0, AheadNext
<1>1. ASSUME NEW s \in Sessions,
             AttachBegin(s) \/ AttachFail(s) \/ AttachFound(s) \/ Leave(s) \/ DetachBegin(s)
               \/ DetachEnd(s) \/ CloseStream(s)
      PROVE  FlushedOf(b)'
  <2>1. UNCHANGED <<astat, mem, dirty, finalErr, flushErr, sd, cur>>
    BY <1>1 DEF AttachBegin, AttachFail, AttachFound, Leave, DetachBegin, DetachEnd, CloseStream,
                actorVars, downVars
  <2>2. QED BY <1>0, <1>01, <2>1, FlushedStands
<1>2. ASSUME NEW s \in Sessions, AttachGuest(s) \/ AttachLoad(s) PROVE FlushedOf(b)'
  <2>1. /\ UNCHANGED <<dirty, finalErr, flushErr, sd, cur>>
        /\ \/ UNCHANGED <<astat, mem>>
           \/ \E m : astat' = [astat EXCEPT ![s] = "running"] /\ mem' = [mem EXCEPT ![s] = m]
    BY <1>2 DEF AttachGuest, AttachLoad, NewActor, actorVars, downVars
  <2>2. /\ astat'[b] = "stopping" => astat[b] = "stopping"
        /\ astat'[b] = "done" => astat[b] = "done" /\ mem'[b] = mem[b]
    BY <1>0, <2>1 DEF TypeOK
  <2>3. QED BY <1>0, <1>01, <2>1, <2>2, FlushedStands
<1>3. ASSUME NEW s \in Sessions, AttachBind(s) PROVE FlushedOf(b)'
  <2>1. astat[actorOf[s]] = "running" BY <1>0, <1>3, FoundIsRunning DEF AttachBind
  <2>2. /\ UNCHANGED <<astat, mem, finalErr, flushErr, sd, cur>>
        /\ dirty' = dirty \/ dirty' = [dirty EXCEPT ![actorOf[s]] = TRUE]
    BY <1>3 DEF AttachBind, downVars
  <2>3. astat[b] = "stopping" => dirty'[b] = dirty[b] BY <1>0, <2>1, <2>2 DEF TypeOK
  <2>4. QED BY <1>0, <1>01, <2>2, <2>3, FlushedStands
<1>4. ASSUME NEW a \in Sessions, astat[a] = "running", NEW m, mem' = [mem EXCEPT ![a] = m],
             dirty' = [dirty EXCEPT ![a] = TRUE], UNCHANGED <<astat, finalErr, downVars>>
      PROVE  FlushedOf(b)'
  <2>1. UNCHANGED <<flushErr, sd, cur>> BY <1>4 DEF downVars
  <2>2. /\ astat[b] = "stopping" => dirty'[b] = dirty[b]
        /\ astat[b] = "done" => mem'[b] = mem[b]
    BY <1>0, <1>4 DEF TypeOK
  <2>3. QED BY <1>0, <1>01, <1>4, <2>1, <2>2, FlushedStands
<1>5. ASSUME NEW s \in Sessions, Intent(s) PROVE FlushedOf(b)'
  <2>1. actorOf[s] \in Sessions BY <1>0, <1>5, ActorOfType DEF Intent
  <2>2. PICK a \in Sessions : a = actorOf[s] BY <2>1
  <2>3. PICK m \in AfterIntent(mem[a]) : mem' = [mem EXCEPT ![a] = m] BY <1>5, <2>2 DEF Intent
  <2>4. astat[a] = "running" BY <1>0, <1>5, <2>2, ConstantsAssumption DEF Intent, Ownership
  <2>5. dirty' = [dirty EXCEPT ![a] = TRUE] /\ UNCHANGED <<astat, finalErr, downVars>>
    BY <1>5, <2>2 DEF Intent
  <2>6. QED BY <1>4, <2>3, <2>4, <2>5
<1>6. ASSUME NEW a \in Sessions, Tick(a) PROVE FlushedOf(b)'
  <2>1. PICK m \in AfterTick(mem[a]) : mem' = [mem EXCEPT ![a] = m] BY <1>6 DEF Tick
  <2>2. astat[a] = "running" BY <1>0, <1>6 DEF Tick, Ticks, Ownership
  <2>3. dirty' = [dirty EXCEPT ![a] = TRUE] /\ UNCHANGED <<astat, finalErr, downVars>>
    BY <1>6 DEF Tick
  <2>4. QED BY <1>4, <2>1, <2>2, <2>3
<1>7. ASSUME NEW a \in Sessions, NEW res \in SaveResults, Autosave(a, res) PROVE FlushedOf(b)'
  <2>1. /\ UNCHANGED <<astat, mem, finalErr, flushErr, sd, cur>>
        /\ dirty' = [dirty EXCEPT ![a] = StillDirty(a, mem[a], dirty[a], owner[a], res)]
    BY <1>7 DEF Autosave, downVars
  <2>2. StillDirty(a, mem[a], dirty[a], owner[a], res) => dirty[a] BY DEF StillDirty
  <2>3. dirty'[b] => dirty[b] BY <1>0, <2>1, <2>2 DEF TypeOK
  <2>4. QED BY <1>0, <1>01, <2>1, <2>3, FlushedStands
<1>8. ASSUME NEW a \in Sessions, StopFlush(a) PROVE FlushedOf(b)'
  <2>1. CASE b = a BY <1>8, <2>1, StopFlushFlushed
  <2>2. CASE b # a
    <3>1. /\ \E m : mem' = [mem EXCEPT ![a] = m]
          /\ \E e : finalErr' = [finalErr EXCEPT ![a] = e]
          /\ \E f : dirty' = [dirty EXCEPT ![a] = f]
      BY <1>8 DEF StopFlush
    <3>2. astat' = [astat EXCEPT ![a] = "done"] /\ UNCHANGED <<flushErr, sd, cur>>
      BY <1>8 DEF StopFlush, downVars
    <3>3. astat'[b] = astat[b] /\ mem'[b] = mem[b] /\ dirty'[b] = dirty[b] /\ finalErr'[b] = finalErr[b]
      BY <1>0, <2>2, <3>1, <3>2 DEF TypeOK
    <3>4. QED BY <1>0, <1>01, <3>2, <3>3, FlushedStands
  <2>3. QED BY <2>1, <2>2
<1>9. ASSUME NEW s \in Sessions, DetachDo(s) PROVE FlushedOf(b)'
  <2>1. actorOf[s] \in Sessions BY <1>0, <1>9, ActorOfType DEF DetachDo
  <2>2. PICK a \in Sessions : a = actorOf[s] BY <2>1
  <2>3. UNCHANGED <<finalErr, flushErr, sd, cur>> BY <1>9 DEF DetachDo, downVars
  <2>4. CASE astat[a] = "done"
    <3>1. UNCHANGED <<astat, mem, dirty>> BY <1>9, <2>2, <2>4 DEF DetachDo
    <3>2. QED BY <1>0, <1>01, <2>3, <3>1, FlushedStands
  <2>5. CASE astat[a] # "done"
    <3> DEFINE w == Released(a, s)
               ab == owner[a] = s /\ Keyed(a) /\ InRun(mem[a])
    <3>1. PICK m \in IF ab THEN Resolved(mem[a]) ELSE {mem[a]}, res \in SaveResults :
            LET d2 == StillDirty(a, m, dirty[a] \/ ab, w, res)
            IN /\ mem' = [mem EXCEPT ![a] = m] /\ dirty' = [dirty EXCEPT ![a] = d2]
               /\ \/ StopRule(a, w, d2) /\ astat' = [astat EXCEPT ![a] = "stopping"]
                  \/ UNCHANGED astat
      BY <1>9, <2>2, <2>5 DEF DetachDo
    <3> DEFINE d2 == StillDirty(a, m, dirty[a] \/ ab, w, res)
    <3>2. /\ mem' = [mem EXCEPT ![a] = m] /\ dirty' = [dirty EXCEPT ![a] = d2]
          /\ \/ StopRule(a, w, d2) /\ astat' = [astat EXCEPT ![a] = "stopping"]
             \/ UNCHANGED astat
      BY <3>1
    <3> HIDE DEF d2, w, ab
    <3>3. astat[a] = "running" BY <1>0, <1>9, <2>2, <2>5, DetachingMeetsRunning DEF DetachDo
    <3>4. CASE b = a
      <4>1. dirty'[a] = d2 BY <1>0, <3>2 DEF TypeOK
      <4>2. CASE StopRule(a, w, d2) /\ astat' = [astat EXCEPT ![a] = "stopping"]
        <5>1. astat'[a] = "stopping" /\ (Keyed(a) => ~d2) BY <1>0, <4>2 DEF StopRule, TypeOK
        <5>2. QED BY <1>0, <2>3, <3>4, <4>1, <5>1 DEF FlushedOf, Keyed
      <4>3. CASE UNCHANGED astat
        <5>1. astat'[a] = "running" BY <3>3, <4>3
        <5>2. QED BY <1>0, <2>3, <3>4, <5>1 DEF FlushedOf
      <4>4. QED BY <3>2, <4>2, <4>3
    <3>5. CASE b # a
      <4>1. astat'[b] = astat[b] /\ mem'[b] = mem[b] /\ dirty'[b] = dirty[b]
        BY <1>0, <3>2, <3>5 DEF TypeOK
      <4>2. QED BY <1>0, <1>01, <2>3, <4>1, FlushedStands
    <3>6. QED BY <3>4, <3>5
  <2>6. QED BY <2>4, <2>5
<1>10. CASE ShutdownBegin \/ ShutdownDone \/ ShutdownTimeout
  <2>1. UNCHANGED <<astat, mem, dirty, finalErr, flushErr, cur>> /\ (sd = "wait" => sd' = sd)
    BY <1>10 DEF ShutdownBegin, ShutdownDone, ShutdownTimeout, actorVars
  <2>2. QED BY <1>0, <1>01, <2>1, FlushedStands
<1>11. ASSUME NEW a \in Sessions, ShutdownKick(a) PROVE FlushedOf(b)'
  <2>1. UNCHANGED <<astat, finalErr, flushErr>> /\ sd = "kick" BY <1>11 DEF ShutdownKick
  <2>2. CASE b # a \/ astat[a] = "done"
    <3>1. dirty'[b] = dirty[b] /\ mem'[b] = mem[b] BY <1>0, <1>11, <2>2 DEF ShutdownKick, TypeOK
    <3>2. QED BY <1>0, <1>01, <2>1, <3>1, FlushedStands
  <2>3. CASE b = a /\ astat[a] # "done"
    <3>1. astat[a] = "stopping" => dirty'[a] = dirty[a]
      <4> SUFFICES ASSUME astat[a] = "stopping" PROVE dirty'[a] = dirty[a] OBVIOUS
      <4>1. owner[a] = None BY <1>0 DEF Ownership
      <4>2. QED BY <1>0, <1>11, <2>3, <4>1 DEF ShutdownKick, TypeOK
    <3>2. QED BY <1>0, <1>01, <2>1, <2>3, <3>1, FlushedStands
  <2>4. QED BY <2>2, <2>3
<1>12. CASE ShutdownStop
  <2>1. /\ UNCHANGED <<mem, dirty, finalErr, flushErr, cur>> /\ astat' = Stopped(cur)
        /\ sd = "lock" /\ sd' = "wait"
    BY <1>12 DEF ShutdownStop
  <2>2. cur \in Sessions BY <1>0, <2>1 DEF Registration, TypeOK
  <2>3. CASE b = cur
    <3>1. astat'[b] = "done" => astat[b] = "done" BY <1>0, <2>1, <2>2, <2>3 DEF Stopped, TypeOK
    <3>2. disk' = disk BY <1>12 DEF ShutdownStop
    <3>3. QED BY <1>0, <2>1, <2>3, <3>1, <3>2 DEF FlushedOf, Keyed
  <2>4. CASE b # cur
    <3>1. astat'[b] = astat[b] BY <1>0, <2>1, <2>2, <2>4 DEF Stopped, TypeOK
    <3>2. QED BY <1>0, <1>01, <2>1, <3>1, FlushedStands
  <2>5. QED BY <2>3, <2>4
<1>13. CASE ShutdownNext
  <2>1. /\ UNCHANGED <<astat, mem, dirty, finalErr, disk>> /\ flushErr' = (flushErr \/ finalErr[cur])
        /\ astat[cur] = "done"
    BY <1>13 DEF ShutdownNext, actorVars, Joined
  <2>2. finalErr[b] => flushErr' BY <1>0, <2>1 DEF FlushedOf
  <2>3. astat[b] = "stopping" => b # cur BY <2>1
  <2>4. QED BY <1>0, <2>1, <2>2, <2>3 DEF FlushedOf, Keyed
<1>14. CASE Reboot BY <1>14 DEF Reboot, FlushedOf
<1>15. CASE UNCHANGED vars
  <2>1. UNCHANGED <<astat, mem, dirty, finalErr, flushErr, sd, cur>>
    BY <1>15 DEF vars, actorVars, downVars
  <2>2. QED BY <1>0, <1>01, <2>1, FlushedStands
<1>16. QED
  BY <1>1, <1>2, <1>3, <1>5, <1>6, <1>7, <1>8, <1>9, <1>10, <1>11, <1>12, <1>13, <1>14, <1>15
  DEF Next, AttachStep, DetachStep, ActorStep, ShutdownStep, Crash, Exit, Quiet

-----------------------------------------------------------------------------
(* The theorems. *)

LEMMA KInvInit == Init => KInv
<1> SUFFICES ASSUME Init PROVE KInv OBVIOUS
<1>1. JInv BY JInvInit
<1>2. \A s \in Sessions : pc[s] = "new" /\ astat[s] = "none" /\ finalErr[s] = FALSE BY DEF Init
<1>3. \A k \in Guests : GuestRow(k) BY DEF Init, GuestRow, Keys
<1>4. Guestly BY <1>2, <1>3 DEF Guestly, GuestOf
<1>5. Drained BY DEF Init, Drained
<1>6. Flushed BY <1>2 DEF Flushed, FlushedOf
<1>7. QED BY <1>1, <1>4, <1>5, <1>6 DEF KInv

LEMMA KInvNext == KInv /\ [Next]_vars => KInv'
<1> SUFFICES ASSUME KInv, [Next]_vars PROVE KInv' OBVIOUS
<1>1. JInv /\ IInv /\ Guestly /\ Drained /\ Flushed BY DEF KInv, JInv
<1>2. JInv' BY <1>1, JInvNext
<1>3. \A s \in Sessions : ~Keyed(s) => GuestOf(s)' BY <1>1, GuestNext
<1>4. \A k \in Guests : GuestRow(k)' BY <1>1, GuestRowsNext DEF Guestly
<1>5. Guestly' BY <1>3, <1>4 DEF Guestly, Keyed
<1>6. Drained' BY <1>1, DrainedNext
<1>7. Flushed' BY <1>1, <1>2, FlushedNext DEF Flushed
<1>8. QED BY <1>2, <1>5, <1>6, <1>7 DEF KInv

LEMMA KInvAlways == Spec => []KInv
  BY KInvInit, KInvNext, PTL DEF Spec

\* A guest leaves nothing behind, whoever else comes and goes: no row, and no
\* actor once its terminal has gone (persist and detach's stop rule).
THEOREM NothingLeftOfGuests == Spec => []GuestsLeaveNothing
<1>1. ASSUME KInv PROVE GuestsLeaveNothing
  <2>1. ASSUME NEW s \in Sessions, ~Keyed(s)
        PROVE  disk[KeyOf[s]] = NoRow /\ (pc[s] = "gone" => ~Alive(s))
    <3>1. KeyOf[s] \in Guests BY <2>1, KeyOfType DEF Keyed, Keys
    <3>2. QED BY <1>1, <2>1, <3>1 DEF KInv, Guestly, GuestRow, GuestOf
  <2>2. QED BY <2>1 DEF GuestsLeaveNothing
<1>2. QED BY <1>1, KInvAlways, PTL

\* Shutdown returns nil only with every save ever opened stored as it was last
\* changed, whatever failed writes and detaches went before (manager.go,
\* Shutdown's errors.Join; actor.go, finalErr).
THEOREM NilMeansSaved == Spec => []NilShutdownSavedAll
<1>1. ASSUME KInv PROVE NilShutdownSavedAll
  <2>1. SUFFICES ASSUME ret = "nil", NEW a \in Sessions, astat[a] # "none", Keyed(a)
                 PROVE  disk[KeyOf[a]].ver >= mem[a].ver
    BY DEF NilShutdownSavedAll
  <2>2. sd = "finished" /\ ~flushErr /\ todo = {} BY <1>1, <2>1 DEF KInv, Drained
  <2>3. ~Alive(a) BY <1>1, <2>2 DEF KInv, Drained
  <2>4. astat[a] = "done" BY <1>1, <2>1, <2>3 DEF KInv, JInv, IInv, TypeOK, Alive
  <2>5. FlushedOf(a) BY <1>1 DEF KInv, Flushed
  <2>6. QED BY <2>1, <2>2, <2>4, <2>5 DEF FlushedOf
<1>2. QED BY <1>1, KInvAlways, PTL

\* No step hands an occupied seat to somebody else.
LEMMA SeatsNext ==
  ASSUME Policy = "refuse", IInv, [Next]_vars, NEW a \in Sessions, owner[a] # None, owner'[a] # None
  PROVE  owner'[a] = owner[a]
<1>0. TypeOK /\ Ownership /\ Handles BY DEF IInv
<1>1. ASSUME NEW s \in Sessions, AttachGuest(s) \/ AttachLoad(s) PROVE owner'[a] = owner[a]
  <2>1. a # s BY <1>0, <1>1 DEF AttachGuest, AttachLoad, Handles, Ownership
  <2>2. QED BY <1>0, <1>1, <2>1 DEF AttachGuest, AttachLoad, NewActor, actorVars, TypeOK
<1>2. ASSUME NEW s \in Sessions, AttachBind(s) PROVE owner'[a] = owner[a]
  BY <1>0, <1>2 DEF AttachBind, Busy, TypeOK
<1>3. ASSUME NEW s \in Sessions, DetachDo(s) PROVE owner'[a] = owner[a]
  BY <1>0, <1>3 DEF DetachDo, Released, TypeOK
<1>4. ASSUME NEW b \in Sessions, ShutdownKick(b) PROVE owner'[a] = owner[a]
  BY <1>0, <1>4 DEF ShutdownKick, TypeOK
<1>5. CASE Reboot BY <1>5 DEF Reboot
<1>6. CASE UNCHANGED owner BY <1>6
<1>7. QED
  BY <1>1, <1>2, <1>3, <1>4, <1>5, <1>6
  DEF Next, AttachStep, DetachStep, ActorStep, ShutdownStep, Crash, Exit, Quiet, vars, actorVars,
      AttachBegin, AttachFail, AttachFound, Intent, Leave, Tick, Autosave, StopFlush, DetachBegin,
      DetachEnd, CloseStream, ShutdownBegin, ShutdownStop, ShutdownNext, ShutdownDone, ShutdownTimeout

\* Under the refuse policy no other terminal moves a pilot out of its seat
\* (manager.go, Attach's closure).
THEOREM SeatsAreKept ==
  ASSUME Policy = "refuse"
  PROVE  Spec => SeatIsKept
<1>1. IInv /\ [Next]_vars =>
        [\A a \in Sessions : owner[a] # None /\ owner'[a] # None => owner'[a] = owner[a]]_vars
  BY SeatsNext
<1>2. QED BY <1>1, IInvAlways, PTL DEF Spec, SeatIsKept
=============================================================================
