------------------------------ MODULE Terminal ------------------------------
(***************************************************************************)
(* One terminal and the save it plays: the actor that ticks the save and   *)
(* streams snapshots (internal/game/actor.go, session.go), and the Bubble  *)
(* Tea program that shows them and sends intents (internal/tui).           *)
(*                                                                         *)
(* The two run concurrently.  An intent is a call into the actor made from *)
(* inside Update, so the program sees its reply at once; a tick snapshot   *)
(* crosses a channel of bounded size, is dropped when that is full, and is *)
(* overtaken by every reply made before it is delivered.  The outcome of a *)
(* run crosses in a slot of its own, and a takeover or a shutdown in a     *)
(* third channel.                                                          *)
(*                                                                         *)
(* The save keeps what the screens depend on: the place, the number of     *)
(* contacts, the phase of the run, the notice.  Credits, fuel, cargo and   *)
(* what is fitted in a slot decide only whether the simulation refuses an  *)
(* intent or which dialog opens, and are free choices here; the modules    *)
(* Fleet and MiningRun say when they happen.                               *)
(***************************************************************************)
EXTENDS Naturals, Sequences, FiniteSets

CONSTANTS
    ChanCap,     \* capacity of Session.snapCh
    Rocks,       \* contacts in a fresh belt
    Slots,       \* slot rows of the shipyard
    Pages,       \* pages of the onboarding
    Countdown,   \* Jump.CountdownSeconds
    Calm,        \* Settings.ReducedMotion
    MaxStale,    \* bound: abandoned countdown timers
    None

Outcomes == {"survived", "lost"}

ASSUME TerminalAssumption ==
    /\ ChanCap \in Nat \ {0}
    /\ Rocks \in Nat \ {0}
    /\ Pages \in Nat \ {0}
    /\ Countdown \in Nat
    /\ Calm \in BOOLEAN
    /\ MaxStale \in Nat
    /\ None \notin Slots /\ None \notin Outcomes

VARIABLES
    save,     \* the actor's state, as far as screens tell it apart
    seat,     \* actor.session is this session
    stream,   \* snapshots sent and not yet handled by Update
    slot,     \* Session.lastOutcome
    kick,     \* a notice sits in Session.kicked
    guest,    \* id.IsGuest()
    g         \* the Game model

vars == <<save, seat, stream, slot, kick, guest, g>>

Phases   == {"none", "mining", "tribute", "escaping", "combat"}
Screens  == {"chart", "belt", "mining", "summary", "log", "shipyard", "death", "jump"}
Overlays == {"none", "help", "tweaks", "kicked", "onboard", "picker", "remove",
             "permit", "signalLost", "jump", "certify", "ferry", "guestQuit"}

Save == [at : {"dock", "belt"}, rocks : 0..Rocks, run : Phases, notice : BOOLEAN]

\* The screens that offer what only a docked ship may use.
PortScreens == {"chart", "shipyard", "log", "jump"}

----------------------------------------------------------------------------
(* What the simulation does to a save.                                     *)

Docked(s) == IF s.run # "none" THEN s ELSE [s EXCEPT !.at = "dock", !.rocks = 0]

\* A survivor is back in the belt, with the contact mined out or not; a lost
\* ship puts the pilot on the dock.
Survived(s) == {[s EXCEPT !.run = "none", !.rocks = n] : n \in {s.rocks, s.rocks - 1}}
Lost(s)     == [s EXCEPT !.run = "none", !.at = "dock", !.rocks = 0]

NextPhase == [mining   |-> {"mining", "tribute", "combat"},
              tribute  |-> {"tribute", "combat"},
              escaping |-> {"escaping"},
              combat   |-> {"combat"}]

\* <<state, outcome>> after one tick.
AfterTick(s) ==
    IF s.run = "none"
    THEN {<<s, None>>}
    ELSE {<<[s EXCEPT !.run = p], None>> : p \in NextPhase[s.run]}
         \cup {<<Lost(s), "lost">>}
         \cup (IF s.run \in {"escaping", "combat"}
               THEN {<<t, "survived">> : t \in Survived(s)} ELSE {})

----------------------------------------------------------------------------
(* The Game model.                                                         *)

\* The initial screen follows the restored place, whatever run is on.
InitialScreen(s) == IF s.at = "dock" THEN "chart" ELSE "belt"

NewGame(s, created) ==
    [scr     |-> InitialScreen(s),
     overlay |-> IF created THEN "onboard" ELSE IF s.notice THEN "signalLost" ELSE "none",
     snap    |-> s,
     shown   |-> None,
     entered |-> FALSE,
     intro   |-> FALSE,
     page    |-> 1,
     sel     |-> 0,
     row     |-> None,
     pending |-> None,
     beat    |-> 0,
     flash   |-> FALSE,
     ticks   |-> 0,
     stale   |-> 0,
     listen  |-> TRUE,
     alive   |-> TRUE,
     crashed |-> FALSE]

\* The interstitial is armed by the first snapshot of an engagement.
SyncCombatEntry(h) ==
    IF h.snap.run # "combat" THEN [h EXCEPT !.entered = FALSE]
    ELSE [h EXCEPT !.entered = TRUE,
                   !.intro = @ \/ (~h.entered /\ ~Calm)]

\* mutant: The outcome is taken while a run is on display.
Consumes_Early(h, out) == out # None /\ h.scr = "mining"

Consumes(h, out) == out # None /\ h.scr = "mining" /\ h.snap.run = "none"

\* A finished run goes to its summary; a lost ship to the death screen, which
\* is drawn without overlays and so closes any.
ConsumeRunOutcome(h, out) ==
    IF ~Consumes(h, out) THEN h
    ELSE IF out = "survived"
    THEN [h EXCEPT !.shown = out, !.intro = FALSE, !.scr = "summary"]
    ELSE [h EXCEPT !.shown = out, !.intro = FALSE, !.scr = "death", !.overlay = "none"]

\* h with s on display, before the outcome slot is looked at.
Displayed(h, s) ==
    SyncCombatEntry([h EXCEPT !.snap = s,
                              !.scr = IF s.run # "none" THEN "mining" ELSE @])

\* Only the order of revisions matters: a snapshot in the stream is late
\* once a reply of a later revision is on display.
Overtaken(q) == [i \in 1..Len(q) |-> [q[i] EXCEPT !.late = TRUE]]

\* refreshSnap of a reply, and what the handler does to the model after it.
AnswerThen(h, s, out, After(_)) ==
    LET d == Displayed(h, s) IN
    /\ save' = s
    /\ g' = After(ConsumeRunOutcome(d, out))
    /\ slot' = IF Consumes(d, out) THEN None ELSE out
    /\ stream' = Overtaken(stream)

Same(h) == h

Answer(h, s, out) == AnswerThen(h, s, out, Same)

\* The reply is an error: a flash, and nothing else.
Refused(h) == g' = h /\ UNCHANGED <<save, slot, stream>>

Quiet == UNCHANGED <<seat, kick, guest>>

\* An intent that may be refused: by the simulation, or because the seat is
\* gone.  h is the model the handler leaves on success, g on an error.
Intent(h, states) ==
    /\ Quiet
    /\ \/ seat /\ \E s \in states : Answer(h, s, slot)
       \/ Refused(g)

\* An intent whose error the handler ignores: a reply without the seat is
\* the zero snapshot, older than any.
Forced(h, s) ==
    /\ Quiet
    /\ IF seat THEN Answer(h, s, slot) ELSE Refused(h)

\* A save this session no longer sees.
Elsewhere == [at |-> "dock", rocks |-> 0, run |-> "none", notice |-> FALSE]

\* The program ends, by tea.Quit or by a panic, and the session detaches;
\* what its screens held is gone.
Quit(crash) ==
    /\ g' = [NewGame(Elsewhere, FALSE) EXCEPT !.alive = FALSE, !.crashed = crash]
    /\ save' = Elsewhere
    /\ seat' = FALSE
    /\ stream' = <<>>
    /\ slot' = None
    /\ kick' = FALSE
    /\ UNCHANGED guest

\* A key that only moves the model.
Local(h) == Quiet /\ Refused(h)

----------------------------------------------------------------------------
(* The session opens on a save at rest, or, by takeover, in the middle of  *)
(* a run: the actor keeps ticking it.                                      *)

Init ==
    /\ save \in {s \in Save :
                    /\ s.at = "dock" => s.rocks = 0 /\ s.run = "none"
                    /\ s.run # "none" => s.rocks > 0 /\ ~s.notice}
    /\ seat = TRUE
    /\ stream = <<>>
    /\ slot = None
    /\ kick = FALSE
    /\ guest \in BOOLEAN
    /\ \E created \in BOOLEAN :
          /\ guest => created          \* a guest's save is made by the attach
          /\ created => save.at = "dock" /\ ~save.notice
          /\ g = NewGame(save, created)

----------------------------------------------------------------------------
(* The actor.                                                              *)

\* mutant: The channel is not bounded.
Send_Overflows(s) == stream' = Append(stream, [state |-> s, late |-> FALSE])

\* The listener holds at most one snapshot that Update has not handled, so
\* the channel may be full with ChanCap of them outstanding, and must be
\* with one more.
Send(s) ==
    \/ Len(stream) <= ChanCap /\ stream' = Append(stream, [state |-> s, late |-> FALSE])
    \/ Len(stream) >= ChanCap /\ UNCHANGED stream

\* The outcome is stored before the snapshot is sent.
Tick ==
    /\ seat
    /\ save.at = "belt" \/ save.run # "none"
    /\ \E e \in AfterTick(save) :
          /\ save' = e[1]
          /\ slot' = IF e[2] # None THEN e[2] ELSE slot
          /\ Send(e[1])
    /\ UNCHANGED <<seat, kick, guest, g>>

\* Another terminal takes the save over, or the server shuts down: the
\* session loses the actor and its channels close; what they hold is still
\* delivered.
DeliverKick ==
    /\ seat
    /\ seat' = FALSE
    /\ kick' = TRUE
    /\ save' = Elsewhere
    /\ UNCHANGED <<stream, slot, guest, g>>

----------------------------------------------------------------------------
(* Messages.                                                               *)

\* mutant: Revisions are not compared.
OnSnap_NoOrder ==
    /\ g.alive /\ g.listen /\ stream # <<>>
    /\ LET d == Displayed(g, Head(stream).state) IN
       /\ g' = ConsumeRunOutcome(d, slot)
       /\ slot' = IF Consumes(d, slot) THEN None ELSE slot
    /\ stream' = Tail(stream)
    /\ UNCHANGED <<save, seat, kick, guest>>

\* mutant: A late snapshot leaves the stream unread from then on.
OnSnap_Deaf ==
    /\ g.alive /\ g.listen /\ stream # <<>>
    /\ LET m == Head(stream)
           d == Displayed(g, m.state)
       IN IF m.late
          THEN g' = [g EXCEPT !.listen = FALSE] /\ UNCHANGED slot
          ELSE /\ g' = ConsumeRunOutcome(d, slot)
               /\ slot' = IF Consumes(d, slot) THEN None ELSE slot
    /\ stream' = Tail(stream)
    /\ UNCHANGED <<save, seat, kick, guest>>

OnSnap ==
    /\ g.alive /\ g.listen /\ stream # <<>>
    /\ LET m == Head(stream)
           d == Displayed(g, m.state)
       IN IF m.late
          THEN UNCHANGED <<g, slot>>
          ELSE /\ g' = ConsumeRunOutcome(d, slot)
               /\ slot' = IF Consumes(d, slot) THEN None ELSE slot
    /\ stream' = Tail(stream)
    /\ UNCHANGED <<save, seat, kick, guest>>

OnKick ==
    /\ g.alive /\ kick
    /\ kick' = FALSE
    /\ g' = [g EXCEPT !.overlay = "kicked"]
    /\ UNCHANGED <<save, seat, stream, slot, guest>>

\* The 1 Hz timer polls the outcome, or finds the terminal idle.
OnTick ==
    /\ g.alive
    /\ \/ /\ Consumes(g, slot)
          /\ g' = ConsumeRunOutcome(g, slot)
          /\ slot' = None
          /\ UNCHANGED <<save, seat, stream, kick, guest>>
       \/ Quit(FALSE)

\* A countdown timer of the current generation.
OnJumpTick ==
    /\ g.alive /\ g.ticks > 0 /\ ~g.flash
    /\ LET t == [g EXCEPT !.ticks = @ - 1] IN
       Local(IF g.scr = "jump" /\ g.beat > 0
             THEN [t EXCEPT !.beat = @ - 1, !.ticks = @ + 1, !.flash = (g.beat = 1)]
             ELSE t)

OnFlashDone ==
    /\ g.alive /\ g.ticks > 0 /\ g.flash
    /\ Local([g EXCEPT !.ticks = @ - 1, !.flash = IF g.scr = "jump" THEN FALSE ELSE @])

\* A timer of an abandoned generation changes nothing.
OnStaleTick ==
    /\ g.alive /\ g.stale > 0
    /\ Local([g EXCEPT !.stale = @ - 1])

OnIntroDone ==
    /\ g.alive /\ g.intro
    /\ Local([g EXCEPT !.intro = FALSE])

----------------------------------------------------------------------------
(* Keys and clicks.  A click on a button is the key it stands for.         *)

Open(o)  == [g EXCEPT !.overlay = o]
Closed   == Open("none")
Goto(sc) == [g EXCEPT !.scr = sc]

\* ctrl+c comes before everything.
RequestQuit ==
    IF guest /\ g.overlay # "kicked" THEN Local(Open("guestQuit")) ELSE Quit(FALSE)

CtrlC == g.alive /\ RequestQuit

\* The first key after the interstitial only dismisses it.
DismissIntro == g.alive /\ g.intro /\ Local([g EXCEPT !.intro = FALSE])

Typing(o) == g.alive /\ ~g.intro /\ g.overlay = o
On(sc)    == Typing("none") /\ g.scr = sc

KeyHelp ==
    \/ Typing("none") /\ g.scr \notin {"jump", "death"} /\ Local(Open("help"))
    \/ Typing("help") /\ Local(Closed)

KeyKicked == Typing("kicked") /\ Quit(FALSE)

\* Its buttons take clicks under the combat card too.
KeyGuestQuit == g.alive /\ g.overlay = "guestQuit" /\ (Quit(FALSE) \/ Local(Closed))

KeyOnboard ==
    /\ Typing("onboard")
    /\ Local(IF g.page >= Pages THEN [Closed EXCEPT !.page = 1] ELSE [g EXCEPT !.page = @ + 1])

DismissSignalLost == Typing("signalLost") /\ Forced(Closed, [save EXCEPT !.notice = FALSE])

KeyTweaks ==
    /\ Typing("tweaks")
    /\ \/ Local(Closed)
       \/ Intent(g, {save})

\* A confirmation closes on success and stays open on an error.
Confirm == Local(Closed) \/ Intent(Closed, {save})

KeyCertify == Typing("certify") /\ Confirm
KeyFerry   == Typing("ferry") /\ Confirm
KeyPermit  == Typing("permit") /\ Confirm

----------------------------------------------------------------------------
(* The star chart.                                                         *)

\* Refuel, Repair, SellCargo, Insurance.
Service == Intent(g, {save})

KeyChartDocked ==
    /\ On("chart") /\ g.snap.at = "dock"
    /\ \/ Service
       \/ \E o \in {"certify", "ferry"} : Local(Open(o))
       \/ Local([g EXCEPT !.scr = "shipyard", !.row = None])
       \/ \E o \in {"jump", "permit"} : Local(Open(o))     \* enter on a locked or far world

Depart ==
    /\ On("chart") /\ g.snap.at = "dock"
    /\ Intent([g EXCEPT !.scr = "belt", !.sel = 0],
              IF save.at = "dock"
              THEN {[save EXCEPT !.at = "belt", !.rocks = Rocks]} ELSE {})

\* On the chart while still at a belt: the only way is back.
ReturnToBelt ==
    /\ On("chart") /\ g.snap.at = "belt"
    /\ Local([g EXCEPT !.scr = "belt", !.sel = 0])

KeyChart ==
    /\ On("chart")
    /\ Local(Goto("log")) \/ Local(Open("tweaks")) \/ RequestQuit

KeyLog == On("log") /\ Local(Goto("chart"))

----------------------------------------------------------------------------
(* The jump.                                                               *)

BeginJump(h) ==
    LET n == IF Calm THEN 0 ELSE Countdown IN
    [h EXCEPT !.overlay = "none", !.scr = "jump", !.beat = n, !.flash = FALSE,
              !.stale = @ + h.ticks, !.ticks = IF n > 0 THEN 1 ELSE 0]

ConfirmJump ==
    /\ Typing("jump") /\ g.stale < MaxStale
    /\ Quiet
    /\ \/ seat /\ AnswerThen(g, save, slot, BeginJump)
       \/ Refused(g)
       \/ Refused(Closed)

\* mutant: Skipping keeps the generation of the timers.
SkipJump_SameGeneration(h) == [h EXCEPT !.flash = FALSE, !.beat = 0]

\* The first key skips the countdown and abandons its timer.
SkipJump(h) == [h EXCEPT !.flash = FALSE, !.beat = 0, !.stale = @ + h.ticks, !.ticks = 0]

KeyJump ==
    /\ On("jump")
    /\ Local(IF g.beat > 0 \/ g.flash THEN SkipJump(g) ELSE Goto("chart"))

----------------------------------------------------------------------------
(* The belt.                                                               *)

MoveRock == On("belt") /\ g.snap.rocks > 0 /\ \E n \in 0..(g.snap.rocks - 1) : Local([g EXCEPT !.sel = n])

\* Enter and E index the displayed belt by the cursor, wherever it stands.
BeltKey(h, states) ==
    /\ On("belt") /\ g.snap.rocks > 0
    /\ IF g.sel >= g.snap.rocks
       THEN Quit(TRUE)
       ELSE Intent(h, states)

Lock ==
    BeltKey(Goto("mining"),
            IF save.at = "belt" /\ save.run = "none" /\ save.rocks > 0
            THEN {[save EXCEPT !.run = "mining"]} ELSE {})

Scan == BeltKey(g, {save})

KeyBelt ==
    /\ On("belt")
    /\ \/ Forced(g, save)                       \* V: belt view setting
       \/ Forced(Goto("chart"), Docked(save))   \* Q: dock

----------------------------------------------------------------------------
(* The run.  Keys follow the phase on display; the intent meets the phase  *)
(* the run is in.                                                          *)

Showing(p) == On("mining") /\ g.snap.run = p

\* The intents' own guards: refused unless the run is in the phase p.
InPhase(p, states) == IF save.run = p THEN states ELSE {}
ToPhase(p)         == [save EXCEPT !.run = p]

\* Without a run BailOrDepart succeeds and changes nothing.
BailOrDepart ==
    /\ Showing("mining")
    /\ Quiet
    /\ \/ seat /\ save.run = "mining" /\ Answer(g, ToPhase("escaping"), slot)
       \/ seat /\ save.run = "none" /\ Answer(g, save, slot)
       \/ (seat => save.run \notin {"none", "mining"}) /\ Refused(g)

AttemptSkillCheck ==
    Showing("mining") /\ Intent(g, IF save.run = "none" THEN {} ELSE {save})

AnswerTribute ==
    /\ Showing("tribute")
    /\ \E p \in {"escaping", "combat"} : Intent(g, InPhase("tribute", {ToPhase(p)}))

\* A volley that destroys the pirate ends the run in the intent.
Fire ==
    /\ Showing("combat")
    /\ Quiet
    /\ \/ seat /\ save.run = "combat" /\ Answer(g, save, slot)
       \/ seat /\ save.run = "combat" /\ \E s \in Survived(save) : Answer(g, s, "survived")
       \/ Refused(g)

CombatEscape == Showing("combat") /\ Intent(g, InPhase("combat", {save}))

----------------------------------------------------------------------------
(* After the run.                                                          *)

KeyDeath == On("death") /\ Local(Goto("summary"))

ToChart == [g EXCEPT !.scr = "chart", !.shown = None]

KeySummary ==
    /\ On("summary")
    /\ \/ Forced(ToChart, Docked(save))
       \/ g.shown # "lost" /\ Local([g EXCEPT !.scr = "belt", !.shown = None])

----------------------------------------------------------------------------
(* The shipyard.  row is the slot row under the cursor, None on the hangar *)
(* pane and on a track row; it stands still while an overlay is open, and  *)
(* is set anew on every entry.  pending is the slot a choice was made for. *)

\* AcquireShip, SwitchActiveShip, BuyShipTrack.
Purchase == Intent(g, {save})

\* The five calls that change a slot; the dialog is left by h.
ChangeSlot(h) == seat /\ Answer(h, save, slot)

KeyShipyard ==
    /\ On("shipyard")
    /\ \/ Local([g EXCEPT !.scr = "chart", !.row = None])
       \/ \E r \in Slots \cup {None} : Local([g EXCEPT !.row = r])
       \/ g.row = None /\ Purchase
       \/ g.row # None /\ Local(Open("picker"))
       \/ g.row # None /\ Local(Open("remove"))

\* An occupied slot keeps the choice and asks what to do with the old module.
KeyPicker ==
    /\ Typing("picker")
    /\ \/ Local(Closed)
       \/ Local([Open("remove") EXCEPT !.pending = g.row])
       \/ /\ Quiet
          /\ ChangeSlot(Closed) \/ Refused(Closed)

\* mutant: Backing out keeps the choice.
KeyRemoveEsc_KeepsChoice == Typing("remove") /\ Local(Closed)

KeyRemoveEsc ==
    /\ Typing("remove")
    /\ Local(IF g.pending = None THEN Closed ELSE [Open("picker") EXCEPT !.pending = None])

\* Sell or store the module; with a choice pending, install it into the
\* freed slot, which is a second intent that may fail after the first.
KeyRemoveConfirm ==
    /\ Typing("remove")
    /\ Quiet
    /\ \/ ChangeSlot([Closed EXCEPT !.pending = None])
       \/ Refused(g)

----------------------------------------------------------------------------
Messages == \/ OnSnap \/ OnKick \/ OnTick \/ OnJumpTick \/ OnFlashDone
            \/ OnStaleTick \/ OnIntroDone

Keys == \/ CtrlC \/ DismissIntro \/ KeyHelp \/ KeyKicked \/ KeyGuestQuit \/ KeyOnboard
        \/ DismissSignalLost \/ KeyTweaks \/ KeyCertify \/ KeyFerry \/ KeyPermit
        \/ KeyChartDocked \/ Depart \/ ReturnToBelt \/ KeyChart \/ KeyLog
        \/ ConfirmJump \/ KeyJump
        \/ MoveRock \/ Lock \/ Scan \/ KeyBelt
        \/ BailOrDepart \/ AttemptSkillCheck \/ AnswerTribute \/ Fire \/ CombatEscape
        \/ KeyDeath \/ KeySummary
        \/ KeyShipyard \/ KeyPicker \/ KeyRemoveEsc \/ KeyRemoveConfirm

Next == Tick \/ DeliverKick \/ Messages \/ Keys

Spec == Init /\ [][Next]_vars

\* The actor's ticker runs, and the program handles what is sent to it.
FairSpec == Spec /\ WF_vars(Tick) /\ WF_vars(OnSnap) /\ WF_vars(OnKick)
                 /\ WF_vars(OnTick /\ g'.alive)

----------------------------------------------------------------------------
Game == [scr : Screens, overlay : Overlays, snap : Save, shown : Outcomes \cup {None},
         entered : BOOLEAN, intro : BOOLEAN, page : 1..Pages, sel : 0..(Rocks - 1),
         row : Slots \cup {None}, pending : Slots \cup {None},
         beat : 0..Countdown, flash : BOOLEAN, ticks : 0..1, stale : 0..MaxStale,
         listen : BOOLEAN, alive : BOOLEAN, crashed : BOOLEAN]

\* The types, and the size of what the channel and the listener hold.
TypeOK ==
    /\ save \in Save
    /\ seat \in BOOLEAN /\ kick \in BOOLEAN /\ guest \in BOOLEAN
    /\ stream \in Seq([state : Save, late : BOOLEAN]) /\ Len(stream) <= ChanCap + 1
    /\ slot \in Outcomes \cup {None}
    /\ g \in Game

\* A terminal that owns the save shows a port screen only to a docked pilot,
\* everywhere else its services refuse, and shows the save as it is: no
\* reconnect or takeover opens on one, and no snapshot sent before the pilot
\* docked replaces a newer reply, however late it arrives.
PortShowsTheSave ==
    seat /\ g.scr \in PortScreens => save.at = "dock" /\ g.snap = save

\* The summary and the death screen are about the run that ended, though its
\* outcome comes by another way than the snapshot: a lost ship is on the
\* dock, a survivor in the belt, and no run is on.
SummaryTellsTheTruth ==
    seat /\ g.scr \in {"summary", "death"} =>
        /\ save.run = "none"
        /\ g.shown = IF save.at = "dock" THEN "lost" ELSE "survived"

\* A running countdown has exactly one live timer: it neither freezes nor
\* runs at twice the speed after an earlier jump was skipped.
JumpClockRuns ==
    g.scr = "jump" /\ g.alive => (g.ticks = 1 <=> (g.beat > 0 \/ g.flash))

\* For a pilot with a key, a module chosen for one slot is never offered in
\* the confirmation of another.
ChoiceStaysWithItsSlot ==
    ~guest /\ g.overlay = "remove" /\ g.pending # None => g.pending = g.row

\* A run the ship survived is shown in the end, though snapshots are dropped
\* while the terminal is slow: the belt keeps ticking.
SurvivedRunIsShown ==
    (seat /\ g.alive /\ g.scr = "mining" /\ save.run = "none" /\ save.at = "belt")
        ~> (g.scr # "mining" \/ ~seat \/ ~g.alive)

\* Not so for a lost ship: nothing ticks on the dock, and a last snapshot
\* that was dropped, or arrived while another screen was up, is the last
\* there is.
LostShipIsShown ==
    (seat /\ g.alive /\ slot = "lost") ~> (g.scr = "death" \/ ~seat \/ ~g.alive)

\* Enter and E on the belt screen act on a contact of the belt.  Not so once a
\* lock-on took a contact off the list under a cursor that stood on the last
\* one: the cursor is where it was when the pilot comes back from the summary.
BeltKeysHitARock == ~g.crashed

=============================================================================
