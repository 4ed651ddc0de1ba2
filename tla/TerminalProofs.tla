---------------------------- MODULE TerminalProofs ----------------------------
(***************************************************************************)
(* Proofs about Terminal, for a channel of any size, any belt, any number  *)
(* of slots, pages and countdown beats.                                    *)
(*                                                                         *)
(* What a screen shows is true although snapshots are dropped and          *)
(* overtaken because of three facts about the stream, which the properties *)
(* do not mention: a snapshot not yet overtaken is in the order of the     *)
(* save's own history, one that shows a dock is the last of the stream,    *)
(* and a run that ended behind the screen's back has its outcome waiting   *)
(* in the slot until a snapshot without the run is displayed.              *)
(***************************************************************************)
EXTENDS Terminal, SequenceTheorems, TLAPS

Snapshots == [state : Save, late : BOOLEAN]

\* A docked pilot has no belt and no run; a run is at a contact.
Sane(s) ==
    /\ s \in Save
    /\ s.at = "dock" => s.rocks = 0 /\ s.run = "none"
    /\ s.run # "none" => s.rocks > 0

\* How the run of a save that is out of its run ended.
Told(s) == IF s.at = "dock" THEN "lost" ELSE "survived"

\* The stream q towards a session that has, or had, the save s.
Feed(s, se, q) ==
    /\ q \in Seq(Snapshots) /\ Len(q) <= ChanCap + 1
    /\ \A i \in 1 .. Len(q) : Sane(q[i].state)
    /\ \A i \in 1 .. Len(q) : ~q[i].late /\ q[i].state.run = "none" =>
          /\ se => s.run = "none"
          /\ \A j \in i .. Len(q) : ~q[j].late => q[j].state.run = "none"
    /\ \A i \in 1 .. Len(q) : ~q[i].late /\ q[i].state.at = "dock" =>
          i = Len(q) /\ (se => s.at = "dock")

AllLate(q) == \A i \in 1 .. Len(q) : q[i].late

\* No snapshot of q that will be displayed has a run.
RunsAreOver(q) == \A i \in 1 .. Len(q) : ~q[i].late => q[i].state.run = "none"

\* The outcome of a run that is over, and that the terminal shows or will
\* be shown, waits in the slot.
Owed(h, s, se, q, o) ==
    se /\ s.run = "none" /\ (h.scr = "mining" \/ ~RunsAreOver(q)) => o = Told(s)

\* The screen against the save.
Fit(h, s, se, q) ==
    /\ h.snap.at = "dock" => AllLate(q) /\ (se => s.at = "dock")
    /\ se /\ h.scr = "mining" => h.snap.run # "none"
    /\ se /\ h.scr \in PortScreens => h.snap = s /\ s.at = "dock"
    /\ se /\ h.scr \in {"summary", "death"} =>
          s.run = "none" /\ h.shown = Told(s) /\ RunsAreOver(q)
    /\ h.scr \in {"shipyard", "jump"} => h.snap.at = "dock"
    /\ h.overlay = "jump" => h.snap.at = "dock"

\* The model by itself: where dialogs are open, what a choice is for, which
\* timers run.
Desk(h, gu) ==
    /\ h.overlay = "jump" => h.scr = "chart"
    /\ h.overlay \in {"picker", "remove"} => h.scr = "shipyard"
    /\ ~gu /\ h.pending # None =>
          h.scr = "shipyard" /\ h.overlay \in {"remove", "kicked"} /\ h.pending = h.row
    /\ h.scr = "jump" => (h.ticks = 1 <=> (h.beat > 0 \/ h.flash))
    /\ h.scr # "jump" => h.ticks = 0
    /\ h.flash => h.beat = 0
    /\ h.ticks + h.stale <= MaxStale

IInv ==
    /\ Sane(save)
    /\ seat \in BOOLEAN /\ kick \in BOOLEAN /\ guest \in BOOLEAN
    /\ slot \in Outcomes \cup {None}
    /\ g \in Game /\ Sane(g.snap)
    /\ Feed(save, seat, stream)
    /\ Owed(g, save, seat, stream, slot)
    /\ Fit(g, save, seat, stream)
    /\ Desk(g, guest)

-----------------------------------------------------------------------------
(* The stream. *)

\* A snapshot that is overtaken is the same snapshot.
LEMMA LateFacts ==
  ASSUME NEW r \in Snapshots
  PROVE  LET l == [r EXCEPT !.late = TRUE]
         IN l \in Snapshots /\ l.late /\ l.state = r.state
  BY DEF Snapshots

\* A reply overtakes every snapshot, and changes none.
LEMMA OvertakenFacts ==
  ASSUME NEW q \in Seq(Snapshots)
  PROVE  /\ Overtaken(q) \in Seq(Snapshots) /\ Len(Overtaken(q)) = Len(q)
         /\ \A i \in 1 .. Len(q) : Overtaken(q)[i].late /\ Overtaken(q)[i].state = q[i].state
<1> DEFINE l(i) == [q[i] EXCEPT !.late = TRUE]
<1>1. Len(q) \in Nat /\ \A i \in 1 .. Len(q) : q[i] \in Snapshots
  BY ElementOfSeq, LenProperties
<1>2. \A i \in 1 .. Len(q) : l(i) \in Snapshots /\ l(i).late /\ l(i).state = q[i].state
  BY <1>1, LateFacts
<1>3. Overtaken(q) = [i \in 1 .. Len(q) |-> l(i)] BY DEF Overtaken
<1> HIDE DEF l
<1>4. QED BY <1>1, <1>2, <1>3

\* So it leaves nothing to be displayed.
LEMMA OvertakenFeed ==
  ASSUME NEW s, NEW t, NEW q, NEW se, NEW se2, Feed(s, se, q)
  PROVE  Feed(t, se2, Overtaken(q)) /\ AllLate(Overtaken(q)) /\ RunsAreOver(Overtaken(q))
  BY OvertakenFacts DEF Feed, AllLate, RunsAreOver

-----------------------------------------------------------------------------
(* The kinds of step a handler makes. *)

\* A key or a timer that only moves the model.
LEMMA LocalKeeps ==
  ASSUME IInv, NEW h \in Game, Local(h), Sane(h.snap), Fit(h, save, seat, stream), Desk(h, guest),
         h.scr = "mining" => g.scr = "mining"
  PROVE  IInv'
<1>1. g' = h /\ UNCHANGED <<save, slot, stream, seat, kick, guest>>
  BY DEF Local, Refused, Quiet
<1>2. Owed(g', save, seat, stream, slot) BY <1>1 DEF IInv, Owed
<1>3. QED BY <1>1, <1>2 DEF IInv

\* What a reply to the model h may be.
Ready(h, s, out, gu) ==
    /\ h.scr = "mining" /\ s.run = "none" => out = Told(s)
    /\ h.scr = "mining" \/ s.run # "none" =>
          /\ h.overlay \notin {"jump", "picker", "remove"}
          /\ ~gu => h.pending = None
          /\ h.ticks = 0
    /\ h.scr \in {"summary", "death"} /\ s.run = "none" => h.shown = Told(s)
    /\ h.scr \in PortScreens /\ s.run = "none" => s.at = "dock"
    /\ Desk(h, gu)

\* Two models with the same dialog, choice and timers.
SameDesk(d, h) ==
    /\ d.overlay = h.overlay /\ d.pending = h.pending /\ d.row = h.row
    /\ d.ticks = h.ticks /\ d.stale = h.stale /\ d.beat = h.beat /\ d.flash = h.flash

\* The interstitial's flags are nothing else's.
LEMMA EnteredFacts ==
  ASSUME NEW h \in Game, NEW b \in BOOLEAN, NEW c \in BOOLEAN
  PROVE  LET d == [h EXCEPT !.entered = b, !.intro = c]
         IN d \in Game /\ d.snap = h.snap /\ d.scr = h.scr /\ d.shown = h.shown /\ SameDesk(d, h)
  BY DEF Game, SameDesk

\* What displaying a snapshot leaves as it was.
LEMMA DisplayedFacts ==
  ASSUME NEW h \in Game, NEW s \in Save
  PROVE  LET d == Displayed(h, s)
         IN /\ d \in Game /\ d.snap = s /\ d.shown = h.shown /\ SameDesk(d, h)
            /\ s.run # "none" => d.scr = "mining"
            /\ s.run = "none" => d.scr = h.scr
<1> DEFINE sc == IF s.run # "none" THEN "mining" ELSE h.scr
           k == [h EXCEPT !.snap = s, !.scr = sc]
           d == Displayed(h, s)
<1>1. sc \in Screens BY DEF Game, Screens
<1>2. (s.run # "none" => sc = "mining") /\ (s.run = "none" => sc = h.scr) OBVIOUS
<1>3. d = SyncCombatEntry(k) BY DEF Displayed
<1> HIDE DEF sc, d
<1>4. k \in Game /\ k.snap = s /\ k.scr = sc /\ k.shown = h.shown /\ SameDesk(k, h)
  BY <1>1 DEF Game, SameDesk
<1> HIDE DEF k
<1>5. d \in Game /\ d.snap = k.snap /\ d.scr = k.scr /\ d.shown = k.shown /\ SameDesk(d, k)
  <2>1. CASE k.snap.run # "combat"
    <3>1. d = [k EXCEPT !.entered = FALSE] BY <1>3, <2>1 DEF SyncCombatEntry
    <3>2. QED BY <1>4, <3>1 DEF Game, SameDesk
  <2>2. CASE k.snap.run = "combat"
    <3> DEFINE c == k.intro \/ (~k.entered /\ ~Calm)
    <3>1. c \in BOOLEAN OBVIOUS
    <3>2. d = [k EXCEPT !.entered = TRUE, !.intro = c] BY <1>3, <2>2 DEF SyncCombatEntry
    <3> HIDE DEF c
    <3>3. QED BY <1>4, <3>1, <3>2, EnteredFacts
  <2>3. QED BY <2>1, <2>2
<1>6. QED BY <1>2, <1>4, <1>5 DEF SameDesk, d

\* What taking an outcome leaves as it was.
LEMMA ConsumedFacts ==
  ASSUME NEW h \in Game, NEW out \in Outcomes \cup {None}
  PROVE  LET c == ConsumeRunOutcome(h, out)
         IN /\ c \in Game /\ c.snap = h.snap
            /\ ~Consumes(h, out) => c = h
            /\ Consumes(h, out) =>
                  /\ c.scr \in {"summary", "death"} /\ c.shown = out
                  /\ c.overlay \in {"none", h.overlay} /\ c.pending = h.pending
                  /\ c.ticks = h.ticks /\ c.stale = h.stale /\ c.beat = h.beat /\ c.flash = h.flash
<1>1. CASE ~Consumes(h, out) BY <1>1 DEF ConsumeRunOutcome
<1>2. CASE Consumes(h, out) /\ out = "survived"
  <2>1. ConsumeRunOutcome(h, out) = [h EXCEPT !.shown = out, !.intro = FALSE, !.scr = "summary"]
    BY <1>2 DEF ConsumeRunOutcome
  <2>2. QED BY <1>2, <2>1 DEF Game, Screens
<1>3. CASE Consumes(h, out) /\ out # "survived"
  <2>1. ConsumeRunOutcome(h, out)
          = [h EXCEPT !.shown = out, !.intro = FALSE, !.scr = "death", !.overlay = "none"]
    BY <1>3 DEF ConsumeRunOutcome
  <2>2. QED BY <1>3, <2>1 DEF Game, Screens, Overlays
<1>4. QED BY <1>1, <1>2, <1>3

\* A reply that fits the model leaves everything in order.
LEMMA AnswerKeeps ==
  ASSUME IInv, NEW h \in Game, NEW s, Sane(s), NEW out \in Outcomes \cup {None},
         Ready(h, s, out, guest), Quiet, Answer(h, s, out)
  PROVE  IInv'
<1> DEFINE d == Displayed(h, s)
           c == ConsumeRunOutcome(d, out)
<1>0. UNCHANGED <<seat, kick, guest>> BY DEF Quiet
<1>1. /\ save' = s /\ g' = c /\ stream' = Overtaken(stream)
      /\ slot' = IF Consumes(d, out) THEN None ELSE out
  BY DEF Answer, AnswerThen, Same
<1>2. s \in Save BY DEF Sane
<1>3. /\ d \in Game /\ d.snap = s /\ d.shown = h.shown /\ SameDesk(d, h)
      /\ s.run # "none" => d.scr = "mining"
      /\ s.run = "none" => d.scr = h.scr
  BY <1>2, DisplayedFacts
<1> HIDE DEF d
<1>4. /\ c \in Game /\ c.snap = d.snap
      /\ ~Consumes(d, out) => c = d
      /\ Consumes(d, out) =>
            /\ c.scr \in {"summary", "death"} /\ c.shown = out
            /\ c.overlay \in {"none", d.overlay} /\ c.pending = d.pending
            /\ c.ticks = d.ticks /\ c.stale = d.stale /\ c.beat = d.beat /\ c.flash = d.flash
  BY <1>3, ConsumedFacts
<1> HIDE DEF c
<1>5. Feed(s, seat, stream') /\ AllLate(stream') /\ RunsAreOver(stream')
  BY <1>1, OvertakenFeed DEF IInv
<1>6. Consumes(d, out) <=> (s.run = "none" /\ h.scr = "mining")
  <2>1. Told(s) # None BY TerminalAssumption DEF Told, Outcomes
  <2>2. s.run = "none" /\ h.scr = "mining" => out = Told(s) BY DEF Ready
  <2>3. QED BY <1>3, <2>1, <2>2 DEF Consumes
<1>7. slot' \in Outcomes \cup {None} BY <1>1
<1>8. CASE Consumes(d, out)
  <2>1. /\ h.overlay \notin {"jump", "picker", "remove"} /\ (~guest => h.pending = None)
        /\ h.ticks = 0 /\ out = Told(s)
    BY <1>6, <1>8 DEF Ready
  <2>2. Desk(c, guest) BY <1>3, <1>4, <1>8, <2>1 DEF Desk, Ready, SameDesk
  <2>3. Fit(c, s, seat, stream') BY <1>3, <1>4, <1>5, <1>6, <1>8, <2>1 DEF Fit, SameDesk, PortScreens
  <2>4. Owed(c, s, seat, stream', slot') BY <1>4, <1>5, <1>8 DEF Owed
  <2>5. QED BY <1>0, <1>1, <1>3, <1>4, <1>5, <1>7, <2>2, <2>3, <2>4 DEF IInv
<1>9. CASE ~Consumes(d, out)
  <2>1. c = d BY <1>4, <1>9
  <2>2. Desk(d, guest) BY <1>3, <1>6, <1>9 DEF Desk, Ready, SameDesk
  <2>3. Fit(d, s, seat, stream')
    <3>1. CASE s.run # "none" BY <1>3, <1>5, <3>1 DEF Fit, SameDesk, PortScreens, Sane, Ready
    <3>2. CASE s.run = "none"
      <4>1. d.scr = h.scr /\ h.scr # "mining" BY <1>3, <1>6, <1>9, <3>2
      <4>2. h.overlay = "jump" => h.scr = "chart" BY DEF Ready, Desk
      <4>3. h.scr \in PortScreens => s.at = "dock" BY <3>2 DEF Ready
      <4>4. QED BY <1>3, <1>5, <3>2, <4>1, <4>2, <4>3 DEF Fit, SameDesk, PortScreens, Ready
    <3>3. QED BY <3>1, <3>2
  <2>4. Owed(d, s, seat, stream', slot') BY <1>3, <1>5, <1>6, <1>9 DEF Owed
  <2>5. QED BY <1>0, <1>1, <1>3, <1>5, <1>7, <2>1, <2>2, <2>3, <2>4 DEF IInv
<1>10. QED BY <1>8, <1>9

\* A key that changes nothing, or an intent that was refused.
LEMMA NothingKeeps ==
  ASSUME IInv, UNCHANGED vars
  PROVE  IInv'
  BY DEF IInv, vars

LEMMA IntentKeeps ==
  ASSUME IInv, NEW h \in Game, NEW states, Intent(h, states),
         seat => \A s \in states : Sane(s) /\ Ready(h, s, slot, guest)
  PROVE  IInv'
<1>1. slot \in Outcomes \cup {None} /\ Quiet BY DEF IInv, Intent
<1>2. CASE seat /\ \E s \in states : Answer(h, s, slot)
  BY <1>1, <1>2, AnswerKeeps
<1>3. CASE Refused(g)
  BY <1>1, <1>3, NothingKeeps DEF Refused, Quiet, vars
<1>4. QED BY <1>2, <1>3 DEF Intent

LEMMA ForcedKeeps ==
  ASSUME IInv, NEW h \in Game, NEW s, Forced(h, s), Sane(s), seat => Ready(h, s, slot, guest),
         ~seat => /\ Sane(h.snap) /\ Fit(h, save, seat, stream) /\ Desk(h, guest)
                  /\ h.scr = "mining" => g.scr = "mining"
  PROVE  IInv'
<1>1. slot \in Outcomes \cup {None} /\ Quiet BY DEF IInv, Forced
<1>2. CASE seat
  <2>1. Answer(h, s, slot) BY <1>2 DEF Forced
  <2>2. QED BY <1>1, <1>2, <2>1, AnswerKeeps
<1>3. CASE ~seat
  <2>1. Local(h) BY <1>3 DEF Forced, Local
  <2>2. QED BY <1>3, <2>1, LocalKeeps
<1>4. QED BY <1>2, <1>3

\* A reply with the save where it was is fit for the model as it is, with
\* its dialog open or closed.
LEMMA SameSaveIsReady ==
  ASSUME IInv, seat, NEW h \in Game, NEW s, s.at = save.at, s.run = save.run,
         h.scr = g.scr, h.shown = g.shown, h.ticks = g.ticks, h.overlay \in {g.overlay, "none"},
         Desk(h, guest)
  PROVE  Ready(h, s, slot, guest)
<1>1. g.snap.at = "dock" => save.run = "none" BY DEF IInv, Fit, Sane
<1>2. Told(s) = Told(save) BY DEF Told
<1>3. h.scr = "mining" /\ s.run = "none" => slot = Told(s) BY <1>2 DEF IInv, Owed
<1>4. h.scr = "mining" \/ s.run # "none" => g.scr \notin {"shipyard", "jump"} /\ g.overlay # "jump"
  BY <1>1 DEF IInv, Fit, Desk
<1>5. h.scr = "mining" \/ s.run # "none" =>
        /\ h.overlay \notin {"jump", "picker", "remove"} /\ (~guest => h.pending = None) /\ h.ticks = 0
  BY <1>4 DEF Desk
<1>6. h.scr \in {"summary", "death"} => h.shown = Told(s) BY <1>2 DEF IInv, Fit
<1>7. h.scr \in PortScreens => s.at = "dock" BY DEF IInv, Fit
<1>8. QED BY <1>3, <1>5, <1>6, <1>7 DEF Ready

\* A dialog opens over the screen it belongs to, or closes.
LEMMA OpenFits ==
  ASSUME IInv, NEW o \in Overlays,
         o = "jump" => g.scr = "chart" /\ g.snap.at = "dock",
         o \in {"picker", "remove"} => g.scr = "shipyard",
         ~guest /\ g.pending # None => o \in {"remove", "kicked"}
  PROVE  /\ Open(o) \in Game /\ Open(o).snap = g.snap /\ Sane(Open(o).snap)
         /\ Fit(Open(o), save, seat, stream) /\ Desk(Open(o), guest)
         /\ Open(o).scr = g.scr /\ Open(o).shown = g.shown /\ Open(o).ticks = g.ticks
         /\ Open(o).overlay = o
<1> DEFINE h == Open(o)
<1>1. /\ h \in Game /\ h.snap = g.snap /\ h.scr = g.scr /\ h.shown = g.shown
      /\ h.overlay = o /\ h.pending = g.pending /\ h.row = g.row /\ h.ticks = g.ticks
      /\ h.stale = g.stale /\ h.beat = g.beat /\ h.flash = g.flash
  BY DEF Open, IInv, Game
<1> HIDE DEF h
<1>2. Desk(h, guest) BY <1>1 DEF IInv, Desk
<1>3. Fit(h, save, seat, stream) BY <1>1 DEF IInv, Fit
<1>4. Sane(h.snap) BY <1>1 DEF IInv
<1>5. QED BY <1>1, <1>2, <1>3, <1>4 DEF h

LEMMA OpenStep ==
  ASSUME IInv, NEW o \in Overlays, Local(Open(o)),
         o = "jump" => g.scr = "chart" /\ g.snap.at = "dock",
         o \in {"picker", "remove"} => g.scr = "shipyard",
         ~guest /\ g.pending # None => o \in {"remove", "kicked"}
  PROVE  IInv'
  BY OpenFits, LocalKeeps

\* Without a dialog there is no choice pending, for a pilot with a key.
LEMMA NoChoice ==
  ASSUME IInv, g.overlay \notin {"remove", "kicked"}
  PROVE  ~guest => g.pending = None
  BY DEF IInv, Desk

LEMMA ClosedFits ==
  ASSUME IInv, g.overlay \notin {"remove", "kicked"}
  PROVE  /\ Closed \in Game /\ Sane(Closed.snap)
         /\ Fit(Closed, save, seat, stream) /\ Desk(Closed, guest)
         /\ Closed.scr = g.scr /\ Closed.shown = g.shown /\ Closed.ticks = g.ticks
         /\ Closed.overlay = "none"
<1>1. "none" \in Overlays BY DEF Overlays
<1>2. QED BY <1>1, NoChoice, OpenFits DEF Closed

LEMMA ClosedStep ==
  ASSUME IInv, g.overlay \notin {"remove", "kicked"}, Local(Closed)
  PROVE  IInv'
  BY ClosedFits, LocalKeeps

\* From one screen to another, without a dialog.
LEMMA MoveFits ==
  ASSUME IInv, NEW h \in Game, g.overlay = "none", h.overlay = "none", g.ticks = 0,
         h.snap = g.snap, h.pending = g.pending, h.ticks = g.ticks, h.stale = g.stale,
         h.beat = g.beat, h.flash = g.flash,
         h.scr \notin {"mining", "jump"},
         seat /\ h.scr \in PortScreens => g.scr \in PortScreens,
         h.scr = "shipyard" => g.snap.at = "dock",
         seat /\ h.scr \in {"summary", "death"} => g.scr \in {"summary", "death"} /\ h.shown = g.shown
  PROVE  Sane(h.snap) /\ Fit(h, save, seat, stream) /\ Desk(h, guest)
<1>1. ~guest => h.pending = None BY NoChoice
<1>2. Desk(h, guest) BY <1>1 DEF IInv, Desk
<1>3. Fit(h, save, seat, stream) BY DEF IInv, Fit
<1>4. QED BY <1>2, <1>3 DEF IInv

LEMMA MoveStep ==
  ASSUME IInv, NEW h \in Game, Local(h), g.overlay = "none", h.overlay = "none", g.ticks = 0,
         h.snap = g.snap, h.pending = g.pending, h.ticks = g.ticks, h.stale = g.stale,
         h.beat = g.beat, h.flash = g.flash,
         h.scr \notin {"mining", "jump"},
         seat /\ h.scr \in PortScreens => g.scr \in PortScreens,
         h.scr = "shipyard" => g.snap.at = "dock",
         seat /\ h.scr \in {"summary", "death"} => g.scr \in {"summary", "death"} /\ h.shown = g.shown
  PROVE  IInv'
<1>1. Sane(h.snap) /\ Fit(h, save, seat, stream) /\ Desk(h, guest) BY MoveFits
<1>2. QED BY <1>1, LocalKeeps

\* A program starts with nothing pending and no timer.
LEMMA NewGameFacts ==
  ASSUME NEW s \in Save, NEW created \in BOOLEAN
  PROVE  LET n == NewGame(s, created)
         IN /\ n \in Game /\ n.snap = s /\ n.scr = InitialScreen(s)
            /\ n.overlay \in {"onboard", "signalLost", "none"}
            /\ n.pending = None /\ n.ticks = 0 /\ n.stale = 0 /\ n.beat = 0 /\ n.flash = FALSE
<1> DEFINE sc == InitialScreen(s)
           ov == IF created THEN "onboard" ELSE IF s.notice THEN "signalLost" ELSE "none"
           n == [scr |-> sc, overlay |-> ov, snap |-> s, shown |-> None, entered |-> FALSE,
                 intro |-> FALSE, page |-> 1, sel |-> 0, row |-> None, pending |-> None,
                 beat |-> 0, flash |-> FALSE, ticks |-> 0, stale |-> 0,
                 listen |-> TRUE, alive |-> TRUE, crashed |-> FALSE]
<1>1. NewGame(s, created) = n BY DEF NewGame
<1>2. sc \in Screens BY DEF InitialScreen, Screens
<1>3. ov \in {"onboard", "signalLost", "none"} /\ ov \in Overlays BY DEF Overlays
<1> HIDE DEF sc, ov
<1>4. /\ 1 \in 1 .. Pages /\ 0 \in 0 .. (Rocks - 1) /\ 0 \in 0 .. Countdown /\ 0 \in 0 .. 1
      /\ 0 \in 0 .. MaxStale /\ None \in Slots \cup {None} /\ None \in Outcomes \cup {None}
  BY TerminalAssumption
<1>5. n \in Game BY <1>2, <1>3, <1>4 DEF Game
<1>6. QED BY <1>1, <1>3, <1>5 DEF sc

\* The program ends: nothing is left to be in order.
LEMMA QuitKeeps ==
  ASSUME IInv, NEW crash \in BOOLEAN, Quit(crash)
  PROVE  IInv'
<1> DEFINE n == NewGame(Elsewhere, FALSE)
           h == [n EXCEPT !.alive = FALSE, !.crashed = crash]
<1>1. /\ g' = h /\ save' = Elsewhere /\ seat' = FALSE /\ stream' = <<>> /\ slot' = None
      /\ kick' = FALSE /\ guest' = guest
  BY DEF Quit
<1>2. Sane(Elsewhere) BY TerminalAssumption DEF Elsewhere, Sane, Save, Phases
<1>3. /\ n \in Game /\ n.snap = Elsewhere /\ n.scr = InitialScreen(Elsewhere)
      /\ n.overlay \in {"onboard", "signalLost", "none"}
      /\ n.pending = None /\ n.ticks = 0 /\ n.stale = 0 /\ n.beat = 0 /\ n.flash = FALSE
  BY <1>2, NewGameFacts DEF Sane
<1>31. n.scr = "chart" BY <1>3 DEF InitialScreen, Elsewhere
<1> HIDE DEF n
<1>4. /\ h \in Game /\ h.snap = Elsewhere /\ h.scr = "chart"
      /\ h.overlay \in {"onboard", "signalLost", "none"}
      /\ h.pending = None /\ h.ticks = 0 /\ h.stale = 0 /\ h.beat = 0 /\ h.flash = FALSE
  BY <1>3, <1>31 DEF Game
<1> HIDE DEF h
<1>5. Desk(h, guest) BY <1>4, TerminalAssumption DEF Desk
<1>6. Len(stream') = 0 /\ stream' \in Seq(Snapshots) BY <1>1
<1>7. Feed(Elsewhere, FALSE, stream') /\ AllLate(stream')
  BY <1>6, TerminalAssumption DEF Feed, AllLate
<1>8. Fit(h, Elsewhere, FALSE, stream') BY <1>4, <1>7 DEF Fit
<1>9. Owed(h, Elsewhere, FALSE, stream', None) BY DEF Owed
<1>10. QED BY <1>1, <1>2, <1>4, <1>5, <1>7, <1>8, <1>9 DEF IInv

-----------------------------------------------------------------------------
(* The actor. *)

\* What a tick makes of a save.
LEMMA AfterTickFacts ==
  ASSUME NEW s, Sane(s), NEW e \in AfterTick(s)
  PROVE  /\ Sane(e[1]) /\ e[2] \in Outcomes \cup {None}
         /\ s.run = "none" => e[1] = s /\ e[2] = None
         /\ s.run # "none" /\ e[1].run # "none" => e[2] = None /\ e[1].at = "belt"
         /\ s.run # "none" /\ e[1].run = "none" => e[2] = Told(e[1])
<1>1. CASE s.run = "none" BY <1>1 DEF AfterTick
<1>2. CASE s.run # "none"
  <2>1. s.at = "belt" /\ s.rocks > 0 /\ s.rocks \in Nat /\ s \in Save /\ s.run \in Phases \ {"none"}
    BY <1>2 DEF Sane, Save
  <2>2. CASE \E p \in NextPhase[s.run] : e = <<[s EXCEPT !.run = p], None>>
    <3>1. PICK p \in NextPhase[s.run] : e = <<[s EXCEPT !.run = p], None>> BY <2>2
    <3>2. p \in Phases \ {"none"} BY <2>1, <3>1 DEF NextPhase, Phases
    <3>3. QED BY <1>2, <2>1, <3>1, <3>2 DEF Sane, Save
  <2>3. CASE e = <<Lost(s), "lost">>
    <3> DEFINE l == Lost(s)
    <3>0. 0 \in 0 .. Rocks /\ "none" \in Phases BY TerminalAssumption DEF Phases
    <3>01. l = [s EXCEPT !.run = "none", !.at = "dock", !.rocks = 0] BY DEF Lost
    <3>1. l \in Save /\ l.run = "none" /\ l.at = "dock" /\ l.rocks = 0
      BY <2>1, <3>0, <3>01 DEF Save
    <3> HIDE DEF l
    <3>2. e[1] = l /\ e[2] = "lost" BY <2>3 DEF l
    <3>3. QED BY <1>2, <3>1, <3>2 DEF Sane, Told, Outcomes
  <2>4. CASE \E t \in Survived(s) : e = <<t, "survived">>
    <3>1. PICK t \in Survived(s) : e = <<t, "survived">> BY <2>4
    <3>2. PICK n \in {s.rocks, s.rocks - 1} : t = [s EXCEPT !.run = "none", !.rocks = n]
      BY <3>1 DEF Survived
    <3>3. n \in 0 .. Rocks BY <2>1, <3>2, TerminalAssumption DEF Save
    <3>4. QED BY <1>2, <2>1, <3>1, <3>2, <3>3 DEF Sane, Save, Told, Outcomes, Phases
  <2>5. QED BY <1>2, <2>2, <2>3, <2>4 DEF AfterTick
<1>3. QED BY <1>1, <1>2

\* The stream once a snapshot is appended.
LEMMA AppendFacts ==
  ASSUME NEW q \in Seq(Snapshots), NEW s \in Save
  PROVE  LET r == Append(q, [state |-> s, late |-> FALSE])
         IN /\ r \in Seq(Snapshots) /\ Len(r) = Len(q) + 1
            /\ \A i \in 1 .. Len(q) : r[i] = q[i]
            /\ r[Len(r)].state = s /\ ~r[Len(r)].late
<1>1. [state |-> s, late |-> FALSE] \in Snapshots BY DEF Snapshots
<1>2. Len(q) \in Nat BY LenProperties
<1>3. QED BY <1>1, <1>2, AppendProperties

\* The actor moves the save on while the terminal shows what it showed.
LEMMA TickStep ==
  ASSUME IInv, Tick
  PROVE  IInv'
<1>1. seat /\ (save.at = "belt" \/ save.run # "none") /\ UNCHANGED <<seat, kick, guest, g>>
  BY DEF Tick
<1>2. PICK e \in AfterTick(save) : /\ save' = e[1]
                                   /\ slot' = IF e[2] # None THEN e[2] ELSE slot
                                   /\ Send(e[1])
  BY DEF Tick
<1>3. /\ Sane(e[1]) /\ e[2] \in Outcomes \cup {None}
      /\ save.run = "none" => e[1] = save /\ e[2] = None
      /\ save.run # "none" /\ e[1].run # "none" => e[2] = None /\ e[1].at = "belt"
      /\ save.run # "none" /\ e[1].run = "none" => e[2] = Told(e[1])
  BY <1>2, AfterTickFacts DEF IInv
<1> DEFINE t == e[1]
<1> HIDE DEF t
<1>4. save' = t /\ Sane(t) /\ t \in Save BY <1>2, <1>3 DEF t, Sane
<1>5. save.at = "belt" /\ g.snap.at # "dock" BY <1>1 DEF IInv, Fit, Sane, Save
<1>6. g.scr \notin PortScreens BY <1>1, <1>5 DEF IInv, Fit
<1>7. slot' = IF save.run # "none" /\ t.run = "none" THEN Told(t) ELSE slot
  <2>1. Told(t) # None BY TerminalAssumption DEF Told, Outcomes
  <2>2. QED BY <1>2, <1>3, <2>1 DEF t
<1>8. save.run = "none" => t = save BY <1>3 DEF t
<1>9. stream \in Seq(Snapshots) /\ Len(stream) \in Nat /\ ChanCap \in Nat
  BY LenProperties, TerminalAssumption DEF IInv, Feed
<1>10. CASE stream' = stream
  <2>1. \A i \in 1 .. Len(stream) : ~stream[i].late => stream[i].state.at # "dock"
    BY <1>1, <1>5 DEF IInv, Feed
  <2>2. \A i \in 1 .. Len(stream) : ~stream[i].late /\ stream[i].state.run = "none" => t.run = "none"
    BY <1>1, <1>8 DEF IInv, Feed
  <2>3. Feed(t, seat, stream) BY <2>1, <2>2 DEF IInv, Feed
  <2>4. Owed(g, t, seat, stream, slot') BY <1>7, <1>8 DEF IInv, Owed
  <2>5. Fit(g, t, seat, stream) BY <1>1, <1>5, <1>6, <1>8 DEF IInv, Fit
  <2>6. slot' \in Outcomes \cup {None} BY <1>7 DEF IInv, Told, Outcomes
  <2>7. QED BY <1>1, <1>4, <1>10, <2>3, <2>4, <2>5, <2>6 DEF IInv
<1>11. CASE Len(stream) <= ChanCap /\ stream' = Append(stream, [state |-> t, late |-> FALSE])
  <2> DEFINE r == stream'
  <2>1. /\ r \in Seq(Snapshots) /\ Len(r) = Len(stream) + 1
        /\ \A i \in 1 .. Len(stream) : r[i] = stream[i]
        /\ r[Len(r)].state = t /\ ~r[Len(r)].late
    BY <1>4, <1>9, <1>11, AppendFacts
  <2>2. \A i \in 1 .. Len(r) : i \in 1 .. Len(stream) \/ i = Len(r) BY <1>9, <2>1
  <2>21. Len(stream) \in Nat /\ Len(r) \in Nat /\ Len(r) <= ChanCap + 1 BY <1>9, <1>11, <2>1
  <2>3. \A i \in 1 .. Len(stream) : ~stream[i].late => stream[i].state.at # "dock"
    BY <1>1, <1>5 DEF IInv, Feed
  <2>4. \A i \in 1 .. Len(stream) : ~stream[i].late /\ stream[i].state.run = "none" => t.run = "none"
    BY <1>1, <1>8 DEF IInv, Feed
  <2>5. \A i \in 1 .. Len(r) : Sane(r[i].state) BY <1>4, <2>1, <2>2 DEF IInv, Feed
  <2>6. \A i \in 1 .. Len(r) : ~r[i].late /\ r[i].state.run = "none" =>
          t.run = "none" /\ \A j \in i .. Len(r) : ~r[j].late => r[j].state.run = "none"
    <3> SUFFICES ASSUME NEW i \in 1 .. Len(r), ~r[i].late, r[i].state.run = "none"
                 PROVE  t.run = "none" /\ \A j \in i .. Len(r) : ~r[j].late => r[j].state.run = "none"
      OBVIOUS
    <3>1. t.run = "none" BY <2>1, <2>2, <2>4
    <3>2. ASSUME NEW j \in i .. Len(r), ~r[j].late PROVE r[j].state.run = "none"
      <4>1. CASE j = Len(r) BY <2>1, <3>1, <4>1
      <4>2. CASE j # Len(r)
        <5>1. j \in 1 .. Len(stream) /\ i \in 1 .. Len(stream) /\ j \in i .. Len(stream)
          BY <2>1, <2>21, <4>2
        <5>2. r[i] = stream[i] /\ r[j] = stream[j] BY <2>1, <5>1
        <5>3. QED BY <3>2, <5>1, <5>2 DEF IInv, Feed
      <4>3. QED BY <4>1, <4>2
    <3>3. QED BY <3>1, <3>2
  <2>7. \A i \in 1 .. Len(r) : ~r[i].late /\ r[i].state.at = "dock" => i = Len(r) /\ t.at = "dock"
    BY <2>1, <2>2, <2>3
  <2> HIDE DEF r
  <2>8. Feed(t, seat, r) BY <2>1, <2>21, <2>5, <2>6, <2>7 DEF Feed
  <2>9. t.run = "none" => (RunsAreOver(r) <=> RunsAreOver(stream))
    BY <2>1, <2>2, <2>21 DEF RunsAreOver
  <2>10. Owed(g, t, seat, r, slot') BY <1>7, <1>8, <2>9 DEF IInv, Owed
  <2>11. Fit(g, t, seat, r) BY <1>1, <1>5, <1>6, <1>8, <2>9 DEF IInv, Fit
  <2>12. slot' \in Outcomes \cup {None} BY <1>7 DEF IInv, Told, Outcomes
  <2>13. QED BY <1>1, <1>4, <2>8, <2>10, <2>11, <2>12 DEF IInv, r
<1>12. QED BY <1>2, <1>10, <1>11 DEF Send, t

\* The seat is lost: what the channels hold is still in order.
LEMMA DeliverKickStep ==
  ASSUME IInv, DeliverKick
  PROVE  IInv'
<1>1. /\ seat' = FALSE /\ kick' = TRUE /\ save' = Elsewhere
      /\ UNCHANGED <<stream, slot, guest, g>>
  BY DEF DeliverKick
<1>2. Sane(Elsewhere) BY TerminalAssumption DEF Elsewhere, Sane, Save, Phases
<1>3. Feed(Elsewhere, FALSE, stream) BY DEF IInv, Feed
<1>4. Owed(g, Elsewhere, FALSE, stream, slot) BY DEF Owed
<1>5. Fit(g, Elsewhere, FALSE, stream) BY DEF IInv, Fit
<1>6. QED BY <1>1, <1>2, <1>3, <1>4, <1>5 DEF IInv

-----------------------------------------------------------------------------
(* The messages. *)

\* The stream without its first snapshot.
LEMMA TailFacts ==
  ASSUME NEW s, NEW se, NEW q, Feed(s, se, q), q # <<>>
  PROVE  /\ Feed(s, se, Tail(q)) /\ Head(q) = q[1] /\ Head(q) \in Snapshots
         /\ Len(q) \in Nat \ {0} /\ Len(Tail(q)) = Len(q) - 1
         /\ \A i \in 1 .. Len(Tail(q)) : i + 1 \in 1 .. Len(q) /\ Tail(q)[i] = q[i + 1]
<1>0. q \in Seq(Snapshots) BY DEF Feed
<1> DEFINE r == Tail(q)
<1>1. /\ Len(q) \in Nat \ {0} /\ r \in Seq(Snapshots) /\ Len(r) = Len(q) - 1
      /\ Head(q) \in Snapshots /\ Head(q) = q[1]
      /\ \A i \in 1 .. Len(r) : r[i] = q[i + 1]
  BY <1>0, HeadTailProperties, LenProperties, EmptySeq
<1> HIDE DEF r
<1>2. \A i \in 1 .. Len(r) : i + 1 \in 1 .. Len(q) BY <1>1
<1>3. Len(r) <= ChanCap + 1 BY <1>1, TerminalAssumption DEF Feed
<1>4. \A i \in 1 .. Len(r) : Sane(r[i].state) BY <1>1, <1>2 DEF Feed
<1>5. \A i \in 1 .. Len(r) : ~r[i].late /\ r[i].state.run = "none" =>
         /\ se => s.run = "none"
         /\ \A j \in i .. Len(r) : ~r[j].late => r[j].state.run = "none"
  <2> SUFFICES ASSUME NEW i \in 1 .. Len(r), ~r[i].late, r[i].state.run = "none"
               PROVE  /\ se => s.run = "none"
                      /\ \A j \in i .. Len(r) : ~r[j].late => r[j].state.run = "none"
    OBVIOUS
  <2>1. i + 1 \in 1 .. Len(q) /\ ~q[i + 1].late /\ q[i + 1].state.run = "none" BY <1>1, <1>2
  <2>2. \A j \in i .. Len(r) : j \in 1 .. Len(r) /\ j + 1 \in (i + 1) .. Len(q) BY <1>1
  <2>3. \A j \in (i + 1) .. Len(q) : ~q[j].late => q[j].state.run = "none" BY <2>1 DEF Feed
  <2>4. \A j \in i .. Len(r) : ~r[j].late => r[j].state.run = "none"
    <3> SUFFICES ASSUME NEW j \in i .. Len(r), ~r[j].late PROVE r[j].state.run = "none" OBVIOUS
    <3>1. j \in 1 .. Len(r) /\ j + 1 \in (i + 1) .. Len(q) BY <2>2
    <3>2. r[j] = q[j + 1] BY <1>1, <3>1
    <3>3. QED BY <2>3, <3>1, <3>2
  <2>5. QED BY <2>1, <2>4 DEF Feed
<1>6. \A i \in 1 .. Len(r) : ~r[i].late /\ r[i].state.at = "dock" =>
         i = Len(r) /\ (se => s.at = "dock")
  <2> SUFFICES ASSUME NEW i \in 1 .. Len(r), ~r[i].late, r[i].state.at = "dock"
               PROVE  i = Len(r) /\ (se => s.at = "dock")
    OBVIOUS
  <2>1. i + 1 \in 1 .. Len(q) /\ ~q[i + 1].late /\ q[i + 1].state.at = "dock" BY <1>1, <1>2
  <2>2. i + 1 = Len(q) /\ (se => s.at = "dock") BY <2>1 DEF Feed
  <2>3. QED BY <1>1, <2>2
<1>7. Feed(s, se, r) BY <1>1, <1>3, <1>4, <1>5, <1>6 DEF Feed
<1>8. QED BY <1>1, <1>2, <1>7 DEF r

\* A snapshot is displayed unless a reply overtook it.
LEMMA OnSnapStep ==
  ASSUME IInv, OnSnap
  PROVE  IInv'
<1> DEFINE m == Head(stream)
           d == Displayed(g, m.state)
           c == ConsumeRunOutcome(d, slot)
           r == Tail(stream)
<1>1. stream # <<>> /\ stream' = r /\ UNCHANGED <<save, seat, kick, guest>> BY DEF OnSnap
<1>2. /\ Feed(save, seat, r) /\ m = stream[1] /\ m \in Snapshots
      /\ Len(stream) \in Nat \ {0} /\ Len(r) = Len(stream) - 1
      /\ \A i \in 1 .. Len(r) : i + 1 \in 1 .. Len(stream) /\ r[i] = stream[i + 1]
  BY <1>1, TailFacts DEF IInv
<1>3. RunsAreOver(stream) => RunsAreOver(r) BY <1>2 DEF RunsAreOver
<1>4. AllLate(stream) => AllLate(r) BY <1>2 DEF AllLate
<1>5. m.late /\ RunsAreOver(r) => RunsAreOver(stream)
  <2>1. \A i \in 1 .. Len(stream) : i = 1 \/ (i - 1 \in 1 .. Len(r) /\ r[i - 1] = stream[i])
    <3> SUFFICES ASSUME NEW i \in 1 .. Len(stream), i # 1
                 PROVE  i - 1 \in 1 .. Len(r) /\ r[i - 1] = stream[i]
      OBVIOUS
    <3>1. i - 1 \in 1 .. Len(r) /\ (i - 1) + 1 = i BY <1>2
    <3>2. QED BY <1>2, <3>1
  <2>2. QED BY <1>2, <2>1 DEF RunsAreOver
<1>6. CASE m.late
  <2>1. UNCHANGED <<g, slot>> BY <1>6 DEF OnSnap
  <2>2. Owed(g, save, seat, r, slot) BY <1>3, <1>5, <1>6 DEF IInv, Owed
  <2>3. Fit(g, save, seat, r) BY <1>3, <1>4 DEF IInv, Fit
  <2> HIDE DEF r
  <2>4. QED BY <1>1, <1>2, <2>1, <2>2, <2>3 DEF IInv
<1>7. CASE ~m.late
  <2> DEFINE s == m.state
  <2>1. g' = c /\ slot' = IF Consumes(d, slot) THEN None ELSE slot BY <1>7 DEF OnSnap
  <2>2. 1 \in 1 .. Len(stream) BY <1>2
  <2>3. Sane(s) /\ s \in Save BY <1>2, <2>2 DEF IInv, Feed, Sane
  <2>4. ~AllLate(stream) BY <1>2, <1>7, <2>2 DEF AllLate
  <2>5. /\ g.snap.at # "dock" /\ g.scr \notin {"shipyard", "jump"} /\ g.overlay # "jump"
        /\ seat => g.scr \notin PortScreens
    BY <2>4 DEF IInv, Fit
  <2>6. g.ticks = 0 /\ g.overlay \notin {"picker", "remove"} /\ (~guest => g.pending = None)
    BY <2>5 DEF IInv, Desk
  <2>7. s.at = "dock" => AllLate(r) /\ (seat => save.at = "dock")
    <3>1. s.at = "dock" => Len(stream) = 1 /\ (seat => save.at = "dock")
      BY <1>2, <1>7, <2>2 DEF IInv, Feed
    <3>2. QED BY <1>2, <3>1 DEF AllLate
  <2>8. s.run = "none" => (seat => save.run = "none") /\ RunsAreOver(r)
    <3> SUFFICES ASSUME s.run = "none" PROVE (seat => save.run = "none") /\ RunsAreOver(r)
      OBVIOUS
    <3>1. /\ seat => save.run = "none"
          /\ \A j \in 1 .. Len(stream) : ~stream[j].late => stream[j].state.run = "none"
      BY <1>2, <1>7, <2>2 DEF IInv, Feed
    <3>2. QED BY <1>3, <3>1 DEF RunsAreOver
  <2>9. s.run # "none" => ~RunsAreOver(stream) BY <1>2, <1>7, <2>2 DEF RunsAreOver
  <2>10. slot \in Outcomes \cup {None} /\ g \in Game BY DEF IInv
  <2>11. /\ d \in Game /\ d.snap = s /\ d.shown = g.shown /\ SameDesk(d, g)
         /\ s.run # "none" => d.scr = "mining"
         /\ s.run = "none" => d.scr = g.scr
    BY <2>3, <2>10, DisplayedFacts
  <2> HIDE DEF d
  <2>12. /\ c \in Game /\ c.snap = d.snap
         /\ ~Consumes(d, slot) => c = d
         /\ Consumes(d, slot) =>
               /\ c.scr \in {"summary", "death"} /\ c.shown = slot
               /\ c.overlay \in {"none", d.overlay} /\ c.pending = d.pending
               /\ c.ticks = d.ticks /\ c.stale = d.stale /\ c.beat = d.beat /\ c.flash = d.flash
    BY <2>10, <2>11, ConsumedFacts
  <2> HIDE DEF c, r, m, s
  <2>13. Consumes(d, slot) => s.run = "none" /\ g.scr = "mining" /\ slot # None
    BY <2>11 DEF Consumes
  <2>14. seat /\ s.run = "none" /\ g.scr = "mining" => Consumes(d, slot) /\ slot = Told(save)
    <3>1. seat /\ s.run = "none" /\ g.scr = "mining" => slot = Told(save) BY <2>8 DEF IInv, Owed
    <3>2. Told(save) # None BY TerminalAssumption DEF Told, Outcomes
    <3>3. QED BY <2>11, <3>1, <3>2 DEF Consumes
  <2>15. slot' \in Outcomes \cup {None} BY <2>1, <2>10
  <2>16. CASE Consumes(d, slot)
    <3>1. Desk(c, guest) BY <2>5, <2>6, <2>11, <2>12, <2>13, <2>16 DEF IInv, Desk, SameDesk
    <3>2. Fit(c, save, seat, r)
      BY <2>5, <2>7, <2>8, <2>11, <2>12, <2>13, <2>14, <2>16 DEF Fit, PortScreens, SameDesk
    <3>3. Owed(c, save, seat, r, slot') BY <2>8, <2>12, <2>13, <2>16 DEF Owed
    <3>4. QED BY <1>1, <1>2, <2>1, <2>3, <2>11, <2>12, <2>15, <3>1, <3>2, <3>3 DEF IInv
  <2>17. CASE ~Consumes(d, slot)
    <3>1. c = d /\ slot' = slot BY <2>1, <2>12, <2>17
    <3>2. Desk(d, guest) BY <2>5, <2>6, <2>11 DEF IInv, Desk, SameDesk
    <3>3. Fit(d, save, seat, r)
      <4>1. seat /\ d.scr = "mining" => d.snap.run # "none" BY <2>11, <2>14, <2>17
      <4>2. d.scr \notin {"shipyard", "jump"} /\ d.overlay # "jump"
        BY <2>5, <2>11 DEF SameDesk
      <4>3. seat => d.scr \notin PortScreens BY <2>5, <2>11 DEF PortScreens
      <4>4. seat /\ d.scr \in {"summary", "death"} =>
               save.run = "none" /\ d.shown = Told(save) /\ RunsAreOver(r)
        BY <1>3, <2>11 DEF IInv, Fit
      <4>5. QED BY <2>7, <2>11, <4>1, <4>2, <4>3, <4>4 DEF Fit
    <3>4. Owed(d, save, seat, r, slot)
      <4>1. CASE s.run # "none" BY <2>9, <4>1 DEF IInv, Owed
      <4>2. CASE s.run = "none" BY <2>8, <2>11, <2>14, <2>17, <4>2 DEF Owed
      <4>3. QED BY <4>1, <4>2
    <3>5. QED BY <1>1, <1>2, <2>1, <2>3, <2>11, <3>1, <2>15, <3>2, <3>3, <3>4 DEF IInv
  <2>18. QED BY <2>16, <2>17
<1>8. QED BY <1>6, <1>7

\* The outcome is polled only while a run that is over is on display.
LEMMA OnTickStep ==
  ASSUME IInv, OnTick
  PROVE  IInv'
<1>1. CASE Quit(FALSE) BY <1>1, QuitKeeps
<1>2. CASE /\ Consumes(g, slot) /\ g' = ConsumeRunOutcome(g, slot) /\ slot' = None
           /\ UNCHANGED <<save, seat, stream, kick, guest>>
  <2> DEFINE c == ConsumeRunOutcome(g, slot)
  <2>1. g \in Game /\ slot \in Outcomes \cup {None} BY DEF IInv
  <2>2. /\ c \in Game /\ c.snap = g.snap
        /\ c.scr \in {"summary", "death"} /\ c.shown = slot
        /\ c.overlay \in {"none", g.overlay} /\ c.pending = g.pending
        /\ c.ticks = g.ticks /\ c.stale = g.stale /\ c.beat = g.beat /\ c.flash = g.flash
    BY <1>2, <2>1, ConsumedFacts
  <2> HIDE DEF c
  <2>3. g.scr = "mining" /\ g.snap.run = "none" BY <1>2 DEF Consumes
  <2>4. ~seat BY <2>3 DEF IInv, Fit
  <2>5. g.overlay \notin {"jump", "picker", "remove"} /\ (~guest => g.pending = None)
    BY <2>3 DEF IInv, Desk
  <2>6. Desk(c, guest) BY <2>2, <2>3, <2>5 DEF IInv, Desk
  <2>7. Fit(c, save, seat, stream) BY <2>2, <2>4, <2>5 DEF IInv, Fit
  <2>8. Owed(c, save, seat, stream, None) BY <2>4 DEF Owed
  <2>9. QED BY <1>2, <2>2, <2>6, <2>7, <2>8 DEF IInv, c
<1>3. QED BY <1>1, <1>2 DEF OnTick

\* The kick dialog covers whatever is open.
LEMMA OnKickStep ==
  ASSUME IInv, OnKick
  PROVE  IInv'
<1>1. "kicked" \in Overlays BY DEF Overlays
<1> DEFINE h == Open("kicked")
<1>2. /\ h \in Game /\ Sane(h.snap) /\ h.scr = g.scr
      /\ Fit(h, save, seat, stream) /\ Desk(h, guest)
  BY <1>1, OpenFits
<1>3. g' = h /\ kick' = FALSE /\ UNCHANGED <<save, seat, stream, slot, guest>>
  BY DEF OnKick, Open
<1> HIDE DEF h
<1>4. Owed(h, save, seat, stream, slot) BY <1>2 DEF IInv, Owed
<1>5. QED BY <1>2, <1>3, <1>4 DEF IInv

\* A model that differs in its timers only.
LEMMA ClockStep ==
  ASSUME IInv, NEW h \in Game, Local(h), h.scr = g.scr, h.overlay = g.overlay, h.snap = g.snap,
         h.shown = g.shown, h.pending = g.pending, h.row = g.row,
         h.scr = "jump" => (h.ticks = 1 <=> (h.beat > 0 \/ h.flash)),
         h.scr # "jump" => h.ticks = 0,
         h.flash => h.beat = 0,
         h.ticks + h.stale <= MaxStale
  PROVE  IInv'
<1>1. Desk(h, guest) BY DEF IInv, Desk
<1>2. Fit(h, save, seat, stream) BY DEF IInv, Fit
<1>3. Sane(h.snap) BY DEF IInv
<1>4. QED BY <1>1, <1>2, <1>3, LocalKeeps

\* A live timer belongs to a running countdown, counts one beat and starts
\* the next timer; the last beat starts the flash.
LEMMA OnJumpTickStep ==
  ASSUME IInv, OnJumpTick
  PROVE  IInv'
<1>1. g \in Game /\ g.ticks > 0 /\ ~g.flash BY DEF IInv, OnJumpTick
<1>2. /\ g.ticks \in 0 .. 1 /\ g.stale \in 0 .. MaxStale /\ g.beat \in 0 .. Countdown
      /\ Countdown \in Nat /\ MaxStale \in Nat
  BY <1>1, TerminalAssumption DEF Game
<1>3. g.ticks = 1 /\ g.scr = "jump" /\ g.beat > 0 BY <1>1, <1>2 DEF IInv, Desk
<1> DEFINE f == g.beat = 1
           b == g.beat - 1
           t == [g EXCEPT !.ticks = @ - 1]
           h == [t EXCEPT !.beat = @ - 1, !.ticks = @ + 1, !.flash = f]
           k == [g EXCEPT !.beat = b, !.flash = f, !.ticks = 1]
<1>4. Local(h) BY <1>1, <1>3 DEF OnJumpTick
<1>5. h = [g EXCEPT !.ticks = (g.ticks - 1) + 1, !.beat = b, !.flash = f]
  BY <1>1 DEF Game
<1>6. (g.ticks - 1) + 1 = 1 /\ b \in 0 .. Countdown /\ f \in BOOLEAN /\ 1 \in 0 .. 1
      /\ (b > 0 <=> ~f) /\ (f => b = 0)
  BY <1>2, <1>3
<1> HIDE DEF b, f, h
<1>7. /\ h \in Game /\ h.scr = g.scr /\ h.overlay = g.overlay /\ h.snap = g.snap
      /\ h.shown = g.shown /\ h.pending = g.pending /\ h.row = g.row
      /\ h.ticks = 1 /\ h.beat = b /\ h.flash = f /\ h.stale = g.stale
  BY <1>1, <1>5, <1>6 DEF Game
<1>8. g.ticks + g.stale <= MaxStale BY DEF IInv, Desk
<1>9. QED BY <1>3, <1>4, <1>6, <1>7, <1>8, ClockStep

LEMMA OnFlashDoneStep ==
  ASSUME IInv, OnFlashDone
  PROVE  IInv'
<1>1. g \in Game /\ g.ticks > 0 /\ g.flash BY DEF IInv, OnFlashDone
<1>2. g.ticks \in 0 .. 1 /\ g.stale \in 0 .. MaxStale /\ MaxStale \in Nat
  BY <1>1, TerminalAssumption DEF Game
<1>3. g.ticks = 1 /\ g.scr = "jump" /\ g.beat = 0 BY <1>1, <1>2 DEF IInv, Desk
<1> DEFINE n == g.ticks - 1
           h == [g EXCEPT !.ticks = n, !.flash = FALSE]
<1>4. Local(h) BY <1>1, <1>3 DEF OnFlashDone
<1>5. n = 0 /\ 0 \in 0 .. 1 BY <1>3
<1> HIDE DEF n
<1>6. /\ h \in Game /\ h.scr = g.scr /\ h.overlay = g.overlay /\ h.snap = g.snap
      /\ h.shown = g.shown /\ h.pending = g.pending /\ h.row = g.row
      /\ h.ticks = 0 /\ h.beat = g.beat /\ h.flash = FALSE /\ h.stale = g.stale
  BY <1>1, <1>5 DEF Game
<1> HIDE DEF h
<1>7. QED BY <1>2, <1>3, <1>4, <1>6, ClockStep

LEMMA OnStaleTickStep ==
  ASSUME IInv, OnStaleTick
  PROVE  IInv'
<1>1. g \in Game /\ g.stale > 0 BY DEF IInv, OnStaleTick
<1>2. g.ticks \in 0 .. 1 /\ g.stale \in 0 .. MaxStale /\ MaxStale \in Nat
  BY <1>1, TerminalAssumption DEF Game
<1> DEFINE n == g.stale - 1
           h == [g EXCEPT !.stale = n]
<1>3. Local(h) BY DEF OnStaleTick
<1>4. n \in 0 .. MaxStale /\ n < g.stale BY <1>1, <1>2
<1> HIDE DEF n
<1>5. /\ h \in Game /\ h.scr = g.scr /\ h.overlay = g.overlay /\ h.snap = g.snap
      /\ h.shown = g.shown /\ h.pending = g.pending /\ h.row = g.row
      /\ h.ticks = g.ticks /\ h.beat = g.beat /\ h.flash = g.flash /\ h.stale = n
  BY <1>1, <1>4 DEF Game
<1> HIDE DEF h
<1>6. h.ticks + h.stale <= MaxStale BY <1>2, <1>4, <1>5 DEF IInv, Desk
<1>7. QED BY <1>3, <1>5, <1>6, ClockStep DEF IInv, Desk

\* The interstitial goes, by its timer or by a key.
LEMMA IntroStep ==
  ASSUME IInv, OnIntroDone \/ DismissIntro
  PROVE  IInv'
<1> DEFINE h == [g EXCEPT !.intro = FALSE]
<1>1. Local(h) BY DEF OnIntroDone, DismissIntro
<1>2. /\ h \in Game /\ h.scr = g.scr /\ h.overlay = g.overlay /\ h.snap = g.snap
      /\ h.shown = g.shown /\ h.pending = g.pending /\ h.row = g.row
      /\ h.ticks = g.ticks /\ h.beat = g.beat /\ h.flash = g.flash /\ h.stale = g.stale
  BY DEF IInv, Game
<1> HIDE DEF h
<1>3. QED BY <1>1, <1>2, ClockStep DEF IInv, Desk

-----------------------------------------------------------------------------
(* The keys. *)

\* A guest's choice may be left behind by ctrl+c; a pilot with a key has
\* none to lose, for his program ends.
LEMMA RequestQuitStep ==
  ASSUME IInv, RequestQuit
  PROVE  IInv'
<1>1. CASE Quit(FALSE) BY <1>1, QuitKeeps
<1>2. CASE guest /\ Local(Open("guestQuit"))
  <2>1. "guestQuit" \in Overlays BY DEF Overlays
  <2>2. QED BY <1>2, <2>1, OpenStep
<1>3. QED BY <1>1, <1>2 DEF RequestQuit

LEMMA KeyHelpStep ==
  ASSUME IInv, KeyHelp
  PROVE  IInv'
<1>1. "help" \in Overlays BY DEF Overlays
<1>2. CASE Typing("none") /\ Local(Open("help"))
  <2>1. g.overlay = "none" BY <1>2 DEF Typing
  <2>2. QED BY <1>1, <1>2, <2>1, NoChoice, OpenStep
<1>3. CASE Typing("help") /\ Local(Closed) BY <1>3, ClosedStep DEF Typing
<1>4. QED BY <1>2, <1>3 DEF KeyHelp

LEMMA KeyGuestQuitStep ==
  ASSUME IInv, KeyGuestQuit
  PROVE  IInv'
<1>1. CASE Quit(FALSE) BY <1>1, QuitKeeps
<1>2. CASE g.overlay = "guestQuit" /\ Local(Closed) BY <1>2, ClosedStep
<1>3. QED BY <1>1, <1>2 DEF KeyGuestQuit

LEMMA KeyOnboardStep ==
  ASSUME IInv, KeyOnboard
  PROVE  IInv'
<1>0. g \in Game /\ g.overlay = "onboard" BY DEF IInv, KeyOnboard, Typing
<1>1. g.page \in 1 .. Pages /\ Pages \in Nat \ {0} BY <1>0, TerminalAssumption DEF Game
<1>2. CASE g.page >= Pages
  <2> DEFINE h == [Closed EXCEPT !.page = 1]
  <2>1. Local(h) BY <1>2 DEF KeyOnboard
  <2>2. /\ Closed \in Game /\ Sane(Closed.snap) /\ Closed.scr = g.scr
        /\ Fit(Closed, save, seat, stream) /\ Desk(Closed, guest)
    BY <1>0, ClosedFits
  <2>3. 1 \in 1 .. Pages BY <1>1
  <2> DEFINE k == Closed
  <2>4. k \in Game /\ k = Closed BY <2>2
  <2> HIDE DEF k
  <2>5. /\ h \in Game /\ h.scr = k.scr /\ h.overlay = k.overlay /\ h.snap = k.snap
        /\ h.shown = k.shown /\ h.pending = k.pending /\ h.row = k.row
        /\ h.ticks = k.ticks /\ h.beat = k.beat /\ h.flash = k.flash /\ h.stale = k.stale
    BY <2>3, <2>4 DEF Game
  <2> HIDE DEF h
  <2>6. Desk(h, guest) BY <2>2, <2>4, <2>5 DEF Desk
  <2>7. Fit(h, save, seat, stream) BY <2>2, <2>4, <2>5 DEF Fit
  <2>8. Sane(h.snap) /\ h.scr = g.scr BY <2>2, <2>4, <2>5
  <2>9. QED BY <2>1, <2>5, <2>6, <2>7, <2>8, LocalKeeps
<1>3. CASE ~(g.page >= Pages)
  <2> DEFINE n == g.page + 1
             h == [g EXCEPT !.page = n]
  <2>1. Local(h) BY <1>3 DEF KeyOnboard
  <2>2. n \in 1 .. Pages BY <1>1, <1>3
  <2> HIDE DEF n
  <2>3. /\ h \in Game /\ h.scr = g.scr /\ h.overlay = g.overlay /\ h.snap = g.snap
        /\ h.shown = g.shown /\ h.pending = g.pending /\ h.row = g.row
        /\ h.ticks = g.ticks /\ h.beat = g.beat /\ h.flash = g.flash /\ h.stale = g.stale
    BY <1>0, <2>2 DEF Game
  <2> HIDE DEF h
  <2>4. QED BY <2>1, <2>3, ClockStep DEF IInv, Desk
<1>4. QED BY <1>2, <1>3

\* An intent that leaves the save where it is, from the model as it is.
LEMMA SameSaveStep ==
  ASSUME IInv, NEW states, Intent(g, states), seat => states \subseteq {save}
  PROVE  IInv'
<1>1. g \in Game /\ Desk(g, guest) /\ Sane(save) BY DEF IInv
<1>2. seat => Ready(g, save, slot, guest) BY <1>1, SameSaveIsReady
<1>3. QED BY <1>1, <1>2, IntentKeeps

\* The same, closing the dialog.
LEMMA SameSaveClosedStep ==
  ASSUME IInv, Intent(Closed, {save}), g.overlay \notin {"remove", "kicked"}
  PROVE  IInv'
<1> DEFINE h == Closed
<1>1. /\ h \in Game /\ Desk(h, guest) /\ h.scr = g.scr /\ h.shown = g.shown
      /\ h.ticks = g.ticks /\ h.overlay = "none"
  BY ClosedFits
<1> HIDE DEF h
<1>2. seat => Ready(h, save, slot, guest) BY <1>1, SameSaveIsReady
<1>3. Intent(h, {save}) BY DEF h
<1>4. QED BY <1>1, <1>2, <1>3, IntentKeeps DEF IInv

LEMMA ConfirmStep ==
  ASSUME IInv, Confirm, g.overlay \notin {"remove", "kicked"}
  PROVE  IInv'
  BY ClosedStep, SameSaveClosedStep DEF Confirm

\* The notice is cleared; the save stays where it is.
LEMMA DismissSignalLostStep ==
  ASSUME IInv, DismissSignalLost
  PROVE  IInv'
<1> DEFINE s == [save EXCEPT !.notice = FALSE]
           h == Closed
<1>1. g.overlay = "signalLost" /\ Forced(h, s) BY DEF DismissSignalLost, Typing
<1>2. s \in Save /\ s.at = save.at /\ s.run = save.run /\ s.rocks = save.rocks
  BY DEF IInv, Sane, Save
<1>3. Sane(s) BY <1>2 DEF IInv, Sane
<1>4. /\ h \in Game /\ Sane(h.snap) /\ Fit(h, save, seat, stream) /\ Desk(h, guest)
      /\ h.scr = g.scr /\ h.shown = g.shown /\ h.ticks = g.ticks /\ h.overlay = "none"
  BY <1>1, ClosedFits
<1> HIDE DEF s, h
<1>5. seat => Ready(h, s, slot, guest) BY <1>2, <1>4, SameSaveIsReady
<1>6. QED BY <1>1, <1>3, <1>4, <1>5, ForcedKeeps

LEMMA KeyTweaksStep ==
  ASSUME IInv, KeyTweaks
  PROVE  IInv'
<1>1. g.overlay = "tweaks" BY DEF KeyTweaks, Typing
<1>2. QED BY <1>1, ClosedStep, SameSaveStep DEF KeyTweaks

\* Without a dialog, off the jump screen.
LEMMA OnFacts ==
  ASSUME IInv, NEW sc, On(sc)
  PROVE  /\ g \in Game /\ g.overlay = "none" /\ g.scr = sc /\ (~guest => g.pending = None)
         /\ sc # "jump" => g.ticks = 0
<1>1. g \in Game /\ g.overlay = "none" /\ g.scr = sc BY DEF IInv, On, Typing
<1>2. QED BY <1>1, NoChoice DEF IInv, Desk

-----------------------------------------------------------------------------
(* The star chart and the jump. *)

LEMMA KeyChartDockedStep ==
  ASSUME IInv, KeyChartDocked
  PROVE  IInv'
<1>1. On("chart") /\ g.snap.at = "dock" BY DEF KeyChartDocked
<1>2. g \in Game /\ g.overlay = "none" /\ g.scr = "chart" /\ (~guest => g.pending = None) /\ g.ticks = 0
  BY <1>1, OnFacts
<1>3. CASE Service BY <1>3, SameSaveStep DEF Service
<1>4. CASE \E o \in {"certify", "ferry", "jump", "permit"} : Local(Open(o))
  <2>1. PICK o \in {"certify", "ferry", "jump", "permit"} : Local(Open(o)) BY <1>4
  <2>2. o \in Overlays BY DEF Overlays
  <2>3. QED BY <1>1, <1>2, <2>1, <2>2, OpenStep
<1>5. CASE Local([g EXCEPT !.scr = "shipyard", !.row = None])
  <2> DEFINE h == [g EXCEPT !.scr = "shipyard", !.row = None]
  <2>1. /\ h \in Game /\ h.scr = "shipyard" /\ h.overlay = g.overlay /\ h.snap = g.snap
        /\ h.pending = g.pending /\ h.ticks = g.ticks
        /\ h.beat = g.beat /\ h.flash = g.flash /\ h.stale = g.stale
    BY <1>2 DEF Game, Screens
  <2> HIDE DEF h
  <2>2. Local(h) BY <1>5 DEF h
  <2>3. QED BY <1>1, <1>2, <2>1, <2>2, MoveStep DEF PortScreens
<1>6. QED BY <1>3, <1>4, <1>5 DEF KeyChartDocked

\* Only a docked ship departs, and finds a fresh belt.
LEMMA DepartStep ==
  ASSUME IInv, Depart
  PROVE  IInv'
<1> DEFINE h == [g EXCEPT !.scr = "belt", !.sel = 0]
           t == [save EXCEPT !.at = "belt", !.rocks = Rocks]
           states == IF save.at = "dock" THEN {t} ELSE {}
<1>1. On("chart") /\ Intent(h, states) BY DEF Depart
<1>2. g \in Game /\ g.overlay = "none" /\ (~guest => g.pending = None) /\ g.ticks = 0
  BY <1>1, OnFacts
<1>3. 0 \in 0 .. (Rocks - 1) /\ Rocks \in 0 .. Rocks /\ Rocks > 0 /\ "belt" \in Screens
  BY TerminalAssumption DEF Screens
<1>4. /\ h \in Game /\ h.scr = "belt" /\ h.overlay = g.overlay /\ h.snap = g.snap
      /\ h.pending = g.pending /\ h.ticks = g.ticks
      /\ h.beat = g.beat /\ h.flash = g.flash /\ h.stale = g.stale
  BY <1>2, <1>3 DEF Game
<1>5. save \in Save /\ (save.at = "dock" => save.run = "none") BY DEF IInv, Sane
<1>6. t \in Save /\ t.at = "belt" /\ t.rocks = Rocks /\ t.run = save.run
  BY <1>3, <1>5 DEF Save
<1> HIDE DEF h, t
<1>7. Desk(h, guest) BY <1>2, <1>4, MoveFits DEF PortScreens
<1>8. save.at = "dock" => Sane(t) /\ Ready(h, t, slot, guest)
  BY <1>2, <1>3, <1>4, <1>5, <1>6, <1>7 DEF Sane, Ready, PortScreens
<1>9. QED BY <1>1, <1>4, <1>8, IntentKeeps

LEMMA ReturnToBeltStep ==
  ASSUME IInv, ReturnToBelt
  PROVE  IInv'
<1> DEFINE h == [g EXCEPT !.scr = "belt", !.sel = 0]
<1>1. On("chart") /\ Local(h) BY DEF ReturnToBelt
<1>2. g \in Game /\ g.overlay = "none" /\ g.ticks = 0 BY <1>1, OnFacts
<1>3. 0 \in 0 .. (Rocks - 1) /\ "belt" \in Screens BY TerminalAssumption DEF Screens
<1>4. /\ h \in Game /\ h.scr = "belt" /\ h.overlay = g.overlay /\ h.snap = g.snap
      /\ h.pending = g.pending /\ h.ticks = g.ticks
      /\ h.beat = g.beat /\ h.flash = g.flash /\ h.stale = g.stale
  BY <1>2, <1>3 DEF Game
<1> HIDE DEF h
<1>5. QED BY <1>1, <1>2, <1>4, MoveStep DEF PortScreens

\* Another screen of the port, by a key.
LEMMA PortStep ==
  ASSUME IInv, NEW from \in PortScreens, On(from), g.ticks = 0, NEW to \in {"chart", "log"},
         Local(Goto(to))
  PROVE  IInv'
<1> DEFINE h == Goto(to)
<1>1. g \in Game /\ g.overlay = "none" /\ g.scr = from BY OnFacts
<1>2. to \in Screens BY DEF Screens
<1>3. /\ h \in Game /\ h.scr = to /\ h.overlay = g.overlay /\ h.snap = g.snap
      /\ h.pending = g.pending /\ h.ticks = g.ticks
      /\ h.beat = g.beat /\ h.flash = g.flash /\ h.stale = g.stale
  BY <1>1, <1>2 DEF Goto, Game
<1> HIDE DEF h
<1>4. Local(h) BY DEF h
<1>5. QED BY <1>1, <1>3, <1>4, MoveStep

LEMMA KeyChartStep ==
  ASSUME IInv, KeyChart
  PROVE  IInv'
<1>1. On("chart") /\ "chart" \in PortScreens /\ "tweaks" \in Overlays
  BY DEF KeyChart, PortScreens, Overlays
<1>2. g.overlay = "none" /\ (~guest => g.pending = None) /\ g.ticks = 0 BY <1>1, OnFacts
<1>3. CASE Local(Goto("log")) BY <1>1, <1>2, <1>3, PortStep
<1>4. CASE Local(Open("tweaks")) BY <1>1, <1>2, <1>4, OpenStep
<1>5. CASE RequestQuit BY <1>5, RequestQuitStep
<1>6. QED BY <1>3, <1>4, <1>5 DEF KeyChart

LEMMA KeyLogStep ==
  ASSUME IInv, KeyLog
  PROVE  IInv'
<1>1. On("log") /\ "log" \in PortScreens /\ Local(Goto("chart")) BY DEF KeyLog, PortScreens
<1>2. g.ticks = 0 BY <1>1, OnFacts
<1>3. QED BY <1>1, <1>2, PortStep

\* The countdown begins with one timer, or with none where motion is
\* reduced.
LEMMA BeginJumpFacts ==
  ASSUME NEW h \in Game, h.ticks = 0
  PROVE  LET b == BeginJump(h)
         IN /\ b \in Game /\ b.overlay = "none" /\ b.scr = "jump" /\ b.snap = h.snap
            /\ b.pending = h.pending /\ b.stale = h.stale /\ ~b.flash
            /\ b.ticks \in {0, 1} /\ (b.ticks = 1 <=> b.beat > 0)
<1> DEFINE n == IF Calm THEN 0 ELSE Countdown
           k == IF n > 0 THEN 1 ELSE 0
           st == h.stale + h.ticks
<1>1. n \in 0 .. Countdown BY TerminalAssumption
<1>2. k \in 0 .. 1 /\ (k = 1 <=> n > 0) OBVIOUS
<1>3. h.stale \in 0 .. MaxStale BY DEF Game
<1>4. st = h.stale BY <1>3
<1>5. BeginJump(h) = [h EXCEPT !.overlay = "none", !.scr = "jump", !.beat = n, !.flash = FALSE,
                               !.stale = st, !.ticks = k]
  BY DEF BeginJump, Game
<1> DEFINE b == [h EXCEPT !.overlay = "none", !.scr = "jump", !.beat = n, !.flash = FALSE,
                         !.stale = st, !.ticks = k]
<1> HIDE DEF n, k, st
<1>6. "none" \in Overlays /\ "jump" \in Screens BY DEF Overlays, Screens
<1>7. st \in 0 .. MaxStale /\ k \in {0, 1} BY <1>2, <1>3, <1>4
<1>8. b \in Game BY <1>1, <1>2, <1>6, <1>7 DEF Game
<1>9. /\ b.overlay = "none" /\ b.scr = "jump" /\ b.snap = h.snap /\ b.pending = h.pending
      /\ b.stale = st /\ b.flash = FALSE /\ b.ticks = k /\ b.beat = n
  BY DEF Game
<1> HIDE DEF b
<1>10. BeginJump(h) = b BY <1>5 DEF b
<1>11. QED BY <1>2, <1>4, <1>7, <1>8, <1>9, <1>10

LEMMA ConfirmJumpStep ==
  ASSUME IInv, ConfirmJump
  PROVE  IInv'
<1>1. g.overlay = "jump" /\ g.stale < MaxStale /\ Quiet BY DEF ConfirmJump, Typing
<1>2. g.scr = "chart" /\ g.ticks = 0 /\ (~guest => g.pending = None) BY <1>1 DEF IInv, Desk
<1>3. CASE Refused(g) BY <1>1, <1>3, NothingKeeps DEF Refused, Quiet, vars
<1>4. CASE Refused(Closed) BY <1>1, <1>4, ClosedStep DEF Local
<1>5. CASE seat /\ AnswerThen(g, save, slot, BeginJump)
  <2> DEFINE d == Displayed(g, save)
             b == BeginJump(d)
  <2>1. save.at = "dock" /\ save.run = "none" /\ save \in Save /\ Sane(save)
    BY <1>2, <1>5 DEF IInv, Fit, PortScreens, Sane
  <2>2. g \in Game BY DEF IInv
  <2>3. d \in Game /\ d.snap = save /\ d.scr = g.scr /\ SameDesk(d, g)
    BY <2>1, <2>2, DisplayedFacts
  <2>4. ~Consumes(d, slot) BY <1>2, <2>3 DEF Consumes
  <2>5. ConsumeRunOutcome(d, slot) = d BY <2>4 DEF ConsumeRunOutcome
  <2>6. save' = save /\ g' = b /\ slot' = slot /\ stream' = Overtaken(stream)
    BY <1>5, <2>4, <2>5 DEF AnswerThen
  <2> HIDE DEF d
  <2>7. /\ b \in Game /\ b.overlay = "none" /\ b.scr = "jump" /\ b.snap = d.snap
        /\ b.pending = d.pending /\ b.stale = d.stale /\ ~b.flash
        /\ b.ticks \in {0, 1} /\ (b.ticks = 1 <=> b.beat > 0)
    BY <1>2, <2>3, BeginJumpFacts DEF SameDesk
  <2> HIDE DEF b
  <2>8. Feed(save, seat, stream') /\ AllLate(stream') /\ RunsAreOver(stream')
    BY <2>6, OvertakenFeed DEF IInv
  <2>9. g.stale \in 0 .. MaxStale /\ MaxStale \in Nat BY <2>2, TerminalAssumption DEF Game
  <2>10. b.ticks + b.stale <= MaxStale BY <1>1, <2>3, <2>7, <2>9 DEF SameDesk
  <2>11. Desk(b, guest) BY <1>2, <2>3, <2>7, <2>10 DEF Desk, SameDesk
  <2>12. Fit(b, save, seat, stream') BY <2>1, <2>3, <2>7, <2>8 DEF Fit
  <2>13. Owed(b, save, seat, stream', slot) BY <2>7, <2>8 DEF Owed
  <2>14. QED BY <1>1, <2>1, <2>3, <2>6, <2>7, <2>8, <2>11, <2>12, <2>13 DEF IInv, Quiet
<1>6. QED BY <1>3, <1>4, <1>5 DEF ConfirmJump

\* Skipping abandons the timer, if there is one.
LEMMA KeyJumpStep ==
  ASSUME IInv, KeyJump
  PROVE  IInv'
<1>0. On("jump") /\ "jump" \in PortScreens BY DEF KeyJump, PortScreens
<1>1. g \in Game /\ g.overlay = "none" /\ g.scr = "jump" BY <1>0, OnFacts
<1>2. /\ g.ticks \in 0 .. 1 /\ g.stale \in 0 .. MaxStale /\ g.beat \in 0 .. Countdown
      /\ MaxStale \in Nat /\ Countdown \in Nat
  BY <1>1, TerminalAssumption DEF Game
<1>3. g.ticks + g.stale <= MaxStale BY DEF IInv, Desk
<1>4. CASE g.beat > 0 \/ g.flash
  <2> DEFINE st == g.stale + g.ticks
             h == [g EXCEPT !.flash = FALSE, !.beat = 0, !.stale = st, !.ticks = 0]
  <2>1. SkipJump(g) = h BY <1>1 DEF SkipJump, Game
  <2>2. st \in 0 .. MaxStale /\ 0 \in 0 .. Countdown /\ 0 \in 0 .. 1 BY <1>2, <1>3
  <2> HIDE DEF st
  <2>3. /\ h \in Game /\ h.scr = g.scr /\ h.overlay = g.overlay /\ h.snap = g.snap
        /\ h.shown = g.shown /\ h.pending = g.pending /\ h.row = g.row
        /\ h.ticks = 0 /\ h.beat = 0 /\ h.flash = FALSE /\ h.stale = st
    BY <1>1, <2>2 DEF Game
  <2>4. Local(h) BY <1>4, <2>1 DEF KeyJump
  <2> HIDE DEF h
  <2>5. QED BY <1>1, <2>2, <2>3, <2>4, ClockStep
<1>5. CASE ~(g.beat > 0 \/ g.flash)
  <2>1. g.ticks = 0 BY <1>1, <1>2, <1>5 DEF IInv, Desk
  <2>2. Local(Goto("chart")) BY <1>5 DEF KeyJump
  <2>3. QED BY <1>0, <2>1, <2>2, PortStep
<1>6. QED BY <1>4, <1>5

-----------------------------------------------------------------------------
(* The belt. *)

LEMMA MoveRockStep ==
  ASSUME IInv, MoveRock
  PROVE  IInv'
<1>1. PICK n \in 0 .. (g.snap.rocks - 1) : Local([g EXCEPT !.sel = n]) BY DEF MoveRock
<1> DEFINE h == [g EXCEPT !.sel = n]
<1>2. g \in Game /\ g.snap \in Save /\ Rocks \in Nat BY TerminalAssumption DEF IInv, Sane
<1>3. g.snap.rocks \in 0 .. Rocks BY <1>2 DEF Save
<1>4. n \in 0 .. (Rocks - 1) BY <1>2, <1>3
<1>5. /\ h \in Game /\ h.scr = g.scr /\ h.overlay = g.overlay /\ h.snap = g.snap
      /\ h.shown = g.shown /\ h.pending = g.pending /\ h.row = g.row
      /\ h.ticks = g.ticks /\ h.beat = g.beat /\ h.flash = g.flash /\ h.stale = g.stale
  BY <1>2, <1>4 DEF Game
<1>6. Local(h) BY <1>1
<1> HIDE DEF h
<1>7. QED BY <1>5, <1>6, ClockStep DEF IInv, Desk

\* A reply with a run on, to a model without a dialog or a timer.
LEMMA RunReply ==
  ASSUME NEW h, NEW s, NEW out, NEW gu, s.run # "none", h.overlay = "none",
         ~gu => h.pending = None, h.ticks = 0, Desk(h, gu)
  PROVE  Ready(h, s, out, gu)
  BY DEF Ready

LEMMA LockStep ==
  ASSUME IInv, Lock
  PROVE  IInv'
<1> DEFINE h == Goto("mining")
           t == [save EXCEPT !.run = "mining"]
           states == IF save.at = "belt" /\ save.run = "none" /\ save.rocks > 0 THEN {t} ELSE {}
<1>1. On("belt") /\ (Quit(TRUE) \/ Intent(h, states)) BY DEF Lock, BeltKey
<1>2. g \in Game /\ g.overlay = "none" /\ g.scr = "belt" /\ (~guest => g.pending = None) /\ g.ticks = 0
  BY <1>1, OnFacts
<1>3. /\ h \in Game /\ h.scr = "mining" /\ h.overlay = g.overlay /\ h.pending = g.pending
      /\ h.ticks = g.ticks /\ h.beat = g.beat /\ h.flash = g.flash /\ h.stale = g.stale
  BY <1>2 DEF Goto, Game, Screens
<1>4. save \in Save BY DEF IInv, Sane
<1>5. t \in Save /\ t.run = "mining" /\ t.at = save.at /\ t.rocks = save.rocks
  BY <1>4 DEF Save, Phases
<1>6. CASE Quit(TRUE) BY <1>6, QuitKeeps
<1>7. CASE Intent(h, states)
  <2> HIDE DEF h, t
  <2>1. Desk(h, guest) BY <1>2, <1>3 DEF IInv, Desk
  <2>2. Ready(h, t, slot, guest) BY <1>2, <1>3, <1>5, <2>1, RunReply
  <2>3. \A s \in states : Sane(s) BY <1>5 DEF Sane
  <2>4. QED BY <1>3, <1>7, <2>2, <2>3, IntentKeeps
<1>8. QED BY <1>1, <1>6, <1>7

LEMMA ScanStep ==
  ASSUME IInv, Scan
  PROVE  IInv'
<1>1. Quit(TRUE) \/ Intent(g, {save}) BY DEF Scan, BeltKey
<1>2. QED BY <1>1, QuitKeeps, SameSaveStep

\* Docking ends at the dock, unless a run is on.
LEMMA DockedFacts ==
  ASSUME NEW s, Sane(s)
  PROVE  Sane(Docked(s)) /\ Docked(s).run = s.run /\ (s.run = "none" => Docked(s).at = "dock")
<1>1. CASE s.run # "none" BY <1>1 DEF Docked
<1>2. CASE s.run = "none"
  <2> DEFINE d == [s EXCEPT !.at = "dock", !.rocks = 0]
  <2>1. Docked(s) = d BY <1>2 DEF Docked
  <2>2. 0 \in 0 .. Rocks /\ s \in Save BY TerminalAssumption DEF Sane
  <2>3. d \in Save /\ d.at = "dock" /\ d.rocks = 0 /\ d.run = s.run BY <2>2 DEF Save
  <2>4. QED BY <1>2, <2>1, <2>3 DEF Sane
<1>3. QED BY <1>1, <1>2

\* Docking, and the chart that is shown: from a screen without a dialog.
LEMMA DockStep ==
  ASSUME IInv, NEW h \in Game, Forced(h, Docked(save)),
         g.overlay = "none", g.ticks = 0, h.scr = "chart",
         h.overlay = g.overlay, h.snap = g.snap, h.pending = g.pending, h.ticks = g.ticks,
         h.stale = g.stale, h.beat = g.beat, h.flash = g.flash
  PROVE  IInv'
<1>1. ~guest => g.pending = None BY NoChoice
<1>2. Desk(h, guest) BY <1>1 DEF IInv, Desk
<1>3. /\ Sane(Docked(save)) /\ Docked(save).run = save.run
      /\ save.run = "none" => Docked(save).at = "dock"
  BY DockedFacts DEF IInv
<1>4. Ready(h, Docked(save), slot, guest) BY <1>1, <1>2, <1>3 DEF Ready
<1>5. ~seat => Sane(h.snap) /\ Fit(h, save, seat, stream) BY DEF IInv, Fit
<1>6. QED BY <1>2, <1>3, <1>4, <1>5, ForcedKeeps

LEMMA KeyBeltStep ==
  ASSUME IInv, KeyBelt
  PROVE  IInv'
<1>1. On("belt") BY DEF KeyBelt
<1>2. g \in Game /\ g.overlay = "none" /\ g.ticks = 0 BY <1>1, OnFacts
<1>3. CASE Forced(g, save)
  <2>1. Desk(g, guest) /\ Sane(save) /\ Sane(g.snap) /\ Fit(g, save, seat, stream) BY DEF IInv
  <2>2. seat => Ready(g, save, slot, guest) BY <1>2, <2>1, SameSaveIsReady
  <2>3. QED BY <1>2, <1>3, <2>1, <2>2, ForcedKeeps
<1>4. CASE Forced(Goto("chart"), Docked(save))
  <2> DEFINE h == Goto("chart")
  <2>1. /\ h \in Game /\ h.scr = "chart" /\ h.overlay = g.overlay /\ h.snap = g.snap
        /\ h.pending = g.pending /\ h.ticks = g.ticks
        /\ h.beat = g.beat /\ h.flash = g.flash /\ h.stale = g.stale
    BY <1>2 DEF Goto, Game, Screens
  <2> HIDE DEF h
  <2>2. Forced(h, Docked(save)) BY <1>4 DEF h
  <2>3. QED BY <1>2, <2>1, <2>2, DockStep
<1>5. QED BY <1>3, <1>4 DEF KeyBelt

-----------------------------------------------------------------------------
(* The run, and after it. *)

\* A reply to a key of the mining screen, with the run still on.
LEMMA PhaseReady ==
  ASSUME IInv, On("mining"), NEW s, s.run # "none", NEW out
  PROVE  Ready(g, s, out, guest)
<1>1. g.overlay = "none" /\ (~guest => g.pending = None) /\ g.ticks = 0 BY OnFacts
<1>2. QED BY <1>1, RunReply DEF IInv

LEMMA ToPhaseFacts ==
  ASSUME IInv, save.run # "none", NEW p \in Phases \ {"none"}
  PROVE  Sane(ToPhase(p)) /\ ToPhase(p).run = p
<1>1. save \in Save /\ save.at # "dock" /\ save.rocks > 0 BY DEF IInv, Sane
<1> DEFINE t == ToPhase(p)
<1>2. t \in Save /\ t.run = p /\ t.at = save.at /\ t.rocks = save.rocks
  BY <1>1 DEF ToPhase, Save
<1> HIDE DEF t
<1>3. QED BY <1>1, <1>2 DEF Sane, t

LEMMA BailOrDepartStep ==
  ASSUME IInv, BailOrDepart
  PROVE  IInv'
<1>1. On("mining") /\ Quiet BY DEF BailOrDepart, Showing
<1>2. g \in Game /\ slot \in Outcomes \cup {None} /\ Desk(g, guest) /\ Sane(save) BY DEF IInv
<1>3. CASE seat /\ save.run = "mining" /\ Answer(g, ToPhase("escaping"), slot)
  <2>1. "escaping" \in Phases \ {"none"} BY DEF Phases
  <2>2. Sane(ToPhase("escaping")) /\ ToPhase("escaping").run = "escaping"
    BY <1>3, <2>1, ToPhaseFacts
  <2>3. Ready(g, ToPhase("escaping"), slot, guest) BY <1>1, <2>2, PhaseReady
  <2>4. QED BY <1>1, <1>2, <1>3, <2>2, <2>3, AnswerKeeps
<1>4. CASE seat /\ save.run = "none" /\ Answer(g, save, slot)
  <2>1. Ready(g, save, slot, guest) BY <1>2, <1>4, SameSaveIsReady
  <2>2. QED BY <1>1, <1>2, <1>4, <2>1, AnswerKeeps
<1>5. CASE Refused(g) BY <1>1, <1>5, NothingKeeps DEF Refused, Quiet, vars
<1>6. QED BY <1>3, <1>4, <1>5 DEF BailOrDepart

LEMMA AnswerTributeStep ==
  ASSUME IInv, AnswerTribute
  PROVE  IInv'
<1>1. On("mining") BY DEF AnswerTribute, Showing
<1>2. PICK p \in {"escaping", "combat"} : Intent(g, InPhase("tribute", {ToPhase(p)}))
  BY DEF AnswerTribute
<1>3. p \in Phases \ {"none"} /\ g \in Game BY DEF Phases, IInv
<1>4. \A s \in InPhase("tribute", {ToPhase(p)}) : Sane(s) /\ s.run # "none"
  BY <1>3, ToPhaseFacts DEF InPhase
<1>5. QED BY <1>1, <1>2, <1>3, <1>4, PhaseReady, IntentKeeps

\* The volley that ends the run brings the outcome with the reply.
LEMMA FireStep ==
  ASSUME IInv, Fire
  PROVE  IInv'
<1>1. On("mining") /\ Quiet BY DEF Fire, Showing
<1>2. g \in Game /\ slot \in Outcomes \cup {None} /\ Desk(g, guest) /\ Sane(save) BY DEF IInv
<1>3. g.overlay = "none" /\ g.scr = "mining" /\ (~guest => g.pending = None) /\ g.ticks = 0
  BY <1>1, OnFacts
<1>4. CASE save.run = "combat" /\ Answer(g, save, slot)
  BY <1>1, <1>2, <1>4, PhaseReady, AnswerKeeps
<1>5. CASE save.run = "combat" /\ \E s \in Survived(save) : Answer(g, s, "survived")
  <2>1. PICK n \in {save.rocks, save.rocks - 1} :
          Answer(g, [save EXCEPT !.run = "none", !.rocks = n], "survived")
    BY <1>5 DEF Survived
  <2> DEFINE s == [save EXCEPT !.run = "none", !.rocks = n]
  <2>2. save \in Save /\ save.at = "belt" /\ save.rocks > 0 BY <1>5 DEF IInv, Sane, Save
  <2>3. n \in 0 .. Rocks /\ "none" \in Phases BY <2>1, <2>2, TerminalAssumption DEF Save, Phases
  <2>4. s \in Save /\ s.run = "none" /\ s.at = "belt" /\ s.rocks = n BY <2>2, <2>3 DEF Save
  <2>5. Answer(g, s, "survived") BY <2>1
  <2> HIDE DEF s
  <2>6. Sane(s) /\ Told(s) = "survived" BY <2>4 DEF Sane, Told
  <2>7. Ready(g, s, "survived", guest) BY <1>2, <1>3, <2>6 DEF Ready, PortScreens
  <2>8. "survived" \in Outcomes \cup {None} BY DEF Outcomes
  <2>9. QED BY <1>1, <1>2, <2>5, <2>6, <2>7, <2>8, AnswerKeeps
<1>6. CASE Refused(g) BY <1>1, <1>6, NothingKeeps DEF Refused, Quiet, vars
<1>7. QED BY <1>4, <1>5, <1>6 DEF Fire

LEMMA RunKeysStep ==
  ASSUME IInv, AttemptSkillCheck \/ CombatEscape
  PROVE  IInv'
<1>1. CASE AttemptSkillCheck
  <2>1. Intent(g, IF save.run = "none" THEN {} ELSE {save}) BY <1>1 DEF AttemptSkillCheck
  <2>2. QED BY <2>1, SameSaveStep
<1>2. CASE CombatEscape
  <2>1. Intent(g, InPhase("combat", {save})) BY <1>2 DEF CombatEscape
  <2>2. InPhase("combat", {save}) \subseteq {save} BY DEF InPhase
  <2>3. QED BY <2>1, <2>2, SameSaveStep
<1>3. QED BY <1>1, <1>2

LEMMA KeyDeathStep ==
  ASSUME IInv, KeyDeath
  PROVE  IInv'
<1> DEFINE h == Goto("summary")
<1>1. On("death") /\ Local(h) BY DEF KeyDeath
<1>2. g \in Game /\ g.overlay = "none" /\ g.scr = "death" /\ g.ticks = 0 BY <1>1, OnFacts
<1>3. /\ h \in Game /\ h.scr = "summary" /\ h.overlay = g.overlay /\ h.snap = g.snap
      /\ h.pending = g.pending /\ h.ticks = g.ticks /\ h.shown = g.shown
      /\ h.beat = g.beat /\ h.flash = g.flash /\ h.stale = g.stale
  BY <1>2 DEF Goto, Game, Screens
<1> HIDE DEF h
<1>4. QED BY <1>1, <1>2, <1>3, MoveStep DEF PortScreens

LEMMA KeySummaryStep ==
  ASSUME IInv, KeySummary
  PROVE  IInv'
<1>1. On("summary") BY DEF KeySummary
<1>2. g \in Game /\ g.overlay = "none" /\ g.ticks = 0 BY <1>1, OnFacts
<1>3. CASE Forced(ToChart, Docked(save))
  <2> DEFINE h == ToChart
  <2>1. /\ h \in Game /\ h.scr = "chart" /\ h.overlay = g.overlay /\ h.snap = g.snap
        /\ h.pending = g.pending /\ h.ticks = g.ticks
        /\ h.beat = g.beat /\ h.flash = g.flash /\ h.stale = g.stale
    BY <1>2 DEF ToChart, Game, Screens
  <2> HIDE DEF h
  <2>2. Forced(h, Docked(save)) BY <1>3 DEF h
  <2>3. QED BY <1>2, <2>1, <2>2, DockStep
<1>4. CASE Local([g EXCEPT !.scr = "belt", !.shown = None])
  <2> DEFINE h == [g EXCEPT !.scr = "belt", !.shown = None]
  <2>1. /\ h \in Game /\ h.scr = "belt" /\ h.overlay = g.overlay /\ h.snap = g.snap
        /\ h.pending = g.pending /\ h.ticks = g.ticks
        /\ h.beat = g.beat /\ h.flash = g.flash /\ h.stale = g.stale
    BY <1>2 DEF Game, Screens
  <2> HIDE DEF h
  <2>2. Local(h) BY <1>4 DEF h
  <2>3. QED BY <1>2, <2>1, <2>2, MoveStep DEF PortScreens
<1>5. QED BY <1>3, <1>4 DEF KeySummary

-----------------------------------------------------------------------------
(* The shipyard. *)

\* A dialog of the shipyard, with the choice it is about.
LEMMA YardFits ==
  ASSUME IInv, NEW h \in Game, g.scr = "shipyard", h.scr = "shipyard",
         h.overlay \in {"none", "picker", "remove"},
         ~guest /\ h.pending # None => h.overlay = "remove" /\ h.pending = h.row,
         h.snap = g.snap, h.shown = g.shown, h.ticks = g.ticks, h.stale = g.stale,
         h.beat = g.beat, h.flash = g.flash
  PROVE  Sane(h.snap) /\ Fit(h, save, seat, stream) /\ Desk(h, guest)
<1>1. Desk(h, guest) BY DEF IInv, Desk
<1>2. Fit(h, save, seat, stream) BY DEF IInv, Fit
<1>3. QED BY <1>1, <1>2 DEF IInv

\* What opening or closing a dialog with a choice writes.
LEMMA ChoiceFacts ==
  ASSUME IInv, NEW o \in Overlays, NEW p \in Slots \cup {None}
  PROVE  LET h == [Open(o) EXCEPT !.pending = p]
         IN /\ h \in Game /\ h.overlay = o /\ h.pending = p /\ h.row = g.row /\ h.scr = g.scr
            /\ h.snap = g.snap /\ h.shown = g.shown /\ h.ticks = g.ticks /\ h.stale = g.stale
            /\ h.beat = g.beat /\ h.flash = g.flash
<1> DEFINE h == [Open(o) EXCEPT !.pending = p]
<1>1. g \in Game BY DEF IInv
<1>2. h = [g EXCEPT !.overlay = o, !.pending = p] BY <1>1 DEF Open, Game
<1> HIDE DEF h
<1>3. /\ h \in Game /\ h.overlay = o /\ h.pending = p /\ h.row = g.row /\ h.scr = g.scr
      /\ h.snap = g.snap /\ h.shown = g.shown /\ h.ticks = g.ticks /\ h.stale = g.stale
      /\ h.beat = g.beat /\ h.flash = g.flash
  BY <1>1, <1>2 DEF Game
<1>4. QED BY <1>3 DEF h

LEMMA ChoiceStep ==
  ASSUME IInv, g.scr = "shipyard", NEW o \in {"none", "picker", "remove"}, NEW p \in Slots \cup {None},
         p # None => o = "remove" /\ p = g.row,
         \/ Local([Open(o) EXCEPT !.pending = p])
         \/ Quiet /\ ChangeSlot([Open(o) EXCEPT !.pending = p]) /\ o = "none"
  PROVE  IInv'
<1> DEFINE h == [Open(o) EXCEPT !.pending = p]
<1>1. o \in Overlays BY DEF Overlays
<1>2. /\ h \in Game /\ h.overlay = o /\ h.pending = p /\ h.row = g.row /\ h.scr = g.scr
      /\ h.snap = g.snap /\ h.shown = g.shown /\ h.ticks = g.ticks /\ h.stale = g.stale
      /\ h.beat = g.beat /\ h.flash = g.flash
  BY <1>1, ChoiceFacts
<1> HIDE DEF h
<1>3. Sane(h.snap) /\ Fit(h, save, seat, stream) /\ Desk(h, guest) BY <1>2, YardFits
<1>4. CASE Local(h) BY <1>2, <1>3, <1>4, LocalKeeps
<1>5. CASE Quiet /\ seat /\ Answer(h, save, slot) /\ o = "none"
  <2>1. Ready(h, save, slot, guest) BY <1>2, <1>3, <1>5, SameSaveIsReady
  <2>2. QED BY <1>2, <1>5, <2>1, AnswerKeeps DEF IInv
<1>6. QED BY <1>4, <1>5 DEF h, ChangeSlot

LEMMA KeyShipyardStep ==
  ASSUME IInv, KeyShipyard
  PROVE  IInv'
<1>1. On("shipyard") BY DEF KeyShipyard
<1>2. /\ g \in Game /\ g.overlay = "none" /\ g.scr = "shipyard" /\ (~guest => g.pending = None)
      /\ g.ticks = 0
  BY <1>1, OnFacts
<1>3. CASE Local([g EXCEPT !.scr = "chart", !.row = None])
  <2> DEFINE h == [g EXCEPT !.scr = "chart", !.row = None]
  <2>1. /\ h \in Game /\ h.scr = "chart" /\ h.overlay = g.overlay /\ h.snap = g.snap
        /\ h.pending = g.pending /\ h.ticks = g.ticks
        /\ h.beat = g.beat /\ h.flash = g.flash /\ h.stale = g.stale
    BY <1>2 DEF Game, Screens
  <2> HIDE DEF h
  <2>2. Local(h) BY <1>3 DEF h
  <2>3. QED BY <1>2, <2>1, <2>2, MoveStep DEF PortScreens
<1>4. CASE \E r \in Slots \cup {None} : Local([g EXCEPT !.row = r])
  <2>1. PICK r \in Slots \cup {None} : Local([g EXCEPT !.row = r]) BY <1>4
  <2> DEFINE h == [g EXCEPT !.row = r]
  <2>2. /\ h \in Game /\ h.scr = g.scr /\ h.overlay = g.overlay /\ h.snap = g.snap
        /\ h.pending = g.pending /\ h.ticks = g.ticks /\ h.shown = g.shown
        /\ h.beat = g.beat /\ h.flash = g.flash /\ h.stale = g.stale
    BY <1>2 DEF Game
  <2>3. Local(h) BY <2>1
  <2> HIDE DEF h
  <2>4. Sane(h.snap) /\ Fit(h, save, seat, stream) /\ Desk(h, guest) BY <1>2, <2>2, YardFits
  <2>5. QED BY <2>2, <2>3, <2>4, LocalKeeps
<1>5. CASE Purchase BY <1>5, SameSaveStep DEF Purchase
<1>6. CASE \E o \in {"picker", "remove"} : Local(Open(o))
  <2>1. PICK o \in {"picker", "remove"} : Local(Open(o)) BY <1>6
  <2>2. o \in Overlays BY DEF Overlays
  <2>3. QED BY <1>2, <2>1, <2>2, OpenStep
<1>7. QED BY <1>3, <1>4, <1>5, <1>6 DEF KeyShipyard

LEMMA KeyPickerStep ==
  ASSUME IInv, KeyPicker
  PROVE  IInv'
<1>1. g.overlay = "picker" /\ g.scr = "shipyard" BY DEF IInv, KeyPicker, Typing, Desk
<1>2. CASE Local(Closed) \/ (Quiet /\ Refused(Closed)) BY <1>1, <1>2, ClosedStep DEF Local
<1>3. CASE Local([Open("remove") EXCEPT !.pending = g.row])
  <2>1. g.row \in Slots \cup {None} BY DEF IInv, Game
  <2>2. QED BY <1>1, <1>3, <2>1, ChoiceStep
<1>4. CASE Quiet /\ ChangeSlot(Closed)
  <2>1. Intent(Closed, {save}) BY <1>4 DEF Intent, ChangeSlot
  <2>2. QED BY <1>1, <2>1, SameSaveClosedStep
<1>5. QED BY <1>2, <1>3, <1>4 DEF KeyPicker

LEMMA KeyRemoveEscStep ==
  ASSUME IInv, KeyRemoveEsc
  PROVE  IInv'
<1>1. g.overlay = "remove" /\ g.scr = "shipyard" BY DEF IInv, KeyRemoveEsc, Typing, Desk
<1>2. CASE g.pending = None /\ Local(Closed)
  <2>1. "none" \in Overlays BY DEF Overlays
  <2>2. QED BY <1>2, <2>1, OpenStep DEF Closed
<1>3. CASE Local([Open("picker") EXCEPT !.pending = None]) BY <1>1, <1>3, ChoiceStep
<1>4. QED BY <1>2, <1>3 DEF KeyRemoveEsc

LEMMA KeyRemoveConfirmStep ==
  ASSUME IInv, KeyRemoveConfirm
  PROVE  IInv'
<1>1. g.overlay = "remove" /\ g.scr = "shipyard" /\ Quiet
  BY DEF IInv, KeyRemoveConfirm, Typing, Desk
<1>2. CASE ChangeSlot([Closed EXCEPT !.pending = None]) BY <1>1, <1>2, ChoiceStep DEF Closed
<1>3. CASE Refused(g) BY <1>1, <1>3, NothingKeeps DEF Refused, Quiet, vars
<1>4. QED BY <1>2, <1>3 DEF KeyRemoveConfirm

-----------------------------------------------------------------------------
(* The theorems. *)

LEMMA IInvInit == Init => IInv
<1> SUFFICES ASSUME Init PROVE IInv OBVIOUS
<1>1. /\ save \in Save /\ seat = TRUE /\ stream = <<>> /\ slot = None /\ kick = FALSE
      /\ guest \in BOOLEAN
      /\ save.at = "dock" => save.rocks = 0 /\ save.run = "none"
      /\ save.run # "none" => save.rocks > 0
  BY DEF Init
<1>2. PICK created \in BOOLEAN : g = NewGame(save, created) BY DEF Init
<1>3. /\ g \in Game /\ g.snap = save /\ g.scr = InitialScreen(save)
      /\ g.overlay \in {"onboard", "signalLost", "none"}
      /\ g.pending = None /\ g.ticks = 0 /\ g.stale = 0 /\ g.beat = 0 /\ g.flash = FALSE
  BY <1>1, <1>2, NewGameFacts
<1>4. g.scr = (IF save.at = "dock" THEN "chart" ELSE "belt") BY <1>3 DEF InitialScreen
<1>5. Sane(save) BY <1>1 DEF Sane
<1>6. Len(stream) = 0 /\ stream \in Seq(Snapshots) BY <1>1
<1>7. Feed(save, seat, stream) /\ AllLate(stream) /\ RunsAreOver(stream)
  BY <1>6, TerminalAssumption DEF Feed, AllLate, RunsAreOver
<1>8. Desk(g, guest) BY <1>3, <1>4, TerminalAssumption DEF Desk
<1>9. Fit(g, save, seat, stream) BY <1>3, <1>4, <1>7 DEF Fit, PortScreens
<1>10. Owed(g, save, seat, stream, slot) BY <1>4, <1>7 DEF Owed
<1>11. QED BY <1>1, <1>3, <1>5, <1>7, <1>8, <1>9, <1>10 DEF IInv

LEMMA IInvNext == IInv /\ [Next]_vars => IInv'
<1> SUFFICES ASSUME IInv, [Next]_vars PROVE IInv' OBVIOUS
<1>1. CASE Tick BY <1>1, TickStep
<1>2. CASE DeliverKick BY <1>2, DeliverKickStep
<1>3. CASE Messages
  BY <1>3, OnSnapStep, OnKickStep, OnTickStep, OnJumpTickStep, OnFlashDoneStep,
     OnStaleTickStep, IntroStep
  DEF Messages
<1>4. CASE Keys
  <2>1. CASE CtrlC BY <2>1, RequestQuitStep DEF CtrlC
  <2>2. CASE KeyKicked BY <2>2, QuitKeeps DEF KeyKicked
  <2>3. CASE KeyCertify BY <2>3, ConfirmStep DEF KeyCertify, Typing
  <2>4. CASE KeyFerry BY <2>4, ConfirmStep DEF KeyFerry, Typing
  <2>5. CASE KeyPermit BY <2>5, ConfirmStep DEF KeyPermit, Typing
  <2>6. CASE DismissIntro \/ KeyHelp \/ KeyGuestQuit \/ KeyOnboard \/ DismissSignalLost \/ KeyTweaks
    BY <2>6, IntroStep, KeyHelpStep, KeyGuestQuitStep, KeyOnboardStep, DismissSignalLostStep,
       KeyTweaksStep
  <2>7. CASE KeyChartDocked \/ Depart \/ ReturnToBelt \/ KeyChart \/ KeyLog \/ ConfirmJump \/ KeyJump
    BY <2>7, KeyChartDockedStep, DepartStep, ReturnToBeltStep, KeyChartStep, KeyLogStep,
       ConfirmJumpStep, KeyJumpStep
  <2>8. CASE \/ MoveRock \/ Lock \/ Scan \/ KeyBelt \/ BailOrDepart \/ AttemptSkillCheck
             \/ AnswerTribute \/ Fire \/ CombatEscape \/ KeyDeath \/ KeySummary
    BY <2>8, MoveRockStep, LockStep, ScanStep, KeyBeltStep, BailOrDepartStep, RunKeysStep,
       AnswerTributeStep, FireStep, KeyDeathStep, KeySummaryStep
  <2>9. CASE KeyShipyard \/ KeyPicker \/ KeyRemoveEsc \/ KeyRemoveConfirm
    BY <2>9, KeyShipyardStep, KeyPickerStep, KeyRemoveEscStep, KeyRemoveConfirmStep
  <2>10. QED BY <1>4, <2>1, <2>2, <2>3, <2>4, <2>5, <2>6, <2>7, <2>8, <2>9 DEF Keys
<1>5. CASE UNCHANGED vars BY <1>5, NothingKeeps
<1>6. QED BY <1>1, <1>2, <1>3, <1>4, <1>5 DEF Next

\* Every behaviour of the terminal and the actor keeps the invariant.
THEOREM TerminalInvariant == Spec => []IInv
  BY IInvInit, IInvNext, PTL DEF Spec

\* The types, and that the channel and the listener never hold more than
\* Session.snapCh's capacity and one snapshot.
THEOREM TerminalTyped == Spec => []TypeOK
<1>1. IInv => TypeOK BY DEF IInv, TypeOK, Feed, Sane, Snapshots
<1>2. QED BY <1>1, TerminalInvariant, PTL

\* A terminal that owns the save shows the chart, the shipyard, the log and
\* the jump only to a docked pilot, and shows the save as it is, whatever
\* snapshots are still on their way.
THEOREM PortIsCurrent == Spec => []PortShowsTheSave
<1>1. IInv => PortShowsTheSave BY DEF IInv, Fit, PortShowsTheSave
<1>2. QED BY <1>1, TerminalInvariant, PTL

\* The summary and the death screen tell how the run ended, although the
\* outcome and the snapshot come by different ways and snapshots are dropped.
THEOREM SummaryIsTrue == Spec => []SummaryTellsTheTruth
<1>1. IInv => SummaryTellsTheTruth BY DEF IInv, Fit, Told, SummaryTellsTheTruth
<1>2. QED BY <1>1, TerminalInvariant, PTL

\* The countdown of a jump has exactly one live timer, however many earlier
\* countdowns were skipped.
THEOREM JumpClockNeverFreezes == Spec => []JumpClockRuns
<1>1. IInv => JumpClockRuns BY DEF IInv, Desk, JumpClockRuns
<1>2. QED BY <1>1, TerminalInvariant, PTL

\* For a pilot with a key, a module chosen for one slot is not offered in the
\* confirmation of another.  Guests are left out: their ctrl+c keeps the choice
\* across a dialog that removes a module (guest.go).
THEOREM ChoiceIsForItsSlot == Spec => []ChoiceStaysWithItsSlot
<1>1. IInv => ChoiceStaysWithItsSlot BY DEF IInv, Desk, ChoiceStaysWithItsSlot
<1>2. QED BY <1>1, TerminalInvariant, PTL
=============================================================================
