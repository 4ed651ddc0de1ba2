# moonminer: TLA+ models and proofs

`ssh-moonminer` is a game server: a player connects over SSH, the server finds
(or creates) the save of that player's public key, and one goroutine owns the
save while terminals attach to it, play, lose their connection, take it over
from each other and leave. A background tick moves the simulation on. The
state is written to SQLite by an autosave, at disconnect and at shutdown. The
simulation is a trading and mining game: hulls, add-ons, belts, pirates, a
network of jump gates.

This directory holds TLA+ models of the parts where the order of events
matters, the TLC runs that check them on small instances, and TLAPS proofs for
every size. `PROJECT.json` maps every definition to the source lines it
stands for.

## 1. Inventory

| Component | State | Operations | Interacts with |
|---|---|---|---|
| Save registry `internal/game/manager.go` | `mu`, `actors`, `closing` | `Attach`, `detach`, `stopActorLocked`, `Shutdown` | called by every SSH session and by the shutdown hook; calls the store; sends closures to actors |
| Save actor `actor.go` | `state`, `dirty`, `session`, `finalErr` | request loop, `tick`, autosave, `persist`, stop | one goroutine per open save; pushes snapshots to its session |
| Session handle `session.go` | `actor`, `kickOnce`, `kicked`, `snapCh`, last outcome | intents, `deliverKick`, `Detach` | shared by the terminal's goroutines and the actor |
| Store `internal/store/store.go` | `accounts`, `saves` | `TouchAccount`, `LoadOrCreateSave`, `SaveState` | called under `mu` (attach) and on the actor (persist) |
| Mining run `internal/sim/run.go`, `events.go`, `skillcheck.go` | `ActiveRun` | `Lock`, `Scan`, `TickRun`, `BailOrDepart`, tribute, `AttemptSkillCheck`, `EmergencyResolve` | on the actor, from ticks, intents, detach and shutdown |
| Combat `combat.go` | `CombatState`, vouchers | `startCombat`, `FightPirates`, `CombatEscape`, fire, `tickCombat`, `winCombat` | inside a run |
| Belt, dock, services `belt.go`, `economy.go`, `derive.go` | belt, credits, permits, insurance | `Depart`, `Dock`, sell, refuel, repair, permits, insurance | around a run |
| Slots and add-ons `slots.go` | devices, shield, ammunition, inventory | install, store, sell, replace, rearm, recharge | around and inside a run |
| Fleet `ships.go` | hangar, active ship, grades | acquire, switch, upgrade, respawn | dock, run's end |
| Frontier `jump.go`, `ferry.go`, `frontier.go` | system, ship places, records, cargo origins | `Jump`, `FerryShip`, `CertifyRating` | dock, run's end |
| Codec, migrations `state.go`, `migrate_frontier.go` | encoded save | `Encode`, `DecodeState`, migrations | attach, persist |
| Admission `internal/server` | session counters, hooks | limits, attach middleware, shutdown hooks | before and after the registry |
| Identity `internal/identity` | none | resolve key, guest, proxy header | before admission |
| Terminal program `internal/tui` | screen, overlay, last snapshot, cursors, timers | message loop, keys, drawing | session handle: intents, snapshot stream, outcome slot, kick channel |
| Content, config, log, version, scripts, developer tools | tables read at start | – | – |

What is hard here, and the properties it calls for:

* **Several goroutines and one mutex.** `m.mu` is held over store calls and
  over waiting for an actor. Properties: nobody waits for ever; a save has one
  writer; a channel that is sent to is open.
* **Takeover, detach and shutdown in any order.** Properties: a terminal that
  lost its save has been told; only the owner's departure resolves the run; the
  refuse policy protects a pilot in its seat.
* **Failing and late writes, crashes.** Properties: a stored save never goes
  back; what could not be written stays in memory and is retried; a shutdown
  that reports success has saved everything; all of it together behaves as one
  durable value with one working copy.
* **A tick in which several things end at once.** The hull, the burn, the
  pirate, the rock, the hold, the countermeasures. Properties: no ship flies
  with a hull of zero; the outcome says what happened; ore and vouchers are
  neither created nor lost.
* **Nobody at the terminal.** Property: an abandoned run is brought to its end
  within the budget of ticks, since a save with a standing run is not written.
* **A long career of legal purchases, jumps and losses.** Properties: the hull
  flown is owned and here; the hold still takes the cargo; the generator still
  feeds the devices; buying and selling makes no money; nothing is left where
  the pilot may not go.
* **A terminal that is slow.** Snapshots are dropped and overtaken, the outcome
  and the kick come by channels of their own, timers outlive what they were
  started for. Properties: what is shown is true of the save; what ended is
  shown.
* **Old saves.** An upgrade is in memory only until the next write, and the
  catalogue may have changed. Properties: a load is complete, gives exactly
  what the row is worth, and gives it once.

`PROJECT.json` lists these as hazards, each at its line.

## 2. Modules

| Module | What it is |
|---|---|
| `SaveLifecycle` | registry, actors, sessions, store, shutdown, crash |
| `DurableSave` | the abstract specification: one durable value and one working copy per save |
| `SaveDurability` | the refinement mapping from `SaveLifecycle` to `DurableSave` |
| `MCSaveLifecycle` | which key each terminal resolves to, in the instances of TLC |
| `SaveLifecycleProofs` | the inductive invariant of the registry and its theorems |
| `SaveDurabilityProofs` | the refinement, step by step; guests, a nil shutdown, the refuse policy |
| `MiningRun`, `MCMiningRun` | a pilot's trips: dock, belt, run, fight, disconnect |
| `MiningRunProofs` | everything a run's safety properties say, for any ship, rock and pirate |
| `Fleet`, `MCFleet` | what a pilot owns and where it is: hulls, add-ons, cargo, credits, ratings, systems |
| `FleetProofs` | that the hull flown is here, no hull is out of reach, a loss takes one |
| `Sums` | sums of functions over finite sets: one term changed, added, taken, renumbered |
| `LoadoutProofs` | power, hold, origins and money of a fleet, on top of `FleetProofs` and `Sums` |
| `Terminal`, `MCTerminal` | one terminal against its actor: stream, outcome slot, kicks, screens, keys, timers |
| `TerminalProofs` | what is shown is true of the save, for any channel capacity |
| `SaveCodec`, `MCSaveCodec` | the row and the state played, across releases |
| `SaveCodecProofs` | complete loads, holdings kept, faithful reload, for any row a release wrote |

The modules meet at named places. `SaveLifecycle` knows of the simulation only
the place of a state and a count of changes; `MiningRun` is what happens inside
its "in a run"; `Fleet` sees a run as one step with every result that
`MiningRun` allows; `Terminal` takes the seat, the kick and the tick from
`SaveLifecycle` and leaves open what an intent does beyond place, phase and
contacts; `SaveCodec` is `Encode` and `DecodeState` of `SaveLifecycle`'s `Load`
and `Persist`, in full.

### SaveLifecycle, SaveDurability

One step is what one goroutine does between two points where another may run.
`Attach` is three steps (lock; look up or load; run the closure on the actor),
`detach` is lock, closure, wait for the actor's end, then `deliverKick` outside
the lock; `Shutdown` copies the actors under the lock and then handles each in
three steps. A closure passed to `actor.do` is one step, because the actor
goroutine runs it whole.

| Variable | Code |
|---|---|
| `mu`, `closing`, `registry` | `Manager.mu`, `.closing`, `.actors` |
| `pc`, `actorOf`, `closed`, `notice` | a session's goroutine, `Session.actor`, `kickOnce` having run, the reason |
| `astat`, `mem`, `dirty`, `owner`, `finalErr` | the actor goroutine, `actor.state`, `.dirty`, `.session`, `.finalErr` |
| `disk` | the `saves` table |
| `sd`, `todo`, `cur`, `flushErr`, `ret` | `Shutdown`'s goroutine, its copy of the actors, the one it is on, its error, what the caller got |
| `boots` | restarts |

A state is a version (the number of changes play made to it) and a place:
docked, at a belt, in a run. `Encode` drops a run, as the code does. A save
succeeds, fails, or fails after the row was replaced (the 10 s context ends
during the commit). An actor is named after the session whose `Attach` created
it, which is exact because one `Attach` creates at most one. Stamping
`LastSeen` sets `dirty` and does not count as a change.

`DurableSave` has no sessions, goroutines or failing store. A save is created,
opened, changed, closed; a working copy is closed only once it is stored with
its run over, except while the service closes; a crash loses the copies and
nothing else. `SaveDurability` maps its value to the row and its working copy
to the state of the registered actor while that goroutine lives. Everything
`SaveLifecycle` does is then one of these steps or none.

### MiningRun

`s` is the part of `sim.State` that a trip touches, `out` the outcome last
reported, with what the run went through, and `auto` the ticks left to
`EmergencyResolve`'s loop (one step per tick, so that each intermediate
state is checked). The functions of the code, which work on the
state in place, are operators from a state to a state, or to the set of
possible states where the random generator decides; `TickRun` composes them in
the code's order: events, phase, then hull, then burn.

What the model abstracts:

* one unit of ore is worth one credit, so value and units are one number;
* one contact is in scanner range; other rocks of the belt are independent;
* a tick is five time units. The burn's elapsed and required time, the fuel-out
  penalty (0.6 of the time spent dry, up to a cap) and a combat tick cut short
  are computed in these units, rounded down; the cargo's share of the burn is
  linear in the load instead of to the power 1.6, which only changes how long a
  burn is;
* damage and fuel below one point accumulate in the code (`HullDamageCarry`,
  fractional fuel); here a tick takes any whole amount up to its rate;
* heat and cooldown are "locked" and "cooling", which end at some tick;
* a lost ship is replaced by one with any hull and any fuel; credits are
  unlimited, so a sale, a refuel and a repair are always affordable (`Fleet`
  has both with their prices).

### Fleet

`ships`, `active`, `at` are `State.Ships`, `ActiveShipID`, `SystemID`; `world`
the belt the pilot is at; `hold` the cargo with its origins and the vouchers;
`stock` the inventory; `career` permits, rating, visited systems, crossed
gates, recorded deeds, and the models owned and lost. A call that the code
refuses is no step. The catalogue is a constant, and `ContentAssumption` states
what `content.Load` insists on before a server starts: a free starter, slots
and grades in range, one gate per pair of systems, no gate that takes a fresh
Skiff's whole tank, ratings that form a ladder.

What the model abstracts: prices and rates are small constants with the code's
rounding where a property depends on it (sale values, buy-back, tribute shares
of cargo origins); a device is loaded or spent; fuel and hull are whole points;
the counters of deeds stop at what a rating asks for, because the code only
compares them; a run is one step that leaves any cargo, wear and spent devices
a run may leave; `belt.go`'s generator is a choice. A Skiff replaced by the free
one keeps its place under the renamed id the code gives it, and like in the
code, that id resolves to no model of the catalogue.

### Terminal

`save` is the actor's state as far as screens tell it apart (place, contacts,
phase, notice), `seat` whether the actor still has this session, `stream` the
snapshots sent and not yet handled, `slot` `Session.lastOutcome`, `kick` the
notice channel, `g` the `Game` model: screen, overlay, displayed snapshot,
cursors, pending choice, countdown timers.

An intent is a synchronous call from `Update`, so its reply is on display at
once and makes every snapshot already in the stream late; the revision numbers
of the code are this order. A tick stores its outcome first and then sends,
dropping the snapshot when the channel is full. One listener goroutine holds
at most one more. Each overlay and each screen has the keys that change state;
a click on a button is the key it stands for. What credits, fuel and slots
decide is whether an intent succeeds, and is a free choice here.

### SaveCodec

`row` is the stored document with the zero value in every field its release did
not write, `mem` the state a process plays, `catalog` the hulls of the release
that runs. `DecodeState` is the chain of the code in its order: count and retire
jump drives before decoding, drop or replace hulls the catalogue lost, shields
(version 3), EMP launchers (5), conditions per hull (6), missiles (7), ratings,
places and records (8), then padding and the mirrors. Play is what makes a
state different from a freshly loaded one: fuel, hull, missiles, shield, a run,
another hull. A process may die before it wrote an upgrade.

A row of this release or an earlier one is `Written`: it has the types of the
document; the hull flown is one of the hulls, or there are none; no
hull has more internal slots than its model, and none more than one before
version 8; a device occurs only up to the version that retired it, a mass driver
only among the weapons and add-ons; a pilot at a world is in that world's system
or, in an older row, in none; from version 8 on the pilot's system is a visited
one. Every release's own operations keep this, and `DecodeState` does not check it:
a row edited by hand whose active hull does not exist loses its fleet to the
free Skiff. A row of a later release may hold anything, and is refused.

Fuel may be any amount: `fuelAmountFor` clamps the reserve and each tank
(`FuelAmount`), while the mirror that `Encode` writes sums them as they are
(`FuelAboard`). The renames look into the slots the code looks into: chaff also
into the first internal one, mass drivers into none of them.

## 3. Runs

| Run | Instance | Shows |
|---|---|---|
| `takeover` | three terminals of one key, takeover, one restart | one writer, open channels, no silent replacement, no rollback; implements `DurableSave` |
| `guest` | two terminals of a key under refuse, and a guest | guests leave nothing; a nil shutdown saved all; the seat is kept |
| `progress` | two terminals, fairness | detach, kick, shutdown and the retry complete |
| `belt` | unarmed hauler, jammer, EMP, fuel miner, low hull, all events | cargo accounts, outcomes, paid pirates, emergency resolution |
| `fight` | laser, autocannon, missile, shield, unstable belt, several runs | hull zero against kill, bounties, burst shield |
| `hangar` | one yard, two hulls, devices of every kind | the hold takes the cargo, legal loadouts, no profit at the yard |
| `frontier` | two systems, a gate that misaligns, a rating to earn | the active hull is here, the fleet within reach, origins add up, a loss takes one hull |
| `terminal` | one terminal, every screen and overlay, fairness | port screens, summary, countdown, pending choice; a survived run is shown |
| `codec` | rows of all eight versions, two catalogues | complete loads, holdings kept, faithful reload |
| `stranded` | as `frontier` | violated: see findings |
| `lost_ship` | as `terminal`, one slot, no animation | violated: see findings |
| `belt_cursor` | from the dock, two contacts, no pirates | violated: see findings |

**Bounds.**

* `SaveLifecycle`: `MaxVer` bounds the changes by play on one lineage of a
  save; with 3, a save can be created, changed, fail to be stored, be changed
  and stored again; `guest`, where three sessions and two actors interleave,
  makes do with one change after the creation. Three terminals are enough for a
  kicked one to detach after its successor has been kicked too. `MaxBoots` is 1
  in `takeover` so that a second process finds what the first one left. The
  terminals of one key are interchangeable, which is the symmetry of `takeover`;
  `progress`, which checks liveness, uses none.
* `MiningRun`: the hold (4) is smaller than the rock (5) so that a full hold,
  an exhausted rock (over two runs) and remnants all occur; the tank can run
  dry in a burn; the tribute (45 %) rounds both ways; `MaxShifts` bounds cargo
  shifts, `MaxVouchers` the vouchers held before a sale. `Budget` stands for
  the code's 10,000 ticks; 16 is what `BudgetCovers` asks for with these
  numbers, and a burn that grew with every dry tick exceeds it.
* `Fleet`: `MaxCredits` bounds what a sale may bring a pilot to, `MaxDevices`
  and `MaxShips` what may be bought, `MaxSkiffs` the renamed Skiffs per system;
  grades, prices and capacities are 0 to 2. In `hangar`, the fuel tank and the
  cargo bay compete for two slots; the generator feeds two shields, which are
  unique, or one jammer and nothing beside it, so that every purchase can be
  refused for each reason and each of the reasons alone. In `frontier`, the
  gate costs one point of the hull's two or one, so that the floor is reached,
  and a legacy cargo without an origin is there to be told apart.
* `Terminal`: a channel of one (the code's 8) is full after one unread
  snapshot; two slots, so that a choice can be offered for the wrong one; two
  pages; a countdown of two beats; one abandoned timer (`MaxStale`).
* `SaveCodec`: hulls with one add-on and one internal device, at most one
  device stored, tanks of one unit, histories of two entries. No migration
  looks at two devices at a time except the count of drives, which reaches two.
  From version 6 on rows also hold more fuel than the reserve (3 of 2) and the
  tank (2 of 1) take.

**Deadlock** is checked for `SaveLifecycle` and `MiningRun`; `Quiet` is the
state in which every terminal has gone and nothing is under way. It is not
checked for the other modules: a pilot of `Fleet` may have nothing left to do
(that is `stranded`), a terminal that quit is gone, a row of a later release
stays unread.

**Fairness.** In `progress`: the Go scheduler runs every goroutine that can
run, weak fairness of each step of attach, detach, stop and shutdown. `m.mu`
is a `sync.Mutex`, which in starvation mode hands itself to the longest
waiter: strong fairness of its lock in `detach` and `Shutdown`. A kicked
terminal goes on the next key or by its idle timer. The store recovers: the
autosave, which the ticker repeats, succeeds at some time; only
`RetainedSaveIsRetried` depends on it. Nothing is assumed of players, crashes
or the shutdown signal. In `terminal` and `lost_ship`: the actor's ticker
ticks, and the program handles a snapshot, a kick and its own 1 Hz timer when
there is one to handle; nothing is assumed of keys.

**Findings.** Three runs show that the code does something else than a
document or a test plan says; `PROJECT.json` quotes them.

* `NeverStranded`: a pilot in a second hull, docked with a dry tank and no
  credits while the Skiff is parked beyond a gate, gets neither the salvage
  advance nor the free Skiff.
* `LostShipIsShown`: the last snapshot of a lost ship may be dropped, and the
  dock does not tick, so the terminal keeps showing the run until the next
  intent. It also fails without a drop, when that snapshot finds the terminal on
  the belt screen, where a takeover in the middle of a run opens: only the
  mining screen takes an outcome.
* `BeltKeysHitARock`: a pilot leaves the dock for a belt of two contacts, moves
  the cursor to the second, locks on, turns for home and survives; the contact is
  mined out and leaves the list. Back on the belt from the summary the cursor is
  still on the second of one, and Enter indexes the list there. `FromDock` of
  `MCTerminal` steers the run to this case: it starts docked and no pirate comes.

Other disagreements met while modelling, of which no run is kept:

* `manager.go:202` announces "progress saved" before the final flush, which
  can fail.
* (Not in the model, whose time is whole units.) In combat on a dry tank, the tick is cut to the rest of the burn and
  lengthens the burn in the same tick, so the rest shrinks geometrically: with
  the shipped numbers a 4 s burn takes 102 ticks (25.5 s) where base and cap
  allow 10 s.
* A lit pressure point survives the start of a fight.
* A shield that burst in one run is topped up after later runs that only
  dented it.
* A death closes any overlay, the one that says the session was taken over
  included (`game.go:480`; by `docs/tests/03:79` only a key, which quits, ends it).
* A guest's ctrl+c over the dialog that removes a module leaves the pending
  choice set; cancelled, the next dialog offers it for another slot
  (`guest.go:12`). `ChoiceStaysWithItsSlot` is therefore stated for pilots
  with a key.
* The comment at `game.go:170` says that no restore lands on the mining screen;
  a takeover in the middle of a run opens on the belt screen and the first
  snapshot moves it there.
* `setFuelAmountFor`'s comment (`ships.go:312`) says it is used only for
  migrations and explicit assignments; `DecodeState` calls it on every load
  too, which moves fuel from the hull's reserve into its tanks.
* When the model of the active hull has left the catalogue, the whole fleet is
  replaced by one Skiff (`state.go:624`), and the cargo may exceed its hold.

## 4. Proofs

All theorems hold for every value of the constants that the named assumptions
allow; TLC evaluates the assumptions on the instances of the runs.

* `ConstantsAssumption` (`SaveLifecycle`): any sets of sessions, saves and
  guests, both policies, any bounds.
* `CapacityAssumption`, `LoadoutAssumption` (`MiningRun`): a hold, a tank, a
  hull and rocks of any positive size, a largest contact among them (the
  content's table of rocks is finite), any loadout.
* `ContentAssumption`, `DevicesAssumption` (`Fleet`): any catalogue that
  `content.Load` accepts; prices, power and mass of devices are not negative
  and fuel and repairs cost something, which `balance.toml` gives and the
  loader checks in part only; a save older than origins has no more cargo than
  its Skiff takes.
* `TerminalAssumption` (`Terminal`): a channel that holds at least one
  snapshot, any slots, contacts, pages and beats.
* `CodecAssumption`, `RowsAssumption`, `NamesAssumption` (`SaveCodec`): any
  models with any number of internal slots, any catalogues of them that offer
  the Skiff, any sizes of tanks and hulls and any refund; rows of this release
  or an earlier one are `Written`; the names the codec writes are strings,
  which the provers do not know of a literal.

| Theorem | Module | Statement |
|---|---|---|
| `TypeCorrect` | `SaveLifecycleProofs` | `Spec => []TypeOK` |
| `OneWriterPerSave` | | `Spec => []SingleWriter` |
| `NoSendOnClosed` | | `Spec => []OwnerStreamOpen` |
| `ReplacedAreTold` | | `Spec => []ReplacedTerminalIsTold` |
| `SavesNeverGoBack` | | `Spec => NoRollback` |
| `LifecycleImplementsDurableSave` | `SaveDurabilityProofs` | `Spec => DurableSpec` |
| `NothingLeftOfGuests` | | `Spec => []GuestsLeaveNothing` |
| `NilMeansSaved` | | `Spec => []NilShutdownSavedAll` |
| `SeatsAreKept` | | `Policy = "refuse" => (Spec => SeatIsKept)` |
| `MiningRunTyped` | `MiningRunProofs` | `Spec => []TypeOK` |
| `BooksBalance` | | `Spec => []CargoAccounted` |
| `DeadShipsEnd` | | `Spec => []NoDeadShipFlies` |
| `TributeIsHonoured` | | `Spec => []PaidPiratesLeave` |
| `ReportsAreTrue` | | `Spec => []OutcomeTruthful` |
| `BurstShieldsStayWeak` | | `Spec => []BurstShieldStaysWeak` |
| `OreIsNeverMade` | | `Spec => OreNeverAppears` |
| `BountiesAreKept` | | `Spec => VouchersAreKept` |
| `AbandonedRunsEnd` | | `BudgetCovers => (Spec => AbandonedRunEnds)` |
| `PilotHasAHullHere` | `FleetProofs` | `Spec => []ActiveIsHere` |
| `NoHullOutOfReach` | | `Spec => []FleetWithinReach` |
| `OthersSurviveALoss` | | `Spec => LossTakesOneHull` |
| `FleetTyped` | `LoadoutProofs` | `Spec => []TypeOK` |
| `CargoAlwaysFits` | | `Spec => []CargoFits` |
| `LoadoutsStayLegal` | | `Spec => []LoadoutsAreLegal` |
| `CargoKeepsItsOrigins` | | `Spec => OriginsAccounted` |
| `YardNeverPays` | | `Spec => NoShipyardProfit` |
| `TerminalTyped` | `TerminalProofs` | `Spec => []TypeOK` |
| `PortIsCurrent` | | `Spec => []PortShowsTheSave` |
| `SummaryIsTrue` | | `Spec => []SummaryTellsTheTruth` |
| `JumpClockNeverFreezes` | | `Spec => []JumpClockRuns` |
| `ChoiceIsForItsSlot` | | `Spec => []ChoiceStaysWithItsSlot` (pilots with a key) |
| `LoadsAreWhole` | `SaveCodecProofs` | `Spec => []LoadedIsWhole` |
| `HoldingsAreKept` | | `Spec => HoldingsSurvive` (holdings when every hull is on offer, fuel when the hull flown is) |
| `ReloadsAreFaithful` | | `Spec => []ReloadIsFaithful` |

**The registry.** None of the properties is inductive: that a save has one live actor depends on
who holds the mutex in the middle of an attach, and that a row never goes back
depends on every live actor being ahead of its row. The invariant `IInv` is the
conjunction of

* `TypeOK`;
* `Locking`: the mutex is held by exactly the session, or the shutdown, whose
  program counter is inside a critical section, and no attach is under way once
  a shutdown has begun;
* `Handles`: a session that has not been through its attach has created no
  actor; one that has holds an actor of its own key;
* `Registration`: an actor that is alive is the registered one of its key, and
  a registered one that is on its way out has a stopper that holds the mutex;
* `Ownership`: the session of an actor points back, has open channels and has
  not got past the closure of its detach, and the actor is running; a terminal
  without its actor has been told;
* `Ahead`: a live actor's state is at least as new as the row of its save.

The proof has one step per action, and under it one per conjunct that the
action can disturb. `SavesNeverGoBack` needs `Ahead` and `Registration`: a
write replaces the row by the state of a live actor, which is not older.

**The refinement.** `JInv` adds to `IInv` what makes an actor clean:

* `Rows`: no row holds a run, and a row without a change is no row;
* `Clean`: the state of a live actor of a save holds a change; unless the actor
  is dirty the row is that state, and then without a terminal no run is on; an
  actor on its way out is clean unless the server is closing.

The last part is why a copy that is given up is stored: `detach` stops an actor
only when `persist` left it clean, and no owner is left to dirty it again.
`persist` refuses an abandoned run, so a clean one without a terminal is out of
its run. Each action is then shown to move at most one save, which makes one
of the abstract steps, or to move none. A shutdown resolves runs before it
writes, and may lose a copy: that is the abstract `Close` while closing.

**Guests, shutdown, seats.** `KInv` adds to `JInv`

* `Guestly`: a guest's session has the actor its attach created and no other,
  is past its detach only once that actor has ended, and no guest has a row;
* `Drained`: a shutdown still has every live actor before it, and a nil return
  means it is through without an error;
* `Flushed`: an error of a final flush has been joined or is about to be, only
  the shutdown stops an actor with something left to flush, and an actor that
  ended without an error is stored.

The last one makes `NilMeansSaved` an invariant: an actor may end by the hand
of a detach while the shutdown waits for the lock, so "nothing is lost" has to
follow from how each actor ended and not from the shutdown's loop. A seat is
kept because under the refuse policy an attach seats its session only at an
actor without one.

**A run.** The functions of a run compose: a tick is events, then a phase, then
hull, then burn, and between two of them the ship may be one that no step may
leave. `Sound` is what holds between steps, `Aloft` what holds inside one (the
hull may be gone, but not when the pirate has just been destroyed), `Since`
what has changed since the step began: no ore came from anywhere, a voucher
comes with a kill. `Flight` joins both. Every function of the code has a lemma
that takes a `Flight` to a `Flight`, and `resolveRun`'s takes it to a `Step`:
the ship is `Sound` again, and the report is true of the run. The intent of a
burn is fixed when it begins, so `Course` relates it to the ore left: nothing is
drilled in a burn, which is why the report is still true at its end. `Ledger`
relates rock, run, hold and tribute. Its bound on a run's ore is the largest
contact's, hence that assumption.

**An abandoned run.** That the emergency loop ends a run depends on the budget,
so `AbandonedRunsEnd` has the hypothesis `BudgetCovers`: a tick for every time
unit of the longest burn, a full hold's times 5/4 for each of `MaxShifts` cargo
shifts and the capped fuel-out penalty. With `balance.toml` (4 + 10 s, 6 s,
4 ticks a second) that is 557 of the code's 10,000 ticks. `MCMiningRun` assumes
`BudgetCovers`, so TLC evaluates it on both instances. `BInv` adds to `IInv` that
a burn between two steps is within that bound and not overdue, and that inside
the loop the time burnt and the ticks left make up the budget. A tick moves a
burn on by at least one time unit (`CombatMoves`: a combat tick is cut to
nothing only by a kill, which ends the run), or ends the run. It is also needed
that a burn has an intent: a burn that no pirate met ends as its intent, and
with none `TickRun` would not see the end. The time unit is the model's grain;
in floats a dry combat tick cut to the rest of the burn leaves 0.6 of that rest,
which is used up after some tens of ticks.

**The fleet.** The first two properties need each other and two facts about the
pilot's papers. `IInv` of `FleetProofs` is `Hangar` (every id names a model of
the catalogue, every hull has its fields and is not a wreck), `Papers` (every
visited system is within the rating, and ratings only rise), `Places` (the
pilot and every hull are in visited systems) and `ActiveIsHere`. A gate's
rating is the higher of its two ends (`ContentAssumption`), so a jump or a
misalignment that passes its check visits nothing out of reach; a ferry goes to
a visited system; a loss boards a hull that is here or builds one here. The
lemmas on hulls say that burning, filling, loading, installing and repairing
keep a hull in its place and above the floor. A loss takes one hull, and every other
keeps its id, because the free Skiff's grant moves the one Skiff that may be in
its way, parked elsewhere, to an id that is not in use before it takes its own.

**Sums.** Power, mass, hold, fuel, cargo origins and money are sums over a
finite set. `Sums` proves what the other proofs need of them. The library's
induction cannot be instantiated here, so a fact about all finite sets is
proved from its smallest counterexample: strict inclusion on the subsets of a
finite set is well founded, a set of bad subsets has a smallest one, and taking
one element from it gives a smaller one. The same argument on numbers gives
`SmallestNumber`, and counting subsets gives that `2 ^ n` is a number.

**What a fleet carries.** `LInv` of `LoadoutProofs` adds to `FleetProofs`'
invariant

* `Rigs`: finitely many hulls, each with its model's slots, devices of the
  catalogue, tanks and hull in their ranges (`Rig`), within its generator and
  with at most one of each unique device (`Legal`), under one of the two forms
  of id (`Named`);
* `Shelf`: the inventory holds devices;
* `Stowed`: the hold's value, vouchers and origins are numbers, and the origins
  claim no more than there is;
* `CargoFits`, and `Desk` (no debts).

Most actions replace one hull by one of the same fit (`SameFit`: same devices
and grades, whatever their fuel and load), which keeps its power, hold and
resale value. For the rest, two hulls that differ in one slot differ by that
device in each of the sums. An exchange checks the generator without the old
device, so its proof goes through the hull with the slot empty.

The origins go through a recursion over the systems that carries both the
cargo and the loss still to be shared. `Owing` is its invariant: what is still
to be lost is covered by what the later origins and the cargo without origin
have. It is kept because a share rounded half up, and clamped, never leaves more of the
loss than of the cargo: `(total - demand) * (total - portion) >= 0`.

For `YardNeverPays`, the resale value of a fleet changes by one slot
(`InstallStep`, `RemoveStep`), not at all, or falls (a lost hull); a fresh hull
sells for nothing; a device moves between slot and shelf at its own value; and
the yard gives no more for a device than it asks.

**The terminal.** `IInv` of `TerminalProofs` relates four copies of the truth: the
save, the stream, the slot and the screen.

* `Feed`: snapshots that will be displayed are in order: after one without a
  run none has one, and one of the dock is the last;
* `Owed`: the outcome of a run that is over waits in the slot as long as the
  terminal shows the run or has a snapshot of it to come;
* `Fit`: what each screen says of the displayed snapshot and, in the seat, of
  the save;
* `Desk`: where dialogs are open, which slot a choice is for, which timers run.

An intent's reply makes what is in the stream late, which is why a screen of
the port cannot be overtaken; a dropped snapshot only shortens the stream. The
countdown's one timer is in `Desk`: a skipped countdown leaves a stale timer,
whose message is told apart by its number.

**The codec.** `CInv` of `SaveCodecProofs` says that a row is `Written` unless
a later release wrote it, and that what is played is `Whole`: `LoadedIsWhole`
with its types, and every launcher within its capacity. The last part is not in
the property and is what makes a reload faithful, since a load brings the
launchers within their capacity. `Whole` implies `Written`, so a process writes
only rows that the next one, of whatever catalogue, can load.

The work is in `Decoded`: what `DecodeState` makes of a `Written` row. It goes up
in four levels, with one lemma for each of the codec's functions on each:

* a device, where an item is renamed, its load set or its fuel clamped;
* a list of slots (`From`: the same add-ons in the same slots, no retired
  device back; `SameTanks`: the same fuel);
* a hull (`HullFrom`, `SameCondition`, `Sound`);
* a save (`KeptSave`, `Came`): the rest of the pilot untouched.

The stages of `DecodeState` are then composed in its order. After the fleet is
gone through the save is `Ready`; after the conditions each hull is `Sound`;
each retired device is gone after the stage that retires it, or was never in a
row of that version; padding adds empty slots. Each stage keeps the add-ons, so
their number is the row's; the drives are counted in the row, before they are
retired, which is where the refund and the class come from.

`setFuelAmountFor` fills tanks in slot order. That the shares add up to the
amount (`SharesAddUp`) is proved from the smallest slot where they would not:
the tanks up to it hold the lesser of the amount and their size. For
`ReloadsAreFaithful` a sound hull holds no more than its capacity
(`FuelWithin`), so settling its fuel loses none; on a `Whole` save the other
stages are then the identity one by one (`RowStays`, `SettledHulls`, `Reread`).

**Only model-checked.**

* The liveness properties of `progress` and `terminal`: fairness is out of the
  prover's reach.
* What the three runs with a violation show.

## 5. Plan

Every safety property of the passing runs is proved. Left to model is
`SessionLimits`: the counters of `limits.go` and the shutdown hooks, composed
with `SaveLifecycle` (a kicked terminal holds its place in the limit).

## 6. Not modelled

* Drawing, colours, hit boxes, mouse wheels, the window size: pure functions of
  the snapshot, or state no property is about. The idle timer appears as the
  terminal's freedom to quit.
* The SQL schema migrations, which run once before anything else; accounts and
  locators.
* Content and configuration loading: I/O. What content must satisfy is
  `ContentAssumption`; its numbers are constants, scaled down.
* Identity resolution, a pure function; sessions arrive with their key.
* Session limits and the order of the shutdown hooks (planned).
* Developer tools, which edit states against the rules on purpose; logging,
  deployment scripts.
* Odds: random numbers are nondeterministic choices, so nothing is said about
  balance.
