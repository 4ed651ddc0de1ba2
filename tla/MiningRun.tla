------------------------------ MODULE MiningRun ------------------------------
(***************************************************************************)
(* One pilot's trip to the belt: internal/sim's run.go, combat.go,         *)
(* events.go and skillcheck.go, with the belt, dock and shield services    *)
(* of belt.go, slots.go and economy.go around them.                        *)
(*                                                                         *)
(* The variable s is the part of sim.State a trip touches.  The code works *)
(* on it in place, one function after the other; here each of those        *)
(* functions is an operator from a state to the next state or, where the   *)
(* random generator or a fraction below the grain of the model decides,    *)
(* to the set of possible next states.                                     *)
(*                                                                         *)
(* Grain: one ore unit is worth one credit, the belt holds one contact in  *)
(* scanner range, and a tick of the actor (1/TickHz s) is TickUnits time   *)
(* units, so that the escape burn, its fuel-out penalty and a combat tick  *)
(* cut short are computed in fixed point as the code does in floats.       *)
(***************************************************************************)
EXTENDS Integers, FiniteSets

CONSTANTS
    Hold,         \* CargoCapacityUnits of the ship
    Volumes,      \* volumes GenerateBelt may give the contact
    Tank,         \* TankSize
    MaxHull,      \* MaxHull of the ship
    ShieldMax,    \* ShieldMaxHP, 0 when no Shield is installed
    BurstReturn,  \* ShieldMax * ShieldBurstReturnPct
    EventGate,    \* events roll while the hull is below this
    Kinds,        \* the event kinds that may be rolled
    Starts,       \* pirate distance at Lock; the low value is a hot arrival
    JamCharges, JamTicks,      \* Pirate Jammer, 0 when not installed
    EmpLaunchers, EmpTicks,    \* EMP Launchers fitted, the delay of one
    Laser,                     \* a Pulse Laser is installed
    Cannon,                    \* Autocannon damage in a tick, 0 when none
    Missiles,                  \* missile capacity, 0 when no launcher
    PirateHull, PirateHit,     \* the pirate's hull, its damage in a tick
    LaserHit, MissileHit,      \* damage of one volley, of one missile
    Points,                    \* pressure points of an asteroid
    FuelMiner,                 \* FuelMinerRecoveryMul, 0 when not installed
    DockRepair,                \* hull mended on arrival at a dock
    StableTicks,               \* ticks an unstable belt lasts, 0: stable
    BaseEscape, CargoEscape,   \* the two parts of the burn, in time units
    FuelOutCap,                \* cap of the fuel-out penalty, time units
    Budget,                    \* maxEmergencyTicks
    MaxVouchers                \* bound: bounties held at a time

TickUnits == 5
SkillWindow == 1
EventTicks == 1
CooldownTicks == 2
TributeTicks == 2
MaxShifts == 2        \* bound: cargo shifts in one run

ASSUME CapacityAssumption ==
    /\ Hold \in Nat \ {0} /\ Tank \in Nat \ {0} /\ MaxHull \in Nat \ {0}
    /\ Volumes \subseteq Nat \ {0} /\ Starts \subseteq Nat \ {0}
    /\ \E v \in Volumes : \A u \in Volumes : u <= v     \* a largest contact
    /\ ShieldMax \in Nat /\ BurstReturn \in 0 .. ShieldMax

ASSUME LoadoutAssumption ==
    /\ Laser \in BOOLEAN
    /\ {EventGate, JamCharges, JamTicks, EmpLaunchers, EmpTicks, Cannon,
        Missiles, Points, FuelMiner, DockRepair, StableTicks, CargoEscape, FuelOutCap, MaxVouchers}
           \subseteq Nat
    /\ {PirateHull, PirateHit, LaserHit, MissileHit, BaseEscape, Budget}
           \subseteq Nat \ {0}
    /\ Kinds \subseteq {"outage", "blackout", "life", "shift", "surge"}

VARIABLES
    s,      \* the pilot's state
    out,    \* the outcome of the last run that ended, with what it went through
    auto    \* ticks left to EmergencyResolve's loop, 0 outside it

vars == <<s, out, auto>>

Low(a, b) == IF a < b THEN a ELSE b
High(a, b) == IF a > b THEN a ELSE b

NoRun == [phase |-> "none"]
InRun(w) == w.run # NoRun
Armed == Laser \/ Cannon > 0 \/ Missiles > 0

-----------------------------------------------------------------------------
(* What a state derives: room, depletion, the burn's length. *)

Room(w) == High(0, Hold - w.cargo)

RunDepleted(w) == w.run.ext >= w.rock
RunCargoFull(w) == w.run.held >= Room(w)

\* mutant: the hold is forgotten
Extractable_RockOnly(w) == High(0, w.rock - w.run.ext)

\* ore the drill may still move: bounded by the rock and by the hold
Extractable(w) == High(0, Low(w.rock - w.run.ext, Room(w) - w.run.held))

Burning(r) == r.phase = "escaping" \/ (r.phase = "combat" /\ r.burn)

\* mutant: a second more for every second dry, without the cap
Penalty_Uncapped(fuelOut) == fuelOut

Penalty(fuelOut) == Low((3 * fuelOut) \div 5, FuelOutCap)

EscapeRequired(r) == r.base + Penalty(r.fuelOut)

\* configureEscape: the intent is fixed once, the burn starts from zero
ConfigureEscape(w) ==
    LET load == Low(w.cargo + w.run.held, Hold)
        req  == BaseEscape + (load * CargoEscape) \div Hold
    IN [w EXCEPT
          !.run.intent = IF @ # "" THEN @
                         ELSE IF RunDepleted(w) THEN "departed" ELSE "bailed",
          !.run.base = (req * 5 ^ w.run.shifts) \div 4 ^ w.run.shifts,
          !.run.fuelOut = 0,
          !.run.elapsed = 0]

StartEscape(w) == ConfigureEscape([w EXCEPT !.run.phase = "escaping"])

\* startCombat; withEscape is the burn matrix' pre-started burn
StartCombat(w, withEscape) ==
    LET c == [w EXCEPT !.run.phase = "combat", !.run.attacked = TRUE,
                       !.run.foe = PirateHull, !.run.burn = withEscape]
    IN IF withEscape THEN ConfigureEscape(c) ELSE c

Refused(w) == StartCombat(w, TRUE)

-----------------------------------------------------------------------------
(* Damage, fuel and the belt's services. *)

HullHit(w, n) == [w EXCEPT !.hull = High(0, @ - n)]

\* applyAttackDamageRate: the shield first, the rest to the hull
AttackHit(w, n) ==
    LET absorbed == Low(w.shield, n)
    IN HullHit([w EXCEPT !.shield = @ - absorbed,
                         !.burst = @ \/ (w.shield > 0 /\ absorbed = w.shield)],
               n - absorbed)

ConsumeFuel(w, n) == [w EXCEPT !.fuel = High(0, @ - n)]

\* mutant: the belt recharges a burst shield in full
ShieldCap_Full(w) == ShieldMax

ShieldCap(w) == IF w.burst THEN BurstReturn ELSE ShieldMax

TickBelt(w) ==
    IF w.docked \/ InRun(w) THEN w
    ELSE [w EXCEPT !.shield = High(@, Low(ShieldCap(w), @ + 1))]

TickScan(w) ==
    IF w.scan = 0 THEN w
    ELSE [w EXCEPT !.scan = @ - 1, !.scanned = @ \/ w.scan = 1]

BurstRestored(w) ==
    IF w.burst THEN [w EXCEPT !.shield = BurstReturn] ELSE w

\* a ship as the dock hands it over: rearmed, shield serviced
Serviced(w) ==
    [w EXCEPT !.docked = TRUE, !.rock = 0, !.scanned = FALSE, !.scan = 0,
              !.emp = EmpLaunchers, !.jam = JamCharges, !.missiles = Missiles,
              !.shield = ShieldMax, !.burst = FALSE]

\* mutant: the vouchers go down with the ship
Respawned_NoVouchers(w) ==
    {[Serviced(w) EXCEPT !.hull = MaxHull, !.fuel = Tank, !.cargo = 0,
                         !.vouchers = 0]}

\* respawnActiveShip: the hull and the cargo are gone, the pilot is at the dock
\* in a fresh starter ship, or in a backup as it was left there.  A pilot can
\* only leave a ship at a dock, which rearmed it and charged its shield but did
\* not refuel it; the model gives every ship the same loadout.
Afresh(w, h, f) == [Serviced(w) EXCEPT !.hull = h, !.fuel = f, !.cargo = 0]

Respawned(w) == {Afresh(w, h, f) : h \in 1 .. MaxHull, f \in 0 .. Tank}

-----------------------------------------------------------------------------
(* How a run ends: resolveRun, with the remnant left in the belt. *)

\* mutant: the remnant is what the hold did not keep
Remnant_FromHeld(w) ==
    LET left == w.rock - w.run.held
    IN IF 5 * left < w.rock THEN 0 ELSE High(1, left)

Remnant(w) ==
    LET left == w.rock - w.run.ext
    IN IF 5 * left < w.rock THEN 0 ELSE High(1, left)

RockAfter(w, kind) ==
    IF kind = "departed" /\ RunDepleted(w) THEN 0 ELSE Remnant(w)

Kept(w, kind) ==
    LET rock == RockAfter(w, kind)
    IN BurstRestored([w EXCEPT !.cargo = @ + w.run.held, !.rock = rock,
                               !.scanned = @ /\ rock > 0])

Closed(w) == [w EXCEPT !.run = NoRun]

Resolved(w, kind) ==
    IF kind = "ship_lost" THEN {Closed(v) : v \in Respawned(w)}
    ELSE {Closed(Kept(w, kind))}

\* winCombat's bounty; the run is resolved by whoever calls it
Won(w) == [w EXCEPT !.run.killed = TRUE, !.vouchers = @ + 1]

Report(w, kind) ==
    [kind |-> kind, attacked |-> w.run.attacked, paid |-> w.run.paid,
     exhausted |-> RunDepleted(w), bounty |-> w.run.killed]

\* mutant: the burn is looked at before the hull
EndKind_BurnFirst(w) ==
    IF w.run.killed THEN "pirate_destroyed"
    ELSE IF Burning(w.run) /\ w.run.elapsed >= EscapeRequired(w.run)
    THEN IF w.run.paid THEN "tribute_paid"
         ELSE IF w.run.attacked THEN "escaped_under_fire" ELSE w.run.intent
    ELSE IF w.hull = 0 THEN "ship_lost" ELSE ""

\* mutant: the intent is reported whatever the pirates did
EndKind_IntentOnly(w) ==
    IF w.run.killed THEN "pirate_destroyed"
    ELSE IF w.hull = 0 THEN "ship_lost"
    ELSE IF Burning(w.run) /\ w.run.elapsed >= EscapeRequired(w.run)
    THEN w.run.intent ELSE ""

\* how TickRun finds that the run is over, in its order; "" while it is not
EndKind(w) ==
    CASE w.run.killed -> "pirate_destroyed"
      [] ~w.run.killed /\ w.hull = 0 -> "ship_lost"
      [] ~w.run.killed /\ w.hull > 0 /\ Burning(w.run)
            /\ w.run.elapsed >= EscapeRequired(w.run) ->
            IF w.run.paid THEN "tribute_paid"
            ELSE IF w.run.attacked THEN "escaped_under_fire"
            ELSE w.run.intent
      [] OTHER -> ""

-----------------------------------------------------------------------------
(* tickEvents: only below the hull gate, one event at a time, then a pause. *)

StartEvent(w, kind) ==
    LET e == [w EXCEPT !.run.event = kind, !.run.eventT = EventTicks]
    IN CASE kind = "shift" ->
              {[e EXCEPT !.run.shifts = @ + 1,
                         !.run.base = IF w.run.phase = "escaping"
                                      THEN (@ * 5) \div 4 ELSE @]}
         [] kind = "surge" -> {e, HullHit(e, 1)}
         [] OTHER -> {e}

Rollable(w) == {k \in Kinds : k = "shift" => w.run.shifts < MaxShifts}

EventOver(w) ==
    [w EXCEPT !.run.event = "none", !.run.eventT = CooldownTicks,
              !.run.breached = @ \/ (w.run.event = "life"
                                       /\ w.run.phase = "mining")]

TickEvents(w) ==
    LET r == w.run
    IN CASE r.phase = "tribute"
            \/ (r.phase = "combat" /\ r.event = "none") -> {w}
         [] r.phase # "tribute" /\ r.event # "none" ->
              IF r.eventT > 1 THEN {[w EXCEPT !.run.eventT = @ - 1]}
              ELSE {EventOver(w)}
         [] r.phase \in {"mining", "escaping"} /\ r.event = "none" ->
              IF r.eventT > 0 THEN {[w EXCEPT !.run.eventT = @ - 1]}
              ELSE {w} \cup
                   (IF w.hull >= EventGate THEN {}
                    ELSE UNION {StartEvent(w, k) : k \in Rollable(w)})

-----------------------------------------------------------------------------
(* The mining phase. *)

\* tickSkillCheck: the lit pressure point times out, or the next one is lit
TickSkillCheck(w) ==
    LET r == w.run
        cleared == [w EXCEPT !.run.points = @ + (IF r.check > 0 THEN 1 ELSE 0),
                             !.run.check = 0]
        lit == [w EXCEPT !.run.points = @ - 1, !.run.check = SkillWindow]
    IN IF RunDepleted(w) \/ RunCargoFull(w) THEN {cleared}
       ELSE IF r.check > 0 THEN {[w EXCEPT !.run.check = @ - 1]}
       ELSE IF r.points = 0 THEN {w}
       ELSE {w, lit}

\* the drill: ore into the hold, fuel out of the tank, a fuel vein back in
Drilled(w) ==
    LET mined == Low(1, Extractable(w))
        drain == IF w.run.event = "surge" THEN 2 ELSE 1
        used  == Low(w.fuel, drain)
        back  == IF w.run.vein THEN used * FuelMiner ELSE 0
    IN IF mined = 0 \/ w.fuel = 0 THEN w
       ELSE [w EXCEPT !.run.ext = @ + mined, !.run.held = @ + mined,
                      !.fuel = Low(Tank, @ - used + back)]

\* mutant: the contact closes in past zero
Approached_NoFloor(w) ==
    IF w.run.jam > 0 THEN [w EXCEPT !.run.jam = @ - 1]
    ELSE [w EXCEPT !.run.dist = @ - 1]

Approached(w) ==
    IF w.run.jam > 0 THEN [w EXCEPT !.run.jam = @ - 1]
    ELSE IF w.run.event = "blackout" THEN w
    ELSE [w EXCEPT !.run.dist = High(0, @ - 1)]

TickMining(w) ==
    LET aged  == [w EXCEPT !.run.stable = High(0, @ - 1)]
        waned == [aged EXCEPT !.run.emp = High(0, @ - 1)]
        bleed == IF w.run.breached THEN {0, 1} ELSE {0}
    IN IF StableTicks > 0 /\ aged.run.stable = 0
       THEN {[aged EXCEPT !.hull = 0]}
       ELSE {Approached(HullHit(v, b)) : b \in bleed,
               v \in IF w.run.event = "outage" THEN {waned}
                     ELSE TickSkillCheck(Drilled(waned))}

\* deployEMPLauncher: one armed launcher fires, once in a run
CanDeployEMP(w) == w.emp > 0 /\ ~w.run.empUsed

DeployEMP(w) ==
    [w EXCEPT !.emp = @ - 1, !.run.empUsed = TRUE, !.run.emp = EmpTicks]

\* rollPirateAction: a demand, or an attack that an unarmed ship runs from
PirateAction(w) ==
    {[w EXCEPT !.run.phase = "tribute", !.run.clock = 0],
     StartCombat(w, ~Armed)}

\* the pirates are here: one EMP holds them off, then they act
Contact(w) ==
    IF w.run.dist > 0 \/ w.run.emp > 0 \/ w.run.jam > 0 THEN {w}
    ELSE IF CanDeployEMP(w) THEN {DeployEMP(w)} ELSE PirateAction(w)

-----------------------------------------------------------------------------
(* The burn and the fight. *)

\* tickEscapeBurn: the fuel-out penalty grows with the time spent dry
TickBurn(w, dt, drain) ==
    LET d == ConsumeFuel(w, drain)
    IN [d EXCEPT !.run.elapsed = @ + dt,
                 !.run.fuelOut = @ + (IF d.fuel = 0 THEN dt ELSE 0)]

Drains(w) == IF w.run.event = "surge" THEN 0 .. 2 ELSE 0 .. 1

TickEscape(w) ==
    LET hits == IF w.run.attacked THEN 0 .. PirateHit ELSE {0}
    IN {TickBurn(AttackHit(w, h), TickUnits, d) : h \in hits, d \in Drains(w)}

KillAt(w) == (w.run.foe * TickUnits) \div Cannon

DoneAt(w) == High(0, EscapeRequired(w.run) - w.run.elapsed)

CannonKills(w) ==
    /\ Cannon > 0 /\ KillAt(w) <= TickUnits
    /\ w.run.burn => KillAt(w) <= DoneAt(w)

\* the tick stops at the first terminal event: the kill or the end of the burn
CombatDT(w) ==
    LET toKill == IF Cannon > 0 THEN Low(TickUnits, KillAt(w)) ELSE TickUnits
    IN IF w.run.burn THEN Low(toKill, DoneAt(w)) ELSE toKill

Fought(w, hit, drain) ==
    LET dt == CombatDT(w)
        f  == [AttackHit(w, hit) EXCEPT
                 !.run.foe = High(0, @ - (Cannon * dt) \div TickUnits)]
    IN IF w.run.burn THEN TickBurn(f, dt, drain) ELSE f

\* the laser's heat lock and the missile cooldown run out at some tick
Cooled(w) ==
    {[w EXCEPT !.run.locked = l, !.run.cooling = c] :
        l \in {FALSE, w.run.locked}, c \in {FALSE, w.run.cooling}}

\* mutant: the kill is looked at before the hull
Decided_KillFirst(before, after) ==
    IF CannonKills(before) THEN Won(after) ELSE after

\* a hull at zero is lost, even when the autocannon kills in the same tick
Decided(before, after) ==
    IF CannonKills(before) /\ after.hull > 0 THEN Won(after) ELSE after

TickCombat(w) ==
    UNION {Cooled(Decided(w, Fought(w, h, d))) :
             h \in 0 .. PirateHit, d \in Drains(w)}

TickTribute(w) ==
    IF w.run.clock + 1 >= TributeTicks THEN {Refused(w)}
    ELSE {[w EXCEPT !.run.clock = @ + 1]}

TickPhase(w) ==
    CASE w.run.phase = "mining"   -> UNION {Contact(v) : v \in TickMining(w)}
      [] w.run.phase = "tribute"  -> TickTribute(w)
      [] w.run.phase = "escaping" -> TickEscape(w)
      [] w.run.phase = "combat"   -> TickCombat(w)

\* every way one TickRun may go, before it looks whether the run is over
TickRun == UNION {TickPhase(e) : e \in TickEvents(s)}

-----------------------------------------------------------------------------
NewShip ==
    [docked |-> TRUE, rock |-> 0, scanned |-> FALSE, scan |-> 0, cargo |-> 0,
     fuel |-> Tank, hull |-> MaxHull, shield |-> ShieldMax, burst |-> FALSE,
     emp |-> EmpLaunchers, jam |-> JamCharges, missiles |-> Missiles,
     vouchers |-> 0, notice |-> FALSE, run |-> NoRun]

NoReport == [kind |-> "", attacked |-> FALSE, paid |-> FALSE,
             exhausted |-> FALSE, bounty |-> FALSE]

Init == s = NewShip /\ out = NoReport /\ auto = 0

\* the run going on, or its end with the outcome it is reported with
Endings(w) ==
    LET kind == EndKind(w)
    IN IF kind = "" THEN {[state |-> w, report |-> out]}
       ELSE {[state |-> v, report |-> Report(w, kind)] : v \in Resolved(w, kind)}

\* actor.tick: the run, then the scan, then the belt once no run is left
Tick ==
    /\ auto = 0 /\ InRun(s)
    /\ \E w \in TickRun : \E e \in Endings(w) :
         /\ s' = TickBelt(TickScan(e.state))
         /\ out' = e.report
    /\ UNCHANGED auto

BeltTick ==
    /\ auto = 0 /\ ~InRun(s) /\ ~s.docked
    /\ s' = TickBelt(TickScan(s))
    /\ UNCHANGED <<out, auto>>

-----------------------------------------------------------------------------
(* The pilot at the dock and in the belt. *)

AtDock == auto = 0 /\ s.docked
InBelt == auto = 0 /\ ~s.docked /\ ~InRun(s)

\* Seismic Sensors may have scanned the contact on arrival
Depart ==
    /\ AtDock /\ s.hull > 0 /\ Room(s) > 0 /\ s.fuel >= 1
    /\ \E v \in Volumes, seen \in BOOLEAN :
         s' = [ConsumeFuel(s, 1) EXCEPT !.docked = FALSE, !.rock = v,
                                        !.scanned = seen]
    /\ UNCHANGED <<out, auto>>

Scan ==
    /\ InBelt /\ s.scan = 0 /\ s.rock > 0 /\ ~s.scanned /\ s.fuel >= 1
    /\ \E instant \in BOOLEAN :
         s' = [ConsumeFuel(s, 1) EXCEPT !.scanned = instant,
                                        !.scan = IF instant THEN 0 ELSE 1]
    /\ UNCHANGED <<out, auto>>

NewRun(dist, jam, vein) ==
    [phase |-> "mining", ext |-> 0, held |-> 0, dist |-> dist, jam |-> jam,
     emp |-> 0, empUsed |-> FALSE, stable |-> StableTicks, vein |-> vein,
     event |-> "none", eventT |-> 0, breached |-> FALSE, shifts |-> 0,
     points |-> Points, check |-> 0, clock |-> 0, paid |-> FALSE,
     attacked |-> FALSE, foe |-> 0, burn |-> FALSE, locked |-> FALSE,
     cooling |-> FALSE, killed |-> FALSE, intent |-> "",
     base |-> 0, elapsed |-> 0, fuelOut |-> 0]

\* Lock spends a jammer charge at once
Lock ==
    /\ InBelt /\ s.hull > 0 /\ s.rock > 0 /\ s.scanned /\ Room(s) > 0
    /\ s.vouchers < MaxVouchers
    /\ \E dist \in Starts, vein \in {FALSE, FuelMiner > 0} :
         s' = [s EXCEPT !.jam = High(0, @ - 1),
                        !.run = NewRun(dist, IF s.jam > 0 THEN JamTicks ELSE 0,
                                       vein)]
    /\ UNCHANGED <<out, auto>>

Dock ==
    /\ auto = 0 /\ ~InRun(s)
    /\ s' = [Serviced(s) EXCEPT !.hull = IF s.docked THEN @
                                         ELSE Low(MaxHull, @ + DockRepair)]
    /\ UNCHANGED <<out, auto>>

SellCargo ==
    /\ AtDock /\ (s.cargo > 0 \/ s.vouchers > 0)
    /\ s' = [s EXCEPT !.cargo = 0, !.vouchers = 0]
    /\ UNCHANGED <<out, auto>>

Refuel ==
    /\ AtDock /\ s.fuel < Tank
    /\ \E f \in s.fuel + 1 .. Tank : s' = [s EXCEPT !.fuel = f]
    /\ UNCHANGED <<out, auto>>

Repair ==
    /\ AtDock /\ s.hull < MaxHull
    /\ s' = [s EXCEPT !.hull = MaxHull]
    /\ UNCHANGED <<out, auto>>

-----------------------------------------------------------------------------
(* The pilot in a run. *)

InPhase(phase) == auto = 0 /\ s.run.phase = phase

BailOrDepart ==
    /\ InPhase("mining")
    /\ s' = StartEscape(s)
    /\ UNCHANGED <<out, auto>>

\* 18 % of what the drill could still move, in whole units
AttemptSkillCheck ==
    /\ InPhase("mining") /\ s.run.check > 0
    /\ LET bonus == (Extractable(s) * 18 + 99) \div 100
       IN s' = [s EXCEPT !.run.check = 0, !.run.ext = @ + bonus,
                         !.run.held = @ + bonus]
    /\ UNCHANGED <<out, auto>>

\* math.Round of a ratio of naturals
Rounded(n, d) == (2 * n + d) \div (2 * d)

ProportionalCargoLoss(demand, portion, total) ==
    IF total = 0 THEN 0
    ELSE Low(Rounded(demand * portion, total), Low(demand, portion))

\* the tribute is 45 % of all cargo, from the hold and from the run alike
Paid(w) ==
    LET total  == w.cargo + w.run.held
        demand == Rounded(total * 45, 100)
        share  == ProportionalCargoLoss(demand, w.cargo, total)
        fromRun == Low(demand - share, w.run.held)
    IN [w EXCEPT !.cargo = @ - (demand - fromRun), !.run.held = @ - fromRun,
                 !.run.paid = TRUE]

\* mutant: the cargo is paid and the prompt left open
AcceptTribute_PromptOpen ==
    /\ InPhase("tribute") /\ ~s.run.paid
    /\ s' = Paid(s)
    /\ UNCHANGED <<out, auto>>

AcceptTribute ==
    /\ InPhase("tribute")
    /\ s' = StartEscape(Paid(s))
    /\ UNCHANGED <<out, auto>>

RefuseTribute ==
    /\ InPhase("tribute")
    /\ s' = Refused(s)
    /\ UNCHANGED <<out, auto>>

FightPirates ==
    /\ InPhase("tribute") /\ Armed
    /\ s' = StartCombat(s, FALSE)
    /\ UNCHANGED <<out, auto>>

CombatEscape ==
    /\ InPhase("combat") /\ ~s.run.burn
    /\ s' = [ConfigureEscape(s) EXCEPT !.run.burn = TRUE]
    /\ UNCHANGED <<out, auto>>

Strike(w, damage) ==
    LET v == [w EXCEPT !.run.foe = High(0, @ - damage)]
    IN IF v.run.foe > 0 THEN v ELSE Won(v)

\* a hit that destroys the pirate ends the run at once
Volley(w) ==
    \E e \in IF w.run.killed THEN Endings(w) ELSE {[state |-> w, report |-> out]} :
        s' = e.state /\ out' = e.report

FirePulseLasers ==
    /\ InPhase("combat") /\ Laser /\ ~s.run.locked
    /\ \E hot \in BOOLEAN :
         LET fired == [s EXCEPT !.run.locked = hot]
         IN Volley(fired) \/ Volley(Strike(fired, LaserHit))
    /\ UNCHANGED auto

FireMissile ==
    /\ InPhase("combat") /\ ~s.run.cooling /\ s.missiles > 0
    /\ Volley(Strike([s EXCEPT !.run.cooling = TRUE, !.missiles = @ - 1],
                     MissileHit))
    /\ UNCHANGED auto

-----------------------------------------------------------------------------
(* The pilot's connection is gone: EmergencyResolve, one TickRun a step. *)

Abandon ==
    /\ auto = 0 /\ InRun(s)
    /\ s' = CASE s.run.phase = "mining"   -> StartEscape(s)
              [] s.run.phase = "tribute"  -> Refused(s)
              [] s.run.phase = "escaping" -> s
              [] s.run.phase = "combat"   ->
                   IF s.run.burn THEN s
                   ELSE [ConfigureEscape(s) EXCEPT !.run.burn = TRUE]
    /\ auto' = Budget
    /\ UNCHANGED out

EmergencyTick ==
    /\ auto > 0
    /\ \E w \in TickRun : \E e \in Endings(w) :
         /\ s' = [e.state EXCEPT !.notice = @ \/ ~InRun(e.state)]
         /\ out' = e.report
         /\ auto' = IF InRun(e.state) THEN auto - 1 ELSE 0

AckDisconnectNotice ==
    /\ auto = 0 /\ s.notice
    /\ s' = [s EXCEPT !.notice = FALSE]
    /\ UNCHANGED <<out, auto>>

Next ==
    \/ Tick \/ BeltTick \/ Depart \/ Scan \/ Lock \/ Dock
    \/ SellCargo \/ Refuel \/ Repair \/ BailOrDepart \/ AttemptSkillCheck
    \/ AcceptTribute \/ RefuseTribute \/ FightPirates \/ CombatEscape
    \/ FirePulseLasers \/ FireMissile
    \/ Abandon \/ EmergencyTick \/ AckDisconnectNotice

Spec == Init /\ [][Next]_vars

-----------------------------------------------------------------------------
Phases == {"mining", "tribute", "escaping", "combat"}
Outcomes == {"departed", "bailed", "tribute_paid", "escaped_under_fire",
             "pirate_destroyed", "ship_lost"}
MaxVolume == CHOOSE v \in Volumes : \A u \in Volumes : u <= v

RunOK(r) ==
    /\ r.phase \in Phases
    /\ r.ext \in 0 .. MaxVolume /\ r.held \in 0 .. Hold
    /\ r.dist \in Nat /\ r.jam \in 0 .. JamTicks /\ r.emp \in 0 .. EmpTicks
    /\ r.stable \in 0 .. StableTicks /\ r.eventT \in 0 .. CooldownTicks
    /\ r.event \in Kinds \cup {"none"} /\ r.shifts \in 0 .. MaxShifts
    /\ r.points \in 0 .. Points /\ r.check \in 0 .. SkillWindow
    /\ r.clock \in 0 .. TributeTicks /\ r.foe \in 0 .. PirateHull
    /\ r.intent \in {"", "departed", "bailed"}
    /\ {r.base, r.elapsed, r.fuelOut} \subseteq Nat
    /\ {r.empUsed, r.vein, r.breached, r.paid, r.attacked, r.burn, r.locked,
        r.cooling, r.killed} \subseteq BOOLEAN

(* Every pool stays within its capacity: the clamps of run.go, slots.go and   *)
(* ships.go (setActiveHull, AddFuel, TickBelt) keep up with every writer.     *)
TypeOK ==
    /\ {s.docked, s.scanned, s.burst, s.notice} \subseteq BOOLEAN
    /\ s.rock \in {0} \cup 1 .. MaxVolume /\ s.scan \in 0 .. 1
    /\ s.cargo \in 0 .. Hold /\ s.fuel \in 0 .. Tank /\ s.hull \in 0 .. MaxHull
    /\ s.shield \in 0 .. ShieldMax /\ s.emp \in 0 .. EmpLaunchers
    /\ s.jam \in 0 .. JamCharges /\ s.missiles \in 0 .. Missiles
    /\ s.vouchers \in 0 .. MaxVouchers
    /\ InRun(s) => RunOK(s.run)
    /\ out.kind \in Outcomes \cup {""}
    /\ {out.attacked, out.paid, out.exhausted, out.bounty} \subseteq BOOLEAN
    /\ auto \in 0 .. Budget

(* The books of a run balance (run.go, tickMining, AttemptSkillCheck,         *)
(* AcceptTribute): the ore drilled never exceeds the rock, hold and run       *)
(* together never exceed the hold, and only a tribute parts the ore drilled   *)
(* from the ore held.                                                         *)
CargoAccounted ==
    InRun(s) => /\ s.run.ext <= s.rock
                /\ s.cargo + s.run.held <= Hold
                /\ IF s.run.paid THEN s.run.held <= s.run.ext
                   ELSE s.run.held = s.run.ext

(* No ship flies at hull zero: every path that can take the last hull point   *)
(* (pirates, life support, a reactor surge, an unstable belt) ends in         *)
(* ship_lost in the same tick, also when the autocannon kills in that tick    *)
(* (combat.go, tickCombat) and when nobody is connected.                      *)
NoDeadShipFlies == s.hull > 0

(* Pirates that were paid do not attack, and a burn outside combat is never   *)
(* under fire (docs/gameplay/07: PhaseEscaping with UnderAttack does not      *)
(* occur), whichever of pilot, tribute timeout and disconnect moved the run.  *)
PaidPiratesLeave ==
    InRun(s) => /\ ~(s.run.paid /\ s.run.attacked)
                /\ s.run.phase = "escaping" => ~s.run.attacked

(* The outcome a run is reported with is what it went through: departed only  *)
(* with the rock exhausted, bailed and departed only if no pirate was paid or *)
(* fought, a bounty exactly for a destroyed pirate (run.go, TickRun's choice  *)
(* of the kind; configureEscape fixes the intent once).                       *)
OutcomeTruthful ==
    /\ out.kind = "departed" =>
           out.exhausted /\ ~out.attacked /\ ~out.paid /\ ~out.bounty
    /\ out.kind = "bailed" =>
           ~out.exhausted /\ ~out.attacked /\ ~out.paid /\ ~out.bounty
    /\ out.kind = "tribute_paid" => out.paid /\ ~out.attacked
    /\ out.kind = "escaped_under_fire" => out.attacked /\ ~out.paid
    /\ out.bounty <=> out.kind = "pirate_destroyed"

(* A shield that burst stays at the emergency charge until a dock services    *)
(* it, through recharging in the belt and through later runs (slots.go).      *)
BurstShieldStaysWeak == s.burst => s.shield <= BurstReturn

\* ore the pilot holds or may still mine
Ore(w) == w.cargo + w.rock + (IF InRun(w) THEN w.run.held - w.run.ext ELSE 0)

(* Ore never appears: only a departure to a fresh belt adds any.  Ore that a  *)
(* tribute threw overboard does not return to the rock (run.go, resolveRun    *)
(* shrinks the remnant by the ore extracted, not by the ore held).            *)
OreNeverAppears == [][Ore(s') > Ore(s) => s.docked /\ ~s'.docked]_vars

(* Bounty vouchers outlive the ship: they leave only by a sale at the dock,   *)
(* and come only one per destroyed pirate, to a ship that survived the fight  *)
(* (combat.go, winCombat; economy.go, SellCargo).                             *)
VouchersAreKept ==
    [][s'.vouchers # s.vouchers =>
          \/ s.docked /\ s'.vouchers = 0
          \/ /\ s'.vouchers = s.vouchers + 1
             /\ out'.kind = "pirate_destroyed" /\ s'.run = NoRun]_vars

\* The burn of a full hold.
FullBurn == BaseEscape + CargoEscape

\* The budget covers a full hold, MaxShifts cargo shifts and a dry tank, one
\* time unit to a tick: a combat tick that is cut short may be that short.
BudgetCovers == Budget >= (25 * FullBurn) \div 16 + FuelOutCap

(* EmergencyResolve always finishes the run within its budget of ticks: fuel  *)
(* running out and cargo shifts lengthen the burn, yet never for ever         *)
(* (run.go, resolveAbandonedRun and tickEscapeBurn).                          *)
AbandonedRunEnds == [][auto > 0 /\ auto' = 0 => s'.run = NoRun]_vars

=============================================================================
