--------------------------- MODULE MiningRunProofs ---------------------------
(***************************************************************************)
(* Proofs about MiningRun, for any hold, belt, loadout and pirate.         *)
(*                                                                         *)
(* One step of the actor passes through many states before it looks        *)
(* whether the run is over.  Aloft says what holds in all of them, Since   *)
(* how such a state relates to the one the step began in; a lemma for each *)
(* operator carries the two along, and IInv is what is left of them once   *)
(* the step is complete.                                                   *)
(***************************************************************************)
EXTENDS MiningRun, TLAPS

Run ==
    [phase : Phases, ext : Nat, held : Nat, dist : Nat, jam : 0 .. JamTicks,
     emp : 0 .. EmpTicks, empUsed : BOOLEAN, stable : 0 .. StableTicks, vein : BOOLEAN,
     event : Kinds \cup {"none"}, eventT : 0 .. CooldownTicks, breached : BOOLEAN,
     shifts : 0 .. MaxShifts, points : 0 .. Points, check : 0 .. SkillWindow,
     clock : 0 .. TributeTicks, paid : BOOLEAN, attacked : BOOLEAN, foe : 0 .. PirateHull,
     burn : BOOLEAN, locked : BOOLEAN, cooling : BOOLEAN, killed : BOOLEAN,
     intent : {"", "departed", "bailed"}, base : Nat, elapsed : Nat, fuelOut : Nat]

Ship ==
    [docked : BOOLEAN, rock : Nat, scanned : BOOLEAN, scan : 0 .. 1, cargo : 0 .. Hold,
     fuel : 0 .. Tank, hull : 0 .. MaxHull, shield : 0 .. ShieldMax, burst : BOOLEAN,
     emp : 0 .. EmpLaunchers, jam : 0 .. JamCharges, missiles : 0 .. Missiles,
     vouchers : 0 .. MaxVouchers, notice : BOOLEAN, run : Run \cup {NoRun}]

\* The run's ore is the rock's, fits the hold, and is lost to pirates only;
\* a lit pressure point is one of the rock's.
Ledger(w) ==
    /\ w.rock > 0 /\ w.run.ext <= w.rock /\ w.cargo + w.run.held <= Hold
    /\ w.run.paid => w.run.held <= w.run.ext
    /\ ~w.run.paid => w.run.held = w.run.ext
    /\ w.run.points + w.run.check <= Points

\* What the phase of a run says of the way it came, and the intent of the
\* ore it left.
Course(w) ==
    /\ w.run.phase \in {"mining", "tribute"} => w.run.intent = ""
    /\ w.run.paid => w.run.phase = "escaping"
    /\ w.run.attacked => w.run.phase = "combat"
    /\ w.run.burn => w.run.phase = "combat"
    /\ w.run.intent = "departed" => w.run.ext >= w.rock
    /\ w.run.intent = "bailed" => w.run.ext < w.rock

WeakShield(w) == w.burst => w.shield <= BurstReturn

\* A ship in a run, within a step: the hull may be gone, but not when the
\* pirate is destroyed.
Aloft(w) ==
    /\ w \in Ship /\ w.run \in Run
    /\ Ledger(w) /\ Course(w) /\ WeakShield(w)
    /\ w.run.killed => w.hull > 0

\* w follows b within a step of the actor.
Since(w, b) ==
    /\ w.rock = b.rock /\ w.docked = b.docked /\ w.cargo = b.cargo
    /\ w.run.held - w.run.ext = b.run.held - b.run.ext
    /\ w.run.killed => w.vouchers = b.vouchers + 1
    /\ ~w.run.killed => w.vouchers = b.vouchers

Flight(w, b) == Aloft(w) /\ Since(w, b)

\* A state between two steps.
Sound(w) ==
    /\ w \in Ship /\ w.hull > 0 /\ w.rock <= MaxVolume /\ WeakShield(w)
    /\ w.docked => w.run = NoRun
    /\ w.run # NoRun => Aloft(w) /\ ~w.run.killed /\ w.vouchers < MaxVouchers

Reports == [kind : Outcomes \cup {""}, attacked : BOOLEAN, paid : BOOLEAN,
            exhausted : BOOLEAN, bounty : BOOLEAN]

IInv ==
    /\ Sound(s)
    /\ out \in Reports
    /\ OutcomeTruthful
    /\ auto \in 0 .. Budget
    /\ auto > 0 => s.run # NoRun

-----------------------------------------------------------------------------
(* Arithmetic. *)

LEMMA DivNat ==
  ASSUME NEW a \in Nat, NEW d \in Nat \ {0}
  PROVE  a \div d \in Nat
  OBVIOUS

LEMMA MulNat ==
  ASSUME NEW a \in Nat, NEW d \in Nat
  PROVE  a * d \in Nat
  OBVIOUS

\* Cargo shifts lengthen the burn by a quarter each.
LEMMA ShiftNat ==
  ASSUME NEW n \in 0 .. MaxShifts, NEW m \in Nat
  PROVE  (m * 5 ^ n) \div 4 ^ n \in Nat
<1>1. CASE n = 0
  <2>1. 5 ^ 0 = 1 /\ 4 ^ 0 = 1 OBVIOUS
  <2>2. QED BY <1>1, <2>1
<1>2. CASE n = 1
  <2>1. 5 ^ 1 = 5 /\ 4 ^ 1 = 4 OBVIOUS
  <2>2. QED BY <1>2, <2>1
<1>3. CASE n = 2
  <2>1. 5 ^ 2 = 25 /\ 4 ^ 2 = 16 OBVIOUS
  <2>2. QED BY <1>3, <2>1
<1>4. QED BY <1>1, <1>2, <1>3 DEF MaxShifts

LEMMA LowHigh ==
  ASSUME NEW a \in Int, NEW c \in Int
  PROVE  /\ Low(a, c) \in {a, c} /\ Low(a, c) <= a /\ Low(a, c) <= c
         /\ High(a, c) \in {a, c} /\ High(a, c) >= a /\ High(a, c) >= c
  BY DEF Low, High

\* The numbers a loadout is made of.
LEMMA Numbers ==
  /\ Hold \in Nat \ {0} /\ Tank \in Nat \ {0} /\ MaxHull \in Nat \ {0}
  /\ ShieldMax \in Nat /\ BurstReturn \in 0 .. ShieldMax
  /\ EventGate \in Nat /\ JamCharges \in Nat /\ JamTicks \in Nat /\ EmpLaunchers \in Nat
  /\ EmpTicks \in Nat /\ Cannon \in Nat /\ Missiles \in Nat /\ Points \in Nat /\ FuelMiner \in Nat
  /\ DockRepair \in Nat /\ StableTicks \in Nat /\ CargoEscape \in Nat /\ FuelOutCap \in Nat
  /\ MaxVouchers \in Nat
  /\ PirateHull \in Nat \ {0} /\ PirateHit \in Nat \ {0} /\ LaserHit \in Nat \ {0}
  /\ MissileHit \in Nat \ {0} /\ BaseEscape \in Nat \ {0} /\ Budget \in Nat \ {0}
  BY CapacityAssumption, LoadoutAssumption

LEMMA LargestVolume ==
  MaxVolume \in Nat \ {0} /\ \A u \in Volumes : u \in Nat \ {0} /\ u <= MaxVolume
<1>1. \E v \in Volumes : \A u \in Volumes : u <= v BY CapacityAssumption
<1>2. MaxVolume \in Volumes /\ \A u \in Volumes : u <= MaxVolume BY <1>1 DEF MaxVolume
<1>3. QED BY <1>2, CapacityAssumption

LEMMA NoRunFacts == NoRun \notin Run /\ NoRun.phase = "none"
<1>1. NoRun.phase = "none" BY DEF NoRun
<1>2. \A r \in Run : r.phase # "none" BY DEF Run, Phases
<1>3. QED BY <1>1, <1>2

-----------------------------------------------------------------------------
(* Changes to a ship in a run. *)

\* Two runs with the same ore and the same course.
Alike(r, q) ==
    /\ r.phase = q.phase /\ r.ext = q.ext /\ r.held = q.held /\ r.paid = q.paid
    /\ r.attacked = q.attacked /\ r.burn = q.burn /\ r.killed = q.killed /\ r.intent = q.intent

\* What neither moves ore nor changes the course keeps a flight a flight.
LEMMA FlightIf ==
  ASSUME NEW w, NEW b, Flight(w, b), NEW v \in Ship, v.run \in Run, Alike(v.run, w.run),
         v.run.points + v.run.check <= Points,
         v.rock = w.rock, v.docked = w.docked, v.cargo = w.cargo, v.vouchers = w.vouchers,
         WeakShield(v), v.run.killed => v.hull > 0
  PROVE  Flight(v, b)
<1>1. Ledger(v) BY DEF Flight, Aloft, Ledger, Alike
<1>2. Course(v) BY DEF Flight, Aloft, Course, Alike
<1>3. Since(v, b) BY DEF Flight, Since, Alike
<1>4. QED BY <1>1, <1>2, <1>3 DEF Flight, Aloft

LEMMA FlightTypes ==
  ASSUME NEW w, NEW b, Flight(w, b)
  PROVE  /\ w \in Ship /\ w.run \in Run
         /\ w.run.points + w.run.check <= Points /\ WeakShield(w)
         /\ w.run.killed => w.hull > 0
  BY DEF Flight, Aloft, Ledger

\* The run alone changes.
LEMMA RunChange ==
  ASSUME NEW w, NEW b, Flight(w, b), NEW r \in Run, Alike(r, w.run), r.points + r.check <= Points
  PROVE  Flight([w EXCEPT !.run = r], b) /\ [w EXCEPT !.run = r].run = r
<1> DEFINE v == [w EXCEPT !.run = r]
<1>1. w \in Ship BY FlightTypes
<1>2. /\ v \in Ship /\ v.run = r /\ v.rock = w.rock /\ v.cargo = w.cargo /\ v.docked = w.docked
      /\ v.burst = w.burst /\ v.shield = w.shield /\ v.hull = w.hull /\ v.vouchers = w.vouchers
  BY <1>1 DEF Ship
<1> HIDE DEF v
<1>3. WeakShield(v) BY <1>2, FlightTypes DEF WeakShield
<1>4. v.run.killed => v.hull > 0 BY <1>2, FlightTypes DEF Alike
<1>5. Flight(v, b) BY <1>2, <1>3, <1>4, FlightIf
<1>6. QED BY <1>2, <1>5 DEF v

LEMMA HullHitFlight ==
  ASSUME NEW w, NEW b, Flight(w, b), ~w.run.killed, NEW n \in Nat
  PROVE  Flight(HullHit(w, n), b) /\ HullHit(w, n).run = w.run
<1> DEFINE h == High(0, w.hull - n)
           v == [w EXCEPT !.hull = h]
<1>1. w \in Ship /\ w.run \in Run BY FlightTypes
<1>2. w.hull \in 0 .. MaxHull BY <1>1 DEF Ship
<1>3. h \in 0 .. MaxHull BY <1>2, Numbers DEF High
<1>4. HullHit(w, n) = v BY <1>1 DEF HullHit, Ship
<1> HIDE DEF h
<1>5. /\ v \in Ship /\ v.run = w.run /\ v.rock = w.rock /\ v.cargo = w.cargo /\ v.docked = w.docked
      /\ v.burst = w.burst /\ v.shield = w.shield /\ v.vouchers = w.vouchers
  BY <1>1, <1>3 DEF Ship
<1> HIDE DEF v
<1>6. WeakShield(v) BY <1>5, FlightTypes DEF WeakShield
<1>7. Alike(v.run, w.run) BY <1>5 DEF Alike
<1>8. QED BY <1>1, <1>4, <1>5, <1>6, <1>7, FlightIf, FlightTypes

\* The shield takes what it can; once it bursts it is empty.
LEMMA AttackHitFlight ==
  ASSUME NEW w, NEW b, Flight(w, b), ~w.run.killed, NEW n \in Nat
  PROVE  Flight(AttackHit(w, n), b) /\ AttackHit(w, n).run = w.run
<1> DEFINE a == Low(w.shield, n)
           sh == w.shield - a
           bu == w.burst \/ (w.shield > 0 /\ a = w.shield)
           v == [w EXCEPT !.shield = sh, !.burst = bu]
<1>1. w \in Ship /\ w.run \in Run BY FlightTypes
<1>2. w.shield \in 0 .. ShieldMax /\ w.burst \in BOOLEAN BY <1>1 DEF Ship
<1>3. a \in Nat /\ a <= n /\ a <= w.shield BY <1>2, Numbers DEF Low
<1>4. n - a \in Nat /\ sh \in 0 .. ShieldMax /\ sh <= w.shield BY <1>2, <1>3, Numbers
<1>5. bu \in BOOLEAN OBVIOUS
<1>6. bu => w.burst \/ sh = 0 BY <1>2
<1>7. AttackHit(w, n) = HullHit(v, n - a) BY <1>1 DEF AttackHit, Ship
<1> HIDE DEF a, sh, bu
<1>8. /\ v \in Ship /\ v.run = w.run /\ v.rock = w.rock /\ v.cargo = w.cargo /\ v.docked = w.docked
      /\ v.burst = bu /\ v.shield = sh /\ v.vouchers = w.vouchers /\ v.hull = w.hull
  BY <1>1, <1>4, <1>5 DEF Ship
<1> HIDE DEF v
<1>9. WeakShield(v)
  <2>1. w.burst => w.shield <= BurstReturn BY FlightTypes DEF WeakShield
  <2>2. QED BY <1>2, <1>4, <1>6, <1>8, <2>1, Numbers DEF WeakShield
<1>10. Alike(v.run, w.run) BY <1>8 DEF Alike
<1>11. Flight(v, b) BY <1>1, <1>8, <1>9, <1>10, FlightIf, FlightTypes
<1>12. QED BY <1>4, <1>7, <1>8, <1>11, HullHitFlight

LEMMA FuelFlight ==
  ASSUME NEW w, NEW b, Flight(w, b), NEW f \in 0 .. Tank
  PROVE  LET v == [w EXCEPT !.fuel = f] IN Flight(v, b) /\ v.run = w.run /\ v.fuel = f
<1> DEFINE v == [w EXCEPT !.fuel = f]
<1>1. w \in Ship /\ w.run \in Run BY FlightTypes
<1>2. /\ v \in Ship /\ v.run = w.run /\ v.rock = w.rock /\ v.cargo = w.cargo /\ v.docked = w.docked
      /\ v.burst = w.burst /\ v.shield = w.shield /\ v.vouchers = w.vouchers /\ v.hull = w.hull
      /\ v.fuel = f
  BY <1>1 DEF Ship
<1> HIDE DEF v
<1>3. WeakShield(v) BY <1>2, FlightTypes DEF WeakShield
<1>4. Alike(v.run, w.run) BY <1>2 DEF Alike
<1>5. Flight(v, b) BY <1>1, <1>2, <1>3, <1>4, FlightIf, FlightTypes
<1>6. QED BY <1>2, <1>5 DEF v

LEMMA ConsumeFuelFlight ==
  ASSUME NEW w, NEW b, Flight(w, b), NEW n \in Nat
  PROVE  Flight(ConsumeFuel(w, n), b) /\ ConsumeFuel(w, n).run = w.run
<1> DEFINE f == High(0, w.fuel - n)
<1>1. w \in Ship BY FlightTypes
<1>2. w.fuel \in 0 .. Tank BY <1>1 DEF Ship
<1>3. f \in 0 .. Tank BY <1>2, Numbers DEF High
<1>4. ConsumeFuel(w, n) = [w EXCEPT !.fuel = f] BY <1>1 DEF ConsumeFuel, Ship
<1> HIDE DEF f
<1>5. QED BY <1>3, <1>4, FuelFlight

\* Time passes on the burn; the ship that is dry counts it twice.
LEMMA TickBurnFlight ==
  ASSUME NEW w, NEW b, Flight(w, b), NEW dt \in Nat, NEW drain \in Nat
  PROVE  Flight(TickBurn(w, dt, drain), b) /\ Alike(TickBurn(w, dt, drain).run, w.run)
<1> DEFINE d == ConsumeFuel(w, drain)
           el == d.run.elapsed + dt
           fo == d.run.fuelOut + (IF d.fuel = 0 THEN dt ELSE 0)
           r == [d.run EXCEPT !.elapsed = el, !.fuelOut = fo]
<1>1. Flight(d, b) /\ d.run = w.run BY ConsumeFuelFlight
<1>2. TickBurn(w, dt, drain) = [d EXCEPT !.run.elapsed = @ + dt,
                                         !.run.fuelOut = @ + (IF d.fuel = 0 THEN dt ELSE 0)]
  BY DEF TickBurn
<1> HIDE DEF d
<1>3. d \in Ship /\ d.run \in Run BY <1>1, FlightTypes
<1>4. d.run.elapsed \in Nat /\ d.run.fuelOut \in Nat BY <1>3 DEF Run
<1>5. el \in Nat /\ fo \in Nat BY <1>4
<1>6. TickBurn(w, dt, drain) = [d EXCEPT !.run = r] BY <1>2, <1>3 DEF Ship, Run
<1> HIDE DEF el, fo
<1>7. r \in Run /\ Alike(r, d.run) /\ r.points = d.run.points /\ r.check = d.run.check
  BY <1>3, <1>5 DEF Run, Alike
<1> HIDE DEF r
<1>8. r.points + r.check <= Points BY <1>1, <1>7, FlightTypes
<1>9. QED BY <1>1, <1>6, <1>7, <1>8, RunChange

-----------------------------------------------------------------------------
(* The ways into the burn and the fight. *)

\* Two ships that differ in their runs only.
SameHull(v, w) ==
    /\ v.docked = w.docked /\ v.rock = w.rock /\ v.cargo = w.cargo /\ v.vouchers = w.vouchers
    /\ v.hull = w.hull /\ v.shield = w.shield /\ v.burst = w.burst

SameOre(r, q) ==
    /\ r.ext = q.ext /\ r.held = q.held /\ r.paid = q.paid /\ r.killed = q.killed
    /\ r.points = q.points /\ r.check = q.check

LEMMA SwapRun ==
  ASSUME NEW w \in Ship, NEW r \in Run
  PROVE  LET v == [w EXCEPT !.run = r] IN v \in Ship /\ v.run = r /\ SameHull(v, w)
  BY DEF Ship, SameHull

\* The intent is fixed once, by what is left of the rock.
LEMMA ConfigureEscapeFacts ==
  ASSUME NEW w \in Ship, w.run \in Run
  PROVE  LET v == ConfigureEscape(w)
         IN /\ v \in Ship /\ v.run \in Run /\ SameHull(v, w) /\ SameOre(v.run, w.run)
            /\ v.run.phase = w.run.phase /\ v.run.attacked = w.run.attacked /\ v.run.burn = w.run.burn
            /\ w.run.intent # "" => v.run.intent = w.run.intent
            /\ w.run.intent = "" /\ w.run.ext >= w.rock => v.run.intent = "departed"
            /\ w.run.intent = "" /\ ~(w.run.ext >= w.rock) => v.run.intent = "bailed"
<1> DEFINE load == Low(w.cargo + w.run.held, Hold)
           req == BaseEscape + (load * CargoEscape) \div Hold
           bs == (req * 5 ^ w.run.shifts) \div 4 ^ w.run.shifts
           it == IF w.run.intent # "" THEN w.run.intent
                 ELSE IF RunDepleted(w) THEN "departed" ELSE "bailed"
           r == [w.run EXCEPT !.intent = it, !.base = bs, !.fuelOut = 0, !.elapsed = 0]
           v == [w EXCEPT !.run = r]
<1>1. w.cargo \in 0 .. Hold BY DEF Ship
<1>2. w.run.shifts \in 0 .. MaxShifts /\ w.run.intent \in {"", "departed", "bailed"} BY DEF Run
<1>22. w.run.held \in Nat BY DEF Run
<1>20. w.cargo \in Nat /\ w.run.held \in Nat /\ Hold \in Nat BY <1>1, <1>22, CapacityAssumption
<1>21. w.cargo + w.run.held \in Nat BY <1>20
<1>3. load \in Nat BY <1>20, <1>21 DEF Low
<1> HIDE DEF load
<1>4. (load * CargoEscape) \div Hold \in Nat BY <1>3, Numbers, MulNat, DivNat
<1>5. req \in Nat BY <1>4, Numbers
<1>6. it \in {"", "departed", "bailed"} BY <1>2
<1>7. ConfigureEscape(w) = v BY DEF ConfigureEscape, Ship, Run, load
<1> HIDE DEF req
<1>8. bs \in Nat BY <1>2, <1>5, ShiftNat
<1>9. /\ w.run.intent # "" => it = w.run.intent
      /\ w.run.intent = "" /\ w.run.ext >= w.rock => it = "departed"
      /\ w.run.intent = "" /\ ~(w.run.ext >= w.rock) => it = "bailed"
  BY DEF RunDepleted
<1> HIDE DEF bs, it
<1>10. /\ r \in Run /\ SameOre(r, w.run) /\ r.phase = w.run.phase
       /\ r.attacked = w.run.attacked /\ r.burn = w.run.burn /\ r.intent = it
  BY <1>6, <1>8 DEF Run, SameOre
<1> HIDE DEF r
<1>11. v \in Ship /\ v.run = r /\ SameHull(v, w) BY <1>10, SwapRun
<1> HIDE DEF v
<1>12. QED BY <1>7, <1>9, <1>10, <1>11

\* What a burn or a fight may begin from: no pirate has attacked yet.
Untouched(w) ==
    /\ w \in Ship /\ w.run \in Run /\ Ledger(w) /\ WeakShield(w)
    /\ ~w.run.attacked /\ ~w.run.burn /\ ~w.run.killed /\ w.run.intent = ""

LEMMA StartEscapeFacts ==
  ASSUME NEW w, Untouched(w)
  PROVE  LET v == StartEscape(w)
         IN Aloft(v) /\ SameHull(v, w) /\ SameOre(v.run, w.run) /\ v.run.phase = "escaping"
<1> DEFINE r == [w.run EXCEPT !.phase = "escaping"]
           x == [w EXCEPT !.run = r]
           v == ConfigureEscape(x)
<1>1. w \in Ship /\ w.run \in Run BY DEF Untouched
<1>2. StartEscape(w) = v BY <1>1 DEF StartEscape, Ship, Run
<1>3. /\ r \in Run /\ SameOre(r, w.run) /\ r.phase = "escaping" /\ r.attacked = w.run.attacked
      /\ r.burn = w.run.burn /\ r.intent = w.run.intent
  BY <1>1 DEF Run, SameOre, Phases
<1> HIDE DEF r
<1>4. x \in Ship /\ x.run = r /\ SameHull(x, w) BY <1>1, <1>3, SwapRun
<1> HIDE DEF x
<1>5. /\ v \in Ship /\ v.run \in Run /\ SameHull(v, x) /\ SameOre(v.run, x.run)
      /\ v.run.phase = x.run.phase /\ v.run.attacked = x.run.attacked /\ v.run.burn = x.run.burn
      /\ x.run.intent = "" /\ x.run.ext >= x.rock => v.run.intent = "departed"
      /\ x.run.intent = "" /\ ~(x.run.ext >= x.rock) => v.run.intent = "bailed"
  BY <1>3, <1>4, ConfigureEscapeFacts
<1> HIDE DEF v
<1>6. SameHull(v, w) /\ SameOre(v.run, w.run) BY <1>3, <1>4, <1>5 DEF SameHull, SameOre
<1>7. Ledger(v) BY <1>6 DEF Untouched, Ledger, SameHull, SameOre
<1>8. /\ v.run.intent = "departed" => w.run.ext >= w.rock
      /\ v.run.intent = "bailed" => ~(w.run.ext >= w.rock)
  BY <1>3, <1>4, <1>5 DEF Untouched, SameHull, SameOre
<1>9. w.rock \in Nat /\ w.run.ext \in Nat BY <1>1 DEF Ship, Run
<1>91. v.run.phase = "escaping" /\ ~v.run.attacked /\ ~v.run.burn BY <1>3, <1>4, <1>5 DEF Untouched
<1>92. v.rock = w.rock /\ v.run.ext = w.run.ext BY <1>6 DEF SameHull, SameOre
<1>10. Course(v) BY <1>8, <1>9, <1>91, <1>92 DEF Course
<1>11. WeakShield(v) BY <1>6 DEF Untouched, WeakShield, SameHull
<1>12. ~v.run.killed BY <1>6 DEF Untouched, SameOre
<1>13. QED BY <1>2, <1>3, <1>4, <1>5, <1>6, <1>7, <1>10, <1>11, <1>12 DEF Aloft

LEMMA StartCombatFacts ==
  ASSUME NEW w, Untouched(w), ~w.run.paid, NEW e \in BOOLEAN
  PROVE  LET v == StartCombat(w, e)
         IN Aloft(v) /\ SameHull(v, w) /\ SameOre(v.run, w.run) /\ v.run.phase = "combat"
<1> DEFINE r == [w.run EXCEPT !.phase = "combat", !.attacked = TRUE, !.foe = PirateHull, !.burn = e]
           x == [w EXCEPT !.run = r]
           y == ConfigureEscape(x)
           v == StartCombat(w, e)
<1>1. w \in Ship /\ w.run \in Run BY DEF Untouched
<1>2. (e => v = y) /\ (~e => v = x) BY <1>1 DEF StartCombat, Ship, Run
<1>3. PirateHull \in 0 .. PirateHull BY Numbers
<1>4. /\ r \in Run /\ SameOre(r, w.run) /\ r.phase = "combat" /\ r.intent = w.run.intent
  BY <1>1, <1>3 DEF Run, SameOre, Phases
<1> HIDE DEF r, v
<1>5. x \in Ship /\ x.run = r /\ SameHull(x, w) BY <1>1, <1>4, SwapRun
<1> HIDE DEF x
<1>6. /\ y \in Ship /\ y.run \in Run /\ SameHull(y, x) /\ SameOre(y.run, x.run)
      /\ y.run.phase = x.run.phase
      /\ x.run.intent = "" /\ x.run.ext >= x.rock => y.run.intent = "departed"
      /\ x.run.intent = "" /\ ~(x.run.ext >= x.rock) => y.run.intent = "bailed"
  BY <1>4, <1>5, ConfigureEscapeFacts
<1> HIDE DEF y
<1>7. SameHull(v, w) /\ SameOre(v.run, w.run) /\ v.run.phase = "combat" /\ v \in Ship /\ v.run \in Run
  BY <1>2, <1>4, <1>5, <1>6 DEF SameHull, SameOre
<1>8. /\ v.run.intent = "departed" => w.run.ext >= w.rock
      /\ v.run.intent = "bailed" => ~(w.run.ext >= w.rock)
  BY <1>2, <1>4, <1>5, <1>6 DEF Untouched, SameHull, SameOre
<1>9. w.rock \in Nat /\ w.run.ext \in Nat BY <1>1 DEF Ship, Run
<1>10. Ledger(v) BY <1>7 DEF Untouched, Ledger, SameHull, SameOre
<1>91. v.rock = w.rock /\ v.run.ext = w.run.ext /\ ~v.run.paid BY <1>7 DEF SameHull, SameOre
<1>11. Course(v) BY <1>7, <1>8, <1>9, <1>91 DEF Course
<1>12. WeakShield(v) BY <1>7 DEF Untouched, WeakShield, SameHull
<1>13. ~v.run.killed BY <1>7 DEF Untouched, SameOre
<1>14. QED BY <1>7, <1>10, <1>11, <1>12, <1>13 DEF Aloft, v

\* Both within a step.
LEMMA SinceSame ==
  ASSUME NEW v, NEW w, NEW b, Flight(w, b), Aloft(v), SameHull(v, w), SameOre(v.run, w.run)
  PROVE  Flight(v, b)
  BY DEF Flight, Since, SameHull, SameOre

\* A flight in the mining or the tribute phase may begin either.
LEMMA CalmPhases ==
  ASSUME NEW w, NEW b, Flight(w, b), ~w.run.killed, w.run.phase \in {"mining", "tribute"}
  PROVE  Untouched(w) /\ ~w.run.paid
  BY DEF Flight, Aloft, Course, Untouched

LEMMA StartCombatFlight ==
  ASSUME NEW w, NEW b, Flight(w, b), ~w.run.killed, w.run.phase \in {"mining", "tribute"},
         NEW e \in BOOLEAN
  PROVE  Flight(StartCombat(w, e), b) /\ ~StartCombat(w, e).run.killed
<1> DEFINE v == StartCombat(w, e)
<1>1. Untouched(w) /\ ~w.run.paid BY CalmPhases
<1>2. Aloft(v) /\ SameHull(v, w) /\ SameOre(v.run, w.run) BY <1>1, StartCombatFacts
<1> HIDE DEF v
<1>3. Flight(v, b) BY <1>2, SinceSame
<1>4. QED BY <1>2, <1>3 DEF SameOre, v

-----------------------------------------------------------------------------
(* Events. *)

\* v follows w in the same phase, in a step that began in b.
Still(v, w, b) == Flight(v, b) /\ ~v.run.killed /\ v.run.phase = w.run.phase

\* The run changes, but neither its ore nor its course.
LEMMA StillRun ==
  ASSUME NEW w, NEW b, Flight(w, b), ~w.run.killed, NEW r \in Run, Alike(r, w.run),
         r.points = w.run.points, r.check = w.run.check
  PROVE  Still([w EXCEPT !.run = r], w, b)
<1>1. r.points + r.check <= Points BY FlightTypes
<1>2. QED BY <1>1, RunChange DEF Still, Alike

LEMMA EventClock ==
  ASSUME NEW w, NEW b, Flight(w, b), ~w.run.killed, w.run.eventT > 0
  PROVE  Still([w EXCEPT !.run.eventT = @ - 1], w, b)
<1> DEFINE x == w.run.eventT - 1
           r == [w.run EXCEPT !.eventT = x]
<1>1. w \in Ship /\ w.run \in Run BY FlightTypes
<1>2. w.run.eventT \in 0 .. CooldownTicks BY <1>1 DEF Run
<1>3. x \in 0 .. CooldownTicks BY <1>2 DEF CooldownTicks
<1>4. [w EXCEPT !.run.eventT = @ - 1] = [w EXCEPT !.run = r] BY <1>1 DEF Ship
<1> HIDE DEF x
<1>5. r \in Run /\ Alike(r, w.run) /\ r.points = w.run.points /\ r.check = w.run.check
  BY <1>1, <1>3 DEF Run, Alike
<1> HIDE DEF r
<1>6. QED BY <1>4, <1>5, StillRun

LEMMA EventOverFlight ==
  ASSUME NEW w, NEW b, Flight(w, b), ~w.run.killed
  PROVE  Still(EventOver(w), w, b)
<1> DEFINE x == w.run.breached \/ (w.run.event = "life" /\ w.run.phase = "mining")
           r == [w.run EXCEPT !.event = "none", !.eventT = CooldownTicks, !.breached = x]
<1>1. w \in Ship /\ w.run \in Run BY FlightTypes
<1>2. x \in BOOLEAN /\ CooldownTicks \in 0 .. CooldownTicks BY DEF CooldownTicks
<1>3. EventOver(w) = [w EXCEPT !.run = r] BY <1>1 DEF EventOver, Ship, Run
<1> HIDE DEF x
<1>4. r \in Run /\ Alike(r, w.run) /\ r.points = w.run.points /\ r.check = w.run.check
  BY <1>1, <1>2 DEF Run, Alike
<1> HIDE DEF r
<1>5. QED BY <1>3, <1>4, StillRun

LEMMA StartEventFlight ==
  ASSUME NEW w, NEW b, Flight(w, b), ~w.run.killed, NEW kind \in Rollable(w),
         NEW e \in StartEvent(w, kind)
  PROVE  Still(e, w, b)
<1> DEFINE q == [w.run EXCEPT !.event = kind, !.eventT = EventTicks]
           x == [w EXCEPT !.run.event = kind, !.run.eventT = EventTicks]
<1>1. w \in Ship /\ w.run \in Run BY FlightTypes
<1>2. EventTicks \in 0 .. CooldownTicks /\ kind \in Kinds \cup {"none"}
  BY DEF EventTicks, CooldownTicks, Rollable
<1>3. x = [w EXCEPT !.run = q] BY <1>1 DEF Ship, Run
<1>4. q \in Run /\ Alike(q, w.run) /\ q.points = w.run.points /\ q.check = w.run.check
  BY <1>1, <1>2 DEF Run, Alike
<1>40. q.shifts = w.run.shifts /\ q.base = w.run.base BY <1>1 DEF Run
<1> HIDE DEF q, x
<1>5. Still(x, w, b) /\ x.run = q BY <1>3, <1>4, StillRun, RunChange, FlightTypes
<1>50. Flight(x, b) /\ ~x.run.killed BY <1>5 DEF Still
<1>6. CASE kind = "shift"
  <2> DEFINE n == x.run.shifts + 1
             bs == IF w.run.phase = "escaping" THEN (x.run.base * 5) \div 4 ELSE x.run.base
             r == [x.run EXCEPT !.shifts = n, !.base = bs]
  <2>1. x \in Ship /\ x.run \in Run BY <1>50, FlightTypes
  <2>2. w.run.shifts < MaxShifts BY <1>6 DEF Rollable
  <2>3. x.run.shifts \in 0 .. MaxShifts /\ x.run.base \in Nat BY <2>1 DEF Run
  <2>4. n \in 0 .. MaxShifts BY <1>5, <1>40, <2>2, <2>3 DEF MaxShifts
  <2>5. bs \in Nat BY <2>3
  <2>6. e = [x EXCEPT !.run.shifts = @ + 1,
                      !.run.base = IF w.run.phase = "escaping" THEN (@ * 5) \div 4 ELSE @]
    BY <1>6 DEF StartEvent, x
  <2>7. e = [x EXCEPT !.run = r] BY <2>1, <2>6 DEF Ship, Run
  <2> HIDE DEF n, bs
  <2>8. r \in Run /\ Alike(r, x.run) /\ r.points = x.run.points /\ r.check = x.run.check
    BY <2>1, <2>4, <2>5 DEF Run, Alike
  <2> HIDE DEF r
  <2>9. Still(e, x, b) BY <1>50, <2>7, <2>8, StillRun
  <2>10. QED BY <1>5, <2>9 DEF Still
<1>7. CASE kind = "surge"
  <2>1. e = x \/ e = HullHit(x, 1) BY <1>7 DEF StartEvent, x
  <2>2. Flight(HullHit(x, 1), b) /\ HullHit(x, 1).run = x.run BY <1>50, HullHitFlight
  <2>3. QED BY <1>5, <2>1, <2>2 DEF Still
<1>8. CASE kind # "shift" /\ kind # "surge"
  <2>1. e = x BY <1>8 DEF StartEvent, x
  <2>2. QED BY <1>5, <2>1
<1>9. QED BY <1>6, <1>7, <1>8

LEMMA TickEventsFlight ==
  ASSUME NEW w, NEW b, Flight(w, b), ~w.run.killed, NEW e \in TickEvents(w)
  PROVE  Still(e, w, b)
<1>0. Still(w, w, b) BY DEF Still
<1>1. w.run \in Run BY FlightTypes
<1>2. w.run.phase \in {"mining", "tribute", "escaping", "combat"} /\ w.run.eventT \in 0 .. CooldownTicks
  BY <1>1 DEF Run, Phases
<1>3. CASE w.run.phase = "tribute" \/ (w.run.phase = "combat" /\ w.run.event = "none")
  <2>1. e = w BY <1>3 DEF TickEvents
  <2>2. QED BY <1>0, <2>1
<1>4. CASE w.run.phase # "tribute" /\ w.run.event # "none"
  <2>1. e \in IF w.run.eventT > 1 THEN {[w EXCEPT !.run.eventT = @ - 1]} ELSE {EventOver(w)}
    BY <1>4 DEF TickEvents
  <2>2. CASE w.run.eventT > 1
    <3>1. e = [w EXCEPT !.run.eventT = @ - 1] BY <2>1, <2>2
    <3>2. w.run.eventT > 0 BY <1>2, <2>2 DEF CooldownTicks
    <3>3. QED BY <3>1, <3>2, EventClock
  <2>3. CASE ~(w.run.eventT > 1)
    <3>1. e = EventOver(w) BY <2>1, <2>3
    <3>2. QED BY <3>1, EventOverFlight
  <2>4. QED BY <2>2, <2>3
<1>5. CASE w.run.phase \in {"mining", "escaping"} /\ w.run.event = "none"
  <2>1. e \in IF w.run.eventT > 0 THEN {[w EXCEPT !.run.eventT = @ - 1]}
              ELSE {w} \cup (IF w.hull >= EventGate THEN {}
                             ELSE UNION {StartEvent(w, k) : k \in Rollable(w)})
    BY <1>5 DEF TickEvents
  <2>2. CASE w.run.eventT > 0
    <3>1. e = [w EXCEPT !.run.eventT = @ - 1] BY <2>1, <2>2
    <3>2. QED BY <2>2, <3>1, EventClock
  <2>3. CASE ~(w.run.eventT > 0)
    <3>1. e = w \/ \E k \in Rollable(w) : e \in StartEvent(w, k) BY <2>1, <2>3
    <3>2. QED BY <1>0, <3>1, StartEventFlight
  <2>4. QED BY <2>2, <2>3
<1>6. QED BY <1>2, <1>3, <1>4, <1>5

-----------------------------------------------------------------------------
(* Mining. *)

\* What the drill may move fits the rock and the hold.
LEMMA ExtractableFacts ==
  ASSUME NEW w, NEW b, Flight(w, b)
  PROVE  /\ Extractable(w) \in Nat
         /\ \A n \in Nat : n <= Extractable(w) =>
               w.run.ext + n <= w.rock /\ w.cargo + (w.run.held + n) <= Hold
<1>1. w \in Ship /\ w.run \in Run BY FlightTypes
<1>2. w.rock \in Nat /\ w.cargo \in 0 .. Hold BY <1>1 DEF Ship
<1>3. w.run.ext \in Nat /\ w.run.held \in Nat BY <1>1 DEF Run
<1>4. Hold \in Nat BY CapacityAssumption
<1>5. w.run.ext <= w.rock /\ w.cargo + w.run.held <= Hold BY DEF Flight, Aloft, Ledger
<1>6. Room(w) = Hold - w.cargo BY <1>2, <1>4 DEF Room, High
<1> DEFINE x == w.rock - w.run.ext
           y == Room(w) - w.run.held
<1>7. x \in Nat /\ y \in Nat BY <1>2, <1>3, <1>4, <1>5, <1>6
<1>8. Extractable(w) = Low(x, y)
  <2>1. Low(x, y) \in Nat BY <1>7 DEF Low
  <2>2. Extractable(w) = High(0, Low(x, y)) BY DEF Extractable
  <2>3. QED BY <2>1, <2>2 DEF High
<1>9. Low(x, y) \in Nat /\ Low(x, y) <= x /\ Low(x, y) <= y BY <1>7 DEF Low
<1>10. QED BY <1>2, <1>3, <1>4, <1>6, <1>7, <1>8, <1>9

\* Ore goes from the rock into the run.
LEMMA OreFlight ==
  ASSUME NEW w, NEW b, Flight(w, b), ~w.run.killed, w.run.phase = "mining",
         NEW n \in Nat, n <= Extractable(w), NEW c \in {0, w.run.check}, NEW f \in 0 .. Tank
  PROVE  Still([w EXCEPT !.run = [w.run EXCEPT !.check = c, !.ext = w.run.ext + n,
                                               !.held = w.run.held + n],
                         !.fuel = f], w, b)
<1> DEFINE x == w.run.ext + n
           y == w.run.held + n
           r == [w.run EXCEPT !.check = c, !.ext = x, !.held = y]
           v == [w EXCEPT !.run = r, !.fuel = f]
<1>1. w \in Ship /\ w.run \in Run BY FlightTypes
<1>2. w.run.ext \in Nat /\ w.run.held \in Nat /\ w.run.check \in 0 .. SkillWindow
      /\ w.run.points \in 0 .. Points
  BY <1>1 DEF Run
<1>3. x \in Nat /\ y \in Nat /\ c \in 0 .. SkillWindow BY <1>2 DEF SkillWindow
<1>4. x <= w.rock /\ w.cargo + y <= Hold BY ExtractableFacts
<1>5. w.run.points + c <= Points
  <2>1. w.run.points + w.run.check <= Points BY FlightTypes
  <2>2. QED BY <1>2, <2>1, LoadoutAssumption DEF SkillWindow
<1>6. ~w.run.paid /\ w.run.held = w.run.ext /\ w.run.intent = "" /\ ~w.run.attacked /\ ~w.run.burn
  BY DEF Flight, Aloft, Course, Ledger
<1>60. y - x = w.run.held - w.run.ext BY <1>2
<1>61. y = x BY <1>6
<1> HIDE DEF x, y
<1>7. /\ r \in Run /\ r.ext = x /\ r.held = y /\ r.check = c /\ r.points = w.run.points
      /\ r.phase = w.run.phase /\ r.paid = w.run.paid /\ r.attacked = w.run.attacked
      /\ r.burn = w.run.burn /\ r.killed = w.run.killed /\ r.intent = w.run.intent
  BY <1>1, <1>3 DEF Run
<1> HIDE DEF r
<1>8. v \in Ship /\ v.run = r /\ SameHull(v, w) BY <1>1, <1>7 DEF Ship, SameHull
<1> HIDE DEF v
<1>9. Ledger(v) BY <1>4, <1>5, <1>6, <1>61, <1>7, <1>8 DEF Flight, Aloft, Ledger, SameHull
<1>10. Course(v) BY <1>6, <1>7, <1>8 DEF Course
<1>11. WeakShield(v) BY <1>8, FlightTypes DEF WeakShield, SameHull
<1>12. Since(v, b) BY <1>60, <1>7, <1>8 DEF Flight, Since, SameHull
<1>13. Still(v, w, b) BY <1>7, <1>8, <1>9, <1>10, <1>11, <1>12 DEF Still, Flight, Aloft
<1>14. QED BY <1>13 DEF v, r, x, y

LEMMA DrilledFlight ==
  ASSUME NEW w, NEW b, Flight(w, b), ~w.run.killed, w.run.phase = "mining"
  PROVE  Still(Drilled(w), w, b)
<1> DEFINE mined == Low(1, Extractable(w))
           drain == IF w.run.event = "surge" THEN 2 ELSE 1
           used  == Low(w.fuel, drain)
           back  == IF w.run.vein THEN used * FuelMiner ELSE 0
           f     == Low(Tank, w.fuel - used + back)
<1>1. w \in Ship /\ w.run \in Run BY FlightTypes
<1>2. w.fuel \in 0 .. Tank BY <1>1 DEF Ship
<1>3. mined \in Nat /\ mined <= Extractable(w) BY ExtractableFacts DEF Low
<1>4. drain \in Nat OBVIOUS
<1> HIDE DEF drain
<1>5. w.fuel \in Nat /\ Tank \in Nat BY <1>2, CapacityAssumption
<1>6. used \in Nat /\ used <= w.fuel BY <1>4, <1>5 DEF Low
<1> HIDE DEF used
<1>7. FuelMiner \in Nat BY LoadoutAssumption
<1>8. back \in Nat BY <1>6, <1>7, MulNat
<1> HIDE DEF back
<1>9. w.fuel - used + back \in Nat BY <1>5, <1>6, <1>8
<1>10. f \in 0 .. Tank BY <1>5, <1>9 DEF Low
<1>11. CASE mined = 0 \/ w.fuel = 0
  <2>1. Drilled(w) = w BY <1>11 DEF Drilled
  <2>2. QED BY <2>1 DEF Still
<1>12. CASE ~(mined = 0 \/ w.fuel = 0)
  <2> DEFINE r == [w.run EXCEPT !.check = w.run.check, !.ext = w.run.ext + mined,
                                !.held = w.run.held + mined]
  <2>1. Drilled(w) = [w EXCEPT !.run.ext = @ + mined, !.run.held = @ + mined, !.fuel = f]
    BY <1>1, <1>12 DEF Drilled, drain, used, back, Ship
  <2> HIDE DEF mined, f
  <2>2. r = [w.run EXCEPT !.ext = w.run.ext + mined, !.held = w.run.held + mined]
    BY <1>1 DEF Run
  <2>3. Drilled(w) = [w EXCEPT !.run = [w.run EXCEPT !.ext = w.run.ext + mined,
                                                     !.held = w.run.held + mined], !.fuel = f]
    BY <1>1, <2>1 DEF Ship, Run
  <2>4. Drilled(w) = [w EXCEPT !.run = r, !.fuel = f] BY <2>2, <2>3
  <2>5. w.run.check \in {0, w.run.check} OBVIOUS
  <2>6. Still([w EXCEPT !.run = [w.run EXCEPT !.check = w.run.check, !.ext = w.run.ext + mined,
                                               !.held = w.run.held + mined],
                       !.fuel = f], w, b)
    BY <1>3, <1>10, <2>5, OreFlight
  <2>7. QED BY <2>4, <2>6
<1>13. QED BY <1>11, <1>12

\* The pressure point that was lit is put back or used up, never doubled.
LEMMA CheckFlight ==
  ASSUME NEW w, NEW b, Flight(w, b), ~w.run.killed, NEW n \in 0 .. Points, NEW c \in 0 .. SkillWindow,
         n + c <= Points
  PROVE  Still([w EXCEPT !.run = [w.run EXCEPT !.points = n, !.check = c]], w, b)
<1> DEFINE r == [w.run EXCEPT !.points = n, !.check = c]
<1>1. w.run \in Run BY FlightTypes
<1>2. r \in Run /\ Alike(r, w.run) /\ r.points = n /\ r.check = c BY <1>1 DEF Run, Alike
<1> HIDE DEF r
<1>3. Flight([w EXCEPT !.run = r], b) /\ [w EXCEPT !.run = r].run = r BY <1>2, RunChange
<1>4. QED BY <1>2, <1>3 DEF Still, Alike, r

LEMMA TickSkillCheckFlight ==
  ASSUME NEW w, NEW b, Flight(w, b), ~w.run.killed, NEW v \in TickSkillCheck(w)
  PROVE  Still(v, w, b)
<1>1. w \in Ship /\ w.run \in Run BY FlightTypes
<1>2. w.run.points \in 0 .. Points /\ w.run.check \in 0 .. 1 BY <1>1 DEF Run, SkillWindow
<1>3. w.run.points + w.run.check <= Points BY FlightTypes
<1>4. Points \in Nat BY LoadoutAssumption
<1>5. CASE RunDepleted(w) \/ RunCargoFull(w)
  <2> DEFINE n == w.run.points + (IF w.run.check > 0 THEN 1 ELSE 0)
  <2>1. v = [w EXCEPT !.run.points = @ + (IF w.run.check > 0 THEN 1 ELSE 0), !.run.check = 0]
    BY <1>5 DEF TickSkillCheck
  <2>2. v = [w EXCEPT !.run = [w.run EXCEPT !.points = n, !.check = 0]]
    BY <1>1, <2>1 DEF Ship, Run
  <2>3. n \in 0 .. Points /\ n + 0 <= Points /\ 0 \in 0 .. SkillWindow
    BY <1>2, <1>3, <1>4 DEF SkillWindow
  <2> HIDE DEF n
  <2>4. QED BY <2>2, <2>3, CheckFlight
<1>6. CASE ~(RunDepleted(w) \/ RunCargoFull(w))
  <2>1. \/ w.run.check > 0 /\ v = [w EXCEPT !.run.check = @ - 1]
        \/ v = w
        \/ ~(w.run.check > 0) /\ w.run.points # 0
           /\ v = [w EXCEPT !.run.points = @ - 1, !.run.check = SkillWindow]
    BY <1>6 DEF TickSkillCheck
  <2>2. CASE w.run.check > 0 /\ v = [w EXCEPT !.run.check = @ - 1]
    <3> DEFINE n == w.run.points
               c == w.run.check - 1
    <3>1. v = [w EXCEPT !.run = [w.run EXCEPT !.points = n, !.check = c]]
      BY <1>1, <2>2 DEF Ship, Run
    <3>2. n \in 0 .. Points /\ n + c <= Points /\ c \in 0 .. SkillWindow
      BY <1>2, <1>3, <1>4, <2>2 DEF SkillWindow
    <3> HIDE DEF n, c
    <3>3. QED BY <3>1, <3>2, CheckFlight
  <2>3. CASE v = w BY <2>3 DEF Still
  <2>4. CASE ~(w.run.check > 0) /\ w.run.points # 0
             /\ v = [w EXCEPT !.run.points = @ - 1, !.run.check = SkillWindow]
    <3> DEFINE n == w.run.points - 1
               c == SkillWindow
    <3>1. v = [w EXCEPT !.run = [w.run EXCEPT !.points = n, !.check = c]]
      BY <1>1, <2>4 DEF Ship, Run
    <3>2. n \in 0 .. Points /\ n + c <= Points /\ c \in 0 .. SkillWindow
      BY <1>2, <1>3, <1>4, <2>4 DEF SkillWindow
    <3> HIDE DEF n, c
    <3>3. QED BY <3>1, <3>2, CheckFlight
  <2>5. QED BY <2>1, <2>2, <2>3, <2>4
<1>7. QED BY <1>5, <1>6

LEMMA ApproachedFlight ==
  ASSUME NEW w, NEW b, Flight(w, b), ~w.run.killed
  PROVE  Still(Approached(w), w, b)
<1>1. w \in Ship /\ w.run \in Run BY FlightTypes
<1>2. w.run.dist \in Nat /\ w.run.jam \in 0 .. JamTicks /\ JamTicks \in Nat
  BY <1>1, LoadoutAssumption DEF Run
<1>3. CASE w.run.jam > 0
  <2> DEFINE x == w.run.jam - 1
             r == [w.run EXCEPT !.jam = x]
  <2>1. x \in 0 .. JamTicks BY <1>2, <1>3
  <2>2. Approached(w) = [w EXCEPT !.run = r] BY <1>1, <1>3 DEF Approached, Ship
  <2> HIDE DEF x
  <2>3. r \in Run /\ Alike(r, w.run) /\ r.points = w.run.points /\ r.check = w.run.check
    BY <1>1, <2>1 DEF Run, Alike
  <2> HIDE DEF r
  <2>4. QED BY <2>2, <2>3, StillRun
<1>4. CASE ~(w.run.jam > 0) /\ w.run.event = "blackout"
  BY <1>4 DEF Approached, Still
<1>5. CASE ~(w.run.jam > 0) /\ w.run.event # "blackout"
  <2> DEFINE x == High(0, w.run.dist - 1)
             r == [w.run EXCEPT !.dist = x]
  <2>1. x \in Nat BY <1>2 DEF High
  <2>2. Approached(w) = [w EXCEPT !.run = r] BY <1>1, <1>5 DEF Approached, Ship
  <2> HIDE DEF x
  <2>3. r \in Run /\ Alike(r, w.run) /\ r.points = w.run.points /\ r.check = w.run.check
    BY <1>1, <2>1 DEF Run, Alike
  <2> HIDE DEF r
  <2>4. QED BY <2>2, <2>3, StillRun
<1>6. QED BY <1>3, <1>4, <1>5

LEMMA StillTrans ==
  ASSUME NEW u, NEW v, NEW w, NEW b, Still(u, v, b), Still(v, w, b)
  PROVE  Still(u, w, b)
  BY DEF Still

LEMMA StillFlight ==
  ASSUME NEW v, NEW w, NEW b, Still(v, w, b)
  PROVE  Flight(v, b) /\ ~v.run.killed /\ v.run.phase = w.run.phase
  BY DEF Still

\* One tick of the drill: an unstable belt takes the ship, otherwise the
\* drill works, a breach bleeds the hull and the contact comes closer.
LEMMA TickMiningFlight ==
  ASSUME NEW w, NEW b, Flight(w, b), ~w.run.killed, w.run.phase = "mining", NEW m \in TickMining(w)
  PROVE  Still(m, w, b)
<1> DEFINE aged  == [w EXCEPT !.run.stable = High(0, @ - 1)]
           waned == [aged EXCEPT !.run.emp = High(0, @ - 1)]
           st == High(0, w.run.stable - 1)
           q == [w.run EXCEPT !.stable = st]
<1>1. w \in Ship /\ w.run \in Run BY FlightTypes
<1>2. w.run.stable \in 0 .. StableTicks /\ w.run.emp \in 0 .. EmpTicks BY <1>1 DEF Run
<1>3. StableTicks \in Nat /\ EmpTicks \in Nat BY LoadoutAssumption
<1>4. st \in 0 .. StableTicks BY <1>2, <1>3 DEF High
<1>5. aged = [w EXCEPT !.run = q] BY <1>1 DEF Ship
<1> HIDE DEF st
<1>6. q \in Run /\ Alike(q, w.run) /\ q.points = w.run.points /\ q.check = w.run.check /\ q.emp = w.run.emp
  BY <1>1, <1>4 DEF Run, Alike
<1> HIDE DEF q, aged
<1>7. Still(aged, w, b) /\ aged.run = q BY <1>5, <1>6, StillRun, RunChange, FlightTypes
<1>8. Flight(aged, b) /\ ~aged.run.killed /\ aged.run.phase = "mining" BY <1>7, StillFlight
<1> DEFINE em == High(0, aged.run.emp - 1)
           p == [aged.run EXCEPT !.emp = em]
<1>9. em \in 0 .. EmpTicks BY <1>2, <1>3, <1>6, <1>7 DEF High
<1>10. aged \in Ship /\ aged.run \in Run BY <1>8, FlightTypes
<1>11. waned = [aged EXCEPT !.run = p] BY <1>10 DEF Ship
<1> HIDE DEF em
<1>12. p \in Run /\ Alike(p, aged.run) /\ p.points = aged.run.points /\ p.check = aged.run.check
  BY <1>9, <1>10 DEF Run, Alike
<1> HIDE DEF p
<1>13. Still(waned, aged, b) BY <1>8, <1>11, <1>12, StillRun
<1>14. Still(waned, w, b) BY <1>7, <1>13, StillTrans
<1> HIDE DEF waned
<1>15. CASE StableTicks > 0 /\ aged.run.stable = 0
  <2>1. m = [aged EXCEPT !.hull = 0] BY <1>15 DEF TickMining, aged
  <2>2. aged.hull \in Nat /\ High(0, aged.hull - aged.hull) = 0 BY <1>10, CapacityAssumption DEF Ship, High
  <2>3. m = HullHit(aged, aged.hull) BY <1>10, <2>1, <2>2 DEF HullHit, Ship
  <2>4. Flight(m, b) /\ m.run = aged.run BY <1>8, <2>2, <2>3, HullHitFlight
  <2>5. QED BY <1>7, <2>4 DEF Still
<1>16. CASE ~(StableTicks > 0 /\ aged.run.stable = 0)
  <2> DEFINE bleed == IF w.run.breached THEN {0, 1} ELSE {0}
             worked == IF w.run.event = "outage" THEN {waned} ELSE TickSkillCheck(Drilled(waned))
  <2>1. m \in {Approached(HullHit(v, c)) : c \in bleed, v \in worked}
    BY <1>16 DEF TickMining, aged, waned
  <2>2. PICK c \in bleed, v \in worked : m = Approached(HullHit(v, c)) BY <2>1
  <2>3. c \in Nat OBVIOUS
  <2>4. Still(v, w, b)
    <3>1. CASE w.run.event = "outage" BY <1>14, <3>1
    <3>2. CASE w.run.event # "outage"
      <4>1. Flight(waned, b) /\ ~waned.run.killed /\ waned.run.phase = "mining" BY <1>14, StillFlight
      <4>2. Still(Drilled(waned), waned, b) BY <4>1, DrilledFlight
      <4>3. v \in TickSkillCheck(Drilled(waned)) BY <3>2
      <4>4. Still(v, Drilled(waned), b) BY <4>2, <4>3, StillFlight, TickSkillCheckFlight
      <4>5. QED BY <1>14, <4>2, <4>4, StillTrans
    <3>3. QED BY <3>1, <3>2
  <2>5. Flight(v, b) /\ ~v.run.killed BY <2>4, StillFlight
  <2>6. Flight(HullHit(v, c), b) /\ HullHit(v, c).run = v.run BY <2>3, <2>5, HullHitFlight
  <2>7. Still(HullHit(v, c), v, b) BY <2>5, <2>6 DEF Still
  <2>8. Still(m, HullHit(v, c), b) BY <2>2, <2>5, <2>6, ApproachedFlight
  <2>9. QED BY <2>4, <2>7, <2>8, StillTrans
<1>17. QED BY <1>15, <1>16

\* A flight whose pirate is alive.
Alive(w, b) == Flight(w, b) /\ ~w.run.killed

LEMMA ContactFlight ==
  ASSUME NEW w, NEW b, Alive(w, b), w.run.phase = "mining", NEW v \in Contact(w)
  PROVE  Alive(v, b)
<1>0. Flight(w, b) /\ ~w.run.killed BY DEF Alive
<1>1. w \in Ship /\ w.run \in Run BY <1>0, FlightTypes
<1>2. CASE v = w BY <1>2
<1>3. CASE CanDeployEMP(w) /\ v = DeployEMP(w)
  <2> DEFINE n == w.emp - 1
             r == [w.run EXCEPT !.empUsed = TRUE, !.emp = EmpTicks]
             x == [w EXCEPT !.emp = n]
  <2>1. w.emp \in 0 .. EmpLaunchers /\ w.emp > 0 BY <1>1, <1>3 DEF Ship, CanDeployEMP
  <2>2. n \in 0 .. EmpLaunchers BY <2>1, LoadoutAssumption
  <2>3. DeployEMP(w) = [x EXCEPT !.run = r] BY <1>1 DEF DeployEMP, Ship
  <2>4. EmpTicks \in 0 .. EmpTicks BY LoadoutAssumption
  <2>5. r \in Run /\ Alike(r, w.run) /\ r.points = w.run.points /\ r.check = w.run.check
    BY <1>1, <2>4 DEF Run, Alike
  <2> HIDE DEF n, r
  <2>6. x \in Ship /\ x.run = w.run /\ SameHull(x, w) BY <1>1, <2>2 DEF Ship, SameHull
  <2> HIDE DEF x
  <2>7. Flight(x, b) BY <1>0, <1>1, <2>6, FlightIf, FlightTypes DEF SameHull, WeakShield, Alike
  <2>8. Still(v, x, b) BY <1>0, <1>3, <2>3, <2>5, <2>6, <2>7, StillRun
  <2>9. QED BY <2>8 DEF Still, Alive
<1>4. CASE v = [w EXCEPT !.run.phase = "tribute", !.run.clock = 0]
  <2> DEFINE r == [w.run EXCEPT !.phase = "tribute", !.clock = 0]
  <2>1. v = [w EXCEPT !.run = r] BY <1>1, <1>4 DEF Ship
  <2>2. 0 \in 0 .. TributeTicks BY DEF TributeTicks
  <2>3. /\ r \in Run /\ SameOre(r, w.run) /\ r.attacked = w.run.attacked /\ r.burn = w.run.burn
        /\ r.intent = w.run.intent /\ r.phase = "tribute"
    BY <1>1, <2>2 DEF Run, SameOre, Phases
  <2> HIDE DEF r
  <2>4. v \in Ship /\ v.run = r /\ SameHull(v, w) BY <1>1, <2>1, <2>3, SwapRun
  <2>5. Untouched(w) /\ ~w.run.paid BY <1>0, CalmPhases
  <2>6. Ledger(v) BY <2>3, <2>4, <2>5 DEF Untouched, Ledger, SameHull, SameOre
  <2>7. Course(v) BY <2>3, <2>4, <2>5 DEF Untouched, Course, SameOre
  <2>8. WeakShield(v) BY <2>4, <2>5 DEF Untouched, WeakShield, SameHull
  <2>9. Aloft(v) BY <2>3, <2>4, <2>5, <2>6, <2>7, <2>8 DEF Aloft, Untouched, SameOre
  <2>10. QED BY <1>0, <2>3, <2>4, <2>9, SinceSame DEF Alive, SameOre
<1>5. CASE v = StartCombat(w, ~Armed)
  <2>1. (~Armed) \in BOOLEAN OBVIOUS
  <2>2. QED BY <1>0, <1>5, <2>1, StartCombatFlight DEF Alive
<1>6. QED BY <1>2, <1>3, <1>4, <1>5 DEF Contact, PirateAction

-----------------------------------------------------------------------------
(* The burn and the fight. *)

LEMMA DrainsNat ==
  ASSUME NEW w, NEW d \in Drains(w)
  PROVE  d \in Nat
  BY DEF Drains

LEMMA TickEscapeFlight ==
  ASSUME NEW w, NEW b, Alive(w, b), NEW v \in TickEscape(w)
  PROVE  Alive(v, b)
<1> DEFINE hits == IF w.run.attacked THEN 0 .. PirateHit ELSE {0}
<1>1. PICK h \in hits, d \in Drains(w) : v = TickBurn(AttackHit(w, h), TickUnits, d)
  BY DEF TickEscape
<1>2. h \in Nat BY LoadoutAssumption
<1>3. Flight(AttackHit(w, h), b) /\ AttackHit(w, h).run = w.run BY <1>2, AttackHitFlight DEF Alive
<1>4. TickUnits \in Nat /\ d \in Nat BY DrainsNat DEF TickUnits
<1>5. Flight(v, b) /\ Alike(v.run, w.run) BY <1>1, <1>3, <1>4, TickBurnFlight
<1>6. QED BY <1>5 DEF Alive, Alike

\* The length of a combat tick that ends early.
LEMMA CombatDTNat ==
  ASSUME NEW w, w.run \in Run
  PROVE  CombatDT(w) \in Nat
<1> DEFINE toKill == IF Cannon > 0 THEN Low(TickUnits, KillAt(w)) ELSE TickUnits
<1>1. w.run.foe \in 0 .. PirateHull /\ w.run.base \in Nat /\ w.run.elapsed \in Nat /\ w.run.fuelOut \in Nat
  BY DEF Run
<1>2. Cannon \in Nat /\ PirateHull \in Nat /\ FuelOutCap \in Nat BY LoadoutAssumption
<1>3. toKill \in Nat
  <2>1. CASE Cannon > 0
    <3>1. w.run.foe * TickUnits \in Nat BY <1>1, <1>2 DEF TickUnits
    <3>2. KillAt(w) \in Nat BY <1>2, <2>1, <3>1, DivNat DEF KillAt
    <3>3. QED BY <3>2 DEF Low, TickUnits
  <2>2. CASE ~(Cannon > 0) BY <2>2 DEF TickUnits
  <2>3. QED BY <2>1, <2>2
<1>4. DoneAt(w) \in Nat
  <2>1. (3 * w.run.fuelOut) \div 5 \in Nat BY <1>1
  <2>2. Penalty(w.run.fuelOut) \in Nat BY <1>2, <2>1 DEF Penalty, Low
  <2>3. EscapeRequired(w.run) - w.run.elapsed \in Int BY <1>1, <2>2 DEF EscapeRequired
  <2>4. QED BY <2>3 DEF DoneAt, High
<1> HIDE DEF toKill
<1>5. CombatDT(w) = IF w.run.burn THEN Low(toKill, DoneAt(w)) ELSE toKill BY DEF CombatDT, toKill
<1>6. QED BY <1>3, <1>4, <1>5 DEF Low

LEMMA FoughtFlight ==
  ASSUME NEW w, NEW b, Alive(w, b), NEW hit \in Nat, NEW drain \in Nat
  PROVE  Alive(Fought(w, hit, drain), b)
<1> DEFINE dt == CombatDT(w)
           a == AttackHit(w, hit)
           n == High(0, a.run.foe - (Cannon * dt) \div TickUnits)
           r == [a.run EXCEPT !.foe = n]
           f == [a EXCEPT !.run = r]
<1>0. Flight(w, b) /\ ~w.run.killed BY DEF Alive
<1>1. w.run \in Run BY <1>0, FlightTypes
<1>2. dt \in Nat BY <1>1, CombatDTNat
<1>3. Flight(a, b) /\ a.run = w.run BY <1>0, AttackHitFlight
<1>4. [a EXCEPT !.run.foe = High(0, @ - (Cannon * dt) \div TickUnits)] = f
  <2> HIDE DEF dt, a
  <2>1. a \in Ship /\ a.run \in Run BY <1>3, FlightTypes
  <2>2. QED BY <2>1 DEF Ship, Run
<1>5. Fought(w, hit, drain) = IF w.run.burn THEN TickBurn(f, dt, drain) ELSE f
  BY <1>4 DEF Fought
<1> HIDE DEF dt, a
<1>6. a \in Ship /\ a.run \in Run BY <1>3, FlightTypes
<1>7. a.run.foe \in 0 .. PirateHull BY <1>6 DEF Run
<1>8. Cannon \in Nat /\ PirateHull \in Nat BY LoadoutAssumption
<1>9. (Cannon * dt) \div TickUnits \in Nat
  <2>1. TickUnits \in Nat \ {0} BY DEF TickUnits
  <2>2. QED BY <1>2, <1>8, <2>1, MulNat, DivNat
<1>10. n \in 0 .. PirateHull BY <1>7, <1>8, <1>9 DEF High
<1> HIDE DEF n
<1>11. r \in Run /\ Alike(r, a.run) /\ r.points = a.run.points /\ r.check = a.run.check
  BY <1>6, <1>10 DEF Run, Alike
<1> HIDE DEF r
<1>12. Still(f, a, b) BY <1>0, <1>3, <1>11, StillRun
<1> HIDE DEF f
<1>13. Alive(f, b) BY <1>12 DEF Still, Alive
<1>14. Flight(TickBurn(f, dt, drain), b) /\ Alike(TickBurn(f, dt, drain).run, f.run)
  BY <1>2, <1>13, TickBurnFlight DEF Alive
<1>15. QED BY <1>5, <1>13, <1>14 DEF Alive, Alike

\* The bounty comes with the kill, to a ship that is still there.
LEMMA WonFlight ==
  ASSUME NEW w, NEW b, Alive(w, b), w.hull > 0, b.vouchers < MaxVouchers
  PROVE  Flight(Won(w), b) /\ Won(w).run.killed
<1> DEFINE r == [w.run EXCEPT !.killed = TRUE]
           n == w.vouchers + 1
           v == [w EXCEPT !.run = r, !.vouchers = n]
<1>0. Flight(w, b) /\ ~w.run.killed BY DEF Alive
<1>1. w \in Ship /\ w.run \in Run BY <1>0, FlightTypes
<1>2. Won(w) = v BY <1>1 DEF Won, Ship
<1>3. w.vouchers = b.vouchers /\ w.vouchers \in 0 .. MaxVouchers BY <1>0, <1>1 DEF Flight, Since, Ship
<1>4. n \in 0 .. MaxVouchers /\ n = b.vouchers + 1 BY <1>3, LoadoutAssumption
<1> HIDE DEF n
<1>5. /\ r \in Run /\ r.phase = w.run.phase /\ r.ext = w.run.ext /\ r.held = w.run.held
      /\ r.paid = w.run.paid /\ r.attacked = w.run.attacked /\ r.burn = w.run.burn
      /\ r.intent = w.run.intent /\ r.points = w.run.points /\ r.check = w.run.check /\ r.killed = TRUE
  BY <1>1 DEF Run
<1> HIDE DEF r
<1>6. /\ v \in Ship /\ v.run = r /\ v.vouchers = n /\ v.rock = w.rock /\ v.docked = w.docked
      /\ v.cargo = w.cargo /\ v.hull = w.hull /\ v.shield = w.shield /\ v.burst = w.burst
  BY <1>1, <1>4, <1>5 DEF Ship
<1> HIDE DEF v
<1>7. Ledger(v) BY <1>0, <1>5, <1>6 DEF Flight, Aloft, Ledger
<1>8. Course(v) BY <1>0, <1>5, <1>6 DEF Flight, Aloft, Course
<1>9. WeakShield(v) BY <1>0, <1>6, FlightTypes DEF WeakShield
<1>10. Since(v, b) BY <1>0, <1>4, <1>5, <1>6 DEF Flight, Since
<1>11. QED BY <1>2, <1>5, <1>6, <1>7, <1>8, <1>9, <1>10 DEF Flight, Aloft

LEMMA CooledFlight ==
  ASSUME NEW w, NEW b, Flight(w, b), NEW v \in Cooled(w)
  PROVE  Flight(v, b)
<1>1. w \in Ship /\ w.run \in Run BY FlightTypes
<1>2. PICK l \in {FALSE, w.run.locked}, c \in {FALSE, w.run.cooling} :
         v = [w EXCEPT !.run.locked = l, !.run.cooling = c]
  BY DEF Cooled
<1>3. l \in BOOLEAN /\ c \in BOOLEAN BY <1>1 DEF Run
<1> DEFINE r == [w.run EXCEPT !.locked = l, !.cooling = c]
<1>4. v = [w EXCEPT !.run = r] BY <1>1, <1>2 DEF Ship
<1>5. r \in Run /\ Alike(r, w.run) /\ r.points = w.run.points /\ r.check = w.run.check
  <2> HIDE <1>2, <1>4
  <2>1. r \in Run BY <1>1, <1>3 DEF Run
  <2>2. r.points = w.run.points /\ r.check = w.run.check BY <1>1 DEF Run
  <2>3. Alike(r, w.run) BY <1>1 DEF Run, Alike
  <2>4. QED BY <2>1, <2>2, <2>3
<1> HIDE DEF r
<1>6. r.points + r.check <= Points BY <1>5, FlightTypes
<1>7. QED BY <1>4, <1>5, <1>6, RunChange

LEMMA TickCombatFlight ==
  ASSUME NEW w, NEW b, Alive(w, b), b.vouchers < MaxVouchers, NEW v \in TickCombat(w)
  PROVE  Flight(v, b)
<1>1. PICK h \in 0 .. PirateHit, d \in Drains(w) : v \in Cooled(Decided(w, Fought(w, h, d)))
  BY DEF TickCombat
<1>2. h \in Nat /\ d \in Nat BY DrainsNat, LoadoutAssumption
<1> DEFINE f == Fought(w, h, d)
<1>3. Alive(f, b) BY <1>2, FoughtFlight
<1> HIDE DEF f
<1>4. Flight(Decided(w, f), b) BY <1>3, WonFlight DEF Decided, Alive
<1>5. QED BY <1>1, <1>4, CooledFlight DEF f

LEMMA TickTributeFlight ==
  ASSUME NEW w, NEW b, Alive(w, b), w.run.phase = "tribute", NEW v \in TickTribute(w)
  PROVE  Alive(v, b)
<1>0. Flight(w, b) /\ ~w.run.killed BY DEF Alive
<1>1. w \in Ship /\ w.run \in Run BY <1>0, FlightTypes
<1>2. w.run.clock \in 0 .. TributeTicks BY <1>1 DEF Run
<1>3. CASE w.run.clock + 1 >= TributeTicks
  <2>1. v = StartCombat(w, TRUE) BY <1>3 DEF TickTribute, Refused
  <2>2. QED BY <1>0, <2>1, StartCombatFlight DEF Alive
<1>4. CASE ~(w.run.clock + 1 >= TributeTicks)
  <2> DEFINE n == w.run.clock + 1
             r == [w.run EXCEPT !.clock = n]
  <2>1. v = [w EXCEPT !.run.clock = @ + 1] BY <1>4 DEF TickTribute
  <2>2. v = [w EXCEPT !.run = r] BY <1>1, <2>1 DEF Ship
  <2>3. n \in 0 .. TributeTicks BY <1>2, <1>4 DEF TributeTicks
  <2> HIDE DEF n
  <2>4. r \in Run /\ Alike(r, w.run) /\ r.points = w.run.points /\ r.check = w.run.check
    BY <1>1, <2>3 DEF Run, Alike
  <2> HIDE DEF r
  <2>5. QED BY <1>0, <2>2, <2>4, StillRun DEF Still, Alive
<1>5. QED BY <1>3, <1>4

\* Every way a tick of the run may go.
LEMMA TickRunFlight ==
  ASSUME Alive(s, s), s.vouchers < MaxVouchers, NEW v \in TickRun
  PROVE  Flight(v, s)
<1>1. PICK w \in TickEvents(s) : v \in TickPhase(w) BY DEF TickRun
<1>2. Still(w, s, s) BY TickEventsFlight DEF Alive
<1>3. Alive(w, s) BY <1>2 DEF Still, Alive
<1>4. w.run.phase \in {"mining", "tribute", "escaping", "combat"}
  BY <1>3, FlightTypes DEF Alive, Run, Phases
<1>5. CASE w.run.phase = "mining"
  <2>1. PICK m \in TickMining(w) : v \in Contact(m) BY <1>1, <1>5 DEF TickPhase
  <2>2. Still(m, w, s) BY <1>3, <1>5, TickMiningFlight DEF Alive
  <2>3. Alive(m, s) /\ m.run.phase = "mining" BY <1>5, <2>2 DEF Still, Alive
  <2>4. QED BY <2>1, <2>3, ContactFlight DEF Alive
<1>6. CASE w.run.phase = "tribute"
  <2>1. v \in TickTribute(w) BY <1>1, <1>6 DEF TickPhase
  <2>2. QED BY <1>3, <1>6, <2>1, TickTributeFlight DEF Alive
<1>7. CASE w.run.phase = "escaping"
  <2>1. v \in TickEscape(w) BY <1>1, <1>7 DEF TickPhase
  <2>2. QED BY <1>3, <2>1, TickEscapeFlight DEF Alive
<1>8. CASE w.run.phase = "combat"
  <2>1. v \in TickCombat(w) BY <1>1, <1>8 DEF TickPhase
  <2>2. QED BY <1>3, <2>1, TickCombatFlight
<1>9. QED BY <1>4, <1>5, <1>6, <1>7, <1>8

-----------------------------------------------------------------------------
(* The end of a run. *)

\* OutcomeTruthful of any report.
Truthful(o) ==
    /\ o.kind = "departed" => o.exhausted /\ ~o.attacked /\ ~o.paid /\ ~o.bounty
    /\ o.kind = "bailed" => ~o.exhausted /\ ~o.attacked /\ ~o.paid /\ ~o.bounty
    /\ o.kind = "tribute_paid" => o.paid /\ ~o.attacked
    /\ o.kind = "escaped_under_fire" => o.attacked /\ ~o.paid
    /\ o.bounty <=> o.kind = "pirate_destroyed"

\* The rock is exhausted or it is not.
LEMMA DepletedFacts ==
  ASSUME NEW w, w.run.ext \in Nat, w.rock \in Nat
  PROVE  /\ RunDepleted(w) \in BOOLEAN
         /\ RunDepleted(w) <=> ~(w.run.ext < w.rock)
<1>1. RunDepleted(w) \in BOOLEAN BY DEF RunDepleted
<1>2. RunDepleted(w) <=> ~(w.run.ext < w.rock) BY DEF RunDepleted
<1>3. QED BY <1>1, <1>2

LEMMA EndKindFacts ==
  ASSUME NEW w, NEW b, Flight(w, b)
  PROVE  LET k == EndKind(w)
         IN /\ k \in Outcomes \cup {""}
            /\ w.run.killed <=> k = "pirate_destroyed"
            /\ k # "ship_lost" => w.hull > 0
            /\ k = "departed" => RunDepleted(w) /\ ~w.run.attacked /\ ~w.run.paid
            /\ k = "bailed" => ~RunDepleted(w) /\ ~w.run.attacked /\ ~w.run.paid
            /\ k = "tribute_paid" => w.run.paid /\ ~w.run.attacked
            /\ k = "escaped_under_fire" => w.run.attacked /\ ~w.run.paid
<1> DEFINE k == EndKind(w)
<1>1. w \in Ship /\ w.run \in Run BY FlightTypes
<1>2. w.hull \in 0 .. MaxHull BY <1>1 DEF Ship
<1>20. w.rock \in Nat /\ w.run.ext \in Nat BY <1>1 DEF Ship, Run
<1>3. w.run.intent \in {"", "departed", "bailed"} BY <1>1 DEF Run
<1>4. w.hull = 0 \/ w.hull > 0 BY <1>2, CapacityAssumption
<1>5. w.run.killed => w.hull > 0 BY FlightTypes
<1>60. /\ w.run.intent = "departed" => w.run.ext >= w.rock
       /\ w.run.intent = "bailed" => w.run.ext < w.rock
       /\ ~(w.run.paid /\ w.run.attacked)
  BY DEF Flight, Aloft, Course
<1>6. /\ w.run.intent = "departed" => RunDepleted(w)
      /\ w.run.intent = "bailed" => ~RunDepleted(w)
      /\ ~(w.run.paid /\ w.run.attacked)
  <2>1. RunDepleted(w) <=> ~(w.run.ext < w.rock) BY <1>20, DepletedFacts
  <2>2. w.run.ext >= w.rock => ~(w.run.ext < w.rock) BY <1>20
  <2>3. QED BY <1>60, <2>1, <2>2
<1>7. CASE w.run.killed
  <2>1. k = "pirate_destroyed" BY <1>7 DEF EndKind
  <2>2. QED BY <1>5, <1>7, <2>1 DEF Outcomes
<1>8. CASE ~w.run.killed /\ w.hull = 0
  <2>1. k = "ship_lost" BY <1>8 DEF EndKind
  <2>2. QED BY <1>8, <2>1 DEF Outcomes
<1>9. CASE ~w.run.killed /\ w.hull > 0 /\ ~(Burning(w.run) /\ w.run.elapsed >= EscapeRequired(w.run))
  <2>1. w.hull # 0 BY <1>9
  <2>2. k = "" BY <1>9, <2>1 DEF EndKind
  <2>3. QED BY <1>9, <2>2 DEF Outcomes
<1>10. CASE ~w.run.killed /\ w.hull > 0 /\ Burning(w.run) /\ w.run.elapsed >= EscapeRequired(w.run)
  <2>1. w.hull # 0 BY <1>10
  <2>2. k = IF w.run.paid THEN "tribute_paid"
            ELSE IF w.run.attacked THEN "escaped_under_fire" ELSE w.run.intent
    BY <1>10, <2>1 DEF EndKind
  <2> HIDE DEF k
  <2>3. CASE w.run.paid
    <3>1. k = "tribute_paid" BY <2>2, <2>3
    <3>2. QED BY <1>6, <1>10, <2>3, <3>1 DEF Outcomes, k
  <2>4. CASE ~w.run.paid /\ w.run.attacked
    <3>1. k = "escaped_under_fire" BY <2>2, <2>4
    <3>2. QED BY <1>6, <1>10, <2>4, <3>1 DEF Outcomes, k
  <2>5. CASE ~w.run.paid /\ ~w.run.attacked
    <3>1. k = w.run.intent BY <2>2, <2>5
    <3>2. QED BY <1>3, <1>6, <1>10, <2>5, <3>1 DEF Outcomes, k
  <2>6. QED BY <2>3, <2>4, <2>5
<1>11. QED BY <1>4, <1>7, <1>8, <1>9, <1>10

LEMMA ReportFacts ==
  ASSUME NEW w, NEW b, Flight(w, b), EndKind(w) # ""
  PROVE  LET o == Report(w, EndKind(w)) IN o \in Reports /\ Truthful(o) /\ o.kind = EndKind(w)
<1> DEFINE k == EndKind(w)
           x == RunDepleted(w)
           o == [kind |-> k, attacked |-> w.run.attacked, paid |-> w.run.paid,
                 exhausted |-> x, bounty |-> w.run.killed]
<1>1. w \in Ship /\ w.run \in Run BY FlightTypes
<1>2. w.run.attacked \in BOOLEAN /\ w.run.paid \in BOOLEAN /\ w.run.killed \in BOOLEAN BY <1>1 DEF Run
<1>3. Report(w, k) = o BY DEF Report
<1>40. w.run.ext \in Nat /\ w.rock \in Nat BY <1>1 DEF Run, Ship
<1>4. x \in BOOLEAN BY <1>40, DepletedFacts
<1>5. /\ k \in Outcomes \cup {""}
      /\ w.run.killed <=> k = "pirate_destroyed"
      /\ k = "departed" => x /\ ~w.run.attacked /\ ~w.run.paid
      /\ k = "bailed" => ~x /\ ~w.run.attacked /\ ~w.run.paid
      /\ k = "tribute_paid" => w.run.paid /\ ~w.run.attacked
      /\ k = "escaped_under_fire" => w.run.attacked /\ ~w.run.paid
  BY EndKindFacts
<1> HIDE DEF k, x
<1>6. o \in Reports BY <1>2, <1>4, <1>5 DEF Reports
<1>7. Truthful(o) BY <1>5 DEF Truthful
<1>8. o.kind = k OBVIOUS
<1>9. QED BY <1>3, <1>6, <1>7, <1>8 DEF k

\* What is left of a rock is at most what was not extracted.
LEMMA RemnantFacts ==
  ASSUME NEW w, NEW b, Flight(w, b), NEW kind
  PROVE  RockAfter(w, kind) \in Nat /\ RockAfter(w, kind) <= w.rock - w.run.ext
<1>1. w \in Ship /\ w.run \in Run BY FlightTypes
<1>2. w.rock \in Nat /\ w.run.ext \in Nat BY <1>1 DEF Ship, Run
<1>3. w.rock > 0 /\ w.run.ext <= w.rock BY DEF Flight, Aloft, Ledger
<1> DEFINE left == w.rock - w.run.ext
<1>4. left \in Nat BY <1>2, <1>3
<1>5. Remnant(w) \in Nat /\ Remnant(w) <= left
  <2>1. CASE 5 * left < w.rock BY <1>4, <2>1 DEF Remnant
  <2>2. CASE ~(5 * left < w.rock)
    <3>1. left >= 1 BY <1>2, <1>3, <1>4, <2>2
    <3>2. Remnant(w) = left BY <1>4, <2>2, <3>1 DEF Remnant, High
    <3>3. QED BY <1>4, <3>2
  <2>3. QED BY <2>1, <2>2
<1>6. QED BY <1>4, <1>5 DEF RockAfter

\* The books of the whole trip.
LEMMA OreOfRun ==
  ASSUME NEW w, w.run \in Run
  PROVE  Ore(w) = w.cargo + w.rock + (w.run.held - w.run.ext)
  BY NoRunFacts DEF Ore, InRun

LEMMA OreOfRest ==
  ASSUME NEW w \in Ship, w.run = NoRun
  PROVE  Ore(w) = w.cargo + w.rock
<1>1. w.cargo \in Nat /\ w.rock \in Nat BY CapacityAssumption DEF Ship
<1>2. QED BY <1>1 DEF Ore, InRun

\* A survivor is back in the belt with what it held.
LEMMA KeptFacts ==
  ASSUME NEW w, NEW b, Flight(w, b), NEW kind, w.hull > 0
  PROVE  LET v == Closed(Kept(w, kind))
         IN /\ v \in Ship /\ v.run = NoRun /\ v.hull > 0 /\ WeakShield(v) /\ v.rock <= w.rock
            /\ v.cargo + v.rock <= w.cargo + w.rock + (w.run.held - w.run.ext)
            /\ v.vouchers = w.vouchers /\ v.docked = w.docked
<1> DEFINE ro == RockAfter(w, kind)
           ca == w.cargo + w.run.held
           sc == w.scanned /\ ro > 0
           x == [w EXCEPT !.cargo = ca, !.rock = ro, !.scanned = sc]
           y == BurstRestored(x)
           v == [y EXCEPT !.run = NoRun]
<1>1. w \in Ship /\ w.run \in Run BY FlightTypes
<1>2. w.rock \in Nat /\ w.cargo \in Nat BY <1>1, CapacityAssumption DEF Ship
<1>21. w.run.held \in Nat /\ w.run.ext \in Nat BY <1>1 DEF Run
<1>3. ro \in Nat /\ ro <= w.rock - w.run.ext BY RemnantFacts
<1>4. w.cargo + w.run.held <= Hold BY DEF Flight, Aloft, Ledger
<1>5. ca \in 0 .. Hold BY <1>2, <1>21, <1>4, CapacityAssumption
<1>6. sc \in BOOLEAN OBVIOUS
<1>7. Closed(Kept(w, kind)) = v BY <1>1 DEF Closed, Kept, Ship
<1> HIDE DEF ro
<1>8. ca + ro <= w.cargo + w.rock + (w.run.held - w.run.ext) BY <1>2, <1>21, <1>3
<1> HIDE DEF ca, sc
<1>9. /\ x \in Ship /\ x.cargo = ca /\ x.rock = ro /\ x.hull = w.hull /\ x.vouchers = w.vouchers
      /\ x.docked = w.docked /\ x.shield = w.shield /\ x.burst = w.burst
  BY <1>1, <1>3, <1>5, <1>6 DEF Ship
<1> HIDE DEF x
<1>10. /\ y \in Ship /\ y.cargo = ca /\ y.rock = ro /\ y.hull = w.hull /\ y.vouchers = w.vouchers
       /\ y.docked = w.docked /\ WeakShield(y)
  <2>1. CASE x.burst
    <3>1. y = [x EXCEPT !.shield = BurstReturn] BY <2>1 DEF BurstRestored
    <3> HIDE DEF y
    <3>2. BurstReturn \in 0 .. ShieldMax /\ BurstReturn <= BurstReturn BY CapacityAssumption
    <3>3. /\ y \in Ship /\ y.cargo = x.cargo /\ y.rock = x.rock /\ y.hull = x.hull
          /\ y.vouchers = x.vouchers /\ y.docked = x.docked /\ y.shield = BurstReturn
      BY <1>9, <3>1, <3>2 DEF Ship
    <3>4. QED BY <1>9, <3>2, <3>3 DEF WeakShield
  <2>2. CASE ~x.burst
    <3>1. y = x BY <2>2 DEF BurstRestored
    <3>2. QED BY <1>9, <2>2, <3>1 DEF WeakShield
  <2>3. QED BY <2>1, <2>2
<1> HIDE DEF y
<1>11. /\ v \in Ship /\ v.run = NoRun /\ v.cargo = y.cargo /\ v.rock = y.rock /\ v.hull = y.hull
       /\ v.vouchers = y.vouchers /\ v.docked = y.docked /\ v.shield = y.shield /\ v.burst = y.burst
  BY <1>10 DEF Ship
<1> HIDE DEF v
<1>12. WeakShield(v) BY <1>10, <1>11 DEF WeakShield
<1>13. v.rock <= w.rock BY <1>2, <1>21, <1>3, <1>10, <1>11
<1>14. QED BY <1>7, <1>8, <1>10, <1>11, <1>12, <1>13

LEMMA ServicedFacts ==
  ASSUME NEW w \in Ship
  PROVE  LET v == Serviced(w)
         IN /\ v \in Ship /\ v.docked = TRUE /\ v.rock = 0 /\ v.cargo = w.cargo /\ v.hull = w.hull
            /\ v.vouchers = w.vouchers /\ v.run = w.run /\ v.burst = FALSE
<1> DEFINE v == [w EXCEPT !.docked = TRUE, !.rock = 0, !.scanned = FALSE, !.scan = 0,
                          !.emp = EmpLaunchers, !.jam = JamCharges, !.missiles = Missiles,
                          !.shield = ShieldMax, !.burst = FALSE]
<1>1. Serviced(w) = v BY DEF Serviced
<1>2. /\ EmpLaunchers \in 0 .. EmpLaunchers /\ JamCharges \in 0 .. JamCharges
      /\ Missiles \in 0 .. Missiles /\ ShieldMax \in 0 .. ShieldMax /\ 0 \in 0 .. 1
  BY CapacityAssumption, LoadoutAssumption
<1>3. /\ v \in Ship /\ v.docked = TRUE /\ v.rock = 0 /\ v.cargo = w.cargo /\ v.hull = w.hull
      /\ v.vouchers = w.vouchers /\ v.run = w.run /\ v.burst = FALSE
  BY <1>2 DEF Ship
<1> HIDE DEF v
<1>4. QED BY <1>1, <1>3

\* A pilot without a ship is at the dock, with the vouchers and no ore.
LEMMA RespawnedFacts ==
  ASSUME NEW w \in Ship, NEW u \in Respawned(w)
  PROVE  LET v == Closed(u)
         IN /\ v \in Ship /\ v.run = NoRun /\ v.hull > 0 /\ WeakShield(v) /\ v.rock = 0
            /\ v.cargo = 0 /\ v.vouchers = w.vouchers /\ v.docked = TRUE
<1> DEFINE x == Serviced(w)
<1>1. PICK h \in 1 .. MaxHull, f \in 0 .. Tank : u = Afresh(w, h, f) BY DEF Respawned
<1> DEFINE v == [u EXCEPT !.run = NoRun]
<1>2. /\ x \in Ship /\ x.docked = TRUE /\ x.rock = 0
      /\ x.vouchers = w.vouchers /\ x.burst = FALSE
  BY ServicedFacts
<1>3. h \in 0 .. MaxHull /\ h > 0 /\ 0 \in 0 .. Hold BY CapacityAssumption
<1> HIDE DEF x
<1>4. u = [x EXCEPT !.hull = h, !.fuel = f, !.cargo = 0] BY <1>1 DEF Afresh, x
<1>5. /\ u \in Ship /\ u.docked = TRUE /\ u.rock = 0 /\ u.cargo = 0 /\ u.hull = h
      /\ u.vouchers = w.vouchers /\ u.burst = FALSE
  <2> DEFINE y == [x EXCEPT !.hull = h, !.fuel = f]
  <2>0. y \in Ship BY <1>2, <1>3 DEF Ship
  <2>10. u = [y EXCEPT !.cargo = 0] BY <1>2, <1>4 DEF Ship
  <2> HIDE DEF y
  <2>1. u \in Ship BY <1>3, <2>0, <2>10 DEF Ship
  <2>2. u.docked = x.docked /\ u.rock = x.rock /\ u.cargo = 0 /\ u.hull = h BY <1>2, <1>4 DEF Ship
  <2>3. u.vouchers = x.vouchers /\ u.burst = x.burst BY <1>2, <1>4 DEF Ship
  <2>4. QED BY <1>2, <2>1, <2>2, <2>3
<1>6. /\ v \in Ship /\ v.run = NoRun /\ v.docked = TRUE /\ v.rock = 0 /\ v.cargo = 0 /\ v.hull = h
      /\ v.vouchers = w.vouchers /\ v.burst = FALSE
  BY <1>5 DEF Ship
<1> HIDE DEF v
<1>7. Closed(u) = v BY DEF Closed, v
<1>8. QED BY <1>3, <1>6, <1>7 DEF WeakShield

\* v is where a step that began in b leaves the ship, o what it reports:
\* ore never appears, and a bounty comes with the end of its run.
Step(v, b, o) ==
    /\ Sound(v) /\ Ore(v) <= Ore(b)
    /\ v.vouchers # b.vouchers =>
          v.vouchers = b.vouchers + 1 /\ o.kind = "pirate_destroyed" /\ v.run = NoRun

LEMMA EndingsFacts ==
  ASSUME NEW w, NEW b \in Ship, b.run \in Run, ~b.docked, b.rock <= MaxVolume, b.vouchers < MaxVouchers,
         Flight(w, b), out \in Reports, Truthful(out), NEW e \in Endings(w)
  PROVE  Step(e.state, b, e.report) /\ e.report \in Reports /\ Truthful(e.report)
<1> DEFINE k == EndKind(w)
<1>1. /\ w.run.killed <=> k = "pirate_destroyed"
      /\ k # "ship_lost" => w.hull > 0
  BY EndKindFacts
<1>2. /\ w \in Ship /\ w.run \in Run /\ WeakShield(w) /\ Aloft(w)
  BY DEF Flight, Aloft
<1>3. /\ w.rock = b.rock /\ w.docked = b.docked /\ w.cargo = b.cargo
      /\ w.run.held - w.run.ext = b.run.held - b.run.ext
      /\ w.run.killed => w.vouchers = b.vouchers + 1
      /\ ~w.run.killed => w.vouchers = b.vouchers
  BY DEF Flight, Since
<1>4. /\ Ore(w) = w.cargo + w.rock + (w.run.held - w.run.ext)
      /\ Ore(b) = b.cargo + b.rock + (b.run.held - b.run.ext)
  BY <1>2, OreOfRun
<1>5. /\ w.cargo \in Nat /\ w.rock \in Nat /\ w.run.held \in Nat /\ w.run.ext \in Nat
      /\ b.cargo \in Nat /\ b.rock \in Nat /\ b.run.held \in Nat /\ b.run.ext \in Nat
  <2>1. w.cargo \in Nat /\ w.rock \in Nat /\ b.cargo \in Nat /\ b.rock \in Nat
    BY <1>2, CapacityAssumption DEF Ship
  <2>2. w.run.held \in Nat /\ w.run.ext \in Nat /\ b.run.held \in Nat /\ b.run.ext \in Nat
    BY <1>2 DEF Run
  <2>3. QED BY <2>1, <2>2
<1>6. CASE k = ""
  <2>1. e = [state |-> w, report |-> out] BY <1>6 DEF Endings
  <2>2. e.state = w /\ e.report = out BY <2>1
  <2>3. ~w.run.killed /\ w.hull > 0 BY <1>1, <1>6
  <2>4. Sound(w) BY <1>2, <1>3, <2>3 DEF Sound
  <2>5. Ore(w) = Ore(b) BY <1>3, <1>4
  <2>6. Ore(w) <= Ore(b) BY <1>4, <1>5, <2>5
  <2>7. QED BY <1>3, <2>2, <2>3, <2>4, <2>6 DEF Step
<1>7. CASE k # ""
  <2>1. PICK v \in Resolved(w, k) : e = [state |-> v, report |-> Report(w, k)]
    BY <1>7 DEF Endings
  <2>2. e.state = v /\ e.report = Report(w, k) BY <2>1
  <2>3. e.report \in Reports /\ Truthful(e.report) /\ e.report.kind = k BY <1>7, <2>2, ReportFacts
  <2>4. /\ v \in Ship /\ v.run = NoRun /\ v.hull > 0 /\ WeakShield(v) /\ v.rock <= w.rock
        /\ v.cargo + v.rock <= w.cargo + w.rock + (w.run.held - w.run.ext)
        /\ v.vouchers = w.vouchers
    <3>1. CASE k = "ship_lost"
      <4>1. PICK u \in Respawned(w) : v = Closed(u) BY <2>1, <3>1 DEF Resolved
      <4>2. /\ v \in Ship /\ v.run = NoRun /\ v.hull > 0 /\ WeakShield(v) /\ v.rock = 0
            /\ v.cargo = 0 /\ v.vouchers = w.vouchers
        BY <1>2, <4>1, RespawnedFacts
      <4>3. w.run.ext <= w.rock BY DEF Flight, Aloft, Ledger
      <4>4. QED BY <1>5, <4>2, <4>3
    <3>2. CASE k # "ship_lost"
      <4>1. v = Closed(Kept(w, k)) BY <2>1, <3>2 DEF Resolved
      <4>2. QED BY <1>1, <3>2, <4>1, KeptFacts
    <3>3. QED BY <3>1, <3>2
  <2>5. Ore(v) = v.cargo + v.rock BY <2>4, OreOfRest
  <2>6. v.cargo \in Nat /\ v.rock \in Nat BY <2>4 DEF Ship
  <2>7. Ore(v) <= Ore(b) BY <1>3, <1>4, <1>5, <2>4, <2>5, <2>6
  <2>8. v.rock <= MaxVolume BY <1>3, <1>5, <2>4, <2>6, LargestVolume
  <2>9. Sound(v) BY <2>4, <2>8 DEF Sound
  <2>10. v.vouchers # b.vouchers => v.vouchers = b.vouchers + 1 /\ e.report.kind = "pirate_destroyed"
    BY <1>1, <1>3, <2>3, <2>4
  <2>11. QED BY <2>2, <2>3, <2>4, <2>7, <2>9, <2>10 DEF Step
<1>8. QED BY <1>6, <1>7

\* The scanner, the stores and the notice do not matter.
LEMMA SoundIfSame ==
  ASSUME NEW w, Sound(w), NEW v \in Ship, v.run = w.run, v.docked = w.docked, v.cargo = w.cargo,
         v.rock = w.rock, v.vouchers = w.vouchers, v.hull = w.hull, v.shield = w.shield,
         v.burst = w.burst
  PROVE  Sound(v) /\ Ore(v) = Ore(w)
<1>1. WeakShield(v) BY DEF Sound, WeakShield
<1>2. ASSUME v.run # NoRun PROVE Aloft(v)
  <2>1. Aloft(w) /\ w.run \in Run /\ ~w.run.killed BY <1>2 DEF Sound, Aloft
  <2>2. Ledger(v) BY <2>1 DEF Aloft, Ledger
  <2>3. Course(v) BY <2>1 DEF Aloft, Course
  <2>4. QED BY <1>1, <2>1, <2>2, <2>3 DEF Aloft
<1>3. Sound(v) BY <1>1, <1>2 DEF Sound
<1>4. QED BY <1>3 DEF Ore, InRun

\* Between two ticks the belt recharges the shield and the scanner works.
LEMMA BeltFacts ==
  ASSUME NEW w, Sound(w)
  PROVE  LET v == TickBelt(TickScan(w))
         IN /\ Sound(v) /\ v.run = w.run /\ v.docked = w.docked /\ v.cargo = w.cargo
            /\ v.rock = w.rock /\ v.vouchers = w.vouchers
<1> DEFINE n == w.scan - 1
           seen == w.scanned \/ w.scan = 1
           x == TickScan(w)
<1>1. w \in Ship /\ (w.run # NoRun => Aloft(w)) BY DEF Sound
<1>2. /\ x \in Ship /\ x.run = w.run /\ x.docked = w.docked /\ x.cargo = w.cargo /\ x.rock = w.rock
      /\ x.vouchers = w.vouchers /\ x.hull = w.hull /\ x.shield = w.shield /\ x.burst = w.burst
  <2>1. CASE w.scan = 0
    <3>1. x = w BY <2>1 DEF TickScan
    <3>2. QED BY <1>1, <3>1
  <2>2. CASE w.scan # 0
    <3>1. w.scan \in 0 .. 1 /\ w.scanned \in BOOLEAN BY <1>1 DEF Ship
    <3>2. n \in 0 .. 1 /\ seen \in BOOLEAN BY <2>2, <3>1
    <3>3. x = [w EXCEPT !.scan = n, !.scanned = seen] BY <1>1, <2>2 DEF TickScan, Ship
    <3> HIDE DEF n, seen, x
    <3>4. QED BY <1>1, <3>2, <3>3 DEF Ship
  <2>3. QED BY <2>1, <2>2
<1> HIDE DEF x
<1>3. Sound(x) BY <1>2, SoundIfSame
<1>4. CASE x.docked \/ x.run # NoRun
  <2>1. TickBelt(x) = x BY <1>4 DEF TickBelt, InRun
  <2>2. QED BY <1>2, <1>3, <2>1 DEF x
<1>5. CASE ~x.docked /\ x.run = NoRun
  <2> DEFINE c == ShieldCap(x)
             l == Low(c, x.shield + 1)
             sh == High(x.shield, l)
             v == [x EXCEPT !.shield = sh]
  <2>1. TickBelt(x) = v BY <1>5 DEF TickBelt, InRun
  <2>2. x.shield \in Nat /\ x.shield <= ShieldMax /\ x.burst \in BOOLEAN BY <1>2, CapacityAssumption DEF Ship
  <2>3. /\ c \in Nat /\ c <= ShieldMax /\ (x.burst => c = BurstReturn)
    BY <2>2, CapacityAssumption DEF ShieldCap
  <2>4. x.burst => x.shield <= BurstReturn BY <1>3 DEF Sound, WeakShield
  <2> HIDE DEF c
  <2>5. l \in Nat /\ l <= c BY <2>2, <2>3 DEF Low
  <2> HIDE DEF l
  <2>6. /\ sh \in 0 .. ShieldMax /\ (x.burst => sh <= BurstReturn)
    BY <2>2, <2>3, <2>4, <2>5, CapacityAssumption DEF High
  <2> HIDE DEF sh
  <2>7. /\ v \in Ship /\ v.run = x.run /\ v.docked = x.docked /\ v.cargo = x.cargo /\ v.rock = x.rock
        /\ v.vouchers = x.vouchers /\ v.hull = x.hull /\ v.shield = sh /\ v.burst = x.burst
    BY <1>2, <2>6 DEF Ship
  <2> HIDE DEF v
  <2>8. Sound(v) BY <1>3, <1>5, <2>6, <2>7 DEF Sound, WeakShield
  <2>9. QED BY <1>2, <2>1, <2>7, <2>8 DEF x
<1>6. QED BY <1>4, <1>5

-----------------------------------------------------------------------------
(* What every step owes the next one. *)

LEMMA OreInt ==
  ASSUME NEW w, Sound(w)
  PROVE  Ore(w) \in Int
<1>1. w \in Ship /\ (w.run # NoRun => w.run \in Run) BY DEF Sound, Aloft
<1>2. w.cargo \in Nat /\ w.rock \in Nat BY <1>1, CapacityAssumption DEF Ship
<1>3. CASE w.run = NoRun BY <1>1, <1>2, <1>3, OreOfRest
<1>4. CASE w.run # NoRun
  <2>1. w.run \in Run BY <1>1, <1>4
  <2>2. w.run.held \in Nat /\ w.run.ext \in Nat BY <2>1 DEF Run
  <2>3. QED BY <1>2, <2>1, <2>2, OreOfRun
<1>5. QED BY <1>3, <1>4

Good ==
    /\ IInv'
    /\ Ore(s') > Ore(s) => s.docked /\ ~s'.docked
    /\ s'.vouchers # s.vouchers =>
          \/ s.docked /\ s'.vouchers = 0
          \/ s'.vouchers = s.vouchers + 1 /\ out'.kind = "pirate_destroyed" /\ s'.run = NoRun

LEMMA StepIsGood ==
  ASSUME IInv, Step(s', s, out'), out' \in Reports, Truthful(out'),
         auto' \in 0 .. Budget, auto' > 0 => s'.run # NoRun
  PROVE  Good
<1>1. Sound(s') /\ Ore(s') <= Ore(s) BY DEF Step
<1>2. Sound(s) BY DEF IInv
<1>3. Ore(s) \in Int BY <1>2, OreInt
<1>4. Ore(s') \in Int BY <1>1, OreInt
<1>5. ~(Ore(s') > Ore(s)) BY <1>1, <1>3, <1>4
<1>6. IInv' BY <1>1 DEF IInv, OutcomeTruthful, Truthful, Reports
<1>7. QED BY <1>5, <1>6 DEF Good, Step

LEMMA ReportOfLast ==
  ASSUME IInv
  PROVE  out \in Reports /\ Truthful(out)
  BY DEF IInv, OutcomeTruthful, Truthful, Reports

LEMMA InARun ==
  ASSUME IInv, s.run # NoRun
  PROVE  /\ s \in Ship /\ s.run \in Run /\ Alive(s, s) /\ ~s.docked /\ s.hull > 0
         /\ s.rock <= MaxVolume /\ s.vouchers < MaxVouchers
<1>1. /\ Sound(s) /\ Aloft(s) /\ ~s.run.killed BY DEF IInv, Sound
<1>2. Since(s, s) BY <1>1 DEF Since
<1>3. QED BY <1>1, <1>2 DEF Sound, Aloft, Alive, Flight

LEMMA OfPhase ==
  ASSUME NEW p \in Phases, s.run.phase = p
  PROVE  s.run # NoRun
  BY NoRunFacts DEF Phases

\* A command in a run that does not end it.
LEMMA AliveStep ==
  ASSUME IInv, s.run # NoRun, NEW w, Alive(w, s), w.hull > 0, NEW o
  PROVE  Step(w, s, o) /\ w.run # NoRun
<1>1. /\ s \in Ship /\ s.run \in Run /\ ~s.docked /\ s.rock <= MaxVolume /\ s.vouchers < MaxVouchers
  BY InARun
<1>2. /\ w \in Ship /\ w.run \in Run /\ WeakShield(w) /\ Aloft(w) /\ ~w.run.killed /\ Since(w, s)
  BY DEF Alive, Flight, Aloft
<1>3. /\ w.rock = s.rock /\ w.docked = s.docked /\ w.cargo = s.cargo
      /\ w.run.held - w.run.ext = s.run.held - s.run.ext
      /\ w.vouchers = s.vouchers
  BY <1>2 DEF Since
<1>4. /\ Ore(w) = w.cargo + w.rock + (w.run.held - w.run.ext)
      /\ Ore(s) = s.cargo + s.rock + (s.run.held - s.run.ext)
  BY <1>1, <1>2, OreOfRun
<1>5. Ore(w) = Ore(s) BY <1>3, <1>4
<1>6. Sound(w) BY <1>1, <1>2, <1>3 DEF Sound
<1>7. Ore(w) <= Ore(s) BY <1>5, <1>6, OreInt
<1>8. QED BY <1>2, <1>3, <1>6, <1>7, NoRunFacts DEF Step

LEMMA AliveIsGood ==
  ASSUME IInv, s.run # NoRun, Alive(s', s), s'.hull > 0, out' = out, auto' \in 0 .. Budget
  PROVE  Good
<1>1. Step(s', s, out') /\ s'.run # NoRun BY AliveStep
<1>2. out \in Reports /\ Truthful(out) BY ReportOfLast
<1>3. out' \in Reports /\ Truthful(out') BY <1>2
<1>4. QED BY <1>1, <1>3, StepIsGood

-----------------------------------------------------------------------------
(* The steps. *)

LEMMA TickGood ==
  ASSUME IInv, Tick
  PROVE  Good
<1>1. PICK w \in TickRun : \E e \in Endings(w) :
         s' = TickBelt(TickScan(e.state)) /\ out' = e.report
  BY DEF Tick
<1>2. PICK e \in Endings(w) : s' = TickBelt(TickScan(e.state)) /\ out' = e.report
  BY <1>1
<1>3. s.run # NoRun /\ auto' = auto /\ auto = 0 BY DEF Tick, InRun
<1>4. /\ s \in Ship /\ s.run \in Run /\ Alive(s, s) /\ ~s.docked /\ s.hull > 0
      /\ s.rock <= MaxVolume /\ s.vouchers < MaxVouchers
  BY <1>3, InARun
<1>5. Flight(w, s) BY <1>4, TickRunFlight
<1>6. out \in Reports /\ Truthful(out) BY ReportOfLast
<1>7. Step(e.state, s, e.report) /\ e.report \in Reports /\ Truthful(e.report)
  BY <1>4, <1>5, <1>6, EndingsFacts
<1> DEFINE v == e.state
<1>8. Sound(v) BY <1>7 DEF Step
<1>9. /\ Sound(s') /\ s'.run = v.run /\ s'.docked = v.docked /\ s'.cargo = v.cargo
      /\ s'.rock = v.rock /\ s'.vouchers = v.vouchers
  BY <1>2, <1>8, BeltFacts
<1> HIDE DEF v
<1>10. Ore(s') = Ore(v) BY <1>9 DEF Ore, InRun
<1>11. Step(s', s, out') BY <1>2, <1>7, <1>9, <1>10 DEF Step, v
<1>12. out' \in Reports /\ Truthful(out') BY <1>2, <1>7
<1>13. auto' \in 0 .. Budget /\ ~(auto' > 0) BY <1>3, LoadoutAssumption
<1>14. QED BY <1>11, <1>12, <1>13, StepIsGood

LEMMA BeltTickGood ==
  ASSUME IInv, BeltTick
  PROVE  Good
<1>1. Sound(s) /\ s' = TickBelt(TickScan(s)) /\ out' = out /\ auto' = auto BY DEF IInv, BeltTick
<1>2. /\ Sound(s') /\ s'.run = s.run /\ s'.cargo = s.cargo
      /\ s'.rock = s.rock /\ s'.vouchers = s.vouchers
  BY <1>1, BeltFacts
<1>3. Ore(s') = Ore(s) BY <1>2 DEF Ore, InRun
<1>4. Ore(s') <= Ore(s) BY <1>1, <1>3, OreInt
<1>5. Step(s', s, out') BY <1>2, <1>4 DEF Step
<1>6. out \in Reports /\ Truthful(out) BY ReportOfLast
<1>7. QED BY <1>1, <1>2, <1>5, <1>6, StepIsGood DEF IInv

\* At the dock and in the belt there is no run: what a ship needs there.
LEMMA Moored ==
  ASSUME IInv, s.run = NoRun, s' \in Ship, s'.hull > 0, s'.rock <= MaxVolume, WeakShield(s'),
         s'.run = NoRun, s'.vouchers = s.vouchers, out' = out, auto' = auto,
         s'.cargo + s'.rock <= s.cargo + s.rock \/ (s.docked /\ ~s'.docked)
  PROVE  Good
<1>1. Sound(s) /\ s \in Ship /\ auto = 0
  <2>1. Sound(s) /\ auto \in 0 .. Budget /\ ~(auto > 0) BY DEF IInv
  <2>2. QED BY <2>1, LoadoutAssumption DEF Sound
<1>2. Sound(s') BY DEF Sound
<1>3. Ore(s) = s.cargo + s.rock /\ Ore(s') = s'.cargo + s'.rock BY <1>1, OreOfRest
<1>4. /\ s.cargo \in Nat /\ s.rock \in Nat /\ s'.cargo \in Nat /\ s'.rock \in Nat
  BY <1>1, CapacityAssumption DEF Ship
<1>5. Ore(s') > Ore(s) => s.docked /\ ~s'.docked BY <1>3, <1>4
<1>6. IInv' BY <1>1, <1>2 DEF IInv, OutcomeTruthful
<1>7. QED BY <1>5, <1>6 DEF Good

LEMMA DepartGood ==
  ASSUME IInv, Depart
  PROVE  Good
<1> DEFINE f == High(0, s.fuel - 1)
<1>1. /\ s \in Ship /\ s.docked /\ s.run = NoRun /\ s.hull > 0 /\ WeakShield(s)
  BY DEF Depart, AtDock, IInv, Sound
<1>2. PICK v \in Volumes, seen \in BOOLEAN :
         s' = [ConsumeFuel(s, 1) EXCEPT !.docked = FALSE, !.rock = v, !.scanned = seen]
  BY DEF Depart
<1>3. f \in 0 .. Tank BY <1>1, CapacityAssumption DEF Ship, High
<1>4. ConsumeFuel(s, 1) = [s EXCEPT !.fuel = f] BY <1>1 DEF ConsumeFuel, Ship
<1> HIDE DEF f
<1>5. s' = [s EXCEPT !.fuel = f, !.docked = FALSE, !.rock = v, !.scanned = seen]
  BY <1>1, <1>2, <1>4 DEF Ship
<1>6. v \in Nat /\ v <= MaxVolume BY LargestVolume
<1>7. /\ s' \in Ship /\ s'.docked = FALSE /\ s'.rock = v /\ s'.hull = s.hull /\ s'.run = s.run
      /\ s'.vouchers = s.vouchers /\ s'.shield = s.shield /\ s'.burst = s.burst
  BY <1>1, <1>3, <1>5, <1>6 DEF Ship
<1>8. WeakShield(s') BY <1>1, <1>7 DEF WeakShield
<1>9. out' = out /\ auto' = auto BY DEF Depart
<1>10. QED BY <1>1, <1>6, <1>7, <1>8, <1>9, Moored

LEMMA ScanGood ==
  ASSUME IInv, Scan
  PROVE  Good
<1> DEFINE f == High(0, s.fuel - 1)
<1>1. /\ s \in Ship /\ s.run = NoRun /\ s.hull > 0 /\ WeakShield(s) /\ s.rock <= MaxVolume
  BY DEF Scan, InBelt, InRun, IInv, Sound
<1>2. PICK instant \in BOOLEAN :
         s' = [ConsumeFuel(s, 1) EXCEPT !.scanned = instant, !.scan = IF instant THEN 0 ELSE 1]
  BY DEF Scan
<1> DEFINE n == IF instant THEN 0 ELSE 1
<1>3. f \in 0 .. Tank BY <1>1, CapacityAssumption DEF Ship, High
<1>4. ConsumeFuel(s, 1) = [s EXCEPT !.fuel = f] BY <1>1 DEF ConsumeFuel, Ship
<1>5. n \in 0 .. 1 OBVIOUS
<1> HIDE DEF f
<1>6. s' = [s EXCEPT !.fuel = f, !.scanned = instant, !.scan = n]
  BY <1>1, <1>2, <1>4 DEF Ship
<1> HIDE DEF n
<1>7. /\ s' \in Ship /\ s'.cargo = s.cargo /\ s'.rock = s.rock /\ s'.hull = s.hull /\ s'.run = s.run
      /\ s'.vouchers = s.vouchers /\ s'.shield = s.shield /\ s'.burst = s.burst
  BY <1>1, <1>3, <1>5, <1>6 DEF Ship
<1>8. WeakShield(s') BY <1>1, <1>7 DEF WeakShield
<1>9. out' = out /\ auto' = auto BY DEF Scan
<1>10. s'.cargo + s'.rock <= s.cargo + s.rock BY <1>1, <1>7, CapacityAssumption DEF Ship
<1>11. QED BY <1>1, <1>7, <1>8, <1>9, <1>10, Moored

LEMMA DockGood ==
  ASSUME IInv, Dock
  PROVE  Good
<1> DEFINE x == Serviced(s)
           h == IF s.docked THEN x.hull ELSE Low(MaxHull, x.hull + DockRepair)
<1>1. /\ s \in Ship /\ s.run = NoRun /\ s.hull > 0
  BY DEF Dock, InRun, IInv, Sound
<1>2. s' = [x EXCEPT !.hull = h] BY <1>1, ServicedFacts DEF Dock, Ship
<1>3. /\ x \in Ship /\ x.rock = 0 /\ x.cargo = s.cargo /\ x.hull = s.hull
      /\ x.vouchers = s.vouchers /\ x.run = s.run /\ x.burst = FALSE
  BY <1>1, ServicedFacts
<1> HIDE DEF x
<1>4. h \in 0 .. MaxHull /\ h > 0 BY <1>1, <1>3, CapacityAssumption, LoadoutAssumption DEF Ship, Low
<1> HIDE DEF h
<1>5. /\ s' \in Ship /\ s'.cargo = s.cargo /\ s'.rock = 0 /\ s'.hull = h /\ s'.run = s.run
      /\ s'.vouchers = s.vouchers /\ s'.burst = FALSE
  BY <1>2, <1>3, <1>4 DEF Ship
<1>6. WeakShield(s') BY <1>5 DEF WeakShield
<1>7. out' = out /\ auto' = auto BY DEF Dock
<1>8. /\ s'.cargo + s'.rock <= s.cargo + s.rock /\ s'.rock <= MaxVolume
  BY <1>1, <1>5, CapacityAssumption, LargestVolume DEF Ship
<1>9. QED BY <1>1, <1>4, <1>5, <1>6, <1>7, <1>8, Moored

LEMMA SellCargoGood ==
  ASSUME IInv, SellCargo
  PROVE  Good
<1>1. /\ s \in Ship /\ s.docked /\ s.run = NoRun /\ s.hull > 0 /\ WeakShield(s) /\ s.rock <= MaxVolume
  BY DEF SellCargo, AtDock, IInv, Sound
<1>2. 0 \in 0 .. Hold /\ 0 \in 0 .. MaxVouchers BY CapacityAssumption, LoadoutAssumption
<1>3. s' = [s EXCEPT !.cargo = 0, !.vouchers = 0] BY DEF SellCargo
<1>4. /\ s' \in Ship /\ s'.cargo = 0 /\ s'.rock = s.rock /\ s'.hull = s.hull /\ s'.run = s.run
      /\ s'.vouchers = 0 /\ s'.shield = s.shield /\ s'.burst = s.burst /\ s'.docked = s.docked
  BY <1>1, <1>2, <1>3 DEF Ship
<1>5. WeakShield(s') BY <1>1, <1>4 DEF WeakShield
<1>6. Sound(s') BY <1>1, <1>4, <1>5 DEF Sound
<1>7. Ore(s) = s.cargo + s.rock /\ Ore(s') = s'.cargo + s'.rock BY <1>1, <1>4, OreOfRest
<1>8. ~(Ore(s') > Ore(s)) BY <1>1, <1>4, <1>7, CapacityAssumption DEF Ship
<1>9. out' = out /\ auto' = auto BY DEF SellCargo
<1>10. IInv' BY <1>1, <1>6, <1>9 DEF IInv, OutcomeTruthful
<1>11. QED BY <1>1, <1>4, <1>8, <1>10 DEF Good

\* Refuelling, repairing and the notice touch one field each.
LEMMA FieldGood ==
  ASSUME IInv, s.run = NoRun, out' = out, auto' = auto, s' \in Ship, s'.hull > 0,
         s'.rock = s.rock, s'.cargo = s.cargo, s'.run = s.run, s'.vouchers = s.vouchers,
         s'.shield = s.shield, s'.burst = s.burst
  PROVE  Good
<1>1. s \in Ship /\ WeakShield(s) /\ s.rock <= MaxVolume BY DEF IInv, Sound
<1>2. WeakShield(s') BY <1>1 DEF WeakShield
<1>3. s'.cargo + s'.rock <= s.cargo + s.rock BY <1>1, CapacityAssumption DEF Ship
<1>4. QED BY <1>1, <1>2, <1>3, Moored

LEMMA RefuelGood ==
  ASSUME IInv, Refuel
  PROVE  Good
<1>1. s \in Ship /\ s.run = NoRun /\ s.hull > 0 BY DEF Refuel, AtDock, IInv, Sound
<1>2. PICK f \in s.fuel + 1 .. Tank : s' = [s EXCEPT !.fuel = f] BY DEF Refuel
<1>3. f \in 0 .. Tank BY <1>1, CapacityAssumption DEF Ship
<1>4. /\ s' \in Ship /\ s'.hull = s.hull /\ s'.rock = s.rock /\ s'.cargo = s.cargo /\ s'.run = s.run
      /\ s'.vouchers = s.vouchers /\ s'.shield = s.shield /\ s'.burst = s.burst
  BY <1>1, <1>2, <1>3 DEF Ship
<1>5. QED BY <1>1, <1>4, FieldGood DEF Refuel

LEMMA RepairGood ==
  ASSUME IInv, Repair
  PROVE  Good
<1>1. s \in Ship /\ s.run = NoRun /\ s' = [s EXCEPT !.hull = MaxHull] BY DEF Repair, AtDock, IInv, Sound
<1>2. MaxHull \in 0 .. MaxHull /\ MaxHull > 0 BY CapacityAssumption
<1>3. /\ s' \in Ship /\ s'.hull = MaxHull /\ s'.rock = s.rock /\ s'.cargo = s.cargo /\ s'.run = s.run
      /\ s'.vouchers = s.vouchers /\ s'.shield = s.shield /\ s'.burst = s.burst
  BY <1>1, <1>2 DEF Ship
<1>4. QED BY <1>1, <1>2, <1>3, FieldGood DEF Repair

LEMMA NoticeFacts ==
  ASSUME NEW w, Sound(w), NEW n \in BOOLEAN
  PROVE  LET v == [w EXCEPT !.notice = n]
         IN Sound(v) /\ Ore(v) = Ore(w) /\ v.vouchers = w.vouchers /\ v.run = w.run
<1> DEFINE v == [w EXCEPT !.notice = n]
<1>1. w \in Ship BY DEF Sound
<1>2. /\ v \in Ship /\ v.run = w.run /\ v.docked = w.docked /\ v.cargo = w.cargo /\ v.rock = w.rock
      /\ v.vouchers = w.vouchers /\ v.hull = w.hull /\ v.shield = w.shield /\ v.burst = w.burst
  BY <1>1 DEF Ship
<1> HIDE DEF v
<1>3. Sound(v) /\ Ore(v) = Ore(w) BY <1>2, SoundIfSame
<1>4. QED BY <1>2, <1>3 DEF v

LEMMA AckGood ==
  ASSUME IInv, AckDisconnectNotice
  PROVE  Good
<1>1. Sound(s) /\ s' = [s EXCEPT !.notice = FALSE] /\ out' = out /\ auto' = auto /\ auto = 0
  BY DEF IInv, AckDisconnectNotice
<1>2. Sound(s') /\ Ore(s') = Ore(s) /\ s'.vouchers = s.vouchers BY <1>1, NoticeFacts
<1>3. Ore(s') <= Ore(s) BY <1>1, <1>2, OreInt
<1>4. Step(s', s, out') BY <1>2, <1>3 DEF Step
<1>5. out \in Reports /\ Truthful(out) BY ReportOfLast
<1>6. auto' \in 0 .. Budget /\ ~(auto' > 0) BY <1>1, LoadoutAssumption
<1>7. QED BY <1>1, <1>4, <1>5, <1>6, StepIsGood

LEMMA NewRunTyped ==
  ASSUME NEW d \in Nat, NEW j \in 0 .. JamTicks, NEW vein \in BOOLEAN
  PROVE  NewRun(d, j, vein) \in Run
<1>1. /\ 0 \in 0 .. EmpTicks /\ StableTicks \in 0 .. StableTicks /\ Points \in 0 .. Points
      /\ 0 \in 0 .. PirateHull
  BY LoadoutAssumption
<1>2. /\ 0 \in 0 .. CooldownTicks /\ 0 \in 0 .. MaxShifts /\ 0 \in 0 .. SkillWindow
      /\ 0 \in 0 .. TributeTicks
  BY DEF CooldownTicks, MaxShifts, SkillWindow, TributeTicks
<1>3. "mining" \in Phases BY DEF Phases
<1>4. QED BY <1>1, <1>2, <1>3 DEF NewRun, Run

LEMMA LockGood ==
  ASSUME IInv, Lock
  PROVE  Good
<1>1. /\ Sound(s) /\ s \in Ship /\ s.run = NoRun /\ s.hull > 0 /\ WeakShield(s) /\ s.rock <= MaxVolume
      /\ ~s.docked /\ s.rock > 0 /\ s.vouchers < MaxVouchers /\ auto = 0
  BY DEF Lock, InBelt, InRun, IInv, Sound
<1>2. PICK dist \in Starts, vein \in {FALSE, FuelMiner > 0} :
         s' = [s EXCEPT !.jam = High(0, @ - 1),
                        !.run = NewRun(dist, IF s.jam > 0 THEN JamTicks ELSE 0, vein)]
  BY DEF Lock
<1> DEFINE j == High(0, s.jam - 1)
           t == IF s.jam > 0 THEN JamTicks ELSE 0
           r == NewRun(dist, t, vein)
<1>3. j \in 0 .. JamCharges BY <1>1, LoadoutAssumption DEF Ship, High
<1>4. t \in 0 .. JamTicks BY LoadoutAssumption
<1>5. dist \in Nat /\ vein \in BOOLEAN
  <2>1. dist \in Nat BY CapacityAssumption
  <2>2. CASE vein = FALSE BY <2>1, <2>2
  <2>3. CASE vein = (FuelMiner > 0)
    <3>1. (FuelMiner > 0) \in BOOLEAN BY LoadoutAssumption
    <3>2. QED BY <2>1, <2>3, <3>1, Zenon
  <2>4. QED BY <2>2, <2>3
<1>6. s' = [s EXCEPT !.jam = j, !.run = r] BY <1>1, <1>2 DEF Ship
<1> HIDE DEF j, t
<1>7. r \in Run BY <1>4, <1>5, NewRunTyped
<1>8. /\ r.phase = "mining" /\ r.ext = 0 /\ r.held = 0 /\ r.paid = FALSE /\ r.attacked = FALSE
      /\ r.burn = FALSE /\ r.killed = FALSE /\ r.intent = "" /\ r.points = Points /\ r.check = 0
  BY DEF NewRun
<1> HIDE DEF r
<1>9. /\ s' \in Ship /\ s'.run = r /\ s'.cargo = s.cargo /\ s'.rock = s.rock /\ s'.hull = s.hull
      /\ s'.vouchers = s.vouchers /\ s'.shield = s.shield /\ s'.burst = s.burst /\ s'.docked = s.docked
  BY <1>1, <1>3, <1>6, <1>7 DEF Ship
<1>10. WeakShield(s') BY <1>1, <1>9 DEF WeakShield
<1>11. s.cargo \in Nat /\ s.cargo <= Hold /\ s.rock \in Nat /\ Points \in Nat
  BY <1>1, CapacityAssumption, LoadoutAssumption DEF Ship
<1>12. Ledger(s')
  <2>1. /\ s'.run.ext = 0 /\ s'.run.held = 0 /\ s'.run.paid = FALSE /\ s'.run.points = Points
        /\ s'.run.check = 0
    BY <1>8, <1>9
  <2>2. s'.rock > 0 /\ s'.rock \in Nat /\ s'.cargo \in Nat /\ s'.cargo <= Hold BY <1>1, <1>9, <1>11
  <2>3. Hold \in Nat BY CapacityAssumption
  <2>4. QED BY <1>11, <2>1, <2>2, <2>3 DEF Ledger
<1>13. Course(s') BY <1>8, <1>9 DEF Course
<1>14. Aloft(s') BY <1>7, <1>8, <1>9, <1>10, <1>12, <1>13 DEF Aloft
<1>15. Sound(s') BY <1>1, <1>8, <1>9, <1>10, <1>14 DEF Sound
<1>16. Ore(s) = s.cargo + s.rock /\ Ore(s') = s'.cargo + s'.rock + (s'.run.held - s'.run.ext)
  BY <1>1, <1>7, <1>9, OreOfRest, OreOfRun
<1>17. Ore(s') <= Ore(s)
  <2>1. s'.run.held = 0 /\ s'.run.ext = 0 /\ s'.cargo = s.cargo /\ s'.rock = s.rock BY <1>8, <1>9
  <2>2. QED BY <1>11, <1>16, <2>1
<1>18. Step(s', s, out') BY <1>9, <1>15, <1>17 DEF Step
<1>19. out \in Reports /\ Truthful(out) BY ReportOfLast
<1>20. out' = out /\ auto' = auto BY DEF Lock
<1>21. auto' \in 0 .. Budget /\ ~(auto' > 0) BY <1>1, <1>20, LoadoutAssumption
<1>22. QED BY <1>18, <1>19, <1>20, <1>21, StepIsGood

\* The two ways a calm run is left for the burn or the fight.
LEMMA EscapeAlive ==
  ASSUME IInv, s.run # NoRun, s.run.phase \in {"mining", "tribute"}
  PROVE  Alive(StartEscape(s), s) /\ StartEscape(s).hull > 0
<1>1. Alive(s, s) /\ s.hull > 0 BY InARun
<1>2. Flight(s, s) /\ ~s.run.killed BY <1>1 DEF Alive
<1>3. Untouched(s) BY <1>2, CalmPhases
<1> DEFINE v == StartEscape(s)
<1>4. Aloft(v) /\ SameHull(v, s) /\ SameOre(v.run, s.run) BY <1>3, StartEscapeFacts
<1> HIDE DEF v
<1>5. Flight(v, s) BY <1>2, <1>4, SinceSame
<1>6. QED BY <1>1, <1>2, <1>4, <1>5 DEF Alive, SameHull, SameOre, v

LEMMA CombatAlive ==
  ASSUME IInv, s.run # NoRun, s.run.phase \in {"mining", "tribute"}, NEW e \in BOOLEAN
  PROVE  Alive(StartCombat(s, e), s) /\ StartCombat(s, e).hull > 0
<1>1. Alive(s, s) /\ s.hull > 0 BY InARun
<1>2. Flight(s, s) /\ ~s.run.killed BY <1>1 DEF Alive
<1>3. Untouched(s) /\ ~s.run.paid BY <1>2, CalmPhases
<1>4. SameHull(StartCombat(s, e), s) BY <1>3, StartCombatFacts
<1>5. Flight(StartCombat(s, e), s) /\ ~StartCombat(s, e).run.killed BY <1>2, StartCombatFlight
<1>6. QED BY <1>1, <1>4, <1>5 DEF Alive, SameHull

\* In a fight the burn is started once, from zero.
LEMMA BurnAlive ==
  ASSUME IInv, s.run.phase = "combat"
  PROVE  LET v == [ConfigureEscape(s) EXCEPT !.run.burn = TRUE] IN Alive(v, s) /\ v.hull > 0
<1>0. s.run # NoRun BY NoRunFacts
<1>1. s \in Ship /\ s.run \in Run /\ Alive(s, s) /\ s.hull > 0 BY <1>0, InARun
<1>2. Flight(s, s) /\ ~s.run.killed /\ Aloft(s) BY <1>1 DEF Alive, Flight
<1> DEFINE x == ConfigureEscape(s)
           r == [x.run EXCEPT !.burn = TRUE]
           v == [x EXCEPT !.run = r]
<1>3. /\ x \in Ship /\ x.run \in Run /\ SameHull(x, s) /\ SameOre(x.run, s.run)
      /\ x.run.phase = s.run.phase /\ x.run.attacked = s.run.attacked
      /\ s.run.intent # "" => x.run.intent = s.run.intent
      /\ s.run.intent = "" /\ s.run.ext >= s.rock => x.run.intent = "departed"
      /\ s.run.intent = "" /\ ~(s.run.ext >= s.rock) => x.run.intent = "bailed"
  BY <1>1, ConfigureEscapeFacts
<1> HIDE DEF x
<1>4. /\ r \in Run /\ r.burn = TRUE /\ r.phase = x.run.phase /\ r.attacked = x.run.attacked
      /\ r.intent = x.run.intent /\ SameOre(r, x.run)
  BY <1>3 DEF Run, SameOre
<1>5. [x EXCEPT !.run.burn = TRUE] = v BY <1>3 DEF Ship, Run
<1> HIDE DEF r
<1>6. v \in Ship /\ v.run = r /\ SameHull(v, x) BY <1>3, <1>4, SwapRun
<1> HIDE DEF v
<1>7. SameHull(v, s) BY <1>3, <1>6 DEF SameHull
<1>8. SameOre(v.run, s.run) BY <1>3, <1>4, <1>6 DEF SameOre
<1>9. Ledger(v) BY <1>2, <1>7, <1>8 DEF Aloft, Ledger, SameHull, SameOre
<1>10. WeakShield(v) BY <1>2, <1>7 DEF Aloft, WeakShield, SameHull
<1>11. s.run.ext \in Nat /\ s.rock \in Nat BY <1>1 DEF Run, Ship
<1>12. ~(s.run.ext >= s.rock) => s.run.ext < s.rock BY <1>11
<1>12a. Course(v)
  <2>1. v.run.phase = "combat" /\ v.run.intent = x.run.intent BY <1>3, <1>4, <1>6
  <2>2. v.run.ext = s.run.ext /\ v.rock = s.rock /\ v.run.paid = s.run.paid
    BY <1>7, <1>8 DEF SameHull, SameOre
  <2>3. ~s.run.paid BY <1>2 DEF Aloft, Course
  <2>4. /\ s.run.intent = "departed" => s.run.ext >= s.rock
        /\ s.run.intent = "bailed" => s.run.ext < s.rock
    BY <1>2 DEF Aloft, Course
  <2>5. /\ x.run.intent = "departed" => s.run.ext >= s.rock
        /\ x.run.intent = "bailed" => s.run.ext < s.rock
    <3>1. CASE s.run.intent # "" BY <1>3, <2>4, <3>1
    <3>2. CASE s.run.intent = "" /\ s.run.ext >= s.rock BY <1>3, <3>2
    <3>3. CASE s.run.intent = "" /\ ~(s.run.ext >= s.rock)
      <4>1. x.run.intent = "bailed" BY <1>3, <3>3
      <4>2. s.run.ext < s.rock BY <1>12, <3>3
      <4>3. QED BY <4>1, <4>2
    <3>4. QED BY <3>1, <3>2, <3>3
  <2>6. QED BY <2>1, <2>2, <2>3, <2>5 DEF Course
<1>13. v.run \in Run /\ ~v.run.killed /\ v.hull > 0 BY <1>1, <1>2, <1>4, <1>6, <1>7, <1>8 DEF SameHull, SameOre
<1>14. Aloft(v) BY <1>6, <1>9, <1>10, <1>12a, <1>13 DEF Aloft
<1>15. Flight(v, s) BY <1>2, <1>7, <1>8, <1>14, SinceSame
<1>16. QED BY <1>5, <1>13, <1>15 DEF Alive, x

LEMMA BailOrDepartGood ==
  ASSUME IInv, BailOrDepart
  PROVE  Good
<1>1. s.run.phase = "mining" /\ s' = StartEscape(s) /\ out' = out /\ auto' = auto
  BY DEF BailOrDepart, InPhase
<1>2. s.run # NoRun BY <1>1, NoRunFacts
<1>3. Alive(s', s) /\ s'.hull > 0 BY <1>1, <1>2, EscapeAlive
<1>4. QED BY <1>1, <1>2, <1>3, AliveIsGood DEF IInv

LEMMA RefuseTributeGood ==
  ASSUME IInv, RefuseTribute
  PROVE  Good
<1>1. s.run.phase = "tribute" /\ s' = StartCombat(s, TRUE) /\ out' = out /\ auto' = auto
  BY DEF RefuseTribute, InPhase, Refused
<1>2. s.run # NoRun BY <1>1, NoRunFacts
<1>3. Alive(s', s) /\ s'.hull > 0 BY <1>1, <1>2, CombatAlive
<1>4. QED BY <1>1, <1>2, <1>3, AliveIsGood DEF IInv

LEMMA FightPiratesGood ==
  ASSUME IInv, FightPirates
  PROVE  Good
<1>1. s.run.phase = "tribute" /\ s' = StartCombat(s, FALSE) /\ out' = out /\ auto' = auto
  BY DEF FightPirates, InPhase
<1>2. s.run # NoRun BY <1>1, NoRunFacts
<1>3. Alive(s', s) /\ s'.hull > 0 BY <1>1, <1>2, CombatAlive
<1>4. QED BY <1>1, <1>2, <1>3, AliveIsGood DEF IInv

LEMMA CombatEscapeGood ==
  ASSUME IInv, CombatEscape
  PROVE  Good
<1>1. /\ s.run.phase = "combat" /\ s' = [ConfigureEscape(s) EXCEPT !.run.burn = TRUE]
      /\ out' = out /\ auto' = auto
  BY DEF CombatEscape, InPhase
<1>2. s.run # NoRun BY <1>1, NoRunFacts
<1>3. Alive(s', s) /\ s'.hull > 0 BY <1>1, BurnAlive
<1>4. QED BY <1>1, <1>2, <1>3, AliveIsGood DEF IInv

LEMMA AttemptSkillCheckGood ==
  ASSUME IInv, AttemptSkillCheck
  PROVE  Good
<1> DEFINE n == (Extractable(s) * 18 + 99) \div 100
           r == [s.run EXCEPT !.check = 0, !.ext = s.run.ext + n, !.held = s.run.held + n]
           v == [s EXCEPT !.run = r, !.fuel = s.fuel]
<1>1. /\ s.run.phase = "mining" /\ out' = out /\ auto' = auto
      /\ s' = [s EXCEPT !.run.check = 0, !.run.ext = @ + n, !.run.held = @ + n]
  BY DEF AttemptSkillCheck, InPhase
<1>2. s.run # NoRun BY <1>1, NoRunFacts
<1>3. s \in Ship /\ s.run \in Run /\ Alive(s, s) /\ s.hull > 0 BY <1>2, InARun
<1>4. Flight(s, s) /\ ~s.run.killed BY <1>3 DEF Alive
<1>5. Extractable(s) \in Nat BY <1>4, ExtractableFacts
<1>6. n \in Nat /\ n <= Extractable(s) BY <1>5
<1> HIDE DEF n
<1>7. s' = v BY <1>1, <1>3 DEF Ship, Run
<1>8. s.fuel \in 0 .. Tank BY <1>3 DEF Ship
<1>9. Still(v, s, s) BY <1>1, <1>4, <1>6, <1>8, OreFlight
<1>10. s'.hull = s.hull BY <1>3, <1>7 DEF Ship
<1>11. Alive(s', s) BY <1>7, <1>9 DEF Still, Alive
<1>12. QED BY <1>1, <1>2, <1>3, <1>10, <1>11, AliveIsGood DEF IInv

-----------------------------------------------------------------------------
(* The tribute. *)

LEMMA DemandFacts ==
  ASSUME NEW t \in Nat
  PROVE  Rounded(t * 45, 100) \in Nat /\ Rounded(t * 45, 100) <= t
<1> DEFINE n == 2 * (t * 45) + 100
<1>1. n \div (2 * 100) \in Nat /\ n \div (2 * 100) <= t OBVIOUS
<1>2. QED BY <1>1 DEF Rounded

LEMMA ShareFacts ==
  ASSUME NEW demand \in Nat, NEW portion \in Nat, NEW total \in Nat
  PROVE  LET x == ProportionalCargoLoss(demand, portion, total)
         IN x \in Nat /\ x <= demand /\ x <= portion
<1> DEFINE p == demand * portion
           q == Rounded(p, total)
<1>1. CASE total = 0
  <2>1. ProportionalCargoLoss(demand, portion, total) = 0 BY <1>1 DEF ProportionalCargoLoss
  <2>2. QED BY <2>1
<1>2. CASE total # 0
  <2>1. p \in Nat BY MulNat
  <2> HIDE DEF p
  <2>2. 2 * p + total \in Nat /\ 2 * total \in Nat \ {0} BY <1>2, <2>1
  <2>3. q \in Nat BY <2>2, DivNat DEF Rounded
  <2>4. ProportionalCargoLoss(demand, portion, total) = Low(q, Low(demand, portion))
    BY <1>2 DEF ProportionalCargoLoss, p, q
  <2> HIDE DEF q
  <2>5. QED BY <2>3, <2>4 DEF Low
<1>3. QED BY <1>1, <1>2

\* What the pirates take is there, and it is taken from the hold and the run.
LEMMA PaidFacts ==
  ASSUME IInv, s.run # NoRun, s.run.phase = "tribute"
  PROVE  LET v == Paid(s)
         IN /\ Untouched(v) /\ v.hull = s.hull /\ v.rock = s.rock /\ v.docked = s.docked
            /\ v.vouchers = s.vouchers /\ v.run.ext = s.run.ext
            /\ v.cargo + v.run.held <= s.cargo + s.run.held
<1> DEFINE total == s.cargo + s.run.held
           demand == Rounded(total * 45, 100)
           share == ProportionalCargoLoss(demand, s.cargo, total)
           fromRun == Low(demand - share, s.run.held)
           ca == s.cargo - (demand - fromRun)
           he == s.run.held - fromRun
           r == [s.run EXCEPT !.held = he, !.paid = TRUE]
           v == [s EXCEPT !.cargo = ca, !.run = r]
<1>1. s \in Ship /\ s.run \in Run /\ Alive(s, s) BY InARun
<1>2. Flight(s, s) /\ ~s.run.killed /\ Aloft(s) BY <1>1 DEF Alive, Flight
<1>3. Untouched(s) /\ ~s.run.paid BY <1>2, CalmPhases
<1>4. s.cargo \in Nat /\ s.run.held \in Nat /\ s.run.ext \in Nat /\ Hold \in Nat
  <2>1. s.cargo \in Nat /\ Hold \in Nat BY <1>1, CapacityAssumption DEF Ship
  <2>2. s.run.held \in Nat /\ s.run.ext \in Nat BY <1>1 DEF Run
  <2>3. QED BY <2>1, <2>2
<1>5. total \in Nat BY <1>4
<1>6. Paid(s) = v
  <2> DEFINE d == demand - fromRun
  <2>1. Paid(s) = [s EXCEPT !.cargo = @ - d, !.run.held = @ - fromRun, !.run.paid = TRUE]
    BY Zenon DEF Paid
  <2> HIDE DEF d, fromRun
  <2>2. [s EXCEPT !.cargo = @ - d, !.run.held = @ - fromRun, !.run.paid = TRUE]
            = [s EXCEPT !.cargo = s.cargo - d,
                        !.run = [s.run EXCEPT !.held = s.run.held - fromRun, !.paid = TRUE]]
    BY <1>1 DEF Ship, Run
  <2>3. QED BY <2>1, <2>2 DEF d
<1>7. demand \in Nat /\ demand <= total
  <2> HIDE DEF total
  <2>1. QED BY <1>5, DemandFacts
<1>8. share \in Nat /\ share <= demand /\ share <= s.cargo
  <2> HIDE DEF total, demand
  <2>1. QED BY <1>4, <1>5, <1>7, ShareFacts
<1> HIDE DEF share, demand
<1>9. fromRun \in Nat /\ fromRun <= s.run.held /\ fromRun <= demand /\ demand - fromRun <= s.cargo
  BY <1>4, <1>7, <1>8 DEF Low
<1> HIDE DEF fromRun, total
<1>10. ca \in Nat /\ ca <= s.cargo /\ he \in Nat /\ he <= s.run.held BY <1>4, <1>7, <1>9
<1> HIDE DEF ca, he
<1>11. s.cargo + s.run.held <= Hold /\ s.run.held = s.run.ext BY <1>2, <1>3 DEF Aloft, Ledger
<1>12. ca \in 0 .. Hold /\ ca + he <= Hold /\ he <= s.run.ext /\ ca + he <= s.cargo + s.run.held
  BY <1>4, <1>10, <1>11
<1>13. /\ r \in Run /\ r.held = he /\ r.paid = TRUE /\ r.ext = s.run.ext /\ r.attacked = s.run.attacked
       /\ r.burn = s.run.burn /\ r.killed = s.run.killed /\ r.intent = s.run.intent
       /\ r.points = s.run.points /\ r.check = s.run.check
  BY <1>1, <1>10 DEF Run
<1> HIDE DEF r
<1>14. /\ v \in Ship /\ v.run = r /\ v.cargo = ca /\ v.hull = s.hull /\ v.rock = s.rock
       /\ v.docked = s.docked /\ v.vouchers = s.vouchers /\ v.shield = s.shield /\ v.burst = s.burst
  BY <1>1, <1>12, <1>13 DEF Ship
<1> HIDE DEF v
<1>15. Ledger(v)
  <2>1. s.rock > 0 /\ s.run.ext <= s.rock /\ s.run.points + s.run.check <= Points
    BY <1>2 DEF Aloft, Ledger
  <2>2. QED BY <1>12, <1>13, <1>14, <2>1 DEF Ledger
<1>16. WeakShield(v) BY <1>2, <1>14 DEF Aloft, WeakShield
<1>17. Untouched(v) BY <1>3, <1>13, <1>14, <1>15, <1>16 DEF Untouched
<1>18. QED BY <1>6, <1>12, <1>13, <1>14, <1>17

LEMMA AcceptTributeGood ==
  ASSUME IInv, AcceptTribute
  PROVE  Good
<1> DEFINE p == Paid(s)
<1>1. s.run.phase = "tribute" /\ s' = StartEscape(p) /\ out' = out /\ auto' = auto
  BY DEF AcceptTribute, InPhase
<1>2. s.run # NoRun BY <1>1, NoRunFacts
<1>3. /\ s \in Ship /\ s.run \in Run /\ ~s.docked /\ s.hull > 0
      /\ s.rock <= MaxVolume /\ s.vouchers < MaxVouchers
  BY <1>2, InARun
<1>4. /\ Untouched(p) /\ p.hull = s.hull /\ p.rock = s.rock /\ p.docked = s.docked
      /\ p.vouchers = s.vouchers /\ p.run.ext = s.run.ext
      /\ p.cargo + p.run.held <= s.cargo + s.run.held
  BY <1>1, <1>2, PaidFacts
<1> HIDE DEF p
<1>5. Aloft(s') /\ SameHull(s', p) /\ SameOre(s'.run, p.run) BY <1>1, <1>4, StartEscapeFacts
<1>6. /\ s'.hull = s.hull /\ s'.rock = s.rock /\ s'.docked = s.docked /\ s'.vouchers = s.vouchers
      /\ s'.run.ext = s.run.ext /\ s'.run.held = p.run.held /\ s'.cargo = p.cargo /\ ~s'.run.killed
  BY <1>4, <1>5 DEF SameHull, SameOre, Untouched
<1>7. s' \in Ship /\ s'.run \in Run /\ WeakShield(s') BY <1>5 DEF Aloft
<1>8. Sound(s') BY <1>3, <1>5, <1>6, <1>7 DEF Sound
<1>9. /\ Ore(s) = s.cargo + s.rock + (s.run.held - s.run.ext)
      /\ Ore(s') = s'.cargo + s'.rock + (s'.run.held - s'.run.ext)
  BY <1>3, <1>7, OreOfRun
<1>10. /\ s.cargo \in Nat /\ s'.cargo \in Nat /\ s.rock \in Nat
  BY <1>3, <1>7, CapacityAssumption DEF Ship
<1>11. s.run.held \in Nat /\ s.run.ext \in Nat /\ s'.run.held \in Nat BY <1>3, <1>7 DEF Run
<1>12. s'.cargo + s'.run.held <= s.cargo + s.run.held BY <1>4, <1>6
<1>13. Ore(s') <= Ore(s) BY <1>6, <1>9, <1>10, <1>11, <1>12
<1>14. Step(s', s, out') BY <1>6, <1>8, <1>13 DEF Step
<1>15. out \in Reports /\ Truthful(out) BY ReportOfLast
<1>16. s'.run # NoRun BY <1>7, NoRunFacts
<1>17. QED BY <1>1, <1>14, <1>15, <1>16, StepIsGood DEF IInv

-----------------------------------------------------------------------------
(* The pilot's guns. *)

LEMMA VolleyGood ==
  ASSUME IInv, s.run # NoRun, NEW w, Flight(w, s), w.hull > 0, Volley(w), auto = 0, auto' = auto
  PROVE  Good
<1>1. /\ s \in Ship /\ s.run \in Run /\ ~s.docked /\ s.rock <= MaxVolume /\ s.vouchers < MaxVouchers
  BY InARun
<1>2. out \in Reports /\ Truthful(out) BY ReportOfLast
<1>3. auto' \in 0 .. Budget /\ ~(auto' > 0) BY LoadoutAssumption
<1>4. CASE w.run.killed
  <2>1. PICK e \in Endings(w) : s' = e.state /\ out' = e.report BY <1>4 DEF Volley
  <2>2. Step(e.state, s, e.report) /\ e.report \in Reports /\ Truthful(e.report)
    BY <1>1, <1>2, EndingsFacts
  <2>3. QED BY <1>3, <2>1, <2>2, StepIsGood
<1>5. CASE ~w.run.killed
  <2>1. PICK e \in {[state |-> w, report |-> out]} : s' = e.state /\ out' = e.report
    BY <1>5 DEF Volley
  <2>2. s' = w /\ out' = out BY <2>1
  <2>3. Alive(s', s) /\ s'.hull > 0 BY <1>5, <2>2 DEF Alive
  <2>4. QED BY <1>3, <2>2, <2>3, AliveIsGood
<1>6. QED BY <1>4, <1>5

LEMMA StrikeFlight ==
  ASSUME NEW w, NEW b, Alive(w, b), w.hull > 0, b.vouchers < MaxVouchers, NEW n \in Nat
  PROVE  Flight(Strike(w, n), b) /\ Strike(w, n).hull > 0
<1> DEFINE f == High(0, w.run.foe - n)
           r == [w.run EXCEPT !.foe = f]
           v == [w EXCEPT !.run = r]
<1>1. Flight(w, b) /\ ~w.run.killed BY DEF Alive
<1>2. w \in Ship /\ w.run \in Run /\ w.run.points + w.run.check <= Points BY <1>1, FlightTypes
<1>3. f \in 0 .. PirateHull
  <2>1. w.run.foe \in 0 .. PirateHull BY <1>2 DEF Run
  <2>2. QED BY <2>1, LoadoutAssumption DEF High
<1>4. [w EXCEPT !.run.foe = High(0, @ - n)] = v BY <1>2 DEF Ship, Run
<1> HIDE DEF f
<1>5. r \in Run /\ Alike(r, w.run) /\ r.points = w.run.points /\ r.check = w.run.check
  BY <1>2, <1>3 DEF Run, Alike
<1> HIDE DEF r
<1>6. Flight(v, b) /\ v.run = r BY <1>1, <1>2, <1>5, RunChange
<1>7. v.hull = w.hull BY <1>2 DEF Ship
<1> HIDE DEF v
<1>8. Alive(v, b) /\ v.hull > 0 BY <1>1, <1>5, <1>6, <1>7 DEF Alive, Alike
<1>9. CASE v.run.foe > 0
  <2>1. Strike(w, n) = v BY <1>4, <1>9 DEF Strike
  <2>2. QED BY <1>6, <1>8, <2>1
<1>10. CASE ~(v.run.foe > 0)
  <2>1. Strike(w, n) = Won(v) BY <1>4, <1>10 DEF Strike
  <2>2. Flight(Won(v), b) /\ Won(v).run.killed BY <1>8, WonFlight
  <2>3. Won(v).hull > 0 BY <2>2 DEF Flight, Aloft
  <2>4. QED BY <2>1, <2>2, <2>3
<1>11. QED BY <1>9, <1>10

LEMMA FirePulseLasersGood ==
  ASSUME IInv, FirePulseLasers
  PROVE  Good
<1>1. s.run.phase = "combat" /\ auto = 0 /\ auto' = auto BY DEF FirePulseLasers, InPhase
<1>2. PICK hot \in BOOLEAN :
         LET fired == [s EXCEPT !.run.locked = hot] IN Volley(fired) \/ Volley(Strike(fired, LaserHit))
  BY DEF FirePulseLasers
<1> DEFINE r == [s.run EXCEPT !.locked = hot]
           v == [s EXCEPT !.run = r]
<1>3. s.run # NoRun BY <1>1, NoRunFacts
<1>4. s \in Ship /\ s.run \in Run /\ Alive(s, s) /\ s.hull > 0 /\ s.vouchers < MaxVouchers BY <1>3, InARun
<1>5. Flight(s, s) /\ ~s.run.killed /\ s.run.points + s.run.check <= Points BY <1>4, FlightTypes DEF Alive
<1>6. [s EXCEPT !.run.locked = hot] = v BY <1>4 DEF Ship, Run
<1>7. r \in Run /\ Alike(r, s.run) /\ r.points = s.run.points /\ r.check = s.run.check
  BY <1>4 DEF Run, Alike
<1> HIDE DEF r
<1>8. Flight(v, s) /\ v.run = r BY <1>5, <1>7, RunChange
<1>9. v.hull = s.hull BY <1>4 DEF Ship
<1>10. Volley(v) \/ Volley(Strike(v, LaserHit)) BY <1>2, <1>6
<1> HIDE DEF v
<1>11. Alive(v, s) /\ v.hull > 0 BY <1>4, <1>5, <1>7, <1>8, <1>9 DEF Alive, Alike
<1>12. CASE Volley(v) BY <1>1, <1>3, <1>8, <1>11, <1>12, VolleyGood
<1>13. CASE Volley(Strike(v, LaserHit))
  <2>1. LaserHit \in Nat BY LoadoutAssumption
  <2>2. Flight(Strike(v, LaserHit), s) /\ Strike(v, LaserHit).hull > 0
    BY <1>4, <1>11, <2>1, StrikeFlight
  <2>3. QED BY <1>1, <1>3, <1>13, <2>2, VolleyGood
<1>14. QED BY <1>10, <1>12, <1>13

LEMMA FireMissileGood ==
  ASSUME IInv, FireMissile
  PROVE  Good
<1> DEFINE m == s.missiles - 1
           r == [s.run EXCEPT !.cooling = TRUE]
           v == [s EXCEPT !.run = r, !.missiles = m]
<1>1. /\ s.run.phase = "combat" /\ auto = 0 /\ auto' = auto /\ s.missiles > 0
      /\ Volley(Strike([s EXCEPT !.run.cooling = TRUE, !.missiles = @ - 1], MissileHit))
  BY DEF FireMissile, InPhase
<1>2. s.run # NoRun BY <1>1, NoRunFacts
<1>3. s \in Ship /\ s.run \in Run /\ Alive(s, s) /\ s.hull > 0 /\ s.vouchers < MaxVouchers BY <1>2, InARun
<1>4. Flight(s, s) /\ ~s.run.killed /\ s.run.points + s.run.check <= Points /\ WeakShield(s)
  BY <1>3, FlightTypes DEF Alive
<1>5. m \in 0 .. Missiles BY <1>1, <1>3, LoadoutAssumption DEF Ship
<1>6. [s EXCEPT !.run.cooling = TRUE, !.missiles = @ - 1] = v BY <1>3 DEF Ship, Run
<1>7. r \in Run /\ Alike(r, s.run) /\ r.points = s.run.points /\ r.check = s.run.check
  BY <1>3 DEF Run, Alike
<1> HIDE DEF m, r
<1>8. /\ v \in Ship /\ v.run = r /\ v.rock = s.rock /\ v.docked = s.docked /\ v.cargo = s.cargo
      /\ v.vouchers = s.vouchers /\ v.hull = s.hull /\ v.shield = s.shield /\ v.burst = s.burst
  BY <1>3, <1>5, <1>7 DEF Ship
<1> HIDE DEF v
<1>9. WeakShield(v) BY <1>4, <1>8 DEF WeakShield
<1>10. Flight(v, s) BY <1>3, <1>4, <1>7, <1>8, <1>9, FlightIf
<1>11. Alive(v, s) /\ v.hull > 0 BY <1>3, <1>4, <1>7, <1>8, <1>10 DEF Alive, Alike
<1>12. MissileHit \in Nat BY LoadoutAssumption
<1>13. Flight(Strike(v, MissileHit), s) /\ Strike(v, MissileHit).hull > 0
  BY <1>3, <1>11, <1>12, StrikeFlight
<1>14. Volley(Strike(v, MissileHit)) BY <1>1, <1>6
<1>15. QED BY <1>1, <1>2, <1>13, <1>14, VolleyGood

-----------------------------------------------------------------------------
(* Nobody is connected. *)

LEMMA AbandonGood ==
  ASSUME IInv, Abandon
  PROVE  Good
<1>1. s.run # NoRun /\ out' = out /\ auto' = Budget BY DEF Abandon, InRun
<1>2. s \in Ship /\ s.run \in Run /\ Alive(s, s) /\ s.hull > 0 BY <1>1, InARun
<1>3. auto' \in 0 .. Budget BY <1>1, LoadoutAssumption
<1>4. s.run.phase \in Phases BY <1>2 DEF Run
<1>5. Alive(s', s) /\ s'.hull > 0
  <2>1. CASE s.run.phase = "mining"
    <3>1. s' = StartEscape(s) BY <2>1 DEF Abandon
    <3>2. QED BY <1>1, <2>1, <3>1, EscapeAlive
  <2>2. CASE s.run.phase = "tribute"
    <3>1. s' = StartCombat(s, TRUE) BY <2>2 DEF Abandon, Refused
    <3>2. QED BY <1>1, <2>2, <3>1, CombatAlive
  <2>3. CASE s.run.phase = "escaping"
    <3>1. s' = s BY <2>3 DEF Abandon
    <3>2. QED BY <1>2, <3>1
  <2>4. CASE s.run.phase = "combat" /\ s.run.burn
    <3>1. s' = s BY <2>4 DEF Abandon
    <3>2. QED BY <1>2, <3>1
  <2>5. CASE s.run.phase = "combat" /\ ~s.run.burn
    <3>1. s' = [ConfigureEscape(s) EXCEPT !.run.burn = TRUE] BY <2>5 DEF Abandon
    <3>2. QED BY <2>5, <3>1, BurnAlive
  <2>6. QED BY <1>4, <2>1, <2>2, <2>3, <2>4, <2>5 DEF Phases
<1>6. QED BY <1>1, <1>3, <1>5, AliveIsGood

LEMMA EmergencyTickGood ==
  ASSUME IInv, EmergencyTick
  PROVE  Good
<1>1. PICK w \in TickRun : \E e \in Endings(w) :
         /\ s' = [e.state EXCEPT !.notice = @ \/ ~InRun(e.state)]
         /\ out' = e.report
         /\ auto' = IF InRun(e.state) THEN auto - 1 ELSE 0
  BY DEF EmergencyTick
<1>2. PICK e \in Endings(w) :
         /\ s' = [e.state EXCEPT !.notice = @ \/ ~InRun(e.state)]
         /\ out' = e.report
         /\ auto' = IF InRun(e.state) THEN auto - 1 ELSE 0
  BY <1>1
<1>3. auto > 0 /\ s.run # NoRun BY DEF EmergencyTick, IInv
<1>4. /\ s \in Ship /\ s.run \in Run /\ Alive(s, s) /\ ~s.docked
      /\ s.rock <= MaxVolume /\ s.vouchers < MaxVouchers
  BY <1>3, InARun
<1>5. Flight(w, s) BY <1>4, TickRunFlight
<1>6. out \in Reports /\ Truthful(out) BY ReportOfLast
<1>7. Step(e.state, s, e.report) /\ e.report \in Reports /\ Truthful(e.report)
  BY <1>4, <1>5, <1>6, EndingsFacts
<1> DEFINE v == e.state
           n == v.notice \/ ~InRun(v)
<1>8. Sound(v) /\ v \in Ship BY <1>7 DEF Step, Sound
<1>9. s' = [v EXCEPT !.notice = n] BY <1>2, <1>8 DEF Ship
<1>10. n \in BOOLEAN BY Zenon
<1> HIDE DEF v, n
<1>11. Sound(s') /\ Ore(s') = Ore(v) /\ s'.vouchers = v.vouchers /\ s'.run = v.run
  BY <1>8, <1>9, <1>10, NoticeFacts
<1>12. Step(s', s, out') BY <1>2, <1>7, <1>11 DEF Step, v
<1>13. out' \in Reports /\ Truthful(out') BY <1>2, <1>7
<1>14. auto' \in 0 .. Budget /\ (auto' > 0 => s'.run # NoRun)
  <2>1. auto \in 0 .. Budget /\ Budget \in Nat BY LoadoutAssumption DEF IInv
  <2>2. CASE InRun(v)
    <3>1. auto' = auto - 1 BY <1>2, <2>2 DEF v
    <3>2. s'.run # NoRun BY <1>11, <2>2 DEF InRun
    <3>3. QED BY <1>3, <2>1, <3>1, <3>2
  <2>3. CASE ~InRun(v)
    <3>1. auto' = 0 BY <1>2, <2>3 DEF v
    <3>2. QED BY <2>1, <3>1
  <2>4. QED BY <2>2, <2>3
<1>15. QED BY <1>12, <1>13, <1>14, StepIsGood

-----------------------------------------------------------------------------
(* The inductive invariant and what it gives. *)

LEMMA IInvInit ==
  Init => IInv
<1> SUFFICES ASSUME Init PROVE IInv OBVIOUS
<1>1. s = NewShip /\ out = NoReport /\ auto = 0 BY DEF Init
<1>2. /\ 0 \in 0 .. 1 /\ 0 \in 0 .. Hold /\ Tank \in 0 .. Tank /\ MaxHull \in 0 .. MaxHull
      /\ ShieldMax \in 0 .. ShieldMax
  BY CapacityAssumption
<1>3. /\ EmpLaunchers \in 0 .. EmpLaunchers /\ JamCharges \in 0 .. JamCharges
      /\ Missiles \in 0 .. Missiles /\ 0 \in 0 .. MaxVouchers
  BY LoadoutAssumption
<1>4. /\ s \in Ship /\ s.docked = TRUE /\ s.rock = 0 /\ s.hull = MaxHull /\ s.burst = FALSE
      /\ s.run = NoRun
  BY <1>1, <1>2, <1>3 DEF NewShip, Ship
<1>5. 0 <= MaxVolume BY LargestVolume
<1>6. MaxHull > 0 /\ 0 \in 0 .. Budget BY CapacityAssumption, LoadoutAssumption
<1>7. Sound(s) BY <1>4, <1>5, <1>6 DEF Sound, WeakShield
<1>8. out \in Reports /\ Truthful(out) BY <1>1 DEF NoReport, Reports, Truthful
<1>9. auto \in 0 .. Budget /\ ~(auto > 0) BY <1>1, <1>6
<1>10. OutcomeTruthful BY <1>8 DEF OutcomeTruthful, Truthful
<1>11. QED BY <1>7, <1>8, <1>9, <1>10 DEF IInv

LEMMA NextIsGood ==
  ASSUME IInv, Next
  PROVE  Good
<1>1. CASE Tick BY <1>1, TickGood
<1>2. CASE BeltTick BY <1>2, BeltTickGood
<1>3. CASE Depart BY <1>3, DepartGood
<1>4. CASE Scan BY <1>4, ScanGood
<1>5. CASE Lock BY <1>5, LockGood
<1>6. CASE Dock BY <1>6, DockGood
<1>7. CASE SellCargo BY <1>7, SellCargoGood
<1>8. CASE Refuel BY <1>8, RefuelGood
<1>9. CASE Repair BY <1>9, RepairGood
<1>10. CASE BailOrDepart BY <1>10, BailOrDepartGood
<1>11. CASE AttemptSkillCheck BY <1>11, AttemptSkillCheckGood
<1>12. CASE AcceptTribute BY <1>12, AcceptTributeGood
<1>13. CASE RefuseTribute BY <1>13, RefuseTributeGood
<1>14. CASE FightPirates BY <1>14, FightPiratesGood
<1>15. CASE CombatEscape BY <1>15, CombatEscapeGood
<1>16. CASE FirePulseLasers BY <1>16, FirePulseLasersGood
<1>17. CASE FireMissile BY <1>17, FireMissileGood
<1>18. CASE Abandon BY <1>18, AbandonGood
<1>19. CASE EmergencyTick BY <1>19, EmergencyTickGood
<1>20. CASE AckDisconnectNotice BY <1>20, AckGood
<1>21. QED
  BY <1>1, <1>2, <1>3, <1>4, <1>5, <1>6, <1>7, <1>8, <1>9, <1>10, <1>11, <1>12, <1>13, <1>14,
     <1>15, <1>16, <1>17, <1>18, <1>19, <1>20 DEF Next

LEMMA IInvStutter ==
  ASSUME IInv, UNCHANGED vars
  PROVE  IInv'
  BY DEF IInv, OutcomeTruthful, vars

\* The inductive invariant: a state between two steps is sound, the last
\* report is truthful, and EmergencyResolve ticks only while a run is left.
THEOREM MiningRunInvariant == Spec => []IInv
<1>1. Init => IInv BY IInvInit
<1>2. IInv /\ [Next]_vars => IInv'
  <2>1. ASSUME IInv, Next PROVE IInv' BY <2>1, NextIsGood DEF Good
  <2>2. ASSUME IInv, UNCHANGED vars PROVE IInv' BY <2>2, IInvStutter
  <2>3. QED BY <2>1, <2>2
<1>3. QED BY <1>1, <1>2, PTL DEF Spec

LEMMA IInvTyped ==
  ASSUME IInv
  PROVE  TypeOK
<1>1. /\ s \in Ship /\ s.rock <= MaxVolume /\ (s.run # NoRun => Aloft(s) /\ s.run \in Run)
      /\ out \in Reports /\ auto \in 0 .. Budget
  BY DEF IInv, Sound, Aloft, Reports
<1>2. s.rock \in {0} \cup 1 .. MaxVolume
  <2>1. s.rock \in Nat BY <1>1 DEF Ship
  <2>2. QED BY <1>1, <2>1, LargestVolume
<1>3. ASSUME InRun(s) PROVE RunOK(s.run)
  <2>1. s.run \in Run /\ Ledger(s) BY <1>1, <1>3 DEF InRun, Aloft
  <2>2. s.run.ext \in 0 .. MaxVolume
    <3>1. s.run.ext \in Nat /\ s.run.ext <= s.rock /\ s.rock \in Nat BY <1>1, <2>1 DEF Run, Ship, Ledger
    <3>2. QED BY <1>1, <3>1, LargestVolume
  <2>3. s.run.held \in 0 .. Hold
    <3>1. s.run.held \in Nat BY <2>1 DEF Run
    <3>2. s.cargo \in 0 .. Hold BY <1>1 DEF Ship
    <3>3. s.cargo + s.run.held <= Hold BY <2>1 DEF Ledger
    <3>4. QED BY <3>1, <3>2, <3>3, CapacityAssumption
  <2>4. QED BY <2>1, <2>2, <2>3 DEF RunOK, Run
<1>4. /\ {s.docked, s.scanned, s.burst, s.notice} \subseteq BOOLEAN /\ s.scan \in 0 .. 1
      /\ s.cargo \in 0 .. Hold /\ s.fuel \in 0 .. Tank /\ s.hull \in 0 .. MaxHull
      /\ s.shield \in 0 .. ShieldMax /\ s.emp \in 0 .. EmpLaunchers
      /\ s.jam \in 0 .. JamCharges /\ s.missiles \in 0 .. Missiles
      /\ s.vouchers \in 0 .. MaxVouchers
  BY <1>1 DEF Ship
<1>5. out.kind \in Outcomes \cup {""} /\ {out.attacked, out.paid, out.exhausted, out.bounty} \subseteq BOOLEAN
  BY <1>1 DEF Reports
<1>6. QED BY <1>1, <1>2, <1>3, <1>4, <1>5 DEF TypeOK

\* Every pool of the ship and the run stays within its capacity, whatever the
\* loadout (TypeOK; the clamps of run.go, slots.go and ships.go).
THEOREM MiningRunTyped == Spec => []TypeOK
<1>1. IInv => TypeOK BY IInvTyped
<1>2. QED BY <1>1, MiningRunInvariant, PTL

\* The books of a run balance, for any rock and hold: no more ore is drilled
\* than the rock has nor held than fits, and only a tribute parts the two.
THEOREM BooksBalance == Spec => []CargoAccounted
<1>1. ASSUME IInv PROVE CargoAccounted
  <2>1. ASSUME InRun(s) PROVE Ledger(s) /\ s.run.paid \in BOOLEAN
    BY <1>1, <2>1 DEF IInv, Sound, Aloft, InRun, Run
  <2>2. QED BY <2>1 DEF CargoAccounted, Ledger
<1>2. QED BY <1>1, MiningRunInvariant, PTL

\* No ship flies at hull zero: what takes the last point of hull ends the run
\* in the same step, with nobody connected too (run.go, TickRun).
THEOREM DeadShipsEnd == Spec => []NoDeadShipFlies
<1>1. ASSUME IInv PROVE NoDeadShipFlies BY <1>1 DEF IInv, Sound, NoDeadShipFlies
<1>2. QED BY <1>1, MiningRunInvariant, PTL

\* Pirates that were paid do not attack, and a burn outside combat is never
\* under fire, whichever of pilot, timeout and disconnect moved the run.
THEOREM TributeIsHonoured == Spec => []PaidPiratesLeave
<1>1. ASSUME IInv PROVE PaidPiratesLeave
  <2>1. ASSUME InRun(s) PROVE Course(s) BY <1>1, <2>1 DEF IInv, Sound, Aloft, InRun
  <2>2. QED BY <2>1 DEF PaidPiratesLeave, Course
<1>2. QED BY <1>1, MiningRunInvariant, PTL

\* A run is reported as what it went through (run.go, TickRun's choice of the
\* kind, from an intent configureEscape fixed once).
THEOREM ReportsAreTrue == Spec => []OutcomeTruthful
<1>1. IInv => OutcomeTruthful BY DEF IInv
<1>2. QED BY <1>1, MiningRunInvariant, PTL

\* A shield that burst stays at the emergency charge until a dock services it
\* (slots.go), through the belt's recharging and every later run.
THEOREM BurstShieldsStayWeak == Spec => []BurstShieldStaysWeak
<1>1. ASSUME IInv PROVE BurstShieldStaysWeak
  BY <1>1 DEF IInv, Sound, WeakShield, BurstShieldStaysWeak
<1>2. QED BY <1>1, MiningRunInvariant, PTL

\* Ore never appears: a step adds ore only by leaving a dock for a belt.
THEOREM OreIsNeverMade == Spec => OreNeverAppears
<1>1. IInv /\ [Next]_vars => [Ore(s') > Ore(s) => s.docked /\ ~s'.docked]_vars
  <2>1. ASSUME IInv, Next PROVE Ore(s') > Ore(s) => s.docked /\ ~s'.docked
    BY <2>1, NextIsGood DEF Good
  <2>2. QED BY <2>1
<1>2. QED BY <1>1, MiningRunInvariant, PTL DEF Spec, OreNeverAppears

\* Bounty vouchers leave only by a sale at the dock, and come one per pirate
\* destroyed, to a ship that survived (combat.go, winCombat).
THEOREM BountiesAreKept == Spec => VouchersAreKept
<1> DEFINE kept == s'.vouchers # s.vouchers =>
                      \/ s.docked /\ s'.vouchers = 0
                      \/ /\ s'.vouchers = s.vouchers + 1
                         /\ out'.kind = "pirate_destroyed" /\ s'.run = NoRun
<1>1. IInv /\ [Next]_vars => [kept]_vars
  <2>1. ASSUME IInv, Next PROVE kept BY <2>1, NextIsGood DEF Good
  <2>2. QED BY <2>1
<1>2. QED BY <1>1, MiningRunInvariant, PTL DEF Spec, VouchersAreKept

-----------------------------------------------------------------------------
(* The length of the burn.  A run that burns gains on its own end: cargo   *)
(* shifts lengthen the burn a bounded number of times, the fuel-out        *)
(* penalty is capped, and every tick that does not end the run moves it on.*)

\* What n cargo shifts can have made of the burn.
Stretched(base, n) ==
    /\ base >= 1
    /\ n = 0 => base <= FullBurn
    /\ n = 1 => 4 * base <= 5 * FullBurn
    /\ n = 2 => 16 * base <= 25 * FullBurn

\* The intent is what a burn that nobody attacked ends as.
Bounded(r) == Stretched(r.base, r.shifts) /\ r.intent # ""

\* Between two steps no burn is overdue.
OnTime(r) == Burning(r) => Bounded(r) /\ r.elapsed < EscapeRequired(r)

BInv ==
    /\ OnTime(s.run)
    /\ auto > 0 => Burning(s.run) /\ s.run.elapsed + auto >= Budget

LEMMA FullBurnNat == FullBurn \in Nat \ {0} BY Numbers DEF FullBurn

LEMMA MulMono ==
  ASSUME NEW a \in Nat, NEW c \in Nat, a <= c, NEW d \in Nat
  PROVE  a * d <= c * d
  OBVIOUS

\* A share of the cargo penalty is at most the penalty.
LEMMA ShareOfPenalty ==
  ASSUME NEW l \in Nat, NEW h \in Nat \ {0}, l <= h, NEW c \in Nat
  PROVE  (l * c) \div h <= c
<1> DEFINE q == (l * c) \div h
<1>1. l * c \in Nat /\ h * c \in Nat BY MulNat
<1>2. l * c <= h * c BY MulMono
<1>3. q \in Nat BY <1>1, DivNat
<1>4. h * q <= l * c BY <1>1
<1> HIDE DEF q
<1>5. ASSUME q >= c + 1 PROVE FALSE
  <2>1. (c + 1) * h <= q * h BY <1>3, <1>5, MulMono
  <2>2. (c + 1) * h = h * c + h BY <1>1
  <2>3. q * h = h * q BY <1>3
  <2>4. h * q \in Nat BY <1>3, MulNat
  <2>5. QED BY <1>1, <1>2, <1>4, <2>1, <2>2, <2>3, <2>4
<1>6. q <= c BY <1>3, <1>5
<1>7. QED BY <1>6 DEF q

LEMMA StretchedFacts ==
  ASSUME NEW n \in 0 .. MaxShifts, NEW m \in Nat, m >= 1, m <= FullBurn
  PROVE  Stretched((m * 5 ^ n) \div 4 ^ n, n)
<1>0. FullBurn \in Nat BY FullBurnNat
<1>1. CASE n = 0
  <2>1. 5 ^ 0 = 1 /\ 4 ^ 0 = 1 OBVIOUS
  <2>2. (m * 5 ^ n) \div 4 ^ n = m BY <1>1, <2>1
  <2>3. QED BY <1>1, <2>2 DEF Stretched
<1>2. CASE n = 1
  <2>1. 5 ^ 1 = 5 /\ 4 ^ 1 = 4 OBVIOUS
  <2>2. (m * 5 ^ n) \div 4 ^ n = (m * 5) \div 4 BY <1>2, <2>1
  <2>3. (m * 5) \div 4 >= 1 /\ 4 * ((m * 5) \div 4) <= 5 * FullBurn BY <1>0
  <2>4. QED BY <1>2, <2>2, <2>3 DEF Stretched
<1>3. CASE n = 2
  <2>1. 5 ^ 2 = 25 /\ 4 ^ 2 = 16 OBVIOUS
  <2>2. (m * 5 ^ n) \div 4 ^ n = (m * 25) \div 16 BY <1>3, <2>1
  <2>3. (m * 25) \div 16 >= 1 /\ 16 * ((m * 25) \div 16) <= 25 * FullBurn BY <1>0
  <2>4. QED BY <1>3, <2>2, <2>3 DEF Stretched
<1>4. QED BY <1>1, <1>2, <1>3 DEF MaxShifts

LEMMA PenaltyFacts ==
  ASSUME NEW f \in Nat
  PROVE  Penalty(f) \in Nat /\ Penalty(f) <= FuelOutCap
<1>1. FuelOutCap \in Nat BY Numbers
<1>2. (3 * f) \div 5 \in Nat OBVIOUS
<1>3. QED BY <1>1, <1>2 DEF Penalty, Low

\* No burn is as long as the budget.
LEMMA BurnFits ==
  ASSUME BudgetCovers, NEW r \in Run, Bounded(r), r.elapsed < EscapeRequired(r)
  PROVE  r.elapsed < Budget
<1>1. r.base \in Nat /\ r.elapsed \in Nat /\ r.fuelOut \in Nat /\ r.shifts \in 0 .. MaxShifts
  BY DEF Run
<1>2. Penalty(r.fuelOut) \in Nat /\ Penalty(r.fuelOut) <= FuelOutCap BY <1>1, PenaltyFacts
<1>3. FullBurn \in Nat /\ FuelOutCap \in Nat /\ Budget \in Nat BY FullBurnNat, Numbers
<1>4. r.base <= (25 * FullBurn) \div 16
  <2>0. /\ r.shifts = 0 => r.base <= FullBurn
        /\ r.shifts = 1 => 4 * r.base <= 5 * FullBurn
        /\ r.shifts = 2 => 16 * r.base <= 25 * FullBurn
    BY DEF Bounded, Stretched
  <2>1. 16 * r.base <= 25 * FullBurn
    <3>1. r.shifts = 0 \/ r.shifts = 1 \/ r.shifts = 2 BY <1>1 DEF MaxShifts
    <3>2. QED BY <1>1, <1>3, <2>0, <3>1
  <2>2. QED BY <1>1, <1>3, <2>1
<1>5. r.elapsed < r.base + Penalty(r.fuelOut) BY DEF EscapeRequired
<1>6. (25 * FullBurn) \div 16 \in Nat BY <1>3
<1>7. QED BY <1>1, <1>2, <1>3, <1>4, <1>5, <1>6 DEF BudgetCovers

\* A burn that was just configured.
Fresh(r) == Bounded(r) /\ r.elapsed < EscapeRequired(r)

LEMMA ConfigureIsFresh ==
  ASSUME NEW w \in Ship, w.run \in Run
  PROVE  Fresh(ConfigureEscape(w).run) /\ ConfigureEscape(w).run.elapsed = 0
<1> DEFINE load == Low(w.cargo + w.run.held, Hold)
           req == BaseEscape + (load * CargoEscape) \div Hold
           bs == (req * 5 ^ w.run.shifts) \div 4 ^ w.run.shifts
           it == IF w.run.intent # "" THEN w.run.intent
                 ELSE IF RunDepleted(w) THEN "departed" ELSE "bailed"
           r == [w.run EXCEPT !.intent = it, !.base = bs, !.fuelOut = 0, !.elapsed = 0]
<1>1. w.cargo \in Nat /\ Hold \in Nat \ {0} BY CapacityAssumption DEF Ship
<1>2. w.run.shifts \in 0 .. MaxShifts /\ w.run.held \in Nat BY DEF Run
<1>3. load \in Nat /\ load <= Hold BY <1>1, <1>2 DEF Low
<1>4. ConfigureEscape(w) = [w EXCEPT !.run = r] BY DEF ConfigureEscape, Ship, Run
<1>5. ConfigureEscape(w).run = r
  <2> HIDE DEF r
  <2>1. QED BY <1>4 DEF Ship
<1> HIDE DEF load
<1>6. (load * CargoEscape) \div Hold \in Nat BY <1>1, <1>3, Numbers, MulNat, DivNat
<1>7. (load * CargoEscape) \div Hold <= CargoEscape BY <1>1, <1>3, Numbers, ShareOfPenalty
<1>8. req \in Nat /\ req >= 1 /\ req <= FullBurn BY <1>6, <1>7, Numbers DEF FullBurn
<1> HIDE DEF req
<1>9. Stretched(bs, w.run.shifts) BY <1>2, <1>8, StretchedFacts
<1>10. bs \in Nat BY <1>2, <1>8, ShiftNat
<1>101. it # "" OBVIOUS
<1> HIDE DEF bs, it
<1>11. r.base = bs /\ r.shifts = w.run.shifts /\ r.elapsed = 0 /\ r.fuelOut = 0 /\ r.intent = it BY DEF Run
<1> HIDE DEF r
<1>12. Penalty(r.fuelOut) \in Nat BY <1>11, PenaltyFacts
<1>13. bs >= 1 BY <1>9 DEF Stretched
<1>14. r.elapsed < EscapeRequired(r) BY <1>10, <1>11, <1>12, <1>13 DEF EscapeRequired
<1>15. QED BY <1>5, <1>9, <1>101, <1>11, <1>14 DEF Fresh, Bounded

LEMMA FreshOnTime ==
  ASSUME NEW r, Fresh(r)
  PROVE  OnTime(r)
  BY DEF Fresh, OnTime

LEMMA StartEscapeOnTime ==
  ASSUME NEW w \in Ship, w.run \in Run
  PROVE  LET v == StartEscape(w) IN OnTime(v.run) /\ Burning(v.run) /\ v.run.elapsed = 0
<1> DEFINE r == [w.run EXCEPT !.phase = "escaping"]
           x == [w EXCEPT !.run = r]
           v == ConfigureEscape(x)
<1>1. StartEscape(w) = v BY DEF StartEscape, Ship, Run
<1>2. r \in Run /\ r.phase = "escaping" BY DEF Run, Phases
<1> HIDE DEF r
<1>3. x \in Ship /\ x.run = r BY <1>2, SwapRun
<1> HIDE DEF x
<1>4. v.run.phase = "escaping" BY <1>2, <1>3, ConfigureEscapeFacts
<1>5. Fresh(v.run) /\ v.run.elapsed = 0 BY <1>2, <1>3, ConfigureIsFresh
<1>6. QED BY <1>1, <1>4, <1>5, FreshOnTime DEF Burning

LEMMA StartCombatOnTime ==
  ASSUME NEW w \in Ship, w.run \in Run, NEW e \in BOOLEAN
  PROVE  LET v == StartCombat(w, e)
         IN OnTime(v.run) /\ (e => Burning(v.run) /\ v.run.elapsed = 0)
<1> DEFINE r == [w.run EXCEPT !.phase = "combat", !.attacked = TRUE, !.foe = PirateHull, !.burn = e]
           x == [w EXCEPT !.run = r]
           y == ConfigureEscape(x)
           v == StartCombat(w, e)
<1>1. (e => v = y) /\ (~e => v = x) BY DEF StartCombat, Ship, Run
<1>2. PirateHull \in 0 .. PirateHull BY Numbers
<1>3. r \in Run /\ r.phase = "combat" /\ r.burn = e BY <1>2 DEF Run, Phases
<1> HIDE DEF r, v
<1>4. x \in Ship /\ x.run = r BY <1>3, SwapRun
<1> HIDE DEF x
<1>5. y.run.phase = "combat" /\ y.run.burn = e BY <1>3, <1>4, ConfigureEscapeFacts
<1>6. Fresh(y.run) /\ y.run.elapsed = 0 BY <1>3, <1>4, ConfigureIsFresh
<1> HIDE DEF y
<1>7. CASE e BY <1>1, <1>5, <1>6, <1>7, FreshOnTime DEF Burning, v
<1>8. CASE ~e
  <2>1. ~Burning(x.run) BY <1>3, <1>4, <1>8 DEF Burning
  <2>2. QED BY <1>1, <1>8, <2>1 DEF OnTime, v
<1>9. QED BY <1>7, <1>8

LEMMA BurnOnTime ==
  ASSUME NEW w \in Ship, w.run \in Run, w.run.phase = "combat"
  PROVE  LET v == [ConfigureEscape(w) EXCEPT !.run.burn = TRUE]
         IN OnTime(v.run) /\ Burning(v.run) /\ v.run.elapsed = 0
<1> DEFINE x == ConfigureEscape(w)
           r == [x.run EXCEPT !.burn = TRUE]
           v == [x EXCEPT !.run = r]
<1>1. x \in Ship /\ x.run \in Run /\ x.run.phase = "combat" BY ConfigureEscapeFacts
<1>2. Fresh(x.run) /\ x.run.elapsed = 0 BY ConfigureIsFresh
<1> HIDE DEF x
<1>3. [x EXCEPT !.run.burn = TRUE] = v BY <1>1 DEF Ship, Run
<1>4. /\ r.burn = TRUE /\ r.phase = "combat" /\ r.base = x.run.base /\ r.shifts = x.run.shifts
      /\ r.elapsed = x.run.elapsed /\ r.fuelOut = x.run.fuelOut /\ r.intent = x.run.intent /\ r \in Run
  BY <1>1 DEF Run
<1> HIDE DEF r
<1>5. v.run = r BY <1>1, <1>4, SwapRun
<1> HIDE DEF v
<1>6. Fresh(r) BY <1>2, <1>4 DEF Fresh, Bounded, EscapeRequired
<1>7. QED BY <1>2, <1>3, <1>4, <1>5, <1>6, FreshOnTime DEF Burning, x

\* Two runs at the same point of the same burn.
SameBurn(r, q) ==
    /\ r.phase = q.phase /\ r.burn = q.burn /\ r.elapsed = q.elapsed /\ r.fuelOut = q.fuelOut
    /\ r.base = q.base /\ r.shifts = q.shifts /\ r.intent = q.intent

\* The same point, of a burn that a cargo shift may have lengthened.
Longer(r, q) ==
    /\ r.phase = q.phase /\ r.burn = q.burn /\ r.elapsed = q.elapsed /\ r.fuelOut = q.fuelOut
    /\ OnTime(q) => OnTime(r)

LEMMA SameIsLonger ==
  ASSUME NEW r, NEW q, SameBurn(r, q)
  PROVE  Longer(r, q)
  BY DEF SameBurn, Longer, OnTime, Burning, Bounded, EscapeRequired

\* A shift multiplies a burn by 5/4, rounded down.
LEMMA ShiftStretches ==
  ASSUME NEW m \in Nat, NEW n \in 0 .. MaxShifts - 1, Stretched(m, n)
  PROVE  Stretched((m * 5) \div 4, n + 1) /\ (m * 5) \div 4 >= m
<1>1. FullBurn \in Nat BY FullBurnNat
<1>2. n = 0 \/ n = 1 BY DEF MaxShifts
<1>3. m >= 1 BY DEF Stretched
<1> DEFINE k == (m * 5) \div 4
<1>4. k \in Nat /\ k >= m /\ 4 * k <= 5 * m BY <1>3
<1> HIDE DEF k
<1>5. CASE n = 0
  <2>1. m <= FullBurn BY <1>5 DEF Stretched
  <2>2. n + 1 = 1 /\ k >= 1 /\ 4 * k <= 5 * FullBurn BY <1>1, <1>3, <1>4, <1>5, <2>1
  <2>3. QED BY <1>4, <2>2 DEF Stretched, k
<1>6. CASE n = 1
  <2>1. 4 * m <= 5 * FullBurn BY <1>6 DEF Stretched
  <2>2. n + 1 = 2 /\ k >= 1 /\ 16 * k <= 25 * FullBurn BY <1>1, <1>3, <1>4, <1>6, <2>1
  <2>3. QED BY <1>4, <2>2 DEF Stretched, k
<1>7. QED BY <1>2, <1>5, <1>6

LEMMA StartEventLonger ==
  ASSUME NEW w, NEW b, Flight(w, b), ~w.run.killed, w.run.phase \in {"mining", "escaping"},
         NEW kind \in Rollable(w), NEW e \in StartEvent(w, kind)
  PROVE  Longer(e.run, w.run)
<1> DEFINE q == [w.run EXCEPT !.event = kind, !.eventT = EventTicks]
           x == [w EXCEPT !.run.event = kind, !.run.eventT = EventTicks]
<1>1. w \in Ship /\ w.run \in Run BY FlightTypes
<1>2. EventTicks \in 0 .. CooldownTicks /\ kind \in Kinds \cup {"none"}
  BY DEF EventTicks, CooldownTicks, Rollable
<1>3. x = [w EXCEPT !.run = q] BY <1>1 DEF Ship, Run
<1>4. q \in Run /\ SameBurn(q, w.run) /\ q.burn = w.run.burn BY <1>1, <1>2 DEF Run, SameBurn
<1> HIDE DEF q, x
<1>5. x \in Ship /\ x.run = q BY <1>1, <1>3, <1>4, SwapRun
<1>6. CASE kind = "shift"
  <2> DEFINE n == x.run.shifts + 1
             bs == IF w.run.phase = "escaping" THEN (x.run.base * 5) \div 4 ELSE x.run.base
             r == [x.run EXCEPT !.shifts = n, !.base = bs]
  <2>1. w.run.shifts < MaxShifts BY <1>6 DEF Rollable
  <2>2. x.run.shifts \in 0 .. MaxShifts /\ x.run.base \in Nat /\ x.run.fuelOut \in Nat /\ x.run.elapsed \in Nat
    BY <1>4, <1>5 DEF Run
  <2>3. x.run.shifts = w.run.shifts /\ x.run.base = w.run.base /\ x.run.fuelOut = w.run.fuelOut
        /\ x.run.elapsed = w.run.elapsed /\ x.run.phase = w.run.phase /\ x.run.burn = w.run.burn
        /\ x.run.intent = w.run.intent
    BY <1>4, <1>5 DEF SameBurn
  <2>4. x.run.shifts \in 0 .. MaxShifts - 1 /\ n \in 0 .. MaxShifts /\ bs \in Nat
    BY <2>1, <2>2, <2>3 DEF MaxShifts
  <2>5. e = [x EXCEPT !.run.shifts = @ + 1,
                      !.run.base = IF w.run.phase = "escaping" THEN (@ * 5) \div 4 ELSE @]
    BY <1>6 DEF StartEvent, x
  <2>6. e = [x EXCEPT !.run = r] BY <1>4, <1>5, <2>5 DEF Ship, Run
  <2>7. w.run.phase = "escaping" => bs = (x.run.base * 5) \div 4 OBVIOUS
  <2>8. n = x.run.shifts + 1 OBVIOUS
  <2> HIDE DEF n, bs
  <2>9. /\ r \in Run /\ r.shifts = n /\ r.base = bs /\ r.phase = x.run.phase /\ r.burn = x.run.burn
        /\ r.elapsed = x.run.elapsed /\ r.fuelOut = x.run.fuelOut /\ r.intent = x.run.intent
    BY <1>4, <1>5, <2>4 DEF Run
  <2> HIDE DEF r
  <2>10. e.run = r BY <1>5, <2>6, <2>9, SwapRun
  <2>11. ASSUME OnTime(w.run) PROVE OnTime(r)
    <3>1. CASE w.run.phase = "escaping"
      <4>0. w.run.intent # "" BY <2>11, <3>1 DEF OnTime, Burning, Bounded
      <4>1. Stretched(x.run.base, x.run.shifts) /\ w.run.elapsed < w.run.base + Penalty(w.run.fuelOut)
        BY <2>3, <2>11, <3>1 DEF OnTime, Burning, Bounded, EscapeRequired
      <4>2. Stretched(bs, n) /\ bs >= x.run.base BY <2>2, <2>4, <2>7, <2>8, <3>1, <4>1, ShiftStretches
      <4>3. Penalty(x.run.fuelOut) \in Nat BY <2>2, PenaltyFacts
      <4>4. x.run.elapsed < x.run.base + Penalty(x.run.fuelOut) BY <2>3, <4>1
      <4>5. x.run.elapsed < bs + Penalty(x.run.fuelOut) BY <2>2, <2>4, <4>2, <4>3, <4>4
      <4>6. QED BY <2>3, <2>9, <4>0, <4>2, <4>5 DEF OnTime, Bounded, EscapeRequired
    <3>2. CASE w.run.phase = "mining"
      <4>1. ~Burning(r) BY <2>3, <2>9, <3>2 DEF Burning
      <4>2. QED BY <4>1 DEF OnTime
    <3>3. QED BY <3>1, <3>2
  <2>12. QED BY <2>3, <2>9, <2>10, <2>11 DEF Longer
<1>7. CASE kind # "shift"
  <2>1. e = x \/ e = HullHit(x, 1) BY <1>7 DEF StartEvent, x
  <2>2. HullHit(x, 1).run = x.run BY <1>5 DEF HullHit, Ship
  <2>3. e.run = q BY <1>5, <2>1, <2>2
  <2>4. QED BY <1>4, <2>3, SameIsLonger
<1>8. QED BY <1>6, <1>7

LEMMA TickEventsLonger ==
  ASSUME NEW w, NEW b, Flight(w, b), ~w.run.killed, NEW e \in TickEvents(w)
  PROVE  Longer(e.run, w.run)
<1>1. w \in Ship /\ w.run \in Run BY FlightTypes
<1>2. w.run.phase \in {"mining", "tribute", "escaping", "combat"} BY <1>1 DEF Run, Phases
<1>3. SameBurn(w.run, w.run) BY DEF SameBurn
<1>4. SameBurn([w EXCEPT !.run.eventT = @ - 1].run, w.run) BY <1>1 DEF Ship, Run, SameBurn
<1>5. SameBurn(EventOver(w).run, w.run) BY <1>1 DEF EventOver, Ship, Run, SameBurn
<1>6. CASE w.run.phase = "tribute" \/ (w.run.phase = "combat" /\ w.run.event = "none")
  <2>1. e = w BY <1>6 DEF TickEvents
  <2>2. QED BY <1>3, <2>1, SameIsLonger
<1>7. CASE w.run.phase # "tribute" /\ w.run.event # "none"
  <2>1. e = [w EXCEPT !.run.eventT = @ - 1] \/ e = EventOver(w) BY <1>7 DEF TickEvents
  <2>2. QED BY <1>4, <1>5, <2>1, SameIsLonger
<1>8. CASE w.run.phase \in {"mining", "escaping"} /\ w.run.event = "none"
  <2>1. \/ e = [w EXCEPT !.run.eventT = @ - 1] \/ e = w
        \/ \E k \in Rollable(w) : e \in StartEvent(w, k)
    BY <1>8 DEF TickEvents
  <2>2. QED BY <1>3, <1>4, <1>8, <2>1, SameIsLonger, StartEventLonger
<1>9. QED BY <1>2, <1>6, <1>7, <1>8

\* r is the burn q, dt time units on.
Onward(r, q, dt) ==
    /\ r.phase = q.phase /\ r.burn = q.burn /\ r.base = q.base /\ r.shifts = q.shifts
    /\ r.killed = q.killed /\ r.intent = q.intent /\ r.elapsed = q.elapsed + dt

LEMMA TickBurnOnward ==
  ASSUME NEW w, NEW b, Flight(w, b), NEW dt \in Nat, NEW drain \in Nat
  PROVE  Onward(TickBurn(w, dt, drain).run, w.run, dt)
<1> DEFINE d == ConsumeFuel(w, drain)
           el == d.run.elapsed + dt
           fo == d.run.fuelOut + (IF d.fuel = 0 THEN dt ELSE 0)
           r == [d.run EXCEPT !.elapsed = el, !.fuelOut = fo]
<1>1. Flight(d, b) /\ d.run = w.run BY ConsumeFuelFlight
<1>2. TickBurn(w, dt, drain) = [d EXCEPT !.run.elapsed = @ + dt,
                                         !.run.fuelOut = @ + (IF d.fuel = 0 THEN dt ELSE 0)]
  BY DEF TickBurn
<1> HIDE DEF d
<1>3. d \in Ship /\ d.run \in Run BY <1>1, FlightTypes
<1>30. d.run.elapsed \in Nat /\ d.run.fuelOut \in Nat BY <1>3 DEF Run
<1>4. el \in Nat /\ fo \in Nat BY <1>30
<1>5. TickBurn(w, dt, drain) = [d EXCEPT !.run = r] BY <1>2, <1>3 DEF Ship, Run
<1>6. el = d.run.elapsed + dt OBVIOUS
<1> HIDE DEF el, fo
<1>7. r \in Run /\ Onward(r, d.run, dt) BY <1>3, <1>4, <1>6 DEF Run, Onward
<1> HIDE DEF r
<1>8. QED BY <1>1, <1>3, <1>5, <1>7, SwapRun

\* What a tick makes of a run: a burn stays within its bound, and one that
\* was burning has come on, unless the pirate or the ship is gone.
Progress(v, q) ==
    /\ Burning(v.run) => Bounded(v.run)
    /\ Burning(q) => /\ Burning(v.run)
                     /\ v.run.elapsed >= q.elapsed + 1 \/ v.run.killed \/ v.hull = 0

LEMMA OnwardProgress ==
  ASSUME NEW w, w.run \in Run, OnTime(w.run), NEW v, NEW dt \in Nat, Onward(v.run, w.run, dt),
         dt >= 1 \/ v.run.killed \/ v.hull = 0
  PROVE  Progress(v, w.run)
<1>1. w.run.elapsed \in Nat BY DEF Run
<1>2. Burning(v.run) <=> Burning(w.run) BY DEF Onward, Burning
<1>3. Burning(v.run) => Bounded(v.run) BY <1>2 DEF Onward, OnTime, Bounded
<1>4. dt >= 1 => v.run.elapsed >= w.run.elapsed + 1 BY <1>1 DEF Onward
<1>5. QED BY <1>2, <1>3, <1>4 DEF Progress

LEMMA TickEscapeProgress ==
  ASSUME NEW w, NEW b, Alive(w, b), OnTime(w.run), NEW v \in TickEscape(w)
  PROVE  Progress(v, w.run)
<1> DEFINE hits == IF w.run.attacked THEN 0 .. PirateHit ELSE {0}
<1>1. PICK h \in hits, d \in Drains(w) : v = TickBurn(AttackHit(w, h), TickUnits, d)
  BY DEF TickEscape
<1>2. h \in Nat BY LoadoutAssumption
<1>3. Flight(AttackHit(w, h), b) /\ AttackHit(w, h).run = w.run BY <1>2, AttackHitFlight DEF Alive
<1>4. TickUnits \in Nat /\ TickUnits >= 1 /\ d \in Nat BY DrainsNat DEF TickUnits
<1>5. Onward(v.run, w.run, TickUnits) BY <1>1, <1>3, <1>4, TickBurnOnward
<1>6. w.run \in Run BY FlightTypes DEF Alive
<1>7. QED BY <1>4, <1>5, <1>6, OnwardProgress

\* A tick of the fight is cut short to nothing only by the kill.
LEMMA CombatMoves ==
  ASSUME NEW w, w.run \in Run, w.run.burn, w.run.elapsed < EscapeRequired(w.run)
  PROVE  CombatDT(w) >= 1 \/ CannonKills(w)
<1>1. w.run.foe \in 0 .. PirateHull /\ w.run.base \in Nat /\ w.run.elapsed \in Nat /\ w.run.fuelOut \in Nat
  BY DEF Run
<1>2. Cannon \in Nat /\ PirateHull \in Nat BY LoadoutAssumption
<1>3. Penalty(w.run.fuelOut) \in Nat BY <1>1, PenaltyFacts
<1>4. DoneAt(w) \in Nat /\ DoneAt(w) >= 1 BY <1>1, <1>3 DEF DoneAt, High, EscapeRequired
<1>5. CASE Cannon > 0
  <2>1. w.run.foe * TickUnits \in Nat BY <1>1, <1>2 DEF TickUnits
  <2>2. KillAt(w) \in Nat BY <1>2, <1>5, <2>1, DivNat DEF KillAt
  <2>3. CASE KillAt(w) = 0
    <3>1. KillAt(w) <= TickUnits /\ KillAt(w) <= DoneAt(w) BY <1>4, <2>3 DEF TickUnits
    <3>2. QED BY <1>5, <3>1 DEF CannonKills
  <2>4. CASE KillAt(w) # 0
    <3>1. Low(TickUnits, KillAt(w)) \in Nat /\ Low(TickUnits, KillAt(w)) >= 1
      BY <2>2, <2>4 DEF Low, TickUnits
    <3>2. CombatDT(w) = Low(Low(TickUnits, KillAt(w)), DoneAt(w)) BY <1>5 DEF CombatDT
    <3>3. QED BY <1>4, <3>1, <3>2 DEF Low
  <2>5. QED BY <2>3, <2>4
<1>6. CASE ~(Cannon > 0)
  <2>1. CombatDT(w) = Low(TickUnits, DoneAt(w)) BY <1>6 DEF CombatDT
  <2>2. QED BY <1>4, <2>1 DEF Low, TickUnits
<1>7. QED BY <1>5, <1>6

LEMMA FoughtOnward ==
  ASSUME NEW w, NEW b, Alive(w, b), NEW hit \in Nat, NEW drain \in Nat
  PROVE  LET v == Fought(w, hit, drain)
         IN /\ w.run.burn => Onward(v.run, w.run, CombatDT(w))
            /\ ~w.run.burn => ~v.run.burn /\ v.run.phase = w.run.phase
<1> DEFINE dt == CombatDT(w)
           a == AttackHit(w, hit)
           n == High(0, a.run.foe - (Cannon * dt) \div TickUnits)
           r == [a.run EXCEPT !.foe = n]
           f == [a EXCEPT !.run = r]
<1>0. Flight(w, b) /\ ~w.run.killed BY DEF Alive
<1>1. w.run \in Run BY <1>0, FlightTypes
<1>2. dt \in Nat BY <1>1, CombatDTNat
<1>3. Flight(a, b) /\ a.run = w.run BY <1>0, AttackHitFlight
<1>4. [a EXCEPT !.run.foe = High(0, @ - (Cannon * dt) \div TickUnits)] = f
  <2> HIDE DEF dt, a
  <2>1. a \in Ship /\ a.run \in Run BY <1>3, FlightTypes
  <2>2. QED BY <2>1 DEF Ship, Run
<1>5. Fought(w, hit, drain) = IF w.run.burn THEN TickBurn(f, dt, drain) ELSE f
  BY <1>4 DEF Fought
<1> HIDE DEF a
<1>6. a \in Ship /\ a.run \in Run BY <1>3, FlightTypes
<1>7. a.run.foe \in 0 .. PirateHull BY <1>6 DEF Run
<1>8. Cannon \in Nat /\ PirateHull \in Nat BY LoadoutAssumption
<1> HIDE DEF dt
<1>9. (Cannon * dt) \div TickUnits \in Nat
  <2>1. TickUnits \in Nat \ {0} BY DEF TickUnits
  <2>2. QED BY <1>2, <1>8, <2>1, MulNat, DivNat
<1>10. n \in 0 .. PirateHull BY <1>7, <1>8, <1>9 DEF High
<1> HIDE DEF n
<1>11. /\ r \in Run /\ Alike(r, a.run) /\ r.points = a.run.points /\ r.check = a.run.check
       /\ r.base = a.run.base /\ r.shifts = a.run.shifts /\ r.elapsed = a.run.elapsed
  BY <1>6, <1>10 DEF Run, Alike
<1> HIDE DEF r
<1>12. Still(f, a, b) /\ f.run = r BY <1>0, <1>3, <1>6, <1>11, StillRun, SwapRun
<1> HIDE DEF f
<1>13. Onward(TickBurn(f, dt, drain).run, f.run, dt) BY <1>2, <1>12, TickBurnOnward DEF Still
<1>14. QED BY <1>3, <1>5, <1>11, <1>12, <1>13 DEF Onward, Alike, dt

\* The bounty and the cooling guns leave the burn as it is.
LEMMA DecidedCooled ==
  ASSUME NEW w, NEW f, NEW b, Alive(f, b), NEW v \in Cooled(Decided(w, f))
  PROVE  /\ v.run.phase = f.run.phase /\ v.run.burn = f.run.burn /\ v.run.base = f.run.base
         /\ v.run.shifts = f.run.shifts /\ v.run.elapsed = f.run.elapsed /\ v.run.intent = f.run.intent
         /\ CannonKills(w) => v.run.killed \/ v.hull = 0
<1> DEFINE u == Decided(w, f)
           r == [f.run EXCEPT !.killed = TRUE]
<1>1. f \in Ship /\ f.run \in Run BY FlightTypes DEF Alive
<1>2. f.hull \in 0 .. MaxHull /\ MaxHull \in Nat BY <1>1, Numbers DEF Ship
<1>3. Won(f) = [f EXCEPT !.run = r, !.vouchers = f.vouchers + 1] BY <1>1 DEF Won, Ship
<1>4. Won(f).run = r /\ Won(f).hull = f.hull
  <2> HIDE DEF r
  <2>1. QED BY <1>1, <1>3 DEF Ship
<1>5. /\ r \in Run /\ r.killed /\ r.phase = f.run.phase /\ r.burn = f.run.burn /\ r.base = f.run.base
      /\ r.shifts = f.run.shifts /\ r.elapsed = f.run.elapsed /\ r.intent = f.run.intent
  BY <1>1 DEF Run
<1>6. u = Won(f) \/ u = f BY DEF Decided
<1>7. CannonKills(w) => u = Won(f) \/ f.hull = 0 BY <1>2 DEF Decided
<1>8. /\ u.run \in Run /\ u.run.phase = f.run.phase /\ u.run.burn = f.run.burn /\ u.run.base = f.run.base
      /\ u.run.shifts = f.run.shifts /\ u.run.elapsed = f.run.elapsed /\ u.hull = f.hull
      /\ u.run.intent = f.run.intent
      /\ CannonKills(w) => u.run.killed \/ u.hull = 0
  BY <1>1, <1>4, <1>5, <1>6, <1>7
<1>9. u = [docked |-> u.docked, rock |-> u.rock, scanned |-> u.scanned, scan |-> u.scan,
           cargo |-> u.cargo, fuel |-> u.fuel, hull |-> u.hull, shield |-> u.shield,
           burst |-> u.burst, emp |-> u.emp, jam |-> u.jam, missiles |-> u.missiles,
           vouchers |-> u.vouchers, notice |-> u.notice, run |-> u.run]
  <2>1. f = [docked |-> f.docked, rock |-> f.rock, scanned |-> f.scanned, scan |-> f.scan,
             cargo |-> f.cargo, fuel |-> f.fuel, hull |-> f.hull, shield |-> f.shield,
             burst |-> f.burst, emp |-> f.emp, jam |-> f.jam, missiles |-> f.missiles,
             vouchers |-> f.vouchers, notice |-> f.notice, run |-> f.run]
    BY <1>1 DEF Ship
  <2> HIDE DEF r, u
  <2>2. QED BY <1>3, <1>6, <2>1
<1> HIDE DEF u, r
<1>10. PICK l \in {FALSE, u.run.locked}, c \in {FALSE, u.run.cooling} :
          v = [u EXCEPT !.run.locked = l, !.run.cooling = c]
  BY DEF Cooled, u
<1> DEFINE q == [u.run EXCEPT !.locked = l, !.cooling = c]
<1>11. v = [u EXCEPT !.run = q] BY <1>9, <1>10
<1>12. /\ q.phase = u.run.phase /\ q.burn = u.run.burn /\ q.base = u.run.base
       /\ q.shifts = u.run.shifts /\ q.elapsed = u.run.elapsed /\ q.killed = u.run.killed
       /\ q.intent = u.run.intent
  BY <1>8 DEF Run
<1> HIDE DEF q
<1>13. v.run = q /\ v.hull = u.hull BY <1>9, <1>11
<1>14. QED BY <1>8, <1>12, <1>13

LEMMA TickCombatProgress ==
  ASSUME NEW w, NEW b, Alive(w, b), w.run.phase = "combat", OnTime(w.run), NEW v \in TickCombat(w)
  PROVE  Progress(v, w.run)
<1>1. PICK h \in 0 .. PirateHit, d \in Drains(w) : v \in Cooled(Decided(w, Fought(w, h, d)))
  BY DEF TickCombat
<1>2. h \in Nat /\ d \in Nat BY DrainsNat, LoadoutAssumption
<1>3. w.run \in Run BY FlightTypes DEF Alive
<1> DEFINE f == Fought(w, h, d)
<1>4. /\ Alive(f, b)
      /\ w.run.burn => Onward(f.run, w.run, CombatDT(w))
      /\ ~w.run.burn => ~f.run.burn /\ f.run.phase = w.run.phase
  BY <1>2, FoughtFlight, FoughtOnward
<1>5. v \in Cooled(Decided(w, f)) BY <1>1
<1> HIDE DEF f
<1>6. /\ v.run.phase = f.run.phase /\ v.run.burn = f.run.burn /\ v.run.base = f.run.base
      /\ v.run.shifts = f.run.shifts /\ v.run.elapsed = f.run.elapsed /\ v.run.intent = f.run.intent
      /\ CannonKills(w) => v.run.killed \/ v.hull = 0
  BY <1>4, <1>5, DecidedCooled
<1>7. CASE w.run.burn
  <2>1. Burning(w.run) BY <1>7 DEF Burning
  <2>2. w.run.elapsed < EscapeRequired(w.run) /\ Bounded(w.run) BY <2>1 DEF OnTime
  <2>3. CombatDT(w) >= 1 \/ v.run.killed \/ v.hull = 0 BY <1>3, <1>6, <1>7, <2>2, CombatMoves
  <2>4. CombatDT(w) \in Nat /\ w.run.elapsed \in Nat BY <1>3, CombatDTNat DEF Run
  <2>5. /\ v.run.phase = w.run.phase /\ v.run.burn = w.run.burn /\ v.run.base = w.run.base
        /\ v.run.shifts = w.run.shifts /\ v.run.elapsed = w.run.elapsed + CombatDT(w)
        /\ v.run.intent = w.run.intent
    BY <1>4, <1>6, <1>7 DEF Onward
  <2>6. Burning(v.run) /\ Bounded(v.run) BY <1>7, <2>2, <2>5 DEF Burning, Bounded
  <2>7. CombatDT(w) >= 1 => v.run.elapsed >= w.run.elapsed + 1 BY <2>4, <2>5
  <2>8. QED BY <2>3, <2>6, <2>7 DEF Progress
<1>8. CASE ~w.run.burn
  <2>1. ~Burning(v.run) /\ ~Burning(w.run) BY <1>4, <1>6, <1>8 DEF Burning
  <2>2. QED BY <2>1 DEF Progress
<1>9. QED BY <1>7, <1>8

\* The contact is in mining, at the prompt, or in a fight that just began.
LEMMA ContactProgress ==
  ASSUME NEW w, NEW b, Alive(w, b), w.run.phase = "mining", NEW v \in Contact(w)
  PROVE  OnTime(v.run)
<1>1. w \in Ship /\ w.run \in Run BY FlightTypes DEF Alive
<1>2. CASE v = w \/ v = DeployEMP(w)
  <2>1. DeployEMP(w).run.phase = w.run.phase BY <1>1 DEF DeployEMP, Ship, Run
  <2>2. QED BY <1>2, <2>1 DEF OnTime, Burning
<1>3. CASE v = [w EXCEPT !.run.phase = "tribute", !.run.clock = 0]
  <2>1. v.run.phase = "tribute" BY <1>1, <1>3 DEF Ship, Run
  <2>2. QED BY <2>1 DEF OnTime, Burning
<1>4. CASE v = StartCombat(w, ~Armed)
  <2>1. (~Armed) \in BOOLEAN OBVIOUS
  <2>2. QED BY <1>1, <1>4, <2>1, StartCombatOnTime
<1>5. QED BY <1>2, <1>3, <1>4 DEF Contact, PirateAction

\* Every way a tick of the run may go.
LEMMA TickRunProgress ==
  ASSUME Alive(s, s), OnTime(s.run), NEW v \in TickRun
  PROVE  Progress(v, s.run)
<1>1. PICK w \in TickEvents(s) : v \in TickPhase(w) BY DEF TickRun
<1>2. Still(w, s, s) /\ Longer(w.run, s.run) BY TickEventsFlight, TickEventsLonger DEF Alive
<1>3. Alive(w, s) /\ OnTime(w.run) BY <1>2 DEF Still, Alive, Longer
<1>4. w \in Ship /\ w.run \in Run BY <1>3, FlightTypes DEF Alive
<1>5. w.run.phase \in {"mining", "tribute", "escaping", "combat"} BY <1>4 DEF Run, Phases
<1>6. Progress(v, w.run)
  <2>1. CASE w.run.phase = "mining"
    <3>1. PICK m \in TickMining(w) : v \in Contact(m) BY <1>1, <2>1 DEF TickPhase
    <3>2. Still(m, w, s) BY <1>3, <2>1, TickMiningFlight DEF Alive
    <3>3. Alive(m, s) /\ m.run.phase = "mining" BY <2>1, <3>2 DEF Still, Alive
    <3>4. OnTime(v.run) BY <3>1, <3>3, ContactProgress
    <3>5. QED BY <2>1, <3>4 DEF Progress, OnTime, Burning
  <2>2. CASE w.run.phase = "tribute"
    <3>1. v \in TickTribute(w) BY <1>1, <2>2 DEF TickPhase
    <3>2. CASE v = StartCombat(w, TRUE)
      <4>1. OnTime(v.run) BY <1>4, <3>2, StartCombatOnTime
      <4>2. QED BY <2>2, <4>1 DEF Progress, OnTime, Burning
    <3>3. CASE v = [w EXCEPT !.run.clock = @ + 1]
      <4>1. v.run.phase = "tribute" BY <1>4, <2>2, <3>3 DEF Ship, Run
      <4>2. QED BY <2>2, <4>1 DEF Progress, Burning
    <3>4. QED BY <3>1, <3>2, <3>3 DEF TickTribute, Refused
  <2>3. CASE w.run.phase = "escaping"
    <3>1. v \in TickEscape(w) BY <1>1, <2>3 DEF TickPhase
    <3>2. QED BY <1>3, <3>1, TickEscapeProgress
  <2>4. CASE w.run.phase = "combat"
    <3>1. v \in TickCombat(w) BY <1>1, <2>4 DEF TickPhase
    <3>2. QED BY <1>3, <2>4, <3>1, TickCombatProgress
  <2>5. QED BY <1>5, <2>1, <2>2, <2>3, <2>4
<1>7. QED BY <1>2, <1>6 DEF Progress, Longer, Burning

\* A run that goes on after a tick is on time, the pirate and the ship there.
LEMMA EndingsOnTime ==
  ASSUME NEW w, NEW b, Flight(w, b), Burning(w.run) => Bounded(w.run), NEW e \in Endings(w)
  PROVE  \/ e.state.run = NoRun
         \/ e.state = w /\ OnTime(w.run) /\ ~w.run.killed /\ w.hull # 0
<1> DEFINE k == EndKind(w)
<1>1. w \in Ship /\ w.run \in Run BY FlightTypes
<1>2. /\ w.run.killed <=> k = "pirate_destroyed"
      /\ k # "ship_lost" => w.hull > 0
  BY EndKindFacts
<1>3. w.hull \in 0 .. MaxHull /\ MaxHull \in Nat BY <1>1, Numbers DEF Ship
<1>4. CASE k = ""
  <2>0. e = [state |-> w, report |-> out] BY <1>4 DEF Endings
  <2>1. e.state = w BY <2>0
  <2>2. ~w.run.killed /\ w.hull > 0 BY <1>2, <1>4
  <2>3. w.hull # 0 BY <2>2
  <2>4. ASSUME Burning(w.run) PROVE w.run.elapsed < EscapeRequired(w.run)
    <3>1. w.run.intent # "" BY <2>4 DEF Bounded
    <3>2. ASSUME w.run.elapsed >= EscapeRequired(w.run) PROVE FALSE
      <4>1. k = IF w.run.paid THEN "tribute_paid"
                ELSE IF w.run.attacked THEN "escaped_under_fire" ELSE w.run.intent
        BY <2>2, <2>3, <2>4, <3>2 DEF EndKind
      <4> HIDE DEF k
      <4>2. QED BY <1>4, <3>1, <4>1
    <3>3. w.run.elapsed \in Nat /\ w.run.base \in Nat /\ w.run.fuelOut \in Nat BY <1>1 DEF Run
    <3>4. Penalty(w.run.fuelOut) \in Nat BY <3>3, PenaltyFacts
    <3>5. EscapeRequired(w.run) \in Nat BY <3>3, <3>4 DEF EscapeRequired
    <3>6. QED BY <3>2, <3>3, <3>5
  <2>5. OnTime(w.run) BY <2>4 DEF OnTime
  <2>6. QED BY <2>1, <2>2, <2>3, <2>5
<1>5. CASE k # ""
  <2>1. PICK v \in Resolved(w, k) : e = [state |-> v, report |-> Report(w, k)]
    BY <1>5 DEF Endings
  <2>2. e.state = v BY <2>1
  <2>3. CASE k = "ship_lost"
    <3>1. PICK u \in Respawned(w) : v = Closed(u) BY <2>1, <2>3 DEF Resolved
    <3>2. QED BY <1>1, <2>2, <3>1, RespawnedFacts
  <2>4. CASE k # "ship_lost"
    <3>1. v = Closed(Kept(w, k)) BY <2>1, <2>4 DEF Resolved
    <3>2. QED BY <1>2, <2>2, <2>4, <3>1, KeptFacts
  <2>5. QED BY <2>3, <2>4
<1>6. QED BY <1>4, <1>5

\* One tick: the run is over, or it goes on on time and has come on.
LEMMA TickAdvances ==
  ASSUME IInv, BInv, s.run # NoRun, NEW w \in TickRun, NEW e \in Endings(w)
  PROVE  \/ e.state.run = NoRun
         \/ /\ e.state.run \in Run /\ OnTime(e.state.run)
            /\ Burning(s.run) => /\ Burning(e.state.run)
                                 /\ e.state.run.elapsed >= s.run.elapsed + 1
<1>1. Alive(s, s) /\ s.vouchers < MaxVouchers BY InARun
<1>2. OnTime(s.run) BY DEF BInv
<1>3. Flight(w, s) /\ Progress(w, s.run) BY <1>1, <1>2, TickRunFlight, TickRunProgress
<1>4. \/ e.state.run = NoRun
      \/ e.state = w /\ OnTime(w.run) /\ ~w.run.killed /\ w.hull # 0
  BY <1>3, EndingsOnTime DEF Progress
<1>5. w.run \in Run BY <1>3, FlightTypes
<1>6. QED BY <1>3, <1>4, <1>5 DEF Progress

LEMMA AtRest == OnTime(NoRun) /\ ~Burning(NoRun)
  BY NoRunFacts DEF OnTime, Burning

\* What every step owes the length of the burn.
Steady == BInv' /\ (auto > 0 /\ auto' = 0 => s'.run = NoRun)

\* Outside EmergencyResolve only the run of the next state matters.
LEMMA SteadyIf ==
  ASSUME auto = 0, auto' = auto, OnTime(s'.run)
  PROVE  Steady
  BY DEF Steady, BInv

LEMMA TickSteady ==
  ASSUME IInv, BInv, Tick
  PROVE  Steady
<1>1. PICK w \in TickRun : \E e \in Endings(w) :
         s' = TickBelt(TickScan(e.state)) /\ out' = e.report
  BY DEF Tick
<1>2. PICK e \in Endings(w) : s' = TickBelt(TickScan(e.state)) /\ out' = e.report
  BY <1>1
<1>3. s.run # NoRun /\ auto' = auto /\ auto = 0 BY DEF Tick, InRun
<1>4. e.state.run = NoRun \/ OnTime(e.state.run) BY <1>3, TickAdvances
<1>5. /\ s \in Ship /\ s.run \in Run /\ Alive(s, s) /\ ~s.docked
      /\ s.rock <= MaxVolume /\ s.vouchers < MaxVouchers
  BY <1>3, InARun
<1>6. Step(e.state, s, e.report)
  BY <1>5, TickRunFlight, ReportOfLast, EndingsFacts
<1>7. s'.run = e.state.run BY <1>2, <1>6, BeltFacts DEF Step
<1>8. OnTime(s'.run) BY <1>4, <1>7, AtRest
<1>9. QED BY <1>3, <1>8, SteadyIf

LEMMA EmergencyTickSteady ==
  ASSUME BudgetCovers, IInv, BInv, EmergencyTick
  PROVE  Steady
<1>1. PICK w \in TickRun : \E e \in Endings(w) :
         /\ s' = [e.state EXCEPT !.notice = @ \/ ~InRun(e.state)]
         /\ out' = e.report
         /\ auto' = IF InRun(e.state) THEN auto - 1 ELSE 0
  BY DEF EmergencyTick
<1>2. PICK e \in Endings(w) :
         /\ s' = [e.state EXCEPT !.notice = @ \/ ~InRun(e.state)]
         /\ out' = e.report
         /\ auto' = IF InRun(e.state) THEN auto - 1 ELSE 0
  BY <1>1
<1>3. auto > 0 /\ s.run # NoRun BY DEF EmergencyTick, IInv
<1>4. auto \in Nat /\ Budget \in Nat BY Numbers DEF IInv
<1>5. Burning(s.run) /\ s.run.elapsed + auto >= Budget BY <1>3 DEF BInv
<1>6. /\ s \in Ship /\ s.run \in Run /\ Alive(s, s) /\ ~s.docked
      /\ s.rock <= MaxVolume /\ s.vouchers < MaxVouchers
  BY <1>3, InARun
<1> DEFINE v == e.state
<1>7. Step(v, s, e.report) BY <1>6, TickRunFlight, ReportOfLast, EndingsFacts
<1>8. s'.run = v.run
  <2>1. v \in Ship BY <1>7 DEF Step, Sound
  <2> HIDE DEF v
  <2>2. QED BY <1>2, <2>1 DEF Ship, v
<1>9. \/ v.run = NoRun
      \/ /\ v.run \in Run /\ OnTime(v.run) /\ Burning(v.run)
         /\ v.run.elapsed >= s.run.elapsed + 1
  BY <1>3, <1>5, TickAdvances
<1>10. auto' = IF v.run # NoRun THEN auto - 1 ELSE 0 BY <1>2 DEF InRun
<1> HIDE DEF v
<1>11. CASE v.run = NoRun
  <2>1. auto' = 0 BY <1>10, <1>11
  <2>2. QED BY <1>8, <1>11, <2>1, AtRest DEF Steady, BInv
<1>12. CASE v.run # NoRun
  <2>1. v.run \in Run /\ OnTime(v.run) /\ Burning(v.run) /\ v.run.elapsed >= s.run.elapsed + 1
    BY <1>9, <1>12
  <2>2. v.run.elapsed \in Nat /\ s.run.elapsed \in Nat BY <1>6, <2>1 DEF Run
  <2>3. auto' = auto - 1 BY <1>10, <1>12
  <2>4. v.run.elapsed + auto' >= Budget BY <1>4, <1>5, <2>1, <2>2, <2>3
  <2>5. v.run.elapsed < Budget BY <2>1, BurnFits DEF OnTime
  <2>6. auto' # 0 BY <1>4, <2>2, <2>3, <2>4, <2>5
  <2>7. QED BY <1>8, <2>1, <2>4, <2>6 DEF Steady, BInv
<1>13. QED BY <1>11, <1>12

\* Commands that leave the run alone.
LEMMA RunAloneSteady ==
  ASSUME IInv, BInv, auto = 0, auto' = auto, s'.run = s.run
  PROVE  Steady
<1>1. OnTime(s'.run) BY DEF BInv
<1>2. QED BY <1>1, SteadyIf

LEMMA AshoreSteady ==
  ASSUME IInv, BInv, BeltTick \/ Depart \/ Scan \/ Dock
  PROVE  Steady
<1>0. Sound(s) /\ s \in Ship BY DEF IInv, Sound
<1>1. auto = 0 /\ auto' = auto BY DEF BeltTick, Depart, Scan, Dock, AtDock, InBelt
<1> DEFINE f == High(0, s.fuel - 1)
           c == [s EXCEPT !.fuel = f]
<1>2. ConsumeFuel(s, 1) = c BY <1>0 DEF ConsumeFuel, Ship
<1>3. s'.run = s.run
  <2>1. CASE BeltTick BY <1>0, <2>1, BeltFacts DEF BeltTick
  <2>2. CASE Depart
    <3>1. PICK v \in Volumes, seen \in BOOLEAN :
             s' = [ConsumeFuel(s, 1) EXCEPT !.docked = FALSE, !.rock = v, !.scanned = seen]
      BY <2>2 DEF Depart
    <3> HIDE DEF f
    <3>2. QED BY <1>0, <1>2, <3>1 DEF Ship
  <2>3. CASE Scan
    <3>1. PICK instant \in BOOLEAN :
             s' = [ConsumeFuel(s, 1) EXCEPT !.scanned = instant, !.scan = IF instant THEN 0 ELSE 1]
      BY <2>3 DEF Scan
    <3> HIDE DEF f
    <3>2. QED BY <1>0, <1>2, <3>1 DEF Ship
  <2>4. CASE Dock
    <3> DEFINE x == Serviced(s)
    <3>1. s' = [x EXCEPT !.hull = IF s.docked THEN @ ELSE Low(MaxHull, @ + DockRepair)]
      BY <2>4 DEF Dock
    <3>2. x \in Ship /\ x.run = s.run BY <1>0, ServicedFacts
    <3> HIDE DEF x
    <3>3. QED BY <3>1, <3>2 DEF Ship
  <2>5. QED BY <2>1, <2>2, <2>3, <2>4
<1>4. QED BY <1>1, <1>3, RunAloneSteady

LEMMA ServiceSteady ==
  ASSUME IInv, BInv, SellCargo \/ Refuel \/ Repair \/ AckDisconnectNotice
  PROVE  Steady
<1>0. s \in Ship BY DEF IInv, Sound
<1>1. auto = 0 /\ auto' = auto BY DEF SellCargo, Refuel, Repair, AckDisconnectNotice, AtDock
<1>2. s'.run = s.run
  <2>1. CASE SellCargo BY <1>0, <2>1 DEF SellCargo, Ship
  <2>2. CASE Refuel
    <3>1. PICK f \in s.fuel + 1 .. Tank : s' = [s EXCEPT !.fuel = f] BY <2>2 DEF Refuel
    <3>2. QED BY <1>0, <3>1 DEF Ship
  <2>3. CASE Repair BY <1>0, <2>3 DEF Repair, Ship
  <2>4. CASE AckDisconnectNotice BY <1>0, <2>4 DEF AckDisconnectNotice, Ship
  <2>5. QED BY <2>1, <2>2, <2>3, <2>4
<1>3. QED BY <1>1, <1>2, RunAloneSteady

\* Commands that leave the run in the mining phase.
LEMMA MiningSteady ==
  ASSUME IInv, BInv, Lock \/ AttemptSkillCheck
  PROVE  Steady
<1>0. s \in Ship /\ (s.run # NoRun => s.run \in Run) BY DEF IInv, Sound, Aloft
<1>1. auto = 0 /\ auto' = auto BY DEF Lock, AttemptSkillCheck, InBelt, InPhase
<1>2. s'.run.phase = "mining"
  <2>1. CASE Lock
    <3>1. PICK dist \in Starts, vein \in {FALSE, FuelMiner > 0} :
             s' = [s EXCEPT !.jam = High(0, @ - 1),
                            !.run = NewRun(dist, IF s.jam > 0 THEN JamTicks ELSE 0, vein)]
      BY <2>1 DEF Lock
    <3> DEFINE r == NewRun(dist, IF s.jam > 0 THEN JamTicks ELSE 0, vein)
    <3>2. r.phase = "mining" BY DEF NewRun
    <3>3. s'.run = r
      <4> HIDE DEF r
      <4>1. s' = [s EXCEPT !.jam = High(0, @ - 1), !.run = r] BY <3>1 DEF r
      <4>2. QED BY <1>0, <4>1 DEF Ship
    <3>4. QED BY <3>2, <3>3
  <2>2. CASE AttemptSkillCheck
    <3> DEFINE n == (Extractable(s) * 18 + 99) \div 100
    <3>1. /\ s.run.phase = "mining"
          /\ s' = [s EXCEPT !.run.check = 0, !.run.ext = @ + n, !.run.held = @ + n]
      BY <2>2 DEF AttemptSkillCheck, InPhase
    <3>2. s.run \in Run BY <1>0, <3>1, NoRunFacts
    <3> HIDE DEF n
    <3>3. QED BY <1>0, <3>1, <3>2 DEF Ship, Run
  <2>3. QED BY <2>1, <2>2
<1>3. OnTime(s'.run) BY <1>2 DEF OnTime, Burning
<1>4. QED BY <1>1, <1>3, SteadyIf

\* Commands that start a burn or a fight.
LEMMA FlightSteady ==
  ASSUME IInv, BInv,
         BailOrDepart \/ AcceptTribute \/ RefuseTribute \/ FightPirates \/ CombatEscape
  PROVE  Steady
<1>0. s \in Ship /\ (s.run # NoRun => s.run \in Run) BY DEF IInv, Sound, Aloft
<1>1. auto = 0 /\ auto' = auto
  BY DEF BailOrDepart, AcceptTribute, RefuseTribute, FightPirates, CombatEscape, InPhase
<1>2. s.run.phase \in {"mining", "tribute", "combat"}
  BY DEF BailOrDepart, AcceptTribute, RefuseTribute, FightPirates, CombatEscape, InPhase
<1>3. s.run # NoRun /\ s.run \in Run BY <1>0, <1>2, NoRunFacts
<1>4. OnTime(s'.run)
  <2>1. CASE BailOrDepart
    <3>1. s' = StartEscape(s) BY <2>1 DEF BailOrDepart
    <3>2. QED BY <1>0, <1>3, <3>1, StartEscapeOnTime
  <2>2. CASE AcceptTribute
    <3> DEFINE p == Paid(s)
    <3>1. s' = StartEscape(p) /\ s.run.phase = "tribute" BY <2>2 DEF AcceptTribute, InPhase
    <3>2. Untouched(p) BY <1>3, <3>1, PaidFacts
    <3> HIDE DEF p
    <3>3. p \in Ship /\ p.run \in Run BY <3>2 DEF Untouched
    <3>4. QED BY <3>1, <3>3, StartEscapeOnTime
  <2>3. CASE RefuseTribute
    <3>1. s' = StartCombat(s, TRUE) BY <2>3 DEF RefuseTribute, Refused
    <3>2. QED BY <1>0, <1>3, <3>1, StartCombatOnTime
  <2>4. CASE FightPirates
    <3>1. s' = StartCombat(s, FALSE) BY <2>4 DEF FightPirates
    <3>2. QED BY <1>0, <1>3, <3>1, StartCombatOnTime
  <2>5. CASE CombatEscape
    <3>1. s' = [ConfigureEscape(s) EXCEPT !.run.burn = TRUE] /\ s.run.phase = "combat"
      BY <2>5 DEF CombatEscape, InPhase
    <3>2. QED BY <1>0, <1>3, <3>1, BurnOnTime
  <2>6. QED BY <2>1, <2>2, <2>3, <2>4, <2>5
<1>5. QED BY <1>1, <1>4, SteadyIf

LEMMA VolleySteady ==
  ASSUME IInv, BInv, auto = 0, auto' = auto,
         NEW w, Flight(w, s), SameBurn(w.run, s.run), Volley(w)
  PROVE  Steady
<1>1. OnTime(w.run) BY SameIsLonger DEF BInv, Longer
<1>2. CASE w.run.killed
  <2>1. PICK e \in Endings(w) : s' = e.state /\ out' = e.report BY <1>2 DEF Volley
  <2>2. s'.run = NoRun BY <1>1, <1>2, <2>1, EndingsOnTime DEF OnTime
  <2>3. QED BY <2>2, AtRest, SteadyIf
<1>3. CASE ~w.run.killed
  <2>1. PICK e \in {[state |-> w, report |-> out]} : s' = e.state /\ out' = e.report
    BY <1>3 DEF Volley
  <2>2. s' = w BY <2>1
  <2>3. QED BY <1>1, <2>2, SteadyIf
<1>4. QED BY <1>2, <1>3

LEMMA StrikeSameBurn ==
  ASSUME NEW w \in Ship, w.run \in Run, NEW n \in Nat
  PROVE  SameBurn(Strike(w, n).run, w.run)
<1> DEFINE f == High(0, w.run.foe - n)
           r == [w.run EXCEPT !.foe = f]
           v == [w EXCEPT !.run = r]
           q == [r EXCEPT !.killed = TRUE]
<1>1. w.run.foe \in 0 .. PirateHull /\ PirateHull \in Nat BY Numbers DEF Run
<1>2. f \in 0 .. PirateHull BY <1>1 DEF High
<1>3. [w EXCEPT !.run.foe = High(0, @ - n)] = v BY DEF Ship, Run
<1> HIDE DEF f
<1>4. r \in Run /\ SameBurn(r, w.run) BY <1>2 DEF Run, SameBurn
<1>5. SameBurn(q, r) BY <1>4 DEF Run, SameBurn
<1> HIDE DEF r
<1>6. v \in Ship /\ v.run = r BY <1>4, SwapRun
<1> HIDE DEF v
<1>7. Strike(w, n) = v \/ Strike(w, n) = Won(v) BY <1>3 DEF Strike
<1>8. Won(v).run = [v.run EXCEPT !.killed = TRUE] BY <1>6 DEF Won, Ship
<1>9. QED BY <1>4, <1>5, <1>6, <1>7, <1>8 DEF SameBurn

LEMMA GunsSteady ==
  ASSUME IInv, BInv, FirePulseLasers \/ FireMissile
  PROVE  Steady
<1>1. s.run.phase = "combat" /\ auto = 0 /\ auto' = auto
  BY DEF FirePulseLasers, FireMissile, InPhase
<1>2. s.run # NoRun BY <1>1, NoRunFacts
<1>3. s \in Ship /\ s.run \in Run /\ Alive(s, s) /\ s.hull > 0 /\ s.vouchers < MaxVouchers BY <1>2, InARun
<1>4. Flight(s, s) /\ ~s.run.killed /\ s.run.points + s.run.check <= Points /\ WeakShield(s)
  BY <1>3, FlightTypes DEF Alive
<1>5. CASE FirePulseLasers
  <2>1. PICK hot \in BOOLEAN :
           LET fired == [s EXCEPT !.run.locked = hot] IN Volley(fired) \/ Volley(Strike(fired, LaserHit))
    BY <1>5 DEF FirePulseLasers
  <2> DEFINE r == [s.run EXCEPT !.locked = hot]
             v == [s EXCEPT !.run = r]
  <2>2. [s EXCEPT !.run.locked = hot] = v BY <1>3 DEF Ship, Run
  <2>3. /\ r \in Run /\ Alike(r, s.run) /\ r.points = s.run.points /\ r.check = s.run.check
        /\ SameBurn(r, s.run)
    BY <1>3 DEF Run, Alike, SameBurn
  <2> HIDE DEF r
  <2>4. Flight(v, s) /\ v.run = r BY <1>4, <2>3, RunChange
  <2>5. v.hull = s.hull /\ v \in Ship BY <1>3, <2>3 DEF Ship
  <2>6. Volley(v) \/ Volley(Strike(v, LaserHit)) BY <2>1, <2>2
  <2> HIDE DEF v
  <2>7. LaserHit \in Nat BY LoadoutAssumption
  <2>8. Alive(v, s) /\ v.hull > 0 BY <1>3, <1>4, <2>3, <2>4, <2>5 DEF Alive, Alike
  <2>9. Flight(Strike(v, LaserHit), s) BY <1>3, <2>7, <2>8, StrikeFlight
  <2>10. SameBurn(Strike(v, LaserHit).run, v.run) BY <2>3, <2>4, <2>5, <2>7, StrikeSameBurn
  <2>11. SameBurn(Strike(v, LaserHit).run, s.run) /\ SameBurn(v.run, s.run)
    BY <2>3, <2>4, <2>10 DEF SameBurn
  <2>12. QED BY <1>1, <2>4, <2>6, <2>9, <2>11, VolleySteady
<1>6. CASE FireMissile
  <2> DEFINE m == s.missiles - 1
             r == [s.run EXCEPT !.cooling = TRUE]
             v == [s EXCEPT !.run = r, !.missiles = m]
  <2>1. /\ s.missiles > 0
        /\ Volley(Strike([s EXCEPT !.run.cooling = TRUE, !.missiles = @ - 1], MissileHit))
    BY <1>6 DEF FireMissile
  <2>2. m \in 0 .. Missiles BY <1>3, <2>1, LoadoutAssumption DEF Ship
  <2>3. [s EXCEPT !.run.cooling = TRUE, !.missiles = @ - 1] = v BY <1>3 DEF Ship, Run
  <2>4. /\ r \in Run /\ Alike(r, s.run) /\ r.points = s.run.points /\ r.check = s.run.check
        /\ SameBurn(r, s.run)
    BY <1>3 DEF Run, Alike, SameBurn
  <2> HIDE DEF m, r
  <2>5. /\ v \in Ship /\ v.run = r /\ v.rock = s.rock /\ v.docked = s.docked /\ v.cargo = s.cargo
        /\ v.vouchers = s.vouchers /\ v.hull = s.hull /\ v.shield = s.shield /\ v.burst = s.burst
    BY <1>3, <2>2, <2>4 DEF Ship
  <2> HIDE DEF v
  <2>6. WeakShield(v) BY <1>4, <2>5 DEF WeakShield
  <2>7. Flight(v, s) BY <1>3, <1>4, <2>4, <2>5, <2>6, FlightIf
  <2>8. Alive(v, s) /\ v.hull > 0 BY <1>3, <1>4, <2>4, <2>5, <2>7 DEF Alive, Alike
  <2>9. MissileHit \in Nat BY LoadoutAssumption
  <2>10. Flight(Strike(v, MissileHit), s) BY <1>3, <2>8, <2>9, StrikeFlight
  <2>11. SameBurn(Strike(v, MissileHit).run, v.run) BY <2>4, <2>5, <2>9, StrikeSameBurn
  <2>12. SameBurn(Strike(v, MissileHit).run, s.run) BY <2>4, <2>5, <2>11 DEF SameBurn
  <2>13. Volley(Strike(v, MissileHit)) BY <2>1, <2>3
  <2>14. QED BY <1>1, <2>10, <2>12, <2>13, VolleySteady
<1>7. QED BY <1>5, <1>6

\* EmergencyResolve starts from a burn, with all of its budget.
LEMMA AbandonSteady ==
  ASSUME IInv, BInv, Abandon
  PROVE  Steady
<1>1. s.run # NoRun /\ auto = 0 /\ auto' = Budget BY DEF Abandon, InRun
<1>2. s \in Ship /\ s.run \in Run BY <1>1, InARun
<1>3. s.run.phase \in Phases /\ s.run.elapsed \in Nat BY <1>2 DEF Run
<1>4. OnTime(s.run) BY DEF BInv
<1>5. OnTime(s'.run) /\ Burning(s'.run) /\ s'.run.elapsed \in Nat
  <2>1. CASE s.run.phase = "mining"
    <3>1. s' = StartEscape(s) BY <2>1 DEF Abandon
    <3>2. QED BY <1>2, <3>1, StartEscapeOnTime
  <2>2. CASE s.run.phase = "tribute"
    <3>1. s' = StartCombat(s, TRUE) BY <2>2 DEF Abandon, Refused
    <3>2. OnTime(s'.run) /\ (TRUE => Burning(s'.run) /\ s'.run.elapsed = 0)
      BY <1>2, <3>1, StartCombatOnTime
    <3>3. QED BY <3>2
  <2>3. CASE s.run.phase = "escaping"
    <3>1. s' = s BY <2>3 DEF Abandon
    <3>2. QED BY <1>3, <1>4, <2>3, <3>1 DEF Burning
  <2>4. CASE s.run.phase = "combat" /\ s.run.burn
    <3>1. s' = s BY <2>4 DEF Abandon
    <3>2. QED BY <1>3, <1>4, <2>4, <3>1 DEF Burning
  <2>5. CASE s.run.phase = "combat" /\ ~s.run.burn
    <3>1. s' = [ConfigureEscape(s) EXCEPT !.run.burn = TRUE] BY <2>5 DEF Abandon
    <3>2. QED BY <1>2, <2>5, <3>1, BurnOnTime
  <2>6. QED BY <1>3, <2>1, <2>2, <2>3, <2>4, <2>5 DEF Phases
<1>6. s'.run.elapsed + auto' >= Budget BY <1>1, <1>5, Numbers
<1>7. ~(auto > 0) BY <1>1
<1>8. QED BY <1>5, <1>6, <1>7 DEF Steady, BInv

LEMMA NextIsSteady ==
  ASSUME BudgetCovers, IInv, BInv, Next
  PROVE  Steady
<1>1. CASE Tick BY <1>1, TickSteady
<1>2. CASE BeltTick \/ Depart \/ Scan \/ Dock BY <1>2, AshoreSteady
<1>3. CASE SellCargo \/ Refuel \/ Repair \/ AckDisconnectNotice BY <1>3, ServiceSteady
<1>4. CASE Lock \/ AttemptSkillCheck BY <1>4, MiningSteady
<1>5. CASE BailOrDepart \/ AcceptTribute \/ RefuseTribute \/ FightPirates \/ CombatEscape
  BY <1>5, FlightSteady
<1>6. CASE FirePulseLasers \/ FireMissile BY <1>6, GunsSteady
<1>7. CASE Abandon BY <1>7, AbandonSteady
<1>8. CASE EmergencyTick BY <1>8, EmergencyTickSteady
<1>9. QED BY <1>1, <1>2, <1>3, <1>4, <1>5, <1>6, <1>7, <1>8 DEF Next

\* EmergencyResolve never gives up on a run: with a budget of one tick per
\* time unit of the longest burn (a full hold, every cargo shift, the capped
\* fuel-out penalty) its loop ends because the run has ended (run.go,
\* resolveAbandonedRun; combat.go, tickCombat, whose tick may be cut short).
THEOREM AbandonedRunsEnd == BudgetCovers => (Spec => AbandonedRunEnds)
<1> SUFFICES ASSUME BudgetCovers PROVE Spec => AbandonedRunEnds OBVIOUS
<1> DEFINE ended == auto > 0 /\ auto' = 0 => s'.run = NoRun
<1>1. Init => BInv
  <2>1. ASSUME Init PROVE s.run = NoRun /\ ~(auto > 0) BY <2>1 DEF Init, NewShip
  <2>2. QED BY <2>1, AtRest DEF BInv
<1>2. IInv /\ BInv /\ [Next]_vars => BInv' /\ [ended]_vars
  <2>1. ASSUME IInv, BInv, Next PROVE BInv' /\ ended BY <2>1, NextIsSteady DEF Steady
  <2>2. ASSUME BInv, UNCHANGED vars PROVE BInv' BY <2>2 DEF BInv, vars
  <2>3. QED BY <2>1, <2>2
<1>3. QED BY <1>1, <1>2, MiningRunInvariant, PTL DEF Spec, AbandonedRunEnds
=============================================================================
