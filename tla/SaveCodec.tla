------------------------------ MODULE SaveCodec ------------------------------
(***************************************************************************)
(* A pilot's save across releases: Encode, DecodeState and the migrations  *)
(* of internal/sim/state.go and migrate_frontier.go, between a row written *)
(* by any release since version 1 and the state a process plays.           *)
(*                                                                         *)
(* A process reads the row, upgrades it in memory, plays, writes it now    *)
(* and then, and may die at any point: an upgrade that was not written is  *)
(* made again from the old row.  Between processes the catalogue of hulls  *)
(* may change.                                                             *)
(*                                                                         *)
(* A row is the document as JSON decodes it, with the zero value in every  *)
(* field its release did not write.  Kept are the fields the codec treats  *)
(* differently from the rest; a device's load is its missiles or its armed *)
(* EMP; the slots of a hull are one sequence (the drive's own slot of old  *)
(* releases among them), its internal ones another; world is the system of *)
(* the world a pilot is at, "" for one who is docked.                      *)
(***************************************************************************)
EXTENDS Integers, Sequences, FiniteSets, SequencesExt, FiniteSetsExt

CONSTANTS
    Models,       \* hull model -> its internal slots
    Catalogs,     \* the sets of models a release may offer
    StartFuel,    \* the base tank of any hull
    MaxHull,      \* the hull points of any hull
    TankSize,     \* what one fuel tank holds
    Refund,       \* the sale value of a retired drive
    Rows,         \* the rows a first start may find
    None

Starter == "skiff"
StateVersion == 8
Home == "sol"

ASSUME CodecAssumption ==
    /\ \A m \in DOMAIN Models : Models[m] \in Nat
    /\ \A c \in Catalogs : Starter \in c /\ c \subseteq DOMAIN Models
    /\ {StartFuel, MaxHull, TankSize, Refund} \subseteq Nat

(* What a row holds. *)

Devices == [item : STRING, fuel : Nat, load : Nat]
Slots == Seq(Devices \cup {None})
Hulls == [model : STRING, sys : STRING, hull : Int, base : Nat, shield : STRING,
          slots : Slots, internal : Slots]

IsSave(s) ==
    /\ s \in [version : Nat, credits : Int, sys : STRING, world : STRING, fuel : Nat, hull : Int,
               ships : [DOMAIN s.ships -> Hulls], active : STRING, unlocked : SUBSET STRING,
               stock : Seq(Devices), permit : BOOLEAN, log : Seq([what : STRING, sys : STRING]),
               rating : Int, visited : SUBSET STRING, runs : Nat, live : BOOLEAN]
    /\ IsFiniteSet(DOMAIN s.ships)

Lacks(list, items) == \A i \in DOMAIN list : list[i] = None \/ list[i].item \notin items
Without(s, items) ==
    /\ Lacks(s.stock, items)
    /\ \A id \in DOMAIN s.ships : Lacks(s.ships[id].slots, items) /\ Lacks(s.ships[id].internal, items)

\* What the releases up to this one wrote: the hull flown is one of the
\* hulls, none with more internal slots than its model has, nor with a second
\* one before there was any, a weapon never in an internal slot, a device only
\* while it was sold, the pilot in the system of the world he is at, and that
\* system among the visited ones since there are any.
Written(s) ==
    /\ IsSave(s) /\ DOMAIN s.ships \subseteq STRING
    /\ s.active \in DOMAIN s.ships \/ DOMAIN s.ships = {}
    /\ \A id \in DOMAIN s.ships :
          LET ship == s.ships[id] IN
          /\ ship.model \in DOMAIN Models => Len(ship.internal) <= Models[ship.model]
          /\ s.version < 8 => Len(ship.internal) <= 1
          /\ Lacks(ship.internal, {"mass_driver"})
    /\ s.world = "" \/ s.sys \in {"", s.world}
    /\ s.version >= 5 => Without(s, {"chaff"})
    /\ s.version >= 7 => Without(s, {"mass_driver"})
    /\ s.version >= 8 => Without(s, {"jump_drive"}) /\ s.sys # "" /\ s.sys \in s.visited

\* The names the codec itself writes, for the provers, which do not know
\* what a string is.
ASSUME NamesAssumption ==
    {"", Home, Starter, "none", "full", "burst", "chaff", "emp_launcher", "mass_driver",
     "missile_launcher"} \subseteq STRING

\* A later release may have written anything.
ASSUME RowsAssumption ==
    /\ None \notin Devices
    /\ \A r \in Rows : r.version \in Nat /\ (r.version <= StateVersion => Written(r))

VARIABLES
    row,      \* the saves row
    mem,      \* the state a process plays, None without a process
    catalog   \* content.Ships of the release that runs

vars == <<row, mem, catalog>>

Device(item, fuel, load) == [item |-> item, fuel |-> fuel, load |-> load]
Is(d, item) == d # None /\ d.item = item

Least(a, b) == IF a < b THEN a ELSE b
Clamp(v, hi) == IF v < 0 THEN 0 ELSE Least(v, hi)

\* f applied to every device of a list, empty slots left alone
Each(f(_), list) == [i \in DOMAIN list |-> IF list[i] = None THEN None ELSE f(list[i])]

\* f applied to every hull of a save, given its id
EachShip(s, f(_)) == [s EXCEPT !.ships = [id \in DOMAIN @ |-> f(id)]]

-----------------------------------------------------------------------------
(* The condition of a hull. *)

Tanks(list) == {i \in DOMAIN list : Is(list[i], "fuel_tank")}
FuelCapacity(ship) == StartFuel + TankSize * Cardinality(Tanks(ship.slots))

\* what of its fuel a hull can hold, and all that is written in it
FuelAmount(ship) ==
    Clamp(ship.base, StartFuel)
      + SumFunction([i \in Tanks(ship.slots) |-> Clamp(ship.slots[i].fuel, TankSize)])
FuelAboard(ship) ==
    ship.base + SumFunction([i \in Tanks(ship.slots) |-> ship.slots[i].fuel])

\* setFuelAmountFor: tanks in slot order, the rest to the hull's reserve
SetFuelAmount(ship, amount) ==
    LET total == Clamp(amount, FuelCapacity(ship))
        before(i) == TankSize * Cardinality({j \in Tanks(ship.slots) : j < i})
        share(i) == Clamp(total - before(i), TankSize)
    IN [ship EXCEPT
          !.slots = [i \in DOMAIN @ |-> IF i \in Tanks(@) THEN [@[i] EXCEPT !.fuel = share(i)] ELSE @[i]],
          !.base = Clamp(total - TankSize * Cardinality(Tanks(ship.slots)), StartFuel)]

\* syncActiveConditionMirror
SyncMirror(s) ==
    LET ship == s.ships[s.active]
        sound == [ship EXCEPT
                    !.base = Clamp(@, StartFuel), !.hull = Clamp(@, MaxHull),
                    !.slots = Each(LAMBDA d : IF d.item = "fuel_tank"
                                              THEN [d EXCEPT !.fuel = Clamp(@, TankSize)] ELSE d, @)]
    IN [s EXCEPT !.ships[s.active] = sound, !.fuel = FuelAmount(sound), !.hull = sound.hull]

NormalizeShipCondition(ship) == SetFuelAmount([ship EXCEPT !.hull = Clamp(@, MaxHull)], FuelAmount(ship))

MissileCapacity == 1
Missiles(list, f(_)) ==
    Each(LAMBDA d : IF d.item = "missile_launcher" THEN [d EXCEPT !.load = f(@)] ELSE d, list)

\* mutant: every load rearms the launchers
NormalizeShipMissiles_Rearms(ship) ==
    [ship EXCEPT !.slots = Missiles(@, LAMBDA n : MissileCapacity)]

NormalizeShipMissiles(ship) ==
    [ship EXCEPT !.slots = Missiles(@, LAMBDA n : Clamp(n, MissileCapacity))]
RearmMissiles(ship) ==
    [ship EXCEPT !.slots = Missiles(@, LAMBDA n : MissileCapacity)]

Shielded(ship) == \E i \in DOMAIN ship.slots : Is(ship.slots[i], "shield")
RestoreShieldFull(ship) == IF Shielded(ship) THEN [ship EXCEPT !.shield = "full"] ELSE ship

FreshShip(m, sys) ==
    [model |-> m, sys |-> sys, hull |-> MaxHull, base |-> StartFuel, shield |-> "none",
     slots |-> <<None, None>>, internal |-> [i \in 1 .. Models[m] |-> None]]

GrantStarterShip(s) ==
    [s EXCEPT !.ships = [id \in {Starter} |-> FreshShip(Starter, s.sys)],
              !.active = Starter, !.unlocked = @ \cup {Starter}]

-----------------------------------------------------------------------------
(* The migrations, each from the releases before it. *)

\* A drive sits on a shelf, in an internal slot or in a slot of its own.
Drives(list) == {i \in DOMAIN list : Is(list[i], "jump_drive")}
DriveCount(s) ==
    Cardinality(Drives(s.stock))
      + SumFunction([id \in DOMAIN s.ships |-> Cardinality(Drives(s.ships[id].slots))
                                                  + Cardinality(Drives(s.ships[id].internal))])

NoDrive(list) == [i \in DOMAIN list |-> IF i \in Drives(list) THEN None ELSE list[i]]

\* the devices of a list that are no drives, in their order
Kept(list) ==
    LET kept == DOMAIN list \ Drives(list)
        at(n) == CHOOSE i \in kept : Cardinality({j \in kept : j <= i}) = n
    IN [n \in 1 .. Cardinality(kept) |-> list[at(n)]]

\* retireLegacyDrives: before the document is decoded
RetireLegacyDrives(s) ==
    IF s.version >= 8 THEN s
    ELSE [EachShip(s, LAMBDA id : [s.ships[id] EXCEPT !.slots = NoDrive(@), !.internal = NoDrive(@)])
            EXCEPT !.stock = Kept(@),
                   !.permit = FALSE]

\* an item renamed, and loaded, on the shelf, in the slots of every hull and
\* in those of its internal slots that the migration looks into
Renamed(s, old, new, looked) ==
    LET rename(d) == IF d.item = old THEN [d EXCEPT !.item = new, !.load = 1] ELSE d
        renamed(list) == Each(rename, list)
    IN [EachShip(s, LAMBDA id :
          [s.ships[id] EXCEPT !.slots = renamed(@),
             !.internal = [i \in DOMAIN @ |-> IF i \in looked THEN renamed(@)[i] ELSE @[i]]])
          EXCEPT !.stock = renamed(@)]

\* mutant: only fitted launchers are renamed
MigrateEMPLaunchers_Fitted(s) == [Renamed(s, "chaff", "emp_launcher", {1}) EXCEPT !.stock = s.stock]

MigrateEMPLaunchers(s) == Renamed(s, "chaff", "emp_launcher", {1})

\* the active hull takes the aggregates; parked hulls were kept serviced
MigrateShipConditions(s) ==
    EachShip(s, LAMBDA id :
        IF id = s.active
        THEN SetFuelAmount([s.ships[id] EXCEPT !.hull = Clamp(s.hull, MaxHull)], s.fuel)
        ELSE SetFuelAmount([s.ships[id] EXCEPT !.hull = MaxHull], FuelCapacity(s.ships[id])))

MigrateUpgradeRework(s) ==
    LET t == Renamed(s, "mass_driver", "missile_launcher", {})
    IN EachShip(t, LAMBDA id : RearmMissiles(t.ships[id]))

Survived(log) == Cardinality({i \in DOMAIN log : log[i].what = "survived"})

\* mutant: the drives are counted in the decoded save, which has none
MigrateFrontier_LateCount(s, drives, permit) ==
    [EachShip(s, LAMBDA id : [s.ships[id] EXCEPT !.sys = s.sys])
       EXCEPT !.rating = IF DriveCount(s) > 0 \/ permit THEN 0 ELSE -1,
              !.visited = @ \cup {Home, s.sys} \cup {r.sys : r \in ToSet(s.log)},
              !.runs = @ + Survived(s.log)]

\* The first drive is what the rating cost; the log proves visits and runs.
MigrateFrontier(s, drives, permit) ==
    [EachShip(s, LAMBDA id : [s.ships[id] EXCEPT !.sys = s.sys])
       EXCEPT !.rating = IF drives > 0 \/ permit THEN 0 ELSE -1,
              !.credits = @ + (IF drives > 1 THEN (drives - 1) * Refund ELSE 0),
              !.visited = @ \cup {Home, s.sys} \cup {r.sys : r \in ToSet(s.log)},
              !.runs = @ + Survived(s.log)]

-----------------------------------------------------------------------------
(* Encode and DecodeState. *)

\* the live run, the scan and the god mode stay behind; the mirrors follow
Encode(s) ==
    [s EXCEPT !.live = FALSE, !.hull = s.ships[s.active].hull, !.fuel = FuelAboard(s.ships[s.active])]

Known(s, id) == s.ships[id].model \in catalog
Resolvable(s) == s.active \in DOMAIN s.ships /\ Known(s, s.active)

\* A save without a hull to fly starts over on a Skiff; otherwise hulls no
\* longer in the catalogue are dropped.
Fleet(s) ==
    IF Resolvable(s)
    THEN LET gone == {id \in DOMAIN s.ships : ~Known(s, id)}
         IN [s EXCEPT !.ships = [id \in DOMAIN @ \ gone |-> @[id]], !.unlocked = @ \ gone]
    ELSE [GrantStarterShip(s) EXCEPT !.fuel = StartFuel, !.hull = MaxHull]

Conditions(s, v) ==
    IF v < 6 THEN SyncMirror(MigrateShipConditions(s))
    ELSE SyncMirror(EachShip(s, LAMBDA id : NormalizeShipCondition(s.ships[id])))

Upgrades(s, v) ==
    IF v < 7 THEN MigrateUpgradeRework(s)
    ELSE EachShip(s, LAMBDA id : NormalizeShipMissiles(s.ships[id]))

\* every internal slot of the model, none taken away, and every hull somewhere
Padded(ship, sys) ==
    [ship EXCEPT !.sys = IF @ = "" THEN sys ELSE @,
                 !.internal = [i \in DOMAIN @ \cup 1 .. Models[ship.model] |->
                                IF i \in DOMAIN @ THEN @[i] ELSE None]]

\* a save of no system is of the one of its world, else of the first
Upgraded(s) ==
    [s EXCEPT !.version = StateVersion,
              !.sys = IF @ # "" THEN @ ELSE IF s.world # "" THEN s.world ELSE Home]

DecodeState(doc) ==
    LET v  == doc.version
        s1 == Fleet(Upgraded(RetireLegacyDrives(doc)))
        s2 == [s1 EXCEPT !.live = FALSE]
        s3 == IF v < 3 THEN EachShip(s2, LAMBDA id : RestoreShieldFull(s2.ships[id])) ELSE s2
        s4 == IF v < 5 THEN MigrateEMPLaunchers(s3) ELSE s3
        s5 == Upgrades(Conditions(s4, v), v)
        s6 == IF v < 8 THEN MigrateFrontier(s5, DriveCount(doc), doc.permit) ELSE s5
    IN SyncMirror(EachShip(s6, LAMBDA id : Padded(s6.ships[id], s6.sys)))

\* New, the save of a pilot first seen
NewState ==
    LET s == [version |-> StateVersion, credits |-> 0, sys |-> Home, world |-> "", fuel |-> StartFuel,
              hull |-> MaxHull, ships |-> <<>>, active |-> "", unlocked |-> {}, stock |-> <<>>,
              permit |-> FALSE, log |-> <<>>, rating |-> -1, visited |-> {Home}, runs |-> 0,
              live |-> FALSE]
    IN GrantStarterShip(s)

-----------------------------------------------------------------------------
Init ==
    /\ row \in Rows \cup {Encode(NewState)}
    /\ mem = None
    /\ catalog \in Catalogs

\* LoadOrCreateSave: a row of a later release is an error, and stays
Load ==
    /\ mem = None /\ row.version <= StateVersion
    /\ mem' = DecodeState(row)
    /\ UNCHANGED <<row, catalog>>

Store ==
    /\ mem # None
    /\ row' = Encode(mem)
    /\ UNCHANGED <<mem, catalog>>

\* The process ends, saved or not, and another release may start.
Stop ==
    /\ mem # None
    /\ mem' = None
    /\ catalog' \in Catalogs
    /\ UNCHANGED row

Flown == mem.ships[mem.active]
Flying(ship) == mem' = SyncMirror([mem EXCEPT !.ships[mem.active] = ship]) /\ UNCHANGED <<row, catalog>>

\* ConsumeFuel of one unit: the first tank that has any, else the reserve
Burn ==
    LET full == {i \in Tanks(Flown.slots) : Flown.slots[i].fuel > 0}
    IN /\ mem # None /\ FuelAmount(Flown) > 0
       /\ Flying(IF full = {} THEN [Flown EXCEPT !.base = @ - 1]
                 ELSE [Flown EXCEPT !.slots[Min(full)].fuel = @ - 1])

Hit == mem # None /\ mem.live /\ Flown.hull > 1 /\ Flying([Flown EXCEPT !.hull = @ - 1])

Fire ==
    /\ mem # None /\ mem.live
    /\ \E i \in DOMAIN Flown.slots :
          /\ Is(Flown.slots[i], "missile_launcher") /\ Flown.slots[i].load > 0
          /\ Flying([Flown EXCEPT !.slots[i].load = @ - 1])

ShieldDown == mem # None /\ mem.live /\ Flown.shield = "full" /\ Flying([Flown EXCEPT !.shield = "burst"])

\* a run begins or ends; a hull of the hangar is boarded
Run == mem # None /\ mem' = [mem EXCEPT !.live = ~@] /\ UNCHANGED <<row, catalog>>
Board ==
    /\ mem # None /\ ~mem.live
    /\ \E id \in DOMAIN mem.ships \ {mem.active} : mem' = SyncMirror([mem EXCEPT !.active = id])
    /\ UNCHANGED <<row, catalog>>

Play == Burn \/ Hit \/ Fire \/ ShieldDown \/ Run \/ Board

Next == Load \/ Store \/ Stop \/ Play

Spec == Init /\ [][Next]_vars

-----------------------------------------------------------------------------
(* Properties. *)

Retired == {"jump_drive", "chaff", "mass_driver"}

\* What is played is complete, whatever release wrote the row and whatever
\* the catalogue lost since: a hull to fly, every hull of a model on offer,
\* somewhere, with all its slots and in a condition within its limits, no
\* retired device left on a hull or on the shelf, and the pilot in a system
\* he has visited, the one of the world he is at.
LoadedIsWhole ==
    mem # None =>
        /\ mem.version = StateVersion /\ Resolvable(mem)
        /\ mem.sys \in mem.visited /\ mem.world \in {"", mem.sys}
        /\ Lacks(mem.stock, Retired)
        /\ \A id \in DOMAIN mem.ships :
              LET ship == mem.ships[id] IN
              /\ Known(mem, id) /\ ship.sys # ""
              /\ ship.hull \in 0 .. MaxHull /\ ship.base \in 0 .. StartFuel
              /\ \A i \in Tanks(ship.slots) : ship.slots[i].fuel \in 0 .. TankSize
              /\ Len(ship.internal) = Models[ship.model]
              /\ Lacks(ship.slots, Retired) /\ Lacks(ship.internal, Retired)

Fittings(list) == Cardinality({i \in DOMAIN list : list[i] # None /\ list[i].item # "jump_drive"})

\* What a pilot may count on: credits with the refund still due, add-ons,
\* the jump class, the survived runs that count for the next one.
Holdings(s) ==
    [credits |-> s.credits + (IF s.version < 8 /\ DriveCount(s) > 1
                              THEN (DriveCount(s) - 1) * Refund ELSE 0),
     addons  |-> Fittings(s.stock) + SumFunction([id \in DOMAIN s.ships |->
                 Fittings(s.ships[id].slots) + Fittings(s.ships[id].internal)]),
     class   |-> IF s.version >= 8 THEN s.rating
                 ELSE IF DriveCount(s) > 0 \/ s.permit THEN 0 ELSE -1,
     runs    |-> s.runs + (IF s.version >= 8 THEN 0
                           ELSE Survived(s.log))]

\* the holdings of a hull no longer on offer go with it
HullsOnOffer(s) == \A id \in DOMAIN s.ships : Known(s, id)

\* the fuel of the hull flown, of which older releases keep one number
SavedFuel(s) == IF s.version < 6 THEN s.fuel ELSE FuelAmount(s.ships[s.active])

\* Loading gives a pilot whose hulls are all on offer exactly what the row is
\* worth, and gives it once, however often a process dies before writing an
\* upgrade and the next one upgrades the old row again.  A hull flown that is
\* on offer gets the fuel the row has for it, what its reserve and each of its
\* tanks hold of it: more than that in one of them is cut, never moved.
HoldingsSurvive ==
    [][ mem = None /\ mem' # None =>
          /\ HullsOnOffer(row) => Holdings(mem') = Holdings(row)
          /\ Resolvable(row) =>
                LET ship == mem'.ships[mem'.active]
                IN FuelAmount(ship) = Least(FuelCapacity(ship), SavedFuel(row)) ]_vars

\* the fuel of each hull in its tanks first
Settled(s) == EachShip(s, LAMBDA id : SetFuelAmount(s.ships[id], FuelAmount(s.ships[id])))

\* A restart changes nothing a pilot has: what is played now, written and
\* read back, is the same save, without the run and with each hull's fuel
\* moved into its tanks.
ReloadIsFaithful ==
    mem # None => DecodeState(Encode(mem)) = [Settled(mem) EXCEPT !.live = FALSE,
                                                 !.fuel = FuelAmount(Flown), !.hull = Flown.hull]

=============================================================================
