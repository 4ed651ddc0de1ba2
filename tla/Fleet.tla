-------------------------------- MODULE Fleet --------------------------------
(***************************************************************************)
(* What a pilot owns and where it is: internal/sim's ships.go, slots.go,   *)
(* economy.go, frontier.go, jump.go and ferry.go, with the route rules of  *)
(* derive.go and the two ends of a trip of belt.go and run.go.             *)
(*                                                                         *)
(* Every handler is one action; a call the code refuses is no step.  What  *)
(* happens at a belt is MiningRun's: here a run is the one step that       *)
(* leaves its result behind, whatever a run may leave.                     *)
(*                                                                         *)
(* Grain: one ore unit is worth one credit and fills one unit of the hold; *)
(* fuel and hull are whole points; a device is loaded or spent.            *)
(***************************************************************************)
EXTENDS Integers, Sequences, FiniteSets, SequencesExt, FiniteSetsExt

CONSTANTS
    Systems,      \* the system ids, a sequence in sorted order
    NeedRating,   \* required_rating of a system, -1: open
    Gates,        \* records [from, to, rating, fuel, stress, misalign]
    Worlds,       \* destination id -> [sys, travel, open, fee, class, tank]
    Models,       \* model id -> the content.ShipModel the model needs
    Items,        \* device id -> [kind, price, power, mass]
    Ratings,      \* jump class -> [certifyIn, price, runsAt, need]
    Tracks,       \* the stat tracks offered
    MaxGrade,     \* the top grade
    StartFuel, StartHull,      \* the base tank and the base hull of any ship
    StartCredits, StartRating, \* credits and jump class of the pilot at first
    LegacyCargo,               \* cargo of an old save, which has no origin
    RefuelPerPoint, RepairPerPoint, FerryMarkup,
    SalvageAdvance, SalvageThreshold,   \* the insurance advance
    MaxCredits, MaxDevices, MaxShips, MaxSkiffs, MaxVouchers   \* bounds of the instance

Starter == "skiff"
SystemSet == Range(Systems)
Home == Systems[1]
NoWorld == ""

\* per point of capacity and power: [fleet] and [slots] of balance.toml
PowerBase == 2
CargoPerGrade == 1
TankPerGrade == 1
HullPerGrade == 1

Kinds == {"utility", "weapon", "internal"}
Empty == [item |-> "none", grade |-> 0, fuel |-> 0, ready |-> FALSE]
NewDevice(item, g) == [item |-> item, grade |-> g, fuel |-> 0, ready |-> FALSE]

\* the devices that are loaded at a dock and spent at a belt
Consumables == {"shield", "emp_launcher", "pirate_jammer", "missile_launcher"}

\* what FrontierRecord counts for a system
Deeds == {"sold", "runs", "pirates", "legendaries"}

GateBetween(a, b) == {g \in Gates : {g.from, g.to} = {a, b}}

-----------------------------------------------------------------------------
(* What content.Load insists on. *)

\* A new pilot is alive, may be where they are, and has a tank; an old save
\* has no more cargo than its Skiff takes.
PilotValid ==
    /\ {StartFuel, StartHull} \subseteq Nat \ {0} /\ StartCredits \in Nat
    /\ LegacyCargo \in 0 .. Models[Starter].cargo
    /\ Systems \in Seq(SystemSet) /\ Home \in SystemSet
    /\ \A i, j \in DOMAIN Systems : Systems[i] = Systems[j] => i = j
    /\ NeedRating \in [SystemSet -> Int]
    /\ StartRating \in Int /\ NeedRating[Home] <= StartRating

ShipsValid ==
    /\ Starter \in DOMAIN Models /\ Models[Starter].price = 0
    /\ {"hull", "power"} \subseteq Tracks
    /\ \A m \in DOMAIN Models :
          /\ {Models[m].price, Models[m].tier} \subseteq Nat
          /\ {Models[m].mass, Models[m].cargo} \subseteq Nat \ {0}
          /\ Models[m].slots \in [Kinds -> Nat] /\ Models[m].slots["internal"] \in 1 .. 2
          /\ Models[m].start \in [Tracks -> Nat] /\ Models[m].dockRepair \in Nat
          /\ \A t \in Tracks : Models[m].start[t] <= Models[m].cap[t] /\ Models[m].cap[t] <= MaxGrade
          /\ Models[m].soldIn # {} /\ Models[m].soldIn \subseteq SystemSet

WorldsValid ==
    \A d \in DOMAIN Worlds :
        /\ Worlds[d].sys \in SystemSet
        /\ Worlds[d].travel \in Nat \ {0} /\ {Worlds[d].fee, Worlds[d].tank} \subseteq Nat

\* no gate strands the free Skiff; ratings and gates form one ladder
NetworkValid ==
    /\ \A g \in Gates :
          /\ g.from \in SystemSet /\ g.to \in SystemSet /\ g.from # g.to
          /\ Cardinality(GateBetween(g.from, g.to)) = 1
          /\ g.rating = Max({NeedRating[g.from], NeedRating[g.to]})
          /\ {g.fuel, g.stress} \subseteq Nat \ {0}
          /\ g.rating < 2 => ~g.misalign
          /\ g.fuel * Models[Starter].mass < StartFuel
    /\ \A r \in DOMAIN Ratings :
          /\ \E g \in Gates : g.rating = r /\ Ratings[r].certifyIn \in {g.from, g.to}
          /\ NeedRating[Ratings[r].certifyIn] = r - 1
          /\ Ratings[r].price \in Nat \ {0} /\ Ratings[r].need \in [Deeds -> Nat]
          /\ \E d \in Deeds : Ratings[r].need[d] > 0
          /\ Ratings[r].need["runs"] > 0 => Worlds[Ratings[r].runsAt].sys = Ratings[r].certifyIn

ASSUME ContentAssumption == PilotValid /\ ShipsValid /\ WorldsValid /\ NetworkValid

\* What balance.toml gives of every device and service; content.Load insists
\* on it for some of them only.
ASSUME DevicesAssumption ==
    /\ MaxGrade \in Nat /\ Empty.item \notin DOMAIN Items
    /\ \A i \in DOMAIN Items : {Items[i].price, Items[i].power, Items[i].mass} \subseteq Nat
    /\ {RefuelPerPoint, RepairPerPoint} \subseteq Nat \ {0}
    /\ {FerryMarkup, SalvageAdvance} \subseteq Nat

VARIABLES
    ships,    \* State.Ships: id -> ShipInstance
    active,   \* State.ActiveShipID
    at,       \* State.SystemID
    world,    \* the belt the pilot is at, NoWorld at a dock
    credits,  \* State.Credits
    used,     \* Settings.InsuranceUsed
    hold,     \* cargo value, its origins, bounty vouchers
    stock,    \* State.Inventory
    career    \* permits, rating, systems visited, gates crossed, deeds, models owned and lost

vars == <<ships, active, at, world, credits, used, hold, stock, career>>

(* An id is the model's own, or skiff@<system>[-n] for an earlier Skiff.    *)
(* Only the former names a model of the catalogue (content.ShipByID).       *)
CatalogID(m) == <<m, "", 0>>
RescueID(sys, n) == <<Starter, sys, n>>
InCatalog(id) == id[2] = ""

Docked == world = NoWorld
Owned == DOMAIN ships
LocalShips == {id \in Owned : ships[id].sys = at}

-----------------------------------------------------------------------------
(* What a hull and its devices add up to. *)

Slots(m) == UNION {{<<k, i>> : i \in 1 .. Models[m].slots[k]} : k \in Kinds}
Fitted(inst, item) == {x \in DOMAIN inst.slots : inst.slots[x].item = item}
Devices(inst) == {x \in DOMAIN inst.slots : inst.slots[x] # Empty}

SlotItemPrice(item, g) == Items[item].price * 2 ^ g
\* sell_value_pct of the price, here a half, rounded to the nearest credit
SlotItemSellValue(item, g) == (SlotItemPrice(item, g) + 1) \div 2
SlotItemPower(item, g) == Items[item].power * (g + 1)
SlotItemMass(item, g) == Items[item].mass * (g + 1)

InstalledPower(inst) ==
    SumFunction([x \in Devices(inst) |-> SlotItemPower(inst.slots[x].item, inst.slots[x].grade)])
InstalledMass(inst) ==
    Models[inst.model].mass
      + SumFunction([x \in Devices(inst) |-> SlotItemMass(inst.slots[x].item, inst.slots[x].grade)])
PowerCapacity(inst) == PowerBase + inst.grade["power"]
CargoCapacityUnits(inst) ==
    Models[inst.model].cargo
      + SumFunction([x \in Fitted(inst, "cargo") |-> CargoPerGrade * (inst.slots[x].grade + 1)])
MaxHull(inst) == StartHull + HullPerGrade * inst.grade["hull"]

FuelTankCapacity(d) == IF d.item = "fuel_tank" THEN TankPerGrade * (d.grade + 1) ELSE 0
FuelCapacity(inst) ==
    StartFuel + SumFunction([x \in Fitted(inst, "fuel_tank") |-> FuelTankCapacity(inst.slots[x])])
FuelIn(inst, tanks) == SumFunction([x \in tanks |-> inst.slots[x].fuel])
FuelAmount(inst) == inst.fuel + FuelIn(inst, Fitted(inst, "fuel_tank"))

FuelRoom(inst, x) == FuelTankCapacity(inst.slots[x]) - inst.slots[x].fuel
RoomIn(inst, tanks) == SumFunction([x \in tanks |-> FuelRoom(inst, x)])

\* what the tanks in earlier slots take of an amount: their share comes first
TanksBefore(inst, x) == {y \in Fitted(inst, "fuel_tank") : y[2] < x[2]}

Least(a, b) == IF a < b THEN a ELSE b
Most(a, b) == IF a > b THEN a ELSE b

\* tanks in slot order, then the hull's own reserve
ConsumeFuel(inst, n) ==
    LET left(tanks) == Most(0, n - FuelIn(inst, tanks))
    IN [inst EXCEPT
          !.slots = [x \in DOMAIN inst.slots |->
                        [inst.slots[x] EXCEPT !.fuel = Most(0, @ - left(TanksBefore(inst, x)))]],
          !.fuel = Most(0, @ - left(Fitted(inst, "fuel_tank")))]

\* mutant: everything goes to the hull's reserve
AddFuel_HullOnly(inst, n) == [inst EXCEPT !.fuel = @ + n]

AddFuel(inst, n) ==
    LET left(tanks) == Most(0, n - RoomIn(inst, tanks))
    IN [inst EXCEPT
          !.slots = [x \in DOMAIN inst.slots |->
                        IF inst.slots[x].item = "fuel_tank"
                        THEN [inst.slots[x] EXCEPT
                                 !.fuel = @ + Least(FuelRoom(inst, x), left(TanksBefore(inst, x)))]
                        ELSE inst.slots[x]],
          !.fuel = Least(StartFuel, @ + left(Fitted(inst, "fuel_tank")))]

Loaded(inst, items) ==
    [inst EXCEPT !.slots = [x \in DOMAIN inst.slots |->
        IF inst.slots[x].item \in items THEN [inst.slots[x] EXCEPT !.ready = TRUE]
        ELSE inst.slots[x]]]

-----------------------------------------------------------------------------
(* The shipyard: devices bought, sold, stored, exchanged. *)

SlotItemIsUnique(item) ==
    item \in {"shield", "seismic_overcharge"} \/ Items[item].kind = "internal"

\* a slot of the device's kind, on a model that may carry it
Takes(inst, x, item) ==
    x[1] = Items[item].kind /\ ~(item = "shield" /\ Models[inst.model].noShield)

\* kind, model, slot and uniqueness: what every installation asks of a slot
Accepts(inst, x, item) ==
    /\ x \in DOMAIN inst.slots /\ Takes(inst, x, item)
    /\ SlotItemIsUnique(item) => Fitted(inst, item) \subseteq {x}

\* mutant: the device that goes out is counted too
Powers_OldCounted(inst, x, item, g) ==
    InstalledPower(inst) <= PowerCapacity(inst)

Powers(inst, x, item, g) ==
    InstalledPower([inst EXCEPT !.slots[x] = Empty]) + SlotItemPower(item, g) <= PowerCapacity(inst)

\* the device in its slot, and finishDeviceInstallation's free loading
Install(inst, x, d) ==
    LET f == [inst EXCEPT !.slots[x] = d]
    IN IF d.item = "missile_launcher" THEN Loaded(f, {d.item})
       ELSE IF d.item \in Consumables THEN [f EXCEPT !.slots[x].ready = TRUE]
       ELSE f

\* mutant: the hold of the ship is not asked
HoldFitsWithout_Unchecked(id, x, new) == TRUE

\* validateDeviceRemovalCargo, validateCargoAfterReplacement: the hold of
\* the ship being flown must still take the cargo
HoldFitsWithout(id, x, new) ==
    id = active => hold.value <= CargoCapacityUnits([ships[id] EXCEPT !.slots[x] = new])

DeviceCount == Len(stock) + SumFunction([id \in Owned |-> Cardinality(Devices(ships[id]))])

InstallSlotDevice(id, x, item, g) ==
    /\ Docked /\ id \in LocalShips
    /\ Accepts(ships[id], x, item) /\ ships[id].slots[x] = Empty
    /\ credits >= SlotItemPrice(item, g)
    /\ Powers(ships[id], x, item, g)
    /\ DeviceCount < MaxDevices
    /\ credits' = credits - SlotItemPrice(item, g)
    /\ ships' = [ships EXCEPT ![id] = Install(@, x, NewDevice(item, g))]
    /\ UNCHANGED <<active, at, world, used, hold, stock, career>>

StoreSlotDevice(id, x) ==
    /\ Docked /\ id \in LocalShips
    /\ x \in Devices(ships[id]) /\ HoldFitsWithout(id, x, Empty)
    /\ stock' = Append(stock, ships[id].slots[x])
    /\ ships' = [ships EXCEPT ![id].slots[x] = Empty]
    /\ UNCHANGED <<active, at, world, credits, used, hold, career>>

SellSlotDevice(id, x) ==
    /\ Docked /\ id \in LocalShips
    /\ x \in Devices(ships[id]) /\ HoldFitsWithout(id, x, Empty)
    /\ credits' = credits + SlotItemSellValue(ships[id].slots[x].item, ships[id].slots[x].grade)
    /\ ships' = [ships EXCEPT ![id].slots[x] = Empty]
    /\ UNCHANGED <<active, at, world, used, hold, stock, career>>

\* mutant: the refund is the price
ReplaceSlotDeviceWithPurchase_FullRefund(id, x, item, g) ==
    LET old == ships[id].slots[x]
        refund == SlotItemPrice(old.item, old.grade)
    IN /\ Docked /\ id \in LocalShips /\ x \in Devices(ships[id])
       /\ Accepts(ships[id], x, item)
       /\ credits' = credits + refund - SlotItemPrice(item, g) /\ credits' >= 0
       /\ ships' = [ships EXCEPT ![id] = Install(@, x, NewDevice(item, g))]
       /\ UNCHANGED <<active, at, world, used, hold, stock, career>>

\* the old device is sold and the new one bought in one transaction
ReplaceSlotDeviceWithPurchase(id, x, item, g) ==
    LET old == ships[id].slots[x]
        refund == SlotItemSellValue(old.item, old.grade)
    IN /\ Docked /\ id \in LocalShips /\ x \in Devices(ships[id])
       /\ Accepts(ships[id], x, item)
       /\ HoldFitsWithout(id, x, NewDevice(item, g))
       /\ Powers(ships[id], x, item, g)
       /\ credits + refund >= SlotItemPrice(item, g)
       /\ credits' = credits + refund - SlotItemPrice(item, g)
       /\ ships' = [ships EXCEPT ![id] = Install(@, x, NewDevice(item, g))]
       /\ UNCHANGED <<active, at, world, used, hold, stock, career>>

InstallSlotDeviceFromInventory(id, x, i) ==
    /\ Docked /\ id \in LocalShips /\ i \in DOMAIN stock
    /\ Accepts(ships[id], x, stock[i].item) /\ ships[id].slots[x] = Empty
    /\ Powers(ships[id], x, stock[i].item, stock[i].grade)
    /\ ships' = [ships EXCEPT ![id] = Install(@, x, stock[i])]
    /\ stock' = RemoveAt(stock, i)
    /\ UNCHANGED <<active, at, world, credits, used, hold, career>>

TrackPrice(inst, t) == Models[inst.model].tier * 2 ^ inst.grade[t]

BuyShipTrack(id, t) ==
    LET inst == ships[id] IN
    /\ Docked /\ id \in LocalShips
    /\ inst.grade[t] < Models[inst.model].cap[t]
    /\ credits >= TrackPrice(inst, t)
    /\ credits' = credits - TrackPrice(inst, t)
    /\ ships' = [ships EXCEPT ![id].grade[t] = @ + 1]
    /\ UNCHANGED <<active, at, world, used, hold, stock, career>>

-----------------------------------------------------------------------------
(* The hangar: hulls bought, boarded, lost. *)

\* fully serviced, all slots empty
FreshShipInstance(m, sys) ==
    [model |-> m, sys |-> sys, hull |-> StartHull + HullPerGrade * Models[m].start["hull"],
     fuel |-> StartFuel, grade |-> Models[m].start,
     slots |-> [x \in Slots(m) |-> Empty]]

With(fleet, id, inst) == [i \in DOMAIN fleet \cup {id} |-> IF i = id THEN inst ELSE fleet[i]]
Without(fleet, id) == [i \in DOMAIN fleet \ {id} |-> fleet[i]]

ShipAcquirePrice(m) ==
    IF ~Models[m].noBuyback /\ m \in career.unlocked
    THEN (Models[m].price + 1) \div 2
    ELSE Models[m].price

ShipSoldHere(m) ==
    \/ m = Starter
    \/ at \in Models[m].soldIn
    \/ ~Models[m].noBuyback /\ m \in career.unlocked /\ career.lostAt[m] = at

\* mutant: the Skiff left elsewhere is overwritten
GrantStarterShip_Overwrites(fleet) ==
    {With(fleet, CatalogID(Starter), FreshShipInstance(Starter, at))}

\* a Skiff left in another system keeps its place under a name of its own
GrantStarterShip(fleet) ==
    LET old  == CatalogID(Starter)
        here == FreshShipInstance(Starter, at)
        free == {n \in 1 .. MaxSkiffs : RescueID(fleet[old].sys, n) \notin DOMAIN fleet}
    IN IF old \in DOMAIN fleet /\ fleet[old].sys # at
       THEN {With(With(fleet, RescueID(fleet[old].sys, n), fleet[old]), old, here) :
                 n \in {k \in free : \A l \in free : k <= l}}
       ELSE {With(fleet, old, here)}

\* the first Skiff of a dock is a gift; anything else is bought, not boarded
AcquireShip(m) ==
    /\ Docked
    /\ IF m = Starter /\ LocalShips = {}
       THEN /\ ships' \in GrantStarterShip(ships)
            /\ active' = CatalogID(m)
            /\ UNCHANGED <<credits, used>>
       ELSE /\ CatalogID(m) \notin Owned /\ ShipSoldHere(m)
            /\ credits >= ShipAcquirePrice(m)
            /\ Cardinality(Owned) < MaxShips
            /\ credits' = credits - ShipAcquirePrice(m)
            /\ ships' = With(ships, CatalogID(m), FreshShipInstance(m, at))
            /\ used' = (used /\ ShipAcquirePrice(m) = 0)
            /\ UNCHANGED active
    /\ career' = [career EXCEPT !.unlocked = @ \cup {m}]
    /\ UNCHANGED <<at, world, hold, stock>>

SwitchActiveShip(id) ==
    /\ Docked /\ id \in LocalShips \ {active}
    /\ hold.value <= CargoCapacityUnits(ships[id])
    /\ active' = id
    /\ UNCHANGED <<ships, at, world, credits, used, hold, stock, career>>

\* the Skiff if it is here, else the dearest hull here (content.ShipByID
\* prices a renamed Skiff at nothing)
RecoveryShips(fleet) ==
    LET here == {id \in DOMAIN fleet : fleet[id].sys = at}
        worth(id) == IF InCatalog(id) THEN Models[id[1]].price ELSE 0
    IN IF CatalogID(Starter) \in here THEN {CatalogID(Starter)}
       ELSE {id \in here : \A i \in here : worth(i) <= worth(id)}

\* mutant: the best hull anywhere takes over
RespawnActiveShip_Anywhere(fleet) ==
    IF DOMAIN fleet # {} THEN ships' = fleet /\ active' \in DOMAIN fleet
    ELSE ships' \in GrantStarterShip(fleet) /\ active' = CatalogID(Starter)

\* the lost hull is gone; a hull here takes over, or a new Skiff does
RespawnActiveShip(fleet) ==
    IF RecoveryShips(fleet) # {}
    THEN ships' = fleet /\ active' \in RecoveryShips(fleet)
    ELSE ships' \in GrantStarterShip(fleet) /\ active' = CatalogID(Starter)

-----------------------------------------------------------------------------
(* A trip: out, one run and its outcome, back to the dock. *)

RouteOpen(d) ==
    LET w == Worlds[d] IN
    /\ w.sys = at
    /\ w.open \/ d \in career.permits
    /\ w.class = "" \/ (InCatalog(active) /\ Models[active[1]].class = w.class)
    /\ FuelCapacity(ships[active]) >= w.tank

Room == CargoCapacityUnits(ships[active]) - hold.value

Depart(d) ==
    /\ Docked /\ ships[active].hull > 0
    /\ Room > 0 /\ RouteOpen(d)
    /\ FuelAmount(ships[active]) >= Worlds[d].travel
    /\ ships' = [ships EXCEPT ![active] = ConsumeFuel(@, Worlds[d].travel)]
    /\ world' = d
    /\ UNCHANGED <<active, at, credits, used, hold, stock, career>>

Serviced(inst) == Loaded(inst, Consumables)

DockRepair(id) == IF InCatalog(id) THEN Models[id[1]].dockRepair ELSE 0

Patched(inst, id) ==
    [inst EXCEPT !.hull = Least(MaxHull(inst), inst.hull + DockRepair(id))]

Dock ==
    /\ ~Docked
    /\ world' = NoWorld
    /\ ships' = [ships EXCEPT ![active] = Serviced(Patched(ships[active], active))]
    /\ UNCHANGED <<active, at, credits, used, hold, stock, career>>

\* proportionalCargoLoss, rounded half up and clamped
ProportionalCargoLoss(demand, portion, total) ==
    IF demand <= 0 \/ portion <= 0 \/ total <= 0 THEN 0
    ELSE Least((2 * demand * portion + total) \div (2 * total), Least(demand, portion))

\* mutant: every origin pays its share of the whole, rounded on its own
ReduceCargoOrigins_NoCarry(origins, value, lost) ==
    [sys \in SystemSet |-> origins[sys] - ProportionalCargoLoss(lost, origins[sys], value)]

\* the loss goes down the origins in order, each on what is left of both
ReduceCargoOrigins(origins, value, lost) ==
    LET after[n \in 0 .. Len(Systems)] ==
            IF n = 0 THEN [origins |-> origins, value |-> value, loss |-> lost]
            ELSE LET acc == after[n - 1]
                     sys == Systems[n]
                     cut == ProportionalCargoLoss(acc.loss, origins[sys], acc.value)
                 IN [origins |-> [acc.origins EXCEPT ![sys] = @ - cut],
                     value |-> acc.value - origins[sys], loss |-> acc.loss - cut]
    IN after[Len(Systems)].origins

\* AcceptTribute: half of what is aboard, from the hold and the run alike
Tributed(h, mined) ==
    LET total  == h.value + mined
        demand == (total + 1) \div 2
        share  == ProportionalCargoLoss(demand, h.value, total)
        fromStored == Most(share, demand - mined)
    IN [hold |-> [h EXCEPT !.value = @ - fromStored,
                           !.origins = ReduceCargoOrigins(@, h.value, fromStored)],
        mined |-> mined - (demand - fromStored)]

Needed(sys, d) ==
    LET r == {c \in DOMAIN Ratings : Ratings[c].certifyIn = sys}
    IN SumFunction([c \in r |-> Ratings[c].need[d]])

\* counters stop at what a rating asks for: the code only compares them
Counted(deeds, sys, d, n) == [deeds EXCEPT ![sys][d] = Least(Needed(sys, d), @ + n)]

RunCounts(d) == \E c \in DOMAIN Ratings : Ratings[c].certifyIn = at /\ Ratings[c].runsAt = d

\* winCombat's and recordFrontierOutcome's part of the frontier record
Recorded(deeds, survived, pirate, legend) ==
    LET runs == Counted(deeds, at, "runs", IF survived /\ RunCounts(world) THEN 1 ELSE 0)
        kills == Counted(runs, at, "pirates", IF pirate THEN 1 ELSE 0)
    IN Counted(kills, at, "legendaries", IF legend THEN 1 ELSE 0)

\* fuel burnt, hull taken, devices spent: what MiningRun leaves of a ship
Worn(inst, burnt, hit, spent) ==
    ConsumeFuel([inst EXCEPT !.hull = @ - hit,
                   !.slots = [x \in DOMAIN inst.slots |->
                       IF x \in spent THEN [inst.slots[x] EXCEPT !.ready = FALSE]
                       ELSE inst.slots[x]]], burnt)

Expendable(inst) == {x \in DOMAIN inst.slots : inst.slots[x].item \in Consumables}

\* resolveRun for every outcome but ship_lost
RunSurvived(mined, tribute, burnt, hit, spent, pirate, legend) ==
    LET inst == ships[active]
        paid == IF tribute THEN Tributed(hold, mined) ELSE [hold |-> hold, mined |-> mined]
    IN /\ ~Docked
       /\ mined <= Room /\ burnt <= FuelAmount(inst) /\ hit < inst.hull
       /\ spent \subseteq Expendable(inst)
       /\ legend => mined > 0
       /\ pirate => hold.vouchers < MaxVouchers
       /\ ships' = [ships EXCEPT ![active] = Worn(@, burnt, hit, spent)]
       /\ hold' = [paid.hold EXCEPT !.value = @ + paid.mined,
                                    !.origins[at] = @ + paid.mined,
                                    !.vouchers = IF pirate THEN @ + 1 ELSE @]
       /\ career' = [career EXCEPT !.deeds = Recorded(@, TRUE, pirate, legend),
                                   !.hot = @ \ {at}]
       /\ UNCHANGED <<active, at, world, credits, used, stock>>

\* resolveRun for ship_lost: hold and hull are gone, vouchers are not
ShipLost(legend) ==
    /\ ~Docked
    /\ hold' = [hold EXCEPT !.value = 0, !.origins = [sys \in SystemSet |-> 0]]
    /\ career' = [career EXCEPT
          !.hot = @ \ {at},
          !.deeds = Recorded(@, FALSE, FALSE, legend),
          !.lostAt = [m \in DOMAIN @ |-> IF active = CatalogID(m) THEN at ELSE @[m]]]
    /\ RespawnActiveShip(Without(ships, active))
    /\ world' = NoWorld
    /\ UNCHANGED <<at, credits, used, stock>>

-----------------------------------------------------------------------------
(* The port's desk: cargo, fuel, hull, permits, the salvage advance. *)

SellCargo ==
    /\ Docked /\ hold.value + hold.vouchers > 0
    /\ credits + hold.value + hold.vouchers <= MaxCredits
    /\ credits' = credits + hold.value + hold.vouchers
    /\ hold' = [value |-> 0, origins |-> [sys \in SystemSet |-> 0], vouchers |-> 0]
    /\ career' = [career EXCEPT !.deeds = [sys \in SystemSet |->
          Counted(@, sys, "sold", hold.origins[sys])[sys]]]
    /\ used' = FALSE
    /\ UNCHANGED <<ships, active, at, world, stock>>

\* whole points, as many as the credits buy
RefuelPoints ==
    Least(credits \div RefuelPerPoint, FuelCapacity(ships[active]) - FuelAmount(ships[active]))

Refuel ==
    /\ Docked /\ RefuelPoints > 0
    /\ credits' = credits - RefuelPoints * RefuelPerPoint
    /\ ships' = [ships EXCEPT ![active] = AddFuel(@, RefuelPoints)]
    /\ UNCHANGED <<active, at, world, used, hold, stock, career>>

\* a hull at zero pays the dry dock's surcharge
RepairCost(inst) ==
    (MaxHull(inst) - inst.hull) * RepairPerPoint * (IF inst.hull = 0 THEN 2 ELSE 1)

Repair ==
    /\ Docked /\ ships[active].hull < MaxHull(ships[active])
    /\ credits >= RepairCost(ships[active])
    /\ credits' = credits - RepairCost(ships[active])
    /\ ships' = [ships EXCEPT ![active].hull = MaxHull(ships[active])]
    /\ UNCHANGED <<active, at, world, used, hold, stock, career>>

BuyDestinationPermit(d) ==
    /\ Docked /\ Worlds[d].sys = at
    /\ ~Worlds[d].open /\ d \notin career.permits
    /\ credits >= Worlds[d].fee
    /\ credits' = credits - Worlds[d].fee
    /\ career' = [career EXCEPT !.permits = @ \cup {d}]
    /\ UNCHANGED <<ships, active, at, world, used, hold, stock>>

\* no destination of the system that is open to the ship is within its fuel
OutOfTravelFuel ==
    \A d \in DOMAIN Worlds : RouteOpen(d) => FuelAmount(ships[active]) < Worlds[d].travel

\* the lone Skiff, nothing to sell, no money and no fuel for any trip
InsuranceEligible ==
    /\ Docked /\ ~used
    /\ active = CatalogID(Starter) /\ LocalShips = {active}
    /\ hold.value = 0
    /\ credits < SalvageThreshold
    /\ OutOfTravelFuel

InsuranceAdvance ==
    /\ InsuranceEligible
    /\ credits' = SalvageAdvance
    /\ used' = TRUE
    /\ UNCHANGED <<ships, active, at, world, hold, stock, career>>

-----------------------------------------------------------------------------
(* The jump network: ratings, gates, the hauler ferry. *)

\* RatingRequirements of the next class, all of them, where it is certified
CertifyRating ==
    LET next == career.rating + 1 IN
    /\ Docked /\ next \in DOMAIN Ratings
    /\ at = Ratings[next].certifyIn
    /\ credits >= Ratings[next].price
    /\ \A d \in Deeds : career.deeds[at][d] >= Ratings[next].need[d]
    /\ credits' = credits - Ratings[next].price
    /\ career' = [career EXCEPT !.rating = next]
    /\ UNCHANGED <<ships, active, at, world, used, hold, stock>>

\* in the ship's mass, which devices add to
JumpFuel(inst, g) == g.fuel * InstalledMass(inst)

\* mutant: the gate's rating is not asked for
JumpOpen_NoRating(g) ==
    /\ Docked /\ at \in {g.from, g.to}
    /\ ships[active].hull > 0
    /\ JumpFuel(ships[active], g) <= FuelAmount(ships[active])

\* JumpLockReason and PreviewJump
JumpOpen(g) ==
    /\ Docked /\ at \in {g.from, g.to}
    /\ career.rating >= g.rating
    /\ ships[active].sys = at
    /\ ships[active].hull > 0
    /\ JumpFuel(ships[active], g) <= FuelAmount(ships[active])

OtherEnd(g) == IF at = g.from THEN g.to ELSE g.from

\* the committed jump: the pilot and the hull arrive together, or not at all
Arrive(g, to, fuel, hull, hot) ==
    /\ ships' = [ships EXCEPT ![active] =
          [ConsumeFuel(@, FuelAmount(ships[active]) - fuel) EXCEPT !.hull = hull, !.sys = to]]
    /\ at' = to
    /\ career' = IF to = at THEN career
                 ELSE [career EXCEPT !.crossed = @ \cup {g}, !.visited = @ \cup {to},
                                     !.hot = @ \cup hot]
    /\ UNCHANGED <<active, world, credits, used, hold, stock>>

FuelAfter(g) == FuelAmount(ships[active]) - JumpFuel(ships[active], g)
HullFloor == 1

HullAfter(g) == Most(HullFloor, ships[active].hull - g.stress)

Jump(g) ==
    /\ JumpOpen(g)
    /\ \/ Arrive(g, OtherEnd(g), FuelAfter(g), HullAfter(g), {})
       \/ \E h \in HullFloor .. HullAfter(g) :          \* hard translation
              Arrive(g, OtherEnd(g), FuelAfter(g), h, {})
       \/ \E f \in 0 .. FuelAfter(g) :                  \* fuel bloom
              Arrive(g, OtherEnd(g), f, HullAfter(g), {})
       \/ Arrive(g, OtherEnd(g), FuelAfter(g), HullAfter(g), {OtherEnd(g)})   \* hot arrival
       \/ /\ g.misalign /\ g \in career.crossed         \* misalignment
          /\ Arrive(g, at, FuelAfter(g), HullAfter(g), {})

\* the ways between two systems over gates the pilot is rated for
Routes(from, to) ==
    {r \in UNION {[1 .. n -> SystemSet] : n \in 1 .. Len(Systems)} :
        /\ r[1] = from /\ r[Len(r)] = to
        /\ \A i \in 1 .. Len(r) - 1 :
              \E g \in GateBetween(r[i], r[i + 1]) : career.rating >= g.rating}

RouteFuel(inst, r) ==
    SumFunction([i \in 1 .. Len(r) - 1 |->
                   JumpFuel(inst, CHOOSE g \in GateBetween(r[i], r[i + 1]) : TRUE)])

\* the cheapest way, at the ferry's markup
FerryPrice(id, to) ==
    FerryMarkup * RefuelPerPoint
      * Min({RouteFuel(ships[id], r) : r \in Routes(ships[id].sys, to)})

FerryShip(id, to) ==
    /\ Docked /\ id \in Owned \ {active} /\ ships[id].sys # to
    /\ to \in career.visited /\ Routes(ships[id].sys, to) # {}
    /\ credits >= FerryPrice(id, to)
    /\ credits' = credits - FerryPrice(id, to)
    /\ ships' = [ships EXCEPT ![id].sys = to]
    /\ UNCHANGED <<active, at, world, used, hold, stock, career>>

-----------------------------------------------------------------------------

\* sim.New, or an old save that brings cargo of no known origin
Init ==
    /\ ships = [id \in {CatalogID(Starter)} |-> FreshShipInstance(Starter, Home)]
    /\ active = CatalogID(Starter) /\ at = Home /\ world = NoWorld
    /\ credits = StartCredits /\ used = FALSE
    /\ hold \in {[value |-> v, origins |-> [sys \in SystemSet |-> 0], vouchers |-> 0] :
                     v \in {0, LegacyCargo}}
    /\ stock = <<>>
    /\ career = [permits |-> {}, rating |-> StartRating, visited |-> {Home}, crossed |-> {},
                 hot |-> {}, deeds |-> [sys \in SystemSet |-> [d \in Deeds |-> 0]],
                 unlocked |-> {Starter}, lostAt |-> [m \in DOMAIN Models |-> ""]]

Shipyard ==
    \E id \in LocalShips :
        \/ \E x \in DOMAIN ships[id].slots :
              \/ \E item \in DOMAIN Items, g \in 0 .. MaxGrade :
                    InstallSlotDevice(id, x, item, g) \/ ReplaceSlotDeviceWithPurchase(id, x, item, g)
              \/ StoreSlotDevice(id, x) \/ SellSlotDevice(id, x)
              \/ \E i \in DOMAIN stock : InstallSlotDeviceFromInventory(id, x, i)
        \/ \E t \in Tracks : BuyShipTrack(id, t)

Run ==
    \/ \E mined \in 0 .. Room, tribute, pirate, legend \in BOOLEAN,
          burnt \in 0 .. FuelAmount(ships[active]), hit \in 0 .. ships[active].hull - 1,
          spent \in SUBSET Expendable(ships[active]) :
             RunSurvived(mined, tribute, burnt, hit, spent, pirate, legend)
    \/ \E legend \in BOOLEAN : ShipLost(legend)

Port ==
    \/ SellCargo \/ Refuel \/ Repair \/ InsuranceAdvance \/ CertifyRating
    \/ \E d \in DOMAIN Worlds : BuyDestinationPermit(d) \/ Depart(d)
    \/ \E m \in DOMAIN Models : AcquireShip(m)
    \/ \E id \in Owned : SwitchActiveShip(id) \/ \E to \in SystemSet : FerryShip(id, to)
    \/ \E g \in Gates : Jump(g)

Next == Shipyard \/ Port \/ Dock \/ (~Docked /\ Run)

Spec == Init /\ [][Next]_vars

-----------------------------------------------------------------------------
(* Properties. *)

DeviceOK(d) ==
    d = Empty \/ (/\ d.item \in DOMAIN Items /\ d.grade \in 0 .. MaxGrade
                  /\ d.fuel \in 0 .. FuelTankCapacity(d) /\ d.ready \in BOOLEAN)

\* Types and ranges: tanks and hulls between empty and full, every device of
\* the catalogue, ids of the two forms grantStarterShip gives.
TypeOK ==
    /\ active \in Owned /\ at \in SystemSet /\ world \in DOMAIN Worlds \cup {NoWorld}
    /\ credits \in Nat /\ used \in BOOLEAN
    /\ hold.value \in Nat /\ hold.vouchers \in Nat /\ hold.origins \in [SystemSet -> Nat]
    /\ \A i \in DOMAIN stock : DeviceOK(stock[i]) /\ stock[i] # Empty
    /\ \A id \in Owned :
          LET inst == ships[id] IN
          /\ id = CatalogID(inst.model) \/ id \in {RescueID(s, n) : s \in SystemSet, n \in 1 .. MaxSkiffs}
          /\ inst.hull \in 0 .. MaxHull(inst) /\ inst.fuel \in 0 .. StartFuel
          /\ \A x \in DOMAIN inst.slots : DeviceOK(inst.slots[x])

\* The hull a pilot flies is theirs and is where the pilot is, after any
\* sequence of jumps that misalign, ferries, exchanges and losses.
ActiveIsHere == active \in LocalShips

\* No exchange of devices or of ships leaves cargo in a hold too small for
\* it: neither a sale, nor storing, nor a replacement, nor boarding a hull.
CargoFits == hold.value <= CargoCapacityUnits(ships[active])

\* No order of purchases, exchanges and re-installations puts more devices
\* on a generator than it feeds, two of a unique device on a hull, or a device
\* in a slot of another kind or on a model that may not carry it: what leaves
\* one hull for the shelf is asked everything again before it enters another.
LoadoutsAreLegal ==
    \A id \in Owned :
        /\ \A x \in Devices(ships[id]) : Takes(ships[id], x, ships[id].slots[x].item)
        /\ InstalledPower(ships[id]) <= PowerCapacity(ships[id])
        /\ \A item \in DOMAIN Items :
              SlotItemIsUnique(item) => Cardinality(Fitted(ships[id], item)) <= 1

Unplaced == hold.value - SumFunction(hold.origins)

\* The origins of the cargo add up to the cargo, however often tributes were
\* rounded off it: only an old save's cargo has none, and no step adds to it
\* or takes more from an origin than the cargo it lost.
OriginsAccounted == [][0 <= Unplaced' /\ Unplaced' <= Unplaced]_vars

\* Nothing of the pilot's is beyond a gate the pilot is not rated for, or in
\* a system never arrived at, and no hull in a hangar is a wreck.
FleetWithinReach ==
    \A id \in Owned :
        /\ NeedRating[ships[id].sys] <= career.rating
        /\ ships[id].sys \in career.visited
        /\ ships[id].hull >= HullFloor

Worth ==
    LET val(d) == SlotItemSellValue(d.item, d.grade)
    IN SumFunction([i \in DOMAIN stock |-> val(stock[i])])
         + SumFunction([id \in Owned |-> SumFunction([x \in Devices(ships[id]) |->
                                                        val(ships[id].slots[x])])])

\* The shipyard makes no money: credits and what all add-ons would sell for
\* only rise together by a cargo sale or the salvage advance.
NoShipyardProfit ==
    [][ \/ credits' + Worth' <= credits + Worth
        \/ hold.value + hold.vouchers > 0 /\ hold'.value + hold'.vouchers = 0
        \/ ~used /\ used' ]_vars

\* A loss takes the hull that was flown and no other: what was parked, here
\* or elsewhere, is still owned, as it was and under its id.  The Skiff alone
\* may come under another id, which none of these hulls had.
LossTakesOneHull ==
    [][ ~Docked /\ world' = NoWorld =>
           \A id \in Owned \ {active} :
              \/ id \in Owned' /\ ships'[id] = ships[id]
              \/ /\ id = CatalogID(Starter)
                 /\ \E i \in Owned' \ (Owned \ {active}) : ships'[i] = ships[id] ]_vars

\* what a docked pilot can do to go on: go, be refuelled, sell, be helped
CanGoOn ==
    \/ credits > 0 \/ hold.value + hold.vouchers > 0 \/ DeviceCount > 0
    \/ InsuranceEligible
    \/ CatalogID(Starter) \notin Owned
    \/ \E id \in LocalShips :
          \/ \E d \in DOMAIN Worlds : /\ Worlds[d].sys = at
                                      /\ FuelAmount(ships[id]) >= Worlds[d].travel
          \/ \E g \in Gates : /\ at \in {g.from, g.to}
                               /\ JumpFuel(ships[id], g) <= FuelAmount(ships[id])

\* docs/gameplay/08: "stranding is impossible by construction".  A docked
\* pilot has money, something to sell, a fuelled hull here, the salvage
\* advance or the free Skiff.
NeverStranded == Docked => CanGoOn

=============================================================================
