----------------------------- MODULE FleetProofs -----------------------------
(***************************************************************************)
(* Proofs about Fleet, for every catalogue of hulls, devices, worlds and   *)
(* gates that content.Load accepts, and any bounds.                        *)
(*                                                                         *)
(* That the hull flown is where the pilot is, and that no hull is beyond a *)
(* gate the pilot may not pass, need each other, and need that every       *)
(* system visited is within the pilot's rating: a ferry goes to any system *)
(* that was visited, a loss recovers a hull that is here.                  *)
(***************************************************************************)
EXTENDS Fleet, TLAPS

\* A hull has its six fields, is not a wreck, and its grades are numbers.
Sound(r) ==
    /\ r = [model |-> r.model, sys |-> r.sys, hull |-> r.hull, fuel |-> r.fuel,
            grade |-> r.grade, slots |-> r.slots]
    /\ r.hull \in Nat /\ r.hull >= HullFloor
    /\ r.grade \in [Tracks -> Nat]

\* Every id names a model, by itself or as a renamed Skiff.
Hangar ==
    /\ ships = [id \in DOMAIN ships |-> ships[id]]
    /\ \A id \in DOMAIN ships : id[1] \in DOMAIN Models /\ Sound(ships[id])

Papers ==
    /\ career = [permits |-> career.permits, rating |-> career.rating,
                 visited |-> career.visited, crossed |-> career.crossed, hot |-> career.hot,
                 deeds |-> career.deeds, unlocked |-> career.unlocked, lostAt |-> career.lostAt]
    /\ career.rating \in Int
    /\ career.visited \subseteq SystemSet
    /\ \A sys \in career.visited : NeedRating[sys] <= career.rating

\* The pilot is in a system that was visited, and so is every hull.
Places ==
    /\ at \in career.visited
    /\ \A id \in DOMAIN ships : ships[id].sys \in career.visited

IInv == Hangar /\ Papers /\ Places /\ ActiveIsHere

-----------------------------------------------------------------------------
(* What the operators on a hull keep. *)

\* Fuel burnt leaves the rest of the hull alone.
LEMMA ConsumeFuelKeeps ==
  ASSUME NEW r, NEW n, Sound(r)
  PROVE  Sound(ConsumeFuel(r, n)) /\ ConsumeFuel(r, n).sys = r.sys /\ ConsumeFuel(r, n).hull = r.hull
<1> DEFINE left(tanks) == Most(0, n - FuelIn(r, tanks))
           sl == [x \in DOMAIN r.slots |->
                    [r.slots[x] EXCEPT !.fuel = Most(0, @ - left(TanksBefore(r, x)))]]
           fu == Most(0, r.fuel - left(Fitted(r, "fuel_tank")))
<1>1. ConsumeFuel(r, n) = [r EXCEPT !.slots = sl, !.fuel = fu]
  BY DEF ConsumeFuel, Sound
<1> HIDE DEF sl, fu
<1>2. QED BY <1>1 DEF Sound

\* So does fuel taken in.
LEMMA AddFuelKeeps ==
  ASSUME NEW r, NEW n, Sound(r)
  PROVE  Sound(AddFuel(r, n)) /\ AddFuel(r, n).sys = r.sys
<1> DEFINE left(tanks) == Most(0, n - RoomIn(r, tanks))
           sl == [x \in DOMAIN r.slots |->
                    IF r.slots[x].item = "fuel_tank"
                    THEN [r.slots[x] EXCEPT
                             !.fuel = @ + Least(FuelRoom(r, x), left(TanksBefore(r, x)))]
                    ELSE r.slots[x]]
           fu == Least(StartFuel, r.fuel + left(Fitted(r, "fuel_tank")))
<1>1. AddFuel(r, n) = [r EXCEPT !.slots = sl, !.fuel = fu]
  BY DEF AddFuel, Sound
<1> HIDE DEF sl, fu
<1>2. QED BY <1>1 DEF Sound

\* A hull with other devices is the same hull.
LEMMA SlotsKeep ==
  ASSUME NEW r, NEW sl, Sound(r)
  PROVE  Sound([r EXCEPT !.slots = sl]) /\ [r EXCEPT !.slots = sl].sys = r.sys
                                        /\ [r EXCEPT !.slots = sl].hull = r.hull
  BY DEF Sound

\* Loading devices changes the devices only.
LEMMA LoadedKeeps ==
  ASSUME NEW r, NEW items, Sound(r)
  PROVE  Sound(Loaded(r, items)) /\ Loaded(r, items).sys = r.sys /\ Loaded(r, items).hull = r.hull
<1> DEFINE sl == [x \in DOMAIN r.slots |->
                    IF r.slots[x].item \in items THEN [r.slots[x] EXCEPT !.ready = TRUE]
                    ELSE r.slots[x]]
<1>1. Loaded(r, items) = [r EXCEPT !.slots = sl]
  BY DEF Loaded
<1> HIDE DEF sl
<1>2. QED BY <1>1, SlotsKeep

\* So does installing one, with the free load it comes with.
LEMMA InstallKeeps ==
  ASSUME NEW r, NEW x, NEW d, Sound(r)
  PROVE  Sound(Install(r, x, d)) /\ Install(r, x, d).sys = r.sys
<1> DEFINE f == [r EXCEPT !.slots[x] = d]
           h == [f EXCEPT !.slots[x].ready = TRUE]
           sl == [f.slots EXCEPT ![x].ready = TRUE]
<1>1. Sound(f) /\ f.sys = r.sys BY SlotsKeep
<1>2. Sound(h) /\ h.sys = r.sys
  <2>1. h = [f EXCEPT !.slots = sl] OBVIOUS
  <2> HIDE DEF sl, f, h
  <2>2. QED BY <1>1, <2>1, SlotsKeep
<1>3. Sound(Loaded(f, {d.item})) /\ Loaded(f, {d.item}).sys = r.sys BY <1>1, LoadedKeeps
<1>4. Install(r, x, d) \in {f, h, Loaded(f, {d.item})} BY DEF Install
<1> HIDE DEF f, h
<1>5. QED BY <1>1, <1>2, <1>3, <1>4

\* A hull fresh from the yard is sound, where it was made.
LEMMA FreshIsSound ==
  ASSUME NEW m \in DOMAIN Models, NEW sys
  PROVE  Sound(FreshShipInstance(m, sys)) /\ FreshShipInstance(m, sys).sys = sys
<1>1. Models[m].start \in [Tracks -> Nat] /\ "hull" \in Tracks
  BY ContentAssumption DEF ContentAssumption, ShipsValid
<1>2. StartHull \in Nat \ {0}
  BY ContentAssumption DEF ContentAssumption, PilotValid
<1>3. StartHull + HullPerGrade * Models[m].start["hull"] \in Nat \ {0}
  BY <1>1, <1>2 DEF HullPerGrade
<1> DEFINE h == StartHull + HullPerGrade * Models[m].start["hull"]
           sl == [x \in Slots(m) |-> Empty]
<1>4. FreshShipInstance(m, sys)
        = [model |-> m, sys |-> sys, hull |-> h, fuel |-> StartFuel, grade |-> Models[m].start,
           slots |-> sl]
  BY DEF FreshShipInstance
<1>5. h \in Nat /\ h >= HullFloor BY <1>3 DEF HullFloor
<1> HIDE DEF h, sl
<1>6. QED BY <1>1, <1>4, <1>5 DEF Sound

\* A full hull is at least the floor.
LEMMA MaxHullIsSound ==
  ASSUME NEW r, Sound(r)
  PROVE  MaxHull(r) \in Nat /\ MaxHull(r) >= HullFloor
<1>1. StartHull \in Nat \ {0} /\ r.grade["hull"] \in Nat
  BY ContentAssumption DEF ContentAssumption, PilotValid, ShipsValid, Sound
<1>2. QED BY <1>1 DEF MaxHull, HullFloor, HullPerGrade

\* A hull that arrives somewhere with points left.
LEMMA ArrivedKeeps ==
  ASSUME NEW r, NEW h \in Nat, NEW sys, h >= HullFloor, Sound(r)
  PROVE  LET new == [r EXCEPT !.hull = h, !.sys = sys] IN Sound(new) /\ new.sys = sys
<1> DEFINE f == [r EXCEPT !.hull = h]
           n == [f EXCEPT !.sys = sys]
<1>1. Sound(f) /\ f.sys = r.sys BY DEF Sound
<1>2. [r EXCEPT !.hull = h, !.sys = sys] = n OBVIOUS
<1> HIDE DEF f
<1>3. Sound(n) /\ n.sys = sys BY <1>1 DEF Sound
<1>4. QED BY <1>2, <1>3

\* A hull that comes back worn.
LEMMA WornKeeps ==
  ASSUME NEW r, NEW h \in Nat, NEW sl, h >= HullFloor, Sound(r)
  PROVE  LET new == [r EXCEPT !.hull = h, !.slots = sl] IN Sound(new) /\ new.sys = r.sys
<1> DEFINE f == [r EXCEPT !.hull = h]
           n == [f EXCEPT !.slots = sl]
<1>1. Sound(f) /\ f.sys = r.sys BY DEF Sound
<1>2. [r EXCEPT !.hull = h, !.slots = sl] = n OBVIOUS
<1> HIDE DEF f
<1>3. Sound(n) /\ n.sys = r.sys BY <1>1 DEF Sound
<1>4. QED BY <1>2, <1>3

\* The larger of two numbers is no smaller than either.
LEMMA MaxOfPair ==
  ASSUME NEW a \in Int, NEW b \in Int
  PROVE  Max({a, b}) >= a /\ Max({a, b}) >= b /\ Max({a, b}) \in Int
<1>1. \E x \in {a, b} : \A y \in {a, b} : x >= y
  <2>1. CASE a >= b BY <2>1
  <2>2. CASE b >= a BY <2>2
  <2>3. QED BY <2>1, <2>2
<1>2. QED BY <1>1 DEF Max

-----------------------------------------------------------------------------
(* Steps by what they do to the hangar. *)

\* One hull changes and stays where it is.
LEMMA OneHullChanges ==
  ASSUME IInv, NEW id \in DOMAIN ships, NEW r, Sound(r), r.sys = ships[id].sys,
         ships' = [ships EXCEPT ![id] = r], UNCHANGED <<active, at, career>>
  PROVE  IInv'
<1>1. DOMAIN ships' = DOMAIN ships /\ ships'[id] = r
        /\ \A i \in DOMAIN ships : i # id => ships'[i] = ships[i]
  BY DEF IInv, Hangar
<1>2. \A i \in DOMAIN ships : ships'[i].sys = ships[i].sys /\ Sound(ships'[i])
  BY <1>1 DEF IInv, Hangar
<1>3. Hangar' BY <1>1, <1>2 DEF IInv, Hangar, Sound
<1>4. Papers' /\ Places' BY <1>1, <1>2 DEF IInv, Papers, Places
<1>5. ActiveIsHere' BY <1>1, <1>2 DEF IInv, ActiveIsHere, LocalShips, Owned
<1>6. QED BY <1>3, <1>4, <1>5 DEF IInv

\* Only money, cargo or the shelf change.
LEMMA NoHullChanges ==
  ASSUME IInv, UNCHANGED <<ships, active, at, career>>
  PROVE  IInv'
  BY DEF IInv, Hangar, Sound, Papers, Places, ActiveIsHere, LocalShips, Owned

\* The free Skiff is here; hulls that were elsewhere still are where they were.
LEMMA GrantedSkiffIsHere ==
  ASSUME NEW fleet, NEW new \in GrantStarterShip(fleet),
         \A i \in DOMAIN fleet : i[1] \in DOMAIN Models /\ Sound(fleet[i])
  PROVE  /\ new = [i \in DOMAIN new |-> new[i]]
         /\ CatalogID(Starter) \in DOMAIN new /\ new[CatalogID(Starter)].sys = at
         /\ \A i \in DOMAIN new : /\ i[1] \in DOMAIN Models /\ Sound(new[i])
                                  /\ new[i].sys \in {at} \cup {fleet[j].sys : j \in DOMAIN fleet}
<1> DEFINE old  == CatalogID(Starter)
           here == FreshShipInstance(Starter, at)
<1>1. Starter \in DOMAIN Models
  BY ContentAssumption DEF ContentAssumption, ShipsValid
<1>2. Sound(here) /\ here.sys = at BY <1>1, FreshIsSound
<1>3. old[1] \in DOMAIN Models BY <1>1 DEF CatalogID
<1>4. CASE \E n : old \in DOMAIN fleet /\ new = With(With(fleet, RescueID(fleet[old].sys, n), fleet[old]), old, here)
  <2>1. PICK n : old \in DOMAIN fleet /\ new = With(With(fleet, RescueID(fleet[old].sys, n), fleet[old]), old, here)
    BY <1>4
  <2> DEFINE away == RescueID(fleet[old].sys, n)
             mid == With(fleet, away, fleet[old])
  <2>2. away[1] \in DOMAIN Models BY <1>1 DEF RescueID
  <2> HIDE DEF old, here, away
  <2>3. /\ DOMAIN mid = DOMAIN fleet \cup {away} /\ mid[away] = fleet[old]
        /\ \A i \in DOMAIN fleet : i # away => mid[i] = fleet[i]
        /\ \A i \in DOMAIN mid : i[1] \in DOMAIN Models /\ Sound(mid[i])
    BY <2>1, <2>2 DEF With
  <2>4. new = With(mid, old, here) BY <2>1 DEF away
  <2> HIDE DEF mid
  <2>5. /\ new = [i \in DOMAIN new |-> new[i]]
        /\ DOMAIN new = DOMAIN mid \cup {old} /\ new[old] = here
        /\ \A i \in DOMAIN mid : i # old => new[i] = mid[i]
        /\ \A i \in DOMAIN new : i[1] \in DOMAIN Models /\ Sound(new[i])
    BY <1>2, <1>3, <2>3, <2>4 DEF With
  <2>6. QED BY <1>2, <2>1, <2>3, <2>5 DEF old
<1>5. CASE new = With(fleet, old, here)
  <2> HIDE DEF old, here
  <2>1. /\ new = [i \in DOMAIN new |-> new[i]]
        /\ DOMAIN new = DOMAIN fleet \cup {old} /\ new[old] = here
        /\ \A i \in DOMAIN fleet : i # old => new[i] = fleet[i]
        /\ \A i \in DOMAIN new : i[1] \in DOMAIN Models /\ Sound(new[i])
    BY <1>2, <1>3, <1>5 DEF With
  <2>2. QED BY <1>2, <2>1 DEF old
<1>6. QED BY <1>4, <1>5 DEF GrantStarterShip

-----------------------------------------------------------------------------
(* One lemma per action, or per group of actions of one shape. *)

\* Devices bought, sold, stored, exchanged, and a track upgraded.
LEMMA ShipyardStep == IInv /\ Shipyard => IInv'
<1> SUFFICES ASSUME IInv, NEW id \in LocalShips,
                    \/ \E x \in DOMAIN ships[id].slots :
                          \/ \E item \in DOMAIN Items, g \in 0 .. MaxGrade :
                                \/ InstallSlotDevice(id, x, item, g)
                                \/ ReplaceSlotDeviceWithPurchase(id, x, item, g)
                          \/ StoreSlotDevice(id, x) \/ SellSlotDevice(id, x)
                          \/ \E i \in DOMAIN stock : InstallSlotDeviceFromInventory(id, x, i)
                    \/ \E t \in Tracks : BuyShipTrack(id, t)
             PROVE  IInv'
  BY DEF Shipyard
<1>0. id \in DOMAIN ships /\ Sound(ships[id]) BY DEF LocalShips, Owned, IInv, Hangar
<1>1. ASSUME NEW x, NEW d, ships' = [ships EXCEPT ![id] = Install(ships[id], x, d)],
             UNCHANGED <<active, at, career>>
      PROVE  IInv'
  BY <1>0, <1>1, InstallKeeps, OneHullChanges
<1>2. ASSUME NEW x, ships' = [ships EXCEPT ![id].slots[x] = Empty],
             UNCHANGED <<active, at, career>>
      PROVE  IInv'
  <2> DEFINE r == [ships[id] EXCEPT !.slots = [ships[id].slots EXCEPT ![x] = Empty]]
  <2>1. ships' = [ships EXCEPT ![id] = r] BY <1>2
  <2>2. Sound(r) /\ r.sys = ships[id].sys BY <1>0, SlotsKeep
  <2> HIDE DEF r
  <2>3. QED BY <1>0, <1>2, <2>1, <2>2, OneHullChanges
<1>3. ASSUME NEW x, NEW item, NEW g, InstallSlotDevice(id, x, item, g) PROVE IInv'
  BY <1>1, <1>3 DEF InstallSlotDevice
<1>4. ASSUME NEW x, NEW item, NEW g, ReplaceSlotDeviceWithPurchase(id, x, item, g) PROVE IInv'
  BY <1>1, <1>4 DEF ReplaceSlotDeviceWithPurchase
<1>5. ASSUME NEW x, StoreSlotDevice(id, x) PROVE IInv'
  BY <1>2, <1>5 DEF StoreSlotDevice
<1>6. ASSUME NEW x, SellSlotDevice(id, x) PROVE IInv'
  BY <1>2, <1>6 DEF SellSlotDevice
<1>7. ASSUME NEW x, NEW i, InstallSlotDeviceFromInventory(id, x, i) PROVE IInv'
  BY <1>1, <1>7 DEF InstallSlotDeviceFromInventory
<1>8. ASSUME NEW t \in Tracks, BuyShipTrack(id, t) PROVE IInv'
  <2> DEFINE gr == [ships[id].grade EXCEPT ![t] = ships[id].grade[t] + 1]
             r == [ships[id] EXCEPT !.grade = gr]
  <2>1. ships' = [ships EXCEPT ![id] = r] BY <1>8 DEF BuyShipTrack
  <2>2. gr \in [Tracks -> Nat] BY <1>0 DEF Sound
  <2> HIDE DEF gr
  <2>3. Sound(r) /\ r.sys = ships[id].sys BY <1>0, <2>2 DEF Sound
  <2> HIDE DEF r
  <2>4. UNCHANGED <<active, at, career>> BY <1>8 DEF BuyShipTrack
  <2>5. QED BY <1>0, <2>1, <2>3, <2>4, OneHullChanges
<1>9. QED BY <1>3, <1>4, <1>5, <1>6, <1>7, <1>8

\* The hull that is flown: at the fuel desk, at the yard, out, back.
LEMMA FlownHullStep ==
  ASSUME IInv, Refuel \/ Repair \/ Dock \/ \E d \in DOMAIN Worlds : Depart(d)
  PROVE  IInv'
<1> DEFINE fl == ships[active]
<1>0. active \in DOMAIN ships /\ Sound(fl) /\ active[1] \in DOMAIN Models
  BY DEF LocalShips, Owned, IInv, Hangar, ActiveIsHere
<1>1. ASSUME NEW d, Depart(d) PROVE IInv'
  BY <1>0, <1>1, ConsumeFuelKeeps, OneHullChanges DEF Depart
<1>2. ASSUME Refuel PROVE IInv'
  BY <1>0, <1>2, AddFuelKeeps, OneHullChanges DEF Refuel
<1>3. ASSUME NEW h \in Nat, h >= HullFloor
      PROVE  Sound([fl EXCEPT !.hull = h]) /\ [fl EXCEPT !.hull = h].sys = fl.sys
  BY <1>0, <1>3 DEF Sound
<1>4. ASSUME Repair PROVE IInv'
  <2> DEFINE r == [fl EXCEPT !.hull = MaxHull(fl)]
  <2>1. ships' = [ships EXCEPT ![active] = r] BY <1>4 DEF Repair
  <2>2. Sound(r) /\ r.sys = fl.sys BY <1>0, <1>3, MaxHullIsSound
  <2>3. UNCHANGED <<active, at, career>> BY <1>4 DEF Repair
  <2> HIDE DEF r
  <2>4. QED BY <1>0, <2>1, <2>2, <2>3, OneHullChanges
<1>5. ASSUME Dock PROVE IInv'
  <2> DEFINE h == Least(MaxHull(fl), fl.hull + DockRepair(active))
             r == [fl EXCEPT !.hull = h]
  <2>1. DockRepair(active) \in Nat
    BY <1>0, ContentAssumption DEF ContentAssumption, ShipsValid, DockRepair
  <2>2. h \in Nat /\ h >= HullFloor
    <3>1. MaxHull(fl) \in Nat /\ MaxHull(fl) >= HullFloor BY <1>0, MaxHullIsSound
    <3>2. fl.hull \in Nat /\ fl.hull >= HullFloor BY <1>0 DEF Sound
    <3>3. QED BY <2>1, <3>1, <3>2 DEF Least, HullFloor
  <2>3. ships' = [ships EXCEPT ![active] = Loaded(r, Consumables)] BY <1>5 DEF Dock, Serviced, Patched
  <2> HIDE DEF h
  <2>4. Sound(r) /\ r.sys = fl.sys BY <1>3, <2>2
  <2> HIDE DEF r
  <2>5. Sound(Loaded(r, Consumables)) /\ Loaded(r, Consumables).sys = fl.sys BY <2>4, LoadedKeeps
  <2>6. UNCHANGED <<active, at, career>> BY <1>5 DEF Dock
  <2>7. QED BY <1>0, <2>3, <2>5, <2>6, OneHullChanges
<1>6. QED BY <1>1, <1>2, <1>4, <1>5

\* The desk, a permit, the advance: no hull moves.
LEMMA DeskStep ==
  ASSUME IInv, SellCargo \/ InsuranceAdvance \/ \E d \in DOMAIN Worlds : BuyDestinationPermit(d)
  PROVE  IInv'
<1>1. ASSUME InsuranceAdvance PROVE IInv'
  BY <1>1, NoHullChanges DEF InsuranceAdvance
<1>2. ASSUME UNCHANGED <<ships, active, at>>,
             \E c : career' \in {[career EXCEPT !.permits = c], [career EXCEPT !.deeds = c]}
      PROVE  IInv'
  <2>1. Papers' /\ career'.visited = career.visited BY <1>2 DEF IInv, Papers
  <2>2. QED BY <1>2, <2>1 DEF IInv, Hangar, Sound, Places, ActiveIsHere, LocalShips, Owned
<1>3. ASSUME SellCargo PROVE IInv'
  <2> DEFINE p == [sys \in SystemSet |-> Counted(career.deeds, sys, "sold", hold.origins[sys])[sys]]
  <2>1. career' = [career EXCEPT !.deeds = p] BY <1>3 DEF SellCargo
  <2> HIDE DEF p
  <2>2. UNCHANGED <<ships, active, at>> BY <1>3 DEF SellCargo
  <2>3. QED BY <1>2, <2>1, <2>2
<1>4. ASSUME NEW d, BuyDestinationPermit(d) PROVE IInv'
  <2>1. career' = [career EXCEPT !.permits = career.permits \cup {d}]
          /\ UNCHANGED <<ships, active, at>>
    BY <1>4 DEF BuyDestinationPermit
  <2>2. QED BY <1>2, <2>1
<1>5. QED BY <1>1, <1>3, <1>4

\* A new class only widens what the pilot may reach.
LEMMA CertifyStep == IInv /\ CertifyRating => IInv'
<1> SUFFICES ASSUME IInv, CertifyRating PROVE IInv'
  OBVIOUS
<1>1. career' = [career EXCEPT !.rating = career.rating + 1] /\ UNCHANGED <<ships, active, at>>
  BY DEF CertifyRating
<1>2. career'.rating = career.rating + 1 /\ career'.visited = career.visited
  BY <1>1 DEF IInv, Papers
<1>3. \A sys \in career.visited : NeedRating[sys] \in Int
  BY ContentAssumption DEF IInv, Papers, ContentAssumption, PilotValid
<1>4. Papers' BY <1>1, <1>2, <1>3 DEF IInv, Papers
<1>5. QED BY <1>1, <1>2, <1>4 DEF IInv, Hangar, Sound, Places, ActiveIsHere, LocalShips, Owned

\* A hull bought is put where the pilot is.  The gift is for a pilot without
\* a hull here, and there is no such pilot.
LEMMA AcquireStep ==
  ASSUME IInv, NEW m \in DOMAIN Models, AcquireShip(m)
  PROVE  IInv'
<1> DEFINE new == FreshShipInstance(m, at)
           id  == CatalogID(m)
<1>1. LocalShips # {} BY DEF IInv, ActiveIsHere
<1>2. ships' = With(ships, id, new) /\ UNCHANGED <<active, at>> /\ id \notin DOMAIN ships
  BY <1>1 DEF AcquireShip, Owned
<1>3. career' = [career EXCEPT !.unlocked = career.unlocked \cup {m}] BY DEF AcquireShip
<1>4. Papers' /\ career'.visited = career.visited BY <1>3 DEF IInv, Papers
<1>5. Sound(new) /\ new.sys = at BY FreshIsSound
<1>6. id[1] \in DOMAIN Models BY DEF CatalogID
<1> HIDE DEF new, id
<1>7. /\ ships' = [i \in DOMAIN ships' |-> ships'[i]]
      /\ DOMAIN ships' = DOMAIN ships \cup {id} /\ ships'[id] = new
      /\ \A i \in DOMAIN ships : ships'[i] = ships[i]
  BY <1>2 DEF With
<1>8. \A i \in DOMAIN ships' : i[1] \in DOMAIN Models /\ Sound(ships'[i])
  BY <1>5, <1>6, <1>7 DEF IInv, Hangar
<1>9. Hangar' BY <1>7, <1>8 DEF Hangar, Sound
<1>10. Places' BY <1>2, <1>4, <1>5, <1>7 DEF IInv, Places
<1>11. ActiveIsHere' BY <1>2, <1>7 DEF IInv, ActiveIsHere, LocalShips, Owned
<1>12. QED BY <1>4, <1>9, <1>10, <1>11 DEF IInv

\* Boarding picks a hull that is here.
LEMMA SwitchStep ==
  ASSUME IInv, NEW id, SwitchActiveShip(id)
  PROVE  IInv'
  BY DEF SwitchActiveShip, IInv, Hangar, Sound, Papers, Places, ActiveIsHere, LocalShips, Owned

\* The ferry takes any hull but the one that is flown, to a visited system.
LEMMA FerryStep ==
  ASSUME IInv, NEW id, NEW to, FerryShip(id, to)
  PROVE  IInv'
<1> DEFINE r == [ships[id] EXCEPT !.sys = to]
<1>0. id \in DOMAIN ships /\ id # active /\ to \in career.visited BY DEF FerryShip, Owned
<1>1. ships' = [ships EXCEPT ![id] = r] /\ UNCHANGED <<active, at, career>> BY DEF FerryShip
<1>2. Sound(r) /\ r.sys = to BY <1>0 DEF IInv, Hangar, Sound
<1> HIDE DEF r
<1>3. DOMAIN ships' = DOMAIN ships /\ ships'[id] = r
        /\ \A i \in DOMAIN ships : i # id => ships'[i] = ships[i]
  BY <1>0, <1>1
<1>4. \A i \in DOMAIN ships' : i[1] \in DOMAIN Models /\ Sound(ships'[i])
  BY <1>0, <1>2, <1>3 DEF IInv, Hangar
<1>5. Hangar' BY <1>1, <1>3, <1>4 DEF Hangar, Sound
<1>6. Papers' /\ Places' BY <1>0, <1>1, <1>2, <1>3 DEF IInv, Papers, Places
<1>7. ActiveIsHere' BY <1>0, <1>1, <1>3 DEF IInv, ActiveIsHere, LocalShips, Owned
<1>8. QED BY <1>5, <1>6, <1>7 DEF IInv

\* A jump that arrives, or misaligns and stays: pilot and hull together.
LEMMA ArriveStep ==
  ASSUME IInv, NEW g, NEW to \in SystemSet, NEW fuel, NEW hull \in Nat, NEW hot,
         hull >= HullFloor, NeedRating[to] <= career.rating, Arrive(g, to, fuel, hull, hot)
  PROVE  IInv'
<1> DEFINE burnt == ConsumeFuel(ships[active], FuelAmount(ships[active]) - fuel)
           r == [burnt EXCEPT !.hull = hull, !.sys = to]
<1>0. active \in DOMAIN ships /\ Sound(ships[active]) /\ ships[active].sys = at
  BY DEF LocalShips, Owned, IInv, Hangar, ActiveIsHere
<1>1. ships' = [ships EXCEPT ![active] = r] /\ at' = to /\ UNCHANGED active BY DEF Arrive
<1>2. Sound(burnt) BY <1>0, ConsumeFuelKeeps
<1> HIDE DEF burnt
<1>3. Sound(r) /\ r.sys = to BY <1>2, ArrivedKeeps
<1> HIDE DEF r
<1>4. DOMAIN ships' = DOMAIN ships /\ ships'[active] = r
        /\ \A i \in DOMAIN ships : i # active => ships'[i] = ships[i]
  BY <1>0, <1>1
<1>5. \A i \in DOMAIN ships' : i[1] \in DOMAIN Models /\ Sound(ships'[i])
  BY <1>0, <1>3, <1>4 DEF IInv, Hangar
<1>6. Hangar' BY <1>1, <1>4, <1>5 DEF Hangar, Sound
<1>7. Papers' /\ career'.visited = career.visited \cup {to}
  <2>1. CASE to = at BY <2>1 DEF Arrive, IInv, Papers, Places
  <2>2. CASE to # at
    <3>1. career' = [career EXCEPT !.crossed = career.crossed \cup {g},
                                   !.visited = career.visited \cup {to},
                                   !.hot = career.hot \cup hot]
      BY <2>2 DEF Arrive
    <3>2. QED BY <3>1 DEF IInv, Papers
  <2>3. QED BY <2>1, <2>2
<1>8. Places' BY <1>1, <1>3, <1>4, <1>7 DEF IInv, Places
<1>9. ActiveIsHere' BY <1>0, <1>1, <1>3, <1>4 DEF ActiveIsHere, LocalShips, Owned
<1>10. QED BY <1>6, <1>7, <1>8, <1>9 DEF IInv

\* The gate asks for the rating of both its ends, and the floor holds
\* whatever its stress takes.
LEMMA JumpStep ==
  ASSUME IInv, NEW g \in Gates, Jump(g)
  PROVE  IInv'
<1>0. active \in DOMAIN ships /\ Sound(ships[active]) /\ at \in career.visited
  BY DEF LocalShips, Owned, IInv, Hangar, ActiveIsHere, Places
<1>1. /\ g.from \in SystemSet /\ g.to \in SystemSet /\ g.stress \in Nat
      /\ g.rating = Max({NeedRating[g.from], NeedRating[g.to]})
      /\ NeedRating \in [SystemSet -> Int]
  BY ContentAssumption DEF ContentAssumption, NetworkValid, PilotValid
<1>2. career.rating \in Int /\ career.rating >= g.rating
  BY DEF Jump, JumpOpen, IInv, Papers
<1>3. /\ OtherEnd(g) \in SystemSet /\ NeedRating[OtherEnd(g)] <= career.rating
  <2>1. NeedRating[g.from] \in Int /\ NeedRating[g.to] \in Int BY <1>1
  <2>2. g.rating \in Int /\ g.rating >= NeedRating[g.from] /\ g.rating >= NeedRating[g.to]
    BY <1>1, <2>1, MaxOfPair
  <2>3. QED BY <1>1, <1>2, <2>1, <2>2 DEF OtherEnd
<1>4. at \in SystemSet /\ NeedRating[at] <= career.rating
  BY <1>0 DEF IInv, Papers
<1>5. HullAfter(g) \in Nat /\ HullAfter(g) >= HullFloor
  <2>1. ships[active].hull \in Nat BY <1>0 DEF Sound
  <2>2. QED BY <1>1, <2>1 DEF HullAfter, HullFloor, Most
<1>6. ASSUME NEW h \in HullFloor .. HullAfter(g) PROVE h \in Nat /\ h >= HullFloor
  BY <1>5 DEF HullFloor
<1>7. CASE \E fuel, hot : Arrive(g, OtherEnd(g), fuel, HullAfter(g), hot)
  BY <1>3, <1>5, <1>7, ArriveStep
<1>8. CASE \E h \in HullFloor .. HullAfter(g) : Arrive(g, OtherEnd(g), FuelAfter(g), h, {})
  BY <1>3, <1>6, <1>8, ArriveStep
<1>9. CASE Arrive(g, at, FuelAfter(g), HullAfter(g), {})
  BY <1>4, <1>5, <1>9, ArriveStep
<1>10. QED BY <1>7, <1>8, <1>9 DEF Jump

\* A run that the ship survives leaves a worn hull, not a wreck.
LEMMA SurvivedStep ==
  ASSUME IInv, NEW mined, NEW tribute, NEW burnt, NEW hit \in Nat, NEW spent, NEW pirate, NEW legend,
         RunSurvived(mined, tribute, burnt, hit, spent, pirate, legend)
  PROVE  IInv'
<1> DEFINE fl == ships[active]
           sl == [x \in DOMAIN fl.slots |->
                     IF x \in spent THEN [fl.slots[x] EXCEPT !.ready = FALSE] ELSE fl.slots[x]]
           r == [fl EXCEPT !.hull = fl.hull - hit, !.slots = sl]
<1>0. active \in DOMAIN ships /\ Sound(fl)
  BY DEF LocalShips, Owned, IInv, Hangar, ActiveIsHere
<1>1. /\ ships' = [ships EXCEPT ![active] = Worn(fl, burnt, hit, spent)]
      /\ hit < fl.hull /\ UNCHANGED <<active, at>>
      /\ \E p, q : career' = [career EXCEPT !.deeds = p, !.hot = q]
  BY DEF RunSurvived
<1>2. Worn(fl, burnt, hit, spent) = ConsumeFuel(r, burnt) BY <1>0 DEF Worn, Sound
<1> HIDE DEF sl
<1>3. Sound(r) /\ r.sys = fl.sys
  <2>1. fl.hull - hit \in Nat /\ fl.hull - hit >= HullFloor
    BY <1>0, <1>1 DEF Sound, HullFloor
  <2>2. QED BY <1>0, <2>1, WornKeeps
<1> HIDE DEF r
<1>4. Sound(ConsumeFuel(r, burnt)) /\ ConsumeFuel(r, burnt).sys = fl.sys
  BY <1>3, ConsumeFuelKeeps
<1> DEFINE w == ConsumeFuel(r, burnt)
<1>5. ships' = [ships EXCEPT ![active] = w] /\ Sound(w) /\ w.sys = fl.sys BY <1>1, <1>2, <1>4
<1> HIDE DEF w
<1>6. DOMAIN ships' = DOMAIN ships /\ ships'[active] = w
        /\ \A i \in DOMAIN ships : i # active => ships'[i] = ships[i]
  BY <1>0, <1>5
<1>7. \A i \in DOMAIN ships : ships'[i].sys = ships[i].sys /\ Sound(ships'[i])
  BY <1>5, <1>6 DEF IInv, Hangar
<1>8. Hangar' BY <1>5, <1>6, <1>7 DEF IInv, Hangar, Sound
<1>9. Papers' /\ career'.visited = career.visited BY <1>1 DEF IInv, Papers
<1>10. Places' BY <1>1, <1>6, <1>7, <1>9 DEF IInv, Places
<1>11. ActiveIsHere' BY <1>0, <1>1, <1>6, <1>7 DEF IInv, ActiveIsHere, LocalShips, Owned
<1>12. QED BY <1>8, <1>9, <1>10, <1>11 DEF IInv

\* A loss puts the pilot in a hull that is here, a parked one or a new Skiff.
LEMMA LostStep ==
  ASSUME IInv, NEW legend, ShipLost(legend)
  PROVE  IInv'
<1> DEFINE fleet == Without(ships, active)
<1>1. /\ RespawnActiveShip(fleet) /\ UNCHANGED at
      /\ \E p, q, l : career' = [career EXCEPT !.hot = p, !.deeds = q, !.lostAt = l]
  BY DEF ShipLost
<1>2. Papers' /\ career'.visited = career.visited BY <1>1 DEF IInv, Papers
<1>3. /\ fleet = [i \in DOMAIN fleet |-> fleet[i]]
      /\ \A i \in DOMAIN fleet : /\ i[1] \in DOMAIN Models /\ Sound(fleet[i])
                                 /\ fleet[i].sys \in career.visited
  BY DEF Without, IInv, Hangar, Places
<1> HIDE DEF fleet
<1>4. /\ ships' = [i \in DOMAIN ships' |-> ships'[i]]
      /\ active' \in DOMAIN ships' /\ ships'[active'].sys = at
      /\ \A i \in DOMAIN ships' : /\ i[1] \in DOMAIN Models /\ Sound(ships'[i])
                                  /\ ships'[i].sys \in career.visited
  <2>1. CASE ships' = fleet /\ active' \in RecoveryShips(fleet)
    <3>1. \A i \in RecoveryShips(fleet) : i \in DOMAIN fleet /\ fleet[i].sys = at
      BY DEF RecoveryShips
    <3>2. QED BY <1>3, <2>1, <3>1
  <2>2. CASE ships' \in GrantStarterShip(fleet) /\ active' = CatalogID(Starter)
    <3>1. at \in career.visited BY DEF IInv, Places
    <3>2. QED BY <1>3, <2>2, <3>1, GrantedSkiffIsHere
  <2>3. QED BY <1>1, <2>1, <2>2 DEF RespawnActiveShip
<1>5. Hangar' BY <1>4 DEF Hangar, Sound
<1>6. Places' /\ ActiveIsHere'
  BY <1>1, <1>2, <1>4 DEF IInv, Places, ActiveIsHere, LocalShips, Owned
<1>7. QED BY <1>2, <1>5, <1>6 DEF IInv

-----------------------------------------------------------------------------
(* The theorems. *)

\* A new pilot has a Skiff at home.
LEMMA InitHolds == Init => IInv
<1> SUFFICES ASSUME Init PROVE IInv
  OBVIOUS
<1> DEFINE id == CatalogID(Starter)
           new == FreshShipInstance(Starter, Home)
<1>1. Starter \in DOMAIN Models /\ id[1] \in DOMAIN Models
  BY ContentAssumption DEF ContentAssumption, ShipsValid, CatalogID
<1>2. Sound(new) /\ new.sys = Home BY <1>1, FreshIsSound
<1>3. ships = [i \in {id} |-> new] /\ active = id /\ at = Home BY DEF Init
<1> HIDE DEF id, new
<1>4. Hangar BY <1>1, <1>2, <1>3 DEF Hangar
<1>5. Papers /\ career.visited = {Home}
  BY ContentAssumption DEF Init, Papers, ContentAssumption, PilotValid
<1>6. Places /\ ActiveIsHere BY <1>2, <1>3, <1>5 DEF Places, ActiveIsHere, LocalShips, Owned
<1>7. QED BY <1>4, <1>5, <1>6 DEF IInv

\* Every step keeps the invariant.
LEMMA NextKeeps == IInv /\ [Next]_vars => IInv'
<1> SUFFICES ASSUME IInv, [Next]_vars PROVE IInv'
  OBVIOUS
<1>1. CASE Shipyard BY <1>1, ShipyardStep
<1>2. CASE Port
  <2>1. CASE SellCargo \/ InsuranceAdvance \/ \E d \in DOMAIN Worlds : BuyDestinationPermit(d)
    BY <2>1, DeskStep
  <2>2. CASE Refuel \/ Repair \/ \E d \in DOMAIN Worlds : Depart(d)
    BY <2>2, FlownHullStep
  <2>3. CASE CertifyRating BY <2>3, CertifyStep
  <2>4. CASE \E m \in DOMAIN Models : AcquireShip(m) BY <2>4, AcquireStep
  <2>5. CASE \E id \in Owned : SwitchActiveShip(id) BY <2>5, SwitchStep
  <2>6. CASE \E id \in Owned, to \in SystemSet : FerryShip(id, to) BY <2>6, FerryStep
  <2>7. CASE \E g \in Gates : Jump(g) BY <2>7, JumpStep
  <2>8. QED BY <1>2, <2>1, <2>2, <2>3, <2>4, <2>5, <2>6, <2>7 DEF Port
<1>3. CASE Dock BY <1>3, FlownHullStep
<1>4. CASE Run
  <2>1. ASSUME NEW mined, NEW tribute, NEW pirate, NEW legend, NEW burnt,
               NEW hit \in 0 .. ships[active].hull - 1, NEW spent,
               RunSurvived(mined, tribute, burnt, hit, spent, pirate, legend)
        PROVE  IInv'
    <3>1. ships[active].hull \in Nat
      BY DEF IInv, Hangar, ActiveIsHere, LocalShips, Owned, Sound
    <3>2. hit \in Nat BY <3>1
    <3>3. QED BY <2>1, <3>2, SurvivedStep
  <2>2. ASSUME NEW legend, ShipLost(legend) PROVE IInv'
    BY <2>2, LostStep
  <2>3. QED BY <1>4, <2>1, <2>2 DEF Run
<1>5. CASE UNCHANGED vars BY <1>5, NoHullChanges DEF vars
<1>6. QED BY <1>1, <1>2, <1>3, <1>4, <1>5 DEF Next

\* The invariant gives what the runs check.
LEMMA InvariantGives == IInv => ActiveIsHere /\ FleetWithinReach
  BY DEF IInv, Hangar, Papers, Places, Sound, FleetWithinReach, Owned

\* A pilot always flies a hull they own, in the system they are in, after
\* any purchases, jumps, misalignments, ferries and losses (ships.go
\* respawnActiveShip, jump.go Jump, ferry.go FerryShip).
THEOREM PilotHasAHullHere == Spec => []ActiveIsHere
<1>1. Init => IInv BY InitHolds
<1>2. IInv /\ [Next]_vars => IInv' BY NextKeeps
<1>3. IInv => ActiveIsHere BY InvariantGives
<1>4. QED BY <1>1, <1>2, <1>3, PTL DEF Spec

\* No hull is beyond a gate the pilot is not rated for or in a system never
\* visited, and none is a wreck.
THEOREM NoHullOutOfReach == Spec => []FleetWithinReach
<1>1. Init => IInv BY InitHolds
<1>2. IInv /\ [Next]_vars => IInv' BY NextKeeps
<1>3. IInv => FleetWithinReach BY InvariantGives
<1>4. QED BY <1>1, <1>2, <1>3, PTL DEF Spec

\* A hull of one fleet is in another, under its id or, the Skiff alone, under
\* an id that is new.
StillIn(fleet, new, id) ==
    \/ id \in DOMAIN new /\ new[id] = fleet[id]
    \/ id = CatalogID(Starter) /\ \E i \in DOMAIN new \ DOMAIN fleet : new[i] = fleet[id]

\* A free Skiff takes no other hull's place, if the Skiff that is moved out
\* of the way is somewhere else.
LEMMA GrantKeepsOthers ==
  ASSUME NEW fleet, NEW new \in GrantStarterShip(fleet),
         CatalogID(Starter) \in DOMAIN fleet => fleet[CatalogID(Starter)].sys # at,
         NEW id \in DOMAIN fleet
  PROVE  StillIn(fleet, new, id)
<1> DEFINE old  == CatalogID(Starter)
           here == FreshShipInstance(Starter, at)
<1>1. CASE old \in DOMAIN fleet
  <2>1. PICK n : /\ RescueID(fleet[old].sys, n) \notin DOMAIN fleet
                 /\ new = With(With(fleet, RescueID(fleet[old].sys, n), fleet[old]), old, here)
    BY <1>1 DEF GrantStarterShip
  <2> DEFINE away == RescueID(fleet[old].sys, n)
             mid == With(fleet, away, fleet[old])
  <2>2. away \notin DOMAIN fleet /\ new = With(mid, old, here) BY <2>1
  <2> HIDE DEF old, here, away
  <2>3. /\ DOMAIN mid = DOMAIN fleet \cup {away} /\ mid[away] = fleet[old]
        /\ \A i \in DOMAIN fleet : mid[i] = fleet[i]
    BY <2>2 DEF With
  <2> HIDE DEF mid
  <2>4. /\ DOMAIN new = DOMAIN mid \cup {old} /\ \A i \in DOMAIN mid : i # old => new[i] = mid[i]
    BY <2>2 DEF With
  <2>5. CASE id = old
    <3>1. away \in DOMAIN new /\ away # old BY <1>1, <2>2, <2>3, <2>4
    <3>2. new[away] = fleet[id] BY <2>3, <2>4, <2>5, <3>1
    <3>3. QED BY <2>2, <2>5, <3>1, <3>2 DEF StillIn, old
  <2>6. CASE id # old
    <3>1. id \in DOMAIN new /\ new[id] = fleet[id] BY <2>3, <2>4, <2>6
    <3>2. QED BY <3>1 DEF StillIn
  <2>7. QED BY <2>5, <2>6
<1>2. CASE old \notin DOMAIN fleet
  <2>1. new = With(fleet, old, here) BY <1>2 DEF GrantStarterShip
  <2>2. id # old BY <1>2
  <2> HIDE DEF old, here
  <2>3. id \in DOMAIN new /\ new[id] = fleet[id] BY <2>1, <2>2 DEF With
  <2>4. QED BY <2>3 DEF StillIn
<1>3. QED BY <1>1, <1>2

\* A step that brings the pilot back to the dock leaves the other hulls.
LEMMA ReturnKeepsOthers ==
  ASSUME IInv, [Next]_vars, ~Docked, world' = NoWorld, NEW id \in Owned \ {active}
  PROVE  \/ id \in Owned' /\ ships'[id] = ships[id]
         \/ /\ id = CatalogID(Starter)
            /\ \E i \in Owned' \ (Owned \ {active}) : ships'[i] = ships[id]
<1> DEFINE left == Without(ships, active)
           Kept == StillIn(left, ships', id)
<1>0. ASSUME Kept
      PROVE  \/ id \in Owned' /\ ships'[id] = ships[id]
             \/ /\ id = CatalogID(Starter)
                /\ \E i \in Owned' \ (Owned \ {active}) : ships'[i] = ships[id]
  <2>1. DOMAIN left = Owned \ {active} /\ left[id] = ships[id] BY DEF Without, Owned
  <2> HIDE DEF left
  <2>2. QED BY <1>0, <2>1 DEF StillIn, Owned
<1>1. CASE Dock
  <2> DEFINE r == Serviced(Patched(ships[active], active))
  <2>1. ships' = [ships EXCEPT ![active] = r] BY <1>1 DEF Dock
  <2> HIDE DEF r
  <2>2. id \in DOMAIN ships' /\ ships'[id] = ships[id] BY <2>1 DEF Owned, IInv, Hangar
  <2>3. QED BY <2>2 DEF Owned
<1>2. ASSUME NEW legend, ShipLost(legend)
      PROVE  Kept
  <2>1. RespawnActiveShip(left) BY <1>2 DEF ShipLost
  <2>2. id \in DOMAIN left /\ left[id] = ships[id] BY DEF Without, Owned
  <2> HIDE DEF left
  <2>3. CASE RecoveryShips(left) # {}
    <3>1. ships' = left BY <2>1, <2>3 DEF RespawnActiveShip
    <3>2. QED BY <2>2, <3>1 DEF StillIn
  <2>4. CASE RecoveryShips(left) = {}
    <3>1. ships' \in GrantStarterShip(left) BY <2>1, <2>4 DEF RespawnActiveShip
    <3>2. CatalogID(Starter) \in DOMAIN left => left[CatalogID(Starter)].sys # at
      BY <2>4 DEF RecoveryShips
    <3>3. QED BY <2>2, <3>1, <3>2, GrantKeepsOthers
  <2>5. QED BY <2>3, <2>4
<1>3. ASSUME NEW mined, NEW tribute, NEW burnt, NEW hit, NEW spent, NEW pirate, NEW legend,
             RunSurvived(mined, tribute, burnt, hit, spent, pirate, legend)
      PROVE  FALSE
  BY <1>3 DEF RunSurvived, Docked
<1> HIDE DEF Kept, left
<1>4. CASE Run BY <1>0, <1>2, <1>3, <1>4 DEF Run
<1>5. Shipyard => Docked
  BY DEF Shipyard, InstallSlotDevice, ReplaceSlotDeviceWithPurchase, StoreSlotDevice, SellSlotDevice,
         InstallSlotDeviceFromInventory, BuyShipTrack
<1>6. Port => Docked
  <2>1. \A g : Jump(g) => Docked BY DEF Jump, JumpOpen
  <2>2. SellCargo \/ Refuel \/ Repair \/ InsuranceAdvance \/ CertifyRating => Docked
    BY DEF SellCargo, Refuel, Repair, InsuranceAdvance, InsuranceEligible, CertifyRating
  <2>3. \A d : BuyDestinationPermit(d) \/ Depart(d) => Docked BY DEF BuyDestinationPermit, Depart
  <2>4. \A m : AcquireShip(m) => Docked BY DEF AcquireShip
  <2>5. \A i, to : SwitchActiveShip(i) \/ FerryShip(i, to) => Docked
    BY DEF SwitchActiveShip, FerryShip
  <2>6. QED BY <2>1, <2>2, <2>3, <2>4, <2>5 DEF Port
<1>7. ~UNCHANGED vars BY DEF vars, Docked
<1>8. QED BY <1>0, <1>1, <1>4, <1>5, <1>6, <1>7 DEF Next

\* A loss takes the hull that was flown and no other, though the free Skiff
\* it brings may have to move another one out of the way (ships.go
\* grantStarterShip).
THEOREM OthersSurviveALoss == Spec => LossTakesOneHull
<1>1. Init => IInv BY InitHolds
<1>2. IInv /\ [Next]_vars => IInv' BY NextKeeps
<1>3. IInv /\ [Next]_vars =>
        [~Docked /\ world' = NoWorld =>
           \A id \in Owned \ {active} :
              \/ id \in Owned' /\ ships'[id] = ships[id]
              \/ /\ id = CatalogID(Starter)
                 /\ \E i \in Owned' \ (Owned \ {active}) : ships'[i] = ships[id]]_vars
  BY ReturnKeepsOthers
<1>4. QED BY <1>1, <1>2, <1>3, PTL DEF Spec, LossTakesOneHull
=============================================================================
