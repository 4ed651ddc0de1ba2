---------------------------- MODULE LoadoutProofs ----------------------------
(***************************************************************************)
(* Proofs about what a hull carries: its devices, its fuel, its cargo and  *)
(* the origins of the cargo.  They rest on FleetProofs' invariant, for     *)
(* where hulls are, and on Sums, for what power, hold and fuel add up to.  *)
(***************************************************************************)
EXTENDS FleetProofs, Sums, SequenceTheorems

\* a device of the catalogue, or the empty slot
AllDevices ==
    {d \in [item : DOMAIN Items \cup {Empty.item}, grade : 0 .. MaxGrade, fuel : Nat,
            ready : BOOLEAN] : DeviceOK(d)}

\* A hull's slots are those of its model, with devices of the catalogue in
\* them; its own tank and its hull are between empty and full.
Rig(r) ==
    /\ r.model \in DOMAIN Models
    /\ r.slots \in [Slots(r.model) -> AllDevices]
    /\ r.fuel \in 0 .. StartFuel
    /\ r.hull <= MaxHull(r)

\* the same devices, whatever their fuel and their load, on the same hull
SameFit(q, r) ==
    /\ q.model = r.model /\ q.grade = r.grade /\ DOMAIN q.slots = DOMAIN r.slots
    /\ \A x \in DOMAIN r.slots : /\ q.slots[x].item = r.slots[x].item
                                 /\ q.slots[x].grade = r.slots[x].grade

-----------------------------------------------------------------------------
(* Devices. *)

\* What a device is made of, by whether its slot is empty.
LEMMA DeviceShape ==
  ASSUME NEW d \in AllDevices
  PROVE  /\ d = [item |-> d.item, grade |-> d.grade, fuel |-> d.fuel, ready |-> d.ready]
         /\ d.grade \in Nat /\ d.fuel \in Nat /\ d.ready \in BOOLEAN
         /\ FuelTankCapacity(d) \in Nat /\ d.fuel <= FuelTankCapacity(d)
         /\ d = Empty <=> d.item = "none"
         /\ d # Empty => d.item \in DOMAIN Items /\ d.grade \in 0 .. MaxGrade
<1>1. MaxGrade \in Nat /\ "none" \notin DOMAIN Items
  BY DevicesAssumption DEF DevicesAssumption, Empty
<1>2. CASE d = Empty
  BY <1>1, <1>2 DEF AllDevices, Empty, FuelTankCapacity, TankPerGrade
<1>3. CASE d # Empty
  <2>1. /\ d \in [item : DOMAIN Items \cup {Empty.item}, grade : 0 .. MaxGrade, fuel : Nat,
                  ready : BOOLEAN]
        /\ d.item \in DOMAIN Items /\ d.fuel \in 0 .. FuelTankCapacity(d)
    BY <1>3 DEF AllDevices, DeviceOK
  <2>2. FuelTankCapacity(d) \in Nat BY <1>1, <2>1 DEF FuelTankCapacity, TankPerGrade
  <2>3. QED BY <1>1, <1>3, <2>1, <2>2
<1>4. QED BY <1>2, <1>3

\* The empty slot and a new device are devices.
LEMMA NewDevices ==
  /\ Empty \in AllDevices
  /\ \A item \in DOMAIN Items, g \in 0 .. MaxGrade : NewDevice(item, g) \in AllDevices
<1>1. MaxGrade \in Nat BY DevicesAssumption DEF DevicesAssumption
<1>2. Empty \in AllDevices BY <1>1 DEF AllDevices, Empty, DeviceOK
<1>3. ASSUME NEW item \in DOMAIN Items, NEW g \in 0 .. MaxGrade
      PROVE  NewDevice(item, g) \in AllDevices
  <2> DEFINE d == NewDevice(item, g)
  <2>1. d \in [item : DOMAIN Items \cup {Empty.item}, grade : 0 .. MaxGrade, fuel : Nat,
               ready : BOOLEAN]
    BY DEF NewDevice
  <2>2. FuelTankCapacity(d) \in Nat BY <1>1 DEF FuelTankCapacity, TankPerGrade, NewDevice
  <2>3. d.item \in DOMAIN Items /\ d.grade \in 0 .. MaxGrade /\ d.fuel = 0 /\ d.ready \in BOOLEAN
    BY DEF NewDevice
  <2> HIDE DEF d
  <2>4. d.fuel \in 0 .. FuelTankCapacity(d) BY <2>2, <2>3
  <2>5. DeviceOK(d) BY <2>3, <2>4 DEF DeviceOK
  <2>6. d \in AllDevices BY <2>1, <2>5 DEF AllDevices
  <2>7. QED BY <2>6 DEF d
<1>4. QED BY <1>2, <1>3

\* A device with other fuel, within its tank, or another load is a device.
LEMMA DeviceFuelled ==
  ASSUME NEW d \in AllDevices, NEW n \in Nat, n <= FuelTankCapacity(d)
  PROVE  LET q == [d EXCEPT !.fuel = n]
         IN q \in AllDevices /\ q.item = d.item /\ q.grade = d.grade
<1> DEFINE q == [d EXCEPT !.fuel = n]
<1>1. MaxGrade \in Nat /\ "none" \notin DOMAIN Items
  BY DevicesAssumption DEF DevicesAssumption, Empty
<1>2. /\ d \in [item : DOMAIN Items \cup {Empty.item}, grade : 0 .. MaxGrade, fuel : Nat,
                ready : BOOLEAN]
  BY DEF AllDevices
<1>3. /\ q \in [item : DOMAIN Items \cup {Empty.item}, grade : 0 .. MaxGrade, fuel : Nat,
                ready : BOOLEAN]
      /\ q.item = d.item /\ q.grade = d.grade /\ q.fuel = n /\ q.ready = d.ready
  BY <1>2
<1>4. FuelTankCapacity(q) = FuelTankCapacity(d) BY <1>3 DEF FuelTankCapacity
<1>5. CASE d = Empty
  <2>1. FuelTankCapacity(d) = 0 BY <1>5 DEF FuelTankCapacity, Empty
  <2>2. n = 0 BY <2>1
  <2>3. q = d BY <1>5, <2>2 DEF Empty
  <2>4. QED BY <1>5, <2>3
<1>6. CASE d # Empty
  <2>1. d.item \in DOMAIN Items /\ d.grade \in 0 .. MaxGrade /\ FuelTankCapacity(d) \in Nat
        /\ d.ready \in BOOLEAN
    BY <1>6, DeviceShape
  <2> HIDE DEF q
  <2>2. n \in 0 .. FuelTankCapacity(d) BY <2>1
  <2>3. DeviceOK(q) BY <1>3, <1>4, <2>1, <2>2 DEF DeviceOK
  <2>4. QED BY <1>3, <2>3 DEF AllDevices
<1>7. QED BY <1>5, <1>6

\* So is one that is loaded or spent, if it is not the empty slot.
LEMMA DeviceLoaded ==
  ASSUME NEW d \in AllDevices, NEW b \in BOOLEAN, d.item # "none"
  PROVE  LET q == [d EXCEPT !.ready = b]
         IN q \in AllDevices /\ q.item = d.item /\ q.grade = d.grade
<1> DEFINE q == [d EXCEPT !.ready = b]
<1>2. /\ d \in [item : DOMAIN Items \cup {Empty.item}, grade : 0 .. MaxGrade, fuel : Nat,
                ready : BOOLEAN]
  BY DEF AllDevices
<1>3. /\ q \in [item : DOMAIN Items \cup {Empty.item}, grade : 0 .. MaxGrade, fuel : Nat,
                ready : BOOLEAN]
      /\ q.item = d.item /\ q.grade = d.grade /\ q.fuel = d.fuel /\ q.ready = b
  BY <1>2
<1>4. FuelTankCapacity(q) = FuelTankCapacity(d) BY <1>3 DEF FuelTankCapacity
<1>5. d.item \in DOMAIN Items /\ d.grade \in 0 .. MaxGrade /\ d.fuel \in 0 .. FuelTankCapacity(d)
  <2>1. d # Empty BY DEF Empty
  <2>2. QED BY <2>1 DEF AllDevices, DeviceOK
<1> HIDE DEF q
<1>6. DeviceOK(q) BY <1>3, <1>4, <1>5 DEF DeviceOK
<1>7. QED BY <1>3, <1>6 DEF AllDevices

-----------------------------------------------------------------------------
(* Slots, and what hulls of the same fit have in common. *)

\* A hull has finitely many slots.
LEMMA SlotsFinite ==
  ASSUME NEW m \in DOMAIN Models
  PROVE  IsFiniteSet(Slots(m))
<1>1. Models[m].slots \in [Kinds -> Nat]
  BY ContentAssumption DEF ContentAssumption, ShipsValid
<1> DEFINE n == Models[m].slots["utility"] + Models[m].slots["weapon"] + Models[m].slots["internal"]
<1>2. n \in Nat /\ \A k \in Kinds : Models[m].slots[k] \in Nat /\ Models[m].slots[k] <= n
  BY <1>1 DEF Kinds
<1> HIDE DEF n
<1>3. Slots(m) \subseteq Kinds \X (1 .. n) BY <1>2 DEF Slots
<1>4. IsFiniteSet(Kinds)
  <2>1. IsFiniteSet({"utility"}) BY FS_Singleton
  <2>2. IsFiniteSet({"utility"} \cup {"weapon"}) BY <2>1, FS_AddElement
  <2>3. IsFiniteSet(({"utility"} \cup {"weapon"}) \cup {"internal"}) BY <2>2, FS_AddElement
  <2>4. Kinds = ({"utility"} \cup {"weapon"}) \cup {"internal"} BY DEF Kinds
  <2>5. QED BY <2>3, <2>4
<1>5. IsFiniteSet(1 .. n) BY <1>2, FS_Interval
<1>6. IsFiniteSet(Kinds \X (1 .. n)) BY <1>4, <1>5, FS_Product
<1>7. QED BY <1>3, <1>6, FS_Subset

\* What of a rig the sums go over.
LEMMA RigShape ==
  ASSUME NEW r, Rig(r)
  PROVE  /\ IsFiniteSet(DOMAIN r.slots)
         /\ \A x \in DOMAIN r.slots : r.slots[x] \in AllDevices
         /\ Devices(r) = {x \in DOMAIN r.slots : r.slots[x].item # "none"}
         /\ \A T \in SUBSET DOMAIN r.slots : IsFiniteSet(T)
<1>1. DOMAIN r.slots = Slots(r.model) BY DEF Rig
<1>2. IsFiniteSet(DOMAIN r.slots) BY <1>1, SlotsFinite DEF Rig
<1>3. \A x \in DOMAIN r.slots : r.slots[x] \in AllDevices BY DEF Rig
<1>4. \A x \in DOMAIN r.slots : r.slots[x] # Empty <=> r.slots[x].item # "none"
  BY <1>3, DeviceShape
<1>5. QED BY <1>2, <1>3, <1>4, FS_Subset DEF Devices

\* Hulls of the same fit have the same hold, draw and capacity, and the same
\* devices in the same slots.
LEMMA SameFitSame ==
  ASSUME NEW q, NEW r, Rig(q), Rig(r), SameFit(q, r)
  PROVE  /\ CargoCapacityUnits(q) = CargoCapacityUnits(r)
         /\ InstalledPower(q) = InstalledPower(r) /\ PowerCapacity(q) = PowerCapacity(r)
         /\ \A item : Fitted(q, item) = Fitted(r, item)
         /\ Devices(q) = Devices(r)
<1>1. \A item : Fitted(q, item) = Fitted(r, item) BY DEF SameFit, Fitted
<1>2. Devices(q) = Devices(r) BY RigShape DEF SameFit
<1>3. PowerCapacity(q) = PowerCapacity(r) BY DEF SameFit, PowerCapacity
<1>4. \A x \in Devices(r) : q.slots[x].item = r.slots[x].item /\ q.slots[x].grade = r.slots[x].grade
  BY DEF Devices, SameFit
<1>5. [x \in Devices(q) |-> SlotItemPower(q.slots[x].item, q.slots[x].grade)]
        = [x \in Devices(r) |-> SlotItemPower(r.slots[x].item, r.slots[x].grade)]
  BY <1>2, <1>4
<1>6. InstalledPower(q) = InstalledPower(r) BY <1>5 DEF InstalledPower
<1>7. \A x \in Fitted(r, "cargo") : q.slots[x].grade = r.slots[x].grade
  BY DEF Fitted, SameFit
<1>8. [x \in Fitted(q, "cargo") |-> CargoPerGrade * (q.slots[x].grade + 1)]
        = [x \in Fitted(r, "cargo") |-> CargoPerGrade * (r.slots[x].grade + 1)]
  BY <1>1, <1>7
<1>9. CargoCapacityUnits(q) = CargoCapacityUnits(r) BY <1>8 DEF CargoCapacityUnits, SameFit
<1>10. QED BY <1>1, <1>2, <1>3, <1>6, <1>9

\* A hold is a number, and so is a draw.
LEMMA CapacityType ==
  ASSUME NEW r, Rig(r)
  PROVE  CargoCapacityUnits(r) \in Nat /\ InstalledPower(r) \in Nat
<1> DEFINE c == [x \in Fitted(r, "cargo") |-> CargoPerGrade * (r.slots[x].grade + 1)]
           p == [x \in Devices(r) |-> SlotItemPower(r.slots[x].item, r.slots[x].grade)]
<1>1. IsFiniteSet(DOMAIN c) /\ IsFiniteSet(DOMAIN p) BY RigShape DEF Fitted, Devices
<1>2. \A x \in DOMAIN c : c[x] \in Nat
  <2>1. \A x \in Fitted(r, "cargo") : r.slots[x].grade \in Nat BY RigShape, DeviceShape DEF Fitted
  <2>2. QED BY <2>1 DEF CargoPerGrade
<1>3. \A x \in DOMAIN p : p[x] \in Nat
  <2> SUFFICES ASSUME NEW x \in Devices(r)
               PROVE  SlotItemPower(r.slots[x].item, r.slots[x].grade) \in Nat
    OBVIOUS
  <2>1. r.slots[x] \in AllDevices /\ r.slots[x] # Empty BY RigShape DEF Devices
  <2>2. r.slots[x].item \in DOMAIN Items /\ r.slots[x].grade \in Nat BY <2>1, DeviceShape
  <2>3. Items[r.slots[x].item].power \in Nat BY <2>2, DevicesAssumption DEF DevicesAssumption
  <2>4. QED BY <2>2, <2>3 DEF SlotItemPower
<1>4. SumFunction(c) \in Nat
  <2> HIDE DEF c
  <2>1. QED BY <1>1, <1>2, SumFunctionType
<1>5. SumFunction(p) \in Nat
  <2> HIDE DEF p
  <2>1. QED BY <1>1, <1>3, SumFunctionType
<1>6. Models[r.model].cargo \in Nat
  BY ContentAssumption DEF ContentAssumption, ShipsValid, Rig
<1>7. CargoCapacityUnits(r) = Models[r.model].cargo + SumFunction(c) /\ InstalledPower(r) = SumFunction(p)
  BY DEF CargoCapacityUnits, InstalledPower
<1> HIDE DEF c, p
<1>8. QED BY <1>4, <1>5, <1>6, <1>7

\* Two hulls that differ in one slot, which one of them leaves empty: the
\* other draws what the device in it draws, and its hold is no smaller.
LEMMA OneSlotMore ==
  ASSUME NEW q, NEW e, NEW x, Rig(q), Rig(e), q.model = e.model,
         DOMAIN q.slots = DOMAIN e.slots, x \in DOMAIN e.slots, e.slots[x] = Empty,
         \A y \in DOMAIN e.slots : y # x => q.slots[y] = e.slots[y]
  PROVE  /\ q.slots[x] # Empty =>
              InstalledPower(q) = InstalledPower(e) + SlotItemPower(q.slots[x].item, q.slots[x].grade)
         /\ InstalledPower(e) <= InstalledPower(q)
         /\ CargoCapacityUnits(e) <= CargoCapacityUnits(q)
<1> DEFINE P(r) == [y \in Devices(r) |-> SlotItemPower(r.slots[y].item, r.slots[y].grade)]
           C(r) == [y \in Fitted(r, "cargo") |-> CargoPerGrade * (r.slots[y].grade + 1)]
           d == q.slots[x]
<1>1. /\ InstalledPower(q) \in Nat /\ InstalledPower(e) \in Nat
      /\ CargoCapacityUnits(q) \in Nat /\ CargoCapacityUnits(e) \in Nat
  BY CapacityType
<1>2. /\ InstalledPower(q) = SumFunction(P(q)) /\ InstalledPower(e) = SumFunction(P(e))
      /\ CargoCapacityUnits(q) = Models[e.model].cargo + SumFunction(C(q))
      /\ CargoCapacityUnits(e) = Models[e.model].cargo + SumFunction(C(e))
  BY DEF InstalledPower, CargoCapacityUnits
<1>3. /\ IsFiniteSet(Devices(e)) /\ IsFiniteSet(Fitted(e, "cargo")) /\ d \in AllDevices
      /\ \A y \in DOMAIN e.slots : e.slots[y] \in AllDevices
  BY RigShape DEF Devices, Fitted
<1>4. x \notin Devices(e) /\ x \notin Fitted(e, "cargo") BY DEF Devices, Fitted, Empty
<1>5. ASSUME NEW y \in AllDevices, y # Empty PROVE SlotItemPower(y.item, y.grade) \in Nat
  <2>1. y.item \in DOMAIN Items /\ y.grade \in Nat BY <1>5, DeviceShape
  <2>2. Items[y.item].power \in Nat BY <2>1, DevicesAssumption DEF DevicesAssumption
  <2>3. QED BY <2>1, <2>2 DEF SlotItemPower
<1>6. CASE d = Empty
  <2>1. \A y \in DOMAIN e.slots : q.slots[y] = e.slots[y] BY <1>6
  <2>2. Devices(q) = Devices(e) /\ Fitted(q, "cargo") = Fitted(e, "cargo") BY <2>1 DEF Devices, Fitted
  <2>3. P(q) = P(e) BY <2>1, <2>2 DEF Devices
  <2>4. C(q) = C(e) BY <2>1, <2>2 DEF Fitted
  <2> HIDE DEF P, C
  <2>5. QED BY <1>1, <1>2, <1>6, <2>3, <2>4
<1>7. CASE d # Empty
  <2>1. Devices(q) = Devices(e) \cup {x} BY <1>4, <1>7 DEF Devices
  <2>2. \A y \in Devices(e) : P(q)[y] = P(e)[y] /\ P(e)[y] \in Int
    <3> SUFFICES ASSUME NEW y \in Devices(e) PROVE P(q)[y] = P(e)[y] /\ P(e)[y] \in Int
      OBVIOUS
    <3>1. y # x /\ q.slots[y] = e.slots[y] /\ e.slots[y] \in AllDevices /\ e.slots[y] # Empty
      BY <1>3, <1>4 DEF Devices
    <3>2. QED BY <1>5, <2>1, <3>1
  <2>3. P(q)[x] = SlotItemPower(d.item, d.grade) /\ P(q)[x] \in Nat BY <1>3, <1>5, <1>7, <2>1
  <2>4. DOMAIN P(q) = DOMAIN P(e) \cup {x} /\ DOMAIN P(e) = Devices(e) BY <2>1
  <2>5. SumFunction(P(q)) = P(q)[x] + SumFunction(P(e))
    <3> HIDE DEF P
    <3>1. QED BY <1>3, <1>4, <2>2, <2>3, <2>4, SumExtended
  <2>6. InstalledPower(q) = InstalledPower(e) + SlotItemPower(d.item, d.grade)
        /\ InstalledPower(e) <= InstalledPower(q)
    <3> HIDE DEF P
    <3>1. QED BY <1>1, <1>2, <2>3, <2>5
  <2>7. CargoCapacityUnits(e) <= CargoCapacityUnits(q)
    <3>1. \A y \in Fitted(e, "cargo") : C(q)[y] = C(e)[y] /\ C(e)[y] \in Int
      <4> SUFFICES ASSUME NEW y \in Fitted(e, "cargo") PROVE C(q)[y] = C(e)[y] /\ C(e)[y] \in Int
        OBVIOUS
      <4>1. y # x /\ q.slots[y] = e.slots[y] /\ e.slots[y].grade \in Nat /\ y \in Fitted(q, "cargo")
        BY <1>3, <1>4, DeviceShape DEF Fitted
      <4>2. QED BY <4>1 DEF CargoPerGrade
    <3>2. CASE d.item = "cargo"
      <4>1. Fitted(q, "cargo") = Fitted(e, "cargo") \cup {x} BY <1>4, <3>2 DEF Fitted
      <4>2. C(q)[x] \in Nat BY <1>3, <4>1, DeviceShape DEF CargoPerGrade
      <4>3. DOMAIN C(q) = DOMAIN C(e) \cup {x} /\ DOMAIN C(e) = Fitted(e, "cargo") BY <4>1
      <4> HIDE DEF C
      <4>4. SumFunction(C(q)) = C(q)[x] + SumFunction(C(e)) /\ SumFunction(C(e)) \in Int
        BY <1>3, <1>4, <3>1, <4>2, <4>3, SumExtended
      <4>5. Models[e.model].cargo \in Nat
        BY ContentAssumption DEF ContentAssumption, ShipsValid, Rig
      <4>6. QED BY <1>2, <4>2, <4>4, <4>5
    <3>3. CASE d.item # "cargo"
      <4>1. Fitted(q, "cargo") = Fitted(e, "cargo") BY <1>4, <3>3 DEF Fitted
      <4>2. C(q) = C(e) BY <3>1, <4>1
      <4> HIDE DEF C
      <4>3. QED BY <1>1, <1>2, <4>2
    <3>4. QED BY <3>2, <3>3
  <2>8. QED BY <2>6, <2>7
<1>8. QED BY <1>6, <1>7

-----------------------------------------------------------------------------
(* What the operators on a hull do to its rig. *)

\* A hull with new slots, a new hull or new fuel.
LEMMA Refitted ==
  ASSUME NEW r, Sound(r), Rig(r), NEW sl \in [Slots(r.model) -> AllDevices]
  PROVE  LET q == [r EXCEPT !.slots = sl]
         IN Rig(q) /\ q.slots = sl /\ q.model = r.model /\ q.grade = r.grade /\ q.sys = r.sys
            /\ q.hull = r.hull /\ MaxHull(q) = MaxHull(r)
<1> DEFINE q == [r EXCEPT !.slots = sl]
<1>1. q.slots = sl /\ q.model = r.model /\ q.grade = r.grade /\ q.sys = r.sys /\ q.hull = r.hull
      /\ q.fuel = r.fuel
  BY DEF Sound
<1> HIDE DEF q
<1>2. MaxHull(q) = MaxHull(r) BY <1>1 DEF MaxHull
<1>3. Rig(q) BY <1>1, <1>2 DEF Rig
<1>4. QED BY <1>1, <1>2, <1>3 DEF q

\* One slot is refilled or emptied.
LEMMA SlotPut ==
  ASSUME NEW r, Sound(r), Rig(r), NEW x \in DOMAIN r.slots, NEW d \in AllDevices
  PROVE  LET q == [r EXCEPT !.slots[x] = d]
         IN /\ Sound(q) /\ Rig(q) /\ q.model = r.model /\ q.grade = r.grade /\ q.sys = r.sys
            /\ DOMAIN q.slots = DOMAIN r.slots /\ q.slots[x] = d
            /\ \A y \in DOMAIN r.slots : y # x => q.slots[y] = r.slots[y]
<1> DEFINE sl == [r.slots EXCEPT ![x] = d]
           q == [r EXCEPT !.slots = sl]
<1>1. r.slots \in [Slots(r.model) -> AllDevices] BY DEF Rig
<1>2. sl \in [Slots(r.model) -> AllDevices] /\ sl[x] = d /\ DOMAIN sl = DOMAIN r.slots
      /\ \A y \in DOMAIN r.slots : y # x => sl[y] = r.slots[y]
  BY <1>1
<1>3. [r EXCEPT !.slots[x] = d] = q BY DEF Sound
<1> HIDE DEF sl
<1>4. Sound(q) BY SlotsKeep
<1>5. Rig(q) /\ q.slots = sl /\ q.model = r.model /\ q.grade = r.grade /\ q.sys = r.sys
  BY <1>2, Refitted
<1> HIDE DEF q
<1>6. QED BY <1>2, <1>3, <1>4, <1>5

\* What is in some of the tanks, and the room left in them, are numbers.
LEMMA TankSums ==
  ASSUME NEW r, Rig(r), NEW T \in SUBSET DOMAIN r.slots
  PROVE  /\ FuelIn(r, T) \in Nat /\ RoomIn(r, T) \in Nat
         /\ \A x \in DOMAIN r.slots : FuelRoom(r, x) \in Nat
<1> DEFINE f == [x \in T |-> r.slots[x].fuel]
           g == [x \in T |-> FuelRoom(r, x)]
<1>1. \A x \in DOMAIN r.slots : r.slots[x].fuel \in Nat /\ FuelRoom(r, x) \in Nat
  <2> SUFFICES ASSUME NEW x \in DOMAIN r.slots
               PROVE  r.slots[x].fuel \in Nat /\ FuelRoom(r, x) \in Nat
    OBVIOUS
  <2>1. r.slots[x] \in AllDevices BY RigShape
  <2>2. /\ r.slots[x].fuel \in Nat /\ FuelTankCapacity(r.slots[x]) \in Nat
        /\ r.slots[x].fuel <= FuelTankCapacity(r.slots[x])
    BY <2>1, DeviceShape
  <2>3. QED BY <2>2 DEF FuelRoom
<1>2. /\ IsFiniteSet(DOMAIN f) /\ IsFiniteSet(DOMAIN g)
      /\ \A x \in DOMAIN f : f[x] \in Nat
      /\ \A x \in DOMAIN g : g[x] \in Nat
  BY <1>1, RigShape
<1>3. FuelIn(r, T) = SumFunction(f) /\ RoomIn(r, T) = SumFunction(g) BY DEF FuelIn, RoomIn
<1> HIDE DEF f, g
<1>4. QED BY <1>1, <1>2, <1>3, SumFunctionType

\* New slots of the same fit, and new fuel in the hull's own tank.
LEMMA Refuelled ==
  ASSUME NEW r, Sound(r), Rig(r), NEW fu \in 0 .. StartFuel,
         NEW sl \in [DOMAIN r.slots -> AllDevices],
         \A x \in DOMAIN r.slots : /\ sl[x].item = r.slots[x].item
                                   /\ sl[x].grade = r.slots[x].grade
  PROVE  LET q == [r EXCEPT !.slots = sl, !.fuel = fu] IN Rig(q) /\ SameFit(q, r)
<1> DEFINE q == [r EXCEPT !.slots = sl, !.fuel = fu]
<1>1. q.slots = sl /\ q.model = r.model /\ q.grade = r.grade /\ q.hull = r.hull /\ q.fuel = fu
  BY DEF Sound
<1>2. sl \in [Slots(r.model) -> AllDevices]
  <2>1. DOMAIN r.slots = Slots(r.model) BY DEF Rig
  <2>2. QED BY <2>1
<1> HIDE DEF q
<1>3. MaxHull(q) = MaxHull(r) BY <1>1 DEF MaxHull
<1>4. Rig(q) BY <1>1, <1>2, <1>3 DEF Rig
<1>5. SameFit(q, r) BY <1>1 DEF SameFit
<1>6. QED BY <1>4, <1>5 DEF q

\* Burning fuel takes it from the tanks and from the hull, and no more than
\* there is.
LEMMA ConsumeFuelRig ==
  ASSUME NEW r, Sound(r), Rig(r), NEW n \in Int
  PROVE  Rig(ConsumeFuel(r, n)) /\ SameFit(ConsumeFuel(r, n), r)
<1> DEFINE left(tanks) == Most(0, n - FuelIn(r, tanks))
           sl == [x \in DOMAIN r.slots |->
                    [r.slots[x] EXCEPT !.fuel = Most(0, @ - left(TanksBefore(r, x)))]]
           fu == Most(0, r.fuel - left(Fitted(r, "fuel_tank")))
<1>1. ConsumeFuel(r, n) = [r EXCEPT !.slots = sl, !.fuel = fu]
  BY DEF ConsumeFuel, Sound
<1>2. ASSUME NEW T \in SUBSET DOMAIN r.slots PROVE left(T) \in Nat
  BY TankSums DEF Most
<1>3. StartFuel \in Nat BY ContentAssumption DEF ContentAssumption, PilotValid
<1>4. fu \in 0 .. StartFuel
  <2>1. left(Fitted(r, "fuel_tank")) \in Nat BY <1>2 DEF Fitted
  <2>2. r.fuel \in 0 .. StartFuel BY DEF Rig
  <2> HIDE DEF left
  <2>3. QED BY <1>3, <2>1, <2>2 DEF Most
<1>5. ASSUME NEW x \in DOMAIN r.slots
      PROVE  sl[x] \in AllDevices /\ sl[x].item = r.slots[x].item /\ sl[x].grade = r.slots[x].grade
  <2> DEFINE d == r.slots[x]
             m == Most(0, d.fuel - left(TanksBefore(r, x)))
  <2>1. left(TanksBefore(r, x)) \in Nat BY <1>2 DEF TanksBefore, Fitted
  <2>2. d \in AllDevices BY RigShape
  <2>3. d.fuel \in Nat /\ FuelTankCapacity(d) \in Nat /\ d.fuel <= FuelTankCapacity(d)
    BY <2>2, DeviceShape
  <2>4. sl[x] = [d EXCEPT !.fuel = m] OBVIOUS
  <2>5. m \in Nat /\ m <= FuelTankCapacity(d)
    <3> HIDE DEF left, d
    <3>1. QED BY <2>1, <2>3 DEF Most
  <2> HIDE DEF m, d, sl
  <2>6. QED BY <2>2, <2>4, <2>5, DeviceFuelled DEF d
<1>6. sl \in [DOMAIN r.slots -> AllDevices] BY <1>5
<1> HIDE DEF sl, fu
<1>7. Rig([r EXCEPT !.slots = sl, !.fuel = fu]) /\ SameFit([r EXCEPT !.slots = sl, !.fuel = fu], r)
  BY <1>4, <1>5, <1>6, Refuelled
<1>8. QED BY <1>1, <1>7

\* Taking fuel fills the tanks and the hull, and no further.
LEMMA AddFuelRig ==
  ASSUME NEW r, Sound(r), Rig(r), NEW n \in Int
  PROVE  Rig(AddFuel(r, n)) /\ SameFit(AddFuel(r, n), r)
<1> DEFINE left(tanks) == Most(0, n - RoomIn(r, tanks))
           sl == [x \in DOMAIN r.slots |->
                    IF r.slots[x].item = "fuel_tank"
                    THEN [r.slots[x] EXCEPT
                             !.fuel = @ + Least(FuelRoom(r, x), left(TanksBefore(r, x)))]
                    ELSE r.slots[x]]
           fu == Least(StartFuel, r.fuel + left(Fitted(r, "fuel_tank")))
<1>1. AddFuel(r, n) = [r EXCEPT !.slots = sl, !.fuel = fu]
  BY DEF AddFuel, Sound
<1>2. ASSUME NEW T \in SUBSET DOMAIN r.slots PROVE left(T) \in Nat
  BY TankSums DEF Most
<1>3. StartFuel \in Nat BY ContentAssumption DEF ContentAssumption, PilotValid
<1>4. fu \in 0 .. StartFuel
  <2>1. left(Fitted(r, "fuel_tank")) \in Nat BY <1>2 DEF Fitted
  <2>2. r.fuel \in 0 .. StartFuel BY DEF Rig
  <2> HIDE DEF left
  <2>3. QED BY <1>3, <2>1, <2>2 DEF Least
<1>5. ASSUME NEW x \in DOMAIN r.slots
      PROVE  sl[x] \in AllDevices /\ sl[x].item = r.slots[x].item /\ sl[x].grade = r.slots[x].grade
  <2> DEFINE d == r.slots[x]
             m == d.fuel + Least(FuelRoom(r, x), left(TanksBefore(r, x)))
  <2>1. left(TanksBefore(r, x)) \in Nat BY <1>2 DEF TanksBefore, Fitted
  <2>2. d \in AllDevices BY RigShape
  <2>3. d.fuel \in Nat /\ FuelTankCapacity(d) \in Nat /\ d.fuel <= FuelTankCapacity(d)
    BY <2>2, DeviceShape
  <2>4. sl[x] = IF d.item = "fuel_tank" THEN [d EXCEPT !.fuel = m] ELSE d OBVIOUS
  <2>5. m \in Nat /\ m <= FuelTankCapacity(d)
    <3>1. FuelRoom(r, x) = FuelTankCapacity(d) - d.fuel BY DEF FuelRoom
    <3> HIDE DEF left, d
    <3>2. QED BY <2>1, <2>3, <3>1 DEF Least
  <2> HIDE DEF m, d, sl
  <2>6. QED BY <2>2, <2>4, <2>5, DeviceFuelled DEF d
<1>6. sl \in [DOMAIN r.slots -> AllDevices] BY <1>5
<1> HIDE DEF sl, fu
<1>7. Rig([r EXCEPT !.slots = sl, !.fuel = fu]) /\ SameFit([r EXCEPT !.slots = sl, !.fuel = fu], r)
  BY <1>4, <1>5, <1>6, Refuelled
<1>8. QED BY <1>1, <1>7

\* Loading devices changes their load only.
LEMMA LoadedRig ==
  ASSUME NEW r, Sound(r), Rig(r), NEW items, "none" \notin items
  PROVE  Rig(Loaded(r, items)) /\ SameFit(Loaded(r, items), r)
<1> DEFINE sl == [x \in DOMAIN r.slots |->
                    IF r.slots[x].item \in items THEN [r.slots[x] EXCEPT !.ready = TRUE]
                    ELSE r.slots[x]]
           fu == r.fuel
<1>1. Loaded(r, items) = [r EXCEPT !.slots = sl, !.fuel = fu]
  BY DEF Loaded, Sound
<1>2. fu \in 0 .. StartFuel BY DEF Rig
<1>3. ASSUME NEW x \in DOMAIN r.slots
      PROVE  sl[x] \in AllDevices /\ sl[x].item = r.slots[x].item /\ sl[x].grade = r.slots[x].grade
  <2> DEFINE d == r.slots[x]
  <2>1. d \in AllDevices BY RigShape
  <2>2. sl[x] = IF d.item \in items THEN [d EXCEPT !.ready = TRUE] ELSE d OBVIOUS
  <2> HIDE DEF d, sl
  <2>3. d.item \in items => d.item # "none" OBVIOUS
  <2>4. QED BY <2>1, <2>2, <2>3, DeviceLoaded DEF d
<1>4. sl \in [DOMAIN r.slots -> AllDevices] BY <1>3
<1> HIDE DEF sl, fu
<1>5. Rig([r EXCEPT !.slots = sl, !.fuel = fu]) /\ SameFit([r EXCEPT !.slots = sl, !.fuel = fu], r)
  BY <1>2, <1>3, <1>4, Refuelled
<1>6. QED BY <1>1, <1>5

\* Installing fits the device, with the load it comes with.
LEMMA InstallRig ==
  ASSUME NEW r, Sound(r), Rig(r), NEW x \in DOMAIN r.slots, NEW d \in AllDevices, d.item # "none"
  PROVE  LET f == [r EXCEPT !.slots[x] = d]
         IN Rig(Install(r, x, d)) /\ SameFit(Install(r, x, d), f)
<1> DEFINE f == [r EXCEPT !.slots[x] = d]
<1>1. /\ Sound(f) /\ Rig(f) /\ DOMAIN f.slots = DOMAIN r.slots /\ f.slots[x] = d
  BY SlotPut
<1>2. SameFit(f, f) BY DEF SameFit
<1>3. Rig(Loaded(f, {d.item})) /\ SameFit(Loaded(f, {d.item}), f)
  <2> HIDE DEF f
  <2>1. "none" \notin {d.item} OBVIOUS
  <2>2. QED BY <1>1, <2>1, LoadedRig
<1>4. Rig([f EXCEPT !.slots[x].ready = TRUE]) /\ SameFit([f EXCEPT !.slots[x].ready = TRUE], f)
  <2> DEFINE l == [d EXCEPT !.ready = TRUE]
             q == [f EXCEPT !.slots[x] = l]
  <2>1. l \in AllDevices /\ l.item = d.item /\ l.grade = d.grade BY DeviceLoaded
  <2>2. [f EXCEPT !.slots[x].ready = TRUE] = q BY <1>1
  <2> HIDE DEF l, f
  <2>3. /\ Rig(q) /\ q.model = f.model /\ q.grade = f.grade
        /\ DOMAIN q.slots = DOMAIN f.slots /\ q.slots[x] = l
        /\ \A y \in DOMAIN f.slots : y # x => q.slots[y] = f.slots[y]
    BY <1>1, <2>1, SlotPut
  <2> HIDE DEF q
  <2>4. SameFit(q, f) BY <1>1, <2>1, <2>3 DEF SameFit
  <2>5. QED BY <2>2, <2>3, <2>4
<1>5. Install(r, x, d) \in {f, Loaded(f, {d.item}), [f EXCEPT !.slots[x].ready = TRUE]}
  BY DEF Install
<1> HIDE DEF f
<1>6. Rig(Install(r, x, d)) /\ SameFit(Install(r, x, d), f) BY <1>1, <1>2, <1>3, <1>4, <1>5
<1>7. QED BY <1>6 DEF f

\* A hull repaired, hit or moved keeps its rig while it has its points.
LEMMA HullRig ==
  ASSUME NEW r, Sound(r), Rig(r), NEW h, NEW sys, h <= MaxHull(r)
  PROVE  LET q == [r EXCEPT !.hull = h, !.sys = sys] IN Rig(q) /\ SameFit(q, r)
<1> DEFINE q == [r EXCEPT !.hull = h, !.sys = sys]
<1>1. q.slots = r.slots /\ q.model = r.model /\ q.grade = r.grade /\ q.hull = h /\ q.fuel = r.fuel
  BY DEF Sound
<1> HIDE DEF q
<1>2. MaxHull(q) = MaxHull(r) BY <1>1 DEF MaxHull
<1>3. Rig(q) BY <1>1, <1>2 DEF Rig
<1>4. SameFit(q, r) BY <1>1 DEF SameFit
<1>5. QED BY <1>3, <1>4 DEF q

\* The fit is passed on.
LEMMA SameFitTransitive ==
  ASSUME NEW p, NEW q, NEW r, SameFit(p, q), SameFit(q, r)
  PROVE  SameFit(p, r)
  BY DEF SameFit

-----------------------------------------------------------------------------
(* Legal loadouts. *)

\* what LoadoutsAreLegal says of one hull
Legal(r) ==
    /\ \A x \in Devices(r) : Takes(r, x, r.slots[x].item)
    /\ InstalledPower(r) <= PowerCapacity(r)
    /\ \A item \in DOMAIN Items : SlotItemIsUnique(item) => Cardinality(Fitted(r, item)) <= 1

\* A set with no more than one member has a cardinality of at most one.
LEMMA AtMostOne ==
  ASSUME NEW S, NEW x, S \subseteq {x}
  PROVE  Cardinality(S) <= 1
<1>1. IsFiniteSet({x}) /\ Cardinality({x}) = 1 BY FS_Singleton
<1>2. S \in SUBSET {x} OBVIOUS
<1>3. Cardinality(S) <= Cardinality({x}) BY <1>1, <1>2, FS_Subset
<1>4. QED BY <1>1, <1>3

\* A part of a legal set of devices is legal.
LEMMA FewerFitted ==
  ASSUME NEW r, Rig(r), NEW item, Cardinality(Fitted(r, item)) <= 1,
         NEW S, S \subseteq Fitted(r, item)
  PROVE  Cardinality(S) <= 1
<1>1. IsFiniteSet(Fitted(r, item)) BY RigShape DEF Fitted
<1>2. S \in SUBSET Fitted(r, item) OBVIOUS
<1>3. IsFiniteSet(S) /\ Cardinality(S) <= Cardinality(Fitted(r, item)) BY <1>1, <1>2, FS_Subset
<1>4. Cardinality(S) \in Nat /\ Cardinality(Fitted(r, item)) \in Nat BY <1>1, <1>3, FS_CardinalityType
<1>5. QED BY <1>3, <1>4

\* A hull of the same fit is as legal.
LEMMA SameFitLegal ==
  ASSUME NEW q, NEW r, Rig(q), Rig(r), SameFit(q, r), Legal(r)
  PROVE  Legal(q)
<1>1. /\ InstalledPower(q) = InstalledPower(r) /\ PowerCapacity(q) = PowerCapacity(r)
      /\ Devices(q) = Devices(r) /\ \A item : Fitted(q, item) = Fitted(r, item)
  BY SameFitSame
<1>2. \A x \in Devices(q) : Takes(q, x, q.slots[x].item)
  BY <1>1 DEF Legal, SameFit, Takes, Devices
<1>3. QED BY <1>1, <1>2 DEF Legal

\* What installing checks is enough.
LEMMA InstallLegal ==
  ASSUME NEW r, Sound(r), Rig(r), Legal(r), NEW x \in DOMAIN r.slots, NEW d \in AllDevices,
         d.item # "none", Accepts(r, x, d.item), Powers(r, x, d.item, d.grade)
  PROVE  Legal(Install(r, x, d))
<1> DEFINE f == [r EXCEPT !.slots[x] = d]
           e == [r EXCEPT !.slots[x] = Empty]
           q == Install(r, x, d)
<1>1. /\ Rig(f) /\ f.model = r.model /\ f.grade = r.grade /\ DOMAIN f.slots = DOMAIN r.slots
      /\ f.slots[x] = d /\ \A y \in DOMAIN r.slots : y # x => f.slots[y] = r.slots[y]
  BY SlotPut
<1>2. /\ Rig(e) /\ e.model = r.model /\ DOMAIN e.slots = DOMAIN r.slots
      /\ e.slots[x] = Empty /\ \A y \in DOMAIN r.slots : y # x => e.slots[y] = r.slots[y]
  BY SlotPut, NewDevices
<1>3. Rig(q) /\ SameFit(q, f) BY InstallRig
<1>4. d # Empty BY DEF Empty
<1>5. InstalledPower(e) + SlotItemPower(d.item, d.grade) <= PowerCapacity(r) BY DEF Powers
<1> HIDE DEF f, e, q
<1>6. InstalledPower(f) = InstalledPower(e) + SlotItemPower(d.item, d.grade)
  BY <1>1, <1>2, <1>4, OneSlotMore
<1>7. InstalledPower(f) <= PowerCapacity(f) BY <1>1, <1>5, <1>6 DEF PowerCapacity
<1>8. ASSUME NEW item \in DOMAIN Items, SlotItemIsUnique(item)
      PROVE  Cardinality(Fitted(f, item)) <= 1
  <2>1. CASE item = d.item
    <3>1. Fitted(r, item) \subseteq {x} BY <1>8, <2>1 DEF Accepts
    <3>2. Fitted(f, item) \subseteq {x} BY <1>1, <3>1 DEF Fitted
    <3>3. QED BY <3>2, AtMostOne
  <2>2. CASE item # d.item
    <3>1. Fitted(f, item) \subseteq Fitted(r, item) BY <1>1, <2>2 DEF Fitted
    <3>2. Cardinality(Fitted(r, item)) <= 1 BY <1>8 DEF Legal
    <3>3. QED BY <3>1, <3>2, FewerFitted
  <2>3. QED BY <2>1, <2>2
<1>9. \A y \in Devices(f) : Takes(f, y, f.slots[y].item)
  <2> SUFFICES ASSUME NEW y \in Devices(f) PROVE Takes(f, y, f.slots[y].item)
    OBVIOUS
  <2>1. CASE y = x BY <1>1, <2>1 DEF Accepts, Takes
  <2>2. CASE y # x
    <3>1. y \in Devices(r) /\ f.slots[y] = r.slots[y] BY <1>1, <2>2 DEF Devices
    <3>2. Takes(r, y, r.slots[y].item) BY <3>1 DEF Legal
    <3>3. QED BY <1>1, <3>1, <3>2 DEF Takes
  <2>3. QED BY <2>1, <2>2
<1>10. Legal(f) BY <1>7, <1>8, <1>9 DEF Legal
<1>11. QED BY <1>1, <1>3, <1>10, SameFitLegal DEF q

\* Taking a device out leaves the others legal.
LEMMA RemoveLegal ==
  ASSUME NEW r, Sound(r), Rig(r), Legal(r), NEW x \in DOMAIN r.slots
  PROVE  Legal([r EXCEPT !.slots[x] = Empty])
<1> DEFINE e == [r EXCEPT !.slots[x] = Empty]
<1>2. /\ Rig(e) /\ e.model = r.model /\ e.grade = r.grade /\ DOMAIN e.slots = DOMAIN r.slots
      /\ e.slots[x] = Empty /\ \A y \in DOMAIN r.slots : y # x => e.slots[y] = r.slots[y]
  BY SlotPut, NewDevices
<1> HIDE DEF e
<1>3. InstalledPower(e) <= InstalledPower(r) BY <1>2, OneSlotMore
<1>4. InstalledPower(e) \in Nat /\ InstalledPower(r) \in Nat BY <1>2, CapacityType
<1>5. InstalledPower(e) <= PowerCapacity(e)
  <2>1. PowerCapacity(e) = PowerCapacity(r) BY <1>2 DEF PowerCapacity
  <2>2. r.grade["power"] \in Nat
    BY ContentAssumption DEF ContentAssumption, ShipsValid, Sound
  <2>3. PowerCapacity(r) \in Nat BY <2>2 DEF PowerCapacity, PowerBase
  <2>4. QED BY <1>3, <1>4, <2>1, <2>3 DEF Legal
<1>6. ASSUME NEW item \in DOMAIN Items, SlotItemIsUnique(item)
      PROVE  Cardinality(Fitted(e, item)) <= 1
  <2>1. item # "none" BY DevicesAssumption DEF DevicesAssumption, Empty
  <2>2. Fitted(e, item) \subseteq Fitted(r, item) BY <1>2, <2>1 DEF Fitted, Empty
  <2>3. Cardinality(Fitted(r, item)) <= 1 BY <1>6 DEF Legal
  <2>4. QED BY <2>2, <2>3, FewerFitted
<1>7. \A y \in Devices(e) : Takes(e, y, e.slots[y].item)
  <2> SUFFICES ASSUME NEW y \in Devices(e) PROVE Takes(e, y, e.slots[y].item)
    OBVIOUS
  <2>1. y \in Devices(r) /\ e.slots[y] = r.slots[y] BY <1>2 DEF Devices
  <2>2. Takes(r, y, r.slots[y].item) BY <2>1 DEF Legal
  <2>3. QED BY <1>2, <2>1, <2>2 DEF Takes
<1>8. QED BY <1>5, <1>6, <1>7 DEF Legal, e

\* A hull fresh from the yard is rigged, empty and legal.
LEMMA FreshRig ==
  ASSUME NEW m \in DOMAIN Models, NEW sys
  PROVE  Rig(FreshShipInstance(m, sys)) /\ Legal(FreshShipInstance(m, sys))
<1> DEFINE r == FreshShipInstance(m, sys)
           p == [x \in Devices(r) |-> SlotItemPower(r.slots[x].item, r.slots[x].grade)]
<1>1. /\ r.model = m /\ r.fuel = StartFuel /\ r.grade = Models[m].start
      /\ r.slots = [x \in Slots(m) |-> Empty]
      /\ r.hull = StartHull + HullPerGrade * Models[m].start["hull"]
  BY DEF FreshShipInstance
<1>2. /\ StartFuel \in Nat /\ StartHull \in Nat /\ Models[m].start["hull"] \in Nat
      /\ Models[m].start["power"] \in Nat
  BY ContentAssumption DEF ContentAssumption, PilotValid, ShipsValid
<1> HIDE DEF r
<1>3. r.hull <= MaxHull(r) BY <1>1, <1>2 DEF MaxHull, HullPerGrade
<1>4. Rig(r) BY <1>1, <1>2, <1>3, NewDevices DEF Rig
<1>5. Devices(r) = {} BY <1>1 DEF Devices
<1>6. InstalledPower(r) = SumFunction(p) /\ DOMAIN p = {} BY <1>5 DEF InstalledPower
<1> HIDE DEF p
<1>7. SumFunction(p) = 0 BY <1>6, SumEmpty DEF SumFunction
<1>8. InstalledPower(r) <= PowerCapacity(r) BY <1>1, <1>2, <1>6, <1>7 DEF PowerCapacity, PowerBase
<1>9. ASSUME NEW item \in DOMAIN Items PROVE Cardinality(Fitted(r, item)) <= 1
  <2>1. item # "none" BY DevicesAssumption DEF DevicesAssumption, Empty
  <2>2. Fitted(r, item) \subseteq {r} BY <1>1, <2>1 DEF Fitted, Empty
  <2>3. QED BY <2>2, AtMostOne
<1>10. QED BY <1>4, <1>5, <1>8, <1>9 DEF Legal, r

-----------------------------------------------------------------------------
(* What the yard would pay for everything. *)

\* one device, one slot, one hull, the shelf, all hulls
Val(d) == SlotItemSellValue(d.item, d.grade)
SlotWorth(d) == IF d = Empty THEN 0 ELSE Val(d)
HullWorth(r) == SumFunction([x \in Devices(r) |-> Val(r.slots[x])])
ShelfWorth(s) == SumFunction([i \in DOMAIN s |-> Val(s[i])])
FleetWorth(fleet) == SumFunction([id \in DOMAIN fleet |-> HullWorth(fleet[id])])

\* Worth, in its parts.
LEMMA WorthParts ==
  /\ Worth = ShelfWorth(stock) + FleetWorth(ships)
  /\ Worth' = ShelfWorth(stock') + FleetWorth(ships')
  BY DEF Worth, ShelfWorth, FleetWorth, HullWorth, Val, Owned

\* What the yard asks and gives is a number, and it gives no more than it
\* asks.
LEMMA PriceType ==
  ASSUME NEW item \in DOMAIN Items, NEW g \in Nat
  PROVE  /\ SlotItemPrice(item, g) \in Nat /\ SlotItemSellValue(item, g) \in Nat
         /\ SlotItemSellValue(item, g) <= SlotItemPrice(item, g)
<1>1. Items[item].price \in Nat BY DevicesAssumption DEF DevicesAssumption
<1>2. 2 ^ g \in Nat BY PowerOfTwo
<1> DEFINE w == 2 ^ g
<1> HIDE DEF w
<1>3. SlotItemPrice(item, g) = Items[item].price * w BY DEF SlotItemPrice, w
<1>4. w \in Nat BY <1>2 DEF w
<1>5. SlotItemPrice(item, g) \in Nat BY <1>1, <1>3, <1>4
<1>6. QED BY <1>5 DEF SlotItemSellValue

\* Devices sell for something, empty slots for nothing.
LEMMA ValType ==
  ASSUME NEW d \in AllDevices
  PROVE  SlotWorth(d) \in Nat /\ (d # Empty => Val(d) \in Nat)
<1>1. CASE d = Empty BY <1>1 DEF SlotWorth
<1>2. CASE d # Empty
  <2>1. d.item \in DOMAIN Items /\ d.grade \in Nat BY <1>2, DeviceShape
  <2>2. Val(d) \in Nat BY <2>1, PriceType DEF Val
  <2>3. QED BY <1>2, <2>2 DEF SlotWorth
<1>3. QED BY <1>1, <1>2

\* A hull's devices sell for a number.
LEMMA HullWorthType == ASSUME NEW r, Rig(r) PROVE HullWorth(r) \in Nat
<1> DEFINE p == [x \in Devices(r) |-> Val(r.slots[x])]
<1>1. IsFiniteSet(DOMAIN p) BY RigShape DEF Devices
<1>2. \A x \in DOMAIN p : p[x] \in Nat BY RigShape, ValType DEF Devices
<1>3. HullWorth(r) = SumFunction(p) BY DEF HullWorth
<1> HIDE DEF p
<1>4. QED BY <1>1, <1>2, <1>3, SumFunctionType

\* Hulls of the same fit sell for the same.
LEMMA SameFitWorth ==
  ASSUME NEW q, NEW r, Rig(q), Rig(r), SameFit(q, r)
  PROVE  HullWorth(q) = HullWorth(r)
<1>1. Devices(q) = Devices(r) BY SameFitSame
<1>2. \A x \in Devices(r) : Val(q.slots[x]) = Val(r.slots[x]) BY DEF Devices, SameFit, Val
<1>3. [x \in Devices(q) |-> Val(q.slots[x])] = [x \in Devices(r) |-> Val(r.slots[x])]
  BY <1>1, <1>2
<1>4. QED BY <1>3 DEF HullWorth

\* Two hulls that differ in one slot, which one of them leaves empty.
LEMMA OneSlotWorth ==
  ASSUME NEW q, NEW e, NEW x, Rig(q), Rig(e), DOMAIN q.slots = DOMAIN e.slots,
         x \in DOMAIN e.slots, e.slots[x] = Empty,
         \A y \in DOMAIN e.slots : y # x => q.slots[y] = e.slots[y]
  PROVE  HullWorth(q) = HullWorth(e) + SlotWorth(q.slots[x])
<1> DEFINE P(r) == [y \in Devices(r) |-> Val(r.slots[y])]
           d == q.slots[x]
<1>1. HullWorth(q) = SumFunction(P(q)) /\ HullWorth(e) = SumFunction(P(e)) BY DEF HullWorth
<1>2. HullWorth(e) \in Nat BY HullWorthType
<1>3. /\ IsFiniteSet(Devices(e)) /\ d \in AllDevices
      /\ \A y \in DOMAIN e.slots : e.slots[y] \in AllDevices
  BY RigShape DEF Devices
<1>4. x \notin Devices(e) BY DEF Devices
<1>5. CASE d = Empty
  <2>1. Devices(q) = Devices(e) BY <1>5 DEF Devices
  <2>2. P(q) = P(e) BY <1>4, <2>1 DEF Devices
  <2> HIDE DEF P
  <2>3. QED BY <1>1, <1>2, <1>5, <2>2 DEF SlotWorth
<1>6. CASE d # Empty
  <2>1. Devices(q) = Devices(e) \cup {x} BY <1>4, <1>6 DEF Devices
  <2>2. \A y \in Devices(e) : P(q)[y] = P(e)[y] /\ P(e)[y] \in Int
    <3> SUFFICES ASSUME NEW y \in Devices(e) PROVE P(q)[y] = P(e)[y] /\ P(e)[y] \in Int
      OBVIOUS
    <3>1. y # x /\ q.slots[y] = e.slots[y] /\ e.slots[y] \in AllDevices /\ e.slots[y] # Empty
      BY <1>3, <1>4 DEF Devices
    <3>2. QED BY <2>1, <3>1, ValType
  <2>3. P(q)[x] = Val(d) /\ P(q)[x] \in Nat BY <1>3, <1>6, <2>1, ValType
  <2>4. DOMAIN P(q) = DOMAIN P(e) \cup {x} /\ DOMAIN P(e) = Devices(e) BY <2>1
  <2> HIDE DEF P
  <2>5. SumFunction(P(q)) = P(q)[x] + SumFunction(P(e))
    BY <1>3, <1>4, <2>2, <2>3, <2>4, SumExtended
  <2>6. QED BY <1>1, <1>2, <1>6, <2>3, <2>5 DEF SlotWorth
<1>7. QED BY <1>5, <1>6

\* A hull fresh from the yard has nothing to sell.
LEMMA FreshWorth ==
  ASSUME NEW m, NEW sys
  PROVE  HullWorth(FreshShipInstance(m, sys)) = 0
<1> DEFINE r == FreshShipInstance(m, sys)
           p == [x \in Devices(r) |-> Val(r.slots[x])]
<1>1. Devices(r) = {} BY DEF FreshShipInstance, Devices
<1>2. HullWorth(r) = SumFunction(p) /\ DOMAIN p = {} BY <1>1 DEF HullWorth
<1> HIDE DEF p
<1>3. SumFunction(p) = 0 BY <1>2, SumEmpty DEF SumFunction
<1>4. QED BY <1>2, <1>3

\* a finite fleet of rigged hulls
Rigged(fleet) == IsFiniteSet(DOMAIN fleet) /\ \A id \in DOMAIN fleet : Rig(fleet[id])

\* One hull changes.
LEMMA FleetChanged ==
  ASSUME NEW fleet, Rigged(fleet), NEW id \in DOMAIN fleet, NEW r, Rig(r), NEW new,
         DOMAIN new = DOMAIN fleet, new[id] = r, \A i \in DOMAIN fleet : i # id => new[i] = fleet[i]
  PROVE  FleetWorth(new) = FleetWorth(fleet) + (HullWorth(r) - HullWorth(fleet[id]))
<1> DEFINE P(f) == [i \in DOMAIN f |-> HullWorth(f[i])]
<1>1. FleetWorth(new) = SumFunction(P(new)) /\ FleetWorth(fleet) = SumFunction(P(fleet))
  BY DEF FleetWorth
<1>2. /\ IsFiniteSet(DOMAIN P(fleet)) /\ id \in DOMAIN P(fleet) /\ DOMAIN P(new) = DOMAIN P(fleet)
      /\ P(new)[id] = HullWorth(r) /\ P(fleet)[id] = HullWorth(fleet[id])
      /\ P(new)[id] \in Int /\ P(fleet)[id] \in Int
  BY HullWorthType DEF Rigged
<1>3. \A i \in DOMAIN P(fleet) : i # id => P(new)[i] = P(fleet)[i] /\ P(fleet)[i] \in Int
  BY HullWorthType DEF Rigged
<1> HIDE DEF P
<1>4. SumFunction(P(new)) = SumFunction(P(fleet)) + (P(new)[id] - P(fleet)[id])
  BY <1>2, <1>3, SumChanged
<1>5. QED BY <1>1, <1>2, <1>4

\* One hull more.
LEMMA FleetAdded ==
  ASSUME NEW fleet, Rigged(fleet), NEW id, id \notin DOMAIN fleet, NEW r, Rig(r), NEW new,
         DOMAIN new = DOMAIN fleet \cup {id}, new[id] = r, \A i \in DOMAIN fleet : new[i] = fleet[i]
  PROVE  /\ FleetWorth(new) = FleetWorth(fleet) + HullWorth(r) /\ Rigged(new)
         /\ FleetWorth(fleet) \in Nat
<1> DEFINE P(f) == [i \in DOMAIN f |-> HullWorth(f[i])]
<1>1. FleetWorth(new) = SumFunction(P(new)) /\ FleetWorth(fleet) = SumFunction(P(fleet))
  BY DEF FleetWorth
<1>2. /\ IsFiniteSet(DOMAIN P(fleet)) /\ id \notin DOMAIN P(fleet)
      /\ DOMAIN P(new) = DOMAIN P(fleet) \cup {id}
      /\ P(new)[id] = HullWorth(r) /\ P(new)[id] \in Nat
  BY HullWorthType DEF Rigged
<1>3. \A i \in DOMAIN P(fleet) : P(new)[i] = P(fleet)[i] /\ P(fleet)[i] \in Nat
  BY HullWorthType DEF Rigged
<1> HIDE DEF P
<1>4. SumFunction(P(new)) = P(new)[id] + SumFunction(P(fleet)) BY <1>2, <1>3, SumExtended
<1>5. SumFunction(P(fleet)) \in Nat BY <1>2, <1>3, SumFunctionType
<1>6. IsFiniteSet(DOMAIN new) BY FS_AddElement DEF Rigged
<1>7. Rigged(new) BY <1>6 DEF Rigged
<1>8. QED BY <1>1, <1>2, <1>4, <1>5, <1>7

\* A hull comes in, in the place of another or of none.
LEMMA WithWorth ==
  ASSUME NEW fleet, Rigged(fleet), NEW id, NEW r, Rig(r)
  PROVE  /\ Rigged(With(fleet, id, r))
         /\ FleetWorth(With(fleet, id, r))
              = FleetWorth(fleet)
                  + (HullWorth(r) - (IF id \in DOMAIN fleet THEN HullWorth(fleet[id]) ELSE 0))
<1> DEFINE new == With(fleet, id, r)
<1>1. /\ DOMAIN new = DOMAIN fleet \cup {id} /\ new[id] = r
      /\ \A i \in DOMAIN fleet : i # id => new[i] = fleet[i]
  BY DEF With
<1> HIDE DEF new
<1>2. CASE id \in DOMAIN fleet
  <2>1. DOMAIN new = DOMAIN fleet BY <1>1, <1>2
  <2>2. FleetWorth(new) = FleetWorth(fleet) + (HullWorth(r) - HullWorth(fleet[id]))
    BY <1>1, <1>2, <2>1, FleetChanged
  <2>3. Rigged(new) BY <1>1, <2>1 DEF Rigged
  <2>4. QED BY <1>2, <2>2, <2>3 DEF new
<1>3. CASE id \notin DOMAIN fleet
  <2>1. \A i \in DOMAIN fleet : new[i] = fleet[i] BY <1>1, <1>3
  <2>2. /\ FleetWorth(new) = FleetWorth(fleet) + HullWorth(r) /\ Rigged(new)
        /\ FleetWorth(fleet) \in Nat
    BY <1>1, <1>3, <2>1, FleetAdded
  <2>3. HullWorth(r) \in Nat BY HullWorthType
  <2>4. QED BY <1>3, <2>2, <2>3 DEF new
<1>4. QED BY <1>2, <1>3

\* A fleet's devices sell for a number.
LEMMA FleetWorthType == ASSUME NEW fleet, Rigged(fleet) PROVE FleetWorth(fleet) \in Nat
<1> DEFINE p == [i \in DOMAIN fleet |-> HullWorth(fleet[i])]
<1>1. IsFiniteSet(DOMAIN p) /\ \A i \in DOMAIN p : p[i] \in Nat BY HullWorthType DEF Rigged
<1>2. FleetWorth(fleet) = SumFunction(p) BY DEF FleetWorth
<1> HIDE DEF p
<1>3. QED BY <1>1, <1>2, SumFunctionType

\* One device more on the shelf.
LEMMA ShelfAdded ==
  ASSUME NEW s \in Seq(AllDevices \ {Empty}), NEW d \in AllDevices \ {Empty}
  PROVE  ShelfWorth(Append(s, d)) = ShelfWorth(s) + Val(d) /\ ShelfWorth(s) \in Nat
<1> DEFINE t == Append(s, d)
           P(f) == [i \in DOMAIN f |-> Val(f[i])]
           n == Len(s) + 1
<1>1. ShelfWorth(t) = SumFunction(P(t)) /\ ShelfWorth(s) = SumFunction(P(s)) BY DEF ShelfWorth
<1>2. /\ Len(s) \in Nat /\ DOMAIN s = 1 .. Len(s) /\ DOMAIN t = 1 .. n /\ t[n] = d
      /\ \A i \in 1 .. Len(s) : t[i] = s[i] /\ s[i] \in AllDevices /\ s[i] # Empty
  OBVIOUS
<1> HIDE DEF t
<1>3. IsFiniteSet(DOMAIN P(s)) /\ DOMAIN P(s) = 1 .. Len(s) BY <1>2, FS_Interval
<1>4. n \notin DOMAIN P(s) /\ DOMAIN P(t) = DOMAIN P(s) \cup {n} BY <1>2
<1>5. P(t)[n] = Val(d) /\ Val(d) \in Nat BY <1>2, ValType
<1>6. \A i \in DOMAIN P(s) : P(t)[i] = P(s)[i] /\ P(s)[i] \in Nat BY <1>2, ValType
<1> HIDE DEF P, n
<1>7. SumFunction(P(t)) = P(t)[n] + SumFunction(P(s)) BY <1>3, <1>4, <1>5, <1>6, SumExtended
<1>8. SumFunction(P(s)) \in Nat BY <1>3, <1>6, SumFunctionType
<1>9. QED BY <1>1, <1>5, <1>7, <1>8 DEF t

\* A shelf's devices sell for a number.
LEMMA ShelfType == ASSUME NEW s \in Seq(AllDevices \ {Empty}) PROVE ShelfWorth(s) \in Nat
<1> DEFINE p == [i \in DOMAIN s |-> Val(s[i])]
<1>1. IsFiniteSet(DOMAIN p)
  <2>1. Len(s) \in Nat /\ DOMAIN p = 1 .. Len(s) OBVIOUS
  <2>2. QED BY <2>1, FS_Interval
<1>2. \A i \in DOMAIN p : p[i] \in Nat BY ValType
<1>3. ShelfWorth(s) = SumFunction(p) BY DEF ShelfWorth
<1> HIDE DEF p
<1>4. QED BY <1>1, <1>2, <1>3, SumFunctionType

\* One device less: those after it move up.
LEMMA ShelfRemoved ==
  ASSUME NEW s \in Seq(AllDevices \ {Empty}), NEW i \in DOMAIN s
  PROVE  /\ ShelfWorth(s) = Val(s[i]) + ShelfWorth(RemoveAt(s, i))
         /\ ShelfWorth(RemoveAt(s, i)) \in Nat /\ Val(s[i]) \in Nat
<1> DEFINE L == Len(s)
           t == RemoveAt(s, i)
           P(f) == [j \in DOMAIN f |-> Val(f[j])]
           b == [j \in 1 .. L - 1 |-> IF j < i THEN j ELSE j + 1]
<1>1. ShelfWorth(t) = SumFunction(P(t)) /\ ShelfWorth(s) = SumFunction(P(s)) BY DEF ShelfWorth
<1>2. /\ L \in Nat /\ DOMAIN s = 1 .. L /\ i \in 1 .. L
      /\ \A j \in 1 .. L : s[j] \in AllDevices /\ s[j] # Empty
  OBVIOUS
<1>3. DOMAIN t = 1 .. L - 1 /\ \A j \in 1 .. L - 1 : t[j] = s[b[j]]
  <2> DEFINE D == AllDevices \ {Empty}
             u == SubSeq(s, 1, i - 1)
             v == SubSeq(s, i + 1, L)
  <2>1. t = u \o v BY DEF RemoveAt
  <2>2. \A j \in 1 .. L : s[j] \in D BY <1>2
  <2> HIDE DEF D
  <2>3. u \in Seq(D) /\ Len(u) = i - 1 /\ \A j \in 1 .. i - 1 : u[j] = s[j]
    BY <1>2, <2>2, SubSeqProperties
  <2>4. v \in Seq(D) /\ Len(v) = L - i /\ \A j \in 1 .. L - i : v[j] = s[i + j]
    BY <1>2, <2>2, SubSeqProperties
  <2> HIDE DEF u, v, t
  <2>5. t \in Seq(D) /\ Len(t) = L - 1
        /\ \A j \in 1 .. L - 1 : t[j] = IF j <= i - 1 THEN u[j] ELSE v[j - (i - 1)]
    <3>1. /\ u \o v \in Seq(D) /\ Len(u \o v) = Len(u) + Len(v)
          /\ \A j \in 1 .. Len(u) + Len(v) :
                (u \o v)[j] = IF j <= Len(u) THEN u[j] ELSE v[j - Len(u)]
      BY <2>3, <2>4, ConcatProperties
    <3>2. Len(u) + Len(v) = L - 1 BY <1>2, <2>3, <2>4
    <3> HIDE DEF L
    <3>3. QED BY <2>1, <2>3, <3>1, <3>2
  <2>6. DOMAIN t = 1 .. L - 1 BY <2>5
  <2>7. ASSUME NEW j \in 1 .. L - 1 PROVE t[j] = s[b[j]]
    <3>1. CASE j < i BY <1>2, <2>3, <2>5, <3>1
    <3>2. CASE j >= i
      <4>1. j - (i - 1) \in 1 .. L - i /\ i + (j - (i - 1)) = j + 1 BY <1>2, <3>2
      <4>2. t[j] = v[j - (i - 1)] BY <1>2, <2>5, <3>2
      <4>3. t[j] = s[j + 1] BY <2>4, <4>1, <4>2
      <4>4. b[j] = j + 1 BY <1>2, <3>2
      <4>5. QED BY <4>3, <4>4
    <3>3. QED BY <1>2, <3>1, <3>2
  <2>8. QED BY <2>6, <2>7
<1>4. /\ \A x, y \in 1 .. L - 1 : b[x] = b[y] => x = y
      /\ {b[x] : x \in 1 .. L - 1} = (1 .. L) \ {i}
  <2>1. \A x, y \in 1 .. L - 1 : b[x] = b[y] => x = y BY <1>2
  <2>2. \A x \in 1 .. L - 1 : b[x] \in (1 .. L) \ {i} BY <1>2
  <2>3. ASSUME NEW y \in (1 .. L) \ {i} PROVE \E x \in 1 .. L - 1 : b[x] = y
    <3>1. CASE y < i
      <4>1. y \in 1 .. L - 1 /\ b[y] = y BY <1>2, <3>1
      <4>2. QED BY <4>1
    <3>2. CASE y > i
      <4>1. y - 1 \in 1 .. L - 1 /\ b[y - 1] = y BY <1>2, <3>2
      <4>2. QED BY <4>1
    <3>3. QED BY <1>2, <3>1, <3>2
  <2> HIDE DEF b
  <2>4. QED BY <2>1, <2>2, <2>3
<1> HIDE DEF t
<1>5. IsFiniteSet(1 .. L) /\ IsFiniteSet(1 .. L - 1) BY <1>2, FS_Interval
<1>6. \A j \in 1 .. L : P(s)[j] = Val(s[j]) /\ P(s)[j] \in Nat BY <1>2, ValType
<1>7. \A j \in 1 .. L - 1 : b[j] \in 1 .. L BY <1>2
<1>8. \A j \in 1 .. L - 1 : P(t)[j] \in Nat /\ P(s)[b[j]] = P(t)[j]
  <2>1. \A j \in 1 .. L - 1 : P(t)[j] = Val(t[j]) BY <1>3
  <2> HIDE DEF P, b
  <2>2. QED BY <1>3, <1>6, <1>7, <2>1
<1>9. DOMAIN P(t) = 1 .. L - 1 /\ DOMAIN P(s) = 1 .. L BY <1>2, <1>3
<1> HIDE DEF P, b
<1>10. SumFunctionOnSet(P(t), 1 .. L - 1) = SumFunctionOnSet(P(s), (1 .. L) \ {i})
  <2> DEFINE S == 1 .. L - 1
             ft == P(t)
             fs == P(s)
  <2>1. /\ IsFiniteSet(S) /\ \A x, y \in S : b[x] = b[y] => x = y
        /\ \A x \in S : ft[x] \in Int /\ fs[b[x]] = ft[x]
    BY <1>4, <1>5, <1>8, SMTT(30)
  <2>2. {b[x] : x \in S} = (1 .. L) \ {i} BY <1>4
  <2> HIDE DEF S, ft, fs
  <2>3. SumFunctionOnSet(ft, S) = SumFunctionOnSet(fs, {b[x] : x \in S})
    BY <2>1, SumRenumbered, SMTT(30)
  <2>4. SumFunctionOnSet(ft, S) = SumFunctionOnSet(fs, (1 .. L) \ {i}) BY <2>2, <2>3
  <2>5. QED BY <2>4 DEF S, ft, fs
<1>11. SumFunctionOnSet(P(s), 1 .. L) = P(s)[i] + SumFunctionOnSet(P(s), (1 .. L) \ {i})
  BY <1>2, <1>5, <1>6, SumTake
<1>12. SumFunction(P(t)) \in Nat BY <1>5, <1>8, <1>9, SumFunctionType
<1>13. SumFunction(P(s)) = P(s)[i] + SumFunction(P(t)) BY <1>9, <1>10, <1>11 DEF SumFunction
<1>14. QED BY <1>1, <1>2, <1>6, <1>12, <1>13 DEF t

-----------------------------------------------------------------------------
(* The inductive invariant. *)

\* an id is the model's, or that of a Skiff that gave way to a newer one
Named(id, r) ==
    id = CatalogID(r.model) \/ id \in {RescueID(s, n) : s \in SystemSet, n \in 1 .. MaxSkiffs}

\* every hull is rigged, within its generator and its slots' rules
Rigs ==
    /\ IsFiniteSet(DOMAIN ships)
    /\ \A id \in DOMAIN ships : Rig(ships[id]) /\ Legal(ships[id]) /\ Named(id, ships[id])

\* the shelf holds devices
Shelf == stock \in Seq(AllDevices \ {Empty})

\* the hold is a number of units, and the origins account for some of them
Stowed ==
    /\ hold = [value |-> hold.value, origins |-> hold.origins, vouchers |-> hold.vouchers]
    /\ hold.value \in Nat /\ hold.vouchers \in Nat /\ hold.origins \in [SystemSet -> Nat]
    /\ SumFunction(hold.origins) <= hold.value

\* the belt is one of the content's, the insurance flag a flag, no debts
Desk ==
    /\ world \in DOMAIN Worlds \cup {NoWorld} /\ used \in BOOLEAN
    /\ credits \in Nat

\* what a step away from the yard does to the hulls: nothing to sell comes in
Kept == Rigs' /\ CargoFits' /\ FleetWorth(ships') <= FleetWorth(ships)

\* what a deal at the yard does: it makes no money
Dealt == Rigs' /\ CargoFits' /\ credits' + Worth' <= credits + Worth

LInv == IInv /\ Rigs /\ Shelf /\ Stowed /\ CargoFits /\ Desk

\* What the invariant says of the hull that is flown.
LEMMA Flown ==
  ASSUME LInv
  PROVE  /\ active \in DOMAIN ships /\ Sound(ships[active]) /\ Rig(ships[active])
         /\ Legal(ships[active]) /\ active[1] \in DOMAIN Models
         /\ CargoCapacityUnits(ships[active]) \in Nat
         /\ hold.value \in Nat /\ hold.value <= CargoCapacityUnits(ships[active])
<1>1. active \in DOMAIN ships BY DEF LInv, IInv, ActiveIsHere, LocalShips, Owned
<1>2. Sound(ships[active]) /\ active[1] \in DOMAIN Models BY <1>1 DEF LInv, IInv, Hangar
<1>3. Rig(ships[active]) /\ Legal(ships[active]) BY <1>1 DEF LInv, Rigs
<1>4. CargoCapacityUnits(ships[active]) \in Nat BY <1>3, CapacityType
<1>5. QED BY <1>1, <1>2, <1>3, <1>4 DEF LInv, Stowed, CargoFits

\* What is in the tanks and what they take are numbers.
LEMMA FuelType ==
  ASSUME NEW r, Rig(r)
  PROVE  FuelAmount(r) \in Nat /\ FuelCapacity(r) \in Nat
<1> DEFINE T == Fitted(r, "fuel_tank")
           c == [x \in T |-> FuelTankCapacity(r.slots[x])]
<1>1. T \in SUBSET DOMAIN r.slots BY DEF Fitted
<1>2. StartFuel \in Nat /\ r.fuel \in Nat
  BY ContentAssumption DEF ContentAssumption, PilotValid, Rig
<1>3. FuelIn(r, T) \in Nat BY <1>1, TankSums
<1>4. IsFiniteSet(DOMAIN c) /\ \A x \in DOMAIN c : c[x] \in Nat
  BY <1>1, RigShape, DeviceShape
<1>5. FuelCapacity(r) = StartFuel + SumFunction(c) /\ FuelAmount(r) = r.fuel + FuelIn(r, T)
  BY DEF FuelCapacity, FuelAmount
<1> HIDE DEF c, T
<1>6. SumFunction(c) \in Nat BY <1>4, SumFunctionType
<1>7. QED BY <1>2, <1>3, <1>5, <1>6

\* The fuel desk sells whole points.
LEMMA RefuelWhole ==
  ASSUME LInv
  PROVE  RefuelPoints \in Int /\ RefuelPoints <= credits \div RefuelPerPoint
<1>1. FuelAmount(ships[active]) \in Nat /\ FuelCapacity(ships[active]) \in Nat
  BY Flown, FuelType
<1>2. credits \in Nat /\ RefuelPerPoint \in Nat \ {0}
  BY DevicesAssumption DEF LInv, Desk, DevicesAssumption
<1>3. credits \div RefuelPerPoint \in Nat BY <1>2
<1>4. QED BY <1>1, <1>3 DEF RefuelPoints, Least

\* One hull is refitted; if it is the one flown, it takes the cargo.
LEMMA OneRig ==
  ASSUME LInv, NEW id \in DOMAIN ships, NEW r, Rig(r), Legal(r), r.model = ships[id].model,
         ships' = [ships EXCEPT ![id] = r], active' = active,
         IF id = active THEN hold'.value <= CargoCapacityUnits(r) ELSE hold' = hold
  PROVE  /\ Rigs' /\ CargoFits'
         /\ FleetWorth(ships') = FleetWorth(ships) + (HullWorth(r) - HullWorth(ships[id]))
<1>1. DOMAIN ships' = DOMAIN ships /\ ships'[id] = r
      /\ \A i \in DOMAIN ships : i # id => ships'[i] = ships[i]
  BY DEF LInv, IInv, Hangar
<1>2. \A i \in DOMAIN ships : Rig(ships[i]) /\ Legal(ships[i]) /\ Named(i, ships[i])
  BY DEF LInv, Rigs
<1>3. \A i \in DOMAIN ships' : Rig(ships'[i]) /\ Legal(ships'[i]) /\ Named(i, ships'[i])
  <2>1. Named(id, r) BY <1>2 DEF Named
  <2>2. QED BY <1>1, <1>2, <2>1
<1>4. Rigs' BY <1>1, <1>3 DEF LInv, Rigs
<1>5. hold'.value <= CargoCapacityUnits(ships'[active'])
  <2>1. CASE id = active BY <1>1, <2>1
  <2>2. CASE id # active
    <3>1. ships'[active'] = ships[active] BY <1>1, <2>2, Flown
    <3>2. QED BY <2>2, <3>1, Flown
  <2>3. QED BY <2>1, <2>2
<1>6. CargoFits' BY <1>5 DEF CargoFits
<1>7. FleetWorth(ships') = FleetWorth(ships) + (HullWorth(r) - HullWorth(ships[id]))
  <2>1. Rigged(ships) BY DEF LInv, Rigs, Rigged
  <2>2. QED BY <1>1, <2>1, FleetChanged
<1>8. QED BY <1>4, <1>6, <1>7

\* One hull keeps its fit.
LEMMA OneFit ==
  ASSUME LInv, NEW id \in DOMAIN ships, NEW r, Rig(r), SameFit(r, ships[id]),
         ships' = [ships EXCEPT ![id] = r], active' = active, hold' = hold
  PROVE  Kept
<1>1. Rig(ships[id]) /\ Legal(ships[id]) BY DEF LInv, Rigs
<1>2. Legal(r) BY <1>1, SameFitLegal
<1>3. CargoCapacityUnits(r) = CargoCapacityUnits(ships[id]) BY <1>1, SameFitSame
<1>4. IF id = active THEN hold'.value <= CargoCapacityUnits(r) ELSE hold' = hold
  BY <1>3, Flown
<1>5. r.model = ships[id].model BY DEF SameFit
<1>6. /\ Rigs' /\ CargoFits'
      /\ FleetWorth(ships') = FleetWorth(ships) + (HullWorth(r) - HullWorth(ships[id]))
  BY <1>2, <1>4, <1>5, OneRig
<1>7. HullWorth(r) = HullWorth(ships[id]) /\ HullWorth(r) \in Nat
  BY <1>1, SameFitWorth, HullWorthType
<1>8. FleetWorth(ships) \in Nat BY FleetWorthType DEF LInv, Rigs, Rigged
<1>9. QED BY <1>6, <1>7, <1>8 DEF Kept

-----------------------------------------------------------------------------
(* Rigs and the hold's size, action by action. *)

\* A device goes into a slot, empty or not.
LEMMA InstallStep ==
  ASSUME LInv, NEW id \in DOMAIN ships, NEW x \in DOMAIN ships[id].slots,
         NEW d \in AllDevices, d.item # "none",
         Accepts(ships[id], x, d.item), Powers(ships[id], x, d.item, d.grade),
         ships[id].slots[x] = Empty
           \/ (id = active => hold.value <= CargoCapacityUnits([ships[id] EXCEPT !.slots[x] = d])),
         ships' = [ships EXCEPT ![id] = Install(ships[id], x, d)], active' = active, hold' = hold
  PROVE  /\ Rigs' /\ CargoFits'
         /\ FleetWorth(ships') = FleetWorth(ships) + (Val(d) - SlotWorth(ships[id].slots[x]))
<1> DEFINE r == ships[id]
           f == [r EXCEPT !.slots[x] = d]
           q == Install(r, x, d)
<1>1. Sound(r) /\ Rig(r) /\ Legal(r) BY DEF LInv, Rigs, IInv, Hangar
<1>2. Rig(q) /\ SameFit(q, f) BY <1>1, InstallRig
<1>3. Legal(q) BY <1>1, InstallLegal
<1>4. /\ Rig(f) /\ f.model = r.model /\ DOMAIN f.slots = DOMAIN r.slots
      /\ \A y \in DOMAIN r.slots : y # x => f.slots[y] = r.slots[y]
  BY <1>1, SlotPut
<1>5. id = active => hold.value <= CargoCapacityUnits(f)
  <2>1. CASE r.slots[x] = Empty
    <3> HIDE DEF f
    <3>1. CargoCapacityUnits(r) <= CargoCapacityUnits(f) BY <1>1, <1>4, <2>1, OneSlotMore
    <3>2. CargoCapacityUnits(f) \in Nat BY <1>4, CapacityType
    <3>3. QED BY <3>1, <3>2, Flown
  <2>2. CASE r.slots[x] # Empty BY <2>2
  <2>3. QED BY <2>1, <2>2
<1> HIDE DEF f
<1>6. CargoCapacityUnits(q) = CargoCapacityUnits(f) BY <1>2, <1>4, SameFitSame
<1>7. ships' = [ships EXCEPT ![id] = q] OBVIOUS
<1> HIDE DEF q
<1>8. IF id = active THEN hold'.value <= CargoCapacityUnits(q) ELSE hold' = hold
  BY <1>5, <1>6
<1>9. q.model = r.model BY <1>2, <1>4 DEF SameFit
<1>10. /\ Rigs' /\ CargoFits'
       /\ FleetWorth(ships') = FleetWorth(ships) + (HullWorth(q) - HullWorth(r))
  BY <1>2, <1>3, <1>7, <1>8, <1>9, OneRig
<1>11. HullWorth(q) - HullWorth(r) = Val(d) - SlotWorth(r.slots[x])
  <2> DEFINE e == [r EXCEPT !.slots[x] = Empty]
  <2>1. /\ Rig(e) /\ DOMAIN e.slots = DOMAIN r.slots /\ e.slots[x] = Empty
        /\ \A y \in DOMAIN r.slots : y # x => e.slots[y] = r.slots[y]
    BY <1>1, SlotPut, NewDevices
  <2>2. f.slots[x] = d BY <1>1, SlotPut DEF f
  <2> HIDE DEF e
  <2>3. HullWorth(f) = HullWorth(e) + SlotWorth(d)
    BY <1>4, <2>1, <2>2, OneSlotWorth
  <2>4. HullWorth(r) = HullWorth(e) + SlotWorth(r.slots[x]) BY <1>1, <2>1, OneSlotWorth
  <2>5. HullWorth(q) = HullWorth(f) BY <1>2, <1>4, SameFitWorth
  <2>6. HullWorth(e) \in Nat /\ SlotWorth(r.slots[x]) \in Nat /\ Val(d) \in Nat /\ SlotWorth(d) = Val(d)
    <3>1. d # Empty BY DEF Empty
    <3>2. r.slots[x] \in AllDevices BY <1>1, RigShape
    <3>3. QED BY <2>1, <3>1, <3>2, HullWorthType, ValType DEF SlotWorth
  <2>7. QED BY <2>3, <2>4, <2>5, <2>6
<1>12. QED BY <1>10, <1>11

\* A device comes out, for the shelf or for money.
LEMMA RemoveStep ==
  ASSUME LInv, NEW id \in DOMAIN ships, NEW x \in DOMAIN ships[id].slots,
         HoldFitsWithout(id, x, Empty),
         ships' = [ships EXCEPT ![id].slots[x] = Empty], active' = active, hold' = hold
  PROVE  /\ Rigs' /\ CargoFits'
         /\ FleetWorth(ships') = FleetWorth(ships) - SlotWorth(ships[id].slots[x])
<1> DEFINE r == ships[id]
           e == [r EXCEPT !.slots[x] = Empty]
<1>1. Sound(r) /\ Rig(r) /\ Legal(r) BY DEF LInv, Rigs, IInv, Hangar
<1>2. /\ Rig(e) /\ e.model = r.model /\ DOMAIN e.slots = DOMAIN r.slots /\ e.slots[x] = Empty
      /\ \A y \in DOMAIN r.slots : y # x => e.slots[y] = r.slots[y]
  BY <1>1, SlotPut, NewDevices
<1>3. Legal(e) BY <1>1, RemoveLegal
<1>4. ships' = [ships EXCEPT ![id] = e] OBVIOUS
<1>5. IF id = active THEN hold'.value <= CargoCapacityUnits(e) ELSE hold' = hold
  BY DEF HoldFitsWithout
<1> HIDE DEF e
<1>6. /\ Rigs' /\ CargoFits'
      /\ FleetWorth(ships') = FleetWorth(ships) + (HullWorth(e) - HullWorth(r))
  BY <1>2, <1>3, <1>4, <1>5, OneRig
<1>7. HullWorth(r) = HullWorth(e) + SlotWorth(r.slots[x]) BY <1>1, <1>2, OneSlotWorth
<1>8. HullWorth(e) \in Nat /\ SlotWorth(r.slots[x]) \in Nat /\ FleetWorth(ships) \in Nat
  <2>1. r.slots[x] \in AllDevices BY <1>1, RigShape
  <2>2. QED BY <1>2, <2>1, HullWorthType, ValType, FleetWorthType DEF LInv, Rigs, Rigged
<1>9. QED BY <1>6, <1>7, <1>8

\* A track's upgrade widens what it is about.
LEMMA TrackStep ==
  ASSUME LInv, NEW id \in DOMAIN ships, NEW t \in Tracks, BuyShipTrack(id, t)
  PROVE  Kept
<1> DEFINE r == ships[id]
           gr == [r.grade EXCEPT ![t] = r.grade[t] + 1]
           q == [r EXCEPT !.grade = gr]
<1>1. Sound(r) /\ Rig(r) /\ Legal(r) BY DEF LInv, Rigs, IInv, Hangar
<1>2. ships' = [ships EXCEPT ![id] = q] /\ active' = active /\ hold' = hold BY DEF BuyShipTrack
<1>3. /\ {"hull", "power"} \subseteq Tracks /\ r.grade \in [Tracks -> Nat]
      /\ StartHull \in Nat /\ r.hull \in Nat
  BY <1>1, ContentAssumption DEF ContentAssumption, PilotValid, ShipsValid, Sound
<1>4. \A u \in Tracks : r.grade[u] \in Nat /\ gr[u] \in Nat /\ r.grade[u] <= gr[u] BY <1>3
<1>5. q.model = r.model /\ q.slots = r.slots /\ q.fuel = r.fuel /\ q.hull = r.hull /\ q.grade = gr
  BY <1>1 DEF Sound
<1> HIDE DEF gr, q
<1>6. MaxHull(r) <= MaxHull(q) /\ MaxHull(r) \in Nat /\ MaxHull(q) \in Nat
  <2>1. r.grade["hull"] \in Nat /\ gr["hull"] \in Nat /\ r.grade["hull"] <= gr["hull"] BY <1>3, <1>4
  <2>2. QED BY <1>3, <1>5, <2>1 DEF MaxHull, HullPerGrade
<1>7. PowerCapacity(r) <= PowerCapacity(q) /\ PowerCapacity(r) \in Nat /\ PowerCapacity(q) \in Nat
  <2>1. r.grade["power"] \in Nat /\ gr["power"] \in Nat /\ r.grade["power"] <= gr["power"]
    BY <1>3, <1>4
  <2>2. QED BY <1>5, <2>1 DEF PowerCapacity, PowerBase
<1>8. Rig(q)
  <2>1. r.hull <= MaxHull(r) BY <1>1 DEF Rig
  <2>2. q.hull <= MaxHull(q) BY <1>3, <1>5, <1>6, <2>1
  <2>3. QED BY <1>1, <1>5, <2>2 DEF Rig
<1>9. /\ InstalledPower(q) = InstalledPower(r) /\ CargoCapacityUnits(q) = CargoCapacityUnits(r)
      /\ \A item : Fitted(q, item) = Fitted(r, item)
  BY <1>5 DEF InstalledPower, Devices, CargoCapacityUnits, Fitted
<1>10. Legal(q)
  <2>1. InstalledPower(r) \in Nat BY <1>1, CapacityType
  <2>2. InstalledPower(q) <= PowerCapacity(q) BY <1>1, <1>7, <1>9, <2>1 DEF Legal
  <2>3. \A x \in Devices(q) : Takes(q, x, q.slots[x].item)
    BY <1>1, <1>5 DEF Legal, Takes, Devices
  <2>4. QED BY <1>1, <1>9, <2>2, <2>3 DEF Legal
<1>11. IF id = active THEN hold'.value <= CargoCapacityUnits(q) ELSE hold' = hold
  BY <1>2, <1>9, Flown
<1>12. /\ Rigs' /\ CargoFits'
       /\ FleetWorth(ships') = FleetWorth(ships) + (HullWorth(q) - HullWorth(r))
  BY <1>2, <1>5, <1>8, <1>10, <1>11, OneRig
<1>13. HullWorth(q) = HullWorth(r) BY <1>5 DEF HullWorth, Devices
<1>14. HullWorth(r) \in Nat /\ FleetWorth(ships) \in Nat
  BY <1>1, HullWorthType, FleetWorthType DEF LInv, Rigs, Rigged
<1>15. QED BY <1>12, <1>13, <1>14 DEF Kept

\* The shipyard: devices in and out, and tracks.
LEMMA YardRigs ==
  ASSUME LInv, Shipyard
  PROVE  Dealt
<1>0. PICK id \in LocalShips :
         \/ \E x \in DOMAIN ships[id].slots :
               \/ \E item \in DOMAIN Items, g \in 0 .. MaxGrade :
                     \/ InstallSlotDevice(id, x, item, g)
                     \/ ReplaceSlotDeviceWithPurchase(id, x, item, g)
               \/ StoreSlotDevice(id, x) \/ SellSlotDevice(id, x)
               \/ \E i \in DOMAIN stock : InstallSlotDeviceFromInventory(id, x, i)
         \/ \E t \in Tracks : BuyShipTrack(id, t)
  BY DEF Shipyard
<1>1. id \in DOMAIN ships BY DEF LocalShips, Owned
<1> DEFINE F == FleetWorth(ships)
           G == FleetWorth(ships')
           S == ShelfWorth(stock)
           C == credits
<1>2. F \in Nat /\ S \in Nat /\ C \in Nat
  BY FleetWorthType, ShelfType DEF LInv, Rigs, Rigged, Shelf, Desk
<1>3. Worth = S + F /\ Worth' = ShelfWorth(stock') + G BY WorthParts
<1>4. \A x \in DOMAIN ships[id].slots :
         /\ ships[id].slots[x] \in AllDevices /\ SlotWorth(ships[id].slots[x]) \in Nat
         /\ ships[id].slots[x] # Empty => SlotWorth(ships[id].slots[x]) = Val(ships[id].slots[x])
  BY <1>1, RigShape, ValType DEF LInv, Rigs, SlotWorth
<1> HIDE DEF F, G, S, C
<1>5. ASSUME NEW item \in DOMAIN Items, NEW g \in 0 .. MaxGrade
      PROVE  LET d == NewDevice(item, g)
             IN /\ d \in AllDevices /\ d.item = item /\ d.grade = g /\ d.item # "none"
                /\ Val(d) \in Nat /\ SlotItemPrice(item, g) \in Nat
                /\ Val(d) <= SlotItemPrice(item, g)
  <2>1. item # "none" BY DevicesAssumption DEF DevicesAssumption, Empty
  <2>2. NewDevice(item, g) \in AllDevices BY NewDevices
  <2>3. g \in Nat BY DevicesAssumption DEF DevicesAssumption
  <2>4. QED BY <2>1, <2>2, <2>3, PriceType DEF NewDevice, Val
<1>6. ASSUME NEW x \in DOMAIN ships[id].slots, NEW item \in DOMAIN Items, NEW g \in 0 .. MaxGrade,
             InstallSlotDevice(id, x, item, g)
      PROVE  Dealt
  <2> DEFINE d == NewDevice(item, g)
             p == SlotItemPrice(item, g)
             o == ships[id].slots[x]
  <2>1. d \in AllDevices /\ d.item = item /\ d.grade = g /\ d.item # "none" /\ Val(d) \in Nat
        /\ p \in Nat /\ Val(d) <= p
    BY <1>5
  <2>2. /\ ships' = [ships EXCEPT ![id] = Install(ships[id], x, d)] /\ active' = active /\ hold' = hold
        /\ Accepts(ships[id], x, item) /\ Powers(ships[id], x, item, g) /\ ships[id].slots[x] = Empty
    BY <1>6 DEF InstallSlotDevice
  <2>3. credits' = C - p /\ stock' = stock BY <1>6 DEF InstallSlotDevice, C
  <2> HIDE DEF d, p
  <2>4. Rigs' /\ CargoFits' /\ G = F + (Val(d) - SlotWorth(o))
    BY <1>1, <2>1, <2>2, InstallStep DEF F, G
  <2>5. SlotWorth(o) = 0 BY <2>2 DEF SlotWorth
  <2>6. credits' + Worth' <= C + Worth BY <1>2, <1>3, <2>1, <2>3, <2>4, <2>5 DEF S
  <2>7. QED BY <2>4, <2>6 DEF Dealt, C
<1>7. ASSUME NEW x \in DOMAIN ships[id].slots, NEW item \in DOMAIN Items, NEW g \in 0 .. MaxGrade,
             ReplaceSlotDeviceWithPurchase(id, x, item, g)
      PROVE  Dealt
  <2> DEFINE d == NewDevice(item, g)
             p == SlotItemPrice(item, g)
             o == ships[id].slots[x]
  <2>1. d \in AllDevices /\ d.item = item /\ d.grade = g /\ d.item # "none" /\ Val(d) \in Nat
        /\ p \in Nat /\ Val(d) <= p
    BY <1>5
  <2>2. /\ ships' = [ships EXCEPT ![id] = Install(ships[id], x, d)] /\ active' = active /\ hold' = hold
        /\ Accepts(ships[id], x, item) /\ Powers(ships[id], x, item, g)
        /\ id = active => hold.value <= CargoCapacityUnits([ships[id] EXCEPT !.slots[x] = d])
    BY <1>7 DEF ReplaceSlotDeviceWithPurchase, HoldFitsWithout
  <2>3. credits' = C + Val(o) - p /\ stock' = stock /\ o # Empty
    BY <1>7 DEF ReplaceSlotDeviceWithPurchase, C, Val, Devices
  <2> HIDE DEF d, p
  <2>4. Rigs' /\ CargoFits' /\ G = F + (Val(d) - SlotWorth(o))
    BY <1>1, <2>1, <2>2, InstallStep DEF F, G
  <2>5. SlotWorth(o) = Val(o) /\ Val(o) \in Nat BY <1>4, <2>3
  <2>6. credits' + Worth' <= C + Worth BY <1>2, <1>3, <2>1, <2>3, <2>4, <2>5 DEF S
  <2>7. QED BY <2>4, <2>6 DEF Dealt, C
<1>8. ASSUME NEW x \in DOMAIN ships[id].slots, NEW i \in DOMAIN stock,
             InstallSlotDeviceFromInventory(id, x, i)
      PROVE  Dealt
  <2> DEFINE d == stock[i]
  <2>1. d \in AllDevices /\ d # Empty BY DEF LInv, Shelf
  <2>2. d.item # "none" BY <2>1, DeviceShape
  <2>3. /\ ships' = [ships EXCEPT ![id] = Install(ships[id], x, d)] /\ active' = active /\ hold' = hold
        /\ Accepts(ships[id], x, d.item) /\ Powers(ships[id], x, d.item, d.grade)
        /\ ships[id].slots[x] = Empty
    BY <1>8 DEF InstallSlotDeviceFromInventory
  <2>4. credits' = C /\ stock' = RemoveAt(stock, i)
    BY <1>8 DEF InstallSlotDeviceFromInventory, C
  <2>5. S = Val(d) + ShelfWorth(stock') /\ ShelfWorth(stock') \in Nat /\ Val(d) \in Nat
    BY <2>4, ShelfRemoved DEF S, LInv, Shelf
  <2> HIDE DEF d
  <2>6. Rigs' /\ CargoFits' /\ G = F + (Val(d) - SlotWorth(ships[id].slots[x]))
    BY <1>1, <2>1, <2>2, <2>3, InstallStep DEF F, G
  <2>7. SlotWorth(ships[id].slots[x]) = 0 BY <2>3 DEF SlotWorth
  <2>8. credits' + Worth' <= C + Worth BY <1>2, <1>3, <2>4, <2>5, <2>6, <2>7
  <2>9. QED BY <2>6, <2>8 DEF Dealt, C
<1>9. ASSUME NEW x \in DOMAIN ships[id].slots, StoreSlotDevice(id, x) \/ SellSlotDevice(id, x)
      PROVE  Dealt
  <2>1. /\ ships' = [ships EXCEPT ![id].slots[x] = Empty] /\ active' = active /\ hold' = hold
        /\ HoldFitsWithout(id, x, Empty)
    BY <1>9 DEF StoreSlotDevice, SellSlotDevice
  <2> DEFINE o == ships[id].slots[x]
  <2>2. Rigs' /\ CargoFits' /\ G = F - SlotWorth(o) BY <1>1, <2>1, RemoveStep DEF F, G
  <2>3. o \in AllDevices \ {Empty} /\ SlotWorth(o) = Val(o) /\ Val(o) \in Nat
    <3>1. o # Empty BY <1>9 DEF StoreSlotDevice, SellSlotDevice, Devices
    <3>2. QED BY <1>4, <3>1
  <2>4. CASE StoreSlotDevice(id, x)
    <3>1. credits' = C /\ stock' = Append(stock, o) BY <2>4 DEF StoreSlotDevice, C
    <3> HIDE DEF o
    <3>2. ShelfWorth(stock') = S + Val(o) BY <2>3, <3>1, ShelfAdded DEF S, LInv, Shelf
    <3>3. credits' + Worth' <= C + Worth BY <1>2, <1>3, <2>2, <2>3, <3>1, <3>2
    <3>4. QED BY <2>2, <3>3 DEF Dealt, C
  <2>5. CASE SellSlotDevice(id, x)
    <3>1. credits' = C + Val(o) /\ stock' = stock BY <2>5 DEF SellSlotDevice, C, Val
    <3> HIDE DEF o
    <3>2. credits' + Worth' <= C + Worth BY <1>2, <1>3, <2>2, <2>3, <3>1 DEF S
    <3>3. QED BY <2>2, <3>2 DEF Dealt, C
  <2>6. QED BY <1>9, <2>4, <2>5
<1>10. ASSUME NEW t \in Tracks, BuyShipTrack(id, t) PROVE Dealt
  <2>1. Kept BY <1>1, <1>10, TrackStep
  <2>2. credits' <= C /\ credits' \in Int /\ stock' = stock
    <3> DEFINE inst == ships[id]
               w == 2 ^ inst.grade[t]
    <3>1. Rig(inst) /\ Sound(inst) BY <1>1 DEF LInv, Rigs, IInv, Hangar
    <3>2. w \in Nat
      <4>1. inst.grade[t] \in Nat BY <3>1 DEF Sound
      <4>2. QED BY <4>1, PowerOfTwo
    <3>3. Models[inst.model].tier \in Nat
      BY <3>1, ContentAssumption DEF ContentAssumption, ShipsValid, Rig
    <3>4. TrackPrice(inst, t) = Models[inst.model].tier * w BY DEF TrackPrice
    <3> HIDE DEF w
    <3>5. TrackPrice(inst, t) \in Nat BY <3>2, <3>3, <3>4
    <3>6. credits' = C - TrackPrice(inst, t) /\ stock' = stock BY <1>10 DEF BuyShipTrack, C
    <3>7. QED BY <1>2, <3>5, <3>6
  <2>3. Rigs' /\ CargoFits' /\ G <= F /\ G \in Nat
    BY <2>1, FleetWorthType DEF Kept, Rigs, Rigged, F, G
  <2>4. credits' + Worth' <= C + Worth BY <1>2, <1>3, <2>2, <2>3 DEF S
  <2>5. QED BY <2>3, <2>4 DEF Dealt, C
<1>11. QED BY <1>0, <1>1, <1>6, <1>7, <1>8, <1>9, <1>10

\* The hull that is flown: at the fuel desk, at the yard, out, back.
LEMMA FlownRigs ==
  ASSUME LInv, Refuel \/ Repair \/ Dock \/ \E d \in DOMAIN Worlds : Depart(d)
  PROVE  Kept
<1> DEFINE fl == ships[active]
<1>0. /\ active \in DOMAIN ships /\ Sound(fl) /\ Rig(fl) /\ active[1] \in DOMAIN Models
  BY Flown
<1>1. ASSUME NEW d \in DOMAIN Worlds, Depart(d) PROVE Kept
  <2> DEFINE q == ConsumeFuel(fl, Worlds[d].travel)
  <2>1. ships' = [ships EXCEPT ![active] = q] /\ active' = active /\ hold' = hold
    BY <1>1 DEF Depart
  <2>2. Worlds[d].travel \in Int BY ContentAssumption DEF ContentAssumption, WorldsValid
  <2>3. Rig(q) /\ SameFit(q, fl) BY <1>0, <2>2, ConsumeFuelRig
  <2> HIDE DEF q
  <2>4. QED BY <1>0, <2>1, <2>3, OneFit
<1>2. ASSUME Refuel PROVE Kept
  <2> DEFINE q == AddFuel(fl, RefuelPoints)
  <2>1. ships' = [ships EXCEPT ![active] = q] /\ active' = active /\ hold' = hold
    BY <1>2 DEF Refuel
  <2>2. RefuelPoints \in Int BY RefuelWhole
  <2>3. Rig(q) /\ SameFit(q, fl) BY <1>0, <2>2, AddFuelRig
  <2> HIDE DEF q
  <2>4. QED BY <1>0, <2>1, <2>3, OneFit
<1>3. ASSUME NEW h, h <= MaxHull(fl)
      PROVE  LET q == [fl EXCEPT !.hull = h] IN Rig(q) /\ SameFit(q, fl)
  <2>1. [fl EXCEPT !.hull = h] = [fl EXCEPT !.hull = h, !.sys = fl.sys] BY <1>0 DEF Sound
  <2>2. QED BY <1>0, <1>3, <2>1, HullRig
<1>4. ASSUME Repair PROVE Kept
  <2> DEFINE q == [fl EXCEPT !.hull = MaxHull(fl)]
  <2>1. ships' = [ships EXCEPT ![active] = q] /\ active' = active /\ hold' = hold
    BY <1>4 DEF Repair
  <2>2. MaxHull(fl) \in Nat BY <1>0, MaxHullIsSound
  <2>3. Rig(q) /\ SameFit(q, fl) BY <1>3, <2>2
  <2> HIDE DEF q
  <2>4. QED BY <1>0, <2>1, <2>3, OneFit
<1>5. ASSUME Dock PROVE Kept
  <2> DEFINE h == Least(MaxHull(fl), fl.hull + DockRepair(active))
             p == [fl EXCEPT !.hull = h]
             q == Loaded(p, Consumables)
  <2>1. ships' = [ships EXCEPT ![active] = q] /\ active' = active /\ hold' = hold
    BY <1>5 DEF Dock, Serviced, Patched
  <2>2. DockRepair(active) \in Nat
    BY <1>0, ContentAssumption DEF ContentAssumption, ShipsValid, DockRepair
  <2>3. h \in Nat /\ h >= HullFloor /\ h <= MaxHull(fl)
    <3>1. MaxHull(fl) \in Nat /\ MaxHull(fl) >= HullFloor BY <1>0, MaxHullIsSound
    <3>2. fl.hull \in Nat /\ fl.hull >= HullFloor BY <1>0 DEF Sound
    <3>3. QED BY <2>2, <3>1, <3>2 DEF Least, HullFloor
  <2> HIDE DEF h
  <2>4. Rig(p) /\ SameFit(p, fl) BY <1>3, <2>3
  <2>5. Sound(p) BY <1>0, <2>3 DEF Sound
  <2> HIDE DEF p
  <2>6. "none" \notin Consumables BY DEF Consumables
  <2>7. Rig(q) /\ SameFit(q, p) BY <2>4, <2>5, <2>6, LoadedRig
  <2> HIDE DEF q
  <2>8. SameFit(q, fl) BY <2>4, <2>7, SameFitTransitive
  <2>9. QED BY <1>0, <2>1, <2>7, <2>8, OneFit
<1>6. QED BY <1>1, <1>2, <1>4, <1>5

\* The ferry moves a hull with everything on it.
LEMMA FerryRigs ==
  ASSUME LInv, NEW id, NEW to, FerryShip(id, to)
  PROVE  Kept
<1> DEFINE r == ships[id]
           q == [r EXCEPT !.sys = to]
<1>1. id \in DOMAIN ships /\ ships' = [ships EXCEPT ![id] = q] /\ active' = active /\ hold' = hold
  BY DEF FerryShip, Owned
<1>2. Sound(r) /\ Rig(r) BY <1>1 DEF LInv, Rigs, IInv, Hangar
<1>3. q = [r EXCEPT !.hull = r.hull, !.sys = to] BY <1>2 DEF Sound
<1>4. r.hull <= MaxHull(r) BY <1>2 DEF Rig
<1>5. Rig(q) /\ SameFit(q, r) BY <1>2, <1>3, <1>4, HullRig
<1> HIDE DEF q
<1>6. QED BY <1>1, <1>5, OneFit

\* A jump burns fuel and strains the hull.
LEMMA ArriveRigs ==
  ASSUME LInv, NEW g, NEW to, NEW fuel \in Int, NEW hull, hull <= MaxHull(ships[active]), NEW hot,
         FuelAmount(ships[active]) \in Int, Arrive(g, to, fuel, hull, hot)
  PROVE  Kept
<1> DEFINE fl == ships[active]
           b == ConsumeFuel(fl, FuelAmount(fl) - fuel)
           q == [b EXCEPT !.hull = hull, !.sys = to]
<1>0. active \in DOMAIN ships /\ Sound(fl) /\ Rig(fl) BY Flown
<1>1. ships' = [ships EXCEPT ![active] = q] /\ active' = active /\ hold' = hold BY DEF Arrive
<1>2. Rig(b) /\ SameFit(b, fl) BY <1>0, ConsumeFuelRig
<1>3. Sound(b) BY <1>0, ConsumeFuelKeeps
<1> HIDE DEF b
<1>4. MaxHull(b) = MaxHull(fl) BY <1>2 DEF SameFit, MaxHull
<1>5. Rig(q) /\ SameFit(q, b) BY <1>2, <1>3, <1>4, HullRig
<1> HIDE DEF q
<1>6. SameFit(q, fl) BY <1>2, <1>5, SameFitTransitive
<1>7. QED BY <1>0, <1>1, <1>5, <1>6, OneFit

-----------------------------------------------------------------------------
(* The origins of the cargo, when some of it is lost. *)

\* A share is no more than what is asked nor than what there is.
LEMMA ShareBounds ==
  ASSUME NEW demand \in Nat, NEW portion \in Nat, NEW total \in Nat
  PROVE  LET cut == ProportionalCargoLoss(demand, portion, total)
         IN cut \in Nat /\ cut <= demand /\ cut <= portion
<1>1. CASE total > 0
  <2>1. 2 * demand * portion + total \in Nat /\ 2 * total \in Nat \ {0} BY <1>1
  <2>2. (2 * demand * portion + total) \div (2 * total) \in Nat BY <2>1
  <2>3. QED BY <2>2 DEF ProportionalCargoLoss, Least
<1>2. CASE total <= 0 BY <1>2 DEF ProportionalCargoLoss
<1>3. QED BY <1>1, <1>2

\* Rounding leaves no more of the loss than of the cargo: what is still to
\* be taken fits in what the later origins have.
LEMMA ShareLeaves ==
  ASSUME NEW demand \in Nat, NEW portion \in Nat, NEW total \in Nat,
         demand <= total, portion <= total
  PROVE  demand - ProportionalCargoLoss(demand, portion, total) <= total - portion
<1> DEFINE num == 2 * demand * portion + total
           k == demand + portion - total
<1>1. CASE demand = 0 \/ portion = 0 BY <1>1 DEF ProportionalCargoLoss
<1>2. CASE demand > 0 /\ portion > 0
  <2>1. total > 0 BY <1>2
  <2>2. (total - demand) * (total - portion) >= 0
    <3> DEFINE a == total - demand
               b == total - portion
    <3>1. a \in Nat /\ b \in Nat OBVIOUS
    <3> HIDE DEF a, b
    <3>2. a * b >= 0 BY <3>1
    <3>3. QED BY <3>2 DEF a, b
  <2>3. demand * portion >= total * k BY <2>2
  <2>4. num >= (2 * total) * k BY <2>1, <2>3
  <2>5. num \in Nat /\ 2 * total \in Nat \ {0} /\ k \in Int BY <2>1
  <2>6. num \div (2 * total) >= k
    <3> DEFINE w == 2 * total
    <3> HIDE DEF num, k, w
    <3>1. ASSUME NEW n \in Nat, NEW e \in Nat \ {0}, NEW c \in Int, n >= e * c PROVE n \div e >= c
      <4>1. n \div e \in Nat /\ n < e * ((n \div e) + 1) BY <3>1
      <4>2. CASE c >= (n \div e) + 1
        <5>1. e * c >= e * ((n \div e) + 1) BY <3>1, <4>1, <4>2
        <5>2. QED BY <3>1, <4>1, <5>1
      <4>3. QED BY <4>1, <4>2
    <3>2. QED BY <2>4, <2>5, <3>1
  <2>7. ProportionalCargoLoss(demand, portion, total)
          = Least(num \div (2 * total), Least(demand, portion))
    BY <1>2, <2>1 DEF ProportionalCargoLoss
  <2>8. num \div (2 * total) \in Nat BY <2>5
  <2> DEFINE s == num \div (2 * total)
  <2> HIDE DEF s, num
  <2>9. QED BY <2>6, <2>7, <2>8 DEF Least, s, k
<1>3. QED BY <1>1, <1>2

\* one origin's turn: acc is what is left for it and for those after it
Turn(o, acc, n) ==
    LET sys == Systems[n]
        cut == ProportionalCargoLoss(acc.loss, o[sys], acc.value)
    IN [origins |-> [acc.origins EXCEPT ![sys] = @ - cut],
        value |-> acc.value - o[sys], loss |-> acc.loss - cut]

\* f goes down the first k origins
Goes(f, k, o, value, lost) ==
    f = [n \in 0 .. k |-> IF n = 0 THEN [origins |-> o, value |-> value, loss |-> lost]
                          ELSE Turn(o, f[n - 1], n)]

\* The recursion over the origins has a solution.
LEMMA GoesDown ==
  ASSUME NEW o, NEW value, NEW lost, NEW L \in Nat
  PROVE  \E f : Goes(f, L, o, value, lost)
<1> DEFINE bad == {k \in 0 .. L : ~ \E f : Goes(f, k, o, value, lost)}
           base == [origins |-> o, value |-> value, loss |-> lost]
<1> SUFFICES ASSUME bad # {} PROVE FALSE OBVIOUS
<1>1. PICK k \in bad : \A m \in bad : k <= m
  <2>1. bad \in SUBSET Nat OBVIOUS
  <2> HIDE DEF bad
  <2>2. QED BY <2>1, SmallestNumber
<1>2. CASE k = 0
  <2> DEFINE f == [n \in 0 .. 0 |-> base]
  <2>1. f = [n \in 0 .. 0 |-> IF n = 0 THEN base ELSE Turn(o, f[n - 1], n)]
    <3> HIDE DEF base
    <3>1. QED OBVIOUS
  <2>2. Goes(f, 0, o, value, lost) BY <2>1 DEF Goes
  <2>3. QED BY <1>2, <2>2
<1>3. CASE k # 0
  <2>1. k \in Nat /\ k - 1 \in 0 .. L /\ k - 1 \notin bad BY <1>1, <1>3
  <2>2. PICK g : Goes(g, k - 1, o, value, lost) BY <2>1
  <2>3. g = [n \in 0 .. k - 1 |-> IF n = 0 THEN base ELSE Turn(o, g[n - 1], n)]
    BY <2>2 DEF Goes
  <2> DEFINE f == [n \in 0 .. k |-> IF n = k THEN Turn(o, g[k - 1], k) ELSE g[n]]
  <2> HIDE DEF base
  <2>4. f = [n \in 0 .. k |-> IF n = 0 THEN base ELSE Turn(o, f[n - 1], n)]
    <3>1. \A n \in 0 .. k - 1 : f[n] = g[n] BY <2>1
    <3>2. \A n \in 0 .. k - 1 : g[n] = IF n = 0 THEN base ELSE Turn(o, g[n - 1], n) BY <2>1, <2>3
    <3>3. f[k] = Turn(o, g[k - 1], k) BY <2>1
    <3>4. ASSUME NEW n \in 0 .. k
          PROVE  f[n] = IF n = 0 THEN base ELSE Turn(o, f[n - 1], n)
      <4> HIDE DEF f
      <4>1. CASE n = k BY <1>3, <2>1, <3>1, <3>3, <4>1
      <4>2. CASE n = 0 BY <1>3, <2>1, <3>1, <3>2, <4>2
      <4>3. CASE n # k /\ n # 0 BY <2>1, <3>1, <3>2, <4>3
      <4>4. QED BY <4>1, <4>2, <4>3
    <3>5. QED BY <3>4
  <2>5. Goes(f, k, o, value, lost) BY <2>4 DEF Goes, base
  <2>6. QED BY <2>5
<1>4. QED BY <1>2, <1>3

\* There are finitely many systems, each once in their order.
LEMMA SystemsFinite ==
  /\ Systems \in Seq(SystemSet) /\ Len(Systems) \in Nat /\ IsFiniteSet(SystemSet)
  /\ DOMAIN Systems = 1 .. Len(Systems)
<1>1. Systems \in Seq(SystemSet) BY ContentAssumption DEF ContentAssumption, PilotValid
<1>2. Len(Systems) \in Nat /\ DOMAIN Systems = 1 .. Len(Systems)
      /\ Systems \in [1 .. Len(Systems) -> SystemSet]
  BY <1>1
<1>3. Systems \in Surjection(1 .. Len(Systems), SystemSet)
  BY <1>2 DEF Surjection, SystemSet, Range
<1>4. IsFiniteSet(1 .. Len(Systems)) BY <1>2, FS_Interval
<1>5. IsFiniteSet(SystemSet) BY <1>3, <1>4, FS_Surjection
<1>6. QED BY <1>1, <1>2, <1>5

\* the systems whose turn comes after the n-th
Rest(n) == {Systems[i] : i \in n + 1 .. Len(Systems)}

\* What is so after n turns, for the origins o of a hold and a loss of it.
Owing(a, n, o, value, lost) ==
    /\ a = [origins |-> a.origins, value |-> a.value, loss |-> a.loss]
    /\ a.origins \in [SystemSet -> Nat]
    /\ \A s \in Rest(n) : a.origins[s] = o[s]
    /\ a.value \in Nat /\ a.loss \in Nat /\ a.loss <= a.value
    /\ a.value = (value - SumFunction(o)) + SumFunctionOnSet(o, Rest(n))
    /\ SumFunction(a.origins) = SumFunction(o) - lost + a.loss

\* A turn keeps it.
LEMMA TurnKeeps ==
  ASSUME NEW o \in [SystemSet -> Nat], NEW value \in Nat, NEW lost \in Nat,
         SumFunction(o) <= value, NEW n \in 1 .. Len(Systems), NEW a, Owing(a, n - 1, o, value, lost)
  PROVE  Owing(Turn(o, a, n), n, o, value, lost)
<1> DEFINE L == Len(Systems)
           sys == Systems[n]
           v == o[sys]
           cut == ProportionalCargoLoss(a.loss, v, a.value)
           P == SumFunctionOnSet(o, Rest(n - 1))
           Q == SumFunctionOnSet(o, Rest(n))
           or == [a.origins EXCEPT ![sys] = @ - cut]
           b == [origins |-> or, value |-> a.value - v, loss |-> a.loss - cut]
<1>0. L \in Nat /\ DOMAIN Systems = 1 .. L /\ IsFiniteSet(SystemSet) /\ sys \in SystemSet
  BY SystemsFinite
<1>1. \A i, j \in 1 .. L : Systems[i] = Systems[j] => i = j
  BY <1>0, ContentAssumption DEF ContentAssumption, PilotValid
<1>2. \A k \in Nat : Rest(k) \subseteq SystemSet BY <1>0, SystemsFinite DEF Rest
<1>3. sys \in Rest(n - 1) /\ Rest(n - 1) \ {sys} = Rest(n) BY <1>0, <1>1 DEF Rest
<1>4. IsFiniteSet(Rest(n - 1)) /\ IsFiniteSet(Rest(n)) BY <1>0, <1>2, FS_Subset
<1>5. \A s \in SystemSet : o[s] \in Nat OBVIOUS
<1>6. P = v + Q
  <2>1. \A s \in Rest(n - 1) : o[s] \in Int BY <1>2, <1>5
  <2>2. P = v + SumFunctionOnSet(o, Rest(n - 1) \ {sys}) BY <1>3, <1>4, <2>1, SumTake
  <2>3. QED BY <1>3, <2>2
<1>7. Q \in Nat /\ v \in Nat
  <2>1. \A s \in Rest(n) : o[s] \in Nat BY <1>2, <1>5
  <2>2. QED BY <1>0, <1>4, <1>5, <2>1, SumNat
<1>8. SumFunction(o) \in Int
  <2>1. IsFiniteSet(DOMAIN o) /\ \A s \in DOMAIN o : o[s] \in Int BY <1>0, <1>5
  <2>2. QED BY <2>1, SumFunctionType
<1>9. /\ a.origins \in [SystemSet -> Nat] /\ a.origins[sys] = v
      /\ \A s \in Rest(n) : a.origins[s] = o[s]
      /\ a.value \in Nat /\ a.loss \in Nat /\ a.loss <= a.value
      /\ a.value = (value - SumFunction(o)) + P
      /\ SumFunction(a.origins) = SumFunction(o) - lost + a.loss
  BY <1>3 DEF Owing
<1> HIDE DEF P, Q, v
<1>10. v <= a.value BY <1>6, <1>7, <1>8, <1>9
<1>11. cut \in Nat /\ cut <= a.loss /\ cut <= v BY <1>7, <1>9, ShareBounds
<1>12. a.loss - cut <= a.value - v BY <1>7, <1>9, <1>10, ShareLeaves
<1>13. Turn(o, a, n) = b BY DEF Turn, v
<1> HIDE DEF cut
<1>14. v - cut \in Nat BY <1>7, <1>11
<1>15. or \in [SystemSet -> Nat] /\ or[sys] = v - cut
       /\ \A s \in SystemSet : s # sys => or[s] = a.origins[s]
  BY <1>0, <1>9, <1>14
<1>16. SumFunction(or) = SumFunction(a.origins) + (or[sys] - a.origins[sys])
  <2> DEFINE h == a.origins
  <2>1. IsFiniteSet(DOMAIN h) /\ sys \in DOMAIN h /\ DOMAIN or = DOMAIN h
        /\ or[sys] \in Int /\ h[sys] \in Int
        /\ \A s \in DOMAIN h : s # sys => or[s] = h[s] /\ h[s] \in Int
    BY <1>0, <1>7, <1>9, <1>15
  <2> HIDE DEF or, h
  <2>2. SumFunction(or) = SumFunction(h) + (or[sys] - h[sys]) BY <2>1, SumChanged
  <2>3. QED BY <2>2 DEF h
<1> HIDE DEF or
<1>17. SumFunction(or) = SumFunction(o) - lost + (a.loss - cut)
  BY <1>7, <1>8, <1>9, <1>11, <1>15, <1>16
<1>18. a.value - v = (value - SumFunction(o)) + Q BY <1>6, <1>7, <1>8, <1>9, SMTT(30)
<1>19. \A s \in Rest(n) : or[s] = o[s]
  <2>1. \A s \in Rest(n) : s \in SystemSet /\ s # sys BY <1>2, <1>3
  <2>2. QED BY <1>9, <1>15, <2>1
<1>20. b.origins = or /\ b.value = a.value - v /\ b.loss = a.loss - cut
       /\ b = [origins |-> b.origins, value |-> b.value, loss |-> b.loss]
  OBVIOUS
<1>21. b.value \in Nat /\ b.loss \in Nat /\ b.loss <= b.value
  BY <1>7, <1>9, <1>10, <1>11, <1>12, <1>20
<1> HIDE DEF b
<1>22. Owing(b, n, o, value, lost) BY <1>15, <1>17, <1>18, <1>19, <1>20, <1>21 DEF Owing, Q
<1>23. QED BY <1>13, <1>22

\* The origins that are left account for what was lost, but for what had no
\* origin.
LEMMA Reduced ==
  ASSUME NEW o \in [SystemSet -> Nat], NEW value \in Nat, NEW lost \in Nat,
         SumFunction(o) <= value, lost <= value
  PROVE  LET q == ReduceCargoOrigins(o, value, lost)
         IN /\ q \in [SystemSet -> Nat]
            /\ SumFunction(o) \in Nat /\ SumFunction(q) \in Nat
            /\ SumFunction(o) - lost <= SumFunction(q)
            /\ SumFunction(q) <= value - lost
<1> DEFINE L == Len(Systems)
           after == CHOOSE f : Goes(f, L, o, value, lost)
           bad == {n \in 0 .. L : ~Owing(after[n], n, o, value, lost)}
<1>0. L \in Nat /\ DOMAIN Systems = 1 .. L /\ IsFiniteSet(SystemSet) BY SystemsFinite
<1>1. Goes(after, L, o, value, lost)
  <2>1. \E f : Goes(f, L, o, value, lost) BY <1>0, GoesDown
  <2>2. QED BY <2>1
<1>2. ReduceCargoOrigins(o, value, lost) = after[L].origins
  BY DEF ReduceCargoOrigins, Goes, Turn
<1>3. SumFunction(o) \in Nat
  <2>1. IsFiniteSet(DOMAIN o) /\ \A s \in DOMAIN o : o[s] \in Nat BY <1>0
  <2>2. QED BY <2>1, SumFunctionType
<1> HIDE DEF after
<1>4. after[0] = [origins |-> o, value |-> value, loss |-> lost]
      /\ \A n \in 1 .. L : after[n] = Turn(o, after[n - 1], n)
  BY <1>0, <1>1, SMTT(30) DEF Goes
<1>5. Owing(after[0], 0, o, value, lost)
  <2>1. Rest(0) = SystemSet BY <1>0 DEF Rest, SystemSet, Range
  <2>2. SumFunctionOnSet(o, Rest(0)) = SumFunction(o) BY <2>1 DEF SumFunction
  <2>3. QED BY <1>3, <1>4, <2>1, <2>2 DEF Owing
<1>6. bad = {}
  <2> SUFFICES ASSUME bad # {} PROVE FALSE OBVIOUS
  <2>1. PICK n \in bad : \A m \in bad : n <= m
    <3>1. bad \in SUBSET Nat OBVIOUS
    <3> HIDE DEF bad
    <3>2. QED BY <3>1, SmallestNumber
  <2>2. n # 0 BY <1>5, <2>1
  <2>3. n \in 1 .. L /\ n - 1 \in 0 .. L /\ n - 1 \notin bad BY <1>0, <2>1, <2>2
  <2>4. Owing(after[n - 1], n - 1, o, value, lost) BY <2>3
  <2>5. Owing(after[n], n, o, value, lost) BY <1>4, <2>3, <2>4, TurnKeeps
  <2>6. QED BY <2>1, <2>5
<1>7. Owing(after[L], L, o, value, lost) BY <1>0, <1>6
<1>8. Rest(L) = {} BY <1>0 DEF Rest
<1>9. SumFunctionOnSet(o, Rest(L)) = 0 BY <1>8, SumEmpty
<1> DEFINE a == after[L]
<1>10. /\ a.origins \in [SystemSet -> Nat] /\ a.loss \in Nat /\ a.loss <= a.value
       /\ a.value = (value - SumFunction(o)) + 0
       /\ SumFunction(a.origins) = SumFunction(o) - lost + a.loss
  BY <1>7, <1>9 DEF Owing
<1> DEFINE q == a.origins
<1> HIDE DEF a
<1>11. SumFunction(q) \in Nat
  <2>1. IsFiniteSet(DOMAIN q) /\ \A s \in DOMAIN q : q[s] \in Nat BY <1>0, <1>10
  <2> HIDE DEF q
  <2>2. QED BY <2>1, SumFunctionType
<1>12. SumFunction(o) - lost <= SumFunction(q) /\ SumFunction(q) <= value - lost
  BY <1>3, <1>10
<1>13. QED BY <1>2, <1>3, <1>10, <1>11, <1>12 DEF a

\* A tribute is taken from the hold and the run, no more than either has, and
\* it is no more than what was aboard.
LEMMA TributeTaken ==
  ASSUME Stowed, NEW mined \in Nat
  PROVE  LET p == Tributed(hold, mined)
         IN /\ p.hold = [value |-> p.hold.value, origins |-> p.hold.origins, vouchers |-> hold.vouchers]
            /\ p.hold.value \in Nat /\ p.mined \in Nat
            /\ p.hold.value + p.mined <= hold.value + mined
            /\ p.hold.origins \in [SystemSet -> Nat]
            /\ SumFunction(p.hold.origins) \in Nat /\ SumFunction(hold.origins) \in Nat
            /\ SumFunction(p.hold.origins) <= p.hold.value
            /\ p.hold.value - SumFunction(p.hold.origins) <= hold.value - SumFunction(hold.origins)
<1> DEFINE V == hold.value
           total == V + mined
           demand == (total + 1) \div 2
           share == ProportionalCargoLoss(demand, V, total)
           part == Most(share, demand - mined)
           o == hold.origins
           q == ReduceCargoOrigins(o, V, part)
           h == [hold EXCEPT !.value = V - part, !.origins = q]
<1>1. /\ hold = [value |-> V, origins |-> o, vouchers |-> hold.vouchers] /\ V \in Nat
      /\ o \in [SystemSet -> Nat] /\ SumFunction(o) <= V
  BY DEF Stowed
<1>2. Tributed(hold, mined) = [hold |-> h, mined |-> mined - (demand - part)]
  BY DEF Tributed
<1> HIDE DEF V, o
<1>3. demand \in Nat /\ demand <= total BY <1>1
<1>4. share \in Nat /\ share <= demand /\ share <= V BY <1>1, <1>3, ShareBounds
<1> HIDE DEF share, demand
<1>5. part \in Nat /\ part <= V /\ part <= demand /\ demand - part <= mined
  BY <1>1, <1>3, <1>4 DEF Most
<1> HIDE DEF part
<1>6. /\ q \in [SystemSet -> Nat] /\ SumFunction(o) \in Nat /\ SumFunction(q) \in Nat
      /\ SumFunction(o) - part <= SumFunction(q) /\ SumFunction(q) <= V - part
  BY <1>1, <1>5, Reduced
<1> HIDE DEF q
<1>7. h = [value |-> V - part, origins |-> q, vouchers |-> hold.vouchers]
  <2> DEFINE w == hold.vouchers
  <2>1. hold = [value |-> V, origins |-> o, vouchers |-> w] BY <1>1
  <2> DEFINE nv == V - part
  <2>2. h = [hold EXCEPT !.value = nv, !.origins = q] OBVIOUS
  <2> HIDE DEF w, nv, h
  <2>3. h = [value |-> nv, origins |-> q, vouchers |-> w] BY <2>1, <2>2
  <2>4. QED BY <2>3 DEF w, nv
<1>8. h.value = V - part /\ h.origins = q /\ h.vouchers = hold.vouchers BY <1>7
<1> HIDE DEF h
<1> DEFINE p == [hold |-> h, mined |-> mined - (demand - part)]
<1>9. p.hold = h /\ p.mined = mined - (demand - part) OBVIOUS
<1> HIDE DEF p
<1>10. p.hold.value \in Nat /\ p.mined \in Nat /\ p.hold.value + p.mined <= V + mined
  BY <1>1, <1>3, <1>5, <1>8, <1>9
<1>11. V - part - SumFunction(q) <= V - SumFunction(o) BY <1>1, <1>5, <1>6
<1>12. /\ p.hold = [value |-> p.hold.value, origins |-> p.hold.origins, vouchers |-> hold.vouchers]
       /\ p.hold.origins \in [SystemSet -> Nat]
       /\ SumFunction(p.hold.origins) \in Nat /\ SumFunction(o) \in Nat
       /\ SumFunction(p.hold.origins) <= p.hold.value
       /\ p.hold.value - SumFunction(p.hold.origins) <= V - SumFunction(o)
  BY <1>6, <1>7, <1>8, <1>9, <1>11
<1>13. Tributed(hold, mined) = p BY <1>2 DEF p
<1>14. QED BY <1>10, <1>12, <1>13 DEF V, o

\* what the steps keep of the hold, and OriginsAccounted says of one step
Accounted == 0 <= Unplaced' /\ Unplaced' <= Unplaced

\* The cargo that has no origin is a number.
LEMMA UnplacedType ==
  ASSUME Stowed
  PROVE  SumFunction(hold.origins) \in Nat /\ Unplaced \in Nat
<1>1. IsFiniteSet(DOMAIN hold.origins) /\ \A s \in DOMAIN hold.origins : hold.origins[s] \in Nat
  BY SystemsFinite DEF Stowed
<1>2. SumFunction(hold.origins) \in Nat BY <1>1, SumFunctionType
<1>3. QED BY <1>2 DEF Stowed, Unplaced

\* A hold that is left alone, and one that is emptied.
LEMMA HoldKept ==
  ASSUME Stowed, hold' = hold
  PROVE  Stowed' /\ Accounted
<1>1. Unplaced' = Unplaced BY DEF Unplaced
<1>2. QED BY <1>1, UnplacedType DEF Stowed, Accounted

LEMMA HoldEmptied ==
  ASSUME Stowed, NEW v \in Nat,
         hold' = [value |-> 0, origins |-> [sys \in SystemSet |-> 0], vouchers |-> v]
  PROVE  Stowed' /\ Accounted
<1> DEFINE z == [sys \in SystemSet |-> 0]
<1>1. SumFunctionOnSet(z, SystemSet) = 0 BY SystemsFinite, SumZero
<1>2. DOMAIN z = SystemSet /\ z \in [SystemSet -> Nat] OBVIOUS
<1>3. hold' = [value |-> 0, origins |-> z, vouchers |-> v] OBVIOUS
<1> HIDE DEF z
<1>4. SumFunction(z) = 0 BY <1>1, <1>2 DEF SumFunction
<1>5. hold'.value = 0 /\ hold'.origins = z /\ hold'.vouchers = v BY <1>3
<1>6. Unplaced' = 0 BY <1>4, <1>5 DEF Unplaced
<1>7. Stowed' BY <1>2, <1>3, <1>4, <1>5 DEF Stowed
<1>8. QED BY <1>6, <1>7, UnplacedType DEF Accounted

\* What was mined is of the system the pilot is in.
LEMMA SurvivedHold ==
  ASSUME LInv, NEW mined \in Nat, NEW tribute, NEW burnt, NEW hit, NEW spent, NEW pirate, NEW legend,
         RunSurvived(mined, tribute, burnt, hit, spent, pirate, legend)
  PROVE  /\ Stowed' /\ Accounted
         /\ hold'.value <= hold.value + mined
<1> DEFINE paid == IF tribute THEN Tributed(hold, mined) ELSE [hold |-> hold, mined |-> mined]
           h == paid.hold
           m == paid.mined
           vch == IF pirate THEN hold.vouchers + 1 ELSE hold.vouchers
           or == [h.origins EXCEPT ![at] = @ + m]
<1>1. /\ Stowed /\ hold.value \in Nat /\ hold.vouchers \in Nat
      /\ hold = [value |-> hold.value, origins |-> hold.origins, vouchers |-> hold.vouchers]
      /\ hold.origins \in [SystemSet -> Nat] /\ SumFunction(hold.origins) <= hold.value
  BY DEF LInv, Stowed
<1>2. SumFunction(hold.origins) \in Nat BY <1>1, UnplacedType
<1>3. at \in SystemSet BY DEF LInv, IInv, Papers, Places
<1>4. /\ h = [value |-> h.value, origins |-> h.origins, vouchers |-> hold.vouchers]
      /\ h.value \in Nat /\ m \in Nat /\ h.value + m <= hold.value + mined
      /\ h.origins \in [SystemSet -> Nat] /\ SumFunction(h.origins) \in Nat
      /\ SumFunction(h.origins) <= h.value
      /\ h.value - SumFunction(h.origins) <= hold.value - SumFunction(hold.origins)
  <2>1. CASE tribute BY <1>1, <2>1, TributeTaken
  <2>2. CASE ~tribute BY <1>1, <1>2, <2>2
  <2>3. QED BY <2>1, <2>2
<1>5. hold' = [h EXCEPT !.value = @ + m, !.origins[at] = @ + m,
                        !.vouchers = IF pirate THEN @ + 1 ELSE @]
  BY DEF RunSurvived
<1> HIDE DEF paid, h, m
<1>6. hold' = [value |-> h.value + m, origins |-> or, vouchers |-> vch]
  <2> DEFINE hv == h.value
             ho == h.origins
             w == hold.vouchers
             op == [ho EXCEPT ![at] = @ + m]
             nw == IF pirate THEN w + 1 ELSE w
  <2>1. h = [value |-> hv, origins |-> ho, vouchers |-> w] BY <1>4
  <2> HIDE DEF hv, ho, w
  <2>2. hold' = [h EXCEPT !.value = hv + m, !.origins = op, !.vouchers = nw] BY <1>5, <2>1
  <2> HIDE DEF op, nw
  <2>3. hold' = [value |-> hv + m, origins |-> op, vouchers |-> nw] BY <2>1, <2>2
  <2>4. QED BY <2>3 DEF hv, ho, w, op, nw
<1>7. or \in [SystemSet -> Nat] /\ or[at] = h.origins[at] + m
      /\ \A s \in SystemSet : s # at => or[s] = h.origins[s]
  BY <1>3, <1>4
<1>8. vch \in Nat BY <1>1
<1> HIDE DEF or, vch
<1>9. SumFunction(or) = SumFunction(h.origins) + m
  <2> DEFINE g == h.origins
  <2>1. IsFiniteSet(DOMAIN g) /\ at \in DOMAIN g /\ DOMAIN or = DOMAIN g
        /\ or[at] \in Int /\ g[at] \in Int
        /\ \A s \in DOMAIN g : s # at => or[s] = g[s] /\ g[s] \in Int
    BY <1>3, <1>4, <1>7, SystemsFinite
  <2>2. or[at] = g[at] + m BY <1>7
  <2>3. SumFunction(g) \in Nat BY <1>4
  <2> HIDE DEF g
  <2>4. SumFunction(or) = SumFunction(g) + (or[at] - g[at]) BY <2>1, SumChanged
  <2>5. SumFunction(or) = SumFunction(g) + m BY <1>4, <2>1, <2>2, <2>3, <2>4
  <2>6. QED BY <2>5 DEF g
<1>10. hold'.value = h.value + m /\ hold'.origins = or /\ hold'.vouchers = vch BY <1>6
<1>11. Stowed' BY <1>4, <1>6, <1>7, <1>8, <1>9, <1>10 DEF Stowed
<1>12. Unplaced' = h.value - SumFunction(h.origins) BY <1>4, <1>9, <1>10 DEF Unplaced
<1>13. Unplaced = hold.value - SumFunction(hold.origins) BY DEF Unplaced
<1>14. Accounted BY <1>1, <1>2, <1>4, <1>12, <1>13 DEF Accounted
<1>15. QED BY <1>4, <1>10, <1>11, <1>14

\* A run wears the hull; the cargo it comes back with is what it had room for.
LEMMA SurvivedRigs ==
  ASSUME LInv, NEW mined \in Nat, NEW tribute, NEW burnt \in Int, NEW hit \in Nat, NEW spent,
         NEW pirate, NEW legend, RunSurvived(mined, tribute, burnt, hit, spent, pirate, legend)
  PROVE  Kept
<1> DEFINE fl == ships[active]
           sl == [x \in DOMAIN fl.slots |->
                     IF x \in spent THEN [fl.slots[x] EXCEPT !.ready = FALSE] ELSE fl.slots[x]]
           hu == fl.hull - hit
           r == [fl EXCEPT !.hull = hu, !.slots = sl]
           q == ConsumeFuel(r, burnt)
<1>0. active \in DOMAIN ships /\ Sound(fl) /\ Rig(fl) /\ Legal(fl) BY Flown
<1>1. /\ ships' = [ships EXCEPT ![active] = Worn(fl, burnt, hit, spent)]
      /\ hit < fl.hull /\ active' = active /\ spent \subseteq Expendable(fl) /\ mined <= Room
  BY DEF RunSurvived
<1>2. Worn(fl, burnt, hit, spent) = q BY <1>0 DEF Worn, Sound
<1>3. ASSUME NEW x \in DOMAIN fl.slots
      PROVE  sl[x] \in AllDevices /\ sl[x].item = fl.slots[x].item /\ sl[x].grade = fl.slots[x].grade
  <2> DEFINE d == fl.slots[x]
  <2>1. d \in AllDevices BY <1>0, RigShape
  <2>2. x \in spent => d.item # "none" BY <1>1 DEF Expendable, Consumables
  <2>3. sl[x] = IF x \in spent THEN [d EXCEPT !.ready = FALSE] ELSE d OBVIOUS
  <2> HIDE DEF d, sl
  <2>4. QED BY <2>1, <2>2, <2>3, DeviceLoaded DEF d
<1>4. sl \in [DOMAIN fl.slots -> AllDevices] BY <1>3
<1>5. hu \in Nat /\ hu >= HullFloor /\ hu <= MaxHull(fl)
  <2>1. fl.hull \in Nat /\ MaxHull(fl) \in Nat /\ fl.hull <= MaxHull(fl)
    BY <1>0, MaxHullIsSound DEF Sound, Rig
  <2>2. QED BY <1>1, <2>1 DEF HullFloor
<1> HIDE DEF sl, hu
<1>6. Sound(r) BY <1>0, <1>5, WornKeeps
<1>7. r.model = fl.model /\ r.grade = fl.grade /\ r.slots = sl /\ r.fuel = fl.fuel /\ r.hull = hu
  BY <1>0 DEF Sound
<1> HIDE DEF r
<1>8. Rig(r)
  <2>1. DOMAIN fl.slots = Slots(fl.model) BY <1>0 DEF Rig
  <2>2. MaxHull(r) = MaxHull(fl) BY <1>7 DEF MaxHull
  <2>3. sl \in [Slots(r.model) -> AllDevices] BY <1>4, <1>7, <2>1
  <2>4. QED BY <1>0, <1>5, <1>7, <2>2, <2>3 DEF Rig
<1>9. SameFit(r, fl) BY <1>3, <1>4, <1>7 DEF SameFit
<1>10. Rig(q) /\ SameFit(q, r) BY <1>6, <1>8, ConsumeFuelRig
<1>11. ships' = [ships EXCEPT ![active] = q] BY <1>1, <1>2
<1> HIDE DEF q
<1>12. SameFit(q, fl) BY <1>9, <1>10, SameFitTransitive
<1>13. Legal(q) BY <1>0, <1>10, <1>12, SameFitLegal
<1>14. CargoCapacityUnits(q) = CargoCapacityUnits(fl) BY <1>0, <1>10, <1>12, SameFitSame
<1>15. hold'.value <= CargoCapacityUnits(q)
  <2>1. hold.value + mined <= CargoCapacityUnits(fl) BY <1>1, Flown DEF Room
  <2>2. hold'.value <= hold.value + mined /\ hold'.value \in Nat BY SurvivedHold DEF Stowed
  <2>3. QED BY <1>14, <2>1, <2>2, Flown
<1>16. q.model = fl.model BY <1>12 DEF SameFit
<1>17. /\ Rigs' /\ CargoFits'
       /\ FleetWorth(ships') = FleetWorth(ships) + (HullWorth(q) - HullWorth(fl))
  BY <1>0, <1>1, <1>10, <1>11, <1>13, <1>15, <1>16, OneRig
<1>18. HullWorth(q) = HullWorth(fl) /\ HullWorth(q) \in Nat
  BY <1>0, <1>10, <1>12, SameFitWorth, HullWorthType
<1>19. FleetWorth(ships) \in Nat BY FleetWorthType DEF LInv, Rigs, Rigged
<1>20. QED BY <1>17, <1>18, <1>19 DEF Kept

\* The free Skiff is rigged, and the hulls that were there still are.
LEMMA GrantedRigs ==
  ASSUME NEW fleet, NEW new \in GrantStarterShip(fleet), Rigged(fleet),
         \A i \in DOMAIN fleet : Legal(fleet[i]) /\ Named(i, fleet[i]) /\ fleet[i].sys \in SystemSet
  PROVE  /\ Rigged(new) /\ \A i \in DOMAIN new : Legal(new[i]) /\ Named(i, new[i])
         /\ FleetWorth(new) <= FleetWorth(fleet)
<1> DEFINE old  == CatalogID(Starter)
           here == FreshShipInstance(Starter, at)
<1>1. Starter \in DOMAIN Models
  BY ContentAssumption DEF ContentAssumption, ShipsValid
<1>2. Rig(here) /\ Legal(here) /\ Named(old, here) /\ HullWorth(here) = 0
  BY <1>1, FreshRig, FreshWorth DEF Named, FreshShipInstance
<1>3. FleetWorth(fleet) \in Nat BY FleetWorthType
<1>4. CASE \E n \in 1 .. MaxSkiffs :
             /\ old \in DOMAIN fleet /\ RescueID(fleet[old].sys, n) \notin DOMAIN fleet
             /\ new = With(With(fleet, RescueID(fleet[old].sys, n), fleet[old]), old, here)
  <2>1. PICK n \in 1 .. MaxSkiffs :
               /\ old \in DOMAIN fleet /\ RescueID(fleet[old].sys, n) \notin DOMAIN fleet
               /\ new = With(With(fleet, RescueID(fleet[old].sys, n), fleet[old]), old, here)
    BY <1>4
  <2> DEFINE away == RescueID(fleet[old].sys, n)
             mid == With(fleet, away, fleet[old])
             v == HullWorth(fleet[old])
  <2>2. Named(away, fleet[old]) BY <2>1 DEF Named
  <2>3. away \notin DOMAIN fleet /\ new = With(mid, old, here) BY <2>1
  <2> HIDE DEF old, here, away
  <2>4. \A i \in DOMAIN mid : Legal(mid[i]) /\ Named(i, mid[i]) BY <2>1, <2>2 DEF With
  <2>5. Rig(fleet[old]) /\ v \in Nat BY <2>1, HullWorthType DEF Rigged
  <2>6. Rigged(mid) /\ FleetWorth(mid) = FleetWorth(fleet) + (v - 0) BY <2>3, <2>5, WithWorth
  <2>7. old \in DOMAIN mid /\ mid[old] = fleet[old] BY <2>1, <2>3 DEF With
  <2> HIDE DEF mid
  <2>8. /\ Rigged(With(mid, old, here))
        /\ FleetWorth(With(mid, old, here)) = FleetWorth(mid) + (HullWorth(here) - HullWorth(mid[old]))
    BY <1>2, <2>6, <2>7, WithWorth
  <2>9. FleetWorth(new) <= FleetWorth(fleet) BY <1>2, <1>3, <2>3, <2>5, <2>6, <2>7, <2>8
  <2>10. \A i \in DOMAIN new : Legal(new[i]) /\ Named(i, new[i]) BY <1>2, <2>3, <2>4 DEF With
  <2>11. QED BY <2>3, <2>8, <2>9, <2>10
<1>5. CASE new = With(fleet, old, here)
  <2> HIDE DEF old, here
  <2> DEFINE v == IF old \in DOMAIN fleet THEN HullWorth(fleet[old]) ELSE 0
  <2>1. v \in Nat BY HullWorthType DEF Rigged
  <2>2. Rigged(new) /\ FleetWorth(new) = FleetWorth(fleet) + (HullWorth(here) - v)
    BY <1>2, <1>5, WithWorth
  <2> HIDE DEF v
  <2>3. FleetWorth(new) <= FleetWorth(fleet) BY <1>2, <1>3, <2>1, <2>2
  <2>4. \A i \in DOMAIN new : Legal(new[i]) /\ Named(i, new[i]) BY <1>2, <1>5 DEF With
  <2>5. QED BY <2>2, <2>3, <2>4
<1>6. QED BY <1>4, <1>5 DEF GrantStarterShip

\* A loss empties the hold, whatever hull the pilot comes to.
LEMMA LostRigs ==
  ASSUME LInv, NEW legend, ShipLost(legend)
  PROVE  Kept
<1> DEFINE fleet == Without(ships, active)
<1>0. active \in DOMAIN ships /\ Rig(ships[active]) BY Flown
<1>1. RespawnActiveShip(fleet) BY DEF ShipLost
<1>2. /\ DOMAIN fleet = DOMAIN ships \ {active} /\ \A i \in DOMAIN fleet : fleet[i] = ships[i]
      /\ \A i \in DOMAIN fleet : Legal(fleet[i]) /\ Named(i, fleet[i]) /\ fleet[i].sys \in SystemSet
  BY DEF Without, LInv, Rigs, IInv, Papers, Places
<1> HIDE DEF fleet
<1>3. Rigged(fleet)
  <2>1. IsFiniteSet(DOMAIN fleet) BY <1>2, FS_Subset DEF LInv, Rigs
  <2>2. QED BY <1>2, <2>1 DEF Rigged, LInv, Rigs
<1>4. FleetWorth(fleet) <= FleetWorth(ships) /\ FleetWorth(fleet) \in Nat /\ FleetWorth(ships) \in Nat
  <2>1. /\ active \notin DOMAIN fleet /\ DOMAIN ships = DOMAIN fleet \cup {active}
        /\ \A i \in DOMAIN fleet : ships[i] = fleet[i]
    BY <1>0, <1>2
  <2>2. FleetWorth(ships) = FleetWorth(fleet) + HullWorth(ships[active]) /\ FleetWorth(fleet) \in Nat
    BY <1>0, <1>3, <2>1, FleetAdded
  <2>3. HullWorth(ships[active]) \in Nat BY <1>0, HullWorthType
  <2>4. QED BY <2>2, <2>3
<1>5. /\ Rigged(ships') /\ \A i \in DOMAIN ships' : Legal(ships'[i]) /\ Named(i, ships'[i])
      /\ FleetWorth(ships') <= FleetWorth(fleet)
  <2>1. CASE ships' = fleet BY <1>2, <1>3, <1>4, <2>1
  <2>2. CASE ships' \in GrantStarterShip(fleet) BY <1>2, <1>3, <2>2, GrantedRigs
  <2>3. QED BY <1>1, <2>1, <2>2 DEF RespawnActiveShip
<1>6. Rigs' BY <1>5 DEF Rigs, Rigged
<1>7. active' \in DOMAIN ships'
  <2>1. IInv' BY LostStep DEF LInv
  <2>2. QED BY <2>1 DEF IInv, ActiveIsHere, LocalShips, Owned
<1>8. CargoCapacityUnits(ships'[active']) \in Nat BY <1>5, <1>7, CapacityType DEF Rigged
<1>9. hold'.value = 0 BY DEF ShipLost, LInv, Stowed
<1>10. CargoFits' BY <1>8, <1>9 DEF CargoFits
<1>11. FleetWorth(ships') <= FleetWorth(ships)
  <2>1. FleetWorth(ships') \in Nat BY <1>5, FleetWorthType
  <2>2. QED BY <1>4, <1>5, <2>1
<1>12. QED BY <1>6, <1>10, <1>11 DEF Kept

\* A hull bought waits at the dock.
LEMMA AcquireRigs ==
  ASSUME LInv, NEW m \in DOMAIN Models, AcquireShip(m)
  PROVE  Kept
<1> DEFINE new == FreshShipInstance(m, at)
           id  == CatalogID(m)
<1>1. LocalShips # {} BY DEF LInv, IInv, ActiveIsHere
<1>2. ships' = With(ships, id, new) /\ active' = active /\ hold' = hold /\ id \notin DOMAIN ships
  BY <1>1 DEF AcquireShip, Owned
<1>3. Rig(new) /\ Legal(new) /\ Named(id, new) BY FreshRig DEF Named, FreshShipInstance
<1> HIDE DEF new, id
<1>4. DOMAIN ships' = DOMAIN ships \cup {id} /\ ships'[id] = new
      /\ \A i \in DOMAIN ships : ships'[i] = ships[i]
  BY <1>2 DEF With
<1>5. \A i \in DOMAIN ships' : Rig(ships'[i]) /\ Legal(ships'[i]) /\ Named(i, ships'[i])
  BY <1>3, <1>4 DEF LInv, Rigs
<1>6. Rigs'
  <2>1. IsFiniteSet(DOMAIN ships') BY <1>4, FS_AddElement DEF LInv, Rigs
  <2>2. QED BY <1>5, <2>1 DEF Rigs
<1>7. ships'[active'] = ships[active] BY <1>2, <1>4, Flown
<1>8. hold'.value <= CargoCapacityUnits(ships'[active']) BY <1>2, <1>7, Flown
<1>9. CargoFits' BY <1>8 DEF CargoFits
<1>10. FleetWorth(ships') <= FleetWorth(ships)
  <2>1. HullWorth(new) = 0 BY FreshWorth DEF new
  <2>2. Rigged(ships) BY DEF LInv, Rigs, Rigged
  <2>3. FleetWorth(ships') = FleetWorth(ships) + HullWorth(new) /\ FleetWorth(ships) \in Nat
    <3> DEFINE fl == ships'
    <3>1. /\ Rig(new) /\ id \notin DOMAIN ships /\ DOMAIN fl = DOMAIN ships \cup {id} /\ fl[id] = new
          /\ \A i \in DOMAIN ships : fl[i] = ships[i]
      BY <1>2, <1>3, <1>4
    <3> HIDE DEF fl
    <3>2. FleetWorth(fl) = FleetWorth(ships) + HullWorth(new) /\ FleetWorth(ships) \in Nat
      BY <2>2, <3>1, FleetAdded
    <3>3. QED BY <3>2 DEF fl
  <2>4. QED BY <2>1, <2>3
<1>11. QED BY <1>6, <1>9, <1>10 DEF Kept

\* The hulls stay as they are; a hull that is boarded takes the cargo.
LEMMA SameRigs ==
  ASSUME LInv, ships' = ships,
         \/ active' = active /\ (hold' = hold \/ hold'.value = 0)
         \/ \E id \in Owned : SwitchActiveShip(id)
  PROVE  Kept
<1>0. FleetWorth(ships') <= FleetWorth(ships)
  <2>1. FleetWorth(ships) \in Nat BY FleetWorthType DEF LInv, Rigs, Rigged
  <2>2. QED BY <2>1
<1>1. Rigs' BY DEF LInv, Rigs
<1>2. CASE active' = active /\ hold' = hold BY <1>0, <1>1, <1>2 DEF LInv, CargoFits, Kept
<1>3. CASE active' = active /\ hold'.value = 0
  <2>1. CargoCapacityUnits(ships'[active']) \in Nat
    <3>1. ships'[active'] = ships[active] BY <1>3
    <3>2. QED BY <3>1, Flown
  <2>2. hold'.value <= CargoCapacityUnits(ships'[active']) BY <1>3, <2>1
  <2>3. CargoFits' BY <2>2 DEF CargoFits
  <2>4. QED BY <1>0, <1>1, <2>3 DEF Kept
<1>4. CASE \E id \in Owned : SwitchActiveShip(id)
  <2>1. PICK id \in Owned : SwitchActiveShip(id) BY <1>4
  <2>2. hold'.value <= CargoCapacityUnits(ships'[active']) BY <2>1 DEF SwitchActiveShip
  <2>3. CargoFits' BY <2>2 DEF CargoFits
  <2>4. QED BY <1>0, <1>1, <2>3 DEF Kept
<1>5. QED BY <1>1, <1>2, <1>3, <1>4

\* A hull's mass is a number, and so is what a gate asks of it.
LEMMA MassType ==
  ASSUME NEW r, Rig(r)
  PROVE  InstalledMass(r) \in Nat /\ \A g \in Gates : JumpFuel(r, g) \in Nat
<1> DEFINE p == [x \in Devices(r) |-> SlotItemMass(r.slots[x].item, r.slots[x].grade)]
<1>1. IsFiniteSet(DOMAIN p) BY RigShape DEF Devices
<1>2. \A x \in DOMAIN p : p[x] \in Nat
  <2> SUFFICES ASSUME NEW x \in Devices(r)
               PROVE  SlotItemMass(r.slots[x].item, r.slots[x].grade) \in Nat
    OBVIOUS
  <2>1. r.slots[x] \in AllDevices /\ r.slots[x] # Empty BY RigShape DEF Devices
  <2>2. r.slots[x].item \in DOMAIN Items /\ r.slots[x].grade \in Nat BY <2>1, DeviceShape
  <2>3. Items[r.slots[x].item].mass \in Nat BY <2>2, DevicesAssumption DEF DevicesAssumption
  <2>4. QED BY <2>2, <2>3 DEF SlotItemMass
<1>3. InstalledMass(r) = Models[r.model].mass + SumFunction(p) BY DEF InstalledMass
<1>4. Models[r.model].mass \in Nat BY ContentAssumption DEF ContentAssumption, ShipsValid, Rig
<1> HIDE DEF p
<1>5. SumFunction(p) \in Nat BY <1>1, <1>2, SumFunctionType
<1>6. InstalledMass(r) \in Nat BY <1>3, <1>4, <1>5
<1>7. \A g \in Gates : g.fuel \in Nat BY ContentAssumption DEF ContentAssumption, NetworkValid
<1>8. QED BY <1>6, <1>7 DEF JumpFuel

\* Every way a jump may go.
LEMMA JumpRigs ==
  ASSUME LInv, NEW g \in Gates, Jump(g)
  PROVE  Kept
<1> DEFINE fl == ships[active]
<1>0. Sound(fl) /\ Rig(fl) BY Flown
<1>1. FuelAmount(fl) \in Nat /\ JumpFuel(fl, g) \in Nat BY <1>0, FuelType, MassType
<1>2. FuelAfter(g) \in Int BY <1>1 DEF FuelAfter
<1>3. HullAfter(g) \in Nat /\ HullAfter(g) <= MaxHull(fl) /\ MaxHull(fl) \in Nat
  <2>1. fl.hull \in Nat /\ fl.hull <= MaxHull(fl) /\ MaxHull(fl) \in Nat /\ MaxHull(fl) >= HullFloor
    BY <1>0, MaxHullIsSound DEF Sound, Rig
  <2>2. g.stress \in Nat BY ContentAssumption DEF ContentAssumption, NetworkValid
  <2>3. QED BY <2>1, <2>2 DEF HullAfter, Most, HullFloor
<1>4. ASSUME NEW to, NEW fuel \in Int, NEW hull \in Int, hull <= HullAfter(g), NEW hot,
             Arrive(g, to, fuel, hull, hot)
      PROVE  Kept
  <2>1. hull <= MaxHull(fl) BY <1>3, <1>4
  <2>2. QED BY <1>1, <1>4, <2>1, ArriveRigs
<1>5. ASSUME NEW h \in HullFloor .. HullAfter(g) PROVE h \in Int /\ h <= HullAfter(g)
  BY <1>3 DEF HullFloor
<1>6. ASSUME NEW f \in 0 .. FuelAfter(g) PROVE f \in Int
  BY <1>2
<1>7. HullAfter(g) \in Int /\ HullAfter(g) <= HullAfter(g) BY <1>3
<1>8. QED BY <1>2, <1>4, <1>5, <1>6, <1>7 DEF Jump

\* Every step leaves legal rigs and a hold that takes the cargo.
LEMMA NextRigs ==
  ASSUME LInv, [Next]_vars
  PROVE  Rigs' /\ CargoFits' /\ (Shipyard \/ FleetWorth(ships') <= FleetWorth(ships))
<1>0. SUFFICES Shipyard \/ Kept BY YardRigs DEF Kept, Dealt
<1>2. CASE Port
  <2>1. CASE SellCargo \/ InsuranceAdvance \/ CertifyRating
             \/ \E d \in DOMAIN Worlds : BuyDestinationPermit(d)
    <3>1. ships' = ships /\ active' = active /\ (hold' = hold \/ hold'.value = 0)
      BY <2>1 DEF SellCargo, InsuranceAdvance, CertifyRating, BuyDestinationPermit
    <3>2. QED BY <3>1, SameRigs
  <2>2. CASE Refuel \/ Repair \/ \E d \in DOMAIN Worlds : Depart(d)
    BY <2>2, FlownRigs
  <2>3. CASE \E m \in DOMAIN Models : AcquireShip(m) BY <2>3, AcquireRigs
  <2>4. CASE \E id \in Owned : SwitchActiveShip(id)
    <3>1. ships' = ships BY <2>4 DEF SwitchActiveShip
    <3>2. QED BY <2>4, <3>1, SameRigs
  <2>5. CASE \E id \in Owned, to \in SystemSet : FerryShip(id, to) BY <2>5, FerryRigs
  <2>6. CASE \E g \in Gates : Jump(g) BY <2>6, JumpRigs
  <2>7. QED BY <1>2, <2>1, <2>2, <2>3, <2>4, <2>5, <2>6 DEF Port
<1>3. CASE Dock BY <1>3, FlownRigs
<1>4. CASE Run
  <2>1. ASSUME NEW mined \in 0 .. Room, NEW tribute, NEW pirate, NEW legend,
               NEW burnt \in 0 .. FuelAmount(ships[active]),
               NEW hit \in 0 .. ships[active].hull - 1, NEW spent,
               RunSurvived(mined, tribute, burnt, hit, spent, pirate, legend)
        PROVE  Kept
    <3>1. ships[active].hull \in Nat /\ Room \in Int /\ FuelAmount(ships[active]) \in Nat
      BY Flown, FuelType DEF Sound, Room
    <3>2. mined \in Nat /\ hit \in Nat /\ burnt \in Int BY <3>1
    <3>3. QED BY <2>1, <3>2, SurvivedRigs
  <2>2. ASSUME NEW legend, ShipLost(legend) PROVE Kept
    BY <2>2, LostRigs
  <2>3. QED BY <1>4, <2>1, <2>2 DEF Run
<1>5. CASE UNCHANGED vars
  <2>1. ships' = ships /\ active' = active /\ hold' = hold BY <1>5 DEF vars
  <2>2. QED BY <2>1, SameRigs
<1>6. QED BY <1>2, <1>3, <1>4, <1>5 DEF Next

-----------------------------------------------------------------------------
(* The hold, the shelf and the purse, over every step. *)

\* Cargo is accounted for by its origins.
LEMMA NextHold ==
  ASSUME LInv, [Next]_vars
  PROVE  Stowed' /\ Accounted
<1>0. Stowed BY DEF LInv
<1>1. CASE SellCargo
  <2>1. hold' = [value |-> 0, origins |-> [sys \in SystemSet |-> 0], vouchers |-> 0]
    BY <1>1 DEF SellCargo
  <2>2. QED BY <1>0, <2>1, HoldEmptied
<1>2. ASSUME NEW legend, ShipLost(legend) PROVE Stowed' /\ Accounted
  <2> DEFINE a == hold.value
             o == hold.origins
             w == hold.vouchers
             z == [sys \in SystemSet |-> 0]
  <2>1. hold = [value |-> a, origins |-> o, vouchers |-> w] /\ w \in Nat
    BY <1>0 DEF Stowed
  <2>2. hold' = [hold EXCEPT !.value = 0, !.origins = z] BY <1>2 DEF ShipLost
  <2> HIDE DEF a, o, w, z
  <2>3. hold' = [value |-> 0, origins |-> z, vouchers |-> w] BY <2>1, <2>2
  <2>4. QED BY <1>0, <2>1, <2>3, HoldEmptied DEF z
<1>3. ASSUME NEW mined \in 0 .. Room, NEW tribute, NEW pirate, NEW legend, NEW burnt, NEW hit, NEW spent,
             RunSurvived(mined, tribute, burnt, hit, spent, pirate, legend)
      PROVE  Stowed' /\ Accounted
  <2>1. Room \in Int BY Flown DEF Room
  <2>2. mined \in Nat BY <2>1
  <2>3. QED BY <1>3, <2>2, SurvivedHold
<1>4. CASE hold' = hold BY <1>0, <1>4, HoldKept
<1>5. CASE Shipyard
  <2>1. hold' = hold
    BY <1>5 DEF Shipyard, InstallSlotDevice, ReplaceSlotDeviceWithPurchase, StoreSlotDevice,
                SellSlotDevice, InstallSlotDeviceFromInventory, BuyShipTrack
  <2>2. QED BY <1>4, <2>1
<1>6. CASE Port
  <2>1. CASE \E g \in Gates : Jump(g)
    <3>1. hold' = hold BY <2>1 DEF Jump, Arrive
    <3>2. QED BY <1>4, <3>1
  <2>2. CASE ~(\E g \in Gates : Jump(g)) /\ ~SellCargo
    <3>1. hold' = hold
      BY <1>6, <2>2 DEF Port, Refuel, Repair, InsuranceAdvance, CertifyRating, BuyDestinationPermit,
                        Depart, AcquireShip, SwitchActiveShip, FerryShip
    <3>2. QED BY <1>4, <3>1
  <2>3. QED BY <1>1, <2>1, <2>2
<1>7. CASE Dock \/ UNCHANGED vars
  <2>1. hold' = hold BY <1>7 DEF Dock, vars
  <2>2. QED BY <1>4, <2>1
<1>8. CASE Run BY <1>2, <1>3, <1>8 DEF Run
<1>9. QED BY <1>5, <1>6, <1>7, <1>8 DEF Next

\* The shelf gains what a slot held and loses what a slot takes.
LEMMA NextShelf ==
  ASSUME LInv, [Next]_vars
  PROVE  Shelf' /\ (Shipyard \/ stock' = stock)
<1> DEFINE D == AllDevices \ {Empty}
<1>0. stock \in Seq(D) BY DEF LInv, Shelf
<1>1. CASE stock' = stock BY <1>0, <1>1 DEF Shelf
<1>2. ASSUME NEW id \in LocalShips, NEW x \in DOMAIN ships[id].slots, StoreSlotDevice(id, x)
      PROVE  Shelf'
  <2>1. id \in DOMAIN ships /\ Rig(ships[id]) BY DEF LocalShips, Owned, LInv, Rigs
  <2>2. ships[id].slots[x] \in AllDevices BY <2>1, RigShape
  <2>3. ships[id].slots[x] \in D BY <1>2, <2>2 DEF StoreSlotDevice, Devices
  <2>4. stock' = Append(stock, ships[id].slots[x]) BY <1>2 DEF StoreSlotDevice
  <2> HIDE DEF D
  <2>5. stock' \in Seq(D) BY <1>0, <2>3, <2>4, AppendProperties
  <2>6. QED BY <2>5 DEF Shelf, D
<1>3. ASSUME NEW id, NEW x, NEW i \in DOMAIN stock, InstallSlotDeviceFromInventory(id, x, i)
      PROVE  Shelf'
  <2>1. stock' = SubSeq(stock, 1, i - 1) \o SubSeq(stock, i + 1, Len(stock))
    BY <1>3 DEF InstallSlotDeviceFromInventory, RemoveAt
  <2> HIDE DEF D
  <2>2. i \in 1 .. Len(stock) /\ Len(stock) \in Nat /\ \A j \in 1 .. Len(stock) : stock[j] \in D
    BY <1>0
  <2>3. SubSeq(stock, 1, i - 1) \in Seq(D) BY <2>2, SubSeqProperties
  <2>4. SubSeq(stock, i + 1, Len(stock)) \in Seq(D) BY <2>2, SubSeqProperties
  <2>5. stock' \in Seq(D) BY <2>1, <2>3, <2>4, ConcatProperties
  <2>6. QED BY <2>5 DEF Shelf, D
<1>4. ASSUME Shipyard PROVE Shelf'
  <2>1. ASSUME NEW id, NEW x, NEW item, NEW g,
               \/ InstallSlotDevice(id, x, item, g) \/ ReplaceSlotDeviceWithPurchase(id, x, item, g)
               \/ SellSlotDevice(id, x) \/ BuyShipTrack(id, item)
        PROVE  Shelf'
    <3>1. stock' = stock
      BY <2>1 DEF InstallSlotDevice, ReplaceSlotDeviceWithPurchase, SellSlotDevice, BuyShipTrack
    <3>2. QED BY <1>1, <3>1
  <2>2. QED BY <1>2, <1>3, <1>4, <2>1 DEF Shipyard
<1>5. CASE Port
  <2>1. CASE \E g \in Gates : Jump(g)
    <3>1. stock' = stock BY <2>1 DEF Jump, Arrive
    <3>2. QED BY <1>1, <3>1
  <2>2. CASE ~(\E g \in Gates : Jump(g))
    <3>1. stock' = stock
      BY <1>5, <2>2 DEF Port, SellCargo, Refuel, Repair, InsuranceAdvance, CertifyRating,
                        BuyDestinationPermit, Depart, AcquireShip, SwitchActiveShip, FerryShip
    <3>2. QED BY <1>1, <3>1
  <2>3. QED BY <2>1, <2>2
<1>6. CASE Dock \/ UNCHANGED vars
  <2>1. stock' = stock BY <1>6 DEF Dock, vars
  <2>2. QED BY <1>1, <2>1
<1>7. CASE Run
  <2>1. ASSUME NEW mined, NEW tribute, NEW burnt, NEW hit, NEW spent, NEW pirate, NEW legend,
               RunSurvived(mined, tribute, burnt, hit, spent, pirate, legend) \/ ShipLost(legend)
        PROVE  stock' = stock
    BY <2>1 DEF RunSurvived, ShipLost
  <2>2. stock' = stock BY <1>7, <2>1 DEF Run
  <2>3. QED BY <1>1, <2>2
<1>8. QED BY <1>4, <1>5, <1>6, <1>7 DEF Next

\* The length of a way is the number of its systems.
LEMMA RouteLength ==
  ASSUME NEW n \in Nat, NEW r \in [1 .. n -> SystemSet]
  PROVE  Len(r) = n
<1>1. r \in Seq(SystemSet) BY SeqDef
<1>2. DOMAIN r = 1 .. n /\ DOMAIN r = 1 .. Len(r) /\ Len(r) \in Nat BY <1>1
<1>3. QED BY <1>2

\* The ferry's price is a number: the cheapest of the ways there are.
LEMMA FerryType ==
  ASSUME NEW id, Rig(ships[id]), NEW to, Routes(ships[id].sys, to) # {}
  PROVE  FerryPrice(id, to) \in Nat
<1> DEFINE inst == ships[id]
           R == Routes(inst.sys, to)
           F == {RouteFuel(inst, r) : r \in R}
<1>1. ASSUME NEW r \in R PROVE RouteFuel(inst, r) \in Nat
  <2>1. PICK n \in 1 .. Len(Systems) : r \in [1 .. n -> SystemSet] BY DEF Routes
  <2>2. n \in Nat BY <2>1, SystemsFinite
  <2>3. Len(r) = n BY <2>1, <2>2, RouteLength
  <2> DEFINE G(i) == CHOOSE g \in GateBetween(r[i], r[i + 1]) : TRUE
             p == [i \in 1 .. Len(r) - 1 |-> JumpFuel(inst, G(i))]
  <2>4. IsFiniteSet(DOMAIN p) BY <2>2, <2>3, FS_Interval
  <2>5. ASSUME NEW i \in DOMAIN p PROVE p[i] \in Nat
    <3>1. i \in 1 .. Len(r) - 1 BY <2>5
    <3>2. GateBetween(r[i], r[i + 1]) # {} BY <3>1 DEF Routes
    <3>3. G(i) \in Gates BY <3>2 DEF GateBetween
    <3>4. p[i] = JumpFuel(inst, G(i)) BY <3>1
    <3> HIDE DEF G, p
    <3>5. QED BY <3>3, <3>4, MassType
  <2>6. RouteFuel(inst, r) = SumFunction(p) BY DEF RouteFuel
  <2> HIDE DEF p
  <2>7. QED BY <2>4, <2>5, <2>6, SumFunctionType
<1>2. F \in SUBSET Nat /\ F # {} BY <1>1
<1>3. FerryPrice(id, to) = FerryMarkup * RefuelPerPoint * Min(F) BY DEF FerryPrice
<1> HIDE DEF F
<1>4. Min(F) \in Nat
  <2>1. \E n \in F : \A m \in F : n <= m BY <1>2, SmallestNumber
  <2>2. Min(F) \in F BY <2>1 DEF Min
  <2>3. QED BY <1>2, <2>2
<1>5. FerryMarkup \in Nat /\ RefuelPerPoint \in Nat BY DevicesAssumption DEF DevicesAssumption
<1>6. QED BY <1>3, <1>4, <1>5

\* The yard takes no credits the pilot does not have.
LEMMA YardPurse ==
  ASSUME LInv, Shipyard
  PROVE  credits' \in Nat
<1>0. credits \in Nat /\ MaxGrade \in Nat BY DevicesAssumption DEF LInv, Desk, DevicesAssumption
<1>1. ASSUME NEW id \in LocalShips, NEW x \in Devices(ships[id])
      PROVE  SlotItemSellValue(ships[id].slots[x].item, ships[id].slots[x].grade) \in Nat
  <2>1. Rig(ships[id]) BY DEF LocalShips, Owned, LInv, Rigs
  <2>2. ships[id].slots[x] \in AllDevices /\ ships[id].slots[x] # Empty BY <2>1, RigShape DEF Devices
  <2>3. ships[id].slots[x].item \in DOMAIN Items /\ ships[id].slots[x].grade \in Nat
    BY <2>2, DeviceShape
  <2>4. QED BY <2>3, PriceType
<1>2. ASSUME NEW item \in DOMAIN Items, NEW g \in 0 .. MaxGrade PROVE SlotItemPrice(item, g) \in Nat
  <2>1. g \in Nat BY <1>0
  <2>2. QED BY <2>1, PriceType
<1>3. ASSUME NEW id \in LocalShips, NEW x, NEW item \in DOMAIN Items, NEW g \in 0 .. MaxGrade,
             InstallSlotDevice(id, x, item, g)
      PROVE  credits' \in Nat
  <2>1. credits >= SlotItemPrice(item, g) /\ credits' = credits - SlotItemPrice(item, g)
    BY <1>3 DEF InstallSlotDevice
  <2>2. QED BY <1>0, <1>2, <2>1
<1>4. ASSUME NEW id \in LocalShips, NEW x, NEW item \in DOMAIN Items, NEW g \in 0 .. MaxGrade,
             ReplaceSlotDeviceWithPurchase(id, x, item, g)
      PROVE  credits' \in Nat
  <2> DEFINE refund == SlotItemSellValue(ships[id].slots[x].item, ships[id].slots[x].grade)
  <2>1. /\ x \in Devices(ships[id]) /\ credits + refund >= SlotItemPrice(item, g)
        /\ credits' = credits + refund - SlotItemPrice(item, g)
    BY <1>4 DEF ReplaceSlotDeviceWithPurchase
  <2>2. refund \in Nat BY <1>1, <2>1
  <2> HIDE DEF refund
  <2>3. QED BY <1>0, <1>2, <2>1, <2>2
<1>5. ASSUME NEW id \in LocalShips, NEW x, SellSlotDevice(id, x) PROVE credits' \in Nat
  <2> DEFINE refund == SlotItemSellValue(ships[id].slots[x].item, ships[id].slots[x].grade)
  <2>1. x \in Devices(ships[id]) /\ credits' = credits + refund BY <1>5 DEF SellSlotDevice
  <2>2. refund \in Nat BY <1>1, <2>1
  <2> HIDE DEF refund
  <2>3. QED BY <1>0, <2>1, <2>2
<1>6. ASSUME NEW id \in LocalShips, NEW t \in Tracks, BuyShipTrack(id, t) PROVE credits' \in Nat
  <2> DEFINE inst == ships[id]
             w == 2 ^ inst.grade[t]
  <2>1. Rig(inst) /\ Sound(inst) BY DEF LocalShips, Owned, LInv, Rigs, IInv, Hangar
  <2>2. inst.grade[t] \in Nat BY <2>1 DEF Sound
  <2>3. w \in Nat BY <2>2, PowerOfTwo
  <2>4. Models[inst.model].tier \in Nat
    BY <2>1, ContentAssumption DEF ContentAssumption, ShipsValid, Rig
  <2>5. TrackPrice(inst, t) = Models[inst.model].tier * w BY DEF TrackPrice
  <2> HIDE DEF w
  <2>6. TrackPrice(inst, t) \in Nat BY <2>3, <2>4, <2>5
  <2>7. credits >= TrackPrice(inst, t) /\ credits' = credits - TrackPrice(inst, t)
    BY <1>6 DEF BuyShipTrack
  <2>8. QED BY <1>0, <2>6, <2>7
<1>7. ASSUME NEW id \in LocalShips, NEW x, NEW i,
             StoreSlotDevice(id, x) \/ InstallSlotDeviceFromInventory(id, x, i)
      PROVE  credits' \in Nat
  BY <1>0, <1>7 DEF StoreSlotDevice, InstallSlotDeviceFromInventory
<1>8. QED BY <1>3, <1>4, <1>5, <1>6, <1>7 DEF Shipyard

\* Nor does the port.
LEMMA PortPurse ==
  ASSUME LInv, Port
  PROVE  credits' \in Nat /\ (SellCargo \/ InsuranceAdvance \/ credits' <= credits)
<1>0. credits \in Nat BY DEF LInv, Desk
<1>1. CASE SellCargo BY <1>0, <1>1 DEF SellCargo, LInv, Stowed
<1>2. CASE Refuel
  <2> DEFINE p == RefuelPoints
             k == RefuelPerPoint
             n == credits \div k
  <2>1. p \in Int /\ p <= n /\ p > 0 /\ credits' = credits - p * k
    BY <1>2, RefuelWhole DEF Refuel
  <2>2. k \in Nat \ {0} BY DevicesAssumption DEF DevicesAssumption
  <2>3. n \in Nat /\ n * k <= credits BY <1>0, <2>2
  <2> HIDE DEF p, k, n
  <2>4. p * k <= n * k /\ p * k \in Nat BY <2>1, <2>2, <2>3
  <2> DEFINE a == p * k
             b == n * k
  <2>5. a \in Nat /\ a <= b /\ b <= credits /\ credits' = credits - a /\ b \in Int
    BY <2>1, <2>2, <2>3, <2>4
  <2> HIDE DEF a, b
  <2>6. QED BY <1>0, <2>5
<1>3. CASE Repair
  <2> DEFINE fl == ships[active]
  <2>1. MaxHull(fl) \in Int /\ fl.hull \in Int BY Flown, MaxHullIsSound DEF Sound
  <2>2. RepairPerPoint \in Nat BY DevicesAssumption DEF DevicesAssumption
  <2>3. RepairCost(fl) \in Nat
    <3> DEFINE n == MaxHull(fl) - fl.hull
               k == n * RepairPerPoint
    <3>1. n \in Nat BY <1>3, <2>1 DEF Repair
    <3> HIDE DEF n
    <3>2. k \in Nat BY <2>2, <3>1
    <3>3. RepairCost(fl) = k * (IF fl.hull = 0 THEN 2 ELSE 1) BY DEF RepairCost, n
    <3> HIDE DEF k
    <3>4. QED BY <3>2, <3>3
  <2>4. credits >= RepairCost(fl) /\ credits' = credits - RepairCost(fl) BY <1>3 DEF Repair
  <2>5. QED BY <1>0, <2>3, <2>4
<1>4. CASE InsuranceAdvance
  BY <1>4, DevicesAssumption DEF InsuranceAdvance, DevicesAssumption
<1>5. CASE CertifyRating
  <2> DEFINE price == Ratings[career.rating + 1].price
  <2>1. career.rating + 1 \in DOMAIN Ratings /\ credits >= price /\ credits' = credits - price
    BY <1>5 DEF CertifyRating
  <2>2. price \in Nat BY <2>1, ContentAssumption DEF ContentAssumption, NetworkValid
  <2> HIDE DEF price
  <2>3. QED BY <1>0, <2>1, <2>2
<1>6. ASSUME NEW d \in DOMAIN Worlds, BuyDestinationPermit(d) \/ Depart(d) PROVE credits' \in Nat /\ credits' <= credits
  <2>1. Worlds[d].fee \in Nat BY ContentAssumption DEF ContentAssumption, WorldsValid
  <2>2. QED BY <1>0, <1>6, <2>1 DEF BuyDestinationPermit, Depart
<1>7. ASSUME NEW m \in DOMAIN Models, AcquireShip(m) PROVE credits' \in Nat /\ credits' <= credits
  <2>1. Models[m].price \in Nat BY ContentAssumption DEF ContentAssumption, ShipsValid
  <2>2. ShipAcquirePrice(m) \in Nat BY <2>1 DEF ShipAcquirePrice
  <2>3. credits' = credits \/ (credits >= ShipAcquirePrice(m) /\ credits' = credits - ShipAcquirePrice(m))
    BY <1>7 DEF AcquireShip
  <2>4. QED BY <1>0, <2>2, <2>3
<1>8. ASSUME NEW id \in Owned, NEW to \in SystemSet, FerryShip(id, to) PROVE credits' \in Nat /\ credits' <= credits
  <2>1. Rig(ships[id]) BY DEF Owned, LInv, Rigs
  <2>2. /\ Routes(ships[id].sys, to) # {} /\ credits >= FerryPrice(id, to)
        /\ credits' = credits - FerryPrice(id, to)
    BY <1>8 DEF FerryShip
  <2>3. FerryPrice(id, to) \in Nat BY <2>1, <2>2, FerryType
  <2>4. QED BY <1>0, <2>2, <2>3
<1>9. ASSUME NEW id, SwitchActiveShip(id) PROVE credits' \in Nat /\ credits' <= credits
  BY <1>0, <1>9 DEF SwitchActiveShip
<1>10. ASSUME NEW g, Jump(g) PROVE credits' \in Nat /\ credits' <= credits
  <2>1. credits' = credits BY <1>10 DEF Jump, Arrive
  <2>2. QED BY <1>0, <2>1
<1>11. QED BY <1>1, <1>2, <1>3, <1>4, <1>5, <1>6, <1>7, <1>8, <1>9, <1>10 DEF Port

\* No step leaves a debt.
LEMMA NextPurse ==
  ASSUME LInv, [Next]_vars
  PROVE  /\ credits' \in Nat
         /\ Shipyard \/ SellCargo \/ InsuranceAdvance \/ credits' <= credits
<1>0. credits \in Nat BY DEF LInv, Desk
<1>1. ASSUME NEW mined, NEW tribute, NEW burnt, NEW hit, NEW spent, NEW pirate, NEW legend,
             RunSurvived(mined, tribute, burnt, hit, spent, pirate, legend) \/ ShipLost(legend)
      PROVE  credits' = credits
  BY <1>1 DEF RunSurvived, ShipLost
<1>2. CASE Run BY <1>0, <1>1, <1>2 DEF Run
<1>3. CASE Dock \/ UNCHANGED vars BY <1>0, <1>3 DEF Dock, vars
<1>4. QED BY <1>2, <1>3, YardPurse, PortPurse DEF Next

\* The belt is left or entered, the flag set or cleared.
LEMMA NextDesk ==
  ASSUME LInv, [Next]_vars
  PROVE  Desk'
<1> DEFINE W == DOMAIN Worlds \cup {NoWorld}
<1>0. world \in W /\ used \in BOOLEAN BY DEF LInv, Desk
<1>1. credits' \in Nat BY NextPurse
<1>2. ASSUME NEW mined, NEW tribute, NEW burnt, NEW hit, NEW spent, NEW pirate, NEW legend,
             RunSurvived(mined, tribute, burnt, hit, spent, pirate, legend) \/ ShipLost(legend)
      PROVE  world' \in {world, NoWorld} /\ used' = used
  BY <1>2 DEF RunSurvived, ShipLost
<1>3. CASE Run
  <2>1. world' \in {world, NoWorld} /\ used' = used BY <1>2, <1>3 DEF Run
  <2>2. QED BY <1>0, <1>1, <2>1 DEF Desk
<1>4. CASE Dock \/ UNCHANGED vars
  <2>1. world' \in {world, NoWorld} /\ used' = used BY <1>4 DEF Dock, vars
  <2>2. QED BY <1>0, <1>1, <2>1 DEF Desk
<1>5. CASE Shipyard
  <2>1. world' = world /\ used' = used
    BY <1>5 DEF Shipyard, InstallSlotDevice, ReplaceSlotDeviceWithPurchase, StoreSlotDevice,
                SellSlotDevice, InstallSlotDeviceFromInventory, BuyShipTrack
  <2>2. QED BY <1>0, <1>1, <2>1 DEF Desk
<1>6. CASE Port
  <2>1. CASE \E g \in Gates : Jump(g)
    <3>1. world' = world /\ used' = used BY <2>1 DEF Jump, Arrive
    <3>2. QED BY <1>0, <1>1, <3>1 DEF Desk
  <2>2. CASE \E d \in DOMAIN Worlds : Depart(d)
    <3>1. world' \in DOMAIN Worlds /\ used' = used BY <2>2 DEF Depart
    <3>2. QED BY <1>0, <1>1, <3>1 DEF Desk
  <2>3. CASE \E m \in DOMAIN Models : AcquireShip(m)
    <3>1. PICK m \in DOMAIN Models : AcquireShip(m) BY <2>3
    <3>2. world' = world /\ (used' = used \/ used' = (used /\ ShipAcquirePrice(m) = 0))
      BY <3>1 DEF AcquireShip
    <3>3. used' \in BOOLEAN BY <1>0, <3>2, Zenon
    <3>4. QED BY <1>0, <1>1, <3>2, <3>3 DEF Desk
  <2>4. CASE SellCargo \/ InsuranceAdvance
    <3>1. world' = world /\ used' \in BOOLEAN BY <2>4 DEF SellCargo, InsuranceAdvance
    <3>2. QED BY <1>0, <1>1, <3>1 DEF Desk
  <2>5. CASE \/ Refuel \/ Repair \/ CertifyRating
             \/ \E d \in DOMAIN Worlds : BuyDestinationPermit(d)
             \/ \E id \in Owned : SwitchActiveShip(id) \/ \E to \in SystemSet : FerryShip(id, to)
    <3>1. world' = world /\ used' = used
      BY <2>5 DEF Refuel, Repair, CertifyRating, BuyDestinationPermit, SwitchActiveShip, FerryShip
    <3>2. QED BY <1>0, <1>1, <3>1 DEF Desk
  <2>6. QED BY <1>6, <2>1, <2>2, <2>3, <2>4, <2>5 DEF Port
<1>7. QED BY <1>3, <1>4, <1>5, <1>6 DEF Next

\* Money comes from the hold and from the advance.
LEMMA NextProfit ==
  ASSUME LInv, [Next]_vars
  PROVE  \/ credits' + Worth' <= credits + Worth
         \/ hold.value + hold.vouchers > 0 /\ hold'.value + hold'.vouchers = 0
         \/ ~used /\ used'
<1>1. CASE Shipyard BY <1>1, YardRigs DEF Dealt
<1>2. CASE SellCargo BY <1>2 DEF SellCargo
<1>3. CASE InsuranceAdvance BY <1>3 DEF InsuranceAdvance, InsuranceEligible
<1>4. CASE ~Shipyard /\ ~SellCargo /\ ~InsuranceAdvance
  <2>1. /\ Rigs' /\ FleetWorth(ships') <= FleetWorth(ships) /\ stock' = stock
        /\ credits' <= credits /\ credits' \in Nat
    BY <1>4, NextRigs, NextShelf, NextPurse
  <2>2. FleetWorth(ships) \in Nat /\ ShelfWorth(stock) \in Nat /\ credits \in Nat
    BY FleetWorthType, ShelfType DEF LInv, Rigs, Rigged, Shelf, Desk
  <2>3. FleetWorth(ships') \in Nat BY <2>1, FleetWorthType DEF Rigs, Rigged
  <2>4. Worth = ShelfWorth(stock) + FleetWorth(ships) /\ Worth' = ShelfWorth(stock') + FleetWorth(ships')
    BY WorthParts
  <2>5. QED BY <2>1, <2>2, <2>3, <2>4
<1>5. QED BY <1>1, <1>2, <1>3, <1>4

-----------------------------------------------------------------------------
(* The theorems. *)

\* A new pilot's Skiff is empty, and takes what an old save brings.
LEMMA LoadoutInit == Init => LInv
<1> SUFFICES ASSUME Init PROVE LInv
  OBVIOUS
<1> DEFINE id == CatalogID(Starter)
           new == FreshShipInstance(Starter, Home)
           z == [sys \in SystemSet |-> 0]
<1>1. IInv BY InitHolds
<1>2. Starter \in DOMAIN Models BY ContentAssumption DEF ContentAssumption, ShipsValid
<1>3. Rig(new) /\ Legal(new) /\ Named(id, new) BY <1>2, FreshRig DEF Named, FreshShipInstance
<1>4. new.model = Starter /\ Fitted(new, "cargo") = {}
  BY DEF FreshShipInstance, Fitted, Empty
<1>5. ships = [i \in {id} |-> new] /\ active = id BY DEF Init
<1>6. PICK v \in {0, LegacyCargo} : hold = [value |-> v, origins |-> z, vouchers |-> 0] BY DEF Init
<1>7. LegacyCargo \in 0 .. Models[Starter].cargo /\ Models[Starter].cargo \in Nat
  BY <1>2, ContentAssumption DEF ContentAssumption, PilotValid, ShipsValid
<1>8. v \in Nat /\ v <= Models[Starter].cargo BY <1>6, <1>7
<1>9. SumFunctionOnSet(z, SystemSet) = 0 BY SystemsFinite, SumZero
<1>10. DOMAIN z = SystemSet /\ z \in [SystemSet -> Nat] OBVIOUS
<1> HIDE DEF new, z
<1>11. Rigs
  <2>1. IsFiniteSet(DOMAIN ships) BY <1>5, FS_Singleton
  <2>2. QED BY <1>3, <1>5, <2>1 DEF Rigs
<1>12. Shelf
  <2>1. << >> \in Seq(AllDevices \ {Empty}) BY EmptySeq
  <2>2. QED BY <2>1 DEF Init, Shelf
<1>13. SumFunction(z) = 0 BY <1>9, <1>10 DEF SumFunction
<1>14. hold.value = v /\ hold.origins = z /\ hold.vouchers = 0 BY <1>6
<1>15. Stowed BY <1>6, <1>8, <1>10, <1>13, <1>14 DEF Stowed
<1>16. CargoFits
  <2> DEFINE c == [x \in Fitted(new, "cargo") |-> CargoPerGrade * (new.slots[x].grade + 1)]
  <2>1. DOMAIN c = {} BY <1>4
  <2>2. CargoCapacityUnits(new) = Models[Starter].cargo + SumFunction(c)
    BY <1>4 DEF CargoCapacityUnits
  <2> HIDE DEF c
  <2>3. SumFunction(c) = 0 BY <2>1, SumEmpty DEF SumFunction
  <2>4. ships[active] = new BY <1>5
  <2>5. hold.value <= CargoCapacityUnits(new) BY <1>7, <1>8, <1>14, <2>2, <2>3
  <2>6. QED BY <2>4, <2>5 DEF CargoFits
<1>17. Desk BY ContentAssumption DEF Init, Desk, ContentAssumption, PilotValid
<1>18. QED BY <1>1, <1>11, <1>12, <1>15, <1>16, <1>17 DEF LInv

\* Every step keeps the invariant, and accounts for the cargo.
LEMMA LoadoutNext == LInv /\ [Next]_vars => LInv' /\ Accounted
<1> SUFFICES ASSUME LInv, [Next]_vars PROVE LInv' /\ Accounted
  OBVIOUS
<1>1. IInv' BY NextKeeps DEF LInv
<1>2. Rigs' /\ CargoFits' BY NextRigs
<1>3. Stowed' /\ Accounted BY NextHold
<1>4. Shelf' BY NextShelf
<1>5. Desk' BY NextDesk
<1>6. QED BY <1>1, <1>2, <1>3, <1>4, <1>5 DEF LInv

\* The invariant gives what the runs check.
LEMMA LoadoutGives == LInv => TypeOK /\ CargoFits /\ LoadoutsAreLegal
<1> SUFFICES ASSUME LInv PROVE TypeOK /\ CargoFits /\ LoadoutsAreLegal
  OBVIOUS
<1>1. CargoFits BY DEF LInv
<1>2. LoadoutsAreLegal BY DEF LInv, Rigs, Legal, LoadoutsAreLegal, Owned
<1>3. active \in Owned /\ at \in SystemSet /\ world \in DOMAIN Worlds \cup {NoWorld}
      /\ credits \in Nat /\ used \in BOOLEAN
  BY DEF LInv, IInv, Desk, Papers, Places, ActiveIsHere, LocalShips
<1>4. hold.value \in Nat /\ hold.vouchers \in Nat /\ hold.origins \in [SystemSet -> Nat]
  BY DEF LInv, Stowed
<1>5. \A i \in DOMAIN stock : DeviceOK(stock[i]) /\ stock[i] # Empty
  BY DEF LInv, Shelf, AllDevices
<1>6. ASSUME NEW id \in Owned
      PROVE  LET inst == ships[id] IN
             /\ id = CatalogID(inst.model) \/ id \in {RescueID(s, n) : s \in SystemSet, n \in 1 .. MaxSkiffs}
             /\ inst.hull \in 0 .. MaxHull(inst) /\ inst.fuel \in 0 .. StartFuel
             /\ \A x \in DOMAIN inst.slots : DeviceOK(inst.slots[x])
  <2> DEFINE r == ships[id]
  <2>1. Sound(r) /\ Rig(r) /\ Named(id, r) BY DEF Owned, LInv, Rigs, IInv, Hangar
  <2>2. r.hull \in Nat /\ r.hull <= MaxHull(r) /\ MaxHull(r) \in Nat
    BY <2>1, MaxHullIsSound DEF Sound, Rig
  <2>3. r.hull \in 0 .. MaxHull(r) BY <2>2
  <2>4. \A x \in DOMAIN r.slots : DeviceOK(r.slots[x]) BY <2>1, RigShape DEF AllDevices
  <2>5. QED BY <2>1, <2>3, <2>4 DEF Named, Rig
<1>7. TypeOK BY <1>3, <1>4, <1>5, <1>6 DEF TypeOK
<1>8. QED BY <1>1, <1>2, <1>7

\* Types and ranges hold for every catalogue: no tank or hull is over full,
\* no purchase leaves a debt, every device is one the catalogue sells.
THEOREM FleetTyped == Spec => []TypeOK
<1>1. Init => LInv BY LoadoutInit
<1>2. LInv /\ [Next]_vars => LInv' BY LoadoutNext
<1>3. LInv => TypeOK BY LoadoutGives
<1>4. QED BY <1>1, <1>2, <1>3, PTL DEF Spec

\* The hold of the hull that is flown always takes the cargo: no sale,
\* storing, replacement or boarding strands it (slots.go
\* validateDeviceRemovalCargo, ships.go SwitchActiveShip).
THEOREM CargoAlwaysFits == Spec => []CargoFits
<1>1. Init => LInv BY LoadoutInit
<1>2. LInv /\ [Next]_vars => LInv' BY LoadoutNext
<1>3. LInv => CargoFits BY LoadoutGives
<1>4. QED BY <1>1, <1>2, <1>3, PTL DEF Spec

\* No hull's devices draw more than its generator gives, none has two of a
\* unique device, and every device is in a slot of its kind on a model that may
\* carry it, in whatever order they were fitted (slots.go).
THEOREM LoadoutsStayLegal == Spec => []LoadoutsAreLegal
<1>1. Init => LInv BY LoadoutInit
<1>2. LInv /\ [Next]_vars => LInv' BY LoadoutNext
<1>3. LInv => LoadoutsAreLegal BY LoadoutGives
<1>4. QED BY <1>1, <1>2, <1>3, PTL DEF Spec

\* The origins add up to the cargo but for an old save's, whatever the
\* tributes and however they are rounded (belt.go reduceCargoOrigins).
THEOREM CargoKeepsItsOrigins == Spec => OriginsAccounted
<1>1. Init => LInv BY LoadoutInit
<1>2. LInv /\ [Next]_vars => LInv' BY LoadoutNext
<1>3. LInv /\ [Next]_vars => [0 <= Unplaced' /\ Unplaced' <= Unplaced]_vars
  BY LoadoutNext DEF Accounted
<1>4. QED BY <1>1, <1>2, <1>3, PTL DEF Spec, OriginsAccounted

\* No order of buying, exchanging, storing, re-installing, selling, boarding
\* and losing makes money: credits and what all add-ons would sell for rise
\* together only by a cargo sale or the salvage advance, at any prices and
\* any grades (slots.go, ships.go).
THEOREM YardNeverPays == Spec => NoShipyardProfit
<1>1. Init => LInv BY LoadoutInit
<1>2. LInv /\ [Next]_vars => LInv' BY LoadoutNext
<1>3. LInv /\ [Next]_vars =>
        [ \/ credits' + Worth' <= credits + Worth
          \/ hold.value + hold.vouchers > 0 /\ hold'.value + hold'.vouchers = 0
          \/ ~used /\ used' ]_vars
  BY NextProfit
<1>4. QED BY <1>1, <1>2, <1>3, PTL DEF Spec, NoShipyardProfit
=============================================================================
