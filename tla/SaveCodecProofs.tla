-------------------------- MODULE SaveCodecProofs --------------------------
(***************************************************************************)
(* What a load gives a pilot, for any catalogue, any hulls with any        *)
(* devices in them and any rows a release could have written: a save that  *)
(* is complete, worth exactly what the row was, and, written and read back *)
(* at any time, the same.                                                  *)
(*                                                                         *)
(* The proof goes from a device to a list of slots, a hull and a save: for *)
(* each of the codec's steps, what it makes sure of and what it keeps of   *)
(* the things a later step, or a property, depends on.                     *)
(***************************************************************************)
EXTENDS SaveCodec, Sums, TLAPS

LEMMA NoneIsNoDevice == None \notin [item : STRING, fuel : Nat, load : Nat]
  BY RowsAssumption DEF Devices

LEMMA Numbers == StartFuel \in Nat /\ MaxHull \in Nat /\ TankSize \in Nat /\ Refund \in Nat
  BY CodecAssumption

-----------------------------------------------------------------------------
(* A list of slots. *)

AddonsAt(list) == {i \in DOMAIN list : list[i] # None /\ list[i].item # "jump_drive"}

\* A list m that a step makes of the list l: the same add-ons lie in the
\* same slots, and no retired device comes back.
From(l, m) ==
    /\ m \in Slots /\ Len(m) = Len(l) /\ AddonsAt(m) = AddonsAt(l)
    /\ \A x \in Retired : Lacks(l, {x}) => Lacks(m, {x})

SameTanks(l, m) == Tanks(m) = Tanks(l) /\ \A i \in Tanks(l) : m[i].fuel = l[i].fuel
SameLoads(l, m) == \A i \in DOMAIN l : l[i] # None => m[i].item = l[i].item /\ m[i].load = l[i].load

FuelFits(list) == \A i \in Tanks(list) : list[i].fuel \in 0 .. TankSize
LoadFits(list) ==
    \A i \in DOMAIN list : Is(list[i], "missile_launcher") => list[i].load \in 0 .. MissileCapacity

\* A list made slot by slot.
LEMMA SlotBySlot ==
  ASSUME NEW l \in Slots, NEW m, m = [i \in DOMAIN l |-> m[i]],
         \A i \in DOMAIN l : m[i] \in Devices \cup {None}
  PROVE  m \in Slots /\ Len(m) = Len(l) /\ DOMAIN m = DOMAIN l
  BY DEF Slots

LEMMA ShelfBySlot ==
  ASSUME NEW l \in Seq(Devices), NEW m, m = [i \in DOMAIN l |-> m[i]],
         \A i \in DOMAIN l : m[i] \in Devices
  PROVE  m \in Seq(Devices)
  OBVIOUS

\* Taking the drives out.
LEMMA NoDriveList ==
  ASSUME NEW l \in Slots
  PROVE  /\ From(l, NoDrive(l)) /\ SameTanks(l, NoDrive(l))
         /\ Lacks(NoDrive(l), {"jump_drive"})
<1> DEFINE m == NoDrive(l)
<1>1. m \in Slots /\ Len(m) = Len(l) /\ DOMAIN m = DOMAIN l
  BY SlotBySlot DEF NoDrive, Slots
<1>2. \A i \in DOMAIN l : m[i] = IF i \in Drives(l) THEN None ELSE l[i] BY DEF NoDrive
<1> HIDE DEF m
<1>3. AddonsAt(m) = AddonsAt(l) BY <1>1, <1>2 DEF AddonsAt, Drives, Is
<1>4. \A x \in Retired : Lacks(l, {x}) => Lacks(m, {x}) BY <1>1, <1>2 DEF Lacks
<1>5. Lacks(m, {"jump_drive"}) BY <1>1, <1>2 DEF Lacks, Drives, Is
<1>6. Tanks(m) = Tanks(l) BY <1>1, <1>2 DEF Tanks, Drives, Is
<1>7. \A i \in Tanks(l) : m[i].fuel = l[i].fuel BY <1>2 DEF Tanks, Drives, Is
<1>8. QED BY <1>1, <1>3, <1>4, <1>5, <1>6, <1>7 DEF From, SameTanks, m

Rename(d, old, new) == IF d.item = old THEN [d EXCEPT !.item = new, !.load = 1] ELSE d
RenamedList(list, old, new) == Each(LAMBDA d : Rename(d, old, new), list)

\* Renaming a device that is neither a tank nor a drive.
LEMMA RenamedOne ==
  ASSUME NEW d \in Devices, NEW old \in STRING, NEW new \in STRING
  PROVE  LET e == Rename(d, old, new) IN
         /\ e \in Devices /\ e.fuel = d.fuel
         /\ e.item = IF d.item = old THEN new ELSE d.item
         /\ e.load = IF d.item = old THEN 1 ELSE d.load
  BY DEF Devices, Rename

LEMMA RenamedLists ==
  ASSUME NEW l \in Slots, NEW old \in STRING \ {"fuel_tank", "jump_drive"},
         NEW new \in STRING \ ({"fuel_tank", old} \cup Retired)
  PROVE  LET m == RenamedList(l, old, new) IN
         /\ From(l, m) /\ SameTanks(l, m) /\ Lacks(m, {old})
         /\ \A i \in DOMAIN l : l[i] # None =>
               /\ m[i].item = IF l[i].item = old THEN new ELSE l[i].item
               /\ m[i].load = IF l[i].item = old THEN 1 ELSE l[i].load
<1> DEFINE m == RenamedList(l, old, new)
<1>1. \A i \in DOMAIN l : m[i] = IF l[i] = None THEN None ELSE Rename(l[i], old, new)
  BY DEF RenamedList, Each
<1>2. \A i \in DOMAIN l : l[i] \in Devices \cup {None} BY DEF Slots
<1>3. \A i \in DOMAIN l : l[i] # None =>
        /\ m[i] \in Devices /\ m[i].fuel = l[i].fuel
        /\ m[i].item = IF l[i].item = old THEN new ELSE l[i].item
        /\ m[i].load = IF l[i].item = old THEN 1 ELSE l[i].load
  BY <1>1, <1>2, RenamedOne
<1>4. m = [i \in DOMAIN l |-> m[i]] BY DEF RenamedList, Each
<1> HIDE DEF m
<1>5. \A i \in DOMAIN l : l[i] = None => m[i] = None BY <1>1
<1>6. m \in Slots /\ Len(m) = Len(l) /\ DOMAIN m = DOMAIN l BY <1>3, <1>4, <1>5, SlotBySlot
<1>7. \A i \in DOMAIN l : l[i] # None => m[i] # None BY <1>3, NoneIsNoDevice DEF Devices
<1>8. AddonsAt(m) = AddonsAt(l) BY <1>3, <1>5, <1>6, <1>7 DEF AddonsAt, Retired
<1>9. \A x \in Retired : Lacks(l, {x}) => Lacks(m, {x}) BY <1>3, <1>5, <1>6 DEF Lacks
<1>10. Lacks(m, {old}) BY <1>3, <1>5, <1>6 DEF Lacks
<1>11. Tanks(m) = Tanks(l) BY <1>3, <1>5, <1>6, <1>7 DEF Tanks, Is
<1>12. \A i \in Tanks(l) : m[i].fuel = l[i].fuel BY <1>3 DEF Tanks, Is
<1>13. QED BY <1>3, <1>6, <1>8, <1>9, <1>10, <1>11, <1>12 DEF From, SameTanks, m

\* A step that changes what devices hold, and no device for another.
LEMMA SameItems ==
  ASSUME NEW l \in Slots, NEW m, m = [i \in DOMAIN l |-> m[i]],
         \A i \in DOMAIN l : l[i] = None => m[i] = None,
         \A i \in DOMAIN l : l[i] # None => m[i] \in Devices /\ m[i].item = l[i].item
  PROVE  From(l, m) /\ Tanks(m) = Tanks(l) /\ DOMAIN m = DOMAIN l
<1>1. m \in Slots /\ Len(m) = Len(l) /\ DOMAIN m = DOMAIN l BY SlotBySlot
<1>2. \A i \in DOMAIN l : l[i] # None => m[i] # None BY NoneIsNoDevice DEF Devices
<1>3. AddonsAt(m) = AddonsAt(l) BY <1>1, <1>2 DEF AddonsAt
<1>4. \A x \in Retired : Lacks(l, {x}) => Lacks(m, {x}) BY <1>1 DEF Lacks
<1>5. Tanks(m) = Tanks(l) BY <1>1, <1>2 DEF Tanks, Is
<1>6. QED BY <1>1, <1>3, <1>4, <1>5 DEF From

LEMMA ClampInside ==
  /\ \A v \in Int, hi \in Nat : Clamp(v, hi) \in 0 .. hi /\ Clamp(v, hi) \in Nat
  /\ \A hi \in Nat : \A v \in 0 .. hi : Clamp(v, hi) = v
<1>1. \A v \in Int, hi \in Nat : Clamp(v, hi) \in 0 .. hi /\ Clamp(v, hi) \in Nat
  BY DEF Clamp, Least
<1>2. \A hi \in Nat : \A v \in 0 .. hi : Clamp(v, hi) = v BY DEF Clamp, Least
<1>3. QED BY <1>1, <1>2

MissilesClamped(list) == Missiles(list, LAMBDA n : Clamp(n, MissileCapacity))
MissilesFull(list) == Missiles(list, LAMBDA n : MissileCapacity)

\* Loading the launchers, or bringing their loads within their capacity.
LEMMA MissileLists ==
  ASSUME NEW l \in Slots, NEW m, m \in {MissilesClamped(l), MissilesFull(l)}
  PROVE  From(l, m) /\ SameTanks(l, m) /\ LoadFits(m)
<1> DEFINE load(i) == IF m = MissilesFull(l) THEN MissileCapacity
                      ELSE Clamp(l[i].load, MissileCapacity)
<1>1. \A i \in DOMAIN l : m[i] = IF l[i] = None THEN None
                                ELSE IF l[i].item = "missile_launcher"
                                THEN [l[i] EXCEPT !.load = load(i)] ELSE l[i]
  <2>1. CASE m = MissilesFull(l) BY <2>1 DEF MissilesFull, Missiles, Each
  <2>2. CASE m # MissilesFull(l) BY <2>2 DEF MissilesClamped, Missiles, Each
  <2>3. QED BY <2>1, <2>2
<1>2. m = [i \in DOMAIN l |-> m[i]]
  <2>1. CASE m = MissilesFull(l) BY <2>1 DEF MissilesFull, Missiles, Each
  <2>2. CASE m = MissilesClamped(l) BY <2>2 DEF MissilesClamped, Missiles, Each
  <2>3. QED BY <2>1, <2>2
<1>3. \A i \in DOMAIN l : l[i] \in Devices \cup {None} BY DEF Slots
<1>4. MissileCapacity \in Nat BY DEF MissileCapacity
<1>5. \A i \in DOMAIN l : l[i] # None => load(i) \in 0 .. MissileCapacity /\ load(i) \in Nat
  <2>1. MissileCapacity \in 0 .. MissileCapacity BY <1>4
  <2>2. ASSUME NEW i \in DOMAIN l, l[i] # None
        PROVE  Clamp(l[i].load, MissileCapacity) \in 0 .. MissileCapacity
    <3>1. l[i].load \in Int BY <1>3, <2>2 DEF Devices
    <3>2. QED BY <1>4, <3>1, ClampInside
  <2>3. \A i \in DOMAIN l : l[i] # None => load(i) \in 0 .. MissileCapacity BY <2>1, <2>2
  <2> HIDE DEF load
  <2>4. QED BY <1>4, <2>3
<1> HIDE DEF load
<1>6. \A i \in DOMAIN l : l[i] # None =>
        /\ m[i] \in Devices /\ m[i].item = l[i].item /\ m[i].fuel = l[i].fuel
        /\ m[i].item = "missile_launcher" => m[i].load \in 0 .. MissileCapacity
  BY <1>1, <1>3, <1>5 DEF Devices
<1>7. \A i \in DOMAIN l : l[i] = None => m[i] = None BY <1>1
<1>8. From(l, m) /\ Tanks(m) = Tanks(l) /\ DOMAIN m = DOMAIN l BY <1>2, <1>6, <1>7, SameItems
<1>9. SameTanks(l, m) BY <1>6, <1>8 DEF SameTanks, Tanks, Is
<1>10. LoadFits(m) BY <1>6, <1>7, <1>8 DEF LoadFits, Is
<1>11. QED BY <1>8, <1>9, <1>10

\* Launchers whose loads are within their capacity stay as they are.
LEMMA MissilesStay ==
  ASSUME NEW l \in Slots, LoadFits(l) PROVE MissilesClamped(l) = l
<1>1. \A i \in DOMAIN l : l[i] \in Devices \cup {None} BY DEF Slots
<1>2. ASSUME NEW i \in DOMAIN l, l[i] # None, l[i].item = "missile_launcher"
      PROVE  [l[i] EXCEPT !.load = Clamp(l[i].load, MissileCapacity)] = l[i]
  <2>1. Clamp(l[i].load, MissileCapacity) = l[i].load
    BY <1>2, ClampInside DEF LoadFits, Is, MissileCapacity
  <2>2. QED BY <1>1, <1>2, <2>1 DEF Devices
<1>3. \A i \in DOMAIN l : MissilesClamped(l)[i] = l[i] BY <1>2 DEF MissilesClamped, Missiles, Each
<1>4. MissilesClamped(l) = [i \in DOMAIN l |-> MissilesClamped(l)[i]]
  BY DEF MissilesClamped, Missiles, Each
<1>5. l = [i \in DOMAIN l |-> l[i]] BY DEF Slots
<1>6. QED BY <1>3, <1>4, <1>5

SoundTanks(list) ==
    Each(LAMBDA d : IF d.item = "fuel_tank" THEN [d EXCEPT !.fuel = Clamp(@, TankSize)] ELSE d, list)

\* Fuel within its limits stays as it is.
LEMMA TanksStay ==
  ASSUME NEW l \in Slots, FuelFits(l) PROVE SoundTanks(l) = l
<1>1. \A i \in DOMAIN l : l[i] \in Devices \cup {None} BY DEF Slots
<1>2. ASSUME NEW i \in DOMAIN l, l[i] # None, l[i].item = "fuel_tank"
      PROVE  [l[i] EXCEPT !.fuel = Clamp(l[i].fuel, TankSize)] = l[i]
  <2>1. Clamp(l[i].fuel, TankSize) = l[i].fuel
    BY <1>2, ClampInside, Numbers DEF FuelFits, Tanks, Is
  <2>2. QED BY <1>1, <1>2, <2>1 DEF Devices
<1>3. \A i \in DOMAIN l : SoundTanks(l)[i] = l[i] BY <1>2 DEF SoundTanks, Each
<1>4. SoundTanks(l) = [i \in DOMAIN l |-> SoundTanks(l)[i]] BY DEF SoundTanks, Each
<1>5. l = [i \in DOMAIN l |-> l[i]] BY DEF Slots
<1>6. QED BY <1>3, <1>4, <1>5

-----------------------------------------------------------------------------
(* A hull's fuel. *)

LEMMA TanksFinite ==
  ASSUME NEW l \in Slots
  PROVE  /\ Tanks(l) \subseteq 1 .. Len(l) /\ Len(l) \in Nat /\ IsFiniteSet(Tanks(l))
         /\ Cardinality(Tanks(l)) \in Nat
<1>1. Len(l) \in Nat /\ DOMAIN l = 1 .. Len(l) BY DEF Slots
<1>2. Tanks(l) \subseteq 1 .. Len(l) BY <1>1 DEF Tanks
<1>3. IsFiniteSet(1 .. Len(l)) BY <1>1, FS_Interval
<1>4. QED BY <1>1, <1>2, <1>3, FS_Subset, FS_CardinalityType

LEMMA LeastStep ==
  ASSUME NEW total \in Nat, NEW p \in Nat, NEW t \in Nat
  PROVE  Clamp(total - p, t) + Least(total, p) = Least(total, p + t)
  BY DEF Clamp, Least

\* What tanks of one size take, each what the ones before it leave.
LEMMA SharesAddUp ==
  ASSUME NEW n \in Nat, NEW S \in SUBSET (1 .. n), NEW total \in Nat, NEW f,
         \A i \in S : f[i] = Clamp(total - TankSize * Cardinality({j \in S : j < i}), TankSize)
  PROVE  SumFunctionOnSet(f, S) = Least(total, TankSize * Cardinality(S))
<1> DEFINE Upto(k) == {j \in S : j <= k}
           Sm(k) == SumFunctionOnSet(f, Upto(k))
           held(k) == TankSize * Cardinality(Upto(k))
           bad == {k \in Nat : Sm(k) # Least(total, held(k))}
<1>0. \A j \in S : j \in Nat /\ 0 < j /\ j <= n OBVIOUS
<1>1. IsFiniteSet(S)
  <2>1. IsFiniteSet(1 .. n) BY FS_Interval
  <2>2. QED BY <2>1, FS_Subset
<1>2. \A k \in Nat : IsFiniteSet(Upto(k)) /\ Cardinality(Upto(k)) \in Nat
  BY <1>1, FS_Subset, FS_CardinalityType
<1>3. TankSize \in Nat BY Numbers
<1>4. \A c \in Nat : TankSize * c \in Nat BY <1>3
<1>5. ASSUME NEW k \in Nat PROVE held(k) \in Nat
  <2> DEFINE c == Cardinality(Upto(k))
  <2>1. c \in Nat BY <1>2
  <2> HIDE DEF c
  <2>2. TankSize * c \in Nat BY <1>4, <2>1
  <2>3. QED BY <2>2 DEF c
<1>6. \A i \in S : f[i] \in Int
  <2> SUFFICES ASSUME NEW i \in S PROVE f[i] \in Int
    OBVIOUS
  <2> DEFINE c == Cardinality({j \in S : j < i})
  <2>1. c \in Nat BY <1>1, FS_Subset, FS_CardinalityType
  <2>2. f[i] = Clamp(total - TankSize * c, TankSize) OBVIOUS
  <2> HIDE DEF c
  <2>3. TankSize * c \in Nat BY <1>4, <2>1
  <2>4. QED BY <1>3, <2>2, <2>3 DEF Clamp, Least
<1>7. ASSUME NEW k \in bad, \A m \in bad : k <= m PROVE FALSE
  <2>1. CASE k = 0
    <3>0. \A j \in S : ~(j <= k) BY <2>1, <1>0
    <3>1. Upto(k) = {} BY <3>0
    <3>2. Sm(k) = 0 BY <3>1, SumEmpty
    <3>3. held(k) = 0
      <4>1. Cardinality(Upto(k)) = 0 BY <3>1, FS_EmptySet
      <4>2. QED BY <4>1, <1>3
    <3>4. QED BY <1>7, <3>2, <3>3 DEF Least
  <2>2. CASE k # 0
    <3> DEFINE b == k - 1
    <3>0. k \in Nat BY <1>7
    <3>1. b \in Nat /\ ~(k <= b) /\ k = b + 1 BY <2>2, <3>0
    <3>2. \A j \in S : (j <= k <=> j <= b \/ j = k) /\ (j < k <=> j <= b) BY <1>0, <3>1
    <3> HIDE DEF b
    <3>3. Sm(b) = Least(total, held(b)) BY <3>1, <1>7
    <3>4. CASE k \notin S
      <4>1. Upto(k) = Upto(b) BY <3>4, <3>2
      <4>2. QED BY <3>3, <4>1, <1>7
    <3>5. CASE k \in S
      <4>1. {j \in S : j < k} = Upto(b) BY <3>2
      <4>2. Upto(k) = Upto(b) \cup {k} /\ k \notin Upto(b) /\ Upto(k) \ {k} = Upto(b) BY <3>1, <3>5, <3>2
      <4>3. f[k] = Clamp(total - held(b), TankSize) BY <3>5, <4>1
      <4>4. Sm(k) = f[k] + Sm(b)
        <5> DEFINE U == Upto(k)
        <5>1. IsFiniteSet(U) BY <1>2, <3>0
        <5>2. \A x \in U : f[x] \in Int BY <1>6
        <5>3. k \in U BY <4>2
        <5>4. SumFunctionOnSet(f, U) = f[k] + SumFunctionOnSet(f, U \ {k})
          <6> HIDE DEF U, bad
          <6>1. QED BY <5>1, <5>2, <5>3, SumTake
        <5>5. QED BY <5>4, <4>2
      <4>5. held(k) = held(b) + TankSize
        <5> DEFINE c == Cardinality(Upto(b))
                   d == Cardinality(Upto(k))
        <5>1. d = c + 1 /\ c \in Nat BY <4>2, <3>1, <1>2, FS_AddElement
        <5> HIDE DEF c, d
        <5>2. TankSize * d = TankSize * c + TankSize BY <5>1, <1>3
        <5>3. QED BY <5>2 DEF c, d
      <4>6. held(b) \in Nat BY <1>5, <3>1
      <4> HIDE DEF Sm, held
      <4>7. Sm(k) = Least(total, held(k)) BY <1>3, <3>3, <4>3, <4>4, <4>5, <4>6, LeastStep
      <4>8. QED BY <4>7, <1>7
    <3>6. QED BY <3>4, <3>5
  <2>3. QED BY <2>1, <2>2
<1>8. bad = {}
  <2>1. bad \subseteq Nat OBVIOUS
  <2> HIDE DEF bad
  <2>2. QED BY <1>7, <2>1, SmallestNumber
<1>9. Upto(n) = S BY <1>0
<1>10. n \notin bad BY <1>8
<1>11. QED BY <1>9, <1>10

FuelTerms(list) == [i \in Tanks(list) |-> Clamp(list[i].fuel, TankSize)]

\* What a hull holds and what it can hold.
LEMMA FuelNumbers ==
  ASSUME NEW h \in Hulls
  PROVE  /\ FuelAmount(h) \in Nat /\ FuelCapacity(h) \in Nat
         /\ TankSize * Cardinality(Tanks(h.slots)) \in Nat
<1> DEFINE T == Tanks(h.slots)
           f == FuelTerms(h.slots)
<1>1. h.slots \in Slots /\ h.base \in Nat BY DEF Hulls
<1>2. IsFiniteSet(T) /\ Cardinality(T) \in Nat BY <1>1, TanksFinite
<1>3. DOMAIN f = T BY DEF FuelTerms
<1>4. \A x \in T : f[x] \in Nat
  <2>1. \A x \in T : h.slots[x].fuel \in Int BY <1>1, NoneIsNoDevice DEF Tanks, Is, Slots, Devices
  <2>2. \A x \in T : f[x] = Clamp(h.slots[x].fuel, TankSize) BY DEF FuelTerms
  <2>3. QED BY <2>1, <2>2, Numbers, ClampInside
<1>5. SumFunction(f) \in Nat BY <1>2, <1>3, <1>4, SumFunctionType
<1>6. Clamp(h.base, StartFuel) \in Nat BY <1>1, Numbers, ClampInside
<1>7. FuelAmount(h) \in Nat BY <1>5, <1>6 DEF FuelAmount, FuelTerms
<1>8. TankSize * Cardinality(T) \in Nat
  <2> DEFINE c == Cardinality(T)
  <2>1. c \in Nat BY <1>2
  <2> HIDE DEF c
  <2>2. TankSize * c \in Nat BY <2>1, Numbers
  <2>3. QED BY <2>2 DEF c
<1>9. QED BY <1>7, <1>8, Numbers DEF FuelCapacity

\* The same tanks with the same fuel: the same amount, the same capacity.
LEMMA SameFuel ==
  ASSUME NEW h \in Hulls, NEW g \in Hulls, g.base = h.base, SameTanks(h.slots, g.slots)
  PROVE  FuelAmount(g) = FuelAmount(h) /\ FuelCapacity(g) = FuelCapacity(h)
<1>1. Tanks(g.slots) = Tanks(h.slots) BY DEF SameTanks
<1>2. FuelTerms(g.slots) = FuelTerms(h.slots) BY <1>1 DEF FuelTerms, SameTanks
<1>3. QED BY <1>1, <1>2 DEF FuelAmount, FuelCapacity, FuelTerms

\* Tanks in slot order, then the reserve: the fuel asked for, as far as it
\* goes, every tank and the reserve within its limits, and nothing else.
LEMMA FuelSet ==
  ASSUME NEW h \in Hulls, NEW amount \in Nat
  PROVE  LET g == SetFuelAmount(h, amount) IN
         /\ g \in Hulls
         /\ g.model = h.model /\ g.sys = h.sys /\ g.hull = h.hull /\ g.shield = h.shield
         /\ g.internal = h.internal
         /\ From(h.slots, g.slots) /\ SameLoads(h.slots, g.slots) /\ FuelFits(g.slots)
         /\ Tanks(g.slots) = Tanks(h.slots) /\ g.base \in 0 .. StartFuel
         /\ FuelCapacity(g) = FuelCapacity(h)
         /\ FuelAmount(g) = Least(amount, FuelCapacity(h))
<1> DEFINE l == h.slots
           T == Tanks(l)
           n == Len(l)
           total == Clamp(amount, FuelCapacity(h))
           share(i) == Clamp(total - TankSize * Cardinality({j \in T : j < i}), TankSize)
           m == [i \in DOMAIN l |-> IF i \in T THEN [l[i] EXCEPT !.fuel = share(i)] ELSE l[i]]
           base == Clamp(total - TankSize * Cardinality(T), StartFuel)
           g == SetFuelAmount(h, amount)
<1>1. g = [h EXCEPT !.slots = m, !.base = base] BY DEF SetFuelAmount
<1>2. l \in Slots /\ h.base \in Nat BY DEF Hulls
<1>3. T \subseteq 1 .. n /\ n \in Nat /\ IsFiniteSet(T) /\ Cardinality(T) \in Nat
  BY <1>2, TanksFinite
<1>4. FuelCapacity(h) = StartFuel + TankSize * Cardinality(T) /\ TankSize * Cardinality(T) \in Nat
  BY FuelNumbers DEF FuelCapacity
<1>5. total = Least(amount, FuelCapacity(h)) /\ total \in Nat /\ total <= FuelCapacity(h)
  BY FuelNumbers DEF Clamp, Least
<1>6. \A i \in T : share(i) \in 0 .. TankSize /\ share(i) \in Nat
  <2> SUFFICES ASSUME NEW i \in T PROVE share(i) \in 0 .. TankSize /\ share(i) \in Nat
    OBVIOUS
  <2> DEFINE c == Cardinality({j \in T : j < i})
  <2>1. c \in Nat BY <1>3, FS_Subset, FS_CardinalityType
  <2>2. share(i) = Clamp(total - TankSize * c, TankSize) OBVIOUS
  <2> HIDE DEF c, total, share
  <2>3. TankSize * c \in Nat BY <2>1, Numbers
  <2>4. QED BY <1>5, <2>2, <2>3, Numbers, ClampInside
<1>7. base \in 0 .. StartFuel /\ base \in Nat /\ base = total - Least(total, TankSize * Cardinality(T))
  <2> DEFINE p == TankSize * Cardinality(T)
  <2>1. p \in Nat /\ total <= StartFuel + p BY <1>4, <1>5
  <2> HIDE DEF total, p
  <2>2. total - p \in Int /\ StartFuel \in Nat BY <2>1, <1>5, Numbers
  <2>3. Clamp(total - p, StartFuel) \in 0 .. StartFuel BY ONLY <2>2, ClampInside
  <2>4. Clamp(total - p, StartFuel) = total - Least(total, p)
    BY <2>1, <1>5, Numbers DEF Clamp, Least
  <2>5. QED BY <2>3, <2>4, Numbers DEF p
<1> HIDE DEF total, share, base
<1>8. \A i \in T : i \in DOMAIN l /\ l[i] # None /\ l[i] \in Devices
  BY <1>2 DEF Tanks, Is, Slots
<1>9. \A i \in DOMAIN l : m[i] = IF i \in T THEN [l[i] EXCEPT !.fuel = share(i)] ELSE l[i]
  OBVIOUS
<1>10. m = [i \in DOMAIN l |-> m[i]] OBVIOUS
<1> HIDE DEF m, T
<1>11. \A i \in T : m[i] \in Devices /\ m[i].item = l[i].item /\ m[i].load = l[i].load /\ m[i].fuel = share(i)
  BY <1>6, <1>8, <1>9 DEF Devices
<1>12. \A i \in DOMAIN l : l[i] \in Devices \cup {None} BY <1>2 DEF Slots
<1>13. \A i \in DOMAIN l : l[i] = None => m[i] = None BY <1>8, <1>9
<1>14. \A i \in DOMAIN l : l[i] # None =>
         m[i] \in Devices /\ m[i].item = l[i].item /\ m[i].load = l[i].load
  BY <1>9, <1>11, <1>12
<1>15. From(l, m) /\ Tanks(m) = T /\ DOMAIN m = DOMAIN l
  BY <1>2, <1>10, <1>13, <1>14, SameItems DEF T
<1>16. SameLoads(l, m) BY <1>14 DEF SameLoads
<1>17. FuelFits(m) BY <1>6, <1>11, <1>15 DEF FuelFits
<1>18. g \in Hulls /\ g.slots = m /\ g.base = base
       /\ g.model = h.model /\ g.sys = h.sys /\ g.hull = h.hull /\ g.shield = h.shield
       /\ g.internal = h.internal
  <2>1. m \in Slots BY <1>15 DEF From
  <2> HIDE DEF g
  <2>2. QED BY <1>1, <1>7, <2>1 DEF Hulls
<1> HIDE DEF g
<1>19. FuelCapacity(g) = FuelCapacity(h) BY <1>15, <1>18 DEF FuelCapacity, T
<1>20. FuelAmount(g) = total
  <2> DEFINE f == FuelTerms(m)
  <2>0. \A i \in T : Clamp(m[i].fuel, TankSize) = share(i) BY <1>6, <1>11, Numbers, ClampInside
  <2>1. DOMAIN f = T /\ \A i \in T : f[i] = share(i) BY <2>0, <1>15 DEF FuelTerms
  <2>2. Clamp(base, StartFuel) = base BY <1>7, Numbers, ClampInside
  <2>3. \A i \in T : f[i] = Clamp(total - TankSize * Cardinality({j \in T : j < i}), TankSize)
    BY <2>1 DEF share
  <2>4. FuelAmount(g) = base + SumFunctionOnSet(f, T)
    BY <1>18, <2>1, <2>2 DEF FuelAmount, FuelTerms, SumFunction
  <2> HIDE DEF f
  <2>5. SumFunctionOnSet(f, T) = Least(total, TankSize * Cardinality(T))
    BY <1>3, <1>5, <2>3, SharesAddUp
  <2>6. QED BY <1>4, <1>5, <1>7, <2>4, <2>5 DEF Least
<1>21. QED BY <1>5, <1>7, <1>15, <1>16, <1>17, <1>18, <1>19, <1>20 DEF g, T

-----------------------------------------------------------------------------
(* A hull. *)

HullFrom(h, g) ==
    g \in Hulls /\ g.model = h.model /\ From(h.slots, g.slots) /\ From(h.internal, g.internal)

\* A step that leaves the condition alone.
SameCondition(h, g) == g.hull = h.hull /\ g.base = h.base /\ SameTanks(h.slots, g.slots)

Sound(h) == h.hull \in 0 .. MaxHull /\ h.base \in 0 .. StartFuel /\ FuelFits(h.slots)
HullLacks(h, items) == Lacks(h.slots, items) /\ Lacks(h.internal, items)

LEMMA FromItself == ASSUME NEW l \in Slots PROVE From(l, l) /\ SameTanks(l, l)
  BY DEF From, SameTanks

LEMMA FromFrom ==
  ASSUME NEW l, NEW m, NEW k, From(l, m), From(m, k) PROVE From(l, k)
  BY DEF From

LEMMA HullFromItself == ASSUME NEW h \in Hulls PROVE HullFrom(h, h) /\ SameCondition(h, h)
  BY FromItself DEF HullFrom, SameCondition, Hulls

LEMMA HullFromFrom ==
  ASSUME NEW h, NEW g, NEW k, HullFrom(h, g), HullFrom(g, k) PROVE HullFrom(h, k)
  BY FromFrom DEF HullFrom

LEMMA SameConditionKeeps ==
  ASSUME NEW h \in Hulls, NEW g \in Hulls, SameCondition(h, g)
  PROVE  /\ Sound(h) => Sound(g)
         /\ FuelAmount(g) = FuelAmount(h) /\ FuelCapacity(g) = FuelCapacity(h)
<1>1. Sound(h) => Sound(g) BY DEF Sound, SameCondition, SameTanks, FuelFits
<1>2. QED BY <1>1, SameFuel DEF SameCondition

LEMMA HullKeepsLacking ==
  ASSUME NEW h, NEW g, HullFrom(h, g), NEW x \in Retired, HullLacks(h, {x})
  PROVE  HullLacks(g, {x})
  BY DEF HullFrom, From, HullLacks

NoDriveHull(h) == [h EXCEPT !.slots = NoDrive(@), !.internal = NoDrive(@)]

LEMMA NoDriveHulls ==
  ASSUME NEW h \in Hulls
  PROVE  LET g == NoDriveHull(h) IN
         HullFrom(h, g) /\ SameCondition(h, g) /\ HullLacks(g, {"jump_drive"})
<1> DEFINE a == NoDrive(h.slots)
           b == NoDrive(h.internal)
           g == NoDriveHull(h)
<1>1. h.slots \in Slots /\ h.internal \in Slots BY DEF Hulls
<1>2. From(h.slots, a) /\ SameTanks(h.slots, a) /\ Lacks(a, {"jump_drive"})
      /\ From(h.internal, b) /\ Lacks(b, {"jump_drive"})
  BY <1>1, NoDriveList
<1>3. g = [h EXCEPT !.slots = a, !.internal = b] BY DEF NoDriveHull
<1> HIDE DEF a, b, g
<1>4. a \in Slots /\ b \in Slots BY <1>2 DEF From
<1>5. g \in Hulls /\ g.slots = a /\ g.internal = b /\ g.model = h.model /\ g.hull = h.hull /\ g.base = h.base
  BY <1>3, <1>4 DEF Hulls
<1>6. QED BY <1>2, <1>5 DEF HullFrom, SameCondition, HullLacks, g

\* Only the slots looked into.
RenamedIn(list, old, new, looked) ==
    [i \in DOMAIN list |-> IF i \in looked THEN RenamedList(list, old, new)[i] ELSE list[i]]

OnlyIn(list, old, looked) ==
    \A i \in DOMAIN list : i \in looked \/ list[i] = None \/ list[i].item # old

LEMMA RenamedInLists ==
  ASSUME NEW l \in Slots, NEW old \in STRING \ {"fuel_tank", "jump_drive"},
         NEW new \in STRING \ ({"fuel_tank", old} \cup Retired), NEW looked
  PROVE  LET m == RenamedIn(l, old, new, looked) IN
         From(l, m) /\ (OnlyIn(l, old, looked) => Lacks(m, {old}))
<1> DEFINE n == RenamedList(l, old, new)
           m == RenamedIn(l, old, new, looked)
<1>1. From(l, n) /\ Lacks(n, {old}) BY RenamedLists
<1>2. \A i \in DOMAIN l : m[i] = IF i \in looked THEN n[i] ELSE l[i] BY DEF RenamedIn
<1>3. m = [i \in DOMAIN l |-> m[i]] BY DEF RenamedIn
<1>4. DOMAIN n = DOMAIN l BY DEF RenamedList, Each
<1> HIDE DEF m, n
<1>5. \A i \in DOMAIN l : n[i] \in Devices \cup {None} /\ l[i] \in Devices \cup {None}
  BY <1>1, <1>4 DEF From, Slots
<1>6. m \in Slots /\ Len(m) = Len(l) /\ DOMAIN m = DOMAIN l BY <1>2, <1>3, <1>5, SlotBySlot
<1>7. AddonsAt(m) = AddonsAt(l)
  <2>1. AddonsAt(n) = AddonsAt(l) BY <1>1 DEF From
  <2>2. ASSUME NEW i \in DOMAIN l PROVE i \in AddonsAt(m) <=> i \in AddonsAt(l)
    BY <1>2, <1>4, <1>6, <2>1 DEF AddonsAt
  <2>3. QED BY <1>6, <2>2 DEF AddonsAt
<1>8. \A x \in Retired : Lacks(l, {x}) => Lacks(m, {x}) BY <1>1, <1>2, <1>4, <1>6 DEF From, Lacks
<1>9. OnlyIn(l, old, looked) => Lacks(m, {old}) BY <1>1, <1>2, <1>4, <1>6 DEF OnlyIn, Lacks
<1>10. QED BY <1>1, <1>6, <1>7, <1>8, <1>9 DEF From, m

RenamedHull(h, old, new, looked) ==
    [h EXCEPT !.slots = RenamedList(@, old, new), !.internal = RenamedIn(@, old, new, looked)]

LEMMA RenamedHulls ==
  ASSUME NEW h \in Hulls, NEW old \in STRING \ {"fuel_tank", "jump_drive"},
         NEW new \in STRING \ ({"fuel_tank", old} \cup Retired), NEW looked
  PROVE  LET g == RenamedHull(h, old, new, looked) IN
         /\ HullFrom(h, g) /\ SameCondition(h, g)
         /\ OnlyIn(h.internal, old, looked) => HullLacks(g, {old})
<1> DEFINE a == RenamedList(h.slots, old, new)
           b == RenamedIn(h.internal, old, new, looked)
           g == RenamedHull(h, old, new, looked)
<1>1. h.slots \in Slots /\ h.internal \in Slots BY DEF Hulls
<1>2. From(h.slots, a) /\ SameTanks(h.slots, a) /\ Lacks(a, {old}) BY <1>1, RenamedLists
<1>3. From(h.internal, b) /\ (OnlyIn(h.internal, old, looked) => Lacks(b, {old}))
  BY <1>1, RenamedInLists
<1>4. g = [h EXCEPT !.slots = a, !.internal = b] BY DEF RenamedHull
<1> HIDE DEF a, b, g
<1>5. a \in Slots /\ b \in Slots BY <1>2, <1>3 DEF From
<1>6. g \in Hulls /\ g.slots = a /\ g.internal = b /\ g.model = h.model /\ g.hull = h.hull /\ g.base = h.base
  BY <1>4, <1>5 DEF Hulls
<1>7. QED BY <1>2, <1>3, <1>6 DEF HullFrom, SameCondition, HullLacks, g

LEMMA RestoredHulls ==
  ASSUME NEW h \in Hulls
  PROVE  HullFrom(h, RestoreShieldFull(h)) /\ SameCondition(h, RestoreShieldFull(h))
<1> DEFINE g == RestoreShieldFull(h)
<1>1. g \in Hulls /\ g.slots = h.slots /\ g.internal = h.internal /\ g.model = h.model
      /\ g.hull = h.hull /\ g.base = h.base
  <2>1. g = [h EXCEPT !.shield = "full"] \/ g = h BY DEF RestoreShieldFull
  <2> HIDE DEF g
  <2>2. CASE g = h BY <2>2
  <2>3. CASE g = [h EXCEPT !.shield = "full"]
    <3> DEFINE full == "full"
    <3>1. full \in STRING BY NamesAssumption
    <3>2. g = [h EXCEPT !.shield = full] BY <2>3
    <3> HIDE DEF full
    <3>3. QED BY <3>1, <3>2 DEF Hulls
  <2>4. QED BY <2>1, <2>2, <2>3
<1> HIDE DEF g
<1>2. h.slots \in Slots /\ h.internal \in Slots BY DEF Hulls
<1>3. QED BY <1>1, <1>2, FromItself DEF HullFrom, SameCondition, g

\* A hull whose points and fuel are set is sound, with the fuel it was given.
LEMMA ConditionedHulls ==
  ASSUME NEW h \in Hulls, NEW x \in 0 .. MaxHull, NEW amount \in Nat
  PROVE  LET g == SetFuelAmount([h EXCEPT !.hull = x], amount) IN
         /\ HullFrom(h, g) /\ Sound(g) /\ SameLoads(h.slots, g.slots)
         /\ g.sys = h.sys /\ g.shield = h.shield /\ g.internal = h.internal /\ g.hull = x
         /\ FuelCapacity(g) = FuelCapacity(h)
         /\ FuelAmount(g) = Least(amount, FuelCapacity(h))
<1> DEFINE k == [h EXCEPT !.hull = x]
           g == SetFuelAmount(k, amount)
<1>1. k \in Hulls /\ k.slots = h.slots /\ k.internal = h.internal /\ k.model = h.model
      /\ k.sys = h.sys /\ k.shield = h.shield /\ k.hull = x /\ k.base = h.base
  BY Numbers DEF Hulls
<1>2. FuelCapacity(k) = FuelCapacity(h) BY <1>1 DEF FuelCapacity
<1> HIDE DEF k
<1>3. /\ g \in Hulls
      /\ g.model = k.model /\ g.sys = k.sys /\ g.hull = k.hull /\ g.shield = k.shield
      /\ g.internal = k.internal
      /\ From(k.slots, g.slots) /\ SameLoads(k.slots, g.slots) /\ FuelFits(g.slots)
      /\ g.base \in 0 .. StartFuel
      /\ FuelCapacity(g) = FuelCapacity(k)
      /\ FuelAmount(g) = Least(amount, FuelCapacity(k))
  BY <1>1, FuelSet
<1> HIDE DEF g
<1>4. From(h.internal, h.internal) BY FromItself DEF Hulls
<1>5. QED BY <1>1, <1>2, <1>3, <1>4 DEF HullFrom, Sound, g, k

\* The launchers of a hull are loaded, or their loads brought within bounds.
LEMMA ArmedHulls ==
  ASSUME NEW h \in Hulls, NEW g, g \in {NormalizeShipMissiles(h), RearmMissiles(h)}
  PROVE  HullFrom(h, g) /\ SameCondition(h, g) /\ LoadFits(g.slots)
<1>1. h.slots \in Slots /\ h.internal \in Slots BY DEF Hulls
<1>2. \E m \in {MissilesClamped(h.slots), MissilesFull(h.slots)} : g = [h EXCEPT !.slots = m]
  BY DEF NormalizeShipMissiles, RearmMissiles, MissilesClamped, MissilesFull
<1>3. PICK m \in {MissilesClamped(h.slots), MissilesFull(h.slots)} : g = [h EXCEPT !.slots = m]
  BY <1>2
<1>4. From(h.slots, m) /\ SameTanks(h.slots, m) /\ LoadFits(m) BY <1>1, MissileLists
<1>5. m \in Slots BY <1>4 DEF From
<1>6. g \in Hulls /\ g.slots = m /\ g.internal = h.internal /\ g.model = h.model
      /\ g.hull = h.hull /\ g.base = h.base
  BY <1>3, <1>5 DEF Hulls
<1>7. QED BY <1>1, <1>4, <1>6, FromItself DEF HullFrom, SameCondition

-----------------------------------------------------------------------------
(* A save. *)

\* In a finite set of numbers every rank is taken.
LEMMA EveryRank ==
  ASSUME NEW n \in Nat, NEW S \in SUBSET (1 .. n), NEW k \in 1 .. Cardinality(S)
  PROVE  \E i \in S : Cardinality({j \in S : j <= i}) = k
<1> DEFINE Upto(i) == {j \in S : j <= i}
           c == Cardinality(S)
           rank == [i \in S |-> Cardinality(Upto(i))]
<1>1. \A j \in S : j \in Nat OBVIOUS
<1>2. IsFiniteSet(S) /\ c \in Nat
  <2>1. IsFiniteSet(1 .. n) BY FS_Interval
  <2>2. QED BY <2>1, FS_Subset, FS_CardinalityType
<1>3. ASSUME NEW i \in S
      PROVE  IsFiniteSet(Upto(i)) /\ Cardinality(Upto(i)) \in 1 .. c
  <2>1. Upto(i) \in SUBSET S /\ i \in Upto(i) BY <1>1
  <2>2. IsFiniteSet(Upto(i)) /\ Cardinality(Upto(i)) <= c BY <2>1, <1>2, FS_Subset
  <2>3. Cardinality(Upto(i)) \in Nat BY <2>2, FS_CardinalityType
  <2>4. Cardinality(Upto(i)) # 0 BY <2>1, <2>2, FS_EmptySet
  <2>5. QED BY <1>2, <2>2, <2>3, <2>4
<1>4. ASSUME NEW i \in S, NEW j \in S, i < j, Cardinality(Upto(i)) = Cardinality(Upto(j))
      PROVE  FALSE
  <2>0. \A x \in S : x <= i => x <= j BY <1>1, <1>4
  <2>1. Upto(i) \in SUBSET Upto(j) BY <2>0
  <2>2. IsFiniteSet(Upto(j)) BY <1>3
  <2>3. Upto(i) = Upto(j) BY <1>4, <2>1, <2>2, FS_Subset
  <2>4. j \in Upto(j) /\ j \notin Upto(i) BY <1>1, <1>4
  <2>5. QED BY <2>3, <2>4
<1>5. \A i, j \in S : Cardinality(Upto(i)) = Cardinality(Upto(j)) => i = j BY <1>1, <1>4
<1> HIDE DEF Upto, c
<1>6. rank \in Injection(S, 1 .. c)
  <2>1. \A i \in S : rank[i] = Cardinality(Upto(i)) OBVIOUS
  <2>2. rank \in [S -> 1 .. c] BY <1>3
  <2> HIDE DEF rank
  <2>3. QED BY <1>5, <2>1, <2>2 DEF Injection, IsInjective
<1>7. IsFiniteSet(1 .. c) /\ Cardinality(1 .. c) = c BY <1>2, FS_Interval
<1>8. rank \in Surjection(S, 1 .. c) BY <1>6, <1>7, FS_Injection DEF c
<1>9. k \in 1 .. c BY DEF c
<1>10. \E i \in S : rank[i] = k BY <1>8, <1>9 DEF Surjection
<1>11. QED BY <1>10 DEF Upto

\* The shelf without its drives: the other devices, as many as there were.
LEMMA KeptDevices ==
  ASSUME NEW l \in Seq(Devices)
  PROVE  /\ Kept(l) \in Seq(Devices)
         /\ Fittings(Kept(l)) = Fittings(l)
         /\ Lacks(Kept(l), {"jump_drive"})
         /\ \A x \in Retired : Lacks(l, {x}) => Lacks(Kept(l), {x})
<1> DEFINE S == DOMAIN l \ Drives(l)
           c == Cardinality(S)
           at(n) == CHOOSE i \in S : Cardinality({j \in S : j <= i}) = n
           m == Kept(l)
<1>1. Len(l) \in Nat /\ S \in SUBSET (1 .. Len(l)) /\ DOMAIN l = 1 .. Len(l) OBVIOUS
<1>2. c \in Nat
  <2>1. IsFiniteSet(1 .. Len(l)) BY <1>1, FS_Interval
  <2>2. QED BY <1>1, <2>1, FS_Subset, FS_CardinalityType
<1>3. \A n \in 1 .. c : at(n) \in S BY <1>1, EveryRank
<1>4. m = [n \in 1 .. c |-> l[at(n)]] BY DEF Kept
<1>5. \A i \in DOMAIN l : l[i] \in Devices /\ l[i] # None
  <2>1. \A i \in DOMAIN l : l[i] \in Devices OBVIOUS
  <2>2. QED BY <2>1, RowsAssumption
<1>6. S = {i \in DOMAIN l : l[i].item # "jump_drive"} BY <1>5 DEF Drives, Is
<1>7. AddonsAt(l) = S BY <1>5, <1>6 DEF AddonsAt
<1> HIDE DEF at, m, c
<1>8. \A n \in 1 .. c : m[n] \in Devices /\ m[n] # None /\ m[n].item # "jump_drive"
        /\ \E i \in DOMAIN l : m[n] = l[i]
  BY <1>3, <1>4, <1>5, <1>6
<1>9. DOMAIN m = 1 .. c BY <1>4
<1>10. m \in Seq(Devices) BY <1>2, <1>4, <1>8
<1>11. AddonsAt(m) = 1 .. c BY <1>8, <1>9 DEF AddonsAt
<1>12. Cardinality(1 .. c) = c BY <1>2, FS_Interval
<1>13. Fittings(m) = c BY <1>11, <1>12 DEF Fittings, AddonsAt
<1>14. Fittings(l) = c BY <1>7 DEF Fittings, AddonsAt, c
<1>15. Lacks(m, {"jump_drive"}) BY <1>8, <1>9 DEF Lacks
<1>16. \A x \in Retired : Lacks(l, {x}) => Lacks(m, {x}) BY <1>5, <1>8, <1>9 DEF Lacks
<1>17. QED BY <1>10, <1>13, <1>14, <1>15, <1>16 DEF m

\* Everything but the hulls, the shelf, the run and the two mirrors.
Rest(s, t) ==
    /\ t.version = s.version /\ t.credits = s.credits /\ t.sys = s.sys /\ t.world = s.world
    /\ t.active = s.active /\ t.unlocked = s.unlocked /\ t.permit = s.permit /\ t.log = s.log /\ t.rating = s.rating
    /\ t.visited = s.visited /\ t.runs = s.runs

SaveOver(fleets) ==
    [version : Nat, credits : Int, sys : STRING, world : STRING, fuel : Nat, hull : Int, ships : fleets,
     active : STRING, unlocked : SUBSET STRING, stock : Seq(Devices), permit : BOOLEAN,
     log : Seq([what : STRING, sys : STRING]), rating : Int, visited : SUBSET STRING,
     runs : Nat, live : BOOLEAN]

LEMMA SavesOver ==
  /\ \A s : IsSave(s) => /\ s \in SaveOver([DOMAIN s.ships -> Hulls])
                         /\ IsFiniteSet(DOMAIN s.ships)
  /\ \A D : \A t \in SaveOver([D -> Hulls]) : IsFiniteSet(D) => IsSave(t) /\ DOMAIN t.ships = D
<1>1. \A s : IsSave(s) => s \in SaveOver([DOMAIN s.ships -> Hulls]) /\ IsFiniteSet(DOMAIN s.ships)
  BY DEF IsSave, SaveOver
<1>2. ASSUME NEW D, NEW t \in SaveOver([D -> Hulls]), IsFiniteSet(D)
      PROVE  IsSave(t) /\ DOMAIN t.ships = D
  <2>1. t.ships \in [D -> Hulls] BY <1>2 DEF SaveOver
  <2>2. DOMAIN t.ships = D BY <2>1
  <2>3. QED BY <1>2, <2>2 DEF IsSave, SaveOver
<1>3. QED BY <1>1, <1>2

LEMMA ShipsReplaced ==
  ASSUME NEW s, IsSave(s), NEW D, IsFiniteSet(D), NEW g \in [D -> Hulls]
  PROVE  LET t == [s EXCEPT !.ships = g] IN
         IsSave(t) /\ t.ships = g /\ Rest(s, t)
         /\ t.stock = s.stock /\ t.fuel = s.fuel /\ t.hull = s.hull
<1> DEFINE t == [s EXCEPT !.ships = g]
<1>1. t.ships = g /\ Rest(s, t) /\ t.stock = s.stock /\ t.fuel = s.fuel /\ t.hull = s.hull
  BY DEF IsSave, Rest
<1>2. s \in SaveOver([DOMAIN s.ships -> Hulls]) BY SavesOver
<1>3. IsSave(t)
  <2> DEFINE G == [D -> Hulls]
             S == [DOMAIN s.ships -> Hulls]
  <2>1. s \in SaveOver(S) /\ g \in G BY <1>2
  <2> HIDE DEF G, S
  <2>2. t \in SaveOver(G) BY <2>1 DEF SaveOver
  <2>3. QED BY <2>2, SavesOver DEF G
<1>4. QED BY <1>1, <1>3

\* A step that makes each hull of the hull it was.
KeptSave(s, t) ==
    /\ IsSave(t) /\ Rest(s, t)
    /\ t.stock \in Seq(Devices) /\ From(s.stock, t.stock)
    /\ DOMAIN t.ships = DOMAIN s.ships
    /\ \A id \in DOMAIN s.ships : HullFrom(s.ships[id], t.ships[id])

LEMMA KeptKept ==
  ASSUME NEW s, NEW t, NEW u, KeptSave(s, t), KeptSave(t, u) PROVE KeptSave(s, u)
<1>1. From(s.stock, u.stock) BY FromFrom DEF KeptSave
<1>2. \A id \in DOMAIN s.ships : HullFrom(s.ships[id], u.ships[id]) BY HullFromFrom DEF KeptSave
<1>3. Rest(s, u) BY DEF KeptSave, Rest
<1>4. QED BY <1>1, <1>2, <1>3 DEF KeptSave

LEMMA StockSlots == ASSUME NEW s, IsSave(s) PROVE s.stock \in Seq(Devices) /\ s.stock \in Slots
  BY DEF IsSave, Slots

LEMMA ShipsType ==
  ASSUME NEW s, IsSave(s)
  PROVE  /\ s.ships \in [DOMAIN s.ships -> Hulls] /\ IsFiniteSet(DOMAIN s.ships)
         /\ s.ships = [id \in DOMAIN s.ships |-> s.ships[id]]
         /\ \A id \in DOMAIN s.ships : s.ships[id] \in Hulls
  BY DEF IsSave

\* The hulls alone are changed, each into one made of it.
LEMMA ShipsKept ==
  ASSUME NEW s, IsSave(s), NEW g, g = [id \in DOMAIN s.ships |-> g[id]],
         \A id \in DOMAIN s.ships : HullFrom(s.ships[id], g[id])
  PROVE  LET t == [s EXCEPT !.ships = g] IN
         KeptSave(s, t) /\ t.ships = g /\ t.stock = s.stock /\ t.fuel = s.fuel /\ t.hull = s.hull
<1> DEFINE t == [s EXCEPT !.ships = g]
           D == DOMAIN s.ships
<1>1. IsFiniteSet(D) /\ g \in [D -> Hulls] BY ShipsType DEF HullFrom
<1>2. IsSave(t) /\ t.ships = g /\ Rest(s, t) /\ t.stock = s.stock /\ t.fuel = s.fuel /\ t.hull = s.hull
  BY <1>1, ShipsReplaced
<1> HIDE DEF t
<1>3. From(s.stock, t.stock) /\ t.stock \in Seq(Devices) BY <1>2, StockSlots, FromItself
<1>4. DOMAIN t.ships = DOMAIN s.ships BY <1>1, <1>2
<1>5. QED BY <1>2, <1>3, <1>4 DEF KeptSave, t

LEMMA Lacking ==
  ASSUME NEW s, NEW t, KeptSave(s, t), NEW x \in Retired, Without(s, {x})
  PROVE  Without(t, {x})
  BY DEF KeptSave, From, HullFrom, Without

SoundSave(s) == \A id \in DOMAIN s.ships : Sound(s.ships[id])
ArmedSave(s) == \A id \in DOMAIN s.ships : LoadFits(s.ships[id].slots)

\* restoreShipShieldFull, for every hull
Restored(s) == EachShip(s, LAMBDA id : RestoreShieldFull(s.ships[id]))

LEMMA ShieldsRestored ==
  ASSUME NEW s, IsSave(s)
  PROVE  LET t == Restored(s) IN
         /\ KeptSave(s, t) /\ t.fuel = s.fuel /\ t.hull = s.hull
         /\ \A id \in DOMAIN s.ships : SameCondition(s.ships[id], t.ships[id])
<1> DEFINE g == [id \in DOMAIN s.ships |-> RestoreShieldFull(s.ships[id])]
           t == [s EXCEPT !.ships = g]
<1>1. t = Restored(s) BY DEF Restored, EachShip
<1>2. \A id \in DOMAIN s.ships : HullFrom(s.ships[id], g[id]) /\ SameCondition(s.ships[id], g[id])
  BY ShipsType, RestoredHulls
<1>3. g = [id \in DOMAIN s.ships |-> g[id]] OBVIOUS
<1> HIDE DEF g
<1>4. KeptSave(s, t) /\ t.ships = g /\ t.fuel = s.fuel /\ t.hull = s.hull BY <1>2, <1>3, ShipsKept
<1> HIDE DEF t
<1>5. QED BY <1>1, <1>2, <1>4

\* An item renamed, wherever it lies.
LEMMA RenamedSaves ==
  ASSUME NEW s, IsSave(s), NEW old \in STRING \ {"fuel_tank", "jump_drive"},
         NEW new \in STRING \ ({"fuel_tank", old} \cup Retired), NEW looked,
         \A id \in DOMAIN s.ships : OnlyIn(s.ships[id].internal, old, looked)
  PROVE  LET t == Renamed(s, old, new, looked) IN
         /\ KeptSave(s, t) /\ Without(t, {old}) /\ t.fuel = s.fuel /\ t.hull = s.hull
         /\ \A id \in DOMAIN s.ships : SameCondition(s.ships[id], t.ships[id])
<1> DEFINE g == [id \in DOMAIN s.ships |-> RenamedHull(s.ships[id], old, new, looked)]
           u == [s EXCEPT !.ships = g]
           stock == RenamedList(s.stock, old, new)
           t == Renamed(s, old, new, looked)
<1>1. t = [u EXCEPT !.stock = RenamedList(u.stock, old, new)]
  BY DEF Renamed, EachShip, RenamedHull, RenamedIn, RenamedList, Rename
<1>2. \A id \in DOMAIN s.ships :
        /\ HullFrom(s.ships[id], g[id]) /\ SameCondition(s.ships[id], g[id])
        /\ HullLacks(g[id], {old})
  BY ShipsType, RenamedHulls
<1>3. g = [id \in DOMAIN s.ships |-> g[id]] OBVIOUS
<1> HIDE DEF g
<1>4. KeptSave(s, u) /\ u.ships = g /\ u.stock = s.stock /\ u.fuel = s.fuel /\ u.hull = s.hull
  BY <1>2, <1>3, ShipsKept
<1>5. s.stock \in Slots /\ s.stock \in Seq(Devices) BY StockSlots
<1>6. From(s.stock, stock) /\ Lacks(stock, {old}) BY <1>5, RenamedLists
<1>7. stock \in Seq(Devices)
  <2>1. \A i \in DOMAIN s.stock : s.stock[i] \in Devices /\ s.stock[i] # None
    BY <1>5, RowsAssumption
  <2>2. \A i \in DOMAIN s.stock : stock[i] = Rename(s.stock[i], old, new)
    BY <2>1 DEF RenamedList, Each
  <2>3. \A i \in DOMAIN s.stock : stock[i] \in Devices BY <2>1, <2>2, RenamedOne
  <2>4. stock = [i \in DOMAIN s.stock |-> stock[i]] BY DEF RenamedList, Each
  <2> HIDE DEF stock
  <2>5. QED BY ONLY <1>5, <2>3, <2>4, ShelfBySlot
<1>8. t = [u EXCEPT !.stock = stock] BY <1>1, <1>4
<1> HIDE DEF u, stock, t
<1>9. IsSave(t) /\ Rest(s, t) /\ t.stock = stock /\ t.ships = g /\ t.fuel = s.fuel /\ t.hull = s.hull
  <2>1. IsSave(u) BY <1>4 DEF KeptSave
  <2>2. t.stock = stock /\ t.ships = u.ships /\ t.fuel = u.fuel /\ t.hull = u.hull /\ Rest(u, t)
    BY <1>8, <2>1 DEF IsSave, Rest
  <2>3. IsSave(t)
    <3> DEFINE G == [DOMAIN u.ships -> Hulls]
    <3>1. u \in SaveOver(G) BY <2>1, SavesOver
    <3> HIDE DEF G
    <3>2. t \in SaveOver(G) BY <1>7, <1>8, <3>1 DEF SaveOver
    <3>3. QED BY <2>1, <3>2, SavesOver DEF G
  <2>4. QED BY <1>4, <2>2, <2>3 DEF KeptSave, Rest
<1>10. KeptSave(s, t)
  <2>1. DOMAIN t.ships = DOMAIN s.ships BY <1>4, <1>9 DEF KeptSave
  <2>2. QED BY <1>2, <1>6, <1>7, <1>9, <2>1 DEF KeptSave
<1>11. Without(t, {old}) BY <1>2, <1>6, <1>9, <1>10 DEF Without, HullLacks, KeptSave
<1>12. QED BY <1>2, <1>9, <1>10, <1>11 DEF t

\* Hulls of the releases that sold the devices renamed: at most the first of
\* the internal slots has a device, and that is no weapon.
OldInternal(list) == AddonsAt(list) \subseteq {1} /\ Lacks(list, {"mass_driver"})
OldSave(s) == \A id \in DOMAIN s.ships : OldInternal(s.ships[id].internal)

LEMMA OldHulls ==
  ASSUME NEW h, NEW g, HullFrom(h, g), OldInternal(h.internal) PROVE OldInternal(g.internal)
  BY DEF HullFrom, From, OldInternal, Retired

LEMMA OldKept ==
  ASSUME NEW s, NEW t, KeptSave(s, t), OldSave(s) PROVE OldSave(t)
  BY OldHulls DEF KeptSave, OldSave

LEMMA OldLooked ==
  ASSUME NEW s, OldSave(s), NEW id \in DOMAIN s.ships
  PROVE  /\ OnlyIn(s.ships[id].internal, "chaff", {1})
         /\ OnlyIn(s.ships[id].internal, "mass_driver", {})
  BY DEF OldSave, OldInternal, OnlyIn, AddonsAt, Lacks

\* The mirrors follow a sound hull, which stays as it is.
LEMMA Synced ==
  ASSUME NEW s, IsSave(s), s.active \in DOMAIN s.ships, Sound(s.ships[s.active])
  PROVE  LET t == SyncMirror(s) IN
         /\ t = [s EXCEPT !.fuel = FuelAmount(s.ships[s.active]), !.hull = s.ships[s.active].hull]
         /\ KeptSave(s, t) /\ t.ships = s.ships /\ t.stock = s.stock
         /\ t.fuel = FuelAmount(s.ships[s.active]) /\ t.hull = s.ships[s.active].hull
<1> DEFINE a == s.active
           ship == s.ships[a]
           sound == [ship EXCEPT !.base = Clamp(@, StartFuel), !.hull = Clamp(@, MaxHull),
                                 !.slots = SoundTanks(@)]
           fuel == FuelAmount(ship)
           hull == ship.hull
           t == SyncMirror(s)
<1>1. t = [s EXCEPT !.ships[a] = sound, !.fuel = FuelAmount(sound), !.hull = sound.hull]
  BY DEF SyncMirror, SoundTanks
<1>2. ship \in Hulls BY ShipsType
<1>3. Clamp(ship.base, StartFuel) = ship.base /\ Clamp(ship.hull, MaxHull) = ship.hull
  BY Numbers, ClampInside DEF Sound
<1>4. SoundTanks(ship.slots) = ship.slots BY <1>2, TanksStay DEF Sound, Hulls
<1>5. sound = ship BY <1>2, <1>3, <1>4 DEF Hulls
<1> HIDE DEF sound
<1>6. [s.ships EXCEPT ![a] = ship] = s.ships BY ShipsType
<1>7. fuel \in Nat /\ hull \in Int BY <1>2, FuelNumbers DEF Hulls
<1> HIDE DEF fuel, hull
<1>8. t = [s EXCEPT !.ships = [s.ships EXCEPT ![a] = sound], !.fuel = FuelAmount(sound), !.hull = sound.hull]
  BY <1>1
<1>9. FuelAmount(sound) = fuel /\ sound.hull = hull BY <1>5 DEF fuel, hull
<1>10. [s.ships EXCEPT ![a] = sound] = s.ships BY <1>5, <1>6
<1>11. t = [s EXCEPT !.ships = s.ships, !.fuel = fuel, !.hull = hull] BY <1>8, <1>9, <1>10
<1> HIDE DEF t
<1>12. t = [s EXCEPT !.fuel = fuel, !.hull = hull] BY <1>11 DEF IsSave
<1>13. /\ t.ships = s.ships /\ t.stock = s.stock /\ t.fuel = fuel /\ t.hull = hull
       /\ IsSave(t) /\ Rest(s, t)
  <2>1. t.ships = s.ships /\ t.stock = s.stock /\ t.fuel = fuel /\ t.hull = hull /\ Rest(s, t)
    BY <1>12 DEF IsSave, Rest
  <2>2. IsSave(t)
    <3> DEFINE G == [DOMAIN s.ships -> Hulls]
    <3>1. s \in SaveOver(G) BY SavesOver
    <3> HIDE DEF G
    <3>2. t \in SaveOver(G) BY <1>7, <1>12, <3>1 DEF SaveOver
    <3>3. QED BY <3>2, SavesOver DEF G
  <2>3. QED BY <2>1, <2>2
<1>14. KeptSave(s, t)
  <2>1. From(s.stock, t.stock) /\ t.stock \in Seq(Devices) BY <1>13, StockSlots, FromItself
  <2>2. \A id \in DOMAIN s.ships : HullFrom(s.ships[id], t.ships[id])
    BY <1>13, ShipsType, HullFromItself
  <2>3. QED BY <1>13, <2>1, <2>2 DEF KeptSave
<1>15. QED BY <1>12, <1>13, <1>14 DEF t, fuel, hull

\* Every hull is brought into condition, the one flown with the fuel that
\* the save had for it, or what of it fits.
LEMMA Conditioned ==
  ASSUME NEW s, IsSave(s), s.active \in DOMAIN s.ships, NEW v \in Nat
  PROVE  LET t == Conditions(s, v)
             a == s.active
             was == IF v < 6 THEN s.fuel ELSE FuelAmount(s.ships[a])
         IN /\ KeptSave(s, t) /\ SoundSave(t)
            /\ FuelAmount(t.ships[a]) = Least(FuelCapacity(t.ships[a]), was)
<1> DEFINE a == s.active
           D == DOMAIN s.ships
           was == IF v < 6 THEN s.fuel ELSE FuelAmount(s.ships[a])
           old(id) == IF id = a THEN SetFuelAmount([s.ships[id] EXCEPT !.hull = Clamp(s.hull, MaxHull)], s.fuel)
                      ELSE SetFuelAmount([s.ships[id] EXCEPT !.hull = MaxHull], FuelCapacity(s.ships[id]))
           h(id) == IF v < 6 THEN old(id) ELSE NormalizeShipCondition(s.ships[id])
           g == [id \in D |-> h(id)]
           u == [s EXCEPT !.ships = g]
           t == Conditions(s, v)
<1>1. t = SyncMirror(u)
  <2>1. CASE v < 6 BY <2>1 DEF Conditions, MigrateShipConditions, EachShip
  <2>2. CASE ~(v < 6) BY <2>2 DEF Conditions, EachShip
  <2>3. QED BY <2>1, <2>2
<1>2. s.fuel \in Nat /\ s.hull \in Int /\ Clamp(s.hull, MaxHull) \in 0 .. MaxHull /\ MaxHull \in 0 .. MaxHull
  <2>1. s.fuel \in Nat /\ s.hull \in Int BY DEF IsSave
  <2>2. QED BY <2>1, Numbers, ClampInside
<1>3. ASSUME NEW id \in D
      PROVE  /\ HullFrom(s.ships[id], h(id)) /\ Sound(h(id))
             /\ id = a => FuelAmount(h(id)) = Least(FuelCapacity(h(id)), was)
  <2> DEFINE ship == s.ships[id]
  <2>1. ship \in Hulls BY ShipsType
  <2>2. FuelAmount(ship) \in Nat /\ FuelCapacity(ship) \in Nat BY <2>1, FuelNumbers
  <2>3. \E x \in 0 .. MaxHull, amount \in Nat :
          h(id) = SetFuelAmount([ship EXCEPT !.hull = x], amount) /\ (id = a => amount = was)
    <3>1. CASE v < 6 /\ id = a BY <3>1, <1>2
    <3>2. CASE v < 6 /\ id # a BY <3>2, <1>2, <2>2
    <3>3. CASE ~(v < 6)
      <4> DEFINE x == Clamp(ship.hull, MaxHull)
      <4>1. x \in 0 .. MaxHull
        <5>1. ship.hull \in Int BY <2>1 DEF Hulls
        <5>2. QED BY <5>1, Numbers, ClampInside
      <4>2. h(id) = SetFuelAmount([ship EXCEPT !.hull = x], FuelAmount(ship))
        BY <3>3 DEF NormalizeShipCondition
      <4>3. id = a => FuelAmount(ship) = was BY <3>3
      <4> HIDE DEF x, h, was
      <4>4. QED BY <2>2, <4>1, <4>2, <4>3
    <3>4. QED BY <3>1, <3>2, <3>3
  <2> HIDE DEF h, was
  <2>4. PICK x \in 0 .. MaxHull, amount \in Nat :
          h(id) = SetFuelAmount([ship EXCEPT !.hull = x], amount) /\ (id = a => amount = was)
    BY <2>3
  <2>5. /\ HullFrom(ship, h(id)) /\ Sound(h(id))
        /\ FuelCapacity(h(id)) = FuelCapacity(ship)
        /\ FuelAmount(h(id)) = Least(amount, FuelCapacity(ship))
    BY <2>1, <2>4, ConditionedHulls
  <2>6. Least(amount, FuelCapacity(ship)) = Least(FuelCapacity(ship), amount) BY <2>2 DEF Least
  <2>7. QED BY <2>4, <2>5, <2>6
<1> HIDE DEF h, was
<1>4. g = [id \in D |-> g[id]] /\ \A id \in D : g[id] = h(id) OBVIOUS
<1> HIDE DEF g
<1>5. KeptSave(s, u) /\ u.ships = g BY <1>3, <1>4, ShipsKept
<1> HIDE DEF u
<1>6. IsSave(u) /\ u.active = a /\ DOMAIN u.ships = D BY <1>5 DEF KeptSave, Rest
<1>7. SoundSave(u) BY <1>3, <1>4, <1>5, <1>6 DEF SoundSave
<1>8. KeptSave(u, t) /\ t.ships = u.ships BY <1>1, <1>6, <1>7, Synced DEF SoundSave
<1> HIDE DEF t
<1>9. SoundSave(t) BY <1>7, <1>8 DEF SoundSave
<1>10. FuelAmount(t.ships[a]) = Least(FuelCapacity(t.ships[a]), was) BY <1>3, <1>4, <1>5, <1>8
<1>11. KeptSave(s, t) BY <1>5, <1>8, KeptKept
<1>12. QED BY <1>9, <1>10, <1>11 DEF t, was

\* Launchers are renamed and loaded, or their loads brought within bounds.
LEMMA Upgraded7 ==
  ASSUME NEW s, IsSave(s), NEW v \in Nat, v < 8 => OldSave(s)
  PROVE  LET t == Upgrades(s, v) IN
         /\ KeptSave(s, t) /\ ArmedSave(t)
         /\ \A id \in DOMAIN s.ships : SameCondition(s.ships[id], t.ships[id])
         /\ v < 7 => Without(t, {"mass_driver"})
<1>1. CASE v < 7
  <2> DEFINE r == Renamed(s, "mass_driver", "missile_launcher", {})
             g == [id \in DOMAIN r.ships |-> RearmMissiles(r.ships[id])]
             t == [r EXCEPT !.ships = g]
  <2>1. Upgrades(s, v) = t BY <1>1 DEF Upgrades, MigrateUpgradeRework, EachShip
  <2>2. "mass_driver" \in STRING \ {"fuel_tank", "jump_drive"}
        /\ "missile_launcher" \in STRING \ ({"fuel_tank", "mass_driver"} \cup Retired)
    BY NamesAssumption DEF Retired
  <2>3. KeptSave(s, r) /\ Without(r, {"mass_driver"})
        /\ \A id \in DOMAIN s.ships : SameCondition(s.ships[id], r.ships[id])
    <3>1. \A id \in DOMAIN s.ships : OnlyIn(s.ships[id].internal, "mass_driver", {})
      BY <1>1, OldLooked
    <3>2. QED BY <2>2, <3>1, RenamedSaves
  <2> HIDE DEF r
  <2>4. IsSave(r) BY <2>3 DEF KeptSave
  <2>5. \A id \in DOMAIN r.ships : g[id] = RearmMissiles(r.ships[id]) OBVIOUS
  <2>6. g = [id \in DOMAIN r.ships |-> g[id]] OBVIOUS
  <2> HIDE DEF g
  <2>7. \A id \in DOMAIN r.ships :
          HullFrom(r.ships[id], g[id]) /\ SameCondition(r.ships[id], g[id]) /\ LoadFits(g[id].slots)
    BY <2>4, <2>5, ShipsType, ArmedHulls
  <2>8. KeptSave(r, t) /\ t.ships = g BY <2>4, <2>6, <2>7, ShipsKept
  <2> HIDE DEF t
  <2>9. KeptSave(s, t) BY <2>3, <2>8, KeptKept
  <2>10. Without(t, {"mass_driver"}) BY <2>3, <2>8, Lacking DEF Retired
  <2>11. DOMAIN r.ships = DOMAIN s.ships /\ DOMAIN t.ships = DOMAIN r.ships BY <2>3, <2>8 DEF KeptSave
  <2>12. ArmedSave(t) BY <2>7, <2>8, <2>11 DEF ArmedSave
  <2>13. \A id \in DOMAIN s.ships : SameCondition(s.ships[id], t.ships[id])
    BY <2>3, <2>7, <2>8, <2>11 DEF SameCondition, SameTanks
  <2>14. QED BY <2>1, <2>9, <2>10, <2>12, <2>13
<1>2. CASE ~(v < 7)
  <2> DEFINE g == [id \in DOMAIN s.ships |-> NormalizeShipMissiles(s.ships[id])]
             t == [s EXCEPT !.ships = g]
  <2>1. Upgrades(s, v) = t BY <1>2 DEF Upgrades, EachShip
  <2>2. \A id \in DOMAIN s.ships : g[id] = NormalizeShipMissiles(s.ships[id]) OBVIOUS
  <2>3. g = [id \in DOMAIN s.ships |-> g[id]] OBVIOUS
  <2> HIDE DEF g
  <2>4. \A id \in DOMAIN s.ships :
          HullFrom(s.ships[id], g[id]) /\ SameCondition(s.ships[id], g[id]) /\ LoadFits(g[id].slots)
    BY <2>2, ShipsType, ArmedHulls
  <2>5. KeptSave(s, t) /\ t.ships = g BY <2>3, <2>4, ShipsKept
  <2> HIDE DEF t
  <2>6. ArmedSave(t) BY <2>4, <2>5 DEF ArmedSave, KeptSave
  <2>7. QED BY <1>2, <2>1, <2>4, <2>5, <2>6
<1>3. QED BY <1>1, <1>2

-----------------------------------------------------------------------------
(* A row read. *)

\* A save t made of the save s with all of its hulls, their devices and
\* their condition, and what the pilot has.
Came(s, t) ==
    /\ IsSave(t) /\ DOMAIN t.ships = DOMAIN s.ships /\ t.active = s.active
    /\ t.credits = s.credits /\ t.log = s.log /\ t.rating = s.rating /\ t.runs = s.runs
    /\ t.visited = s.visited /\ t.fuel = s.fuel /\ t.world = s.world
    /\ Fittings(t.stock) = Fittings(s.stock)
    /\ \A id \in DOMAIN s.ships :
          HullFrom(s.ships[id], t.ships[id]) /\ SameCondition(s.ships[id], t.ships[id])
    /\ \A x \in Retired : Without(s, {x}) => Without(t, {x})

LEMMA CameItself == ASSUME NEW s, IsSave(s) PROVE Came(s, s)
  BY ShipsType, HullFromItself DEF Came

LEMMA DrivesRetired ==
  ASSUME NEW doc, Written(doc)
  PROVE  LET t == RetireLegacyDrives(doc) IN
         Came(doc, t) /\ Without(t, {"jump_drive"}) /\ t.sys = doc.sys
<1> DEFINE g == [id \in DOMAIN doc.ships |-> NoDriveHull(doc.ships[id])]
           u == [doc EXCEPT !.ships = g]
           stock == Kept(doc.stock)
           permit == FALSE
           t == RetireLegacyDrives(doc)
<1>0. IsSave(doc) BY DEF Written
<1>1. CASE doc.version >= 8
  <2>1. t = doc BY <1>1 DEF RetireLegacyDrives
  <2>2. Without(doc, {"jump_drive"}) BY <1>1 DEF Written
  <2>3. QED BY <1>0, <2>1, <2>2, CameItself
<1>2. CASE ~(doc.version >= 8)
  <2>1. t = [u EXCEPT !.stock = Kept(u.stock), !.permit = FALSE]
    BY <1>2 DEF RetireLegacyDrives, EachShip, NoDriveHull
  <2>2. \A id \in DOMAIN doc.ships :
          /\ HullFrom(doc.ships[id], g[id]) /\ SameCondition(doc.ships[id], g[id])
          /\ HullLacks(g[id], {"jump_drive"})
    BY <1>0, ShipsType, NoDriveHulls
  <2>3. g = [id \in DOMAIN doc.ships |-> g[id]] OBVIOUS
  <2> HIDE DEF g
  <2>4. KeptSave(doc, u) /\ u.ships = g /\ u.stock = doc.stock /\ u.fuel = doc.fuel
    BY <1>0, <2>2, <2>3, ShipsKept
  <2>5. doc.stock \in Seq(Devices) BY <1>0, StockSlots
  <2>6. /\ stock \in Seq(Devices) /\ Fittings(stock) = Fittings(doc.stock)
        /\ Lacks(stock, {"jump_drive"})
        /\ \A x \in Retired : Lacks(doc.stock, {x}) => Lacks(stock, {x})
    BY <2>5, KeptDevices
  <2>7. t = [u EXCEPT !.stock = stock, !.permit = permit] BY <2>1, <2>4
  <2>8. permit \in BOOLEAN OBVIOUS
  <2> HIDE DEF u, stock, permit, t
  <2>9. IsSave(u) /\ Rest(doc, u) /\ DOMAIN u.ships = DOMAIN doc.ships BY <2>4 DEF KeptSave
  <2>10. IsSave(t)
    <3> DEFINE G == [DOMAIN u.ships -> Hulls]
    <3>1. u \in SaveOver(G) BY <2>9, SavesOver
    <3> HIDE DEF G
    <3>2. t \in SaveOver(G) BY <2>6, <2>7, <2>8, <3>1 DEF SaveOver
    <3>3. QED BY <2>9, <3>2, SavesOver DEF G
  <2>11. /\ t.ships = g /\ t.stock = stock /\ t.active = doc.active /\ t.sys = doc.sys
         /\ t.credits = doc.credits /\ t.log = doc.log /\ t.rating = doc.rating
         /\ t.runs = doc.runs /\ t.visited = doc.visited /\ t.fuel = doc.fuel /\ t.world = doc.world
    BY <2>4, <2>7, <2>9 DEF IsSave, Rest
  <2>12. DOMAIN t.ships = DOMAIN doc.ships BY <2>4, <2>9, <2>11
  <2>13. Without(t, {"jump_drive"}) BY <2>2, <2>6, <2>11, <2>12 DEF Without, HullLacks
  <2>14. ASSUME NEW x \in Retired, Without(doc, {x}) PROVE Without(t, {x})
    <3>1. Lacks(stock, {x}) BY <2>6, <2>14 DEF Without
    <3>2. \A id \in DOMAIN doc.ships : HullLacks(doc.ships[id], {x}) BY <2>14 DEF Without, HullLacks
    <3>3. \A id \in DOMAIN doc.ships : HullLacks(g[id], {x}) BY <2>2, <3>2, HullKeepsLacking
    <3>4. QED BY <2>11, <2>12, <3>1, <3>3 DEF Without, HullLacks
  <2>15. Came(doc, t) BY <2>2, <2>6, <2>10, <2>11, <2>12, <2>14 DEF Came
  <2>16. QED BY <2>11, <2>13, <2>15 DEF t
<1>3. QED BY <1>1, <1>2

LEMMA VersionSet ==
  ASSUME NEW s, IsSave(s)
  PROVE  LET t == Upgraded(s) IN
         /\ IsSave(t) /\ t.ships = s.ships /\ t.stock = s.stock /\ t.active = s.active
         /\ t.credits = s.credits /\ t.log = s.log /\ t.rating = s.rating /\ t.runs = s.runs
         /\ t.visited = s.visited /\ t.fuel = s.fuel /\ t.world = s.world
         /\ t.version = StateVersion /\ t.sys # "" /\ (s.sys # "" => t.sys = s.sys)
         /\ s.world = "" \/ s.sys \in {"", s.world} => t.world \in {"", t.sys}
<1> DEFINE sys == IF s.sys # "" THEN s.sys ELSE IF s.world # "" THEN s.world ELSE Home
           v == StateVersion
           t == Upgraded(s)
<1>1. t = [s EXCEPT !.version = v, !.sys = sys] BY DEF Upgraded
<1>2. v \in Nat BY DEF StateVersion
<1>3. s.sys \in STRING /\ s.world \in STRING BY DEF IsSave
<1>4. /\ sys \in STRING /\ sys # "" /\ (s.sys # "" => sys = s.sys)
      /\ s.world = "" \/ s.sys \in {"", s.world} => s.world \in {"", sys}
  BY <1>3, NamesAssumption DEF Home
<1> HIDE DEF sys, v, t
<1>5. IsSave(t)
  <2> DEFINE G == [DOMAIN s.ships -> Hulls]
  <2>1. s \in SaveOver(G) /\ IsFiniteSet(DOMAIN s.ships) BY SavesOver
  <2> HIDE DEF G
  <2>2. t \in SaveOver(G) BY <1>1, <1>2, <1>4, <2>1 DEF SaveOver
  <2>3. QED BY <2>1, <2>2, SavesOver DEF G
<1>6. /\ t.ships = s.ships /\ t.stock = s.stock /\ t.active = s.active
      /\ t.credits = s.credits /\ t.log = s.log /\ t.rating = s.rating /\ t.runs = s.runs
      /\ t.visited = s.visited /\ t.fuel = s.fuel /\ t.world = s.world /\ t.version = v /\ t.sys = sys
  BY <1>1 DEF IsSave
<1>7. QED BY <1>4, <1>5, <1>6 DEF t, v

\* The row is decoded: the drives are out, the version is this one's.
LEMMA RowDecoded ==
  ASSUME NEW doc, Written(doc)
  PROVE  LET u == Upgraded(RetireLegacyDrives(doc)) IN
         /\ Came(doc, u) /\ Without(u, {"jump_drive"})
         /\ u.version = StateVersion /\ u.sys # "" /\ (doc.sys # "" => u.sys = doc.sys)
         /\ u.world \in {"", u.sys}
<1> DEFINE r == RetireLegacyDrives(doc)
           u == Upgraded(r)
<1>1. Came(doc, r) /\ Without(r, {"jump_drive"}) /\ r.sys = doc.sys BY DrivesRetired
<1> HIDE DEF r
<1>2. IsSave(r) BY <1>1 DEF Came
<1>3. /\ IsSave(u) /\ u.ships = r.ships /\ u.stock = r.stock /\ u.active = r.active
      /\ u.credits = r.credits /\ u.log = r.log /\ u.rating = r.rating /\ u.runs = r.runs
      /\ u.visited = r.visited /\ u.fuel = r.fuel /\ u.world = r.world
      /\ u.version = StateVersion /\ u.sys # "" /\ (r.sys # "" => u.sys = r.sys)
      /\ r.world = "" \/ r.sys \in {"", r.world} => u.world \in {"", u.sys}
  BY <1>2, VersionSet
<1> HIDE DEF u
<1>4. \A x : Without(r, {x}) => Without(u, {x}) BY <1>3 DEF Without
<1>5. Came(doc, u) BY <1>1, <1>3, <1>4 DEF Came
<1>6. r.world = "" \/ r.sys \in {"", r.world} BY <1>1 DEF Came, Written
<1>7. QED BY <1>1, <1>3, <1>4, <1>5, <1>6 DEF u, r

\* What a step on the whole fleet leaves alone.
RestOfPilot(s, t) ==
    /\ t.version = s.version /\ t.credits = s.credits /\ t.sys = s.sys /\ t.permit = s.permit
    /\ t.log = s.log /\ t.rating = s.rating /\ t.visited = s.visited /\ t.runs = s.runs
    /\ t.live = s.live /\ t.stock = s.stock /\ t.world = s.world

\* Hulls that are no longer on offer are dropped.
LEMMA FleetFiltered ==
  ASSUME NEW s, IsSave(s), Resolvable(s)
  PROVE  LET t == Fleet(s) IN
         /\ IsSave(t) /\ RestOfPilot(s, t) /\ t.active = s.active /\ t.fuel = s.fuel
         /\ DOMAIN t.ships = {id \in DOMAIN s.ships : Known(s, id)}
         /\ \A id \in DOMAIN t.ships : t.ships[id] = s.ships[id]
<1> DEFINE gone == {id \in DOMAIN s.ships : ~Known(s, id)}
           D == DOMAIN s.ships \ gone
           g == [id \in D |-> s.ships[id]]
           un == s.unlocked \ gone
           t == Fleet(s)
<1>1. t = [s EXCEPT !.ships = g, !.unlocked = un] BY DEF Fleet
<1>2. IsFiniteSet(D) BY ShipsType, FS_Subset
<1>3. g \in [D -> Hulls] /\ DOMAIN g = D /\ \A id \in D : g[id] = s.ships[id] BY ShipsType
<1>4. D = {id \in DOMAIN s.ships : Known(s, id)} OBVIOUS
<1>5. un \in SUBSET STRING BY DEF IsSave
<1> HIDE DEF g, un, t, D
<1>6. IsSave(t)
  <2> DEFINE S == [DOMAIN s.ships -> Hulls]
             G == [D -> Hulls]
  <2>1. s \in SaveOver(S) /\ g \in G BY <1>3, SavesOver
  <2> HIDE DEF S, G
  <2>2. t \in SaveOver(G) BY <1>1, <1>5, <2>1 DEF SaveOver
  <2>3. QED BY <1>2, <2>2, SavesOver DEF G
<1>7. RestOfPilot(s, t) /\ t.active = s.active /\ t.fuel = s.fuel /\ t.ships = g
  BY <1>1 DEF IsSave, RestOfPilot
<1>8. QED BY <1>3, <1>4, <1>6, <1>7 DEF t

LEMMA FreshShips ==
  ASSUME NEW m \in DOMAIN Models, m \in STRING, NEW sys \in STRING
  PROVE  LET h == FreshShip(m, sys) IN
         /\ h \in Hulls /\ h.model = m /\ Sound(h) /\ Len(h.internal) = Models[m]
         /\ h.sys = sys /\ LoadFits(h.slots)
         /\ AddonsAt(h.slots) = {} /\ AddonsAt(h.internal) = {} /\ \A x : HullLacks(h, {x})
<1> DEFINE a == <<None, None>>
           b == [i \in 1 .. Models[m] |-> None]
           none == "none"
           h == FreshShip(m, sys)
<1>1. Models[m] \in Nat BY CodecAssumption
<1>2. a \in Slots /\ DOMAIN a = 1 .. 2 /\ \A i \in 1 .. 2 : a[i] = None BY DEF Slots
<1>3. b \in Slots /\ Len(b) = Models[m] /\ \A i \in DOMAIN b : b[i] = None BY <1>1 DEF Slots
<1>4. none \in STRING BY NamesAssumption
<1>5. h = [model |-> m, sys |-> sys, hull |-> MaxHull, base |-> StartFuel, shield |-> none,
           slots |-> a, internal |-> b]
  BY DEF FreshShip
<1> HIDE DEF a, b, none, h
<1>6. /\ h \in Hulls /\ h.model = m /\ h.sys = sys /\ h.hull = MaxHull /\ h.base = StartFuel
      /\ h.slots = a /\ h.internal = b
  BY <1>2, <1>3, <1>4, <1>5, Numbers DEF Hulls
<1>7. \A i \in DOMAIN a : a[i] = None BY <1>2
<1>8. Tanks(a) = {} /\ AddonsAt(a) = {} /\ AddonsAt(b) = {} BY <1>3, <1>7 DEF Tanks, Is, AddonsAt
<1>9. Sound(h) BY <1>6, <1>8, Numbers DEF Sound, FuelFits
<1>10. LoadFits(a) BY <1>7 DEF LoadFits, Is
<1>11. \A x : HullLacks(h, {x}) BY <1>3, <1>6, <1>7 DEF HullLacks, Lacks
<1>12. QED BY <1>3, <1>6, <1>8, <1>9, <1>10, <1>11 DEF h

\* A save without a hull to fly gets the starter.
LEMMA FleetGranted ==
  ASSUME NEW s, IsSave(s), ~Resolvable(s), Starter \in DOMAIN Models
  PROVE  LET t == Fleet(s) IN
         /\ IsSave(t) /\ RestOfPilot(s, t) /\ t.active = Starter
         /\ DOMAIN t.ships = {Starter} /\ t.ships[Starter] = FreshShip(Starter, s.sys)
<1> DEFINE D == {Starter}
           f == FreshShip(Starter, s.sys)
           g == [id \in D |-> f]
           un == s.unlocked \cup {Starter}
           t == Fleet(s)
           u == GrantStarterShip(s)
           a == Starter
<1>1. Starter \in STRING /\ s.sys \in STRING BY NamesAssumption DEF IsSave
<1>2. f \in Hulls BY <1>1, FreshShips
<1>3. IsFiniteSet(D) BY FS_Singleton
<1>4. t = [u EXCEPT !.fuel = StartFuel, !.hull = MaxHull] BY DEF Fleet
<1>5. u = [s EXCEPT !.ships = g, !.active = a, !.unlocked = un] BY DEF GrantStarterShip
<1>6. g \in [D -> Hulls] /\ DOMAIN g = D /\ g[Starter] = f BY <1>2
<1>7. un \in SUBSET STRING BY <1>1 DEF IsSave
<1>8. a \in STRING BY <1>1
<1> HIDE DEF g, un, t, D, u, f, a
<1>9. u \in SaveOver([D -> Hulls])
  <2> DEFINE S == [DOMAIN s.ships -> Hulls]
             G == [D -> Hulls]
  <2>1. s \in SaveOver(S) /\ g \in G BY <1>6, SavesOver
  <2> HIDE DEF S, G
  <2>2. u \in SaveOver(G) BY <1>5, <1>7, <1>8, <2>1 DEF SaveOver
  <2>3. QED BY <2>2 DEF G
<1>10. u.ships = g /\ u.active = a /\ RestOfPilot(s, u) BY <1>5 DEF IsSave, RestOfPilot
<1>11. t \in SaveOver([D -> Hulls])
  <2> DEFINE G == [D -> Hulls]
  <2>1. u \in SaveOver(G) BY <1>9
  <2> HIDE DEF G
  <2> DEFINE x == StartFuel
             y == MaxHull
  <2>2. x \in Nat /\ y \in Int BY Numbers
  <2>3. t = [u EXCEPT !.fuel = x, !.hull = y] BY <1>4
  <2> HIDE DEF x, y
  <2>4. t \in SaveOver(G) BY <2>1, <2>2, <2>3 DEF SaveOver
  <2>5. QED BY <2>4 DEF G
<1>12. IsSave(t) /\ DOMAIN t.ships = D BY <1>3, <1>11, SavesOver
<1>13. t.ships = u.ships /\ t.active = u.active /\ RestOfPilot(u, t)
  <2> DEFINE G == [D -> Hulls]
  <2>1. u \in SaveOver(G) BY <1>9
  <2> HIDE DEF G
  <2>2. QED BY <1>4, <2>1 DEF SaveOver, RestOfPilot
<1>14. RestOfPilot(s, t) BY <1>10, <1>13 DEF RestOfPilot
<1>15. QED BY <1>6, <1>10, <1>12, <1>13, <1>14 DEF t, f, D, a

AddonCount(s) ==
    Fittings(s.stock) + SumFunction([id \in DOMAIN s.ships |->
        Fittings(s.ships[id].slots) + Fittings(s.ships[id].internal)])

LEMMA AddonsCounted ==
  ASSUME NEW l, NEW m, AddonsAt(m) = AddonsAt(l) PROVE Fittings(m) = Fittings(l)
  BY DEF Fittings, AddonsAt

\* The same hulls with the same add-ons.
LEMMA SameAddonCount ==
  ASSUME NEW s, NEW t, DOMAIN t.ships = DOMAIN s.ships, Fittings(t.stock) = Fittings(s.stock),
         \A id \in DOMAIN s.ships : /\ AddonsAt(t.ships[id].slots) = AddonsAt(s.ships[id].slots)
                                    /\ AddonsAt(t.ships[id].internal) = AddonsAt(s.ships[id].internal)
  PROVE  AddonCount(t) = AddonCount(s)
<1> DEFINE f(x) == [id \in DOMAIN x.ships |-> Fittings(x.ships[id].slots) + Fittings(x.ships[id].internal)]
<1>1. \A id \in DOMAIN s.ships : /\ Fittings(t.ships[id].slots) = Fittings(s.ships[id].slots)
                                 /\ Fittings(t.ships[id].internal) = Fittings(s.ships[id].internal)
  BY AddonsCounted
<1>2. f(t) = f(s) BY <1>1
<1>3. QED BY <1>2 DEF AddonCount

\* A save that can be flown, in this release.
Ready(s) ==
    /\ IsSave(s) /\ s.version = StateVersion /\ s.sys # "" /\ s.active \in DOMAIN s.ships
    /\ DOMAIN s.ships \subseteq STRING
    /\ \A id \in DOMAIN s.ships :
          Known(s, id) /\ Len(s.ships[id].internal) <= Models[s.ships[id].model]

LEMMA KeptReady ==
  ASSUME NEW s, NEW t, Ready(s), KeptSave(s, t)
  PROVE  Ready(t) /\ AddonCount(t) = AddonCount(s)
<1>1. Fittings(t.stock) = Fittings(s.stock) BY AddonsCounted DEF KeptSave, From
<1>2. AddonCount(t) = AddonCount(s) BY <1>1, SameAddonCount DEF KeptSave, HullFrom, From
<1>3. \A id \in DOMAIN t.ships :
        /\ t.ships[id].model = s.ships[id].model
        /\ Len(t.ships[id].internal) = Len(s.ships[id].internal)
  BY DEF KeptSave, HullFrom, From
<1>4. Ready(t) BY <1>3 DEF Ready, KeptSave, Rest, Known
<1>5. QED BY <1>2, <1>4

\* The save after its row was decoded and its fleet gone through.
LEMMA Started ==
  ASSUME NEW doc, Written(doc), catalog \in Catalogs
  PROVE  LET t == Fleet(Upgraded(RetireLegacyDrives(doc)))
             a == doc.active
         IN /\ Ready(t) /\ Without(t, {"jump_drive"}) /\ (doc.version < 8 => OldSave(t))
            /\ \A x \in Retired : Without(doc, {x}) => Without(t, {x})
            /\ t.credits = doc.credits /\ t.log = doc.log /\ t.rating = doc.rating
            /\ t.runs = doc.runs /\ t.visited = doc.visited /\ (doc.sys # "" => t.sys = doc.sys)
            /\ t.world \in {"", t.sys}
            /\ Resolvable(doc) => /\ t.active = a /\ t.fuel = doc.fuel
                                  /\ SameCondition(doc.ships[a], t.ships[a])
            /\ HullsOnOffer(doc) => AddonCount(t) = AddonCount(doc)
<1> DEFINE u == Upgraded(RetireLegacyDrives(doc))
           t == Fleet(u)
           a == doc.active
<1>1. /\ Came(doc, u) /\ Without(u, {"jump_drive"})
      /\ u.version = StateVersion /\ u.sys # "" /\ (doc.sys # "" => u.sys = doc.sys)
      /\ u.world \in {"", u.sys}
  BY RowDecoded
<1> HIDE DEF u
<1>2. IsSave(doc) /\ IsSave(u) BY <1>1 DEF Written, Came
<1>3. DOMAIN u.ships = DOMAIN doc.ships /\ u.active = a
      /\ \A id \in DOMAIN doc.ships :
           /\ u.ships[id].model = doc.ships[id].model
           /\ Len(u.ships[id].internal) = Len(doc.ships[id].internal)
           /\ AddonsAt(u.ships[id].slots) = AddonsAt(doc.ships[id].slots)
           /\ AddonsAt(u.ships[id].internal) = AddonsAt(doc.ships[id].internal)
  BY <1>1 DEF Came, HullFrom, From
<1>4. Resolvable(u) <=> Resolvable(doc) BY <1>3 DEF Resolvable, Known
<1>5. \A id \in DOMAIN doc.ships : Known(u, id) <=> Known(doc, id) BY <1>3 DEF Known
<1>6. Starter \in catalog /\ catalog \subseteq DOMAIN Models BY CodecAssumption
<1>7. AddonCount(u) = AddonCount(doc)
  <2>1. Fittings(u.stock) = Fittings(doc.stock) BY <1>1 DEF Came
  <2>2. QED BY <1>3, <2>1, SameAddonCount
<1>8. doc.version < 8 => OldSave(u)
  <2>1. ASSUME NEW id \in DOMAIN doc.ships, doc.version < 8 PROVE OldInternal(doc.ships[id].internal)
    <3> DEFINE l == doc.ships[id].internal
    <3>1. l \in Slots BY <1>2, ShipsType DEF Hulls
    <3>2. Len(l) <= 1 /\ Lacks(l, {"mass_driver"}) BY <2>1 DEF Written
    <3> HIDE DEF l
    <3>3. DOMAIN l \subseteq {1} BY <3>1, <3>2 DEF Slots
    <3>4. QED BY <3>2, <3>3 DEF OldInternal, AddonsAt, l
  <2>2. \A id \in DOMAIN doc.ships : HullFrom(doc.ships[id], u.ships[id]) BY <1>1 DEF Came
  <2>3. QED BY <1>3, <2>1, <2>2, OldHulls DEF OldSave
<1>9. CASE Resolvable(doc)
  <2>1. /\ IsSave(t) /\ RestOfPilot(u, t) /\ t.active = u.active /\ t.fuel = u.fuel
        /\ DOMAIN t.ships = {id \in DOMAIN u.ships : Known(u, id)}
        /\ \A id \in DOMAIN t.ships : t.ships[id] = u.ships[id]
    BY <1>2, <1>4, <1>9, FleetFiltered
  <2> HIDE DEF t
  <2>2. t.active \in DOMAIN t.ships BY <1>3, <1>4, <1>9, <2>1 DEF Resolvable
  <2>3. ASSUME NEW id \in DOMAIN t.ships
        PROVE  Known(t, id) /\ Len(t.ships[id].internal) <= Models[t.ships[id].model]
    <3>1. id \in DOMAIN doc.ships /\ t.ships[id] = u.ships[id] /\ Known(u, id) BY <1>3, <2>1
    <3>2. u.ships[id].model \in DOMAIN Models BY <1>6, <3>1 DEF Known
    <3>3. Len(doc.ships[id].internal) <= Models[doc.ships[id].model] BY <1>3, <3>1, <3>2 DEF Written
    <3>4. QED BY <1>3, <3>1, <3>3 DEF Known
  <2>4. Ready(t) BY <1>1, <1>3, <2>1, <2>2, <2>3 DEF Ready, RestOfPilot, Written
  <2>5. \A x : Without(u, {x}) => Without(t, {x}) BY <2>1 DEF Without, RestOfPilot
  <2>6. SameCondition(doc.ships[a], t.ships[a]) BY <1>1, <1>3, <2>1, <2>2 DEF Came
  <2>7. ASSUME HullsOnOffer(doc) PROVE AddonCount(t) = AddonCount(u)
    <3>1. DOMAIN t.ships = DOMAIN u.ships BY <1>3, <1>5, <2>1, <2>7 DEF HullsOnOffer
    <3>2. QED BY <2>1, <3>1, SameAddonCount DEF RestOfPilot
  <2>8. doc.version < 8 => OldSave(t) BY <1>8, <2>1 DEF OldSave
  <2>9. QED BY <1>1, <1>7, <2>1, <2>4, <2>5, <2>6, <2>7, <2>8 DEF RestOfPilot, Came, u, t
<1>10. CASE ~Resolvable(doc)
  <2>1. /\ IsSave(t) /\ RestOfPilot(u, t) /\ t.active = Starter
        /\ DOMAIN t.ships = {Starter} /\ t.ships[Starter] = FreshShip(Starter, u.sys)
    BY <1>2, <1>4, <1>6, <1>10, FleetGranted
  <2> DEFINE h == FreshShip(Starter, u.sys)
  <2>2. /\ h \in Hulls /\ h.model = Starter /\ Len(h.internal) = Models[Starter]
        /\ AddonsAt(h.slots) = {} /\ AddonsAt(h.internal) = {} /\ \A x : HullLacks(h, {x})
    <3>1. u.sys \in STRING /\ Starter \in STRING BY <1>2, NamesAssumption DEF IsSave
    <3>2. QED BY <1>6, <3>1, FreshShips
  <2> HIDE DEF h, t
  <2>3. t.ships[Starter] = h BY <2>1 DEF h
  <2>4. Ready(t)
    <3>1. Models[Starter] \in Nat BY <1>6, CodecAssumption
    <3>2. \A id \in DOMAIN t.ships : Known(t, id) /\ Len(t.ships[id].internal) <= Models[t.ships[id].model]
      BY <1>6, <2>1, <2>2, <2>3, <3>1 DEF Known
    <3>3. QED BY <1>1, <2>1, <3>2, NamesAssumption DEF Ready, RestOfPilot
  <2>5. \A x : Without(u, {x}) => Without(t, {x})
    BY <2>1, <2>2, <2>3 DEF Without, RestOfPilot, HullLacks
  <2>6. ASSUME HullsOnOffer(doc) PROVE AddonCount(t) = AddonCount(u)
    <3>1. DOMAIN u.ships = {}
      <4>1. a \notin DOMAIN doc.ships BY <1>10, <2>6 DEF Resolvable, HullsOnOffer
      <4>2. QED BY <1>3, <4>1 DEF Written
    <3> DEFINE f(x) == [id \in DOMAIN x.ships |-> Fittings(x.ships[id].slots) + Fittings(x.ships[id].internal)]
    <3>2. SumFunction(f(u)) = 0
      <4>1. DOMAIN f(u) = {} BY <3>1
      <4>2. QED BY <4>1, SumEmpty DEF SumFunction
    <3>3. SumFunction(f(t)) = 0
      <4>1. DOMAIN f(t) = {Starter} BY <2>1
      <4>2. Fittings(h.slots) = 0 /\ Fittings(h.internal) = 0
        BY <2>2, FS_EmptySet DEF Fittings, AddonsAt
      <4>3. \A x \in DOMAIN f(t) : f(t)[x] = 0 BY <2>1, <2>3, <4>1, <4>2
      <4>4. IsFiniteSet(DOMAIN f(t)) BY <4>1, FS_Singleton
      <4> HIDE DEF f
      <4>5. QED BY <4>3, <4>4, SumZero DEF SumFunction
    <3>4. t.stock = u.stock BY <2>1 DEF RestOfPilot
    <3>5. QED BY <3>2, <3>3, <3>4 DEF AddonCount
  <2>7. OldSave(t) BY <2>1, <2>2, <2>3 DEF OldSave, OldInternal, HullLacks
  <2>8. QED BY <1>1, <1>7, <1>10, <2>1, <2>4, <2>5, <2>6, <2>7 DEF RestOfPilot, Came, u, t
<1>11. QED BY <1>9, <1>10

\* The stages of DecodeState between the fleet and the frontier.
Halt(s) == [s EXCEPT !.live = FALSE]
Shields(s, v) == IF v < 3 THEN Restored(s) ELSE s
Launchers(s, v) == IF v < 5 THEN MigrateEMPLaunchers(s) ELSE s
Migrated(s, v) == Upgrades(Conditions(Launchers(Shields(Halt(s), v), v), v), v)

LEMMA KeptItself == ASSUME NEW s, IsSave(s) PROVE KeptSave(s, s)
<1>1. From(s.stock, s.stock) BY StockSlots, FromItself
<1>2. QED BY <1>1, StockSlots, ShipsType, HullFromItself DEF KeptSave, Rest

LEMMA Halted ==
  ASSUME NEW s, IsSave(s)
  PROVE  KeptSave(s, Halt(s)) /\ Halt(s).ships = s.ships /\ Halt(s).fuel = s.fuel
<1> DEFINE off == FALSE
           t == Halt(s)
           G == [DOMAIN s.ships -> Hulls]
<1>1. t = [s EXCEPT !.live = off] /\ off \in BOOLEAN BY DEF Halt
<1>2. s \in SaveOver(G) /\ IsFiniteSet(DOMAIN s.ships) BY SavesOver
<1> HIDE DEF off, t, G
<1>3. t \in SaveOver(G) BY <1>1, <1>2 DEF SaveOver
<1>4. IsSave(t) BY <1>2, <1>3, SavesOver DEF G
<1>5. t.ships = s.ships /\ t.fuel = s.fuel /\ t.stock = s.stock /\ Rest(s, t)
  BY <1>1, <1>2 DEF SaveOver, Rest
<1>6. From(s.stock, s.stock) BY StockSlots, FromItself
<1>7. KeptSave(s, t) BY <1>4, <1>5, <1>6, StockSlots, ShipsType, HullFromItself DEF KeptSave
<1>8. QED BY <1>5, <1>7 DEF t

\* Two steps that leave the condition of the hull flown alone.
LEMMA SameConditionSame ==
  ASSUME NEW h, NEW g, NEW k, SameCondition(h, g), SameCondition(g, k) PROVE SameCondition(h, k)
  BY DEF SameCondition, SameTanks

LEMMA ShieldStage ==
  ASSUME NEW s, IsSave(s), NEW v \in Nat
  PROVE  LET t == Shields(s, v) IN
         /\ KeptSave(s, t) /\ t.fuel = s.fuel
         /\ \A id \in DOMAIN s.ships : SameCondition(s.ships[id], t.ships[id])
<1>1. CASE v < 3
  <2>1. Shields(s, v) = Restored(s) BY <1>1 DEF Shields
  <2>2. QED BY <2>1, ShieldsRestored
<1>2. CASE ~(v < 3)
  <2>1. Shields(s, v) = s BY <1>2 DEF Shields
  <2>2. QED BY <2>1, KeptItself, ShipsType, HullFromItself
<1>3. QED BY <1>1, <1>2

LEMMA LauncherStage ==
  ASSUME NEW s, IsSave(s), NEW v \in Nat, v < 8 => OldSave(s)
  PROVE  LET t == Launchers(s, v) IN
         /\ KeptSave(s, t) /\ t.fuel = s.fuel /\ (v < 5 => Without(t, {"chaff"}))
         /\ \A id \in DOMAIN s.ships : SameCondition(s.ships[id], t.ships[id])
<1>1. CASE v < 5
  <2>1. Launchers(s, v) = Renamed(s, "chaff", "emp_launcher", {1}) BY <1>1 DEF Launchers, MigrateEMPLaunchers
  <2>2. "chaff" \in STRING \ {"fuel_tank", "jump_drive"}
        /\ "emp_launcher" \in STRING \ ({"fuel_tank", "chaff"} \cup Retired)
    BY NamesAssumption DEF Retired
  <2>3. \A id \in DOMAIN s.ships : OnlyIn(s.ships[id].internal, "chaff", {1}) BY <1>1, OldLooked
  <2> DEFINE r == Renamed(s, "chaff", "emp_launcher", {1})
  <2>4. /\ KeptSave(s, r) /\ Without(r, {"chaff"}) /\ r.fuel = s.fuel
        /\ \A id \in DOMAIN s.ships : SameCondition(s.ships[id], r.ships[id])
    BY <2>2, <2>3, RenamedSaves
  <2>5. Launchers(s, v) = r BY <2>1
  <2> HIDE DEF r
  <2>6. QED BY <2>4, <2>5
<1>2. CASE ~(v < 5)
  <2>1. Launchers(s, v) = s BY <1>2 DEF Launchers
  <2>2. QED BY <1>2, <2>1, KeptItself, ShipsType, HullFromItself
<1>3. QED BY <1>1, <1>2

\* The migrations of hulls: sound and armed, no device of an older release,
\* and the fuel that the save had for the hull flown, or what of it fits.
LEMMA MigratedStages ==
  ASSUME NEW s, Ready(s), NEW v \in Nat, v < 8 => OldSave(s)
  PROVE  LET t == Migrated(s, v)
             a == s.active
             was == IF v < 6 THEN s.fuel ELSE FuelAmount(s.ships[a])
         IN /\ KeptSave(s, t) /\ SoundSave(t) /\ ArmedSave(t)
            /\ v < 5 => Without(t, {"chaff"})
            /\ v < 7 => Without(t, {"mass_driver"})
            /\ FuelAmount(t.ships[a]) = Least(FuelCapacity(t.ships[a]), was)
<1> DEFINE a == s.active
           b == Halt(s)
           c == Shields(b, v)
           d == Launchers(c, v)
           e == Conditions(d, v)
           t == Upgrades(e, v)
           was == IF v < 6 THEN s.fuel ELSE FuelAmount(s.ships[a])
<1>1. IsSave(s) /\ a \in DOMAIN s.ships BY DEF Ready
<1>2. KeptSave(s, b) /\ b.ships = s.ships /\ b.fuel = s.fuel BY <1>1, Halted
<1>3. IsSave(b) BY <1>2 DEF KeptSave
<1> HIDE DEF b
<1>4. /\ KeptSave(b, c) /\ c.fuel = b.fuel
      /\ \A id \in DOMAIN b.ships : SameCondition(b.ships[id], c.ships[id])
  BY <1>3, ShieldStage
<1>5. IsSave(c) /\ DOMAIN c.ships = DOMAIN s.ships BY <1>2, <1>4 DEF KeptSave
<1> HIDE DEF c
<1>6. v < 8 => OldSave(c) BY <1>2, <1>4, OldKept
<1>7. /\ KeptSave(c, d) /\ d.fuel = c.fuel /\ (v < 5 => Without(d, {"chaff"}))
      /\ \A id \in DOMAIN c.ships : SameCondition(c.ships[id], d.ships[id])
  BY <1>5, <1>6, LauncherStage
<1> HIDE DEF d
<1>8. KeptSave(s, d) /\ d.fuel = s.fuel
  <2>1. KeptSave(s, c) BY <1>2, <1>4, KeptKept
  <2>2. QED BY <2>1, <1>2, <1>4, <1>7, KeptKept
<1>9. IsSave(d) /\ d.active = a /\ DOMAIN d.ships = DOMAIN s.ships BY <1>8 DEF KeptSave, Rest
<1>10. d.ships[a] \in Hulls /\ s.ships[a] \in Hulls BY <1>1, <1>9, ShipsType
<1>11. FuelAmount(d.ships[a]) = FuelAmount(s.ships[a])
  <2>1. SameCondition(s.ships[a], c.ships[a]) BY <1>1, <1>2, <1>4
  <2>2. SameCondition(c.ships[a], d.ships[a]) BY <1>1, <1>5, <1>7
  <2>3. SameCondition(s.ships[a], d.ships[a]) BY <2>1, <2>2, SameConditionSame
  <2>4. QED BY <1>10, <2>3, SameConditionKeeps
<1>12. was = IF v < 6 THEN d.fuel ELSE FuelAmount(d.ships[a]) BY <1>8, <1>11
<1> HIDE DEF was
<1>13. KeptSave(d, e) /\ SoundSave(e) /\ FuelAmount(e.ships[a]) = Least(FuelCapacity(e.ships[a]), was)
  BY <1>1, <1>9, <1>12, Conditioned
<1> HIDE DEF e
<1>14. IsSave(e) /\ DOMAIN e.ships = DOMAIN s.ships BY <1>9, <1>13 DEF KeptSave
<1>15. v < 8 => OldSave(e) BY <1>8, <1>13, OldKept
<1>16. /\ KeptSave(e, t) /\ ArmedSave(t)
       /\ \A id \in DOMAIN e.ships : SameCondition(e.ships[id], t.ships[id])
       /\ v < 7 => Without(t, {"mass_driver"})
  BY <1>14, <1>15, Upgraded7
<1> HIDE DEF t
<1>17. IsSave(t) /\ DOMAIN t.ships = DOMAIN e.ships BY <1>16 DEF KeptSave
<1>18. KeptSave(d, t) /\ KeptSave(s, t)
  <2>1. KeptSave(d, t) BY <1>13, <1>16, KeptKept
  <2>2. QED BY <1>8, <2>1, KeptKept
<1>19. \A id \in DOMAIN e.ships : /\ Sound(e.ships[id]) => Sound(t.ships[id])
                                  /\ FuelAmount(t.ships[id]) = FuelAmount(e.ships[id])
                                  /\ FuelCapacity(t.ships[id]) = FuelCapacity(e.ships[id])
  <2>1. \A id \in DOMAIN e.ships : e.ships[id] \in Hulls /\ t.ships[id] \in Hulls
    BY <1>14, <1>17, ShipsType
  <2>2. QED BY <1>16, <2>1, SameConditionKeeps
<1>20. SoundSave(t) BY <1>13, <1>17, <1>19 DEF SoundSave
<1>21. FuelAmount(t.ships[a]) = Least(FuelCapacity(t.ships[a]), was) BY <1>1, <1>13, <1>14, <1>19
<1>22. v < 5 => Without(t, {"chaff"}) BY <1>7, <1>18, Lacking DEF Retired
<1>23. Migrated(s, v) = t BY DEF Migrated, t, e, d, c, b
<1>24. QED BY <1>16, <1>18, <1>20, <1>21, <1>22, <1>23 DEF was

LEMMA DrivesNumber == ASSUME NEW s, IsSave(s) PROVE DriveCount(s) \in Nat
<1> DEFINE f == [id \in DOMAIN s.ships |-> Cardinality(Drives(s.ships[id].slots))
                                             + Cardinality(Drives(s.ships[id].internal))]
<1>1. ASSUME NEW l \in Slots PROVE Cardinality(Drives(l)) \in Nat
  <2>1. Len(l) \in Nat /\ DOMAIN l = 1 .. Len(l) BY DEF Slots
  <2>2. IsFiniteSet(1 .. Len(l)) BY <2>1, FS_Interval
  <2>3. Drives(l) \in SUBSET (1 .. Len(l)) BY <2>1 DEF Drives
  <2>4. QED BY <2>2, <2>3, FS_Subset, FS_CardinalityType
<1>2. Cardinality(Drives(s.stock)) \in Nat BY <1>1, StockSlots
<1>3. ASSUME NEW id \in DOMAIN s.ships PROVE f[id] \in Nat
  <2>1. s.ships[id].slots \in Slots /\ s.ships[id].internal \in Slots BY ShipsType DEF Hulls
  <2>2. QED BY <2>1, <1>1
<1>4. DOMAIN f = DOMAIN s.ships /\ IsFiniteSet(DOMAIN f) BY ShipsType
<1> HIDE DEF f
<1>5. SumFunction(f) \in Nat BY <1>3, <1>4, SumFunctionType
<1>6. QED BY <1>2, <1>5 DEF DriveCount, f

\* A hull somewhere else is the same hull.
LEMMA MovedHulls ==
  ASSUME NEW h \in Hulls, NEW sys \in STRING
  PROVE  LET g == [h EXCEPT !.sys = sys] IN
         HullFrom(h, g) /\ SameCondition(h, g) /\ g.slots = h.slots /\ g.internal = h.internal
<1> DEFINE g == [h EXCEPT !.sys = sys]
<1>1. g \in Hulls /\ g.slots = h.slots /\ g.internal = h.internal /\ g.model = h.model
      /\ g.hull = h.hull /\ g.base = h.base
  BY DEF Hulls
<1> HIDE DEF g
<1>2. h.slots \in Slots /\ h.internal \in Slots BY DEF Hulls
<1>3. QED BY <1>1, <1>2, FromItself DEF HullFrom, SameCondition, g

\* The rating, the refund, the visits and the runs of migrateFrontier.
LEMMA FrontierMigrated ==
  ASSUME NEW s, IsSave(s), NEW drives \in Nat, NEW permit \in BOOLEAN
  PROVE  LET t == MigrateFrontier(s, drives, permit) IN
         /\ IsSave(t) /\ t.version = s.version /\ t.sys = s.sys /\ t.world = s.world
         /\ t.active = s.active /\ t.stock = s.stock /\ t.sys \in t.visited /\ DOMAIN t.ships = DOMAIN s.ships
         /\ t.rating = (IF drives > 0 \/ permit THEN 0 ELSE -1)
         /\ t.credits = s.credits + (IF drives > 1 THEN (drives - 1) * Refund ELSE 0)
         /\ t.runs = s.runs + Survived(s.log)
         /\ \A id \in DOMAIN s.ships : t.ships[id] = [s.ships[id] EXCEPT !.sys = s.sys]
<1> DEFINE g == [id \in DOMAIN s.ships |-> [s.ships[id] EXCEPT !.sys = s.sys]]
           u == [s EXCEPT !.ships = g]
           rating == IF drives > 0 \/ permit THEN 0 ELSE -1
           credits == s.credits + (IF drives > 1 THEN (drives - 1) * Refund ELSE 0)
           visited == s.visited \cup {Home, s.sys} \cup {r.sys : r \in ToSet(s.log)}
           runs == s.runs + Survived(s.log)
           t == MigrateFrontier(s, drives, permit)
<1>1. s.sys \in STRING /\ s.credits \in Int /\ s.visited \in SUBSET STRING /\ s.runs \in Nat
      /\ s.log \in Seq([what : STRING, sys : STRING])
  BY DEF IsSave
<1>2. \A id \in DOMAIN s.ships : HullFrom(s.ships[id], g[id]) BY <1>1, ShipsType, MovedHulls
<1>3. g = [id \in DOMAIN s.ships |-> g[id]]
      /\ \A id \in DOMAIN s.ships : g[id] = [s.ships[id] EXCEPT !.sys = s.sys]
  OBVIOUS
<1>4. t = [u EXCEPT !.rating = rating,
                    !.credits = u.credits + (IF drives > 1 THEN (drives - 1) * Refund ELSE 0),
                    !.visited = u.visited \cup {Home, s.sys} \cup {r.sys : r \in ToSet(s.log)},
                    !.runs = u.runs + Survived(s.log)]
  BY DEF MigrateFrontier, EachShip
<1> HIDE DEF g
<1>5. KeptSave(s, u) /\ u.ships = g /\ u.stock = s.stock BY <1>2, <1>3, ShipsKept
<1>6. IsSave(u) /\ u.version = s.version /\ u.sys = s.sys /\ u.world = s.world /\ u.active = s.active /\ u.credits = s.credits
      /\ u.visited = s.visited /\ u.runs = s.runs /\ DOMAIN u.ships = DOMAIN s.ships
  BY <1>5 DEF KeptSave, Rest
<1> HIDE DEF u
<1>7. t = [u EXCEPT !.rating = rating, !.credits = credits, !.visited = visited, !.runs = runs]
  BY <1>4, <1>6
<1>8. rating \in Int OBVIOUS
<1>9. credits \in Int
  <2> DEFINE x == (drives - 1) * Refund
  <2>1. x \in Int BY Numbers
  <2> HIDE DEF x
  <2>2. QED BY <1>1, <2>1 DEF x
<1>10. visited \in SUBSET STRING /\ s.sys \in visited
  <2>1. Home \in STRING BY NamesAssumption
  <2>2. \A r \in ToSet(s.log) : r.sys \in STRING
    <3> DEFINE log == s.log
    <3>1. log \in Seq([what : STRING, sys : STRING]) BY <1>1
    <3> HIDE DEF log
    <3> DEFINE R == [what : STRING, sys : STRING]
    <3>2. log \in Seq(R) BY <3>1
    <3> HIDE DEF R
    <3>3. \A i \in DOMAIN log : log[i] \in R BY <3>2
    <3>4. \A i \in DOMAIN log : log[i].sys \in STRING BY <3>3 DEF R
    <3>5. \A r \in ToSet(log) : r.sys \in STRING BY <3>4 DEF ToSet
    <3>6. QED BY <3>5 DEF log
  <2>3. QED BY <1>1, <2>1, <2>2
<1>11. runs \in Nat
  <2> DEFINE S == {i \in DOMAIN s.log : s.log[i].what = "survived"}
             n == Len(s.log)
  <2>1. S \in SUBSET (1 .. n) BY <1>1
  <2>2. n \in Nat BY <1>1
  <2> HIDE DEF n, S
  <2>3. IsFiniteSet(1 .. n) BY <2>2, FS_Interval
  <2>4. Cardinality(S) \in Nat BY <2>1, <2>3, FS_Subset, FS_CardinalityType
  <2>5. QED BY <1>1, <2>4 DEF Survived, S
<1> HIDE DEF t, rating, credits, visited, runs
<1>12. IsSave(t)
  <2> DEFINE G == [DOMAIN u.ships -> Hulls]
  <2>1. u \in SaveOver(G) /\ IsFiniteSet(DOMAIN u.ships) BY <1>6, SavesOver
  <2> HIDE DEF G
  <2>2. t \in SaveOver(G) BY <1>7, <1>8, <1>9, <1>10, <1>11, <2>1 DEF SaveOver
  <2>3. QED BY <2>1, <2>2, SavesOver DEF G
<1>13. /\ t.ships = g /\ t.version = s.version /\ t.sys = s.sys /\ t.world = s.world
       /\ t.active = s.active /\ t.stock = s.stock /\ t.rating = rating /\ t.credits = credits
       /\ t.visited = visited /\ t.runs = runs
  BY <1>5, <1>6, <1>7 DEF IsSave
<1>14. DOMAIN t.ships = DOMAIN s.ships BY <1>5, <1>6, <1>13
<1>15. QED BY <1>3, <1>10, <1>12, <1>13, <1>14 DEF t, rating, credits, runs

\* Empty slots added to a list that is too short.
PaddedList(l, n) == [i \in DOMAIN l \cup 1 .. n |-> IF i \in DOMAIN l THEN l[i] ELSE None]

LEMMA PaddedLists ==
  ASSUME NEW l \in Slots, NEW n \in Nat, Len(l) <= n
  PROVE  LET m == PaddedList(l, n) IN
         /\ m \in Slots /\ Len(m) = n /\ AddonsAt(m) = AddonsAt(l)
         /\ \A x : Lacks(l, {x}) => Lacks(m, {x})
         /\ Len(l) = n => m = l
<1> DEFINE m == PaddedList(l, n)
<1>1. Len(l) \in Nat /\ DOMAIN l = 1 .. Len(l) BY DEF Slots
<1>2. DOMAIN l \cup 1 .. n = 1 .. n /\ \A i \in DOMAIN l : i \in 1 .. n BY <1>1
<1>3. m = [i \in 1 .. n |-> IF i \in DOMAIN l THEN l[i] ELSE None] BY <1>2 DEF PaddedList
<1>4. \A i \in DOMAIN l : l[i] \in Devices \cup {None} BY DEF Slots
<1> HIDE DEF m
<1>5. DOMAIN m = 1 .. n /\ \A i \in 1 .. n : m[i] = IF i \in DOMAIN l THEN l[i] ELSE None BY <1>3
<1>6. \A i \in 1 .. n : m[i] \in Devices \cup {None} BY <1>4, <1>5
<1>7. m = [i \in 1 .. n |-> m[i]] BY <1>3, <1>5
<1>8. m \in Slots /\ Len(m) = n BY <1>6, <1>7 DEF Slots
<1>9. AddonsAt(m) = AddonsAt(l) BY <1>2, <1>5 DEF AddonsAt
<1>10. \A x : Lacks(l, {x}) => Lacks(m, {x}) BY <1>5 DEF Lacks
<1>11. ASSUME Len(l) = n PROVE m = l
  <2>1. DOMAIN l = 1 .. n BY <1>1, <1>11
  <2>2. \A i \in 1 .. n : m[i] = l[i] BY <1>5, <2>1
  <2>3. l = [i \in 1 .. n |-> l[i]] BY <2>1 DEF Slots
  <2>4. QED BY <1>7, <2>2, <2>3
<1>12. QED BY <1>8, <1>9, <1>10, <1>11 DEF m

\* Every internal slot of the model, and a place.
LEMMA PaddedHulls ==
  ASSUME NEW h \in Hulls, NEW sys \in STRING, sys # "", h.model \in DOMAIN Models,
         Len(h.internal) <= Models[h.model]
  PROVE  LET g == Padded(h, sys) IN
         /\ g \in Hulls /\ g.model = h.model /\ g.sys # "" /\ g.slots = h.slots
         /\ SameCondition(h, g) /\ Len(g.internal) = Models[h.model]
         /\ AddonsAt(g.internal) = AddonsAt(h.internal)
         /\ \A x : Lacks(h.internal, {x}) => Lacks(g.internal, {x})
         /\ h.sys # "" /\ Len(h.internal) = Models[h.model] => g = h
<1> DEFINE l == h.internal
           n == Models[h.model]
           m == PaddedList(l, n)
           at == IF h.sys = "" THEN sys ELSE h.sys
           g == Padded(h, sys)
<1>1. g = [h EXCEPT !.sys = at, !.internal = m] BY DEF Padded, PaddedList
<1>2. l \in Slots /\ h.slots \in Slots /\ h.sys \in STRING BY DEF Hulls
<1>3. n \in Nat /\ Len(l) <= n BY CodecAssumption
<1>4. at \in STRING /\ at # "" /\ (h.sys # "" => at = h.sys) BY <1>2
<1>5. /\ m \in Slots /\ Len(m) = n /\ AddonsAt(m) = AddonsAt(l)
      /\ \A x : Lacks(l, {x}) => Lacks(m, {x})
      /\ Len(l) = n => m = l
  BY <1>2, <1>3, PaddedLists
<1> HIDE DEF m, n, at, g
<1>6. /\ g \in Hulls /\ g.model = h.model /\ g.sys = at /\ g.slots = h.slots /\ g.internal = m
      /\ g.hull = h.hull /\ g.base = h.base
  BY <1>1, <1>4, <1>5 DEF Hulls
<1>7. SameCondition(h, g) BY <1>2, <1>6, FromItself DEF SameCondition
<1>8. h.sys # "" /\ Len(l) = n => g = h BY <1>1, <1>4, <1>5 DEF Hulls
<1>9. QED BY <1>4, <1>5, <1>6, <1>7, <1>8 DEF g, n

\* The pilot in the system of the world he is at.
AtWorld(s) == s.world \in {"", s.sys}

\* The last stages of DecodeState.
Frontier(s, v, drives, permit) == IF v < 8 THEN MigrateFrontier(s, drives, permit) ELSE s
PaddedSave(s) == EachShip(s, LAMBDA id : Padded(s.ships[id], s.sys))

LEMMA DecodeStages ==
  ASSUME NEW doc
  PROVE  DecodeState(doc) =
           LET v == doc.version
               s1 == Fleet(Upgraded(RetireLegacyDrives(doc)))
           IN SyncMirror(PaddedSave(Frontier(Migrated(s1, v), v, DriveCount(doc), doc.permit)))
  BY DEF DecodeState, Migrated, Frontier, PaddedSave, Halt, Shields, Restored, Launchers

\* A save as a process plays it.
WholeHull(h) ==
    /\ h.model \in catalog /\ h.sys # "" /\ Sound(h) /\ LoadFits(h.slots)
    /\ Len(h.internal) = Models[h.model] /\ HullLacks(h, Retired)

Whole(s) ==
    /\ IsSave(s) /\ s.version = StateVersion /\ s.active \in DOMAIN s.ships
    /\ DOMAIN s.ships \subseteq STRING
    /\ s.sys # "" /\ s.sys \in s.visited /\ s.world \in {"", s.sys} /\ Lacks(s.stock, Retired)
    /\ \A id \in DOMAIN s.ships : WholeHull(s.ships[id])

LEMMA LacksAll ==
  ASSUME NEW l, \A x \in Retired : Lacks(l, {x}) PROVE Lacks(l, Retired)
  BY DEF Lacks, Retired

LEMMA Finished ==
  ASSUME NEW s, Ready(s), SoundSave(s), ArmedSave(s), s.sys \in s.visited, AtWorld(s),
         \A x \in Retired : Without(s, {x}), catalog \in Catalogs
  PROVE  LET t == SyncMirror(PaddedSave(s))
             a == s.active
         IN /\ Whole(t) /\ AddonCount(t) = AddonCount(s) /\ t.active = a
            /\ t.credits = s.credits /\ t.rating = s.rating /\ t.runs = s.runs
            /\ FuelAmount(t.ships[a]) = FuelAmount(s.ships[a])
            /\ FuelCapacity(t.ships[a]) = FuelCapacity(s.ships[a])
<1> DEFINE D == DOMAIN s.ships
           a == s.active
           g == [id \in D |-> Padded(s.ships[id], s.sys)]
           u == [s EXCEPT !.ships = g]
           t == SyncMirror(u)
<1>1. PaddedSave(s) = u BY DEF PaddedSave, EachShip
<1>2. IsSave(s) /\ a \in D /\ s.sys # "" /\ s.version = StateVersion /\ s.sys \in STRING
      /\ D \subseteq STRING
  BY DEF Ready, IsSave
<1>3. catalog \subseteq DOMAIN Models BY CodecAssumption
<1>4. \A id \in D : g[id] = Padded(s.ships[id], s.sys) OBVIOUS
<1>5. DOMAIN g = D /\ g = [id \in D |-> g[id]] OBVIOUS
<1> HIDE DEF g
<1>6. ASSUME NEW id \in D
      PROVE  /\ g[id] \in Hulls /\ SameCondition(s.ships[id], g[id]) /\ WholeHull(g[id])
             /\ AddonsAt(g[id].slots) = AddonsAt(s.ships[id].slots)
             /\ AddonsAt(g[id].internal) = AddonsAt(s.ships[id].internal)
  <2> DEFINE h == s.ships[id]
             k == g[id]
  <2>1. h \in Hulls BY <1>2, ShipsType
  <2>2. h.model \in catalog /\ Len(h.internal) <= Models[h.model] BY DEF Ready, Known
  <2>3. Sound(h) /\ LoadFits(h.slots) BY DEF SoundSave, ArmedSave
  <2>4. \A x \in Retired : Lacks(h.slots, {x}) /\ Lacks(h.internal, {x}) BY DEF Without
  <2>5. k = Padded(h, s.sys) BY <1>4
  <2> HIDE DEF h, k
  <2>6. /\ k \in Hulls /\ k.model = h.model /\ k.sys # "" /\ k.slots = h.slots
        /\ SameCondition(h, k) /\ Len(k.internal) = Models[h.model]
        /\ AddonsAt(k.internal) = AddonsAt(h.internal)
        /\ \A x : Lacks(h.internal, {x}) => Lacks(k.internal, {x})
    BY <1>2, <1>3, <2>1, <2>2, <2>5, PaddedHulls
  <2>7. Sound(k) BY <2>1, <2>3, <2>6, SameConditionKeeps
  <2>8. HullLacks(k, Retired) BY <2>4, <2>6, LacksAll DEF HullLacks
  <2>9. WholeHull(k) BY <2>2, <2>3, <2>6, <2>7, <2>8 DEF WholeHull
  <2>10. QED BY <2>6, <2>9 DEF h, k
<1>7. IsFiniteSet(D) /\ g \in [D -> Hulls] BY <1>2, <1>5, <1>6, ShipsType
<1>8. IsSave(u) /\ u.ships = g /\ Rest(s, u) /\ u.stock = s.stock
  <2>1. IsSave(s) BY <1>2
  <2>2. IsFiniteSet(D) BY <1>7
  <2>3. g \in [D -> Hulls] BY <1>7
  <2>4. IsSave(u) /\ u.ships = g /\ Rest(s, u) /\ u.stock = s.stock /\ u.fuel = s.fuel /\ u.hull = s.hull
    BY <2>1, <2>2, <2>3, ShipsReplaced
  <2>5. QED BY <2>4
<1> HIDE DEF u
<1>9. u.active = a /\ u.active \in DOMAIN u.ships /\ Sound(u.ships[u.active])
  BY <1>2, <1>5, <1>6, <1>8 DEF Rest, WholeHull
<1>10. KeptSave(u, t) /\ t.ships = u.ships /\ t.stock = u.stock BY <1>8, <1>9, Synced
<1> HIDE DEF t
<1>11. IsSave(t) /\ Rest(u, t) BY <1>10 DEF KeptSave
<1>12. Rest(s, t) /\ t.ships = g /\ t.stock = s.stock BY <1>8, <1>10, <1>11 DEF Rest
<1>13. Lacks(s.stock, Retired) BY LacksAll DEF Without
<1>14. Whole(t) BY <1>2, <1>5, <1>6, <1>11, <1>12, <1>13 DEF Whole, Rest, AtWorld
<1>15. AddonCount(t) = AddonCount(s) BY <1>5, <1>6, <1>12, SameAddonCount
<1>16. FuelAmount(t.ships[a]) = FuelAmount(s.ships[a]) /\ FuelCapacity(t.ships[a]) = FuelCapacity(s.ships[a])
  BY <1>2, <1>6, <1>12, ShipsType, SameConditionKeeps
<1>17. QED BY <1>1, <1>12, <1>14, <1>15, <1>16 DEF Rest, t

\* What DecodeState makes of a row.
LEMMA Decoded ==
  ASSUME NEW doc, Written(doc), doc.version <= StateVersion, catalog \in Catalogs
  PROVE  LET t == DecodeState(doc) IN
         /\ Whole(t)
         /\ HullsOnOffer(doc) => Holdings(t) = Holdings(doc)
         /\ Resolvable(doc) => FuelAmount(t.ships[t.active])
                                 = Least(FuelCapacity(t.ships[t.active]), SavedFuel(doc))
<1> DEFINE v == doc.version
           n == DriveCount(doc)
           p == doc.permit
           s == Fleet(Upgraded(RetireLegacyDrives(doc)))
           m == Migrated(s, v)
           f == Frontier(m, v, n, p)
           t == SyncMirror(PaddedSave(f))
           a == s.active
<1>1. DecodeState(doc) = t BY DecodeStages
<1>2. IsSave(doc) BY DEF Written
<1>3. v \in Nat /\ p \in BOOLEAN /\ doc.credits \in Int /\ doc.runs \in Nat BY <1>2 DEF IsSave
<1>4. n \in Nat BY <1>2, DrivesNumber
<1>5. /\ Ready(s) /\ Without(s, {"jump_drive"}) /\ (v < 8 => OldSave(s))
      /\ \A x \in Retired : Without(doc, {x}) => Without(s, {x})
      /\ s.credits = doc.credits /\ s.log = doc.log /\ s.rating = doc.rating
      /\ s.runs = doc.runs /\ s.visited = doc.visited /\ (doc.sys # "" => s.sys = doc.sys)
      /\ s.world \in {"", s.sys}
      /\ Resolvable(doc) => /\ a = doc.active /\ s.fuel = doc.fuel
                            /\ SameCondition(doc.ships[doc.active], s.ships[doc.active])
      /\ HullsOnOffer(doc) => AddonCount(s) = AddonCount(doc)
  BY Started
<1> HIDE DEF s, n
<1> DEFINE was == IF v < 6 THEN s.fuel ELSE FuelAmount(s.ships[a])
<1>6. /\ KeptSave(s, m) /\ SoundSave(m) /\ ArmedSave(m)
      /\ v < 5 => Without(m, {"chaff"})
      /\ v < 7 => Without(m, {"mass_driver"})
      /\ FuelAmount(m.ships[a]) = Least(FuelCapacity(m.ships[a]), was)
  BY <1>3, <1>5, MigratedStages
<1> HIDE DEF m
<1>7. Ready(m) /\ AddonCount(m) = AddonCount(s) BY <1>5, <1>6, KeptReady
<1>8. \A x \in Retired : Without(m, {x})
  <2>1. ASSUME NEW x \in Retired, Without(s, {x}) PROVE Without(m, {x}) BY <1>6, <2>1, Lacking
  <2>2. Without(m, {"jump_drive"}) BY <1>5, <2>1 DEF Retired
  <2>3. Without(m, {"chaff"})
    <3>1. CASE v < 5 BY <3>1, <1>6
    <3>2. CASE ~(v < 5)
      <4>0. doc.version >= 5 BY <1>3, <3>2
      <4>1. Without(doc, {"chaff"}) BY <4>0 DEF Written
      <4>2. QED BY <1>5, <2>1, <4>1 DEF Retired
    <3>3. QED BY <3>1, <3>2
  <2>4. Without(m, {"mass_driver"})
    <3>1. CASE v < 7 BY <3>1, <1>6
    <3>2. CASE ~(v < 7)
      <4>0. doc.version >= 7 BY <1>3, <3>2
      <4>1. Without(doc, {"mass_driver"}) BY <4>0 DEF Written
      <4>2. QED BY <1>5, <2>1, <4>1 DEF Retired
    <3>3. QED BY <3>1, <3>2
  <2>5. QED BY <2>2, <2>3, <2>4 DEF Retired
<1>9. IsSave(m) /\ m.active = a /\ m.sys = s.sys /\ m.world = s.world /\ m.credits = doc.credits /\ m.rating = doc.rating
      /\ m.runs = doc.runs /\ m.log = doc.log /\ m.visited = doc.visited /\ a \in DOMAIN m.ships
  BY <1>5, <1>6, <1>7 DEF KeptSave, Rest, Ready
<1>10. /\ Ready(f) /\ SoundSave(f) /\ ArmedSave(f) /\ f.sys \in f.visited
       /\ AtWorld(f)
       /\ \A x \in Retired : Without(f, {x})
       /\ AddonCount(f) = AddonCount(m) /\ f.active = a
       /\ FuelAmount(f.ships[a]) = FuelAmount(m.ships[a])
       /\ FuelCapacity(f.ships[a]) = FuelCapacity(m.ships[a])
       /\ f.credits = doc.credits + (IF v < 8 /\ n > 1 THEN (n - 1) * Refund ELSE 0)
       /\ f.rating = (IF v >= 8 THEN doc.rating ELSE IF n > 0 \/ p THEN 0 ELSE -1)
       /\ f.runs = doc.runs + (IF v >= 8 THEN 0 ELSE Survived(doc.log))
  <2>1. CASE v < 8
    <3>1. f = MigrateFrontier(m, n, p) BY <2>1 DEF Frontier
    <3> HIDE DEF f
    <3>2. /\ IsSave(f) /\ f.version = m.version /\ f.sys = m.sys /\ f.world = m.world
          /\ f.active = m.active /\ f.stock = m.stock /\ f.sys \in f.visited /\ DOMAIN f.ships = DOMAIN m.ships
          /\ f.rating = (IF n > 0 \/ p THEN 0 ELSE -1)
          /\ f.credits = m.credits + (IF n > 1 THEN (n - 1) * Refund ELSE 0)
          /\ f.runs = m.runs + Survived(m.log)
          /\ \A id \in DOMAIN m.ships : f.ships[id] = [m.ships[id] EXCEPT !.sys = m.sys]
      <4> DEFINE k == MigrateFrontier(m, n, p)
      <4>1. p \in BOOLEAN BY <1>3
      <4> HIDE DEF p
      <4>2. /\ IsSave(k) /\ k.version = m.version /\ k.sys = m.sys /\ k.world = m.world
            /\ k.active = m.active /\ k.stock = m.stock /\ k.sys \in k.visited /\ DOMAIN k.ships = DOMAIN m.ships
            /\ k.rating = (IF n > 0 \/ p THEN 0 ELSE -1)
            /\ k.credits = m.credits + (IF n > 1 THEN (n - 1) * Refund ELSE 0)
            /\ k.runs = m.runs + Survived(m.log)
            /\ \A id \in DOMAIN m.ships : k.ships[id] = [m.ships[id] EXCEPT !.sys = m.sys]
        BY ONLY <1>4, <1>9, <4>1, FrontierMigrated, ZenonT(60)
      <4>3. QED BY <3>1, <4>2
    <3>3. \A id \in DOMAIN m.ships :
            /\ m.ships[id] \in Hulls /\ f.ships[id] \in Hulls
            /\ HullFrom(m.ships[id], f.ships[id]) /\ SameCondition(m.ships[id], f.ships[id])
            /\ f.ships[id].slots = m.ships[id].slots /\ f.ships[id].internal = m.ships[id].internal
            /\ f.ships[id].model = m.ships[id].model
      <4>1. m.sys \in STRING BY <1>9 DEF IsSave
      <4>2. \A id \in DOMAIN m.ships : m.ships[id] \in Hulls BY <1>9, ShipsType
      <4>3. ASSUME NEW h \in Hulls, NEW k, k = [h EXCEPT !.sys = m.sys]
            PROVE  HullFrom(h, k) /\ SameCondition(h, k) /\ k.slots = h.slots /\ k.internal = h.internal
        BY <4>1, <4>3, MovedHulls
      <4>4. \A id \in DOMAIN m.ships :
              /\ HullFrom(m.ships[id], f.ships[id]) /\ SameCondition(m.ships[id], f.ships[id])
              /\ f.ships[id].slots = m.ships[id].slots /\ f.ships[id].internal = m.ships[id].internal
        BY <3>2, <4>2, <4>3
      <4>5. QED BY <4>2, <4>4 DEF HullFrom
    <3>4. Ready(f) BY <1>7, <3>2, <3>3 DEF Ready, Known
    <3>5. SoundSave(f) BY <1>6, <3>2, <3>3, SameConditionKeeps DEF SoundSave
    <3>6. ArmedSave(f) BY <1>6, <3>2, <3>3 DEF ArmedSave
    <3>7. \A x \in Retired : Without(f, {x}) BY <1>8, <3>2, <3>3 DEF Without
    <3>8. AddonCount(f) = AddonCount(m) BY <3>2, <3>3, SameAddonCount
    <3>9. FuelAmount(f.ships[a]) = FuelAmount(m.ships[a]) /\ FuelCapacity(f.ships[a]) = FuelCapacity(m.ships[a])
      BY <1>9, <3>3, SameConditionKeeps
    <3>10. AtWorld(f) BY <1>5, <1>9, <3>2 DEF AtWorld
    <3>11. QED BY <1>3, <1>9, <2>1, <3>2, <3>10, <3>4, <3>5, <3>6, <3>7, <3>8, <3>9
  <2>2. CASE ~(v < 8)
    <3>1. f = m BY <2>2 DEF Frontier
    <3>2. v >= 8 BY <1>3, <2>2
    <3>3. doc.sys # "" /\ doc.sys \in doc.visited BY <3>2 DEF Written
    <3>4. m.sys \in m.visited BY <1>5, <1>9, <3>3
    <3>5. AtWorld(m) BY <1>5, <1>9 DEF AtWorld
    <3>6. QED BY <1>3, <1>6, <1>7, <1>8, <1>9, <2>2, <3>1, <3>2, <3>4, <3>5
  <2>3. QED BY <2>1, <2>2
<1> HIDE DEF f
<1>11. /\ Whole(t) /\ AddonCount(t) = AddonCount(f) /\ t.active = a
       /\ t.credits = f.credits /\ t.rating = f.rating /\ t.runs = f.runs
       /\ FuelAmount(t.ships[a]) = FuelAmount(f.ships[a])
       /\ FuelCapacity(t.ships[a]) = FuelCapacity(f.ships[a])
  BY <1>10, Finished
<1> HIDE DEF t
<1>12. IsSave(t) /\ t.version = 8 /\ t.credits \in Int /\ t.runs \in Nat
  BY <1>11 DEF Whole, IsSave, StateVersion
<1>13. ASSUME HullsOnOffer(doc) PROVE Holdings(t) = Holdings(doc)
  <2>1. AddonCount(t) = AddonCount(doc) BY <1>5, <1>7, <1>10, <1>11, <1>13
  <2>2. Holdings(t) = [credits |-> t.credits, addons |-> AddonCount(t), class |-> t.rating, runs |-> t.runs]
    BY <1>12 DEF Holdings, AddonCount
  <2>3. Holdings(doc) = [credits |-> doc.credits + (IF v < 8 /\ n > 1 THEN (n - 1) * Refund ELSE 0),
                         addons |-> AddonCount(doc),
                         class |-> IF v >= 8 THEN doc.rating ELSE IF n > 0 \/ p THEN 0 ELSE -1,
                         runs |-> doc.runs + (IF v >= 8 THEN 0 ELSE Survived(doc.log))]
    BY DEF Holdings, AddonCount, n
  <2>4. QED BY <1>10, <1>11, <2>1, <2>2, <2>3
<1>14. ASSUME Resolvable(doc)
       PROVE  FuelAmount(t.ships[t.active]) = Least(FuelCapacity(t.ships[t.active]), SavedFuel(doc))
  <2>1. doc.ships[a] \in Hulls /\ s.ships[a] \in Hulls /\ SameCondition(doc.ships[a], s.ships[a])
    BY <1>2, <1>5, <1>14, ShipsType DEF Resolvable, Ready
  <2>2. FuelAmount(s.ships[a]) = FuelAmount(doc.ships[a]) BY <2>1, SameConditionKeeps
  <2>3. was = SavedFuel(doc) BY <1>5, <1>14, <2>2 DEF SavedFuel
  <2>4. QED BY <1>6, <1>10, <1>11, <2>3
<1>15. QED BY <1>1, <1>11, <1>13, <1>14

-----------------------------------------------------------------------------
(* The row written, and play. *)

LEMMA WholeHas ==
  ASSUME NEW s, Whole(s)
  PROVE  /\ IsSave(s) /\ s.active \in DOMAIN s.ships /\ s.ships[s.active] \in Hulls
         /\ \A id \in DOMAIN s.ships : s.ships[id] \in Hulls /\ WholeHull(s.ships[id])
         /\ Sound(s.ships[s.active]) /\ Resolvable(s)
<1>1. IsSave(s) /\ s.active \in DOMAIN s.ships /\ \A id \in DOMAIN s.ships : WholeHull(s.ships[id])
  BY DEF Whole
<1>2. \A id \in DOMAIN s.ships : s.ships[id] \in Hulls BY <1>1, ShipsType
<1>3. QED BY <1>1, <1>2 DEF WholeHull, Resolvable, Known

LEMMA StillWhole ==
  ASSUME NEW s, NEW t, Whole(s), IsSave(t), Rest(s, t), t.ships = s.ships, t.stock = s.stock
  PROVE  Whole(t)
  BY DEF Whole, Rest

\* A sound hull holds all that is written in it.
LEMMA AllAboard == ASSUME NEW h \in Hulls, Sound(h) PROVE FuelAboard(h) = FuelAmount(h)
<1> DEFINE f == [i \in Tanks(h.slots) |-> h.slots[i].fuel]
<1>1. Clamp(h.base, StartFuel) = h.base BY Numbers, ClampInside DEF Sound
<1>2. \A i \in Tanks(h.slots) : Clamp(h.slots[i].fuel, TankSize) = h.slots[i].fuel
  BY Numbers, ClampInside DEF Sound, FuelFits
<1>3. FuelTerms(h.slots) = f BY <1>2 DEF FuelTerms
<1>4. QED BY <1>1, <1>3 DEF FuelAboard, FuelAmount, FuelTerms

\* Encode, of a save that is played.
LEMMA Encoded ==
  ASSUME NEW s, Whole(s)
  PROVE  LET t == Encode(s)
             ship == s.ships[s.active]
         IN /\ Whole(t) /\ Rest(s, t) /\ t.ships = s.ships /\ t.stock = s.stock
            /\ t.live = FALSE /\ t.hull = ship.hull /\ t.fuel = FuelAmount(ship)
<1> DEFINE t == Encode(s)
           ship == s.ships[s.active]
           live == FALSE
           hull == ship.hull
           fuel == FuelAmount(ship)
<1>1. IsSave(s) /\ ship \in Hulls /\ Sound(ship) BY WholeHas
<1>2. FuelAboard(ship) = fuel BY <1>1, AllAboard
<1>3. live \in BOOLEAN /\ hull \in Int /\ fuel \in Nat BY <1>1, FuelNumbers DEF Hulls
<1>4. t = [s EXCEPT !.live = live, !.hull = hull, !.fuel = fuel] BY <1>2 DEF Encode
<1> HIDE DEF live, hull, fuel, t
<1>5. /\ IsSave(t) /\ Rest(s, t) /\ t.ships = s.ships /\ t.stock = s.stock
      /\ t.live = live /\ t.hull = hull /\ t.fuel = fuel
  <2> DEFINE G == [DOMAIN s.ships -> Hulls]
  <2>1. s \in SaveOver(G) /\ IsFiniteSet(DOMAIN s.ships) BY <1>1, SavesOver
  <2> HIDE DEF G
  <2>2. t \in SaveOver(G) BY <1>3, <1>4, <2>1 DEF SaveOver
  <2>3. IsSave(t) BY <2>1, <2>2, SavesOver DEF G
  <2>4. QED BY <1>4, <2>1, <2>3 DEF SaveOver, Rest
<1>6. Whole(t) BY <1>5, StillWhole
<1>7. QED BY <1>5, <1>6 DEF live, hull, fuel, t

LEMMA WholeIsWritten ==
  ASSUME NEW s, Whole(s), catalog \in Catalogs PROVE Written(s)
<1>1. IsSave(s) /\ s.active \in DOMAIN s.ships BY DEF Whole
<1>2. \A x \in Retired : Without(s, {x})
  BY DEF Whole, WholeHull, HullLacks, Without, Lacks
<1>3. ASSUME NEW id \in DOMAIN s.ships
      PROVE  Len(s.ships[id].internal) <= Models[s.ships[id].model]
  <2>1. Len(s.ships[id].internal) = Models[s.ships[id].model] /\ s.ships[id].model \in catalog
    BY DEF Whole, WholeHull
  <2>2. s.ships[id].model \in DOMAIN Models BY <2>1, CodecAssumption
  <2>3. Models[s.ships[id].model] \in Nat BY <2>2, CodecAssumption
  <2>4. QED BY <2>1, <2>3
<1>4. Without(s, {"chaff"}) /\ Without(s, {"mass_driver"}) /\ Without(s, {"jump_drive"})
  BY <1>2 DEF Retired
<1>5. ~(s.version < 8)
  <2>1. s.version = 8 BY DEF Whole, StateVersion
  <2>2. ~(8 < 8) OBVIOUS
  <2>3. QED BY <2>1, <2>2, Zenon
<1>6. \A id \in DOMAIN s.ships : Lacks(s.ships[id].internal, {"mass_driver"})
  BY <1>4 DEF Without
<1>7. QED BY <1>1, <1>3, <1>4, <1>5, <1>6 DEF Written, Whole

\* New
LEMMA NewIsWhole == ASSUME catalog \in Catalogs PROVE Whole(NewState)
<1> DEFINE none == <<>>
           no == ""
           s == [version |-> StateVersion, credits |-> 0, sys |-> Home, world |-> no, fuel |-> StartFuel,
                 hull |-> MaxHull, ships |-> none, active |-> no, unlocked |-> {}, stock |-> none,
                 permit |-> FALSE, log |-> none, rating |-> -1, visited |-> {Home}, runs |-> 0,
                 live |-> FALSE]
           h == FreshShip(Starter, Home)
           D == {Starter}
           g == [id \in D |-> h]
           un == {Starter}
           a == Starter
           t == NewState
<1>1. Starter \in catalog /\ Starter \in DOMAIN Models /\ Starter \in STRING /\ Home \in STRING /\ no \in STRING
  BY CodecAssumption, NamesAssumption
<1>2. /\ h \in Hulls /\ h.model = Starter /\ Sound(h) /\ Len(h.internal) = Models[Starter]
      /\ h.sys = Home /\ LoadFits(h.slots) /\ \A x : HullLacks(h, {x})
  BY <1>1, FreshShips
<1>3. t = [s EXCEPT !.ships = g, !.active = a, !.unlocked = un]
  BY DEF NewState, GrantStarterShip
<1> HIDE DEF h
<1>4. IsFiniteSet(D) /\ g \in [D -> Hulls] /\ g[Starter] = h BY <1>2, FS_Singleton
<1>5. none \in Seq(Devices) /\ none \in Seq([what : STRING, sys : STRING]) /\ DOMAIN none = {} OBVIOUS
<1>6. un \in SUBSET STRING /\ a \in STRING /\ {Home} \in SUBSET STRING BY <1>1
<1> HIDE DEF none, no, g, un, a, t, D
<1>7. t = [version |-> StateVersion, credits |-> 0, sys |-> Home, world |-> no, fuel |-> StartFuel,
           hull |-> MaxHull, ships |-> g, active |-> a, unlocked |-> un, stock |-> none,
           permit |-> FALSE, log |-> none, rating |-> -1, visited |-> {Home}, runs |-> 0,
           live |-> FALSE]
  BY <1>3
<1>8. t \in SaveOver([D -> Hulls])
  <2> DEFINE G == [D -> Hulls]
  <2>1. g \in G BY <1>4
  <2>2. StateVersion \in Nat BY DEF StateVersion
  <2> HIDE DEF G
  <2>3. t \in SaveOver(G) BY <1>1, <1>5, <1>6, <1>7, <2>1, <2>2, Numbers DEF SaveOver
  <2>4. QED BY <2>3 DEF G
<1>9. IsSave(t) /\ DOMAIN t.ships = D BY <1>4, <1>8, SavesOver
<1>10. t.version = StateVersion /\ t.active = a /\ t.sys = Home /\ t.world = no /\ t.visited = {Home} /\ t.stock = none
       /\ t.ships = g
  BY <1>7
<1>11. HullLacks(h, Retired) BY <1>2, LacksAll DEF HullLacks
<1>12. WholeHull(h) BY <1>1, <1>2, <1>11 DEF WholeHull, Home
<1>13. Lacks(none, Retired) BY <1>5 DEF Lacks
<1>14. QED BY <1>1, <1>4, <1>9, <1>10, <1>12, <1>13 DEF Whole, a, D, t, no, Home

\* The hull flown changes, and the mirrors with it.
LEMMA FlownChanged ==
  ASSUME NEW s, Whole(s), NEW ship \in Hulls, WholeHull(ship)
  PROVE  Whole(SyncMirror([s EXCEPT !.ships[s.active] = ship]))
<1> DEFINE a == s.active
           D == DOMAIN s.ships
           g == [s.ships EXCEPT ![a] = ship]
           u == [s EXCEPT !.ships = g]
           t == SyncMirror(u)
<1>1. IsSave(s) /\ a \in D /\ \A id \in D : s.ships[id] \in Hulls /\ WholeHull(s.ships[id]) BY WholeHas
<1>2. [s EXCEPT !.ships[s.active] = ship] = u BY <1>1 DEF IsSave
<1>3. IsFiniteSet(D) /\ s.ships = [id \in D |-> s.ships[id]] BY <1>1, ShipsType
<1>4. g \in [D -> Hulls] /\ DOMAIN g = D /\ \A id \in D : g[id] = IF id = a THEN ship ELSE s.ships[id]
  BY <1>1, <1>3
<1> HIDE DEF g
<1>5. IsSave(u) /\ u.ships = g /\ Rest(s, u) /\ u.stock = s.stock /\ u.fuel = s.fuel /\ u.hull = s.hull
  BY <1>1, <1>3, <1>4, ShipsReplaced
<1> HIDE DEF u
<1>6. Whole(u) BY <1>1, <1>4, <1>5 DEF Whole, Rest
<1>7. IsSave(t) /\ Rest(u, t) /\ t.ships = u.ships /\ t.stock = u.stock
  <2>1. u.active \in DOMAIN u.ships /\ Sound(u.ships[u.active]) BY <1>6, WholeHas
  <2>2. KeptSave(u, t) /\ t.ships = u.ships /\ t.stock = u.stock BY <1>5, <2>1, Synced
  <2> HIDE DEF t
  <2>3. QED BY <2>2 DEF KeptSave
<1> HIDE DEF t
<1>8. Whole(t) BY <1>6, <1>7, StillWhole
<1>9. QED BY <1>2, <1>8 DEF t

\* A device of a hull holds less fuel or a missile less.
LEMMA DeviceUsed ==
  ASSUME NEW h \in Hulls, WholeHull(h), NEW i \in DOMAIN h.slots, h.slots[i] # None,
         NEW d \in Devices, d.item = h.slots[i].item,
         d.fuel <= h.slots[i].fuel, d.load <= h.slots[i].load
  PROVE  [h EXCEPT !.slots[i] = d] \in Hulls /\ WholeHull([h EXCEPT !.slots[i] = d])
<1> DEFINE l == h.slots
           m == [l EXCEPT ![i] = d]
           g == [h EXCEPT !.slots = m]
<1>1. [h EXCEPT !.slots[i] = d] = g BY DEF Hulls
<1>2. l \in Slots /\ i \in DOMAIN l /\ l[i] # None BY DEF Hulls
<1>3. Sound(h) /\ LoadFits(l) /\ Lacks(l, Retired) BY DEF WholeHull, HullLacks
<1>4. d.item = l[i].item /\ d.fuel <= l[i].fuel /\ d.load <= l[i].load OBVIOUS
<1>5. FuelFits(l) BY <1>3 DEF Sound
<1> HIDE DEF l
<1>6. \A j \in DOMAIN l : l[j] \in Devices \cup {None} BY <1>2 DEF Slots
<1>7. DOMAIN m = DOMAIN l /\ m[i] = d /\ \A j \in DOMAIN l : j # i => m[j] = l[j] BY <1>2 DEF Slots
<1>8. m \in Slots BY <1>2 DEF Slots
<1>9. d # None BY RowsAssumption
<1>10. d.fuel \in Nat /\ d.load \in Nat /\ l[i] \in Devices BY <1>2, <1>6 DEF Devices
<1>11. l[i].fuel \in Nat /\ l[i].load \in Nat BY <1>10 DEF Devices
<1> HIDE DEF m
<1>12. Lacks(m, Retired) BY <1>2, <1>3, <1>4, <1>7 DEF Lacks
<1>13. FuelFits(m)
  <2> SUFFICES ASSUME NEW j \in Tanks(m) PROVE m[j].fuel \in 0 .. TankSize
    BY DEF FuelFits
  <2>1. j \in Tanks(l) BY <1>2, <1>4, <1>7 DEF Tanks, Is
  <2>2. l[j].fuel \in 0 .. TankSize BY <1>5, <2>1 DEF FuelFits
  <2>3. CASE j = i BY <1>4, <1>7, <1>10, <1>11, <2>2, <2>3, Numbers
  <2>4. CASE j # i BY <1>7, <2>1, <2>2, <2>4 DEF Tanks
  <2>5. QED BY <2>3, <2>4
<1>14. LoadFits(m)
  <2> SUFFICES ASSUME NEW j \in DOMAIN m, Is(m[j], "missile_launcher")
               PROVE  m[j].load \in 0 .. MissileCapacity
    BY DEF LoadFits
  <2>1. j \in DOMAIN l /\ Is(l[j], "missile_launcher") BY <1>2, <1>4, <1>7 DEF Is
  <2>2. l[j].load \in 0 .. MissileCapacity BY <1>3, <2>1 DEF LoadFits
  <2>3. CASE j = i BY <1>4, <1>7, <1>10, <1>11, <2>2, <2>3 DEF MissileCapacity
  <2>4. CASE j # i BY <1>7, <2>1, <2>2, <2>4
  <2>5. QED BY <2>3, <2>4
<1> HIDE DEF g
<1>15. /\ g \in Hulls /\ g.slots = m /\ g.internal = h.internal /\ g.model = h.model
       /\ g.sys = h.sys /\ g.hull = h.hull /\ g.base = h.base
  BY <1>8 DEF Hulls, g
<1>16. WholeHull(g) BY <1>12, <1>13, <1>14, <1>15 DEF WholeHull, HullLacks, Sound
<1>17. QED BY <1>1, <1>15, <1>16

\* The hull flown loses a point, a unit of its reserve or its shield.
LEMMA HullUsed ==
  ASSUME NEW h \in Hulls, WholeHull(h), NEW hull \in 0 .. h.hull, NEW base \in 0 .. h.base,
         NEW shield \in STRING
  PROVE  LET g == [h EXCEPT !.hull = hull, !.base = base, !.shield = shield] IN
         g \in Hulls /\ WholeHull(g)
<1> DEFINE g == [h EXCEPT !.hull = hull, !.base = base, !.shield = shield]
<1>1. h.hull \in 0 .. MaxHull /\ h.base \in 0 .. StartFuel BY DEF WholeHull, Sound
<1>2. hull \in 0 .. MaxHull /\ base \in 0 .. StartFuel /\ hull \in Int /\ base \in Nat BY <1>1, Numbers
<1>3. /\ g \in Hulls /\ g.slots = h.slots /\ g.internal = h.internal /\ g.model = h.model
      /\ g.sys = h.sys /\ g.hull = hull /\ g.base = base
  BY <1>2 DEF Hulls
<1> HIDE DEF g
<1>4. WholeHull(g) BY <1>2, <1>3 DEF WholeHull, HullLacks, Sound
<1>5. QED BY <1>3, <1>4 DEF g

LEMMA FlyingStaysWhole ==
  ASSUME Whole(mem), NEW ship \in Hulls, WholeHull(ship), Flying(ship)
  PROVE  Whole(mem')
  BY FlownChanged DEF Flying

LEMMA OwnBounds ==
  ASSUME NEW h \in Hulls, WholeHull(h)
  PROVE  h.base \in 0 .. h.base /\ h.hull \in 0 .. h.hull /\ h.shield \in STRING
<1>1. h.hull \in 0 .. MaxHull BY DEF WholeHull, Sound
<1>2. h.hull \in Nat BY <1>1, Numbers
<1>3. h.base \in Nat /\ h.shield \in STRING BY DEF Hulls
<1>4. QED BY <1>2, <1>3

\* ConsumeFuel
LEMMA BurnStaysWhole == ASSUME Whole(mem), Burn PROVE Whole(mem')
<1> DEFINE h == Flown
           T == Tanks(h.slots)
           full == {i \in T : h.slots[i].fuel > 0}
<1>1. h \in Hulls /\ WholeHull(h) BY WholeHas DEF Flown
<1>2. h.slots \in Slots /\ h.base \in Nat BY <1>1 DEF Hulls
<1>3. T \subseteq 1 .. Len(h.slots) /\ Len(h.slots) \in Nat /\ IsFiniteSet(T) BY <1>2, TanksFinite
<1>4. \A i \in T : i \in DOMAIN h.slots /\ h.slots[i] # None /\ h.slots[i] \in Devices
  BY <1>2 DEF Tanks, Is, Slots
<1>5. FuelAmount(h) > 0 BY DEF Burn
<1>6. CASE full = {}
  <2> DEFINE f == FuelTerms(h.slots)
             base == h.base - 1
             g == [h EXCEPT !.hull = h.hull, !.base = base, !.shield = h.shield]
  <2>1. \A i \in T : f[i] = 0
    <3>1. \A i \in T : h.slots[i].fuel = 0 BY <1>4, <1>6 DEF Devices
    <3>2. Clamp(0, TankSize) = 0 BY Numbers DEF Clamp, Least
    <3>3. QED BY <3>1, <3>2 DEF FuelTerms
  <2>2. DOMAIN f = T BY DEF FuelTerms
  <2>3. SumFunction(f) = 0 BY <1>3, <2>1, <2>2, SumZero DEF SumFunction
  <2>4. h.base > 0
    <3>1. Clamp(h.base, StartFuel) = h.base BY <1>1, Numbers, ClampInside DEF WholeHull, Sound
    <3>2. QED BY <1>2, <1>5, <2>3, <3>1 DEF FuelAmount, FuelTerms
  <2>5. base \in 0 .. h.base BY <1>2, <2>4
  <2>6. h.hull \in 0 .. h.hull /\ h.shield \in STRING BY <1>1, OwnBounds
  <2>7. g \in Hulls /\ WholeHull(g) BY <1>1, <2>5, <2>6, HullUsed
  <2>8. Flying([h EXCEPT !.base = @ - 1]) BY <1>6 DEF Burn
  <2>9. [h EXCEPT !.base = @ - 1] = g BY <1>1 DEF Hulls
  <2> HIDE DEF g
  <2>10. QED BY <2>7, <2>8, <2>9, FlyingStaysWhole
<1>7. CASE full # {}
  <2> DEFINE i == Min(full)
             d == [h.slots[i] EXCEPT !.fuel = @ - 1]
  <2>1. i \in full
    <3>1. full \in SUBSET Nat BY <1>3
    <3>2. \E n \in full : \A m \in full : n <= m BY <1>7, <3>1, SmallestNumber
    <3> HIDE DEF full
    <3>3. QED BY <3>2 DEF Min
  <2>2. Flying([h EXCEPT !.slots[i].fuel = @ - 1]) BY <1>7 DEF Burn
  <2> HIDE DEF i
  <2>3. i \in DOMAIN h.slots /\ h.slots[i] # None /\ h.slots[i] \in Devices /\ h.slots[i].fuel > 0
    BY <1>4, <2>1
  <2>4. d \in Devices /\ d.item = h.slots[i].item /\ d.fuel <= h.slots[i].fuel /\ d.load <= h.slots[i].load
    BY <2>3 DEF Devices
  <2>5. [h EXCEPT !.slots[i].fuel = @ - 1] = [h EXCEPT !.slots[i] = d] OBVIOUS
  <2> HIDE DEF d
  <2>6. [h EXCEPT !.slots[i] = d] \in Hulls /\ WholeHull([h EXCEPT !.slots[i] = d])
    BY <1>1, <2>3, <2>4, DeviceUsed
  <2>7. QED BY <2>2, <2>5, <2>6, FlyingStaysWhole
<1>8. QED BY <1>6, <1>7

\* A hit, a shield brought down.
LEMMA DamageStaysWhole == ASSUME Whole(mem), Hit \/ ShieldDown PROVE Whole(mem')
<1> DEFINE h == Flown
<1>1. h \in Hulls /\ WholeHull(h) BY WholeHas DEF Flown
<1>2. h.base \in 0 .. h.base /\ h.hull \in 0 .. h.hull /\ h.shield \in STRING BY <1>1, OwnBounds
<1>3. CASE Hit
  <2> DEFINE hull == h.hull - 1
             g == [h EXCEPT !.hull = hull, !.base = h.base, !.shield = h.shield]
  <2>1. hull \in 0 .. h.hull BY <1>1, <1>3 DEF Hit, Hulls
  <2>2. g \in Hulls /\ WholeHull(g) BY <1>1, <1>2, <2>1, HullUsed
  <2>3. Flying([h EXCEPT !.hull = @ - 1]) BY <1>3 DEF Hit
  <2>4. [h EXCEPT !.hull = @ - 1] = g BY <1>1 DEF Hulls
  <2> HIDE DEF g
  <2>5. QED BY <2>2, <2>3, <2>4, FlyingStaysWhole
<1>4. CASE ShieldDown
  <2> DEFINE down == "burst"
             g == [h EXCEPT !.hull = h.hull, !.base = h.base, !.shield = down]
  <2>1. down \in STRING BY NamesAssumption
  <2>2. g \in Hulls /\ WholeHull(g) BY <1>1, <1>2, <2>1, HullUsed
  <2>3. Flying([h EXCEPT !.shield = down]) BY <1>4 DEF ShieldDown
  <2>4. [h EXCEPT !.shield = down] = g BY <1>1 DEF Hulls
  <2> HIDE DEF g
  <2>5. QED BY <2>2, <2>3, <2>4, FlyingStaysWhole
<1>5. QED BY <1>3, <1>4

LEMMA FireStaysWhole == ASSUME Whole(mem), Fire PROVE Whole(mem')
<1> DEFINE h == Flown
<1>1. h \in Hulls /\ WholeHull(h) BY WholeHas DEF Flown
<1>2. h.slots \in Slots BY <1>1 DEF Hulls
<1>3. PICK i \in DOMAIN h.slots :
        /\ Is(h.slots[i], "missile_launcher") /\ h.slots[i].load > 0
        /\ Flying([h EXCEPT !.slots[i].load = @ - 1])
  BY DEF Fire
<1> DEFINE d == [h.slots[i] EXCEPT !.load = @ - 1]
<1>4. h.slots[i] # None /\ h.slots[i] \in Devices BY <1>2, <1>3 DEF Is, Slots
<1>5. d \in Devices /\ d.item = h.slots[i].item /\ d.fuel <= h.slots[i].fuel /\ d.load <= h.slots[i].load
  BY <1>3, <1>4 DEF Devices
<1>6. [h EXCEPT !.slots[i].load = @ - 1] = [h EXCEPT !.slots[i] = d] OBVIOUS
<1> HIDE DEF d
<1>7. [h EXCEPT !.slots[i] = d] \in Hulls /\ WholeHull([h EXCEPT !.slots[i] = d])
  BY <1>1, <1>4, <1>5, DeviceUsed
<1>8. QED BY <1>3, <1>6, <1>7, FlyingStaysWhole

\* A run begins or ends.
LEMMA RunStaysWhole == ASSUME Whole(mem), Run PROVE Whole(mem')
<1> DEFINE live == ~ mem.live
           t == [mem EXCEPT !.live = live]
           G == [DOMAIN mem.ships -> Hulls]
<1>1. mem' = t BY DEF Run
<1>2. live \in BOOLEAN OBVIOUS
<1>3. mem \in SaveOver(G) /\ IsFiniteSet(DOMAIN mem.ships) BY WholeHas, SavesOver
<1> HIDE DEF live, t, G
<1>4. t \in SaveOver(G) BY <1>2, <1>3 DEF SaveOver, t
<1>5. IsSave(t) BY <1>3, <1>4, SavesOver DEF G
<1>6. t.ships = mem.ships /\ t.stock = mem.stock /\ Rest(mem, t) BY <1>3 DEF SaveOver, Rest, t
<1>7. Whole(t) BY <1>5, <1>6, StillWhole
<1>8. QED BY <1>1, <1>7

\* Another hull is boarded.
LEMMA BoardStaysWhole == ASSUME Whole(mem), Board PROVE Whole(mem')
<1>1. PICK id \in DOMAIN mem.ships : mem' = SyncMirror([mem EXCEPT !.active = id]) BY DEF Board
<1> DEFINE u == [mem EXCEPT !.active = id]
           t == SyncMirror(u)
           G == [DOMAIN mem.ships -> Hulls]
<1>2. mem \in SaveOver(G) /\ IsFiniteSet(DOMAIN mem.ships) BY WholeHas, SavesOver
<1>3. id \in STRING BY DEF Whole
<1>4. mem' = t BY <1>1
<1> HIDE DEF u, G
<1>5. u \in SaveOver(G) BY <1>2, <1>3 DEF SaveOver, u
<1>6. IsSave(u) BY <1>2, <1>5, SavesOver DEF G
<1>7. /\ u.ships = mem.ships /\ u.stock = mem.stock /\ u.active = id /\ u.version = mem.version
      /\ u.sys = mem.sys /\ u.world = mem.world /\ u.visited = mem.visited
  BY <1>2 DEF SaveOver, u
<1>8. Whole(u) BY <1>6, <1>7 DEF Whole
<1>9. u.active \in DOMAIN u.ships /\ Sound(u.ships[u.active]) BY <1>8, WholeHas
<1>10. KeptSave(u, t) /\ t.ships = u.ships /\ t.stock = u.stock BY <1>6, <1>9, Synced
<1> HIDE DEF t
<1>11. IsSave(t) /\ Rest(u, t) BY <1>10 DEF KeptSave
<1>12. Whole(t) BY <1>8, <1>10, <1>11, StillWhole
<1>13. QED BY <1>4, <1>12

-----------------------------------------------------------------------------
(* The inductive invariant. *)

CInv ==
    /\ catalog \in Catalogs
    /\ row.version \in Nat /\ (row.version <= StateVersion => Written(row))
    /\ mem # None => Whole(mem)

LEMMA CInvInit == Init => CInv
<1> SUFFICES ASSUME Init PROVE CInv OBVIOUS
<1>1. catalog \in Catalogs /\ mem = None BY DEF Init
<1>2. CASE row \in Rows BY <1>1, <1>2, RowsAssumption DEF CInv
<1>3. CASE row = Encode(NewState)
  <2>1. Whole(row) BY <1>1, <1>3, NewIsWhole, Encoded
  <2>2. Written(row) BY <1>1, <2>1, WholeIsWritten
  <2>3. row.version \in Nat BY <2>2 DEF Written, IsSave
  <2>4. QED BY <1>1, <2>2, <2>3 DEF CInv
<1>4. QED BY <1>2, <1>3 DEF Init

\* A load makes whole what a release wrote, play keeps it so, and a process
\* writes only what it plays.
LEMMA CInvNext == CInv /\ [Next]_vars => CInv'
<1> SUFFICES ASSUME CInv, [Next]_vars PROVE CInv' OBVIOUS
<1>1. ASSUME catalog' = catalog, row' = row, mem' # None => Whole(mem')
      PROVE  CInv'
  BY <1>1 DEF CInv, Whole, WholeHull, Written
<1>2. CASE Load
  <2>1. Whole(mem') BY <1>2, Decoded DEF Load, CInv
  <2>2. QED BY <1>1, <1>2, <2>1 DEF Load
<1>3. CASE Store
  <2>1. Whole(mem) /\ row' = Encode(mem) /\ mem' = mem /\ catalog' = catalog BY <1>3 DEF Store, CInv
  <2>2. Whole(row') BY <2>1, Encoded
  <2>3. Written(row') BY <2>2, WholeIsWritten DEF CInv
  <2>4. row'.version \in Nat BY <2>3 DEF Written, IsSave
  <2>5. Whole(mem)' BY <2>1 DEF Whole, WholeHull
  <2>6. Written(row)' BY <2>3 DEF Written
  <2>7. QED BY <2>1, <2>4, <2>5, <2>6 DEF CInv
<1>4. CASE Stop
  <2>1. mem' = None /\ catalog' \in Catalogs /\ row' = row BY <1>4 DEF Stop
  <2>2. QED BY <2>1 DEF CInv, Written
<1>5. CASE Play
  <2>1. Whole(mem) BY <1>5 DEF Play, Burn, Hit, Fire, ShieldDown, Run, Board, CInv
  <2>2. row' = row /\ catalog' = catalog
    BY <1>5 DEF Play, Burn, Hit, Fire, ShieldDown, Run, Board, Flying
  <2>3. Whole(mem')
    BY <1>5, <2>1, BurnStaysWhole, DamageStaysWhole, FireStaysWhole, RunStaysWhole, BoardStaysWhole
    DEF Play
  <2>4. QED BY <1>1, <2>2, <2>3
<1>6. CASE UNCHANGED vars BY <1>1, <1>6 DEF vars, CInv
<1>7. QED BY <1>2, <1>3, <1>4, <1>5, <1>6 DEF Next

LEMMA CInvAlways == Spec => []CInv
  BY CInvInit, CInvNext, PTL DEF Spec

\* What is played is complete: every save a process holds has a hull to fly,
\* only hulls of models on offer, each somewhere, with all of its internal
\* slots and its hull points, reserve and tanks within their limits, and no
\* retired device is left on a hull or on the shelf - whatever release wrote
\* the row DecodeState read and whatever the catalogue lost since.
THEOREM LoadsAreWhole == Spec => []LoadedIsWhole
<1>1. CInv => LoadedIsWhole
  <2> SUFFICES ASSUME CInv, mem # None PROVE LoadedIsWhole BY DEF LoadedIsWhole
  <2>1. Whole(mem) BY DEF CInv
  <2>2. Resolvable(mem) BY <2>1, WholeHas
  <2>3. QED BY <2>1, <2>2 DEF LoadedIsWhole, Whole, WholeHull, Sound, FuelFits, HullLacks, Known
<1>2. QED BY <1>1, CInvAlways, PTL

\* A load gives a pilot whose hulls are all on offer (HullsOnOffer) what the
\* row is worth, and gives it once: the credits with the refund of the retired
\* drives, the add-ons, the jump class and the survived runs of the row,
\* however often the upgrade is made again from an old row that was never
\* rewritten.  A hull flown that is on offer gets the row's fuel, what its
\* reserve and each of its tanks can hold of it.
THEOREM HoldingsAreKept == Spec => HoldingsSurvive
<1> DEFINE Kept1 == mem = None /\ mem' # None =>
          /\ HullsOnOffer(row) => Holdings(mem') = Holdings(row)
          /\ Resolvable(row) =>
                LET ship == mem'.ships[mem'.active]
                IN FuelAmount(ship) = Least(FuelCapacity(ship), SavedFuel(row))
<1>1. CInv /\ [Next]_vars => [Kept1]_vars
  <2> SUFFICES ASSUME CInv, Next, mem = None, mem' # None PROVE Kept1 BY DEF vars
  <2>1. Load BY DEF Next, Store, Stop, Play, Burn, Hit, Fire, ShieldDown, Run, Board
  <2>2. Written(row) /\ row.version <= StateVersion /\ catalog \in Catalogs /\ mem' = DecodeState(row)
    BY <2>1 DEF Load, CInv
  <2>3. QED BY <2>2, Decoded
<1>2. QED BY <1>1, CInvAlways, PTL DEF Spec, HoldingsSurvive

-----------------------------------------------------------------------------
(* A save written and read back. *)

\* Terms none of which is above a bound.
LEMMA SumBounded ==
  ASSUME NEW f, NEW S, IsFiniteSet(S), NEW b \in Nat, \A x \in S : f[x] \in Nat /\ f[x] <= b
  PROVE  SumFunctionOnSet(f, S) <= b * Cardinality(S)
<1> DEFINE Sm(u) == SumFunctionOnSet(f, u)
           bad == {u \in SUBSET S : ~(Sm(u) <= b * Cardinality(u))}
<1> SUFFICES ASSUME bad # {} PROVE FALSE OBVIOUS
<1>1. PICK u \in bad : \A v \in bad : v \subseteq u => v = u
  <2>1. bad \in SUBSET SUBSET S OBVIOUS
  <2> HIDE DEF bad
  <2>2. QED BY <2>1, SmallestSubset
<1>2. u \in SUBSET S /\ IsFiniteSet(u) BY <1>1, FS_Subset
<1>3. CASE u = {}
  <2>1. Sm(u) = 0 /\ Cardinality(u) = 0 BY <1>3, SumEmpty, FS_EmptySet
  <2>2. QED BY <1>1, <2>1
<1>4. ASSUME NEW x \in u PROVE FALSE
  <2> DEFINE w == u \ {x}
             c == Cardinality(w)
             lo == b * c
             hi == b * (c + 1)
  <2>1. IsFiniteSet(w) /\ c \in Nat /\ Cardinality(u) = c + 1
    <3>1. IsFiniteSet(w) BY <1>2, FS_Subset
    <3>2. w \cup {x} = u /\ x \notin w BY <1>4
    <3>3. Cardinality(w \cup {x}) = Cardinality(w) + 1 BY <3>1, <3>2, FS_AddElement
    <3>4. QED BY <3>1, <3>2, <3>3, FS_CardinalityType
  <2>2. Sm(w) <= lo BY <1>1, <1>2, <1>4
  <2>3. Sm(u) = f[x] + Sm(w) BY <1>2, <1>4, SumTake
  <2>4. Sm(w) \in Nat BY <1>2, <2>1, SumNat
  <2>5. ~(Sm(u) <= hi) BY <1>1, <2>1
  <2>6. lo \in Nat /\ hi = lo + b
    <3> HIDE DEF c
    <3>1. QED BY <2>1
  <2>7. f[x] \in Nat /\ f[x] <= b BY <1>2, <1>4
  <2> HIDE DEF Sm, lo, hi
  <2>8. QED BY <2>2, <2>3, <2>4, <2>5, <2>6, <2>7
<1>5. QED BY <1>3, <1>4

\* A sound hull holds no more than it can.
LEMMA FuelWithin ==
  ASSUME NEW h \in Hulls, Sound(h) PROVE FuelAmount(h) <= FuelCapacity(h)
<1> DEFINE T == Tanks(h.slots)
           f == FuelTerms(h.slots)
           held == SumFunctionOnSet(f, T)
           room == TankSize * Cardinality(T)
<1>1. h.slots \in Slots /\ h.base \in Nat BY DEF Hulls
<1>2. IsFiniteSet(T) BY <1>1, TanksFinite
<1>3. \A i \in T : f[i] \in Nat /\ f[i] <= TankSize
  <2>1. \A i \in T : f[i] = h.slots[i].fuel /\ h.slots[i].fuel \in 0 .. TankSize
    BY Numbers, ClampInside DEF Sound, FuelFits, FuelTerms
  <2>2. QED BY <2>1, Numbers
<1>4. DOMAIN f = T BY DEF FuelTerms
<1>5. held <= room
  <2> HIDE DEF T, f
  <2>1. QED BY <1>2, <1>3, Numbers, SumBounded
<1>6. held \in Nat
  <2> HIDE DEF T, f
  <2>1. QED BY <1>2, <1>3, SumNat
<1>7. room \in Nat BY FuelNumbers
<1>8. FuelAmount(h) = h.base + held
  <2>1. Clamp(h.base, StartFuel) = h.base BY Numbers, ClampInside DEF Sound
  <2>2. QED BY <1>4, <2>1 DEF FuelAmount, FuelTerms, SumFunction
<1>9. FuelCapacity(h) = StartFuel + room BY DEF FuelCapacity
<1>10. h.base <= StartFuel BY Numbers DEF Sound
<1> HIDE DEF held, room
<1>11. QED BY <1>1, <1>5, <1>6, <1>7, <1>8, <1>9, <1>10, Numbers

LEMMA LeastFits == ASSUME NEW a \in Nat, NEW b \in Nat, a <= b PROVE Least(a, b) = a
  BY DEF Least

LEMMA EqualFits == ASSUME NEW b \in Nat, NEW a, a = b PROVE a <= b
  OBVIOUS

LEMMA SlotsNumbered == ASSUME NEW l \in Slots PROVE DOMAIN l = 1 .. Len(l)
  BY DEF Slots

\* A whole hull with its fuel moved into its tanks.
SettledHull(h) == SetFuelAmount(h, FuelAmount(h))

LEMMA SettledHulls ==
  ASSUME NEW h \in Hulls, WholeHull(h), catalog \in Catalogs, NEW sys \in STRING, sys # ""
  PROVE  LET g == SettledHull(h) IN
         /\ g \in Hulls /\ WholeHull(g) /\ g.hull = h.hull /\ FuelAmount(g) = FuelAmount(h)
         /\ NormalizeShipCondition(h) = g /\ NormalizeShipMissiles(g) = g /\ Padded(g, sys) = g
<1> DEFINE g == SettledHull(h)
           amount == FuelAmount(h)
<1>1. amount \in Nat /\ FuelCapacity(h) \in Nat BY FuelNumbers
<1>2. Sound(h) /\ LoadFits(h.slots) /\ HullLacks(h, Retired) BY DEF WholeHull
<1>3. h.hull \in 0 .. MaxHull BY <1>2 DEF Sound
<1>4. [h EXCEPT !.hull = h.hull] = h BY DEF Hulls
<1>5. g = SetFuelAmount([h EXCEPT !.hull = h.hull], amount) BY <1>4 DEF SettledHull
<1>6. NormalizeShipCondition(h) = g
  <2>1. Clamp(h.hull, MaxHull) = h.hull BY <1>3, Numbers, ClampInside
  <2>2. QED BY <1>4, <2>1 DEF NormalizeShipCondition, SettledHull
<1> HIDE DEF amount
<1>7. /\ HullFrom(h, g) /\ Sound(g) /\ SameLoads(h.slots, g.slots)
      /\ g.sys = h.sys /\ g.shield = h.shield /\ g.internal = h.internal /\ g.hull = h.hull
      /\ FuelCapacity(g) = FuelCapacity(h)
      /\ FuelAmount(g) = Least(amount, FuelCapacity(h))
  <2> DEFINE x == h.hull
  <2>1. x \in 0 .. MaxHull BY <1>3
  <2>2. g = SetFuelAmount([h EXCEPT !.hull = x], amount) BY <1>5
  <2> HIDE DEF x, g
  <2>3. /\ HullFrom(h, g) /\ Sound(g) /\ SameLoads(h.slots, g.slots)
        /\ g.sys = h.sys /\ g.shield = h.shield /\ g.internal = h.internal /\ g.hull = x
        /\ FuelCapacity(g) = FuelCapacity(h)
        /\ FuelAmount(g) = Least(amount, FuelCapacity(h))
    BY <1>1, <2>1, <2>2, ConditionedHulls
  <2>4. QED BY <2>3 DEF x
<1> HIDE DEF g
<1>8. FuelAmount(g) = amount
  <2>1. amount <= FuelCapacity(h) BY <1>2, FuelWithin DEF amount
  <2>2. Least(amount, FuelCapacity(h)) = amount BY <1>1, <2>1, LeastFits
  <2>3. QED BY <1>7, <2>2
<1>9. g \in Hulls /\ g.model = h.model BY <1>7 DEF HullFrom
<1>10. g.slots \in Slots /\ h.slots \in Slots BY <1>9 DEF Hulls
<1>11. From(h.slots, g.slots) BY <1>7 DEF HullFrom
<1>12. HullLacks(g, Retired)
  <2>1. \A x \in Retired : HullLacks(h, {x}) BY <1>2 DEF HullLacks, Lacks
  <2>2. \A x \in Retired : HullLacks(g, {x}) BY <1>7, <2>1, HullKeepsLacking
  <2>3. QED BY <2>2, LacksAll DEF HullLacks
<1>13. LoadFits(g.slots)
  <2> DEFINE l == h.slots
             m == g.slots
  <2>1. l \in Slots /\ m \in Slots /\ From(l, m) BY <1>10, <1>11
  <2>2. LoadFits(l) /\ SameLoads(l, m) /\ Lacks(m, Retired) BY <1>2, <1>7, <1>12 DEF HullLacks
  <2> HIDE DEF l, m
  <2>3. DOMAIN m = DOMAIN l
    <3>1. Len(m) = Len(l) BY <2>1 DEF From
    <3>2. DOMAIN m = 1 .. Len(m) /\ DOMAIN l = 1 .. Len(l) BY <2>1, SlotsNumbered
    <3>3. QED BY <3>1, <3>2
  <2>4. \A i \in DOMAIN l : m[i] # None => l[i] # None
    BY <2>1, <2>2, <2>3 DEF From, AddonsAt, Lacks, Retired
  <2>5. LoadFits(m) BY <2>2, <2>3, <2>4 DEF LoadFits, Is, SameLoads
  <2>6. QED BY <2>5 DEF m
<1>14. WholeHull(g) BY <1>7, <1>9, <1>12, <1>13 DEF WholeHull
<1>15. NormalizeShipMissiles(g) = g
  <2>1. MissilesClamped(g.slots) = g.slots BY <1>10, <1>13, MissilesStay
  <2>2. NormalizeShipMissiles(g) = [g EXCEPT !.slots = MissilesClamped(g.slots)]
    BY DEF NormalizeShipMissiles, MissilesClamped
  <2>3. QED BY <1>9, <2>1, <2>2 DEF Hulls
<1>16. Padded(g, sys) = g
  <2>1. g.model \in DOMAIN Models BY <1>14, CodecAssumption DEF WholeHull
  <2>2. g.sys # "" /\ Len(g.internal) = Models[g.model] BY <1>14 DEF WholeHull
  <2>3. Models[g.model] \in Nat BY <2>1, CodecAssumption
  <2>4. Len(g.internal) <= Models[g.model] BY <2>2, <2>3, EqualFits
  <2>5. QED BY <1>9, <2>1, <2>2, <2>4, PaddedHulls
<1>17. QED BY <1>6, <1>7, <1>8, <1>9, <1>14, <1>15, <1>16 DEF g, amount

\* A row of this release with only known hulls is decoded as it stands.
LEMMA RowStays ==
  ASSUME NEW e, Whole(e) PROVE Fleet(Upgraded(RetireLegacyDrives(e))) = e
<1>1. IsSave(e) /\ e.version = StateVersion /\ e.sys # "" /\ Resolvable(e) BY WholeHas DEF Whole
<1>2. \A id \in DOMAIN e.ships : Known(e, id) BY DEF Whole, WholeHull, Known
<1>3. RetireLegacyDrives(e) = e
  <2>1. e.version = 8 BY <1>1 DEF StateVersion
  <2>2. 8 >= 8 OBVIOUS
  <2>3. e.version >= 8 BY <2>1, <2>2, Zenon
  <2>4. QED BY <2>3, Zenon DEF RetireLegacyDrives
<1>4. Upgraded(e) = e BY <1>1 DEF Upgraded, IsSave
<1>5. Fleet(e) = e
  <2> DEFINE gone == {id \in DOMAIN e.ships : ~Known(e, id)}
             g == [id \in DOMAIN e.ships \ gone |-> e.ships[id]]
             un == e.unlocked \ gone
  <2>1. Fleet(e) = [e EXCEPT !.ships = g, !.unlocked = un] BY <1>1 DEF Fleet
  <2>2. gone = {} BY <1>2
  <2>3. un = e.unlocked BY <2>2
  <2>4. g = e.ships BY <1>1, <2>2, ShipsType
  <2> HIDE DEF g, un
  <2>5. [e EXCEPT !.ships = e.ships, !.unlocked = e.unlocked] = e BY <1>1 DEF IsSave
  <2>6. QED BY <2>1, <2>3, <2>4, <2>5
<1>6. QED BY <1>3, <1>4, <1>5

\* What DecodeState makes of a save just written.
LEMMA Reread ==
  ASSUME NEW e, Whole(e), catalog \in Catalogs, e.live = FALSE,
         e.fuel = FuelAmount(e.ships[e.active]), e.hull = e.ships[e.active].hull
  PROVE  DecodeState(e) = [e EXCEPT !.ships = [id \in DOMAIN e.ships |-> SettledHull(e.ships[id])]]
<1> DEFINE D == DOMAIN e.ships
           a == e.active
           g == [id \in D |-> SettledHull(e.ships[id])]
           w == [e EXCEPT !.ships = g]
<1>1. IsSave(e) /\ a \in D /\ e.version = 8 /\ e.sys # "" /\ e.sys \in STRING
  BY DEF Whole, IsSave, StateVersion
<1>2. \A id \in D : e.ships[id] \in Hulls /\ WholeHull(e.ships[id]) BY WholeHas
<1>3. \A id \in D : g[id] = SettledHull(e.ships[id]) OBVIOUS
<1>4. DOMAIN g = D /\ g = [id \in D |-> g[id]] OBVIOUS
<1> HIDE DEF g
<1>5. \A id \in D :
        /\ g[id] \in Hulls /\ WholeHull(g[id]) /\ g[id].hull = e.ships[id].hull
        /\ FuelAmount(g[id]) = FuelAmount(e.ships[id])
        /\ NormalizeShipCondition(e.ships[id]) = g[id]
        /\ NormalizeShipMissiles(g[id]) = g[id] /\ Padded(g[id], e.sys) = g[id]
  BY <1>1, <1>2, <1>3, SettledHulls
<1>6. IsFiniteSet(D) /\ g \in [D -> Hulls] BY <1>1, <1>4, <1>5, ShipsType
<1>7. IsSave(w) /\ w.ships = g /\ Rest(e, w) /\ w.fuel = e.fuel /\ w.hull = e.hull
  <2>1. IsSave(e) /\ IsFiniteSet(D) /\ g \in [D -> Hulls] BY <1>1, <1>6
  <2>2. IsSave(w) /\ w.ships = g /\ Rest(e, w)
        /\ w.stock = e.stock /\ w.fuel = e.fuel /\ w.hull = e.hull
    BY <2>1, ShipsReplaced
  <2>3. QED BY <2>2
<1>8. SyncMirror(w) = w
  <2> HIDE DEF w
  <2>1. w.active = a /\ w.active \in DOMAIN w.ships /\ Sound(w.ships[w.active])
    BY <1>1, <1>4, <1>5, <1>7 DEF Rest, WholeHull
  <2>2. SyncMirror(w) = [w EXCEPT !.fuel = FuelAmount(w.ships[w.active]), !.hull = w.ships[w.active].hull]
    BY <1>7, <2>1, Synced
  <2>3. FuelAmount(w.ships[w.active]) = w.fuel /\ w.ships[w.active].hull = w.hull
    BY <1>1, <1>5, <1>7, <2>1
  <2>4. [w EXCEPT !.fuel = w.fuel, !.hull = w.hull] = w BY <1>7 DEF IsSave
  <2>5. QED BY <2>2, <2>3, <2>4
<1>9. Halt(e) = e BY <1>1 DEF Halt, IsSave
<1>10. Conditions(e, 8) = w
  <2> DEFINE k == [id \in D |-> NormalizeShipCondition(e.ships[id])]
  <2>1. k = g BY <1>4, <1>5
  <2>2. Conditions(e, 8) = SyncMirror([e EXCEPT !.ships = k]) BY DEF Conditions, EachShip
  <2> HIDE DEF k
  <2>3. QED BY <1>8, <2>1, <2>2
<1>11. [w EXCEPT !.ships = g] = w BY <1>7 DEF IsSave
<1> HIDE DEF w
<1>12. Upgrades(w, 8) = w
  <2> DEFINE k == [id \in DOMAIN w.ships |-> NormalizeShipMissiles(w.ships[id])]
  <2>1. k = g BY <1>4, <1>5, <1>7
  <2>2. Upgrades(w, 8) = [w EXCEPT !.ships = k] BY DEF Upgrades, EachShip
  <2> HIDE DEF k
  <2>3. QED BY <1>11, <2>1, <2>2
<1>13. PaddedSave(w) = w
  <2> DEFINE k == [id \in DOMAIN w.ships |-> Padded(w.ships[id], w.sys)]
  <2>0. w.ships = g /\ w.sys = e.sys BY <1>7 DEF Rest
  <2>1. k = g BY <1>4, <1>5, <2>0
  <2>2. PaddedSave(w) = [w EXCEPT !.ships = k] BY DEF PaddedSave, EachShip
  <2> HIDE DEF k
  <2>3. QED BY <1>11, <2>1, <2>2
<1>14. Migrated(e, 8) = w BY <1>9, <1>10, <1>12 DEF Migrated, Launchers, Shields
<1>15. Frontier(w, 8, DriveCount(e), e.permit) = w BY DEF Frontier
<1>16. DecodeState(e) = SyncMirror(PaddedSave(Frontier(Migrated(e, 8), 8, DriveCount(e), e.permit)))
  BY <1>1, RowStays, DecodeStages
<1>17. DecodeState(e) = w BY <1>8, <1>13, <1>14, <1>15, <1>16
<1>18. QED BY <1>17 DEF w, g

\* A restart changes nothing a pilot has: at any time what a process plays,
\* put through Encode and DecodeState, is the same save, without the live
\* run and with the fuel of each hull moved into its tanks.
THEOREM ReloadsAreFaithful == Spec => []ReloadIsFaithful
<1>1. CInv => ReloadIsFaithful
  <2> SUFFICES ASSUME CInv, mem # None PROVE ReloadIsFaithful BY DEF ReloadIsFaithful
  <2> DEFINE e == Encode(mem)
             D == DOMAIN mem.ships
             g == [id \in D |-> SettledHull(mem.ships[id])]
             hull == Flown.hull
             fuel == FuelAmount(Flown)
  <2>1. Whole(mem) /\ catalog \in Catalogs BY DEF CInv
  <2>2. /\ Whole(e) /\ Rest(mem, e) /\ e.ships = mem.ships /\ e.live = FALSE
        /\ e.hull = hull /\ e.fuel = fuel
    BY <2>1, Encoded DEF Flown
  <2>3. e.active = mem.active BY <2>2 DEF Rest
  <2>4. e = [mem EXCEPT !.live = FALSE, !.hull = hull, !.fuel = fuel]
    <3>1. FuelAboard(mem.ships[mem.active]) = fuel BY <2>1, WholeHas, AllAboard DEF Flown
    <3>2. QED BY <3>1 DEF Encode, Flown
  <2>5. Settled(mem) = [mem EXCEPT !.ships = g] BY DEF Settled, EachShip, SettledHull
  <2> HIDE DEF e
  <2>6. DecodeState(e) = [e EXCEPT !.ships = [id \in DOMAIN e.ships |-> SettledHull(e.ships[id])]]
    BY <2>1, <2>2, <2>3, Reread DEF Flown
  <2>7. DecodeState(e) = [e EXCEPT !.ships = g] BY <2>2, <2>6
  <2> HIDE DEF g, hull, fuel
  <2>8. [e EXCEPT !.ships = g] = [[mem EXCEPT !.ships = g] EXCEPT !.live = FALSE, !.fuel = fuel, !.hull = hull]
    BY <2>1, <2>4 DEF Whole, IsSave
  <2>9. DecodeState(Encode(mem)) = [Settled(mem) EXCEPT !.live = FALSE, !.fuel = fuel, !.hull = hull]
    BY <2>5, <2>7, <2>8 DEF e
  <2>10. QED BY <2>9 DEF ReloadIsFaithful, fuel, hull
<1>2. QED BY <1>1, CInvAlways, PTL
=============================================================================
