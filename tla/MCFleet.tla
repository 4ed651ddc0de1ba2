------------------------------- MODULE MCFleet -------------------------------
(* Instances of Fleet for TLC: small catalogues, as content.Load gives them. *)
EXTENDS Fleet

Hull(price, cargo, util, weapons, internal, cls, repair) ==
    [price |-> price, cargo |-> cargo, mass |-> 1, tier |-> 1, class |-> cls,
     slots |-> [utility |-> util, weapon |-> weapons, internal |-> internal],
     start |-> [hull |-> 0, power |-> 0], cap |-> [hull |-> 0, power |-> 0],
     soldIn |-> {"kepler"}, noBuyback |-> FALSE, noShield |-> FALSE, dockRepair |-> repair]

(* A yard: one system, two hulls, devices of all three kinds. A generator    *)
(* feeds two shields, which are unique, or one jammer and nothing beside it. *)
YardSystems == <<"kepler">>
YardRatings == [c \in {} |-> c]
YardNeed == [kepler |-> -1]
YardModels ==
    [skiff |-> Hull(0, 1, 2, 0, 1, "miner", 0),
     warden |-> [Hull(1, 1, 0, 1, 1, "fighter", 1) EXCEPT !.noShield = TRUE]]
YardItems ==
    [cargo |-> [kind |-> "utility", price |-> 2, power |-> 0, mass |-> 1],
     fuel_tank |-> [kind |-> "utility", price |-> 1, power |-> 0, mass |-> 1],
     shield |-> [kind |-> "utility", price |-> 1, power |-> 1, mass |-> 1],
     missile_launcher |-> [kind |-> "weapon", price |-> 1, power |-> 1, mass |-> 1],
     pirate_jammer |-> [kind |-> "internal", price |-> 1, power |-> 2, mass |-> 0]]
YardWorlds ==
    [k1 |-> [sys |-> "kepler", travel |-> 1, open |-> TRUE, fee |-> 0, class |-> "", tank |-> 0],
     k2 |-> [sys |-> "kepler", travel |-> 2, open |-> FALSE, fee |-> 1, class |-> "", tank |-> 2]]

(* The last gate: a pilot of class 1 at kepler works for class 2. *)
GateSystems == <<"kepler", "redline">>
GateNeed == [kepler |-> 1, redline |-> 2]
GateSet == {[from |-> "kepler", to |-> "redline", rating |-> 2, fuel |-> 1, stress |-> 1,
             misalign |-> TRUE]}
GateModels ==
    [skiff |-> Hull(0, 2, 0, 0, 1, "miner", 0),
     mule |-> [Hull(1, 1, 0, 0, 1, "freighter", 0) EXCEPT !.soldIn = {"redline"}, !.cap = [hull |-> 1, power |-> 0]]]
GateWorlds ==
    [k1 |-> [sys |-> "kepler", travel |-> 1, open |-> TRUE, fee |-> 0, class |-> "", tank |-> 0],
     r1 |-> [sys |-> "redline", travel |-> 1, open |-> TRUE, fee |-> 0, class |-> "freighter", tank |-> 0],
     r2 |-> [sys |-> "redline", travel |-> 2, open |-> TRUE, fee |-> 0, class |-> "", tank |-> 0]]
GateRatings ==
    2 :> [certifyIn |-> "kepler", price |-> 1, runsAt |-> "k1",
          need |-> [sold |-> 1, runs |-> 0, pirates |-> 0, legendaries |-> 0]]
NoItems == [i \in {} |-> i]
=============================================================================
