---------------------------- MODULE MCSaveCodec ----------------------------
(* Rows of every release: what each one could have written. *)
EXTENDS SaveCodec

TwoModels == [skiff |-> 1, lantern |-> 2]
TwoCatalogs == {{"skiff", "lantern"}, {"skiff"}}

\* the devices a release sold, tanks with fuel since version 6; a tank or a
\* reserve may hold more than this release gives it room for
Offered(v) ==
    {Device("fuel_tank", f, 0) : f \in IF v < 6 THEN {0} ELSE {0, 1, 2}}
      \cup (IF v < 5 THEN {Device("chaff", 0, 0)} ELSE {Device("emp_launcher", 0, 1)})
      \cup (IF v < 7 THEN {Device("mass_driver", 0, 0)} ELSE {Device("missile_launcher", 0, 1)})
      \cup {Device("shield", 0, 0)}

Drive == Device("jump_drive", 0, 0)
Cores(v) == {None} \cup (IF v < 8 THEN {Drive} ELSE {})

OldHull(v, model, first, core, hull, base) ==
    [model |-> model, sys |-> IF v < 8 THEN "" ELSE "sol",
     hull |-> IF v < 6 THEN 0 ELSE hull, base |-> IF v < 6 THEN 0 ELSE base,
     shield |-> IF first # None /\ first.item = "shield" /\ v >= 3 THEN "full" ELSE "none",
     slots |-> <<first, None>>,
     internal |-> IF v < 8 \/ model = "skiff" THEN <<core>> ELSE <<core, None>>]

Saved(v, ships, active, fuel, stock, permit, log) ==
    [version |-> v, credits |-> 1, sys |-> IF v < 4 THEN "" ELSE "sol",
     world |-> IF stock = <<>> THEN "" ELSE IF v < 4 THEN "eridani" ELSE "sol",
     fuel |-> fuel, hull |-> 1, ships |-> ships, active |-> active, unlocked |-> DOMAIN ships,
     stock |-> stock, permit |-> permit, log |-> log, rating |-> IF v < 8 THEN 0 ELSE -1,
     visited |-> IF v < 8 THEN {} ELSE {"sol"}, runs |-> 0, live |-> FALSE]

History == <<[what |-> "survived", sys |-> "sol"], [what |-> "sale", sys |-> "eridani"]>>

\* one hull or two, an add-on, a drive here and there, one thing stored; the
\* pilots that have fuel left have a history too, those with something stored
\* are at a world, whose system old releases did not name
Stored(v) == {<<>>, <<Device(IF v < 5 THEN "chaff" ELSE "emp_launcher", 0, IF v < 5 THEN 0 ELSE 1)>>}
               \cup (IF v < 8 THEN {<<Drive>>} ELSE {})

RowsOf(v) ==
    UNION {LET log == IF b = 0 THEN <<>> ELSE History IN
        {Saved(v, [skiff |-> OldHull(v, "skiff", d, c, 1, b)], "skiff", b, st, p, log),
         Saved(v, [skiff |-> OldHull(v, "skiff", None, None, 1, 1),
                   lantern |-> OldHull(v, "lantern", d, c, 1, b)], "lantern", b, st, p, log)} :
            d \in {None} \cup Offered(v), c \in Cores(v), b \in IF v < 6 THEN {0, 2} ELSE {0, 2, 3}, st \in Stored(v),
            p \in IF v < 8 THEN BOOLEAN ELSE {FALSE}}

AllRows == {Saved(1, <<>>, "", 1, <<>>, FALSE, <<>>)} \cup UNION {RowsOf(v) : v \in 2 .. 8}
=============================================================================
