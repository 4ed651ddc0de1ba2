----------------------------- MODULE MCTerminal -----------------------------
(* A small instance of Terminal. *)
EXTENDS Terminal

\* A docked pilot flies to a belt, and no pirate comes.
Quietly  == Next /\ save'.run \notin {"tribute", "combat"}
FromDock == Init /\ save.at = "dock" /\ [][Quietly]_vars
=============================================================================
