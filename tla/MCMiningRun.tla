----------------------------- MODULE MCMiningRun -----------------------------
(* Instances of MiningRun for TLC; the .cfg files give the loadouts. *)
EXTENDS MiningRun

\* the instances grant EmergencyResolve what its theorem asks for
ASSUME BudgetAssumption == BudgetCovers
=============================================================================
