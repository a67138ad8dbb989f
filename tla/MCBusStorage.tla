----------------------------- MODULE MCBusStorage -----------------------------
(***************************************************************************)
(* The move of the stop predictions, and the vehicle snapshot, which share *)
(* no state, checked in one run: the variable part says which of them a    *)
(* behaviour is about, and the variables of the other stay as they are.    *)
(***************************************************************************)
EXTENDS MCStorageBackfill, VehicleSnapshot

VARIABLE part

BackfillAtRest == Init /\ ~writesLegacy

VehiclesAtRest == VehicleInit /\ activeVersion = CHOOSE v \in Version : TRUE

StorageInit ==
  \/ part = "backfill" /\ Init /\ VehiclesAtRest
  \/ part = "vehicles" /\ VehicleInit /\ BackfillAtRest

StorageNext ==
  \/ part = "backfill" /\ Next /\ UNCHANGED <<part, vehicleVars>>
  \/ part = "vehicles" /\ VehicleNext /\ UNCHANGED <<part, vars>>

StorageSpec == StorageInit /\ [][StorageNext]_<<part, vars, vehicleVars>>
===============================================================================
