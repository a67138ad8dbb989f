-------------------------------- MODULE MCBoard --------------------------------
(***************************************************************************)
(* One run for two parts of the behaviour of the TripUpdates pipeline:     *)
(* with the clean-up and one version, or without it, with switches between *)
(* two versions and one prediction that comes and goes. The proofs have    *)
(* everything at once.                                                     *)
(***************************************************************************)
EXTENDS MCTripUpdates

VARIABLE part

MCInit ==
  /\ Init
  /\ part \in {"clean-up", "switches"}
  /\ part = "clean-up" => active = v1

MCNext ==
  /\ Next
  /\ part = "clean-up" => active' = active
  /\ part = "switches" => UNCHANGED prune /\ source' \in [Key -> {late, None}]
  /\ UNCHANGED part

MCSpec == MCInit /\ [][MCNext]_<<vars, part>> /\ Fairness
================================================================================
