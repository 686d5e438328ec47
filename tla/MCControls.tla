------------------------------ MODULE MCControls -------------------------------
(* The circuit breakers and the IP blocks for TLC.  They share no state: a   *)
(* behaviour is one of one of them, chosen by its initial state, and the     *)
(* others stay as they start.                                                *)
EXTENDS ApiBreaker, EngineBreaker, CarrierBreaker, BlockControl

VARIABLE part

controlsVars == <<vars, engineVars, carrierVars, blockVars, part>>

MCInit ==
  /\ Init /\ EngineInit /\ CarrierInit /\ BlockInit
  /\ part \in {"api", "engine", "carrier", "block"}
  /\ part = "api" \/ healthy
  /\ part = "engine" \/ servicesUp
  /\ part = "carrier" \/ carrierUp = "yes"

MCNext ==
  \/ part = "api"     /\ Next        /\ UNCHANGED <<engineVars, carrierVars, blockVars, part>>
  \/ part = "engine"  /\ EngineNext  /\ UNCHANGED <<vars, carrierVars, blockVars, part>>
  \/ part = "carrier" /\ CarrierNext /\ UNCHANGED <<vars, engineVars, blockVars, part>>
  \/ part = "block"   /\ BlockNext   /\ UNCHANGED <<vars, engineVars, carrierVars, part>>

MCSpec ==
  /\ MCInit /\ [][MCNext]_controlsVars
  /\ part = "api"     => Fairness
  /\ part = "engine"  => EngineFairness
  /\ part = "carrier" => CarrierFairness
  /\ part = "block"   => BlockFairness
=============================================================================
