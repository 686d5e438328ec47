--------------------------- MODULE MCCarrierConnector ---------------------------
(* The parts of the carrier connector for TLC.  They share no state: a       *)
(* behaviour is one of one part, chosen by its initial state, and the other  *)
(* parts stay as they start.                                                 *)
EXTENDS ProfileStore, RatePlans, Tenants, Snowflake

VARIABLE part

connectorVars == <<vars, plansVars, tenantsVars, flakeVars, part>>

MCInit ==
  /\ Init /\ PlansInit /\ TenantsInit /\ FlakeInit
  /\ part \in {"profiles", "plans", "tenants", "ids"}
  /\ part = "plans" \/ \A r \in Plans : planRow[r] = "forSale"

MCNext ==
  \/ part = "profiles" /\ Next /\ UNCHANGED <<plansVars, tenantsVars, flakeVars, part>>
  \/ part = "plans" /\ PlansNext /\ UNCHANGED <<vars, tenantsVars, flakeVars, part>>
  \/ part = "tenants" /\ TenantsNext /\ UNCHANGED <<vars, plansVars, flakeVars, part>>
  \/ part = "ids" /\ FlakeNext /\ UNCHANGED <<vars, plansVars, tenantsVars, part>>

(* Where no profile is ever looked up, no entry lapses: the fairness of that *)
(* binds none of the other parts.                                            *)
MCSpec == MCInit /\ [][MCNext]_connectorVars /\ Fairness
=============================================================================
