---------------------------- MODULE MCChargingEngine ----------------------------
(* The parts of the charging engine for TLC.  They share no keys or tables: a *)
(* behaviour is one of one part, chosen by its initial state, and the other   *)
(* parts stay as they start.                                                  *)
EXTENDS AccountCharges, CreditControl, BundleCharging

VARIABLE part

engineVars == <<vars, creditVars, chargingVars, part>>

(* A hybrid bundle, an "unlimited" data bundle, which is stored as -1, and *)
(* one with nothing in it                                                  *)
SomeOffers ==
  {[data |-> 2, voice |-> 1],
   [data |-> 2 * MaxBigint + 1, voice |-> Null],
   [data |-> 0, voice |-> Null]}

MCInit ==
  /\ Init /\ CreditInit /\ ChargingInit
  /\ part \in {"accounts", "credit", "bundles"}
  /\ part = "accounts" \/ marker = month

MCNext ==
  \/ part = "accounts" /\ Next         /\ UNCHANGED <<creditVars, chargingVars, part>>
  \/ part = "credit"   /\ CreditNext   /\ UNCHANGED <<vars, chargingVars, part>>
  \/ part = "bundles"  /\ ChargingNext /\ UNCHANGED <<vars, creditVars, part>>

MCSpec == MCInit /\ [][MCNext]_engineVars
=============================================================================
