------------------------------ MODULE MCApiServer -------------------------------
(* The parts of the api-server for TLC.  They share no state: a behaviour is *)
(* one of one part, chosen by its initial state, and the other parts stay as *)
(* they start.                                                               *)
EXTENDS SubscriberAccount, Enrollment, AlertHub, ChaosExperiments, AuthSessions

VARIABLE part

serverVars == <<vars, enrollmentVars, hubVars, chaosVars, sessionVars, part>>

MCInit ==
  /\ Init /\ EnrollmentInit /\ HubInit /\ ChaosInit /\ SessionsInit
  /\ part \in {"account", "enrollment", "alerts", "chaos", "sessions"}
  /\ At(CHOOSE r \in Requests : TRUE, "save")   \* requests are alike

MCNext ==
  \/ part = "account" /\ Next /\ UNCHANGED <<enrollmentVars, hubVars, chaosVars, sessionVars, part>>
  \/ part = "enrollment" /\ EnrollmentNext /\ UNCHANGED <<vars, hubVars, chaosVars, sessionVars, part>>
  \/ part = "alerts" /\ HubNext /\ UNCHANGED <<vars, enrollmentVars, chaosVars, sessionVars, part>>
  \/ part = "chaos" /\ ChaosNext /\ UNCHANGED <<vars, enrollmentVars, hubVars, sessionVars, part>>
  \/ part = "sessions" /\ SessionsNext /\ UNCHANGED <<vars, enrollmentVars, hubVars, chaosVars, part>>

(* What is fair of a part that is not chosen is never enabled: it binds no    *)
(* behaviour.                                                                 *)
MCSpec == MCInit /\ [][MCNext]_serverVars /\ Fairness /\ HubFairness
=============================================================================
