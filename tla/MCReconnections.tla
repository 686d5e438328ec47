---------------------------- MODULE MCReconnections ----------------------------
(* Those who try again, for TLC: the downloads of profiles, with failover as  *)
(* both configurations in the code have it, the client of the SDK and the     *)
(* service of the dashboard.  A behaviour is one of one of them, chosen by    *)
(* its initial state, and the others stay as they start.                      *)
EXTENDS CarrierFailover, SocketClient, DashboardSocket

VARIABLE part

tryingVars == <<failoverVars, clientVars, serviceVars, part>>

MCInit ==
  /\ FailoverInit /\ ClientInit /\ ServiceInit
  /\ part \in {"downloads", "sdk", "dashboard"}
  /\ enableFailover

MCNext ==
  \/ part = "downloads" /\ FailoverNext /\ UNCHANGED <<clientVars, serviceVars, part>>
  \/ part = "sdk"       /\ ClientNext   /\ UNCHANGED <<failoverVars, serviceVars, part>>
  \/ part = "dashboard" /\ ServiceNext  /\ UNCHANGED <<failoverVars, clientVars, part>>

(* What is fair of a part that is not chosen is never enabled: it binds no    *)
(* behaviour.                                                                 *)
MCSpec == MCInit /\ [][MCNext]_tryingVars /\ FailoverFairness /\ ServiceFairness
=============================================================================
