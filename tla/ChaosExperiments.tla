--------------------------- MODULE ChaosExperiments ---------------------------
(***************************************************************************)
(* The chaos experiments of the api-server.  A request begins one: it is   *)
(* listed under an id made of the second, and a goroutine runs it and      *)
(* takes it off the list.  All of it is in memory, under one mutex, which  *)
(* the goroutine holds for its status and again for its end.               *)
(***************************************************************************)
EXTENDS Naturals

CONSTANTS Experiments,   \* bound: the experiments that come to be begun
          Unlisted,      \* no experiment
          MaxSecond      \* bound on the clock

ASSUME UnlistedIsNone == Unlisted \notin Experiments
ASSUME SecondNat == MaxSecond \in Nat

VARIABLES second,
          kind, began,   \* of each experiment: its type and the second of its id
          goroutine,     \* ... where its goroutine is
          status,
          requesting,    \* experiments whose request has not returned
          active         \* the list

chaosVars == <<second, kind, began, goroutine, status, requesting, active>>

(* Latency, kill, partition and flush sleep and complete. *)
Kinds   == {"sleep", "crash", "load", "unknown"}
Seconds == 0..MaxSecond

ChaosTypeOK ==
  /\ second \in Seconds
  /\ kind \in [Experiments -> Kinds]
  /\ began \in [Experiments -> Seconds]
  /\ goroutine \in [Experiments -> {"none", "runs", "ends", "ended"}]
  /\ status \in [Experiments -> {"idle", "running", "completed", "failed"}]
  /\ requesting \subseteq Experiments
  /\ active \in [Seconds -> Experiments \cup {Unlisted}]

ChaosInit ==
  /\ second = 0
  /\ kind = [e \in Experiments |-> "sleep"]
  /\ began = [e \in Experiments |-> 0]
  /\ goroutine = [e \in Experiments |-> "none"]
  /\ status = [e \in Experiments |-> "idle"]
  /\ requesting = {}
  /\ active = [s \in Seconds |-> Unlisted]

RunExperiment(e, k) ==
  /\ goroutine[e] = "none"
  /\ kind' = [kind EXCEPT ![e] = k]
  /\ began' = [began EXCEPT ![e] = second]
  /\ active' = [active EXCEPT ![second] = e]
  /\ status' = [status EXCEPT ![e] = "running"]
  /\ goroutine' = [goroutine EXCEPT ![e] = "runs"]
  /\ requesting' = requesting \cup {e}
  /\ UNCHANGED second

(* The response is sent, or the client is gone: the context is cancelled. *)
RequestReturns(e) ==
  /\ e \in requesting
  /\ requesting' = requesting \ {e}
  /\ UNCHANGED <<second, kind, began, goroutine, status, active>>

Outcomes == [sleep |-> {"completed"}, crash |-> {"completed", "failed"},
             load |-> {"completed"}, unknown |-> {"failed"}]

(* executeExperiment, up to its deferred function; a load that finds its     *)
(* context cancelled returns without a status.                               *)
Execute(e) ==
  /\ goroutine[e] = "runs"
  /\ \/ \E o \in Outcomes[kind[e]] : status' = [status EXCEPT ![e] = o]
     \/ kind[e] = "load" /\ e \notin requesting /\ UNCHANGED status
  /\ goroutine' = [goroutine EXCEPT ![e] = "ends"]
  /\ UNCHANGED <<second, kind, began, requesting, active>>

(* mutant: it leaves the status *)
ForgetRunning(e) ==
  /\ goroutine[e] = "ends"
  /\ goroutine' = [goroutine EXCEPT ![e] = "ended"]
  /\ active' = [active EXCEPT ![began[e]] = Unlisted]
  /\ UNCHANGED <<second, kind, began, status, requesting>>

(* ... and that function: it deletes whatever is listed under the id *)
Forget(e) ==
  /\ goroutine[e] = "ends"
  /\ goroutine' = [goroutine EXCEPT ![e] = "ended"]
  /\ status' = [status EXCEPT ![e] = IF @ = "running" THEN "completed" ELSE @]
  /\ active' = [active EXCEPT ![began[e]] = Unlisted]
  /\ UNCHANGED <<second, kind, began, requesting>>

(* The clock goes on, or is set back. *)
ClockMoves ==
  /\ second' \in Seconds \ {second}
  /\ UNCHANGED <<kind, began, goroutine, status, requesting, active>>

ChaosStep(e) ==
  \/ \E k \in Kinds : RunExperiment(e, k)
  \/ RequestReturns(e) \/ Execute(e) \/ Forget(e)

ChaosNext == (\E e \in Experiments : ChaosStep(e)) \/ ClockMoves

ChaosSpec == ChaosInit /\ [][ChaosNext]_chaosVars

-----------------------------------------------------------------------------
InSecondOf(e) == {f \in Experiments : goroutine[f] # "none" /\ began[f] = began[e]}
Listed(e)     == active[began[e]] = e

(* An experiment that runs is listed, and so is none that has ended; only of *)
(* experiments begun within one second, which share their id, can one that   *)
(* runs be missing.                                                          *)
RunningIsListed ==
  /\ \A e \in Experiments :
       status[e] = "running" => Listed(e) \/ InSecondOf(e) # {e}
  /\ \A s \in Seconds : active[s] # Unlisted => goroutine[active[s]] # "ended"
=============================================================================
