---------------------------- MODULE CarrierBreaker -----------------------------
(***************************************************************************)
(* The circuit breaker of the carrier connector (infra/circuitbreaker.go), *)
(* a library that nothing in the repository creates, between concurrent    *)
(* callers.  A caller that finds the circuit open and its timeout over     *)
(* gives up the read lock, takes the write lock and moves to half-open,    *)
(* without looking at the state again: in between it can have become       *)
(* anything.                                                               *)
(***************************************************************************)
EXTENDS Naturals

CONSTANTS Trips,          \* callers inside the breaker at one time
          FailuresToOpen, SuccessesToClose

ASSUME CarrierThresholds ==
  FailuresToOpen \in Nat \ {0} /\ SuccessesToClose \in Nat \ {0}

VARIABLES switch,                  \* Closed, Open or HalfOpen
          failed, successful,      \* failureCount and successCount
          overdue,                 \* the timeout has passed since the last failure
          trip,                    \* where each caller is
          carrierUp                \* whether the calls made now succeed

carrierVars == <<switch, failed, successful, overdue, trip, carrierUp>>

CarrierTypeOK ==
  /\ switch \in {"Closed", "Open", "HalfOpen"}
  /\ failed \in 0..FailuresToOpen
  /\ successful \in 0..SuccessesToClose
  /\ overdue \in {"yes", "no"}
  /\ trip \in [Trips -> {"out", "upgrade", "calling"}]
  /\ carrierUp \in {"yes", "no"}

CarrierInit ==
  /\ switch = "Closed"
  /\ failed = 0
  /\ successful = 0
  /\ overdue = "yes"       \* the zero time
  /\ trip = [t \in Trips |-> "out"]
  /\ carrierUp \in {"yes", "no"}

Move(t, from, to) == trip[t] = from /\ trip' = [trip EXCEPT ![t] = to]

(* The counts only matter up to their thresholds, where they stop. *)
UpTo(count, threshold) == IF count < threshold THEN count + 1 ELSE count

-----------------------------------------------------------------------------
(* allowRequest.  A caller that is rejected changes nothing. *)
Allow(t) ==
  /\ \/ switch # "Open" /\ Move(t, "out", "calling")
     \/ switch = "Open" /\ overdue = "yes" /\ Move(t, "out", "upgrade")
  /\ UNCHANGED <<switch, failed, successful, overdue, carrierUp>>

(* transitionTo: the counts start again, unless the state is the same. *)
TransitionTo(to) ==
  /\ switch' = to
  /\ failed' = IF switch = to THEN failed ELSE 0
  /\ successful' = IF switch = to THEN successful ELSE 0

Try(t) ==
  /\ Move(t, "upgrade", "calling")
  /\ TransitionTo("HalfOpen")
  /\ UNCHANGED <<overdue, carrierUp>>

(* Execute, recordFailure *)
RecordFailure(t) ==
  /\ Move(t, "calling", "out")
  /\ carrierUp = "no"
  /\ overdue' = "no"
  /\ IF switch = "HalfOpen" \/ (switch = "Closed" /\ failed + 1 >= FailuresToOpen)
       THEN TransitionTo("Open")
       ELSE failed' = UpTo(failed, FailuresToOpen) /\ UNCHANGED <<switch, successful>>
  /\ UNCHANGED carrierUp

(* mutant: the successes are counted while the circuit is closed only *)
RecordSuccessClosedOnly(t) ==
  /\ Move(t, "calling", "out")
  /\ carrierUp = "yes"
  /\ failed' = IF switch = "Closed" THEN 0 ELSE failed
  /\ UNCHANGED <<switch, successful, overdue, carrierUp>>

(* Execute, recordSuccess *)
RecordSuccess(t) ==
  /\ Move(t, "calling", "out")
  /\ carrierUp = "yes"
  /\ IF switch = "HalfOpen" /\ successful + 1 >= SuccessesToClose
       THEN TransitionTo("Closed")
       ELSE /\ successful' = UpTo(successful, SuccessesToClose)
            /\ failed' = IF switch = "Closed" THEN 0 ELSE failed
            /\ UNCHANGED switch
  /\ UNCHANGED <<overdue, carrierUp>>

BecomeOverdue ==
  /\ overdue = "no"
  /\ overdue' = "yes"
  /\ UNCHANGED <<switch, failed, successful, trip, carrierUp>>

CarrierChanges ==
  /\ carrierUp' = IF carrierUp = "yes" THEN "no" ELSE "yes"
  /\ UNCHANGED <<switch, failed, successful, overdue, trip>>

Travel(t) == Allow(t) \/ Try(t) \/ RecordFailure(t) \/ RecordSuccess(t)

CarrierNext == (\E t \in Trips : Travel(t)) \/ BecomeOverdue \/ CarrierChanges

CarrierSpec == CarrierInit /\ [][CarrierNext]_carrierVars

(* Callers keep calling, every call returns, and time passes. *)
CarrierFairness ==
  WF_carrierVars(BecomeOverdue) /\ \A t \in Trips : WF_carrierVars(Travel(t))

-----------------------------------------------------------------------------
(* The circuit never stays closed at its failures, nor half-open at its      *)
(* successes, although a late move to half-open can come in any state.       *)
CountsBelow ==
  /\ switch = "Closed" => failed < FailuresToOpen
  /\ switch = "HalfOpen" => successful < SuccessesToClose

(* A carrier that stays up gets its calls again, and the circuit stays       *)
(* closed: the late moves to half-open come to an end.                       *)
CarrierRecovers == <>[](carrierUp = "yes") => <>[](switch = "Closed")
=============================================================================
