----------------------------- MODULE ApiBreaker ------------------------------
(***************************************************************************)
(* The circuit breaker around the api-server's Kubernetes calls            *)
(* (internal/circuitbreaker).  Execute decides under the mutex, runs the   *)
(* call without it, and records the result under the mutex again: results  *)
(* of concurrent calls arrive late, in any order and in any later state.   *)
(***************************************************************************)
EXTENDS Integers

CONSTANTS Calls,              \* calls that can be running at one time
          FailureThreshold,   \* failures that open the circuit
          SuccessThreshold    \* successes that close it again

ASSUME ThresholdsPositive ==
  FailureThreshold \in Nat \ {0} /\ SuccessThreshold \in Nat \ {0}

VARIABLES state,               \* Closed, Open or HalfOpen
          failureCount,
          halfOpenSuccesses,
          lastFailure,         \* recent until the timeout has passed since then
          running,             \* calls let through that have not returned
          healthy              \* whether the backend answers calls

vars == <<state, failureCount, halfOpenSuccesses, lastFailure, running, healthy>>

(* Counts only matter up to their thresholds, where they stop. *)
Plus1(count, threshold) == IF count < threshold THEN count + 1 ELSE count

TypeOK ==
  /\ state \in {"Closed", "Open", "HalfOpen"}
  /\ failureCount \in 0..FailureThreshold
  /\ halfOpenSuccesses \in 0..SuccessThreshold
  /\ lastFailure \in {"recent", "past"}
  /\ running \subseteq Calls
  /\ healthy \in BOOLEAN

Init ==
  /\ state = "Closed"
  /\ failureCount = 0
  /\ halfOpenSuccesses = 0
  /\ lastFailure = "past"      \* the zero time
  /\ running = {}
  /\ healthy \in BOOLEAN

-----------------------------------------------------------------------------
(* mutant: the timeout is not awaited *)
AdmitEarly(c) ==
  /\ c \notin running
  /\ state' = IF state = "Open" THEN "HalfOpen" ELSE state
  /\ running' = running \cup {c}
  /\ UNCHANGED <<failureCount, halfOpenSuccesses, lastFailure, healthy>>

(* Execute up to the call.  A rejected call changes nothing. *)
Admit(c) ==
  /\ c \notin running
  /\ \/ /\ state # "Open"
        /\ UNCHANGED <<state, halfOpenSuccesses>>
     \/ /\ state = "Open"
        /\ lastFailure = "past"
        /\ state' = "HalfOpen"
        /\ halfOpenSuccesses' = 0
  /\ running' = running \cup {c}
  /\ UNCHANGED <<failureCount, lastFailure, healthy>>

(* onFailure *)
Fail(c) ==
  /\ c \in running
  /\ ~healthy
  /\ failureCount' = Plus1(failureCount, FailureThreshold)
  /\ lastFailure' = "recent"
  /\ state' = IF failureCount' >= FailureThreshold THEN "Open" ELSE state
  /\ running' = running \ {c}
  /\ UNCHANGED <<halfOpenSuccesses, healthy>>

(* mutant: successes only count while closed *)
SucceedClosedOnly(c) ==
  /\ c \in running
  /\ healthy
  /\ failureCount' = IF state = "Closed" THEN 0 ELSE failureCount
  /\ running' = running \ {c}
  /\ UNCHANGED <<state, halfOpenSuccesses, lastFailure, healthy>>

(* onSuccess *)
Succeed(c) ==
  /\ c \in running
  /\ healthy
  /\ \/ /\ state = "Closed"
        /\ failureCount' = 0
        /\ UNCHANGED <<state, halfOpenSuccesses>>
     \/ /\ state = "HalfOpen"
        /\ halfOpenSuccesses' = Plus1(halfOpenSuccesses, SuccessThreshold)
        /\ IF halfOpenSuccesses' >= SuccessThreshold
           THEN state' = "Closed" /\ failureCount' = 0
           ELSE UNCHANGED <<state, failureCount>>
     \/ /\ state = "Open"
        /\ UNCHANGED <<state, failureCount, halfOpenSuccesses>>
  /\ running' = running \ {c}
  /\ UNCHANGED <<lastFailure, healthy>>

Reset ==
  /\ state' = "Closed"
  /\ failureCount' = 0
  /\ halfOpenSuccesses' = 0
  /\ UNCHANGED <<lastFailure, running, healthy>>

TimeoutPasses ==
  /\ lastFailure = "recent"
  /\ lastFailure' = "past"
  /\ UNCHANGED <<state, failureCount, halfOpenSuccesses, running, healthy>>

BackendChanges ==
  /\ healthy' = ~healthy
  /\ UNCHANGED <<state, failureCount, halfOpenSuccesses, lastFailure, running>>

Next ==
  \/ \E c \in Calls : Admit(c) \/ Fail(c) \/ Succeed(c)
  \/ Reset
  \/ TimeoutPasses
  \/ BackendChanges

Spec == Init /\ [][Next]_vars

(* Callers keep calling, every call returns, and time passes; nothing makes *)
(* the backend recover or an operator reset the breaker.                    *)
Fairness ==
  /\ WF_vars(TimeoutPasses)
  /\ \A c \in Calls : WF_vars(Admit(c)) /\ WF_vars(Fail(c) \/ Succeed(c))

FairSpec == Spec /\ Fairness

-----------------------------------------------------------------------------
(* The failure count is never reset on the way to half-open, so it is at    *)
(* the threshold exactly while the circuit is not closed: this is why one   *)
(* failure of a trial call, or a late one, opens the circuit again.         *)
CountTellsState == (failureCount >= FailureThreshold) = (state # "Closed")

(* Every step is one the abstract breaker allows: no call passes an open    *)
(* circuit before the timeout, late results included.                       *)
B == INSTANCE Breaker WITH due <- lastFailure = "past"

ImplementsBreaker == B!Spec

(* A backend that stays healthy gets its calls again: the circuit closes,   *)
(* however many failures were still in flight.                              *)
Recovers == <>[]healthy => <>[](state = "Closed")
=============================================================================
