---------------------------- MODULE EngineBreaker ----------------------------
(***************************************************************************)
(* The charging engine's circuit breaker (circuit_breaker.rs).  Its state, *)
(* its failure count and the time of its last failure sit behind three     *)
(* separate locks, so every await of execute is a point where another call *)
(* can run.  Only on_failure holds a lock (the count's) across others.     *)
(*                                                                         *)
(* axum drops the future of a request whose client has gone away, at any   *)
(* of those awaits.                                                        *)
(***************************************************************************)
EXTENDS Integers

CONSTANTS EngineCalls,       \* requests that can be inside the breaker at one time
          EngineThreshold    \* failures in a row that open the circuit

ASSUME EngineThresholdPositive == EngineThreshold \in Nat \ {0}

VARIABLES circuit,        \* Closed, Open or HalfOpen
          failures,
          failedAt,       \* none, recent, or past: longer ago than the timeout
          pc,             \* the next lock each call takes
          resetting,      \* the next lock reset takes
          servicesUp,     \* whether the calls made now succeed
          disturbed       \* a request was dropped, or the breaker was reset

breaker == <<circuit, failures, failedAt>>

engineVars == <<breaker, pc, resetting, servicesUp, disturbed>>

(* The count only matters up to the threshold, where it stops. *)
EngineCount(count) == IF count < EngineThreshold THEN count + 1 ELSE count

Steps == {"idle", "sawOpen", "halfOpen", "zeroTrial", "decide", "calling",
          "succeeded", "close", "zero", "failed", "open", "stamp"}

EngineTypeOK ==
  /\ circuit \in {"Closed", "Open", "HalfOpen"}
  /\ failures \in 0..EngineThreshold
  /\ failedAt \in {"none", "recent", "past"}
  /\ pc \in [EngineCalls -> Steps]
  /\ resetting \in {"idle", "count", "time"}
  /\ servicesUp \in BOOLEAN
  /\ disturbed \in BOOLEAN

EngineInit ==
  /\ circuit = "Closed"
  /\ failures = 0
  /\ failedAt = "none"
  /\ pc = [c \in EngineCalls |-> "idle"]
  /\ resetting = "idle"
  /\ servicesUp \in BOOLEAN
  /\ disturbed = FALSE

Goto(c, from, to) == pc[c] = from /\ pc' = [pc EXCEPT ![c] = to]

(* on_failure keeps the count locked until it has stamped the failure *)
CountFree == \A c \in EngineCalls : pc[c] \notin {"open", "stamp"}

-----------------------------------------------------------------------------
(* mutant: the count is cleared before every call *)
CheckReadStateZeroes(c) ==
  /\ Goto(c, "idle", IF circuit = "Open" THEN "sawOpen" ELSE "zeroTrial")
  /\ UNCHANGED <<breaker, resetting, servicesUp, disturbed>>

(* execute, check_state: the state is read, then the time of the failure *)
CheckReadState(c) ==
  /\ Goto(c, "idle", IF circuit = "Open" THEN "sawOpen" ELSE "decide")
  /\ UNCHANGED <<breaker, resetting, servicesUp, disturbed>>

CheckReadTime(c) ==
  /\ Goto(c, "sawOpen", IF failedAt = "past" THEN "halfOpen" ELSE "decide")
  /\ UNCHANGED <<breaker, resetting, servicesUp, disturbed>>

CheckHalfOpen(c) ==
  /\ Goto(c, "halfOpen", "zeroTrial")
  /\ circuit' = "HalfOpen"
  /\ UNCHANGED <<failures, failedAt, resetting, servicesUp, disturbed>>

(* The count is cleared on the way to half-open and after a success. *)
ZeroCount(c) ==
  /\ CountFree
  /\ Goto(c, "zeroTrial", "decide") \/ Goto(c, "zero", "idle")
  /\ failures' = 0
  /\ UNCHANGED <<circuit, failedAt, resetting, servicesUp, disturbed>>

(* execute reads the state again, and rejects the call or makes it *)
Decide(c) ==
  /\ Goto(c, "decide", IF circuit = "Open" THEN "idle" ELSE "calling")
  /\ UNCHANGED <<breaker, resetting, servicesUp, disturbed>>

Return(c) ==
  /\ Goto(c, "calling", IF servicesUp THEN "succeeded" ELSE "failed")
  /\ UNCHANGED <<breaker, resetting, servicesUp, disturbed>>

(* mutant: a success while half-open only clears the count *)
SuccessReadStateForgets(c) ==
  /\ Goto(c, "succeeded", IF circuit = "Open" THEN "idle" ELSE "zero")
  /\ UNCHANGED <<breaker, resetting, servicesUp, disturbed>>

(* on_success *)
SuccessReadState(c) ==
  /\ Goto(c, "succeeded", CASE circuit = "HalfOpen" -> "close"
                            [] circuit = "Closed"   -> "zero"
                            [] circuit = "Open"     -> "idle")
  /\ UNCHANGED <<breaker, resetting, servicesUp, disturbed>>

SuccessClose(c) ==
  /\ Goto(c, "close", "zero")
  /\ circuit' = "Closed"
  /\ UNCHANGED <<failures, failedAt, resetting, servicesUp, disturbed>>

(* on_failure *)
FailureCount(c) ==
  /\ CountFree
  /\ failures' = EngineCount(failures)
  /\ Goto(c, "failed", IF failures' >= EngineThreshold THEN "open" ELSE "idle")
  /\ UNCHANGED <<circuit, failedAt, resetting, servicesUp, disturbed>>

FailureOpen(c) ==
  /\ Goto(c, "open", "stamp")
  /\ circuit' = "Open"
  /\ UNCHANGED <<failures, failedAt, resetting, servicesUp, disturbed>>

FailureStamp(c) ==
  /\ Goto(c, "stamp", "idle")
  /\ failedAt' = "recent"
  /\ UNCHANGED <<circuit, failures, resetting, servicesUp, disturbed>>

(* The client disconnects: the call ends where it is and frees its locks. *)
Drop(c) ==
  /\ pc[c] # "idle"
  /\ pc' = [pc EXCEPT ![c] = "idle"]
  /\ disturbed' = TRUE
  /\ UNCHANGED <<breaker, resetting, servicesUp>>

(* reset takes its three locks one after the other. *)
ResetState ==
  /\ resetting = "idle"
  /\ resetting' = "count"
  /\ circuit' = "Closed"
  /\ disturbed' = TRUE
  /\ UNCHANGED <<failures, failedAt, pc, servicesUp>>

ResetCount ==
  /\ resetting = "count"
  /\ CountFree
  /\ resetting' = "time"
  /\ failures' = 0
  /\ UNCHANGED <<circuit, failedAt, pc, servicesUp, disturbed>>

ResetTime ==
  /\ resetting = "time"
  /\ resetting' = "idle"
  /\ failedAt' = "none"
  /\ UNCHANGED <<circuit, failures, pc, servicesUp, disturbed>>

EngineTimeoutPasses ==
  /\ failedAt = "recent"
  /\ failedAt' = "past"
  /\ UNCHANGED <<circuit, failures, pc, resetting, servicesUp, disturbed>>

ServicesChange ==
  /\ servicesUp' = ~servicesUp
  /\ UNCHANGED <<breaker, pc, resetting, disturbed>>

Execute(c) ==
  \/ CheckReadState(c) \/ CheckReadTime(c) \/ CheckHalfOpen(c)
  \/ ZeroCount(c) \/ Decide(c) \/ Return(c)
  \/ SuccessReadState(c) \/ SuccessClose(c)
  \/ FailureCount(c) \/ FailureOpen(c) \/ FailureStamp(c)

EngineNext ==
  \/ \E c \in EngineCalls : Execute(c) \/ Drop(c)
  \/ ResetState \/ ResetCount \/ ResetTime
  \/ EngineTimeoutPasses
  \/ ServicesChange

EngineSpec == EngineInit /\ [][EngineNext]_engineVars

(* Every call runs on and callers keep calling; the locks are fair (tokio's  *)
(* are), so a call that waits for the count gets it.                         *)
EngineFairness ==
  /\ WF_engineVars(EngineTimeoutPasses)
  /\ \A c \in EngineCalls : WF_engineVars(Execute(c)) /\ SF_engineVars(ZeroCount(c) \/ FailureCount(c))

-----------------------------------------------------------------------------
(* Once calls succeed for good the circuit closes, whatever order the        *)
(* pending reads and writes of state, count and time come in.                *)
EngineRecovers == ([]~disturbed /\ <>[]servicesUp) => <>[](circuit = "Closed")

(* Calls that keep failing open the circuit, again and again: the writes of  *)
(* calls that read Closed or HalfOpen before delay it and no more.           *)
TripsUnderFailure ==
  ([]~disturbed /\ <>[]~servicesUp) => []<>(circuit = "Open")

(* circuit_breaker.rs:72 "Duration to wait before attempting to close the    *)
(* circuit": an open circuit leaves Open only once the timeout has passed.   *)
OpenHeldForTimeout ==
  [][~disturbed' /\ circuit = "Open" /\ circuit' # "Open" => failedAt = "past"]_engineVars
=============================================================================
