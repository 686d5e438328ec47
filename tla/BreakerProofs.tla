---------------------------- MODULE BreakerProofs ----------------------------
(***************************************************************************)
(* Theorems about the three circuit breakers, for every number of calls    *)
(* and every threshold.  The api-server's keeps the promises of the        *)
(* abstract Breaker; the two that decide and write in separate critical    *)
(* sections keep them for one call at a time.                              *)
(***************************************************************************)
EXTENDS ApiBreaker, CarrierBreaker, EngineBreaker, TLAPS

BreakerInv == TypeOK /\ CountTellsState

LEMMA BreakerInit == Init => BreakerInv
BY ThresholdsPositive DEF Init, BreakerInv, TypeOK, CountTellsState

LEMMA BreakerStep == BreakerInv /\ [Next]_vars => BreakerInv'
<1> SUFFICES ASSUME BreakerInv, [Next]_vars PROVE BreakerInv'
  OBVIOUS
<1> USE ThresholdsPositive DEF BreakerInv, TypeOK, CountTellsState, Plus1
<1>1. ASSUME NEW c \in Calls, Admit(c) PROVE BreakerInv'
  BY <1>1 DEF Admit
<1>2. ASSUME NEW c \in Calls, Fail(c) PROVE BreakerInv'
  BY <1>2 DEF Fail
<1>3. ASSUME NEW c \in Calls, Succeed(c) PROVE BreakerInv'
  BY <1>3 DEF Succeed
<1>4. CASE Reset
  BY <1>4 DEF Reset
<1>5. CASE TimeoutPasses
  BY <1>5 DEF TimeoutPasses
<1>6. CASE BackendChanges
  BY <1>6 DEF BackendChanges
<1>7. CASE UNCHANGED vars
  BY <1>7 DEF vars
<1> QED
  BY <1>1, <1>2, <1>3, <1>4, <1>5, <1>6, <1>7 DEF Next

(* The state of the breaker is well formed and its failure count is at the *)
(* threshold exactly while the circuit is not closed.                      *)
THEOREM CountTells == Spec => [](TypeOK /\ CountTellsState)
<1>1. BreakerInv => TypeOK /\ CountTellsState
  BY DEF BreakerInv
<1> QED
  BY <1>1, BreakerInit, BreakerStep, PTL DEF Spec

-----------------------------------------------------------------------------
LEMMA BreakerInitMaps == Init => B!Init
BY DEF Init, B!Init

LEMMA BreakerStepMaps ==
  BreakerInv /\ [Next]_vars => [B!Next]_<<state, lastFailure = "past">>
<1> SUFFICES ASSUME BreakerInv, Next
             PROVE  [B!Next]_<<state, lastFailure = "past">>
  BY DEF vars
<1> USE DEF BreakerInv, TypeOK, B!Next, B!Elapse, B!Fail, B!Try, B!Close, B!Reset
<1>1. ASSUME NEW c \in Calls, Admit(c) PROVE UNCHANGED <<state, lastFailure>> \/ B!Try
  BY <1>1 DEF Admit
<1>2. ASSUME NEW c \in Calls, Fail(c) PROVE B!Fail
  \* Outside Closed the count is already at the threshold: the circuit opens.
  <2>1. CASE state = "Closed"
    BY <1>2, <2>1 DEF Fail
  <2>2. CASE state # "Closed"
    <3>1. failureCount = FailureThreshold
      BY <2>2, ThresholdsPositive DEF CountTellsState
    <3>2. state' = "Open" /\ lastFailure' = "recent"
      BY <1>2, <3>1, ThresholdsPositive DEF Fail, Plus1
    <3> QED
      BY <2>2, <3>2
  <2> QED
    BY <2>1, <2>2
<1>3. ASSUME NEW c \in Calls, Succeed(c) PROVE UNCHANGED <<state, lastFailure>> \/ B!Close
  BY <1>3 DEF Succeed
<1>4. CASE Reset
  BY <1>4 DEF Reset
<1>5. CASE TimeoutPasses
  BY <1>5 DEF TimeoutPasses
<1>6. CASE BackendChanges
  BY <1>6 DEF BackendChanges
<1> QED
  BY <1>1, <1>2, <1>3, <1>4, <1>5, <1>6 DEF Next

(* Every behaviour of the api-server's breaker is one of the abstract       *)
(* breaker: no call before the timeout, one failed trial reopens.           *)
THEOREM ApiRefinesBreaker == Spec => ImplementsBreaker
BY BreakerInit, BreakerStep, BreakerInitMaps, BreakerStepMaps, PTL
DEF Spec, ImplementsBreaker, B!Spec

-----------------------------------------------------------------------------
(* Every move of the carrier breaker leaves its counts below the thresholds  *)
(* of the state it is in.                                                    *)
CarrierCounts == CarrierTypeOK /\ CountsBelow

LEMMA StepCarrierCounts == CarrierCounts /\ [CarrierNext]_carrierVars => CarrierCounts'
<1> SUFFICES ASSUME CarrierCounts, [CarrierNext]_carrierVars PROVE CarrierCounts'
  OBVIOUS
<1> USE CarrierThresholds DEF CarrierCounts, CarrierTypeOK, CountsBelow, UpTo, Move, TransitionTo
<1>1. ASSUME NEW t \in Trips, Allow(t) PROVE CarrierCounts'
  BY <1>1 DEF Allow
<1>2. ASSUME NEW t \in Trips, Try(t) PROVE CarrierCounts'
  BY <1>2 DEF Try
<1>3. ASSUME NEW t \in Trips, RecordFailure(t) PROVE CarrierCounts'
  BY <1>3 DEF RecordFailure
<1>4. ASSUME NEW t \in Trips, RecordSuccess(t) PROVE CarrierCounts'
  BY <1>4 DEF RecordSuccess
<1>5. CASE BecomeOverdue
  BY <1>5 DEF BecomeOverdue
<1>6. CASE CarrierChanges
  BY <1>6 DEF CarrierChanges
<1>7. CASE UNCHANGED carrierVars
  BY <1>7 DEF carrierVars
<1> QED
  BY <1>1, <1>2, <1>3, <1>4, <1>5, <1>6, <1>7 DEF CarrierNext, Travel

(* For every number of callers and every threshold, whatever state a late    *)
(* move to half-open finds the circuit in.                                   *)
THEOREM CarrierCountsBelow == CarrierSpec => []CountsBelow
<1>1. CarrierInit => CarrierCounts
  BY CarrierThresholds DEF CarrierInit, CarrierCounts, CarrierTypeOK, CountsBelow
<1>2. CarrierCounts => CountsBelow
  BY DEF CarrierCounts
<1> QED
  BY <1>1, <1>2, StepCarrierCounts, PTL DEF CarrierSpec

-----------------------------------------------------------------------------
(* No two calls are inside the breaker at one time. *)
Alone(callers) == \A c, d \in callers : c = d

(* An open circuit whose timeout is over stays so until the caller that saw  *)
(* it has made the move, when no other can come between.                     *)
CB == INSTANCE Breaker WITH state <- switch, due <- overdue = "yes"

Upgrades == \A t \in Trips : trip[t] = "upgrade" => switch = "Open" /\ overdue = "yes"

CarrierAlone == CarrierTypeOK /\ Upgrades

LEMMA CarrierAloneStep ==
  ASSUME Alone(Trips), CarrierCounts, CarrierAlone, [CarrierNext]_carrierVars
  PROVE  CarrierAlone' /\ [CB!Next]_<<switch, overdue = "yes">>
<1> USE DEF CarrierAlone, Upgrades, CarrierTypeOK, Move
<1> SUFFICES Upgrades' /\ [CB!Next]_<<switch, overdue = "yes">>
  BY StepCarrierCounts DEF CarrierCounts
<1> USE DEF TransitionTo, CB!Next, CB!Elapse, CB!Fail, CB!Try, CB!Close
<1>1. ASSUME NEW t \in Trips, Allow(t)
      PROVE  Upgrades' /\ [CB!Next]_<<switch, overdue = "yes">>
  BY <1>1 DEF Allow, Alone
<1>2. ASSUME NEW t \in Trips, Try(t)
      PROVE  Upgrades' /\ [CB!Next]_<<switch, overdue = "yes">>
  <2>1. Upgrades'
    BY <1>2 DEF Try, Alone
  <2>2. CB!Try
    BY <1>2 DEF Try
  <2> QED
    BY <2>1, <2>2
<1>3. ASSUME NEW t \in Trips, RecordFailure(t)
      PROVE  Upgrades' /\ [CB!Next]_<<switch, overdue = "yes">>
  <2>1. Upgrades'
    BY <1>3 DEF RecordFailure, Alone
  <2>2. CB!Fail
    BY <1>3 DEF RecordFailure
  <2> QED
    BY <2>1, <2>2
<1>4. ASSUME NEW t \in Trips, RecordSuccess(t)
      PROVE  Upgrades' /\ [CB!Next]_<<switch, overdue = "yes">>
  <2>1. Upgrades'
    BY <1>4 DEF RecordSuccess, Alone
  <2>2. UNCHANGED <<switch, overdue>> \/ CB!Close
    BY <1>4 DEF RecordSuccess
  <2> QED
    BY <2>1, <2>2
<1>5. CASE BecomeOverdue
  BY <1>5 DEF BecomeOverdue
<1>6. CASE CarrierChanges
  BY <1>6 DEF CarrierChanges
<1>7. CASE UNCHANGED carrierVars
  BY <1>7 DEF carrierVars
<1> QED
  BY <1>1, <1>2, <1>3, <1>4, <1>5, <1>6, <1>7 DEF CarrierNext, Travel

(* Between giving up the read lock and taking the write lock is all that     *)
(* keeps the carrier breaker from being a Breaker: for one caller it is.     *)
THEOREM CarrierAloneIsBreaker == Alone(Trips) => (CarrierSpec => CB!Spec)
<1> SUFFICES ASSUME Alone(Trips) PROVE CarrierSpec => CB!Spec
  OBVIOUS
<1>1. CarrierInit => CarrierCounts /\ CarrierAlone /\ CB!Init
  BY CarrierThresholds
  DEF CarrierInit, CarrierCounts, CarrierAlone, CarrierTypeOK, CountsBelow, Upgrades, CB!Init
<1>2. CarrierCounts /\ CarrierAlone /\ [CarrierNext]_carrierVars
        => CarrierAlone' /\ [CB!Next]_<<switch, overdue = "yes">>
  BY CarrierAloneStep
<1> QED
  BY <1>1, <1>2, StepCarrierCounts, PTL DEF CarrierSpec, CB!Spec

-----------------------------------------------------------------------------
(* A call of the engine's breaker that holds the count's lock to stamp its   *)
(* failure has not waited for its timeout.                                   *)
EB == INSTANCE Breaker WITH
        state <- circuit,
        due   <- failedAt # "recent" /\ \A c \in EngineCalls : pc[c] # "stamp"

(* What a call has read is still so when it acts on it. *)
ReadsHold ==
  ~disturbed =>
    /\ resetting = "idle"
    /\ \A c \in EngineCalls :
         /\ pc[c] \in {"sawOpen", "halfOpen"} => circuit = "Open"
         /\ pc[c] = "halfOpen" => failedAt = "past"
         /\ pc[c] = "close" => circuit = "HalfOpen"

EngineAlone == EngineTypeOK /\ ReadsHold

LEMMA EngineTypes == EngineTypeOK /\ [EngineNext]_engineVars => EngineTypeOK'
<1> SUFFICES ASSUME EngineTypeOK, [EngineNext]_engineVars PROVE EngineTypeOK'
  OBVIOUS
<1> USE EngineThresholdPositive DEF EngineTypeOK, breaker, Goto, Steps
<1>1. ASSUME NEW c \in EngineCalls, FailureCount(c) PROVE EngineTypeOK'
  <2>1. failures' \in 0..EngineThreshold
    BY <1>1 DEF FailureCount, EngineCount
  <2> QED
    BY <1>1, <2>1 DEF FailureCount
<1>2. ASSUME NEW c \in EngineCalls, Execute(c), ~FailureCount(c) PROVE EngineTypeOK'
  BY <1>2
  DEF Execute, CheckReadState, CheckReadTime, CheckHalfOpen, ZeroCount, Decide, Return,
      SuccessReadState, SuccessClose, FailureOpen, FailureStamp
<1>3. ASSUME NEW c \in EngineCalls, Drop(c) PROVE EngineTypeOK'
  BY <1>3 DEF Drop
<1>4. CASE ResetState \/ ResetCount \/ ResetTime
  <2>1. failures' \in 0..EngineThreshold
    BY <1>4 DEF ResetState, ResetCount, ResetTime
  <2>2. UNCHANGED <<pc, servicesUp>> /\ disturbed' \in BOOLEAN
    BY <1>4, Zenon DEF ResetState, ResetCount, ResetTime
  <2> QED
    BY <1>4, <2>1, <2>2 DEF ResetState, ResetCount, ResetTime
<1>5. CASE EngineTimeoutPasses \/ ServicesChange
  BY <1>5 DEF EngineTimeoutPasses, ServicesChange
<1>6. CASE UNCHANGED engineVars
  BY <1>6 DEF engineVars
<1> QED
  BY <1>1, <1>2, <1>3, <1>4, <1>5, <1>6 DEF EngineNext

LEMMA EngineAloneStep ==
  ASSUME Alone(EngineCalls), EngineAlone, [EngineNext]_engineVars, ~disturbed'
  PROVE  /\ ReadsHold'
         /\ [EB!Next]_<<circuit, failedAt # "recent" /\ \A c \in EngineCalls : pc[c] # "stamp">>
         /\ circuit = "Open" /\ circuit' # "Open" => failedAt = "past"
<1> DEFINE Mapped == [EB!Next]_<<circuit, failedAt # "recent" /\ \A c \in EngineCalls : pc[c] # "stamp">>
           Held   == circuit = "Open" /\ circuit' # "Open" => failedAt = "past"
<1> SUFFICES ReadsHold' /\ Mapped /\ Held
  OBVIOUS
<1> USE DEF EngineAlone, EngineTypeOK, breaker, Goto
<1>0. ~disturbed
  BY DEF EngineNext, Execute, CheckReadState, CheckReadTime, CheckHalfOpen, ZeroCount, Decide,
         Return, SuccessReadState, SuccessClose, FailureCount, FailureOpen, FailureStamp,
         Drop, ResetState, ResetCount, ResetTime, EngineTimeoutPasses, ServicesChange, engineVars
<1>1. ASSUME NEW c \in EngineCalls,
             \/ CheckReadState(c) \/ CheckReadTime(c) \/ ZeroCount(c) \/ Decide(c)
             \/ Return(c) \/ SuccessReadState(c) \/ FailureCount(c)
      PROVE  ReadsHold' /\ Mapped /\ Held
  <2>1. /\ UNCHANGED <<circuit, failedAt, resetting>>
        /\ pc' = [pc EXCEPT ![c] = pc'[c]] /\ pc[c] # "stamp" /\ pc'[c] # "stamp"
    BY <1>1
    DEF CheckReadState, CheckReadTime, ZeroCount, Decide, Return, SuccessReadState, FailureCount
  <2>2. /\ pc'[c] \in {"sawOpen", "halfOpen"} => circuit = "Open"
        /\ pc'[c] = "halfOpen" => failedAt = "past"
        /\ pc'[c] = "close" => circuit = "HalfOpen"
    BY <1>0, <1>1
    DEF CheckReadState, CheckReadTime, ZeroCount, Decide, Return, SuccessReadState,
        FailureCount, ReadsHold
  <2>3. ReadsHold'
    BY <1>0, <2>1, <2>2 DEF ReadsHold, Alone
  <2> QED
    BY <2>1, <2>3
<1>2. ASSUME NEW c \in EngineCalls, CheckHalfOpen(c) PROVE ReadsHold' /\ Mapped /\ Held
  <2>1. circuit = "Open" /\ failedAt = "past"
    BY <1>0, <1>2 DEF CheckHalfOpen, ReadsHold
  <2>2. ReadsHold'
    BY <1>0, <1>2 DEF CheckHalfOpen, ReadsHold, Alone
  <2>3. EB!Try
    BY <1>2, <2>1 DEF CheckHalfOpen, EB!Try, Alone
  <2> QED
    BY <2>1, <2>2, <2>3 DEF EB!Next
<1>3. ASSUME NEW c \in EngineCalls, SuccessClose(c) PROVE ReadsHold' /\ Mapped /\ Held
  <2>1. circuit = "HalfOpen"
    BY <1>0, <1>3 DEF SuccessClose, ReadsHold
  <2>2. ReadsHold'
    BY <1>0, <1>3 DEF SuccessClose, ReadsHold, Alone
  <2>3. EB!Close
    BY <1>3, <2>1 DEF SuccessClose, EB!Close, Alone
  <2> QED
    BY <2>1, <2>2, <2>3 DEF EB!Next
<1>4. ASSUME NEW c \in EngineCalls, FailureOpen(c) PROVE ReadsHold' /\ Mapped /\ Held
  <2>1. ReadsHold'
    BY <1>0, <1>4 DEF FailureOpen, ReadsHold, Alone
  <2>2. EB!Fail
    BY <1>4 DEF FailureOpen, EB!Fail
  <2>3. circuit' = "Open"
    BY <1>4 DEF FailureOpen
  <2> QED
    BY <2>1, <2>2, <2>3 DEF EB!Next
<1>5. ASSUME NEW c \in EngineCalls, FailureStamp(c) PROVE ReadsHold' /\ Mapped /\ Held
  <2>1. ReadsHold'
    BY <1>0, <1>5 DEF FailureStamp, ReadsHold, Alone
  <2> QED
    BY <1>5, <2>1 DEF FailureStamp
<1>6. ASSUME NEW c \in EngineCalls, Drop(c) PROVE ReadsHold' /\ Mapped /\ Held
  BY <1>6 DEF Drop
<1>7. CASE ResetState \/ ResetCount \/ ResetTime
  BY <1>0, <1>7 DEF ResetState, ResetCount, ResetTime, ReadsHold
<1>8. CASE EngineTimeoutPasses
  BY <1>0, <1>8 DEF EngineTimeoutPasses, ReadsHold, EB!Next, EB!Elapse
<1>9. CASE ServicesChange
  BY <1>0, <1>9 DEF ServicesChange, ReadsHold
<1>10. CASE UNCHANGED engineVars
  BY <1>0, <1>10 DEF engineVars, ReadsHold
<1> QED
  BY <1>1, <1>2, <1>3, <1>4, <1>5, <1>6, <1>7, <1>8, <1>9, <1>10 DEF EngineNext, Execute

LEMMA EngineStarts == EngineInit => EngineAlone /\ EB!Init
<1> SUFFICES ASSUME EngineInit PROVE EngineAlone /\ EB!Init
  OBVIOUS
<1>1. EngineTypeOK
  <2>1. servicesUp \in BOOLEAN /\ disturbed \in BOOLEAN
    BY Zenon DEF EngineInit
  <2>2. pc \in [EngineCalls -> Steps]
    BY DEF EngineInit, Steps
  <2>3. failures \in 0..EngineThreshold
    BY EngineThresholdPositive DEF EngineInit
  <2> QED
    BY <2>1, <2>2, <2>3 DEF EngineInit, EngineTypeOK
<1>2. ReadsHold
  BY DEF EngineInit, ReadsHold
<1>3. EB!Init
  BY DEF EngineInit, EB!Init
<1> QED
  BY <1>1, <1>2, <1>3 DEF EngineAlone

LEMMA EngineAloneKept ==
  Alone(EngineCalls) => (EngineAlone /\ [EngineNext]_engineVars => EngineAlone')
BY EngineTypes, EngineAloneStep DEF EngineAlone, ReadsHold

(* The engine's breaker keeps a circuit open for its timeout as long as one  *)
(* call is inside it at a time: that two can be is what breaks the promise   *)
(* of its comment, and nothing else.                                         *)
THEOREM EngineAloneHolds == Alone(EngineCalls) => (EngineSpec => OpenHeldForTimeout)
<1> SUFFICES ASSUME Alone(EngineCalls) PROVE EngineSpec => OpenHeldForTimeout
  OBVIOUS
<1>1. EngineAlone /\ [EngineNext]_engineVars
        => [~disturbed' /\ circuit = "Open" /\ circuit' # "Open" => failedAt = "past"]_engineVars
  BY EngineAloneStep
<1>2. EngineAlone /\ [EngineNext]_engineVars => EngineAlone'
  BY EngineAloneKept
<1> QED
  BY <1>1, <1>2, EngineStarts, PTL DEF EngineSpec, OpenHeldForTimeout

(* Undisturbed, with one call at a time, every behaviour of the engine's     *)
(* breaker is one of the abstract breaker, whatever its three locks.         *)
THEOREM EngineAloneIsBreaker ==
  Alone(EngineCalls) => (EngineSpec /\ []~disturbed => EB!Spec)
<1> SUFFICES ASSUME Alone(EngineCalls) PROVE EngineSpec /\ []~disturbed => EB!Spec
  OBVIOUS
<1>1. EngineAlone /\ [EngineNext]_engineVars /\ ~disturbed'
        => [EB!Next]_<<circuit, failedAt # "recent" /\ \A c \in EngineCalls : pc[c] # "stamp">>
  BY EngineAloneStep
<1>2. EngineAlone /\ [EngineNext]_engineVars => EngineAlone'
  BY EngineAloneKept
<1> QED
  BY <1>1, <1>2, EngineStarts, PTL DEF EngineSpec, EB!Spec
=============================================================================
