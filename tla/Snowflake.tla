------------------------------- MODULE Snowflake -------------------------------
(***************************************************************************)
(* The generator of ids of the carrier connector: a time in milliseconds,  *)
(* the number of the node and a sequence number, as the digits of one      *)
(* integer.  A process has one generator, whose mutex makes each id one    *)
(* step, but for the wait for the next millisecond when the sequence       *)
(* numbers of one are used up.  The clock is the wall clock, which can be  *)
(* set back.                                                               *)
(*                                                                         *)
(* All processes use the same node number, so that nothing is promised     *)
(* about the ids of two: the model is of one process and those it is       *)
(* restarted as.                                                           *)
(***************************************************************************)
EXTENDS Naturals

CONSTANTS MaxNodeID, NodeID,
          MaxSequence,
          MaxTime                \* bound on the clock

ASSUME NodeNat == MaxNodeID \in Nat /\ NodeID \in 0..MaxNodeID
ASSUME SequenceNat == MaxSequence \in Nat
ASSUME TimeNat == MaxTime \in Nat \ {0}

VARIABLES clock,                 \* milliseconds since the epoch of the ids
          timestamp, sequence,
          spinning,              \* is the generator waiting for the next millisecond?
          (* history *)
          given,                 \* the ids given out
          latest,                \* the latest time one was given out at
          behind,                \* was the clock set back since?
          repeated,              \* ids given out again
          doubtful               \* ids given out while the clock was behind

generator == <<timestamp, sequence, spinning>>
idsGiven  == <<given, latest, behind, repeated, doubtful>>
flakeVars == <<clock, generator, idsGiven>>

FlakeTypeOK ==
  /\ clock \in 1..MaxTime
  /\ timestamp \in 0..MaxTime /\ latest \in 0..MaxTime
  /\ sequence \in 0..MaxSequence
  /\ spinning \in BOOLEAN /\ behind \in BOOLEAN
  /\ given \cup repeated \cup doubtful \subseteq Nat

FlakeInit ==
  /\ clock = 1
  /\ timestamp = 0 /\ sequence = 0 /\ spinning = FALSE
  /\ given = {} /\ repeated = {} /\ doubtful = {}
  /\ latest = 0
  /\ behind = FALSE

(* The fields are shifted by their widths and do not overlap. *)
Id(now, number) == (now * (MaxNodeID + 1) + NodeID) * (MaxSequence + 1) + number

Give(now, number) ==
  LET id == Id(now, number) IN
  /\ timestamp' = now /\ sequence' = number /\ spinning' = FALSE
  /\ given' = given \cup {id}
  /\ repeated' = repeated \cup (given \cap {id})
  /\ latest' = IF now > latest THEN now ELSE latest
  /\ behind' = (behind /\ now <= latest)
  /\ doubtful' = IF behind' THEN doubtful \cup {id} ELSE doubtful
  /\ UNCHANGED clock

(* mutant: it does not wait *)
GenerateAtOnce ==
  /\ ~spinning
  /\ IF timestamp = clock /\ sequence < MaxSequence
       THEN Give(clock, sequence + 1)
       ELSE Give(clock, 0)

(* Generate, up to its loop *)
Generate ==
  /\ ~spinning
  /\ IF timestamp # clock THEN Give(clock, 0)
     ELSE IF sequence < MaxSequence THEN Give(clock, sequence + 1)
     ELSE sequence' = 0 /\ spinning' = TRUE /\ UNCHANGED <<clock, timestamp, idsGiven>>

(* ... and from its end *)
GenerateInNext ==
  /\ spinning
  /\ clock > timestamp
  /\ Give(clock, 0)

TimePasses ==
  /\ clock' \in clock + 1 .. MaxTime
  /\ UNCHANGED <<generator, idsGiven>>

ClockSetBack ==
  /\ clock' \in 1 .. clock - 1
  /\ behind' = TRUE
  /\ UNCHANGED <<generator, given, latest, repeated, doubtful>>

(* A process takes longer than a millisecond to start. *)
ProcessRestarts ==
  /\ clock' \in clock + 1 .. MaxTime
  /\ timestamp' = 0 /\ sequence' = 0 /\ spinning' = FALSE
  /\ UNCHANGED idsGiven

FlakeNext ==
  \/ Generate \/ GenerateInNext
  \/ TimePasses \/ ClockSetBack \/ ProcessRestarts

FlakeSpec == FlakeInit /\ [][FlakeNext]_flakeVars

-----------------------------------------------------------------------------
(* An id is given out again only while the clock is behind the ids: from when *)
(* it is set back until an id has a later time than all before.              *)
IdsDiffer == repeated \subseteq doubtful
=============================================================================
