------------------------------ MODULE Enrollment -------------------------------
(***************************************************************************)
(* Creating subscribers in the api-server.  The IMSI of a new subscriber    *)
(* comes from a counter that is one row of a table: it is read, raised in   *)
(* memory and saved whole, with no lock and no transaction, then the        *)
(* subscriber is inserted under a unique index.                             *)
(***************************************************************************)
EXTENDS Naturals

CONSTANTS Creators,   \* creations that can be in progress at one time
          MaxIMSI     \* the last number of the range

ASSUME MaxIMSINat == MaxIMSI \in Nat

VARIABLES lastIMSI,   \* the counter
          enrolled,   \* the numbers subscribers have
          creation,   \* of each creation: how far it is, and its number
          overlapped, \* history: a counter was saved that had changed since it was read
          refused     \* history: the unique index has refused an insert

enrollmentVars == <<lastIMSI, enrolled, creation, overlapped, refused>>

NoCreation == [stage |-> "none", imsi |-> 0]

EnrollmentTypeOK ==
  /\ lastIMSI \in 0..MaxIMSI
  /\ enrolled \subseteq 1..MaxIMSI
  /\ creation \in [Creators -> [stage : {"none", "allocate", "insert"}, imsi : 0..MaxIMSI]]
  /\ overlapped \in {"no", "yes"}
  /\ refused \in {"no", "yes"}

(* InitializeIMSIAllocation has made the row. *)
EnrollmentInit ==
  /\ lastIMSI = 0
  /\ enrolled = {}
  /\ creation = [c \in Creators |-> NoCreation]
  /\ overlapped = "no"
  /\ refused = "no"

(* The counter is read; a range that is used up is an error. *)
GetIMSIAllocation(c) ==
  /\ creation[c].stage = "none"
  /\ lastIMSI < MaxIMSI
  /\ creation' = [creation EXCEPT ![c] = [stage |-> "allocate", imsi |-> lastIMSI + 1]]
  /\ UNCHANGED <<lastIMSI, enrolled, overlapped, refused>>

(* ... and saved with the number taken, whatever it has become meanwhile. *)
UpdateIMSIAllocation(c) ==
  /\ creation[c].stage = "allocate"
  /\ lastIMSI' = creation[c].imsi
  /\ overlapped' = IF creation[c].imsi = lastIMSI + 1 THEN overlapped ELSE "yes"
  /\ creation' = [creation EXCEPT ![c].stage = "insert"]
  /\ UNCHANGED <<enrolled, refused>>

(* The insert, which another subscriber with the number stops. *)
InsertSubscriber(c) ==
  LET imsi == creation[c].imsi IN
  /\ creation[c].stage = "insert"
  /\ enrolled' = enrolled \cup {imsi}
  /\ refused' = IF imsi \in enrolled THEN "yes" ELSE refused
  /\ creation' = [creation EXCEPT ![c] = NoCreation]
  /\ UNCHANGED <<lastIMSI, overlapped>>

(* The request is dropped or a statement of it fails: its number is lost. *)
CreationFails(c) ==
  /\ creation[c].stage # "none"
  /\ creation' = [creation EXCEPT ![c] = NoCreation]
  /\ UNCHANGED <<lastIMSI, enrolled, overlapped, refused>>

(* mutant: the counter starts anew *)
RestartFromZero ==
  /\ lastIMSI' = 0
  /\ creation' = [c \in Creators |-> NoCreation]
  /\ UNCHANGED <<enrolled, overlapped, refused>>

(* The server starts again: InitializeIMSIAllocation finds the row and       *)
(* leaves it as it is.                                                       *)
Restart ==
  /\ creation' = [c \in Creators |-> NoCreation]
  /\ UNCHANGED <<lastIMSI, enrolled, overlapped, refused>>

EnrollmentNext ==
  \/ \E c \in Creators :
       \/ GetIMSIAllocation(c)
       \/ UpdateIMSIAllocation(c)
       \/ InsertSubscriber(c)
       \/ CreationFails(c)
  \/ Restart

EnrollmentSpec == EnrollmentInit /\ [][EnrollmentNext]_enrollmentVars

(* Creations, failed ones and restarts use no number twice: only after one   *)
(* creation has saved the counter over what another had made of it can the   *)
(* unique index refuse a subscriber.                                         *)
RefusedOnlyAfterOverlap == refused = "yes" => overlapped = "yes"
=============================================================================
