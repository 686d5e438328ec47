---------------------------- MODULE BundleCharging ----------------------------
(***************************************************************************)
(* Charging usage to the bundles of one subscriber in PostgreSQL: the      *)
(* pipeline of usage_pipeline.rs (pick a bundle, deduct, record), the      *)
(* conditional UPDATE of bundle_repo.rs, and the task that marks expired   *)
(* bundles.  Every SQL statement is atomic; several usage events are       *)
(* processed at once, and any of them can fail or be dropped in between.   *)
(***************************************************************************)
EXTENDS Integers, FiniteSetsExt

CONSTANTS Events,      \* usage events that can be in progress at one time
          NRows,       \* rows of subscriber_bundles the subscriber can come to have
          Types,       \* usage types a bundle has an allowance for
          UsageVolumes, \* the volumes an event can have
          Offers,      \* the bundles on offer: their allowance of each type
          MaxBigint    \* the largest value of a BIGINT column, 2^63 - 1

ASSUME EventsFinite == IsFiniteSet(Events)
ASSUME NRowsNat == NRows \in Nat
ASSUME MaxBigintNat == MaxBigint \in Nat

(* Volumes and allowances are u64 in Rust and BIGINT in PostgreSQL; `as`     *)
(* keeps the bits, so one that is too large for a BIGINT is stored below 0.  *)
Bigints == -(MaxBigint + 1)..MaxBigint
U64s    == 0..2 * MaxBigint + 1

AsBigint(v) == IF v > MaxBigint THEN v - 2 * (MaxBigint + 1) ELSE v
AsU64(n)    == IF n < 0 THEN n + 2 * (MaxBigint + 1) ELSE n

ASSUME UsageVolumesU64 == UsageVolumes \subseteq U64s

(* Rows are numbered in the order get_active_bundles returns them: by the   *)
(* priority of the bundle, then by activation.                              *)
Rows == 1..NRows

(* NULL, the allowance of a type the bundle does not have, compares with no *)
(* volume: it is below every BIGINT.                                        *)
Null == -(MaxBigint + 2)

(* Nothing checks the allowances a bundle is created with: each is None or   *)
(* any u64, 0 and those too large for the column included.                   *)
ASSUME OffersAreOptions == \A o \in Offers : o \in [Types -> {Null} \cup U64s]

Stored(offer) ==
  [t \in Types |-> IF offer[t] = Null THEN Null ELSE AsBigint(offer[t])]

VARIABLES status,     \* of each row; "none" before it is inserted
          due,        \* whether expires_at of the row has passed
          granted,    \* the allowances the row was inserted with
          left,       \* remaining_data_bytes, remaining_voice_seconds, ...
          recorded,   \* the volume usage_records charges to the row, by type
          lost,       \* the volume deducted for events that were never recorded
          stage, usage, candidates, charged   \* of each event

rows == <<status, due, granted, left>>
inProgress == <<stage, usage, candidates, charged>>
chargingVars == <<rows, recorded, lost, inProgress>>

Statuses == {"none", "active", "exhausted", "expired"}
NoAllowances == [t \in Types |-> Null]
Usages   == [type : Types, volume : UsageVolumes]
NoUsage  == [type |-> "none", volume |-> 0]

ChargingTypeOK ==
  /\ status \in [Rows -> Statuses]
  /\ due \in [Rows -> BOOLEAN]
  /\ granted \in [Rows -> {Stored(o) : o \in Offers} \cup {NoAllowances}]
  /\ left \in [Rows -> [Types -> {Null} \cup Bigints]]
  /\ recorded \in [Rows -> [Types -> Int]]
  /\ lost \in [Rows -> [Types -> Int]]
  /\ stage \in [Events -> {"idle", "trying", "persist"}]
  /\ usage \in [Events -> Usages \cup {NoUsage}]
  /\ \A e \in Events : stage[e] # "idle" => usage[e] \in Usages
  /\ candidates \in [Events -> SUBSET Rows]
  /\ charged \in [Events -> {0} \cup Rows]

ChargingInit ==
  /\ status = [r \in Rows |-> "none"]
  /\ due = [r \in Rows |-> FALSE]
  /\ granted = [r \in Rows |-> NoAllowances]
  /\ left = [r \in Rows |-> NoAllowances]
  /\ recorded = [r \in Rows |-> [t \in Types |-> 0]]
  /\ lost = recorded
  /\ stage = [e \in Events |-> "idle"]
  /\ usage = [e \in Events |-> NoUsage]
  /\ candidates = [e \in Events |-> {}]
  /\ charged = [e \in Events |-> 0]

-----------------------------------------------------------------------------
(* activate_for_subscriber *)
Activate(r, offer) ==
  /\ status[r] = "none"
  /\ status' = [status EXCEPT ![r] = "active"]
  /\ granted' = [granted EXCEPT ![r] = Stored(offer)]
  /\ left' = [left EXCEPT ![r] = Stored(offer)]
  /\ UNCHANGED <<due, recorded, lost, inProgress>>

(* expires_at comes to pass *)
FallsDue(r) ==
  /\ status[r] # "none"
  /\ ~due[r]
  /\ due' = [due EXCEPT ![r] = TRUE]
  /\ UNCHANGED <<status, granted, left, recorded, lost, inProgress>>

(* expire_stale_bundles, every five minutes *)
ExpireStale ==
  LET stale == {r \in Rows : status[r] = "active" /\ due[r]}
  IN  /\ stale # {}
      /\ status' = [r \in Rows |-> IF r \in stale THEN "expired" ELSE status[r]]
      /\ UNCHANGED <<due, granted, left, recorded, lost, inProgress>>

-----------------------------------------------------------------------------
(* What the statements take and record for a usage *)
Amount(u) == AsBigint(u.volume)

Open(r) == status[r] = "active" /\ ~due[r]

(* has_allowance compares as u64, the UPDATE as BIGINT *)
HasAllowance(r, u) ==
  left[r][u.type] # Null /\ AsU64(left[r][u.type]) >= u.volume
Usable(r, u) == Open(r) /\ left[r][u.type] >= Amount(u)

(* process_usage_event: get_active_bundles is read once, and the rows that   *)
(* lack the allowance are passed over as they were then.  An event of an     *)
(* account that is missing or not active is refused before that.             *)
Select(e, u) ==
  /\ stage[e] = "idle"
  /\ stage' = [stage EXCEPT ![e] = "trying"]
  /\ usage' = [usage EXCEPT ![e] = u]
  /\ candidates' = [candidates EXCEPT ![e] =
                      {r \in Rows : Open(r) /\ HasAllowance(r, u)}]
  /\ UNCHANGED <<rows, recorded, lost, charged>>

(* The bundles are tried in order. *)
First(e, r) == r \in candidates[e] /\ \A q \in candidates[e] : r <= q

PassOver(e, r) ==
  /\ candidates' = [candidates EXCEPT ![e] = @ \ {r}]
  /\ UNCHANGED <<status, left, stage, charged>>

(* A difference out of range fails the statement, which leaves GiveUp. *)
Take(e, r) ==
  LET type == usage[e].type
      rest == left[r][type] - Amount(usage[e])
  IN  /\ rest \in Bigints
      /\ left' = [left EXCEPT ![r][type] = rest]
      /\ status' = [status EXCEPT ![r] = IF rest <= 0 THEN "exhausted" ELSE @]
      /\ stage' = [stage EXCEPT ![e] = "persist"]
      /\ charged' = [charged EXCEPT ![e] = r]
      /\ candidates' = [candidates EXCEPT ![e] = {}]

(* mutant: the number of rows affected is not looked at *)
DeductAssumed(e, r) ==
  /\ stage[e] = "trying"
  /\ First(e, r)
  /\ IF Usable(r, usage[e])
     THEN Take(e, r)
     ELSE /\ stage' = [stage EXCEPT ![e] = "persist"]
          /\ charged' = [charged EXCEPT ![e] = r]
          /\ UNCHANGED <<status, left, candidates>>
  /\ UNCHANGED <<due, granted, recorded, lost, usage>>

(* mutant: an emptied row stays active *)
DeductKeepsActive(e, r) ==
  /\ stage[e] = "trying"
  /\ First(e, r)
  /\ Usable(r, usage[e])
  /\ left[r][usage[e].type] - Amount(usage[e]) \in Bigints
  /\ left' = [left EXCEPT ![r][usage[e].type] = @ - Amount(usage[e])]
  /\ stage' = [stage EXCEPT ![e] = "persist"]
  /\ charged' = [charged EXCEPT ![e] = r]
  /\ UNCHANGED <<status, candidates, due, granted, recorded, lost, usage>>

(* deduct_from_bundle: one UPDATE whose WHERE looks at the row as it is now *)
Deduct(e, r) ==
  /\ stage[e] = "trying"
  /\ First(e, r)
  /\ IF Usable(r, usage[e]) THEN Take(e, r) ELSE PassOver(e, r)
  /\ UNCHANGED <<due, granted, recorded, lost, usage>>

(* No bundle covers the event: its cost is deducted from the credit. *)
FallBack(e) ==
  /\ stage[e] = "trying"
  /\ candidates[e] = {}
  /\ stage' = [stage EXCEPT ![e] = "persist"]
  /\ charged' = [charged EXCEPT ![e] = 0]
  /\ UNCHANGED <<rows, recorded, lost, usage, candidates>>

Finish(e) ==
  /\ stage' = [stage EXCEPT ![e] = "idle"]
  /\ usage' = [usage EXCEPT ![e] = NoUsage]
  /\ candidates' = [candidates EXCEPT ![e] = {}]
  /\ charged' = [charged EXCEPT ![e] = 0]

(* The volume a finishing event took from a bundle, added to an account of it *)
Booked(account, e) ==
  [r \in Rows |-> [t \in Types |->
     account[r][t] + IF r = charged[e] /\ t = usage[e].type
                     THEN Amount(usage[e]) ELSE 0]]

(* persist_usage_record *)
Persist(e) ==
  /\ stage[e] = "persist"
  /\ Finish(e)
  /\ recorded' = Booked(recorded, e)
  /\ UNCHANGED <<rows, lost>>

(* A statement fails, the breaker rejects it, the plan or the credit is      *)
(* missing, the request is dropped, or the record's INSERT ... SELECT finds  *)
(* no subscriber and inserts nothing: what was done stays done.              *)
GiveUp(e) ==
  /\ stage[e] # "idle"
  /\ Finish(e)
  /\ lost' = Booked(lost, e)
  /\ UNCHANGED <<rows, recorded>>

Process(e) ==
  \/ \E u \in Usages : Select(e, u)
  \/ \E r \in Rows : Deduct(e, r)
  \/ FallBack(e)
  \/ Persist(e)
  \/ GiveUp(e)

ChargingNext ==
  \/ \E r \in Rows : FallsDue(r) \/ \E o \in Offers : Activate(r, o)
  \/ ExpireStale
  \/ \E e \in Events : Process(e)

ChargingSpec == ChargingInit /\ [][ChargingNext]_chargingVars

-----------------------------------------------------------------------------
(* However deductions interleave, the status the UPDATE computes from one    *)
(* column is right about every allowance that was used: none is overdrawn,   *)
(* an active row has some left of each, and an exhausted one has used one    *)
(* up.  An allowance stored as 0 or below is active as long as it is unused. *)
StatusTells ==
  \A r \in Rows :
    /\ \A t \in Types : left[r][t] # granted[r][t] =>
         left[r][t] >= 0 /\ (status[r] = "active" => left[r][t] > 0)
    /\ status[r] = "exhausted" => \E t \in Types : left[r][t] = 0

(* What events have deducted of a row and are about to record *)
Pending(r, t) ==
  SumFunctionOnSet([e \in Events |-> Amount(usage[e])],
                   {e \in Events : charged[e] = r /\ usage[e].type = t})

(* Every unit gone from a bundle is recorded, about to be, or was taken by an *)
(* event that failed after its deduction, and no unit is recorded that was    *)
(* not taken: no usage counts as covered by a bundle that another event       *)
(* emptied, or that expired, after it was selected.                           *)
Reconciles ==
  \A r \in Rows, t \in Types :
    granted[r][t] # Null =>
      granted[r][t] - left[r][t] = recorded[r][t] + Pending(r, t) + lost[r][t]

(* Nothing is deducted from a bundle after its expiry, even by an event that *)
(* selected it before, nor from one whose status has been closed.            *)
ClosedRowsKept ==
  [][\A r \in Rows :
       due[r] \/ status[r] \in {"exhausted", "expired"} => left'[r] = left[r]]_chargingVars
=============================================================================
