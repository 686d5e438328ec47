------------------------------- MODULE RatePlans -------------------------------
(***************************************************************************)
(* The rate plans of the carrier connector and the subscriptions and usage *)
(* of its profiles: three tables, read and written by requests of which    *)
(* every command is a step and none is in a transaction.  A command that   *)
(* fails ends its request, and so does a restart; a write that fails may   *)
(* have been made.                                                         *)
(*                                                                         *)
(* Plans are put into their table from elsewhere: the handlers that create *)
(* and change them lose the currency on the way to validateRatePlan, which *)
(* refuses them.                                                           *)
(***************************************************************************)
EXTENDS Naturals

CONSTANTS Plans, Profiles, Clients,
          Subscriptions, Records,   \* bounds: the ids the tables can get
          MaxRecorded               \* bound: usage is recorded up to here

ASSUME MaxRecordedNat == MaxRecorded \in Nat

VARIABLES planRow,              \* of each plan: for sale, withdrawn or absent
          subscription, usage,  \* the rows of the other two tables
          job,                  \* of each request: the command it runs next, and
                                \* what it is for and has read
          raced, mixed,         \* history: the profiles two subscriptions, or two
                                \* recordings, of which overlapped
          recorded              \* history: usage written, of each profile

tables    == <<planRow, subscription, usage>>
history   == <<raced, mixed, recorded>>
plansVars == <<tables, job, history>>

NoRow     == [profile |-> "none"]
SubRows   == [profile : Profiles, plan : Plans, status : {"active", "cancelled"}]
UsageRows == [profile : Profiles, used : Nat]

Idle == [at |-> "idle"]
Jobs ==
  {Idle}
  \cup [at : {"plan", "active", "insert"}, profile : Profiles, plan : Plans]
  \cup [at : {"read", "end"}, sub : Subscriptions]
  \cup [at : {"check", "delete"}, plan : Plans]
  \cup [at : {"owner", "usage", "create"}, profile : Profiles]
  \cup [at : {"update"}, profile : Profiles, record : Records, total : Nat]

PlansTypeOK ==
  /\ planRow \in [Plans -> {"forSale", "withdrawn", "absent"}]
  /\ subscription \in [Subscriptions -> {NoRow} \cup SubRows]
  /\ usage \in [Records -> {NoRow} \cup UsageRows]
  /\ job \in [Clients -> Jobs]
  /\ raced \in SUBSET Profiles
  /\ mixed \in SUBSET Profiles
  /\ recorded \in [Profiles -> Nat]

PlansInit ==
  /\ planRow \in [Plans -> {"forSale", "withdrawn"}]
  /\ subscription = [s \in Subscriptions |-> NoRow]
  /\ usage = [u \in Records |-> NoRow]
  /\ job = [c \in Clients |-> Idle]
  /\ raced = {}
  /\ mixed = {}
  /\ recorded = [p \in Profiles |-> 0]

At(c, command) == job[c].at = command

Start(c, first) ==
  /\ At(c, "idle")
  /\ job' = [job EXCEPT ![c] = first]
  /\ UNCHANGED <<tables, history>>

(* The request goes on where what it read allows, and ends where it does not. *)
Proceed(c, allowed, to) ==
  job' = [job EXCEPT ![c] = IF allowed THEN [job[c] EXCEPT !.at = to] ELSE Idle]

End(c) == job' = [job EXCEPT ![c] = Idle]

(* A command fails and has done nothing, or the replica is started again. *)
Fail(c) == ~At(c, "idle") /\ End(c) /\ UNCHANGED <<tables, history>>

(* The rows ListSubscriptions and GetActiveSubscription select; of several,  *)
(* the latter takes the one that started last by the clocks of the replicas. *)
Active(p) == {s \in Subscriptions : /\ subscription[s] # NoRow
                                    /\ subscription[s].profile = p
                                    /\ subscription[s].status = "active"}

(* Another request for the profile is about to write. *)
Others(c, commands) ==
  \E d \in Clients \ {c} : job[d].at \in commands /\ job[d].profile = job[c].profile

-----------------------------------------------------------------------------
(* SubscribeToPlan *)

BeginSubscribe(c, p, r) == Start(c, [at |-> "plan", profile |-> p, plan |-> r])

ReadPlan(c) ==
  /\ At(c, "plan")
  /\ Proceed(c, planRow[job[c].plan] = "forSale", "active")
  /\ UNCHANGED <<tables, history>>

(* mutant: only a subscription to the same plan stands in the way *)
NoneActiveOfPlan(c) == \A s \in Active(job[c].profile) : subscription[s].plan # job[c].plan

NoneActive(c) == Active(job[c].profile) = {}

ReadActive(c) ==
  /\ At(c, "active")
  /\ Proceed(c, NoneActive(c), "insert")
  /\ raced' = IF NoneActive(c) /\ Others(c, {"insert"})
                THEN raced \cup {job[c].profile} ELSE raced
  /\ UNCHANGED <<tables, mixed, recorded>>

CreateSubscription(c, s) ==
  /\ At(c, "insert")
  /\ subscription[s] = NoRow
  /\ subscription' = [subscription EXCEPT
                       ![s] = [profile |-> job[c].profile, plan |-> job[c].plan,
                               status |-> "active"]]
  /\ End(c)
  /\ UNCHANGED <<planRow, usage, history>>

SubscribeToPlan(c) ==
  \/ ReadPlan(c)
  \/ ReadActive(c)
  \/ \E s \in Subscriptions : CreateSubscription(c, s)

-----------------------------------------------------------------------------
(* CancelSubscription *)

BeginCancel(c, s) == Start(c, [at |-> "read", sub |-> s])

ReadSubscription(c) ==
  /\ At(c, "read")
  /\ Proceed(c, \E p \in Profiles : job[c].sub \in Active(p), "end")
  /\ UNCHANGED <<tables, history>>

UpdateSubscription(c) ==
  /\ At(c, "end")
  /\ subscription' = [subscription EXCEPT ![job[c].sub].status = "cancelled"]
  /\ End(c)
  /\ UNCHANGED <<planRow, usage, history>>

CancelSubscription(c) == ReadSubscription(c) \/ UpdateSubscription(c)

-----------------------------------------------------------------------------
(* DeleteRatePlan *)

BeginDelete(c, r) == Start(c, [at |-> "check", plan |-> r])

(* The active subscriptions to the plan are looked for under the profile     *)
(* with the empty id: no row has it.                                         *)
ListSubscriptions(c) ==
  /\ At(c, "check")
  /\ Proceed(c, \A s \in Active("") : subscription[s].plan # job[c].plan, "delete")
  /\ UNCHANGED <<tables, history>>

DeletePlanRow(c) ==
  /\ At(c, "delete")
  /\ planRow' = [planRow EXCEPT ![job[c].plan] = "absent"]
  /\ End(c)
  /\ UNCHANGED <<subscription, usage, history>>

DeleteRatePlan(c) == ListSubscriptions(c) \/ DeletePlanRow(c)

-----------------------------------------------------------------------------
(* RecordUsage *)

BeginUsage(c, p) ==
  /\ recorded[p] < MaxRecorded
  /\ Start(c, [at |-> "owner", profile |-> p])

ReadOwner(c) ==
  /\ At(c, "owner")
  /\ Proceed(c, Active(job[c].profile) # {}, "usage")
  /\ UNCHANGED <<tables, history>>

OfProfile(p) == {u \in Records : usage[u] # NoRow /\ usage[u].profile = p}

(* The record of the latest cycle, whatever the subscription or its cycle is *)
(* now: there are two of a profile only where two requests created one each. *)
GetCurrentUsage(c) ==
  /\ At(c, "usage")
  /\ \/ OfProfile(job[c].profile) = {} /\ Proceed(c, TRUE, "create")
     \/ \E u \in OfProfile(job[c].profile) :
          job' = [job EXCEPT ![c] = [at |-> "update", profile |-> job[c].profile,
                                     record |-> u, total |-> usage[u].used + 1]]
  /\ mixed' = IF Others(c, {"create", "update"})
                THEN mixed \cup {job[c].profile} ELSE mixed
  /\ UNCHANGED <<tables, raced, recorded>>

Write(c, u, amount) ==
  /\ usage' = [usage EXCEPT ![u] = [profile |-> job[c].profile, used |-> amount]]
  /\ recorded' = [recorded EXCEPT ![job[c].profile] = @ + 1]
  /\ End(c)
  /\ UNCHANGED <<planRow, subscription, raced, mixed>>

CreateUsage(c, u) == At(c, "create") /\ usage[u] = NoRow /\ Write(c, u, 1)

(* mutant: the amount replaces the one of the record *)
UpdateUsageReplaces(c) == At(c, "update") /\ Write(c, job[c].record, 1)

UpdateUsage(c) == At(c, "update") /\ Write(c, job[c].record, job[c].total)

RecordUsage(c) ==
  \/ ReadOwner(c)
  \/ GetCurrentUsage(c)
  \/ \E u \in Records : CreateUsage(c, u)
  \/ UpdateUsage(c)

-----------------------------------------------------------------------------
Handle(c) ==
  \/ \E p \in Profiles, r \in Plans : BeginSubscribe(c, p, r)
  \/ \E s \in Subscriptions : BeginCancel(c, s)
  \/ \E r \in Plans : BeginDelete(c, r)
  \/ \E p \in Profiles : BeginUsage(c, p)

PlansNext ==
  \E c \in Clients :
    \/ Handle(c)
    \/ SubscribeToPlan(c) \/ CancelSubscription(c) \/ DeleteRatePlan(c) \/ RecordUsage(c)
    \/ Fail(c)

PlansSpec == PlansInit /\ [][PlansNext]_plansVars

-----------------------------------------------------------------------------
(* A profile has at most one active subscription, unless two requests found  *)
(* none before either had created its own: no index stands behind the check. *)
OneActive ==
  \A p \in Profiles \ raced : \A s, t \in Active(p) : s = t

(* While no two recordings of a profile overlap, one record holds all the    *)
(* usage written for it, through every cancellation and new subscription.    *)
UsageKept ==
  \A p \in Profiles \ mixed :
    /\ \A u \in OfProfile(p) : usage[u].used = recorded[p]
    /\ recorded[p] > 0 => OfProfile(p) # {}

(* rateplan_handlers_crud.go:208 "cannot delete rate plan with active        *)
(* subscriptions": with no subscription under way, deleting a plan leaves no *)
(* profile subscribed to it.                                                 *)
DeleteProtects ==
  [][\A r \in Plans :
       /\ planRow[r] # "absent" /\ planRow'[r] = "absent"
       /\ \A c \in Clients : job[c].at \notin {"plan", "active", "insert"}
       => \A p \in Profiles : \A s \in Active(p) : subscription[s].plan # r]_plansVars
=============================================================================
