---------------------------- MODULE BundlePurchase ----------------------------
(***************************************************************************)
(* Bundles bought with airtime, kept in Redis: bundle_service.rs and       *)
(* airtime_service.rs.  A purchase is a chain of calls to two stores:      *)
(* take the airtime, see that the bundle is not active, activate it,       *)
(* record the payment.  Consumption reads the bundle, computes, and writes *)
(* it back.  One action is one call; between two of them other requests    *)
(* run, keys expire, and the request itself can fail or be dropped.        *)
(***************************************************************************)
EXTENDS Integers, FiniteSetsExt

CONSTANTS Requests,     \* requests in progress at one time
          Subs,         \* subscribers
          Bundles,      \* bundles, named by their priority: lower is tried first
          Types,        \* usage types
          Allowance,    \* what a bundle grants of each type, Null if nothing
          Cost,         \* amount_unconverted of each bundle, in airtime
          Nobody,       \* the payer of an activation that is not a purchase
          MaxAdded,     \* bound: airtime added to a subscriber
          MaxActivations \* bound: activations that can happen

Null == -1

ASSUME RequestsFinite == IsFiniteSet(Requests)
ASSUME BundlesNat  == Bundles \subseteq Nat
ASSUME AllowanceOf == Allowance \in [Bundles -> [Types -> {Null} \cup Nat]]
ASSUME CostNat     == Cost \in [Bundles -> Nat]
ASSUME NobodyElse  == Nobody \notin Subs
ASSUME BoundsNat   == MaxAdded \in Nat /\ MaxActivations \in Nat

VARIABLES airtime,      \* airtime:home:{imsi}; 0 when the key is absent
          lapses,       \* the airtime keys that have a TTL
          bundle,       \* bundle:active:{imsi}:{bundle_id}
          armed,        \* the bundle keys that have a TTL
          tracked,      \* bundle:active:set:{imsi}
          onSale,       \* bundles with is_active = TRUE
          activations,  \* how many activations there have been: they number them
          over,         \* activations whose expires_at has passed
          ledger,       \* the airtime airtime_transactions says was paid
          job,          \* what each request is doing
          added, gone,  \* airtime added to, used up or expired of a subscriber
          bought,       \* the price of the bundles activated at a payer's cost
          missing,      \* airtime of purchases that ended without a record
          used,         \* usage an activation was told to have covered
          disturbed     \* activations whose key or tracking a stale request wrote

redis  == <<airtime, lapses, bundle, armed, tracked>>
ghosts == <<added, gone, bought, missing, used, disturbed>>
vars   == <<redis, onSale, activations, over, ledger, job, ghosts>>

(* A subscriber's bundle: the activation it stems from, and what remains. *)
NoBundle == [by |-> 0, left |-> [t \in Types |-> Null]]
NoKeys   == [b \in Bundles |-> NoBundle]
Fresh(b) == [by |-> activations + 1, left |-> Allowance[b]]

Idle == [at |-> "idle", payer |-> Nobody, sub |-> Nobody, bundle |-> 0,
         type |-> "none", found |-> NoKeys]

Ids     == 0..MaxActivations
Keys    == [by : Ids, left : [Types -> {Null} \cup Nat]]
Stages  == {"idle", "pay", "configure", "check", "activate", "record",
            "fetch", "consume", "untrack", "write", "arm"}
TypeOK ==
  /\ airtime \in [Subs -> Nat]
  /\ lapses \subseteq Subs
  /\ bundle \in [Subs -> [Bundles -> Keys]]
  /\ armed \subseteq Subs \X Bundles
  /\ tracked \in [Subs -> SUBSET Bundles]
  /\ onSale \subseteq Bundles
  /\ activations \in Ids
  /\ over \subseteq 1..activations
  /\ ledger \in [Subs -> Nat]
  /\ job \in [Requests -> [at : Stages, payer : Subs \cup {Nobody},
                           sub : Subs \cup {Nobody}, bundle : Bundles \cup {0},
                           type : Types \cup {"none"}, found : [Bundles -> Keys]]]
  /\ {added, gone, bought, missing} \subseteq [Subs -> Nat]
  /\ used \in [1..MaxActivations -> [Types -> Nat]]
  /\ disturbed \subseteq 1..activations

Init ==
  /\ airtime = [s \in Subs |-> 0]
  /\ lapses = {}
  /\ bundle = [s \in Subs |-> NoKeys]
  /\ armed = {}
  /\ tracked = [s \in Subs |-> {}]
  /\ onSale = Bundles
  /\ activations = 0
  /\ over = {}
  /\ ledger = airtime
  /\ job = [r \in Requests |-> Idle]
  /\ added = airtime /\ gone = airtime /\ bought = airtime /\ missing = airtime
  /\ used = [i \in 1..MaxActivations |-> [t \in Types |-> 0]]
  /\ disturbed = {}

Goto(r, stage) == job' = [job EXCEPT ![r].at = stage]

-----------------------------------------------------------------------------
(* Airtime *)

(* add_airtime, up to its INCR.  The overflow of a u64 is not modelled. *)
AddAirtime(r, s) ==
  /\ job[r].at = "idle"
  /\ added[s] < MaxAdded
  /\ airtime' = [airtime EXCEPT ![s] = @ + 1]
  /\ added' = [added EXCEPT ![s] = @ + 1]
  /\ job' = [job EXCEPT ![r].at = "arm", ![r].sub = s]
  /\ UNCHANGED <<lapses, bundle, armed, tracked, onSale, activations, over,
                 ledger, gone, bought, missing, used, disturbed>>

(* ... its EXPIRE, without effect if the key has expired since.  The HSET of *)
(* the metadata that follows is read by the balance query only.              *)
ArmAirtime(r) ==
  /\ job[r].at = "arm"
  /\ \/ lapses' = lapses \cup {job[r].sub}
     \/ airtime[job[r].sub] = 0 /\ UNCHANGED lapses
  /\ job' = [job EXCEPT ![r] = Idle]
  /\ UNCHANGED <<airtime, bundle, armed, tracked, onSale, activations, over,
                 ledger, ghosts>>

(* deduct_airtime: the script checks, and SETs the difference, which takes   *)
(* the TTL off the key.                                                      *)
Talk(s) ==
  /\ airtime[s] > 0
  /\ airtime' = [airtime EXCEPT ![s] = @ - 1]
  /\ gone' = [gone EXCEPT ![s] = @ + 1]
  /\ lapses' = lapses \ {s}
  /\ UNCHANGED <<bundle, armed, tracked, onSale, activations, over, ledger,
                 job, added, bought, missing, used, disturbed>>

(* The airtime key expires. *)
AirtimeLapses(s) ==
  /\ s \in lapses
  /\ airtime' = [airtime EXCEPT ![s] = 0]
  /\ gone' = [gone EXCEPT ![s] = @ + airtime[s]]
  /\ lapses' = lapses \ {s}
  /\ UNCHANGED <<bundle, armed, tracked, onSale, activations, over, ledger,
                 job, added, bought, missing, used, disturbed>>

-----------------------------------------------------------------------------
(* Purchase *)

(* purchase_bundle_with_airtime and, when payer # s, gift_bundle_with_airtime: *)
(* the IMSIs are resolved and get_bundle_config is read once.                  *)
Purchase(r, payer, s, b) ==
  /\ job[r].at = "idle"
  /\ b \in onSale
  /\ job' = [job EXCEPT ![r] = [Idle EXCEPT !.at = "pay", !.payer = payer,
                                            !.sub = s, !.bundle = b]]
  /\ UNCHANGED <<redis, onSale, activations, over, ledger, ghosts>>

(* activate_bundle, which asks nobody to pay *)
ActivateUnpaid(r, s, b) ==
  /\ job[r].at = "idle"
  /\ job' = [job EXCEPT ![r] = [Idle EXCEPT !.at = "configure",
                                            !.sub = s, !.bundle = b]]
  /\ UNCHANGED <<redis, onSale, activations, over, ledger, ghosts>>

(* mutant: a refused payment does not end the purchase *)
PayLater(r) ==
  LET s == job[r].payer  cost == Cost[job[r].bundle]
  IN  /\ job[r].at = "pay"
      /\ airtime' = [airtime EXCEPT ![s] = IF @ < cost THEN @ ELSE @ - cost]
      /\ Goto(r, "configure")
      /\ UNCHANGED <<lapses, bundle, armed, tracked, onSale, activations, over,
                     ledger, ghosts>>

(* deduct_airtime_atomic: the script compares and decrements, and its answer *)
(* -1 is no balance.                                                         *)
Pay(r) ==
  LET s == job[r].payer  cost == Cost[job[r].bundle]
  IN  /\ job[r].at = "pay"
      /\ IF airtime[s] < cost
         THEN /\ job' = [job EXCEPT ![r] = Idle]
              /\ UNCHANGED airtime
         ELSE /\ airtime' = [airtime EXCEPT ![s] = @ - cost]
              /\ Goto(r, "configure")
      /\ UNCHANGED <<lapses, bundle, armed, tracked, onSale, activations, over,
                     ledger, ghosts>>

(* activate_bundle_for_subscriber reads get_bundle_config again; a bundle    *)
(* taken off sale in between fails the purchase: see GiveUp.                 *)
Configure(r) ==
  /\ job[r].at = "configure"
  /\ job[r].bundle \in onSale
  /\ Goto(r, "check")
  /\ UNCHANGED <<redis, onSale, activations, over, ledger, ghosts>>

(* mutant: an active bundle does not stop the activation *)
CheckIgnored(r) ==
  /\ job[r].at = "check"
  /\ Goto(r, "activate")
  /\ UNCHANGED <<redis, onSale, activations, over, ledger, ghosts>>

(* EXISTS: an active bundle fails the purchase: see GiveUp. *)
CheckInactive(r) ==
  /\ job[r].at = "check"
  /\ bundle[job[r].sub][job[r].bundle] = NoBundle
  /\ Goto(r, "activate")
  /\ UNCHANGED <<redis, onSale, activations, over, ledger, ghosts>>

(* The keys a step replaces while someone counts on them *)
Replaced(s, b) == {bundle[s][b].by} \ {0}

Paid(r) == IF job[r].payer = Nobody THEN 0 ELSE Cost[job[r].bundle]

ActivateWith(r, ttl, track) ==
  LET s == job[r].sub  b == job[r].bundle
  IN  /\ job[r].at = "activate"
      /\ activations < MaxActivations
      /\ activations' = activations + 1
      /\ bundle' = [bundle EXCEPT ![s][b] = Fresh(b)]
      /\ armed' = IF ttl THEN armed \cup {<<s, b>>} ELSE armed \ {<<s, b>>}
      /\ tracked' = IF track THEN [tracked EXCEPT ![s] = @ \cup {b}] ELSE tracked
      /\ bought' = [p \in Subs |-> bought[p] + IF p = job[r].payer THEN Paid(r) ELSE 0]
      /\ disturbed' = disturbed \cup Replaced(s, b)
      /\ Goto(r, "record")
      /\ UNCHANGED <<airtime, lapses, onSale, over, ledger, added, gone, missing, used>>

(* mutants: the pipe lacks its EXPIRE, its SADD *)
ActivateForEver(r)   == ActivateWith(r, FALSE, TRUE)
ActivateUntracked(r) == ActivateWith(r, TRUE, FALSE)

(* The atomic pipe: SET, EXPIRE, SADD.  The counters bundle:data:{imsi} ...  *)
(* it increments, and the audit key set after it, are read nowhere.          *)
Activate(r) == ActivateWith(r, TRUE, TRUE)

(* record_airtime_transaction; an activation without a payer has none. *)
Record(r) ==
  /\ job[r].at = "record"
  /\ ledger' = [p \in Subs |-> ledger[p] + IF p = job[r].payer THEN Paid(r) ELSE 0]
  /\ job' = [job EXCEPT ![r] = Idle]
  /\ UNCHANGED <<redis, onSale, activations, over, ghosts>>

-----------------------------------------------------------------------------
(* Consumption *)

(* consume_from_bundle, its SMEMBERS: the bundles it may find *)
Consume(r, s, t) ==
  /\ job[r].at = "idle"
  /\ job' = [job EXCEPT ![r] =
               [Idle EXCEPT !.at = "fetch", !.sub = s, !.type = t,
                  !.found = [b \in Bundles |->
                               IF b \in tracked[s] THEN bundle[s][b] ELSE NoBundle]]]
  /\ UNCHANGED <<redis, onSale, activations, over, ledger, ghosts>>

(* Its pipeline of GETs, of which those that find nothing are dropped *)
Fetch(r) ==
  LET s == job[r].sub
  IN  /\ job[r].at = "fetch"
      /\ job' = [job EXCEPT ![r].at = "consume", ![r].found = [b \in Bundles |->
                   IF @[b] # NoBundle THEN bundle[s][b] ELSE NoBundle]]
      /\ UNCHANGED <<redis, onSale, activations, over, ledger, ghosts>>

Found(r) == {b \in Bundles : job[r].found[b] # NoBundle}

(* The next bundle in the order of priority *)
Turn(r, b) == b \in Found(r) /\ \A c \in Found(r) : b <= c

Expired(r, b) == job[r].found[b].by \in over

(* usage of one unit *)
Covers(r, b) == job[r].found[b].left[job[r].type] >= 1

(* Each bundle is looked at as it was fetched, against the time it is now. *)
Choose(r, b) ==
  /\ job[r].at = "consume"
  /\ Turn(r, b)
  /\ job' = CASE Expired(r, b) ->
                   [job EXCEPT ![r].at = "untrack", ![r].bundle = b]
              [] ~Expired(r, b) /\ Covers(r, b) ->
                   [job EXCEPT ![r].at = "write", ![r].bundle = b,
                               ![r].found[b].left[job[r].type] = @ - 1]
              [] OTHER ->
                   [job EXCEPT ![r].found[b] = NoBundle]
  /\ UNCHANGED <<redis, onSale, activations, over, ledger, ghosts>>

(* SREM of an expired bundle, whatever is active under its id by now; a      *)
(* failure is ignored.                                                       *)
Untrack(r) ==
  LET s == job[r].sub  b == job[r].bundle
  IN  /\ job[r].at = "untrack"
      /\ \/ /\ tracked' = [tracked EXCEPT ![s] = @ \ {b}]
            /\ disturbed' = disturbed \cup (Replaced(s, b) \ over)
         \/ UNCHANGED <<tracked, disturbed>>
      /\ job' = [job EXCEPT ![r].at = "consume", ![r].found[b] = NoBundle]
      /\ UNCHANGED <<airtime, lapses, bundle, armed, onSale, activations, over,
                     ledger, added, gone, bought, missing, used>>

(* The fetched value, less the usage, as it was before *)
Before(r) ==
  LET b == job[r].bundle
  IN  [job[r].found[b] EXCEPT !.left[job[r].type] = @ + 1]

(* mutant: the bundle is serialised before the usage is subtracted *)
WriteUndiminished(r) ==
  LET s == job[r].sub  b == job[r].bundle  i == job[r].found[b].by
  IN  /\ job[r].at = "write"
      /\ bundle' = [bundle EXCEPT ![s][b] = Before(r)]
      /\ armed' = armed \ {<<s, b>>}
      /\ used' = [used EXCEPT ![i][job[r].type] = @ + 1]
      /\ disturbed' = IF bundle[s][b] = Before(r) THEN disturbed
                      ELSE disturbed \cup {i} \cup Replaced(s, b)
      /\ job' = [job EXCEPT ![r] = Idle]
      /\ UNCHANGED <<airtime, lapses, tracked, onSale, activations, over,
                     ledger, added, gone, bought, missing>>

(* SET of what was fetched less the usage: it replaces whatever the key      *)
(* holds by now, and takes off its TTL.                                      *)
Write(r) ==
  LET s == job[r].sub  b == job[r].bundle  i == job[r].found[b].by
  IN  /\ job[r].at = "write"
      /\ bundle' = [bundle EXCEPT ![s][b] = job[r].found[b]]
      /\ armed' = armed \ {<<s, b>>}
      /\ used' = [used EXCEPT ![i][job[r].type] = @ + 1]
      /\ disturbed' = IF bundle[s][b] = Before(r) THEN disturbed
                      ELSE disturbed \cup {i} \cup Replaced(s, b)
      /\ job' = [job EXCEPT ![r] = Idle]
      /\ UNCHANGED <<airtime, lapses, tracked, onSale, activations, over,
                     ledger, added, gone, bought, missing>>

-----------------------------------------------------------------------------
(* What a purchase that has this request's progress has taken *)
Held(r, s) ==
  IF job[r].payer = s /\ job[r].at \in {"configure", "check", "activate", "record"}
  THEN Cost[job[r].bundle] ELSE 0

(* A check refuses, a call fails, the breaker is open, or the request is     *)
(* dropped: nothing is undone, and airtime that was taken is not given back. *)
GiveUp(r) ==
  /\ job[r].at # "idle"
  /\ missing' = [s \in Subs |-> missing[s] + Held(r, s)]
  /\ job' = [job EXCEPT ![r] = Idle]
  /\ UNCHANGED <<redis, onSale, activations, over, ledger, added, gone, bought,
                 used, disturbed>>

(* expires_at of an activation passes. *)
Passes(i) ==
  /\ i \notin over
  /\ over' = over \cup {i}
  /\ UNCHANGED <<redis, onSale, activations, ledger, job, ghosts>>

(* Redis removes the key: its TTL was set with expires_at. *)
KeyExpires(s, b) ==
  /\ <<s, b>> \in armed
  /\ bundle[s][b].by \in over
  /\ bundle' = [bundle EXCEPT ![s][b] = NoBundle]
  /\ armed' = armed \ {<<s, b>>}
  /\ UNCHANGED <<airtime, lapses, tracked, onSale, activations, over, ledger,
                 job, ghosts>>

(* deactivate_bundle, and create_bundle, which puts it back on sale *)
SetOnSale(b) ==
  /\ onSale' = IF b \in onSale THEN onSale \ {b} ELSE onSale \cup {b}
  /\ UNCHANGED <<redis, activations, over, ledger, job, ghosts>>

Airtime(r) == (\E s \in Subs : AddAirtime(r, s)) \/ ArmAirtime(r)

Serve(r) ==
  \/ Airtime(r)
  \/ \E p, s \in Subs, b \in Bundles : Purchase(r, p, s, b)
  \/ \E s \in Subs, b \in Bundles : ActivateUnpaid(r, s, b)
  \/ Pay(r) \/ Configure(r) \/ CheckInactive(r) \/ Activate(r) \/ Record(r)
  \/ \E s \in Subs, t \in Types : Consume(r, s, t)
  \/ Fetch(r) \/ (\E b \in Bundles : Choose(r, b)) \/ Untrack(r) \/ Write(r)
  \/ GiveUp(r)

Environment ==
  \/ \E s \in Subs : Talk(s) \/ AirtimeLapses(s)
  \/ \E i \in 1..activations : Passes(i)
  \/ \E s \in Subs, b \in Bundles : KeyExpires(s, b)
  \/ \E b \in Bundles : SetOnSale(b)

Next == Environment \/ \E r \in Requests : Serve(r)

Spec == Init /\ [][Next]_vars

-----------------------------------------------------------------------------
InProgress(s) == SumFunctionOnSet([r \in Requests |-> Held(r, s)], Requests)

(* Purchases, calls and expiry account for all airtime added, to the unit:   *)
(* what a purchase took is recorded, held by a purchase in progress, or went *)
(* missing with one that ended without its record.  No record is without a   *)
(* bundle, and no bundle bought was not paid for.                            *)
AirtimeAccounts ==
  \A s \in Subs :
    /\ added[s] = airtime[s] + gone[s] + ledger[s] + missing[s] + InProgress(s)
    /\ ledger[s] <= bought[s]
    /\ bought[s] <= ledger[s] + missing[s] + InProgress(s)

(* As long as no request wrote to a bundle what it had fetched before        *)
(* another's write, the usage reported as covered is what the bundle lost.   *)
UsedIsDeducted ==
  \A s \in Subs, b \in Bundles :
    LET i == bundle[s][b].by
    IN  i # 0 /\ i \notin disturbed =>
          \A t \in Types : Allowance[b][t] # Null =>
            Allowance[b][t] - bundle[s][b].left[t] = used[i][t]

(* Consumption finds every running bundle, unless a request that had fetched *)
(* its predecessor wrote or untracked it.                                    *)
RunningIsTracked ==
  \A s \in Subs, b \in Bundles :
    bundle[s][b].by \notin {0} \cup over \cup disturbed => b \in tracked[s]

(* A bundle that was consumed from, and whose time is up: it has no TTL. *)
Dead(s, b) == bundle[s][b].by \in over /\ <<s, b>> \notin armed

(* A request that can still write to the key of the bundle something running *)
Reviver(r, s, b) ==
  /\ job[r].sub = s
  /\ \/ job[r].at = "activate" /\ job[r].bundle = b
     \/ job[r].at \in {"fetch", "consume", "untrack", "write"}
        /\ job[r].found[b].by \notin over \cup {0}

(* Such a bundle is there for ever: the subscriber can never get it again,   *)
(* and whoever pays for it gets nothing.                                     *)
DeadForEver ==
  [][\A s \in Subs, b \in Bundles :
       Dead(s, b) /\ (\A r \in Requests : ~Reviver(r, s, b)) =>
         /\ Dead(s, b)'
         /\ \A r \in Requests : ~Reviver(r, s, b)']_vars

(* A bundle nobody consumed from, and no stale request wrote to, has its TTL: *)
(* it goes when its time is up, and can be bought again.                      *)
UnusedLapses ==
  \A s \in Subs, b \in Bundles :
    LET i == bundle[s][b].by
    IN  i \notin {0} \cup disturbed /\ (\A t \in Types : used[i][t] = 0) =>
          <<s, b>> \in armed
=============================================================================
