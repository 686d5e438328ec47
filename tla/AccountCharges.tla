---------------------------- MODULE AccountCharges ----------------------------
(***************************************************************************)
(* The subscriber accounts of the charging engine, account:{imsi} in       *)
(* Redis.  process_usage_event adds usage to an account, the background    *)
(* loops take the monthly fee off it, and PUT /v1/subscriber replaces it:  *)
(* all of them write the whole account.  Every command to Redis is one     *)
(* step; one that fails may have taken effect.  An account has a balance   *)
(* and one kind of usage; its limits only produce warnings.                *)
(***************************************************************************)
EXTENDS Integers, FiniteSets

CONSTANTS Imsis,      \* subscribers
          Handlers,   \* tasks in process_usage_event
          Loops,      \* start_background_sync, one per POST /v1/sync/start
          Volumes,    \* volumes of usage events
          Balances, Uses,   \* balances and usages PUT /v1/subscriber can give
          Fee,        \* monthly fee of the plan "basic", in cents
          MaxUsed,    \* the largest usage an account can hold (u64::MAX)
          MaxMonth, MaxEvents, MaxPuts, MaxFaults   \* bounds

ASSUME HandlersFinite == IsFiniteSet(Handlers)
ASSUME VolumesNat == Volumes \subseteq Nat
ASSUME BalancesInt == Balances \subseteq Int
ASSUME UsesFit == Uses \subseteq 0..MaxUsed
ASSUME FeeNat == Fee \in Nat
ASSUME MaxUsedNat == MaxUsed \in Nat
ASSUME BoundsNat == /\ MaxMonth \in Nat \ {0}
                    /\ MaxEvents \in Nat /\ MaxPuts \in Nat /\ MaxFaults \in Nat

VARIABLES balance, used,   \* of each account; used is Absent without an account
          marker,          \* last_monthly_fee: a month, or 0 when unset
          month,           \* what the clock says
          task, event, read,      \* of each handler: step, its event, the account it read
          loop, for, todo, held,  \* of each loop: step, the month it charges for,
                                  \* the keys SCAN returned, the account it read
          events, puts, faults,   \* how many so far, for the bounds
          rated,           \* history: volume recorded for each subscriber, or given by PUT
          taken,           \* history: fees written to each account
          given            \* history: the balances PUT has given each account

accounts == <<balance, used>>
handlers == <<task, event, read>>
loops    == <<loop, for, todo, held>>
counts   == <<events, puts, faults>>
history  == <<rated, taken, given>>
vars     == <<accounts, marker, month, handlers, loops, counts, history>>

Absent    == -1
Nothing   == [balance |-> 0, used |-> 0]
Months    == 1..MaxMonth
Accounts  == [balance : Int, used : 0..MaxUsed]
Present   == {i \in Imsis : used[i] # Absent}
Account(i) == [balance |-> balance[i], used |-> used[i]]
Store(i, a) == /\ balance' = [balance EXCEPT ![i] = a.balance]
               /\ used' = [used EXCEPT ![i] = a.used]

TypeOK ==
  /\ balance \in [Imsis -> Int]
  /\ used \in [Imsis -> {Absent} \cup 0..MaxUsed]
  /\ marker \in {0} \cup Months
  /\ month \in Months
  /\ task \in [Handlers -> {"idle", "record", "read", "write"}]
  /\ event \in [Handlers -> [imsi : Imsis, volume : Volumes]]
  /\ read \in [Handlers -> Accounts]
  /\ loop \in [Loops -> {"idle", "compare", "scan", "accounts", "charge"}]
  /\ for \in [Loops -> {0} \cup Months]
  /\ todo \in [Loops -> [Imsis -> 0..2]]
  /\ \A l \in Loops, i \in Imsis : todo[l][i] > 0 => used[i] # Absent
  /\ held \in [Loops -> [imsi : Imsis, account : Accounts]]
  /\ events \in 0..MaxEvents
  /\ puts \in 0..MaxPuts
  /\ faults \in 0..MaxFaults
  /\ rated \in [Imsis -> Nat]
  /\ taken \in [Imsis -> Nat]
  /\ given \in [Imsis -> SUBSET Balances]

Init ==
  /\ balance = [i \in Imsis |-> 0]
  /\ used = [i \in Imsis |-> Absent]
  /\ month = 1
  /\ marker \in {0, month}
  /\ task = [h \in Handlers |-> "idle"]
  /\ event \in {[h \in Handlers |-> e] : e \in [imsi : Imsis, volume : Volumes]}
  /\ read = [h \in Handlers |-> Nothing]
  /\ loop = [l \in Loops |-> "idle"]
  /\ for = [l \in Loops |-> 0]
  /\ todo = [l \in Loops |-> [i \in Imsis |-> 0]]
  /\ held \in {[l \in Loops |-> [imsi |-> i, account |-> Nothing]] : i \in Imsis}
  /\ events = 0
  /\ puts = 0
  /\ faults = 0
  /\ rated = [i \in Imsis |-> 0]
  /\ taken = [i \in Imsis |-> 0]
  /\ given = [i \in Imsis |-> {}]

Fault == faults < MaxFaults /\ faults' = faults + 1
NoFault == UNCHANGED faults
Served  == NoFault \/ Fault     \* the command takes effect, whatever its answer

-----------------------------------------------------------------------------
(* process_usage_event of rating_billing.rs *)
Goto(h, step) == task' = [task EXCEPT ![h] = step]

(* The rules let the event pass and it gets its price: reads that change     *)
(* nothing.  An event they stop leaves no trace, and what they saw of the    *)
(* account may be old by the time it is written.                             *)
BeginUsage(h, e) ==
  /\ task[h] = "idle"
  /\ events < MaxEvents
  /\ events' = events + 1
  /\ event' = [event EXCEPT ![h] = e]
  /\ Goto(h, "record")
  /\ UNCHANGED <<accounts, marker, month, read, loops, puts, faults, history>>

Recorded(h) == [rated EXCEPT ![event[h].imsi] = @ + event[h].volume]

(* mutant: the error of record_usage_event is ignored *)
RecordUsageOrNot(h) ==
  /\ task[h] = "record"
  /\ Goto(h, "read")
  /\ \/ NoFault /\ rated' = Recorded(h)
     \/ Fault /\ UNCHANGED rated
  /\ UNCHANGED <<accounts, marker, month, event, read, loops, events, puts, taken, given>>

(* record_usage_event: an error ends the request *)
RecordUsage(h) ==
  /\ task[h] = "record"
  /\ \/ /\ NoFault
        /\ rated' = Recorded(h)
        /\ Goto(h, "read")
     \/ Fault /\ Goto(h, "idle") /\ rated' \in {rated, Recorded(h)}
  /\ UNCHANGED <<accounts, marker, month, event, read, loops, events, puts, taken, given>>

(* get_subscriber_account: no account is no error *)
ReadAccount(h) ==
  /\ task[h] = "read"
  /\ \/ /\ event[h].imsi \in Present
        /\ read' = [read EXCEPT ![h] = Account(event[h].imsi)]
        /\ Goto(h, "write")
        /\ NoFault
     \/ /\ (event[h].imsi \notin Present /\ NoFault) \/ Fault
        /\ Goto(h, "idle")
        /\ UNCHANGED read
  /\ UNCHANGED <<accounts, marker, month, event, loops, events, puts, history>>

Charged(h) == [read[h] EXCEPT !.used = @ + event[h].volume]

(* mutant: the event is paid from the balance as well *)
WriteUsageAndCost(h) ==
  /\ task[h] = "write"
  /\ Goto(h, "idle")
  /\ read' = [read EXCEPT ![h] = Nothing]
  /\ Charged(h).used <= MaxUsed
  /\ Store(event[h].imsi, [Charged(h) EXCEPT !.balance = @ - event[h].volume])
  /\ UNCHANGED <<marker, month, event, loops, counts, history>>

(* checked_add, then update_subscriber_account *)
WriteUsage(h) ==
  /\ task[h] = "write"
  /\ Goto(h, "idle")
  /\ read' = [read EXCEPT ![h] = Nothing]
  /\ \/ Charged(h).used <= MaxUsed /\ Store(event[h].imsi, Charged(h)) /\ Served
     \/ Charged(h).used > MaxUsed /\ UNCHANGED accounts /\ NoFault
     \/ UNCHANGED accounts /\ Fault
  /\ UNCHANGED <<marker, month, event, loops, events, puts, history>>

(* PUT /v1/subscriber/:imsi, one SET *)
PutAccount(i, b, u) ==
  /\ puts < MaxPuts
  /\ puts' = puts + 1
  /\ Store(i, [balance |-> b, used |-> u])
  /\ given' = [given EXCEPT ![i] = @ \cup {b}]
  /\ rated' = [rated EXCEPT ![i] = @ + u]
  /\ UNCHANGED <<marker, month, handlers, loops, events, faults, taken>>

-----------------------------------------------------------------------------
(* apply_monthly_fees_if_needed, once in every tick of a background loop *)
Step(l, step) == loop' = [loop EXCEPT ![l] = step]
End(l)        == Step(l, "idle") /\ for' = [for EXCEPT ![l] = 0]

(* GET last_monthly_fee: an error reads as "never" *)
ReadMarker(l) ==
  /\ loop[l] = "idle"
  /\ Step(l, "compare")
  /\ \/ NoFault /\ for' = [for EXCEPT ![l] = marker]
     \/ Fault /\ for' = [for EXCEPT ![l] = 0]
  /\ UNCHANGED <<accounts, marker, month, handlers, todo, held, events, puts, history>>

CompareMonth(l) ==
  /\ loop[l] = "compare"
  /\ IF for[l] = month THEN End(l)
                       ELSE Step(l, "scan") /\ for' = [for EXCEPT ![l] = month]
  /\ UNCHANGED <<accounts, marker, month, handlers, todo, held, counts, history>>

(* SCAN returns every account, some of them twice. *)
ScanAccounts(l) ==
  /\ loop[l] = "scan"
  /\ \/ /\ \E more \in SUBSET Present :
             todo' = [todo EXCEPT ![l] =
                       [i \in Imsis |-> IF i \notin Present THEN 0
                                        ELSE IF i \in more THEN 2 ELSE 1]]
        /\ Step(l, "accounts")
        /\ NoFault
        /\ UNCHANGED for
     \/ Fault /\ End(l) /\ UNCHANGED todo
  /\ UNCHANGED <<accounts, marker, month, handlers, held, events, puts, history>>

(* GET of the next account, and its plan; an error of either skips it *)
ReadForFee(l, i) ==
  /\ loop[l] = "accounts"
  /\ todo[l][i] > 0
  /\ todo' = [todo EXCEPT ![l][i] = @ - 1]
  /\ \/ /\ held' = [held EXCEPT ![l] = [imsi |-> i, account |-> Account(i)]]
        /\ Step(l, "charge")
        /\ NoFault
     \/ Fault /\ UNCHANGED <<loop, held>>
  /\ UNCHANGED <<accounts, marker, month, handlers, for, events, puts, history>>

(* SET of the account, whose error is ignored *)
WriteFee(l) ==
  LET i == held[l].imsi IN
  /\ loop[l] = "charge"
  /\ Step(l, "accounts")
  /\ held' = [held EXCEPT ![l].account = Nothing]
  /\ \/ /\ Store(i, [held[l].account EXCEPT !.balance = @ - Fee])
        /\ taken' = [taken EXCEPT ![i] = @ + 1]
        /\ Served
     \/ Fault /\ UNCHANGED <<accounts, taken>>
  /\ UNCHANGED <<marker, month, handlers, for, todo, events, puts, rated, given>>

(* SET last_monthly_fee to the month the run began in; an error is ignored *)
MarkMonth(l) ==
  /\ loop[l] = "accounts"
  /\ \A i \in Imsis : todo[l][i] = 0
  /\ End(l)
  /\ \/ marker' = for[l] /\ Served
     \/ UNCHANGED marker /\ Fault
  /\ UNCHANGED <<accounts, month, handlers, todo, held, events, puts, history>>

(* The loop runs inside the request of POST /v1/sync/start and ends with it; *)
(* the next request starts one again.                                        *)
Disconnect(l) ==
  /\ loop[l] # "idle"
  /\ Fault
  /\ End(l)
  /\ todo' = [todo EXCEPT ![l] = [i \in Imsis |-> 0]]
  /\ held' = [held EXCEPT ![l].account = Nothing]
  /\ UNCHANGED <<accounts, marker, month, handlers, events, puts, history>>

NextMonth ==
  /\ month < MaxMonth
  /\ month' = month + 1
  /\ UNCHANGED <<accounts, marker, handlers, loops, counts, history>>

-----------------------------------------------------------------------------
Tick(l) ==
  \/ ReadMarker(l)
  \/ CompareMonth(l)
  \/ ScanAccounts(l)
  \/ \E i \in Imsis : ReadForFee(l, i)
  \/ WriteFee(l)
  \/ MarkMonth(l)

Usage(h) ==
  \/ \E e \in [imsi : Imsis, volume : Volumes] : BeginUsage(h, e)
  \/ RecordUsage(h)
  \/ ReadAccount(h)
  \/ WriteUsage(h)

Next ==
  \/ \E h \in Handlers : Usage(h)
  \/ \E i \in Imsis, b \in Balances, u \in Uses : PutAccount(i, b, u)
  \/ \E l \in Loops : Tick(l) \/ Disconnect(l)
  \/ NextMonth

Spec == Init /\ [][Next]_vars

-----------------------------------------------------------------------------
(* bal is one of the balances bs with at most n fees off. *)
FeesOff(bs, n, bal) == \E b \in bs, k \in 0..n : bal = b - k * Fee

(* However usage, fees and PUT overwrite each other's accounts, an account   *)
(* never shows usage that was neither recorded nor given to it.              *)
UsageRecorded == \A i \in Present : used[i] <= rated[i]

(* A balance is one that PUT gave, less at most the fees that were taken:    *)
(* stale writes lose fees but never take one that no run took.               *)
BalanceExplained == \A i \in Present : FeesOff(given[i], taken[i], balance[i])
=============================================================================
