------------------------- MODULE ChargingEngineProofs -------------------------
(***************************************************************************)
(* The stores of the charging engine.                                      *)
(*                                                                         *)
(* AccountCharges, for any subscribers, handlers and loops: what the       *)
(* stored accounts can be, whatever order usage, fees and PUT write them   *)
(* in.  BundleCharging, for every number of events and rows: an allowance  *)
(* is never overdrawn, the status of a row agrees with what is left of it, *)
(* a closed row is never deducted from, and every unit gone from a row is  *)
(* accounted for.  CreditControl, for every number of handlers, every      *)
(* request size and every Redis limit: by how much a subscriber can        *)
(* overdraw, and what becomes of its debt.                                 *)
(***************************************************************************)
EXTENDS AccountCharges, CreditControl, BundleCharging, SetSums

(* Accounts *)

LEMMA AccountFields ==
  ASSUME NEW a \in Accounts
  PROVE  a.balance \in Int /\ a.used \in 0..MaxUsed /\ a.used \in Int
BY MaxUsedNat DEF Accounts

LEMMA NothingIsAccount == Nothing \in Accounts
BY MaxUsedNat DEF Nothing, Accounts

(* An account read, with more usage or with a fee off it, is an account. *)
LEMMA MoreUsed ==
  ASSUME NEW a \in Accounts, NEW v \in Nat, a.used + v <= MaxUsed
  PROVE  /\ [a EXCEPT !.used = @ + v] \in Accounts
         /\ [a EXCEPT !.used = @ + v].balance = a.balance
BY MaxUsedNat DEF Accounts

LEMMA LessBalance ==
  ASSUME NEW a \in Accounts
  PROVE  /\ [a EXCEPT !.balance = @ - Fee] \in Accounts
         /\ [a EXCEPT !.balance = @ - Fee].balance = a.balance - Fee
BY FeeNat DEF Accounts

(* Storing an account keeps the types, and no account goes away. *)
LEMMA StoreTypes ==
  ASSUME NEW i \in Imsis, NEW a \in Accounts, Store(i, a),
         balance \in [Imsis -> Int], used \in [Imsis -> {Absent} \cup 0..MaxUsed]
  PROVE  /\ balance' \in [Imsis -> Int]
         /\ used' \in [Imsis -> {Absent} \cup 0..MaxUsed]
         /\ used'[i] # Absent
         /\ \A j \in Imsis : used[j] # Absent => used'[j] # Absent
         /\ balance' = [balance EXCEPT ![i] = a.balance]
<1>1. a.balance \in Int /\ a.used \in 0..MaxUsed /\ a.used # Absent
  BY MaxUsedNat DEF Accounts, Absent
<1> QED
  BY <1>1 DEF Store

LEMMA StoredIsAccount ==
  ASSUME NEW i \in Imsis, used[i] # Absent,
         balance \in [Imsis -> Int], used \in [Imsis -> {Absent} \cup 0..MaxUsed]
  PROVE  Account(i) \in Accounts /\ Account(i).balance = balance[i]
BY DEF Account, Accounts

-----------------------------------------------------------------------------
(* The types of what one action leaves alone, in groups *)
LEMMA TypeOfUsage ==
  ASSUME TypeOK, NEW h \in Handlers, Usage(h)
  PROVE  TypeOK'
<1> USE DEF Served, Fault, NoFault, Goto
<1>0. \A n \in Nat : n + 1 \in Nat
  OBVIOUS
<1>1. ASSUME NEW e \in [imsi : Imsis, volume : Volumes], BeginUsage(h, e)
      PROVE  TypeOK'
  <2>1. events' \in 0..MaxEvents
    BY <1>1, BoundsNat DEF TypeOK, BeginUsage
  <2>2. task' \in [Handlers -> {"idle", "record", "read", "write"}]
    BY <1>1 DEF TypeOK, BeginUsage
  <2>3. event' \in [Handlers -> [imsi : Imsis, volume : Volumes]]
    BY <1>1 DEF TypeOK, BeginUsage
  <2> QED
    BY <1>1, <2>1, <2>2, <2>3
    DEF TypeOK, BeginUsage, accounts, loops, history
<1>2. CASE RecordUsage(h)
  <2>1. task' \in [Handlers -> {"idle", "record", "read", "write"}]
    BY <1>2 DEF TypeOK, RecordUsage
  <2>2. faults' \in 0..MaxFaults
    BY <1>2, BoundsNat DEF TypeOK, RecordUsage
  <2>3. rated' \in [Imsis -> Nat]
    <3>1. event[h].imsi \in Imsis /\ event[h].volume \in Nat
      BY VolumesNat DEF TypeOK
    <3>2. rated[event[h].imsi] + event[h].volume \in Nat
      BY <3>1 DEF TypeOK
    <3> QED
      BY <1>2, <3>1, <3>2 DEF TypeOK, RecordUsage, Recorded
  <2> QED
    BY <1>2, <2>1, <2>2, <2>3 DEF TypeOK, RecordUsage, accounts, loops
<1>3. CASE ReadAccount(h)
  <2>1. task' \in [Handlers -> {"idle", "record", "read", "write"}]
    BY <1>3 DEF TypeOK, ReadAccount
  <2>2. faults' \in 0..MaxFaults
    BY <1>3, BoundsNat DEF TypeOK, ReadAccount
  <2>3. read' \in [Handlers -> Accounts]
    <3>1. CASE event[h].imsi \in Present
      <4>1. Account(event[h].imsi) \in Accounts
        BY <3>1, StoredIsAccount DEF TypeOK, Present
      <4> QED
        BY <1>3, <4>1 DEF TypeOK, ReadAccount
    <3>2. CASE event[h].imsi \notin Present
      BY <1>3, <3>2 DEF TypeOK, ReadAccount
    <3> QED
      BY <3>1, <3>2
  <2> QED
    BY <1>3, <2>1, <2>2, <2>3 DEF TypeOK, ReadAccount, accounts, loops, history
<1>4. CASE WriteUsage(h)
  <2>1. task' \in [Handlers -> {"idle", "record", "read", "write"}]
    BY <1>4 DEF TypeOK, WriteUsage
  <2>2. faults' \in 0..MaxFaults
    BY <1>4, BoundsNat DEF TypeOK, WriteUsage
  <2>3. read' \in [Handlers -> Accounts]
    BY <1>4, NothingIsAccount DEF TypeOK, WriteUsage
  <2>4. /\ balance' \in [Imsis -> Int]
        /\ used' \in [Imsis -> {Absent} \cup 0..MaxUsed]
        /\ \A j \in Imsis : used[j] # Absent => used'[j] # Absent
    <3>1. event[h].imsi \in Imsis /\ event[h].volume \in Nat /\ read[h] \in Accounts
      BY VolumesNat DEF TypeOK
    <3>2. CASE UNCHANGED accounts
      BY <3>2 DEF TypeOK, accounts
    <3>3. CASE Charged(h).used <= MaxUsed /\ Store(event[h].imsi, Charged(h))
      <4>1. Charged(h).used = read[h].used + event[h].volume
        BY <3>1 DEF Charged, Accounts
      <4>2. Charged(h) \in Accounts
        BY <3>1, <3>3, <4>1, MoreUsed DEF Charged
      <4> QED
        BY <3>1, <3>3, <4>2, StoreTypes DEF TypeOK
    <3> QED
      BY <1>4, <3>2, <3>3 DEF WriteUsage
  <2> QED
    BY <1>4, <2>1, <2>2, <2>3, <2>4 DEF TypeOK, WriteUsage, loops, history
<1> QED
  BY <1>1, <1>2, <1>3, <1>4 DEF Usage

LEMMA TypeOfPut ==
  ASSUME TypeOK, NEW i \in Imsis, NEW b \in Balances, NEW u \in Uses, PutAccount(i, b, u)
  PROVE  TypeOK'
<1>1. [balance |-> b, used |-> u] \in Accounts
  BY BalancesInt, UsesFit DEF Accounts
<1>2. /\ balance' \in [Imsis -> Int]
      /\ used' \in [Imsis -> {Absent} \cup 0..MaxUsed]
      /\ \A j \in Imsis : used[j] # Absent => used'[j] # Absent
  BY <1>1, StoreTypes DEF PutAccount, TypeOK
<1>3. puts' \in 0..MaxPuts
  BY BoundsNat DEF TypeOK, PutAccount
<1>4. given' \in [Imsis -> SUBSET Balances]
  BY DEF TypeOK, PutAccount
<1>5. rated' \in [Imsis -> Nat]
  <2>1. u \in Nat /\ rated[i] + u \in Nat
    BY UsesFit, MaxUsedNat DEF TypeOK
  <2> QED
    BY <2>1 DEF TypeOK, PutAccount
<1> QED
  BY <1>2, <1>3, <1>4, <1>5 DEF TypeOK, PutAccount, handlers, loops

LEMMA TypeOfTick ==
  ASSUME TypeOK, NEW l \in Loops, Tick(l) \/ Disconnect(l)
  PROVE  TypeOK'
<1> USE DEF Served, Fault, NoFault, End, Step
<1> DEFINE Ticks == {"idle", "compare", "scan", "accounts", "charge"}
<1>1. CASE ReadMarker(l)
  <2>1. loop' \in [Loops -> Ticks] /\ for' \in [Loops -> {0} \cup Months]
    BY <1>1 DEF TypeOK, ReadMarker
  <2>2. faults' \in 0..MaxFaults
    BY <1>1, BoundsNat DEF TypeOK, ReadMarker
  <2> QED
    BY <1>1, <2>1, <2>2 DEF TypeOK, ReadMarker, accounts, handlers, history
<1>2. CASE CompareMonth(l)
  <2>1. loop' \in [Loops -> Ticks] /\ for' \in [Loops -> {0} \cup Months]
    BY <1>2 DEF TypeOK, CompareMonth
  <2> QED
    BY <1>2, <2>1 DEF TypeOK, CompareMonth, accounts, handlers, counts, history
<1>3. CASE ScanAccounts(l)
  <2>1. loop' \in [Loops -> Ticks] /\ for' \in [Loops -> {0} \cup Months]
    BY <1>3 DEF TypeOK, ScanAccounts
  <2>2. faults' \in 0..MaxFaults
    BY <1>3, BoundsNat DEF TypeOK, ScanAccounts
  <2>3. CASE UNCHANGED todo
    BY <1>3, <2>1, <2>2, <2>3 DEF TypeOK, ScanAccounts, accounts, handlers, history
  <2>4. ASSUME NEW more \in SUBSET Present,
               todo' = [todo EXCEPT ![l] =
                         [i \in Imsis |-> IF i \notin Present THEN 0
                                          ELSE IF i \in more THEN 2 ELSE 1]]
        PROVE  TypeOK'
    <3> DEFINE keys == [i \in Imsis |-> IF i \notin Present THEN 0
                                        ELSE IF i \in more THEN 2 ELSE 1]
    <3>1. keys \in [Imsis -> 0..2] /\ \A i \in Imsis : keys[i] > 0 => used[i] # Absent
      BY DEF Present
    <3>2. todo' = [todo EXCEPT ![l] = keys]
      BY <2>4
    <3> HIDE DEF keys
    <3>3. /\ todo' \in [Loops -> [Imsis -> 0..2]]
          /\ \A m \in Loops, i \in Imsis : todo'[m][i] > 0 => used[i] # Absent
      BY <3>1, <3>2 DEF TypeOK
    <3> QED
      BY <1>3, <2>1, <2>2, <3>3 DEF TypeOK, ScanAccounts, accounts, handlers, history
  <2> QED
    BY <1>3, <2>3, <2>4 DEF ScanAccounts
<1>4. ASSUME NEW i \in Imsis, ReadForFee(l, i)
      PROVE  TypeOK'
  <2>1. loop' \in [Loops -> Ticks]
    BY <1>4 DEF TypeOK, ReadForFee
  <2>2. faults' \in 0..MaxFaults
    BY <1>4, BoundsNat DEF TypeOK, ReadForFee
  <2>3. Account(i) \in Accounts
    BY <1>4, StoredIsAccount DEF TypeOK, ReadForFee
  <2>4. held' \in [Loops -> [imsi : Imsis, account : Accounts]]
    <3>1. [imsi |-> i, account |-> Account(i)] \in [imsi : Imsis, account : Accounts]
      BY <2>3
    <3>2. held' = held \/ held' = [held EXCEPT ![l] = [imsi |-> i, account |-> Account(i)]]
      BY <1>4 DEF ReadForFee
    <3> QED
      BY <3>1, <3>2 DEF TypeOK
  <2>5. /\ todo' \in [Loops -> [Imsis -> 0..2]]
        /\ \A m \in Loops, j \in Imsis : todo'[m][j] > 0 => used[j] # Absent
    <3>1. todo[l][i] \in 1..2 /\ todo[l][i] - 1 \in 0..2
      BY <1>4 DEF TypeOK, ReadForFee
    <3>2. todo \in [Loops -> [Imsis -> 0..2]]
      BY DEF TypeOK
    <3>3. todo' = [todo EXCEPT ![l][i] = todo[l][i] - 1]
      BY <1>4 DEF ReadForFee
    <3> QED
      BY <3>1, <3>2, <3>3 DEF TypeOK
  <2> QED
    BY <1>4, <2>1, <2>2, <2>4, <2>5
    DEF TypeOK, ReadForFee, accounts, handlers, history
<1>5. CASE WriteFee(l)
  <2> DEFINE i == held[l].imsi
             paid == [held[l].account EXCEPT !.balance = @ - Fee]
  <2>1. i \in Imsis /\ held[l].account \in Accounts
    BY DEF TypeOK
  <2>2. loop' \in [Loops -> Ticks]
    BY <1>5 DEF TypeOK, WriteFee
  <2>3. faults' \in 0..MaxFaults
    BY <1>5, BoundsNat DEF TypeOK, WriteFee
  <2>4. held' \in [Loops -> [imsi : Imsis, account : Accounts]]
    <3>1. [held[l] EXCEPT !.account = Nothing] \in [imsi : Imsis, account : Accounts]
      BY NothingIsAccount DEF TypeOK
    <3>2. held' = [held EXCEPT ![l] = [held[l] EXCEPT !.account = Nothing]]
      BY <1>5 DEF WriteFee
    <3> QED
      BY <3>1, <3>2 DEF TypeOK
  <2>5. paid \in Accounts
    BY <2>1, LessBalance
  <2>6. UNCHANGED accounts \/ Store(i, paid)
    BY <1>5 DEF WriteFee, accounts
  <2> HIDE DEF paid
  <2>7. /\ balance' \in [Imsis -> Int]
        /\ used' \in [Imsis -> {Absent} \cup 0..MaxUsed]
        /\ \A j \in Imsis : used[j] # Absent => used'[j] # Absent
    <3>1. CASE UNCHANGED accounts
      BY <3>1 DEF TypeOK, accounts
    <3>2. CASE Store(i, paid)
      BY <2>1, <2>5, <3>2, StoreTypes DEF TypeOK
    <3> QED
      BY <2>6, <3>1, <3>2
  <2>8. taken' \in [Imsis -> Nat]
    <3>1. taken[i] + 1 \in Nat
      BY <2>1 DEF TypeOK
    <3>2. taken' = taken \/ taken' = [taken EXCEPT ![i] = taken[i] + 1]
      BY <1>5 DEF WriteFee
    <3> QED
      BY <2>1, <3>1, <3>2 DEF TypeOK
  <2> QED
    BY <1>5, <2>2, <2>3, <2>4, <2>7, <2>8 DEF TypeOK, WriteFee, handlers
<1>6. CASE MarkMonth(l)
  <2>1. loop' \in [Loops -> Ticks] /\ for' \in [Loops -> {0} \cup Months]
    BY <1>6 DEF TypeOK, MarkMonth
  <2>2. faults' \in 0..MaxFaults
    BY <1>6, BoundsNat DEF TypeOK, MarkMonth
  <2>3. marker' \in {0} \cup Months
    BY <1>6 DEF TypeOK, MarkMonth
  <2> QED
    BY <1>6, <2>1, <2>2, <2>3 DEF TypeOK, MarkMonth, accounts, handlers, history
<1>7. CASE Disconnect(l)
  <2>1. loop' \in [Loops -> Ticks] /\ for' \in [Loops -> {0} \cup Months]
    BY <1>7 DEF TypeOK, Disconnect
  <2>2. faults' \in 0..MaxFaults
    BY <1>7, BoundsNat DEF TypeOK, Disconnect
  <2>3. held' \in [Loops -> [imsi : Imsis, account : Accounts]]
    <3>1. [held[l] EXCEPT !.account = Nothing] \in [imsi : Imsis, account : Accounts]
      BY NothingIsAccount DEF TypeOK
    <3>2. held' = [held EXCEPT ![l] = [held[l] EXCEPT !.account = Nothing]]
      BY <1>7 DEF Disconnect
    <3> QED
      BY <3>1, <3>2 DEF TypeOK
  <2>4. /\ todo' \in [Loops -> [Imsis -> 0..2]]
        /\ \A m \in Loops, j \in Imsis : todo'[m][j] > 0 => used[j] # Absent
    <3> DEFINE none == [j \in Imsis |-> 0]
    <3>1. none \in [Imsis -> 0..2] /\ \A j \in Imsis : ~(none[j] > 0)
      OBVIOUS
    <3>2. todo' = [todo EXCEPT ![l] = none]
      BY <1>7 DEF Disconnect
    <3> HIDE DEF none
    <3> QED
      BY <3>1, <3>2 DEF TypeOK
  <2> QED
    BY <1>7, <2>1, <2>2, <2>3, <2>4 DEF TypeOK, Disconnect, accounts, handlers, history
<1> QED
  BY <1>1, <1>2, <1>3, <1>4, <1>5, <1>6, <1>7 DEF Tick

(* Usage, fees, PUT and faults in any order keep the types: in particular    *)
(* the usage of an account never leaves u64, and a fee run only has keys of  *)
(* accounts that are stored.                                                 *)
THEOREM AccountsTypeCorrect == Spec => []TypeOK
<1>1. Init => TypeOK
  BY NothingIsAccount, BoundsNat DEF Init, TypeOK, Months, Absent
<1>2. TypeOK /\ [Next]_vars => TypeOK'
  <2> SUFFICES ASSUME TypeOK, [Next]_vars PROVE TypeOK'
    OBVIOUS
  <2>1. CASE \E h \in Handlers : Usage(h)
    BY <2>1, TypeOfUsage
  <2>2. CASE \E i \in Imsis, b \in Balances, u \in Uses : PutAccount(i, b, u)
    BY <2>2, TypeOfPut
  <2>3. CASE \E l \in Loops : Tick(l) \/ Disconnect(l)
    BY <2>3, TypeOfTick
  <2>4. CASE NextMonth
    <3>1. month' \in Months
      BY <2>4, BoundsNat DEF TypeOK, NextMonth, Months
    <3> QED
      BY <2>4, <3>1 DEF TypeOK, NextMonth, accounts, handlers, loops, counts, history
  <2>5. CASE UNCHANGED vars
    BY <2>5 DEF TypeOK, vars, accounts, handlers, loops, counts, history
  <2> QED
    BY <2>1, <2>2, <2>3, <2>4, <2>5 DEF Next
<1> QED
  BY <1>1, <1>2, PTL DEF Spec

-----------------------------------------------------------------------------
LEMMA OffNone ==
  ASSUME NEW bs \in SUBSET Balances, NEW n \in Nat, NEW b \in bs
  PROVE  FeesOff(bs, n, b)
<1>1. b \in Int /\ 0 \in 0..n /\ Fee \in Int
  BY BalancesInt, FeeNat
<1>2. b = b - 0 * Fee
  BY <1>1
<1> QED
  BY <1>1, <1>2 DEF FeesOff

LEMMA OffMore ==
  ASSUME NEW bs, NEW more, bs \subseteq more,
         NEW n \in Nat, NEW m \in Nat, n <= m, NEW bal, FeesOff(bs, n, bal)
  PROVE  FeesOff(more, m, bal)
BY DEF FeesOff

LEMMA OffOneMore ==
  ASSUME NEW bs \in SUBSET Balances, NEW n \in Nat, NEW bal, FeesOff(bs, n, bal)
  PROVE  FeesOff(bs, n + 1, bal - Fee)
<1>1. PICK b \in bs, k \in 0..n : bal = b - k * Fee
  BY DEF FeesOff
<1>2. b \in Int /\ k \in Int /\ Fee \in Int /\ k + 1 \in 0..(n + 1)
  BY BalancesInt, FeeNat
<1>3. (k + 1) * Fee = k * Fee + Fee /\ k * Fee \in Int
  BY <1>2
<1>4. bal - Fee = b - (k + 1) * Fee
  BY <1>1, <1>2, <1>3
<1> QED
  BY <1>2, <1>4 DEF FeesOff

(* Neither history is ever cut. *)
Grows == \A i \in Imsis : given[i] \subseteq given'[i] /\ taken[i] <= taken'[i]

LEMMA HistoryGrows ==
  ASSUME TypeOK, [Next]_vars
  PROVE  Grows
<1>1. \A i \in Imsis : taken[i] \in Nat
  BY DEF TypeOK
<1>2. CASE UNCHANGED <<given, taken>>
  BY <1>1, <1>2 DEF Grows
<1>3. ASSUME NEW i \in Imsis, NEW b \in Balances, NEW u \in Uses, PutAccount(i, b, u)
      PROVE  Grows
  <2>1. given' = [given EXCEPT ![i] = @ \cup {b}] /\ taken' = taken
    BY <1>3 DEF PutAccount
  <2> QED
    BY <1>1, <2>1 DEF TypeOK, Grows
<1>4. ASSUME NEW l \in Loops, WriteFee(l)
      PROVE  Grows
  <2>1. given' = given
    BY <1>4 DEF WriteFee
  <2>2. taken' = taken \/ taken' = [taken EXCEPT ![held[l].imsi] = taken[held[l].imsi] + 1]
    BY <1>4 DEF WriteFee
  <2>3. taken \in [Imsis -> Nat] /\ held[l].imsi \in Imsis
    BY DEF TypeOK
  <2> QED
    BY <2>1, <2>2, <2>3 DEF Grows
<1> QED
  BY <1>2, <1>3, <1>4
  DEF Next, Usage, BeginUsage, RecordUsage, ReadAccount, WriteUsage, Tick, ReadMarker,
      CompareMonth, ScanAccounts, ReadForFee, MarkMonth, Disconnect, NextMonth,
      history, vars

(* What was read to be written back is as explained as what is stored. *)
UsageReadExplained ==
  \A h \in Handlers :
    task[h] = "write" =>
      FeesOff(given[event[h].imsi], taken[event[h].imsi], read[h].balance)
FeeReadExplained ==
  \A l \in Loops :
    loop[l] = "charge" =>
      FeesOff(given[held[l].imsi], taken[held[l].imsi], held[l].account.balance)
Explained == BalanceExplained /\ UsageReadExplained /\ FeeReadExplained

LEMMA StaysExplained ==
  ASSUME TypeOK, TypeOK', Grows, NEW i \in Imsis, NEW bal,
         FeesOff(given[i], taken[i], bal)
  PROVE  FeesOff(given'[i], taken'[i], bal)
<1>1. taken[i] \in Nat /\ taken'[i] \in Nat
  BY DEF TypeOK
<1>2. given[i] \subseteq given'[i] /\ taken[i] <= taken'[i]
  BY DEF Grows
<1> QED
  BY <1>1, <1>2, OffMore

(* An explained balance stored leaves every stored balance explained. *)
LEMMA StoresExplained ==
  ASSUME TypeOK, TypeOK', Grows, BalanceExplained,
         NEW i \in Imsis, NEW a \in Accounts, Store(i, a),
         FeesOff(given'[i], taken'[i], a.balance)
  PROVE  BalanceExplained'
<1> SUFFICES ASSUME NEW j \in Imsis, used'[j] # Absent
             PROVE  FeesOff(given'[j], taken'[j], balance'[j])
  BY DEF BalanceExplained, Present
<1>1. CASE j = i
  <2>1. balance'[j] = a.balance
    BY <1>1 DEF Store, TypeOK
  <2> QED
    BY <1>1, <2>1
<1>2. CASE j # i
  <2>1. used[j] # Absent /\ balance'[j] = balance[j]
    BY <1>2 DEF Store, TypeOK
  <2>2. FeesOff(given[j], taken[j], balance[j])
    BY <2>1 DEF BalanceExplained, Present
  <2> QED
    BY <2>1, <2>2, StaysExplained
<1> QED
  BY <1>1, <1>2

LEMMA KeptExplained ==
  ASSUME TypeOK, TypeOK', Grows, BalanceExplained, UNCHANGED accounts
  PROVE  BalanceExplained'
<1> SUFFICES ASSUME NEW j \in Imsis, used'[j] # Absent
             PROVE  FeesOff(given'[j], taken'[j], balance'[j])
  BY DEF BalanceExplained, Present
<1>1. used[j] # Absent /\ balance'[j] = balance[j]
  BY DEF accounts
<1>2. FeesOff(given[j], taken[j], balance[j])
  BY <1>1 DEF BalanceExplained, Present
<1> QED
  BY <1>1, <1>2, StaysExplained

LEMMA BalancesStep ==
  ASSUME TypeOK, TypeOK', Grows, Explained, [Next]_vars
  PROVE  BalanceExplained'
<1> USE DEF Explained
<1>1. CASE UNCHANGED accounts
  BY <1>1, KeptExplained
<1>2. ASSUME NEW h \in Handlers, WriteUsage(h), ~UNCHANGED accounts
      PROVE  BalanceExplained'
  <2> DEFINE i == event[h].imsi
  <2>1. task[h] = "write" /\ Charged(h).used <= MaxUsed /\ Store(i, Charged(h))
    BY <1>2 DEF WriteUsage
  <2>2. i \in Imsis /\ read[h] \in Accounts /\ event[h].volume \in Nat
    BY VolumesNat DEF TypeOK
  <2>3. Charged(h).used = read[h].used + event[h].volume
    BY <2>2 DEF Charged, Accounts
  <2>4. Charged(h) \in Accounts /\ Charged(h).balance = read[h].balance
    BY <2>1, <2>2, <2>3, MoreUsed DEF Charged
  <2>5. FeesOff(given[i], taken[i], Charged(h).balance)
    BY <2>1, <2>4 DEF UsageReadExplained
  <2>6. FeesOff(given'[i], taken'[i], Charged(h).balance)
    BY <2>2, <2>5, StaysExplained
  <2> QED
    BY <2>1, <2>2, <2>4, <2>6, StoresExplained
<1>3. ASSUME NEW i \in Imsis, NEW b \in Balances, NEW u \in Uses, PutAccount(i, b, u)
      PROVE  BalanceExplained'
  <2> DEFINE a == [balance |-> b, used |-> u]
  <2>1. a \in Accounts /\ a.balance = b
    BY BalancesInt, UsesFit DEF Accounts
  <2>2. Store(i, a)
    BY <1>3 DEF PutAccount
  <2> HIDE DEF a
  <2>3. given'[i] \in SUBSET Balances /\ taken'[i] \in Nat /\ b \in given'[i]
    BY <1>3 DEF PutAccount, TypeOK
  <2>4. FeesOff(given'[i], taken'[i], a.balance)
    BY <2>1, <2>3, OffNone
  <2> QED
    BY <2>1, <2>2, <2>4, StoresExplained
<1>4. ASSUME NEW l \in Loops, WriteFee(l), ~UNCHANGED accounts
      PROVE  BalanceExplained'
  <2> DEFINE i == held[l].imsi
             a == held[l].account
             paid == [a EXCEPT !.balance = @ - Fee]
  <2>1. /\ loop[l] = "charge" /\ Store(i, paid)
        /\ given' = given /\ taken' = [taken EXCEPT ![i] = taken[i] + 1]
    BY <1>4 DEF WriteFee, accounts
  <2>2. i \in Imsis /\ a \in Accounts
    BY DEF TypeOK
  <2>3. paid \in Accounts /\ paid.balance = a.balance - Fee
    BY <2>2, LessBalance
  <2>4. FeesOff(given[i], taken[i], a.balance)
    BY <2>1 DEF FeeReadExplained
  <2> HIDE DEF paid, a
  <2>5. given[i] \in SUBSET Balances /\ taken[i] \in Nat
    BY <2>2 DEF TypeOK
  <2>6. given'[i] = given[i] /\ taken'[i] = taken[i] + 1
    BY <2>1, <2>2 DEF TypeOK
  <2>7. FeesOff(given[i], taken[i] + 1, a.balance - Fee)
    BY <2>4, <2>5, OffOneMore
  <2>8. FeesOff(given'[i], taken'[i], paid.balance)
    BY <2>3, <2>6, <2>7
  <2> QED
    BY <2>1, <2>2, <2>3, <2>8, StoresExplained
<1> QED
  BY <1>1, <1>2, <1>3, <1>4
  DEF Next, Usage, BeginUsage, RecordUsage, ReadAccount, Tick, ReadMarker,
      CompareMonth, ScanAccounts, ReadForFee, MarkMonth, Disconnect, NextMonth, vars

(* A read that waits was waiting, or has just been made of a stored account. *)
LEMMA UsageReadStep ==
  ASSUME TypeOK, TypeOK', Grows, Explained, [Next]_vars
  PROVE  UsageReadExplained'
<1> SUFFICES ASSUME NEW h \in Handlers, task'[h] = "write"
             PROVE  FeesOff(given'[event'[h].imsi], taken'[event'[h].imsi], read'[h].balance)
  BY DEF UsageReadExplained
<1>1. CASE task[h] = "write" /\ event'[h] = event[h] /\ read'[h] = read[h]
  <2>1. FeesOff(given[event[h].imsi], taken[event[h].imsi], read[h].balance)
    BY <1>1 DEF Explained, UsageReadExplained
  <2>2. event[h].imsi \in Imsis
    BY DEF TypeOK
  <2>3. FeesOff(given'[event[h].imsi], taken'[event[h].imsi], read[h].balance)
    BY <2>1, <2>2, StaysExplained
  <2> QED
    BY <1>1, <2>3
<1>2. CASE ReadAccount(h)
  <2> DEFINE i == event[h].imsi
  <2>1. i \in Imsis /\ used[i] # Absent
    BY <1>2 DEF ReadAccount, Goto, TypeOK, Present
  <2>2. event'[h] = event[h] /\ read'[h] = Account(i)
    BY <1>2 DEF ReadAccount, Goto, TypeOK
  <2>3. Account(i).balance = balance[i]
    BY DEF Account
  <2>4. FeesOff(given[i], taken[i], balance[i])
    BY <2>1 DEF Explained, BalanceExplained, Present
  <2>5. FeesOff(given'[i], taken'[i], balance[i])
    BY <2>1, <2>4, StaysExplained
  <2> QED
    BY <2>2, <2>3, <2>5
<1>3. ASSUME NEW g \in Handlers, Usage(g)
      PROVE  \/ task[h] = "write" /\ event'[h] = event[h] /\ read'[h] = read[h]
             \/ ReadAccount(h)
  <2>1. CASE g = h
    BY <1>3, <2>1 DEF Usage, BeginUsage, RecordUsage, WriteUsage, Goto, TypeOK
  <2>2. CASE g # h
    BY <1>3, <2>2
    DEF Usage, BeginUsage, RecordUsage, ReadAccount, WriteUsage, Goto, TypeOK
  <2> QED
    BY <2>1, <2>2
<1>4. CASE UNCHANGED handlers
  BY <1>1, <1>4 DEF handlers
<1> QED
  BY <1>1, <1>2, <1>3, <1>4
  DEF Next, PutAccount, Tick, ReadMarker, CompareMonth, ScanAccounts, ReadForFee,
      WriteFee, MarkMonth, Disconnect, NextMonth, vars

LEMMA FeeReadStep ==
  ASSUME TypeOK, TypeOK', Grows, Explained, [Next]_vars
  PROVE  FeeReadExplained'
<1> SUFFICES ASSUME NEW l \in Loops, loop'[l] = "charge"
             PROVE  FeesOff(given'[held'[l].imsi], taken'[held'[l].imsi],
                            held'[l].account.balance)
  BY DEF FeeReadExplained
<1>1. CASE loop[l] = "charge" /\ held'[l] = held[l]
  <2>1. FeesOff(given[held[l].imsi], taken[held[l].imsi], held[l].account.balance)
    BY <1>1 DEF Explained, FeeReadExplained
  <2>2. held[l].imsi \in Imsis
    BY DEF TypeOK
  <2>3. FeesOff(given'[held[l].imsi], taken'[held[l].imsi], held[l].account.balance)
    BY <2>1, <2>2, StaysExplained
  <2> QED
    BY <1>1, <2>3
<1>2. ASSUME NEW i \in Imsis, ReadForFee(l, i)
      PROVE  FeesOff(given'[held'[l].imsi], taken'[held'[l].imsi],
                     held'[l].account.balance)
  <2>1. used[i] # Absent
    BY <1>2 DEF ReadForFee, TypeOK
  <2>2. held'[l] = [imsi |-> i, account |-> Account(i)]
    BY <1>2 DEF ReadForFee, Step, TypeOK
  <2>3. held'[l].imsi = i /\ held'[l].account.balance = balance[i]
    BY <2>2 DEF Account
  <2>4. FeesOff(given[i], taken[i], balance[i])
    BY <2>1 DEF Explained, BalanceExplained, Present
  <2>5. FeesOff(given'[i], taken'[i], balance[i])
    BY <2>4, StaysExplained
  <2> QED
    BY <2>3, <2>5
<1>3. ASSUME NEW m \in Loops, Tick(m) \/ Disconnect(m)
      PROVE  \/ loop[l] = "charge" /\ held'[l] = held[l]
             \/ \E i \in Imsis : ReadForFee(l, i)
  <2>1. CASE m = l
    BY <1>3, <2>1
    DEF Tick, ReadMarker, CompareMonth, ScanAccounts, WriteFee, MarkMonth, Disconnect,
        Step, End, TypeOK
  <2>2. CASE m # l
    BY <1>3, <2>2
    DEF Tick, ReadMarker, CompareMonth, ScanAccounts, ReadForFee, WriteFee, MarkMonth,
        Disconnect, Step, End, TypeOK
  <2> QED
    BY <2>1, <2>2
<1>4. CASE UNCHANGED loops
  BY <1>1, <1>4 DEF loops
<1> QED
  BY <1>1, <1>2, <1>3, <1>4
  DEF Next, Usage, BeginUsage, RecordUsage, ReadAccount, WriteUsage, PutAccount,
      NextMonth, vars

(* Stale writes lose fees and usage, but a balance never has a fee off that  *)
(* no run took.                                                              *)
THEOREM FeesExplainBalances == Spec => []BalanceExplained
<1>1. Init => Explained
  BY DEF Init, Explained, BalanceExplained, UsageReadExplained, FeeReadExplained,
         Present
<1>2. TypeOK /\ TypeOK' /\ Explained /\ [Next]_vars => Explained'
  BY HistoryGrows, BalancesStep, UsageReadStep, FeeReadStep DEF Explained
<1>3. Explained => BalanceExplained
  BY DEF Explained
<1> QED
  BY <1>1, <1>2, <1>3, AccountsTypeCorrect, PTL DEF Spec

-----------------------------------------------------------------------------
(* The volume of an event that is recorded and not yet written to an account *)
Waits(h, i) == IF event[h].imsi = i /\ task[h] \in {"read", "write"}
               THEN event[h].volume ELSE 0
Waiting(i) == SumFunctionOnSet([h \in Handlers |-> Waits(h, i)], Handlers)

(* What an account can show without showing more than was recorded, once all *)
(* the events in progress are written to it                                  *)
Room == [i \in Imsis |-> rated[i] - Waiting(i)]

WaitsTyped == \A h \in Handlers, i \in Imsis : Waits(h, i) \in Nat
WaitingTyped == \A i \in Imsis : Waiting(i) \in Nat

LEMMA WaitsAreNats == TypeOK => WaitsTyped
<1> SUFFICES ASSUME TypeOK, NEW h \in Handlers, NEW i \in Imsis PROVE Waits(h, i) \in Nat
  BY DEF WaitsTyped
<1>1. event[h].volume \in Nat
  BY VolumesNat DEF TypeOK
<1> QED BY <1>1 DEF Waits

LEMMA WaitingIsNat == WaitsTyped => WaitingTyped
<1> SUFFICES ASSUME WaitsTyped, NEW i \in Imsis PROVE Waiting(i) \in Nat
  BY DEF WaitingTyped
<1> DEFINE waits == [h \in Handlers |-> Waits(h, i)]
<1>1. \A h \in Handlers : waits[h] \in Nat
  BY DEF WaitsTyped
<1> HIDE DEF waits
<1>2. SumFunctionOnSet(waits, Handlers) \in Nat
  BY <1>1, HandlersFinite, SumNat
<1> QED BY <1>2 DEF Waiting, waits

LEMMA WaitingMoves ==
  ASSUME WaitsTyped, WaitsTyped', NEW h \in Handlers, NEW i \in Imsis,
         \A q \in Handlers : q # h => task'[q] = task[q] /\ event'[q] = event[q]
  PROVE  Waiting(i)' = Waiting(i) + Waits(h, i)' - Waits(h, i)
<1> DEFINE now  == [q \in Handlers |-> Waits(q, i)]
           then == [q \in Handlers |-> Waits(q, i)']
<1>1. /\ \A q \in Handlers : now[q] \in Int /\ then[q] \in Int
      /\ now[h] = Waits(h, i) /\ then[h] = Waits(h, i)'
  BY DEF WaitsTyped
<1>2. \A q \in Handlers : q # h => then[q] = now[q]
  BY DEF Waits
<1>3. Waiting(i) = SumFunctionOnSet(now, Handlers)
      /\ Waiting(i)' = SumFunctionOnSet(then, Handlers)
  BY DEF Waiting
<1> HIDE DEF now, then
<1>4. SumFunctionOnSet(then, Handlers) = SumFunctionOnSet(now, Handlers) + then[h] - now[h]
  BY <1>1, <1>2, HandlersFinite, SumChanges
<1> QED BY <1>1, <1>3, <1>4

(* A step of a handler leaves at least the room there was, and that of the   *)
(* event it writes is free again.                                            *)
LEMMA RoomOfUsage ==
  ASSUME TypeOK, TypeOK', NEW h \in Handlers, Usage(h), NEW i \in Imsis
  PROVE  /\ Room'[i] >= Room[i]
         /\ WriteUsage(h) /\ i = event[h].imsi => Room'[i] = Room[i] + event[h].volume
<1>1. WaitsTyped /\ WaitsTyped' /\ WaitingTyped /\ WaitingTyped'
  BY WaitsAreNats, WaitingIsNat, PTL
<1>2. \A q \in Handlers : q # h => task'[q] = task[q] /\ event'[q] = event[q]
  BY DEF Usage, BeginUsage, RecordUsage, ReadAccount, WriteUsage, Goto, TypeOK
<1>3. event[h].volume \in Nat /\ event[h].imsi \in Imsis
  BY VolumesNat DEF TypeOK
<1>4. rated \in [Imsis -> Nat] /\ rated' \in [Imsis -> Nat]
  BY DEF TypeOK
<1>5. Waits(h, i) \in Nat /\ Waits(h, i)' \in Nat
  BY <1>1 DEF WaitsTyped
<1>6. /\ rated'[i] - rated[i] >= Waits(h, i)' - Waits(h, i)
      /\ WriteUsage(h) /\ i = event[h].imsi =>
           rated'[i] - rated[i] = Waits(h, i)' - Waits(h, i) + event[h].volume
  <2>1. ASSUME NEW e \in [imsi : Imsis, volume : Volumes], BeginUsage(h, e)
        PROVE  rated'[i] = rated[i] /\ Waits(h, i) = 0 /\ Waits(h, i)' = 0 /\ ~WriteUsage(h)
    BY <2>1 DEF BeginUsage, Goto, Waits, TypeOK, history, WriteUsage
  <2>2. ASSUME RecordUsage(h)
        PROVE  ~WriteUsage(h) /\ rated'[i] - rated[i] >= Waits(h, i)' - Waits(h, i)
    <3>1. task[h] = "record" /\ event' = event
      BY <2>2 DEF RecordUsage
    <3>2. Waits(h, i) = 0 /\ ~WriteUsage(h)
      BY <3>1 DEF Waits, WriteUsage
    <3>3. rated[i] \in Nat /\ Recorded(h)[i] = IF event[h].imsi = i
                                              THEN rated[i] + event[h].volume ELSE rated[i]
      BY <1>3, <1>4 DEF Recorded
    <3>4. CASE rated' = Recorded(h) /\ Goto(h, "read")
      <4>1. Waits(h, i)' = IF event[h].imsi = i THEN event[h].volume ELSE 0
        BY <3>1, <3>4 DEF Waits, Goto, TypeOK
      <4> QED BY <1>3, <3>2, <3>3, <3>4, <4>1
    <3>5. CASE Goto(h, "idle") /\ rated' \in {rated, Recorded(h)}
      <4>1. Waits(h, i)' = 0
        BY <3>1, <3>5 DEF Waits, Goto, TypeOK
      <4>2. rated'[i] >= rated[i]
        BY <1>3, <3>3, <3>5
      <4> QED BY <1>4, <3>2, <3>3, <4>1, <4>2
    <3> QED BY <2>2, <3>4, <3>5 DEF RecordUsage
  <2>3. ASSUME ReadAccount(h)
        PROVE  rated'[i] = rated[i] /\ Waits(h, i)' <= Waits(h, i) /\ ~WriteUsage(h)
    <3>1. task[h] = "read" /\ event' = event /\ rated' = rated
      BY <2>3 DEF ReadAccount, history
    <3>2. task' = [task EXCEPT ![h] = "write"] \/ task' = [task EXCEPT ![h] = "idle"]
      BY <2>3 DEF ReadAccount, Goto
    <3> QED BY <1>3, <3>1, <3>2 DEF Waits, TypeOK, WriteUsage
  <2>4. ASSUME WriteUsage(h)
        PROVE  /\ rated'[i] = rated[i] /\ Waits(h, i)' = 0
               /\ i = event[h].imsi => Waits(h, i) = event[h].volume
    BY <2>4 DEF WriteUsage, Goto, Waits, TypeOK, history
  <2>5. rated[i] \in Nat
    BY <1>4
  <2> QED BY <1>3, <1>5, <2>1, <2>2, <2>3, <2>4, <2>5 DEF Usage
<1>7. Waiting(i)' = Waiting(i) + Waits(h, i)' - Waits(h, i)
  BY <1>1, <1>2, WaitingMoves
<1>8. PICK w \in Nat : w = Waiting(i)
  BY <1>1 DEF WaitingTyped
<1>9. PICK m, n \in Nat : m = Waits(h, i) /\ n = Waits(h, i)'
  BY <1>5
<1>10. PICK x, y \in Nat : x = rated[i] /\ y = rated'[i]
  BY <1>4
<1>11. Room[i] = x - w /\ Room'[i] = y - (w + n - m)
  BY <1>7, <1>8, <1>9, <1>10 DEF Room
<1>12. PICK v \in Nat : v = event[h].volume
  BY <1>3
<1>13. y - x >= n - m /\ (WriteUsage(h) /\ i = event[h].imsi => y - x = n - m + v)
  BY <1>6, <1>9, <1>10, <1>12
<1>14. /\ y - (w + n - m) >= x - w
       /\ WriteUsage(h) /\ i = event[h].imsi => y - (w + n - m) = x - w + v
  BY <1>8, <1>9, <1>10, <1>12, <1>13
<1> QED BY <1>11, <1>12, <1>14

(* The room of an account never shrinks. *)
RoomGrows == \A i \in Imsis : Room'[i] >= Room[i]

LEMMA RoomStep ==
  ASSUME TypeOK, TypeOK', [Next]_vars
  PROVE  RoomGrows
<1>1. WaitingTyped
  BY WaitsAreNats, WaitingIsNat
<1>2. ASSUME UNCHANGED <<task, event>>, \A i \in Imsis : rated'[i] >= rated[i]
      PROVE  RoomGrows
  <2>1. \A i \in Imsis : Waiting(i)' = Waiting(i)
    BY <1>2 DEF Waiting, Waits
  <2>2. \A i \in Imsis : rated[i] \in Nat /\ rated'[i] \in Nat /\ Waiting(i) \in Nat
    BY <1>1 DEF TypeOK, WaitingTyped
  <2> QED BY <1>2, <2>1, <2>2 DEF RoomGrows, Room
<1>3. \A i \in Imsis : rated[i] \in Nat
  BY DEF TypeOK
<1>4. ASSUME NEW h \in Handlers, Usage(h) PROVE RoomGrows
  BY <1>4, RoomOfUsage DEF RoomGrows
<1>5. ASSUME NEW i \in Imsis, NEW b \in Balances, NEW u \in Uses, PutAccount(i, b, u)
      PROVE  RoomGrows
  <2>1. u \in Nat
    BY UsesFit, MaxUsedNat
  <2>2. rated' = [rated EXCEPT ![i] = @ + u]
    BY <1>5 DEF PutAccount
  <2>3. \A j \in Imsis : rated'[j] >= rated[j]
    BY <1>3, <2>1, <2>2 DEF TypeOK
  <2> QED BY <1>2, <1>5, <2>3 DEF PutAccount, handlers
<1>6. CASE UNCHANGED <<task, event, rated>>
  <2>1. \A i \in Imsis : rated'[i] >= rated[i]
    BY <1>3, <1>6
  <2> QED BY <1>2, <1>6, <2>1
<1> QED
  BY <1>4, <1>5, <1>6
  DEF Next, Tick, ReadMarker, CompareMonth, ScanAccounts, ReadForFee, WriteFee,
      MarkMonth, Disconnect, NextMonth, handlers, history, vars

(* What is stored, and what was read to be written back, leaves room for all *)
(* the events in progress.                                                   *)
Fits(i, u) == u <= Room[i]
StoredFits    == \A i \in Imsis : Fits(i, 0) /\ (used[i] # Absent => Fits(i, used[i]))
UsageReadFits == \A h \in Handlers : task[h] = "write" => Fits(event[h].imsi, read[h].used)
FeeReadFits   == \A l \in Loops : loop[l] = "charge" => Fits(held[l].imsi, held[l].account.used)
FitsInv == StoredFits /\ UsageReadFits /\ FeeReadFits

RoomTyped == \A i \in Imsis : Room[i] \in Int

LEMMA RoomIsInt == TypeOK => RoomTyped
<1> SUFFICES ASSUME TypeOK, NEW i \in Imsis PROVE Room[i] \in Int
  BY DEF RoomTyped
<1>1. WaitingTyped
  BY WaitsAreNats, WaitingIsNat
<1>2. Waiting(i) \in Nat /\ rated[i] \in Nat
  BY <1>1 DEF WaitingTyped, TypeOK
<1> QED BY <1>2 DEF Room

LEMMA StaysFit ==
  ASSUME RoomTyped, RoomTyped', RoomGrows, NEW i \in Imsis, NEW u \in Int, Fits(i, u)
  PROVE  u <= Room'[i]
<1>1. PICK x, y \in Int : x = Room[i] /\ y = Room'[i]
  BY DEF RoomTyped
<1>2. y >= x
  BY <1>1 DEF RoomGrows
<1>3. u <= x
  BY <1>1 DEF Fits
<1>4. u <= y
  BY <1>2, <1>3
<1> QED BY <1>1, <1>4

(* Usage that fits, stored, leaves all stored usage fitting. *)
LEMMA StoresFit ==
  ASSUME TypeOK, RoomTyped, RoomTyped', RoomGrows, StoredFits,
         NEW i \in Imsis, NEW a \in Accounts, Store(i, a), a.used <= Room'[i]
  PROVE  StoredFits'
<1> SUFFICES ASSUME NEW j \in Imsis
             PROVE  0 <= Room'[j] /\ (used'[j] # Absent => used'[j] <= Room'[j])
  BY DEF StoredFits, Fits
<1>1. 0 <= Room'[j]
  BY StaysFit DEF StoredFits
<1>2. CASE j = i
  BY <1>1, <1>2 DEF Store, TypeOK
<1>3. ASSUME j # i, used'[j] # Absent PROVE used'[j] <= Room'[j]
  <2>1. used'[j] = used[j]
    BY <1>3 DEF Store, TypeOK
  <2>2. PICK u \in Int : u = used[j]
    BY MaxUsedNat DEF TypeOK, Absent
  <2>3. Fits(j, u)
    BY <1>3, <2>1, <2>2 DEF StoredFits
  <2> QED BY <2>1, <2>2, <2>3, StaysFit
<1> QED BY <1>1, <1>2, <1>3

LEMMA KeptFits ==
  ASSUME TypeOK, RoomTyped, RoomTyped', RoomGrows, StoredFits, UNCHANGED accounts
  PROVE  StoredFits'
<1> SUFFICES ASSUME NEW j \in Imsis
             PROVE  0 <= Room'[j] /\ (used'[j] # Absent => used'[j] <= Room'[j])
  BY DEF StoredFits, Fits
<1>1. 0 <= Room'[j]
  BY StaysFit DEF StoredFits
<1>2. PICK u \in Int : u = used[j]
  BY MaxUsedNat DEF TypeOK, Absent
<1>3. u # Absent => u <= Room'[j]
  BY <1>2, StaysFit DEF StoredFits
<1> QED BY <1>1, <1>2, <1>3 DEF accounts

LEMMA StoredStep ==
  ASSUME TypeOK, TypeOK', RoomTyped, RoomTyped', RoomGrows, FitsInv, [Next]_vars
  PROVE  StoredFits'
<1> USE DEF FitsInv
<1>1. CASE UNCHANGED accounts
  BY <1>1, KeptFits
<1>2. ASSUME NEW h \in Handlers, WriteUsage(h), ~UNCHANGED accounts
      PROVE  StoredFits'
  <2> DEFINE i == event[h].imsi
  <2>1. task[h] = "write" /\ Charged(h).used <= MaxUsed /\ Store(i, Charged(h))
    BY <1>2 DEF WriteUsage
  <2>2. i \in Imsis /\ read[h] \in Accounts /\ event[h].volume \in Nat
    BY VolumesNat DEF TypeOK
  <2>3. Charged(h).used = read[h].used + event[h].volume
    BY <2>2 DEF Charged, Accounts
  <2>4. Charged(h) \in Accounts
    BY <2>1, <2>2, <2>3, MoreUsed DEF Charged
  <2>5. Room'[i] = Room[i] + event[h].volume
    BY <1>2, <2>2, RoomOfUsage DEF Usage
  <2>6. Fits(i, read[h].used)
    BY <2>1 DEF UsageReadFits
  <2>7. PICK x, u, v \in Int : x = Room[i] /\ u = read[h].used /\ v = event[h].volume
    BY <2>2, AccountFields DEF RoomTyped
  <2>8. u <= x
    BY <2>6, <2>7 DEF Fits
  <2>9. u + v <= x + v
    BY <2>8
  <2>10. Charged(h).used <= Room'[i]
    BY <2>3, <2>5, <2>7, <2>9
  <2> QED BY <2>1, <2>2, <2>4, <2>10, StoresFit
<1>3. ASSUME NEW i \in Imsis, NEW b \in Balances, NEW u \in Uses, PutAccount(i, b, u)
      PROVE  StoredFits'
  <2> DEFINE a == [balance |-> b, used |-> u]
  <2>1. a \in Accounts /\ a.used = u /\ u \in Nat
    BY BalancesInt, UsesFit, MaxUsedNat DEF Accounts
  <2>2. Store(i, a)
    BY <1>3 DEF PutAccount
  <2> HIDE DEF a
  <2>3. Waiting(i)' = Waiting(i)
    BY <1>3 DEF PutAccount, handlers, Waiting, Waits
  <2>4. rated[i] \in Nat /\ rated'[i] = rated[i] + u
    BY <1>3 DEF PutAccount, TypeOK
  <2>5. WaitingTyped
    BY WaitsAreNats, WaitingIsNat
  <2>6. PICK w, x \in Nat : w = Waiting(i) /\ x = rated[i]
    BY <2>4, <2>5 DEF WaitingTyped
  <2>7. 0 <= x - w
    BY <2>6 DEF StoredFits, Fits, Room
  <2>8. Room'[i] = x + u - w
    <3>1. Room'[i] = rated'[i] - Waiting(i)'
      BY DEF Room
    <3>2. rated'[i] = x + u /\ Waiting(i)' = w
      BY <2>3, <2>4, <2>6
    <3> QED BY <2>1, <2>6, <3>1, <3>2
  <2>9. a.used <= Room'[i]
    BY <2>1, <2>6, <2>7, <2>8
  <2> QED BY <2>1, <2>2, <2>9, StoresFit
<1>4. ASSUME NEW l \in Loops, WriteFee(l), ~UNCHANGED accounts
      PROVE  StoredFits'
  <2> DEFINE i == held[l].imsi
             a == held[l].account
             paid == [a EXCEPT !.balance = @ - Fee]
  <2>1. loop[l] = "charge" /\ Store(i, paid)
    BY <1>4 DEF WriteFee, accounts
  <2>2. i \in Imsis /\ a \in Accounts
    BY DEF TypeOK
  <2>3. paid \in Accounts /\ paid.used = a.used /\ a.used \in Int
    BY <2>2, LessBalance, AccountFields DEF Accounts
  <2>4. Fits(i, a.used)
    BY <2>1 DEF FeeReadFits
  <2> HIDE DEF paid, a
  <2>5. PICK u \in Int : u = a.used
    BY <2>3
  <2>6. paid.used <= Room'[i]
    BY <2>2, <2>3, <2>4, <2>5, StaysFit
  <2> QED BY <2>1, <2>2, <2>3, <2>6, StoresFit
<1> QED
  BY <1>1, <1>2, <1>3, <1>4
  DEF Next, Usage, BeginUsage, RecordUsage, ReadAccount, Tick, ReadMarker,
      CompareMonth, ScanAccounts, ReadForFee, MarkMonth, Disconnect, NextMonth, vars

(* A handler about to write, or a loop about to charge, was so before, or    *)
(* has just read a stored account.                                           *)
LEMMA UsageReadFitsStep ==
  ASSUME TypeOK, TypeOK', RoomTyped, RoomTyped', RoomGrows, FitsInv, [Next]_vars
  PROVE  UsageReadFits'
<1> SUFFICES ASSUME NEW h \in Handlers, task'[h] = "write"
             PROVE  read'[h].used <= Room'[event'[h].imsi]
  BY DEF UsageReadFits, Fits
<1>1. CASE task[h] = "write" /\ event'[h] = event[h] /\ read'[h] = read[h]
  <2>1. event[h].imsi \in Imsis /\ read[h] \in Accounts
    BY DEF TypeOK
  <2>2. PICK i \in Imsis, u \in Int : i = event[h].imsi /\ u = read[h].used
    BY <2>1, AccountFields
  <2>3. Fits(i, u)
    BY <1>1, <2>2 DEF FitsInv, UsageReadFits
  <2>4. u <= Room'[i]
    BY <2>3, StaysFit
  <2> QED BY <1>1, <2>2, <2>4
<1>2. CASE ReadAccount(h)
  <2>1. event[h].imsi \in Imsis /\ used[event[h].imsi] # Absent
    BY <1>2 DEF ReadAccount, Goto, TypeOK, Present
  <2>2. event'[h] = event[h] /\ read'[h] = Account(event[h].imsi)
    BY <1>2 DEF ReadAccount, Goto, TypeOK
  <2>3. PICK i \in Imsis : i = event[h].imsi
    BY <2>1
  <2>4. PICK u \in Int : u = used[i]
    <3>1. used[i] \in {Absent} \cup 0..MaxUsed
      BY DEF TypeOK
    <3> QED BY <3>1, MaxUsedNat DEF Absent
  <2>5. Fits(i, u)
    BY <2>1, <2>3, <2>4 DEF FitsInv, StoredFits
  <2>6. u <= Room'[i]
    BY <2>5, StaysFit
  <2> QED BY <2>2, <2>3, <2>4, <2>6 DEF Account
<1>3. ASSUME NEW g \in Handlers, Usage(g)
      PROVE  \/ task[h] = "write" /\ event'[h] = event[h] /\ read'[h] = read[h]
             \/ ReadAccount(h)
  <2>1. CASE g = h
    BY <1>3, <2>1 DEF Usage, BeginUsage, RecordUsage, WriteUsage, Goto, TypeOK
  <2>2. CASE g # h
    BY <1>3, <2>2
    DEF Usage, BeginUsage, RecordUsage, ReadAccount, WriteUsage, Goto, TypeOK
  <2> QED BY <2>1, <2>2
<1>4. CASE UNCHANGED handlers
  BY <1>1, <1>4 DEF handlers
<1> QED
  BY <1>1, <1>2, <1>3, <1>4
  DEF Next, PutAccount, Tick, ReadMarker, CompareMonth, ScanAccounts, ReadForFee,
      WriteFee, MarkMonth, Disconnect, NextMonth, vars

LEMMA FeeReadFitsStep ==
  ASSUME TypeOK, TypeOK', RoomTyped, RoomTyped', RoomGrows, FitsInv, [Next]_vars
  PROVE  FeeReadFits'
<1> SUFFICES ASSUME NEW l \in Loops, loop'[l] = "charge"
             PROVE  held'[l].account.used <= Room'[held'[l].imsi]
  BY DEF FeeReadFits, Fits
<1>1. CASE loop[l] = "charge" /\ held'[l] = held[l]
  <2>1. held[l].imsi \in Imsis /\ held[l].account \in Accounts
    BY DEF TypeOK
  <2>2. PICK i \in Imsis, u \in Int : i = held[l].imsi /\ u = held[l].account.used
    BY <2>1, AccountFields
  <2>3. Fits(i, u)
    BY <1>1, <2>2 DEF FitsInv, FeeReadFits
  <2>4. u <= Room'[i]
    BY <2>3, StaysFit
  <2> QED BY <1>1, <2>2, <2>4
<1>2. ASSUME NEW i \in Imsis, ReadForFee(l, i)
      PROVE  held'[l].account.used <= Room'[held'[l].imsi]
  <2>1. used[i] # Absent
    BY <1>2 DEF ReadForFee, TypeOK
  <2>2. held'[l] = [imsi |-> i, account |-> Account(i)]
    BY <1>2 DEF ReadForFee, Step, TypeOK
  <2>3. held'[l].imsi = i /\ held'[l].account.used = used[i]
    BY <2>2 DEF Account
  <2>4. PICK u \in Int : u = used[i]
    BY MaxUsedNat DEF TypeOK, Absent
  <2>5. Fits(i, u)
    BY <2>1, <2>4 DEF FitsInv, StoredFits
  <2>6. u <= Room'[i]
    BY <2>5, StaysFit
  <2> QED BY <2>3, <2>4, <2>6
<1>3. ASSUME NEW m \in Loops, Tick(m) \/ Disconnect(m)
      PROVE  \/ loop[l] = "charge" /\ held'[l] = held[l]
             \/ \E i \in Imsis : ReadForFee(l, i)
  <2>1. CASE m = l
    BY <1>3, <2>1
    DEF Tick, ReadMarker, CompareMonth, ScanAccounts, WriteFee, MarkMonth, Disconnect,
        Step, End, TypeOK
  <2>2. CASE m # l
    BY <1>3, <2>2
    DEF Tick, ReadMarker, CompareMonth, ScanAccounts, ReadForFee, WriteFee, MarkMonth,
        Disconnect, Step, End, TypeOK
  <2> QED BY <2>1, <2>2
<1>4. CASE UNCHANGED loops
  BY <1>1, <1>4 DEF loops
<1> QED
  BY <1>1, <1>2, <1>3, <1>4
  DEF Next, Usage, BeginUsage, RecordUsage, ReadAccount, WriteUsage, PutAccount,
      NextMonth, vars

(* No order of usage, fee runs, PUTs and faults makes an account show more   *)
(* usage than was recorded for its subscriber or given with it.              *)
THEOREM UsageIsRecorded == Spec => []UsageRecorded
<1>1. Init => FitsInv
  <2> SUFFICES ASSUME Init PROVE FitsInv
    OBVIOUS
  <2>1. \A i \in Imsis : Waiting(i) = 0 /\ rated[i] = 0
    <3> SUFFICES ASSUME NEW i \in Imsis PROVE Waiting(i) = 0 /\ rated[i] = 0
      OBVIOUS
    <3> DEFINE waits == [h \in Handlers |-> Waits(h, i)]
    <3>1. \A h \in Handlers : waits[h] = 0
      BY DEF Init, Waits
    <3> HIDE DEF waits
    <3>2. SumFunctionOnSet(waits, Handlers) = 0
      BY <3>1, HandlersFinite, SumZero
    <3> QED BY <3>2 DEF Waiting, waits, Init
  <2>2. \A i \in Imsis : Room[i] = 0
    BY <2>1 DEF Room
  <2>3. StoredFits
    BY <2>2 DEF Init, StoredFits, Fits
  <2>4. UsageReadFits /\ FeeReadFits
    BY DEF Init, UsageReadFits, FeeReadFits
  <2> QED BY <2>3, <2>4 DEF FitsInv
<1>2. TypeOK /\ TypeOK' /\ FitsInv /\ [Next]_vars => FitsInv'
  <2> SUFFICES ASSUME TypeOK, TypeOK', FitsInv, [Next]_vars PROVE FitsInv'
    OBVIOUS
  <2>1. RoomTyped /\ RoomTyped'
    BY RoomIsInt, PTL
  <2>2. RoomGrows
    BY RoomStep
  <2> QED
    BY <2>1, <2>2, StoredStep, UsageReadFitsStep, FeeReadFitsStep DEF FitsInv
<1>3. TypeOK /\ FitsInv => UsageRecorded
  <2> SUFFICES ASSUME TypeOK, FitsInv, NEW i \in Present PROVE used[i] <= rated[i]
    BY DEF UsageRecorded
  <2>1. i \in Imsis /\ used[i] # Absent /\ used[i] \in 0..MaxUsed /\ rated[i] \in Nat
    BY DEF Present, TypeOK
  <2>2. WaitingTyped
    BY WaitsAreNats, WaitingIsNat
  <2>3. PICK w \in Nat : w = Waiting(i)
    BY <2>1, <2>2 DEF WaitingTyped
  <2>4. used[i] <= rated[i] - w
    BY <2>1, <2>3 DEF FitsInv, StoredFits, Fits, Room
  <2> QED BY <2>1, <2>3, <2>4, MaxUsedNat
<1> QED
  BY <1>1, <1>2, <1>3, AccountsTypeCorrect, PTL DEF Spec

-----------------------------------------------------------------------------
(* Bundles *)

(* A row has no expiry before it is inserted. *)
NotYetDue == \A r \in Rows : due[r] => status[r] # "none"

BundleInv == ChargingTypeOK /\ StatusTells /\ NotYetDue

(* What is bound to a statement is a BIGINT, whatever the u64 was. *)
LEMMA BigintOfU64 == \A v \in U64s : AsBigint(v) \in Bigints
BY MaxBigintNat DEF AsBigint, Bigints, U64s

LEMMA StoredTyped ==
  \A o \in Offers : Stored(o) \in [Types -> {Null} \cup Bigints]
<1> SUFFICES ASSUME NEW o \in Offers, NEW t \in Types
             PROVE  Stored(o)[t] \in {Null} \cup Bigints
  BY DEF Stored
<1>1. o[t] = Null \/ o[t] \in U64s
  BY OffersAreOptions
<1> QED
  BY <1>1, BigintOfU64 DEF Stored

AmountsTyped == \A e \in Events : Amount(usage[e]) \in Int

LEMMA UsageHasAmount == ChargingTypeOK => AmountsTyped
<1> SUFFICES ASSUME ChargingTypeOK, NEW e \in Events PROVE Amount(usage[e]) \in Int
  BY DEF AmountsTyped
<1>1. usage[e] \in Usages \/ usage[e] = NoUsage
  BY DEF ChargingTypeOK
<1>2. usage[e].volume \in U64s
  <2>1. CASE usage[e] \in Usages
    BY <2>1, UsageVolumesU64 DEF Usages
  <2>2. CASE usage[e] = NoUsage
    BY <2>2, MaxBigintNat DEF NoUsage, U64s
  <2> QED BY <1>1, <2>1, <2>2
<1> QED
  BY <1>2, BigintOfU64, MaxBigintNat DEF Amount, Bigints

LEMMA BundleInit == ChargingInit => BundleInv
<1> SUFFICES ASSUME ChargingInit PROVE BundleInv
  OBVIOUS
<1> USE DEF ChargingInit, NoAllowances
<1>1. ChargingTypeOK
  BY DEF ChargingTypeOK, Statuses
<1>2. StatusTells
  BY DEF StatusTells
<1>3. NotYetDue
  BY DEF NotYetDue
<1> QED
  BY <1>1, <1>2, <1>3 DEF BundleInv

(* A deduction the UPDATE's condition lets through *)
LEMMA TakeKeeps ==
  ASSUME BundleInv, NEW e \in Events, NEW r \in Rows,
         stage[e] = "trying", Usable(r, usage[e]), Take(e, r),
         UNCHANGED <<due, granted, recorded, lost, usage>>
  PROVE  BundleInv'
<1> DEFINE t == usage[e].type
           rest == left[r][t] - Amount(usage[e])
<1> USE DEF BundleInv
<1>1. t \in Types /\ rest \in Bigints /\ rest >= 0 /\ rest \in Int
  <2>1. t \in Types
    BY DEF ChargingTypeOK, Usages
  <2>2. Amount(usage[e]) \in Int
    BY UsageHasAmount DEF AmountsTyped
  <2>3. left[r][t] \in Int
    BY <2>1, MaxBigintNat DEF ChargingTypeOK, Bigints, Null
  <2>4. left[r][t] >= Amount(usage[e]) /\ rest \in Bigints
    BY DEF Usable, Take
  <2> HIDE DEF t
  <2> QED
    BY <2>1, <2>2, <2>3, <2>4
<1>2. /\ left' = [left EXCEPT ![r] = [@ EXCEPT ![t] = rest]]
      /\ status' = [status EXCEPT ![r] = IF rest <= 0 THEN "exhausted" ELSE @]
      /\ stage' = [stage EXCEPT ![e] = "persist"]
      /\ charged' = [charged EXCEPT ![e] = r]
      /\ candidates' = [candidates EXCEPT ![e] = {}]
  BY DEF Take, ChargingTypeOK
<1> HIDE DEF t, rest
<1>3. ChargingTypeOK'
  <2>1. left' \in [Rows -> [Types -> {Null} \cup Bigints]]
    BY <1>1, <1>2 DEF ChargingTypeOK
  <2> QED
    BY <1>2, <2>1 DEF ChargingTypeOK, Statuses
<1>4. StatusTells'
  <2> SUFFICES ASSUME NEW q \in Rows
               PROVE  /\ \A s \in Types : left'[q][s] # granted[q][s] =>
                           left'[q][s] >= 0 /\ (status'[q] = "active" => left'[q][s] > 0)
                      /\ status'[q] = "exhausted" => \E s \in Types : left'[q][s] = 0
    BY DEF StatusTells
  <2>1. CASE q # r
    BY <2>1, <1>2 DEF ChargingTypeOK, StatusTells
  <2>2. CASE q = r
    <3>1. status[r] = "active"
      BY DEF Usable, Open
    <3>2. left'[r] = [left[r] EXCEPT ![t] = rest] /\ DOMAIN left[r] = Types
      BY <1>2 DEF ChargingTypeOK
    <3>3. status'[r] = IF rest <= 0 THEN "exhausted" ELSE "active"
      BY <1>2, <3>1 DEF ChargingTypeOK
    <3>4. \A s \in Types : s # t /\ left[r][s] # granted[r][s] =>
            left[r][s] >= 0 /\ left[r][s] > 0
      BY <3>1 DEF StatusTells
    <3> QED
      BY <1>1, <2>2, <3>2, <3>3, <3>4
  <2> QED
    BY <2>1, <2>2
<1>5. NotYetDue'
  BY <1>2 DEF NotYetDue, ChargingTypeOK
<1> QED
  BY <1>3, <1>4, <1>5

LEMMA BookedInt ==
  ASSUME ChargingTypeOK, NEW e \in Events,
         NEW account \in [Rows -> [Types -> Int]]
  PROVE  Booked(account, e) \in [Rows -> [Types -> Int]]
<1>1. Amount(usage[e]) \in Int
  BY UsageHasAmount DEF AmountsTyped
<1> QED
  BY <1>1 DEF Booked

LEMMA BundleStep == BundleInv /\ [ChargingNext]_chargingVars => BundleInv'
<1> SUFFICES ASSUME BundleInv, [ChargingNext]_chargingVars PROVE BundleInv'
  OBVIOUS
<1> USE DEF BundleInv, ChargingTypeOK, StatusTells, NotYetDue
<1>1. ASSUME NEW r \in Rows, FallsDue(r) PROVE BundleInv'
  BY <1>1 DEF FallsDue, inProgress
<1>2. ASSUME NEW r \in Rows, NEW o \in Offers, Activate(r, o) PROVE BundleInv'
  <2>1. Stored(o) \in [Types -> {Null} \cup Bigints]
    BY StoredTyped
  <2> QED
    BY <1>2, <2>1 DEF Activate, inProgress, Statuses
<1>3. CASE ExpireStale
  BY <1>3 DEF ExpireStale, inProgress, Statuses
<1>4. ASSUME NEW e \in Events, Process(e) PROVE BundleInv'
  <2>1. ASSUME NEW u \in Usages, Select(e, u) PROVE BundleInv'
    BY <2>1 DEF Select, rows
  <2>2. ASSUME NEW r \in Rows, Deduct(e, r) PROVE BundleInv'
    <3>1. CASE Usable(r, usage[e])
      <4>1. Take(e, r)
        BY <2>2, <3>1 DEF Deduct
      <4>2. stage[e] = "trying" /\ UNCHANGED <<due, granted, recorded, lost, usage>>
        BY <2>2 DEF Deduct
      <4> HIDE DEF BundleInv, ChargingTypeOK, StatusTells, NotYetDue
      <4> QED
        BY <3>1, <4>1, <4>2, TakeKeeps
    <3>2. CASE ~Usable(r, usage[e])
      <4>1. candidates' = [candidates EXCEPT ![e] = @ \ {r}]
        BY <2>2, <3>2 DEF Deduct, PassOver
      <4>2. UNCHANGED <<rows, recorded, lost, stage, usage, charged>>
        BY <2>2, <3>2 DEF Deduct, PassOver, rows
      <4> QED
        BY <4>1, <4>2 DEF rows
    <3> QED
      BY <3>1, <3>2
  <2>3. CASE FallBack(e)
    BY <2>3 DEF FallBack, rows
  <2>4. CASE Persist(e)
    <3>1. recorded' \in [Rows -> [Types -> Int]]
      BY <2>4, BookedInt DEF Persist
    <3> QED
      BY <2>4, <3>1 DEF Persist, Finish, rows
  <2>5. CASE GiveUp(e)
    <3>1. lost' \in [Rows -> [Types -> Int]]
      BY <2>5, BookedInt DEF GiveUp
    <3> QED
      BY <2>5, <3>1 DEF GiveUp, Finish, rows
  <2> QED
    BY <1>4, <2>1, <2>2, <2>3, <2>4, <2>5 DEF Process
<1>5. CASE UNCHANGED chargingVars
  BY <1>5 DEF chargingVars, rows, inProgress
<1> QED
  BY <1>1, <1>2, <1>3, <1>4, <1>5 DEF ChargingNext

(* However many events deduct at once, of whatever u64 volumes and from      *)
(* whatever u64 allowances, none that was used is overdrawn, and the status  *)
(* computed from one column agrees with all that were used.                  *)
THEOREM StatusAgrees == ChargingSpec => [](ChargingTypeOK /\ StatusTells)
<1>1. BundleInv => ChargingTypeOK /\ StatusTells
  BY DEF BundleInv
<1> QED
  BY <1>1, BundleInit, BundleStep, PTL DEF ChargingSpec

-----------------------------------------------------------------------------
ClosedRowsKeptStep ==
  \A r \in Rows :
    due[r] \/ status[r] \in {"exhausted", "expired"} => left'[r] = left[r]

LEMMA ClosedRowsStep == BundleInv /\ [ChargingNext]_chargingVars => ClosedRowsKeptStep
<1> SUFFICES ASSUME BundleInv, [ChargingNext]_chargingVars, NEW q \in Rows,
                    due[q] \/ status[q] \in {"exhausted", "expired"}
             PROVE  left'[q] = left[q]
  BY DEF ClosedRowsKeptStep
<1>1. ASSUME NEW e \in Events, NEW r \in Rows, Deduct(e, r)
      PROVE  left'[q] = left[q]
  <2>1. CASE r = q
    BY <1>1, <2>1 DEF Deduct, PassOver, Usable, Open
  <2>2. CASE r # q
    BY <1>1, <2>2 DEF Deduct, PassOver, Take, BundleInv, ChargingTypeOK
  <2> QED
    BY <2>1, <2>2
<1>2. ASSUME NEW r \in Rows, NEW o \in Offers, Activate(r, o)
      PROVE  left'[q] = left[q]
  BY <1>2 DEF Activate, BundleInv, ChargingTypeOK, NotYetDue
<1>3. ASSUME NEW e \in Events, Process(e), \A r \in Rows : ~Deduct(e, r)
      PROVE  left'[q] = left[q]
  BY <1>3 DEF Process, Select, FallBack, Persist, GiveUp, rows
<1>4. CASE ExpireStale \/ \E r \in Rows : FallsDue(r)
  BY <1>4 DEF ExpireStale, FallsDue
<1>5. CASE UNCHANGED chargingVars
  BY <1>5 DEF chargingVars, rows
<1> QED
  BY <1>1, <1>2, <1>3, <1>4, <1>5 DEF ChargingNext

(* No event deducts from a row that has expired or been closed since the     *)
(* event selected it.                                                        *)
THEOREM ClosedStayClosed == ChargingSpec => ClosedRowsKept
<1>1. BundleInv /\ [ChargingNext]_chargingVars => [ClosedRowsKeptStep]_chargingVars
  BY ClosedRowsStep
<1> QED
  BY <1>1, BundleInit, BundleStep, PTL DEF ChargingSpec, ClosedRowsKept, ClosedRowsKeptStep

-----------------------------------------------------------------------------
(* What an event has deducted of an allowance and is about to record.  The   *)
(* pending usage is what all events have.                                    *)
Owes(e, r, t) == IF charged[e] = r /\ usage[e].type = t THEN Amount(usage[e]) ELSE 0

(* Only an event about to be recorded has deducted, and only from a row that *)
(* was inserted; nothing is booked to a row before that.                     *)
ChargesInserted ==
  \A e \in Events : charged[e] # 0 => stage[e] = "persist" /\ status[charged[e]] # "none"
NotYetBooked ==
  \A r \in Rows, t \in Types : status[r] = "none" => recorded[r][t] = 0 /\ lost[r][t] = 0

ReconcileInv == ChargingTypeOK /\ ChargesInserted /\ NotYetBooked /\ Reconciles

PendingAdds ==
  \A r \in Rows, t \in Types :
    /\ Pending(r, t) = SumFunctionOnSet([e \in Events |-> Owes(e, r, t)], Events)
    /\ Pending(r, t) \in Int

LEMMA PendingSum == AmountsTyped => PendingAdds
<1> SUFFICES ASSUME AmountsTyped, NEW r \in Rows, NEW t \in Types
             PROVE  /\ Pending(r, t) = SumFunctionOnSet([e \in Events |-> Owes(e, r, t)], Events)
                    /\ Pending(r, t) \in Int
  BY DEF PendingAdds
<1> DEFINE v == [e \in Events |-> Amount(usage[e])]
           P == {e \in Events : charged[e] = r /\ usage[e].type = t}
           owes == [e \in Events |-> Owes(e, r, t)]
<1>1. /\ \A e \in Events : v[e] \in Int
      /\ P \in SUBSET Events
      /\ owes = [e \in Events |-> IF e \in P THEN v[e] ELSE 0]
      /\ \A e \in Events : owes[e] \in Int
  BY DEF AmountsTyped, Owes
<1>2. Pending(r, t) = SumFunctionOnSet(v, P)
  BY DEF Pending
<1> HIDE DEF v, P, owes
<1>3. SumFunctionOnSet(v, P) = SumFunctionOnSet(owes, Events)
  BY <1>1, EventsFinite, SumOfPart
<1>4. SumFunctionOnSet(owes, Events) \in Int
  BY <1>1, EventsFinite, SumInt
<1> QED BY <1>2, <1>3, <1>4 DEF owes

(* One event moves the pending usage by what it owes more or less. *)
LEMMA PendingMoves ==
  ASSUME ChargingTypeOK, ChargingTypeOK', NEW e \in Events, NEW r \in Rows, NEW t \in Types,
         \A q \in Events : q # e => charged'[q] = charged[q] /\ usage'[q] = usage[q]
  PROVE  Pending(r, t)' = Pending(r, t) + Owes(e, r, t)' - Owes(e, r, t)
<1> DEFINE now  == [q \in Events |-> Owes(q, r, t)]
           then == [q \in Events |-> Owes(q, r, t)']
<1>1. AmountsTyped /\ AmountsTyped'
  BY UsageHasAmount, PTL
<1>2. /\ \A q \in Events : now[q] \in Int /\ then[q] \in Int
      /\ \A q \in Events : q # e => then[q] = now[q]
      /\ now[e] = Owes(e, r, t) /\ then[e] = Owes(e, r, t)'
  BY <1>1 DEF AmountsTyped, Owes
<1>3. PendingAdds /\ PendingAdds'
  BY <1>1, PendingSum, PTL
<1>4. Pending(r, t) = SumFunctionOnSet(now, Events)
  BY <1>3 DEF PendingAdds
<1>5. Pending(r, t)' = SumFunctionOnSet(then, Events)
  BY <1>3 DEF PendingAdds
<1> HIDE DEF now, then
<1>6. SumFunctionOnSet(then, Events) = SumFunctionOnSet(now, Events) + then[e] - now[e]
  BY <1>2, EventsFinite, SumChanges
<1> QED BY <1>2, <1>4, <1>5, <1>6

LEMMA PendingKept ==
  ASSUME charged' = charged, usage' = usage, NEW r, NEW t
  PROVE  Pending(r, t)' = Pending(r, t)
BY DEF Pending

(* The numbers of an allowance *)
AllowancesTyped ==
  \A r \in Rows, t \in Types :
    /\ granted[r][t] \in Int /\ left[r][t] \in Int
    /\ recorded[r][t] \in Int /\ lost[r][t] \in Int

LEMMA AllowanceTyped == ChargingTypeOK => AllowancesTyped
<1> SUFFICES ASSUME ChargingTypeOK, NEW r \in Rows, NEW t \in Types
             PROVE  /\ granted[r][t] \in Int /\ left[r][t] \in Int
                    /\ recorded[r][t] \in Int /\ lost[r][t] \in Int
  BY DEF AllowancesTyped
<1>1. granted[r] \in [Types -> {Null} \cup Bigints]
  BY StoredTyped DEF ChargingTypeOK, NoAllowances
<1> QED
  BY <1>1, MaxBigintNat DEF ChargingTypeOK, Bigints, Null

(* An event that moves units of a row between what is left of it, what it    *)
(* owes, and what is booked, loses none.                                     *)
LEMMA ReconcilesOfEvent ==
  ASSUME ReconcileInv, ChargingTypeOK', NEW e \in Events, granted' = granted,
         \A q \in Events : q # e => charged'[q] = charged[q] /\ usage'[q] = usage[q],
         \A r \in Rows, t \in Types :
           left[r][t] - left'[r][t] =
             recorded'[r][t] - recorded[r][t] + lost'[r][t] - lost[r][t]
               + Owes(e, r, t)' - Owes(e, r, t)
  PROVE  Reconciles'
<1> SUFFICES ASSUME NEW r \in Rows, NEW t \in Types, granted[r][t] # Null
             PROVE  granted[r][t] - left'[r][t] =
                      recorded'[r][t] + Pending(r, t)' + lost'[r][t]
  BY DEF Reconciles
<1>1. granted[r][t] - left[r][t] = recorded[r][t] + Pending(r, t) + lost[r][t]
  BY DEF ReconcileInv, Reconciles
<1>2. Pending(r, t)' = Pending(r, t) + Owes(e, r, t)' - Owes(e, r, t)
  BY PendingMoves DEF ReconcileInv
<1>3. /\ granted[r][t] \in Int /\ left[r][t] \in Int
      /\ recorded[r][t] \in Int /\ lost[r][t] \in Int
      /\ left'[r][t] \in Int /\ recorded'[r][t] \in Int /\ lost'[r][t] \in Int
  <2>1. AllowancesTyped /\ AllowancesTyped'
    BY AllowanceTyped, PTL DEF ReconcileInv
  <2> QED BY <2>1 DEF AllowancesTyped
<1>4. AmountsTyped /\ AmountsTyped' /\ PendingAdds
  BY UsageHasAmount, PendingSum, PTL DEF ReconcileInv
<1>5. Pending(r, t) \in Int
  BY <1>4, Zenon DEF PendingAdds
<1>6. Owes(e, r, t) \in Int /\ Owes(e, r, t)' \in Int
  BY <1>4 DEF AmountsTyped, Owes
<1>7. left[r][t] - left'[r][t] =
        recorded'[r][t] - recorded[r][t] + lost'[r][t] - lost[r][t]
          + Owes(e, r, t)' - Owes(e, r, t)
  OBVIOUS
<1>8. PICK p \in Int : p = Pending(r, t)
  BY <1>5
<1>9. PICK owed, owes \in Int : owed = Owes(e, r, t) /\ owes = Owes(e, r, t)'
  BY <1>6
<1>10. Pending(r, t)' = p + owes - owed
  BY <1>2, <1>8, <1>9
<1>11. /\ granted[r][t] - left[r][t] = recorded[r][t] + p + lost[r][t]
       /\ left[r][t] - left'[r][t] =
            recorded'[r][t] - recorded[r][t] + lost'[r][t] - lost[r][t] + owes - owed
  BY <1>1, <1>7, <1>8, <1>9
<1>12. granted[r][t] - left'[r][t] = recorded'[r][t] + (p + owes - owed) + lost'[r][t]
  BY <1>3, <1>11
<1> QED BY <1>10, <1>12

LEMMA ReconcilesOfTake ==
  ASSUME ReconcileInv, ChargingTypeOK', NEW e \in Events, NEW r \in Rows,
         stage[e] = "trying", Usable(r, usage[e]), Take(e, r),
         UNCHANGED <<due, granted, recorded, lost, usage>>
  PROVE  ReconcileInv'
<1>1. charged[e] = 0 /\ charged \in [Events -> {0} \cup Rows] /\ stage \in [Events -> {"idle", "trying", "persist"}]
  BY DEF ReconcileInv, ChargesInserted, ChargingTypeOK
<1>2. charged' = [charged EXCEPT ![e] = r] /\ stage' = [stage EXCEPT ![e] = "persist"]
  BY DEF Take
<1>3. usage[e].type \in Types /\ Amount(usage[e]) \in Int
  BY UsageHasAmount DEF ReconcileInv, ChargingTypeOK, Usages, AmountsTyped
<1>4. /\ left \in [Rows -> [Types -> {Null} \cup Bigints]]
      /\ left' = [left EXCEPT ![r][usage[e].type] = left[r][usage[e].type] - Amount(usage[e])]
  BY DEF Take, ReconcileInv, ChargingTypeOK
<1>5. ASSUME NEW p \in Rows, NEW t \in Types
      PROVE  left[p][t] - left'[p][t] =
               recorded'[p][t] - recorded[p][t] + lost'[p][t] - lost[p][t]
                 + Owes(e, p, t)' - Owes(e, p, t)
  <2>1. left[p][t] \in Int /\ recorded[p][t] \in Int /\ lost[p][t] \in Int
    BY AllowanceTyped DEF ReconcileInv, AllowancesTyped
  <2>2. recorded'[p][t] = recorded[p][t] /\ lost'[p][t] = lost[p][t]
    OBVIOUS
  <2>3. Owes(e, p, t) = 0
    BY <1>1 DEF Owes, Rows
  <2>4. charged'[e] = r /\ usage'[e] = usage[e]
    BY <1>1, <1>2
  <2>5. CASE p = r /\ t = usage[e].type
    <3>1. left'[p][t] = left[p][t] - Amount(usage[e])
      BY <1>4, <2>5
    <3>2. Owes(e, p, t)' = Amount(usage[e])
      BY <2>4, <2>5 DEF Owes
    <3> QED BY <1>3, <2>1, <2>2, <2>3, <3>1, <3>2
  <2>6. CASE ~(p = r /\ t = usage[e].type)
    <3>1. left'[p][t] = left[p][t]
      BY <1>3, <1>4, <2>6
    <3>2. Owes(e, p, t)' = 0
      BY <2>4, <2>6 DEF Owes
    <3> QED BY <2>1, <2>2, <2>3, <3>1, <3>2
  <2> QED BY <2>5, <2>6
<1>6. Reconciles'
  <2>1. \A q \in Events : q # e => charged'[q] = charged[q] /\ usage'[q] = usage[q]
    BY <1>1, <1>2
  <2> QED BY <1>5, <2>1, ReconcilesOfEvent
<1>7. \A p \in Rows : status'[p] = "none" <=> status[p] = "none"
  BY DEF Take, Usable, Open, ReconcileInv, ChargingTypeOK
<1>8. ChargesInserted'
  <2>1. status[r] # "none"
    BY DEF Usable, Open
  <2>2. \A q \in Events : charged[q] # 0 => charged[q] \in Rows
    BY <1>1
  <2> QED BY <1>1, <1>2, <1>7, <2>1, <2>2 DEF ReconcileInv, ChargesInserted
<1>9. NotYetBooked'
  BY <1>7 DEF ReconcileInv, NotYetBooked
<1> QED BY <1>6, <1>8, <1>9 DEF ReconcileInv

(* Recording a finished event, or losing it, books what it owed. *)
LEMMA ReconcilesOfFinish ==
  ASSUME ReconcileInv, ChargingTypeOK', NEW e \in Events, Persist(e) \/ GiveUp(e)
  PROVE  ReconcileInv'
<1>1. /\ charged' = [charged EXCEPT ![e] = 0] /\ stage' = [stage EXCEPT ![e] = "idle"]
      /\ usage' = [usage EXCEPT ![e] = NoUsage]
      /\ UNCHANGED <<status, granted, left>>
  BY DEF Persist, GiveUp, Finish, rows
<1>2. /\ charged \in [Events -> {0} \cup Rows] /\ usage \in [Events -> Usages \cup {NoUsage}]
      /\ stage \in [Events -> {"idle", "trying", "persist"}]
  BY DEF ReconcileInv, ChargingTypeOK
<1>3. AmountsTyped /\ AllowancesTyped
  BY UsageHasAmount, AllowanceTyped DEF ReconcileInv
<1>4. ASSUME NEW r \in Rows, NEW t \in Types
      PROVE  /\ recorded'[r][t] - recorded[r][t] + lost'[r][t] - lost[r][t] = Owes(e, r, t)
             /\ Owes(e, r, t) \in Int
  <2>1. Owes(e, r, t) \in Int
    BY <1>3 DEF AmountsTyped, Owes
  <2>2. recorded[r][t] \in Int /\ lost[r][t] \in Int
    BY <1>3 DEF AllowancesTyped
  <2>3. /\ Booked(recorded, e)[r][t] = recorded[r][t] + Owes(e, r, t)
        /\ Booked(lost, e)[r][t] = lost[r][t] + Owes(e, r, t)
    BY DEF Booked, Owes
  <2>4. CASE Persist(e)
    <3>1. recorded'[r][t] = recorded[r][t] + Owes(e, r, t) /\ lost'[r][t] = lost[r][t]
      BY <2>3, <2>4 DEF Persist
    <3> QED BY <2>1, <2>2, <3>1
  <2>5. CASE GiveUp(e)
    <3>1. lost'[r][t] = lost[r][t] + Owes(e, r, t) /\ recorded'[r][t] = recorded[r][t]
      BY <2>3, <2>5 DEF GiveUp
    <3> QED BY <2>1, <2>2, <3>1
  <2> QED BY <2>4, <2>5
<1>5. Reconciles'
  <2>1. ASSUME NEW r \in Rows, NEW t \in Types
        PROVE  left[r][t] - left'[r][t] =
                 recorded'[r][t] - recorded[r][t] + lost'[r][t] - lost[r][t]
                   + Owes(e, r, t)' - Owes(e, r, t)
    <3>1. left'[r][t] = left[r][t] /\ left[r][t] \in Int
      BY <1>1, <1>3 DEF AllowancesTyped
    <3>2. charged'[e] = 0
      BY <1>1, <1>2
    <3>3. Owes(e, r, t)' = 0
      BY <3>2 DEF Owes, Rows
    <3> QED BY <1>4, <3>1, <3>3
  <2>2. \A q \in Events : q # e => charged'[q] = charged[q] /\ usage'[q] = usage[q]
    BY <1>1, <1>2
  <2> QED BY <1>1, <2>1, <2>2, ReconcilesOfEvent
<1>6. ChargesInserted'
  BY <1>1, <1>2 DEF ReconcileInv, ChargesInserted
<1>7. NotYetBooked'
  <2> SUFFICES ASSUME NEW r \in Rows, NEW t \in Types, status[r] = "none"
               PROVE  recorded'[r][t] = 0 /\ lost'[r][t] = 0
    BY <1>1 DEF NotYetBooked
  <2>1. charged[e] # r /\ recorded[r][t] = 0 /\ lost[r][t] = 0
    BY DEF ReconcileInv, ChargesInserted, NotYetBooked, Rows
  <2>2. Booked(recorded, e)[r][t] = 0 /\ Booked(lost, e)[r][t] = 0
    BY <2>1 DEF Booked
  <2> QED BY <2>1, <2>2 DEF Persist, GiveUp
<1> QED BY <1>5, <1>6, <1>7 DEF ReconcileInv

(* A row is inserted with nothing gone from it, and nobody owes it anything. *)
LEMMA ReconcilesOfActivate ==
  ASSUME ReconcileInv, ChargingTypeOK', NEW r \in Rows, NEW o \in Offers, Activate(r, o)
  PROVE  ReconcileInv'
<1>1. /\ status[r] = "none" /\ status' = [status EXCEPT ![r] = "active"]
      /\ granted' = [granted EXCEPT ![r] = Stored(o)] /\ left' = [left EXCEPT ![r] = Stored(o)]
      /\ UNCHANGED <<recorded, lost, stage, usage, charged>>
  BY DEF Activate, inProgress
<1>2. /\ status \in [Rows -> Statuses] /\ DOMAIN granted = Rows /\ DOMAIN left = Rows
      /\ charged \in [Events -> {0} \cup Rows]
  BY DEF ReconcileInv, ChargingTypeOK
<1>3. Reconciles'
  <2> SUFFICES ASSUME NEW q \in Rows, NEW t \in Types, granted'[q][t] # Null
               PROVE  granted'[q][t] - left'[q][t] =
                        recorded[q][t] + Pending(q, t)' + lost[q][t]
    BY <1>1 DEF Reconciles
  <2>1. Pending(q, t)' = Pending(q, t)
    BY <1>1, PendingKept
  <2>2. CASE q = r
    <3>1. granted'[q][t] = Stored(o)[t] /\ left'[q][t] = Stored(o)[t]
      BY <1>1, <1>2, <2>2
    <3>6. Stored(o)[t] \in Int
      BY StoredTyped, MaxBigintNat DEF Bigints, Null
    <3>2. recorded[q][t] = 0 /\ lost[q][t] = 0
      BY <1>1, <2>2 DEF ReconcileInv, NotYetBooked
    <3>3. \A e \in Events : charged[e] # q
      BY <1>1, <2>2 DEF ReconcileInv, ChargesInserted, Rows
    <3>4. {e \in Events : charged[e] = q /\ usage[e].type = t} = {}
      BY <3>3
    <3>5. Pending(q, t) = 0
      BY <3>4, SumEmpty DEF Pending
    <3> QED BY <2>1, <3>1, <3>2, <3>5, <3>6
  <2>3. CASE q # r
    <3>1. granted'[q] = granted[q] /\ left'[q] = left[q]
      BY <1>1, <1>2, <2>3
    <3> QED BY <2>1, <3>1 DEF ReconcileInv, Reconciles
  <2> QED BY <2>2, <2>3
<1>4. ChargesInserted'
  <2>1. \A q \in Rows : status[q] # "none" => status'[q] # "none"
    BY <1>1, <1>2
  <2> QED BY <1>1, <1>2, <2>1 DEF ReconcileInv, ChargesInserted
<1>5. NotYetBooked'
  BY <1>1, <1>2 DEF ReconcileInv, NotYetBooked
<1> QED BY <1>3, <1>4, <1>5 DEF ReconcileInv

LEMMA ReconcileInit == ChargingInit => ReconcileInv
<1> SUFFICES ASSUME ChargingInit PROVE ReconcileInv
  OBVIOUS
<1>1. ChargingTypeOK
  BY BundleInit DEF BundleInv
<1>2. ChargesInserted /\ NotYetBooked
  BY DEF ChargingInit, ChargesInserted, NotYetBooked
<1>3. Reconciles
  BY DEF ChargingInit, Reconciles, NoAllowances
<1> QED BY <1>1, <1>2, <1>3 DEF ReconcileInv

LEMMA ReconcileStep ==
  ReconcileInv /\ ChargingTypeOK' /\ [ChargingNext]_chargingVars => ReconcileInv'
<1> SUFFICES ASSUME ReconcileInv, ChargingTypeOK', [ChargingNext]_chargingVars
             PROVE  ReconcileInv'
  OBVIOUS
<1>1. ASSUME UNCHANGED <<granted, left, recorded, lost, charged, usage>>,
             \A r \in Rows : status[r] = "none" <=> status'[r] = "none",
             \A e \in Events : charged[e] # 0 => stage'[e] = stage[e]
      PROVE  ReconcileInv'
  <2>1. Reconciles'
    BY <1>1, PendingKept DEF ReconcileInv, Reconciles
  <2>2. \A e \in Events : charged[e] # 0 => charged[e] \in Rows
    BY DEF ReconcileInv, ChargingTypeOK
  <2>3. ChargesInserted'
    BY <1>1, <2>2 DEF ReconcileInv, ChargesInserted
  <2>4. NotYetBooked'
    BY <1>1 DEF ReconcileInv, NotYetBooked
  <2> QED BY <2>1, <2>3, <2>4 DEF ReconcileInv
<1>2. ASSUME NEW r \in Rows, FallsDue(r) PROVE ReconcileInv'
  BY <1>1, <1>2 DEF FallsDue, inProgress
<1>3. CASE ExpireStale
  <2>1. \A r \in Rows : status[r] = "none" <=> status'[r] = "none"
    BY <1>3 DEF ExpireStale
  <2> QED BY <1>1, <1>3, <2>1 DEF ExpireStale, inProgress
<1>4. ASSUME NEW e \in Events, Process(e) PROVE ReconcileInv'
  <2>0. /\ charged \in [Events -> {0} \cup Rows] /\ usage \in [Events -> Usages \cup {NoUsage}]
        /\ stage \in [Events -> {"idle", "trying", "persist"}]
        /\ stage[e] # "persist" => charged[e] = 0
    BY DEF ReconcileInv, ChargingTypeOK, ChargesInserted
  <2>1. ASSUME NEW u \in Usages, Select(e, u) PROVE ReconcileInv'
    <3>1. /\ stage[e] = "idle" /\ stage' = [stage EXCEPT ![e] = "trying"]
          /\ usage' = [usage EXCEPT ![e] = u]
          /\ UNCHANGED <<status, granted, left, recorded, lost, charged>>
      BY <2>1 DEF Select, rows
    <3>2. ASSUME NEW r \in Rows, NEW t \in Types
          PROVE  left[r][t] - left'[r][t] =
                   recorded'[r][t] - recorded[r][t] + lost'[r][t] - lost[r][t]
                     + Owes(e, r, t)' - Owes(e, r, t)
      <4>1. AllowancesTyped
        BY AllowanceTyped DEF ReconcileInv
      <4>2. left[r][t] \in Int /\ recorded[r][t] \in Int /\ lost[r][t] \in Int
        BY <4>1 DEF AllowancesTyped
      <4>3. charged[e] = 0 /\ charged'[e] = 0
        BY <2>0, <3>1
      <4>4. Owes(e, r, t) = 0 /\ Owes(e, r, t)' = 0
        BY <4>3 DEF Owes, Rows
      <4> QED BY <3>1, <4>2, <4>4
    <3>3. \A q \in Events : q # e => charged'[q] = charged[q] /\ usage'[q] = usage[q]
      BY <2>0, <3>1
    <3>4. Reconciles'
      BY <3>1, <3>2, <3>3, ReconcilesOfEvent
    <3>5. ChargesInserted' /\ NotYetBooked'
      BY <2>0, <3>1 DEF ReconcileInv, ChargesInserted, NotYetBooked
    <3> QED BY <3>4, <3>5 DEF ReconcileInv
  <2>2. ASSUME NEW r \in Rows, Deduct(e, r) PROVE ReconcileInv'
    <3>1. CASE Usable(r, usage[e])
      BY <2>2, <3>1, ReconcilesOfTake DEF Deduct
    <3>2. CASE ~Usable(r, usage[e])
      BY <1>1, <2>2, <3>2 DEF Deduct, PassOver
    <3> QED BY <3>1, <3>2
  <2>3. CASE FallBack(e)
    <3>1. charged' = charged
      BY <2>0, <2>3 DEF FallBack
    <3>2. \A q \in Events : charged[q] # 0 => stage'[q] = stage[q]
      BY <2>0, <2>3 DEF FallBack
    <3> QED BY <1>1, <2>3, <3>1, <3>2 DEF FallBack, rows
  <2>4. CASE Persist(e) \/ GiveUp(e)
    BY <2>4, ReconcilesOfFinish
  <2> QED BY <1>4, <2>1, <2>2, <2>3, <2>4 DEF Process
<1>5. CASE UNCHANGED chargingVars
  BY <1>1, <1>5 DEF chargingVars, rows, inProgress
<1>6. ASSUME NEW r \in Rows, NEW o \in Offers, Activate(r, o) PROVE ReconcileInv'
  BY <1>6, ReconcilesOfActivate
<1> QED BY <1>2, <1>3, <1>4, <1>5, <1>6 DEF ChargingNext

(* Every unit gone from a bundle is recorded, about to be, or was taken by   *)
(* an event that failed, to the unit, whatever number of events interleave   *)
(* their selection, deduction and record.                                    *)
THEOREM UsageReconciles == ChargingSpec => []Reconciles
<1>1. ReconcileInv => Reconciles
  BY DEF ReconcileInv
<1>2. ChargingSpec => []ChargingTypeOK
  BY StatusAgrees, PTL
<1> QED
  BY <1>1, <1>2, ReconcileInit, ReconcileStep, PTL DEF ChargingSpec

-----------------------------------------------------------------------------
(* Byte credit *)

USE DEF Amounts, Keys, Steps, Replies, Written

(* The balance never passes what Redis can hold, an absent key holds       *)
(* nothing, and every handler stands at one of its commands: the writes of *)
(* add_credit and deduct_credit keep Redis's state well formed.            *)
THEOREM CreditTypeCorrect == CreditSpec => []CreditTypeOK
<1>1. CreditInit => CreditTypeOK
  BY MaxInt64Positive, MaxBytesPositive DEF CreditInit, CreditTypeOK
<1>2. CreditTypeOK /\ [CreditNext]_creditVars => CreditTypeOK'
  <2> SUFFICES ASSUME CreditTypeOK, [CreditNext]_creditVars PROVE CreditTypeOK'
    OBVIOUS
  <2> USE MaxInt64Positive, MaxBytesPositive
  <2>1. CASE KeyExpires
    BY <2>1 DEF KeyExpires, CreditTypeOK
  <2>2. ASSUME NEW w \in Workers, Worker(w) PROVE CreditTypeOK'
    <3>1. ASSUME NEW a \in Amounts, DeductRead(w, a) PROVE CreditTypeOK'
      BY <3>1 DEF DeductRead, ReadsAsU64, StartWith, Answer, Proceed, CreditTypeOK
    <3>2. ASSUME NEW a \in Amounts, AddRead(w, a) PROVE CreditTypeOK'
      BY <3>2 DEF AddRead, ReadsAsOptionU64, StartWith, Answer, Proceed, CreditTypeOK
    <3>3. ASSUME NEW a \in Amounts, CheckCredit(w, a) PROVE CreditTypeOK'
      BY <3>3 DEF CheckCredit, ReadsAsU64, Answer, Proceed, CreditTypeOK
    <3>4. CASE DeductDecr(w)
      BY <3>4 DEF DeductDecr, Answer, Proceed, CreditTypeOK
    <3>5. CASE AddIncr(w)
      BY <3>5 DEF AddIncr, Answer, Proceed, CreditTypeOK
    <3>6. CASE AddExpire(w)
      BY <3>6 DEF AddExpire, Answer, Proceed, CreditTypeOK
    <3>7. CASE Abandon(w)
      BY <3>7 DEF Abandon, Answer, Proceed, CreditTypeOK
    <3> QED
      BY <2>2, <3>1, <3>2, <3>3, <3>4, <3>5, <3>6, <3>7 DEF Worker
  <2>3. CASE UNCHANGED creditVars
    BY <2>3 DEF creditVars, CreditTypeOK
  <2> QED
    BY <2>1, <2>2, <2>3 DEF CreditNext
<1> QED
  BY <1>1, <1>2, PTL DEF CreditSpec

-----------------------------------------------------------------------------
(* The approved handlers are some of the finitely many handlers. *)
LEMMA ApprovedCount ==
  /\ IsFiniteSet(Approved)
  /\ Cardinality(Approved) \in Nat
  /\ Cardinality(Workers) \in Nat
  /\ Cardinality(Approved) <= Cardinality(Workers)
BY WorkersFinite, FS_Subset, FS_CardinalityType DEF Approved

(* One handler passing the balance check adds one to the approved. *)
LEMMA ApproveAddsOne ==
  ASSUME NEW w \in Workers, w \notin Approved, Approved' = Approved \cup {w}
  PROVE  Cardinality(Approved') = Cardinality(Approved) + 1
BY ApprovedCount, FS_AddElement

(* One handler leaving the DECRBY step takes one from the approved. *)
LEMMA LeaveTakesOne ==
  ASSUME NEW w \in Approved, Approved' = Approved \ {w}
  PROVE  Cardinality(Approved') = Cardinality(Approved) - 1
BY ApprovedCount, FS_RemoveElement

(* The bound of a smaller share is a smaller number. *)
LEMMA ShareStep ==
  ASSUME NEW n \in Nat, NEW k \in Nat, NEW a \in Amounts, NEW c \in Int,
         c >= -((n - k) * MaxBytes)
  PROVE  c - a >= -((n - (k - 1)) * MaxBytes)
<1>1. (n - (k - 1)) * MaxBytes = (n - k) * MaxBytes + MaxBytes
  BY MaxBytesPositive
<1>2. (n - k) * MaxBytes \in Int
  BY MaxBytesPositive
<1> QED
  BY <1>1, <1>2, MaxBytesPositive

(* A share is never negative. *)
LEMMA ShareIsNat ==
  ASSUME NEW n \in Nat, NEW k \in Nat, k <= n
  PROVE  (n - k) * MaxBytes \in Nat
<1>1. n - k \in Nat
  OBVIOUS
<1> QED
  BY <1>1, MaxBytesPositive

(* A handler about to deduct was given a real amount. *)
AmountsRead == \A w \in Workers : pc[w] \in {"incr", "decr"} => amt[w] \in Amounts

OverdraftInv == CreditTypeOK /\ AmountsRead /\ OverdraftShare

(* A step that leaves the balance alone and approves nobody, or that raises *)
(* it, keeps every share.                                                   *)
LEMMA ShareKept ==
  ASSUME OverdraftInv, CreditTypeOK', credit' >= credit, Approved' \subseteq Approved
  PROVE  OverdraftShare'
<1> DEFINE N == Cardinality(Workers)
           K == Cardinality(Approved)
           L == Cardinality(Approved')
<1>1. K \in Nat /\ N \in Nat /\ K <= N
  BY ApprovedCount
<1>2. L \in Nat /\ L <= K
  BY ApprovedCount, FS_Subset, FS_CardinalityType
<1>3. (N - L) * MaxBytes >= (N - K) * MaxBytes
  <2>1. (N - L) * MaxBytes = (N - K) * MaxBytes + (K - L) * MaxBytes
    BY <1>1, <1>2, MaxBytesPositive
  <2>2. (K - L) * MaxBytes \in Nat /\ (N - K) * MaxBytes \in Nat
    BY <1>1, <1>2, ShareIsNat
  <2> QED
    BY <2>1, <2>2
<1>4. (N - L) * MaxBytes \in Int /\ (N - K) * MaxBytes \in Int
  BY <1>1, <1>2, MaxBytesPositive
<1>5. credit \in Int /\ credit' \in Int /\ credit >= -((N - K) * MaxBytes)
  BY DEF OverdraftInv, OverdraftShare, CreditTypeOK
<1>6. credit' >= -((N - L) * MaxBytes)
  BY <1>3, <1>4, <1>5
<1> QED
  BY <1>6 DEF OverdraftShare

(* A balance that is not negative keeps every share. *)
LEMMA ShareOfCredit ==
  ASSUME CreditTypeOK', credit' >= 0
  PROVE  OverdraftShare'
<1> DEFINE N == Cardinality(Workers)
           L == Cardinality(Approved')
<1>1. /\ IsFiniteSet(Approved')
      /\ Approved' \subseteq Workers
  BY WorkersFinite, FS_Subset DEF Approved
<1>2. L \in Nat /\ N \in Nat /\ L <= N
  BY <1>1, WorkersFinite, FS_Subset, FS_CardinalityType
<1>3. (N - L) * MaxBytes \in Nat
  BY <1>2, ShareIsNat
<1>4. credit' \in Int
  BY DEF CreditTypeOK
<1> QED
  BY <1>3, <1>4 DEF OverdraftShare

LEMMA OverdraftInit == CreditInit => OverdraftInv
<1> SUFFICES ASSUME CreditInit PROVE OverdraftInv
  OBVIOUS
<1>1. CreditTypeOK
  BY MaxInt64Positive, MaxBytesPositive DEF CreditInit, CreditTypeOK
<1>2. AmountsRead
  BY DEF CreditInit, AmountsRead
<1>3. (Cardinality(Workers) - Cardinality(Approved)) * MaxBytes \in Nat
  BY ApprovedCount, ShareIsNat
<1>4. OverdraftShare
  BY <1>3 DEF CreditInit, OverdraftShare
<1> QED
  BY <1>1, <1>2, <1>4 DEF OverdraftInv

LEMMA OverdraftStep == OverdraftInv /\ CreditTypeOK' /\ [CreditNext]_creditVars => OverdraftInv'
<1> SUFFICES ASSUME OverdraftInv, CreditTypeOK', [CreditNext]_creditVars PROVE OverdraftInv'
  OBVIOUS
<1> USE DEF OverdraftInv
<1>1. CASE KeyExpires
  <2>1. AmountsRead'
    BY <1>1 DEF KeyExpires, AmountsRead
  <2>2. OverdraftShare'
    BY <1>1, ShareOfCredit DEF KeyExpires
  <2> QED
    BY <2>1, <2>2
<1>2. ASSUME NEW w \in Workers, Worker(w) PROVE OverdraftInv'
  <2>1. ASSUME NEW a \in Amounts, DeductRead(w, a) PROVE OverdraftInv'
    <3>1. AmountsRead'
      BY <2>1 DEF DeductRead, StartWith, Answer, Proceed, AmountsRead, CreditTypeOK
    <3>2. CASE ReadsAsU64
      \* An approval is only given over a balance that is not negative.
      <4>1. credit' >= 0
        BY <2>1, <3>2 DEF DeductRead, ReadsAsU64
      <4> QED
        BY <3>1, <4>1, ShareOfCredit
    <3>3. CASE ~ReadsAsU64
      <4>1. Approved' \subseteq Approved /\ credit' >= credit
        BY <2>1, <3>3 DEF DeductRead, Answer, Proceed, Approved, CreditTypeOK
      <4> QED
        BY <3>1, <4>1, ShareKept
    <3> QED
      BY <3>1, <3>2, <3>3
  <2>2. ASSUME NEW a \in Amounts, AddRead(w, a) PROVE OverdraftInv'
    <3>1. AmountsRead'
      BY <2>2 DEF AddRead, StartWith, Answer, Proceed, AmountsRead, CreditTypeOK
    <3>2. Approved' \subseteq Approved /\ credit' >= credit
      BY <2>2 DEF AddRead, StartWith, Answer, Proceed, Approved, CreditTypeOK
    <3> QED
      BY <3>1, <3>2, ShareKept
  <2>3. ASSUME NEW a \in Amounts, CheckCredit(w, a) PROVE OverdraftInv'
    <3>1. AmountsRead'
      BY <2>3 DEF CheckCredit, Answer, Proceed, AmountsRead, CreditTypeOK
    <3>2. Approved' \subseteq Approved /\ credit' >= credit
      BY <2>3 DEF CheckCredit, Answer, Proceed, Approved, CreditTypeOK
    <3> QED
      BY <3>1, <3>2, ShareKept
  <2>4. CASE DeductDecr(w)
    <3>1. AmountsRead'
      BY <2>4 DEF DeductDecr, Answer, Proceed, AmountsRead, CreditTypeOK
    <3>2. w \in Approved /\ Approved' = Approved \ {w}
      BY <2>4 DEF DeductDecr, Answer, Proceed, Approved, CreditTypeOK
    <3>3. Cardinality(Approved') = Cardinality(Approved) - 1
      BY <3>2, LeaveTakesOne
    <3>4. amt[w] \in Amounts /\ credit' = credit - amt[w]
      BY <2>4 DEF DeductDecr, AmountsRead
    <3>5. credit >= -((Cardinality(Workers) - Cardinality(Approved)) * MaxBytes)
      BY DEF OverdraftShare
    <3>6. credit \in Int
      BY DEF CreditTypeOK
    <3>7. credit' >= -((Cardinality(Workers) - Cardinality(Approved')) * MaxBytes)
      BY <3>3, <3>4, <3>5, <3>6, ApprovedCount, ShareStep
    <3> QED
      BY <3>1, <3>7 DEF OverdraftShare
  <2>5. CASE AddIncr(w)
    <3>1. AmountsRead'
      BY <2>5 DEF AddIncr, Answer, Proceed, AmountsRead, CreditTypeOK
    <3>2. credit' >= credit
      BY <2>5 DEF AddIncr, AmountsRead, CreditTypeOK
    <3>3. Approved' \subseteq Approved
      BY <2>5 DEF AddIncr, Answer, Proceed, Approved, CreditTypeOK
    <3> QED
      BY <3>1, <3>2, <3>3, ShareKept
  <2>6. CASE AddExpire(w)
    <3>1. AmountsRead'
      BY <2>6 DEF AddExpire, Answer, Proceed, AmountsRead, CreditTypeOK
    <3>2. Approved' \subseteq Approved /\ credit' >= credit
      BY <2>6 DEF AddExpire, Answer, Proceed, Approved, CreditTypeOK
    <3> QED
      BY <3>1, <3>2, ShareKept
  <2>7. CASE Abandon(w)
    <3>1. AmountsRead'
      BY <2>7 DEF Abandon, Answer, Proceed, AmountsRead, CreditTypeOK
    <3>2. Approved' \subseteq Approved /\ credit' >= credit
      BY <2>7 DEF Abandon, Answer, Proceed, Approved, CreditTypeOK
    <3> QED
      BY <3>1, <3>2, ShareKept
  <2> QED
    BY <1>2, <2>1, <2>2, <2>3, <2>4, <2>5, <2>6, <2>7 DEF Worker
<1>3. CASE UNCHANGED creditVars
  BY <1>3 DEF creditVars, AmountsRead, OverdraftShare, Approved
<1> QED
  BY <1>1, <1>2, <1>3 DEF CreditNext

(* Check-then-decrement in deduct_credit overdraws the balance by at most   *)
(* one largest request for each handler, whatever the interleaving of the   *)
(* handlers, the expiry of the key, and requests given up half way.         *)
THEOREM OverdraftBounded == CreditSpec => []OverdraftBound
<1>1. OverdraftInv => OverdraftBound
  <2> SUFFICES ASSUME OverdraftInv PROVE OverdraftBound
    OBVIOUS
  <2> DEFINE N == Cardinality(Workers)
             K == Cardinality(Approved)
  <2>1. K \in Nat /\ N \in Nat /\ K <= N
    BY ApprovedCount
  <2>2. N * MaxBytes = (N - K) * MaxBytes + K * MaxBytes
    BY <2>1, MaxBytesPositive
  <2>3. K * MaxBytes \in Nat /\ (N - K) * MaxBytes \in Nat
    BY <2>1, MaxBytesPositive, ShareIsNat
  <2>4. credit \in Int /\ credit >= -((N - K) * MaxBytes)
    BY DEF OverdraftInv, OverdraftShare, CreditTypeOK
  <2>5. credit >= -(N * MaxBytes)
    BY <2>2, <2>3, <2>4
  <2> QED
    BY <2>5 DEF OverdraftBound, OverdraftInv, CreditTypeOK
<1> QED
  BY <1>1, OverdraftInit, OverdraftStep, CreditTypeCorrect, PTL DEF CreditSpec

-----------------------------------------------------------------------------
(* An overdrawn balance with no top-up in flight stays overdrawn until the  *)
(* key expires.                                                             *)
THEOREM DebtNotToppedUp == CreditSpec => DebtIsNotToppedUp
<1>1. OverdraftInv /\ [CreditNext]_creditVars => [Overdrawn => Overdrawn' \/ key' = "absent"]_creditVars
  <2> SUFFICES ASSUME OverdraftInv, CreditNext, Overdrawn
               PROVE  Overdrawn' \/ key' = "absent"
    OBVIOUS
  <2> USE DEF OverdraftInv
  <2>1. CASE KeyExpires
    BY <2>1 DEF KeyExpires
  <2>2. ASSUME NEW w \in Workers, Worker(w) PROVE Overdrawn'
    <3>1. pc[w] # "incr" /\ ~ReadsAsU64 /\ ~ReadsAsOptionU64
      BY DEF Overdrawn, Adding, ReadsAsU64, ReadsAsOptionU64, CreditTypeOK
    <3>2. Adding' = {}
      BY <2>2, <3>1
      DEF Worker, DeductRead, AddRead, CheckCredit, DeductDecr, AddIncr, AddExpire,
          Abandon, Answer, Proceed, Overdrawn, Adding, CreditTypeOK
    <3>3. credit' < 0
      <4>1. CASE DeductDecr(w)
        BY <4>1 DEF DeductDecr, Overdrawn, AmountsRead, CreditTypeOK
      <4>2. CASE UNCHANGED credit
        BY <4>2 DEF Overdrawn
      <4> QED
        BY <2>2, <3>1, <4>1, <4>2
        DEF Worker, DeductRead, AddRead, CheckCredit, AddIncr, AddExpire, Abandon
    <3> QED
      BY <3>2, <3>3 DEF Overdrawn
  <2> QED
    BY <2>1, <2>2 DEF CreditNext
<1> QED
  BY <1>1, OverdraftInit, OverdraftStep, CreditTypeCorrect, PTL DEF CreditSpec, DebtIsNotToppedUp

(* A negative balance in a key without an expiry stays for ever. *)
THEOREM StuckStays == CreditSpec => StuckForever
<1>1. OverdraftInv /\ [CreditNext]_creditVars => [Stuck => Stuck']_creditVars
  <2> SUFFICES ASSUME OverdraftInv, CreditNext, Stuck PROVE Stuck'
    OBVIOUS
  <2> USE DEF OverdraftInv
  <2>1. CASE KeyExpires
    BY <2>1 DEF KeyExpires, Stuck
  <2>2. ASSUME NEW w \in Workers, Worker(w) PROVE Stuck'
    <3>1. pc[w] \notin {"incr", "expire"} /\ ~ReadsAsU64 /\ ~ReadsAsOptionU64
      BY DEF Stuck, ReadsAsU64, ReadsAsOptionU64, CreditTypeOK
    <3>2. CASE DeductDecr(w)
      <4>1. key' = "persistent" /\ credit' < 0
        BY <3>2 DEF DeductDecr, Stuck, AmountsRead, CreditTypeOK
      <4>2. \A v \in Workers : pc'[v] \notin {"incr", "expire"}
        BY <3>2 DEF DeductDecr, Answer, Proceed, Stuck, CreditTypeOK
      <4> QED
        BY <4>1, <4>2 DEF Stuck
    <3>3. CASE Proceed(w, "idle") /\ UNCHANGED <<key, credit>>
      BY <3>3 DEF Proceed, Stuck, CreditTypeOK
    <3> QED
      BY <2>2, <3>1, <3>2, <3>3
      DEF Worker, DeductRead, AddRead, CheckCredit, AddIncr, AddExpire, Abandon, Answer
  <2> QED
    BY <2>1, <2>2 DEF CreditNext
<1> QED
  BY <1>1, OverdraftInit, OverdraftStep, CreditTypeCorrect, PTL DEF CreditSpec, StuckForever
=============================================================================
