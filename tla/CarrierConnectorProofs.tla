------------------------ MODULE CarrierConnectorProofs ------------------------
(* Theorems about the parts of the carrier connector: ProfileStore,          *)
(* RatePlans, Tenants, CarrierFailover and Snowflake, for any profiles,      *)
(* replicas, requests, plans, tenants, carriers, downloads and clocks.       *)
EXTENDS ProfileStore, RatePlans, Tenants, CarrierFailover, Snowflake, TLAPS

LEMMA HandlerReplica == \A h \in Handlers : h[1] \in Replicas
BY DEF Handlers

LEMMA EntryTypes ==
  /\ None \in Entries
  /\ \A s \in States : [state |-> s, age |-> "fresh"] \in Entries
  /\ \A e \in Entries : e.age = "fresh" => [e EXCEPT !.age = "old"] \in Entries
BY DEF Entries, None

LEMMA PutTypes ==
  ASSUME NEW i \in Iccids, NEW s \in {Absent} \cup States, Put(i, s),
         rows \in [Iccids -> {Absent} \cup States],
         settled \in SUBSET (Replicas \X Iccids)
  PROVE  /\ rows' \in [Iccids -> {Absent} \cup States]
         /\ settled' \in SUBSET (Replicas \X Iccids)
BY DEF Put

LEMMA TypeOfRequest ==
  ASSUME TypeOK, NEW h \in Handlers, Request(h)
  PROVE  TypeOK'
<1> USE DEF Begin, Goto
<1>1. requests' \in 0..MaxRequests
  BY BoundsNat DEF TypeOK, Request, Lookup, BeginOrder, BeginUpdate
<1>2. step' \in [Handlers -> Steps]
  BY DEF TypeOK, Steps, Request, Lookup, BeginOrder, BeginUpdate
<1>3. iccid' \in [Handlers -> Iccids]
  BY DEF TypeOK, Request, Lookup, BeginOrder, BeginUpdate
<1>4. value' \in [Handlers -> States]
  BY DEF TypeOK, Request, Lookup, BeginOrder, BeginUpdate
<1>5. next' \in [Handlers -> {"idle", "delete"}]
  BY DEF TypeOK, Request, Lookup, BeginOrder, BeginUpdate
<1>6. UNCHANGED <<rows, cache, faults, settled>>
  BY DEF Request, Lookup, BeginOrder, BeginUpdate
<1> QED
  BY <1>1, <1>2, <1>3, <1>4, <1>5, <1>6 DEF TypeOK

LEMMA TypeOfServe ==
  ASSUME TypeOK, NEW h \in Handlers, Serve(h)
  PROVE  TypeOK'
<1> USE DEF Goto, Fault, NoFault
<1>1. UNCHANGED <<iccid, next, requests>>
  BY DEF Serve, ReadRow, Fill, CreateRow, UpdateRow, SelectRow, DeleteRow, Invalidate,
         counts
<1>2. faults' \in 0..MaxFaults
  BY BoundsNat
  DEF TypeOK, Serve, ReadRow, Fill, CreateRow, UpdateRow, SelectRow, DeleteRow,
      Invalidate, counts
<1>3. step' \in [Handlers -> Steps]
  BY DEF TypeOK, Steps, Serve, ReadRow, Fill, CreateRow, UpdateRow, SelectRow, DeleteRow,
         Invalidate
<1>4. value' \in [Handlers -> States]
  <2>1. CASE ReadRow(h)
    BY <2>1 DEF TypeOK, ReadRow, Stored
  <2>2. CASE UNCHANGED value
    BY <2>2 DEF TypeOK
  <2> QED
    BY <2>1, <2>2 DEF Serve, Fill, CreateRow, UpdateRow, SelectRow, DeleteRow, Invalidate
<1>5. cache' \in [Replicas -> [Iccids -> Entries]]
  <2>1. h[1] \in Replicas /\ iccid[h] \in Iccids /\ value[h] \in States
    BY HandlerReplica DEF TypeOK
  <2>2. CASE Fill(h)
    BY <2>1, <2>2, EntryTypes DEF TypeOK, Fill
  <2>3. CASE Invalidate(h)
    BY <2>1, <2>3, EntryTypes DEF TypeOK, Invalidate
  <2>4. CASE UNCHANGED cache
    BY <2>4 DEF TypeOK
  <2> QED
    BY <2>2, <2>3, <2>4 DEF Serve, ReadRow, CreateRow, UpdateRow, SelectRow, DeleteRow
<1>6. rows' \in [Iccids -> {Absent} \cup States] /\ settled' \in SUBSET (Replicas \X Iccids)
  <2>1. /\ h[1] \in Replicas /\ iccid[h] \in Iccids /\ value[h] \in States
        /\ rows \in [Iccids -> {Absent} \cup States]
        /\ settled \in SUBSET (Replicas \X Iccids)
    BY HandlerReplica DEF TypeOK
  <2>2. CASE \E s \in {Absent} \cup States : Put(iccid[h], s)
    BY <2>1, <2>2, PutTypes
  <2>3. CASE UNCHANGED <<rows, settled>>
    BY <2>1, <2>3
  <2>4. CASE Invalidate(h)
    BY <2>1, <2>4 DEF Invalidate, Settle
  <2> QED
    BY <2>1, <2>2, <2>3, <2>4, DownloadedIsState
    DEF Serve, ReadRow, Fill, CreateRow, UpdateRow, SelectRow, DeleteRow, MaybePut
<1> QED
  BY <1>1, <1>2, <1>3, <1>4, <1>5, <1>6 DEF TypeOK

LEMMA TypeOfRest ==
  ASSUME TypeOK, NEW r \in Replicas,
         \/ CleanupExpired(r) \/ Restart(r)
         \/ \E i \in Iccids : Lapse(r, i)
  PROVE  TypeOK'
<1>1. CASE CleanupExpired(r)
  <2>1. cache' \in [Replicas -> [Iccids -> Entries]]
    BY <1>1, EntryTypes DEF TypeOK, CleanupExpired
  <2> QED
    BY <1>1, <2>1 DEF TypeOK, CleanupExpired, handlers, counts
<1>2. CASE Restart(r)
  <2>1. cache' \in [Replicas -> [Iccids -> Entries]]
    BY <1>2, EntryTypes DEF TypeOK, Restart
  <2>2. step' \in [Handlers -> Steps]
    BY <1>2 DEF TypeOK, Restart, Steps
  <2>3. faults' \in 0..MaxFaults
    BY <1>2, BoundsNat DEF TypeOK, Restart, Fault
  <2> QED
    BY <1>2, <2>1, <2>2, <2>3 DEF TypeOK, Restart
<1>3. ASSUME NEW i \in Iccids, Lapse(r, i)
      PROVE  TypeOK'
  <2>1. [cache[r][i] EXCEPT !.age = "old"] \in Entries
    BY <1>3, EntryTypes DEF TypeOK, Lapse
  <2>2. cache' = [cache EXCEPT ![r][i] = [cache[r][i] EXCEPT !.age = "old"]]
    BY <1>3 DEF Lapse
  <2>3. cache' \in [Replicas -> [Iccids -> Entries]]
    BY <2>1, <2>2 DEF TypeOK
  <2> QED
    BY <1>3, <2>3 DEF TypeOK, Lapse, handlers, counts
<1> QED
  BY <1>1, <1>2, <1>3

(* Requests, errors and restarts in any order keep the types: in particular  *)
(* no cache ever holds that there is no profile.                             *)
THEOREM TypeCorrect == Spec => []TypeOK
<1>1. Init => TypeOK
  BY EntryTypes, BoundsNat, DownloadedIsState DEF Init, TypeOK, Steps
<1>2. TypeOK /\ [Next]_vars => TypeOK'
  <2> SUFFICES ASSUME TypeOK, [Next]_vars PROVE TypeOK'
    OBVIOUS
  <2>1. CASE UNCHANGED vars
    BY <2>1 DEF TypeOK, vars, handlers, counts
  <2> QED
    BY <2>1, TypeOfRequest, TypeOfServe, TypeOfRest DEF Next
<1> QED
  BY <1>1, <1>2, PTL DEF Spec

-----------------------------------------------------------------------------
(* Where a write has settled, neither the cache nor a lookup that is about   *)
(* to fill it has anything older than the row.                               *)
CacheSettled ==
  \A r \in Replicas, i \in Iccids :
    <<r, i>> \in settled /\ cache[r][i].age = "fresh" => cache[r][i].state = rows[i]
FillsSettled ==
  \A h \in Handlers :
    <<h[1], iccid[h]>> \in settled /\ step[h] = "fill" => value[h] = rows[iccid[h]]
Settled == CacheSettled /\ FillsSettled

(* Nothing is settled of a row that is written. *)
LEMMA PutSettles ==
  ASSUME TypeOK, NEW j \in Iccids, NEW s, Put(j, s), NEW r \in Replicas, NEW i \in Iccids,
         <<r, i>> \in settled'
  PROVE  <<r, i>> \in settled /\ i # j /\ rows'[i] = rows[i]
BY DEF Put, TypeOK

LEMMA WriteSettles ==
  ASSUME TypeOK, Settled, NEW h \in Handlers, UNCHANGED <<cache, iccid, value>>,
         \A g \in Handlers : step'[g] = "fill" => step[g] = "fill",
         \/ \E s : Put(iccid[h], s)
         \/ UNCHANGED <<rows, settled>>
  PROVE  Settled'
<1>1. CASE UNCHANGED <<rows, settled>>
  BY <1>1 DEF Settled, CacheSettled, FillsSettled
<1>2. ASSUME NEW s, Put(iccid[h], s)
      PROVE  Settled'
  <2>1. iccid[h] \in Iccids
    BY DEF TypeOK
  <2>2. CacheSettled'
    <3> SUFFICES ASSUME NEW r \in Replicas, NEW i \in Iccids,
                        <<r, i>> \in settled', cache[r][i].age = "fresh"
                 PROVE  cache[r][i].state = rows'[i]
      BY DEF CacheSettled
    <3>1. <<r, i>> \in settled /\ rows'[i] = rows[i]
      BY <1>2, <2>1, PutSettles
    <3> QED
      BY <3>1 DEF Settled, CacheSettled
  <2>3. FillsSettled'
    <3> SUFFICES ASSUME NEW g \in Handlers,
                        <<g[1], iccid[g]>> \in settled', step'[g] = "fill"
                 PROVE  value[g] = rows'[iccid[g]]
      BY DEF FillsSettled
    <3>1. g[1] \in Replicas /\ iccid[g] \in Iccids
      BY HandlerReplica DEF TypeOK
    <3>2. <<g[1], iccid[g]>> \in settled /\ rows'[iccid[g]] = rows[iccid[g]]
      BY <1>2, <2>1, <3>1, PutSettles
    <3> QED
      BY <3>2 DEF Settled, FillsSettled
  <2> QED
    BY <2>2, <2>3 DEF Settled
<1> QED
  BY <1>1, <1>2

LEMMA SettledStep ==
  ASSUME TypeOK, TypeOK', Settled, [Next]_vars
  PROVE  Settled'
<1> USE DEF Goto
<1>1. ASSUME NEW h \in Handlers, Request(h)
      PROVE  Settled'
  <2>1. /\ UNCHANGED <<rows, cache, settled>>
        /\ step'[h] # "fill"
        /\ \A g \in Handlers :
             g # h => step'[g] = step[g] /\ iccid'[g] = iccid[g] /\ value'[g] = value[g]
    BY <1>1 DEF Request, Lookup, BeginOrder, BeginUpdate, Begin, TypeOK
  <2> QED
    BY <2>1 DEF Settled, CacheSettled, FillsSettled
<1>2. ASSUME NEW h \in Handlers, ReadRow(h)
      PROVE  Settled'
  <2>1. /\ UNCHANGED <<rows, cache, settled, iccid>>
        /\ step'[h] = "fill" => value'[h] = rows[iccid[h]]
        /\ \A g \in Handlers : g # h => step'[g] = step[g] /\ value'[g] = value[g]
    BY <1>2 DEF ReadRow, TypeOK
  <2> QED
    BY <2>1 DEF Settled, CacheSettled, FillsSettled
<1>3. ASSUME NEW h \in Handlers, Fill(h)
      PROVE  Settled'
  <2>1. /\ UNCHANGED <<rows, settled, iccid, value>>
        /\ step'[h] # "fill"
        /\ \A g \in Handlers : g # h => step'[g] = step[g]
    BY <1>3 DEF Fill, TypeOK
  <2>2. /\ cache'[h[1]][iccid[h]] = [state |-> value[h], age |-> "fresh"]
        /\ \A r \in Replicas, i \in Iccids :
             (r = h[1] /\ i = iccid[h]) \/ cache'[r][i] = cache[r][i]
    BY <1>3, HandlerReplica DEF Fill, TypeOK
  <2>3. <<h[1], iccid[h]>> \in settled => value[h] = rows[iccid[h]]
    BY <1>3 DEF Fill, Settled, FillsSettled
  <2>4. CacheSettled'
    <3> SUFFICES ASSUME NEW r \in Replicas, NEW i \in Iccids,
                        <<r, i>> \in settled, cache'[r][i].age = "fresh"
                 PROVE  cache'[r][i].state = rows[i]
      BY <2>1 DEF CacheSettled
    <3>1. CASE r = h[1] /\ i = iccid[h]
      BY <2>2, <2>3, <3>1
    <3>2. CASE cache'[r][i] = cache[r][i]
      BY <3>2 DEF Settled, CacheSettled
    <3> QED
      BY <2>2, <3>1, <3>2
  <2>5. FillsSettled'
    BY <2>1 DEF Settled, FillsSettled
  <2> QED
    BY <2>4, <2>5 DEF Settled
<1>4. ASSUME NEW h \in Handlers,
             CreateRow(h) \/ UpdateRow(h) \/ SelectRow(h) \/ DeleteRow(h)
      PROVE  Settled'
  <2>1. /\ UNCHANGED <<cache, iccid, value>>
        /\ \A g \in Handlers : step'[g] = "fill" => step[g] = "fill"
    BY <1>4 DEF CreateRow, UpdateRow, SelectRow, DeleteRow, TypeOK
  <2>2. \/ \E s : Put(iccid[h], s)
        \/ UNCHANGED <<rows, settled>>
    BY <1>4 DEF CreateRow, UpdateRow, SelectRow, DeleteRow, MaybePut
  <2> QED
    BY <2>1, <2>2, WriteSettles
<1>5. ASSUME NEW h \in Handlers, Invalidate(h)
      PROVE  Settled'
  <2>1. h[1] \in Replicas /\ iccid[h] \in Iccids
    BY HandlerReplica DEF TypeOK
  <2>2. /\ UNCHANGED <<rows, iccid, value>>
        /\ \A g \in Handlers : step'[g] = "fill" => step[g] = "fill"
    BY <1>5 DEF Invalidate, TypeOK
  <2>3. /\ cache'[h[1]][iccid[h]] = None
        /\ \A r \in Replicas, i \in Iccids :
             (r = h[1] /\ i = iccid[h]) \/ cache'[r][i] = cache[r][i]
    BY <1>5, <2>1 DEF Invalidate, TypeOK
  <2>4. \A c \in settled' : c \in settled \/ c = <<h[1], iccid[h]>>
    BY <1>5 DEF Invalidate, Settle
  <2>5. CacheSettled'
    <3> SUFFICES ASSUME NEW r \in Replicas, NEW i \in Iccids,
                        <<r, i>> \in settled', cache'[r][i].age = "fresh"
                 PROVE  cache'[r][i].state = rows[i]
      BY <2>2 DEF CacheSettled
    <3>1. ~(r = h[1] /\ i = iccid[h])
      BY <2>3 DEF None
    <3>2. <<r, i>> \in settled /\ cache'[r][i] = cache[r][i]
      BY <2>3, <2>4, <3>1
    <3> QED
      BY <3>2 DEF Settled, CacheSettled
  <2>6. FillsSettled'
    <3> SUFFICES ASSUME NEW g \in Handlers,
                        <<g[1], iccid[g]>> \in settled', step[g] = "fill"
                 PROVE  value[g] = rows[iccid[g]]
      BY <2>2 DEF FillsSettled
    <3>1. CASE <<g[1], iccid[g]>> \in settled
      BY <3>1 DEF Settled, FillsSettled
    <3>2. CASE <<g[1], iccid[g]>> \notin settled
      <4>1. ~Filling(h[1], iccid[h])
        BY <1>5, <3>2 DEF Invalidate, Settle
      <4>2. g[1] = h[1] /\ iccid[g] = iccid[h]
        BY <2>4, <3>2
      <4> QED
        BY <4>1, <4>2 DEF Filling
    <3> QED
      BY <3>1, <3>2
  <2> QED
    BY <2>5, <2>6 DEF Settled
<1>6. ASSUME NEW q \in Replicas,
             \/ CleanupExpired(q) \/ Restart(q)
             \/ \E j \in Iccids : Lapse(q, j)
      PROVE  Settled'
  <2>1. /\ UNCHANGED <<rows, settled, iccid, value>>
        /\ \A g \in Handlers : step'[g] = "fill" => step[g] = "fill"
    BY <1>6 DEF CleanupExpired, Restart, Lapse, handlers, TypeOK
  <2>2. \A r \in Replicas, i \in Iccids :
          cache'[r][i].age = "fresh" => cache'[r][i] = cache[r][i]
    <3> SUFFICES ASSUME NEW r \in Replicas, NEW i \in Iccids
                 PROVE  cache'[r][i].age = "fresh" => cache'[r][i] = cache[r][i]
      OBVIOUS
    <3>1. CASE CleanupExpired(q)
      BY <3>1 DEF CleanupExpired, TypeOK, None
    <3>2. CASE Restart(q)
      BY <3>2 DEF Restart, TypeOK, None
    <3>3. ASSUME NEW j \in Iccids, Lapse(q, j)
          PROVE  cache'[r][i].age = "fresh" => cache'[r][i] = cache[r][i]
      <4>1. cache' = [cache EXCEPT ![q][j] = [cache[q][j] EXCEPT !.age = "old"]]
        BY <3>3 DEF Lapse
      <4>2. cache[q][j] \in [state : States, age : {"fresh", "old"}]
        BY <3>3 DEF Lapse, TypeOK, Entries, None
      <4>3. [cache[q][j] EXCEPT !.age = "old"].age = "old"
        BY <4>2
      <4> QED
        BY <4>1, <4>3 DEF TypeOK
    <3> QED
      BY <1>6, <3>1, <3>2, <3>3
  <2> QED
    BY <2>1, <2>2 DEF Settled, CacheSettled, FillsSettled
<1>7. CASE UNCHANGED vars
  BY <1>7 DEF vars, handlers, Settled, CacheSettled, FillsSettled
<1> QED
  BY <1>1, <1>2, <1>3, <1>4, <1>5, <1>6, <1>7 DEF Next, Serve

(* A write that succeeds, and that no lookup of its replica overlaps, is     *)
(* seen by every lookup there until the next write, however many replicas,   *)
(* requests and failures there are.                                          *)
THEOREM SettledWritesSeen == Spec => []WritesSeen
<1>1. Init => Settled
  BY DEF Init, Settled, CacheSettled, FillsSettled
<1>2. TypeOK /\ TypeOK' /\ Settled /\ [Next]_vars => Settled'
  BY SettledStep
<1>3. Settled => WritesSeen
  BY DEF Settled, CacheSettled, WritesSeen, Hit
<1> QED
  BY <1>1, <1>2, <1>3, TypeCorrect, PTL DEF Spec

-----------------------------------------------------------------------------
(* What the proof about users needs to know of a request *)
Known(r) ==
  /\ "at" \in DOMAIN r
  /\ r.at \in {"member", "add"} => "pair" \in DOMAIN r /\ r.pair \in Tenants \X Users

UserRequests ==
  /\ membership \in [Tenants \X Users -> Nat]
  /\ request = [o \in Operators |-> request[o]]
  /\ \A o \in Operators : Known(request[o])

(* A user about to be added is not in the tenant, and nobody else adds it.   *)
Adding(o, m) == request[o].at = "add" /\ request[o].pair = m

AddsOnce ==
  \A m \in (Tenants \X Users) \ doubled :
    /\ membership[m] <= 1
    /\ \A o \in Operators : Adding(o, m) => membership[m] = 0
    /\ \A o, p \in Operators : Adding(o, m) /\ Adding(p, m) => o = p

UsersInv == UserRequests /\ AddsOnce

LEMMA Moved ==
  ASSUME NEW r, NEW at, "at" \in DOMAIN r
  PROVE  /\ [r EXCEPT !.at = at].at = at
         /\ DOMAIN [r EXCEPT !.at = at] = DOMAIN r
         /\ \A f \in DOMAIN r : f # "at" => [r EXCEPT !.at = at][f] = r[f]
OBVIOUS

LEMMA RestingKnown == Known(Resting) /\ Resting.at = "rest"
BY DEF Known, Resting

(* A request that does not come to add a user disturbs nothing. *)
LEMMA OtherRequests ==
  ASSUME UsersInv, UNCHANGED <<membership, doubled>>,
         NEW o \in Operators, NEW after, request' = [request EXCEPT ![o] = after],
         Known(after), after.at # "add"
  PROVE  UsersInv'
<1>1. \A p \in Operators : request'[p] = IF p = o THEN after ELSE request[p]
  BY DEF UsersInv, UserRequests
<1>2. request' = [p \in Operators |-> request'[p]]
  BY DEF UsersInv, UserRequests
<1>3. UserRequests'
  BY <1>1, <1>2 DEF UsersInv, UserRequests, Known
<1>4. \A p \in Operators, m \in Tenants \X Users : Adding(p, m)' => Adding(p, m)
  BY <1>1 DEF Adding
<1> QED
  BY <1>3, <1>4 DEF UsersInv, AddsOnce

LEMMA StepUsers == UsersInv /\ [TenantsNext]_tenantsVars => UsersInv'
<1> SUFFICES ASSUME UsersInv, [TenantsNext]_tenantsVars PROVE UsersInv'
  OBVIOUS
<1>0. \A o \in Operators : Known(request[o])
  BY DEF UsersInv, UserRequests
<1>a. ASSUME NEW o \in Operators, Rest(o), UNCHANGED <<membership, doubled>> PROVE UsersInv'
  BY <1>a, RestingKnown, OtherRequests DEF Rest, Continue
<1>b. ASSUME NEW o \in Operators, NEW at \in {"create", "reinsert"},
             Continue(o, [request[o] EXCEPT !.at = at]), UNCHANGED <<membership, doubled>>
      PROVE  UsersInv'
  <2>1. Known([request[o] EXCEPT !.at = at]) /\ [request[o] EXCEPT !.at = at].at = at
    BY <1>0, Moved DEF Known
  <2> QED
    BY <1>b, <2>1, OtherRequests DEF Continue
<1> USE DEF tenantTables, tenantMarks
<1>1. ASSUME NEW o \in Operators, NEW row \in TenantRows, BeginCreate(o, row) PROVE UsersInv'
  <2>1. Known([at |-> "domain", row |-> row]) /\ [at |-> "domain", row |-> row].at = "domain"
    BY DEF Known
  <2> QED
    BY <1>1, <2>1, OtherRequests DEF BeginCreate, Accept, Continue
<1>2. ASSUME NEW o \in Operators, GetTenantByDomain(o) PROVE UsersInv'
  BY <1>2, <1>a, <1>b DEF GetTenantByDomain
<1>3. ASSUME NEW o \in Operators, NEW t \in Tenants, CreateTenant(o, t) PROVE UsersInv'
  <2> DEFINE after == [at |-> "read", id |-> t, field |-> "metadata", value |-> Defaults]
  <2>1. Known(after) /\ after.at = "read"
    BY DEF Known
  <2>2. request' = [request EXCEPT ![o] = after] /\ UNCHANGED <<membership, doubled>>
    BY <1>3 DEF CreateTenant, Continue
  <2> HIDE DEF after
  <2> QED
    BY <2>1, <2>2, OtherRequests
<1>4. ASSUME NEW o \in Operators, NEW t \in Tenants, NEW f \in Fields, NEW v \in Settings,
             BeginTenantUpdate(o, t, f, v)
      PROVE  UsersInv'
  <2> DEFINE after == [at |-> "read", id |-> t, field |-> f, value |-> v]
  <2>1. Known(after) /\ after.at = "read"
    BY DEF Known
  <2>2. request' = [request EXCEPT ![o] = after] /\ UNCHANGED <<membership, doubled>>
    BY <1>4 DEF BeginTenantUpdate, Accept, Continue
  <2> HIDE DEF after
  <2> QED
    BY <2>1, <2>2, OtherRequests
<1>5. ASSUME NEW o \in Operators, GetTenant(o) PROVE UsersInv'
  <2> DEFINE after == [at |-> "save", id |-> request[o].id, field |-> request[o].field,
                      row |-> Apply(tenantRow[request[o].id], request[o].field, request[o].value)]
  <2>1. Known(after) /\ after.at = "save"
    BY DEF Known
  <2>2. Rest(o) \/ request' = [request EXCEPT ![o] = after]
    BY <1>5 DEF GetTenant, Continue
  <2>3. UNCHANGED <<membership, doubled>>
    BY <1>5 DEF GetTenant
  <2> HIDE DEF after
  <2> QED
    BY <2>1, <2>2, <2>3, <1>a, OtherRequests
<1>6. ASSUME NEW o \in Operators, UpdateTenant(o) PROVE UsersInv'
  <2>1. Rest(o) \/ Continue(o, [request[o] EXCEPT !.at = "reinsert"])
    BY <1>6 DEF UpdateTenant
  <2>2. UNCHANGED <<membership, doubled>>
    BY <1>6 DEF UpdateTenant
  <2> QED
    BY <2>1, <2>2, <1>a, <1>b
<1>7. ASSUME NEW o \in Operators, Reinsert(o) PROVE UsersInv'
  BY <1>7, <1>a DEF Reinsert
<1>8. ASSUME NEW o \in Operators, NEW t \in Tenants, DeleteTenant(o, t) PROVE UsersInv'
  BY <1>8 DEF DeleteTenant, UsersInv, UserRequests, AddsOnce, Adding
<1>9. ASSUME NEW o \in Operators, NEW m \in Tenants \X Users, BeginAddUser(o, m) PROVE UsersInv'
  <2>1. Known([at |-> "member", pair |-> m]) /\ [at |-> "member", pair |-> m].at = "member"
    BY DEF Known
  <2> QED
    BY <1>9, <2>1, OtherRequests DEF BeginAddUser, Accept, Continue
<1>10. ASSUME NEW o \in Operators, GetTenantUser(o) PROVE UsersInv'
  <2> DEFINE pair == request[o].pair  after == [request[o] EXCEPT !.at = "add"]
  <2>1. pair \in Tenants \X Users /\ membership[pair] \in Nat
    BY <1>0, <1>10 DEF GetTenantUser, Runs, Known, UsersInv, UserRequests
  <2>2. CASE membership[pair] > 0
    BY <2>2, <1>10, <1>a DEF GetTenantUser
  <2>3. CASE ~(membership[pair] > 0)
    <3>1. membership[pair] = 0
      BY <2>1, <2>3
    <3>2. Known(after) /\ after.at = "add" /\ after.pair = pair
      BY <1>0, <1>10, Moved DEF GetTenantUser, Runs, Known
    <3>3. /\ request' = [request EXCEPT ![o] = after]
          /\ UNCHANGED membership
          /\ doubled \subseteq doubled'
          /\ (\E p \in Operators : Adding(p, pair)) => pair \in doubled'
      BY <1>10, <2>3 DEF GetTenantUser, Continue, Runs, Adding
    <3> HIDE DEF after, pair
    <3>4. \A p \in Operators : request'[p] = IF p = o THEN after ELSE request[p]
      BY <3>3 DEF UsersInv, UserRequests
    <3>5. UserRequests'
      BY <3>2, <3>3, <3>4 DEF UsersInv, UserRequests, Known
    <3>6. ASSUME NEW m \in (Tenants \X Users) \ doubled'
          PROVE  /\ membership[m] <= 1
                 /\ \A p \in Operators : Adding(p, m)' => membership[m] = 0
                 /\ \A p, q \in Operators : Adding(p, m)' /\ Adding(q, m)' => p = q
      <4>1. m \in (Tenants \X Users) \ doubled
        BY <3>3, <3>6
      <4>2. \A p \in Operators : Adding(p, m)' => Adding(p, m) \/ (p = o /\ m = pair)
        BY <3>2, <3>4 DEF Adding
      <4>3. m = pair => \A p \in Operators : ~Adding(p, m)
        BY <3>3, <3>6
      <4> QED
        BY <4>1, <4>2, <4>3, <3>1 DEF UsersInv, AddsOnce
    <3> QED
      BY <3>3, <3>5, <3>6 DEF UsersInv, AddsOnce
  <2> QED
    BY <2>2, <2>3
<1>11. ASSUME NEW o \in Operators, CreateTenantUser(o) PROVE UsersInv'
  <2> DEFINE pair == request[o].pair
  <2>1. pair \in Tenants \X Users /\ membership[pair] \in Nat /\ Adding(o, pair)
    BY <1>0, <1>11 DEF CreateTenantUser, Runs, Known, UsersInv, UserRequests, Adding
  <2>2. /\ membership' = [membership EXCEPT ![pair] = @ + 1]
        /\ request' = [request EXCEPT ![o] = Resting]
        /\ UNCHANGED doubled
    BY <1>11 DEF CreateTenantUser, Rest, Continue
  <2> HIDE DEF pair
  <2>3. /\ membership' \in [Tenants \X Users -> Nat]
        /\ membership'[pair] = membership[pair] + 1
        /\ \A m \in Tenants \X Users : m # pair => membership'[m] = membership[m]
    BY <2>1, <2>2 DEF UsersInv, UserRequests
  <2>4. \A p \in Operators : request'[p] = IF p = o THEN Resting ELSE request[p]
    BY <2>2 DEF UsersInv, UserRequests
  <2>5. UserRequests'
    BY <2>2, <2>3, <2>4, RestingKnown DEF UsersInv, UserRequests, Known
  <2>6. \A p \in Operators, m \in Tenants \X Users : Adding(p, m)' => Adding(p, m) /\ p # o
    BY <2>4, RestingKnown DEF Adding
  <2>7. ASSUME NEW m \in (Tenants \X Users) \ doubled
        PROVE  /\ membership'[m] <= 1
               /\ \A p \in Operators : Adding(p, m)' => membership'[m] = 0
               /\ \A p, q \in Operators : Adding(p, m)' /\ Adding(q, m)' => p = q
    <3>1. CASE m = pair
      BY <3>1, <2>1, <2>3, <2>6 DEF UsersInv, AddsOnce
    <3>2. CASE m # pair
      BY <3>2, <2>3, <2>6 DEF UsersInv, AddsOnce
    <3> QED
      BY <3>1, <3>2
  <2> QED
    BY <2>2, <2>5, <2>7 DEF UsersInv, AddsOnce
<1>12. ASSUME NEW o \in Operators, RequestFails(o) PROVE UsersInv'
  BY <1>12, <1>a DEF RequestFails
<1>13. CASE UNCHANGED tenantsVars
  BY <1>13 DEF tenantsVars, UsersInv, UserRequests, AddsOnce, Adding
<1> QED
  BY <1>1, <1>2, <1>3, <1>4, <1>5, <1>6, <1>7, <1>8, <1>9, <1>10, <1>11, <1>12, <1>13
  DEF TenantsNext

(* For any tenants, users and requests: a user is in a tenant twice only     *)
(* where two requests have added it at the same time.                        *)
THEOREM UserAddedOnce == TenantsSpec => []UserOnce
<1>1. TenantsInit => UsersInv
  BY RestingKnown DEF TenantsInit, UsersInv, UserRequests, AddsOnce, Adding
<1>2. UsersInv => UserOnce
  BY DEF UsersInv, AddsOnce, UserOnce
<1> QED
  BY <1>1, <1>2, StepUsers, PTL DEF TenantsSpec

-----------------------------------------------------------------------------
(* The rows of tenants.  While no two requests for a tenant have overlapped, *)
(* its row is the wanted one, and the only request that may save it holds    *)
(* that row with one field changed.                                          *)
Asks(r) ==
  /\ "at" \in DOMAIN r
  /\ r.at \in {"domain", "create"} => "row" \in DOMAIN r /\ r.row \in TenantRows
  /\ r.at = "read" => r.id \in Tenants /\ r.field \in Fields /\ r.value \in Settings
  /\ r.at \in {"save", "reinsert"} =>
       /\ {"id", "field", "row"} \subseteq DOMAIN r
       /\ r.id \in Tenants /\ r.field \in Fields /\ r.row \in TenantRows

RowsTyped ==
  /\ tenantRow \in [Tenants -> {NoTenant} \cup TenantRows]
  /\ wanted = [t \in Tenants |-> wanted[t]]
  /\ request = [o \in Operators |-> request[o]]
  /\ \A o \in Operators : Asks(request[o])

AsWanted(t) == tenantRow[t] = IF wanted[t] = Deleted THEN NoTenant ELSE wanted[t]

(* The request changes one field of the row as it still is. *)
SavesCurrent(o, t) ==
  /\ request[o].at = "save"
  /\ tenantRow[t] \in TenantRows
  /\ request[o].row =
       Apply(tenantRow[t], request[o].field, request[o].row.set[request[o].field])

Held(t) ==
  /\ AsWanted(t)
  /\ \A o \in Operators : Saving(o, t) => SavesCurrent(o, t)
  /\ \A o, p \in Operators : Saving(o, t) /\ Saving(p, t) => o = p

RowsInv == RowsTyped /\ \A t \in Tenants \ crossed : Held(t)

LEMMA RowsAreDistinct ==
  NoTenant \notin TenantRows /\ Deleted \notin TenantRows /\ NoTenant # Deleted
<1>1. \A r \in TenantRows : "set" \in DOMAIN r
  BY DEF TenantRows
<1>2. "set" \notin DOMAIN NoTenant /\ "set" \notin DOMAIN Deleted
  BY DEF NoTenant, Deleted
<1>3. NoTenant.domain # Deleted.domain
  BY DEF NoTenant, Deleted
<1> QED
  BY <1>1, <1>2, <1>3

LEMMA Applied ==
  ASSUME NEW row \in TenantRows, NEW f \in Fields, NEW v \in Settings
  PROVE  Apply(row, f, v) \in TenantRows /\ Apply(row, f, v).set[f] = v
BY DEF Apply, TenantRows

LEMMA RestingAsks == Asks(Resting) /\ Resting.at = "rest"
BY DEF Asks, Resting

(* A request that does not come to save a row disturbs none. *)
LEMMA RowsUndisturbed ==
  ASSUME RowsInv, UNCHANGED <<tenantRow, wanted>>, crossed \subseteq crossed',
         NEW o \in Operators, NEW after, request' = [request EXCEPT ![o] = after],
         Asks(after), after.at \notin {"save", "reinsert"}
  PROVE  RowsInv'
<1>1. \A p \in Operators : request'[p] = IF p = o THEN after ELSE request[p]
  BY DEF RowsInv, RowsTyped
<1>2. request' = [p \in Operators |-> request'[p]]
  BY DEF RowsInv, RowsTyped
<1>3. RowsTyped'
  BY <1>1, <1>2 DEF RowsInv, RowsTyped, Asks
<1>4. \A p \in Operators, t \in Tenants : Saving(p, t)' => p # o /\ Saving(p, t)
  BY <1>1 DEF Saving
<1>5. \A p \in Operators, t \in Tenants : p # o /\ SavesCurrent(p, t) => SavesCurrent(p, t)'
  BY <1>1 DEF SavesCurrent
<1>6. ASSUME NEW t \in Tenants \ crossed' PROVE Held(t)'
  <2>1. Held(t) /\ AsWanted(t)'
    BY DEF RowsInv, Held, AsWanted
  <2> QED
    BY <2>1, <1>4, <1>5 DEF Held
<1> QED
  BY <1>3, <1>6 DEF RowsInv

(* A row is saved and the request ends: a row of which no two requests       *)
(* overlapped is the one the request has read, with its field changed.       *)
LEMMA SavedRow ==
  ASSUME RowsInv, NEW o \in Operators, Saving(o, request[o].id),
         tenantRow' = [tenantRow EXCEPT ![request[o].id] = request[o].row],
         Want(o), Rest(o), UNCHANGED crossed
  PROVE  RowsInv'
<1> DEFINE t == request[o].id  f == request[o].field  row == request[o].row
<1>1. /\ t \in Tenants /\ f \in Fields /\ row \in TenantRows
      /\ tenantRow' = [tenantRow EXCEPT ![t] = row]
      /\ Saving(o, t)
  BY DEF RowsInv, RowsTyped, Asks, Saving
<1>2. wanted' = IF wanted[t] = Deleted THEN wanted
                ELSE [wanted EXCEPT ![t].set[f] = row.set[f]]
  BY DEF Want
<1> HIDE DEF t, f, row
<1>3. /\ tenantRow'[t] = row
      /\ \A u \in Tenants \ {t} : tenantRow'[u] = tenantRow[u] /\ wanted'[u] = wanted[u]
  BY <1>1, <1>2 DEF RowsInv, RowsTyped
<1>4. \A p \in Operators : request'[p] = IF p = o THEN Resting ELSE request[p]
  BY DEF RowsInv, RowsTyped, Rest, Continue
<1>5. \A p \in Operators, u \in Tenants : Saving(p, u)' => p # o /\ Saving(p, u)
  BY <1>4, RestingAsks DEF Saving
<1>6. \A p \in Operators, u \in Tenants \ {t} :
        p # o /\ SavesCurrent(p, u) => SavesCurrent(p, u)'
  BY <1>3, <1>4 DEF SavesCurrent
<1>7. RowsTyped'
  <2>1. tenantRow' \in [Tenants -> {NoTenant} \cup TenantRows]
    BY <1>1 DEF RowsInv, RowsTyped
  <2>2. wanted' = [u \in Tenants |-> wanted'[u]]
    BY <1>2 DEF RowsInv, RowsTyped
  <2>3. request' = [p \in Operators |-> request'[p]]
    BY DEF RowsInv, RowsTyped, Rest, Continue
  <2> QED
    BY <2>1, <2>2, <2>3, <1>4, RestingAsks DEF RowsInv, RowsTyped, Asks
<1>8. ASSUME NEW u \in Tenants \ crossed' PROVE Held(u)'
  <2>1. Held(u)
    BY DEF RowsInv
  <2>2. CASE u = t
    <3>1. /\ tenantRow[t] \in TenantRows /\ wanted[t] = tenantRow[t] /\ wanted[t] # Deleted
          /\ row = Apply(tenantRow[t], f, row.set[f])
          /\ \A p \in Operators \ {o} : ~Saving(p, t)
      BY <1>1, <2>1, <2>2, RowsAreDistinct DEF Held, AsWanted, SavesCurrent, t, f, row
    <3>2. wanted'[t] = Apply(wanted[t], f, row.set[f])
      BY <1>1, <1>2, <3>1 DEF Apply, RowsInv, RowsTyped
    <3>3. AsWanted(u)'
      BY <2>2, <1>1, <1>3, <3>1, <3>2, RowsAreDistinct DEF AsWanted
    <3> QED
      BY <2>2, <3>1, <3>3, <1>5 DEF Held
  <2>3. CASE u # t
    <3>1. AsWanted(u)'
      BY <2>1, <2>3, <1>3 DEF Held, AsWanted
    <3> QED
      BY <3>1, <2>1, <2>3, <1>5, <1>6 DEF Held
  <2> QED
    BY <2>2, <2>3
<1> QED
  BY <1>7, <1>8 DEF RowsInv

LEMMA StepRows == RowsInv /\ [TenantsNext]_tenantsVars => RowsInv'
<1> SUFFICES ASSUME RowsInv, [TenantsNext]_tenantsVars PROVE RowsInv'
  OBVIOUS
<1>0. \A o \in Operators : Asks(request[o])
  BY DEF RowsInv, RowsTyped
<1>a. ASSUME NEW o \in Operators, Rest(o), UNCHANGED <<tenantRow, wanted>>,
             crossed \subseteq crossed'
      PROVE  RowsInv'
  BY <1>a, RestingAsks, RowsUndisturbed DEF Rest, Continue
<1> USE DEF tenantTables, tenantMarks
<1>1. ASSUME NEW o \in Operators, NEW row \in TenantRows, BeginCreate(o, row) PROVE RowsInv'
  <2>1. Asks([at |-> "domain", row |-> row]) /\ [at |-> "domain", row |-> row].at = "domain"
    BY DEF Asks
  <2> QED
    BY <1>1, <2>1, RowsUndisturbed DEF BeginCreate, Accept, Continue
<1>2. ASSUME NEW o \in Operators, GetTenantByDomain(o) PROVE RowsInv'
  <2> DEFINE after == [request[o] EXCEPT !.at = "create"]
  <2>1. Asks(after) /\ after.at = "create"
    BY <1>0, <1>2, Moved DEF GetTenantByDomain, Runs, Asks
  <2>2. Rest(o) \/ request' = [request EXCEPT ![o] = after]
    BY <1>2 DEF GetTenantByDomain, Continue
  <2>3. UNCHANGED <<tenantRow, wanted, crossed>>
    BY <1>2 DEF GetTenantByDomain
  <2> HIDE DEF after
  <2> QED
    BY <2>1, <2>2, <2>3, <1>a, RowsUndisturbed
<1>3. ASSUME NEW o \in Operators, NEW t \in Tenants, CreateTenant(o, t) PROVE RowsInv'
  <2> DEFINE after == [at |-> "read", id |-> t, field |-> "metadata", value |-> Defaults]
             row == request[o].row
  <2>1. Asks(after) /\ after.at = "read"
    BY DefaultsIsSetting DEF Asks, Fields
  <2>2. /\ row \in TenantRows /\ wanted[t] = NoTenant
        /\ request' = [request EXCEPT ![o] = after]
        /\ tenantRow' = [tenantRow EXCEPT ![t] = row]
        /\ wanted' = [wanted EXCEPT ![t] = row]
        /\ UNCHANGED crossed
    BY <1>0, <1>3 DEF CreateTenant, Continue, Runs, Asks
  <2> HIDE DEF after, row
  <2>3. \A p \in Operators : request'[p] = IF p = o THEN after ELSE request[p]
    BY <2>2 DEF RowsInv, RowsTyped
  <2>4. /\ tenantRow'[t] = row /\ wanted'[t] = row
        /\ \A u \in Tenants \ {t} : tenantRow'[u] = tenantRow[u] /\ wanted'[u] = wanted[u]
    BY <2>2 DEF RowsInv, RowsTyped
  <2>5. RowsTyped'
    BY <2>1, <2>2, <2>3 DEF RowsInv, RowsTyped, Asks
  <2>6. \A p \in Operators, u \in Tenants : Saving(p, u)' => p # o /\ Saving(p, u)
    BY <2>1, <2>3 DEF Saving
  <2>7. \A p \in Operators, u \in Tenants \ {t} :
          p # o /\ SavesCurrent(p, u) => SavesCurrent(p, u)'
    BY <2>3, <2>4 DEF SavesCurrent
  <2>8. t \notin crossed => \A p \in Operators : ~Saving(p, t)
    BY <2>2, RowsAreDistinct DEF RowsInv, Held, AsWanted, SavesCurrent
  <2>9. ASSUME NEW u \in Tenants \ crossed' PROVE Held(u)'
    <3>1. Held(u)
      BY <2>2 DEF RowsInv
    <3>2. CASE u = t
      <4>1. AsWanted(u)'
        BY <3>2, <2>2, <2>4, RowsAreDistinct DEF AsWanted
      <4> QED
        BY <4>1, <3>2, <2>2, <2>6, <2>8 DEF Held
    <3>3. CASE u # t
      <4>1. AsWanted(u)'
        BY <3>1, <3>3, <2>4 DEF Held, AsWanted
      <4> QED
        BY <4>1, <3>1, <3>3, <2>6, <2>7 DEF Held
    <3> QED
      BY <3>2, <3>3
  <2> QED
    BY <2>5, <2>9 DEF RowsInv
<1>4. ASSUME NEW o \in Operators, NEW t \in Tenants, NEW f \in Fields, NEW v \in Settings,
             BeginTenantUpdate(o, t, f, v)
      PROVE  RowsInv'
  <2> DEFINE after == [at |-> "read", id |-> t, field |-> f, value |-> v]
  <2>1. Asks(after) /\ after.at = "read"
    BY DEF Asks
  <2>2. request' = [request EXCEPT ![o] = after] /\ UNCHANGED <<tenantRow, wanted, crossed>>
    BY <1>4 DEF BeginTenantUpdate, Accept, Continue
  <2> HIDE DEF after
  <2> QED
    BY <2>1, <2>2, RowsUndisturbed
<1>5. ASSUME NEW o \in Operators, GetTenant(o) PROVE RowsInv'
  <2> DEFINE t == request[o].id  f == request[o].field  v == request[o].value
  <2>1. t \in Tenants /\ f \in Fields /\ v \in Settings /\ ~(request[o].at \in {"save", "reinsert"})
    BY <1>0, <1>5 DEF GetTenant, Runs, Asks
  <2>2. UNCHANGED <<tenantRow, wanted>>
    BY <1>5 DEF GetTenant
  <2>3. CASE tenantRow[t] = NoTenant
    BY <2>2, <2>3, <1>5, <1>a DEF GetTenant
  <2>4. CASE tenantRow[t] # NoTenant
    <3> DEFINE row == Apply(tenantRow[t], f, v)
               after == [at |-> "save", id |-> t, field |-> f, row |-> row]
    <3>1. tenantRow[t] \in TenantRows
      BY <2>1, <2>4 DEF RowsInv, RowsTyped
    <3>2. row \in TenantRows /\ row.set[f] = v
      BY <2>1, <3>1, Applied
    <3>3. /\ request' = [request EXCEPT ![o] = after]
          /\ crossed \subseteq crossed'
          /\ (\E p \in Operators : Saving(p, t)) => t \in crossed'
      BY <2>4, <1>5 DEF GetTenant, Continue
    <3>4. row = Apply(tenantRow[t], f, row.set[f])
      BY <3>2
    <3> HIDE DEF t, f, v, row
    <3>5. /\ Asks(after) /\ after.at = "save" /\ after.id = t /\ after.field = f
          /\ after.row = row
      BY <2>1, <3>2 DEF Asks
    <3> HIDE DEF after
    <3>6. \A p \in Operators : request'[p] = IF p = o THEN after ELSE request[p]
      BY <3>3 DEF RowsInv, RowsTyped
    <3>7. RowsTyped'
      BY <2>2, <3>3, <3>5, <3>6 DEF RowsInv, RowsTyped, Asks
    <3>8. \A p \in Operators, u \in Tenants :
            Saving(p, u)' => (p # o /\ Saving(p, u)) \/ (p = o /\ u = t)
      BY <3>5, <3>6 DEF Saving
    <3>9. \A p \in Operators, u \in Tenants :
            p # o /\ SavesCurrent(p, u) => SavesCurrent(p, u)'
      BY <2>2, <3>6 DEF SavesCurrent
    <3>10. \A u \in Tenants : u = t => SavesCurrent(o, u)'
      BY <2>2, <3>1, <3>4, <3>5, <3>6 DEF SavesCurrent
    <3>11. ASSUME NEW u \in Tenants \ crossed' PROVE Held(u)'
      <4>1. Held(u)
        BY <3>3 DEF RowsInv
      <4>2. AsWanted(u)'
        BY <4>1, <2>2 DEF Held, AsWanted
      <4>3. u = t => \A p \in Operators : ~Saving(p, t)
        BY <3>3
      <4> QED
        BY <4>1, <4>2, <4>3, <3>8, <3>9, <3>10 DEF Held
    <3> QED
      BY <3>7, <3>11 DEF RowsInv
  <2> QED
    BY <2>3, <2>4
<1>6. ASSUME NEW o \in Operators, UpdateTenant(o) PROVE RowsInv'
  <2> DEFINE t == request[o].id  f == request[o].field  row == request[o].row
  <2>1. /\ request[o].at = "save" /\ t \in Tenants /\ f \in Fields /\ row \in TenantRows
        /\ Saving(o, t) /\ "at" \in DOMAIN request[o]
    BY <1>0, <1>6 DEF UpdateTenant, Runs, Asks, Saving
  <2>2. CASE tenantRow[t] # NoTenant
    BY <2>1, <2>2, <1>6, SavedRow DEF UpdateTenant
  <2>3. CASE tenantRow[t] = NoTenant
    <3> DEFINE after == [request[o] EXCEPT !.at = "reinsert"]
    <3>1. /\ Asks(after) /\ after.at = "reinsert" /\ after.id = t
      BY <1>0, <2>1, Moved DEF Asks
    <3>2. /\ request' = [request EXCEPT ![o] = after]
          /\ UNCHANGED <<tenantRow, wanted, crossed>>
      BY <1>6, <2>3 DEF UpdateTenant, Continue
    <3>3. t \in crossed
      BY <2>1, <2>3, RowsAreDistinct DEF RowsInv, Held, SavesCurrent
    <3> HIDE DEF after, t
    <3>4. \A p \in Operators : request'[p] = IF p = o THEN after ELSE request[p]
      BY <3>2 DEF RowsInv, RowsTyped
    <3>5. RowsTyped'
      BY <3>1, <3>2, <3>4 DEF RowsInv, RowsTyped, Asks
    <3>6. \A p \in Operators, u \in Tenants \ crossed : Saving(p, u)' => p # o /\ Saving(p, u)
      BY <3>1, <3>3, <3>4 DEF Saving
    <3>7. \A p \in Operators, u \in Tenants :
            p # o /\ SavesCurrent(p, u) => SavesCurrent(p, u)'
      BY <3>2, <3>4 DEF SavesCurrent
    <3>8. ASSUME NEW u \in Tenants \ crossed' PROVE Held(u)'
      <4>1. Held(u) /\ u \in Tenants \ crossed
        BY <3>2 DEF RowsInv
      <4>2. AsWanted(u)'
        BY <4>1, <3>2 DEF Held, AsWanted
      <4> QED
        BY <4>1, <4>2, <3>6, <3>7 DEF Held
    <3> QED
      BY <3>5, <3>8 DEF RowsInv
  <2> QED
    BY <2>2, <2>3
<1>7. ASSUME NEW o \in Operators, Reinsert(o) PROVE RowsInv'
  <2>1. request[o].at = "reinsert" /\ Saving(o, request[o].id) /\ request[o].id \in Tenants
    BY <1>0, <1>7 DEF Reinsert, Runs, Asks, Saving
  <2>2. request[o].id \in crossed
    BY <2>1 DEF RowsInv, Held, SavesCurrent
  <2> QED
    BY <1>7, <2>1, <2>2, SavedRow DEF Reinsert
<1>8. ASSUME NEW o \in Operators, NEW t \in Tenants, DeleteTenant(o, t) PROVE RowsInv'
  <2>1. /\ tenantRow' = [tenantRow EXCEPT ![t] = NoTenant]
        /\ wanted' = [wanted EXCEPT ![t] = Deleted]
        /\ UNCHANGED request
        /\ crossed \subseteq crossed'
        /\ (\E p \in Operators : Saving(p, t)) => t \in crossed'
    BY <1>8 DEF DeleteTenant
  <2>2. /\ tenantRow'[t] = NoTenant /\ wanted'[t] = Deleted
        /\ \A u \in Tenants \ {t} : tenantRow'[u] = tenantRow[u] /\ wanted'[u] = wanted[u]
    BY <2>1 DEF RowsInv, RowsTyped
  <2>3. RowsTyped'
    BY <2>1 DEF RowsInv, RowsTyped, Asks
  <2>4. ASSUME NEW u \in Tenants \ crossed' PROVE Held(u)'
    <3>1. Held(u)
      BY <2>1 DEF RowsInv
    <3>2. CASE u = t
      BY <3>2, <2>1, <2>2 DEF Held, AsWanted, Saving
    <3>3. CASE u # t
      BY <3>1, <3>3, <2>1, <2>2 DEF Held, AsWanted, Saving, SavesCurrent
    <3> QED
      BY <3>2, <3>3
  <2> QED
    BY <2>3, <2>4 DEF RowsInv
<1>9. ASSUME NEW o \in Operators, NEW m \in Tenants \X Users, BeginAddUser(o, m) PROVE RowsInv'
  <2>1. Asks([at |-> "member", pair |-> m]) /\ [at |-> "member", pair |-> m].at = "member"
    BY DEF Asks
  <2> QED
    BY <1>9, <2>1, RowsUndisturbed DEF BeginAddUser, Accept, Continue
<1>10. ASSUME NEW o \in Operators, GetTenantUser(o) PROVE RowsInv'
  <2> DEFINE after == [request[o] EXCEPT !.at = "add"]
  <2>1. Asks(after) /\ after.at = "add"
    BY <1>0, <1>10, Moved DEF GetTenantUser, Runs, Asks
  <2>2. Rest(o) \/ request' = [request EXCEPT ![o] = after]
    BY <1>10 DEF GetTenantUser, Continue
  <2>3. UNCHANGED <<tenantRow, wanted, crossed>>
    BY <1>10 DEF GetTenantUser
  <2> HIDE DEF after
  <2> QED
    BY <2>1, <2>2, <2>3, <1>a, RowsUndisturbed
<1>11. ASSUME NEW o \in Operators, CreateTenantUser(o) PROVE RowsInv'
  BY <1>11, <1>a DEF CreateTenantUser
<1>12. ASSUME NEW o \in Operators, RequestFails(o) PROVE RowsInv'
  BY <1>12, <1>a DEF RequestFails
<1>13. CASE UNCHANGED tenantsVars
  BY <1>13 DEF tenantsVars, RowsInv, RowsTyped, Asks, Held, AsWanted, Saving, SavesCurrent
<1> QED
  BY <1>1, <1>2, <1>3, <1>4, <1>5, <1>6, <1>7, <1>8, <1>9, <1>10, <1>11, <1>12, <1>13
  DEF TenantsNext

(* For any tenants, domains, settings and requests: while no two requests    *)
(* for a tenant overlap, every field has the value last written to it and a  *)
(* deleted tenant stays deleted.                                             *)
THEOREM UpdatesAreHeld == TenantsSpec => []UpdatesHold
<1>1. TenantsInit => RowsInv
  BY RestingAsks, RowsAreDistinct
  DEF TenantsInit, RowsInv, RowsTyped, Held, AsWanted, Saving
<1>2. RowsInv => UpdatesHold
  BY DEF RowsInv, Held, AsWanted, UpdatesHold
<1> QED
  BY <1>1, <1>2, StepRows, PTL DEF TenantsSpec

-----------------------------------------------------------------------------
(* What the proofs about subscriptions and usage need to know of a request   *)
KnownJob(j) ==
  /\ "at" \in DOMAIN j
  /\ j.at \in {"plan", "active", "insert"} =>
       /\ {"profile", "plan"} \subseteq DOMAIN j
       /\ j.profile \in Profiles /\ j.plan \in Plans
  /\ j.at \in {"read", "end"} => "sub" \in DOMAIN j /\ j.sub \in Subscriptions
  /\ j.at \in {"owner", "usage", "create"} => "profile" \in DOMAIN j /\ j.profile \in Profiles
  /\ j.at = "update" => j.profile \in Profiles /\ j.record \in Records /\ j.total \in Nat

JobsKnown ==
  /\ job = [c \in Clients |-> job[c]]
  /\ \A c \in Clients : KnownJob(job[c])
  /\ \A c \in Clients : job[c].at = "end" => subscription[job[c].sub] \in SubRows
  /\ \A c \in Clients : job[c].at = "update" =>
       usage[job[c].record] # NoRow /\ usage[job[c].record].profile = job[c].profile
  /\ subscription \in [Subscriptions -> {NoRow} \cup SubRows]
  /\ usage \in [Records -> {NoRow} \cup UsageRows]
  /\ recorded \in [Profiles -> Nat]

(* A request about to insert a subscription found none, and is alone.        *)
Subscribing(c, p) == job[c].at = "insert" /\ job[c].profile = p

Subscribed ==
  \A p \in Profiles \ raced :
    /\ \A s, t \in Active(p) : s = t
    /\ \A c \in Clients : Subscribing(c, p) => Active(p) = {}
    /\ \A c, d \in Clients : Subscribing(c, p) /\ Subscribing(d, p) => c = d

(* A request about to write usage has read what the record holds, and is     *)
(* alone; a profile has one record from its first usage on.                  *)
Recording(c, p) == job[c].at \in {"create", "update"} /\ job[c].profile = p

Recorded ==
  \A p \in Profiles \ mixed :
    /\ \A u \in OfProfile(p) : usage[u].used = recorded[p]
    /\ recorded[p] > 0 => OfProfile(p) # {}
    /\ \A u, v \in OfProfile(p) : u = v
    /\ \A c \in Clients : job[c].at = "create" /\ Recording(c, p) => OfProfile(p) = {}
    /\ \A c \in Clients : job[c].at = "update" /\ Recording(c, p) =>
         OfProfile(p) = {job[c].record} /\ job[c].total = recorded[p] + 1
    /\ \A c, d \in Clients : Recording(c, p) /\ Recording(d, p) => c = d

PlansInv == JobsKnown /\ Subscribed /\ Recorded

LEMMA SubscribedKept ==
  ASSUME Subscribed, UNCHANGED <<subscription, raced>>,
         \A c \in Clients, p \in Profiles : Subscribing(c, p)' => Subscribing(c, p)
  PROVE  Subscribed'
BY DEF Subscribed, Active

LEMMA RecordedKept ==
  ASSUME Recorded, UNCHANGED <<usage, mixed, recorded>>,
         \A c \in Clients, p \in Profiles : Recording(c, p)' => Recording(c, p) /\ job'[c] = job[c]
  PROVE  Recorded'
BY DEF Recorded, OfProfile

LEMMA JobsSet ==
  ASSUME JobsKnown, NEW c \in Clients, NEW after, job' = [job EXCEPT ![c] = after]
  PROVE  /\ \A d \in Clients : job'[d] = IF d = c THEN after ELSE job[d]
         /\ job' = [d \in Clients |-> job'[d]]
BY DEF JobsKnown

(* A step that only moves a request on, to no write of a subscription or of  *)
(* usage, disturbs nothing.                                                  *)
LEMMA OtherJobs ==
  ASSUME PlansInv, UNCHANGED <<subscription, usage, history>>,
         NEW c \in Clients, NEW after, job' = [job EXCEPT ![c] = after], KnownJob(after),
         after.at \notin {"insert", "create", "update"},
         after.at = "end" => subscription[after.sub] \in SubRows
  PROVE  PlansInv'
<1>1. /\ \A d \in Clients : job'[d] = IF d = c THEN after ELSE job[d]
      /\ job' = [d \in Clients |-> job'[d]]
  BY JobsSet DEF PlansInv
<1>2. JobsKnown'
  BY <1>1 DEF PlansInv, JobsKnown, KnownJob, history
<1>3. Subscribed'
  BY <1>1, SubscribedKept DEF PlansInv, Subscribing, history
<1>4. Recorded'
  BY <1>1, RecordedKept DEF PlansInv, Recording, history
<1> QED
  BY <1>2, <1>3, <1>4 DEF PlansInv

LEMMA IdleKnown == KnownJob(Idle) /\ Idle.at = "idle"
BY DEF KnownJob, Idle

LEMMA Ending ==
  ASSUME PlansInv, UNCHANGED <<subscription, usage, history>>, NEW c \in Clients, End(c)
  PROVE  PlansInv'
BY IdleKnown, OtherJobs DEF End

(* Moving on within the same kind of request keeps what is known of it.      *)
LEMMA Proceeding ==
  ASSUME PlansInv, UNCHANGED <<subscription, usage, history>>, NEW c \in Clients,
         NEW allowed, NEW to, Proceed(c, allowed, to),
         \/ job[c].at = "plan" /\ to = "active"
         \/ job[c].at = "check" /\ to = "delete"
         \/ job[c].at = "owner" /\ to = "usage"
         \/ job[c].at = "read" /\ to = "end" /\ (allowed => subscription[job[c].sub] \in SubRows)
  PROVE  PlansInv'
<1> DEFINE after == [job[c] EXCEPT !.at = to]
<1>1. KnownJob(job[c])
  BY DEF PlansInv, JobsKnown
<1>2. after.at = to /\ DOMAIN after = DOMAIN job[c] /\ \A f \in DOMAIN job[c] : f # "at" => after[f] = job[c][f]
  BY <1>1, Moved DEF KnownJob
<1>3. KnownJob(after)
  BY <1>1, <1>2 DEF KnownJob
<1>4. to = "end" => after.sub = job[c].sub
  BY <1>1, <1>2 DEF KnownJob
<1>5. job' = [job EXCEPT ![c] = IF allowed THEN after ELSE Idle]
  BY DEF Proceed
<1> HIDE DEF after
<1>6. CASE allowed
  BY <1>2, <1>3, <1>4, <1>5, <1>6, OtherJobs
<1>7. CASE ~allowed
  BY <1>5, <1>7, IdleKnown, OtherJobs
<1> QED
  BY <1>6, <1>7

LEMMA StepReadActive ==
  ASSUME PlansInv, NEW c \in Clients, ReadActive(c)
  PROVE  PlansInv'
<1> DEFINE p == job[c].profile  after == [job[c] EXCEPT !.at = "insert"]
<1>1. KnownJob(job[c]) /\ job[c].at = "active"
  BY DEF PlansInv, JobsKnown, ReadActive, At
<1>2. p \in Profiles /\ KnownJob(after) /\ after.at = "insert" /\ after.profile = p
  BY <1>1, Moved DEF KnownJob
<1>3. CASE ~NoneActive(c)
  BY <1>3, IdleKnown, OtherJobs DEF ReadActive, Proceed, history, tables
<1>4. CASE NoneActive(c)
  <2>1. /\ Active(p) = {}
        /\ job' = [job EXCEPT ![c] = after]
        /\ UNCHANGED <<tables, mixed, recorded>>
        /\ raced \subseteq raced'
        /\ (\E d \in Clients \ {c} : job[d].at \in {"insert"} /\ job[d].profile = p) => p \in raced'
    BY <1>4 DEF ReadActive, Proceed, NoneActive, Others
  <2> HIDE DEF after, p
  <2>2. (\E d \in Clients \ {c} : Subscribing(d, p)) => p \in raced'
    BY <2>1 DEF Subscribing
  <2>3. /\ \A d \in Clients : job'[d] = IF d = c THEN after ELSE job[d]
        /\ job' = [d \in Clients |-> job'[d]]
    BY <2>1, JobsSet DEF PlansInv
  <2>4. JobsKnown'
    BY <1>2, <2>1, <2>3 DEF PlansInv, JobsKnown, KnownJob, tables
  <2>5. Recorded'
    BY <1>2, <2>1, <2>3, RecordedKept DEF PlansInv, Recording, tables
  <2>6. \A d \in Clients, q \in Profiles :
          Subscribing(d, q)' => IF d = c THEN q = p ELSE Subscribing(d, q)
    BY <1>2, <2>3 DEF Subscribing
  <2>7. \A q \in Profiles : Active(q)' = Active(q)
    BY <2>1 DEF Active, tables
  <2>8. ASSUME NEW q \in Profiles \ raced'
        PROVE  /\ \A s, t \in Active(q)' : s = t
               /\ \A d \in Clients : Subscribing(d, q)' => Active(q)' = {}
               /\ \A d, e \in Clients : Subscribing(d, q)' /\ Subscribing(e, q)' => d = e
    <3>1. q \in Profiles \ raced
      BY <2>1, <2>8
    <3>2. \A s, t \in Active(q)' : s = t
      BY <2>7, <3>1 DEF PlansInv, Subscribed
    <3>3. ASSUME NEW d \in Clients, Subscribing(d, q)' PROVE Active(q)' = {}
      BY <2>1, <2>6, <2>7, <3>1, <3>3 DEF PlansInv, Subscribed
    <3>4. ASSUME NEW d \in Clients, NEW e \in Clients, Subscribing(d, q)', Subscribing(e, q)'
          PROVE  d = e
      <4>1. CASE q = p
        BY <2>2, <2>6, <3>4, <4>1, <2>8
      <4>2. CASE q # p
        BY <2>6, <3>1, <3>4, <4>2 DEF PlansInv, Subscribed
      <4> QED
        BY <4>1, <4>2
    <3> QED
      BY <3>2, <3>3, <3>4
  <2>9. Subscribed'
    BY <2>8 DEF Subscribed
  <2> QED
    BY <2>4, <2>5, <2>9 DEF PlansInv
<1> QED
  BY <1>3, <1>4

LEMMA StepCreateSubscription ==
  ASSUME PlansInv, NEW c \in Clients, NEW s \in Subscriptions, CreateSubscription(c, s)
  PROVE  PlansInv'
<1> DEFINE p == job[c].profile
           new == [profile |-> job[c].profile, plan |-> job[c].plan, status |-> "active"]
<1>1. KnownJob(job[c]) /\ job[c].at = "insert"
  BY DEF PlansInv, JobsKnown, CreateSubscription, At
<1>2. p \in Profiles /\ new \in SubRows /\ new.profile = p
  BY <1>1 DEF KnownJob, SubRows
<1>3. /\ subscription' = [subscription EXCEPT ![s] = new]
      /\ job' = [job EXCEPT ![c] = Idle]
      /\ UNCHANGED <<planRow, usage, history>>
  BY DEF CreateSubscription, End
<1>4. Subscribing(c, p)
  BY <1>1 DEF Subscribing
<1> HIDE DEF p, new
<1>5. /\ \A d \in Clients : job'[d] = IF d = c THEN Idle ELSE job[d]
      /\ job' = [d \in Clients |-> job'[d]]
  BY <1>3, JobsSet DEF PlansInv
<1>6. /\ subscription' \in [Subscriptions -> {NoRow} \cup SubRows]
      /\ \A t \in Subscriptions : subscription'[t] = IF t = s THEN new ELSE subscription[t]
  BY <1>2, <1>3 DEF PlansInv, JobsKnown
<1>7. JobsKnown'
  <2>1. \A d \in Clients : KnownJob(job'[d])
    BY <1>5, IdleKnown DEF PlansInv, JobsKnown
  <2>2. ASSUME NEW d \in Clients, job'[d].at = "end" PROVE subscription'[job'[d].sub] \in SubRows
    <3>1. job'[d] = job[d] /\ subscription[job[d].sub] \in SubRows /\ job[d].sub \in Subscriptions
      BY <1>5, <2>2, IdleKnown DEF PlansInv, JobsKnown, KnownJob
    <3> QED
      BY <1>2, <1>6, <3>1
  <2>3. ASSUME NEW d \in Clients, job'[d].at = "update"
        PROVE  usage'[job'[d].record] # NoRow /\ usage'[job'[d].record].profile = job'[d].profile
    <3>1. job'[d] = job[d]
      BY <1>5, <2>3, IdleKnown
    <3> QED
      BY <1>3, <2>3, <3>1 DEF PlansInv, JobsKnown
  <2> QED
    BY <1>3, <1>5, <1>6, <2>1, <2>2, <2>3 DEF PlansInv, JobsKnown, history
<1>8. Recorded'
  BY <1>3, <1>5, IdleKnown, RecordedKept DEF PlansInv, Recording, history
<1>9. \A d \in Clients, q \in Profiles : Subscribing(d, q)' => Subscribing(d, q) /\ d # c
  BY <1>5, IdleKnown DEF Subscribing
<1>10. \A q \in Profiles : Active(q)' \subseteq IF q = p THEN Active(q) \cup {s} ELSE Active(q)
  BY <1>2, <1>6 DEF Active
<1>11. ASSUME NEW q \in Profiles \ raced
       PROVE  /\ \A t, u \in Active(q)' : t = u
              /\ \A d \in Clients : Subscribing(d, q)' => Active(q)' = {}
              /\ \A d, e \in Clients : Subscribing(d, q)' /\ Subscribing(e, q)' => d = e
  <2>1. CASE q = p
    <3>1. Active(q) = {} /\ \A d \in Clients : Subscribing(d, q) => d = c
      BY <1>4, <2>1 DEF PlansInv, Subscribed
    <3> QED
      BY <1>9, <1>10, <2>1, <3>1
  <2>2. CASE q # p
    BY <1>9, <1>10, <2>2 DEF PlansInv, Subscribed
  <2> QED
    BY <2>1, <2>2
<1>12. Subscribed'
  BY <1>3, <1>11 DEF Subscribed, history
<1> QED
  BY <1>7, <1>8, <1>12 DEF PlansInv

LEMMA StepUpdateSubscription ==
  ASSUME PlansInv, NEW c \in Clients, UpdateSubscription(c)
  PROVE  PlansInv'
<1> DEFINE s == job[c].sub  row == [subscription[s] EXCEPT !.status = "cancelled"]
<1>1. s \in Subscriptions /\ subscription[s] \in SubRows
  BY DEF PlansInv, JobsKnown, KnownJob, UpdateSubscription, At
<1>2. row \in SubRows /\ row.status = "cancelled"
  BY <1>1 DEF SubRows
<1>3. /\ subscription' = [subscription EXCEPT ![s] = row]
      /\ job' = [job EXCEPT ![c] = Idle]
      /\ UNCHANGED <<planRow, usage, history>>
  BY <1>1 DEF UpdateSubscription, End, PlansInv, JobsKnown
<1> HIDE DEF s, row
<1>5. /\ \A d \in Clients : job'[d] = IF d = c THEN Idle ELSE job[d]
      /\ job' = [d \in Clients |-> job'[d]]
  BY <1>3, JobsSet DEF PlansInv
<1>6. /\ subscription' \in [Subscriptions -> {NoRow} \cup SubRows]
      /\ \A t \in Subscriptions : subscription'[t] = IF t = s THEN row ELSE subscription[t]
  BY <1>2, <1>3 DEF PlansInv, JobsKnown
<1>7. JobsKnown'
  <2>1. \A d \in Clients : KnownJob(job'[d])
    BY <1>5, IdleKnown DEF PlansInv, JobsKnown
  <2>2. ASSUME NEW d \in Clients, job'[d].at = "end" PROVE subscription'[job'[d].sub] \in SubRows
    <3>1. job'[d] = job[d] /\ subscription[job[d].sub] \in SubRows /\ job[d].sub \in Subscriptions
      BY <1>5, <2>2, IdleKnown DEF PlansInv, JobsKnown, KnownJob
    <3> QED
      BY <1>2, <1>6, <3>1
  <2>3. ASSUME NEW d \in Clients, job'[d].at = "update"
        PROVE  usage'[job'[d].record] # NoRow /\ usage'[job'[d].record].profile = job'[d].profile
    <3>1. job'[d] = job[d]
      BY <1>5, <2>3, IdleKnown
    <3> QED
      BY <1>3, <2>3, <3>1 DEF PlansInv, JobsKnown
  <2> QED
    BY <1>3, <1>5, <1>6, <2>1, <2>2, <2>3 DEF PlansInv, JobsKnown, history
<1>8. Recorded'
  BY <1>3, <1>5, IdleKnown, RecordedKept DEF PlansInv, Recording, history
<1>9. \A d \in Clients, q \in Profiles : Subscribing(d, q)' => Subscribing(d, q)
  BY <1>5, IdleKnown DEF Subscribing
<1>10. \A q \in Profiles : Active(q)' \subseteq Active(q)
  BY <1>2, <1>6 DEF Active
<1>12. Subscribed'
  BY <1>3, <1>9, <1>10 DEF PlansInv, Subscribed, history
<1> QED
  BY <1>7, <1>8, <1>12 DEF PlansInv

LEMMA StepGetCurrentUsage ==
  ASSUME PlansInv, NEW c \in Clients, GetCurrentUsage(c)
  PROVE  PlansInv'
<1> DEFINE p == job[c].profile
<1>1. KnownJob(job[c]) /\ job[c].at = "usage" /\ p \in Profiles
  BY DEF PlansInv, JobsKnown, KnownJob, GetCurrentUsage, At
<1>2. PICK after :
        /\ job' = [job EXCEPT ![c] = after]
        /\ KnownJob(after) /\ after.profile = p
        /\ \/ after.at = "create" /\ OfProfile(p) = {}
           \/ /\ after.at = "update"
              /\ after.record \in OfProfile(p)
              /\ after.total = usage[after.record].used + 1
  <2>1. CASE OfProfile(p) = {} /\ Proceed(c, TRUE, "create")
    <3> DEFINE after == [job[c] EXCEPT !.at = "create"]
    <3>1. after.at = "create" /\ after.profile = p /\ KnownJob(after)
      BY <1>1, Moved DEF KnownJob
    <3>2. job' = [job EXCEPT ![c] = after]
      BY <2>1 DEF Proceed
    <3> QED
      BY <2>1, <3>1, <3>2
  <2>2. ASSUME NEW u \in OfProfile(p),
               job' = [job EXCEPT ![c] = [at |-> "update", profile |-> p,
                                          record |-> u, total |-> usage[u].used + 1]]
        PROVE  \E after :
                 /\ job' = [job EXCEPT ![c] = after]
                 /\ KnownJob(after) /\ after.profile = p
                 /\ after.at = "update"
                 /\ after.record \in OfProfile(p)
                 /\ after.total = usage[after.record].used + 1
    <3>1. u \in Records /\ usage[u].used \in Nat
      BY DEF OfProfile, PlansInv, JobsKnown, UsageRows
    <3> DEFINE after == [at |-> "update", profile |-> p, record |-> u, total |-> usage[u].used + 1]
    <3>2. KnownJob(after)
      BY <1>1, <3>1 DEF KnownJob
    <3>3. after.profile = p /\ after.at = "update" /\ after.record = u /\ after.total = usage[u].used + 1
      OBVIOUS
    <3>4. job' = [job EXCEPT ![c] = after]
      BY <2>2
    <3> HIDE DEF after
    <3> QED
      BY <3>2, <3>3, <3>4
  <2> QED
    BY <2>1, <2>2 DEF GetCurrentUsage
<1>3. /\ UNCHANGED <<tables, raced, recorded>>
      /\ mixed \subseteq mixed'
      /\ (\E d \in Clients \ {c} : Recording(d, p)) => p \in mixed'
  BY DEF GetCurrentUsage, Others, Recording
<1> HIDE DEF p
<1>4. /\ \A d \in Clients : job'[d] = IF d = c THEN after ELSE job[d]
      /\ job' = [d \in Clients |-> job'[d]]
  BY <1>2, JobsSet DEF PlansInv
<1>5. JobsKnown'
  BY <1>2, <1>3, <1>4 DEF PlansInv, JobsKnown, OfProfile, tables
<1>6. Subscribed'
  BY <1>2, <1>3, <1>4, SubscribedKept DEF PlansInv, Subscribing, tables
<1>7. \A d \in Clients, q \in Profiles :
        Recording(d, q)' => IF d = c THEN q = p ELSE Recording(d, q) /\ job'[d] = job[d]
  BY <1>2, <1>4 DEF Recording
<1>8. \A q \in Profiles : OfProfile(q)' = OfProfile(q)
  BY <1>3 DEF OfProfile, tables
<1>9. ASSUME NEW q \in Profiles \ mixed'
      PROVE  /\ \A u \in OfProfile(q)' : usage'[u].used = recorded'[q]
             /\ recorded'[q] > 0 => OfProfile(q)' # {}
             /\ \A u, v \in OfProfile(q)' : u = v
             /\ \A d \in Clients : job'[d].at = "create" /\ Recording(d, q)' => OfProfile(q)' = {}
             /\ \A d \in Clients : job'[d].at = "update" /\ Recording(d, q)' =>
                  OfProfile(q)' = {job'[d].record} /\ job'[d].total = recorded'[q] + 1
             /\ \A d, e \in Clients : Recording(d, q)' /\ Recording(e, q)' => d = e
  <2>1. q \in Profiles \ mixed /\ usage' = usage /\ recorded' = recorded
    BY <1>3, <1>9 DEF tables
  <2>2. /\ \A u \in OfProfile(q)' : usage'[u].used = recorded'[q]
        /\ recorded'[q] > 0 => OfProfile(q)' # {}
        /\ \A u, v \in OfProfile(q)' : u = v
    BY <1>8, <2>1 DEF PlansInv, Recorded
  <2>3. ASSUME NEW d \in Clients, job'[d].at = "create", Recording(d, q)' PROVE OfProfile(q)' = {}
    <3>1. CASE d = c
      BY <1>2, <1>4, <1>7, <1>8, <2>3, <3>1
    <3>2. CASE d # c
      BY <1>7, <1>8, <2>1, <2>3, <3>2 DEF PlansInv, Recorded
    <3> QED
      BY <3>1, <3>2
  <2>4. ASSUME NEW d \in Clients, job'[d].at = "update", Recording(d, q)'
        PROVE  OfProfile(q)' = {job'[d].record} /\ job'[d].total = recorded'[q] + 1
    <3>1. CASE d = c
      <4>1. q = p /\ after.record \in OfProfile(q) /\ after.total = usage[after.record].used + 1
        BY <1>2, <1>4, <1>7, <2>4, <3>1
      <4>2. OfProfile(q) = {after.record} /\ usage[after.record].used = recorded[q]
        BY <2>1, <4>1 DEF PlansInv, Recorded
      <4> QED
        BY <1>4, <1>8, <2>1, <3>1, <4>1, <4>2
    <3>2. CASE d # c
      BY <1>7, <1>8, <2>1, <2>4, <3>2 DEF PlansInv, Recorded
    <3> QED
      BY <3>1, <3>2
  <2>5. ASSUME NEW d \in Clients, NEW e \in Clients, Recording(d, q)', Recording(e, q)' PROVE d = e
    <3>1. CASE q = p
      BY <1>3, <1>7, <1>9, <2>5, <3>1
    <3>2. CASE q # p
      BY <1>7, <2>1, <2>5, <3>2 DEF PlansInv, Recorded
    <3> QED
      BY <3>1, <3>2
  <2> QED
    BY <2>2, <2>3, <2>4, <2>5
<1>10. Recorded'
  BY <1>9 DEF Recorded
<1> QED
  BY <1>5, <1>6, <1>10 DEF PlansInv

LEMMA RowIsNotNone ==
  ASSUME NEW p, NEW used
  PROVE  [profile |-> p, used |-> used] # NoRow
<1>1. "used" \in DOMAIN [profile |-> p, used |-> used] /\ "used" \notin DOMAIN NoRow
  BY DEF NoRow
<1> QED
  BY <1>1

(* The write of a recording that nobody else disturbed *)
LEMMA StepWrite ==
  ASSUME PlansInv, NEW c \in Clients, NEW u \in Records, NEW amount \in Nat,
         Write(c, u, amount),
         \/ job[c].at = "create" /\ usage[u] = NoRow /\ amount = 1
         \/ job[c].at = "update" /\ u = job[c].record /\ amount = job[c].total
  PROVE  PlansInv'
<1> DEFINE p == job[c].profile  row == [profile |-> p, used |-> amount]
<1>1. p \in Profiles /\ Recording(c, p)
  BY DEF PlansInv, JobsKnown, KnownJob, Recording
<1>2. row \in UsageRows /\ row.profile = p /\ row.used = amount /\ row # NoRow
  BY <1>1, RowIsNotNone DEF UsageRows
<1>3. /\ usage' = [usage EXCEPT ![u] = row]
      /\ recorded' = [recorded EXCEPT ![p] = @ + 1]
      /\ job' = [job EXCEPT ![c] = Idle]
      /\ UNCHANGED <<planRow, subscription, raced, mixed>>
  BY DEF Write, End
<1> HIDE DEF p, row
<1>4. /\ \A d \in Clients : job'[d] = IF d = c THEN Idle ELSE job[d]
      /\ job' = [d \in Clients |-> job'[d]]
  BY <1>3, JobsSet DEF PlansInv
<1>5. /\ usage' \in [Records -> {NoRow} \cup UsageRows]
      /\ \A v \in Records : usage'[v] = IF v = u THEN row ELSE usage[v]
      /\ recorded' \in [Profiles -> Nat]
      /\ \A q \in Profiles : recorded[q] \in Nat /\ recorded'[q] = IF q = p THEN recorded[q] + 1 ELSE recorded[q]
  BY <1>1, <1>2, <1>3 DEF PlansInv, JobsKnown
<1>6. JobsKnown'
  <2>1. \A d \in Clients : KnownJob(job'[d])
    BY <1>4, IdleKnown DEF PlansInv, JobsKnown
  <2>2. ASSUME NEW d \in Clients, job'[d].at = "update"
        PROVE  usage'[job'[d].record] # NoRow /\ usage'[job'[d].record].profile = job'[d].profile
    <3>1. /\ job'[d] = job[d] /\ job[d].record \in Records
          /\ usage[job[d].record] # NoRow /\ usage[job[d].record].profile = job[d].profile
      BY <1>4, <2>2, IdleKnown DEF PlansInv, JobsKnown, KnownJob
    <3>2. job[d].record = u => job[d].profile = p
      BY <3>1 DEF PlansInv, JobsKnown, p
    <3> QED
      BY <1>2, <1>5, <3>1, <3>2
  <2> QED
    BY <1>3, <1>4, <1>5, <2>1, <2>2, IdleKnown DEF PlansInv, JobsKnown
<1>7. Subscribed'
  BY <1>3, <1>4, IdleKnown, SubscribedKept DEF PlansInv, Subscribing
<1>8. \A d \in Clients, q \in Profiles : Recording(d, q)' => Recording(d, q) /\ d # c /\ job'[d] = job[d]
  BY <1>4, IdleKnown DEF Recording
<1>9. ASSUME NEW q \in Profiles \ mixed
      PROVE  /\ \A v \in OfProfile(q)' : usage'[v].used = recorded'[q]
             /\ recorded'[q] > 0 => OfProfile(q)' # {}
             /\ \A v, w \in OfProfile(q)' : v = w
             /\ \A d \in Clients : job'[d].at = "create" /\ Recording(d, q)' => OfProfile(q)' = {}
             /\ \A d \in Clients : job'[d].at = "update" /\ Recording(d, q)' =>
                  OfProfile(q)' = {job'[d].record} /\ job'[d].total = recorded'[q] + 1
             /\ \A d, e \in Clients : Recording(d, q)' /\ Recording(e, q)' => d = e
  <2>1. CASE q = p
    <3>1. \A d \in Clients : ~Recording(d, q)'
      BY <1>1, <1>8, <1>9, <2>1 DEF PlansInv, Recorded
    <3>2. OfProfile(q) \subseteq {u} /\ amount = recorded[q] + 1
      <4>1. CASE job[c].at = "create" /\ usage[u] = NoRow /\ amount = 1
        <5>1. OfProfile(q) = {} /\ ~(recorded[q] > 0)
          BY <1>1, <1>9, <2>1, <4>1 DEF PlansInv, Recorded
        <5> QED
          BY <1>5, <4>1, <5>1
      <4>2. CASE job[c].at = "update" /\ u = job[c].record /\ amount = job[c].total
        BY <1>1, <1>9, <2>1, <4>2 DEF PlansInv, Recorded
      <4> QED
        BY <4>1, <4>2
    <3>3. OfProfile(q)' = {u}
      BY <1>2, <1>5, <2>1, <3>2 DEF OfProfile
    <3>4. usage'[u].used = recorded'[q]
      BY <1>2, <1>5, <2>1, <3>2
    <3> QED
      BY <3>1, <3>3, <3>4
  <2>2. CASE q # p
    <3>1. OfProfile(q)' = OfProfile(q) /\ u \notin OfProfile(q)
      <4>1. u \notin OfProfile(q)
        <5>1. CASE job[c].at = "create" /\ usage[u] = NoRow /\ amount = 1
          BY <5>1 DEF OfProfile
        <5>2. CASE job[c].at = "update" /\ u = job[c].record /\ amount = job[c].total
          BY <5>2, <2>2 DEF PlansInv, JobsKnown, OfProfile, p
        <5> QED
          BY <5>1, <5>2
      <4> QED
        BY <1>2, <1>5, <2>2, <4>1 DEF OfProfile
    <3>2. \A v \in OfProfile(q) : usage'[v] = usage[v]
      BY <1>5, <3>1 DEF OfProfile
    <3> QED
      BY <1>5, <1>8, <1>9, <2>2, <3>1, <3>2 DEF PlansInv, Recorded
  <2> QED
    BY <2>1, <2>2
<1>10. Recorded'
  BY <1>3, <1>9 DEF Recorded
<1> QED
  BY <1>6, <1>7, <1>10 DEF PlansInv

LEMMA StepPlans == PlansInv /\ [PlansNext]_plansVars => PlansInv'
<1> SUFFICES ASSUME PlansInv, [PlansNext]_plansVars PROVE PlansInv'
  OBVIOUS
<1>1. ASSUME NEW c \in Clients, NEW first, Start(c, first), KnownJob(first),
             first.at \in {"plan", "read", "check", "owner"}
      PROVE  PlansInv'
  BY <1>1, OtherJobs DEF Start, tables
<1>2. ASSUME NEW c \in Clients, Handle(c) PROVE PlansInv'
  <2>1. ASSUME NEW p \in Profiles, NEW r \in Plans, BeginSubscribe(c, p, r) PROVE PlansInv'
    BY <2>1, <1>1 DEF BeginSubscribe, KnownJob
  <2>2. ASSUME NEW s \in Subscriptions, BeginCancel(c, s) PROVE PlansInv'
    BY <2>2, <1>1 DEF BeginCancel, KnownJob
  <2>3. ASSUME NEW r \in Plans, BeginDelete(c, r) PROVE PlansInv'
    BY <2>3, <1>1 DEF BeginDelete, KnownJob
  <2>4. ASSUME NEW p \in Profiles, BeginUsage(c, p) PROVE PlansInv'
    BY <2>4, <1>1 DEF BeginUsage, KnownJob
  <2> QED
    BY <1>2, <2>1, <2>2, <2>3, <2>4 DEF Handle
<1>3. ASSUME NEW c \in Clients, SubscribeToPlan(c) PROVE PlansInv'
  <2>1. ASSUME ReadPlan(c) PROVE PlansInv'
    BY <2>1, Proceeding DEF ReadPlan, At, tables
  <2> QED
    BY <1>3, <2>1, StepReadActive, StepCreateSubscription DEF SubscribeToPlan
<1>4. ASSUME NEW c \in Clients, CancelSubscription(c) PROVE PlansInv'
  <2>1. ASSUME ReadSubscription(c) PROVE PlansInv'
    <3>1. (\E p \in Profiles : job[c].sub \in Active(p)) => subscription[job[c].sub] \in SubRows
      BY DEF Active, PlansInv, JobsKnown
    <3> QED
      BY <2>1, <3>1, Proceeding DEF ReadSubscription, At, tables
  <2> QED
    BY <1>4, <2>1, StepUpdateSubscription DEF CancelSubscription
<1>5. ASSUME NEW c \in Clients, DeleteRatePlan(c) PROVE PlansInv'
  <2>1. ASSUME ListSubscriptions(c) PROVE PlansInv'
    BY <2>1, Proceeding DEF ListSubscriptions, At, tables
  <2>2. ASSUME DeletePlanRow(c) PROVE PlansInv'
    BY <2>2, Ending DEF DeletePlanRow
  <2> QED
    BY <1>5, <2>1, <2>2 DEF DeleteRatePlan
<1>6. ASSUME NEW c \in Clients, RecordUsage(c) PROVE PlansInv'
  <2>1. ASSUME ReadOwner(c) PROVE PlansInv'
    BY <2>1, Proceeding DEF ReadOwner, At, tables
  <2>2. ASSUME NEW u \in Records, CreateUsage(c, u) PROVE PlansInv'
    BY <2>2, StepWrite DEF CreateUsage, At
  <2>3. ASSUME UpdateUsage(c) PROVE PlansInv'
    <3>1. job[c].record \in Records /\ job[c].total \in Nat
      BY <2>3 DEF UpdateUsage, At, PlansInv, JobsKnown, KnownJob
    <3> QED
      BY <2>3, <3>1, StepWrite DEF UpdateUsage, At
  <2> QED
    BY <1>6, <2>1, <2>2, <2>3, StepGetCurrentUsage DEF RecordUsage
<1>7. ASSUME NEW c \in Clients, Fail(c) PROVE PlansInv'
  BY <1>7, Ending DEF Fail, tables
<1>8. CASE UNCHANGED plansVars
  <2>1. UNCHANGED <<job, subscription, usage, raced, mixed, recorded>>
    BY <1>8 DEF plansVars, tables, history
  <2>2. JobsKnown'
    BY <2>1 DEF PlansInv, JobsKnown
  <2>3. Subscribed' /\ Recorded'
    BY <2>1, SubscribedKept, RecordedKept DEF PlansInv, Subscribing, Recording
  <2> QED
    BY <2>2, <2>3 DEF PlansInv
<1> QED
  BY <1>2, <1>3, <1>4, <1>5, <1>6, <1>7, <1>8 DEF PlansNext

LEMMA PlansInvariant == PlansSpec => []PlansInv
<1>1. PlansInit => PlansInv
  <2> SUFFICES ASSUME PlansInit PROVE PlansInv
    OBVIOUS
  <2>1. \A c \in Clients : job[c] = Idle
    BY DEF PlansInit
  <2>2. JobsKnown
    BY <2>1, IdleKnown DEF PlansInit, JobsKnown
  <2>3. \A p \in Profiles : Active(p) = {} /\ OfProfile(p) = {} /\ recorded[p] = 0
    BY DEF PlansInit, Active, OfProfile
  <2> QED
    BY <2>1, <2>2, <2>3, IdleKnown DEF PlansInv, Subscribed, Recorded, Subscribing, Recording
<1> QED
  BY <1>1, StepPlans, PTL DEF PlansSpec

(* For any plans, profiles and requests: a profile has two active            *)
(* subscriptions only after two requests have looked for one at a time.      *)
THEOREM SubscribedOnce == PlansSpec => []OneActive
<1>1. PlansInv => OneActive
  BY DEF PlansInv, Subscribed, OneActive
<1> QED
  BY <1>1, PlansInvariant, PTL

(* ... and its usage is all in one record until two recordings overlap.      *)
THEOREM UsageIsKept == PlansSpec => []UsageKept
<1>1. PlansInv => UsageKept
  BY DEF PlansInv, Recorded, UsageKept
<1> QED
  BY <1>1, PlansInvariant, PTL

-----------------------------------------------------------------------------
(* The types of CarrierFailover *)
LEMMA RowTypes ==
  /\ Gone \notin Rows
  /\ Added \in Rows
  /\ \A row \in Rows, failed \in BOOLEAN : Reported(row, failed) \in Rows
  /\ \A row \in Rows : [row EXCEPT !.health = "unknown"] \in {r \in Rows : r.health = "unknown"}
  /\ \A row \in Rows, h \in {"healthy", "degraded", "unhealthy"} :
        [row EXCEPT !.health = h] \in Rows
<1>1. Gone \notin Rows /\ Added \in Rows
  BY DEF Rows, Gone, Added
<1>2. ASSUME NEW row \in Rows, NEW failed \in BOOLEAN PROVE Reported(row, failed) \in Rows
  <2>1. \A n, k \in Nat : [row EXCEPT !.total = n, !.failed = k] \in Rows
    BY DEF Rows
  <2>2. row.total + 1 \in Nat /\ (IF failed THEN row.failed + 1 ELSE row.failed) \in Nat
    <3>1. row.total \in Nat /\ row.failed \in Nat
      BY DEF Rows
    <3> QED
      BY <3>1
  <2> QED
    BY <2>1, <2>2 DEF Reported
<1>3. ASSUME NEW row \in Rows
      PROVE  [row EXCEPT !.health = "unknown"] \in {r \in Rows : r.health = "unknown"}
  BY DEF Rows
<1>4. ASSUME NEW row \in Rows, NEW h \in {"healthy", "degraded", "unhealthy"}
      PROVE  [row EXCEPT !.health = h] \in Rows
  BY DEF Rows
<1> QED
  BY <1>1, <1>2, <1>3, <1>4

LEMMA AskingTypes ==
  ASSUME NEW c \in Carriers, NEW n \in 0..MaxRetries, NEW seen \in SUBSET Carriers
  PROVE  Asking(c, n, seen) \in DownloadStates
BY DEF Asking, DownloadStates

LEMMA CarrierPhase ==
  ASSUME FailoverTypeOK, NEW d \in Downloads,
         download[d].at \in {"client", "call", "report"}
  PROVE  download[d] \in [at : {"client", "call", "report"}, from : Carriers,
                          attempt : 0..MaxRetries, failed : BOOLEAN, seen : SUBSET Carriers]
BY DEF FailoverTypeOK, DownloadStates, NoDownload

LEMMA AfterCarrierTypes ==
  ASSUME FailoverTypeOK, NEW d \in Downloads,
         download[d].at \in {"client", "call", "report"}
  PROVE  /\ AfterCarrier(d) \in DownloadStates
         /\ AfterCarrier(d).at \notin {"client", "call", "report"}
BY CarrierPhase DEF AfterCarrier, DownloadStates, NoDownload

LEMMA FailoverTypes == FailoverSpec => []FailoverTypeOK
<1>1. FailoverInit => FailoverTypeOK
  BY RowTypes, MaxDownloadsNat
  DEF FailoverInit, FailoverTypeOK, DownloadStates, CheckStates, NoDownload, NoCheck
<1>2. FailoverTypeOK /\ [FailoverNext]_failoverVars => FailoverTypeOK'
  <2> SUFFICES ASSUME FailoverTypeOK, [FailoverNext]_failoverVars PROVE FailoverTypeOK'
    OBVIOUS
  <2> USE DEF Go, Standing
  <2>1. ASSUME NEW d \in Downloads, NEW c \in Carriers, SelectCarrier(d, c)
        PROVE  FailoverTypeOK'
    <3>1. Asking(c, 0, {}) \in DownloadStates
      BY AskingTypes, MaxRetriesNat
    <3> QED
      BY <2>1, <3>1, MaxDownloadsNat DEF FailoverTypeOK, SelectCarrier
  <2>2. ASSUME NEW d \in Downloads, NEW c \in Carriers, TryOther(d, c)
        PROVE  FailoverTypeOK'
    <3>1. download[d].seen \in SUBSET Carriers
      BY <2>2 DEF TryOther, FailoverTypeOK, DownloadStates, NoDownload
    <3>2. Asking(c, 0, download[d].seen \cup {c}) \in DownloadStates
      BY <3>1, AskingTypes, MaxRetriesNat
    <3> QED
      BY <2>2, <3>2 DEF FailoverTypeOK, TryOther
  <2>3. ASSUME NEW d \in Downloads, NEW failed \in BOOLEAN, CarrierAnswers(d, failed)
        PROVE  FailoverTypeOK'
    <3>1. [download[d] EXCEPT !.at = "report", !.failed = failed] \in DownloadStates
      BY <2>3, CarrierPhase DEF CarrierAnswers, DownloadStates
    <3> QED
      BY <2>3, <3>1 DEF FailoverTypeOK, CarrierAnswers
  <2>4. ASSUME NEW d \in Downloads, GetClient(d)
        PROVE  FailoverTypeOK'
    <3>1. [download[d] EXCEPT !.at = "call"] \in DownloadStates
      BY <2>4, CarrierPhase DEF GetClient, DownloadStates
    <3>2. AfterCarrier(d) \in DownloadStates
      BY <2>4, AfterCarrierTypes DEF GetClient
    <3> QED
      BY <2>4, <3>1, <3>2 DEF FailoverTypeOK, GetClient
  <2>5. ASSUME NEW d \in Downloads, UpdateCarrierMetrics(d)
        PROVE  FailoverTypeOK'
    <3>1. /\ download[d].from \in Carriers
          /\ download[d].failed \in BOOLEAN
          /\ download[d].attempt \in 0..MaxRetries
          /\ download[d].seen \in SUBSET Carriers
      BY <2>5, CarrierPhase DEF UpdateCarrierMetrics
    <3>2. AfterCall(d) \in DownloadStates
      <4>1. AfterCarrier(d) \in DownloadStates
        BY <2>5, AfterCarrierTypes DEF UpdateCarrierMetrics
      <4>2. CASE download[d].attempt < MaxRetries
        <5>1. download[d].attempt + 1 \in 0..MaxRetries
          BY <3>1, <4>2, MaxRetriesNat
        <5> QED
          BY <3>1, <5>1, <4>1, AskingTypes DEF AfterCall, DownloadStates
      <4> QED
        BY <4>1, <4>2 DEF AfterCall, DownloadStates
    <3>3. carrier' \in [Carriers -> {Gone} \cup Rows]
      BY <2>5, <3>1, RowTypes DEF FailoverTypeOK, UpdateCarrierMetrics, There
    <3> QED
      BY <2>5, <3>2, <3>3 DEF FailoverTypeOK, UpdateCarrierMetrics
  <2>6. ASSUME NEW d \in Downloads, BeginFailover(d)
        PROVE  FailoverTypeOK'
    <3>1. [at |-> "choose", seen |-> {download[d].from}] \in DownloadStates
      BY <2>6 DEF BeginFailover, FailoverTypeOK, DownloadStates, NoDownload
    <3> QED
      BY <2>6, <3>1 DEF FailoverTypeOK, BeginFailover
  <2>7. ASSUME NEW d \in Downloads, Exhaust(d)
        PROVE  FailoverTypeOK'
    BY <2>7 DEF FailoverTypeOK, Exhaust, DownloadStates
  <2>8. ASSUME NEW c \in Carriers, AddCarrier(c) \/ RemoveCarrier(c)
        PROVE  FailoverTypeOK'
    <3>1. There(c) => [carrier[c] EXCEPT !.health = "unknown"]
                        \in {r \in Rows : r.health = "unknown"}
      BY RowTypes DEF FailoverTypeOK, There
    <3>2. There(c) /\ KeepChecked(c) => check' \in [Carriers -> CheckStates]
      <4> SUFFICES ASSUME There(c), KeepChecked(c) PROVE check' \in [Carriers -> CheckStates]
        OBVIOUS
      <4>1. check[c].at = "ask" => [check[c] EXCEPT !.of = [carrier[c] EXCEPT !.health = "unknown"]]
                                     \in CheckStates
        BY <3>1 DEF FailoverTypeOK, CheckStates, NoCheck
      <4> QED
        BY <4>1 DEF FailoverTypeOK, KeepChecked
    <3>3. check' \in [Carriers -> CheckStates]
      BY <2>8, <3>2 DEF AddCarrier, RemoveCarrier, FailoverTypeOK
    <3> QED
      BY <2>8, <3>3, RowTypes DEF FailoverTypeOK, AddCarrier, RemoveCarrier
  <2>9. ASSUME NEW c \in Carriers, UpdateCarrierHealth(c)
        PROVE  FailoverTypeOK'
    <3>1. check[c].status \in {"healthy", "degraded", "unhealthy"}
      BY <2>9 DEF UpdateCarrierHealth, FailoverTypeOK, CheckStates, NoCheck
    <3>2. carrier' \in [Carriers -> {Gone} \cup Rows]
      BY <2>9, <3>1, RowTypes DEF FailoverTypeOK, UpdateCarrierHealth, There
    <3>3. check' \in [Carriers -> CheckStates]
      BY <2>9 DEF FailoverTypeOK, UpdateCarrierHealth, CheckStates
    <3> QED
      BY <2>9, <3>2, <3>3 DEF FailoverTypeOK, UpdateCarrierHealth
  <2>10. ASSUME NEW c \in Carriers, NEW failed \in BOOLEAN, NEW slow \in BOOLEAN,
                CheckCarrier(c, failed, slow)
         PROVE  FailoverTypeOK'
    <3>1. EvaluateHealth(CheckedRow(c), failed, slow) \in {"healthy", "degraded", "unhealthy"}
      BY DEF EvaluateHealth
    <3>2. check' \in [Carriers -> CheckStates]
      BY <2>10, <3>1 DEF FailoverTypeOK, CheckCarrier, CheckStates
    <3> QED
      BY <2>10, <3>2 DEF FailoverTypeOK, CheckCarrier
  <2>11. CASE CheckAllCarriers
    BY <2>11 DEF FailoverTypeOK, CheckAllCarriers, CheckStates
  <2>12. CASE StartAgain
    BY <2>12, RowTypes DEF FailoverTypeOK, StartAgain, DownloadStates, CheckStates
  <2>13. CASE UNCHANGED failoverVars
    BY <2>13 DEF FailoverTypeOK, failoverVars
  <2> QED
    BY <2>1, <2>2, <2>3, <2>4, <2>5, <2>6, <2>7, <2>8, <2>9, <2>10, <2>11, <2>12, <2>13
    DEF FailoverNext
<1> QED
  BY <1>1, <1>2, PTL DEF FailoverSpec

-----------------------------------------------------------------------------
(* No step takes a carrier that is spent back into use.  Its counts stay, as *)
(* no download is at it and it is not chosen for one; a check of it, or of   *)
(* what it was, finds a rate that is too high.                               *)
LEMMA SpentStep ==
  ASSUME FailoverTypeOK, NEW c \in Carriers, Spent(c), [FailoverNext]_failoverVars
  PROVE  Spent(c)' \/ carrier'[c] \in {Gone, Added}
<1> USE DEF Go, Standing
<1> DEFINE AtIt(e) == download[e].at \in {"client", "call", "report"} /\ download[e].from = c
<1>1. /\ carrier[c].health # "healthy" /\ Poor(carrier[c]) /\ There(c)
      /\ \A e \in Downloads : ~AtIt(e)
  BY DEF Spent
(* A step of a download that is not at it then, and changes no carrier's row but its own *)
<1>2. ASSUME NEW d \in Downloads,
             \A e \in Downloads \ {d} : download'[e] = download[e],
             ~AtIt(d)',
             carrier'[c] = carrier[c], UNCHANGED check
      PROVE  Spent(c)'
  <2>1. \A e \in Downloads : ~AtIt(e)'
    BY <1>1, <1>2
  <2> QED
    BY <1>2, <2>1 DEF Spent, There, Poor
<1>3. ASSUME NEW d \in Downloads, NEW x \in Carriers, SelectCarrier(d, x) \/ TryOther(d, x)
      PROVE  Spent(c)'
  <2>1. x # c
    BY <1>1, <1>3 DEF SelectCarrier, TryOther, Usable
  <2>2. ~AtIt(d)'
    BY <1>3, <2>1 DEF SelectCarrier, TryOther, Asking, FailoverTypeOK
  <2>3. \A e \in Downloads \ {d} : download'[e] = download[e]
    BY <1>3 DEF SelectCarrier, TryOther, FailoverTypeOK
  <2>4. carrier'[c] = carrier[c] /\ UNCHANGED check
    BY <1>3 DEF SelectCarrier, TryOther
  <2> QED
    BY <1>2, <2>2, <2>3, <2>4
<1>4. ASSUME NEW d \in Downloads, NEW failed \in BOOLEAN, CarrierAnswers(d, failed)
      PROVE  Spent(c)'
  <2>1. download'[d] = [download[d] EXCEPT !.at = "report", !.failed = failed]
    BY <1>4 DEF CarrierAnswers, FailoverTypeOK
  <2>2. download'[d].from = download[d].from /\ download[d].from # c
    BY <1>4, <1>1, <2>1, CarrierPhase DEF CarrierAnswers
  <2>3. \A e \in Downloads \ {d} : download'[e] = download[e]
    BY <1>4 DEF CarrierAnswers, FailoverTypeOK
  <2>4. carrier'[c] = carrier[c] /\ UNCHANGED check
    BY <1>4 DEF CarrierAnswers
  <2> QED
    BY <1>2, <2>2, <2>3, <2>4
<1>5. ASSUME NEW d \in Downloads, GetClient(d)
      PROVE  Spent(c)'
  <2>1. ~AtIt(d)'
    <3>1. CASE download'[d] = AfterCarrier(d)
      BY <1>5, <3>1, AfterCarrierTypes DEF GetClient
    <3>2. CASE download'[d] = [download[d] EXCEPT !.at = "call"]
      BY <1>5, <1>1, <3>2, CarrierPhase DEF GetClient
    <3> QED
      BY <1>5, <3>1, <3>2 DEF GetClient, FailoverTypeOK
  <2>2. \A e \in Downloads \ {d} : download'[e] = download[e]
    BY <1>5 DEF GetClient, FailoverTypeOK
  <2>3. carrier'[c] = carrier[c] /\ UNCHANGED check
    BY <1>5 DEF GetClient
  <2> QED
    BY <1>2, <2>1, <2>2, <2>3
<1>6. ASSUME NEW d \in Downloads, UpdateCarrierMetrics(d)
      PROVE  Spent(c)'
  <2>1. download[d].from # c /\ download[d].from \in Carriers
    BY <1>1, <1>6, CarrierPhase DEF UpdateCarrierMetrics
  <2>2. ~AtIt(d)'
    <3>1. download'[d] = AfterCall(d)
      BY <1>6 DEF UpdateCarrierMetrics, FailoverTypeOK
    <3>2. CASE AfterCall(d) = AfterCarrier(d)
      BY <1>6, <3>1, <3>2, AfterCarrierTypes DEF UpdateCarrierMetrics
    <3>3. CASE AfterCall(d) # AfterCarrier(d)
      BY <2>1, <3>1, <3>3 DEF AfterCall, NoDownload, Asking
    <3> QED
      BY <3>2, <3>3
  <2>3. \A e \in Downloads \ {d} : download'[e] = download[e]
    BY <1>6 DEF UpdateCarrierMetrics, FailoverTypeOK
  <2>4. carrier'[c] = carrier[c] /\ UNCHANGED check
    BY <1>6, <2>1 DEF UpdateCarrierMetrics, FailoverTypeOK
  <2> QED
    BY <1>2, <2>2, <2>3, <2>4
<1>7. ASSUME NEW d \in Downloads, BeginFailover(d) \/ Exhaust(d)
      PROVE  Spent(c)'
  <2>1. ~AtIt(d)'
    BY <1>7 DEF BeginFailover, Exhaust, FailoverTypeOK, NoDownload
  <2>2. \A e \in Downloads \ {d} : download'[e] = download[e]
    BY <1>7 DEF BeginFailover, Exhaust, FailoverTypeOK
  <2>3. carrier'[c] = carrier[c] /\ UNCHANGED check
    BY <1>7 DEF BeginFailover, Exhaust
  <2> QED
    BY <1>2, <2>1, <2>2, <2>3
(* The steps of the carriers and their checks *)
<1>8. ASSUME UNCHANGED download, carrier'[c] = carrier[c],
             check'[c].at = "ask" => check'[c].of = Current \/ Poor(check'[c].of),
             check'[c].at = "update" => check'[c].status # "healthy"
      PROVE  Spent(c)'
  BY <1>1, <1>8 DEF Spent, There, Poor
<1>9. ASSUME NEW x \in Carriers, AddCarrier(x) \/ RemoveCarrier(x)
      PROVE  Spent(c)' \/ carrier'[c] \in {Gone, Added}
  <2>1. CASE x = c
    BY <1>9, <2>1 DEF AddCarrier, RemoveCarrier, FailoverTypeOK
  <2>2. CASE x # c
    <3>1. carrier'[c] = carrier[c] /\ check'[c] = check[c] /\ UNCHANGED download
      BY <1>9, <2>2 DEF AddCarrier, RemoveCarrier, KeepChecked, FailoverTypeOK
    <3> QED
      BY <1>8, <3>1 DEF Spent
  <2> QED
    BY <2>1, <2>2
<1>10. ASSUME NEW x \in Carriers, UpdateCarrierHealth(x)
       PROVE  Spent(c)'
  <2>1. CASE x # c
    <3>1. carrier'[c] = carrier[c] /\ check'[c] = check[c] /\ UNCHANGED download
      BY <1>10, <2>1 DEF UpdateCarrierHealth, FailoverTypeOK
    <3> QED
      BY <1>8, <3>1 DEF Spent
  <2>2. CASE x = c
    <3>1. carrier[c] \in Rows
      BY <1>1 DEF There, FailoverTypeOK
    <3>2. carrier'[c] = [carrier[c] EXCEPT !.health = check[c].status]
      BY <1>1, <1>10, <2>2 DEF UpdateCarrierHealth, FailoverTypeOK
    <3>3. carrier'[c].health = check[c].status /\ check[c].status # "healthy"
      BY <1>10, <2>2, <3>1, <3>2 DEF UpdateCarrierHealth, Spent, Rows
    <3>4. carrier'[c].failed = carrier[c].failed /\ carrier'[c].total = carrier[c].total
      BY <3>1, <3>2 DEF Rows
    <3>5. check[c].status \in {"healthy", "degraded", "unhealthy"}
      BY <1>10, <2>2 DEF UpdateCarrierHealth, FailoverTypeOK, CheckStates, NoCheck
    <3>6. There(c)'
      BY <3>1, <3>2, <3>5, RowTypes DEF There
    <3>7. check'[c] = NoCheck /\ UNCHANGED download
      BY <1>10, <2>2 DEF UpdateCarrierHealth, FailoverTypeOK
    <3> QED
      BY <1>1, <3>3, <3>4, <3>6, <3>7 DEF Spent, Poor, NoCheck
  <2> QED
    BY <2>1, <2>2
<1>11. ASSUME NEW x \in Carriers, NEW failed \in BOOLEAN, NEW slow \in BOOLEAN,
              CheckCarrier(x, failed, slow)
       PROVE  Spent(c)'
  <2>1. UNCHANGED download /\ carrier'[c] = carrier[c]
    BY <1>11 DEF CheckCarrier
  <2>2. CASE x # c
    <3>1. check'[c] = check[c]
      BY <1>11, <2>2 DEF CheckCarrier, FailoverTypeOK
    <3> QED
      BY <1>8, <2>1, <3>1 DEF Spent
  <2>3. CASE x = c
    <3>1. Poor(CheckedRow(c))
      BY <1>1, <1>11, <2>3 DEF CheckCarrier, CheckedRow, Spent
    <3>2. EvaluateHealth(CheckedRow(c), failed, slow) # "healthy"
      BY <3>1 DEF EvaluateHealth
    <3>3. check'[c] = [at |-> "update",
                       status |-> EvaluateHealth(CheckedRow(c), failed, slow)]
      BY <1>11, <2>3 DEF CheckCarrier, FailoverTypeOK
    <3> QED
      BY <1>8, <2>1, <3>2, <3>3
  <2> QED
    BY <2>2, <2>3
<1>12. CASE CheckAllCarriers
  <2>1. check'[c] = [at |-> "ask", of |-> Current] /\ carrier'[c] = carrier[c]
        /\ UNCHANGED download
    BY <1>1, <1>12 DEF CheckAllCarriers
  <2> QED
    BY <1>8, <2>1
<1>13. CASE StartAgain
  BY <1>13 DEF StartAgain
<1>14. CASE UNCHANGED failoverVars
  BY <1>8, <1>14 DEF failoverVars, Spent
<1> QED
  BY <1>3, <1>4, <1>5, <1>6, <1>7, <1>9, <1>10, <1>11, <1>12, <1>13, <1>14 DEF FailoverNext

(* A carrier whose failed requests are more than one in ten, and that is out *)
(* of use, stays so until it is removed, replaced or lost in a restart: no   *)
(* number of good answers to its checks brings it back.                      *)
THEOREM SpentCarrierStays == FailoverSpec => SpentStays
<1>1. FailoverTypeOK /\ [FailoverNext]_failoverVars
        => [\A c \in Carriers : Spent(c) => Spent(c)' \/ carrier'[c] \in {Gone, Added}]_failoverVars
  BY SpentStep
<1> QED
  BY <1>1, FailoverTypes, PTL DEF FailoverSpec, SpentStays

-----------------------------------------------------------------------------
(* handleFailover has its answer from another carrier, and waits to report   *)
(* it, for the lock that it holds itself. *)
WaitsForItself(d) == d \in InFailover /\ Standing(d, "report")

(* Whoever does this waits for ever, and with it whoever changes a carrier:  *)
(* none is counted, rated, added or removed again and no download begins,    *)
(* until the connector is restarted.                                         *)
StuckForGood ==
  [][\A d \in Downloads : WaitsForItself(d) =>
       \/ WaitsForItself(d)' /\ UNCHANGED <<carrier, begun>>
       \/ StartAgain]_failoverVars

LEMMA StuckStep ==
  ASSUME FailoverTypeOK, NEW d \in Downloads, WaitsForItself(d), FailoverNext
  PROVE  (WaitsForItself(d)' /\ UNCHANGED <<carrier, begun>>) \/ StartAgain
<1>1. ~Writable /\ ~Readable
  BY DEF WaitsForItself, Writable, Readable
<1>2. ASSUME UNCHANGED <<carrier, begun>>, download'[d] = download[d]
      PROVE  WaitsForItself(d)' /\ UNCHANGED <<carrier, begun>>
  BY <1>2 DEF WaitsForItself, InFailover, Standing
<1>3. \A e \in Downloads : ~Standing(e, "report") => e # d
  BY DEF WaitsForItself
<1>4. ASSUME NEW e \in Downloads,
             \/ \E c \in Carriers : SelectCarrier(e, c) \/ TryOther(e, c)
             \/ \E failed \in BOOLEAN : CarrierAnswers(e, failed)
             \/ GetClient(e) \/ UpdateCarrierMetrics(e) \/ BeginFailover(e) \/ Exhaust(e)
      PROVE  UNCHANGED <<carrier, begun>> /\ download'[d] = download[d]
  <2> USE <1>1 DEF Go, Standing, FailoverTypeOK
  <2>1. ~UpdateCarrierMetrics(e)
    BY DEF UpdateCarrierMetrics
  <2>2. ASSUME NEW c \in Carriers, SelectCarrier(e, c)
        PROVE  FALSE
    BY <2>2 DEF SelectCarrier
  <2>3. ASSUME NEW c \in Carriers, TryOther(e, c)
        PROVE  UNCHANGED <<carrier, begun>> /\ download'[d] = download[d]
    BY <1>3, <2>3 DEF TryOther
  <2>4. ASSUME NEW failed \in BOOLEAN, CarrierAnswers(e, failed)
        PROVE  UNCHANGED <<carrier, begun>> /\ download'[d] = download[d]
    BY <1>3, <2>4 DEF CarrierAnswers
  <2>5. CASE GetClient(e)
    BY <1>3, <2>5 DEF GetClient
  <2>6. CASE BeginFailover(e)
    BY <2>6 DEF BeginFailover
  <2>7. CASE Exhaust(e)
    BY <1>3, <2>7 DEF Exhaust
  <2> QED
    BY <1>4, <2>1, <2>2, <2>3, <2>4, <2>5, <2>6, <2>7
<1>5. ASSUME NEW c \in Carriers,
             \/ AddCarrier(c) \/ RemoveCarrier(c) \/ UpdateCarrierHealth(c)
             \/ \E failed, slow \in BOOLEAN : CheckCarrier(c, failed, slow)
      PROVE  UNCHANGED <<carrier, begun>> /\ download'[d] = download[d]
  BY <1>1, <1>5 DEF AddCarrier, RemoveCarrier, UpdateCarrierHealth, CheckCarrier
<1>6. CASE CheckAllCarriers
  BY <1>2, <1>6 DEF CheckAllCarriers
<1> QED
  BY <1>2, <1>4, <1>5, <1>6 DEF FailoverNext

(* For any carriers, downloads and limits: the failover of which a run finds *)
(* that it need not end never ends once another carrier has answered it, and *)
(* until a restart no download begins and no carrier changes.                *)
THEOREM FailoverStuckForGood == FailoverSpec => StuckForGood
<1>1. FailoverTypeOK /\ [FailoverNext]_failoverVars
        => [\A d \in Downloads : WaitsForItself(d) =>
              \/ WaitsForItself(d)' /\ UNCHANGED <<carrier, begun>>
              \/ StartAgain]_failoverVars
  BY StuckStep
<1> QED
  BY <1>1, FailoverTypes, PTL DEF FailoverSpec, StuckForGood

-----------------------------------------------------------------------------
(* An id is below those of later times. *)
LEMMA LaterIsLarger ==
  ASSUME NEW a \in Nat, NEW b \in Nat, a < b, NEW n \in 0..MaxSequence, NEW m \in Nat
  PROVE  Id(a, n) < Id(b, m)
<1> DEFINE width == MaxSequence + 1
           digits(t) == t * (MaxNodeID + 1) + NodeID
<1>1. digits(a) \in Nat /\ digits(b) \in Nat /\ width \in Nat
  BY NodeNat, SequenceNat
<1>2. digits(a) + 1 <= digits(b)
  <2>1. PICK d \in Nat : b = a + d /\ d >= 1
    <3>1. b - a \in Nat /\ b = a + (b - a) /\ b - a >= 1
      OBVIOUS
    <3> QED
      BY <3>1
  <2>2. d * (MaxNodeID + 1) >= 1
    BY <2>1, NodeNat
  <2>3. digits(b) = digits(a) + d * (MaxNodeID + 1)
    BY <2>1, NodeNat
  <2> QED
    BY <2>2, <2>3, <1>1, NodeNat
<1> HIDE DEF digits
<1>3. (digits(a) + 1) * width <= digits(b) * width
  BY <1>1, <1>2
<1>4. (digits(a) + 1) * width = digits(a) * width + width
  BY <1>1
<1>5. /\ Id(a, n) = digits(a) * width + n
      /\ Id(b, m) = digits(b) * width + m
  BY DEF Id, digits
<1>6. digits(a) * width \in Nat /\ digits(b) * width \in Nat
  BY <1>1
<1> HIDE DEF width
<1>7. n < width
  BY SequenceNat DEF width
<1> QED
  BY <1>1, <1>3, <1>4, <1>5, <1>6, <1>7, SequenceNat

LEMMA NumbersInOrder ==
  ASSUME NEW t \in Nat, NEW n \in Nat, NEW m \in Nat
  PROVE  /\ Id(t, n) \in Nat
         /\ n <= m => Id(t, n) <= Id(t, m)
         /\ n < m => Id(t, n) < Id(t, m)
<1> DEFINE digits == t * (MaxNodeID + 1) + NodeID
<1>1. digits \in Nat
  BY NodeNat
<1> HIDE DEF digits
<1>2. digits * (MaxSequence + 1) \in Nat
  BY <1>1, SequenceNat
<1> QED
  BY <1>2 DEF Id, digits

(* Up to the latest millisecond, ids follow their times; in that millisecond *)
(* the generator knows how many it has given out, unless it was restarted,   *)
(* and then the millisecond is over.                                         *)
IdsInOrder ==
  /\ FlakeTypeOK
  /\ \A g \in given : g <= Id(latest, MaxSequence)
  /\ \/ behind
     \/ latest < clock
     \/ /\ latest = clock /\ timestamp = clock
        /\ spinning \/ \A g \in given : g <= Id(clock, sequence)
  /\ IdsDiffer

(* The number an id is given is the next of its millisecond. *)
LEMMA OrderOfGive ==
  ASSUME IdsInOrder, NEW number \in 0..MaxSequence, Give(clock, number),
         timestamp = clock => ~spinning /\ number = sequence + 1
  PROVE  IdsInOrder'
<1> DEFINE id == Id(clock, number)
<1>1. /\ clock \in Nat /\ clock \in 1..MaxTime
      /\ latest \in Nat /\ latest \in 0..MaxTime
      /\ number \in Nat /\ number <= MaxSequence
      /\ sequence \in Nat /\ sequence \in 0..MaxSequence
      /\ MaxSequence \in Nat /\ MaxSequence \in 0..MaxSequence
      /\ given \subseteq Nat /\ behind \in BOOLEAN
  BY TimeNat, SequenceNat DEF IdsInOrder, FlakeTypeOK
<1>2. /\ id \in Nat /\ Id(latest, MaxSequence) \in Nat
      /\ Id(clock, sequence) \in Nat /\ Id(clock, MaxSequence) \in Nat
      /\ id <= Id(clock, MaxSequence)
  BY <1>1, NumbersInOrder
<1>3. latest' = IF clock > latest THEN clock ELSE latest
  BY DEF Give
<1>4. FlakeTypeOK'
  <2>1. clock' \in 1..MaxTime /\ timestamp' \in 0..MaxTime /\ latest' \in 0..MaxTime
    BY <1>1, <1>3 DEF Give
  <2>2. sequence' \in 0..MaxSequence /\ spinning' \in BOOLEAN /\ behind' \in BOOLEAN
    BY DEF Give
  <2>3. given' \cup repeated' \cup doubtful' \subseteq Nat
    <3>1. given \cup repeated \cup doubtful \cup {id} \subseteq Nat
      BY <1>2 DEF IdsInOrder, FlakeTypeOK
    <3> HIDE DEF id
    <3> QED
      BY <3>1 DEF Give, id
  <2> QED
    BY <2>1, <2>2, <2>3 DEF FlakeTypeOK
<1>5. clock # latest => \/ /\ latest < clock /\ Id(latest, MaxSequence) < id
                           /\ latest' = clock
                        \/ /\ clock < latest /\ id < Id(latest, MaxSequence)
                           /\ latest' = latest
  BY <1>1, <1>3, LaterIsLarger
<1>6. ASSUME ~behind'
      PROVE  /\ latest' = clock
             /\ \A g \in given : g < id
  <2>1. behind' = (behind /\ clock <= latest)
    BY DEF Give
  <2>2. CASE latest < clock
    BY <2>2, <1>1, <1>2, <1>5 DEF IdsInOrder
  <2>3. CASE clock <= latest
    <3>1. ~behind
      BY <2>1, <2>3, <1>6
    <3>2. /\ latest = clock /\ timestamp = clock
          /\ spinning \/ \A g \in given : g <= Id(clock, sequence)
      BY <3>1, <2>3, <1>1 DEF IdsInOrder
    <3>3. ~spinning /\ number = sequence + 1
      BY <3>2
    <3>4. Id(clock, sequence) < id
      BY <3>3, <1>1, NumbersInOrder
    <3> QED
      BY <3>2, <3>3, <3>4, <1>1, <1>2, <1>3
  <2> QED
    BY <2>2, <2>3, <1>1
<1>7. given' = given \cup {id}
  BY DEF Give
<1>8. \A g \in given' : g <= Id(latest', MaxSequence)
  <2>1. CASE clock # latest
    BY <2>1, <1>1, <1>2, <1>5, <1>7 DEF IdsInOrder
  <2>2. CASE clock = latest
    BY <2>2, <1>1, <1>2, <1>3, <1>7 DEF IdsInOrder
  <2> QED
    BY <2>1, <2>2
<1>9. \/ behind'
      \/ /\ latest' = clock' /\ timestamp' = clock'
         /\ \A g \in given' : g <= Id(clock', sequence')
  <2>1. clock' = clock /\ timestamp' = clock /\ sequence' = number
    BY DEF Give
  <2> QED
    BY <2>1, <1>1, <1>2, <1>6, <1>7
<1>10. IdsDiffer'
  <2>1. repeated' = repeated \cup (given \cap {id})
    BY DEF Give
  <2>2. doubtful' = IF behind' THEN doubtful \cup {id} ELSE doubtful
    BY DEF Give
  <2>3. ~behind' => id \notin given
    BY <1>1, <1>2, <1>6
  <2> QED
    BY <2>1, <2>2, <2>3 DEF IdsInOrder, IdsDiffer
<1> QED
  BY <1>4, <1>8, <1>9, <1>10 DEF IdsInOrder

(* An id is given out again only while the clock is behind the ids, for any  *)
(* numbers of nodes and of ids in a millisecond, and wherever restarts and   *)
(* changes of the clock fall.                                                *)
THEOREM IdsAreDifferent == FlakeSpec => []IdsDiffer
<1>1. FlakeInit => IdsInOrder
  <2>1. 1 \in 1..MaxTime /\ 0 \in 0..MaxTime /\ 0 \in 0..MaxSequence
    BY TimeNat, SequenceNat
  <2> SUFFICES ASSUME FlakeInit PROVE IdsInOrder
    OBVIOUS
  <2>2. FlakeTypeOK
    BY <2>1 DEF FlakeInit, FlakeTypeOK
  <2> QED
    BY <2>2 DEF FlakeInit, IdsInOrder, IdsDiffer
<1>2. IdsInOrder /\ [FlakeNext]_flakeVars => IdsInOrder'
  <2> SUFFICES ASSUME IdsInOrder, [FlakeNext]_flakeVars
               PROVE  IdsInOrder'
    OBVIOUS
  <2>0. 0 \in 0..MaxSequence
    BY SequenceNat
  <2>1. CASE Generate
    <3>1. CASE timestamp # clock
      <4>1. Give(clock, 0)
        BY <2>1, <3>1 DEF Generate
      <4> QED
        BY <2>0, <3>1, <4>1, OrderOfGive
    <3>2. CASE timestamp = clock /\ sequence < MaxSequence
      <4>1. sequence + 1 \in 0..MaxSequence
        BY <3>2, SequenceNat DEF IdsInOrder, FlakeTypeOK
      <4> QED
        BY <2>1, <3>2, <4>1, OrderOfGive DEF Generate
    <3>3. CASE timestamp = clock /\ ~(sequence < MaxSequence)
      BY <2>1, <3>3, SequenceNat
      DEF Generate, IdsInOrder, FlakeTypeOK, IdsDiffer, idsGiven
    <3> QED
      BY <3>1, <3>2, <3>3
  <2>2. CASE GenerateInNext
    <3>1. timestamp # clock
      BY <2>2, TimeNat DEF GenerateInNext, IdsInOrder, FlakeTypeOK
    <3>2. Give(clock, 0)
      BY <2>2 DEF GenerateInNext
    <3> QED
      BY <2>0, <3>1, <3>2, OrderOfGive
  <2>3. CASE TimePasses
    BY <2>3, TimeNat DEF TimePasses, IdsInOrder, FlakeTypeOK, IdsDiffer, idsGiven, generator
  <2>4. CASE ClockSetBack
    BY <2>4, TimeNat DEF ClockSetBack, IdsInOrder, FlakeTypeOK, IdsDiffer, generator
  <2>5. CASE ProcessRestarts
    <3>1. UNCHANGED <<given, latest, behind, repeated, doubtful>>
      BY <2>5 DEF ProcessRestarts, idsGiven
    <3>2. clock' \in 1..MaxTime /\ clock < clock'
      BY <2>5, TimeNat DEF ProcessRestarts, IdsInOrder, FlakeTypeOK
    <3>3. FlakeTypeOK'
      <4>1. timestamp' = 0 /\ sequence' = 0 /\ spinning' = FALSE /\ 0 \in 0..MaxTime
        BY <2>5, TimeNat DEF ProcessRestarts
      <4> QED
        BY <2>0, <3>1, <3>2, <4>1 DEF IdsInOrder, FlakeTypeOK
    <3>4. behind' \/ latest' < clock'
      BY <3>1, <3>2, TimeNat DEF IdsInOrder, FlakeTypeOK
    <3> QED
      BY <3>1, <3>3, <3>4 DEF IdsInOrder, IdsDiffer
  <2>6. CASE UNCHANGED flakeVars
    BY <2>6 DEF flakeVars, IdsInOrder, FlakeTypeOK, IdsDiffer, idsGiven, generator
  <2> QED
    BY <2>1, <2>2, <2>3, <2>4, <2>5, <2>6 DEF FlakeNext
<1>3. IdsInOrder => IdsDiffer
  BY DEF IdsInOrder
<1> QED
  BY <1>1, <1>2, <1>3, PTL DEF FlakeSpec
=============================================================================
