-------------------------- MODULE PacketFilterProofs --------------------------
(* Theorems about PacketFilter for any number of CPUs, addresses and packets *)
EXTENDS PacketFilter, FiniteSetTheorems, TLAPS

LEMMA SizeNat == ASSUME NEW p \in Packets PROVE p.size \in Nat \ {0}
  BY SizesNat DEF Packets

LEMMA NatInt == \A n \in Nat : n \in Int
  OBVIOUS

(* The maps and the program keep their types; a counter about to be written  *)
(* back is one that packet_stats can hold, and only an address with an entry *)
(* is charged.                                                               *)
THEOREM TypeCorrect == FilterSpec => []FilterTypeOK
<1>1. FilterInit => FilterTypeOK
  <2> SUFFICES ASSUME FilterInit PROVE FilterTypeOK
    OBVIOUS
  <2> QED
    BY MaxPacketsNat DEF FilterInit, FilterTypeOK, FilterStages, Packets
<1>2. FilterTypeOK /\ [FilterNext]_filterVars => FilterTypeOK'
  <2> SUFFICES ASSUME FilterTypeOK, [FilterNext]_filterVars PROVE FilterTypeOK'
    OBVIOUS
  <2>a. arrived \in 0..MaxPackets
    BY DEF FilterTypeOK
  <2>b. /\ stats \in [IPs -> Nat] /\ accounted \in [IPs -> Nat]
        /\ late \in [IPs -> Nat] /\ credit \in [IPs -> Int]
        /\ seen \in [CPUs -> Int] /\ pkt \in [CPUs -> Packets]
    BY DEF FilterTypeOK
  <2>c. \A c \in CPUs : pkt[c].src \in IPs /\ pkt[c].dst \in IPs /\ pkt[c].size \in Nat \ {0}
    BY <2>b, SizesNat DEF Packets
  <2>d. ASSUME NEW c \in CPUs, Pass(c) PROVE late' \in [IPs -> Nat]
    <3> DEFINE more(ip) == IF ip \in Parties(c) \cap blocked THEN 1 ELSE 0
    <3>1. \A ip \in IPs : more(ip) \in Nat
      OBVIOUS
    <3>2. late' = [ip \in IPs |-> late[ip] + more(ip)]
      BY <2>d DEF Pass
    <3> HIDE DEF more
    <3> QED
      BY <2>b, <3>1, <3>2
  <2>1. ASSUME NEW c \in CPUs, NEW p \in Packets, Arrive(c, p) PROVE FilterTypeOK'
    <3>1. arrived' \in 0..MaxPackets
      BY <2>1, <2>a, MaxPacketsNat DEF Arrive
    <3>2. pc' \in [CPUs -> FilterStages] /\ pkt' \in [CPUs -> Packets]
      BY <2>1 DEF FilterTypeOK, Arrive, Advance, FilterStages
    <3>3. \A d \in CPUs : /\ pc'[d] \in {"src write", "dst write"} => seen'[d] \in Nat
                          /\ pc'[d] = "charge write" => pkt'[d].src \in metered'
      BY <2>1 DEF FilterTypeOK, Arrive, Advance, maps
    <3> QED
      BY <2>1, <3>1, <3>2, <3>3 DEF FilterTypeOK, Arrive, maps
  <2>2. ASSUME NEW c \in CPUs, CheckBlocks(c) PROVE FilterTypeOK'
    BY <2>2 DEF FilterTypeOK, CheckBlocks, At, Advance, FilterStages, maps
  <2>3. ASSUME NEW c \in CPUs, CheckCredit(c) PROVE FilterTypeOK'
    BY <2>3 DEF FilterTypeOK, CheckCredit, At, Advance, FilterStages, maps
  <2>4. ASSUME NEW c \in CPUs, CountPacket(c) PROVE FilterTypeOK'
    <3>1. ASSUME NEW ip \in IPs, NEW next \in {"src write", "dst write"},
                 ReadStats(c, ip, next)
          PROVE FilterTypeOK'
      <4>1. pc' \in [CPUs -> FilterStages] /\ seen' \in [CPUs -> Int] /\ stats[ip] \in Nat
        <5>1. pc' \in [CPUs -> FilterStages]
          BY <3>1 DEF FilterTypeOK, ReadStats, Advance, FilterStages
        <5>2. stats[ip] \in Nat
          BY <2>b
        <5>3. seen' = [seen EXCEPT ![c] = stats[ip]]
          BY <3>1 DEF ReadStats
        <5>4. stats[ip] \in Int
          BY <5>2, NatInt, Zenon
        <5>5. seen' \in [CPUs -> Int]
          BY <2>b, <5>3, <5>4, Zenon
        <5> QED
          BY <5>1, <5>2, <5>5
      <4>2. \A d \in CPUs : pc'[d] \in {"src write", "dst write"} => seen'[d] \in Nat
        BY <3>1, <4>1 DEF FilterTypeOK, ReadStats, Advance
      <4> QED
        BY <3>1, <4>1, <4>2 DEF FilterTypeOK, ReadStats, Advance, maps
    <3>2. ASSUME NEW ip \in IPs, NEW next \in {"dst", "charge"}, seen[c] \in Nat,
                 WriteStats(c, ip, next)
          PROVE FilterTypeOK'
      <4>1. pc' \in [CPUs -> FilterStages]
        BY <3>2 DEF FilterTypeOK, WriteStats, Advance, FilterStages
      <4>2. accounted' \in [IPs -> Nat]
        BY <3>2, <2>b, <2>c DEF WriteStats
      <4>3. stats' \in [IPs -> Nat]
        BY <3>2, <2>b, <2>c DEF WriteStats
      <4> QED
        BY <3>2, <4>1, <4>2, <4>3 DEF FilterTypeOK, WriteStats, Advance
    <3> QED
      BY <2>4, <2>c, <3>1, <3>2 DEF CountPacket, At, FilterTypeOK
  <2>5. ASSUME NEW c \in CPUs, ReadCredit(c) PROVE FilterTypeOK'
    <3>1. CASE pkt[c].src \in metered
      <4>1. pc' \in [CPUs -> FilterStages]
        BY <2>5, <3>1 DEF FilterTypeOK, ReadCredit, Advance, FilterStages
      <4>2. seen' \in [CPUs -> Int]
        BY <2>5, <3>1 DEF FilterTypeOK, ReadCredit, Packets
      <4>3. \A d \in CPUs : /\ pc'[d] \in {"src write", "dst write"} => seen'[d] \in Nat
                            /\ pc'[d] = "charge write" => pkt'[d].src \in metered'
        BY <2>5, <3>1 DEF FilterTypeOK, ReadCredit, Advance, maps
      <4> QED
        BY <2>5, <3>1, <4>1, <4>2, <4>3 DEF FilterTypeOK, ReadCredit, maps
    <3>2. CASE pkt[c].src \notin metered
      <4>1. Pass(c) /\ UNCHANGED <<maps, user, pkt, seen, arrived, accounted>>
        BY <2>5, <3>2 DEF ReadCredit
      <4>2. pc' \in [CPUs -> FilterStages]
        BY <4>1 DEF FilterTypeOK, Pass, Advance, FilterStages
      <4> QED
        BY <4>1, <4>2, <2>d DEF FilterTypeOK, Pass, Advance, maps
    <3> QED
      BY <3>1, <3>2
  <2>6. ASSUME NEW c \in CPUs, WriteCredit(c) PROVE FilterTypeOK'
    <3>1. pc' \in [CPUs -> FilterStages]
      BY <2>6 DEF FilterTypeOK, WriteCredit, Pass, Advance, FilterStages
    <3>2. credit' \in [IPs -> Int]
      <4>1. credit' = [credit EXCEPT ![pkt[c].src] = seen[c] - pkt[c].size]
        BY <2>6 DEF WriteCredit
      <4>2. seen[c] - pkt[c].size \in Int
        BY <2>b, <2>c
      <4> QED
        BY <2>b, <2>c, <4>1, <4>2
    <3>3. late' \in [IPs -> Nat]
      BY <2>6, <2>d DEF WriteCredit
    <3> QED
      BY <2>6, <3>1, <3>2, <3>3 DEF FilterTypeOK, WriteCredit, Pass, Advance
  <2>7. ASSUME NEW ip \in IPs, NEW n \in Credits, SyncCredit(ip, n) PROVE FilterTypeOK'
    BY <2>7, CreditsInt DEF FilterTypeOK, SyncCredit, UpdateUserCredit, program
  <2>8. ASSUME NEW ip \in IPs, SyncBlocked(ip) PROVE FilterTypeOK'
    BY <2>8 DEF FilterTypeOK, SyncBlocked, BlockUser, program
  <2>9. ASSUME NEW ip \in IPs, ClearStats(ip) PROVE FilterTypeOK'
    BY <2>9 DEF FilterTypeOK, ClearStats, program
  <2>10. CASE Shutdown
    BY <2>10 DEF FilterTypeOK, Shutdown, maps, program
  <2>11. CASE UNCHANGED filterVars
    BY <2>11 DEF FilterTypeOK, filterVars, maps, program
  <2> QED
    BY <2>1, <2>2, <2>3, <2>4, <2>5, <2>6, <2>7, <2>8, <2>9, <2>10, <2>11
    DEF FilterNext, Filter, SyncFromRedis
<1> QED
  BY <1>1, <1>2, PTL DEF FilterSpec

-----------------------------------------------------------------------------
(* The CPUs past the check with a packet of ip, which will get through. *)
Passed(ip) == {c \in CPUs : pc[c] \notin {"idle", "blocks"} /\ ip \in Parties(c)}

(* Each packet that a blocked address gets through takes a CPU off those.    *)
LateBounded ==
  \A ip \in IPs :
    IF ip \in blocked THEN late[ip] + Cardinality(Passed(ip)) <= Cardinality(CPUs)
                      ELSE late[ip] = 0

LEMMA PassedCount ==
  ASSUME NEW ip \in IPs
  PROVE  /\ IsFiniteSet(Passed(ip))
         /\ Cardinality(Passed(ip)) \in Nat
         /\ Cardinality(CPUs) \in Nat
         /\ Cardinality(Passed(ip)) <= Cardinality(CPUs)
<1>1. Passed(ip) \subseteq CPUs
  BY DEF Passed
<1> QED
  BY <1>1, CPUsFinite, FS_Subset, FS_CardinalityType

LEMMA PassedShrinks ==
  ASSUME NEW ip \in IPs, Passed(ip)' \subseteq Passed(ip)
  PROVE  /\ Cardinality(Passed(ip)') \in Nat
         /\ Cardinality(Passed(ip)') <= Cardinality(Passed(ip))
BY PassedCount, FS_Subset, FS_CardinalityType

LEMMA PassedLosesOne ==
  ASSUME NEW ip \in IPs, NEW c \in Passed(ip), Passed(ip)' = Passed(ip) \ {c}
  PROVE  Cardinality(Passed(ip)') = Cardinality(Passed(ip)) - 1
BY PassedCount, FS_RemoveElement

(* Nobody gets past the check with a packet of a blocked address: then       *)
(* nothing can make room for more late packets.                              *)
LEMMA QuietKeepsLate ==
  ASSUME FilterTypeOK, LateBounded, UNCHANGED <<blocked, late>>,
         \A ip \in blocked : Passed(ip)' \subseteq Passed(ip)
  PROVE  LateBounded'
<1> SUFFICES ASSUME NEW ip \in IPs
             PROVE (IF ip \in blocked
                      THEN late[ip] + Cardinality(Passed(ip)) <= Cardinality(CPUs)
                      ELSE late[ip] = 0)'
  BY DEF LateBounded
<1> DEFINE now == Cardinality(Passed(ip))  next == Cardinality(Passed(ip)')
<1>1. CASE ip \in blocked
  <2>1. late[ip] + now <= Cardinality(CPUs)
    BY <1>1 DEF LateBounded
  <2>2. next \in Nat /\ next <= now
    BY <1>1, PassedShrinks
  <2>3. late[ip] \in Nat /\ now \in Nat /\ Cardinality(CPUs) \in Nat
    BY PassedCount DEF FilterTypeOK
  <2> HIDE DEF now, next
  <2>4. late[ip] + next <= Cardinality(CPUs)
    BY <2>1, <2>2, <2>3
  <2> QED
    BY <1>1, <2>4 DEF next
<1>2. CASE ip \notin blocked
  BY <1>2 DEF LateBounded
<1> QED
  BY <1>1, <1>2

(* A packet that gets through makes one more late packet of each of its      *)
(* blocked ends, and takes its CPU off those past the check.                 *)
LEMMA PassKeepsLate ==
  ASSUME FilterTypeOK, LateBounded, NEW c \in CPUs, pc[c] \notin {"idle", "blocks"},
         Pass(c), UNCHANGED <<blocked, pkt>>
  PROVE  LateBounded'
<1> SUFFICES ASSUME NEW ip \in IPs
             PROVE (IF ip \in blocked
                      THEN late[ip] + Cardinality(Passed(ip)) <= Cardinality(CPUs)
                      ELSE late[ip] = 0)'
  BY DEF LateBounded
<1>a. late' = [i \in IPs |-> late[i] + IF i \in Parties(c) \cap blocked THEN 1 ELSE 0]
  BY DEF Pass
<1>b. pc' = [pc EXCEPT ![c] = "idle"]
  BY DEF Pass, Advance
<1>c. late[ip] \in Nat
  BY DEF FilterTypeOK
<1>d. Passed(ip)' = Passed(ip) \ {c}
  BY <1>b DEF Passed, Parties, FilterTypeOK
<1> DEFINE now == Cardinality(Passed(ip))  next == Cardinality(Passed(ip)')
<1>e. now \in Nat /\ next \in Nat /\ next <= now /\ Cardinality(CPUs) \in Nat
  BY <1>d, PassedCount, PassedShrinks
<1>1. CASE ip \in blocked /\ ip \in Parties(c)
  <2>1. late[ip] + now <= Cardinality(CPUs)
    BY <1>1 DEF LateBounded
  <2>2. c \in Passed(ip)
    BY <1>1 DEF Passed
  <2>3. next = now - 1
    BY <2>2, <1>d, PassedLosesOne
  <2>4. late'[ip] = late[ip] + 1
    BY <1>1, <1>a
  <2> HIDE DEF now, next
  <2>5. late'[ip] + next <= Cardinality(CPUs)
    BY <2>1, <2>3, <2>4, <1>c, <1>e
  <2> QED
    BY <1>1, <2>5 DEF next
<1>2. CASE ip \in blocked /\ ip \notin Parties(c)
  <2>1. late[ip] + now <= Cardinality(CPUs)
    BY <1>2 DEF LateBounded
  <2>2. late'[ip] = late[ip]
    BY <1>2, <1>a, <1>c
  <2> HIDE DEF now, next
  <2>3. late'[ip] + next <= Cardinality(CPUs)
    BY <2>1, <2>2, <1>c, <1>e
  <2> QED
    BY <1>2, <2>3 DEF next
<1>3. CASE ip \notin blocked
  <2>1. late'[ip] = late[ip]
    BY <1>3, <1>a, <1>c
  <2> QED
    BY <1>3, <2>1 DEF LateBounded
<1> QED
  BY <1>1, <1>2, <1>3

(* No more packets of a blocked address get through packet_filter than there *)
(* are CPUs, for any number of CPUs and packets and however the              *)
(* synchronisations fall: LateBounded is the invariant that says why.        *)
THEOREM BlockedAreCutOff == FilterSpec => []BlockCutsOff
<1>1. FilterInit => LateBounded
  <2> SUFFICES ASSUME FilterInit PROVE LateBounded
    OBVIOUS
  <2> QED
    BY DEF FilterInit, LateBounded
<1>2. FilterTypeOK /\ LateBounded /\ [FilterNext]_filterVars => LateBounded'
  <2> SUFFICES ASSUME FilterTypeOK, LateBounded, [FilterNext]_filterVars PROVE LateBounded'
    OBVIOUS
  <2> DEFINE quiet == /\ UNCHANGED <<blocked, late>>
                      /\ \A ip \in blocked : Passed(ip)' \subseteq Passed(ip)
  <2>q. quiet => LateBounded'
    BY QuietKeepsLate
  <2>1. ASSUME NEW c \in CPUs, NEW p \in Packets, Arrive(c, p) PROVE quiet
    BY <2>1 DEF FilterTypeOK, Arrive, Advance, Passed, Parties, maps
  <2>2. ASSUME NEW c \in CPUs, CheckBlocks(c) PROVE quiet
    <3>1. pkt' = pkt /\ UNCHANGED <<blocked, late>>
      BY <2>2 DEF CheckBlocks, maps
    <3>2. ASSUME NEW ip \in blocked, NEW d \in Passed(ip)' PROVE d \in Passed(ip)
      <4>1. CASE d = c
        <5>1. ip \in Parties(c)
          BY <3>1, <3>2, <4>1 DEF Passed, Parties
        <5>2. pc'[c] = "idle"
          BY <2>2, <5>1 DEF CheckBlocks, Advance, FilterTypeOK
        <5> QED
          BY <3>2, <4>1, <5>2 DEF Passed
      <4>2. CASE d # c
        BY <2>2, <3>1, <3>2, <4>2 DEF CheckBlocks, Advance, FilterTypeOK, Passed, Parties
      <4> QED
        BY <4>1, <4>2
    <3> QED
      BY <3>1, <3>2
  <2>3. ASSUME NEW c \in CPUs, CheckCredit(c) PROVE quiet
    BY <2>3 DEF FilterTypeOK, CheckCredit, At, Advance, Passed, Parties, maps
  <2>4. ASSUME NEW c \in CPUs, CountPacket(c) PROVE quiet
    BY <2>4 DEF FilterTypeOK, CountPacket, ReadStats, WriteStats, At, Advance, Passed, Parties, maps
  <2>5. ASSUME NEW c \in CPUs, ReadCredit(c) PROVE LateBounded'
    <3>1. CASE pkt[c].src \in metered
      BY <2>5, <3>1, <2>q DEF FilterTypeOK, ReadCredit, At, Advance, Passed, Parties, maps
    <3>2. CASE pkt[c].src \notin metered
      BY <2>5, <3>2, PassKeepsLate DEF ReadCredit, At, maps
    <3> QED
      BY <3>1, <3>2
  <2>6. ASSUME NEW c \in CPUs, WriteCredit(c) PROVE LateBounded'
    BY <2>6, PassKeepsLate DEF WriteCredit, At
  <2>7. ASSUME NEW ip \in IPs, NEW n \in Credits, SyncCredit(ip, n) PROVE quiet
    BY <2>7 DEF SyncCredit, UpdateUserCredit, Passed, Parties, program
  <2>8. ASSUME NEW ip \in IPs, SyncBlocked(ip) PROVE LateBounded'
    <3> SUFFICES ASSUME NEW i \in IPs
                 PROVE (IF i \in blocked
                          THEN late[i] + Cardinality(Passed(i)) <= Cardinality(CPUs)
                          ELSE late[i] = 0)'
      BY DEF LateBounded
    <3>1. UNCHANGED late /\ blocked' = blocked \cup {ip} /\ Passed(i)' = Passed(i)
      BY <2>8 DEF SyncBlocked, BlockUser, Passed, Parties, program
    <3>2. late[i] + Cardinality(Passed(i)) <= Cardinality(CPUs)
      BY PassedCount DEF LateBounded
    <3>3. i \notin blocked' => late[i] = 0
      BY <3>1 DEF LateBounded
    <3> QED
      BY <3>1, <3>2, <3>3
  <2>9. ASSUME NEW ip \in IPs, ClearStats(ip) PROVE quiet
    BY <2>9 DEF ClearStats, Passed, Parties, program
  <2>10. Shutdown => quiet
    BY DEF Shutdown, Passed, Parties, maps, program
  <2>11. UNCHANGED filterVars => quiet
    BY DEF filterVars, Passed, Parties, maps, program
  <2> QED
    BY <2>q, <2>1, <2>2, <2>3, <2>4, <2>5, <2>6, <2>7, <2>8, <2>9, <2>10, <2>11
    DEF FilterNext, Filter, SyncFromRedis
<1>3. FilterTypeOK /\ LateBounded => BlockCutsOff
  <2> SUFFICES ASSUME FilterTypeOK, LateBounded, NEW ip \in IPs
               PROVE late[ip] <= Cardinality(CPUs)
    BY DEF BlockCutsOff
  <2>1. late[ip] \in Nat
    BY DEF FilterTypeOK
  <2>2. late[ip] = 0 \/ late[ip] + Cardinality(Passed(ip)) <= Cardinality(CPUs)
    BY DEF LateBounded
  <2> QED
    BY <2>1, <2>2, PassedCount
<1> QED
  BY <1>1, <1>2, <1>3, TypeCorrect, PTL DEF FilterSpec

-----------------------------------------------------------------------------
(* What a CPU has read, and is about to add to, had gone through by then. *)
ReadsAccounted ==
  \A c \in CPUs : /\ pc[c] = "src write" => seen[c] <= accounted[pkt[c].src]
                  /\ pc[c] = "dst write" => seen[c] <= accounted[pkt[c].dst]

CountsBounded == \A ip \in IPs : stats[ip] <= accounted[ip]

CountsAccounted == CountsBounded /\ ReadsAccounted

LEMMA PacketTypes ==
  ASSUME FilterTypeOK, NEW c \in CPUs
  PROVE  /\ pkt[c].src \in IPs /\ pkt[c].dst \in IPs
         /\ pkt[c].size \in Nat /\ seen[c] \in Int
<1>1. pkt[c] \in Packets /\ seen[c] \in Int
  BY DEF FilterTypeOK
<1> QED
  BY <1>1, SizeNat DEF Packets

(* A step that only moves a CPU to a stage where it writes no counter of     *)
(* packet_stats leaves what was read and what was accounted alone.           *)
LEMMA MoveKeepsCounts ==
  ASSUME CountsAccounted, FilterTypeOK, NEW c \in CPUs,
         pc' = [pc EXCEPT ![c] = pc'[c]], pc'[c] \notin {"src write", "dst write"},
         UNCHANGED <<stats, accounted>>,
         \A d \in CPUs \ {c} : pkt'[d] = pkt[d] /\ seen'[d] = seen[d]
  PROVE  CountsAccounted'
<1>1. CountsBounded'
  BY DEF CountsAccounted, CountsBounded
<1>2. ASSUME NEW d \in CPUs
      PROVE  /\ pc'[d] = "src write" => seen'[d] <= accounted'[pkt'[d].src]
             /\ pc'[d] = "dst write" => seen'[d] <= accounted'[pkt'[d].dst]
  <2>1. CASE d = c
    BY <2>1
  <2>2. CASE d # c
    <3>1. pc'[d] = pc[d] /\ pkt'[d] = pkt[d] /\ seen'[d] = seen[d]
      BY <2>2 DEF FilterTypeOK
    <3> QED
      BY <3>1 DEF CountsAccounted, ReadsAccounted
  <2> QED
    BY <2>1, <2>2
<1> QED
  BY <1>1, <1>2 DEF CountsAccounted, ReadsAccounted

(* The lookup of update_packet_stats reads a count that went through. *)
LEMMA ReadKeepsCounts ==
  ASSUME CountsAccounted, FilterTypeOK, NEW c \in CPUs, NEW ip \in IPs,
         NEW stage \in {"src write", "dst write"}, ReadStats(c, ip, stage),
         ip = IF stage = "src write" THEN pkt[c].src ELSE pkt[c].dst
  PROVE  CountsAccounted'
<1>1. UNCHANGED <<stats, accounted, pkt>> /\ seen' = [seen EXCEPT ![c] = stats[ip]]
      /\ pc' = [pc EXCEPT ![c] = stage]
  BY DEF ReadStats, Advance, maps
<1>2. CountsBounded'
  BY <1>1 DEF CountsAccounted, CountsBounded
<1>3. stats[ip] <= accounted[ip]
  BY DEF CountsAccounted, CountsBounded
<1>4. ASSUME NEW d \in CPUs
      PROVE  /\ pc'[d] = "src write" => seen'[d] <= accounted'[pkt'[d].src]
             /\ pc'[d] = "dst write" => seen'[d] <= accounted'[pkt'[d].dst]
  <2>1. CASE d = c
    <3>1. pc'[d] = stage /\ seen'[d] = stats[ip]
      BY <1>1, <2>1 DEF FilterTypeOK
    <3> QED
      BY <1>1, <1>3, <2>1, <3>1
  <2>2. CASE d # c
    <3>1. pc'[d] = pc[d] /\ seen'[d] = seen[d]
      BY <1>1, <2>2 DEF FilterTypeOK
    <3> QED
      BY <1>1, <3>1 DEF CountsAccounted, ReadsAccounted
  <2> QED
    BY <2>1, <2>2
<1> QED
  BY <1>2, <1>4 DEF CountsAccounted, ReadsAccounted

(* Its update adds the packet to what was read, once it is accounted for. *)
LEMMA WriteKeepsCounts ==
  ASSUME CountsAccounted, FilterTypeOK, NEW c \in CPUs, NEW ip \in IPs,
         NEW stage \in {"dst", "charge"}, WriteStats(c, ip, stage),
         seen[c] <= accounted[ip]
  PROVE  CountsAccounted'
<1> DEFINE size == pkt[c].size
<1>1. /\ UNCHANGED <<pkt, seen>>
      /\ accounted' = [accounted EXCEPT ![ip] = accounted[ip] + size]
      /\ pc' = [pc EXCEPT ![c] = stage]
      /\ \/ stats' = [stats EXCEPT ![ip] = seen[c] + size]
         \/ stats' = stats
  BY DEF WriteStats, Advance
<1>2. size \in Nat /\ seen[c] \in Int
  BY PacketTypes
<1> HIDE DEF size
<1>3. ASSUME NEW i \in IPs PROVE accounted[i] <= accounted'[i] /\ stats'[i] <= accounted'[i]
  <2>1. accounted[i] \in Nat /\ stats[i] \in Nat /\ stats[i] <= accounted[i]
    BY DEF FilterTypeOK, CountsAccounted, CountsBounded
  <2>2. CASE i = ip
    <3>1. accounted'[i] = accounted[i] + size
      BY <1>1, <2>2 DEF FilterTypeOK
    <3>2. stats'[i] = seen[c] + size \/ stats'[i] = stats[i]
      BY <1>1, <2>2 DEF FilterTypeOK
    <3> QED
      BY <1>2, <2>1, <2>2, <3>1, <3>2
  <2>3. CASE i # ip
    <3>1. accounted'[i] = accounted[i] /\ stats'[i] = stats[i]
      BY <1>1, <2>3 DEF FilterTypeOK
    <3> QED
      BY <2>1, <3>1
  <2> QED
    BY <2>2, <2>3
<1>4. ASSUME NEW d \in CPUs
      PROVE  /\ pc'[d] = "src write" => seen'[d] <= accounted'[pkt'[d].src]
             /\ pc'[d] = "dst write" => seen'[d] <= accounted'[pkt'[d].dst]
  <2>1. pc'[d] \in {"src write", "dst write"} => pc'[d] = pc[d]
    BY <1>1 DEF FilterTypeOK
  <2>2. pkt[d].src \in IPs /\ pkt[d].dst \in IPs /\ seen[d] \in Int
    BY PacketTypes
  <2>3. ASSUME NEW i \in IPs, seen[d] <= accounted[i] PROVE seen[d] <= accounted'[i]
    <3>1. accounted[i] \in Nat
      BY DEF FilterTypeOK
    <3>2. accounted'[i] = accounted[i] \/ accounted'[i] = accounted[i] + size
      BY <1>1 DEF FilterTypeOK
    <3> QED
      BY <1>2, <2>2, <2>3, <3>1, <3>2
  <2>4. /\ pc[d] = "src write" => seen[d] <= accounted[pkt[d].src]
        /\ pc[d] = "dst write" => seen[d] <= accounted[pkt[d].dst]
    BY DEF CountsAccounted, ReadsAccounted
  <2>5. seen'[d] = seen[d] /\ pkt'[d] = pkt[d]
    BY <1>1
  <2>6. CASE pc'[d] = "src write"
    BY <2>1, <2>2, <2>3, <2>4, <2>5, <2>6
  <2>7. CASE pc'[d] = "dst write"
    BY <2>1, <2>2, <2>3, <2>4, <2>5, <2>7
  <2> QED
    BY <2>6, <2>7
<1> QED
  BY <1>3, <1>4 DEF CountsAccounted, CountsBounded, ReadsAccounted

(* Whatever updates the CPUs lose to each other, to a full map and to the    *)
(* clearing of the map at shutdown, packet_stats never shows more bytes of   *)
(* an address than went through.                                             *)
THEOREM NoOverReport == FilterSpec => []NeverOverReported
<1>1. FilterInit => CountsAccounted
  <2> SUFFICES ASSUME FilterInit PROVE CountsAccounted
    OBVIOUS
  <2> QED
    BY DEF FilterInit, CountsAccounted, CountsBounded, ReadsAccounted
<1>2. FilterTypeOK /\ CountsAccounted /\ [FilterNext]_filterVars => CountsAccounted'
  <2> SUFFICES ASSUME FilterTypeOK, CountsAccounted, [FilterNext]_filterVars PROVE CountsAccounted'
    OBVIOUS
  <2>1. ASSUME NEW c \in CPUs, NEW p \in Packets, Arrive(c, p) PROVE CountsAccounted'
    BY <2>1, MoveKeepsCounts DEF FilterTypeOK, Arrive, Advance, maps
  <2>2. ASSUME NEW c \in CPUs, CheckBlocks(c) PROVE CountsAccounted'
    BY <2>2, MoveKeepsCounts DEF FilterTypeOK, CheckBlocks, Advance, maps
  <2>3. ASSUME NEW c \in CPUs, CheckCredit(c) PROVE CountsAccounted'
    BY <2>3, MoveKeepsCounts DEF FilterTypeOK, CheckCredit, Advance, maps
  <2>4. ASSUME NEW c \in CPUs, CountPacket(c) PROVE CountsAccounted'
    <3> pkt[c].src \in IPs /\ pkt[c].dst \in IPs
      BY PacketTypes
    <3>1. CASE ReadStats(c, pkt[c].src, "src write")
      BY <3>1, ReadKeepsCounts
    <3>2. CASE At(c, "src write") /\ WriteStats(c, pkt[c].src, "dst")
      BY <3>2, WriteKeepsCounts DEF At, CountsAccounted, ReadsAccounted
    <3>3. CASE ReadStats(c, pkt[c].dst, "dst write")
      BY <3>3, ReadKeepsCounts
    <3>4. CASE At(c, "dst write") /\ WriteStats(c, pkt[c].dst, "charge")
      BY <3>4, WriteKeepsCounts DEF At, CountsAccounted, ReadsAccounted
    <3> QED
      BY <2>4, <3>1, <3>2, <3>3, <3>4 DEF CountPacket
  <2>5. ASSUME NEW c \in CPUs, ReadCredit(c) PROVE CountsAccounted'
    BY <2>5, MoveKeepsCounts DEF FilterTypeOK, ReadCredit, Pass, Advance, maps
  <2>6. ASSUME NEW c \in CPUs, WriteCredit(c) PROVE CountsAccounted'
    BY <2>6, MoveKeepsCounts DEF FilterTypeOK, WriteCredit, Pass, Advance
  <2>7. ASSUME NEW ip \in IPs, NEW n \in Credits, SyncCredit(ip, n) PROVE CountsAccounted'
    BY <2>7 DEF SyncCredit, UpdateUserCredit, program, CountsAccounted, CountsBounded, ReadsAccounted
  <2>8. ASSUME NEW ip \in IPs, SyncBlocked(ip) PROVE CountsAccounted'
    BY <2>8 DEF SyncBlocked, BlockUser, program, CountsAccounted, CountsBounded, ReadsAccounted
  <2>9. ASSUME NEW ip \in IPs, ClearStats(ip) PROVE CountsAccounted'
    <3>1. ASSUME NEW i \in IPs PROVE stats'[i] <= accounted'[i]
      <4>1. accounted[i] \in Nat /\ stats[i] <= accounted[i] /\ accounted' = accounted
        BY <2>9 DEF FilterTypeOK, ClearStats, CountsAccounted, CountsBounded
      <4>2. stats'[i] = stats[i] \/ stats'[i] = 0
        BY <2>9 DEF FilterTypeOK, ClearStats
      <4> QED
        BY <4>1, <4>2
    <3>2. ReadsAccounted'
      BY <2>9 DEF ClearStats, program, CountsAccounted, ReadsAccounted
    <3> QED
      BY <3>1, <3>2 DEF CountsAccounted, CountsBounded
  <2>10. CASE Shutdown
    BY <2>10 DEF Shutdown, maps, program, CountsAccounted, CountsBounded, ReadsAccounted
  <2>11. CASE UNCHANGED filterVars
    BY <2>11 DEF filterVars, maps, program, CountsAccounted, CountsBounded, ReadsAccounted
  <2> QED
    BY <2>1, <2>2, <2>3, <2>4, <2>5, <2>6, <2>7, <2>8, <2>9, <2>10, <2>11
    DEF FilterNext, Filter, SyncFromRedis
<1>3. CountsAccounted => NeverOverReported
  BY DEF CountsAccounted, CountsBounded, NeverOverReported, UsageData, Tracked
<1> QED
  BY <1>1, <1>2, <1>3, TypeCorrect, PTL DEF FilterSpec
=============================================================================
