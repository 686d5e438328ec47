----------------------------- MODULE PacketFilter -----------------------------
(***************************************************************************)
(* The XDP program of the packet gateway and the user-space calls that     *)
(* write its maps.  Every CPU runs the program on its own packets, all of  *)
(* them on the same hash maps.  A lookup or an update of a map is atomic;  *)
(* the program reads a counter, computes, and writes it back.  Packets     *)
(* that are not IPv4 pass before any map is looked at and are left out, as  *)
(* are the addresses beyond IPs, which may fill a map at any time.          *)
(***************************************************************************)
EXTENDS Integers, FiniteSets

CONSTANTS CPUs,        \* receive queues
          IPs,         \* addresses
          Sizes,       \* packet sizes, in bytes
          Credits,     \* the credits Redis can hold for an address
          MaxPackets   \* bound on the packets that arrive

ASSUME CPUsFinite == IsFiniteSet(CPUs)
ASSUME SizesNat == Sizes \subseteq Nat \ {0}
ASSUME CreditsInt == Credits \subseteq Int
ASSUME MaxPacketsNat == MaxPackets \in Nat

VARIABLES metered,      \* addresses with an entry in user_credits
          credit,       \* user_credits
          blocked,      \* addresses whose flag in block_list is 1
          stats,        \* packet_stats; an address without an entry counts from 0
          user,         \* what user space does: "running" or "stopping"
          pc, pkt,      \* of each CPU: where it is in the program, and with what
          seen,         \* of each CPU: the counter it has read
          arrived,      \* how many packets have arrived
          accounted,    \* history: the bytes written to packet_stats, by address
          late          \* history: packets let through since the address is blocked

maps       == <<metered, credit, blocked, stats>>
program    == <<pc, pkt, seen>>
filterVars == <<maps, user, program, arrived, accounted, late>>

Packets      == [src : IPs, dst : IPs, size : Sizes]
FilterStages == {"idle", "blocks", "credit", "src", "src write", "dst", "dst write",
                 "charge", "charge write"}

FilterTypeOK ==
  /\ metered \subseteq IPs
  /\ credit \in [IPs -> Int]
  /\ blocked \subseteq IPs
  /\ stats \in [IPs -> Nat]
  /\ user \in {"running", "stopping"}
  /\ pc \in [CPUs -> FilterStages]
  /\ pkt \in [CPUs -> Packets]
  /\ seen \in [CPUs -> Int]
  /\ \A c \in CPUs : pc[c] \in {"src write", "dst write"} => seen[c] \in Nat
  /\ \A c \in CPUs : pc[c] = "charge write" => pkt[c].src \in metered
  /\ arrived \in 0..MaxPackets
  /\ accounted \in [IPs -> Nat]
  /\ late \in [IPs -> Nat]

FilterInit ==
  /\ metered = {}
  /\ credit = [ip \in IPs |-> 0]
  /\ blocked = {}
  /\ stats = [ip \in IPs |-> 0]
  /\ user = "running"
  /\ pc = [c \in CPUs |-> "idle"]
  /\ pkt \in {[c \in CPUs |-> p] : p \in Packets}
  /\ seen = [c \in CPUs |-> 0]
  /\ arrived = 0
  /\ accounted = [ip \in IPs |-> 0]
  /\ late = [ip \in IPs |-> 0]

At(c, stage)      == pc[c] = stage
Advance(c, stage) == pc' = [pc EXCEPT ![c] = stage]
Parties(c)        == {pkt[c].src, pkt[c].dst}

-----------------------------------------------------------------------------
Arrive(c, p) ==
  /\ At(c, "idle")
  /\ arrived < MaxPackets
  /\ arrived' = arrived + 1
  /\ pkt' = [pkt EXCEPT ![c] = p]
  /\ Advance(c, "blocks")
  /\ UNCHANGED <<maps, user, seen, accounted, late>>

(* mutant: only the sender is looked up in the block list *)
CheckBlocksOfSource(c) ==
  /\ At(c, "blocks")
  /\ Advance(c, IF pkt[c].src \in blocked THEN "idle" ELSE "credit")
  /\ UNCHANGED <<maps, user, pkt, seen, arrived, accounted, late>>

(* should_block_packet looks up both ends in the block list.  No entry ever  *)
(* goes back to 0, so reading them one after the other sees nothing that     *)
(* reading them at once does not.                                            *)
CheckBlocks(c) ==
  /\ At(c, "blocks")
  /\ Advance(c, IF Parties(c) \cap blocked # {} THEN "idle" ELSE "credit")
  /\ UNCHANGED <<maps, user, pkt, seen, arrived, accounted, late>>

(* ... and the sender's credit; an address without an entry is not metered. *)
CheckCredit(c) ==
  /\ At(c, "credit")
  /\ Advance(c, IF pkt[c].src \in metered /\ credit[pkt[c].src] <= 0 THEN "idle" ELSE "src")
  /\ UNCHANGED <<maps, user, pkt, seen, arrived, accounted, late>>

(* update_packet_stats of the address ip: lookup, add, update *)
ReadStats(c, ip, next) ==
  /\ seen' = [seen EXCEPT ![c] = stats[ip]]
  /\ Advance(c, next)
  /\ UNCHANGED <<maps, user, pkt, arrived, accounted, late>>

(* mutant: the size is added to the entry as it is by then as well *)
WriteStatsTwice(c, ip, next) ==
  /\ stats' = [stats EXCEPT ![ip] = @ + seen[c] + pkt[c].size]
  /\ accounted' = [accounted EXCEPT ![ip] = @ + pkt[c].size]
  /\ Advance(c, next)
  /\ UNCHANGED <<metered, credit, blocked, user, pkt, seen, arrived, late>>

(* The update of an address without an entry fails, unnoticed, when the map  *)
(* is full.                                                                  *)
WriteStats(c, ip, next) ==
  /\ \/ stats' = [stats EXCEPT ![ip] = seen[c] + pkt[c].size]
     \/ stats[ip] = 0 /\ UNCHANGED stats
  /\ accounted' = [accounted EXCEPT ![ip] = @ + pkt[c].size]
  /\ Advance(c, next)
  /\ UNCHANGED <<metered, credit, blocked, user, pkt, seen, arrived, late>>

CountPacket(c) ==
  \/ At(c, "src")       /\ ReadStats(c, pkt[c].src, "src write")
  \/ At(c, "src write") /\ WriteStats(c, pkt[c].src, "dst")
  \/ At(c, "dst")       /\ ReadStats(c, pkt[c].dst, "dst write")
  \/ At(c, "dst write") /\ WriteStats(c, pkt[c].dst, "charge")

(* XDP_PASS *)
Pass(c) ==
  /\ Advance(c, "idle")
  /\ late' = [ip \in IPs |-> late[ip] + IF ip \in Parties(c) \cap blocked THEN 1 ELSE 0]

(* update_credit_usage of the sender *)
ReadCredit(c) ==
  /\ At(c, "charge")
  /\ IF pkt[c].src \in metered
       THEN /\ seen' = [seen EXCEPT ![c] = credit[pkt[c].src]]
            /\ Advance(c, "charge write")
            /\ UNCHANGED late
       ELSE Pass(c) /\ UNCHANGED seen
  /\ UNCHANGED <<maps, user, pkt, arrived, accounted>>

WriteCredit(c) ==
  /\ At(c, "charge write")
  /\ credit' = [credit EXCEPT ![pkt[c].src] = seen[c] - pkt[c].size]
  /\ Pass(c)
  /\ UNCHANGED <<metered, blocked, stats, user, pkt, seen, arrived, accounted>>

-----------------------------------------------------------------------------
UpdateUserCredit(ip, n) ==
  /\ credit' = [credit EXCEPT ![ip] = n]
  /\ metered' = metered \cup {ip}

(* sync_credits_from_redis: user_credits takes what Redis holds, whatever    *)
(* was charged since.  The first synchronisation comes after the program is  *)
(* attached, and one that fails stops at any key.                            *)
SyncCredit(ip, n) ==
  /\ user = "running"
  /\ UpdateUserCredit(ip, n)
  /\ UNCHANGED <<blocked, stats, user, program, arrived, accounted, late>>

BlockUser(ip) == blocked' = blocked \cup {ip}

(* sync_blocked_from_redis: nothing takes an address off the list again. *)
SyncBlocked(ip) ==
  /\ user = "running"
  /\ BlockUser(ip)
  /\ UNCHANGED <<metered, credit, stats, user, program, arrived, accounted, late>>

Shutdown ==
  /\ user = "running"
  /\ user' = "stopping"
  /\ UNCHANGED <<maps, program, arrived, accounted, late>>

(* cleanup_maps, with the program still attached *)
ClearStats(ip) ==
  /\ user = "stopping"
  /\ stats' = [stats EXCEPT ![ip] = 0]
  /\ UNCHANGED <<metered, credit, blocked, user, program, arrived, accounted, late>>

Filter(c) ==
  \/ \E p \in Packets : Arrive(c, p)
  \/ CheckBlocks(c)
  \/ CheckCredit(c)
  \/ CountPacket(c)
  \/ ReadCredit(c)
  \/ WriteCredit(c)

SyncFromRedis ==
  \/ \E ip \in IPs, n \in Credits : SyncCredit(ip, n)
  \/ \E ip \in IPs : SyncBlocked(ip)

FilterNext ==
  \/ \E c \in CPUs : Filter(c)
  \/ SyncFromRedis
  \/ \E ip \in IPs : ClearStats(ip)
  \/ Shutdown

FilterSpec == FilterInit /\ [][FilterNext]_filterVars

-----------------------------------------------------------------------------
(* Once an address is blocked, no more packets to or from it get through     *)
(* than there are CPUs: each can be past the check with one of them.         *)
BlockCutsOff == \A ip \in IPs : late[ip] <= Cardinality(CPUs)

(* What a report to the charging engine holds: the addresses with traffic.   *)
Tracked   == {ip \in IPs : stats[ip] > 0}
UsageData == [ip \in Tracked |-> stats[ip]]

(* CPUs that count for the same address at once lose bytes, but they never   *)
(* report more than went through.                                            *)
NeverOverReported == \A ip \in DOMAIN UsageData : UsageData[ip] <= accounted[ip]
=============================================================================
