------------------------------ MODULE MCMetering ------------------------------
(* What subscribers buy and use, and what their packets use, for TLC: one    *)
(* bundle that grants two units, which two requests can want at once, and    *)
(* two CPUs.  The parts share no state: a behaviour is one of one of them,   *)
(* chosen by its initial state, and the other stays as it starts.            *)
EXTENDS BundlePurchase, PacketFilter, TLC

TwoUnits == [b \in Bundles |-> [t \in Types |-> 2]]

UnitCost == [b \in Bundles |-> 1]

Symmetry == Permutations(Requests) \cup Permutations(IPs)

VARIABLE part

meteringVars == <<vars, filterVars, part>>

MCInit ==
  /\ Init /\ FilterInit
  /\ part \in {"bundles", "packets"}
  /\ part = "packets" \/ \A c \in CPUs : pkt[c].src = pkt[c].dst

MCNext ==
  \/ part = "bundles" /\ Next       /\ UNCHANGED <<filterVars, part>>
  \/ part = "packets" /\ FilterNext /\ UNCHANGED <<vars, part>>

(* What a CPU has read and has not used yet: its packet from when it arrives, *)
(* and the counter it is about to write.                                      *)
Reading(c) ==
  <<IF At(c, "idle") THEN {} ELSE {pkt[c]},
    IF pc[c] \in {"src write", "dst write", "charge write"} THEN {seen[c]} ELSE {}>>

(* The sums of history that AirtimeAccounts compares, and the difference that *)
(* UsedIsDeducted says is none: steps add to their terms, and no guard reads  *)
(* these but `added`.                                                         *)
Unexplained(s) ==
  <<added[s] - (airtime[s] + gone[s] + ledger[s] + missing[s]),
    bought[s] - ledger[s],
    ledger[s] + missing[s] - bought[s]>>

NotDeducted(s, b) ==
  LET i == bundle[s][b].by
  IN  IF i \in {0} \cup disturbed THEN {}
      ELSE {<<t, Allowance[b][t] - bundle[s][b].left[t] - used[i][t]>> : t \in Types}

BundlesView ==
  <<redis, onSale, activations, over, job, disturbed, added,
    [s \in Subs |-> <<Unexplained(s), [b \in Bundles |-> NotDeducted(s, b)]>>]>>

View ==
  <<BundlesView, maps, user, pc, [c \in CPUs |-> Reading(c)], arrived, accounted, late, part>>

MCSpec == MCInit /\ [][MCNext]_meteringVars
=============================================================================
