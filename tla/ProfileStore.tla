----------------------------- MODULE ProfileStore -----------------------------
(***************************************************************************)
(* The eSIM profiles of the carrier connector: rows of esim_profiles in    *)
(* PostgreSQL behind a cache in the memory of every replica.  A profile is *)
(* its state; an entry of a cache is fresh until its time to live is over, *)
(* and stands until then whatever other replicas do.                       *)
(***************************************************************************)
EXTENDS Naturals

CONSTANTS Iccids, Replicas,
          Tasks,     \* requests a replica serves at a time
          States,    \* states of a profile
          MaxRequests, MaxFaults   \* bounds

ASSUME DownloadedIsState == "downloaded" \in States
ASSUME AbsentIsNoState == "absent" \notin States
ASSUME BoundsNat == MaxRequests \in Nat /\ MaxFaults \in Nat

VARIABLES rows,               \* state of each stored profile, or Absent
          cache,              \* of each replica and profile
          step, iccid, value, next,  \* of each handler: its step, the profile it is
                              \* for, the state it read or will write, what it
                              \* does once it has the profile
          requests, faults,   \* how many so far, for the bounds
          settled             \* history: the <<replica, profile>> whose last write
                              \* was made there, with no lookup under way

handlers == <<step, iccid, value, next>>
counts   == <<requests, faults>>
vars     == <<rows, cache, handlers, counts, settled>>

Absent   == "absent"
Handlers == Replicas \X Tasks
None     == [state |-> Absent, age |-> "none"]
Entries  == {None} \cup [state : States, age : {"fresh", "old"}]
Steps    == {"idle", "read", "fill", "create", "update", "select", "delete", "invalidate"}

TypeOK ==
  /\ rows \in [Iccids -> {Absent} \cup States]
  /\ cache \in [Replicas -> [Iccids -> Entries]]
  /\ step \in [Handlers -> Steps]
  /\ iccid \in [Handlers -> Iccids]
  /\ value \in [Handlers -> States]
  /\ next \in [Handlers -> {"idle", "delete"}]
  /\ requests \in 0..MaxRequests
  /\ faults \in 0..MaxFaults
  /\ settled \in SUBSET (Replicas \X Iccids)

Init ==
  /\ rows = [i \in Iccids |-> Absent]
  /\ cache = [r \in Replicas |-> [i \in Iccids |-> None]]
  /\ step = [h \in Handlers |-> "idle"]
  /\ iccid \in {[h \in Handlers |-> i] : i \in Iccids}
  /\ value = [h \in Handlers |-> "downloaded"]
  /\ next = [h \in Handlers |-> "idle"]
  /\ requests = 0
  /\ faults = 0
  /\ settled = {}

NoFault == UNCHANGED faults
Fault   == faults < MaxFaults /\ faults' = faults + 1
Goto(h, s) == step' = [step EXCEPT ![h] = s]
Stored(h)  == rows[iccid[h]] # Absent

Begin(h, i) ==
  /\ step[h] = "idle"
  /\ requests < MaxRequests
  /\ requests' = requests + 1
  /\ iccid' = [iccid EXCEPT ![h] = i]
  /\ UNCHANGED <<rows, cache, faults, settled>>

(* A row gets the state s, or goes when s is Absent: nothing is settled now. *)
Put(i, s) ==
  /\ rows' = [rows EXCEPT ![i] = s]
  /\ settled' = {c \in settled : c[2] # i}

(* The write of a command that fails may have been made. *)
MaybePut(i, s) == Put(i, s) \/ UNCHANGED <<rows, settled>>

-----------------------------------------------------------------------------
(* Get of CachedProfileStore, in a lookup or before a deletion *)

(* mutant: an entry is served as long as it is there *)
HitAnyAge(r, i) == cache[r][i].age # "none"

Hit(r, i) == cache[r][i].age = "fresh"

Lookup(h, i, then) ==
  /\ Begin(h, i)
  /\ next' = [next EXCEPT ![h] = then]
  /\ Goto(h, IF Hit(h[1], i) THEN then ELSE "read")
  /\ UNCHANGED value

(* The query, without the lock of the cache; no profile and an error end it. *)
ReadRow(h) ==
  /\ step[h] = "read"
  /\ \/ /\ Stored(h) /\ NoFault
        /\ value' = [value EXCEPT ![h] = rows[iccid[h]]]
        /\ Goto(h, "fill")
     \/ /\ (~Stored(h) /\ NoFault) \/ Fault
        /\ Goto(h, "idle")
        /\ UNCHANGED value
  /\ UNCHANGED <<rows, cache, iccid, next, requests, settled>>

Fill(h) ==
  /\ step[h] = "fill"
  /\ cache' = [cache EXCEPT ![h[1]][iccid[h]] = [state |-> value[h], age |-> "fresh"]]
  /\ Goto(h, next[h])
  /\ UNCHANGED <<rows, iccid, value, next, counts, settled>>

-----------------------------------------------------------------------------
(* The writes: first the row, then, unless that failed, the cache *)

(* The SM-DP+ has let the profile be downloaded; where it does not, nothing  *)
(* is stored.                                                                *)
BeginOrder(h, i) == Begin(h, i) /\ Goto(h, "create") /\ UNCHANGED <<value, next>>

(* A second row of an ICCID violates the primary key. *)
CreateRow(h) ==
  /\ step[h] = "create"
  /\ \/ ~Stored(h) /\ NoFault /\ Put(iccid[h], "downloaded") /\ Goto(h, "invalidate")
     \/ Stored(h) /\ NoFault /\ Goto(h, "idle") /\ UNCHANGED <<rows, settled>>
     \/ /\ Fault /\ Goto(h, "idle")
        /\ IF Stored(h) THEN UNCHANGED <<rows, settled>>
                        ELSE MaybePut(iccid[h], "downloaded")
  /\ UNCHANGED <<cache, iccid, value, next, requests>>

BeginUpdate(h, i, s) ==
  /\ Begin(h, i)
  /\ Goto(h, "update")
  /\ value' = [value EXCEPT ![h] = s]
  /\ UNCHANGED next

(* UPDATE; no row is an error *)
UpdateRow(h) ==
  /\ step[h] = "update"
  /\ \/ Stored(h) /\ NoFault /\ Put(iccid[h], value[h]) /\ Goto(h, "select")
     \/ ~Stored(h) /\ NoFault /\ Goto(h, "idle") /\ UNCHANGED <<rows, settled>>
     \/ /\ Fault /\ Goto(h, "idle")
        /\ IF Stored(h) THEN MaybePut(iccid[h], value[h])
                        ELSE UNCHANGED <<rows, settled>>
  /\ UNCHANGED <<cache, iccid, value, next, requests>>

(* The row is read back; when that fails, the update stands and the cache    *)
(* keeps what it has.                                                        *)
SelectRow(h) ==
  /\ step[h] = "select"
  /\ \/ Stored(h) /\ NoFault /\ Goto(h, "invalidate")
     \/ ((~Stored(h) /\ NoFault) \/ Fault) /\ Goto(h, "idle")
  /\ UNCHANGED <<rows, cache, iccid, value, next, requests, settled>>

DeleteRow(h) ==
  /\ step[h] = "delete"
  /\ \/ Stored(h) /\ NoFault /\ Put(iccid[h], Absent) /\ Goto(h, "invalidate")
     \/ ~Stored(h) /\ NoFault /\ Goto(h, "idle") /\ UNCHANGED <<rows, settled>>
     \/ Fault /\ Goto(h, "idle") /\ MaybePut(iccid[h], Absent)
  /\ UNCHANGED <<cache, iccid, value, next, requests>>

(* Some lookup has read the profile and not yet put it into the cache. *)
Filling(r, i) == \E g \in Handlers : g[1] = r /\ step[g] = "fill" /\ iccid[g] = i

Settle(r, i) == settled' = IF Filling(r, i) THEN settled ELSE settled \cup {<<r, i>>}

(* mutant: only an entry that is old is removed *)
InvalidateOld(h) ==
  /\ step[h] = "invalidate"
  /\ IF Hit(h[1], iccid[h]) THEN UNCHANGED cache
                            ELSE cache' = [cache EXCEPT ![h[1]][iccid[h]] = None]
  /\ Settle(h[1], iccid[h])
  /\ Goto(h, "idle")
  /\ UNCHANGED <<rows, iccid, value, next, counts>>

Invalidate(h) ==
  /\ step[h] = "invalidate"
  /\ cache' = [cache EXCEPT ![h[1]][iccid[h]] = None]
  /\ Settle(h[1], iccid[h])
  /\ Goto(h, "idle")
  /\ UNCHANGED <<rows, iccid, value, next, counts>>

-----------------------------------------------------------------------------
(* The time to live of an entry is over. *)
Lapse(r, i) ==
  /\ cache[r][i].age = "fresh"
  /\ cache' = [cache EXCEPT ![r][i].age = "old"]
  /\ UNCHANGED <<rows, handlers, counts, settled>>

(* Every half of a time to live, the ticker removes what is old. *)
CleanupExpired(r) ==
  /\ cache' = [cache EXCEPT ![r] =
                [i \in Iccids |-> IF cache[r][i].age = "old" THEN None ELSE cache[r][i]]]
  /\ UNCHANGED <<rows, handlers, counts, settled>>

(* A replica is started again: its requests and its cache are gone. *)
Restart(r) ==
  /\ Fault
  /\ cache' = [cache EXCEPT ![r] = [i \in Iccids |-> None]]
  /\ step' = [h \in Handlers |-> IF h[1] = r THEN "idle" ELSE step[h]]
  /\ UNCHANGED <<rows, iccid, value, next, requests, settled>>

-----------------------------------------------------------------------------
Request(h) ==
  \/ \E i \in Iccids, then \in {"idle", "delete"} : Lookup(h, i, then)
  \/ \E i \in Iccids : BeginOrder(h, i)
  \/ \E i \in Iccids, s \in States : BeginUpdate(h, i, s)

Serve(h) ==
  \/ ReadRow(h)
  \/ Fill(h)
  \/ CreateRow(h)
  \/ UpdateRow(h)
  \/ SelectRow(h)
  \/ DeleteRow(h)
  \/ Invalidate(h)

Next ==
  \/ \E h \in Handlers : Request(h) \/ Serve(h)
  \/ \E r \in Replicas : CleanupExpired(r) \/ Restart(r)
  \/ \E r \in Replicas, i \in Iccids : Lapse(r, i)

(* Time passes. *)
Fairness == \A r \in Replicas, i \in Iccids : WF_vars(Lapse(r, i))

Spec == Init /\ [][Next]_vars /\ Fairness

-----------------------------------------------------------------------------
(* After a write that succeeded, and that no lookup of the same replica      *)
(* overlapped, the replica never answers with what was there before, until   *)
(* somebody writes again: invalidating after the write is enough for that.   *)
WritesSeen ==
  \A r \in Replicas, i \in Iccids :
    <<r, i>> \in settled /\ Hit(r, i) => cache[r][i].state = rows[i]

(* Failed writes, slow lookups and other replicas leave old profiles in a    *)
(* cache, but none for ever: in the end every answer is the row's.           *)
FreshInTheEnd ==
  <>[](\A r \in Replicas, i \in Iccids : Hit(r, i) => cache[r][i].state = rows[i])
=============================================================================
