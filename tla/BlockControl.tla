---------------------------- MODULE BlockControl -----------------------------
(***************************************************************************)
(* Blocking a subscriber's IP address in the charging engine: block_user,  *)
(* unblock_user and is_user_blocked, and the loops started by start_sync   *)
(* that sweep away blocks (cleanup_expired_blocks).  Every command to      *)
(* Redis is one step; handlers and loops interleave between them.          *)
(*                                                                         *)
(* block_user writes block:{ip}, but unblock_user reads and deletes        *)
(* blocked:{ip}, a key nothing ever writes: its DEL is never reached, and  *)
(* the model has the one key block:{ip}.                                   *)
(***************************************************************************)

CONSTANTS Callers,   \* handlers of POST /v1/block/:ip and /v1/unblock/:ip
          Sweepers   \* loops of start_background_sync, one per start_sync call

VARIABLES block,   \* block:{ip}: absent, held without an expiry, or expiring
          call,    \* the next Redis command of each handler
          reply,   \* what the last request of each handler was told
          sweep    \* the next Redis command of each sweep of the block keys

blockVars == <<block, call, reply, sweep>>

Lifetimes  == {"absent", "held", "expiring"}
CallSteps  == {"idle", "set", "expire"}
Replies    == {"none", "blocked", "alreadyBlocked", "unblocked", "error"}
SweepSteps == {"idle", "ttl", "del"}

BlockTypeOK ==
  /\ block \in Lifetimes
  /\ call \in [Callers -> CallSteps]
  /\ reply \in [Callers -> Replies]
  /\ sweep \in [Sweepers -> SweepSteps]
  /\ \A c \in Callers : call[c] # "idle" => reply[c] = "none"

BlockInit ==
  /\ block = "absent"
  /\ call = [c \in Callers |-> "idle"]
  /\ reply = [c \in Callers |-> "none"]
  /\ sweep = [s \in Sweepers |-> "idle"]

Blocked == block # "absent"

CallTo(c, step) == call' = [call EXCEPT ![c] = step]

Answer(c, r) ==
  /\ CallTo(c, "idle")
  /\ reply' = [reply EXCEPT ![c] = r]

Sweep(s, step) == sweep' = [sweep EXCEPT ![s] = step]

-----------------------------------------------------------------------------
(* block_user: GET block:{ip}; an existing block refuses the request *)
BlockRead(c) ==
  /\ call[c] = "idle"
  /\ \/ Blocked /\ Answer(c, "alreadyBlocked")
     \/ ~Blocked /\ CallTo(c, "set") /\ reply' = [reply EXCEPT ![c] = "none"]
  /\ UNCHANGED <<block, sweep>>

(* SET drops any expiry the key has *)
BlockSet(c) ==
  /\ call[c] = "set"
  /\ block' = "held"
  /\ CallTo(c, "expire")
  /\ UNCHANGED <<reply, sweep>>

(* EXPIRE: no effect on an absent key, errors ignored; the block is confirmed *)
BlockExpire(c) ==
  /\ call[c] = "expire"
  /\ \/ Blocked /\ block' = "expiring"
     \/ UNCHANGED block
  /\ Answer(c, "blocked")
  /\ UNCHANGED sweep

(* unblock_user: GET blocked:{ip} finds nothing, and the request succeeds *)
Unblock(c) ==
  /\ call[c] = "idle"
  /\ Answer(c, "unblocked")
  /\ UNCHANGED <<block, sweep>>

(* A Redis error, a dropped request or a crash between two commands *)
Abandon(c) ==
  /\ call[c] # "idle"
  /\ Answer(c, "error")
  /\ UNCHANGED <<block, sweep>>

-----------------------------------------------------------------------------
(* cleanup_expired_blocks: KEYS block:* *)
SweepKeys(s) ==
  /\ sweep[s] = "idle"
  /\ Blocked
  /\ Sweep(s, "ttl")
  /\ UNCHANGED <<block, call, reply>>

(* mutant: only keys that are gone are deleted *)
SweepTtlGoneOnly(s) ==
  /\ sweep[s] = "ttl"
  /\ Sweep(s, IF block = "absent" THEN "del" ELSE "idle")
  /\ UNCHANGED <<block, call, reply>>

(* TTL: -2 for an absent key and -1 for one without an expiry *)
SweepTtl(s) ==
  /\ sweep[s] = "ttl"
  /\ Sweep(s, IF block = "expiring" THEN "idle" ELSE "del")
  /\ UNCHANGED <<block, call, reply>>

(* A failed TTL is taken for -1 *)
SweepTtlFails(s) ==
  /\ sweep[s] = "ttl"
  /\ Sweep(s, "del")
  /\ UNCHANGED <<block, call, reply>>

(* DEL, or an error of it, which is ignored *)
SweepDel(s) ==
  /\ sweep[s] = "del"
  /\ block' = "absent"
  /\ Sweep(s, "idle")
  /\ UNCHANGED <<call, reply>>

SweepDelFails(s) ==
  /\ sweep[s] = "del"
  /\ Sweep(s, "idle")
  /\ UNCHANGED <<block, call, reply>>

KeyExpires ==
  /\ block = "expiring"
  /\ block' = "absent"
  /\ UNCHANGED <<call, reply, sweep>>

Caller(c) ==
  \/ BlockRead(c) \/ BlockSet(c) \/ BlockExpire(c)
  \/ Unblock(c) \/ Abandon(c)

Sweeper(s) ==
  \/ SweepKeys(s) \/ SweepTtl(s) \/ SweepTtlFails(s)
  \/ SweepDel(s) \/ SweepDelFails(s)

BlockNext ==
  \/ \E c \in Callers : Caller(c)
  \/ \E s \in Sweepers : Sweeper(s)
  \/ KeyExpires

BlockSpec == BlockInit /\ [][BlockNext]_blockVars

(***************************************************************************)
(* The loops tick for ever, each command of theirs is answered or fails,   *)
(* Redis expires what is due, and its failures are not permanent: a sweep  *)
(* that reaches the DEL again and again gets it done.                      *)
(***************************************************************************)
BlockFairness ==
  /\ WF_blockVars(KeyExpires)
  /\ \A s \in Sweepers :
       /\ WF_blockVars(SweepKeys(s))
       /\ WF_blockVars(SweepTtl(s) \/ SweepTtlFails(s))
       /\ SF_blockVars(SweepDel(s))

(* No block is permanent, although the error of the EXPIRE that should end  *)
(* it is ignored and a second block_user can drop the expiry of the first:  *)
(* what is left without an expiry is swept.                                 *)
BlockEnds == Blocked ~> ~Blocked

(* handlers/block.rs:25 "Unblock a user": an address whose unblocking was   *)
(* confirmed is not blocked.                                                *)
UnblockLifts == [][\A c \in Callers : Unblock(c) => block' = "absent"]_blockVars
=============================================================================
