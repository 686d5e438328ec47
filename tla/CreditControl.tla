---------------------------- MODULE CreditControl ----------------------------
(***************************************************************************)
(* The prepaid byte balance the charging engine keeps in Redis under       *)
(* credit:{ip}, and the three calls that use it: add_credit, deduct_credit *)
(* and check_credit/get_balance.  Redis runs every command atomically, but *)
(* each call is a GET followed by an INCRBY or a DECRBY, and the handlers  *)
(* of concurrent requests interleave at every `.await` in between.         *)
(*                                                                         *)
(* One key is modelled: no call touches the keys of two subscribers.       *)
(***************************************************************************)
EXTENDS Integers, FiniteSets

CONSTANTS Workers,    \* request handlers that can be running at one time
          MaxBytes,   \* the most bytes one request may ask for
          MaxInt64    \* Redis rejects an INCRBY whose result exceeds this

ASSUME WorkersFinite == IsFiniteSet(Workers)
ASSUME MaxBytesPositive == MaxBytes \in Nat \ {0}
ASSUME MaxInt64Positive == MaxInt64 \in Nat

VARIABLES key,      \* the Redis key: absent, without an expiry, or with one
          credit,   \* its value; 0 when absent, as INCRBY and DECRBY read it
          pc,       \* the next Redis command of each handler
          amt,      \* the bytes each handler was asked to add or deduct
          reply     \* how each handler's last request ended

creditVars == <<key, credit, pc, amt, reply>>

Amounts == 1..MaxBytes
Keys    == {"absent", "persistent", "expiring"}
Steps   == {"idle", "incr", "expire", "decr"}
Replies == {"none", "ok", "insufficient", "unreadable", "error"}

CreditTypeOK ==
  /\ key \in Keys
  /\ credit \in Int
  /\ pc \in [Workers -> Steps]
  /\ amt \in [Workers -> 0..MaxBytes]
  /\ reply \in [Workers -> Replies]
  /\ credit <= MaxInt64
  /\ key = "absent" => credit = 0

CreditInit ==
  /\ key = "absent"
  /\ credit = 0
  /\ pc = [w \in Workers |-> "idle"]
  /\ amt = [w \in Workers |-> 0]
  /\ reply = [w \in Workers |-> "none"]

-----------------------------------------------------------------------------
(* mutant: add_credit parses a signed number *)
ReadsAsOptionI64 == TRUE

(* GET parsed as u64: a negative value is an error.  An absent key is an   *)
(* error too, except in add_credit, which parses an Option<u64>.           *)
ReadsAsU64       == key # "absent" /\ credit >= 0
ReadsAsOptionU64 == key = "absent" \/ credit >= 0

(* INCRBY and DECRBY keep the expiry of a key and create one without *)
Written == IF key = "absent" THEN "persistent" ELSE key

Proceed(w, step) == pc' = [pc EXCEPT ![w] = step]

Answer(w, r) ==
  /\ Proceed(w, "idle")
  /\ reply' = [reply EXCEPT ![w] = r]

StartWith(w, step, a) ==
  /\ Proceed(w, step)
  /\ amt' = [amt EXCEPT ![w] = a]

(* mutant: no balance check *)
DeductReadUnchecked(w, a) ==
  /\ pc[w] = "idle"
  /\ StartWith(w, "decr", a)
  /\ UNCHANGED <<key, credit, reply>>

(* deduct_credit: GET, then refuse or go on to DECRBY *)
DeductRead(w, a) ==
  /\ pc[w] = "idle"
  /\ \/ /\ ReadsAsU64
        /\ credit >= a
        /\ StartWith(w, "decr", a)
        /\ UNCHANGED reply
     \/ /\ ReadsAsU64
        /\ credit < a
        /\ Answer(w, "insufficient")
        /\ UNCHANGED amt
     \/ /\ ~ReadsAsU64
        /\ Answer(w, "unreadable")
        /\ UNCHANGED amt
  /\ UNCHANGED <<key, credit>>

(* DECRBY: creates the key, without an expiry, when it has expired since *)
DeductDecr(w) ==
  /\ pc[w] = "decr"
  /\ credit' = credit - amt[w]
  /\ key' = Written
  /\ Answer(w, "ok")
  /\ UNCHANGED amt

(* add_credit: GET.  The sum of two valid amounts never overflows a u64, so  *)
(* checked_add always succeeds and the read alone decides.                   *)
AddRead(w, a) ==
  /\ pc[w] = "idle"
  /\ \/ /\ ReadsAsOptionU64
        /\ StartWith(w, "incr", a)
        /\ UNCHANGED reply
     \/ /\ ~ReadsAsOptionU64
        /\ Answer(w, "unreadable")
        /\ UNCHANGED amt
  /\ UNCHANGED <<key, credit>>

(* INCRBY: creates the key when absent; Redis refuses to pass its maximum *)
AddIncr(w) ==
  /\ pc[w] = "incr"
  /\ \/ /\ credit + amt[w] <= MaxInt64
        /\ credit' = credit + amt[w]
        /\ key' = Written
        /\ Proceed(w, "expire")
        /\ UNCHANGED reply
     \/ /\ credit + amt[w] > MaxInt64
        /\ Answer(w, "error")
        /\ UNCHANGED <<key, credit>>
  /\ UNCHANGED amt

(* EXPIRE: has no effect on an absent key, and its errors are ignored *)
AddExpire(w) ==
  /\ pc[w] = "expire"
  /\ key' \in {key, IF key = "absent" THEN key ELSE "expiring"}
  /\ Answer(w, "ok")
  /\ UNCHANGED <<credit, amt>>

(* A Redis error before the next command took effect, a dropped request or  *)
(* a crash of the engine: the commands already run stay in Redis.           *)
Abandon(w) ==
  /\ pc[w] # "idle"
  /\ Answer(w, "error")
  /\ UNCHANGED <<key, credit, amt>>

(* check_credit: one GET, compared with the bytes requested *)
CheckCredit(w, a) ==
  /\ pc[w] = "idle"
  /\ Answer(w, IF ~ReadsAsU64 THEN "unreadable"
               ELSE IF credit >= a THEN "ok" ELSE "insufficient")
  /\ UNCHANGED <<key, credit, amt>>

(* CREDIT_EXPIRATION_SECONDS after the last EXPIRE, Redis drops the key *)
KeyExpires ==
  /\ key = "expiring"
  /\ key' = "absent"
  /\ credit' = 0
  /\ UNCHANGED <<pc, amt, reply>>

Worker(w) ==
  \/ \E a \in Amounts : DeductRead(w, a) \/ AddRead(w, a) \/ CheckCredit(w, a)
  \/ DeductDecr(w)
  \/ AddIncr(w)
  \/ AddExpire(w)
  \/ Abandon(w)

CreditNext == KeyExpires \/ \E w \in Workers : Worker(w)

CreditSpec == CreditInit /\ [][CreditNext]_creditVars

-----------------------------------------------------------------------------
(* The handlers that have passed the balance check and not yet deducted *)
Approved == {w \in Workers : pc[w] = "decr"}

(* The handlers that will still add bytes they have read the balance for *)
Adding == {w \in Workers : pc[w] = "incr"}

(* However the requests of N handlers interleave with each other and with   *)
(* the expiry of the key, check-then-decrement in deduct_credit overdraws   *)
(* the balance by at most N of the largest requests, and what add_credit     *)
(* checks against u64 never leaves the range of Redis's counter.             *)
OverdraftBound ==
  credit >= -(Cardinality(Workers) * MaxBytes) /\ credit <= MaxInt64

(* Why: a handler that is still to deduct has its share of the bound left.  *)
OverdraftShare ==
  credit >= -((Cardinality(Workers) - Cardinality(Approved)) * MaxBytes)

(* Once overdrawn with no top-up in flight, the balance stays overdrawn     *)
(* until the key expires: add_credit cannot parse a negative value, so the  *)
(* subscriber's next top-ups are refused instead of clearing the debt.      *)
Overdrawn == credit < 0 /\ Adding = {}

DebtIsNotToppedUp == [][Overdrawn => Overdrawn' \/ key' = "absent"]_creditVars

(* A negative balance under a key without expiry, with no top-up in flight, *)
(* is there for good: no call of the engine can ever change it again except *)
(* the deductions already approved.                                         *)
Stuck ==
  /\ key = "persistent"
  /\ credit < 0
  /\ \A w \in Workers : pc[w] \notin {"incr", "expire"}

StuckForever == [][Stuck => Stuck']_creditVars
=============================================================================
