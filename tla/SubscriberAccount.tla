--------------------------- MODULE SubscriberAccount ---------------------------
(***************************************************************************)
(* One row of the api-server's subscribers table and the payments made     *)
(* into it.  Three kinds of writer meet on the row: top-ups and refunds     *)
(* change `balance` in place, the authentication centre changes `sqn` in    *)
(* place, and the life-cycle operations read the row, change the copy and   *)
(* save all of its columns.  Stripe answers a charge, settles it later or   *)
(* declines it, and delivers its events as often as it takes.               *)
(***************************************************************************)
EXTENDS Integers, FiniteSets

CONSTANTS Requests,    \* requests that can be in progress at one time
          Deliveries,  \* webhook deliveries in progress at one time
          Payments,    \* payment intents that come to be created
          Price,       \* the amount of a top-up
          MaxSqn,      \* bound on the sequence number
          None         \* no payment

ASSUME PriceNat == Price \in Nat \ {0}
ASSUME MaxSqnNat == MaxSqn \in Nat
ASSUME NoneIsNoPayment == None \notin Payments

VARIABLES row,         \* status, balance and sqn of the subscriber
          intent,      \* what Stripe knows of each payment intent
          unacked,     \* intents whose event Stripe has yet to see acknowledged
          returned,    \* what Stripe has refunded of each payment
          txn,         \* status of the transactions row of each payment
          job,         \* of each request
          hook,        \* of each delivery: the payment whose row it has read
          credits,     \* history: how often each payment was credited
          ledger,      \* history: credits less refunds, as they were made
          issued,      \* history: the sequence numbers given out
          vectors,     \* history: how many authentication vectors were made
          overwritten  \* history: a Save has replaced a newer balance or sqn

stripe  == <<intent, unacked, returned>>
history == <<credits, ledger, issued, vectors, overwritten>>
vars    == <<row, stripe, txn, job, hook, history>>

Statuses == {"active", "suspended", "terminated"}
Rows     == [status : Statuses, balance : Int, sqn : Nat]
Closed   == {"succeeded", "failed", "canceled"}
Fresh    == [status |-> "active", balance |-> 0, sqn |-> 0]

Idle == [pc |-> "idle", pay |-> None, amount |-> 0, copy |-> Fresh]
Jobs == [pc : {"idle", "charge", "insert", "pending", "credit", "refund", "deduct", "save"},
         pay : Payments \cup {None}, amount : 0..Price, copy : Rows]

TypeOK ==
  /\ row \in Rows
  /\ intent \in [Payments -> {"none", "open"} \cup Closed]
  /\ unacked \subseteq Payments
  /\ returned \in [Payments -> 0..Price]
  /\ txn \in [Payments -> {"none", "PENDING", "COMPLETED", "FAILED", "CANCELLED"}]
  /\ job \in [Requests -> Jobs]
  /\ hook \in [Deliveries -> Payments \cup {None}]
  /\ credits \in [Payments -> Nat]
  /\ ledger \in Int
  /\ issued \subseteq Nat
  /\ vectors \in Nat
  /\ overwritten \in BOOLEAN

(* CreateSubscriber has inserted the row and goes on to save all of it again, *)
(* with the status its profile now has.                                      *)
Creating == [Idle EXCEPT !.pc = "save"]

Init ==
  /\ row = Fresh
  /\ intent = [p \in Payments |-> "none"]
  /\ unacked = {}
  /\ returned = [p \in Payments |-> 0]
  /\ txn = [p \in Payments |-> "none"]
  /\ \E r \in Requests : job = [q \in Requests |-> IF q = r THEN Creating ELSE Idle]
  /\ hook = [d \in Deliveries |-> None]
  /\ credits = [p \in Payments |-> 0]
  /\ ledger = 0
  /\ issued = {}
  /\ vectors = 0
  /\ overwritten = FALSE

At(r, pc)     == job[r].pc = pc
Goto(r, pc)   == job' = [job EXCEPT ![r].pc = pc]
Finish(r)     == job' = [job EXCEPT ![r] = Idle]
Known(pc, p)  == [Idle EXCEPT !.pc = pc, !.pay = p]

-----------------------------------------------------------------------------
(* ProcessTopUp: the subscriber must exist, then Stripe is charged. *)
TopUp(r) ==
  /\ At(r, "idle")
  /\ job' = [job EXCEPT ![r] = [Idle EXCEPT !.pc = "charge", !.copy = row]]
  /\ UNCHANGED <<row, stripe, txn, hook, history>>

(* Stripe creates and confirms a payment intent.  A declined card is an      *)
(* error of the API, and any answer can get lost: both end the request with  *)
(* nothing recorded.  mapStripeStatus tells a paid intent from one that      *)
(* needs time or the customer.                                               *)
Charge(r, p) ==
  /\ At(r, "charge")
  /\ intent[p] = "none"
  /\ \E outcome \in {"succeeded", "open", "failed"} :
       /\ intent' = [intent EXCEPT ![p] = outcome]
       /\ unacked' = IF outcome \in Closed THEN unacked \cup {p} ELSE unacked
       /\ \/ Finish(r)
          \/ /\ outcome # "failed"
             /\ job' = [job EXCEPT ![r].pc = IF outcome = "succeeded" THEN "insert" ELSE "pending",
                                   ![r].pay = p]
  /\ UNCHANGED <<row, returned, txn, hook, history>>

(* CreateTransaction, with the status the charge was answered with *)
Insert(r) ==
  /\ At(r, "insert")
  /\ txn' = [txn EXCEPT ![job[r].pay] = "COMPLETED"]
  /\ Goto(r, "credit")
  /\ UNCHANGED <<row, stripe, hook, history>>

InsertPending(r) ==
  /\ At(r, "pending")
  /\ txn' = [txn EXCEPT ![job[r].pay] = "PENDING"]
  /\ Finish(r)
  /\ UNCHANGED <<row, stripe, hook, history>>

(* mutant: the balance read when the request began is added to and written,  *)
(* as TopUpBalance does                                                      *)
CreditStale(r) ==
  /\ At(r, "credit")
  /\ row' = [row EXCEPT !.balance = job[r].copy.balance + Price]
  /\ credits' = [credits EXCEPT ![job[r].pay] = @ + 1]
  /\ ledger' = ledger + Price
  /\ Finish(r)
  /\ UNCHANGED <<stripe, txn, hook, issued, vectors, overwritten>>

(* UpdateSubscriberBalance of a paid top-up: balance + ? in one statement *)
Credit(r) ==
  /\ At(r, "credit")
  /\ row' = [row EXCEPT !.balance = @ + Price]
  /\ credits' = [credits EXCEPT ![job[r].pay] = @ + 1]
  /\ ledger' = ledger + Price
  /\ Finish(r)
  /\ UNCHANGED <<stripe, txn, hook, issued, vectors, overwritten>>

-----------------------------------------------------------------------------
(* RefundTransaction: the row says COMPLETED; any positive amount will do. *)
Refund(r, p, amount) ==
  /\ At(r, "idle")
  /\ txn[p] = "COMPLETED"
  /\ job' = [job EXCEPT ![r] = [Known("refund", p) EXCEPT !.amount = amount]]
  /\ UNCHANGED <<row, stripe, txn, hook, history>>

(* Stripe refunds what is left of the payment and refuses more than that.    *)
(* The code compares the amount with nothing.                                *)
RefundPayment(r) ==
  LET p == job[r].pay
  IN  /\ At(r, "refund")
      /\ returned[p] + job[r].amount <= Price
      /\ returned' = [returned EXCEPT ![p] = @ + job[r].amount]
      /\ Goto(r, "deduct")
      /\ UNCHANGED <<row, intent, unacked, txn, hook, history>>

(* The refund is recorded as a transaction, then taken off the balance. *)
Deduct(r) ==
  /\ At(r, "deduct")
  /\ row' = [row EXCEPT !.balance = @ - job[r].amount]
  /\ ledger' = ledger - job[r].amount
  /\ Finish(r)
  /\ UNCHANGED <<stripe, txn, hook, credits, issued, vectors, overwritten>>

-----------------------------------------------------------------------------
(* Stripe settles an intent that was waiting. *)
Settle(p) ==
  /\ intent[p] = "open"
  /\ \E outcome \in Closed : intent' = [intent EXCEPT ![p] = outcome]
  /\ unacked' = unacked \cup {p}
  /\ UNCHANGED <<row, returned, txn, job, hook, history>>

(* mutant: the amount is read as the number JSON decodes to, and the handler *)
(* goes on to do what it was written for                                     *)
HandlePaymentSucceededFixed(d, p) ==
  /\ hook[d] = None
  /\ intent[p] = "succeeded"
  /\ txn[p] # "none"
  /\ credits[p] < 3
  /\ txn' = [txn EXCEPT ![p] = "COMPLETED"]
  /\ row' = [row EXCEPT !.balance = @ + Price]
  /\ credits' = [credits EXCEPT ![p] = @ + 1]
  /\ ledger' = ledger + Price
  /\ unacked' = unacked \ {p}
  /\ UNCHANGED <<intent, returned, job, hook, issued, vectors, overwritten>>

(* handlePaymentSucceeded asserts that the amount is an int64.  Decoded into *)
(* a map, a JSON number is a float64: the assertion panics before anything   *)
(* is read, gin answers 500, and Stripe will deliver the event again.        *)
HandlePaymentSucceeded(d, p) ==
  /\ hook[d] = None
  /\ intent[p] = "succeeded"
  /\ UNCHANGED vars

(* mutant: a failure event that matches no transaction is acknowledged *)
HandlePaymentFailedLenient(d, p) ==
  /\ hook[d] = None
  /\ intent[p] \in {"failed", "canceled"}
  /\ IF txn[p] # "none" THEN /\ hook' = [hook EXCEPT ![d] = p]
                             /\ UNCHANGED unacked
                        ELSE /\ unacked' = unacked \ {p}
                             /\ UNCHANGED hook
  /\ UNCHANGED <<row, intent, returned, txn, job, history>>

(* handlePaymentFailed and handlePaymentCanceled read the row of the payment *)
(* and fail, to be retried, while there is none.  Stripe can deliver an      *)
(* event again after its acknowledgement too.                                *)
HandlePaymentFailed(d, p) ==
  /\ hook[d] = None
  /\ intent[p] \in {"failed", "canceled"}
  /\ txn[p] # "none"
  /\ hook' = [hook EXCEPT ![d] = p]
  /\ UNCHANGED <<row, stripe, txn, job, history>>

(* ... then save it with the status of the event, whatever it was. *)
UpdateTransaction(d) ==
  LET p == hook[d]
  IN  /\ p # None
      /\ txn' = [txn EXCEPT ![p] = IF intent[p] = "failed" THEN "FAILED" ELSE "CANCELLED"]
      /\ hook' = [hook EXCEPT ![d] = None]
      /\ unacked' = unacked \ {p}
      /\ UNCHANGED <<row, intent, returned, job, history>>

(* The delivery ends with an error: its answer is not 200. *)
HookFails(d) ==
  /\ hook[d] # None
  /\ hook' = [hook EXCEPT ![d] = None]
  /\ UNCHANGED <<row, stripe, txn, job, history>>

-----------------------------------------------------------------------------
(* The row is read, and the copy changed. *)
ReadRow(r, status) ==
  /\ At(r, "idle")
  /\ job' = [job EXCEPT ![r] = [Idle EXCEPT !.pc = "save", !.copy = [row EXCEPT !.status = status]]]
  /\ UNCHANGED <<row, stripe, txn, hook, history>>

(* SuspendSubscriber and TerminateSubscriber *)
CloseSubscriber(r) == \E status \in {"suspended", "terminated"} : ReadRow(r, status)

(* An update can also keep the status: it then saves the one it has read. *)
UpdateSubscriber(r) == \E status \in Statuses : ReadRow(r, status)

(* Sessions are ended in between; then db.Save writes every column. *)
Save(r) ==
  LET copy == job[r].copy
  IN  /\ At(r, "save")
      /\ row' = copy
      /\ overwritten' = (overwritten \/ copy.balance # row.balance \/ copy.sqn # row.sqn)
      /\ Finish(r)
      /\ UNCHANGED <<stripe, txn, hook, credits, ledger, issued, vectors>>

(* mutant: the sequence number is computed from the row read before *)
GenerateAuthVectorFromCopy(r) ==
  LET n == job[r].copy.sqn + 1
  IN  /\ n <= MaxSqn
      /\ vectors < MaxSqn
      /\ row' = [row EXCEPT !.sqn = n]
      /\ issued' = issued \cup {n}
      /\ vectors' = vectors + 1
      /\ UNCHANGED <<stripe, txn, job, hook, credits, ledger, overwritten>>

(* GenerateAuthVector: UPDATE ... SET sqn = sqn + 1 ... RETURNING sqn *)
GenerateAuthVector(r) ==
  LET n == row.sqn + 1
  IN  /\ At(r, "idle")
      /\ vectors < MaxSqn
      /\ row' = [row EXCEPT !.sqn = n]
      /\ issued' = issued \cup {n}
      /\ vectors' = vectors + 1
      /\ UNCHANGED <<stripe, txn, job, hook, credits, ledger, overwritten>>

(* A request is dropped, or a statement or a call of it fails. *)
GiveUp(r) ==
  /\ ~At(r, "idle")
  /\ Finish(r)
  /\ UNCHANGED <<row, stripe, txn, hook, history>>

-----------------------------------------------------------------------------
Serve(r) ==
  \/ TopUp(r)
  \/ \E p \in Payments : Charge(r, p)
  \/ Insert(r)
  \/ InsertPending(r)
  \/ Credit(r)
  \/ \E p \in Payments, amount \in 1..Price : Refund(r, p, amount)
  \/ RefundPayment(r)
  \/ Deduct(r)
  \/ CloseSubscriber(r)
  \/ UpdateSubscriber(r)
  \/ Save(r)
  \/ GenerateAuthVector(r)
  \/ GiveUp(r)

Hook(d) ==
  \/ \E p \in Payments : HandlePaymentSucceeded(d, p)
  \/ \E p \in Payments : HandlePaymentFailed(d, p)
  \/ UpdateTransaction(d)
  \/ HookFails(d)

Next ==
  \/ \E r \in Requests : Serve(r)
  \/ \E d \in Deliveries : Hook(d)
  \/ \E p \in Payments : Settle(p)

Spec == Init /\ [][Next]_vars

(* Stripe delivers an event until it is acknowledged, and not every delivery *)
(* of it fails.                                                              *)
DeliverFailed(p) ==
  /\ p \in unacked
  /\ \E d \in Deliveries : HandlePaymentFailed(d, p)

Complete(p) == \E d \in Deliveries : hook[d] = p /\ UpdateTransaction(d)

Fairness == \A p \in Payments : SF_vars(DeliverFailed(p)) /\ SF_vars(Complete(p))

-----------------------------------------------------------------------------
(* A payment is credited at most once, and only when Stripe took the money,  *)
(* however its synchronous answer and its events arrive.                     *)
CreditedOnce ==
  \A p \in Payments :
    /\ credits[p] <= 1
    /\ credits[p] = 1 => intent[p] = "succeeded"

(* Concurrent top-ups and refunds lose nothing: the balance is the sum of    *)
(* what they did, unless a whole-row Save wrote an older one over it.        *)
LedgerAgrees == ~overwritten => row.balance = ledger

(* No two authentication vectors carry the same sequence number, however     *)
(* many requests ask at once, unless a whole-row Save set it back.           *)
SqnFresh == ~overwritten => Cardinality(issued) = vectors

(* A row that exists for a payment that failed or was cancelled comes to say *)
(* so, even when the event was first delivered before the row was inserted.  *)
FailureReachesRow ==
  \A p \in Payments :
    (intent[p] \in {"failed", "canceled"} /\ txn[p] # "none")
      ~> (txn[p] \in {"FAILED", "CANCELLED"})
=============================================================================
