------------------------ MODULE SubscriberAccountProofs ------------------------
(***************************************************************************)
(* Proofs about the api-server: SubscriberAccount, Enrollment, AlertHub,   *)
(* ChaosExperiments and AuthSessions, for every number of requests,        *)
(* deliveries, payments, creations, clients, experiments, rows and logins. *)
(***************************************************************************)
EXTENDS SubscriberAccount, Enrollment, AlertHub, ChaosExperiments, AuthSessions,
        FiniteSetTheorems, SequenceTheorems, TLAPS

-----------------------------------------------------------------------------
(* A request that has been charged, or refunds, knows which payment.         *)
Held == {"insert", "pending", "credit", "refund", "deduct"}

Typed ==
  /\ TypeOK
  /\ \A r \in Requests : job[r].pc \in Held => job[r].pay \in Payments

LEMMA FreshIsRow == Fresh \in Rows
BY DEF Fresh, Rows, Statuses

LEMMA IdleIsJob == Idle \in Jobs
BY PriceNat DEF Idle, Jobs, Fresh, Rows, Statuses

(* At the start one request holds the row it has inserted. *)
LEMMA InitJobs ==
  ASSUME Init
  PROVE  job \in [Requests -> Jobs] /\ \A r \in Requests : job[r].pc \in {"idle", "save"}
<1>1. Creating \in Jobs /\ Creating.pc = "save" /\ Idle.pc = "idle"
  BY IdleIsJob DEF Creating, Idle, Jobs
<1>2. PICK r \in Requests : job = [q \in Requests |-> IF q = r THEN Creating ELSE Idle]
  BY DEF Init
<1> QED
  BY <1>1, <1>2, IdleIsJob

(* The three ways a request begins *)
LEMMA ToppingUp ==
  ASSUME NEW j \in Jobs, NEW c \in Rows
  PROVE  /\ [j EXCEPT !.pc = "charge", !.copy = c] \in Jobs
         /\ [j EXCEPT !.pc = "charge", !.copy = c].pc = "charge"
BY DEF Jobs

LEMMA Refunding ==
  ASSUME NEW p \in Payments, NEW amount \in 1..Price
  PROVE  /\ [Known("refund", p) EXCEPT !.amount = amount] \in Jobs
         /\ [Known("refund", p) EXCEPT !.amount = amount].pc = "refund"
         /\ [Known("refund", p) EXCEPT !.amount = amount].pay = p
<1>1. Known("refund", p) \in Jobs /\ Known("refund", p).pc = "refund" /\ Known("refund", p).pay = p
  BY IdleIsJob DEF Known, Jobs
<1>2. amount \in 0..Price
  BY PriceNat
<1> QED
  BY <1>1, <1>2 DEF Jobs

LEMMA Reading ==
  ASSUME NEW j \in Jobs, NEW c \in Rows
  PROVE  /\ [j EXCEPT !.pc = "save", !.copy = c] \in Jobs
         /\ [j EXCEPT !.pc = "save", !.copy = c].pc = "save"
BY DEF Jobs

LEMMA StepTyped == Typed /\ [Next]_vars => Typed'
<1> SUFFICES ASSUME Typed, [Next]_vars PROVE Typed'
  OBVIOUS
<1> USE DEF Typed, TypeOK, Held
<1> DEFINE Good == {j \in Jobs : j.pc \in Held => j.pay \in Payments}
<1>0. job \in [Requests -> Good]
  BY DEF Good
<1>1. Idle \in Good
  BY IdleIsJob DEF Good, Idle
<1>2. SUFFICES
        /\ row' \in Rows
        /\ intent' \in [Payments -> {"none", "open"} \cup Closed]
        /\ unacked' \subseteq Payments
        /\ returned' \in [Payments -> 0..Price]
        /\ txn' \in [Payments -> {"none", "PENDING", "COMPLETED", "FAILED", "CANCELLED"}]
        /\ job' \in [Requests -> Good]
        /\ hook' \in [Deliveries -> Payments \cup {None}]
        /\ credits' \in [Payments -> Nat]
        /\ ledger' \in Int
        /\ issued' \subseteq Nat
        /\ vectors' \in Nat
        /\ overwritten' \in BOOLEAN
  BY DEF Good
<1>3. ASSUME NEW r \in Requests, Finish(r) PROVE job' \in [Requests -> Good]
  BY <1>0, <1>1, <1>3 DEF Finish
<1> USE DEF vars, stripe, history, Closed
<1>4. CASE UNCHANGED vars
  BY <1>4, <1>0
<1>5. ASSUME NEW r \in Requests, TopUp(r) PROVE Typed'
  <2>1. [Idle EXCEPT !.pc = "charge", !.copy = row] \in Good
    BY ToppingUp, IdleIsJob DEF Good
  <2> QED
    BY <1>2, <1>5, <1>0, <2>1 DEF TopUp
<1>6. ASSUME NEW r \in Requests, NEW p \in Payments, Charge(r, p) PROVE Typed'
  <2>1. PICK outcome \in {"succeeded", "open", "failed"} :
          /\ intent' = [intent EXCEPT ![p] = outcome]
          /\ unacked' = IF outcome \in Closed THEN unacked \cup {p} ELSE unacked
          /\ \/ Finish(r)
             \/ /\ outcome # "failed"
                /\ job' = [job EXCEPT ![r].pc = IF outcome = "succeeded" THEN "insert" ELSE "pending",
                                      ![r].pay = p]
    BY <1>6 DEF Charge
  <2>2. job' \in [Requests -> Good]
    <3>1. CASE Finish(r)
      BY <3>1, <1>3
    <3>2. CASE job' = [job EXCEPT ![r].pc = IF outcome = "succeeded" THEN "insert" ELSE "pending",
                                  ![r].pay = p]
      <4>1. ASSUME NEW pc \in {"insert", "pending"}
            PROVE  [job[r] EXCEPT !.pc = pc, !.pay = p] \in Good
        BY <1>0 DEF Good, Jobs
      <4>2. job' = [job EXCEPT ![r] =
                      [job[r] EXCEPT !.pc = IF outcome = "succeeded" THEN "insert" ELSE "pending",
                                     !.pay = p]]
        BY <3>2, <1>0
      <4>3. (IF outcome = "succeeded" THEN "insert" ELSE "pending") \in {"insert", "pending"}
        OBVIOUS
      <4> HIDE DEF Good
      <4> QED
        BY <4>1, <4>2, <4>3, <1>0
    <3> QED
      BY <2>1, <3>1, <3>2
  <2> QED
    BY <1>2, <1>6, <2>1, <2>2 DEF Charge
<1>7. ASSUME NEW r \in Requests, Insert(r) PROVE Typed'
  BY <1>2, <1>7, <1>0 DEF Insert, At, Goto, Good, Jobs
<1>8. ASSUME NEW r \in Requests, InsertPending(r) PROVE Typed'
  BY <1>2, <1>8, <1>0, <1>3 DEF InsertPending, At
<1>9. ASSUME NEW r \in Requests, Credit(r) PROVE Typed'
  <2>1. row' \in Rows
    BY <1>9, PriceNat DEF Credit, Rows
  <2>2. credits' \in [Payments -> Nat] /\ ledger' \in Int
    BY <1>9, PriceNat DEF Credit, At
  <2> QED
    BY <1>2, <1>9, <1>3, <2>1, <2>2 DEF Credit
<1>10. ASSUME NEW r \in Requests, NEW p \in Payments, NEW amount \in 1..Price, Refund(r, p, amount)
       PROVE Typed'
  <2>1. [Known("refund", p) EXCEPT !.amount = amount] \in Good
    BY Refunding DEF Good
  <2> QED
    BY <1>2, <1>10, <1>0, <2>1 DEF Refund
<1>11. ASSUME NEW r \in Requests, RefundPayment(r) PROVE Typed'
  <2>1. job[r].pay \in Payments /\ job[r].amount \in 0..Price
    BY <1>11, <1>0 DEF RefundPayment, At, Good, Jobs
  <2>2. returned' \in [Payments -> 0..Price]
    BY <1>11, <2>1, PriceNat DEF RefundPayment
  <2>3. job' \in [Requests -> Good]
    BY <1>11, <1>0, <2>1 DEF RefundPayment, Goto, Good, Jobs
  <2> QED
    BY <1>2, <1>11, <2>2, <2>3 DEF RefundPayment
<1>12. ASSUME NEW r \in Requests, Deduct(r) PROVE Typed'
  <2>1. job[r].amount \in Int
    BY <1>0, PriceNat DEF Good, Jobs
  <2>2. row' \in Rows /\ ledger' \in Int
    BY <1>12, <2>1 DEF Deduct, Rows
  <2> QED
    BY <1>2, <1>12, <1>3, <2>2 DEF Deduct
<1>13. ASSUME NEW r \in Requests, NEW new \in Statuses, ReadRow(r, new) PROVE Typed'
  <2>1. [row EXCEPT !.status = new] \in Rows
    BY DEF Rows
  <2>2. [Idle EXCEPT !.pc = "save", !.copy = [row EXCEPT !.status = new]] \in Good
    BY <2>1, Reading, IdleIsJob DEF Good
  <2> QED
    BY <1>2, <1>13, <1>0, <2>2 DEF ReadRow
<1>14. ASSUME NEW r \in Requests, Save(r) PROVE Typed'
  <2>1. row' \in Rows
    BY <1>14, <1>0 DEF Save, Good, Jobs
  <2> QED
    BY <1>2, <1>14, <1>3, <2>1 DEF Save
<1>15. ASSUME NEW r \in Requests, GenerateAuthVector(r) PROVE Typed'
  <2>1. row' \in Rows /\ row.sqn + 1 \in Nat /\ vectors' \in Nat
    BY <1>15 DEF GenerateAuthVector, Rows
  <2> QED
    BY <1>2, <1>15, <1>0, <2>1 DEF GenerateAuthVector
<1>16. ASSUME NEW r \in Requests, GiveUp(r) PROVE Typed'
  BY <1>2, <1>16, <1>3 DEF GiveUp
<1>17. ASSUME NEW d \in Deliveries, Hook(d) PROVE Typed'
  BY <1>2, <1>17, <1>0 DEF Hook, HandlePaymentSucceeded, HandlePaymentFailed,
                           UpdateTransaction, HookFails
<1>18. ASSUME NEW p \in Payments, Settle(p) PROVE Typed'
  BY <1>2, <1>18, <1>0 DEF Settle
<1> QED
  BY <1>4, <1>5, <1>6, <1>7, <1>8, <1>9, <1>10, <1>11, <1>12, <1>13, <1>14, <1>15, <1>16,
     <1>17, <1>18 DEF Next, Serve, CloseSubscriber, UpdateSubscriber, Statuses

LEMMA InitTyped == Init => Typed
<1> SUFFICES ASSUME Init PROVE Typed
  OBVIOUS
<1>1. job \in [Requests -> Jobs] /\ \A r \in Requests : job[r].pc \in {"idle", "save"}
  BY InitJobs
<1>2. row \in Rows /\ returned \in [Payments -> 0..Price]
  BY FreshIsRow, PriceNat DEF Init
<1> QED
  <2>1. TypeOK
    <3>1. overwritten \in BOOLEAN
      BY DEF Init
    <3>2. /\ unacked \subseteq Payments /\ issued \subseteq Nat
          /\ ledger \in Int /\ vectors \in Nat
      BY DEF Init
    <3>3. /\ intent \in [Payments -> {"none", "open"} \cup Closed]
          /\ txn \in [Payments -> {"none", "PENDING", "COMPLETED", "FAILED", "CANCELLED"}]
          /\ hook \in [Deliveries -> Payments \cup {None}]
          /\ credits \in [Payments -> Nat]
      BY DEF Init
    <3> QED
      BY <1>1, <1>2, <3>1, <3>2, <3>3 DEF TypeOK
  <2>2. \A r \in Requests : job[r].pc \notin Held
    BY <1>1 DEF Held
  <2> QED
    BY <2>1, <2>2 DEF Typed

(* Every variable keeps its type; in particular no payment is refunded for   *)
(* more than its price, however many refunds are asked for at once.          *)
THEOREM TypeCorrect == Spec => []TypeOK
<1>1. Spec => []Typed
  BY InitTyped, StepTyped, PTL DEF Spec
<1>2. Typed => TypeOK
  BY DEF Typed
<1> QED
  BY <1>1, <1>2, PTL

-----------------------------------------------------------------------------
(* While no Save has replaced anything newer, the balance follows the ledger *)
(* and the sequence number counts the vectors, all of them different.        *)
InPlace ==
  ~overwritten => /\ row.balance = ledger
                  /\ row.sqn = vectors
                  /\ issued = 1..vectors

LEMMA StepInPlace == Typed /\ InPlace /\ [Next]_vars => InPlace'
<1> SUFFICES ASSUME Typed, InPlace, [Next]_vars PROVE InPlace'
  OBVIOUS
<1>0. /\ row \in Rows /\ ledger \in Int /\ vectors \in Nat /\ overwritten \in BOOLEAN
      /\ job \in [Requests -> Jobs]
  BY DEF Typed, TypeOK
<1>1. ASSUME UNCHANGED <<row, ledger, issued, vectors, overwritten>> PROVE InPlace'
  BY <1>1 DEF InPlace
<1>2. ASSUME NEW r \in Requests, Credit(r) PROVE InPlace'
  <2>1. row'.balance = row.balance + Price /\ row'.sqn = row.sqn
    BY <1>0, <1>2 DEF Credit, Rows
  <2> QED
    BY <1>2, <2>1 DEF Credit, InPlace
<1>3. ASSUME NEW r \in Requests, Deduct(r) PROVE InPlace'
  <2>1. row'.balance = row.balance - job[r].amount /\ row'.sqn = row.sqn
    BY <1>0, <1>3 DEF Deduct, Rows
  <2> QED
    BY <1>3, <2>1 DEF Deduct, InPlace
<1>4. ASSUME NEW r \in Requests, Save(r) PROVE InPlace'
  <2>1. ~overwritten' => /\ ~overwritten
                         /\ row'.balance = row.balance
                         /\ row'.sqn = row.sqn
    BY <1>0, <1>4 DEF Save
  <2>2. UNCHANGED <<ledger, issued, vectors>>
    BY <1>4 DEF Save
  <2> QED
    BY <2>1, <2>2 DEF InPlace
<1>5. ASSUME NEW r \in Requests, GenerateAuthVector(r) PROVE InPlace'
  <2>1. row'.balance = row.balance /\ row'.sqn = row.sqn + 1
    BY <1>0, <1>5 DEF GenerateAuthVector, Rows
  <2>2. /\ vectors' = vectors + 1
        /\ issued' = issued \cup {row.sqn + 1}
        /\ UNCHANGED <<ledger, overwritten>>
    BY <1>5 DEF GenerateAuthVector
  <2>3. (1..vectors) \cup {vectors + 1} = 1..(vectors + 1)
    BY <1>0
  <2> QED
    BY <2>1, <2>2, <2>3 DEF InPlace
<1> USE DEF vars, stripe, history
<1>6. ASSUME NEW r \in Requests, Serve(r) PROVE InPlace'
  BY <1>1, <1>2, <1>3, <1>4, <1>5, <1>6
     DEF Serve, CloseSubscriber, UpdateSubscriber, Statuses, TopUp, Charge, Insert, InsertPending, Refund, RefundPayment, ReadRow, GiveUp
<1>7. ASSUME NEW d \in Deliveries, Hook(d) PROVE InPlace'
  BY <1>1, <1>7
     DEF Hook, HandlePaymentSucceeded, HandlePaymentFailed, UpdateTransaction, HookFails
<1> QED
  BY <1>1, <1>6, <1>7 DEF Next, Settle

LEMMA InPlaceHolds == Spec => [](Typed /\ InPlace)
<1>1. Init => InPlace
  BY DEF Init, InPlace, Fresh
<1> QED
  BY <1>1, InitTyped, StepTyped, StepInPlace, PTL DEF Spec

(* Concurrent top-ups and refunds lose no money: only the whole-row Save of  *)
(* a life-cycle operation can make the balance disagree with what was        *)
(* credited and refunded.                                                    *)
THEOREM OnlySavesLoseMoney == Spec => []LedgerAgrees
<1>1. InPlace => LedgerAgrees
  BY DEF InPlace, LedgerAgrees
<1> QED
  BY <1>1, InPlaceHolds, PTL

(* However many authentication vectors are asked for at once, their sequence *)
(* numbers differ, unless such a Save came in between.                       *)
THEOREM SqnNeverRepeats == Spec => []SqnFresh
<1>1. Typed /\ InPlace => SqnFresh
  <2> SUFFICES ASSUME Typed, InPlace, ~overwritten PROVE Cardinality(issued) = vectors
    BY DEF SqnFresh
  <2>1. vectors \in Nat /\ issued = 1..vectors
    BY DEF Typed, TypeOK, InPlace
  <2>2. Cardinality(1..vectors) = IF 1 > vectors THEN 0 ELSE vectors - 1 + 1
    BY <2>1, FS_Interval
  <2> QED
    BY <2>1, <2>2
<1> QED
  BY <1>1, InPlaceHolds, PTL

-----------------------------------------------------------------------------
(* A payment about to be credited was paid and is in one request's hands.    *)
Charged(r) == job[r].pc \in {"insert", "credit"}

Single ==
  /\ \A r \in Requests : Charged(r) => /\ intent[job[r].pay] = "succeeded"
                                      /\ credits[job[r].pay] = 0
  /\ \A r, q \in Requests : Charged(r) /\ Charged(q) /\ job[r].pay = job[q].pay => r = q
  /\ CreditedOnce

LEMMA StepSingle == Typed /\ Single /\ [Next]_vars => Single'
<1> SUFFICES ASSUME Typed, Single, [Next]_vars PROVE Single'
  OBVIOUS
<1>0. /\ job \in [Requests -> Jobs]
      /\ intent \in [Payments -> {"none", "open"} \cup Closed]
      /\ credits \in [Payments -> Nat]
      /\ \A r \in Requests : Charged(r) => job[r].pay \in Payments
  BY DEF Typed, TypeOK, Charged, Held
<1>1. \A p \in Payments : /\ intent[p] = "succeeded" => intent'[p] = "succeeded"
                          /\ intent[p] # "succeeded" => credits[p] = 0
  <2>1. \A p \in Payments : intent[p] # "succeeded" => credits[p] = 0
    BY <1>0 DEF Single, CreditedOnce
  <2>2. ASSUME NEW p \in Payments, Settle(p) PROVE
          \A q \in Payments : intent[q] = "succeeded" => intent'[q] = "succeeded"
    BY <2>2, <1>0 DEF Settle
  <2>3. ASSUME NEW r \in Requests, Serve(r) PROVE
          \A q \in Payments : intent[q] = "succeeded" => intent'[q] = "succeeded"
    BY <2>3, <1>0 DEF Serve, CloseSubscriber, UpdateSubscriber, Statuses, TopUp, Charge, Insert, InsertPending, Credit, Refund, RefundPayment,
                      Deduct, ReadRow, Save, GenerateAuthVector, GiveUp, stripe
  <2>4. ASSUME NEW d \in Deliveries, Hook(d) PROVE intent' = intent
    BY <2>4 DEF Hook, HandlePaymentSucceeded, HandlePaymentFailed, UpdateTransaction, HookFails,
                vars, stripe
  <2>5. CASE UNCHANGED vars
    BY <2>1, <2>5 DEF vars, stripe
  <2> QED
    BY <2>1, <2>2, <2>3, <2>4, <2>5 DEF Next
(* Steps that credit nothing, and that charge nothing new *)
<1>2. ASSUME credits' = credits,
             \A r \in Requests : Charged(r)' => Charged(r) /\ job'[r].pay = job[r].pay
      PROVE  Single'
  BY <1>0, <1>1, <1>2 DEF Single, CreditedOnce
<1>3. ASSUME NEW r \in Requests, Finish(r) PROVE
        \A q \in Requests : Charged(q)' => Charged(q) /\ q # r /\ job'[q].pay = job[q].pay
  <2>1. job' = [job EXCEPT ![r] = Idle] /\ Idle.pc = "idle"
    BY <1>3 DEF Finish, Idle
  <2> QED
    BY <2>1, <1>0 DEF Charged
<1>4. ASSUME NEW r \in Requests, TopUp(r) PROVE Single'
  <2>1. job' = [job EXCEPT ![r] = [Idle EXCEPT !.pc = "charge", !.copy = row]]
    BY <1>4 DEF TopUp
  <2>2. [Idle EXCEPT !.pc = "charge", !.copy = row].pc = "charge"
    BY ToppingUp, IdleIsJob DEF Typed, TypeOK
  <2> QED
    BY <1>0, <1>2, <1>4, <2>1, <2>2 DEF TopUp, Charged, history
<1>5. ASSUME NEW r \in Requests, NEW p \in Payments, Charge(r, p) PROVE Single'
  <2>1. PICK outcome \in {"succeeded", "open", "failed"} :
          /\ intent' = [intent EXCEPT ![p] = outcome]
          /\ \/ Finish(r)
             \/ job' = [job EXCEPT ![r].pc = IF outcome = "succeeded" THEN "insert" ELSE "pending",
                                   ![r].pay = p]
    BY <1>5 DEF Charge
  <2>2. credits' = credits /\ intent[p] = "none"
    BY <1>5 DEF Charge, history
  <2>3. CASE Finish(r)
    BY <1>2, <1>3, <2>2, <2>3
  <2>4. CASE outcome = "succeeded" /\ job' = [job EXCEPT ![r].pc = "insert", ![r].pay = p]
    <3>1. intent'[p] = "succeeded" /\ credits'[p] = 0
      BY <1>0, <1>1, <2>1, <2>2, <2>4
    <3>2. job'[r].pay = p /\ \A q \in Requests \ {r} : job'[q] = job[q]
      BY <1>0, <2>4 DEF Jobs
    <3>3. \A q \in Requests : Charged(q) => job[q].pay # p
      BY <2>2 DEF Single
    <3> QED
      BY <1>0, <1>1, <2>2, <3>1, <3>2, <3>3 DEF Single, CreditedOnce, Charged
  <2>5. CASE outcome # "succeeded" /\ job' = [job EXCEPT ![r].pc = "pending", ![r].pay = p]
    <3>1. job'[r].pc = "pending" /\ \A q \in Requests \ {r} : job'[q] = job[q]
      BY <1>0, <2>5 DEF Jobs
    <3> QED
      BY <1>2, <2>2, <3>1 DEF Charged
  <2> QED
    BY <2>1, <2>3, <2>4, <2>5
<1>6. ASSUME NEW r \in Requests, Insert(r) PROVE Single'
  <2>1. job[r].pc = "insert" /\ job' = [job EXCEPT ![r].pc = "credit"] /\ credits' = credits
    BY <1>6 DEF Insert, At, Goto, history
  <2>2. job'[r].pay = job[r].pay /\ \A q \in Requests \ {r} : job'[q] = job[q]
    BY <1>0, <2>1 DEF Jobs
  <2> QED
    BY <1>2, <2>1, <2>2 DEF Charged
<1>7. ASSUME NEW r \in Requests, Credit(r) PROVE Single'
  <2> DEFINE p == job[r].pay
  <2>1. Charged(r) /\ p \in Payments
    BY <1>0, <1>7 DEF Credit, At, Charged
  <2>2. credits' = [credits EXCEPT ![p] = @ + 1] /\ Finish(r)
    BY <1>7 DEF Credit
  <2>3. intent[p] = "succeeded" /\ credits[p] = 0 /\ credits'[p] = 1
    BY <1>0, <2>1, <2>2 DEF Single
  <2>4. \A q \in Requests : Charged(q)' => Charged(q) /\ job'[q].pay = job[q].pay /\ job[q].pay # p
    BY <1>3, <2>1, <2>2 DEF Single
  <2>5. \A q \in Payments \ {p} : credits'[q] = credits[q]
    BY <1>0, <2>2
  <2> HIDE DEF p
  <2> QED
    BY <1>0, <1>1, <2>1, <2>3, <2>4, <2>5 DEF Single, CreditedOnce
<1>8. ASSUME NEW r \in Requests, NEW p \in Payments, NEW amount \in 1..Price, Refund(r, p, amount)
      PROVE  Single'
  <2>1. job' = [job EXCEPT ![r] = [Known("refund", p) EXCEPT !.amount = amount]]
    BY <1>8 DEF Refund
  <2>2. [Known("refund", p) EXCEPT !.amount = amount].pc = "refund"
    BY Refunding
  <2> QED
    BY <1>0, <1>2, <1>8, <2>1, <2>2 DEF Refund, Charged, history
<1>9. ASSUME NEW r \in Requests, RefundPayment(r) PROVE Single'
  <2>1. job' = [job EXCEPT ![r].pc = "deduct"] /\ credits' = credits
    BY <1>9 DEF RefundPayment, Goto, history
  <2>2. job'[r].pc = "deduct" /\ \A q \in Requests \ {r} : job'[q] = job[q]
    BY <1>0, <2>1 DEF Jobs
  <2> QED
    BY <1>2, <2>1, <2>2 DEF Charged
<1>10. ASSUME NEW r \in Requests, NEW new \in Statuses, ReadRow(r, new) PROVE Single'
  <2>1. job' = [job EXCEPT ![r] = [Idle EXCEPT !.pc = "save", !.copy = [row EXCEPT !.status = new]]]
    BY <1>10 DEF ReadRow
  <2>2. [row EXCEPT !.status = new] \in Rows
    BY DEF Typed, TypeOK, Rows
  <2>3. [Idle EXCEPT !.pc = "save", !.copy = [row EXCEPT !.status = new]].pc = "save"
    BY <2>2, Reading, IdleIsJob
  <2> QED
    BY <1>0, <1>2, <1>10, <2>1, <2>3 DEF ReadRow, Charged, history
<1>11. ASSUME NEW r \in Requests, InsertPending(r) \/ Deduct(r) \/ Save(r) \/ GiveUp(r)
       PROVE  Single'
  BY <1>2, <1>3, <1>11 DEF InsertPending, Deduct, Save, GiveUp, history
<1>12. ASSUME UNCHANGED <<job, credits>> PROVE Single'
  BY <1>2, <1>12 DEF Charged
<1> QED
  BY <1>4, <1>5, <1>6, <1>7, <1>8, <1>9, <1>10, <1>11, <1>12
     DEF Next, Serve, CloseSubscriber, UpdateSubscriber, Statuses, Hook, GenerateAuthVector, HandlePaymentSucceeded, HandlePaymentFailed,
         UpdateTransaction, HookFails, Settle, history, vars

(* A top-up is credited once, whatever its requests and events do, and never *)
(* before Stripe has the money.                                              *)
THEOREM TopUpCreditedOnce == Spec => []CreditedOnce
<1>1. Init => Single
  <2> SUFFICES ASSUME Init PROVE Single
    OBVIOUS
  <2>1. \A r \in Requests : ~Charged(r)
    BY InitJobs DEF Charged
  <2>2. CreditedOnce
    BY DEF Init, CreditedOnce
  <2> QED
    BY <2>1, <2>2 DEF Single
<1>2. Single => CreditedOnce
  BY DEF Single
<1> QED
  BY <1>1, <1>2, InitTyped, StepTyped, StepSingle, PTL DEF Spec

-----------------------------------------------------------------------------
(* While no two creations have overlapped, the counter is ahead of every     *)
(* number in use, and the numbers about to be inserted are free and differ.  *)
Inserting(c) == creation[c].stage = "insert"

CounterAhead ==
  overlapped = "no" =>
    /\ refused = "no"
    /\ \A n \in enrolled : n <= lastIMSI
    /\ \A c \in Creators :
         Inserting(c) => creation[c].imsi <= lastIMSI /\ creation[c].imsi \notin enrolled
    /\ \A c, d \in Creators :
         Inserting(c) /\ Inserting(d) /\ creation[c].imsi = creation[d].imsi => c = d

Numbered ==
  /\ EnrollmentTypeOK
  /\ \A c \in Creators : creation[c].stage # "none" => creation[c].imsi \in 1..MaxIMSI

LEMMA StepNumbered == Numbered /\ [EnrollmentNext]_enrollmentVars => Numbered'
<1> SUFFICES ASSUME Numbered, [EnrollmentNext]_enrollmentVars PROVE Numbered'
  OBVIOUS
<1> USE MaxIMSINat DEF Numbered, EnrollmentTypeOK, NoCreation
<1>1. ASSUME NEW c \in Creators, GetIMSIAllocation(c) PROVE Numbered'
  BY <1>1 DEF GetIMSIAllocation
<1>2. ASSUME NEW c \in Creators, UpdateIMSIAllocation(c) PROVE Numbered'
  BY <1>2 DEF UpdateIMSIAllocation
<1>3. ASSUME NEW c \in Creators, InsertSubscriber(c) PROVE Numbered'
  <2>1. creation[c].imsi \in 1..MaxIMSI
    BY <1>3 DEF InsertSubscriber
  <2>2. enrolled' \subseteq 1..MaxIMSI
    BY <1>3, <2>1 DEF InsertSubscriber
  <2>3. refused' \in {"no", "yes"}
    BY <1>3 DEF InsertSubscriber
  <2> QED
    BY <1>3, <2>2, <2>3 DEF InsertSubscriber
<1>4. ASSUME NEW c \in Creators, CreationFails(c) PROVE Numbered'
  BY <1>4 DEF CreationFails
<1>5. CASE Restart
  BY <1>5 DEF Restart
<1>6. CASE UNCHANGED enrollmentVars
  BY <1>6 DEF enrollmentVars
<1> QED
  BY <1>1, <1>2, <1>3, <1>4, <1>5, <1>6 DEF EnrollmentNext

LEMMA StepCounterAhead ==
  Numbered /\ CounterAhead /\ [EnrollmentNext]_enrollmentVars => CounterAhead'
<1> SUFFICES ASSUME Numbered, CounterAhead, [EnrollmentNext]_enrollmentVars, overlapped' = "no"
             PROVE  CounterAhead'
  BY DEF CounterAhead
<1> USE MaxIMSINat DEF Numbered, EnrollmentTypeOK, NoCreation, CounterAhead, Inserting
<1>1. ASSUME NEW c \in Creators, GetIMSIAllocation(c) PROVE CounterAhead'
  BY <1>1 DEF GetIMSIAllocation
<1>2. ASSUME NEW c \in Creators, UpdateIMSIAllocation(c) PROVE CounterAhead'
  <2>1. lastIMSI' = lastIMSI + 1 /\ creation[c].imsi = lastIMSI + 1 /\ overlapped = "no"
    BY <1>2 DEF UpdateIMSIAllocation
  <2>2. \A n \in enrolled : n \in Nat
    OBVIOUS
  <2>3. creation' = [creation EXCEPT ![c].stage = "insert"]
    BY <1>2 DEF UpdateIMSIAllocation
  <2>4. enrolled' = enrolled /\ refused' = refused
    BY <1>2 DEF UpdateIMSIAllocation
  <2>5. \A d \in Creators : /\ creation'[d].imsi = creation[d].imsi
                            /\ d # c => creation'[d].stage = creation[d].stage
    BY <2>3
  <2> QED
    BY <2>1, <2>2, <2>4, <2>5
<1>3. ASSUME NEW c \in Creators, InsertSubscriber(c) PROVE CounterAhead'
  BY <1>3 DEF InsertSubscriber
<1>4. ASSUME NEW c \in Creators, CreationFails(c) PROVE CounterAhead'
  BY <1>4 DEF CreationFails
<1>5. CASE Restart
  BY <1>5 DEF Restart
<1>6. CASE UNCHANGED enrollmentVars
  BY <1>6 DEF enrollmentVars
<1> QED
  BY <1>1, <1>2, <1>3, <1>4, <1>5, <1>6 DEF EnrollmentNext

(* For any number of creations at one time: the unique index refuses nobody  *)
(* until two creations have had the counter at the same time.                *)
THEOREM RefusalsNeedOverlap == EnrollmentSpec => []RefusedOnlyAfterOverlap
<1>1. EnrollmentInit => Numbered /\ CounterAhead
  BY MaxIMSINat DEF EnrollmentInit, Numbered, EnrollmentTypeOK, NoCreation, CounterAhead, Inserting
<1>2. Numbered /\ CounterAhead => RefusedOnlyAfterOverlap
  BY DEF Numbered, EnrollmentTypeOK, CounterAhead, RefusedOnlyAfterOverlap
<1> QED
  BY <1>1, <1>2, StepNumbered, StepCounterAhead, PTL DEF EnrollmentSpec

-----------------------------------------------------------------------------
(* What is listed is under its id and has not ended; what has not ended is   *)
(* listed, or shares its second; and an end leaves nothing running.          *)
ListKept ==
  /\ ChaosTypeOK
  /\ \A s \in Seconds : active[s] # Unlisted =>
       began[active[s]] = s /\ goroutine[active[s]] \in {"runs", "ends"}
  /\ \A e \in Experiments :
       goroutine[e] \in {"runs", "ends"} => Listed(e) \/ InSecondOf(e) # {e}
  /\ \A e \in Experiments :
       goroutine[e] \in {"none", "ended"} => status[e] # "running"

LEMMA StepKeepsList == ListKept /\ [ChaosNext]_chaosVars => ListKept'
<1> SUFFICES ASSUME ListKept, [ChaosNext]_chaosVars
             PROVE  ListKept'
  OBVIOUS
<1> USE DEF ListKept, ChaosTypeOK, InSecondOf, Listed
<1>1. ASSUME NEW e \in Experiments, NEW k \in Kinds, RunExperiment(e, k)
      PROVE  ListKept'
  BY <1>1, UnlistedIsNone DEF RunExperiment
<1>2. ASSUME NEW e \in Experiments, RequestReturns(e)
      PROVE  ListKept'
  BY <1>2 DEF RequestReturns
<1>3. ASSUME NEW e \in Experiments, Execute(e)
      PROVE  ListKept'
  BY <1>3 DEF Execute, Outcomes, Kinds
<1>4. ASSUME NEW e \in Experiments, Forget(e)
      PROVE  ListKept'
  BY <1>4, UnlistedIsNone DEF Forget
<1>5. CASE ClockMoves
  BY <1>5 DEF ClockMoves
<1>6. CASE UNCHANGED chaosVars
  BY <1>6 DEF chaosVars
<1> QED
  BY <1>1, <1>2, <1>3, <1>4, <1>5, <1>6 DEF ChaosNext, ChaosStep

(* An experiment that runs is listed unless another was begun in its second, *)
(* and none that has ended is, for any number of experiments and however the *)
(* clock is set.                                                             *)
THEOREM RunningExperimentsListed == ChaosSpec => []RunningIsListed
<1>1. ChaosInit => ListKept
  BY SecondNat, UnlistedIsNone
  DEF ChaosInit, ListKept, ChaosTypeOK, Listed, InSecondOf, Kinds, Seconds
<1>2. ListKept => RunningIsListed
  BY DEF ListKept, ChaosTypeOK, RunningIsListed
<1> QED
  BY <1>1, <1>2, StepKeepsList, PTL DEF ChaosSpec

-----------------------------------------------------------------------------
(* Login sessions *)

Serving == UsesToken \cup Issues

(* A request that goes on for a session knows which. *)
LEMMA CallKinds ==
  ASSUME NEW k \in Calls
  PROVE  /\ k.at \in Serving => k \in [at : Serving, of : Grants]
         /\ k.at \in {"save", "reinsert"} => k.row \in Accounts
BY DEF Calls, Serving, UsesToken, Issues, Free

LEMMA CallsOfKind ==
  /\ Free \in Calls
  /\ [at : Serving, of : Grants] \subseteq Calls
  /\ \A a \in {"changeUser", "check", "change", "endAll"} : [at |-> a] \in Calls
  /\ \A a \in {"save", "reinsert"}, r \in Accounts : [at |-> a, row |-> r] \in Calls
BY DEF Calls, Serving, UsesToken, Issues, Free

(* A request of a later stage is for the same session. *)
LEMMA SameGrant ==
  ASSUME NEW k \in Calls, NEW a, k.at \in Serving, a \in Serving
  PROVE  /\ [k EXCEPT !.at = a] \in Calls
         /\ [k EXCEPT !.at = a].of = k.of
         /\ [k EXCEPT !.at = a].at = a
<1>1. k \in [at : Serving, of : Grants]
  BY CallKinds
<1> QED
  BY <1>1, CallsOfKind

Changing == {"changeUser", "check", "change", "endAll"}

LEMMA SameChange ==
  ASSUME NEW k \in Calls, NEW a \in Changing, k.at \in Changing
  PROVE  [k EXCEPT !.at = a] \in Calls
<1>1. k \in [at : Changing]
  BY DEF Calls, UsesToken, Issues, Free, Changing
<1> QED
  BY <1>1, CallsOfKind DEF Changing

LEMMA SameSave ==
  ASSUME NEW k \in Calls, k.at = "save"
  PROVE  [k EXCEPT !.at = "reinsert"] \in Calls
<1>1. k \in [at : {"save", "reinsert"}, row : Accounts]
  BY DEF Calls, UsesToken, Issues, Free
<1> QED
  BY <1>1, CallsOfKind

LEMMA GrantParts ==
  ASSUME NEW g \in Grants, NEW t \in Times
  PROVE  /\ [g EXCEPT !.token = t] \in Grants
         /\ [g EXCEPT !.token = t].login = g.login
         /\ [g EXCEPT !.token = t].password = g.password
         /\ [g EXCEPT !.token = t].overtaken = g.overtaken
         /\ [g EXCEPT !.token = t].token = t
         /\ g.login \in Logins /\ g.password \in Passwords
BY DEF Grants

LEMMA RowsAreRows ==
  /\ \A g \in Grants, d \in BOOLEAN : [of |-> g, due |-> d] \in SessionRows
  /\ \A x \in SessionRows : x.of \in Grants /\ [x EXCEPT !.due = TRUE] \in SessionRows
  /\ \A x \in SessionRows : [x EXCEPT !.due = TRUE].of = x.of
BY DEF SessionRows

LEMMA OvertakenCall ==
  ASSUME NEW k \in Calls, k.at \in Serving
  PROVE  /\ [k EXCEPT !.of.overtaken = TRUE] \in Calls
         /\ [k EXCEPT !.of.overtaken = TRUE].at = k.at
         /\ [k EXCEPT !.of.overtaken = TRUE].of.overtaken
         /\ [k EXCEPT !.of.overtaken = TRUE].of.login = k.of.login
         /\ [k EXCEPT !.of.overtaken = TRUE].of.password = k.of.password
         /\ [k EXCEPT !.of.overtaken = TRUE].of.token = k.of.token
<1>1. k \in [at : Serving, of : Grants]
  BY CallKinds
<1>2. [k.of EXCEPT !.overtaken = TRUE] \in Grants
  BY <1>1 DEF Grants
<1> QED
  BY <1>1, <1>2, CallsOfKind DEF Grants

(* What InvalidateAllUserSessions makes of the requests being served *)
LEMMA OvertakeCalls ==
  ASSUME call \in [Callers -> Calls]
  PROVE  /\ Overtake \in [Callers -> Calls]
         /\ \A c \in Callers :
              /\ Overtake[c].at = call[c].at
              /\ call[c].at \in Serving =>
                   /\ Overtake[c].of.login = call[c].of.login
                   /\ Overtake[c].of.password = call[c].of.password
                   /\ Overtake[c].of.token = call[c].of.token
                   /\ call[c].of.password \in spent' => Overtake[c].of.overtaken
<1> SUFFICES ASSUME NEW c \in Callers
             PROVE  /\ Overtake[c] \in Calls
                    /\ Overtake[c].at = call[c].at
                    /\ call[c].at \in Serving =>
                         /\ Overtake[c].of.login = call[c].of.login
                         /\ Overtake[c].of.password = call[c].of.password
                         /\ Overtake[c].of.token = call[c].of.token
                         /\ call[c].of.password \in spent' => Overtake[c].of.overtaken
  BY DEF Overtake
<1> DEFINE k == call[c]
<1>1. k \in Calls
  OBVIOUS
<1>2. Overtake[c] = IF k.at \in Serving /\ k.of.password \in spent'
                      THEN [k EXCEPT !.of.overtaken = TRUE] ELSE k
  BY DEF Overtake, Serving
<1> HIDE DEF k
<1>3. CASE k.at \in Serving /\ k.of.password \in spent'
  BY <1>1, <1>2, <1>3, OvertakenCall DEF k
<1>4. CASE ~(k.at \in Serving /\ k.of.password \in spent')
  BY <1>1, <1>2, <1>4 DEF k
<1> QED
  BY <1>3, <1>4

LEMMA StepSessions == SessionsTypeOK /\ [SessionsNext]_sessionVars => SessionsTypeOK'
<1> SUFFICES ASSUME SessionsTypeOK, [SessionsNext]_sessionVars
             PROVE  SessionsTypeOK'
  OBVIOUS
<1> USE DEF SessionsTypeOK, sessionTables, sessionCounts, sessionMarks, Does
<1>0. Free \in Calls
  BY CallsOfKind
<1>1. CASE Register
  BY <1>1, ChangesNat DEF Register, Accounts, Passwords
<1>2. CASE DeleteUser
  BY <1>2 DEF DeleteUser, Accounts
<1>3. CASE Ticks
  BY <1>3, TimeNat DEF Ticks, Times
<1>4. ASSUME NEW s \in Sessions, FallsDue(s)
      PROVE  SessionsTypeOK'
  BY <1>4, RowsAreRows DEF FallsDue, Usable, Active
<1>5. ASSUME NEW c \in Callers, Handle(c)
      PROVE  SessionsTypeOK'
  <2>0. call[c] \in Calls
    OBVIOUS
  <2> DEFINE g == call[c].of
  <2>1. CASE Login(c)
    <3> DEFINE new == [login |-> logins', token |-> now, password |-> account.password,
                       overtaken |-> FALSE]
    <3>1. new \in Grants
      BY <2>1, ChangesNat DEF Login, Bounded, Grants, Logins, Accounts
    <3>0. 0 \in Times
      BY TimeNat DEF Times
    <3> HIDE DEF new
    <3>2. [new EXCEPT !.token = 0] \in Grants
      BY <3>0, <3>1, GrantParts
    <3>3. [at |-> "issue", of |-> [new EXCEPT !.token = 0]] \in Calls
      BY <3>2, CallsOfKind DEF Serving, Issues
    <3>4. call' \in [Callers -> Calls]
      BY <2>1, <3>3 DEF Login, Generate, new
    <3> QED
      BY <2>1, <3>4, ChangesNat DEF Login, Bounded
  <2>2. CASE Issue(c)
    <3>1. call[c] \in [at : Serving, of : Grants]
      BY <2>2, CallKinds DEF Issue, Serving, Issues
    <3>2. [call[c] EXCEPT !.at = "create", !.of.token = now] \in Calls
      BY <3>1, GrantParts, CallsOfKind DEF Serving, Issues
    <3> QED
      BY <2>2, <3>2 DEF Issue
  <2>3. ASSUME NEW s \in Sessions, CreateSession(c, s)
        PROVE  SessionsTypeOK'
    <3>1. g \in Grants
      BY <2>3, <2>0, CallKinds DEF CreateSession, Serving, Issues
    <3>2. [of |-> g, due |-> FALSE] \in SessionRows /\ g.login \in Logins
      BY <3>1, RowsAreRows, GrantParts DEF Times
    <3>3. Sharing(g) \subseteq Logins
      BY DEF Sharing
    <3> HIDE DEF g
    <3> QED
      BY <2>3, <1>0, <3>2, <3>3 DEF CreateSession, Answer, g
  <2>4. ASSUME NEW s \in Sessions, NEW stage \in UsesToken, Present(c, s, stage)
        PROVE  SessionsTypeOK'
    <3>1. session[s] \in SessionRows
      BY <2>4 DEF Present, Usable, Active
    <3>2. session[s].of \in Grants
      BY <3>1, RowsAreRows
    <3>3. /\ [at |-> stage, of |-> session[s].of] \in Calls
          /\ session[s].of.login \in Logins
      BY <3>2, CallsOfKind DEF Serving, Grants
    <3> QED
      BY <2>4, <3>3 DEF Present
  <2>5. ASSUME NEW s \in Sessions, RequestChange(c, s)
        PROVE  SessionsTypeOK'
    BY <2>5, CallsOfKind DEF RequestChange
  <2>6. CASE FindUser(c, "refresh", "retire")
    <3>1. [call[c] EXCEPT !.at = "retire"] \in Calls
      BY <2>6, <2>0, SameGrant DEF FindUser, Serving, UsesToken
    <3> QED
      BY <2>6, <3>1, <1>0 DEF FindUser, GoTo, Answer
  <2>7. CASE FindUser(c, "logoutUser", "logout")
    <3>1. [call[c] EXCEPT !.at = "logout"] \in Calls
      BY <2>7, <2>0, SameGrant DEF FindUser, Serving, UsesToken
    <3> QED
      BY <2>7, <3>1, <1>0 DEF FindUser, GoTo, Answer
  <2>8. CASE FindUser(c, "changeUser", "check")
    <3>1. [call[c] EXCEPT !.at = "check"] \in Calls
      BY <2>8, <2>0, SameChange DEF FindUser, Changing
    <3> QED
      BY <2>8, <3>1, <1>0 DEF FindUser, GoTo, Answer
  <2>9. CASE FindUser(c, "check", "change")
    <3>1. [call[c] EXCEPT !.at = "change"] \in Calls
      BY <2>9, <2>0, SameChange DEF FindUser, Changing
    <3> QED
      BY <2>9, <3>1, <1>0 DEF FindUser, GoTo, Answer
  <2>10. CASE Retire(c)
    <3>1. g \in Grants
      BY <2>10, <2>0, CallKinds DEF Retire, Serving, UsesToken
    <3>2. [at |-> "issue", of |-> [g EXCEPT !.token = 0]] \in Calls /\ g.login \in Logins
      BY <3>1, GrantParts, TimeNat, CallsOfKind DEF Times, Serving, Issues
    <3>3. Ended(g.token) \in [Sessions -> SessionRows \cup {NoSession}]
      BY DEF Ended
    <3> HIDE DEF g
    <3> QED
      BY <2>10, <3>2, <3>3 DEF Retire, Generate, g
  <2>11. CASE InvalidateSession(c)
    <3>1. Ended(g.token) \in [Sessions -> SessionRows \cup {NoSession}]
      BY DEF Ended
    <3> HIDE DEF g
    <3> QED
      BY <2>11, <3>1, <1>0 DEF InvalidateSession, Answer, g
  <2>12. CASE UpdatePassword(c)
    <3>1. [call[c] EXCEPT !.at = "endAll"] \in Calls
      BY <2>12, <2>0, SameChange DEF UpdatePassword, Changing
    <3>2. call' \in [Callers -> Calls]
      BY <2>12, <3>1 DEF UpdatePassword, GoTo
    <3> QED
      BY <2>12, <3>2, ChangesNat DEF UpdatePassword, Bounded, Accounts, Passwords
  <2>13. CASE InvalidateAllUserSessions(c)
    <3>1. Overtake \in [Callers -> Calls]
      BY OvertakeCalls
    <3>2. 0..passwords \subseteq Passwords
      BY ChangesNat DEF Passwords
    <3>3. call' \in [Callers -> Calls]
      BY <2>13, <3>1, <1>0 DEF InvalidateAllUserSessions
    <3>4. spent' \subseteq Passwords
      BY <2>13, <3>2 DEF InvalidateAllUserSessions
    <3> QED
      BY <2>13, <3>3, <3>4 DEF InvalidateAllUserSessions
  <2>14. ASSUME NEW on \in BOOLEAN, ReadUser(c, on)
         PROVE  SessionsTypeOK'
    <3>1. [at |-> "save", row |-> [account EXCEPT !.is_active = on]] \in Calls
      BY CallsOfKind DEF Accounts
    <3> QED
      BY <2>14, <3>1, ChangesNat DEF ReadUser, Bounded
  <2>15. CASE SaveUser(c)
    <3>1. call[c].row \in Accounts
      BY <2>15, <2>0, CallKinds DEF SaveUser
    <3> QED
      BY <2>15, <3>1, <1>0 DEF SaveUser, Answer
  <2>16. CASE SaveMisses(c)
    <3>1. [call[c] EXCEPT !.at = "reinsert"] \in Calls
      BY <2>16, <2>0, SameSave DEF SaveMisses
    <3> QED
      BY <2>16, <3>1 DEF SaveMisses, GoTo
  <2>17. CASE Fails(c)
    BY <2>17, <1>0 DEF Fails, Answer
  <2> QED
    BY <1>5, <2>1, <2>2, <2>3, <2>4, <2>5, <2>6, <2>7, <2>8, <2>9, <2>10, <2>11, <2>12, <2>13,
       <2>14, <2>15, <2>16, <2>17
    DEF Handle, Refresh, Logout, UsesToken
<1>6. CASE UNCHANGED sessionVars
  BY <1>6 DEF sessionVars
<1> QED
  BY <1>1, <1>2, <1>3, <1>4, <1>5, <1>6 DEF SessionsNext

(* The session a request goes on for, if any, it went on for before. *)
Carries(c) ==
  call'[c].at \in Serving =>
    /\ call[c].at \in Serving
    /\ call'[c].of.login = call[c].of.login
    /\ call'[c].of.password = call[c].of.password
    /\ call'[c].of.overtaken = call[c].of.overtaken
    /\ call'[c].at \in UsesToken =>
         call[c].at \in UsesToken /\ call'[c].of.token = call[c].of.token

(* Only Retire comes to issue a new one, and those who issue go on. *)
Reissues(c) == call'[c].at \in Issues => call[c].at \in Issues

(* The steps that neither begin a session nor end any *)
Quiet(c) ==
  \/ Issue(c) \/ UpdatePassword(c) \/ SaveUser(c) \/ SaveMisses(c) \/ Fails(c)
  \/ FindUser(c, "refresh", "retire") \/ FindUser(c, "logoutUser", "logout")
  \/ FindUser(c, "changeUser", "check") \/ FindUser(c, "check", "change")
  \/ \E s \in Sessions : RequestChange(c, s)
  \/ \E on \in BOOLEAN : ReadUser(c, on)

LEMMA QuietCarries ==
  ASSUME SessionsTypeOK, NEW c \in Callers, Quiet(c)
  PROVE  /\ \A d \in Callers : Carries(d) /\ Reissues(d)
         /\ UNCHANGED <<session, standing, mixed, logins>>
<1> USE DEF SessionsTypeOK, Does, Serving, UsesToken, Issues, Carries, Reissues,
        sessionTables, sessionCounts, sessionMarks
<1>0. call[c] \in Calls /\ Free.at \notin Serving
  BY DEF Free
<1>1. CASE Issue(c)
  <2>1. call[c] \in [at : Serving, of : Grants]
    BY <1>1, CallKinds DEF Issue
  <2>2. /\ [call[c] EXCEPT !.at = "create", !.of.token = now].at = "create"
        /\ [call[c] EXCEPT !.at = "create", !.of.token = now].of
             = [call[c].of EXCEPT !.token = now]
    BY <2>1
  <2>3. [call[c].of EXCEPT !.token = now]
           \in {x \in Grants : /\ x.login = call[c].of.login
                              /\ x.password = call[c].of.password
                              /\ x.overtaken = call[c].of.overtaken}
    BY <2>1, GrantParts
  <2> QED
    BY <1>1, <2>2, <2>3 DEF Issue
<1>2. CASE UpdatePassword(c)
  <2>1. [call[c] EXCEPT !.at = "endAll"].at \notin Serving
    BY <1>0, <1>2 DEF UpdatePassword, Calls
  <2> QED
    BY <1>2, <2>1 DEF UpdatePassword, GoTo
<1>3. CASE SaveUser(c) \/ Fails(c)
  BY <1>0, <1>3 DEF SaveUser, Fails, Answer
<1>4. CASE SaveMisses(c)
  <2>1. [call[c] EXCEPT !.at = "reinsert"].at \notin Serving
    BY <1>0, <1>4 DEF SaveMisses, Calls
  <2> QED
    BY <1>4, <2>1 DEF SaveMisses, GoTo
<1>5. ASSUME NEW from \in {"refresh", "logoutUser"}, NEW next \in {"retire", "logout"},
             FindUser(c, from, next)
      PROVE  /\ \A d \in Callers : Carries(d) /\ Reissues(d)
             /\ UNCHANGED <<session, standing, mixed, logins>>
  <2>1. /\ [call[c] EXCEPT !.at = next].at = next
        /\ [call[c] EXCEPT !.at = next].of = call[c].of
    BY <1>0, <1>5, SameGrant DEF FindUser
  <2> QED
    BY <1>0, <1>5, <2>1 DEF FindUser, GoTo, Answer
<1>6. ASSUME NEW from \in {"changeUser", "check"}, NEW next \in {"check", "change"},
             FindUser(c, from, next)
      PROVE  /\ \A d \in Callers : Carries(d) /\ Reissues(d)
             /\ UNCHANGED <<session, standing, mixed, logins>>
  <2>1. [call[c] EXCEPT !.at = next].at \notin Serving
    BY <1>0, <1>6 DEF FindUser, Calls
  <2> QED
    BY <1>0, <1>6, <2>1 DEF FindUser, GoTo, Answer
<1>7. ASSUME NEW s \in Sessions, RequestChange(c, s)
      PROVE  /\ \A d \in Callers : Carries(d) /\ Reissues(d)
             /\ UNCHANGED <<session, standing, mixed, logins>>
  BY <1>7 DEF RequestChange
<1>8. ASSUME NEW on \in BOOLEAN, ReadUser(c, on)
      PROVE  /\ \A d \in Callers : Carries(d) /\ Reissues(d)
             /\ UNCHANGED <<session, standing, mixed, logins>>
  BY <1>8 DEF ReadUser
<1> QED
  BY <1>1, <1>2, <1>3, <1>4, <1>5, <1>6, <1>7, <1>8 DEF Quiet

(* A password in use is not spent, and what goes on for a session of one     *)
(* that is was overtaken.                                                    *)
PasswordsEnd ==
  /\ account.password \notin spent
  /\ ChangeEndsSessions
  /\ \A c \in Callers :
       call[c].at \in Serving /\ call[c].of.password \in spent => call[c].of.overtaken

LEMMA StepPasswords ==
  SessionsTypeOK /\ PasswordsEnd /\ [SessionsNext]_sessionVars => PasswordsEnd'
<1> SUFFICES ASSUME SessionsTypeOK, PasswordsEnd, [SessionsNext]_sessionVars
             PROVE  PasswordsEnd'
  OBVIOUS
<1> USE DEF PasswordsEnd, ChangeEndsSessions, Active, sessionTables, sessionCounts, sessionMarks,
        Does
<1>0. /\ session \in [Sessions -> SessionRows \cup {NoSession}]
      /\ call \in [Callers -> Calls] /\ account \in Accounts
  BY DEF SessionsTypeOK
<1>1. CASE Register
  BY <1>1 DEF Register, NoAccount
<1>2. CASE DeleteUser
  BY <1>0, <1>2 DEF DeleteUser, Accounts
<1>3. CASE Ticks
  BY <1>3 DEF Ticks
<1>4. ASSUME NEW s \in Sessions, FallsDue(s)
      PROVE  PasswordsEnd'
  BY <1>0, <1>4, RowsAreRows DEF FallsDue, Usable
<1>5. ASSUME NEW c \in Callers, Handle(c)
      PROVE  PasswordsEnd'
  <2>0. call[c] \in Calls /\ Free.at \notin Serving
    BY <1>0 DEF Free, Serving, UsesToken, Issues
  <2>1. CASE Quiet(c)
    <3>1. /\ \A d \in Callers : Carries(d)
          /\ UNCHANGED session
      BY <2>1, QuietCarries
    <3>2. account'.password \notin spent' /\ spent' \subseteq spent
      <4>1. CASE UpdatePassword(c)
        BY <1>0, <4>1 DEF UpdatePassword, Accounts
      <4>2. CASE SaveUser(c)
        BY <4>2 DEF SaveUser
      <4>3. CASE ~UpdatePassword(c) /\ ~SaveUser(c)
        BY <2>1, <4>3 DEF Quiet, Issue, SaveMisses, Fails, FindUser, RequestChange, ReadUser
      <4> QED
        BY <4>1, <4>2, <4>3
    <3> QED
      BY <3>1, <3>2 DEF Carries
  <2>2. CASE Login(c)
    <3> DEFINE new == [login |-> logins', token |-> now, password |-> account.password,
                       overtaken |-> FALSE]
    <3>1. [new EXCEPT !.token = 0].password = account.password
      OBVIOUS
    <3>2. call' = [call EXCEPT ![c] = [at |-> "issue", of |-> [new EXCEPT !.token = 0]]]
      BY <2>2 DEF Login, Generate
    <3>3. UNCHANGED <<account, session, spent>>
      BY <2>2 DEF Login
    <3> HIDE DEF new
    <3> QED
      BY <1>0, <3>1, <3>2, <3>3
  <2>3. ASSUME NEW s \in Sessions, CreateSession(c, s)
        PROVE  PasswordsEnd'
    BY <1>0, <2>0, <2>3 DEF CreateSession, Answer, Serving, Issues
  <2>4. ASSUME NEW s \in Sessions, NEW stage \in UsesToken, Present(c, s, stage)
        PROVE  PasswordsEnd'
    BY <1>0, <2>4 DEF Present, Usable
  <2>5. CASE Retire(c)
    <3> DEFINE g == call[c].of
    <3>1. g \in Grants /\ call[c].at \in Serving
      BY <2>0, <2>5, CallKinds DEF Retire, Serving, UsesToken
    <3>2. /\ [g EXCEPT !.token = 0].password = g.password
          /\ [g EXCEPT !.token = 0].overtaken = g.overtaken
      BY <3>1 DEF Grants
    <3>3. \A s \in Sessions : session'[s] \in {session[s], NoSession}
      BY <2>5 DEF Retire, Ended
    <3>4. /\ call' = [call EXCEPT ![c] = [at |-> "issue", of |-> [g EXCEPT !.token = 0]]]
          /\ UNCHANGED <<account, spent>>
      BY <2>5 DEF Retire, Generate
    <3> HIDE DEF g
    <3>5. \A d \in Callers :
            call'[d].at \in Serving /\ call'[d].of.password \in spent => call'[d].of.overtaken
      BY <1>0, <3>1, <3>2, <3>4 DEF g
    <3> QED
      BY <3>3, <3>4, <3>5
  <2>6. CASE InvalidateSession(c)
    <3>1. \A s \in Sessions : session'[s] \in {session[s], NoSession}
      BY <2>6 DEF InvalidateSession, Ended
    <3> QED
      BY <1>0, <2>0, <2>6, <3>1 DEF InvalidateSession, Answer
  <2>7. CASE InvalidateAllUserSessions(c)
    <3>1. \A d \in Callers :
            /\ Overtake[d].at = call[d].at
            /\ call[d].at \in Serving /\ Overtake[d].of.password \in spent'
                 => Overtake[d].of.overtaken
      BY <1>0, OvertakeCalls
    <3>2. Overtake \in [Callers -> Calls]
      BY <1>0, OvertakeCalls
    <3>3. \A d \in Callers :
            call'[d].at \in Serving /\ call'[d].of.password \in spent' => call'[d].of.overtaken
      BY <2>0, <2>7, <3>1, <3>2 DEF InvalidateAllUserSessions
    <3>4. account'.password \notin spent' /\ \A s \in Sessions : session'[s] = NoSession
      BY <2>7 DEF InvalidateAllUserSessions
    <3> QED
      BY <3>3, <3>4
  <2> QED
    BY <1>5, <2>1, <2>2, <2>3, <2>4, <2>5, <2>6, <2>7
    DEF Handle, Quiet, Refresh, Logout, UsesToken
<1>6. CASE UNCHANGED sessionVars
  BY <1>6 DEF sessionVars
<1> QED
  BY <1>1, <1>2, <1>3, <1>4, <1>5, <1>6 DEF SessionsNext

LEMMA InitSessions == SessionsInit => SessionsTypeOK /\ PasswordsEnd
BY ChangesNat, TimeNat, CallsOfKind
DEF SessionsInit, SessionsTypeOK, PasswordsEnd, ChangeEndsSessions, Active, NoAccount, Accounts,
    Passwords, Times, Free, Serving, UsesToken, Issues

(* For any number of requests, rows, logins and new passwords: once all      *)
(* sessions were ended for a new password, one of an older password is       *)
(* active only if a request for it was being served at that time.            *)
THEOREM PasswordChangeEndsSessions == SessionsSpec => []ChangeEndsSessions
<1>1. PasswordsEnd => ChangeEndsSessions
  BY DEF PasswordsEnd
<1> QED
  BY <1>1, InitSessions, StepSessions, StepPasswords, PTL DEF SessionsSpec

RowOf(s, l)  == Active(s) /\ session[s].of.login = l
Serves(c, l) == call[c].at \in Serving /\ call[c].of.login = l

(* A token that login l still has to present *)
HasToken(l, x) ==
  \/ \E s \in Sessions : RowOf(s, l) /\ session[s].of.token = x
  \/ \E c \in Callers : Serves(c, l) /\ call[c].at \in UsesToken /\ call[c].of.token = x

(* A login with one session and one request at a time, and a token only it has *)
Alone(l) ==
  /\ \A s, t \in Sessions : RowOf(s, l) /\ RowOf(t, l) => s = t
  /\ \A c, d \in Callers : Serves(c, l) /\ Serves(d, l) => c = d
  /\ \A c \in Callers : Serves(c, l) /\ call[c].at \in Issues => l \notin standing
  /\ l \in standing <=> \E s \in Sessions : RowOf(s, l)
  /\ \A x, y \in Times : HasToken(l, x) /\ HasToken(l, y) => x = y
  /\ \A x \in Times, m \in Logins \ {l} : ~(HasToken(l, x) /\ HasToken(m, x))

Apart ==
  /\ \A l \in Logins \ mixed : Alone(l)
  /\ \A l \in Logins :
       (\E s \in Sessions : RowOf(s, l)) \/ (\E c \in Callers : Serves(c, l)) \/ l \in standing
         => l <= logins

(* What does nothing but go on, or end, leaves a login alone. *)
LEMMA StaysAlone ==
  ASSUME NEW l \in Logins, Alone(l),
         \A s \in Sessions : RowOf(s, l)' => RowOf(s, l),
         \A c \in Callers : Serves(c, l)' => Serves(c, l),
         \A c \in Callers : Serves(c, l)' /\ call'[c].at \in Issues => l \notin standing',
         l \in standing' <=> \E s \in Sessions : RowOf(s, l)',
         \A m \in Logins, x \in Times : HasToken(m, x)' => HasToken(m, x)
  PROVE  Alone(l)'
BY DEF Alone

LEMMA RowIsActive == \A x \in SessionRows : x # NoSession
<1> SUFFICES ASSUME NEW x \in SessionRows, x = NoSession
             PROVE  FALSE
  OBVIOUS
<1>1. "of" \in DOMAIN x
  BY DEF SessionRows
<1>2. "of" \notin DOMAIN NoSession
  BY DEF NoSession
<1> QED
  BY <1>1, <1>2

LEMMA QuietApart ==
  ASSUME SessionsTypeOK, Apart,
         \A d \in Callers : Carries(d) /\ Reissues(d),
         UNCHANGED <<session, standing, mixed, logins>>
  PROVE  Apart'
<1>1. \A s \in Sessions, l \in Logins : RowOf(s, l)' <=> RowOf(s, l)
  BY DEF RowOf, Active
<1>2. \A c \in Callers, l \in Logins : Serves(c, l)' => Serves(c, l)
  BY DEF Serves, Carries
<1>3. \A m \in Logins, x \in Times : HasToken(m, x)' => HasToken(m, x)
  BY <1>1, <1>2 DEF HasToken, Carries, Serves
<1>4. ASSUME NEW l \in Logins \ mixed'
      PROVE  Alone(l)'
  <2>1. Alone(l)
    BY <1>4 DEF Apart
  <2>2. \A c \in Callers : Serves(c, l)' /\ call'[c].at \in Issues => l \notin standing'
    BY <1>2, <2>1 DEF Alone, Reissues
  <2>3. l \in standing' <=> \E s \in Sessions : RowOf(s, l)'
    BY <1>1, <2>1 DEF Alone
  <2> QED
    BY <1>1, <1>2, <1>3, <2>1, <2>2, <2>3, StaysAlone
<1> QED
  BY <1>1, <1>2, <1>4 DEF Apart

LEMMA LoginApart ==
  ASSUME SessionsTypeOK, Apart, NEW c \in Callers, Login(c)
  PROVE  Apart'
<1> USE DEF SessionsTypeOK
<1>0. PICK k \in Logins : k = logins + 1
  BY ChangesNat DEF Login, Bounded, Logins
<1> DEFINE new == [login |-> k, token |-> now, password |-> account.password, overtaken |-> FALSE]
<1>1. /\ [new EXCEPT !.token = 0].login = k
      /\ logins' = k
      /\ UNCHANGED <<session, standing, mixed>>
  BY <1>0 DEF Login, sessionTables, sessionMarks
<1>2. call' = [call EXCEPT ![c] = [at |-> "issue", of |-> [new EXCEPT !.token = 0]]]
  BY <1>0 DEF Login, Generate
<1>3. call[c].at \notin Serving
  BY DEF Login, Does, Serving, UsesToken, Issues
<1> HIDE DEF new
<1>4. \A s \in Sessions, l \in Logins : RowOf(s, l)' <=> RowOf(s, l)
  BY <1>1 DEF RowOf, Active
<1>5. \A d \in Callers, l \in Logins : Serves(d, l)' <=> Serves(d, l) \/ (d = c /\ l = k)
  BY <1>1, <1>2, <1>3 DEF Serves, Serving, Issues
<1>6. \A m \in Logins, x \in Times : HasToken(m, x)' => HasToken(m, x)
  <2>1. \A d \in Callers : call'[d].at \in UsesToken => d # c /\ call'[d] = call[d]
    BY <1>2 DEF UsesToken
  <2> QED
    BY <1>1, <1>4, <1>5, <2>1 DEF HasToken
<1>7. /\ k \notin standing
      /\ \A s \in Sessions : ~RowOf(s, k)
      /\ \A d \in Callers : ~Serves(d, k)
  <2>1. ~(k <= logins)
    BY <1>0
  <2> QED
    BY <1>1, <2>1 DEF Apart
<1>8. ASSUME NEW l \in Logins \ mixed'
      PROVE  Alone(l)'
  <2>1. CASE l = k
    <3>1. \A x \in Times : ~HasToken(k, x)
      BY <1>7 DEF HasToken
    <3>2. \A x \in Times : ~HasToken(k, x)'
      BY <1>1, <1>6, <3>1
    <3>3. k \notin standing' /\ \A s \in Sessions : ~RowOf(s, k)'
      BY <1>1, <1>4, <1>7
    <3>4. \A d \in Callers : Serves(d, k)' => d = c
      BY <1>1, <1>5, <1>7
    <3>5. Alone(k)'
      BY <3>2, <3>3, <3>4 DEF Alone
    <3> QED
      BY <2>1, <3>5
  <2>2. CASE l # k
    <3>1. Alone(l)
      BY <1>1, <1>8 DEF Apart
    <3>2. \A d \in Callers : Serves(d, l)' => d # c /\ Serves(d, l) /\ call'[d] = call[d]
      BY <1>2, <1>3, <1>5, <2>2 DEF Serves
    <3>3. \A d \in Callers : Serves(d, l)' /\ call'[d].at \in Issues => l \notin standing'
      BY <1>1, <3>1, <3>2 DEF Alone
    <3>4. l \in standing' <=> \E s \in Sessions : RowOf(s, l)'
      BY <1>1, <1>4, <3>1 DEF Alone
    <3> QED
      BY <1>4, <1>6, <3>1, <3>2, <3>3, <3>4, StaysAlone
  <2> QED
    BY <2>1, <2>2
<1>9. ASSUME NEW l \in Logins,
             (\E s \in Sessions : RowOf(s, l)') \/ (\E d \in Callers : Serves(d, l)')
               \/ l \in standing'
      PROVE  l <= logins'
  <2>1. CASE l = k
    BY <1>0, <1>1, <2>1 DEF Logins
  <2>2. CASE l # k
    <3>1. l <= logins
      BY <1>1, <1>4, <1>5, <1>9, <2>2 DEF Apart
    <3> QED
      BY <1>0, <1>1, <3>1 DEF Logins
  <2> QED
    BY <2>1, <2>2
<1> QED
  BY <1>8, <1>9 DEF Apart

LEMMA CreateApart ==
  ASSUME SessionsTypeOK, Apart, NEW c \in Callers, NEW s \in Sessions, CreateSession(c, s)
  PROVE  Apart'
<1> USE DEF SessionsTypeOK
<1>0. PICK g \in Grants : g = call[c].of
  BY CallKinds DEF CreateSession, Does, Serving, Issues
<1>1. PICK k \in Logins : k = g.login
  BY <1>0 DEF Grants
<1>2. g.token \in Times
  BY <1>0 DEF Grants
<1>3. /\ session[s] = NoSession
      /\ session' = [session EXCEPT ![s] = [of |-> g, due |-> FALSE]]
      /\ call' = [call EXCEPT ![c] = Free]
      /\ standing' = standing \cup {k}
      /\ mixed' = IF Sharing(g) = {} THEN mixed ELSE mixed \cup Sharing(g) \cup {k}
      /\ UNCHANGED logins
  BY <1>0, <1>1 DEF CreateSession, Answer, sessionCounts
<1>4. Serves(c, k) /\ call[c].at \in Issues /\ Free.at \notin Serving
  BY <1>0, <1>1 DEF CreateSession, Does, Serves, Serving, Issues, UsesToken, Free
<1>5. [of |-> g, due |-> FALSE] # NoSession
  BY <1>0, RowsAreRows, RowIsActive
<1>6. \A t \in Sessions, m \in Logins : RowOf(t, m)' <=> RowOf(t, m) \/ (t = s /\ m = k)
  BY <1>1, <1>3, <1>5 DEF RowOf, Active
<1>7. \A d \in Callers, m \in Logins : Serves(d, m)' <=> Serves(d, m) /\ d # c
  BY <1>3, <1>4 DEF Serves
<1>8. \A t \in Sessions, m \in Logins :
        RowOf(t, m)' => session'[t].of.token = IF t = s THEN g.token ELSE session[t].of.token
  BY <1>3 DEF RowOf
<1>9. \A m \in Logins, x \in Times : HasToken(m, x)' => HasToken(m, x) \/ (m = k /\ x = g.token)
  <2>1. \A t \in Sessions, m \in Logins, x \in Times :
          RowOf(t, m)' /\ session'[t].of.token = x => HasToken(m, x) \/ (m = k /\ x = g.token)
    <3>1. \A m \in Logins : ~RowOf(s, m)
      BY <1>3 DEF RowOf, Active
    <3> QED
      BY <1>6, <1>8, <3>1 DEF HasToken
  <2>2. \A d \in Callers, m \in Logins, x \in Times :
          Serves(d, m)' /\ call'[d].at \in UsesToken /\ call'[d].of.token = x => HasToken(m, x)
    BY <1>3, <1>7 DEF HasToken
  <2> QED
    BY <2>1, <2>2 DEF HasToken
<1>10. \A m \in Logins \ {k} : HasToken(m, g.token) => m \in Sharing(g)
  BY <1>0, <1>1, <1>2 DEF HasToken, Sharing, RowOf, Serves
<1>11. ASSUME NEW l \in Logins \ mixed'
       PROVE  Alone(l)'
  <2>0. Alone(l) /\ l \notin mixed
    BY <1>3, <1>11 DEF Apart
  <2>1. CASE l = k
    <3>0. Sharing(g) = {}
      BY <1>3, <1>11, <2>1
    <3>1. \A t \in Sessions : RowOf(t, k)' => t = s
      BY <1>4, <1>6, <2>0, <2>1 DEF Alone
    <3>2. \A d \in Callers : ~Serves(d, k)'
      BY <1>4, <1>7, <2>0, <2>1 DEF Alone
    <3>3. \A x \in Times : HasToken(k, x)' => x = g.token
      BY <1>3, <1>8, <3>1, <3>2 DEF HasToken
    <3>4. \A x \in Times, m \in Logins \ {k} : ~(HasToken(k, x)' /\ HasToken(m, x)')
      BY <1>9, <1>10, <3>0, <3>3
    <3>5. k \in standing' /\ RowOf(s, k)'
      BY <1>3, <1>6
    <3>6. Alone(k)'
      BY <3>1, <3>2, <3>3, <3>4, <3>5 DEF Alone
    <3> QED
      BY <2>1, <3>6
  <2>2. CASE l # k
    <3>1. \A t \in Sessions : RowOf(t, l)' <=> RowOf(t, l)
      BY <1>6, <2>2
    <3>2. \A d \in Callers : Serves(d, l)' => d # c /\ Serves(d, l) /\ call'[d] = call[d]
      BY <1>3, <1>7
    <3>3. \A x \in Times : HasToken(l, x)' => HasToken(l, x)
      BY <1>9, <2>2
    <3>4. \A x \in Times, m \in Logins \ {l} : ~(HasToken(l, x)' /\ HasToken(m, x)')
      <4> SUFFICES ASSUME NEW x \in Times, NEW m \in Logins \ {l},
                          HasToken(l, x)', HasToken(m, x)'
                   PROVE  FALSE
        OBVIOUS
      <4>1. HasToken(l, x)
        BY <3>3
      <4>2. CASE HasToken(m, x)
        BY <2>0, <4>1, <4>2 DEF Alone
      <4>3. CASE m = k /\ x = g.token
        BY <1>3, <1>10, <1>11, <2>2, <4>1, <4>3
      <4> QED
        BY <1>9, <4>2, <4>3
    <3>5. l \in standing' <=> l \in standing
      BY <1>3, <2>2
    <3> QED
      BY <2>0, <3>1, <3>2, <3>3, <3>4, <3>5 DEF Alone
  <2> QED
    BY <2>1, <2>2
<1>12. k <= logins
  BY <1>4 DEF Apart
<1>13. ASSUME NEW l \in Logins,
              (\E t \in Sessions : RowOf(t, l)') \/ (\E d \in Callers : Serves(d, l)')
                \/ l \in standing'
       PROVE  l <= logins'
  BY <1>3, <1>6, <1>7, <1>12, <1>13 DEF Apart
<1> QED
  BY <1>11, <1>13 DEF Apart

LEMMA PresentApart ==
  ASSUME SessionsTypeOK, Apart, NEW c \in Callers, NEW s \in Sessions, NEW stage \in UsesToken,
         Present(c, s, stage)
  PROVE  Apart'
<1> USE DEF SessionsTypeOK
<1>0. session[s] \in SessionRows /\ session[s] # NoSession
  BY DEF Present, Usable, Active
<1>1. PICK g \in Grants : g = session[s].of
  BY <1>0 DEF SessionRows
<1>2. PICK k \in Logins : k = g.login
  BY <1>1 DEF Grants
<1>3. /\ call' = [call EXCEPT ![c] = [at |-> stage, of |-> g]]
      /\ mixed' = IF \E d \in Callers : Serves(d, k) THEN mixed \cup {k} ELSE mixed
      /\ UNCHANGED <<session, standing, logins>>
  BY <1>1, <1>2 DEF Present, Serves, Serving, sessionTables, sessionCounts
<1>4. call[c].at \notin Serving
  BY DEF Present, Does, Serving, UsesToken, Issues
<1>5. \A t \in Sessions, m \in Logins : RowOf(t, m)' <=> RowOf(t, m)
  BY <1>3 DEF RowOf, Active
<1>6. RowOf(s, k)
  BY <1>0, <1>1, <1>2 DEF RowOf, Active
<1>7. \A d \in Callers, m \in Logins : Serves(d, m)' <=> Serves(d, m) \/ (d = c /\ m = k)
  BY <1>2, <1>3, <1>4 DEF Serves, Serving
<1>8. \A m \in Logins, x \in Times : HasToken(m, x)' => HasToken(m, x)
  <2>1. \A d \in Callers, m \in Logins, x \in Times :
          Serves(d, m)' /\ call'[d].at \in UsesToken /\ call'[d].of.token = x => HasToken(m, x)
    <3> SUFFICES ASSUME NEW d \in Callers, NEW m \in Logins, NEW x \in Times, Serves(d, m)',
                        call'[d].at \in UsesToken, call'[d].of.token = x
                 PROVE  HasToken(m, x)
      OBVIOUS
    <3>1. CASE d = c
      BY <1>1, <1>3, <1>4, <1>6, <1>7, <3>1 DEF HasToken, Serves
    <3>2. CASE d # c
      BY <1>3, <1>7, <3>2 DEF HasToken
    <3> QED
      BY <3>1, <3>2
  <2>2. \A t \in Sessions, m \in Logins, x \in Times :
          RowOf(t, m)' /\ session'[t].of.token = x => HasToken(m, x)
    BY <1>3, <1>5 DEF HasToken
  <2> QED
    BY <2>1, <2>2 DEF HasToken
<1>9. ASSUME NEW l \in Logins \ mixed'
      PROVE  Alone(l)'
  <2>0. Alone(l)
    BY <1>3, <1>9 DEF Apart
  <2>1. \A d, e \in Callers : Serves(d, l)' /\ Serves(e, l)' => d = e
    <3>1. CASE l = k
      BY <1>3, <1>7, <1>9, <3>1
    <3>2. CASE l # k
      BY <1>7, <2>0, <3>2 DEF Alone
    <3> QED
      BY <3>1, <3>2
  <2>2. \A d \in Callers : Serves(d, l)' /\ call'[d].at \in Issues => l \notin standing'
    <3>1. call'[c].at \notin Issues
      BY <1>3 DEF UsesToken, Issues
    <3>2. \A d \in Callers \ {c} : Serves(d, l)' => Serves(d, l) /\ call'[d] = call[d]
      BY <1>3, <1>7
    <3> QED
      BY <1>3, <2>0, <3>1, <3>2 DEF Alone
  <2> QED
    BY <1>3, <1>5, <1>8, <2>0, <2>1, <2>2 DEF Alone
<1>10. ASSUME NEW l \in Logins,
              (\E t \in Sessions : RowOf(t, l)') \/ (\E d \in Callers : Serves(d, l)')
                \/ l \in standing'
       PROVE  l <= logins'
  BY <1>3, <1>5, <1>6, <1>7, <1>10 DEF Apart
<1> QED
  BY <1>9, <1>10 DEF Apart

(* Ending the sessions with its token ends those of a login that is alone, and *)
(* no session of another that is.                                             *)
LEMMA EndedOfLogin ==
  ASSUME SessionsTypeOK, Apart, NEW c \in Callers, call[c].at \in UsesToken,
         session' = Ended(call[c].of.token)
  PROVE  /\ \A s \in Sessions, m \in Logins : RowOf(s, m)' => RowOf(s, m) /\ session'[s] = session[s]
         /\ \A s \in Sessions, m \in Logins \ mixed :
              RowOf(s, m)' <=> RowOf(s, m) /\ m # call[c].of.login
<1> USE DEF SessionsTypeOK
<1>0. PICK g \in Grants : g = call[c].of
  BY CallKinds DEF Serving
<1>1. PICK k \in Logins : k = g.login
  BY <1>0 DEF Grants
<1>2. g.token \in Times /\ Serves(c, k) /\ HasToken(k, g.token)
  BY <1>0, <1>1 DEF Grants, Serves, Serving, HasToken
<1>3. \A s \in Sessions :
        session'[s] = IF session[s] # NoSession /\ session[s].of.token = g.token
                        THEN NoSession ELSE session[s]
  BY <1>0 DEF Ended, Active
<1>4. ASSUME NEW s \in Sessions, NEW m \in Logins
      PROVE  RowOf(s, m)' => RowOf(s, m) /\ session'[s] = session[s]
  BY <1>3 DEF RowOf, Active
<1>5. ASSUME NEW s \in Sessions, NEW m \in Logins \ mixed
      PROVE  RowOf(s, m)' <=> RowOf(s, m) /\ m # k
  <2>1. Alone(m)
    BY DEF Apart
  <2>2. ASSUME RowOf(s, m)
        PROVE  session[s].of.token \in Times /\ HasToken(m, session[s].of.token)
    BY <2>2 DEF RowOf, Active, HasToken, SessionRows, Grants
  <2>3. CASE RowOf(s, m) /\ m = k
    <3>1. session[s].of.token = g.token
      BY <1>2, <2>1, <2>2, <2>3 DEF Alone
    <3> QED
      BY <1>3, <2>3, <3>1 DEF RowOf, Active
  <2>4. CASE RowOf(s, m) /\ m # k
    <3>1. session[s].of.token # g.token
      BY <1>2, <2>1, <2>2, <2>4 DEF Alone
    <3> QED
      BY <1>3, <2>4, <3>1 DEF RowOf, Active
  <2> QED
    BY <1>4, <2>3, <2>4
<1> QED
  BY <1>0, <1>1, <1>4, <1>5

LEMMA RetireApart ==
  ASSUME SessionsTypeOK, Apart, NEW c \in Callers, Retire(c) \/ InvalidateSession(c)
  PROVE  Apart'
<1> USE DEF SessionsTypeOK
<1>0. PICK g \in Grants : g = call[c].of
  BY CallKinds DEF Retire, InvalidateSession, Does, Serving, UsesToken
<1>1. PICK k \in Logins : k = g.login
  BY <1>0 DEF Grants
<1>2. call[c].at \in UsesToken /\ Serves(c, k)
  BY <1>0, <1>1 DEF Retire, InvalidateSession, Does, Serves, Serving, UsesToken
<1>3. /\ standing' = standing \ {k}
      /\ UNCHANGED logins
      /\ \/ session' = Ended(g.token) /\ mixed' = mixed
         \/ session' = session /\ mixed' = mixed \cup {k}
  BY <1>0, <1>1 DEF Retire, InvalidateSession, sessionCounts
<1>4. /\ \A d \in Callers : d # c => call'[d] = call[d]
      /\ call'[c].at \notin UsesToken
      /\ call'[c].at \in Serving => call'[c].of.login = k
  <2>1. CASE Retire(c)
    <3>1. call' = [call EXCEPT ![c] = [at |-> "issue", of |-> [g EXCEPT !.token = 0]]]
      BY <1>0, <2>1 DEF Retire, Generate
    <3>2. [g EXCEPT !.token = 0].login = k
      BY <1>0, <1>1 DEF Grants
    <3> QED
      BY <3>1, <3>2 DEF UsesToken
  <2>2. CASE InvalidateSession(c)
    BY <2>2 DEF InvalidateSession, Answer, Free, UsesToken, Serving, Issues
  <2> QED
    BY <2>1, <2>2
<1>5. /\ \A s \in Sessions, m \in Logins : RowOf(s, m)' => RowOf(s, m) /\ session'[s] = session[s]
      /\ \A s \in Sessions, m \in Logins \ mixed' : RowOf(s, m)' <=> RowOf(s, m) /\ m # k
  <2>1. CASE session' = Ended(g.token) /\ mixed' = mixed
    BY <1>0, <1>1, <1>2, <2>1, EndedOfLogin
  <2>2. CASE session' = session /\ mixed' = mixed \cup {k}
    <3>1. \A s \in Sessions, m \in Logins : RowOf(s, m)' <=> RowOf(s, m)
      BY <2>2 DEF RowOf, Active
    <3> QED
      BY <2>2, <3>1
  <2> QED
    BY <1>3, <2>1, <2>2
<1>6. \A d \in Callers, m \in Logins : Serves(d, m)' => Serves(d, m)
  BY <1>2, <1>4 DEF Serves
<1>7. \A m \in Logins, x \in Times : HasToken(m, x)' => HasToken(m, x)
  <2>1. \A d \in Callers, m \in Logins, x \in Times :
          Serves(d, m)' /\ call'[d].at \in UsesToken /\ call'[d].of.token = x => HasToken(m, x)
    BY <1>4, <1>6 DEF HasToken
  <2>2. \A t \in Sessions, m \in Logins, x \in Times :
          RowOf(t, m)' /\ session'[t].of.token = x => HasToken(m, x)
    BY <1>5 DEF HasToken
  <2> QED
    BY <2>1, <2>2 DEF HasToken
<1>8. ASSUME NEW l \in Logins \ mixed'
      PROVE  Alone(l)'
  <2>0. Alone(l)
    BY <1>3, <1>8 DEF Apart
  <2>1. l \in standing' <=> \E s \in Sessions : RowOf(s, l)'
    BY <1>3, <1>5, <2>0 DEF Alone
  <2>2. ASSUME NEW d \in Callers, Serves(d, l)', call'[d].at \in Issues
        PROVE  l \notin standing'
    <3>1. CASE d = c
      BY <1>3, <1>4, <2>2, <3>1 DEF Serves
    <3>2. CASE d # c
      BY <1>3, <1>4, <1>6, <2>0, <2>2, <3>2 DEF Alone
    <3> QED
      BY <3>1, <3>2
  <2> QED
    BY <1>5, <1>6, <1>7, <2>0, <2>1, <2>2, StaysAlone
<1> QED
  BY <1>3, <1>5, <1>6, <1>8 DEF Apart

LEMMA EndAllApart ==
  ASSUME SessionsTypeOK, Apart, NEW c \in Callers, InvalidateAllUserSessions(c)
  PROVE  Apart'
<1> USE DEF SessionsTypeOK
<1>1. /\ \A s \in Sessions : session'[s] = NoSession
      /\ standing' = {} /\ mixed' = mixed /\ logins' = logins
  BY DEF InvalidateAllUserSessions, sessionCounts
<1>2. \A s \in Sessions, m \in Logins : ~RowOf(s, m)'
  BY <1>1 DEF RowOf, Active
<1>3. \A d \in Callers :
        call'[d].at \in Serving =>
          /\ call'[d].at = call[d].at
          /\ call'[d].of.login = call[d].of.login
          /\ call'[d].of.token = call[d].of.token
  <2>1. Overtake \in [Callers -> Calls] /\ Free.at \notin Serving
    BY OvertakeCalls DEF Free, Serving, UsesToken, Issues
  <2>2. call' = [Overtake EXCEPT ![c] = Free]
    BY DEF InvalidateAllUserSessions
  <2>3. \A d \in Callers :
          /\ Overtake[d].at = call[d].at
          /\ call[d].at \in Serving =>
               /\ Overtake[d].of.login = call[d].of.login
               /\ Overtake[d].of.token = call[d].of.token
    BY OvertakeCalls
  <2> QED
    BY <2>1, <2>2, <2>3
<1>4. \A d \in Callers, m \in Logins : Serves(d, m)' => Serves(d, m)
  BY <1>3 DEF Serves
<1>5. \A m \in Logins, x \in Times : HasToken(m, x)' => HasToken(m, x)
  BY <1>2, <1>3, <1>4 DEF HasToken, Serves
<1>6. ASSUME NEW l \in Logins \ mixed'
      PROVE  Alone(l)'
  <2>1. Alone(l)
    BY <1>1, <1>6 DEF Apart
  <2> QED
    BY <1>1, <1>2, <1>4, <1>5, <2>1, StaysAlone
<1> QED
  BY <1>1, <1>2, <1>4, <1>6 DEF Apart

LEMMA DueApart ==
  ASSUME SessionsTypeOK, Apart, NEW s \in Sessions, FallsDue(s)
  PROVE  Apart'
<1> USE DEF SessionsTypeOK
<1>1. /\ session[s] \in SessionRows
      /\ session' = [session EXCEPT ![s].due = TRUE]
      /\ UNCHANGED <<call, logins, standing, mixed>>
  BY DEF FallsDue, Usable, Active, sessionCounts, sessionMarks
<1>2. /\ session'[s].of = session[s].of
      /\ session'[s] # NoSession /\ session[s] # NoSession
      /\ \A t \in Sessions \ {s} : session'[t] = session[t]
  BY <1>1, RowsAreRows, RowIsActive
<1>3. \A t \in Sessions, m \in Logins : RowOf(t, m)' <=> RowOf(t, m)
  BY <1>2 DEF RowOf, Active
<1>4. \A d \in Callers, m \in Logins : Serves(d, m)' <=> Serves(d, m)
  BY <1>1 DEF Serves
<1>5. \A m \in Logins, x \in Times : HasToken(m, x)' => HasToken(m, x)
  <2>1. \A t \in Sessions : session'[t].of = session[t].of
    BY <1>2
  <2> QED
    BY <1>1, <1>3, <1>4, <2>1 DEF HasToken
<1>6. ASSUME NEW l \in Logins \ mixed'
      PROVE  Alone(l)'
  <2>1. Alone(l)
    BY <1>1, <1>6 DEF Apart
  <2>2. \A c \in Callers : Serves(c, l)' /\ call'[c].at \in Issues => l \notin standing'
    BY <1>1, <1>4, <2>1 DEF Alone
  <2>3. l \in standing' <=> \E t \in Sessions : RowOf(t, l)'
    BY <1>1, <1>3, <2>1 DEF Alone
  <2> QED
    BY <1>3, <1>4, <1>5, <2>1, <2>2, <2>3, StaysAlone
<1> QED
  BY <1>1, <1>3, <1>4, <1>6 DEF Apart

LEMMA StepApart == SessionsTypeOK /\ Apart /\ [SessionsNext]_sessionVars => Apart'
<1> SUFFICES ASSUME SessionsTypeOK, Apart, [SessionsNext]_sessionVars
             PROVE  Apart'
  OBVIOUS
<1> USE DEF sessionTables, sessionCounts, sessionMarks
<1>1. CASE \/ Register \/ DeleteUser \/ Ticks \/ UNCHANGED sessionVars
  <2>1. UNCHANGED <<session, call, logins, standing, mixed>>
    BY <1>1 DEF Register, DeleteUser, Ticks, sessionVars
  <2>2. \A d \in Callers : Carries(d) /\ Reissues(d)
    BY <2>1 DEF Carries, Reissues
  <2> QED
    BY <2>1, <2>2, QuietApart
<1>2. ASSUME NEW s \in Sessions, FallsDue(s)
      PROVE  Apart'
  BY <1>2, DueApart
<1>3. ASSUME NEW c \in Callers, Handle(c)
      PROVE  Apart'
  <2>1. CASE Quiet(c)
    BY <2>1, QuietCarries, QuietApart
  <2>2. CASE Login(c)
    BY <2>2, LoginApart
  <2>3. ASSUME NEW s \in Sessions, CreateSession(c, s)
        PROVE  Apart'
    BY <2>3, CreateApart
  <2>4. ASSUME NEW s \in Sessions, NEW stage \in UsesToken, Present(c, s, stage)
        PROVE  Apart'
    BY <2>4, PresentApart
  <2>5. CASE Retire(c) \/ InvalidateSession(c)
    BY <2>5, RetireApart
  <2>6. CASE InvalidateAllUserSessions(c)
    BY <2>6, EndAllApart
  <2> QED
    BY <1>3, <2>1, <2>2, <2>3, <2>4, <2>5, <2>6 DEF Handle, Quiet, Refresh, Logout, UsesToken
<1> QED
  BY <1>1, <1>2, <1>3 DEF SessionsNext

(* For any number of requests, rows and logins: a login that shares no token *)
(* and has no requests that overlap has one session from its answer on, and  *)
(* none once a request of its own has ended it.                              *)
THEOREM LoginHasOneSession == SessionsSpec => []OneSessionEach
<1>1. SessionsInit => Apart
  BY DEF SessionsInit, Apart, Alone, RowOf, Serves, HasToken, Active, Free, Serving, UsesToken,
         Issues
<1>2. Apart => OneSessionEach
  <2> SUFFICES ASSUME Apart, NEW l \in Logins \ mixed
               PROVE  IF l \in standing THEN \E s \in Sessions : OfLogin(l) = {s}
                                        ELSE OfLogin(l) = {}
    BY DEF OneSessionEach
  <2>1. Alone(l) /\ \A s \in Sessions : s \in OfLogin(l) <=> RowOf(s, l)
    BY DEF Apart, OfLogin, RowOf
  <2>2. CASE l \in standing
    <3>1. PICK s \in Sessions : RowOf(s, l)
      BY <2>1, <2>2 DEF Alone
    <3>2. OfLogin(l) = {s}
      BY <2>1, <3>1 DEF Alone, OfLogin
    <3> QED
      BY <2>2, <3>2
  <2>3. CASE l \notin standing
    BY <2>1, <2>3 DEF Alone, OfLogin
  <2> QED
    BY <2>2, <2>3
<1> QED
  BY <1>1, <1>2, InitSessions, StepSessions, StepApart, PTL DEF SessionsSpec

-----------------------------------------------------------------------------
(* Alerts and the hub: what a client was sent last is the status the alert   *)
(* has, unless the client missed the change.  Clients the hub does not know  *)
(* are told nothing, so that this holds of them too.                         *)
Channels == send \in [Sockets -> Seq(Messages)]
AllTold ==
  \A c \in Sockets, r \in Rules : <<c, r>> \notin missed => Told(c, r) = alert[r]
KnownOpen == \A c \in known : ~closed[c]
UnknownFresh ==
  \A c \in Sockets :
    /\ reader[c] \in {"none", "register"} => ~closed[c] /\ c \notin known
    /\ line[c] = "none" => reader[c] = "none"

HubInv == HubTypeOK /\ Channels /\ AllTold /\ KnownOpen /\ UnknownFresh

(* There is one rule, so that every message is about it, and the last in a   *)
(* channel is the one its client will have been shown.                       *)
LastSaid ==
  \A c \in Sockets, r \in Rules :
    Told(c, r) = IF send[c] = <<>> THEN shown[c][r] ELSE send[c][Len(send[c])].status

LEMMA ToldIsLast == Channels => LastSaid
<1> SUFFICES ASSUME Channels, NEW c \in Sockets, NEW r \in Rules
             PROVE  Told(c, r) = IF send[c] = <<>> THEN shown[c][r]
                                 ELSE send[c][Len(send[c])].status
  BY DEF LastSaid
<1> DEFINE s == send[c]
           of == {i \in 1..Len(s) : s[i].rule = r}
<1>1. s \in Seq(Messages) /\ Len(s) \in Nat
  BY DEF Channels
<1>2. \A i \in 1..Len(s) : s[i] \in Messages
  BY <1>1
<1>3. \A m \in Messages : m.rule = r
  BY DEF Messages, Rules
<1>4. of = 1..Len(s)
  BY <1>2, <1>3
<1>5. Told(c, r) = IF of = {} THEN shown[c][r]
                   ELSE s[CHOOSE i \in of : \A j \in of : j <= i].status
  BY DEF Told
<1> HIDE DEF s, of
<1>6. CASE s = <<>>
  BY <1>1, <1>4, <1>5, <1>6 DEF s
<1>7. CASE s # <<>>
  <2>1. Len(s) \in 1..Len(s)
    BY <1>1, <1>7
  <2>2. \A j \in 1..Len(s) : j <= Len(s)
    BY <1>1
  <2>3. \A i \in 1..Len(s) : (\A j \in 1..Len(s) : j <= i) => i = Len(s)
    BY <1>1, <2>1
  <2>4. (CHOOSE i \in of : \A j \in of : j <= i) = Len(s)
    BY <1>4, <2>1, <2>2, <2>3
  <2>5. of # {}
    BY <1>4, <2>1
  <2> QED BY <1>5, <1>7, <2>4, <2>5 DEF s
<1> QED BY <1>6, <1>7

(* The hub offers a message to all it knows. *)
LEMMA BroadcastKeeps ==
  ASSUME HubInv, NEW r \in Rules, NEW m \in Messages, m.rule = r,
         alert' = [alert EXCEPT ![r] = m.status], Broadcast(m), health' = health
  PROVE  HubInv'
<1> USE CapacityPositive
<1> DEFINE slow == {c \in known : Len(send[c]) >= Capacity}
<1>1. UNCHANGED <<health, line, reader, writer, shown>>
  BY DEF Broadcast
<1>2. m.status \in {"firing", "resolved"} /\ Rules = {r}
  BY DEF Messages, Rules
<1>3. alert' \in [Rules -> AlertStates] /\ alert'[r] = m.status
  BY <1>2 DEF HubInv, HubTypeOK, AlertStates
<1>4. CASE HubBroadcast(m)
  <2>1. /\ send' = [c \in Sockets |-> IF c \in known \ slow THEN Append(send[c], m) ELSE send[c]]
        /\ closed' = [c \in Sockets |-> closed[c] \/ c \in slow]
        /\ known' = known \ slow
        /\ missed' = (missed \cup (Sockets \X {r})) \ ((known \ slow) \X {r})
    BY <1>4 DEF HubBroadcast
  <2>2. \A c \in Sockets : send[c] \in Seq(Messages) /\ Len(send[c]) <= Capacity
    BY DEF HubInv, HubTypeOK
  <2>3. known \in SUBSET Sockets
    BY DEF HubInv, HubTypeOK
  <2>4. ASSUME NEW c \in Sockets
        PROVE  send'[c] \in Seq(Messages) /\ Len(send'[c]) <= Capacity
    <3>1. CASE c \in known \ slow
      <4>1. send'[c] = Append(send[c], m)
        BY <2>1, <3>1
      <4>2. Len(send[c]) \in Nat /\ ~(Len(send[c]) >= Capacity)
        BY <2>2, <3>1
      <4>3. Append(send[c], m) \in Seq(Messages) /\ Len(Append(send[c], m)) = Len(send[c]) + 1
        BY <2>2
      <4> QED BY <4>1, <4>2, <4>3
    <3>2. CASE c \notin known \ slow
      BY <2>1, <2>2, <3>2
    <3> QED BY <3>1, <3>2
  <2>5. Channels'
    BY <2>1, <2>4 DEF Channels
  <2>6. missed' \in SUBSET (Sockets \X Rules)
    BY <1>2, <2>1 DEF HubInv, HubTypeOK
  <2>7. HubTypeOK'
    BY <1>1, <1>3, <2>1, <2>3, <2>4, <2>6 DEF HubInv, HubTypeOK
  <2>8. LastSaid'
    BY <2>5, ToldIsLast, PTL
  <2>9. AllTold'
    <3> SUFFICES ASSUME NEW c \in Sockets, NEW q \in Rules, <<c, q>> \notin missed'
                 PROVE  Told(c, q)' = alert'[q]
      BY DEF AllTold
    <3>1. q = r
      BY <1>2
    <3>2. c \in known \ slow
      BY <2>1, <3>1
    <3>3. send'[c] = Append(send[c], m)
      BY <2>1, <3>2
    <3>4. send'[c] # <<>> /\ send'[c][Len(send'[c])] = m
      BY <2>2, <3>3
    <3> QED BY <1>3, <2>8, <3>1, <3>4 DEF LastSaid
  <2>10. KnownOpen'
    BY <2>1, <2>3 DEF HubInv, KnownOpen
  <2>11. UnknownFresh'
    BY <1>1, <2>1, <2>3 DEF HubInv, UnknownFresh
  <2> QED BY <2>5, <2>7, <2>9, <2>10, <2>11 DEF HubInv
<1>5. CASE missed' = missed \cup (Sockets \X {m.rule}) /\ UNCHANGED <<known, send, closed>>
  <2>1. HubTypeOK' /\ Channels'
    BY <1>1, <1>3, <1>5 DEF HubInv, HubTypeOK, Channels
  <2>2. AllTold'
    BY <1>2, <1>5 DEF AllTold
  <2>3. KnownOpen' /\ UnknownFresh'
    BY <1>1, <1>5 DEF HubInv, KnownOpen, UnknownFresh
  <2> QED BY <2>1, <2>2, <2>3 DEF HubInv
<1> QED BY <1>4, <1>5 DEF Broadcast

(* What a client has been shown and is about to be shown, together, changes  *)
(* with neither a write nor its connection's fate.                           *)
LEMMA SocketKeeps ==
  ASSUME HubInv, NEW c \in Sockets,
         Connect(c) \/ Hub(c) \/ LineBreaks(c) \/ ReadPumpEnds(c) \/ WritePumpEnds(c)
  PROVE  HubInv'
<1>1. UNCHANGED <<health, alert, send, shown, missed>>
  BY DEF Connect, Hub, HubRegister, HubUnregister, LineBreaks, ReadPumpEnds, WritePumpEnds
<1>2. \A d \in Sockets, r \in Rules : Told(d, r)' = Told(d, r)
  BY <1>1 DEF Told
<1>3. Channels' /\ AllTold'
  BY <1>1, <1>2 DEF HubInv, Channels, AllTold
<1>4. HubTypeOK'
  BY <1>1 DEF HubInv, HubTypeOK, Connect, Hub, HubRegister, HubUnregister, LineBreaks,
              ReadPumpEnds, WritePumpEnds
<1>5. KnownOpen'
  <2>1. CASE HubRegister(c)
    BY <2>1 DEF HubInv, KnownOpen, UnknownFresh, HubRegister
  <2>2. CASE HubUnregister(c)
    BY <2>2 DEF HubInv, HubTypeOK, KnownOpen, HubUnregister
  <2> QED BY <2>1, <2>2 DEF HubInv, KnownOpen, Connect, Hub, LineBreaks, ReadPumpEnds, WritePumpEnds
<1>6. UnknownFresh'
  BY DEF HubInv, HubTypeOK, UnknownFresh, Connect, Hub, HubRegister, HubUnregister,
         LineBreaks, ReadPumpEnds, WritePumpEnds
<1> QED BY <1>3, <1>4, <1>5, <1>6 DEF HubInv

LEMMA WriteKeeps ==
  ASSUME HubInv, NEW c \in Sockets, WriteMessage(c)
  PROVE  HubInv'
<1> DEFINE m == Head(send[c])
<1>1. /\ send[c] # <<>> /\ shown' = [shown EXCEPT ![c][m.rule] = m.status]
      /\ send' = [send EXCEPT ![c] = Tail(@)]
      /\ UNCHANGED <<health, alert, known, closed, line, reader, writer, missed>>
  BY DEF WriteMessage
<1>2. /\ send \in [Sockets -> Seq(Messages)] /\ Len(send[c]) <= Capacity
      /\ shown \in [Sockets -> [Rules -> AlertStates]]
  BY DEF HubInv, HubTypeOK, Channels
<1>3. /\ m \in Messages /\ Tail(send[c]) \in Seq(Messages)
      /\ Len(Tail(send[c])) = Len(send[c]) - 1 /\ Len(send[c]) \in Nat \ {0}
      /\ m = send[c][1]
  BY <1>1, <1>2
<1>4. m.rule \in Rules /\ m.status \in AlertStates
  BY <1>3 DEF Messages, AlertStates
<1> HIDE DEF m
<1>5. Channels'
  BY <1>1, <1>2, <1>3 DEF Channels
<1>6. shown' \in [Sockets -> [Rules -> AlertStates]]
  BY <1>1, <1>2, <1>4
<1>7. \A d \in Sockets : send'[d] \in Seq(Messages) /\ Len(send'[d]) <= Capacity
  <2> SUFFICES ASSUME NEW d \in Sockets
               PROVE  send'[d] \in Seq(Messages) /\ Len(send'[d]) <= Capacity
    OBVIOUS
  <2>1. CASE d = c
    BY <1>1, <1>2, <1>3, <2>1, CapacityPositive
  <2>2. CASE d # c
    BY <1>1, <1>2, <2>2 DEF HubInv, HubTypeOK
  <2> QED BY <2>1, <2>2
<1>8. HubTypeOK'
  BY <1>1, <1>6, <1>7 DEF HubInv, HubTypeOK
<1>9. LastSaid /\ LastSaid'
  BY <1>5, ToldIsLast, PTL DEF HubInv
<1>10. ASSUME NEW d \in Sockets, NEW r \in Rules PROVE Told(d, r)' = Told(d, r)
  <2>1. CASE d # c
    BY <1>1, <1>2, <1>9, <2>1 DEF LastSaid
  <2>2. CASE d = c
    <3>1. m.rule = r
      BY <1>4 DEF Rules
    <3>2. shown'[c][r] = m.status
      BY <1>1, <1>2, <3>1
    <3>3. send'[c] = Tail(send[c])
      BY <1>1, <1>2
    <3>4. PICK rest \in Seq(Messages) : rest = send'[c] /\ Len(rest) = Len(send[c]) - 1
      BY <1>3, <3>3
    <3>5. rest = <<>> <=> Len(rest) = 0
      BY EmptySeq
    <3>6. Told(c, r) = send[c][Len(send[c])].status
      BY <1>1, <1>9 DEF LastSaid
    <3>7. CASE Len(send[c]) = 1
      <4>1. send'[c] = <<>>
        BY <1>3, <3>4, <3>7, <3>5
      <4> QED BY <1>3, <1>9, <2>2, <3>2, <3>6, <3>7, <4>1 DEF LastSaid
    <3>8. CASE Len(send[c]) # 1
      <4>1. send'[c] # <<>> /\ Len(send'[c]) = Len(send[c]) - 1
        BY <1>3, <3>4, <3>8, <3>5
      <4>2. Tail(send[c])[Len(send[c]) - 1] = send[c][Len(send[c])]
        BY <1>1, <1>2, <1>3, <3>8
      <4> QED BY <1>9, <2>2, <3>3, <3>6, <4>1, <4>2 DEF LastSaid
    <3> QED BY <3>7, <3>8
  <2> QED BY <2>1, <2>2
<1>11. AllTold'
  BY <1>1, <1>10 DEF HubInv, AllTold
<1>12. KnownOpen' /\ UnknownFresh'
  BY <1>1 DEF HubInv, KnownOpen, UnknownFresh
<1> QED BY <1>5, <1>8, <1>11, <1>12 DEF HubInv

LEMMA HubStarts == HubInit => HubInv
<1> SUFFICES ASSUME HubInit PROVE HubInv
  OBVIOUS
<1>1. <<>> \in Seq(Messages) /\ Len(<<>>) = 0
  OBVIOUS
<1>2. HubTypeOK /\ Channels
  BY <1>1, CapacityPositive DEF HubInit, HubTypeOK, Channels, AlertStates
<1>3. LastSaid
  BY <1>2, ToldIsLast
<1>4. AllTold
  BY <1>3 DEF HubInit, AllTold, LastSaid
<1> QED BY <1>2, <1>4 DEF HubInit, HubInv, KnownOpen, UnknownFresh

LEMMA HubStep == HubInv /\ [HubNext]_hubVars => HubInv'
<1> SUFFICES ASSUME HubInv, [HubNext]_hubVars PROVE HubInv'
  OBVIOUS
<1>0. ASSUME UNCHANGED <<alert, send, shown, missed>> PROVE AllTold'
  <2>1. \A c \in Sockets, r \in Rules : Told(c, r)' = Told(c, r)
    BY <1>0 DEF Told
  <2> QED BY <1>0, <2>1 DEF HubInv, AllTold
<1>1. ASSUME NEW r \in Rules, Evaluate(r) PROVE HubInv'
  <2>1. PICK s \in {"firing", "resolved"} : alert' = [alert EXCEPT ![r] = s]
    BY <1>1 DEF Evaluate, HandleRuleEvaluation
  <2>2. alert'[r] = s
    BY <2>1 DEF HubInv, HubTypeOK
  <2>3. PICK m \in Messages : m.rule = r /\ m.status = s /\ m = [rule |-> r, status |-> alert'[r]]
    BY <2>2 DEF Messages
  <2>4. Broadcast(m) /\ health' = health
    BY <1>1, <2>3 DEF Evaluate, HandleRuleEvaluation
  <2> QED BY <2>1, <2>3, <2>4, BroadcastKeeps
<1>2. CASE HealthChanges
  <2>1. PICK k \in Checks, found \in {"healthy", "degraded", "unhealthy"} :
          health' = [health EXCEPT ![k] = found]
    BY <1>2 DEF HealthChanges
  <2>2. UNCHANGED <<alert, known, send, closed, line, reader, writer, shown, missed>>
    BY <1>2 DEF HealthChanges, sockets
  <2>3. HubTypeOK'
    BY <2>1, <2>2 DEF HubInv, HubTypeOK
  <2> QED BY <1>0, <2>2, <2>3 DEF HubInv, Channels, KnownOpen, UnknownFresh
<1>3. ASSUME NEW c \in Sockets, Connect(c) \/ Hub(c) \/ LineBreaks(c) \/ Pump(c)
      PROVE  HubInv'
  BY <1>3, SocketKeeps, WriteKeeps DEF Pump
<1>4. CASE UNCHANGED hubVars
  BY <1>0, <1>4 DEF hubVars, sockets, HubInv, HubTypeOK, Channels, KnownOpen, UnknownFresh
<1> QED BY <1>1, <1>2, <1>3, <1>4 DEF HubNext

(* A client the hub knows is shown, or is about to be, the status the alert  *)
(* has, for any number of clients and any size of their channels; the only   *)
(* changes it does not see are those of which it missed the message.         *)
THEOREM ClientsAreTold == HubSpec => []ViewAgrees
<1>1. HubInv => ViewAgrees
  BY DEF HubInv, HubTypeOK, KnownOpen, AllTold, ViewAgrees
<1> QED BY <1>1, HubStarts, HubStep, PTL DEF HubSpec
=============================================================================
