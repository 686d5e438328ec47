-------------------------- MODULE MCSubscriberAccount --------------------------
(* SubscriberAccount for TLC. *)
EXTENDS SubscriberAccount

(* Stripe delivers the events of payments that succeed as it does the others. *)
(* The fairness on them adds nothing: the handler panics before it has        *)
(* changed anything, so that delivering one is a step that changes nothing.   *)
FairSpec ==
  /\ Spec /\ Fairness
  /\ \A p \in Payments : SF_vars(\E d \in Deliveries : HandlePaymentSucceeded(d, p))

(* handlePaymentSucceeded "handles successful payment events": a top-up that  *)
(* was pending when its row was inserted is credited once Stripe settles it.  *)
SettledIsCredited ==
  \A p \in Payments :
    intent[p] = "succeeded" /\ txn[p] = "PENDING" ~> credits[p] = 1
================================================================================
