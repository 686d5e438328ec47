------------------------------- MODULE Breaker -------------------------------
(***************************************************************************)
(* What a circuit breaker promises its callers, whatever it counts: while  *)
(* open it lets no call through before its timeout, a failure of a trial   *)
(* call opens it again, and only a trial period leads back to closed.      *)
(***************************************************************************)
VARIABLES state,   \* closed, open, or half-open: letting trial calls through
          due      \* the timeout has passed since the last failure

States == {"Closed", "Open", "HalfOpen"}

Init == state = "Closed" /\ due = TRUE

Elapse == due' = TRUE /\ UNCHANGED state

Fail ==
  /\ state' \in IF state = "Closed" THEN {"Closed", "Open"} ELSE {"Open"}
  /\ due' = FALSE

Try == state = "Open" /\ due /\ state' = "HalfOpen" /\ UNCHANGED due

Close == state = "HalfOpen" /\ state' = "Closed" /\ UNCHANGED due

Reset == state' = "Closed" /\ UNCHANGED due

Next == Elapse \/ Fail \/ Try \/ Close \/ Reset

Spec == Init /\ [][Next]_<<state, due>>
=============================================================================
