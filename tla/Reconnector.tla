------------------------------ MODULE Reconnector ------------------------------
(***************************************************************************)
(* What a service that keeps up a connection promises, however many        *)
(* sockets it goes through: it is at one thing at a time, dials again when *)
(* a connection is lost, also by its own hand, and gives up only after as  *)
(* many attempts in a row as it may make.                                  *)
(***************************************************************************)
EXTENDS Naturals

CONSTANT MaxTries

VARIABLES phase,   \* what the service is at
          tries    \* attempts since a connection was open

Phases == {"unused", "connecting", "open", "closing", "waiting", "over"}

Init == phase = "unused" /\ tries = 0

Begin == phase = "unused" /\ phase' = "connecting" /\ UNCHANGED tries

Connected == phase = "connecting" /\ phase' = "open" /\ tries' = 0

HangUp == phase \in {"connecting", "open"} /\ phase' = "closing" /\ UNCHANGED tries

Lost ==
  /\ phase \in {"connecting", "open", "closing"}
  /\ \/ tries < MaxTries  /\ phase' = "waiting" /\ tries' = tries + 1
     \/ tries >= MaxTries /\ phase' = "over"    /\ UNCHANGED tries

Retry == phase = "waiting" /\ phase' = "connecting" /\ UNCHANGED tries

Next == Begin \/ Connected \/ HangUp \/ Lost \/ Retry

Spec == Init /\ [][Next]_<<phase, tries>>
=============================================================================
