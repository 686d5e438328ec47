---------------------------- MODULE DashboardSocket ----------------------------
(***************************************************************************)
(* The WebSocket service of the web dashboard, which all pages share, and  *)
(* the button that reconnects.  The close event of a socket follows its    *)
(* error at once.  The components that listen are left out: nothing the    *)
(* service does to its connection depends on them.                         *)
(***************************************************************************)
EXTENDS Naturals, FiniteSets

CONSTANTS PageSockets, NotHeld, MaxAttempts

ASSUME PageSocketsFinite == IsFiniteSet(PageSockets)
ASSUME NotHeldIsNone == NotHeld \notin PageSockets
ASSUME MaxAttemptsNat == MaxAttempts \in Nat

VARIABLES pageSocket,
          created,               \* has a page asked for the service?
          held, connecting, attempts,
          timeouts               \* reconnections that are due

serviceVars == <<pageSocket, created, held, connecting, attempts, timeouts>>

Page == INSTANCE WebSockets
          WITH Sockets <- PageSockets, NoSocket <- NotHeld, socket <- pageSocket

ServiceTypeOK ==
  /\ pageSocket \in [PageSockets -> Page!SocketStates]
  /\ held \in PageSockets \cup {NotHeld}
  /\ created \in BOOLEAN /\ connecting \in BOOLEAN
  /\ attempts \in 0..MaxAttempts
  /\ timeouts \in Nat

ServiceInit ==
  /\ Page!NoneDialled
  /\ created = FALSE
  /\ held = NotHeld
  /\ connecting = FALSE
  /\ attempts = 0
  /\ timeouts = 0

-----------------------------------------------------------------------------
ServiceConnect ==
  IF connecting \/ Page!IsOpen(held) THEN UNCHANGED <<pageSocket, held, connecting>>
  ELSE \E s \in PageSockets : Page!Dial(s) /\ held' = s /\ connecting' = TRUE

(* The first page to ask for the service creates it, and it connects. *)
GetWebSocketService ==
  /\ ~created
  /\ created' = TRUE
  /\ ServiceConnect
  /\ UNCHANGED <<attempts, timeouts>>

(* mutant: only for the socket the service has *)
HandleReconnectOfHeld(s) ==
  IF held = s /\ attempts < MaxAttempts
    THEN attempts' = attempts + 1 /\ timeouts' = timeouts + 1
    ELSE UNCHANGED <<attempts, timeouts>>

HandleReconnect(s) ==
  IF attempts < MaxAttempts
    THEN attempts' = attempts + 1 /\ timeouts' = timeouts + 1
    ELSE UNCHANGED <<attempts, timeouts>>

ServiceOpens(s) ==
  /\ Page!Move(s, {"connecting"}, "open")
  /\ connecting' = FALSE
  /\ attempts' = 0
  /\ UNCHANGED <<created, held, timeouts>>

(* onerror, if it fails, and onclose *)
ServiceCloses(s) ==
  /\ Page!Move(s, {"connecting", "aborted", "open", "closing"}, "closed")
  /\ connecting' = FALSE
  /\ HandleReconnect(s)
  /\ UNCHANGED <<created, held>>

ServiceClosing(s) == Page!ServerCloses(s) /\ UNCHANGED <<created, held, connecting, attempts, timeouts>>

TimeoutDue ==
  /\ timeouts > 0
  /\ timeouts' = timeouts - 1
  /\ ServiceConnect
  /\ UNCHANGED <<created, attempts>>

(* mutant: the button connects by itself as well *)
ForceAtOnce ==
  /\ held # NotHeld
  /\ \E s \in Page!Free :
       /\ pageSocket' = [pageSocket EXCEPT ![held] = IF @ = "closed" THEN @ ELSE "closing",
                                   ![s] = "connecting"]
       /\ held' = s
  /\ connecting' = TRUE
  /\ UNCHANGED <<created, attempts, timeouts>>

(* reconnect: the service asked for a second after it is disconnected is the *)
(* same one, which is not told to connect.                                   *)
ForceReconnect ==
  /\ created
  /\ Page!Hangup(held)
  /\ held' = NotHeld
  /\ UNCHANGED <<created, connecting, attempts, timeouts>>

ServiceNext ==
  \/ GetWebSocketService
  \/ \E s \in PageSockets : ServiceOpens(s) \/ ServiceCloses(s) \/ ServiceClosing(s)
  \/ TimeoutDue \/ ForceReconnect

(* Timers are due, a socket that is not open opens or is closed.             *)
ServiceFairness ==
  /\ WF_serviceVars(TimeoutDue)
  /\ \A s \in PageSockets :
       WF_serviceVars(ServiceOpens(s) \/ (pageSocket[s] # "open" /\ ServiceCloses(s)))

ServiceSpec == ServiceInit /\ [][ServiceNext]_serviceVars /\ ServiceFairness

-----------------------------------------------------------------------------
(* What the sockets of the service amount to: of several in use, any. *)
InUse == PageSockets \ Page!Free

Phase ==
  IF InUse # {} THEN LET s == CHOOSE s \in InUse : TRUE
                     IN  IF pageSocket[s] = "aborted" THEN "closing" ELSE pageSocket[s]
  ELSE IF ~created    THEN "unused"
  ELSE IF timeouts = 0 THEN "over" ELSE "waiting"

R == INSTANCE Reconnector WITH MaxTries <- MaxAttempts, phase <- Phase, tries <- attempts

(* However often it is told to reconnect, every step of the service is one   *)
(* of the abstract service's: it never dials while it has a connection or an *)
(* attempt, no timer is lost, and it gives up only after all its attempts.   *)
ImplementsReconnector == R!Spec

(* A service that is not connected connects, or has given up, also if the    *)
(* connection it had was closed by the button.                               *)
ComesBack ==
  created /\ ~Page!IsOpen(held) ~> Page!IsOpen(held) \/ attempts = MaxAttempts
=============================================================================
