-------------------------- MODULE ReconnectionProofs --------------------------
(***************************************************************************)
(* The two WebSocket clients, for every number of sockets and attempts.    *)
(* The client of the SDK holds the only socket that is connecting or open, *)
(* and pings it while it is open, as long as no event of one socket was    *)
(* handled while another had events to come.  The service of the dashboard *)
(* implements Reconnector.                                                 *)
(***************************************************************************)
EXTENDS SocketClient, DashboardSocket, FiniteSetTheorems, TLAPS

-----------------------------------------------------------------------------
(* The client of the SDK *)

SocketsTyped ==
  /\ socket \in [Sockets -> SocketStates]
  /\ ws \in Sockets \cup {NoSocket}

(* While a socket connects, the client knows that it is connecting. *)
OneHeld ==
  \A s \in Sockets :
    /\ socket[s] \in {"connecting", "open"} => s = ws
    /\ socket[s] = "connecting" => isConnecting

ClientInv == SocketsTyped /\ (crossed \/ OneHeld) /\ PingsWhileOpen

(* An event of s that crosses no other finds all other sockets closed. *)
LEMMA NotCrossing ==
  ASSUME NEW s \in Sockets, Crosses(s), ~crossed'
  PROVE  ~crossed /\ \A t \in Sockets \ {s} : socket[t] = "closed"
BY DEF Crosses

LEMMA Moves ==
  ASSUME SocketsTyped, NEW s \in Sockets, NEW from, NEW to \in SocketStates,
         Move(s, from, to)
  PROVE  /\ socket[s] \in from
         /\ socket' \in [Sockets -> SocketStates]
         /\ \A t \in Sockets : socket'[t] = IF t = s THEN to ELSE socket[t]
BY DEF Move, SocketsTyped

(* connect, of the application or of a timer: a socket is dialled only when  *)
(* the client has none that connects or is open.                             *)
LEMMA DialKeeps ==
  ASSUME ClientInv, DialUnlessBusy, UNCHANGED <<pingInterval, leaked, crossed>>
  PROVE  ClientInv'
<1>1. CASE Busy
  BY <1>1 DEF DialUnlessBusy, ClientInv, SocketsTyped, OneHeld, PingsWhileOpen, IsOpen
<1>2. CASE ~Busy
  <2>1. PICK s \in Sockets : Dial(s) /\ ws' = s /\ isConnecting'
    BY <1>2 DEF DialUnlessBusy
  <2>2. /\ socket[s] = "closed"
        /\ socket' \in [Sockets -> SocketStates]
        /\ \A t \in Sockets : socket'[t] = IF t = s THEN "connecting" ELSE socket[t]
    BY <2>1, Moves DEF Dial, SocketStates, ClientInv
  <2>3. SocketsTyped'
    BY <2>1, <2>2 DEF SocketsTyped
  <2>4. OneHeld => OneHeld'
    BY <1>2, <2>1, <2>2, NoSocketIsNone DEF OneHeld, Busy, IsOpen
  <2>5. PingsWhileOpen'
    BY <2>1, <2>2 DEF ClientInv, PingsWhileOpen, IsOpen
  <2> QED
    BY <2>3, <2>4, <2>5 DEF ClientInv
<1> QED
  BY <1>1, <1>2

LEMMA StepClient == ClientInv /\ [ClientNext]_clientVars => ClientInv'
<1> SUFFICES ASSUME ClientInv, [ClientNext]_clientVars PROVE ClientInv'
  OBVIOUS
<1>0. SocketsTyped
  BY DEF ClientInv
<1>1. CASE Connect
  BY <1>1, DialKeeps DEF Connect
<1>2. CASE Reconnect
  BY <1>2, DialKeeps DEF Reconnect
<1>3. CASE Disconnect
  <2>1. /\ socket' \in [Sockets -> SocketStates]
        /\ \A t \in Sockets : t # ws => socket'[t] = socket[t]
        /\ \A t \in Sockets : t = ws => socket'[t] \notin {"connecting", "open"}
    <3>1. Hangup(ws)
      BY <1>3 DEF Disconnect
    <3> QED
      BY <3>1, <1>0, NoSocketIsNone DEF Hangup, SocketsTyped, SocketStates
  <2>2. ws' = NoSocket /\ ~pingInterval' /\ UNCHANGED <<isConnecting, leaked, crossed>>
    BY <1>3 DEF Disconnect, StopPing
  <2> QED
    BY <2>1, <2>2 DEF ClientInv, SocketsTyped, OneHeld, PingsWhileOpen, IsOpen
<1>4. ASSUME NEW s \in Sockets, OnOpen(s) PROVE ClientInv'
  <2>1. /\ socket[s] = "connecting"
        /\ socket' \in [Sockets -> SocketStates]
        /\ \A t \in Sockets : socket'[t] = IF t = s THEN "open" ELSE socket[t]
    BY <1>0, <1>4, Moves DEF OnOpen, SocketStates
  <2>2. pingInterval' /\ leaked' = (leaked \/ pingInterval) /\ UNCHANGED ws
    BY <1>4 DEF OnOpen, StartPing
  <2>3. ~crossed' => ~crossed /\ \A t \in Sockets \ {s} : socket[t] = "closed"
    BY <1>4, NotCrossing DEF OnOpen
  <2>4. SocketsTyped'
    BY <1>0, <2>1, <2>2 DEF SocketsTyped
  <2>5. ~crossed' => OneHeld'
    BY <2>1, <2>2, <2>3 DEF ClientInv, OneHeld
  <2>6. PingsWhileOpen'
    BY <2>1, <2>2, <2>3 DEF ClientInv, PingsWhileOpen
  <2> QED
    BY <2>4, <2>5, <2>6 DEF ClientInv
<1>5. ASSUME NEW s \in Sockets, OnError(s) PROVE ClientInv'
  <2>1. /\ socket[s] \in {"connecting", "aborted"}
        /\ socket' \in [Sockets -> SocketStates]
        /\ \A t \in Sockets : socket'[t] = IF t = s THEN "failed" ELSE socket[t]
    BY <1>0, <1>5, Moves DEF OnError, SocketStates
  <2>2. UNCHANGED <<ws, pingInterval, leaked>>
    BY <1>5 DEF OnError
  <2>3. ~crossed' => ~crossed /\ \A t \in Sockets \ {s} : socket[t] = "closed"
    BY <1>5, NotCrossing DEF OnError
  <2>4. SocketsTyped'
    BY <1>0, <2>1, <2>2 DEF SocketsTyped
  <2>5. ~crossed' => OneHeld'
    BY <2>1, <2>3 DEF OneHeld
  <2>6. PingsWhileOpen'
    BY <1>0, <2>1, <2>2, <2>3 DEF ClientInv, PingsWhileOpen, IsOpen, SocketsTyped
  <2> QED
    BY <2>4, <2>5, <2>6 DEF ClientInv
<1>6. ASSUME NEW s \in Sockets, NEW normal \in BOOLEAN, OnClose(s, normal) PROVE ClientInv'
  <2>1. /\ socket' \in [Sockets -> SocketStates]
        /\ \A t \in Sockets : socket'[t] = IF t = s THEN "closed" ELSE socket[t]
    BY <1>0, <1>6, Moves DEF OnClose, SocketStates
  <2>2. ~pingInterval' /\ UNCHANGED <<ws, leaked>>
    BY <1>6 DEF OnClose, StopPing
  <2>3. ~crossed' => ~crossed /\ \A t \in Sockets \ {s} : socket[t] = "closed"
    BY <1>6, NotCrossing DEF OnClose
  <2>4. SocketsTyped'
    BY <1>0, <2>1, <2>2 DEF SocketsTyped
  <2>5. ~crossed' => OneHeld'
    BY <2>1, <2>3 DEF OneHeld
  <2>6. PingsWhileOpen'
    BY <1>0, <2>1, <2>2, <2>3 DEF ClientInv, PingsWhileOpen, IsOpen, SocketsTyped
  <2> QED
    BY <2>4, <2>5, <2>6 DEF ClientInv
<1>7. ASSUME NEW s \in Sockets, Closing(s) PROVE ClientInv'
  <2>1. /\ socket[s] = "open"
        /\ socket' \in [Sockets -> SocketStates]
        /\ \A t \in Sockets : socket'[t] = IF t = s THEN "closing" ELSE socket[t]
    BY <1>0, <1>7, Moves DEF Closing, ServerCloses, SocketStates
  <2>2. UNCHANGED <<ws, isConnecting, pingInterval, leaked, crossed>>
    BY <1>7 DEF Closing
  <2>3. PingsWhileOpen'
    BY <1>0, <2>1, <2>2 DEF ClientInv, PingsWhileOpen, IsOpen, SocketsTyped
  <2> QED
    BY <2>1, <2>2, <2>3 DEF ClientInv, SocketsTyped, OneHeld
<1>8. CASE UNCHANGED clientVars
  BY <1>8 DEF clientVars, ClientInv, SocketsTyped, OneHeld, PingsWhileOpen, IsOpen
<1> QED
  BY <1>1, <1>2, <1>3, <1>4, <1>5, <1>6, <1>7, <1>8 DEF ClientNext

LEMMA InitClient == ClientInit => ClientInv
BY DEF ClientInit, NoneDialled, SocketStates, ClientInv, SocketsTyped, OneHeld,
       PingsWhileOpen, IsOpen

(* For any number of sockets and attempts: the client has no connection, or  *)
(* attempt at one, beside its own, as long as no event was handled while     *)
(* another of its sockets had events to come.                                *)
THEOREM ClientHasOneConnection == ClientSpec => []OneConnection
<1>1. ClientInv => OneConnection
  BY DEF ClientInv, OneHeld, OneConnection
<1> QED
  BY <1>1, InitClient, StepClient, PTL DEF ClientSpec

(* With the same exception, it pings its connection from when it opens until *)
(* it knows of its end, with one interval.                                   *)
THEOREM ClientPings == ClientSpec => []PingsWhileOpen
<1>1. ClientInv => PingsWhileOpen
  BY DEF ClientInv
<1> QED
  BY <1>1, InitClient, StepClient, PTL DEF ClientSpec

-----------------------------------------------------------------------------
(* The service of the dashboard *)

(* Before the service is created it has done nothing; a reconnection is due  *)
(* only when all sockets are closed.                                         *)
ServiceInv ==
  /\ pageSocket \in [PageSockets -> Page!SocketStates]
  /\ timeouts \in {0, 1}
  /\ held \in PageSockets \cup {NotHeld}
  /\ attempts \in Nat
  /\ ~created => timeouts = 0 /\ InUse = {}
  /\ timeouts = 1 => InUse = {}
  /\ \A s, t \in InUse : s = t
  /\ connecting => InUse # {}

USE DEF Page!Free

(* The service dials when it has nothing in use and nothing else is due. *)
LEMMA ConnectDials ==
  ASSUME ServiceInv, InUse = {}, ServiceConnect
  PROVE  \E s \in PageSockets : Page!Dial(s) /\ held' = s /\ connecting'
<1>1. ~Page!IsOpen(held)
  BY DEF ServiceInv, InUse, Page!IsOpen
<1> QED
  BY <1>1 DEF ServiceInv, ServiceConnect

LEMMA ConnectKeeps ==
  ASSUME ServiceInv, InUse = {}, ServiceConnect, created', timeouts' = 0, UNCHANGED attempts
  PROVE  ServiceInv'
<1>1. PICK s \in PageSockets : Page!Dial(s) /\ held' = s
  BY ConnectDials
<1> QED
  BY <1>1 DEF Page!Dial, Page!Move, Page!SocketStates, ServiceInv, InUse

LEMMA StepService == ServiceInv /\ [ServiceNext]_serviceVars => ServiceInv'
<1> SUFFICES ASSUME ServiceInv, [ServiceNext]_serviceVars PROVE ServiceInv'
  OBVIOUS
<1> USE DEF Page!Move, Page!SocketStates
<1>1. CASE GetWebSocketService
  BY <1>1, ConnectKeeps DEF GetWebSocketService, ServiceInv
<1>2. CASE TimeoutDue
  <2>1. /\ timeouts = 1 /\ timeouts' = 0 /\ ServiceConnect
        /\ UNCHANGED <<created, attempts>>
    BY <1>2 DEF TimeoutDue, ServiceInv
  <2> QED
    BY <2>1, ConnectKeeps DEF ServiceInv
<1>3. ASSUME NEW s \in PageSockets, ServiceOpens(s) PROVE ServiceInv'
  BY <1>3 DEF ServiceOpens, ServiceInv, InUse
<1>4. ASSUME NEW s \in PageSockets, ServiceCloses(s) PROVE ServiceInv'
  <2>1. s \in InUse /\ timeouts = 0 /\ created
    BY <1>4 DEF ServiceCloses, ServiceInv, InUse
  <2>2. /\ timeouts' \in {0, 1} /\ attempts' \in Nat /\ ~connecting'
        /\ UNCHANGED <<created, held>>
    BY <1>4, <2>1 DEF ServiceCloses, HandleReconnect, ServiceInv
  <2>3. pageSocket' = [pageSocket EXCEPT ![s] = "closed"]
    BY <1>4 DEF ServiceCloses
  <2>4. InUse' = {}
    BY <2>1, <2>3 DEF ServiceInv, InUse
  <2> QED
    BY <2>1, <2>2, <2>3, <2>4 DEF ServiceInv
<1>5. ASSUME NEW s \in PageSockets, ServiceClosing(s) PROVE ServiceInv'
  BY <1>5 DEF ServiceClosing, Page!ServerCloses, ServiceInv, InUse
<1>6. CASE ForceReconnect
  <2>1. pageSocket' \in [PageSockets -> Page!SocketStates] /\ InUse' = InUse
    BY <1>6 DEF ForceReconnect, Page!Hangup, ServiceInv, InUse
  <2> QED
    BY <1>6, <2>1 DEF ForceReconnect, ServiceInv
<1>7. CASE UNCHANGED serviceVars
  BY <1>7 DEF serviceVars, ServiceInv, InUse
<1> QED
  BY <1>1, <1>2, <1>3, <1>4, <1>5, <1>6, <1>7 DEF ServiceNext

(* The phase of the service is told by the one socket in use, if there is one. *)
LEMMA PhaseOfSocket ==
  ASSUME ServiceInv, NEW s \in InUse
  PROVE  Phase = IF pageSocket[s] = "aborted" THEN "closing" ELSE pageSocket[s]
<1>1. InUse = {s}
  BY DEF ServiceInv
<1>2. InUse # {} /\ (CHOOSE t \in InUse : TRUE) = s
  BY <1>1
<1> QED
  BY <1>2 DEF Phase

LEMMA NextPhaseOfSocket ==
  ASSUME ServiceInv', NEW s \in InUse'
  PROVE  Phase' = IF pageSocket'[s] = "aborted" THEN "closing" ELSE pageSocket'[s]
<1>1. InUse' = {s}
  BY DEF ServiceInv
<1>2. InUse' # {} /\ (CHOOSE t \in InUse' : TRUE) = s
  BY <1>1
<1> QED
  BY <1>2 DEF Phase

LEMMA ServiceInitMaps == ServiceInit => R!Init
BY DEF ServiceInit, Page!NoneDialled, R!Init, Phase, InUse

(* Dialling, when nothing is in use, leads to the phase of a new socket. *)
LEMMA DialMaps ==
  ASSUME ServiceInv, ServiceInv', InUse = {}, ServiceConnect
  PROVE  Phase' = "connecting"
<1>1. PICK s \in PageSockets : Page!Dial(s)
  BY ConnectDials
<1>2. s \in InUse' /\ pageSocket'[s] = "connecting"
  BY <1>1 DEF Page!Dial, Page!Move, ServiceInv, InUse
<1> QED
  BY <1>2, NextPhaseOfSocket

LEMMA ServiceStepMaps ==
  ServiceInv /\ ServiceInv' /\ [ServiceNext]_serviceVars => [R!Next]_<<Phase, attempts>>
<1> SUFFICES ASSUME ServiceInv, ServiceInv', [ServiceNext]_serviceVars
             PROVE  [R!Next]_<<Phase, attempts>>
  OBVIOUS
<1> USE DEF Page!Move, Page!SocketStates
<1>1. CASE GetWebSocketService
  <2>1. InUse = {} /\ ServiceConnect /\ Phase = "unused" /\ UNCHANGED attempts
    BY <1>1 DEF GetWebSocketService, ServiceInv, Phase
  <2> QED
    BY <2>1, DialMaps DEF R!Next, R!Begin
<1>2. CASE TimeoutDue
  <2>1. InUse = {} /\ ServiceConnect /\ Phase = "waiting" /\ UNCHANGED attempts
    BY <1>2 DEF TimeoutDue, ServiceInv, Phase
  <2> QED
    BY <2>1, DialMaps DEF R!Next, R!Retry
<1>3. ASSUME NEW s \in PageSockets, ServiceOpens(s) PROVE R!Connected
  <2>1. /\ s \in InUse /\ pageSocket[s] = "connecting"
        /\ s \in InUse' /\ pageSocket'[s] = "open" /\ attempts' = 0
    BY <1>3 DEF ServiceOpens, ServiceInv, InUse
  <2> QED
    BY <2>1, PhaseOfSocket, NextPhaseOfSocket DEF R!Connected
<1>4. ASSUME NEW s \in PageSockets, ServiceCloses(s) PROVE R!Lost
  <2>1. s \in InUse /\ pageSocket[s] \in {"connecting", "aborted", "open", "closing"}
    BY <1>4 DEF ServiceCloses, InUse
  <2>2. Phase \in {"connecting", "open", "closing"}
    BY <2>1, PhaseOfSocket
  <2>3. pageSocket' = [pageSocket EXCEPT ![s] = "closed"] /\ UNCHANGED created
    BY <1>4 DEF ServiceCloses
  <2>4. timeouts = 0 /\ created /\ InUse' = {}
    BY <2>1, <2>3 DEF ServiceInv, InUse
  <2>5. Phase' = IF timeouts' = 0 THEN "over" ELSE "waiting"
    BY <2>3, <2>4 DEF Phase
  <2>6. CASE attempts < MaxAttempts
    BY <1>4, <2>2, <2>4, <2>5, <2>6 DEF ServiceCloses, HandleReconnect, R!Lost
  <2>7. CASE ~(attempts < MaxAttempts)
    <3>1. attempts >= MaxAttempts
      BY <2>7, MaxAttemptsNat DEF ServiceInv
    <3> QED
      BY <1>4, <2>2, <2>4, <2>5, <2>7, <3>1 DEF ServiceCloses, HandleReconnect, R!Lost
  <2> QED
    BY <2>6, <2>7
<1>5. ASSUME NEW s \in PageSockets, ServiceClosing(s) PROVE R!HangUp
  <2>1. /\ s \in InUse /\ pageSocket[s] = "open"
        /\ s \in InUse' /\ pageSocket'[s] = "closing" /\ UNCHANGED attempts
    BY <1>5 DEF ServiceClosing, Page!ServerCloses, ServiceInv, InUse
  <2> QED
    BY <2>1, PhaseOfSocket, NextPhaseOfSocket DEF R!HangUp
<1>6. ASSUME ForceReconnect PROVE R!HangUp \/ UNCHANGED <<Phase, attempts>>
  <2>1. CASE UNCHANGED pageSocket
    BY <1>6, <2>1 DEF ForceReconnect, Phase, InUse
  <2>2. CASE pageSocket' # pageSocket
    <3>1. /\ held \in PageSockets /\ pageSocket[held] \in {"connecting", "open"}
          /\ \A s \in PageSockets : s = held => pageSocket'[s] \in {"aborted", "closing"}
      BY <1>6, <2>2 DEF ForceReconnect, Page!Hangup, ServiceInv
    <3>2. PICK s \in PageSockets : s = held
      BY <3>1
    <3>3. s \in InUse /\ s \in InUse' /\ pageSocket'[s] \in {"aborted", "closing"}
      BY <3>1, <3>2 DEF InUse
    <3>4. Phase \in {"connecting", "open"} /\ Phase' = "closing"
      BY <3>1, <3>2, <3>3, PhaseOfSocket, NextPhaseOfSocket
    <3> QED
      BY <1>6, <3>4 DEF ForceReconnect, R!HangUp
  <2> QED
    BY <2>1, <2>2
<1>7. CASE UNCHANGED serviceVars
  BY <1>7 DEF serviceVars, Phase, InUse
<1> QED
  BY <1>1, <1>2, <1>3, <1>4, <1>5, <1>6, <1>7 DEF ServiceNext, R!Next

(* For any number of sockets and attempts, every behaviour of the service is *)
(* one of the abstract service's: one connection or one attempt at a time,   *)
(* however often the button is pressed.                                      *)
THEOREM ServiceRefinesReconnector == ServiceSpec => ImplementsReconnector
<1>1. ServiceInit => ServiceInv
  BY MaxAttemptsNat DEF ServiceInit, Page!NoneDialled, Page!SocketStates, ServiceInv, InUse
<1> QED
  BY <1>1, StepService, ServiceInitMaps, ServiceStepMaps, PTL
  DEF ServiceSpec, ImplementsReconnector, R!Spec
=============================================================================
