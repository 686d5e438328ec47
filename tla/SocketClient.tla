------------------------------ MODULE SocketClient ------------------------------
(***************************************************************************)
(* The WebSocket client of the TypeScript SDK, between the application that *)
(* connects and disconnects, the timers of its reconnections, and the       *)
(* events of its sockets.  The handlers it gives a socket act on the client *)
(* as it is when they run, whichever socket it has by then.                 *)
(*                                                                          *)
(* After an error the application learns of it before the socket's close    *)
(* event: it may connect or disconnect in between, and nothing else runs.   *)
(***************************************************************************)
EXTENDS WebSockets

CONSTANT MaxReconnectAttempts

ASSUME AttemptsNat == MaxReconnectAttempts \in Nat

VARIABLES ws, isConnecting, reconnectAttempts,
          timers,                \* reconnections that are scheduled
          pingInterval,          \* is there one the client knows of?
          leaked,                \* ... and one nobody knows of any more?
          (* history *)
          wanted,                \* connect was called since the last disconnect
          crossed                \* an event of a socket was handled when another
                                 \* had events to come

clientVars == <<socket, ws, isConnecting, reconnectAttempts, timers, pingInterval,
                leaked, wanted, crossed>>

ClientTypeOK ==
  /\ socket \in [Sockets -> SocketStates]
  /\ ws \in Sockets \cup {NoSocket}
  /\ isConnecting \in BOOLEAN /\ pingInterval \in BOOLEAN
  /\ leaked \in BOOLEAN /\ wanted \in BOOLEAN /\ crossed \in BOOLEAN
  /\ reconnectAttempts \in Nat
  /\ timers \in 0..Cardinality(Sockets)

ClientInit ==
  /\ NoneDialled
  /\ ws = NoSocket
  /\ isConnecting = FALSE
  /\ reconnectAttempts = 0
  /\ timers = 0
  /\ pingInterval = FALSE /\ leaked = FALSE
  /\ wanted = FALSE /\ crossed = FALSE

Settled == \A s \in Sockets : socket[s] # "failed"

(* An interval that is set while there is one leaves that one to itself.     *)
StartPing == pingInterval' = TRUE  /\ leaked' = (leaked \/ pingInterval)
StopPing  == pingInterval' = FALSE /\ UNCHANGED leaked

Crosses(s) == crossed' = (crossed \/ \E t \in Sockets \ {s} : socket[t] # "closed")

-----------------------------------------------------------------------------
(* mutant: a connection under way does not count *)
Connected == IsOpen(ws)

Busy == isConnecting \/ IsOpen(ws)

DialUnlessBusy ==
  IF Busy THEN UNCHANGED <<socket, ws, isConnecting>>
  ELSE \E s \in Sockets : Dial(s) /\ ws' = s /\ isConnecting' = TRUE

(* connect, by the application.  The sockets are enough for it and the       *)
(* reconnections: the bound of the model.                                    *)
Connect ==
  /\ timers < Cardinality(Free)
  /\ DialUnlessBusy
  /\ wanted' = TRUE
  /\ UNCHANGED <<reconnectAttempts, timers, pingInterval, leaked, crossed>>

Disconnect ==
  /\ StopPing
  /\ Hangup(ws)
  /\ ws' = NoSocket
  /\ reconnectAttempts' = MaxReconnectAttempts
  /\ wanted' = FALSE
  /\ UNCHANGED <<isConnecting, timers, crossed>>

(* scheduleReconnect: its timer is due *)
Reconnect ==
  /\ Settled /\ timers > 0
  /\ timers' = timers - 1
  /\ reconnectAttempts' = reconnectAttempts + 1
  /\ DialUnlessBusy
  /\ UNCHANGED <<pingInterval, leaked, wanted, crossed>>

OnOpen(s) ==
  /\ Settled
  /\ Move(s, {"connecting"}, "open")
  /\ isConnecting' = FALSE
  /\ reconnectAttempts' = 0
  /\ StartPing
  /\ Crosses(s)
  /\ UNCHANGED <<ws, timers, wanted>>

OnError(s) ==
  /\ Settled
  /\ Move(s, {"connecting", "aborted"}, "failed")
  /\ isConnecting' = FALSE
  /\ Crosses(s)
  /\ UNCHANGED <<ws, reconnectAttempts, timers, pingInterval, leaked, wanted>>

(* Only code 1000 is normal. *)
OnClose(s, normal) ==
  /\ Settled \/ socket[s] = "failed"
  /\ Move(s, {"open", "closing", "failed"}, "closed")
  /\ socket[s] = "failed" => ~normal
  /\ isConnecting' = FALSE
  /\ StopPing
  /\ timers' = IF ~normal /\ reconnectAttempts < MaxReconnectAttempts
                 THEN timers + 1 ELSE timers
  /\ Crosses(s)
  /\ UNCHANGED <<ws, reconnectAttempts, wanted>>

Closing(s) ==
  /\ Settled
  /\ ServerCloses(s)
  /\ UNCHANGED <<ws, isConnecting, reconnectAttempts, timers, pingInterval, leaked,
                 wanted, crossed>>

ClientNext ==
  \/ Connect \/ Disconnect \/ Reconnect
  \/ \E s \in Sockets :
       \/ OnOpen(s) \/ OnError(s) \/ Closing(s)
       \/ \E normal \in BOOLEAN : OnClose(s, normal)

(* Timers are due, a socket that is not yet open opens or fails, and one that *)
(* is being closed is closed.                                                 *)
ClientFairness ==
  /\ WF_clientVars(Reconnect)
  /\ \A s \in Sockets :
       /\ WF_clientVars(OnOpen(s) \/ OnError(s))
       /\ WF_clientVars(socket[s] # "open" /\ \E normal \in BOOLEAN : OnClose(s, normal))

ClientSpec == ClientInit /\ [][ClientNext]_clientVars /\ ClientFairness

-----------------------------------------------------------------------------
(* There is no connection, or attempt at one, beside the client's own, unless *)
(* some event was handled while another socket had events to come, whether or *)
(* not it was taken for one of that other.                                    *)
OneConnection ==
  crossed \/ \A s \in Sockets : socket[s] \in {"connecting", "open"} => s = ws

(* A connection is kept alive from when it opens until the client knows of   *)
(* its end, and no longer, with the same exception.                          *)
PingsWhileOpen ==
  \/ crossed
  \/ /\ ~leaked
     /\ IsOpen(ws) => pingInterval
     /\ pingInterval => \E s \in Sockets : socket[s] \in {"open", "closing"}

(* "Disconnect from WebSocket server" (websocket.ts:86): having disconnected, *)
(* the client does not connect until it is asked to.                         *)
StaysDisconnected ==
  [][~wanted' => \A s \in Sockets : socket'[s] = "connecting" => socket[s] = "connecting"]_clientVars
=============================================================================
