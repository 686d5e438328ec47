------------------------------- MODULE WebSockets -------------------------------
(* What a browser does with the WebSockets its page creates: its tasks run    *)
(* the page's handlers one at a time, and each of them is one step of the     *)
(* modules that use this one.                                                 *)
EXTENDS Naturals, FiniteSets

CONSTANTS Sockets, NoSocket

ASSUME SocketsFinite == IsFiniteSet(Sockets)
ASSUME NoSocketIsNone == NoSocket \notin Sockets

VARIABLE socket

(* closed: no event will come of it, and it may be taken for a new one        *)
(* aborted: closed by the page before it was open                             *)
(* failed: its error has been handled, and its close event is next            *)
SocketStates == {"closed", "connecting", "open", "closing", "aborted", "failed"}

NoneDialled == socket = [s \in Sockets |-> "closed"]

Free == {s \in Sockets : socket[s] = "closed"}

Move(s, from, to) ==
  /\ socket[s] \in from
  /\ socket' = [socket EXCEPT ![s] = to]

(* new WebSocket *)
Dial(s) == Move(s, {"closed"}, "connecting")

(* close(), which does nothing to a socket that is closing or closed          *)
Hangup(s) ==
  socket' = IF s = NoSocket THEN socket
            ELSE [socket EXCEPT ![s] = CASE @ = "connecting" -> "aborted"
                                         [] @ = "open"       -> "closing"
                                         [] OTHER            -> @]

IsOpen(s) == s # NoSocket /\ socket[s] = "open"

(* The server begins to close a connection. *)
ServerCloses(s) == Move(s, {"open"}, "closing")
=============================================================================
