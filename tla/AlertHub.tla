------------------------------- MODULE AlertHub --------------------------------
(***************************************************************************)
(* The alerts of the api-server and the WebSocket hub that tells them: the *)
(* loop of the alert manager evaluates the rules that InitializeAlertManager *)
(* adds, and what changes is broadcast by the hub's goroutine to clients,  *)
(* each with a buffered channel, a goroutine that reads its connection and *)
(* one that writes it.                                                     *)
(*                                                                         *)
(* cmd/server.go hands HandleWebSocket the hub before it creates it, so    *)
(* that as mounted no connection gets past the registration; the clients   *)
(* here are those of a hub that is there.                                  *)
(***************************************************************************)
EXTENDS Naturals, Sequences

CONSTANTS Sockets,     \* bound: the connections that come to be made
          Capacity,    \* messages the channel of a client holds
          Checks       \* registered health checks

ASSUME CapacityPositive == Capacity \in Nat \ {0}

VARIABLES health,              \* what each check finds
          alert,               \* status of the alert of each rule
          known,               \* the clients the hub has in its map
          send, closed,        \* the channel of each client
          line,                \* its connection
          reader, writer,      \* its two goroutines
          shown,               \* the last the client was sent, of each rule
          missed               \* history: what changed while a client was not known,
                               \* or the hub was busy, and no later message made good

sockets == <<known, send, closed, line, reader, writer, shown>>
hubVars == <<health, alert, sockets, missed>>

(* The rule on the health of the system.  Those on memory and on goroutines   *)
(* differ in what is compared.                                               *)
Rules       == {"system_health"}
AlertStates == {"none", "firing", "resolved"}
Messages == [rule : Rules, status : {"firing", "resolved"}]

HubTypeOK ==
  /\ health \in [Checks -> {"healthy", "degraded", "unhealthy"}]
  /\ alert \in [Rules -> AlertStates]
  /\ known \in SUBSET Sockets
  /\ \A c \in Sockets : send[c] \in Seq(Messages) /\ Len(send[c]) <= Capacity
  /\ closed \in [Sockets -> BOOLEAN]
  /\ line \in [Sockets -> {"none", "open", "broken"}]
  /\ reader \in [Sockets -> {"none", "register", "read", "unregister", "done"}]
  /\ writer \in [Sockets -> {"none", "write", "done"}]
  /\ shown \in [Sockets -> [Rules -> AlertStates]]
  /\ missed \in SUBSET (Sockets \X Rules)

HubInit ==
  /\ health = [k \in Checks |-> "healthy"]
  /\ alert = [r \in Rules |-> "none"]
  /\ known = {}
  /\ send = [c \in Sockets |-> <<>>]
  /\ closed = [c \in Sockets |-> FALSE]
  /\ line = [c \in Sockets |-> "none"]
  /\ reader = [c \in Sockets |-> "none"]
  /\ writer = [c \in Sockets |-> "none"]
  /\ shown = [c \in Sockets |-> [r \in Rules |-> "none"]]
  /\ missed = {}

-----------------------------------------------------------------------------
(* CheckHealth: the worst of the checks.  One that has not answered within   *)
(* its ten seconds is unhealthy, and its answer is dropped.                  *)
CheckHealth ==
  IF \E k \in Checks : health[k] = "unhealthy" THEN "unhealthy"
  ELSE IF \E k \in Checks : health[k] = "degraded" THEN "degraded" ELSE "healthy"

EvaluateRule(r) == r = "system_health" /\ CheckHealth # "healthy"

(* The hub receives a message and offers it to every client: one whose       *)
(* channel is full is forgotten and its channel closed.                      *)
HubBroadcast(m) ==
  LET slow == {c \in known : Len(send[c]) >= Capacity}
  IN  /\ send' = [c \in Sockets |-> IF c \in known \ slow THEN Append(send[c], m) ELSE send[c]]
      /\ closed' = [c \in Sockets |-> closed[c] \/ c \in slow]
      /\ known' = known \ slow
      /\ missed' = (missed \cup (Sockets \X {m.rule})) \ ((known \ slow) \X {m.rule})

(* Broadcast does not wait: a message the hub is not there to take is lost.  *)
Broadcast(m) ==
  /\ \/ HubBroadcast(m)
     \/ missed' = missed \cup (Sockets \X {m.rule}) /\ UNCHANGED <<known, send, closed>>
  /\ UNCHANGED <<line, reader, writer, shown>>

(* mutant: an alert that was resolved does not fire again *)
HandleRuleEvaluationOnce(r, shouldAlert) ==
  /\ \/ shouldAlert /\ alert[r] = "none" /\ alert' = [alert EXCEPT ![r] = "firing"]
     \/ ~shouldAlert /\ alert[r] = "firing" /\ alert' = [alert EXCEPT ![r] = "resolved"]
  /\ Broadcast([rule |-> r, status |-> alert'[r]])

HandleRuleEvaluation(r, shouldAlert) ==
  /\ \/ shouldAlert /\ alert[r] # "firing" /\ alert' = [alert EXCEPT ![r] = "firing"]
     \/ ~shouldAlert /\ alert[r] = "firing" /\ alert' = [alert EXCEPT ![r] = "resolved"]
  /\ Broadcast([rule |-> r, status |-> alert'[r]])

(* EvaluateRules comes to a rule.  There is one loop, and nothing adds or    *)
(* removes rules while it runs.                                              *)
Evaluate(r) == HandleRuleEvaluation(r, EvaluateRule(r)) /\ UNCHANGED health

HealthChanges ==
  /\ \E k \in Checks, found \in {"healthy", "degraded", "unhealthy"} :
       health' = [health EXCEPT ![k] = found]
  /\ UNCHANGED <<alert, sockets, missed>>

-----------------------------------------------------------------------------
(* HandleWebSocket: the connection is made, then the handler waits for the   *)
(* hub, which has the client in its map before its goroutines start.         *)
Connect(c) ==
  /\ line[c] = "none"
  /\ line' = [line EXCEPT ![c] = "open"]
  /\ reader' = [reader EXCEPT ![c] = "register"]
  /\ UNCHANGED <<health, alert, known, send, closed, writer, shown, missed>>

HubRegister(c) ==
  /\ reader[c] = "register"
  /\ known' = known \cup {c}
  /\ reader' = [reader EXCEPT ![c] = "read"]
  /\ writer' = [writer EXCEPT ![c] = "write"]
  /\ UNCHANGED <<health, alert, send, closed, line, shown, missed>>

(* The peer leaves, or a minute passes without its pong. *)
LineBreaks(c) ==
  /\ line[c] = "open"
  /\ line' = [line EXCEPT ![c] = "broken"]
  /\ UNCHANGED <<health, alert, known, send, closed, reader, writer, shown, missed>>

ReadPumpEnds(c) ==
  /\ reader[c] = "read"
  /\ line[c] = "broken"
  /\ reader' = [reader EXCEPT ![c] = "unregister"]
  /\ UNCHANGED <<health, alert, known, send, closed, line, writer, shown, missed>>

(* A client the hub has forgotten before has its channel closed already. *)
HubUnregister(c) ==
  /\ reader[c] = "unregister"
  /\ reader' = [reader EXCEPT ![c] = "done"]
  /\ known' = known \ {c}
  /\ closed' = [closed EXCEPT ![c] = @ \/ c \in known]
  /\ UNCHANGED <<health, alert, send, line, writer, shown, missed>>

(* mutant: the newest message is written first *)
WriteNewest(c) ==
  LET m == send[c][Len(send[c])] IN
  /\ writer[c] = "write" /\ send[c] # <<>> /\ line[c] = "open"
  /\ shown' = [shown EXCEPT ![c][m.rule] = m.status]
  /\ send' = [send EXCEPT ![c] = SubSeq(@, 1, Len(@) - 1)]
  /\ UNCHANGED <<health, alert, known, closed, line, reader, writer, missed>>

WriteMessage(c) ==
  LET m == Head(send[c]) IN
  /\ writer[c] = "write" /\ send[c] # <<>> /\ line[c] = "open"
  /\ shown' = [shown EXCEPT ![c][m.rule] = m.status]
  /\ send' = [send EXCEPT ![c] = Tail(@)]
  /\ UNCHANGED <<health, alert, known, closed, line, reader, writer, missed>>

(* mutant: the connection is left open *)
WritePumpLeavesLine(c) ==
  /\ writer[c] = "write"
  /\ (closed[c] /\ send[c] = <<>>) \/ line[c] = "broken"
  /\ writer' = [writer EXCEPT ![c] = "done"]
  /\ UNCHANGED <<health, alert, known, send, closed, line, reader, shown, missed>>

(* The channel is closed and empty, or a message or a ping cannot be written. *)
WritePumpEnds(c) ==
  /\ writer[c] = "write"
  /\ (closed[c] /\ send[c] = <<>>) \/ line[c] = "broken"
  /\ writer' = [writer EXCEPT ![c] = "done"]
  /\ line' = [line EXCEPT ![c] = "broken"]
  /\ UNCHANGED <<health, alert, known, send, closed, reader, shown, missed>>

-----------------------------------------------------------------------------
Hub(c)  == HubRegister(c) \/ HubUnregister(c)
Pump(c) == ReadPumpEnds(c) \/ WriteMessage(c) \/ WritePumpEnds(c)

HubNext ==
  \/ \E r \in Rules : Evaluate(r)
  \/ HealthChanges
  \/ \E c \in Sockets : Connect(c) \/ Hub(c) \/ LineBreaks(c) \/ Pump(c)

HubSpec == HubInit /\ [][HubNext]_hubVars

(* The manager evaluates every rule each minute, the hub serves whoever      *)
(* waits for it (its select takes any that is ready), goroutines run.        *)
HubFairness ==
  /\ \A r \in Rules : WF_hubVars(Evaluate(r))
  /\ \A c \in Sockets :
       /\ WF_hubVars(Hub(c))
       /\ WF_hubVars(ReadPumpEnds(c))
       /\ WF_hubVars(WriteMessage(c) \/ WritePumpEnds(c))

-----------------------------------------------------------------------------
(* What a client is shown once its channel is written *)
Told(c, r) ==
  LET of == {i \in 1..Len(send[c]) : send[c][i].rule = r}
  IN  IF of = {} THEN shown[c][r]
      ELSE send[c][CHOOSE i \in of : \A j \in of : j <= i].status

(* A client the hub knows has an open channel, and is or will be shown the   *)
(* status every alert has now, unless it missed the change: messages are     *)
(* neither lost in its channel nor written in another order.                 *)
ViewAgrees ==
  \A c \in known :
    /\ ~closed[c]
    /\ \A r \in Rules : <<c, r>> \notin missed => Told(c, r) = alert[r]

(* A client whose connection is lost, or that is too slow, is forgotten and  *)
(* both its goroutines end: none waits for ever for the other or the hub.    *)
LeftIsForgotten ==
  \A c \in Sockets :
    line[c] = "broken" \/ closed[c] ~> c \notin known /\ reader[c] = "done" /\ writer[c] = "done"

(* The alert on a condition that stays comes to say so, whatever it was      *)
(* before: it fires again after it was resolved, and is resolved again.      *)
AlertFollows ==
  \A r \in Rules :
    /\ <>[]EvaluateRule(r) => <>[](alert[r] = "firing")
    /\ <>[]~EvaluateRule(r) => <>[](alert[r] # "firing")
=============================================================================
