------------------------------ MODULE WebClient ------------------------------
(***************************************************************************)
(* The browser's web-socket client, frontend/src/services/wsClient.ts: one *)
(* client object, the sockets it has opened over time, and the callbacks   *)
(* of each, which act on the client whichever socket they belong to.       *)
(*                                                                         *)
(* A browser changes a socket's readyState and runs its callback in one    *)
(* task.  Callbacks of a socket that disconnect() has closed come later.   *)
(* The back-off delays and the heartbeat's pings and pongs are left out:   *)
(* nothing depends on their values.                                        *)
(***************************************************************************)
EXTENDS Wire

NoSocket == 0

VARIABLES
  ws,             \* this.ws
  ready,          \* readyState of each socket; "NEW" before it exists
  status,         \* this.status
  subscriptions,  \* this.subscriptions
  timer,          \* this.reconnectTimeout is set
  ping,           \* this.pingInterval is set
  opened,         \* sockets created so far
  up              \* what each socket has sent and the server has not read

cvars == <<ws, ready, status, subscriptions, timer, ping, opened, up>>

CInit ==
  /\ ws = NoSocket
  /\ ready = [s \in Socket |-> "NEW"]
  /\ status = "DISCONNECTED"
  /\ subscriptions = {}
  /\ timer = FALSE
  /\ ping = FALSE
  /\ opened = 0
  /\ up = [s \in Socket |-> <<>>]

Live(s) == s # NoSocket /\ ready[s] \in {"CONNECTING", "OPEN"}
IsOpen(s) == s # NoSocket /\ ready[s] = "OPEN"

Message(type, ch) == [type |-> type, ch |-> ch]

\* connect(), called by the application or by the timer.
Connect ==
  IF Live(ws) THEN UNCHANGED <<ws, ready, status, opened>>
  ELSE /\ opened < MaxSockets
       /\ opened' = opened + 1
       /\ ws' = opened + 1
       /\ ready' = [ready EXCEPT ![opened + 1] = "CONNECTING"]
       /\ status' = "CONNECTING"

\* The application subscribes to its channels and connects, in one task.
AppConnects ==
  /\ subscriptions' = Channel
  /\ Connect
  /\ UNCHANGED <<timer, ping, up>>

TimerFires ==
  /\ timer
  /\ timer' = FALSE
  /\ Connect
  /\ UNCHANGED <<subscriptions, ping, up>>

\* Mutant of OnOpen: the channels are not subscribed again.
OnOpenForgets(s) ==
  /\ ready[s] = "CONNECTING"
  /\ ready' = [ready EXCEPT ![s] = "OPEN"]
  /\ status' = "CONNECTED"
  /\ ping' = TRUE
  /\ UNCHANGED <<ws, subscriptions, timer, opened, up>>

\* onopen: every tracked channel is subscribed again, in some order, through this.ws.
OnOpen(s) ==
  /\ ready[s] = "CONNECTING"
  /\ ready' = [ready EXCEPT ![s] = "OPEN"]
  /\ status' = "CONNECTED"
  /\ ping' = TRUE
  /\ \E order \in SetToSeqs(subscriptions) :
       up' = IF ws = s
             THEN [up EXCEPT ![s] = [n \in DOMAIN order |-> Message("SUBSCRIBE", order[n])]]
             ELSE up
  /\ UNCHANGED <<ws, subscriptions, timer, opened>>

\* Mutant of OnClose: no new attempt.
OnCloseGivesUp(s, error) ==
  /\ ready[s] \in {"CONNECTING", "OPEN", "CLOSING"}
  /\ ready' = [t \in Socket |-> IF t = s THEN "CLOSED"
                                ELSE IF error /\ t = ws /\ Live(t) THEN "CLOSING" ELSE ready[t]]
  /\ ping' = FALSE
  /\ status' = "DISCONNECTED"
  /\ UNCHANGED <<ws, subscriptions, timer, opened, up>>

\* Mutant of OnClose: no cleanup().
OnCloseKeepsPing(s, error) ==
  /\ ready[s] \in {"CONNECTING", "OPEN", "CLOSING"}
  /\ ready' = [t \in Socket |-> IF t = s THEN "CLOSED"
                                ELSE IF error /\ t = ws /\ Live(t) THEN "CLOSING" ELSE ready[t]]
  /\ status' = "DISCONNECTED"
  /\ timer' = TRUE
  /\ UNCHANGED <<ws, ping, subscriptions, opened, up>>

\* The connection of socket s is gone: onerror, if the browser reports one, closes
\* this.ws whichever it is; onclose schedules a reconnect.
OnClose(s, error) ==
  /\ ready[s] \in {"CONNECTING", "OPEN", "CLOSING"}
  /\ ready' = [t \in Socket |-> IF t = s THEN "CLOSED"
                                ELSE IF error /\ t = ws /\ Live(t) THEN "CLOSING" ELSE ready[t]]
  /\ ping' = FALSE
  /\ status' = "DISCONNECTED"
  /\ timer' = TRUE
  /\ UNCHANGED <<ws, subscriptions, opened, up>>

\* disconnect()
AppDisconnects ==
  /\ ping' = FALSE
  /\ timer' = FALSE
  /\ ready' = [t \in Socket |-> IF t = ws /\ Live(t) THEN "CLOSING" ELSE ready[t]]
  /\ ws' = NoSocket
  /\ status' = "DISCONNECTED"
  /\ UNCHANGED <<subscriptions, opened, up>>

SendIfOpen(type, ch) ==
  up' = IF IsOpen(ws) THEN [up EXCEPT ![ws] = Append(@, Message(type, ch))] ELSE up

AppSubscribes(ch) ==
  /\ subscriptions' = subscriptions \cup {ch}
  /\ SendIfOpen("SUBSCRIBE", ch)
  /\ UNCHANGED <<ws, ready, status, timer, ping, opened>>

AppUnsubscribes(ch) ==
  /\ subscriptions' = subscriptions \ {ch}
  /\ SendIfOpen("UNSUBSCRIBE", ch)
  /\ UNCHANGED <<ws, ready, status, timer, ping, opened>>
=============================================================================
