------------------------------ MODULE Streaming ------------------------------
(***************************************************************************)
(* Broadcaster and web client joined by connections: the endpoint /ws of   *)
(* api/server.py (one coroutine that reads, one send_worker that writes,   *)
(* per connection), the network, and the application that uses the client  *)
(* (frontend/src/App.tsx).                                                 *)
(***************************************************************************)
EXTENDS Broadcaster, WebClient

CONSTANTS
  Selectable,   \* channels that follow the selected symbol or interval
  MaxFailures,  \* connections the network or the server breaks (bound)
  MaxChanges    \* calls of subscribe and unsubscribe (bound)

ASSUME StreamingAssumption ==
  Selectable \subseteq Channel /\ {MaxFailures, MaxChanges} \subseteq Nat

VARIABLES
  serving,   \* connections whose endpoint runs
  seen,      \* channel -> the frame last handed to the application
  phase,     \* of the application: "new", "mounted", "left"
  failures, changes

netvars == <<serving, seen, failures>>
appvars == <<phase, changes>>
vars == <<bvars, cvars, netvars, appvars>>

NoFrame == [seq |-> 0, first |-> 0, last |-> 0]
Frame == [seq : Nat, first : Nat, last : Nat]

Init ==
  /\ BInit /\ CInit
  /\ serving = {}
  /\ seen = [ch \in Channel |-> NoFrame]
  /\ phase = "new"
  /\ failures = 0
  /\ changes = 0

-----------------------------------------------------------------------------
(* The application. *)

Mount ==
  /\ phase = "new"
  /\ AppConnects
  /\ phase' = "mounted"
  /\ UNCHANGED <<bvars, netvars, changes>>

\* Another symbol or interval is chosen, whether or not the client is connected.
Choose(ch) ==
  /\ phase = "mounted" /\ changes < MaxChanges
  /\ changes' = changes + 1
  /\ IF ch \in subscriptions THEN AppUnsubscribes(ch) ELSE AppSubscribes(ch)
  /\ UNCHANGED <<bvars, netvars, phase>>

Unmount ==
  /\ phase = "mounted"
  /\ AppDisconnects
  /\ phase' = "left"
  /\ UNCHANGED <<bvars, netvars, changes>>

-----------------------------------------------------------------------------
(* The endpoint of a connection. *)

\* accept, then register_client.
Accept(s) ==
  /\ ready[s] = "CONNECTING" /\ s \notin serving
  /\ serving' = serving \cup {s}
  /\ RegisterClient(s)
  /\ UNCHANGED <<cvars, appvars, seen, failures>>

\* The server reads one message; the acknowledgement is ignored by the client.
Receive(s) ==
  /\ s \in serving /\ up[s] # <<>>
  /\ IF Head(up[s]).type = "SUBSCRIBE" THEN SubscribeChannel(s, Head(up[s]).ch)
     ELSE UnsubscribeChannel(s, Head(up[s]).ch)
  /\ up' = [up EXCEPT ![s] = Tail(@)]
  /\ UNCHANGED <<ws, ready, status, subscriptions, timer, ping, opened>>
  /\ UNCHANGED <<netvars, appvars>>

\* WebSocketDisconnect: the worker is cancelled, the client unregistered.
EndpointEnds(s) ==
  /\ s \in serving /\ ready[s] \in {"CLOSING", "CLOSED"}
  /\ serving' = serving \ {s}
  /\ UnregisterClient(s)
  /\ up' = [up EXCEPT ![s] = <<>>]
  /\ UNCHANGED <<ws, ready, status, subscriptions, timer, ping, opened>>
  /\ UNCHANGED <<appvars, seen, failures>>

-----------------------------------------------------------------------------
(* The network and the browser. *)

Open(s) ==
  /\ s \in serving
  /\ OnOpen(s)
  /\ UNCHANGED <<bvars, netvars, appvars>>

\* send_worker takes a frame, the network carries it, onmessage hands it on, when the
\* reader is ready for it.  A frame that is sent but has not arrived is still in the
\* queue here: what can be seen of it is the same, except that a queue of n frames
\* stands for n frames with the worker or behind it.
Deliver(s) ==
  /\ ready[s] = "OPEN"
  /\ TakeFrame(s)
  /\ LET f == Head(outbox[s])
     IN  seen' = [seen EXCEPT ![f.ch] = [seq |-> f.seq, first |-> f.first, last |-> f.last]]
  /\ UNCHANGED <<cvars, appvars, serving, failures>>

\* A socket that was closed by the client, or one that broke.
Closed(s, error) ==
  /\ OnClose(s, error)
  /\ IF ready[s] = "CLOSING" THEN UNCHANGED failures
     ELSE failures < MaxFailures /\ failures' = failures + 1
  /\ UNCHANGED <<bvars, appvars, serving, seen>>

Reconnect ==
  /\ TimerFires
  /\ UNCHANGED <<bvars, netvars, appvars>>

Produce(S) ==
  /\ Push(S)
  /\ UNCHANGED <<cvars, netvars, appvars>>

Flush ==
  /\ FlushPending
  /\ UNCHANGED <<cvars, netvars, appvars>>

Next ==
  \/ Mount \/ Unmount \/ Reconnect \/ Flush
  \/ \E ch \in Selectable : Choose(ch)
  \/ \E S \in Producers : Produce(S)
  \/ \E s \in Socket :
       \/ Accept(s) \/ Receive(s) \/ EndpointEnds(s) \/ Open(s) \/ Deliver(s)
       \/ \E error \in BOOLEAN : Closed(s, error)

\* The server's coroutines accept and read, the browser's tasks and timers run, and a
\* closing handshake ends.  Nobody has to push, choose or leave, nothing has to break,
\* and the client comes back even if nothing is ever flushed or delivered.
Fairness ==
  /\ WF_vars(Reconnect)
  /\ \A s \in Socket :
       /\ WF_vars(Accept(s)) /\ WF_vars(Receive(s)) /\ WF_vars(Open(s))
       /\ WF_vars(ready[s] = "CLOSING" /\ \E error \in BOOLEAN : Closed(s, error))

Spec == Init /\ [][Next]_vars /\ Fairness

-----------------------------------------------------------------------------
(* Properties. *)

TypeOK ==
  /\ registered \subseteq Socket /\ serving \subseteq Socket /\ overrun \subseteq Socket
  /\ \A s \in Socket : Len(outbox[s]) <= QueueSize
  /\ subs \in [Channel -> SUBSET Socket] /\ channelsOf \in [Socket -> SUBSET Channel]
  /\ pushed \in [Channel -> 0..MaxItems] /\ flushed \in [Channel -> 0..MaxItems]
  /\ chSeq \in [Channel -> Nat]
  /\ since \in [Socket -> [Channel -> 0..MaxItems]]
  /\ ws \in Socket \cup {NoSocket} /\ opened \in 0..MaxSockets
  /\ ready \in [Socket -> {"NEW", "CONNECTING", "OPEN", "CLOSING", "CLOSED"}]
  /\ status \in {"CONNECTED", "CONNECTING", "DISCONNECTED"}
  /\ subscriptions \subseteq Channel
  /\ timer \in BOOLEAN /\ ping \in BOOLEAN
  /\ seen \in [Channel -> Frame]
  /\ phase \in {"new", "mounted", "left"}

\* The two maps of subscriptions are inverse to each other and name only clients with
\* a queue, which are those whose endpoint runs: a connection that has ended in
\* whatever way leaves nothing behind that flush would still count as a subscriber.
NoGhostSubscribers ==
  /\ registered = serving
  /\ \A s \in Socket, ch \in Channel :
       /\ s \in subs[ch] <=> ch \in channelsOf[s]
       /\ s \in subs[ch] => s \in registered

\* The user is shown the state of the connection there is; the heartbeat runs exactly
\* then; and at most one socket is alive, although callbacks of sockets that are
\* already closed act on the client.
StatusTrue ==
  /\ (status = "CONNECTED") = IsOpen(ws) /\ ping = IsOpen(ws)
  /\ \A s \in Socket : Live(s) => s = ws

\* An application that wants to be connected is never left without a live socket, a
\* reconnect timer, or a close callback to come.
NeverStranded ==
  phase = "mounted" => Live(ws) \/ timer \/ ready[ws] = "CLOSING"

\* The frames of the present subscription that a connection has yet to deliver, by
\* their places in its queue.
Coming(s, ch) ==
  {n \in DOMAIN outbox[s] : outbox[s][n].ch = ch /\ outbox[s][n].first > since[s][ch]}

\* Up to where the application has followed the channel on this connection.
Followed(s, ch) == IF seen[ch].last > since[s][ch] THEN seen[ch].last ELSE since[s][ch]

\* A subscriber whose queue was never full gets every item flushed since it subscribed,
\* once and in order: what it has not seen yet is coming, in frames that follow each
\* other and what it has seen.
NothingLostWithoutOverrun ==
  \A s \in Socket, ch \in Channel :
    s \in subs[ch] \ overrun /\ ready[s] = "OPEN" =>
      LET q == outbox[s] IN
      /\ \A item \in (Followed(s, ch) + 1)..flushed[ch] :
           \E n \in Coming(s, ch) : item \in q[n].first..q[n].last
      /\ \A n \in Coming(s, ch) : q[n].first > Followed(s, ch)
      /\ \A m, n \in Coming(s, ch) : m < n => q[m].last < q[n].first

\* Frame g comes later than f; if no number is missing between them, no item is.
Follows(g, f) == g.seq > f.seq /\ (g.seq = f.seq + 1 => g.first = f.last + 1)

\* The frames of one subscription, the one last seen and those still coming, are
\* numbered upwards, and where the numbers follow each other the items do too: what a
\* full queue lost shows in the numbers.
OverrunShowsInSeq ==
  \A s \in Socket, ch \in Channel :
    s \in subs[ch] /\ ready[s] = "OPEN" =>
      \A n \in Coming(s, ch) :
        /\ seen[ch].first > since[s][ch] => Follows(outbox[s][n], seen[ch])
        /\ \A m \in Coming(s, ch) : m < n => Follows(outbox[s][n], outbox[s][m])

\* The application never gets an item of a channel twice or after a later one, across
\* reconnects and changes of subscription.
ItemsInOrder ==
  [][\A ch \in Channel :
       seen'[ch] # seen[ch] => /\ seen'[ch].first > seen[ch].last
                               /\ seen'[ch].seq > seen[ch].seq]_vars

\* docs/PROTOCOL.md, 1.3: the client detects a dropped frame by seq > last_seq + 1, so
\* with seq = last_seq + 1 nothing was dropped in between.
SeqTellsEveryLoss ==
  [][\A ch \in Channel :
       seen[ch].seq # 0 /\ seen'[ch].seq = seen[ch].seq + 1
         => seen'[ch].first = seen[ch].last + 1]_vars

\* The server has for the client's socket the subscriptions the client has.
Synced ==
  /\ IsOpen(ws) /\ status = "CONNECTED"
  /\ channelsOf[ws] = subscriptions

\* Whatever broke before, an application that stays is connected at last with all its
\* channels, and with no other.
Resubscribed == <>[](phase = "mounted" => Synced)
=============================================================================
