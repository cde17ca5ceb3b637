--------------------------- MODULE StreamingProofs ---------------------------
(***************************************************************************)
(* Proofs about Streaming, for any channels, number of sockets, breaks and *)
(* queue size: the server keeps no subscriber without a connection, the    *)
(* client is never wrong about its connection nor left without one, and    *)
(* frames lose, repeat and reorder nothing except as their numbers tell.   *)
(***************************************************************************)
EXTENDS Streaming, Sums, SequenceTheorems

NetMessage == [type : {"SUBSCRIBE", "UNSUBSCRIBE"}, ch : Channel]

\* What the server and the messages to it are made of, with the property.
ServerInv ==
  /\ registered \in SUBSET Socket /\ serving \in SUBSET Socket
  /\ subs \in [Channel -> SUBSET Socket]
  /\ channelsOf \in [Socket -> SUBSET Channel]
  /\ subscriptions \in SUBSET Channel
  /\ up \in [Socket -> Seq(NetMessage)]
  /\ NoGhostSubscribers

\* A socket that has not come to its close callback.
Pendant(s) == ready[s] \in {"CONNECTING", "OPEN", "CLOSING"}

ClientTypes ==
  /\ ws \in Socket \cup {NoSocket}
  /\ ready \in [Socket -> {"NEW", "CONNECTING", "OPEN", "CLOSING", "CLOSED"}]
  /\ opened \in Nat
  /\ timer \in BOOLEAN /\ ping \in BOOLEAN
  /\ status \in {"CONNECTED", "CONNECTING", "DISCONNECTED"}
  /\ phase \in {"new", "mounted", "left"}

\* There is at most one socket whose close callback is still to come, and while there
\* is one no reconnect is scheduled.  So a callback that acts on the client's present
\* socket can only be that socket's own.
OneSocket ==
  \A s \in Socket : Pendant(s) =>
    /\ ~timer
    /\ phase # "new"
    /\ \A t \in Socket : Pendant(t) => t = s
    /\ Live(s) => s = ws

\* A socket that has not been opened is new, and before the application is mounted all
\* of them are; a mounted application has a socket, and what is left of its last one
\* calls back unless a reconnect is scheduled.
Attempts ==
  /\ \A s \in Socket : s > opened => ready[s] = "NEW"
  /\ phase = "new" => ws = NoSocket /\ ~timer
  /\ phase = "mounted" => ws \in Socket
  /\ phase = "mounted" => timer \/ Pendant(ws)

ClientInv == ClientTypes /\ OneSocket /\ Attempts /\ StatusTrue

-----------------------------------------------------------------------------
(* Channels are finitely many, so a client's set of them can be listed. *)

\* Every listing of a set of channels, which is what onopen sends, is a sequence.
LEMMA ListingsAreSequences ==
  ASSUME NEW S \in SUBSET Channel, NEW order \in SetToSeqs(S)
  PROVE  order \in Seq(S)
<1>1. Order \in Seq(STRING)
  BY WireAssumption
<1>2. Len(Order) \in Nat /\ DOMAIN Order = 1..Len(Order)
  BY <1>1
<1>3. IsFiniteSet(1..Len(Order))
  BY <1>2, FS_Interval
<1> DEFINE f == [i \in 1..Len(Order) |-> Order[i]]
<1>4. f \in Surjection(1..Len(Order), Channel)
  BY <1>2 DEF Channel, ToSet, Surjection
<1>5. IsFiniteSet(Channel)
  BY <1>3, <1>4, FS_Surjection
<1>6. IsFiniteSet(S)
  BY <1>5, FS_Subset
<1>7. Cardinality(S) \in Nat
  BY <1>6, FS_CardinalityType
<1>8. order \in [1..Cardinality(S) -> S]
  BY DEF SetToSeqs
<1> QED
  BY <1>7, <1>8

-----------------------------------------------------------------------------
(* The server. *)

LEMMA ServerInit == Init => ServerInv
BY DEF Init, BInit, CInit, ServerInv, NoGhostSubscribers

\* A message of the kinds that the client sends.
LEMMA MessagesTyped ==
  ASSUME NEW ch \in Channel, NEW type \in {"SUBSCRIBE", "UNSUBSCRIBE"}
  PROVE  Message(type, ch) \in NetMessage
BY DEF Message, NetMessage

\* Sending one more message keeps what every socket has sent a sequence of messages.
LEMMA OneMoreMessage ==
  ASSUME up \in [Socket -> Seq(NetMessage)], ws \in Socket \cup {NoSocket},
         NEW ch \in Channel, NEW type \in {"SUBSCRIBE", "UNSUBSCRIBE"},
         SendIfOpen(type, ch)
  PROVE  up' \in [Socket -> Seq(NetMessage)]
<1>1. Message(type, ch) \in NetMessage
  BY MessagesTyped
<1>2. CASE IsOpen(ws)
  <2>1. ws \in Socket /\ up[ws] \in Seq(NetMessage)
    BY <1>2 DEF IsOpen
  <2>2. \A q \in Seq(NetMessage), m \in NetMessage : Append(q, m) \in Seq(NetMessage)
    OBVIOUS
  <2>3. Append(up[ws], Message(type, ch)) \in Seq(NetMessage)
    BY <1>1, <2>1, <2>2, Zenon
  <2>4. up' = [up EXCEPT ![ws] = Append(up[ws], Message(type, ch))]
    BY <1>2 DEF SendIfOpen
  <2> QED
    BY <2>1, <2>3, <2>4
<1>3. CASE ~IsOpen(ws)
  BY <1>3 DEF SendIfOpen
<1> QED
  BY <1>2, <1>3

\* Every step keeps the subscriptions of the server and the connections it serves in
\* agreement.
LEMMA ServerStep ==
  ASSUME ServerInv, ClientTypes, [Next]_vars
  PROVE  ServerInv'
<1> USE DEF ServerInv
<1>1. CASE Mount
  BY <1>1 DEF Mount, AppConnects, bvars, netvars, NoGhostSubscribers
<1>2. CASE Unmount
  BY <1>2 DEF Unmount, AppDisconnects, bvars, netvars, NoGhostSubscribers
<1>3. CASE Reconnect
  BY <1>3 DEF Reconnect, TimerFires, bvars, netvars, NoGhostSubscribers
<1>4. CASE Flush
  BY <1>4 DEF Flush, FlushPending, cvars, netvars, NoGhostSubscribers
<1>5. ASSUME NEW ch \in Selectable, Choose(ch)
      PROVE  ServerInv'
  <2>1. ch \in Channel
    BY StreamingAssumption
  <2>2. UNCHANGED <<registered, serving, subs, channelsOf>>
    BY <1>5 DEF Choose, bvars, netvars
  <2>3. NoGhostSubscribers'
    BY <2>2 DEF NoGhostSubscribers
  <2>4. subscriptions' \in SUBSET Channel
    BY <1>5, <2>1 DEF Choose, AppSubscribes, AppUnsubscribes
  <2>5. SendIfOpen("SUBSCRIBE", ch) \/ SendIfOpen("UNSUBSCRIBE", ch)
    BY <1>5 DEF Choose, AppSubscribes, AppUnsubscribes
  <2>6. up \in [Socket -> Seq(NetMessage)] /\ ws \in Socket \cup {NoSocket}
    BY DEF ClientTypes
  <2>7. up' \in [Socket -> Seq(NetMessage)]
    <3>1. CASE SendIfOpen("SUBSCRIBE", ch)
      BY <2>1, <2>6, <3>1, OneMoreMessage
    <3>2. CASE SendIfOpen("UNSUBSCRIBE", ch)
      BY <2>1, <2>6, <3>2, OneMoreMessage
    <3> QED
      BY <2>5, <3>1, <3>2
  <2> QED
    BY <2>2, <2>3, <2>4, <2>7
<1>6. ASSUME NEW S \in Producers, Produce(S)
      PROVE  ServerInv'
  BY <1>6 DEF Produce, Push, cvars, netvars, NoGhostSubscribers
<1>7. ASSUME NEW s \in Socket, Accept(s)
      PROVE  ServerInv'
  BY <1>7 DEF Accept, RegisterClient, cvars, NoGhostSubscribers
<1>8. ASSUME NEW s \in Socket, Receive(s)
      PROVE  ServerInv'
  <2> DEFINE m == Head(up[s])
  <2>1. m \in NetMessage /\ Tail(up[s]) \in Seq(NetMessage)
    BY <1>8 DEF Receive
  <2>2. m.ch \in Channel
    BY <2>1 DEF NetMessage
  <2>3. up' \in [Socket -> Seq(NetMessage)] /\ subscriptions' = subscriptions
    BY <1>8, <2>1 DEF Receive
  <2>4. s \in serving /\ serving' = serving /\ registered' = registered
    BY <1>8 DEF Receive, netvars, SubscribeChannel, UnsubscribeChannel
  <2>5. CASE m.type = "SUBSCRIBE"
    <3>1. s \in registered
      BY <2>4 DEF NoGhostSubscribers
    <3>2. /\ subs' = [subs EXCEPT ![m.ch] = @ \cup {s}]
          /\ channelsOf' = [channelsOf EXCEPT ![s] = @ \cup {m.ch}]
      BY <1>8, <2>5, <3>1 DEF Receive, SubscribeChannel
    <3> HIDE DEF m
    <3> QED
      BY <2>2, <2>3, <2>4, <3>1, <3>2 DEF NoGhostSubscribers
  <2>6. CASE m.type # "SUBSCRIBE"
    <3>1. /\ subs' = [subs EXCEPT ![m.ch] = @ \ {s}]
          /\ channelsOf' = [channelsOf EXCEPT ![s] = @ \ {m.ch}]
      BY <1>8, <2>6 DEF Receive, UnsubscribeChannel
    <3> HIDE DEF m
    <3> QED
      BY <2>2, <2>3, <2>4, <3>1 DEF NoGhostSubscribers
  <2> QED
    BY <2>5, <2>6
<1>9. ASSUME NEW s \in Socket, EndpointEnds(s)
      PROVE  ServerInv'
  BY <1>9 DEF EndpointEnds, UnregisterClient, NoGhostSubscribers
<1>10. ASSUME NEW s \in Socket, Open(s)
       PROVE  ServerInv'
  <2>1. PICK order \in SetToSeqs(subscriptions) :
          up' = IF ws = s
                THEN [up EXCEPT ![s] = [n \in DOMAIN order |-> Message("SUBSCRIBE", order[n])]]
                ELSE up
    BY <1>10 DEF Open, OnOpen
  <2>2. order \in Seq(Channel)
    BY <2>1, ListingsAreSequences
  <2>3. [n \in DOMAIN order |-> Message("SUBSCRIBE", order[n])] \in Seq(NetMessage)
    <3>1. Len(order) \in Nat /\ DOMAIN order = 1..Len(order)
      BY <2>2
    <3>2. \A n \in 1..Len(order) : Message("SUBSCRIBE", order[n]) \in NetMessage
      BY <2>2, MessagesTyped
    <3> QED
      BY <3>1, <3>2
  <2>4. up' \in [Socket -> Seq(NetMessage)]
    BY <2>1, <2>3
  <2>5. UNCHANGED <<registered, serving, subs, channelsOf, subscriptions>>
    BY <1>10 DEF Open, OnOpen, bvars, netvars
  <2> QED
    BY <2>4, <2>5 DEF NoGhostSubscribers
<1>11. ASSUME NEW s \in Socket, Deliver(s)
       PROVE  ServerInv'
  BY <1>11 DEF Deliver, TakeFrame, cvars, NoGhostSubscribers
<1>12. ASSUME NEW s \in Socket, NEW error \in BOOLEAN, Closed(s, error)
       PROVE  ServerInv'
  BY <1>12 DEF Closed, OnClose, bvars, NoGhostSubscribers
<1>13. CASE UNCHANGED vars
  BY <1>13 DEF vars, bvars, cvars, netvars, NoGhostSubscribers
<1> QED
  BY <1>1, <1>2, <1>3, <1>4, <1>5, <1>6, <1>7, <1>8, <1>9, <1>10, <1>11, <1>12, <1>13 DEF Next

-----------------------------------------------------------------------------
(* The client. *)

clientVars == <<ws, ready, status, timer, ping, opened, phase>>

LEMMA ClientInit ==
  ASSUME Init
  PROVE  ClientInv
<1>1. /\ ws = NoSocket /\ ready = [s \in Socket |-> "NEW"] /\ status = "DISCONNECTED"
      /\ timer = FALSE /\ ping = FALSE /\ opened = 0 /\ phase = "new"
  BY DEF Init, CInit
<1>2. ClientTypes
  BY <1>1 DEF ClientTypes
<1>3. OneSocket
  BY <1>1 DEF OneSocket, Pendant
<1>4. Attempts
  BY <1>1 DEF Attempts
<1>5. StatusTrue
  BY <1>1 DEF StatusTrue, Live, IsOpen
<1> QED
  BY <1>2, <1>3, <1>4, <1>5 DEF ClientInv

\* What the client's invariant says depends on its own variables only.
LEMMA ClientUndisturbed ==
  ASSUME ClientInv, UNCHANGED clientVars
  PROVE  ClientInv'
BY DEF clientVars, ClientInv, ClientTypes, OneSocket, Attempts, StatusTrue, Pendant, Live,
   IsOpen

\* connect() when no earlier socket is left: the new one is the only one.
LEMMA ConnectKeeps ==
  ASSUME ClientInv, Connect, timer' = FALSE, ping' = ping, phase' = "mounted" \/ phase' = "left",
         \A s \in Socket : ~Pendant(s)
  PROVE  ClientInv'
<1> USE DEF NoSocket, Socket
<1>1. ~Live(ws)
  BY DEF ClientInv, ClientTypes, Live, Pendant
<1>2. /\ opened < MaxSockets
      /\ opened' = opened + 1 /\ ws' = opened + 1
      /\ ready' = [ready EXCEPT ![opened + 1] = "CONNECTING"]
      /\ status' = "CONNECTING"
  BY <1>1 DEF Connect
<1>3. opened + 1 \in Socket
  BY <1>2, WireAssumption DEF ClientInv, ClientTypes
<1>4. ClientTypes'
  <2>1. ws' \in Socket \cup {NoSocket} /\ opened' \in Nat
    BY <1>2, <1>3 DEF ClientInv, ClientTypes
  <2>2. ready' \in [Socket -> {"NEW", "CONNECTING", "OPEN", "CLOSING", "CLOSED"}]
    BY <1>2 DEF ClientInv, ClientTypes
  <2>3. timer' \in BOOLEAN /\ ping' \in BOOLEAN
    BY DEF ClientInv, ClientTypes
  <2>4. status' \in {"CONNECTED", "CONNECTING", "DISCONNECTED"}
    BY <1>2
  <2>5. phase' \in {"new", "mounted", "left"}
    OBVIOUS
  <2> QED
    BY <2>1, <2>2, <2>3, <2>4, <2>5 DEF ClientTypes
<1>5. \A s \in Socket : Pendant(s)' <=> s = opened + 1
  BY <1>2, <1>3 DEF ClientInv, ClientTypes, Pendant
<1>6. OneSocket'
  BY <1>2, <1>5 DEF OneSocket
<1>7. Attempts'
  BY <1>2, <1>3, <1>5 DEF ClientInv, ClientTypes, Attempts
<1>8. ~ping
  BY <1>1 DEF ClientInv, ClientTypes, StatusTrue, Live, IsOpen
<1>9. StatusTrue'
  BY <1>2, <1>3, <1>5, <1>8 DEF ClientInv, ClientTypes, StatusTrue, Live, IsOpen, Pendant
<1> QED
  BY <1>4, <1>6, <1>7, <1>9 DEF ClientInv

\* Every step keeps the client right about its connection.
LEMMA ClientStep ==
  ASSUME ClientInv, [Next]_vars
  PROVE  ClientInv'
<1>1. CASE Mount
  <2>1. \A s \in Socket : ~Pendant(s)
    BY <1>1 DEF Mount, ClientInv, OneSocket
  <2>2. timer' = FALSE /\ ping' = ping /\ phase' = "mounted" /\ phase = "new" /\ Connect
    BY <1>1 DEF Mount, AppConnects, ClientInv, Attempts
  <2> QED
    BY <2>1, <2>2, ConnectKeeps
<1>2. CASE Unmount
  <2>1. /\ ping' = FALSE /\ timer' = FALSE /\ ws' = NoSocket /\ status' = "DISCONNECTED"
        /\ ready' = [t \in Socket |-> IF t = ws /\ Live(t) THEN "CLOSING" ELSE ready[t]]
        /\ phase' = "left" /\ opened' = opened
    BY <1>2 DEF Unmount, AppDisconnects
  <2>2. ClientTypes'
    BY <2>1 DEF ClientInv, ClientTypes
  <2>3. \A s \in Socket : ready'[s] \notin {"CONNECTING", "OPEN"}
    BY <2>1 DEF ClientInv, ClientTypes, OneSocket, Pendant, Live, NoSocket, Socket
  <2>4. \A s \in Socket : Pendant(s)' => Pendant(s)
    BY <2>1 DEF ClientInv, ClientTypes, Pendant, Live
  <2>5. OneSocket'
    BY <2>1, <2>3, <2>4 DEF ClientInv, OneSocket, Live
  <2>6. Attempts'
    BY <2>1 DEF ClientInv, ClientTypes, Attempts, Live
  <2>7. StatusTrue'
    BY <2>1, <2>3 DEF StatusTrue, Live, IsOpen
  <2> QED
    BY <2>2, <2>5, <2>6, <2>7 DEF ClientInv
<1>3. CASE Reconnect
  <2>1. timer /\ timer' = FALSE /\ ping' = ping /\ phase' = phase /\ Connect
    BY <1>3 DEF Reconnect, TimerFires, appvars
  <2>2. \A s \in Socket : ~Pendant(s)
    BY <2>1 DEF ClientInv, OneSocket
  <2>3. phase \in {"mounted", "left"}
    BY <2>1 DEF ClientInv, ClientTypes, Attempts
  <2> QED
    BY <2>1, <2>2, <2>3, ConnectKeeps
<1>4. CASE Flush
  BY <1>4, ClientUndisturbed DEF Flush, cvars, appvars, clientVars
<1>5. ASSUME NEW ch \in Selectable, Choose(ch)
      PROVE  ClientInv'
  BY <1>5, ClientUndisturbed DEF Choose, AppSubscribes, AppUnsubscribes, clientVars
<1>6. ASSUME NEW S \in Producers, Produce(S)
      PROVE  ClientInv'
  BY <1>6, ClientUndisturbed DEF Produce, cvars, appvars, clientVars
<1>7. ASSUME NEW s \in Socket, Accept(s)
      PROVE  ClientInv'
  BY <1>7, ClientUndisturbed DEF Accept, cvars, appvars, clientVars
<1>8. ASSUME NEW s \in Socket, Receive(s)
      PROVE  ClientInv'
  BY <1>8, ClientUndisturbed DEF Receive, appvars, clientVars
<1>9. ASSUME NEW s \in Socket, EndpointEnds(s)
      PROVE  ClientInv'
  BY <1>9, ClientUndisturbed DEF EndpointEnds, appvars, clientVars
<1>10. ASSUME NEW s \in Socket, Open(s)
       PROVE  ClientInv'
  <2>1. /\ ready[s] = "CONNECTING" /\ ready' = [ready EXCEPT ![s] = "OPEN"]
        /\ status' = "CONNECTED" /\ ping' = TRUE
        /\ UNCHANGED <<ws, timer, opened, phase>>
    BY <1>10 DEF Open, OnOpen, appvars
  <2>2. Pendant(s) /\ Live(s) /\ ws = s
    BY <2>1 DEF ClientInv, OneSocket, Pendant, Live, NoSocket, Socket
  <2>3. \A t \in Socket : Pendant(t)' <=> Pendant(t)
    BY <2>1 DEF ClientInv, ClientTypes, Pendant
  <2>4. ClientTypes'
    BY <2>1 DEF ClientInv, ClientTypes
  <2>5. OneSocket'
    BY <2>1, <2>2, <2>3 DEF ClientInv, OneSocket
  <2>6. Attempts'
    BY <2>1, <2>2, <2>3 DEF ClientInv, ClientTypes, Attempts
  <2>7. StatusTrue'
    BY <2>1, <2>2, <2>3 DEF ClientInv, ClientTypes, OneSocket, StatusTrue, Live, IsOpen, Pendant,
       NoSocket, Socket
  <2> QED
    BY <2>4, <2>5, <2>6, <2>7 DEF ClientInv
<1>11. ASSUME NEW s \in Socket, Deliver(s)
       PROVE  ClientInv'
  BY <1>11, ClientUndisturbed DEF Deliver, cvars, appvars, clientVars
<1>12. ASSUME NEW s \in Socket, NEW error \in BOOLEAN, Closed(s, error)
       PROVE  ClientInv'
  <2>1. /\ Pendant(s)
        /\ ready' = [t \in Socket |->
             IF t = s THEN "CLOSED"
             ELSE IF error /\ t = ws /\ Live(t) THEN "CLOSING" ELSE ready[t]]
        /\ ping' = FALSE /\ status' = "DISCONNECTED" /\ timer' = TRUE
        /\ UNCHANGED <<ws, opened, phase>>
    BY <1>12 DEF Closed, OnClose, appvars, Pendant
  <2>2. \A t \in Socket : Pendant(t) => t = s
    BY <2>1 DEF ClientInv, OneSocket
  <2>3. \A t \in Socket : ready'[t] = IF t = s THEN "CLOSED" ELSE ready[t]
    BY <2>1, <2>2 DEF Live, Pendant
  <2>4. \A t \in Socket : ~Pendant(t)'
    BY <2>2, <2>3 DEF Pendant
  <2>5. ClientTypes'
    BY <2>1 DEF ClientInv, ClientTypes
  <2>6. OneSocket'
    BY <2>4 DEF OneSocket
  <2>7. Attempts'
    BY <2>1, <2>3 DEF ClientInv, ClientTypes, Attempts, OneSocket, Pendant
  <2>8. StatusTrue'
    BY <2>1, <2>4, <2>5 DEF ClientTypes, StatusTrue, Live, IsOpen, Pendant
  <2> QED
    BY <2>5, <2>6, <2>7, <2>8 DEF ClientInv
<1>13. CASE UNCHANGED vars
  BY <1>13, ClientUndisturbed DEF vars, cvars, appvars, clientVars
<1> QED
  BY <1>1, <1>2, <1>3, <1>4, <1>5, <1>6, <1>7, <1>8, <1>9, <1>10, <1>11, <1>12, <1>13 DEF Next

-----------------------------------------------------------------------------
(* Frames. *)

QueuedFrame == [ch : Channel, seq : Nat, first : Nat, last : Nat]
Following(s) == {ch \in Channel : s \in subs[ch]}

\* Numbers only grow, and frames are frames.
Counted ==
  /\ pushed \in [Channel -> Nat] /\ flushed \in [Channel -> Nat] /\ chSeq \in [Channel -> Nat]
  /\ since \in [Socket -> [Channel -> Nat]]
  /\ outbox \in [Socket -> Seq(QueuedFrame)]
  /\ seen \in [Channel -> Frame]
  /\ \A ch \in Channel :
       /\ flushed[ch] <= pushed[ch]
       /\ seen[ch].first <= seen[ch].last /\ seen[ch].last <= flushed[ch]
       /\ seen[ch].seq <= chSeq[ch]
       /\ \A s \in Socket : since[s][ch] <= flushed[ch]

\* A queue of a connection that follows the channels S since the items si, when the
\* channels have come to the items fl and the numbers cs: its frames carry items that
\* have been flushed, none of them from both sides of a subscription, and they are in
\* order; of the present subscription, a frame with the channel's latest number has its
\* latest item, and frames without a number between them have no item between them.
Good(q, S, si, fl, cs) ==
  /\ \A n \in DOMAIN q :
       /\ q[n].first > 0 /\ q[n].first <= q[n].last
       /\ q[n].last <= fl[q[n].ch] /\ q[n].seq <= cs[q[n].ch]
       /\ q[n].first <= si[q[n].ch] => q[n].last <= si[q[n].ch]
       /\ (q[n].ch \in S /\ q[n].first > si[q[n].ch] /\ q[n].seq = cs[q[n].ch])
            => q[n].last = fl[q[n].ch]
  /\ \A m, n \in DOMAIN q : m < n /\ q[m].ch = q[n].ch =>
       /\ q[m].last < q[n].first /\ q[m].seq < q[n].seq
       /\ (q[n].ch \in S /\ q[m].first > si[q[n].ch]) => Follows(q[n], q[m])

\* What the application has seen, se, comes before all that is in the queue, and counts
\* as a frame of the present subscription if it began in it.
GoodAfter(q, se, S, si, fl, cs) ==
  /\ \A n \in DOMAIN q :
       /\ q[n].first > se[q[n].ch].last /\ q[n].seq > se[q[n].ch].seq
       /\ (q[n].ch \in S /\ se[q[n].ch].first > si[q[n].ch]) => Follows(q[n], se[q[n].ch])
  /\ \A ch \in S : (se[ch].first > si[ch] /\ se[ch].seq = cs[ch]) => se[ch].last = fl[ch]

Queued ==
  \A s \in Socket :
    /\ Good(outbox[s], Following(s), since[s], flushed, chSeq)
    /\ ready[s] = "OPEN" => GoodAfter(outbox[s], seen, Following(s), since[s], flushed, chSeq)

\* Nothing is sent to or from a connection that is not open yet.
Silent ==
  \A s \in Socket : ready[s] \in {"NEW", "CONNECTING"} =>
    outbox[s] = <<>> /\ up[s] = <<>> /\ Following(s) = {}

\* The items of channel ch after the one numbered from, up to the one numbered to, are
\* in the frames of a queue.
Reaches(q, ch, from, to) ==
  \A item \in (from + 1)..to :
    \E n \in DOMAIN q : q[n].ch = ch /\ q[n].first <= item /\ item <= q[n].last

\* What the application has not seen of an uninterrupted subscription is coming.
Covered ==
  \A s \in Socket, ch \in Channel :
    s \in subs[ch] \ overrun /\ ready[s] = "OPEN" =>
      Reaches(outbox[s], ch, Followed(s, ch), flushed[ch])

FramesInv == Counted /\ Queued /\ Silent /\ Covered

-----------------------------------------------------------------------------
(* The frames of a flush. *)

NumbersOnly(S) == S \subseteq Nat

LEMMA AscendingExists ==
  ASSUME NEW S, IsFiniteSet(S), NumbersOnly(S)
  PROVE  \E s \in [1..Cardinality(S) -> S] : \A m, n \in 1..Cardinality(S) : m < n => s[m] < s[n]
<1> DEFINE Listed(T) ==
             \E s \in [1..Cardinality(T) -> T] : \A m, n \in 1..Cardinality(T) : m < n => s[m] < s[n]
<1>0. \A B : B \subseteq SUBSET S /\ B # {} => \E T \in B : \A U \in B : U \subseteq T => U = T
  BY SmallestSubset
<1> SUFFICES ASSUME ~Listed(S) PROVE FALSE OBVIOUS
<1>1. \E T \in SUBSET S : ~Listed(T) /\ \A U \in SUBSET T : U # T => Listed(U)
  <2> HIDE DEF Listed
  <2>1. PICK B : B = {T \in SUBSET S : ~Listed(T)} OBVIOUS
  <2>2. B \subseteq SUBSET S /\ B # {} BY <2>1
  <2>3. PICK T \in B : \A U \in B : U \subseteq T => U = T BY <1>0, <2>2
  <2> QED BY <2>1, <2>3
<1>1a. PICK T \in SUBSET S : ~Listed(T) /\ \A U \in SUBSET T : U # T => Listed(U)
  <2> HIDE DEF Listed
  <2> QED BY <1>1
<1>2. T \subseteq S /\ ~Listed(T)
  <2> HIDE DEF Listed
  <2> QED BY <1>1a
<1>3. IsFiniteSet(T) BY <1>2, FS_Subset
<1>4. T # {}
  <2> SUFFICES ASSUME T = {} PROVE FALSE OBVIOUS
  <2>1. Cardinality(T) = 0 BY FS_EmptySet
  <2>2. [n \in 1..0 |-> 0] \in [1..0 -> T] OBVIOUS
  <2>3. Listed(T) BY <2>1, <2>2
  <2> QED BY <1>2, <2>3
<1>5. PICK x \in T : \A y \in T : x <= y BY <1>2, <1>4, LeastNatural DEF NumbersOnly
<1>6. PICK U : U = T \ {x} OBVIOUS
<1>7. PICK k \in Nat : Cardinality(T) = k BY <1>3, FS_CardinalityType
<1>8. Cardinality(U) = k - 1 BY <1>3, <1>5, <1>6, <1>7, FS_RemoveElement
<1>9. k - 1 \in Nat
  <2>1. IsFiniteSet(U) BY <1>3, <1>6, FS_RemoveElement
  <2> QED BY <1>8, <2>1, FS_CardinalityType
<1>10. Listed(U)
  <2>1. U \in SUBSET S /\ U \subseteq T /\ U # T BY <1>2, <1>5, <1>6
  <2> HIDE DEF Listed
  <2> QED BY <1>1a, <2>1
<1>11. PICK u \in [1..(k - 1) -> U] : \A m, n \in 1..(k - 1) : m < n => u[m] < u[n]
  BY <1>8, <1>10
<1>12. PICK s : s = [n \in 1..k |-> IF n = 1 THEN x ELSE u[n - 1]] OBVIOUS
<1>13. \A n \in 1..k : n # 1 => n - 1 \in 1..(k - 1) BY <1>9
<1>14. \A n \in 1..(k - 1) : u[n] \in T /\ u[n] > x
  <2> SUFFICES ASSUME NEW n \in 1..(k - 1) PROVE u[n] \in T /\ u[n] > x OBVIOUS
  <2>1. u[n] \in U BY <1>11
  <2>2. u[n] \in T /\ u[n] # x BY <1>6, <2>1
  <2>3. u[n] \in Nat /\ x \in Nat /\ x <= u[n] BY <1>2, <1>5, <2>2 DEF NumbersOnly
  <2> QED BY <2>2, <2>3
<1>15. s \in [1..k -> T] BY <1>5, <1>12, <1>13, <1>14
<1>16. ASSUME NEW m \in 1..k, NEW n \in 1..k, m < n PROVE s[m] < s[n]
  <2>1. n # 1 /\ s[n] = u[n - 1] /\ n - 1 \in 1..(k - 1) BY <1>12, <1>13, <1>16
  <2>2. CASE m = 1 BY <1>12, <1>14, <2>1, <2>2
  <2>3. CASE m # 1
    <3>1. s[m] = u[m - 1] /\ m - 1 \in 1..(k - 1) BY <1>12, <1>13, <2>3
    <3>2. m - 1 < n - 1 BY <1>16
    <3> QED BY <1>11, <2>1, <3>1, <3>2
  <2> QED BY <2>2, <2>3
<1>17. Listed(T) BY <1>7, <1>15, <1>16
<1> QED BY <1>2, <1>17

\* The listing has every element of the set, at one place only.
LEMMA AscendingIs ==
  ASSUME NEW S, IsFiniteSet(S), S \subseteq Nat
  PROVE  /\ Ascending(S) \in Seq(S)
         /\ \A m, n \in DOMAIN Ascending(S) : m # n => Ascending(S)[m] # Ascending(S)[n]
         /\ \A x \in S : \E n \in DOMAIN Ascending(S) : Ascending(S)[n] = x
<1>1. PICK k \in Nat : Cardinality(S) = k BY FS_CardinalityType
<1>2. PICK a : a = Ascending(S) OBVIOUS
<1>3. a \in [1..k -> S] /\ \A m, n \in 1..k : m < n => a[m] < a[n]
  BY <1>1, <1>2, AscendingExists DEF Ascending, NumbersOnly
<1>4. \A m, n \in 1..k : m # n => a[m] # a[n]
  <2> SUFFICES ASSUME NEW m \in 1..k, NEW n \in 1..k, m # n PROVE a[m] # a[n] OBVIOUS
  <2>1. a[m] \in Nat /\ a[n] \in Nat BY <1>3
  <2>2. m < n \/ n < m OBVIOUS
  <2> QED BY <1>3, <2>1, <2>2
<1>5. a \in Injection(1..k, S) BY <1>3, <1>4 DEF Injection, IsInjective
<1>6. IsFiniteSet(1..k) /\ Cardinality(1..k) = k BY FS_Interval
<1>7. a \in Surjection(1..k, S) BY <1>1, <1>5, <1>6, FS_Injection
<1>8. \A x \in S : \E n \in 1..k : a[n] = x BY <1>7 DEF Surjection
<1>9. DOMAIN a = 1..k /\ a \in Seq(S) BY <1>3
<1> QED BY <1>2, <1>4, <1>8, <1>9

\* A flush makes one frame for each channel of c that has something pending, from what was
\* flushed last to what is pushed.
LEMMA FramesForIs ==
  ASSUME Counted, NEW c \in Socket
  PROVE  /\ FramesFor(c) \in Seq(QueuedFrame)
         /\ \A n \in DOMAIN FramesFor(c) :
              LET f == FramesFor(c)[n] IN f.ch \in Following(c) /\ Pending(f.ch) /\ f = NextFrame(f.ch)
         /\ \A m, n \in DOMAIN FramesFor(c) : m # n => FramesFor(c)[m].ch # FramesFor(c)[n].ch
         /\ \A ch \in Following(c) : Pending(ch) =>
              \E n \in DOMAIN FramesFor(c) : FramesFor(c)[n] = NextFrame(ch)
<1>1. PICK l \in Nat : DOMAIN Order = 1..l
  <2>1. Order \in Seq(STRING) BY WireAssumption
  <2> QED BY <2>1
<1>2. PICK D : D = {n \in DOMAIN Order : Pending(Order[n]) /\ c \in subs[Order[n]]} OBVIOUS
<1>3. IsFiniteSet(D) /\ D \subseteq Nat
  <2>1. IsFiniteSet(1..l) /\ D \subseteq 1..l BY <1>1, <1>2, FS_Interval
  <2>2. D \subseteq Nat BY <2>1
  <2> QED BY <2>1, <2>2, FS_Subset
<1>4. PICK due : due = Ascending(D) OBVIOUS
<1>5. /\ due \in Seq(D)
      /\ \A m, n \in DOMAIN due : m # n => due[m] # due[n]
      /\ \A x \in D : \E n \in DOMAIN due : due[n] = x
  BY <1>3, <1>4, AscendingIs
<1>6. PICK k \in Nat : DOMAIN due = 1..k BY <1>5
<1>7. \A n \in 1..k : due[n] \in D BY <1>5, <1>6
<1>8. FramesFor(c) = [n \in 1..k |-> NextFrame(Order[due[n]])]
  <2> HIDE DEF NextFrame
  <2> QED BY <1>2, <1>4, <1>6 DEF FramesFor
<1>9. \A n \in DOMAIN Order : Order[n] \in Channel BY DEF Channel, ToSet
<1>10. ASSUME NEW n \in 1..k
       PROVE  /\ Order[due[n]] \in Following(c) /\ Pending(Order[due[n]])
              /\ NextFrame(Order[due[n]]) \in QueuedFrame
              /\ NextFrame(Order[due[n]]).ch = Order[due[n]]
  <2>1. PICK ch : ch = Order[due[n]] OBVIOUS
  <2>2. ch \in Channel /\ Pending(ch) /\ c \in subs[ch] BY <1>2, <1>7, <1>9, <2>1
  <2>3. NextFrame(ch) \in QueuedFrame /\ NextFrame(ch).ch = ch
    <3>1. flushed[ch] \in Nat /\ pushed[ch] \in Nat /\ chSeq[ch] \in Nat BY <2>2 DEF Counted
    <3> QED BY <2>2, <3>1 DEF NextFrame, QueuedFrame
  <2> QED BY <2>1, <2>2, <2>3 DEF Following
<1>11. FramesFor(c) \in Seq(QueuedFrame) /\ DOMAIN FramesFor(c) = 1..k
  <2> HIDE DEF NextFrame
  <2> QED BY <1>8, <1>10
<1>12. \A m, n \in 1..k : m # n => Order[due[m]] # Order[due[n]]
  <2> SUFFICES ASSUME NEW m \in 1..k, NEW n \in 1..k, m # n PROVE Order[due[m]] # Order[due[n]]
    OBVIOUS
  <2>1. due[m] \in DOMAIN Order /\ due[n] \in DOMAIN Order /\ due[m] # due[n]
    BY <1>2, <1>5, <1>6, <1>7
  <2> QED BY <2>1, WireAssumption DEF IsInjective
<1>13. ASSUME NEW ch \in Following(c), Pending(ch)
       PROVE  \E n \in 1..k : Order[due[n]] = ch
  <2>1. ch \in Channel /\ c \in subs[ch] BY DEF Following
  <2>2. PICK x \in DOMAIN Order : Order[x] = ch BY <2>1 DEF Channel, ToSet
  <2>3. x \in D BY <1>2, <1>13, <2>1, <2>2
  <2> QED BY <1>5, <1>6, <2>2, <2>3
<1> HIDE DEF NextFrame
<1> QED BY <1>8, <1>10, <1>11, <1>12, <1>13

\* A queue that loses its oldest frames keeps the latest, in their order.
Suffix(t, s) ==
  \E d \in Nat : /\ \A n \in DOMAIN t : n + d \in DOMAIN s /\ t[n] = s[n + d]
                 /\ d = 0 => t = s

LEMMA OfferedIs ==
  ASSUME NEW q \in Seq(QueuedFrame), NEW frames \in Seq(QueuedFrame)
  PROVE  /\ Offered(q, frames) \in Seq(QueuedFrame)
         /\ Suffix(Offered(q, frames), q \o frames)
         /\ Len(q) + Len(frames) <= QueueSize => Offered(q, frames) = q \o frames
<1>1. PICK all : all = q \o frames OBVIOUS
<1>2. all \in Seq(QueuedFrame) /\ Len(all) = Len(q) + Len(frames) BY <1>1
<1>3. PICK l \in Nat : l = Len(all) /\ DOMAIN all = 1..l BY <1>2
<1>4. QueueSize \in Nat /\ QueueSize > 0 BY QueueAssumption
<1>5. CASE l <= QueueSize
  <2>1. Offered(q, frames) = all BY <1>1, <1>3, <1>5 DEF Offered
  <2>2. \A n \in DOMAIN all : n + 0 \in DOMAIN all /\ all[n] = all[n + 0]
    <3> SUFFICES ASSUME NEW n \in DOMAIN all PROVE n + 0 = n OBVIOUS
    <3> QED BY <1>3
  <2>3. Suffix(all, all) BY <2>2 DEF Suffix
  <2> QED BY <1>1, <1>2, <2>1, <2>3
<1>6. CASE l > QueueSize
  <2>1. PICK t : t = SubSeq(all, l - QueueSize + 1, l) OBVIOUS
  <2>2. Offered(q, frames) = t
    <3>1. Len(q \o frames) = l /\ ~(l <= QueueSize) BY <1>1, <1>3, <1>4, <1>6
    <3> QED BY <1>1, <3>1, <2>1 DEF Offered
  <2>3. PICK d \in Nat : d = l - QueueSize BY <1>4, <1>6
  <2>4. \A i \in (d + 1)..l : all[i] \in QueuedFrame BY <1>2, <1>3, <2>3
  <2>5. d > 0 /\ l - (d + 1) + 1 = QueueSize /\ d + 1 <= l /\ t = SubSeq(all, d + 1, l)
    BY <1>4, <1>6, <2>1, <2>3
  <2>6. /\ t \in Seq(QueuedFrame) /\ Len(t) = QueueSize
        /\ \A i \in 1..(l - (d + 1) + 1) : t[i] = all[d + 1 + i - 1]
    BY <2>4, <2>5, SubSeqProperties
  <2>7. DOMAIN t = 1..QueueSize BY <2>6
  <2>8. \A n \in 1..QueueSize : n + d \in DOMAIN all /\ t[n] = all[n + d]
    <3> SUFFICES ASSUME NEW n \in 1..QueueSize PROVE n + d \in DOMAIN all /\ t[n] = all[n + d]
      OBVIOUS
    <3>1. t[n] = all[d + 1 + n - 1] BY <2>5, <2>6
    <3>2. d + 1 + n - 1 = n + d /\ n + d \in 1..l BY <1>4, <2>3
    <3> QED BY <1>3, <3>1, <3>2
  <2>9. Suffix(t, all)
    <3>1. d # 0 BY <2>3, <2>5
    <3> QED BY <2>7, <2>8, <3>1 DEF Suffix
  <2>10. ~(Len(q) + Len(frames) <= QueueSize) BY <1>2, <1>3, <1>4, <1>6
  <2> QED BY <1>1, <2>2, <2>6, <2>9, <2>10
<1>7. l <= QueueSize \/ l > QueueSize BY <1>4
<1> QED BY <1>5, <1>6, <1>7

\* Taking the oldest frame leaves a suffix.
LEMMA TailIs ==
  ASSUME NEW q \in Seq(QueuedFrame), q # <<>>
  PROVE  /\ Tail(q) \in Seq(QueuedFrame) /\ Head(q) = q[1] /\ 1 \in DOMAIN q
         /\ \A n \in DOMAIN Tail(q) : n + 1 \in DOMAIN q /\ n + 1 > 1 /\ Tail(q)[n] = q[n + 1]
         /\ \A n \in DOMAIN q : n = 1 \/ (n - 1 \in DOMAIN Tail(q) /\ Tail(q)[n - 1] = q[n])
<1>1. PICK l \in Nat : l = Len(q) /\ DOMAIN q = 1..l /\ l # 0 OBVIOUS
<1>2. PICK t : t = Tail(q) OBVIOUS
<1>3. t \in Seq(QueuedFrame) /\ Len(t) = l - 1 /\ \A i \in 1..Len(t) : t[i] = q[i + 1]
  BY <1>1, <1>2, HeadTailProperties
<1>4. DOMAIN t = 1..(l - 1) BY <1>3
<1>5. \A n \in 1..(l - 1) : n + 1 \in 1..l /\ n + 1 > 1 /\ t[n] = q[n + 1] BY <1>1, <1>3, <1>4
<1>6. \A n \in 1..l : n = 1 \/ (n - 1 \in 1..(l - 1) /\ t[n - 1] = q[n])
  <2> SUFFICES ASSUME NEW n \in 1..l, n # 1 PROVE n - 1 \in 1..(l - 1) /\ t[n - 1] = q[n] OBVIOUS
  <2>1. PICK j : j = n - 1 OBVIOUS
  <2>2. j \in 1..(l - 1) /\ j + 1 = n BY <1>1, <2>1
  <2>3. t[j] = q[j + 1] BY <1>5, <2>2
  <2> QED BY <2>1, <2>2, <2>3
<1> QED BY <1>1, <1>2, <1>3, <1>4, <1>5, <1>6

-----------------------------------------------------------------------------
(* What steps do to queues. *)

LEMMA SuffixGood ==
  ASSUME NEW q \in Seq(QueuedFrame), NEW t \in Seq(QueuedFrame), Suffix(t, q),
         NEW S, NEW si, NEW fl, NEW cs, Good(q, S, si, fl, cs)
  PROVE  Good(t, S, si, fl, cs)
<1>1. PICK d \in Nat : \A n \in DOMAIN t : n + d \in DOMAIN q /\ t[n] = q[n + d] BY DEF Suffix
<1>2. ASSUME NEW m \in DOMAIN t, NEW n \in DOMAIN t, m < n PROVE m + d < n + d
  <2>1. m \in Nat /\ n \in Nat OBVIOUS
  <2> QED BY <1>2, <2>1
<1>3. PICK p : p = [n \in DOMAIN t |-> n + d] OBVIOUS
<1>4. /\ \A n \in DOMAIN t : p[n] \in DOMAIN q /\ t[n] = q[p[n]]
      /\ \A m, n \in DOMAIN t : m < n => p[m] < p[n]
  BY <1>1, <1>2, <1>3
<1>5. ASSUME NEW n \in DOMAIN t
      PROVE  /\ t[n].first > 0 /\ t[n].first <= t[n].last
             /\ t[n].last <= fl[t[n].ch] /\ t[n].seq <= cs[t[n].ch]
             /\ t[n].first <= si[t[n].ch] => t[n].last <= si[t[n].ch]
             /\ (t[n].ch \in S /\ t[n].first > si[t[n].ch] /\ t[n].seq = cs[t[n].ch])
                  => t[n].last = fl[t[n].ch]
  <2>1. PICK i \in DOMAIN q : t[n] = q[i] BY <1>4
  <2> QED BY <2>1 DEF Good
<1>6. ASSUME NEW m \in DOMAIN t, NEW n \in DOMAIN t, m < n, t[m].ch = t[n].ch
      PROVE  /\ t[m].last < t[n].first /\ t[m].seq < t[n].seq
             /\ (t[n].ch \in S /\ t[m].first > si[t[n].ch]) => Follows(t[n], t[m])
  <2>1. PICK i \in DOMAIN q, j \in DOMAIN q : i < j /\ t[m] = q[i] /\ t[n] = q[j] BY <1>4, <1>6
  <2> QED BY <1>6, <2>1 DEF Good
<1> QED BY <1>5, <1>6 DEF Good

LEMMA SuffixAfter ==
  ASSUME NEW q \in Seq(QueuedFrame), NEW t \in Seq(QueuedFrame), Suffix(t, q),
         NEW se, NEW S, NEW si, NEW fl, NEW cs, GoodAfter(q, se, S, si, fl, cs)
  PROVE  GoodAfter(t, se, S, si, fl, cs)
<1>1. PICK d \in Nat : \A n \in DOMAIN t : n + d \in DOMAIN q /\ t[n] = q[n + d] BY DEF Suffix
<1>2. PICK p : p = [n \in DOMAIN t |-> n + d] OBVIOUS
<1>3. \A n \in DOMAIN t : p[n] \in DOMAIN q /\ t[n] = q[p[n]] BY <1>1, <1>2
<1> QED BY <1>3 DEF GoodAfter

\* After the oldest frame has been handed on, the rest comes after it.
LEMMA DeliverGood ==
  ASSUME NEW q \in Seq(QueuedFrame), q # <<>>, NEW se \in [Channel -> Frame], NEW se2,
         NEW f, f = Head(q),
         se2 = [se EXCEPT ![f.ch] = [seq |-> f.seq, first |-> f.first, last |-> f.last]],
         NEW S \in SUBSET Channel, NEW si, NEW fl, NEW cs, Good(q, S, si, fl, cs),
         GoodAfter(q, se, S, si, fl, cs)
  PROVE  Good(Tail(q), S, si, fl, cs) /\ GoodAfter(Tail(q), se2, S, si, fl, cs)
<1>1. PICK t : t = Tail(q) OBVIOUS
<1>2. /\ t \in Seq(QueuedFrame) /\ f = q[1] /\ 1 \in DOMAIN q
      /\ \A n \in DOMAIN t : n + 1 \in DOMAIN q /\ n + 1 > 1 /\ t[n] = q[n + 1]
  BY <1>1, TailIs
<1>3. Good(t, S, si, fl, cs)
  <2>1. Suffix(t, q) BY <1>2 DEF Suffix
  <2> QED BY <1>2, <2>1, SuffixGood
<1>4. f.ch \in Channel
  <2>1. f \in QueuedFrame BY <1>2
  <2> QED BY <2>1 DEF QueuedFrame
<1>5. /\ se2[f.ch].seq = f.seq /\ se2[f.ch].first = f.first /\ se2[f.ch].last = f.last
      /\ \A ch \in Channel : ch # f.ch => se2[ch] = se[ch]
  BY <1>4
<1>6. \A n \in DOMAIN t : t[n].ch \in Channel
  <2>1. \A n \in DOMAIN t : t[n] \in QueuedFrame BY <1>2
  <2> QED BY <2>1 DEF QueuedFrame
<1>7. ASSUME NEW n \in DOMAIN t
      PROVE  /\ t[n].first > se2[t[n].ch].last /\ t[n].seq > se2[t[n].ch].seq
             /\ (t[n].ch \in S /\ se2[t[n].ch].first > si[t[n].ch]) => Follows(t[n], se2[t[n].ch])
  <2>1. PICK k \in DOMAIN q : k > 1 /\ t[n] = q[k] BY <1>2
  <2>2. CASE t[n].ch = f.ch
    <3>1. PICK g : g = t[n] OBVIOUS
    <3>2. /\ f.last < g.first /\ f.seq < g.seq
          /\ (g.ch \in S /\ f.first > si[g.ch]) => Follows(g, f)
      BY <1>2, <2>1, <2>2, <3>1 DEF Good
    <3>3. f \in QueuedFrame /\ g \in QueuedFrame BY <1>2, <3>1
    <3>4. g.first > f.last /\ g.seq > f.seq BY <3>2, <3>3 DEF QueuedFrame
    <3> QED BY <1>5, <2>2, <3>1, <3>2, <3>4 DEF Follows
  <2>3. CASE t[n].ch # f.ch
    <3>1. se2[t[n].ch] = se[t[n].ch] BY <1>5, <1>6, <2>3
    <3> QED BY <2>1, <3>1 DEF GoodAfter
  <2> QED BY <2>2, <2>3
<1>8. ASSUME NEW ch \in S, se2[ch].first > si[ch], se2[ch].seq = cs[ch]
      PROVE  se2[ch].last = fl[ch]
  <2>1. CASE ch = f.ch BY <1>2, <1>5, <1>8, <2>1 DEF Good
  <2>2. CASE ch # f.ch
    <3>1. se2[ch] = se[ch] BY <1>5, <2>2
    <3> QED BY <1>8, <3>1 DEF GoodAfter
  <2> QED BY <2>1, <2>2
<1>9. GoodAfter(t, se2, S, si, fl, cs) BY <1>7, <1>8 DEF GoodAfter
<1> QED BY <1>1, <1>3, <1>9

\* What a flush does to the numbers of the channels a connection follows.
Advanced(S, fl, cs, pl, cs2) ==
  /\ fl \in [Channel -> Nat] /\ cs \in [Channel -> Nat]
  /\ pl \in [Channel -> Nat] /\ cs2 \in [Channel -> Nat]
  /\ \A ch \in Channel : fl[ch] <= pl[ch] /\ cs[ch] <= cs2[ch]
  /\ \A ch \in S : cs2[ch] = IF fl[ch] < pl[ch] THEN cs[ch] + 1 ELSE cs[ch]

\* The frames of the flush.
Batches(frames, S, fl, cs, pl) ==
  /\ \A n \in DOMAIN frames :
       LET f == frames[n] IN
       /\ f.ch \in S /\ fl[f.ch] < pl[f.ch]
       /\ f.seq = cs[f.ch] + 1 /\ f.first = fl[f.ch] + 1 /\ f.last = pl[f.ch]
  /\ \A m, n \in DOMAIN frames : m # n => frames[m].ch # frames[n].ch

\* A place in a queue that has been added to.
LEMMA Joined ==
  ASSUME NEW q \in Seq(QueuedFrame), NEW frames \in Seq(QueuedFrame), NEW all, all = q \o frames
  PROVE  /\ all \in Seq(QueuedFrame)
         /\ \A n \in DOMAIN all :
              \/ n \in DOMAIN q /\ all[n] = q[n]
              \/ /\ n \notin DOMAIN q /\ n - Len(q) \in DOMAIN frames
                 /\ all[n] = frames[n - Len(q)]
         /\ \A n \in DOMAIN q : n \in DOMAIN all /\ all[n] = q[n]
         /\ \A n \in DOMAIN frames : n + Len(q) \in DOMAIN all /\ all[n + Len(q)] = frames[n]
         /\ \A m, n \in DOMAIN all : m < n /\ n \in DOMAIN q => m \in DOMAIN q
<1>1. PICK m \in Nat, l \in Nat : m = Len(q) /\ l = Len(frames) OBVIOUS
<1>2. PICK a : a = all OBVIOUS
<1>3. a \in Seq(QueuedFrame) /\ DOMAIN q = 1..m /\ DOMAIN frames = 1..l /\ DOMAIN a = 1..(m + l)
  BY <1>1, <1>2, ConcatProperties
<1>4. \A n \in 1..(m + l) : a[n] = IF n <= m THEN q[n] ELSE frames[n - m]
  BY <1>1, <1>2, ConcatProperties
<1>5. ASSUME NEW n \in 1..(m + l)
      PROVE  \/ n \in 1..m /\ a[n] = q[n]
             \/ n \notin 1..m /\ n - m \in 1..l /\ a[n] = frames[n - m]
  <2>1. CASE n <= m BY <1>4, <2>1
  <2>2. CASE ~(n <= m) BY <1>4, <2>2
  <2> QED BY <2>1, <2>2
<1>6. ASSUME NEW n \in 1..m PROVE n \in 1..(m + l) /\ a[n] = q[n]
  <2>1. n \in 1..(m + l) /\ n <= m OBVIOUS
  <2> QED BY <1>4, <2>1
<1>7. \A n \in 1..l : n + m \in 1..(m + l) /\ a[n + m] = frames[n]
  <2> SUFFICES ASSUME NEW n \in 1..l PROVE n + m \in 1..(m + l) /\ a[n + m] = frames[n] OBVIOUS
  <2>1. PICK k : k = n + m OBVIOUS
  <2>2. k \in 1..(m + l) /\ ~(k <= m) /\ k - m = n BY <2>1
  <2>3. a[k] = frames[k - m] BY <1>4, <2>2
  <2> QED BY <2>1, <2>2, <2>3
<1>8. \A i, n \in 1..(m + l) : i < n /\ n \in 1..m => i \in 1..m OBVIOUS
<1>9. /\ a \in Seq(QueuedFrame)
      /\ \A n \in DOMAIN a :
           \/ n \in DOMAIN q /\ a[n] = q[n]
           \/ n \notin DOMAIN q /\ n - Len(q) \in DOMAIN frames /\ a[n] = frames[n - Len(q)]
      /\ \A n \in DOMAIN q : n \in DOMAIN a /\ a[n] = q[n]
      /\ \A n \in DOMAIN frames : n + Len(q) \in DOMAIN a /\ a[n + Len(q)] = frames[n]
      /\ \A i, n \in DOMAIN a : i < n /\ n \in DOMAIN q => i \in DOMAIN q
  BY <1>1, <1>3, <1>5, <1>6, <1>7, <1>8
<1> QED BY <1>2, <1>9

LEMMA FlushGood ==
  ASSUME NEW q \in Seq(QueuedFrame), NEW frames \in Seq(QueuedFrame), NEW all, all = q \o frames,
         NEW S \in SUBSET Channel, NEW si \in [Channel -> Nat],
         NEW fl, NEW cs, NEW pl, NEW cs2, Advanced(S, fl, cs, pl, cs2),
         Batches(frames, S, fl, cs, pl), \A ch \in Channel : si[ch] <= fl[ch],
         Good(q, S, si, fl, cs)
  PROVE  Good(all, S, si, pl, cs2)
<1>1. /\ all \in Seq(QueuedFrame)
      /\ \A n \in DOMAIN all :
           \/ n \in DOMAIN q /\ all[n] = q[n]
           \/ n \notin DOMAIN q /\ n - Len(q) \in DOMAIN frames /\ all[n] = frames[n - Len(q)]
      /\ \A m, n \in DOMAIN all : m < n /\ n \in DOMAIN q => m \in DOMAIN q
  BY Joined
<1>2. PICK a : a = all OBVIOUS
<1>3. ASSUME NEW n \in DOMAIN a
      PROVE  /\ a[n].ch \in Channel /\ a[n].seq \in Nat /\ a[n].first \in Nat /\ a[n].last \in Nat
             /\ fl[a[n].ch] \in Nat /\ cs[a[n].ch] \in Nat /\ pl[a[n].ch] \in Nat
             /\ cs2[a[n].ch] \in Nat /\ si[a[n].ch] \in Nat
  <2>1. a[n] \in QueuedFrame BY <1>1, <1>2
  <2> QED BY <2>1 DEF QueuedFrame, Advanced
<1>4. ASSUME NEW n \in DOMAIN a
      PROVE  /\ a[n].first > 0 /\ a[n].first <= a[n].last
             /\ a[n].last <= pl[a[n].ch] /\ a[n].seq <= cs2[a[n].ch]
             /\ a[n].first <= si[a[n].ch] => a[n].last <= si[a[n].ch]
             /\ (a[n].ch \in S /\ a[n].first > si[a[n].ch] /\ a[n].seq = cs2[a[n].ch])
                  => a[n].last = pl[a[n].ch]
  <2>1. PICK f : f = a[n] OBVIOUS
  <2>2. PICK x \in Nat, y \in Nat, z \in Nat, c \in Nat, c2 \in Nat, w \in Nat, k \in Nat, p \in Nat :
          /\ x = f.first /\ y = f.last /\ z = f.seq /\ c = cs[f.ch] /\ c2 = cs2[f.ch]
          /\ w = fl[f.ch] /\ p = pl[f.ch] /\ k = si[f.ch]
    BY <1>3, <2>1
  <2>3. f.ch \in Channel /\ w <= p /\ c <= c2 /\ k <= w /\ (f.ch \in S => c2 = IF w < p THEN c + 1 ELSE c)
    BY <1>3, <2>1, <2>2 DEF Advanced
  <2>4. CASE n \in DOMAIN q /\ a[n] = q[n]
    <3>1. /\ x > 0 /\ x <= y /\ y <= w /\ z <= c /\ (x <= k => y <= k)
          /\ (f.ch \in S /\ x > k /\ z = c) => y = w
      BY <2>1, <2>2, <2>4 DEF Good
    <3>2. (f.ch \in S /\ x > k /\ z = c2) => y = p BY <2>3, <3>1
    <3>3. y <= p /\ z <= c2 BY <2>3, <3>1
    <3> QED BY <2>1, <2>2, <3>1, <3>2, <3>3
  <2>5. CASE n \notin DOMAIN q
    <3>0. PICK i \in DOMAIN frames : f = frames[i] BY <1>1, <1>2, <2>1, <2>5
    <3>1. f.ch \in S /\ w < p /\ z = c + 1 /\ x = w + 1 /\ y = p
      BY <2>2, <3>0 DEF Batches
    <3>2. x > 0 /\ x <= y /\ y <= p /\ z <= c2 /\ (x <= k => y <= k) BY <2>3, <3>1
    <3> QED BY <2>1, <2>2, <3>1, <3>2
  <2> QED BY <1>1, <1>2, <2>4, <2>5
<1>5. ASSUME NEW m \in DOMAIN a, NEW n \in DOMAIN a, m < n, a[m].ch = a[n].ch
      PROVE  /\ a[m].last < a[n].first /\ a[m].seq < a[n].seq
             /\ (a[n].ch \in S /\ a[m].first > si[a[n].ch]) => Follows(a[n], a[m])
  <2>1. CASE n \in DOMAIN q
    <3>1. m \in DOMAIN q /\ a[m] = q[m] /\ a[n] = q[n] BY <1>1, <1>2, <1>5, <2>1
    <3> QED BY <1>5, <2>1, <3>1 DEF Good
  <2>2. CASE n \notin DOMAIN q /\ m \in DOMAIN q
    <3>1. PICK f, g : f = a[m] /\ g = a[n] OBVIOUS
    <3>2. /\ g.ch \in S /\ fl[g.ch] < pl[g.ch]
          /\ g.seq = cs[g.ch] + 1 /\ g.first = fl[g.ch] + 1
      BY <1>1, <1>2, <2>2, <3>1 DEF Batches
    <3>3. f.ch = g.ch /\ f = q[m] BY <1>1, <1>2, <1>5, <2>2, <3>1
    <3>4. /\ f.last <= fl[g.ch] /\ f.seq <= cs[g.ch]
          /\ (g.ch \in S /\ f.first > si[g.ch] /\ f.seq = cs[g.ch]) => f.last = fl[g.ch]
      BY <2>2, <3>3 DEF Good
    <3>5. PICK y \in Nat, z \in Nat, c \in Nat, w \in Nat, s2 \in Nat, x2 \in Nat :
            y = f.last /\ z = f.seq /\ c = cs[g.ch] /\ w = fl[g.ch] /\ s2 = g.seq /\ x2 = g.first
      BY <1>3, <3>1
    <3>6. s2 = c + 1 /\ x2 = w + 1 /\ y <= w /\ z <= c BY <3>2, <3>4, <3>5
    <3>7. y < x2 /\ z < s2 BY <3>6
    <3>8. ASSUME f.first > si[g.ch] PROVE Follows(g, f)
      <4>1. z = c => y = w BY <3>2, <3>4, <3>5, <3>8
      <4>2. s2 > z /\ (s2 = z + 1 => x2 = y + 1) BY <3>6, <4>1
      <4> QED BY <3>5, <4>2 DEF Follows
    <3> QED BY <3>1, <3>3, <3>5, <3>7, <3>8
  <2>3. CASE m \notin DOMAIN q /\ n \notin DOMAIN q
    <3>1. PICK k \in Nat : k = Len(q) OBVIOUS
    <3>2. m - k \in DOMAIN frames /\ n - k \in DOMAIN frames /\ a[m] = frames[m - k] /\ a[n] = frames[n - k]
      BY <1>1, <1>2, <2>3, <3>1
    <3>3. m \in Int /\ n \in Int BY <1>1, <1>2
    <3>4. m - k # n - k BY <1>5, <3>1, <3>3
    <3> QED BY <1>5, <3>2, <3>4 DEF Batches
  <2> QED BY <1>1, <1>2, <1>5, <2>1, <2>2, <2>3
<1>6. Good(a, S, si, pl, cs2) BY <1>4, <1>5 DEF Good
<1> QED BY <1>2, <1>6

\* What has been seen has been flushed.
Behind(se, fl, cs) == \A ch \in Channel : se[ch].last <= fl[ch] /\ se[ch].seq <= cs[ch]

LEMMA FlushAfter ==
  ASSUME NEW q \in Seq(QueuedFrame), NEW frames \in Seq(QueuedFrame), NEW all, all = q \o frames,
         NEW S \in SUBSET Channel, NEW si \in [Channel -> Nat], NEW se \in [Channel -> Frame],
         NEW fl, NEW cs, NEW pl, NEW cs2, Advanced(S, fl, cs, pl, cs2),
         Batches(frames, S, fl, cs, pl), Behind(se, fl, cs),
         GoodAfter(q, se, S, si, fl, cs)
  PROVE  GoodAfter(all, se, S, si, pl, cs2)
<1>1. /\ all \in Seq(QueuedFrame)
      /\ \A n \in DOMAIN all :
           \/ n \in DOMAIN q /\ all[n] = q[n]
           \/ n \notin DOMAIN q /\ n - Len(q) \in DOMAIN frames /\ all[n] = frames[n - Len(q)]
  BY Joined
<1>2. PICK a : a = all OBVIOUS
<1>3. \A ch \in Channel :
        /\ fl[ch] \in Nat /\ cs[ch] \in Nat /\ pl[ch] \in Nat /\ cs2[ch] \in Nat
        /\ se[ch].seq \in Nat /\ se[ch].last \in Nat
  <2>1. \A ch \in Channel : se[ch] \in Frame OBVIOUS
  <2> QED BY <2>1 DEF Advanced, Frame
<1>4. ASSUME NEW n \in DOMAIN a
      PROVE  /\ a[n].first > se[a[n].ch].last /\ a[n].seq > se[a[n].ch].seq
             /\ (a[n].ch \in S /\ se[a[n].ch].first > si[a[n].ch]) => Follows(a[n], se[a[n].ch])
  <2>1. CASE n \in DOMAIN q /\ a[n] = q[n] BY <2>1 DEF GoodAfter
  <2>2. CASE n \notin DOMAIN q
    <3>1. PICK f, g : f = a[n] /\ g = se[f.ch] OBVIOUS
    <3>2. f.ch \in S /\ f.seq = cs[f.ch] + 1 /\ f.first = fl[f.ch] + 1
      BY <1>1, <1>2, <2>2, <3>1 DEF Batches
    <3>3. PICK c \in Nat, w \in Nat, z \in Nat, y \in Nat :
            c = cs[f.ch] /\ w = fl[f.ch] /\ z = g.seq /\ y = g.last
      BY <1>3, <3>1, <3>2
    <3>4. y <= w /\ z <= c BY <3>1, <3>2, <3>3 DEF Behind
    <3>5. (g.first > si[f.ch] /\ z = c) => y = w BY <3>1, <3>2, <3>3 DEF GoodAfter
    <3>6. f.first > y /\ f.seq > z BY <3>2, <3>3, <3>4
    <3>7. ASSUME g.first > si[f.ch] PROVE Follows(f, g)
      <4>1. PICK s2 \in Nat, x2 \in Nat : s2 = f.seq /\ x2 = f.first /\ s2 = c + 1 /\ x2 = w + 1
        BY <3>2, <3>3
      <4>2. z = c => y = w BY <3>5, <3>7
      <4>3. s2 = z + 1 => x2 = y + 1 BY <4>1, <4>2
      <4> QED BY <3>3, <3>6, <4>1, <4>3 DEF Follows
    <3> QED BY <3>1, <3>3, <3>6, <3>7
  <2> QED BY <1>1, <1>2, <2>1, <2>2
<1>5. ASSUME NEW ch \in S, se[ch].first > si[ch], se[ch].seq = cs2[ch]
      PROVE  se[ch].last = pl[ch]
  <2>1. PICK c \in Nat, w \in Nat, z \in Nat, p \in Nat, c2 \in Nat :
          c = cs[ch] /\ w = fl[ch] /\ z = se[ch].seq /\ p = pl[ch] /\ c2 = cs2[ch]
    BY <1>3
  <2>2. z <= c /\ w <= p /\ c2 = (IF w < p THEN c + 1 ELSE c) /\ z = c2
    BY <1>5, <2>1 DEF Advanced, Behind
  <2>3. z = c /\ w = p BY <2>2
  <2>4. se[ch].last = fl[ch] BY <1>5, <2>1, <2>3 DEF GoodAfter
  <2> QED BY <2>1, <2>3, <2>4
<1>6. GoodAfter(a, se, S, si, pl, cs2) BY <1>4, <1>5 DEF GoodAfter
<1> QED BY <1>2, <1>6

-----------------------------------------------------------------------------
(* The invariant of frames. *)

LEMMA FramesInit ==
  ASSUME Init
  PROVE  FramesInv
<1>1. /\ outbox = [s \in Socket |-> <<>>] /\ up = [s \in Socket |-> <<>>]
      /\ subs = [ch \in Channel |-> {}] /\ ready = [s \in Socket |-> "NEW"]
      /\ pushed = [ch \in Channel |-> 0] /\ flushed = [ch \in Channel |-> 0]
      /\ chSeq = [ch \in Channel |-> 0] /\ since = [s \in Socket |-> [ch \in Channel |-> 0]]
      /\ seen = [ch \in Channel |-> NoFrame]
  BY DEF Init, BInit, CInit
<1>2. Counted
  <2>1. NoFrame \in Frame /\ NoFrame.first = 0 /\ NoFrame.last = 0 /\ NoFrame.seq = 0
    BY DEF NoFrame, Frame
  <2> QED BY <1>1, <2>1 DEF Counted
<1>3. Queued BY <1>1 DEF Queued, Good
<1>4. Silent BY <1>1 DEF Silent, Following
<1>5. Covered BY <1>1 DEF Covered
<1> QED BY <1>2, <1>3, <1>4, <1>5 DEF FramesInv

\* What only closes, opens no further than CONNECTING, or pushes items leaves the frames.
LEMMA FramesStill ==
  ASSUME FramesInv, UNCHANGED <<outbox, subs, flushed, chSeq, since, overrun, seen>>,
         pushed' \in [Channel -> Nat], \A ch \in Channel : pushed[ch] <= pushed'[ch],
         \A s \in Socket : ready'[s] = "OPEN" => ready[s] = "OPEN",
         \A s \in Socket : ready'[s] \in {"NEW", "CONNECTING"} =>
           ready[s] \in {"NEW", "CONNECTING"} /\ up'[s] = up[s]
  PROVE  FramesInv'
<1>1. Counted'
  <2>1. \A ch \in Channel : flushed[ch] <= pushed'[ch]
    <3> SUFFICES ASSUME NEW ch \in Channel PROVE flushed[ch] <= pushed'[ch] OBVIOUS
    <3>1. flushed[ch] \in Nat /\ pushed[ch] \in Nat /\ pushed'[ch] \in Nat BY DEF FramesInv, Counted
    <3>2. flushed[ch] <= pushed[ch] /\ pushed[ch] <= pushed'[ch] BY DEF FramesInv, Counted
    <3> QED BY <3>1, <3>2
  <2> QED BY <2>1 DEF FramesInv, Counted
<1>2. Queued' BY DEF FramesInv, Queued, Following
<1>3. Silent' BY DEF FramesInv, Silent, Following
<1>4. Covered' BY DEF FramesInv, Covered, Followed
<1> QED BY <1>1, <1>2, <1>3, <1>4 DEF FramesInv

LEMMA FramesFlush ==
  ASSUME FramesInv, ServerInv, Flush
  PROVE  FramesInv'
<1>1. /\ outbox' = [c \in Socket |-> IF c \in registered THEN Offered(outbox[c], FramesFor(c))
                                     ELSE outbox[c]]
      /\ chSeq' = [ch \in Channel |-> IF Numbered(ch) THEN chSeq[ch] + 1 ELSE chSeq[ch]]
      /\ flushed' = pushed
      /\ overrun' = overrun \cup {c \in registered : Len(outbox[c]) + Len(FramesFor(c)) > QueueSize}
      /\ UNCHANGED <<subs, pushed, since, ready, up, seen>>
  BY DEF Flush, FlushPending, cvars, netvars
<1>2. Counted BY DEF FramesInv
<1>3. \A s \in Socket : Following(s) \in SUBSET Channel /\ Following(s)' = Following(s)
  BY <1>1 DEF Following
<1>4. \A ch \in Channel : Numbered(ch) <=> flushed[ch] < pushed[ch] /\ subs[ch] # {}
  BY DEF Numbered, Pending
<1>5. ASSUME NEW s \in Socket
      PROVE  Advanced(Following(s), flushed, chSeq, pushed, chSeq')
  <2>1. chSeq' \in [Channel -> Nat] /\ \A ch \in Channel : chSeq[ch] <= chSeq'[ch]
    <3>1. \A ch \in Channel : chSeq[ch] \in Nat BY <1>2 DEF Counted
    <3> QED BY <1>1, <3>1
  <2>2. ASSUME NEW ch \in Following(s)
        PROVE  chSeq'[ch] = IF flushed[ch] < pushed[ch] THEN chSeq[ch] + 1 ELSE chSeq[ch]
    BY <1>1, <1>4 DEF Following
  <2> QED BY <1>2, <2>1, <2>2 DEF Advanced, Counted
<1>6. ASSUME NEW s \in Socket
      PROVE  /\ FramesFor(s) \in Seq(QueuedFrame)
             /\ Batches(FramesFor(s), Following(s), flushed, chSeq, pushed)
  <2>1. PICK fs : fs = FramesFor(s) OBVIOUS
  <2>2. /\ fs \in Seq(QueuedFrame)
        /\ \A n \in DOMAIN fs : fs[n].ch \in Following(s) /\ Pending(fs[n].ch) /\ fs[n] = NextFrame(fs[n].ch)
        /\ \A m, n \in DOMAIN fs : m # n => fs[m].ch # fs[n].ch
    BY <1>2, <2>1, FramesForIs
  <2>3. \A ch : /\ NextFrame(ch).seq = chSeq[ch] + 1 /\ NextFrame(ch).first = flushed[ch] + 1
                /\ NextFrame(ch).last = pushed[ch]
    BY DEF NextFrame
  <2>4. ASSUME NEW n \in DOMAIN fs
        PROVE  /\ fs[n].ch \in Following(s) /\ flushed[fs[n].ch] < pushed[fs[n].ch]
               /\ fs[n].seq = chSeq[fs[n].ch] + 1 /\ fs[n].first = flushed[fs[n].ch] + 1
               /\ fs[n].last = pushed[fs[n].ch]
    BY <2>2, <2>3 DEF Pending
  <2> QED BY <2>1, <2>2, <2>4 DEF Batches
<1>7. ASSUME NEW s \in Socket
      PROVE  /\ outbox'[s] \in Seq(QueuedFrame)
             /\ Good(outbox'[s], Following(s), since[s], pushed, chSeq')
             /\ ready[s] = "OPEN" =>
                  GoodAfter(outbox'[s], seen, Following(s), since[s], pushed, chSeq')
  <2>1. PICK q, S, si, all, fs :
          /\ q = outbox[s] /\ S = Following(s) /\ si = since[s] /\ fs = FramesFor(s) /\ all = q \o fs
    OBVIOUS
  <2>2. /\ q \in Seq(QueuedFrame) /\ S \in SUBSET Channel /\ si \in [Channel -> Nat]
        /\ fs \in Seq(QueuedFrame) /\ Batches(fs, S, flushed, chSeq, pushed)
        /\ Advanced(S, flushed, chSeq, pushed, chSeq')
        /\ \A ch \in Channel : si[ch] <= flushed[ch]
        /\ Good(q, S, si, flushed, chSeq)
        /\ ready[s] = "OPEN" => GoodAfter(q, seen, S, si, flushed, chSeq)
    BY <1>2, <1>3, <1>5, <1>6, <2>1 DEF Counted, FramesInv, Queued
  <2>3. Good(all, S, si, pushed, chSeq') BY <2>1, <2>2, FlushGood
  <2>4. ASSUME ready[s] = "OPEN" PROVE GoodAfter(all, seen, S, si, pushed, chSeq')
    <3>1. seen \in [Channel -> Frame] /\ Behind(seen, flushed, chSeq)
      BY <1>2 DEF Counted, Behind
    <3>2. PICK se, fl, cs, pl, cs2 :
            se = seen /\ fl = flushed /\ cs = chSeq /\ pl = pushed /\ cs2 = chSeq'
      OBVIOUS
    <3>3. /\ q \in Seq(QueuedFrame) /\ fs \in Seq(QueuedFrame) /\ all = q \o fs
          /\ S \in SUBSET Channel /\ si \in [Channel -> Nat] /\ se \in [Channel -> Frame]
          /\ Advanced(S, fl, cs, pl, cs2) /\ Batches(fs, S, fl, cs, pl)
          /\ Behind(se, fl, cs) /\ GoodAfter(q, se, S, si, fl, cs)
      BY <2>1, <2>2, <2>4, <3>1, <3>2
    <3>4. GoodAfter(all, se, S, si, pl, cs2) BY <3>3, FlushAfter
    <3> QED BY <3>2, <3>4
  <2>5. all \in Seq(QueuedFrame) BY <2>1, <2>2, Joined
  <2>6. CASE s \in registered
    <3>1. PICK t : t = outbox'[s] OBVIOUS
    <3>2. t = Offered(q, fs) BY <1>1, <2>1, <2>6, <3>1
    <3>3. t \in Seq(QueuedFrame) /\ Suffix(t, all) BY <2>1, <2>2, <3>2, OfferedIs
    <3>4. Good(t, S, si, pushed, chSeq') BY <2>3, <2>5, <3>3, SuffixGood
    <3>5. ready[s] = "OPEN" => GoodAfter(t, seen, S, si, pushed, chSeq')
      BY <2>4, <2>5, <3>3, SuffixAfter
    <3> QED BY <2>1, <3>1, <3>3, <3>4, <3>5
  <2>7. CASE s \notin registered
    <3>1. outbox'[s] = q BY <1>1, <2>1, <2>7
    <3>2. S = {} BY <2>1, <2>7 DEF ServerInv, NoGhostSubscribers, Following
    <3>3. fs = <<>>
      <4>1. DOMAIN fs = {} BY <2>2, <3>2 DEF Batches
      <4> QED BY <2>2, <4>1
    <3>4. all = q BY <2>1, <2>2, <3>3
    <3> QED BY <2>1, <2>2, <2>3, <2>4, <3>1, <3>4
  <2> QED BY <2>6, <2>7
<1>8. Counted'
  <2>1. outbox' \in [Socket -> Seq(QueuedFrame)] BY <1>1, <1>7
  <2>2. chSeq' \in [Channel -> Nat] /\ \A ch \in Channel : chSeq[ch] <= chSeq'[ch]
    <3>1. \A ch \in Channel : chSeq[ch] \in Nat BY <1>2 DEF Counted
    <3> QED BY <1>1, <3>1
  <2>3. ASSUME NEW ch \in Channel
        PROVE  /\ flushed'[ch] <= pushed'[ch] /\ seen'[ch].first <= seen'[ch].last
               /\ seen'[ch].last <= flushed'[ch] /\ seen'[ch].seq <= chSeq'[ch]
               /\ \A s \in Socket : since'[s][ch] <= flushed'[ch]
    <3>1. PICK w \in Nat, p \in Nat, c \in Nat, c2 \in Nat, y \in Nat, z \in Nat :
            /\ w = flushed[ch] /\ p = pushed[ch] /\ c = chSeq[ch] /\ c2 = chSeq'[ch]
            /\ y = seen[ch].last /\ z = seen[ch].seq
      <4>1. seen[ch] \in Frame BY <1>2 DEF Counted
      <4> QED BY <1>2, <2>2, <4>1 DEF Counted, Frame
    <3>2. w <= p /\ c <= c2 /\ y <= w /\ z <= c /\ seen[ch].first <= y BY <1>2, <2>2, <3>1 DEF Counted
    <3>3. y <= p /\ z <= c2 BY <3>2
    <3>4. \A s \in Socket : since[s][ch] \in Nat /\ since[s][ch] <= w BY <1>2, <3>1 DEF Counted
    <3>5. \A s \in Socket : since[s][ch] <= p BY <3>2, <3>4
    <3> QED BY <1>1, <3>1, <3>2, <3>3, <3>5
  <2> QED BY <1>1, <1>2, <2>1, <2>2, <2>3 DEF Counted
<1>9. Queued' BY <1>1, <1>3, <1>7 DEF Queued
<1>10. Silent'
  <2> SUFFICES ASSUME NEW s \in Socket, ready'[s] \in {"NEW", "CONNECTING"}
               PROVE  outbox'[s] = <<>> /\ up'[s] = <<>> /\ Following(s)' = {}
    BY DEF Silent
  <2>1. outbox[s] = <<>> /\ up[s] = <<>> /\ Following(s) = {} BY <1>1 DEF FramesInv, Silent
  <2>2. FramesFor(s) = <<>>
    <3>1. PICK fs : fs = FramesFor(s) OBVIOUS
    <3>2. fs \in Seq(QueuedFrame) /\ DOMAIN fs = {} BY <1>6, <2>1, <3>1 DEF Batches
    <3> QED BY <3>1, <3>2
  <2>3. outbox'[s] = <<>>
    <3>1. CASE s \notin registered BY <1>1, <2>1, <3>1
    <3>2. CASE s \in registered
      <4>1. PICK e : e = <<>> OBVIOUS
      <4>2. e \in Seq(QueuedFrame) /\ Len(e) = 0 /\ e \o e = e BY <4>1
      <4>3. Len(e) + Len(e) <= QueueSize BY <4>2, QueueAssumption
      <4>4. Offered(e, e) = e BY <4>2, <4>3, OfferedIs
      <4> QED BY <1>1, <2>1, <2>2, <3>2, <4>1, <4>4
    <3> QED BY <3>1, <3>2
  <2> QED BY <1>1, <1>3, <2>1, <2>3
<1>11. Covered'
  <2> SUFFICES ASSUME NEW s \in Socket, NEW ch \in Channel,
                      s \in subs[ch], s \notin overrun', ready[s] = "OPEN",
                      NEW item \in (Followed(s, ch) + 1)..pushed[ch]
               PROVE  \E n \in DOMAIN outbox'[s] :
                        /\ outbox'[s][n].ch = ch
                        /\ outbox'[s][n].first <= item /\ item <= outbox'[s][n].last
    BY <1>1 DEF Covered, Followed, Reaches
  <2>1. PICK q, all, fs : q = outbox[s] /\ fs = FramesFor(s) /\ all = q \o fs OBVIOUS
  <2>2. q \in Seq(QueuedFrame) /\ fs \in Seq(QueuedFrame) BY <1>2, <1>6, <2>1 DEF Counted
  <2>3. s \in registered /\ s \notin overrun BY <1>1 DEF ServerInv, NoGhostSubscribers
  <2>4. outbox'[s] = all
    <3>1. ~(Len(q) + Len(fs) > QueueSize) BY <1>1, <2>1, <2>3
    <3>2. Len(q) \in Nat /\ Len(fs) \in Nat /\ QueueSize \in Nat BY <2>2, QueueAssumption
    <3>3. Len(q) + Len(fs) <= QueueSize BY <3>1, <3>2
    <3>4. Offered(q, fs) = all BY <2>1, <2>2, <3>3, OfferedIs
    <3> QED BY <1>1, <2>1, <2>3, <3>4
  <2>5. /\ \A n \in DOMAIN q : n \in DOMAIN all /\ all[n] = q[n]
        /\ \A n \in DOMAIN fs : n + Len(q) \in DOMAIN all /\ all[n + Len(q)] = fs[n]
    BY <2>1, <2>2, Joined
  <2>6. Followed(s, ch) \in Nat /\ flushed[ch] \in Nat /\ pushed[ch] \in Nat
    <3>1. seen[ch] \in Frame BY <1>2 DEF Counted
    <3> QED BY <1>2, <3>1 DEF Counted, Followed, Frame
  <2>7. CASE item <= flushed[ch]
    <3>1. item \in (Followed(s, ch) + 1)..flushed[ch] BY <2>6, <2>7
    <3>2. PICK n \in DOMAIN q : q[n].ch = ch /\ q[n].first <= item /\ item <= q[n].last
      BY <2>1, <2>3, <3>1 DEF FramesInv, Covered, Reaches
    <3> QED BY <2>4, <2>5, <3>2
  <2>8. CASE ~(item <= flushed[ch])
    <3>1. Pending(ch) /\ ch \in Following(s) BY <2>6, <2>8 DEF Pending, Following
    <3>2. PICK n \in DOMAIN fs : fs[n] = NextFrame(ch) BY <1>2, <2>1, <3>1, FramesForIs
    <3>3. PICK k : k = n + Len(q) OBVIOUS
    <3>4. k \in DOMAIN all /\ all[k] = NextFrame(ch) BY <2>5, <3>2, <3>3
    <3>5. NextFrame(ch).ch = ch /\ NextFrame(ch).first = flushed[ch] + 1 /\ NextFrame(ch).last = pushed[ch]
      BY DEF NextFrame
    <3>6. flushed[ch] + 1 <= item /\ item <= pushed[ch] BY <2>6, <2>8
    <3> QED BY <2>4, <3>4, <3>5, <3>6
  <2> QED BY <2>7, <2>8
<1> QED BY <1>8, <1>9, <1>10, <1>11 DEF FramesInv

LEMMA FramesDeliver ==
  ASSUME FramesInv, ClientInv, NEW s \in Socket, Deliver(s)
  PROVE  FramesInv'
<1>1. PICK q, f : q = outbox[s] /\ f = Head(q) OBVIOUS
<1>2. /\ ready[s] = "OPEN" /\ q # <<>>
      /\ outbox' = [outbox EXCEPT ![s] = Tail(q)]
      /\ seen' = [seen EXCEPT ![f.ch] = [seq |-> f.seq, first |-> f.first, last |-> f.last]]
      /\ UNCHANGED <<subs, pushed, flushed, chSeq, since, overrun, ready, up>>
  BY <1>1 DEF Deliver, TakeFrame, cvars
<1>3. \A t \in Socket : ready[t] = "OPEN" => t = s
  BY <1>2 DEF ClientInv, OneSocket, Pendant
<1>4. \A t \in Socket : Following(t) \in SUBSET Channel /\ Following(t)' = Following(t)
  BY <1>2 DEF Following
<1>5. Counted BY DEF FramesInv
<1>6. q \in Seq(QueuedFrame) BY <1>1, <1>5 DEF Counted
<1>7. PICK r : r = Tail(q) OBVIOUS
<1>8. /\ r \in Seq(QueuedFrame) /\ f = q[1] /\ 1 \in DOMAIN q
      /\ \A n \in DOMAIN q : n = 1 \/ (n - 1 \in DOMAIN r /\ r[n - 1] = q[n])
  BY <1>1, <1>2, <1>6, <1>7, TailIs
<1>9. f.ch \in Channel /\ f.seq \in Nat /\ f.first \in Nat /\ f.last \in Nat
  <2>1. f \in QueuedFrame BY <1>6, <1>8
  <2> QED BY <2>1 DEF QueuedFrame
<1>10. /\ Good(q, Following(s), since[s], flushed, chSeq)
       /\ GoodAfter(q, seen, Following(s), since[s], flushed, chSeq)
  BY <1>1, <1>2 DEF FramesInv, Queued
<1>11. /\ f.first <= f.last /\ f.last <= flushed[f.ch] /\ f.seq <= chSeq[f.ch]
       /\ f.first > seen[f.ch].last
  BY <1>8, <1>10 DEF Good, GoodAfter
<1>12. /\ outbox'[s] = r /\ \A t \in Socket : t # s => outbox'[t] = outbox[t]
       /\ seen'[f.ch].last = f.last /\ seen'[f.ch].first = f.first /\ seen'[f.ch].seq = f.seq
       /\ \A ch \in Channel : ch # f.ch => seen'[ch] = seen[ch]
  BY <1>2, <1>5, <1>7, <1>9 DEF Counted
<1>13. Counted'
  <2>1. outbox' \in [Socket -> Seq(QueuedFrame)] BY <1>2, <1>5, <1>7, <1>8 DEF Counted
  <2>2. seen' \in [Channel -> Frame]
    <3>1. [seq |-> f.seq, first |-> f.first, last |-> f.last] \in Frame BY <1>9 DEF Frame
    <3> QED BY <1>2, <1>5, <3>1 DEF Counted
  <2>3. ASSUME NEW ch \in Channel
        PROVE  seen'[ch].first <= seen'[ch].last /\ seen'[ch].last <= flushed[ch] /\ seen'[ch].seq <= chSeq[ch]
    BY <1>5, <1>11, <1>12 DEF Counted
  <2> QED BY <1>2, <1>5, <2>1, <2>2, <2>3 DEF Counted
<1>14. Queued'
  <2>1. Good(r, Following(s), since[s], flushed, chSeq)
        /\ GoodAfter(r, seen', Following(s), since[s], flushed, chSeq)
    <3>1. PICK se, se2, S, si, fl, cs :
            /\ se = seen /\ se2 = seen' /\ S = Following(s) /\ si = since[s]
            /\ fl = flushed /\ cs = chSeq
      OBVIOUS
    <3>2. /\ q \in Seq(QueuedFrame) /\ q # <<>> /\ se \in [Channel -> Frame] /\ f = Head(q)
          /\ se2 = [se EXCEPT ![f.ch] = [seq |-> f.seq, first |-> f.first, last |-> f.last]]
          /\ S \in SUBSET Channel /\ Good(q, S, si, fl, cs) /\ GoodAfter(q, se, S, si, fl, cs)
      BY <1>1, <1>2, <1>4, <1>5, <1>6, <1>10, <3>1 DEF Counted
    <3>3. Good(Tail(q), S, si, fl, cs) /\ GoodAfter(Tail(q), se2, S, si, fl, cs)
      BY <3>2, DeliverGood
    <3> QED BY <1>7, <3>1, <3>3
  <2>2. ASSUME NEW t \in Socket, t # s
        PROVE  Good(outbox'[t], Following(t), since[t], flushed, chSeq) /\ ready[t] # "OPEN"
    BY <1>3, <1>12, <2>2 DEF FramesInv, Queued
  <2> QED BY <1>2, <1>4, <1>12, <2>1, <2>2 DEF Queued
<1>15. Silent'
  <2>1. \A t \in Socket : ready[t] \in {"NEW", "CONNECTING"} => t # s BY <1>2
  <2> QED BY <1>2, <1>4, <1>12, <2>1 DEF FramesInv, Silent
<1>16. Covered'
  <2> SUFFICES ASSUME NEW ch \in Channel, s \in subs[ch], s \notin overrun,
                      NEW item \in (Followed(s, ch)' + 1)..flushed[ch]
               PROVE  \E n \in DOMAIN r : r[n].ch = ch /\ r[n].first <= item /\ item <= r[n].last
    BY <1>2, <1>3, <1>12 DEF Covered, Reaches
  <2>1. PICK x \in Nat, y \in Nat, y2 \in Nat, k \in Nat, w \in Nat :
          /\ x = seen[ch].first /\ y = seen[ch].last /\ y2 = seen'[ch].last
          /\ k = since[s][ch] /\ w = flushed[ch]
    <3>1. seen[ch] \in Frame /\ seen'[ch] \in Frame BY <1>5, <1>13 DEF Counted
    <3>2. seen[ch].first \in Nat /\ seen[ch].last \in Nat /\ seen'[ch].last \in Nat
      BY <3>1 DEF Frame
    <3>3. since[s][ch] \in Nat /\ flushed[ch] \in Nat BY <1>5 DEF Counted
    <3> QED BY <3>2, <3>3
  <2>2. y <= y2 /\ (ch = f.ch => y2 = f.last)
    <3>1. CASE ch = f.ch
      <4>1. y2 = f.last /\ f.first > y /\ f.first <= f.last BY <1>11, <1>12, <2>1, <3>1
      <4> QED BY <1>9, <4>1
    <3>2. CASE ch # f.ch
      <4>1. y2 = y BY <1>12, <2>1, <3>2
      <4> QED BY <3>2, <4>1
    <3> QED BY <3>1, <3>2
  <2>3. Followed(s, ch) = (IF y > k THEN y ELSE k) /\ Followed(s, ch)' = (IF y2 > k THEN y2 ELSE k)
    BY <1>2, <2>1 DEF Followed
  <2>4. item \in Int /\ item <= w /\ item > y2 /\ item > y /\ item > k BY <2>1, <2>2, <2>3
  <2>5. item \in (Followed(s, ch) + 1)..flushed[ch] BY <2>1, <2>3, <2>4
  <2>6. PICK n \in DOMAIN q : q[n].ch = ch /\ q[n].first <= item /\ item <= q[n].last
    BY <1>1, <1>2, <2>5 DEF FramesInv, Covered, Reaches
  <2>7. n # 1
    <3> SUFFICES ASSUME n = 1 PROVE FALSE OBVIOUS
    <3>1. ch = f.ch /\ item <= f.last BY <1>8, <2>6
    <3> QED BY <1>9, <2>2, <2>4, <3>1
  <2>8. PICK m \in DOMAIN r : r[m] = q[n] BY <1>8, <2>7
  <2> QED BY <2>6, <2>8
<1> QED BY <1>13, <1>14, <1>15, <1>16 DEF FramesInv


\* What a step that concerns one connection has to show for it.
LEMMA FramesAt ==
  ASSUME FramesInv, NEW s \in Socket, UNCHANGED <<pushed, flushed, chSeq, seen>>,
         outbox' \in [Socket -> Seq(QueuedFrame)], since' \in [Socket -> [Channel -> Nat]],
         \A t \in Socket \ {s} :
           /\ outbox'[t] = outbox[t] /\ since'[t] = since[t] /\ up'[t] = up[t]
           /\ Following(t)' = Following(t) /\ ready'[t] = ready[t]
           /\ t \in overrun' <=> t \in overrun,
         \A ch \in Channel : since'[s][ch] <= flushed[ch],
         Good(outbox'[s], Following(s)', since'[s], flushed, chSeq),
         ready'[s] = "OPEN" => GoodAfter(outbox'[s], seen, Following(s)', since'[s], flushed, chSeq),
         ready'[s] \notin {"NEW", "CONNECTING"},
         \A ch \in Channel :
           s \in subs'[ch] \ overrun' /\ ready'[s] = "OPEN" =>
             Reaches(outbox'[s], ch, Followed(s, ch)', flushed[ch])
  PROVE  FramesInv'
<1>1. Counted'
  <2>1. ASSUME NEW ch \in Channel, NEW t \in Socket PROVE since'[t][ch] <= flushed[ch]
    <3>1. CASE t = s BY <3>1
    <3>2. CASE t # s BY <3>2 DEF FramesInv, Counted
    <3> QED BY <3>1, <3>2
  <2> QED BY <2>1 DEF FramesInv, Counted
<1>2. Queued'
  <2>1. ASSUME NEW t \in Socket, t # s
        PROVE  /\ Good(outbox'[t], Following(t)', since'[t], flushed, chSeq)
               /\ ready'[t] = "OPEN" =>
                    GoodAfter(outbox'[t], seen, Following(t)', since'[t], flushed, chSeq)
    BY <2>1 DEF FramesInv, Queued
  <2> QED BY <2>1 DEF Queued
<1>3. Silent'
  <2>1. ASSUME NEW t \in Socket, t # s, ready'[t] \in {"NEW", "CONNECTING"}
        PROVE  outbox'[t] = <<>> /\ up'[t] = <<>> /\ Following(t)' = {}
    BY <2>1 DEF FramesInv, Silent
  <2> QED BY <2>1 DEF Silent
<1>4. Covered'
  <2> SUFFICES ASSUME NEW t \in Socket, NEW ch \in Channel,
                      t \in subs'[ch] \ overrun', ready'[t] = "OPEN"
               PROVE  Reaches(outbox'[t], ch, Followed(t, ch)', flushed[ch])
    BY DEF Covered
  <2>1. CASE t = s BY <2>1
  <2>2. CASE t # s
    <3>1. Followed(t, ch)' = Followed(t, ch) BY <2>2 DEF Followed
    <3>2. t \in subs[ch] /\ t \notin overrun /\ ready[t] = "OPEN"
      <4>1. ch \in Following(t)' BY DEF Following
      <4>2. ch \in Following(t) BY <2>2, <4>1
      <4> QED BY <2>2, <4>2 DEF Following
    <3>3. Reaches(outbox[t], ch, Followed(t, ch), flushed[ch])
      BY <3>2 DEF FramesInv, Covered
    <3> QED BY <2>2, <3>1, <3>3
  <2> QED BY <2>1, <2>2
<1> QED BY <1>1, <1>2, <1>3, <1>4 DEF FramesInv

\* A subscription that begins now has no frames and misses no items yet.
LEMMA SubscribeGood ==
  ASSUME NEW q \in Seq(QueuedFrame), NEW S \in SUBSET Channel, NEW si \in [Channel -> Nat],
         NEW fl \in [Channel -> Nat], NEW cs, NEW ch \in Channel, NEW si2,
         si2 = [si EXCEPT ![ch] = fl[ch]], Good(q, S, si, fl, cs)
  PROVE  /\ Good(q, S \cup {ch}, si2, fl, cs)
         /\ \A se \in [Channel -> Frame] :
              /\ GoodAfter(q, se, S, si, fl, cs)
              /\ se[ch].first <= se[ch].last /\ se[ch].last <= fl[ch]
              => GoodAfter(q, se, S \cup {ch}, si2, fl, cs)
<1>1. si2[ch] = fl[ch] /\ \A c \in Channel : c # ch => si2[c] = si[c]
  OBVIOUS
<1>2. ASSUME NEW n \in DOMAIN q
      PROVE  /\ q[n].ch \in Channel /\ q[n].first \in Nat /\ q[n].last \in Nat
             /\ q[n].ch = ch => ~(q[n].first > si2[ch])
  <2>1. q[n] \in QueuedFrame OBVIOUS
  <2>2. q[n].first <= q[n].last /\ q[n].last <= fl[q[n].ch] BY DEF Good
  <2>3. q[n].ch \in Channel /\ q[n].first \in Nat /\ q[n].last \in Nat /\ fl[q[n].ch] \in Nat
    BY <2>1 DEF QueuedFrame
  <2> QED BY <1>1, <2>2, <2>3
<1>3. ASSUME NEW n \in DOMAIN q
      PROVE  /\ q[n].first > 0 /\ q[n].first <= q[n].last
             /\ q[n].last <= fl[q[n].ch] /\ q[n].seq <= cs[q[n].ch]
             /\ q[n].first <= si2[q[n].ch] => q[n].last <= si2[q[n].ch]
             /\ (q[n].ch \in S \cup {ch} /\ q[n].first > si2[q[n].ch] /\ q[n].seq = cs[q[n].ch])
                  => q[n].last = fl[q[n].ch]
  <2>1. CASE q[n].ch = ch BY <1>1, <1>2, <2>1 DEF Good
  <2>2. CASE q[n].ch # ch
    <3>1. si2[q[n].ch] = si[q[n].ch] BY <1>1, <1>2, <2>2
    <3> QED BY <2>2, <3>1 DEF Good
  <2> QED BY <2>1, <2>2
<1>4. ASSUME NEW m \in DOMAIN q, NEW n \in DOMAIN q, m < n, q[m].ch = q[n].ch
      PROVE  /\ q[m].last < q[n].first /\ q[m].seq < q[n].seq
             /\ (q[n].ch \in S \cup {ch} /\ q[m].first > si2[q[n].ch]) => Follows(q[n], q[m])
  <2>1. CASE q[n].ch = ch BY <1>2, <1>4, <2>1 DEF Good
  <2>2. CASE q[n].ch # ch
    <3>1. si2[q[n].ch] = si[q[n].ch] BY <1>1, <1>2, <2>2
    <3> QED BY <1>4, <2>2, <3>1 DEF Good
  <2> QED BY <2>1, <2>2
<1>5. ASSUME NEW se \in [Channel -> Frame], GoodAfter(q, se, S, si, fl, cs),
             se[ch].first <= se[ch].last, se[ch].last <= fl[ch]
      PROVE  GoodAfter(q, se, S \cup {ch}, si2, fl, cs)
  <2>1. ~(se[ch].first > si2[ch])
    <3>1. se[ch] \in Frame OBVIOUS
    <3>2. se[ch].first \in Nat /\ se[ch].last \in Nat /\ fl[ch] \in Nat BY <3>1 DEF Frame
    <3> QED BY <1>1, <1>5, <3>2
  <2>2. ASSUME NEW n \in DOMAIN q
        PROVE  /\ q[n].first > se[q[n].ch].last /\ q[n].seq > se[q[n].ch].seq
               /\ (q[n].ch \in S \cup {ch} /\ se[q[n].ch].first > si2[q[n].ch])
                    => Follows(q[n], se[q[n].ch])
    <3>1. CASE q[n].ch = ch BY <1>5, <2>1, <3>1 DEF GoodAfter
    <3>2. CASE q[n].ch # ch
      <4>1. si2[q[n].ch] = si[q[n].ch] BY <1>1, <1>2, <3>2
      <4> QED BY <1>5, <3>2, <4>1 DEF GoodAfter
    <3> QED BY <3>1, <3>2
  <2>3. ASSUME NEW c \in S \cup {ch}, se[c].first > si2[c], se[c].seq = cs[c]
        PROVE  se[c].last = fl[c]
    BY <1>1, <1>5, <2>1, <2>3 DEF GoodAfter
  <2> QED BY <2>2, <2>3 DEF GoodAfter
<1> QED BY <1>3, <1>4, <1>5 DEF Good

LEMMA FramesReceive ==
  ASSUME FramesInv, ServerInv, NEW s \in Socket, Receive(s)
  PROVE  FramesInv'
<1>1. PICK ch, type : ch = Head(up[s]).ch /\ type = Head(up[s]).type OBVIOUS
<1>2. ch \in Channel
  <2>1. up[s] \in Seq(NetMessage) /\ up[s] # <<>> BY DEF ServerInv, Receive
  <2>2. Head(up[s]) \in NetMessage BY <2>1
  <2> QED BY <1>1, <2>2 DEF NetMessage
<1>3. /\ s \in registered
      /\ UNCHANGED <<pushed, flushed, chSeq, seen, outbox, overrun, ready>>
      /\ \A t \in Socket : t # s => up'[t] = up[t]
  BY DEF Receive, SubscribeChannel, UnsubscribeChannel, netvars, ServerInv, NoGhostSubscribers
<1>4. ready[s] \notin {"NEW", "CONNECTING"}
  BY DEF FramesInv, Silent, Receive
<1>5. Counted /\ subs \in [Channel -> SUBSET Socket] BY DEF FramesInv, ServerInv
<1>6. PICK q, S, si : q = outbox[s] /\ S = Following(s) /\ si = since[s] OBVIOUS
<1>7. /\ q \in Seq(QueuedFrame) /\ S \in SUBSET Channel /\ si \in [Channel -> Nat]
      /\ \A c \in Channel : si[c] <= flushed[c]
      /\ Good(q, S, si, flushed, chSeq)
      /\ ready[s] = "OPEN" => GoodAfter(q, seen, S, si, flushed, chSeq)
  BY <1>5, <1>6 DEF Counted, FramesInv, Queued, Following
<1>8. CASE type = "SUBSCRIBE" /\ s \notin subs[ch]
  <2>1. subs' = [subs EXCEPT ![ch] = @ \cup {s}] /\ since' = [since EXCEPT ![s][ch] = flushed[ch]]
    BY <1>1, <1>3, <1>8 DEF Receive, SubscribeChannel
  <2>2. since' \in [Socket -> [Channel -> Nat]] BY <1>2, <1>5, <2>1 DEF Counted
  <2>3. PICK si2 : si2 = since'[s] OBVIOUS
  <2>4. /\ si2 = [si EXCEPT ![ch] = flushed[ch]]
        /\ \A t \in Socket : t # s => since'[t] = since[t]
    BY <1>2, <1>5, <1>6, <2>1, <2>3 DEF Counted
  <2>5. Following(s)' = S \cup {ch} /\ \A t \in Socket : t # s => Following(t)' = Following(t)
    BY <1>2, <1>5, <1>6, <2>1 DEF Following
  <2>6. PICK se, fl, cs : se = seen /\ fl = flushed /\ cs = chSeq OBVIOUS
  <2>7. /\ se \in [Channel -> Frame] /\ fl \in [Channel -> Nat]
        /\ se[ch].first <= se[ch].last /\ se[ch].last <= fl[ch]
    BY <1>2, <1>5, <2>6 DEF Counted
  <2>8. /\ Good(q, S, si, fl, cs) /\ si2 = [si EXCEPT ![ch] = fl[ch]]
        /\ ready[s] = "OPEN" => GoodAfter(q, se, S, si, fl, cs)
    BY <1>7, <2>4, <2>6
  <2>9. Good(q, S \cup {ch}, si2, fl, cs) BY <1>2, <1>7, <2>7, <2>8, SubscribeGood
  <2>10. ready[s] = "OPEN" => GoodAfter(q, se, S \cup {ch}, si2, fl, cs)
    BY <1>2, <1>7, <2>7, <2>8, SubscribeGood
  <2>11. \A c \in Channel : si2[c] <= flushed[c]
    BY <1>2, <1>5, <1>7, <2>4 DEF Counted
  <2>12. ASSUME NEW c \in Channel, s \in subs'[c] \ overrun', ready'[s] = "OPEN"
         PROVE  Reaches(outbox'[s], c, Followed(s, c)', flushed[c])
    <3>1. CASE c = ch
      <4>1. PICK w \in Nat, y \in Nat : w = flushed[ch] /\ y = seen[ch].last /\ y <= w
        <5>1. seen[ch] \in Frame /\ seen[ch].last <= flushed[ch] /\ flushed[ch] \in Nat
          BY <1>2, <1>5 DEF Counted
        <5> QED BY <5>1 DEF Frame
      <4>2. since'[s][c] = w BY <1>2, <1>7, <2>3, <2>4, <3>1, <4>1
      <4>3. Followed(s, c)' = IF y > w THEN y ELSE w BY <1>3, <3>1, <4>1, <4>2 DEF Followed
      <4>4. Followed(s, c)' = w BY <4>1, <4>3
      <4>5. (w + 1)..w = {} BY <4>1
      <4> QED BY <3>1, <4>1, <4>4, <4>5 DEF Reaches
    <3>2. CASE c # ch
      <4>1. s \in subs[c] BY <1>2, <1>5, <2>1, <2>12, <3>2
      <4>2. since'[s][c] = since[s][c] BY <1>6, <1>7, <2>3, <2>4, <3>2
      <4>3. Followed(s, c)' = Followed(s, c) BY <1>3, <4>2 DEF Followed
      <4>4. s \notin overrun /\ ready[s] = "OPEN" BY <1>3, <2>12
      <4>5. Reaches(outbox[s], c, Followed(s, c), flushed[c])
        BY <4>1, <4>4 DEF FramesInv, Covered
      <4> QED BY <1>3, <4>3, <4>5
    <3> QED BY <3>1, <3>2
  <2>13. outbox' \in [Socket -> Seq(QueuedFrame)] /\ outbox'[s] = q
    BY <1>3, <1>5, <1>6 DEF Counted
  <2>14. \A t \in Socket \ {s} :
           /\ outbox'[t] = outbox[t] /\ since'[t] = since[t] /\ up'[t] = up[t]
           /\ Following(t)' = Following(t) /\ ready'[t] = ready[t]
           /\ t \in overrun' <=> t \in overrun
    BY <1>3, <2>4, <2>5
  <2>15. /\ Good(outbox'[s], Following(s)', since'[s], flushed, chSeq)
         /\ ready'[s] = "OPEN" =>
              GoodAfter(outbox'[s], seen, Following(s)', since'[s], flushed, chSeq)
    BY <1>3, <2>3, <2>5, <2>6, <2>9, <2>10, <2>13
  <2>16. ready'[s] \notin {"NEW", "CONNECTING"} /\ \A c \in Channel : since'[s][c] <= flushed[c]
    BY <1>3, <1>4, <2>3, <2>11
  <2> QED BY <1>3, <2>2, <2>12, <2>13, <2>14, <2>15, <2>16, FramesAt
<1>9. CASE ~(type = "SUBSCRIBE" /\ s \notin subs[ch])
  <2>1. since' = since
    BY <1>1, <1>3, <1>9 DEF Receive, SubscribeChannel, UnsubscribeChannel
  <2>2. \/ subs' = [subs EXCEPT ![ch] = @ \cup {s}] /\ s \in subs[ch]
        \/ subs' = [subs EXCEPT ![ch] = @ \ {s}]
    BY <1>1, <1>3, <1>9 DEF Receive, SubscribeChannel, UnsubscribeChannel
  <2>3. /\ Following(s)' \subseteq S
        /\ \A t \in Socket : t # s => Following(t)' = Following(t)
    BY <1>2, <1>5, <1>6, <2>2 DEF Following
  <2>4. PICK S2 : S2 = Following(s)' OBVIOUS
  <2>5. /\ Good(q, S2, si, flushed, chSeq)
        /\ ready[s] = "OPEN" => GoodAfter(q, seen, S2, si, flushed, chSeq)
    <3>1. S2 \subseteq S BY <2>3, <2>4
    <3> QED BY <1>7, <3>1 DEF Good, GoodAfter
  <2>6. ASSUME NEW c \in Channel, s \in subs'[c] \ overrun', ready'[s] = "OPEN"
        PROVE  Reaches(outbox'[s], c, Followed(s, c)', flushed[c])
    <3>1. s \in subs[c] BY <1>2, <1>5, <2>2, <2>6
    <3>2. Followed(s, c)' = Followed(s, c) BY <1>3, <2>1 DEF Followed
    <3>3. s \notin overrun /\ ready[s] = "OPEN" BY <1>3, <2>6
    <3>4. Reaches(outbox[s], c, Followed(s, c), flushed[c])
      BY <3>1, <3>3 DEF FramesInv, Covered
    <3> QED BY <1>3, <3>2, <3>4
  <2>7. outbox' \in [Socket -> Seq(QueuedFrame)] /\ since' \in [Socket -> [Channel -> Nat]]
    BY <1>3, <1>5, <2>1 DEF Counted
  <2>8. \A t \in Socket \ {s} :
          /\ outbox'[t] = outbox[t] /\ since'[t] = since[t] /\ up'[t] = up[t]
          /\ Following(t)' = Following(t) /\ ready'[t] = ready[t]
          /\ t \in overrun' <=> t \in overrun
    BY <1>3, <2>1, <2>3
  <2>9. /\ Good(outbox'[s], Following(s)', since'[s], flushed, chSeq)
        /\ ready'[s] = "OPEN" =>
             GoodAfter(outbox'[s], seen, Following(s)', since'[s], flushed, chSeq)
    BY <1>3, <1>6, <2>1, <2>4, <2>5
  <2>10. ready'[s] \notin {"NEW", "CONNECTING"} /\ \A c \in Channel : since'[s][c] <= flushed[c]
    BY <1>3, <1>4, <1>6, <1>7, <2>1
  <2> QED BY <1>3, <2>6, <2>7, <2>8, <2>9, <2>10, FramesAt
<1> QED BY <1>8, <1>9

LEMMA FramesEnds ==
  ASSUME FramesInv, ServerInv, NEW s \in Socket, EndpointEnds(s)
  PROVE  FramesInv'
<1>1. /\ ready[s] \in {"CLOSING", "CLOSED"}
      /\ outbox' = [outbox EXCEPT ![s] = <<>>]
      /\ subs' = [ch \in Channel |-> IF ch \in channelsOf[s] THEN subs[ch] \ {s} ELSE subs[ch]]
      /\ since' = [since EXCEPT ![s] = [ch \in Channel |-> 0]]
      /\ overrun' = overrun \ {s} /\ up' = [up EXCEPT ![s] = <<>>]
      /\ UNCHANGED <<pushed, flushed, chSeq, seen, ready>>
  BY DEF EndpointEnds, UnregisterClient
<1>2. Counted BY DEF FramesInv
<1>3. Following(s)' = {} /\ \A t \in Socket : t # s => Following(t)' = Following(t)
  BY <1>1 DEF Following, ServerInv, NoGhostSubscribers
<1>4. outbox' \in [Socket -> Seq(QueuedFrame)] /\ outbox'[s] = <<>>
  BY <1>1, <1>2 DEF Counted
<1>5. since' \in [Socket -> [Channel -> Nat]] /\ \A ch \in Channel : since'[s][ch] = 0
  BY <1>1, <1>2 DEF Counted
<1>6. \A t \in Socket : t # s =>
        outbox'[t] = outbox[t] /\ since'[t] = since[t] /\ (t \in overrun' <=> t \in overrun)
        /\ up'[t] = up[t]
  BY <1>1, <1>2 DEF Counted, ServerInv
<1>7. \A ch \in Channel : since'[s][ch] <= flushed[ch]
  BY <1>2, <1>5 DEF Counted
<1>8. \A S, si, fl, cs : Good(<<>>, S, si, fl, cs)
  BY DEF Good
<1>9. ready'[s] # "OPEN" /\ ready'[s] \notin {"NEW", "CONNECTING"} BY <1>1
<1> QED BY <1>1, <1>3, <1>4, <1>5, <1>6, <1>7, <1>8, <1>9, FramesAt

\* A connection that opens has nothing in its queue and follows nothing yet.
LEMMA FramesOpen ==
  ASSUME FramesInv, ClientTypes, NEW s \in Socket, Open(s)
  PROVE  FramesInv'
<1>1. /\ ready[s] = "CONNECTING" /\ ready' = [ready EXCEPT ![s] = "OPEN"]
      /\ UNCHANGED <<outbox, since, overrun, subs, pushed, flushed, chSeq, seen>>
  BY DEF Open, OnOpen, bvars, netvars
<1>2. \A t \in Socket : t # s => up'[t] = up[t]
  <2>1. PICK order \in SetToSeqs(subscriptions) :
          up' = IF ws = s
                THEN [up EXCEPT ![s] = [n \in DOMAIN order |-> Message("SUBSCRIBE", order[n])]]
                ELSE up
    BY DEF Open, OnOpen
  <2> QED BY <2>1
<1>3. Counted BY DEF FramesInv
<1>4. outbox[s] = <<>> /\ Following(s) = {} BY <1>1 DEF FramesInv, Silent
<1>5. \A t \in Socket : Following(t)' = Following(t) BY <1>1 DEF Following
<1>6. ready'[s] = "OPEN" /\ \A t \in Socket : t # s => ready'[t] = ready[t]
  BY <1>1 DEF ClientTypes
<1>8. \A ch \in Channel : s \notin subs'[ch] BY <1>1, <1>4 DEF Following
<1>9. /\ outbox' \in [Socket -> Seq(QueuedFrame)] /\ since' \in [Socket -> [Channel -> Nat]]
      /\ \A ch \in Channel : since'[s][ch] <= flushed[ch]
  BY <1>1, <1>3 DEF Counted
<1>10. \A t \in Socket \ {s} :
         /\ outbox'[t] = outbox[t] /\ since'[t] = since[t] /\ up'[t] = up[t]
         /\ Following(t)' = Following(t) /\ ready'[t] = ready[t]
         /\ t \in overrun' <=> t \in overrun
  BY <1>1, <1>2, <1>5, <1>6
<1>11. /\ Good(outbox'[s], Following(s)', since'[s], flushed, chSeq)
       /\ ready'[s] = "OPEN" =>
            GoodAfter(outbox'[s], seen, Following(s)', since'[s], flushed, chSeq)
  <2>1. outbox'[s] = <<>> /\ Following(s)' = {} BY <1>1, <1>4, <1>5
  <2>2. Good(<<>>, {}, since'[s], flushed, chSeq) BY DEF Good
  <2>3. GoodAfter(<<>>, seen, {}, since'[s], flushed, chSeq) BY DEF GoodAfter
  <2> QED BY <2>1, <2>2, <2>3
<1>12. \A ch \in Channel :
         s \in subs'[ch] \ overrun' /\ ready'[s] = "OPEN" =>
           Reaches(outbox'[s], ch, Followed(s, ch)', flushed[ch])
  BY <1>8
<1>13. ready'[s] \notin {"NEW", "CONNECTING"} /\ \A ch \in Channel : since'[s][ch] <= flushed[ch]
  BY <1>6, <1>9
<1> QED BY <1>1, <1>9, <1>10, <1>11, <1>12, <1>13, FramesAt

\* connect() makes a socket that has carried nothing.
LEMMA FramesConnect ==
  ASSUME FramesInv, ClientInv, Connect, UNCHANGED <<bvars, netvars, up>>
  PROVE  FramesInv'
<1>1. UNCHANGED <<outbox, subs, flushed, chSeq, since, overrun, seen, pushed, up>>
  BY DEF bvars, netvars
<1>2. \A s \in Socket : ready'[s] # ready[s] => ready[s] = "NEW" /\ ready'[s] = "CONNECTING"
  <2>1. CASE ready' = ready BY <2>1
  <2>2. CASE ready' = [ready EXCEPT ![opened + 1] = "CONNECTING"]
    <3>1. opened \in Nat BY DEF ClientInv, ClientTypes
    <3>2. \A s \in Socket : s = opened + 1 => ready[s] = "NEW"
      BY <3>1 DEF ClientInv, Attempts, Socket
    <3>3. \A s \in Socket : ready'[s] = IF s = opened + 1 THEN "CONNECTING" ELSE ready[s]
      BY <2>2 DEF ClientInv, ClientTypes
    <3> QED BY <3>2, <3>3
  <2> QED BY <2>1, <2>2 DEF Connect
<1>3. Counted BY DEF FramesInv
<1>4. pushed' \in [Channel -> Nat] /\ \A ch \in Channel : pushed[ch] <= pushed'[ch]
  BY <1>1, <1>3 DEF Counted
<1> QED BY <1>1, <1>2, <1>4, FramesStill

\* Every step keeps the frames in order.
LEMMA FramesStep ==
  ASSUME FramesInv, ServerInv, ClientInv, [Next]_vars
  PROVE  FramesInv'
<1>0. Counted /\ ClientTypes BY DEF FramesInv, ClientInv
<1>A. pushed \in [Channel -> Nat] /\ \A ch \in Channel : pushed[ch] <= pushed[ch]
  BY <1>0 DEF Counted
<1>1. CASE Mount
  BY <1>1, FramesConnect DEF Mount, AppConnects
<1>2. CASE Unmount
  <2>1. UNCHANGED <<outbox, subs, flushed, chSeq, since, overrun, seen, pushed, up>>
    BY <1>2 DEF Unmount, AppDisconnects, bvars, netvars
  <2>2. \A s \in Socket : ready'[s] = ready[s] \/ ready'[s] = "CLOSING"
    BY <1>2 DEF Unmount, AppDisconnects
  <2> QED BY <1>A, <2>1, <2>2, FramesStill
<1>3. CASE Reconnect
  BY <1>3, FramesConnect DEF Reconnect, TimerFires
<1>4. CASE Flush
  BY <1>4, FramesFlush
<1>5. ASSUME NEW ch \in Selectable, Choose(ch)
      PROVE  FramesInv'
  <2>1. UNCHANGED <<outbox, subs, flushed, chSeq, since, overrun, seen, pushed, ready>>
    BY <1>5 DEF Choose, AppSubscribes, AppUnsubscribes, bvars, netvars
  <2>2. \/ up' = IF IsOpen(ws) THEN [up EXCEPT ![ws] = Append(@, Message("SUBSCRIBE", ch))] ELSE up
        \/ up' = IF IsOpen(ws) THEN [up EXCEPT ![ws] = Append(@, Message("UNSUBSCRIBE", ch))] ELSE up
    BY <1>5 DEF Choose, AppSubscribes, AppUnsubscribes, SendIfOpen
  <2>3. \A s \in Socket : ready[s] \in {"NEW", "CONNECTING"} => up'[s] = up[s]
    <3>1. \A s \in Socket : ready[s] \in {"NEW", "CONNECTING"} /\ IsOpen(ws) => s # ws
      BY DEF IsOpen
    <3>2. up \in [Socket -> Seq(NetMessage)] BY DEF ServerInv
    <3> QED BY <2>2, <3>1, <3>2
  <2> QED BY <1>A, <2>1, <2>3, FramesStill
<1>6. ASSUME NEW S \in Producers, Produce(S)
      PROVE  FramesInv'
  <2>1. /\ UNCHANGED <<outbox, subs, flushed, chSeq, since, overrun, seen, ready, up>>
        /\ pushed' = [ch \in Channel |-> IF ch \in S THEN pushed[ch] + 1 ELSE pushed[ch]]
    BY <1>6 DEF Produce, Push, cvars, netvars
  <2>2. pushed' \in [Channel -> Nat] /\ \A ch \in Channel : pushed[ch] <= pushed'[ch]
    <3>1. \A ch \in Channel : pushed[ch] \in Nat BY <1>A
    <3> QED BY <2>1, <3>1
  <2> QED BY <2>1, <2>2, FramesStill
<1>7. ASSUME NEW s \in Socket, Accept(s)
      PROVE  FramesInv'
  <2>1. /\ ready[s] = "CONNECTING" /\ outbox' = [outbox EXCEPT ![s] = <<>>]
        /\ UNCHANGED <<subs, flushed, chSeq, since, overrun, seen, pushed, ready, up>>
    BY <1>7 DEF Accept, RegisterClient, cvars
  <2>2. outbox[s] = <<>> BY <2>1 DEF FramesInv, Silent
  <2>3. outbox' = outbox BY <1>0, <2>1, <2>2 DEF Counted
  <2> QED BY <1>A, <2>1, <2>3, FramesStill
<1>8. ASSUME NEW s \in Socket, Receive(s)
      PROVE  FramesInv'
  BY <1>8, FramesReceive
<1>9. ASSUME NEW s \in Socket, EndpointEnds(s)
      PROVE  FramesInv'
  BY <1>9, FramesEnds
<1>10. ASSUME NEW s \in Socket, Open(s)
       PROVE  FramesInv'
  BY <1>0, <1>10, FramesOpen
<1>11. ASSUME NEW s \in Socket, Deliver(s)
       PROVE  FramesInv'
  BY <1>11, FramesDeliver
<1>12. ASSUME NEW s \in Socket, NEW error \in BOOLEAN, Closed(s, error)
       PROVE  FramesInv'
  <2>1. UNCHANGED <<outbox, subs, flushed, chSeq, since, overrun, seen, pushed, up>>
    BY <1>12 DEF Closed, OnClose, bvars
  <2>2. \A t \in Socket : ready'[t] = ready[t] \/ ready'[t] \in {"CLOSING", "CLOSED"}
    BY <1>12 DEF Closed, OnClose
  <2> QED BY <1>A, <2>1, <2>2, FramesStill
<1>13. CASE UNCHANGED vars
  <2>1. UNCHANGED <<outbox, subs, flushed, chSeq, since, overrun, seen, pushed, ready, up>>
    BY <1>13 DEF vars, bvars, cvars, netvars
  <2> QED BY <1>A, <2>1, FramesStill
<1> QED
  BY <1>1, <1>2, <1>3, <1>4, <1>5, <1>6, <1>7, <1>8, <1>9, <1>10, <1>11, <1>12, <1>13 DEF Next

\* Of the frames in a queue, those of the present subscription are what has not been seen.
LEMMA ComingIs ==
  ASSUME FramesInv, NEW s \in Socket, NEW ch \in Channel, s \in subs[ch], ready[s] = "OPEN"
  PROVE  /\ since[s][ch] \in Nat /\ seen[ch] \in Frame /\ flushed[ch] \in Nat
         /\ \A n \in DOMAIN outbox[s] :
              LET f == outbox[s][n] IN
              /\ n \in Nat /\ f \in QueuedFrame
              /\ f.first <= f.last
              /\ f.ch = ch => /\ f.first <= since[s][ch] => f.last <= since[s][ch]
                              /\ f.first > seen[ch].last
                              /\ seen[ch].first > since[s][ch] => Follows(f, seen[ch])
         /\ \A m, n \in DOMAIN outbox[s] :
              LET e == outbox[s][m]
                  f == outbox[s][n]
              IN  m < n /\ e.ch = ch /\ f.ch = ch =>
                    e.last < f.first /\ (e.first > since[s][ch] => Follows(f, e))
<1>1. Counted BY DEF FramesInv
<1>2. PICK q, S, si : q = outbox[s] /\ S = Following(s) /\ si = since[s] OBVIOUS
<1>3. /\ q \in Seq(QueuedFrame) /\ ch \in S
      /\ Good(q, S, si, flushed, chSeq) /\ GoodAfter(q, seen, S, si, flushed, chSeq)
  BY <1>1, <1>2 DEF FramesInv, Queued, Following, Counted
<1>4. \A n \in DOMAIN q : n \in Nat /\ q[n] \in QueuedFrame BY <1>3
<1>5. ASSUME NEW n \in DOMAIN q
      PROVE  /\ q[n].first <= q[n].last
             /\ q[n].ch = ch => /\ q[n].first <= si[ch] => q[n].last <= si[ch]
                                /\ q[n].first > seen[ch].last
                                /\ seen[ch].first > si[ch] => Follows(q[n], seen[ch])
  BY <1>3 DEF Good, GoodAfter
<1>6. ASSUME NEW m \in DOMAIN q, NEW n \in DOMAIN q, m < n, q[m].ch = ch, q[n].ch = ch
      PROVE  q[m].last < q[n].first /\ (q[m].first > si[ch] => Follows(q[n], q[m]))
  BY <1>3, <1>6 DEF Good
<1>7. since[s][ch] \in Nat /\ seen[ch] \in Frame /\ flushed[ch] \in Nat BY <1>1 DEF Counted
<1> QED BY <1>2, <1>4, <1>5, <1>6, <1>7

LEMMA FramesTellItems ==
  ASSUME FramesInv
  PROVE  NothingLostWithoutOverrun
<1> SUFFICES ASSUME NEW s \in Socket, NEW ch \in Channel,
                    s \in subs[ch], s \notin overrun, ready[s] = "OPEN"
             PROVE  LET q == outbox[s] IN
                    /\ \A item \in (Followed(s, ch) + 1)..flushed[ch] :
                         \E n \in Coming(s, ch) : item \in q[n].first..q[n].last
                    /\ \A n \in Coming(s, ch) : q[n].first > Followed(s, ch)
                    /\ \A m, n \in Coming(s, ch) : m < n => q[m].last < q[n].first
  BY DEF NothingLostWithoutOverrun
<1>1. PICK q : q = outbox[s] OBVIOUS
<1>2. PICK k \in Nat, y \in Nat, w \in Nat : k = since[s][ch] /\ y = seen[ch].last /\ w = flushed[ch]
  BY ComingIs DEF Frame
<1>3. Followed(s, ch) = IF y > k THEN y ELSE k BY <1>2 DEF Followed
<1>4. \A n \in Coming(s, ch) : n \in DOMAIN q /\ q[n].ch = ch /\ q[n].first > k
  BY <1>1, <1>2 DEF Coming
<1>5. \A n \in DOMAIN q : q[n].first \in Nat /\ q[n].last \in Nat /\ n \in Nat
  BY <1>1, ComingIs DEF QueuedFrame
<1>6. ASSUME NEW item \in (Followed(s, ch) + 1)..flushed[ch]
      PROVE  \E n \in Coming(s, ch) : item \in q[n].first..q[n].last
  <2>1. item \in Int /\ item > y /\ item > k /\ item <= w BY <1>2, <1>3
  <2>2. Reaches(q, ch, Followed(s, ch), flushed[ch]) BY <1>1 DEF FramesInv, Covered
  <2>3. PICK n \in DOMAIN q : q[n].ch = ch /\ q[n].first <= item /\ item <= q[n].last
    BY <2>2 DEF Reaches
  <2>4. q[n].first <= k => q[n].last <= k BY <1>1, <1>2, <2>3, ComingIs
  <2>5. q[n].first > k BY <1>5, <2>1, <2>3, <2>4
  <2>6. n \in Coming(s, ch) BY <1>1, <1>2, <2>3, <2>5 DEF Coming
  <2>7. item \in q[n].first..q[n].last BY <1>5, <2>1, <2>3
  <2> QED BY <2>6, <2>7
<1>7. ASSUME NEW n \in Coming(s, ch) PROVE q[n].first > Followed(s, ch)
  <2>1. q[n].first > y BY <1>1, <1>2, <1>4, ComingIs
  <2> QED BY <1>3, <1>4, <2>1
<1>8. ASSUME NEW m \in Coming(s, ch), NEW n \in Coming(s, ch), m < n
      PROVE  q[m].last < q[n].first
  BY <1>1, <1>4, <1>8, ComingIs
<1> QED BY <1>1, <1>6, <1>7, <1>8

LEMMA FramesTellLoss ==
  ASSUME FramesInv
  PROVE  OverrunShowsInSeq
<1> SUFFICES ASSUME NEW s \in Socket, NEW ch \in Channel, s \in subs[ch], ready[s] = "OPEN",
                    NEW n \in Coming(s, ch)
             PROVE  /\ seen[ch].first > since[s][ch] => Follows(outbox[s][n], seen[ch])
                    /\ \A m \in Coming(s, ch) : m < n => Follows(outbox[s][n], outbox[s][m])
  BY DEF OverrunShowsInSeq
<1>1. PICK q, k : q = outbox[s] /\ k = since[s][ch] OBVIOUS
<1>2. \A m \in Coming(s, ch) : m \in DOMAIN q /\ q[m].ch = ch /\ q[m].first > k
  BY <1>1 DEF Coming
<1>3. seen[ch].first > k => Follows(q[n], seen[ch]) BY <1>1, <1>2, ComingIs
<1>4. ASSUME NEW m \in Coming(s, ch), m < n PROVE Follows(q[n], q[m])
  BY <1>1, <1>2, <1>4, ComingIs
<1> QED BY <1>1, <1>3, <1>4

\* The application is handed the oldest frame of the queue, which comes after what it has
\* seen.
LEMMA HandsOnInOrder ==
  ASSUME FramesInv, [Next]_vars, NEW ch \in Channel, seen'[ch] # seen[ch]
  PROVE  seen'[ch].first > seen[ch].last /\ seen'[ch].seq > seen[ch].seq
<1>1. ASSUME NEW s \in Socket, Deliver(s)
      PROVE  seen'[ch].first > seen[ch].last /\ seen'[ch].seq > seen[ch].seq
  <2>1. PICK q, f : q = outbox[s] /\ f = Head(q) OBVIOUS
  <2>2. /\ ready[s] = "OPEN" /\ q # <<>>
        /\ seen' = [seen EXCEPT ![f.ch] = [seq |-> f.seq, first |-> f.first, last |-> f.last]]
    BY <1>1, <2>1 DEF Deliver, TakeFrame
  <2>3. q \in Seq(QueuedFrame) /\ seen \in [Channel -> Frame] BY <2>1 DEF FramesInv, Counted
  <2>4. f = q[1] /\ 1 \in DOMAIN q BY <2>1, <2>2, <2>3
  <2>5. f.first > seen[f.ch].last /\ f.seq > seen[f.ch].seq
    BY <2>1, <2>2, <2>4 DEF FramesInv, Queued, GoodAfter
  <2>6. ch = f.ch BY <2>2, <2>3
  <2>7. seen'[ch].first = f.first /\ seen'[ch].seq = f.seq BY <2>2, <2>3, <2>6
  <2> QED BY <2>5, <2>6, <2>7
<1>2. UNCHANGED seen \/ \E s \in Socket : Deliver(s)
  BY DEF Next, vars, netvars, Mount, Unmount, Reconnect, Flush, Choose, Produce, Accept, Receive,
     EndpointEnds, Open, Closed
<1> QED BY <1>1, <1>2

-----------------------------------------------------------------------------
(* The theorems. *)

\* The server's maps of subscriptions, queues and running endpoints agree, and the
\* client's callbacks find the client in the state they take for granted.
THEOREM StreamingInvariance == Spec => [](ServerInv /\ ClientInv)
<1>1. Init => ServerInv /\ ClientInv
  BY ServerInit, ClientInit
<1>2. ServerInv /\ ClientInv /\ [Next]_vars => (ServerInv /\ ClientInv)'
  BY ServerStep, ClientStep DEF ClientInv
<1> QED
  BY <1>1, <1>2, PTL DEF Spec

\* Whatever the order in which connections end and their messages are read, the server
\* counts no subscriber without a connection (unregister_client and subscribe of
\* api/broadcaster.py, websocket_endpoint of api/server.py).
THEOREM NoGhosts == Spec => []NoGhostSubscribers
<1>1. ServerInv /\ ClientInv => NoGhostSubscribers
  BY DEF ServerInv
<1> QED
  BY <1>1, StreamingInvariance, PTL

\* The status shown and the heartbeat are those of the socket there is, and there is
\* never more than one (connect, onopen, onclose and disconnect of wsClient.ts).
THEOREM StatusIsTrue == Spec => []StatusTrue
<1>1. ServerInv /\ ClientInv => StatusTrue
  BY DEF ClientInv
<1> QED
  BY <1>1, StreamingInvariance, PTL

\* A client that wants to be connected has a live socket, a reconnect timer, or a
\* callback to come that will set one (onclose and scheduleReconnect of wsClient.ts).
THEOREM NeverLeftAlone == Spec => []NeverStranded
<1>1. ServerInv /\ ClientInv => NeverStranded
  BY DEF ClientInv, Attempts, NeverStranded, Live, Pendant, NoSocket, Socket
<1> QED
  BY <1>1, StreamingInvariance, PTL

\* What holds of the frames in every queue holds always.
THEOREM FramesInvariance == Spec => []FramesInv
<1>1. Init => FramesInv
  BY FramesInit
<1>2. FramesInv /\ ServerInv /\ ClientInv /\ [Next]_vars => FramesInv'
  BY FramesStep
<1> QED
  BY <1>1, <1>2, StreamingInvariance, PTL DEF Spec

\* A subscriber whose queue was never full when a frame came gets every item pushed since
\* it subscribed, once and in order, whatever connections come and go around it (flush and
\* the subscriptions of api/broadcaster.py, send_worker of api/server.py).
THEOREM NothingLost == Spec => []NothingLostWithoutOverrun
<1>1. FramesInv => NothingLostWithoutOverrun
  BY FramesTellItems
<1> QED
  BY <1>1, FramesInvariance, PTL

\* What a full queue lost shows in the numbers of the frames of a subscription: where they
\* follow each other, so do the items (flush of api/broadcaster.py numbers a frame for all
\* its subscribers, whether or not their queues have room).
THEOREM SequenceShowsLoss == Spec => []OverrunShowsInSeq
<1>1. FramesInv => OverrunShowsInSeq
  BY FramesTellLoss
<1> QED
  BY <1>1, FramesInvariance, PTL

\* The application never gets an item of a channel twice or after a later one, over all
\* reconnects and changes of subscription (onmessage of wsClient.ts, fed by send_worker).
THEOREM HandedOnInOrder == Spec => ItemsInOrder
<1>1. FramesInv /\ [Next]_vars =>
        [\A ch \in Channel :
           seen'[ch] # seen[ch] => /\ seen'[ch].first > seen[ch].last
                                   /\ seen'[ch].seq > seen[ch].seq]_vars
  BY HandsOnInOrder
<1> QED
  BY <1>1, FramesInvariance, PTL DEF Spec, ItemsInOrder

=============================================================================
