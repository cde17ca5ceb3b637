----------------------------- MODULE Broadcaster -----------------------------
(***************************************************************************)
(* The web-socket broadcaster, api/broadcaster.py: producers push items on *)
(* channels, a periodic flush turns what is pending on a channel into one  *)
(* frame with the channel's next sequence number and offers it to the      *)
(* bounded queue of every subscriber; a full queue loses its oldest frame. *)
(*                                                                         *)
(* The items of a channel are numbered in the order they were pushed, and  *)
(* a frame carries an interval of them (of portfolio summaries only the    *)
(* last is sent, but it stands for the interval).  Nothing awaits inside a *)
(* method (flush takes a lock that nobody else holds), so each is a step.  *)
(***************************************************************************)
EXTENDS Wire

CONSTANTS
  Producers,  \* the sets of channels that one event is pushed on
  QueueSize,  \* frames a client's queue holds
  MaxItems    \* items pushed on a channel (bound)

ASSUME QueueAssumption == QueueSize \in Nat \ {0} /\ MaxItems \in Nat
ASSUME ChannelsAssumption == Producers \subseteq SUBSET Channel

VARIABLES
  registered,  \* the keys of _client_queues
  outbox,      \* connection -> _client_queues
  subs,        \* channel -> _channel_subscriptions
  channelsOf,  \* connection -> _client_channels
  pushed,      \* channel -> items pushed
  flushed,     \* channel -> items that have left the _pending lists
  chSeq,       \* channel -> _channel_seq
  since,       \* connection -> channel -> items flushed when it last subscribed
  overrun      \* connections whose queue has been full when a frame came

\* since and overrun are history: only the properties read them.
bvars == <<registered, outbox, subs, channelsOf, pushed, flushed, chSeq, since, overrun>>

Pending(ch) == flushed[ch] < pushed[ch]

BInit ==
  /\ registered = {}
  /\ outbox = [c \in Socket |-> <<>>]
  /\ subs = [ch \in Channel |-> {}]
  /\ channelsOf = [c \in Socket |-> {}]
  /\ pushed = [ch \in Channel |-> 0]
  /\ flushed = [ch \in Channel |-> 0]
  /\ chSeq = [ch \in Channel |-> 0]
  /\ since = [c \in Socket |-> [ch \in Channel |-> 0]]
  /\ overrun = {}

RegisterClient(c) ==
  /\ registered' = registered \cup {c}
  /\ outbox' = [outbox EXCEPT ![c] = <<>>]
  /\ UNCHANGED <<subs, channelsOf, pushed, flushed, chSeq, since, overrun>>

\* Mutant of UnregisterClient: the channels still list the client.
UnregisterHalf(c) ==
  /\ registered' = registered \ {c}
  /\ outbox' = [outbox EXCEPT ![c] = <<>>]
  /\ channelsOf' = [channelsOf EXCEPT ![c] = {}]
  /\ since' = [since EXCEPT ![c] = [ch \in Channel |-> 0]]
  /\ overrun' = overrun \ {c}
  /\ UNCHANGED <<subs, pushed, flushed, chSeq>>

UnregisterClient(c) ==
  /\ registered' = registered \ {c}
  /\ outbox' = [outbox EXCEPT ![c] = <<>>]
  /\ subs' = [ch \in Channel |-> IF ch \in channelsOf[c] THEN subs[ch] \ {c} ELSE subs[ch]]
  /\ channelsOf' = [channelsOf EXCEPT ![c] = {}]
  /\ since' = [since EXCEPT ![c] = [ch \in Channel |-> 0]]
  /\ overrun' = overrun \ {c}
  /\ UNCHANGED <<pushed, flushed, chSeq>>

SubscribeChannel(c, ch) ==
  /\ IF c \in registered
     THEN /\ subs' = [subs EXCEPT ![ch] = @ \cup {c}]
          /\ channelsOf' = [channelsOf EXCEPT ![c] = @ \cup {ch}]
          /\ since' = IF c \in subs[ch] THEN since ELSE [since EXCEPT ![c][ch] = flushed[ch]]
     ELSE UNCHANGED <<subs, channelsOf, since, overrun>>
  /\ UNCHANGED <<registered, outbox, pushed, flushed, chSeq, overrun>>

UnsubscribeChannel(c, ch) ==
  /\ subs' = [subs EXCEPT ![ch] = @ \ {c}]
  /\ channelsOf' = [channelsOf EXCEPT ![c] = @ \ {ch}]
  /\ UNCHANGED <<registered, outbox, pushed, flushed, chSeq, since, overrun>>

\* The push calls for one event, which the server makes without an await in between: a
\* trade and its candle, a market event on its two channels.
Push(S) ==
  /\ \A ch \in S : pushed[ch] < MaxItems
  /\ pushed' = [ch \in Channel |-> IF ch \in S THEN pushed[ch] + 1 ELSE pushed[ch]]
  /\ UNCHANGED <<registered, outbox, subs, channelsOf, flushed, chSeq, since, overrun>>

NextFrame(ch) ==
  [ch |-> ch, seq |-> chSeq[ch] + 1, first |-> flushed[ch] + 1, last |-> pushed[ch]]

\* Mutant of Offered: what waits is lost although there is room.
OfferedUnlessFull(q, frames) == IF Len(q) + 1 < QueueSize THEN q \o frames ELSE frames

\* The frames put one after the other, each at the expense of the oldest if need be.
Offered(q, frames) ==
  LET all == q \o frames
  IN  IF Len(all) <= QueueSize THEN all ELSE SubSeq(all, Len(all) - QueueSize + 1, Len(all))

\* A set of numbers in ascending order.
Ascending(S) ==
  CHOOSE s \in [1..Cardinality(S) -> S] : \A m, n \in 1..Cardinality(S) : m < n => s[m] < s[n]

FramesFor(c) ==
  LET due == Ascending({n \in DOMAIN Order : Pending(Order[n]) /\ c \in subs[Order[n]]})
  IN  [n \in DOMAIN due |-> NextFrame(Order[due[n]])]

\* Mutant of Numbered: the number of a frame that nobody has room for is used again.
NumberedIfRoom(ch) == Pending(ch) /\ \E c \in subs[ch] : Len(outbox[c]) < QueueSize

\* A frame is made, and a number used.
Numbered(ch) == Pending(ch) /\ subs[ch] # {}

\* Mutant of FlushPending: the batches are sent and stay pending.
FlushKeeping ==
  /\ \E ch \in Channel : Pending(ch)
  /\ outbox' = [c \in Socket |-> IF c \in registered THEN Offered(outbox[c], FramesFor(c))
                                 ELSE outbox[c]]
  /\ chSeq' = [ch \in Channel |-> IF Numbered(ch) THEN chSeq[ch] + 1 ELSE chSeq[ch]]
  /\ overrun' = overrun
  /\ UNCHANGED <<registered, subs, channelsOf, pushed, flushed, since>>

\* flush().  A channel without subscribers loses its batch and keeps its number.
FlushPending ==
  /\ \E ch \in Channel : Pending(ch)
  /\ outbox' = [c \in Socket |-> IF c \in registered THEN Offered(outbox[c], FramesFor(c))
                                 ELSE outbox[c]]
  /\ chSeq' = [ch \in Channel |-> IF Numbered(ch) THEN chSeq[ch] + 1 ELSE chSeq[ch]]
  /\ flushed' = pushed
  /\ overrun' = overrun \cup
       {c \in registered : Len(outbox[c]) + Len(FramesFor(c)) > QueueSize}
  /\ UNCHANGED <<registered, subs, channelsOf, pushed, since>>

\* send_worker takes the oldest frame of its queue.
TakeFrame(c) ==
  /\ outbox[c] # <<>>
  /\ outbox' = [outbox EXCEPT ![c] = Tail(@)]
  /\ UNCHANGED <<registered, subs, channelsOf, pushed, flushed, chSeq, since, overrun>>
=============================================================================
