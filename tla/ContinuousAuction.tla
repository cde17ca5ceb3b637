-------------------------- MODULE ContinuousAuction --------------------------
(***************************************************************************)
(* What a continuous double auction promises, with no price levels, queues *)
(* or cached totals: a set of resting orders, and at most one incoming     *)
(* order that meets them one at a time, always the one with priority.      *)
(* MatchingEngine implements it (ImplementsAuction there).                      *)
(***************************************************************************)
EXTENDS Integers

CONSTANTS Prices, MaxQty, MaxOrders, Participants, Policies, Tifs, NoOrder

VARIABLES
  resting,  \* the resting orders, as records that carry their arrival id
  incoming, \* the order being matched, or NoOrder
  arrived   \* how many orders have arrived

avars == <<resting, incoming, arrived>>

Side == {"BUY", "SELL"}
Pids == Participants \cup {""}

RestingRecord == [id : 1..MaxOrders, side : Side, price : Prices, rem : 1..MaxQty, pid : Pids]
IncomingRecord ==
  [id : 1..MaxOrders, side : Side, type : {"LIMIT", "MARKET"}, price : Prices \cup {0},
   rem : 0..MaxQty, tif : Tifs, pid : Pids, stp : Policies]

\* a is a better price than b for the owner of an order on side s.
Better(s, a, b) == IF s = "BUY" THEN a > b ELSE a < b

\* Resting order r stands before resting order q: better price, or same price
\* and earlier arrival.
Before(r, q) == Better(r.side, r.price, q.price) \/ (r.price = q.price /\ r.id < q.id)

\* Order o may deal with resting order r.
Willing(o, r) ==
  /\ r.side # o.side
  /\ o.type = "LIMIT" => ~Better(r.side, o.price, r.price)

\* The resting order that the incoming one has to deal with now.
First(r) ==
  /\ incoming # NoOrder /\ incoming.rem > 0
  /\ r \in resting /\ Willing(incoming, r)
  /\ \A q \in resting : q.side = r.side /\ q # r => Before(r, q)

Own(r) == incoming.pid # "" /\ incoming.pid = r.pid /\ incoming.stp # "NONE"

AInit == resting = {} /\ incoming = NoOrder /\ arrived = 0

Arrive ==
  /\ incoming = NoOrder
  /\ incoming' \in IncomingRecord
  /\ incoming'.id = arrived + 1 /\ incoming'.rem > 0
  /\ arrived' = arrived + 1
  /\ UNCHANGED resting

\* An order turned away at the door.
TurnAway ==
  /\ incoming = NoOrder /\ arrived < MaxOrders
  /\ arrived' = arrived + 1
  /\ UNCHANGED <<resting, incoming>>

\* Both orders lose the quantity they have in common; whoever has nothing left
\* is gone.  Between strangers this is a trade, within one participant it is the
\* decrement of DECREMENT_AND_CANCEL.
Meet(r) ==
  /\ First(r)
  /\ Own(r) => incoming.stp = "DECREMENT_AND_CANCEL"
  /\ LET n == IF incoming.rem <= r.rem THEN incoming.rem ELSE r.rem
     IN  /\ incoming' = [incoming EXCEPT !.rem = @ - n]
         /\ resting' = IF r.rem = n THEN resting \ {r}
                       ELSE (resting \ {r}) \cup {[r EXCEPT !.rem = @ - n]}
  /\ UNCHANGED arrived

\* Self-trade prevention removes one side of the pair whole.
RemoveOwn(r) ==
  /\ First(r) /\ Own(r)
  /\ \/ /\ incoming.stp = "CANCEL_NEWEST"
        /\ incoming' = [incoming EXCEPT !.rem = 0]
        /\ UNCHANGED resting
     \/ /\ incoming.stp = "CANCEL_OLDEST"
        /\ resting' = resting \ {r}
        /\ UNCHANGED incoming
  /\ UNCHANGED arrived

\* Nobody is left that the incoming order may deal with: a GTC limit order
\* rests, any other is over.
Conclude ==
  /\ incoming # NoOrder
  /\ incoming.rem = 0 \/ ~\E r \in resting : Willing(incoming, r)
  /\ incoming' = NoOrder
  /\ resting' =
       IF incoming.rem > 0 /\ incoming.type = "LIMIT" /\ incoming.tif = "GTC"
       THEN resting \cup {[id |-> incoming.id, side |-> incoming.side,
                           price |-> incoming.price, rem |-> incoming.rem,
                           pid |-> incoming.pid]}
       ELSE resting
  /\ UNCHANGED arrived

Withdraw(r) ==
  /\ incoming = NoOrder /\ r \in resting
  /\ resting' = resting \ {r}
  /\ UNCHANGED <<incoming, arrived>>

ANext ==
  \/ Arrive
  \/ TurnAway
  \/ \E r \in resting : Meet(r) \/ RemoveOwn(r) \/ Withdraw(r)
  \/ Conclude

ASpec == AInit /\ [][ANext]_avars
=============================================================================
