--------------------------- MODULE MatchingEngine ---------------------------
(***************************************************************************)
(* The limit order book and matching engine of one symbol, core/orderbook  *)
(* .py.  The call submit_order is a double loop; the model runs it one     *)
(* iteration per step (pc says where the call stands), so that a call of   *)
(* any length is a sequence of steps and no operator is recursive.  The    *)
(* engine is synchronous: while a call runs nothing else touches the book, *)
(* hence every other action requires pc = "idle".                          *)
(*                                                                         *)
(* Two variables belong to the readers of the returned events, not to the  *)
(* engine: view, the level totals a reader of BookDelta keeps, and told,   *)
(* the open quantity of each order that a reader of the order events and   *)
(* trades computes.  Sequence numbers and trade ids are left out here.     *)
(***************************************************************************)
EXTENDS Integers, Sequences, FiniteSets, FiniteSetsExt, SequencesExt

CONSTANTS
  Prices,        \* the price ticks an order may carry
  MaxQty,        \* the largest quantity submitted
  MaxOrders,     \* how many orders are submitted in all (bound)
  Participants,  \* non-empty participant ids
  Policies,      \* self-trade policies in use
  Tifs           \* times in force in use

ASSUME PricesAssumption == Prices \subseteq Nat \ {0} /\ IsFiniteSet(Prices)
ASSUME BoundsAssumption == MaxQty \in Nat \ {0} /\ MaxOrders \in Nat \ {0}
ASSUME PoliciesAssumption ==
  Policies \subseteq {"NONE", "CANCEL_NEWEST", "CANCEL_OLDEST", "DECREMENT_AND_CANCEL"}
ASSUME TifsAssumption == Tifs \subseteq {"GTC", "IOC", "FOK"}
ASSUME ParticipantsAssumption == "" \notin Participants

VARIABLES
  halted,   \* MatchingEngine.is_halted
  orders,   \* OrderBook._orders_map: order id -> RestingOrder
  levels,   \* side -> the keys of HalfBook._levels
  queue,    \* side -> price -> PriceLevel._orders, as order ids
  total,    \* side -> price -> PriceLevel.total_qty
  pc,       \* where submit_order stands: "idle", "level", "fifo"
  taker,    \* the order being matched and its remaining_qty
  at,       \* match_price of the level being matched
  nextId,   \* ids are unique and handed out in order of arrival
  view,     \* side -> price -> total quantity told by BookDelta events
  told      \* order id -> open quantity told by order events and trades

book == <<orders, levels, queue, total>>
readers == <<view, told>>
vars == <<halted, book, pc, taker, at, nextId, readers>>

Side == {"BUY", "SELL"}
OrderId == 1..MaxOrders
Pids == Participants \cup {""}
Opposite(s) == IF s = "BUY" THEN "SELL" ELSE "BUY"

\* The OrderSubmitted events that reach an engine; its constructor refuses a
\* quantity or a limit price that is not positive, so the engine's own checks of
\* these (INVALID_QUANTITY, INVALID_LIMIT_PRICE) never fail.  Price 0 is None.
Submission ==
  [side : Side, type : {"LIMIT"}, price : Prices, qty : 1..MaxQty,
   tif : Tifs, pid : Pids, stp : Policies]
  \cup
  [side : Side, type : {"MARKET"}, price : {0}, qty : 1..MaxQty,
   tif : Tifs, pid : Pids, stp : Policies]

RestingOrder == [side : Side, price : Prices, rem : 1..MaxQty, pid : Pids]
Taker == [id : OrderId, side : Side, type : {"LIMIT", "MARKET"},
          price : Prices \cup {0}, rem : 0..MaxQty, tif : Tifs, pid : Pids,
          stp : Policies]
NoTaker == [id |-> 0]

-----------------------------------------------------------------------------
(* Reading the book. *)

\* Price p is at least as good as q for the owner of the resting side s.
AsGood(s, p, q) == IF s = "BUY" THEN p >= q ELSE p <= q

\* Mutant of BestPrice: the other end of the SortedDict.
WorstPrice(s) == CHOOSE p \in levels[s] : \A q \in levels[s] : AsGood(s, q, p)

BestPrice(s) == CHOOSE p \in levels[s] : \A q \in levels[s] : AsGood(s, p, q)

\* Mutant of Liquidity: the limit is not looked at.
LiquidityAnyPrice(s, limit) == MapThenSumSet(LAMBDA p : total[s][p], levels[s])

\* HalfBook.total_liquidity_up_to: no limit sums the whole side.
Liquidity(s, limit) ==
  MapThenSumSet(LAMBDA p : total[s][p],
                {p \in levels[s] : limit = 0 \/ AsGood(s, p, limit)})

\* Mutants of Crosses: the limit check leaves out equality, or is missing.
CrossesStrictly(o, p) ==
  o.type = "LIMIT" => AsGood(Opposite(o.side), p, o.price) /\ p # o.price
CrossesAlways(o, p) == TRUE

\* The incoming order o may trade at price p (the limit price check).
Crosses(o, p) == o.type = "LIMIT" => AsGood(Opposite(o.side), p, o.price)

FrontId == Head(queue[Opposite(taker.side)][at])

SelfTrade ==
  /\ taker.pid # ""
  /\ taker.pid = orders[FrontId].pid
  /\ taker.stp # "NONE"

-----------------------------------------------------------------------------
(* Writing the book. *)

Init ==
  /\ halted = FALSE
  /\ orders = [i \in {} |-> 0]
  /\ levels = [s \in Side |-> {}]
  /\ queue = [s \in Side |-> [p \in Prices |-> <<>>]]
  /\ total = [s \in Side |-> [p \in Prices |-> 0]]
  /\ pc = "idle"
  /\ taker = NoTaker
  /\ at = 0
  /\ nextId = 1
  /\ view = [s \in Side |-> [p \in Prices |-> 0]]
  /\ told = [i \in OrderId |-> 0]

Forget(i) == [j \in DOMAIN orders \ {i} |-> orders[j]]

\* Mutant of BookDelta: an emptied level goes unreported.
BookDeltaNonZero(s, p, n) == view' = IF n = 0 THEN view ELSE [view EXCEPT ![s][p] = n]

\* A BookDelta event: the new total quantity of one level.
BookDelta(s, p, n) == view' = [view EXCEPT ![s][p] = n]

\* Mutant of CleanEmptyLevel: the empty level stays.
KeepEmptyLevel(s, p) == UNCHANGED levels

\* HalfBook.clean_empty_level
CleanEmptyLevel(s, p) ==
  levels' = [levels EXCEPT ![s] = IF total[s][p] = 0 THEN @ \ {p} ELSE @]

\* OrderBook.add_resting_order and HalfBook.add_order: a price without a level
\* gets a fresh one.
AddResting(i, o) ==
  LET s == o.side
      p == o.price
      q == IF p \in levels[s] THEN queue[s][p] ELSE <<>>
      n == IF p \in levels[s] THEN total[s][p] ELSE 0
  IN  /\ orders' = [j \in DOMAIN orders \cup {i} |-> IF j = i THEN o ELSE orders[j]]
      /\ levels' = [levels EXCEPT ![s] = @ \cup {p}]
      /\ queue' = [queue EXCEPT ![s][p] = Append(q, i)]
      /\ total' = [total EXCEPT ![s][p] = n + o.rem]
      /\ BookDelta(s, p, n + o.rem)

\* PriceLevel.pop_front with the deletion from the map when the front order is
\* used up, PriceLevel.reduce_front when part of it remains.
TakeFromFront(n) ==
  LET s == Opposite(taker.side)
  IN  /\ total' = [total EXCEPT ![s][at] = @ - n]
      /\ IF orders[FrontId].rem = n
         THEN /\ queue' = [queue EXCEPT ![s][at] = Tail(@)]
              /\ orders' = Forget(FrontId)
         ELSE /\ orders' = [orders EXCEPT ![FrontId].rem = @ - n]
              /\ UNCHANGED queue
      /\ UNCHANGED levels

-----------------------------------------------------------------------------
(* submit_order *)

Refused(o) ==
  LET opp == Opposite(o.side)
  IN  \/ halted
      \/ o.tif = "FOK" /\ Liquidity(opp, o.price) < o.qty
      \/ o.type = "MARKET" /\ levels[opp] = {}

\* OrderRejected: MARKET_HALTED, FOK_NOT_FILLABLE or NO_LIQUIDITY.  The id is
\* spent, nothing else changes.
Reject(o) ==
  /\ pc = "idle" /\ nextId <= MaxOrders
  /\ Refused(o)
  /\ nextId' = nextId + 1
  /\ UNCHANGED <<halted, book, pc, taker, at, readers>>

\* OrderAccepted; matching starts with the whole quantity remaining.
Accept(o) ==
  /\ pc = "idle" /\ nextId <= MaxOrders
  /\ ~Refused(o)
  /\ nextId' = nextId + 1
  /\ pc' = "level"
  /\ taker' = [id |-> nextId, side |-> o.side, type |-> o.type, price |-> o.price,
               rem |-> o.qty, tif |-> o.tif, pid |-> o.pid, stp |-> o.stp]
  /\ told' = [told EXCEPT ![nextId] = o.qty]
  /\ UNCHANGED <<halted, book, at, view>>

\* The outer loop takes another iteration.
MoreToMatch ==
  LET opp == Opposite(taker.side)
  IN  taker.rem > 0 /\ levels[opp] # {} /\ Crosses(taker, BestPrice(opp))

EnterLevel ==
  /\ pc = "level" /\ MoreToMatch
  /\ pc' = "fifo"
  /\ at' = BestPrice(Opposite(taker.side))
  /\ UNCHANGED <<halted, book, taker, nextId, readers>>

\* The inner loop takes another iteration.
AtFront == pc = "fifo" /\ taker.rem > 0 /\ queue[Opposite(taker.side)][at] # <<>>

\* Mutant of Smaller: max for min.
Larger(m, n) == IF m <= n THEN n ELSE m

Smaller(m, n) == IF m <= n THEN m ELSE n

\* TradeExecuted at the resting order's price.
Fill ==
  /\ AtFront /\ ~SelfTrade
  /\ LET n == Smaller(taker.rem, orders[FrontId].rem)
     IN  /\ TakeFromFront(n)
         /\ taker' = [taker EXCEPT !.rem = @ - n]
         /\ told' = [told EXCEPT ![taker.id] = @ - n, ![FrontId] = @ - n]
  /\ UNCHANGED <<halted, pc, at, nextId, view>>

\* CANCEL_NEWEST: the incoming order is canceled, the resting one stays.
StpCancelNewest ==
  /\ AtFront /\ SelfTrade /\ taker.stp = "CANCEL_NEWEST"
  /\ taker' = [taker EXCEPT !.rem = 0]
  /\ told' = [told EXCEPT ![taker.id] = 0]
  /\ UNCHANGED <<halted, book, pc, at, nextId, view>>

\* CANCEL_OLDEST: the resting order is canceled, the incoming one goes on.
StpCancelOldest ==
  /\ AtFront /\ SelfTrade /\ taker.stp = "CANCEL_OLDEST"
  /\ TakeFromFront(orders[FrontId].rem)
  /\ told' = [told EXCEPT ![FrontId] = 0]
  /\ UNCHANGED <<halted, pc, taker, at, nextId, view>>

\* DECREMENT_AND_CANCEL: both lose the overlap; only an order left with nothing
\* is reported canceled, the decrement itself is in no event.
StpDecrement ==
  /\ AtFront /\ SelfTrade /\ taker.stp = "DECREMENT_AND_CANCEL"
  /\ LET n == Smaller(taker.rem, orders[FrontId].rem)
     IN  /\ TakeFromFront(n)
         /\ taker' = [taker EXCEPT !.rem = @ - n]
         /\ told' = [told EXCEPT
                       ![taker.id] = IF taker.rem = n THEN 0 ELSE @,
                       ![FrontId] = IF orders[FrontId].rem = n THEN 0 ELSE @]
  /\ UNCHANGED <<halted, pc, at, nextId, view>>

\* The inner loop is over: clean_empty_level, then the level's BookDelta.
LeaveLevel ==
  LET opp == Opposite(taker.side)
  IN  /\ pc = "fifo" /\ ~AtFront
      /\ CleanEmptyLevel(opp, at)
      /\ BookDelta(opp, at, total[opp][at])
      /\ pc' = "level" /\ at' = 0
      /\ UNCHANGED <<halted, orders, queue, total, taker, nextId, told>>

Returned == pc' = "idle" /\ taker' = NoTaker

\* Section 5: the remainder of a GTC limit order rests ...
Rest ==
  /\ pc = "level" /\ ~MoreToMatch
  /\ taker.rem > 0 /\ taker.type = "LIMIT" /\ taker.tif = "GTC"
  /\ AddResting(taker.id, [side |-> taker.side, price |-> taker.price,
                           rem |-> taker.rem, pid |-> taker.pid])
  /\ Returned
  /\ UNCHANGED <<halted, at, nextId, told>>

\* Mutant of Drop: the remainder vanishes without an OrderCanceled event.
DropSilently ==
  /\ pc = "level" /\ ~MoreToMatch
  /\ taker.rem > 0 /\ ~(taker.type = "LIMIT" /\ taker.tif = "GTC")
  /\ Returned
  /\ UNCHANGED <<halted, book, at, nextId, readers>>

\* ... any other remainder is canceled (IMMEDIATE_UNFILLED_REMAINDER) ...
Drop ==
  /\ pc = "level" /\ ~MoreToMatch
  /\ taker.rem > 0 /\ ~(taker.type = "LIMIT" /\ taker.tif = "GTC")
  /\ told' = [told EXCEPT ![taker.id] = 0]
  /\ Returned
  /\ UNCHANGED <<halted, book, at, nextId, view>>

\* ... and nothing is left of an order that was filled or canceled by STP.
Finish ==
  /\ pc = "level" /\ ~MoreToMatch /\ taker.rem = 0
  /\ Returned
  /\ UNCHANGED <<halted, book, at, nextId, readers>>

-----------------------------------------------------------------------------
(* cancel_order, halt and resume.  An id that is not in the map is answered *)
(* ORDER_NOT_FOUND and changes nothing.                                     *)

CancelOrder(i) ==
  LET s == orders[i].side
      p == orders[i].price
      left == total[s][p] - orders[i].rem
      k == CHOOSE j \in DOMAIN queue[s][p] : queue[s][p][j] = i
  IN  /\ pc = "idle" /\ i \in DOMAIN orders
      /\ orders' = Forget(i)
      /\ queue' = [queue EXCEPT ![s][p] = RemoveAt(@, k)]
      /\ total' = [total EXCEPT ![s][p] = left]
      /\ levels' = [levels EXCEPT ![s] = IF left = 0 THEN @ \ {p} ELSE @]
      /\ BookDelta(s, p, left)
      /\ told' = [told EXCEPT ![i] = 0]
      /\ UNCHANGED <<halted, pc, taker, at, nextId>>

SetHalted(b) ==
  /\ pc = "idle" /\ halted # b
  /\ halted' = b
  /\ UNCHANGED <<book, pc, taker, at, nextId, readers>>

-----------------------------------------------------------------------------
\* What submit_order does once it has accepted an order.
MatchStep ==
  \/ EnterLevel \/ LeaveLevel
  \/ Fill \/ StpCancelNewest \/ StpCancelOldest \/ StpDecrement
  \/ Rest \/ Drop \/ Finish

Next ==
  \/ \E o \in Submission : Reject(o) \/ Accept(o)
  \/ MatchStep
  \/ \E i \in OrderId : CancelOrder(i)
  \/ \E b \in BOOLEAN : SetHalted(b)

\* A call runs to its end; nobody has to submit, cancel or halt.
Spec == Init /\ [][Next]_vars /\ WF_vars(MatchStep)

-----------------------------------------------------------------------------
TypeOK ==
  /\ halted \in BOOLEAN
  /\ DOMAIN orders \subseteq OrderId
  /\ orders \in [DOMAIN orders -> RestingOrder]
  /\ levels \in [Side -> SUBSET Prices]
  /\ queue \in [Side -> [Prices -> Seq(OrderId)]]
  /\ total \in [Side -> [Prices -> Nat]]
  /\ pc \in {"idle", "level", "fifo"}
  /\ IF pc = "idle" THEN taker = NoTaker ELSE taker \in Taker
  /\ IF pc = "fifo" THEN at \in Prices ELSE at = 0
  /\ nextId \in 1..(MaxOrders + 1)
  /\ view \in [Side -> [Prices -> Nat]]
  /\ told \in [OrderId -> 0..MaxQty]

\* Resting bids are below resting asks, in every state: no order rests while it
\* could trade, whatever partial fills, self-trade removals, cancels and emptied
\* levels came before (the limit price check and the remainder branch).
BookUncrossed ==
  \A i, j \in DOMAIN orders :
    orders[i].side = "BUY" /\ orders[j].side = "SELL" => orders[i].price < orders[j].price

\* The orders of one level and the units of quantity they stand for.
OrdersAt(s, p) == {i \in DOMAIN orders : orders[i].side = s /\ orders[i].price = p}
Units(s, p) == {u \in OrdersAt(s, p) \X (1..MaxQty) : u[2] <= orders[u[1]].rem}

OldestFirst(q) == \A j, k \in DOMAIN q : j < k => q[j] < q[k]

QueueMatches(s, p) == ToSet(queue[s][p]) = OrdersAt(s, p) /\ OldestFirst(queue[s][p])
TotalMatches(s, p) == total[s][p] = Cardinality(Units(s, p))
LevelMatches(s, p) ==
  /\ queue[s][p] # <<>> => p \in levels[s]
  /\ p \in levels[s] =>
       queue[s][p] # <<>> \/ (pc = "fifo" /\ s = Opposite(taker.side) /\ at = p)

\* The three copies of the book agree: a level's FIFO queue holds exactly the
\* orders that the id map files at its side and price, each once and oldest
\* first, its cached total_qty is the sum of what they have open, and a level is
\* in the SortedDict exactly while it has orders (during matching, the level
\* being matched may be empty and not yet cleaned).
LevelsMatchOrders ==
  \A s \in Side, p \in Prices :
    QueueMatches(s, p) /\ TotalMatches(s, p) /\ LevelMatches(s, p)

\* Between calls, the L2 depth that a reader rebuilds from BookDelta events is
\* the book's depth: no change of a level goes unreported and an emptied level is
\* reported as 0 (the promise on which ReplayDepthTracker rests).
DepthViewExact ==
  pc = "idle" =>
    \A s \in Side, p \in Prices :
      view[s][p] = IF p \in levels[s] THEN total[s][p] ELSE 0

\* Between calls, what the order events and trades say is open of each order is
\* what the book holds of it: an order leaves the book, or shrinks in it, only
\* through events that say so.
EventsAccountForOrders ==
  pc = "idle" =>
    \A i \in OrderId : told[i] = IF i \in DOMAIN orders THEN orders[i].rem ELSE 0

\* Resting order i loses quantity to the matching loop.
Consumed(i) ==
  /\ pc = "fifo"
  /\ i \in DOMAIN orders' => orders'[i].rem < orders[i].rem

\* No order on i's side has a better price, or the same price and an earlier
\* arrival.
HasPriority(i) ==
  \A j \in DOMAIN orders \ {i} :
    orders[j].side = orders[i].side =>
      \/ ~AsGood(orders[i].side, orders[j].price, orders[i].price)
      \/ orders[j].price = orders[i].price /\ i < j

PriorityKept ==
  \A i \in DOMAIN orders :
    Consumed(i) => HasPriority(i) /\ Crosses(taker, orders[i].price)

\* Price-time priority: a resting order is consumed only when it has priority on
\* its side, and only at a price the incoming order accepts.
PriceTimePriority == [][PriorityKept]_vars

\* "Fill or kill": an accepted FOK order is never left with a remainder to
\* cancel (the liquidity check agrees with what the loop then finds).
FokFillsCompletely == [][~(Drop /\ taker.tif = "FOK")]_vars

\* The engine is a continuous double auction: levels, queues and totals seen as
\* the set of resting orders, every step of the two loops is a step of
\* ContinuousAuction or none.
Entry(i) == [id |-> i, side |-> orders[i].side, price |-> orders[i].price,
             rem |-> orders[i].rem, pid |-> orders[i].pid]
RestingSet == {Entry(i) : i \in DOMAIN orders}

Auction == INSTANCE ContinuousAuction WITH
  resting <- RestingSet, incoming <- taker, arrived <- nextId - 1, NoOrder <- NoTaker

ImplementsAuction == Auction!ASpec

\* Every accepted order's call returns.
CallReturns == (pc # "idle") ~> (pc = "idle")
=============================================================================
