--------------------------- MODULE OrderManagement ---------------------------
(***************************************************************************)
(* The life of a user's orders between four holders of state: the         *)
(* portfolio (core/portfolio.py), the trigger book and OCO groups          *)
(* (core/advanced_orders.py), the matching engine, and the queue of events *)
(* the agents' trades wait in (sim/agent_source.py), joined by the         *)
(* handlers of api/server.py.  One symbol: every holder is kept per symbol.*)
(*                                                                         *)
(* A handler runs to its end without an await, but it recurses: a trade is *)
(* processed, triggers an order, whose trades are processed, and so on.    *)
(* The agenda is that call stack, the work left to do with the innermost   *)
(* call first; handlers start only when it is empty.  An exception drops   *)
(* the agenda down to the handler that catches it.                         *)
(*                                                                         *)
(* The engine is reduced to what it does to user orders (MatchingEngine    *)
(* has the rest): which fills a call finds is nondeterministic.            *)
(***************************************************************************)
EXTENDS Integers, Sequences, FiniteSets, FiniteSetsExt, Functions

CONSTANTS
  Prices,       \* price ticks of trades
  MaxQty,       \* the largest quantity submitted
  MaxOrders,    \* how many user orders there are (bound)
  Requests,     \* the single orders users submit
  OcoRequests,  \* the pairs users submit as OCO
  MaxFills,     \* fills one engine call finds (bound)
  MaxBatch,     \* events one step of the agents yields (bound)
  NoPrice       \* None

OrderId == 1..MaxOrders
NoOrder == 0      \* an agent's order, which the portfolio does not know
NoGroup == 0      \* an OCO group is named by the id of its first leg
UserTs == 0       \* the source has no clock of its own: user orders carry 0
AgentTs == 1      \* agents trade after their clock has advanced

\* trigger: what makes it active.  exec: what the engine then gets, an order that
\* never rests (MARKET or IOC), a limit order, or one too far away to trade yet.
\* valid: whether validation accepts it (price, stop price, funds, halt).
Request ==
  [side : {"BUY", "SELL"}, trigger : {"NONE", "STOP", "TAKE", "TRAIL"},
   exec : {"market", "limit", "passive"}, qty : 1..MaxQty,
   stop : Prices \cup {NoPrice}, offset : Nat, valid : BOOLEAN]

ASSUME NumbersAssumption ==
  /\ Prices \subseteq Nat /\ IsFiniteSet(Prices) /\ NoPrice \notin Int
  /\ {MaxQty, MaxOrders, MaxFills, MaxBatch} \subseteq Nat \ {0}
ASSUME RequestsAssumption ==
  Requests \subseteq Request /\ OcoRequests \subseteq Request \X Request

VARIABLES
  orders,    \* PortfolioTracker.orders
  trigBook,  \* AdvancedOrderManager._orders; ids ascend, so their order is the dict's
  watch,     \* peak_price_ticks and current_stop_ticks of each TriggerOrder
  groupOf,   \* _order_to_oco
  members,   \* _oco_groups
  resting,   \* remaining quantity of each user order in the engine's book
  executed,  \* quantity of each user order the engine has traded
  pending,   \* events of the source: the multiplexer's prefetched one, then its queue
  agenda,    \* work left in the running handler
  alive,     \* the task of _run_simulation has not died
  lastTs     \* OHLCAggregator._last_trade_ts_ns

oms == <<trigBook, watch, groupOf, members>>
engine == <<resting, executed>>
vars == <<orders, oms, engine, pending, agenda, alive, lastTs>>

Status == {"NONE", "PENDING", "OPEN", "PARTIALLY_FILLED", "FILLED", "CANCELED",
           "REJECTED", "UNTRIGGERED", "TRIGGERED"}
NoRequest == [qty |-> 0]
Known == {i \in OrderId : orders[i].status # "NONE"}
NextId == Cardinality(Known) + 1
Opposed(i, side) == i \in Known /\ orders[i].req.side # side

-----------------------------------------------------------------------------
(* Work items. *)

Trade(b, s, q, p, ts) ==
  [k |-> "trade", buy |-> b, sell |-> s, qty |-> q, price |-> p, ts |-> ts]
Item(kind, i) == [k |-> kind, id |-> i]
Submit(r, g) == [k |-> "submit", req |-> r, group |-> g]
Second(r, g) == [k |-> "second", req |-> r, group |-> g]
Leg(i, q) == [k |-> "leg", id |-> i, qty |-> q]
Peers(S) == [k |-> "peers", ids |-> S]
Activate(i, ts) == [k |-> "activate", id |-> i, ts |-> ts]
OnTrade(p, ts) == [k |-> "onTrade", price |-> p, ts |-> ts]
Scan(todo, p, ts, fired, gone, moved) ==
  [k |-> "scan", todo |-> todo, price |-> p, ts |-> ts, fired |-> fired, gone |-> gone,
   moved |-> moved]
Candle(ts) == [k |-> "candle", ts |-> ts]
Loop == [k |-> "loop"]
Quiet == [k |-> "quiet"]      \* any event of the source that is not a trade

work == Head(agenda)
Doing(kind) == agenda # <<>> /\ work.k = kind
Continue(items) == agenda' = items \o Tail(agenda)

\* Mutant of Raise: nothing is rolled back.
RaiseUncaught ==
  agenda' = <<>> /\ alive' = (alive /\ \A n \in DOMAIN agenda : agenda[n].k # "loop")

\* An exception: submit_oco_orders catches one of its second leg and cancels the
\* first; nothing catches one in the simulation loop; an endpoint reports it.
Raise ==
  LET caught == {n \in DOMAIN agenda : agenda[n].k = "rollback"} IN
  /\ agenda' = IF caught = {} THEN <<>> ELSE <<Item("cancel", agenda[Min(caught)].id)>>
  /\ alive' = (alive /\ \A n \in DOMAIN agenda : agenda[n].k # "loop")

Init ==
  /\ orders = [i \in OrderId |-> [req |-> NoRequest, group |-> NoGroup, filled |-> 0,
                                  status |-> "NONE", shown |-> NoPrice]]
  /\ trigBook = {}
  /\ watch = [i \in OrderId |-> [peak |-> NoPrice, stop |-> NoPrice]]
  /\ groupOf = [i \in OrderId |-> NoGroup]
  /\ members = [g \in OrderId \cup {NoGroup} |-> {}]
  /\ resting = [i \in OrderId |-> 0]
  /\ executed = [i \in OrderId |-> 0]
  /\ pending = <<Quiet>>
  /\ agenda = <<>>
  /\ alive = TRUE
  /\ lastTs = 0

SetStatus(i, s) == orders' = [orders EXCEPT ![i].status = s]

-----------------------------------------------------------------------------
(* The engine, as far as user orders go. *)

\* A fill against a maker.  Quantity 0 stands for a maker of the same participant
\* that self-trade prevention removes (CANCEL_OLDEST).
Fill == [maker : OrderId \cup {NoOrder}, qty : 0..MaxQty, price : Prices]

Amount(fills) == SumFunction([n \in DOMAIN fills |-> fills[n].qty])

Fills(i, r) ==
  {fills \in UNION {[1..n -> Fill] : n \in 0..MaxFills} :
     /\ r.exec = "passive" => fills = <<>>
     /\ Amount(fills) <= r.qty
     /\ \A n \in DOMAIN fills :
          LET m == fills[n].maker IN
          /\ m = NoOrder => fills[n].qty > 0
          /\ m # NoOrder => /\ Opposed(m, r.side)
                            /\ resting[m] > 0
                            /\ fills[n].qty <= resting[m]
                            /\ \A o \in DOMAIN fills \ {n} : fills[o].maker # m}

FillEvent(i, r, f, ts) ==
  IF f.qty = 0 THEN Item("canceled", f.maker)
  ELSE IF r.side = "BUY" THEN Trade(i, f.maker, f.qty, f.price, ts)
  ELSE Trade(f.maker, i, f.qty, f.price, ts)

\* What a maker trades, and what it loses from the book.
TradedBy(fills, m) ==
  LET of == {n \in DOMAIN fills : fills[n].maker = m} IN
  IF of = {} THEN 0 ELSE fills[Min(of)].qty
LostBy(fills, m) ==
  IF \E n \in DOMAIN fills : fills[n].maker = m /\ fills[n].qty = 0
  THEN resting[m] ELSE TradedBy(fills, m)

\* A remainder never rests (MARKET, IOC), rests, or is cancelled with reason
\* STP_CANCEL_NEWEST or as a limit IOC.
MayRest(r) == CASE r.exec = "market" -> {FALSE} [] r.exec = "limit" -> BOOLEAN
                [] OTHER -> {TRUE}

\* The event that ends an order whose remainder does not rest.
Remainder(i, rests, left) ==
  IF rests \/ left = 0 THEN <<>> ELSE <<Item("canceled", i)>>

\* MatchingEngine.submit_order of order i: the book it leaves and the events it
\* returns, which the caller processes one by one afterwards.
EngineSubmit(i, r, ts) ==
  \/ /\ r.exec = "market" \/ r.trigger # "NONE"   \* NO_LIQUIDITY, FOK, MARKET_HALTED
     /\ Continue(<<Item("rejected", i)>>)
     /\ UNCHANGED engine
  \/ \E fills \in Fills(i, r), rests \in MayRest(r) :
       LET left == r.qty - Amount(fills) IN
       /\ resting' = [m \in OrderId |-> IF m = i THEN IF rests THEN left ELSE 0
                                        ELSE resting[m] - LostBy(fills, m)]
       /\ executed' = [m \in OrderId |-> IF m = i THEN Amount(fills)
                                         ELSE executed[m] + TradedBy(fills, m)]
       /\ Continue(<<Item("accepted", i)>>
                   \o [n \in DOMAIN fills |-> FillEvent(i, r, fills[n], ts)]
                   \o Remainder(i, rests, left))

\* MatchingEngine.cancel_order: with the order found, or ORDER_NOT_FOUND, which
\* the portfolio is not told.
EngineCancel(i) ==
  IF resting[i] > 0
  THEN SetStatus(i, "CANCELED") /\ resting' = [resting EXCEPT ![i] = 0]
  ELSE UNCHANGED <<orders, resting>>

-----------------------------------------------------------------------------
(* The trigger book and the OCO groups. *)

\* Mutants of LeaveGroup: the peers stay in the trigger book, or in the map.
LeaveGroupWatched(g, keep) ==
  /\ trigBook' = trigBook \ {keep}
  /\ groupOf' = [i \in OrderId |-> IF i \in members[g] \cup {keep} THEN NoGroup ELSE groupOf[i]]
  /\ members' = [members EXCEPT ![g] = {}]
LeaveGroupMapped(g, keep) ==
  /\ trigBook' = trigBook \ (members[g] \cup {keep})
  /\ groupOf' = [groupOf EXCEPT ![keep] = NoGroup]
  /\ members' = [members EXCEPT ![g] = {}]

\* AdvancedOrderManager.cancel_oco_group(g, exclude_order_id=keep).
LeaveGroup(g, keep) ==
  LET gone == members[g] \ {keep} IN
  /\ trigBook' = trigBook \ (gone \cup {keep})
  /\ groupOf' = [i \in OrderId |-> IF i \in gone \cup {keep} THEN NoGroup ELSE groupOf[i]]
  /\ members' = [members EXCEPT ![g] = {}]

\* on_order_filled; the caller then cancels the peers.
PeersOf(i) == IF groupOf[i] = NoGroup THEN {} ELSE members[groupOf[i]] \ {i}

\* a is nearer than b to where an order of this side trails the price to.
Ahead(side, a, b) == IF side = "SELL" THEN a > b ELSE a < b

Trailed(side, p, offset) == IF side = "SELL" THEN p - offset ELSE p + offset

\* Mutant of Ratchet: every trade moves the stop.
RatchetFree(r, w, p) ==
  IF r.trigger # "TRAIL" THEN w ELSE [peak |-> p, stop |-> Trailed(r.side, p, r.offset)]

\* The watermark and the stop after a trade at p.
Ratchet(r, w, p) ==
  LET stop == Trailed(r.side, p, r.offset) IN
  IF r.trigger # "TRAIL" \/ (w.peak # NoPrice /\ ~Ahead(r.side, p, w.peak)) THEN w
  ELSE [peak |-> p,
        stop |-> IF w.stop = NoPrice \/ Ahead(r.side, stop, w.stop) THEN stop ELSE w.stop]

\* A trade at p reaches the stop of an order that sells when the price falls to it
\* or buys when it rises to it; a take-profit order is the other way round.
Reached(r, stop, p) ==
  IF (r.side = "SELL") = (r.trigger # "TAKE") THEN p <= stop ELSE p >= stop

-----------------------------------------------------------------------------
(* Steps of the running handler. *)

\* submit_user_order: record it, then put it in the trigger book or the engine.
SubmitStep ==
  LET r == work.req
      g == work.group
      i == NextId
  IN
  /\ Doing("submit")
  /\ IF ~r.valid
     THEN Raise /\ UNCHANGED <<orders, oms, engine>>
     ELSE
       /\ orders' = [orders EXCEPT ![i] =
            [req |-> r, group |-> g, filled |-> 0, shown |-> r.stop,
             status |-> IF r.trigger = "NONE" THEN "PENDING" ELSE "UNTRIGGERED"]]
       /\ groupOf' = [groupOf EXCEPT ![i] = g]
       /\ members' = IF g = NoGroup THEN members ELSE [members EXCEPT ![g] = @ \cup {i}]
       /\ IF r.trigger = "NONE"
          THEN EngineSubmit(i, r, UserTs) /\ UNCHANGED <<trigBook, watch>>
          ELSE /\ trigBook' = trigBook \cup {i}
               /\ watch' = [watch EXCEPT ![i] = [peak |-> NoPrice, stop |-> r.stop]]
               /\ Continue(<<>>)
               /\ UNCHANGED engine
       /\ UNCHANGED alive
  /\ UNCHANGED <<pending, lastTs>>

\* submit_oco_orders, the second leg; the first is known to have succeeded.
SecondStep ==
  /\ Doing("second")
  /\ Continue(<<Submit(work.req, work.group), Item("rollback", work.group)>>)
  /\ UNCHANGED <<orders, oms, engine, pending, alive, lastTs>>

\* Nothing was raised: leave the try block or the loop iteration.
LeaveStep ==
  /\ Doing("rollback") \/ Doing("loop") \/ Doing("quiet")
  /\ Continue(<<>>)
  /\ UNCHANGED <<orders, oms, engine, pending, alive, lastTs>>

\* cancel_user_order.
CancelStep ==
  LET i == work.id IN
  /\ Doing("cancel")
  /\ CASE orders[i].status \in {"FILLED", "CANCELED", "REJECTED"} ->
            Raise /\ UNCHANGED <<orders, oms, engine>>
       [] orders[i].status = "UNTRIGGERED" ->
            /\ Continue(<<Peers(PeersOf(i) \cup ({i} \cap trigBook))>>)
            /\ LeaveGroup(groupOf[i], i)
            /\ UNCHANGED <<orders, watch, engine, alive>>
       [] OTHER ->
            /\ EngineCancel(i)
            /\ Continue(<<Peers(PeersOf(i))>>)
            /\ LeaveGroup(groupOf[i], i)
            /\ UNCHANGED <<watch, executed, alive>>
  /\ UNCHANGED <<pending, lastTs>>

\* _cancel_oco_companion of one of the peers; a set has no order.
PeersStep ==
  /\ Doing("peers")
  /\ \/ /\ work.ids = {}
        /\ Continue(<<>>)
        /\ UNCHANGED <<orders, engine>>
     \/ \E c \in work.ids :
          /\ Continue(<<Peers(work.ids \ {c})>>)
          /\ CASE orders[c].status = "UNTRIGGERED" ->
                    SetStatus(c, "CANCELED") /\ UNCHANGED engine
               [] orders[c].status \in {"PENDING", "OPEN", "PARTIALLY_FILLED"} ->
                    EngineCancel(c) /\ UNCHANGED executed
               [] OTHER -> UNCHANGED <<orders, engine>>
  /\ UNCHANGED <<oms, pending, alive, lastTs>>

\* The events of an engine call that concern the portfolio.
ReportStep ==
  /\ \/ /\ Doing("accepted")
        /\ IF orders[work.id].status \in {"PENDING", "TRIGGERED"}
           THEN SetStatus(work.id, "OPEN") ELSE UNCHANGED orders
     \/ Doing("rejected") /\ SetStatus(work.id, "REJECTED")
     \/ Doing("canceled") /\ SetStatus(work.id, "CANCELED")
  /\ Continue(<<>>)
  /\ UNCHANGED <<oms, engine, pending, alive, lastTs>>

\* The portfolio books a trade on the orders it knows.
LegOf(i, q) == IF i \in Known THEN <<Leg(i, q)>> ELSE <<>>

\* Mutant of TradeStep: the seller is looked up only if the buyer is unknown.
TradeOneLeg ==
  LET t == work IN
  /\ Doing("trade")
  /\ Continue((IF t.buy \in Known THEN LegOf(t.buy, t.qty) ELSE LegOf(t.sell, t.qty))
              \o <<OnTrade(t.price, t.ts), Candle(t.ts)>>)
  /\ UNCHANGED <<orders, oms, engine, pending, alive, lastTs>>

\* _process_event of a TradeExecuted.
TradeStep ==
  LET t == work IN
  /\ Doing("trade")
  /\ Continue(LegOf(t.buy, t.qty) \o LegOf(t.sell, t.qty)
              \o <<OnTrade(t.price, t.ts), Candle(t.ts)>>)
  /\ UNCHANGED <<orders, oms, engine, pending, alive, lastTs>>

\* Mutant of Booked: the last fill instead of the sum.
BookedLast(o, q) ==
  [o EXCEPT !.filled = q,
            !.status = IF q >= o.req.qty THEN "FILLED" ELSE "PARTIALLY_FILLED"]

\* The filled quantity and the status after a fill of q.
Booked(o, q) ==
  [o EXCEPT !.filled = @ + q,
            !.status = IF o.filled + q >= o.req.qty THEN "FILLED" ELSE "PARTIALLY_FILLED"]

\* PortfolioTracker.on_trade_executed and, when the order is filled, the end of its
\* OCO group.
LegStep ==
  LET i == work.id IN
  /\ Doing("leg")
  /\ orders' = [orders EXCEPT ![i] = Booked(@, work.qty)]
  /\ IF Booked(orders[i], work.qty).status = "FILLED" /\ groupOf[i] # NoGroup
     THEN Continue(<<Peers(PeersOf(i))>>) /\ LeaveGroup(groupOf[i], i)
     ELSE Continue(<<>>) /\ UNCHANGED <<trigBook, groupOf, members>>
  /\ UNCHANGED <<watch, engine, pending, alive, lastTs>>

\* on_trade copies the trigger book as the legs have left it.
OnTradeStep ==
  /\ Doing("onTrade")
  /\ Continue(<<Scan(trigBook, work.price, work.ts, <<>>, {}, {})>>)
  /\ UNCHANGED <<orders, oms, engine, pending, alive, lastTs>>

\* One iteration of the loop of on_trade over a copy of the trigger book: del of an
\* order that an earlier one of its group has taken out raises KeyError.
ScanStep ==
  LET i == Min(work.todo)
      r == orders[i].req
      w == Ratchet(r, watch[i], work.price)
      fires == w.stop # NoPrice /\ Reached(r, w.stop, work.price)
      moved == IF w.stop # watch[i].stop THEN work.moved \cup {i} ELSE work.moved
  IN
  /\ Doing("scan")
  /\ work.todo # {}
  /\ watch' = [watch EXCEPT ![i] = w]
  /\ IF ~fires
     THEN /\ Continue(<<[work EXCEPT !.todo = @ \ {i}, !.moved = moved]>>)
          /\ UNCHANGED <<trigBook, groupOf, members, alive>>
     ELSE IF i \notin trigBook
     THEN Raise /\ UNCHANGED <<trigBook, groupOf, members>>
     ELSE /\ LeaveGroup(orders[i].group, i)
          /\ Continue(<<[work EXCEPT !.todo = @ \ {i}, !.moved = moved,
                           !.fired = Append(@, i), !.gone = @ \cup (members[orders[i].group] \ {i})]>>)
          /\ UNCHANGED alive
  /\ UNCHANGED <<orders, engine, pending, lastTs>>

\* Mutant of ShowStops: the ratcheted stops are dropped.
ShowNoStops == UNCHANGED orders

\* PortfolioTracker.update_stop_price for each ratcheted stop.
ShowStops ==
  orders' = [i \in OrderId |-> IF i \in work.moved
                                THEN [orders[i] EXCEPT !.shown = watch[i].stop]
                                ELSE orders[i]]

\* The end of on_trade: new stops are shown, peers cancelled, fired orders activated.
ScannedStep ==
  /\ Doing("scan")
  /\ work.todo = {}
  /\ ShowStops
  /\ Continue(<<Peers(work.gone)>>
              \o [n \in DOMAIN work.fired |-> Activate(work.fired[n], work.ts)])
  /\ UNCHANGED <<oms, engine, pending, alive, lastTs>>

\* Mutant of ActivateStep: the order carries a user's time, not the trade's.
ActivateUntimed ==
  LET i == work.id IN
  /\ Doing("activate")
  /\ IF orders[i].status = "UNTRIGGERED" THEN SetStatus(i, "TRIGGERED") ELSE UNCHANGED orders
  /\ EngineSubmit(i, orders[i].req, UserTs)
  /\ UNCHANGED <<oms, pending, alive, lastTs>>

\* An activated order goes to the engine.
ActivateStep ==
  LET i == work.id IN
  /\ Doing("activate")
  /\ IF orders[i].status = "UNTRIGGERED" THEN SetStatus(i, "TRIGGERED") ELSE UNCHANGED orders
  /\ EngineSubmit(i, orders[i].req, work.ts)
  /\ UNCHANGED <<oms, pending, alive, lastTs>>

\* OHLCAggregator.update_trade refuses a trade older than the last one.
CandleStep ==
  /\ Doing("candle")
  /\ IF work.ts < lastTs
     THEN Raise /\ UNCHANGED lastTs
     ELSE lastTs' = work.ts /\ Continue(<<>>) /\ UNCHANGED alive
  /\ UNCHANGED <<orders, oms, engine, pending>>

-----------------------------------------------------------------------------
(* Handlers, started when nothing else runs. *)

SubmitOrder(r) ==
  /\ agenda = <<>>
  /\ NextId \in OrderId
  /\ agenda' = <<Submit(r, NoGroup)>>
  /\ UNCHANGED <<orders, oms, engine, pending, alive, lastTs>>

SubmitOco(legs) ==
  /\ agenda = <<>>
  /\ NextId + 1 \in OrderId
  /\ agenda' = <<Submit(legs[1], NextId), Second(legs[2], NextId)>>
  /\ UNCHANGED <<orders, oms, engine, pending, alive, lastTs>>

CancelOrder(i) ==
  /\ agenda = <<>>
  /\ i \in Known
  /\ agenda' = <<Item("cancel", i)>>
  /\ UNCHANGED <<orders, oms, engine, pending, alive, lastTs>>

\* The events of one step of the agents: they trade with each other, with a resting
\* user order (m), or do something else.
AgentEvent ==
  {Quiet} \cup {Trade(NoOrder, NoOrder, 1, p, AgentTs) : p \in Prices}
  \cup {IF orders[m].req.side = "BUY" THEN Trade(m, NoOrder, q, p, AgentTs)
        ELSE Trade(NoOrder, m, q, p, AgentTs) :
          m \in {i \in Known : resting[i] > 0}, q \in 1..MaxQty, p \in Prices}

\* The quantity of order i in one item, and in a sequence of them.
Part(e, i) ==
  IF e.k = "trade" THEN (IF e.buy = i THEN e.qty ELSE 0) + (IF e.sell = i THEN e.qty ELSE 0)
  ELSE IF e.k = "leg" /\ e.id = i THEN e.qty ELSE 0
Traded(items, i) == SumFunction([n \in DOMAIN items |-> Part(items[n], i)])

AgentBatches ==
  {b \in UNION {[1..n -> AgentEvent] : n \in 1..MaxBatch} :
     \A m \in OrderId : Traded(b, m) <= resting[m]}

\* One iteration of _run_simulation.  The multiplexer refills its slot before it
\* returns the event, so the agents act before that event is processed.
Tick ==
  /\ agenda = <<>>
  /\ alive
  /\ agenda' = <<Head(pending), Loop>>
  /\ IF Len(pending) > 1
     THEN pending' = Tail(pending) /\ UNCHANGED engine
     ELSE \E batch \in AgentBatches :
            /\ pending' = batch
            /\ resting' = [m \in OrderId |-> resting[m] - Traded(batch, m)]
            /\ executed' = [m \in OrderId |-> executed[m] + Traded(batch, m)]
  /\ UNCHANGED <<orders, oms, alive, lastTs>>

Work ==
  \/ SubmitStep \/ SecondStep \/ LeaveStep \/ CancelStep \/ PeersStep \/ ReportStep
  \/ TradeStep \/ LegStep \/ OnTradeStep \/ ScanStep \/ ScannedStep \/ ActivateStep \/ CandleStep

Next ==
  \/ Work
  \/ \E r \in Requests : SubmitOrder(r)
  \/ \E legs \in OcoRequests : SubmitOco(legs)
  \/ \E i \in OrderId : CancelOrder(i)
  \/ Tick

\* A handler runs to its end.  The event loop runs the callbacks that are ready in
\* the order they became ready, so requests that keep coming do not keep the
\* simulation task from running once its sleep is over: strong fairness.
Fairness == WF_vars(Work) /\ SF_vars(Tick)

Spec == Init /\ [][Next]_vars /\ Fairness

-----------------------------------------------------------------------------
(* Properties. *)

TypeOK ==
  /\ \A i \in OrderId : /\ orders[i].status \in Status
                        /\ orders[i].filled \in 0..MaxQty
                        /\ orders[i].group \in {NoGroup} \cup OrderId
  /\ trigBook \subseteq OrderId
  /\ groupOf \in [OrderId -> OrderId \cup {NoGroup}]
  /\ members \in [OrderId \cup {NoGroup} -> SUBSET OrderId]
  /\ resting \in [OrderId -> 0..MaxQty]
  /\ executed \in [OrderId -> 0..MaxQty]
  /\ alive \in BOOLEAN
  /\ lastTs \in {UserTs, AgentTs}

\* Between handlers, the orders the portfolio calls untriggered are those the
\* trigger book watches, with the same stop (advanced_orders.py,
\* portfolio.py): none is watched that the user believes gone, or the reverse.
WatchedIffUntriggered ==
  agenda = <<>> =>
    /\ \A i \in OrderId : orders[i].status = "UNTRIGGERED" <=> i \in trigBook
    /\ \A i \in trigBook : orders[i].shown = watch[i].stop

\* _order_to_oco and _oco_groups are inverse to each other at any point of any
\* handler, although four methods and a loop change them.
GroupsInverse ==
  \A i \in OrderId : /\ groupOf[i] # NoGroup => i \in members[groupOf[i]]
                     /\ \A g \in OrderId : i \in members[g] => groupOf[i] = g

\* The quantity of order i in trades that some handler or queue still holds.
Unbooked(i) == Traded(agenda, i) + Traded(pending, i)

\* Every fill of a user order is booked once, or is still on its way to the
\* portfolio; and an order never executes beyond its quantity.
EveryFillBooked ==
  \A i \in Known : /\ executed[i] = orders[i].filled + Unbooked(i)
                   /\ executed[i] + resting[i] <= orders[i].req.qty

Triggered(i) ==
  orders[i].req.trigger # "NONE" /\ orders[i].status \notin {"UNTRIGGERED", "CANCELED"}

\* When an order of an OCO group has triggered or filled, no other of the group can
\* still trigger or trade (docs/DECISIONS.md, ADR-017).
PeersDieTogether ==
  agenda = <<>> =>
    \A i, j \in Known :
      i # j /\ orders[i].group # NoGroup /\ orders[i].group = orders[j].group
      /\ (Triggered(i) \/ orders[i].status = "FILLED")
        => j \notin trigBook /\ resting[j] = 0

\* One cancels the other: two orders of a group are never both filled
\* (docs/DECISIONS.md, ADR-017; not so, README, section 6).
AtMostOneLegFills ==
  \A i, j \in Known :
    i # j /\ orders[i].group # NoGroup /\ orders[i].group = orders[j].group
      => ~(orders[i].status = "FILLED" /\ orders[j].status = "FILLED")

\* An OCO submission of which only the first leg was recorded leaves nothing of it.
OcoSubmissionAtomic ==
  agenda = <<>> =>
    \A i \in Known :
      orders[i].group = i /\ (\A j \in Known \ {i} : orders[j].group # i)
        => executed[i] = 0 /\ resting[i] = 0 /\ i \notin trigBook

\* The simulation loop survives every event.
LoopSurvives == alive

\* The stop of a trailing order only ever follows the price (_evaluate_order): up for
\* a sale, down for a purchase.
TrailingStopRatchets ==
  [][\A i \in Known :
       watch'[i].stop # watch[i].stop
         => \/ watch[i].stop = NoPrice
            \/ Ahead(orders[i].req.side, watch'[i].stop, watch[i].stop)]_vars

\* Every fill eventually reaches the portfolio.
FillsReachPortfolio ==
  \A i \in OrderId : executed[i] > orders[i].filled ~> executed[i] = orders[i].filled
=============================================================================
