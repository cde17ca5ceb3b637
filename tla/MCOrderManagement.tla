-------------------------- MODULE MCOrderManagement --------------------------
(* Requests for the TLC instances of OrderManagement. *)
EXTENDS OrderManagement

Req(side, trigger, exec, qty, stop, offset) ==
  [side |-> side, trigger |-> trigger, exec |-> exec, qty |-> qty, stop |-> stop,
   offset |-> offset, valid |-> TRUE]

LimitSell(q) == Req("SELL", "NONE", "passive", q, NoPrice, 0)
LimitBuy(q) == Req("BUY", "NONE", "passive", q, NoPrice, 0)
StopSell == Req("SELL", "STOP", "market", 1, 1, 0)
TakeSell == Req("SELL", "TAKE", "limit", 1, 3, 0)
TrailSell == Req("SELL", "TRAIL", "market", 1, NoPrice, 1)
TrailBuy == Req("BUY", "TRAIL", "market", 1, 3, 1)
Buy(q) == Req("BUY", "NONE", "limit", q, NoPrice, 0)
Refused(r) == [r EXCEPT !.valid = FALSE]

\* Brackets around a position: one leg watches the price, the other rests; and one
\* whose second leg is refused.
Brackets == {<<StopSell, LimitSell(2)>>, <<LimitSell(2), TrailSell>>,
             <<StopSell, Refused(LimitSell(1))>>}
Resting == {LimitBuy(1)}

\* Orders that wait for a price, on both sides, and what they trade with.
Watching == {TakeSell, TrailSell, TrailBuy, LimitSell(1)}

\* Both legs of a pair wait for the same fall of the price.
TwoStops == {<<StopSell, TrailSell>>}

\* A leg that rests when it has triggered.
StopLimitSell == Req("SELL", "STOP", "limit", 1, 1, 0)
StopLimits == {<<StopLimitSell, LimitSell(2)>>}

\* A first leg that may trade at once.
Marketable == {<<Buy(1), LimitBuy(1)>>, <<Buy(1), Refused(LimitBuy(1))>>}
\* One order that may trade at once, rest, or both.
BuyTwo == {Buy(2)}
None == {}
=============================================================================
