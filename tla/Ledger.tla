------------------------------- MODULE Ledger -------------------------------
(***************************************************************************)
(* core/portfolio.py, PortfolioTracker: cash, positions and profit of the  *)
(* user, in ticks.  The statuses of its orders are in OrderManagement; here *)
(* an order is what it asks and what of it is filled.  The engine is part  *)
(* of the environment: it fills what rests in it, at a price no worse than *)
(* the limit.  The average entry price, a float in the code, is an exact   *)
(* fraction: the error of its last bits is left out, round() is not.       *)
(***************************************************************************)
EXTENDS Ticks, FiniteSets, FiniteSetsExt

CONSTANTS
  Symbols,
  Prices,     \* price ticks, of orders and of trades
  Deposits,   \* initial cash, in ticks
  MaxQty,     \* the largest quantity of an order
  MaxOrders,  \* orders submitted in all (bound)
  MaxResets   \* resets of the account (bound)

ASSUME LedgerAssumption ==
  /\ Prices \subseteq Nat \ {0} /\ IsFiniteSet(Prices)
  /\ Deposits \subseteq Nat /\ Deposits # {} /\ IsFiniteSet(Symbols)
  /\ {MaxQty, MaxOrders, MaxResets} \subseteq Nat

VARIABLES
  initial,    \* initial_cash_ticks
  cash,       \* cash_ticks
  positions,  \* symbol -> Position
  submitted,  \* every order ever accepted by validate_order
  known,      \* the keys of PortfolioTracker.orders
  filled,     \* order -> quantity executed in the engine
  resting,    \* orders the engine may still fill
  rounded,    \* executions whose profit was rounded, since the last reset
  exposed,    \* some buy was accepted while another one was open, or at the market
  resets

account == <<initial, cash, positions, rounded>>
book == <<submitted, known, filled, resting>>
vars == <<account, book, exposed, resets>>

OrderId == 1..MaxOrders
Sides == {"BUY", "SELL"}
Order == [symbol : Symbols, side : Sides, qty : 1..MaxQty, price : Prices,
          type : {"LIMIT", "MARKET"}]
Signed(side, n) == IF side = "BUY" THEN n ELSE -n

\* The fraction n / d in lowest terms.
Ratio(n, d) ==
  LET g == Max({k \in 1..d : d % k = 0 /\ n % k = 0}) IN [n |-> n \div g, d |-> d \div g]

Flat == [qty |-> 0, avg |-> [n |-> 0, d |-> 1], realized |-> 0]
TypeOK ==
  /\ initial \in Deposits /\ cash \in Int
  /\ \A x \in Symbols :
       /\ positions[x].qty \in Int /\ positions[x].realized \in Int
       /\ positions[x].avg.d \in Nat \ {0}
       /\ (positions[x].qty = 0) <=> (positions[x].avg.n = 0)
  /\ submitted \in [DOMAIN submitted -> Order] /\ DOMAIN submitted \subseteq OrderId
  /\ known \subseteq DOMAIN submitted /\ resting \subseteq DOMAIN submitted
  /\ \A o \in DOMAIN submitted : filled[o] \in 0..submitted[o].qty
  /\ rounded \in Nat /\ exposed \in BOOLEAN /\ resets \in 0..MaxResets

Init ==
  /\ initial \in Deposits /\ cash = initial
  /\ positions = [x \in Symbols |-> Flat] /\ rounded = 0
  /\ submitted = <<>> /\ filled = <<>> /\ known = {} /\ resting = {}
  /\ exposed = FALSE /\ resets = 0

-----------------------------------------------------------------------------
(* Orders. *)

\* Mutant of Affordable: the quantity is forgotten.
AffordableOne(side, qty, price) == side = "BUY" => price <= cash

\* validate_order: a buy needs the cash for all of it; other orders that are open
\* are not looked at, and a sale needs nothing.
Affordable(side, qty, price) == side = "BUY" => qty * price <= cash

OpenBuys == {o \in resting : submitted[o].side = "BUY"}

\* For a market order the price is the latest one, an estimate.
Submit(ord) ==
  LET o == Cardinality(DOMAIN submitted) + 1
  IN  /\ o <= MaxOrders
      /\ Affordable(ord.side, ord.qty, ord.price)
      /\ submitted' = [i \in DOMAIN submitted \cup {o} |-> IF i = o THEN ord ELSE submitted[i]]
      /\ filled' = [i \in DOMAIN filled \cup {o} |-> IF i = o THEN 0 ELSE filled[i]]
      /\ known' = known \cup {o} /\ resting' = resting \cup {o}
      /\ exposed' = (exposed \/ (ord.side = "BUY" /\ (OpenBuys # {} \/ ord.type = "MARKET")))
      /\ UNCHANGED <<account, resets>>

\* The order is canceled, by the user or by the engine; the account is as before.
Cancel(o) ==
  /\ o \in resting
  /\ resting' = resting \ {o}
  /\ UNCHANGED <<account, submitted, known, filled, exposed, resets>>

-----------------------------------------------------------------------------
(* on_trade_executed.  The two branches of the code are mirror images: sign *)
(* is 1 for a buy and -1 for a sale.                                        *)

\* Opening a position or adding to it: the average entry price is weighted.
Added(pos, sign, qty, price) ==
  LET held == Abs(pos.qty)
  IN  [pos EXCEPT !.qty = @ + sign * qty,
                  !.avg = Ratio(held * @.n + qty * price * @.d, @.d * (held + qty))]

\* Mutant of Reduced: what is left over after closing keeps the old one.
ReducedKeepsEntry(pos, sign, qty, price) ==
  LET closed == Smaller(qty, Abs(pos.qty))
  IN  [qty |-> pos.qty + sign * qty,
       avg |-> IF pos.qty + sign * qty = 0 THEN Flat.avg ELSE pos.avg,
       realized |-> pos.realized + Round(sign * (pos.avg.n - price * pos.avg.d) * closed, pos.avg.d)]

\* Closing a position, or part of it, and opening the opposite one with the rest:
\* the profit on what is closed is rounded to ticks.
Reduced(pos, sign, qty, price) ==
  LET closed == Smaller(qty, Abs(pos.qty))
      rest == qty - closed
  IN  [qty |-> IF rest > 0 THEN sign * rest ELSE pos.qty + sign * closed,
       avg |-> IF rest > 0 THEN Ratio(price, 1)
               ELSE IF closed = Abs(pos.qty) THEN Flat.avg ELSE pos.avg,
       realized |-> pos.realized + Round(sign * (pos.avg.n - price * pos.avg.d) * closed, pos.avg.d)]

Closes(pos, sign) == sign * pos.qty < 0

OnTradeExecuted(x, side, qty, price) ==
  LET sign == Signed(side, 1)
      pos == positions[x]
  IN  /\ cash' = cash - sign * qty * price
      /\ positions' = [positions EXCEPT ![x] =
           IF Closes(pos, sign) THEN Reduced(pos, sign, qty, price)
           ELSE Added(pos, sign, qty, price)]
      /\ rounded' = rounded + (IF Closes(pos, sign) THEN 1 ELSE 0)
      /\ UNCHANGED initial

Allowed(ord, price) ==
  CASE ord.type = "MARKET" -> TRUE
    [] ord.side = "BUY" -> price <= ord.price
    [] OTHER -> price >= ord.price

\* The engine executes an order, partly or whole.  _process_event books the trade
\* if the order is still known; after a reset it may not be.
Execute(o, qty, price) ==
  LET ord == submitted[o]
  IN  /\ o \in resting /\ qty <= ord.qty - filled[o] /\ Allowed(ord, price)
      /\ filled' = [filled EXCEPT ![o] = @ + qty]
      /\ resting' = IF filled[o] + qty = ord.qty THEN resting \ {o} ELSE resting
      /\ IF o \in known THEN OnTradeExecuted(ord.symbol, ord.side, qty, price)
         ELSE UNCHANGED account
      /\ UNCHANGED <<submitted, known, exposed, resets>>

\* Mutant of Reset: the orders are kept.
ResetKeepsOrders(deposit) ==
  /\ resets < MaxResets /\ resets' = resets + 1
  /\ initial' = deposit /\ cash' = deposit
  /\ positions' = [x \in Symbols |-> Flat] /\ rounded' = 0
  /\ UNCHANGED <<book, exposed>>

\* reset: the orders are forgotten, not canceled.
Reset(deposit) ==
  /\ resets < MaxResets /\ resets' = resets + 1
  /\ initial' = deposit /\ cash' = deposit
  /\ positions' = [x \in Symbols |-> Flat] /\ rounded' = 0
  /\ known' = {}
  /\ UNCHANGED <<submitted, filled, resting, exposed>>

Next ==
  \/ \E ord \in Order : Submit(ord)
  \/ \E o \in DOMAIN submitted : Cancel(o)
  \/ \E o \in DOMAIN submitted, qty \in 1..MaxQty, price \in Prices : Execute(o, qty, price)
  \/ \E deposit \in Deposits : Reset(deposit)

Spec == Init /\ [][Next]_vars

-----------------------------------------------------------------------------
(* get_summary, at one price for every position. *)

MarketValue(price) == SumFunction([x \in Symbols |-> positions[x].qty * price])
UnrealizedOf(pos, price) == Round((price * pos.avg.d - pos.avg.n) * pos.qty, pos.avg.d)
Unrealized(price) == SumFunction([x \in Symbols |-> UnrealizedOf(positions[x], price)])
Realized == SumFunction([x \in Symbols |-> positions[x].realized])
Equity(price) == cash + MarketValue(price)

\* By how much the two sides of the accounting identity differ.
Drift(price) == Equity(price) - (initial + Realized + Unrealized(price))

\* The accounting identity holds up to half a tick per rounding: one for each
\* execution that closed something, one for each open position.
DriftBounded ==
  \A price \in Prices :
    2 * Abs(Drift(price)) <= rounded + Cardinality({x \in Symbols : positions[x].qty # 0})

\* The identity as documented, which the rounding breaks.
AccountingIdentity == \A price \in Prices : Drift(price) = 0

\* As long as no two buys were open together and none went to the market, the cash
\* never runs out, although fills come in parts, at other prices, between sales,
\* cancellations and resets.
NoOverdraft == exposed \/ cash >= 0

Executed == [o \in DOMAIN submitted |-> Signed(submitted[o].side, filled[o])]
KnownOf(x) == {o \in known : submitted[o].symbol = x}

\* A position is what the known orders have executed: a reset starts anew for both,
\* and what its forgotten orders still execute in the engine is in neither.
PositionsFromKnownOrders ==
  \A x \in Symbols : positions[x].qty = SumFunctionOnSet(Executed, KnownOf(x))
=============================================================================
