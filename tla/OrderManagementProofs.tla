------------------------ MODULE OrderManagementProofs ------------------------
(***************************************************************************)
(* Proofs about the life of user orders: types, the numbering of orders,   *)
(* the shape of the agenda and the OCO groups (Base, which holds of every  *)
(* workload), and what keeps the simulation loop alive when no pair of     *)
(* requests waits for the price with both its legs (Guarded).              *)
(* OrderBookingProofs goes on from here.                                   *)
(***************************************************************************)
EXTENDS OrderManagement, Sums

Ids == OrderId \cup {NoOrder}
Times == {UserTs, AgentTs}
Ticks == Int \cup {NoPrice}

\* The items of an agenda, by kind.
TradeItem == [k : {"trade"}, buy : Ids, sell : Ids, qty : Nat, price : Prices, ts : Times]
OrderItem == [k : {"accepted", "rejected", "canceled", "cancel", "rollback"}, id : OrderId]
SubmitItem == [k : {"submit"}, req : Request, group : Ids]
SecondItem == [k : {"second"}, req : Request, group : OrderId]
LegItem == [k : {"leg"}, id : OrderId, qty : Nat]
PeersItem == [k : {"peers"}, ids : SUBSET OrderId]
ActivateItem == [k : {"activate"}, id : OrderId, ts : Times]
OnTradeItem == [k : {"onTrade"}, price : Prices, ts : Times]
ScanItem ==
  [k : {"scan"}, todo : SUBSET OrderId, price : Prices, ts : Times, fired : Seq(OrderId),
   gone : SUBSET OrderId, moved : SUBSET OrderId]
CandleItem == [k : {"candle"}, ts : Times]
BareItem == [k : {"loop", "quiet"}]
QueueItem == TradeItem \cup {Quiet}
WorkItem ==
  UNION {TradeItem, OrderItem, SubmitItem, SecondItem, LegItem, PeersItem, ActivateItem,
         OnTradeItem, ScanItem, CandleItem, BareItem}

OrderRow ==
  [req : Request \cup {NoRequest}, group : Ids, filled : Nat, status : Status, shown : Ticks]

Typed ==
  /\ orders \in [OrderId -> OrderRow]
  /\ \A i \in Known : orders[i].req \in Request
  /\ trigBook \subseteq Known
  /\ watch \in [OrderId -> [peak : Ticks, stop : Ticks]]
  /\ groupOf \in [OrderId -> Ids]
  /\ members \in [Ids -> SUBSET OrderId]
  /\ resting \in [OrderId -> Nat]
  /\ executed \in [OrderId -> Nat]
  /\ agenda \in Seq(WorkItem)
  /\ pending \in Seq(QueueItem)
  /\ pending # <<>>
  /\ alive \in BOOLEAN
  /\ lastTs \in Times

\* Orders are numbered as they come.
Numbered == NextId \in Nat \ {0} /\ Known = 1..(NextId - 1)

\* The orders an item names are known; of what waits for its first leg, see Shaped.
NamesIn(w, K) ==
  /\ w.k \in {"accepted", "rejected", "canceled", "cancel", "rollback", "leg", "activate"}
       => w.id \in K
  /\ w.k = "trade" => {w.buy, w.sell} \subseteq K \cup {NoOrder}
  /\ w.k = "peers" => w.ids \subseteq K
  /\ w.k = "scan" => /\ w.todo \cup w.gone \cup w.moved \subseteq K
                     /\ \A n \in DOMAIN w.fired : w.fired[n] \in K
Names(w) == NamesIn(w, Known)
NamesKnown ==
  /\ \A n \in DOMAIN agenda : Names(agenda[n])
  /\ \A n \in DOMAIN pending : Names(pending[n])

\* What catches, repeats or follows is at the bottom, what starts a handler or loops
\* is at the top; a submission has room for the orders it makes.
Shaped ==
  \A n \in DOMAIN agenda :
    /\ agenda[n].k \in {"loop", "second", "rollback"} => n = Len(agenda)
    /\ agenda[n].k \in {"submit", "cancel", "scan"} => n = 1
    /\ agenda[n].k = "cancel" => Len(agenda) = 1
    /\ agenda[n].k = "submit" =>
         /\ NextId \in OrderId
         /\ \/ Len(agenda) = 1 /\ agenda[1].group = NoGroup
            \/ /\ Len(agenda) = 2 /\ agenda[2].k = "second" /\ NextId + 1 \in OrderId
               /\ agenda[1].group = NextId /\ agenda[2].group = NextId
            \/ /\ Len(agenda) = 2 /\ agenda[2].k = "rollback"
               /\ agenda[1].group = agenda[2].id
    /\ agenda[n].k = "second" =>
         agenda[1].k = "submit" \/ (agenda[n].group \in Known /\ NextId \in OrderId)

\* The two maps of OCO groups are inverse; an order is in its group or in none.
Grouped ==
  /\ \A i \in OrderId : groupOf[i] \in {NoGroup, orders[i].group}
  /\ \A i \in OrderId \ Known : groupOf[i] = NoGroup
  /\ members[NoGroup] = {}
  /\ GroupsInverse

Base == Typed /\ Numbered /\ NamesKnown /\ Shaped /\ Grouped

-----------------------------------------------------------------------------
(* No pair of requests waits for the price with both legs. *)

OneTriggered ==
  \A legs \in OcoRequests : legs[1].trigger = "NONE" \/ legs[2].trigger = "NONE"

\* What the simulation loop processes carries the agents' time.
Timed(w) ==
  w.k \in {"trade", "activate", "onTrade", "scan", "candle"} => w.ts = AgentTs
LoopTimed ==
  /\ \A n \in DOMAIN pending : Timed(pending[n])
  /\ \A n \in DOMAIN agenda : agenda[n].k = "loop" =>
       \A m \in DOMAIN agenda :
         Timed(agenda[m]) /\ agenda[m].k \notin {"submit", "cancel"}

\* Of a group, one order at most waits for the price; a second leg still to be
\* submitted finds the first alone.
OneWatched ==
  /\ \A i \in trigBook : orders[i].req.trigger # "NONE"
  /\ \A i, j \in Known :
       /\ orders[i].group # NoGroup /\ orders[i].group = orders[j].group
       /\ orders[i].req.trigger # "NONE" /\ orders[j].req.trigger # "NONE"
       => i = j
  /\ \A i \in Known : orders[i].group <= i
Coming(r, g) ==
  \A j \in Known : orders[j].group = g =>
    j = g /\ (orders[j].req.trigger = "NONE" \/ r.trigger = "NONE")
SecondLegs ==
  \A n \in DOMAIN agenda :
    /\ agenda[n].k = "second" => Coming(agenda[n].req, agenda[n].group)
    /\ (agenda[n].k = "second" /\ agenda[1].k = "submit") =>
         agenda[1].req.trigger = "NONE" \/ agenda[n].req.trigger = "NONE"
    /\ (agenda[n].k = "submit" /\ agenda[n].group # NoGroup) =>
         Coming(agenda[n].req, agenda[n].group)

\* The scan goes over orders the trigger book still holds.
ScanCurrent == \A n \in DOMAIN agenda : agenda[n].k = "scan" => agenda[n].todo \subseteq trigBook

Guarded == Base /\ LoopTimed /\ OneWatched /\ SecondLegs /\ ScanCurrent /\ alive

-----------------------------------------------------------------------------
(* Items, and what the step of a handler makes of the agenda. *)

\* The fields of an item follow from its kind.
LEMMA ItemFields ==
  ASSUME NEW w \in WorkItem
  PROVE  /\ w.k = "trade" => w \in TradeItem
         /\ w.k \in {"accepted", "rejected", "canceled", "cancel", "rollback"} => w \in OrderItem
         /\ w.k = "submit" => w \in SubmitItem
         /\ w.k = "second" => w \in SecondItem
         /\ w.k = "leg" => w \in LegItem
         /\ w.k = "peers" => w \in PeersItem
         /\ w.k = "activate" => w \in ActivateItem
         /\ w.k = "onTrade" => w \in OnTradeItem
         /\ w.k = "scan" => w \in ScanItem
         /\ w.k = "candle" => w \in CandleItem
         /\ w.k \in {"loop", "quiet"} => w \in BareItem
BY DEF WorkItem, TradeItem, OrderItem, SubmitItem, SecondItem, LegItem, PeersItem,
   ActivateItem, OnTradeItem, ScanItem, CandleItem, BareItem

LEMMA ItemTypes ==
  /\ \A b, s \in Ids, q \in Nat, p \in Prices, ts \in Times :
       Trade(b, s, q, p, ts) \in TradeItem
  /\ \A i \in OrderId : {Item("accepted", i), Item("rejected", i), Item("canceled", i),
                        Item("cancel", i), Item("rollback", i)} \subseteq OrderItem
  /\ \A r \in Request, g \in Ids : Submit(r, g) \in SubmitItem
  /\ \A r \in Request, g \in OrderId : Second(r, g) \in SecondItem
  /\ \A i \in OrderId, q \in Nat : Leg(i, q) \in LegItem
  /\ \A S \in SUBSET OrderId : Peers(S) \in PeersItem
  /\ \A i \in OrderId, ts \in Times : Activate(i, ts) \in ActivateItem
  /\ \A p \in Prices, ts \in Times : OnTrade(p, ts) \in OnTradeItem
  /\ \A todo, gone, moved \in SUBSET OrderId, fired \in Seq(OrderId), p \in Prices, ts \in Times :
       Scan(todo, p, ts, fired, gone, moved) \in ScanItem
  /\ \A ts \in Times : Candle(ts) \in CandleItem
  /\ Loop \in BareItem /\ Quiet \in BareItem
BY DEF Trade, Item, Submit, Second, Leg, Peers, Activate, OnTrade, Scan, Candle, Loop, Quiet,
   TradeItem, OrderItem, SubmitItem, SecondItem, LegItem, PeersItem,
   ActivateItem, OnTradeItem, ScanItem, CandleItem, BareItem

LEMMA ItemKinds ==
  /\ TradeItem \subseteq WorkItem /\ OrderItem \subseteq WorkItem
  /\ SubmitItem \subseteq WorkItem /\ SecondItem \subseteq WorkItem
  /\ LegItem \subseteq WorkItem /\ PeersItem \subseteq WorkItem
  /\ ActivateItem \subseteq WorkItem /\ OnTradeItem \subseteq WorkItem
  /\ ScanItem \subseteq WorkItem /\ CandleItem \subseteq WorkItem
  /\ BareItem \subseteq WorkItem
BY DEF WorkItem

\* The work left after a step: the items it pushes, then the callers' items.
LEMMA ContinueAgenda ==
  ASSUME agenda \in Seq(WorkItem), agenda # <<>>,
         NEW items \in Seq(WorkItem), Continue(items)
  PROVE  /\ agenda' \in Seq(WorkItem)
         /\ Len(agenda') = Len(items) + Len(agenda) - 1
         /\ \A n \in DOMAIN items : n \in DOMAIN agenda' /\ agenda'[n] = items[n]
         /\ \A n \in DOMAIN agenda : n > 1 =>
              /\ n + Len(items) - 1 \in DOMAIN agenda'
              /\ agenda'[n + Len(items) - 1] = agenda[n]
         /\ \A n \in DOMAIN agenda' :
              \/ n \in DOMAIN items /\ agenda'[n] = items[n]
              \/ /\ n > Len(items) /\ n - Len(items) + 1 \in DOMAIN agenda
                 /\ n - Len(items) + 1 > 1 /\ agenda'[n] = agenda[n - Len(items) + 1]
<1>1. agenda' = items \o Tail(agenda) BY DEF Continue
<1>2. Tail(agenda) \in Seq(WorkItem) /\ Len(Tail(agenda)) = Len(agenda) - 1 OBVIOUS
<1>3. \A n \in 1..(Len(agenda) - 1) : Tail(agenda)[n] = agenda[n + 1] OBVIOUS
<1>4. Len(items) \in Nat /\ Len(agenda) \in Nat \ {0} OBVIOUS
<1>5. agenda' \in Seq(WorkItem) /\ Len(agenda') = Len(items) + Len(agenda) - 1
  BY <1>1, <1>2, <1>4
<1>6. \A n \in 1..Len(items) : agenda'[n] = items[n] BY <1>1, <1>2
<1>7. \A n \in (Len(items) + 1)..Len(agenda') : agenda'[n] = agenda[n - Len(items) + 1]
  <2> SUFFICES ASSUME NEW n \in (Len(items) + 1)..Len(agenda')
               PROVE  agenda'[n] = agenda[n - Len(items) + 1]
    OBVIOUS
  <2>1. agenda'[n] = Tail(agenda)[n - Len(items)] BY <1>1, <1>2, <1>4, <1>5
  <2>2. n - Len(items) \in 1..(Len(agenda) - 1) BY <1>4, <1>5
  <2> QED BY <1>3, <2>1, <2>2
<1>8. DOMAIN items = 1..Len(items) /\ DOMAIN agenda = 1..Len(agenda) /\ DOMAIN agenda' = 1..Len(agenda')
  BY <1>5
<1>9. ASSUME NEW n \in DOMAIN agenda, n > 1
      PROVE  /\ n + Len(items) - 1 \in DOMAIN agenda'
             /\ agenda'[n + Len(items) - 1] = agenda[n]
  <2>1. PICK m : m = n + Len(items) - 1 OBVIOUS
  <2>2. n \in Nat /\ n <= Len(agenda) BY <1>8
  <2>3. m \in (Len(items) + 1)..Len(agenda') /\ m \in 1..Len(agenda')
    BY <1>4, <1>5, <1>9, <2>1, <2>2
  <2>4. m - Len(items) + 1 = n BY <1>4, <2>1, <2>2
  <2>5. agenda'[m] = agenda[n] BY <1>7, <2>3, <2>4
  <2> QED BY <1>8, <2>1, <2>3, <2>5
<1>10. ASSUME NEW n \in DOMAIN agenda', n \notin DOMAIN items
       PROVE  /\ n > Len(items) /\ n - Len(items) + 1 \in DOMAIN agenda
              /\ n - Len(items) + 1 > 1 /\ agenda'[n] = agenda[n - Len(items) + 1]
  <2>1. n \in (Len(items) + 1)..Len(agenda') BY <1>4, <1>5, <1>8, <1>10
  <2>2. PICK m : m = n - Len(items) + 1 OBVIOUS
  <2>3. m \in 1..Len(agenda) /\ m > 1 /\ n > Len(items) BY <1>4, <1>5, <2>1, <2>2
  <2>4. agenda'[n] = agenda[m] BY <1>7, <2>1, <2>2
  <2> QED BY <1>8, <2>2, <2>3, <2>4
<1>11. \A n \in DOMAIN items : n \in DOMAIN agenda' /\ agenda'[n] = items[n]
  BY <1>4, <1>5, <1>6, <1>8
<1> QED BY <1>5, <1>9, <1>10, <1>11

\* The running item.
LEMMA Running ==
  ASSUME agenda \in Seq(WorkItem), agenda # <<>>
  PROVE  work = agenda[1] /\ 1 \in DOMAIN agenda /\ work \in WorkItem /\ Len(agenda) \in Nat \ {0}
         /\ DOMAIN agenda = 1..Len(agenda)
BY DEF work

LEMMA MinimumIn ==
  ASSUME NEW S, S \subseteq Nat, S # {}
  PROVE  Min(S) \in S /\ \A m \in S : Min(S) <= m
BY LeastNatural DEF Min

LEMMA ConcatElements ==
  ASSUME NEW S, NEW a \in Seq(S), NEW b \in Seq(S)
  PROVE  /\ a \o b \in Seq(S)
         /\ Len(a \o b) = Len(a) + Len(b)
         /\ \A n \in DOMAIN (a \o b) :
              \/ n \in DOMAIN a /\ (a \o b)[n] = a[n]
              \/ n - Len(a) \in DOMAIN b /\ (a \o b)[n] = b[n - Len(a)]
<1>1. a \o b \in Seq(S) /\ Len(a \o b) = Len(a) + Len(b) OBVIOUS
<1>2. /\ DOMAIN a = 1..Len(a) /\ DOMAIN b = 1..Len(b) /\ DOMAIN (a \o b) = 1..(Len(a) + Len(b))
      /\ Len(a) \in Nat /\ Len(b) \in Nat
  BY <1>1
<1>3. ASSUME NEW n \in 1..(Len(a) + Len(b)), n > Len(a)
      PROVE  n - Len(a) \in 1..Len(b) /\ (a \o b)[n] = b[n - Len(a)]
  BY <1>2, <1>3
<1>4. ASSUME NEW n \in 1..(Len(a) + Len(b)), ~(n > Len(a))
      PROVE  n \in 1..Len(a) /\ (a \o b)[n] = a[n]
  BY <1>2, <1>4
<1> QED BY <1>1, <1>2, <1>3, <1>4

-----------------------------------------------------------------------------
(* What an engine call leaves. *)

LEMMA Numbers ==
  /\ {MaxQty, MaxOrders} \subseteq Nat \ {0} /\ OrderId \subseteq Nat \ {0}
  /\ NoOrder \notin OrderId /\ NoGroup \notin OrderId /\ IsFiniteSet(OrderId)
  /\ Prices \subseteq Int /\ Requests \subseteq Request
  /\ \A legs \in OcoRequests : legs[1] \in Request /\ legs[2] \in Request
<1>1. {MaxQty, MaxOrders} \subseteq Nat \ {0} /\ Prices \subseteq Int BY NumbersAssumption
<1>2. IsFiniteSet(OrderId) BY <1>1, FS_Interval DEF OrderId
<1>3. OrderId \subseteq Nat \ {0} /\ NoOrder \notin OrderId /\ NoGroup \notin OrderId
  BY <1>1 DEF OrderId, NoOrder, NoGroup
<1>4. Requests \subseteq Request BY RequestsAssumption
<1>5. \A legs \in OcoRequests : legs[1] \in Request /\ legs[2] \in Request
  BY RequestsAssumption
<1> QED BY <1>1, <1>2, <1>3, <1>4, <1>5

LEMMA FillsAre ==
  ASSUME NEW i, NEW r, NEW fills \in Fills(i, r)
  PROVE  /\ fills \in Seq(Fill) /\ DOMAIN fills = 1..Len(fills) /\ IsFiniteSet(DOMAIN fills)
         /\ \A n \in DOMAIN fills : /\ fills[n].maker \in Ids /\ fills[n].qty \in Nat
                                    /\ fills[n].price \in Prices
         /\ r.exec = "passive" => fills = <<>>
         /\ Amount(fills) <= r.qty
         /\ \A n \in DOMAIN fills :
              /\ fills[n].maker = NoOrder => fills[n].qty > 0
              /\ fills[n].maker # NoOrder =>
                   /\ fills[n].maker \in Known /\ orders[fills[n].maker].req.side # r.side
                   /\ resting[fills[n].maker] > 0 /\ fills[n].qty <= resting[fills[n].maker]
                   /\ \A o \in DOMAIN fills : o # n => fills[o].maker # fills[n].maker
<1>1. PICK k \in 0..MaxFills : fills \in [1..k -> Fill] BY DEF Fills
<1>2. k \in Nat BY <1>1, NumbersAssumption
<1>3. fills \in Seq(Fill) /\ DOMAIN fills = 1..k /\ Len(fills) = k BY <1>1, <1>2
<1>4. IsFiniteSet(1..k) BY <1>2, FS_Interval
<1>5. \A n \in DOMAIN fills : fills[n] \in Fill BY <1>1
<1>6. \A n \in DOMAIN fills : /\ fills[n].maker \in Ids /\ fills[n].qty \in Nat
                              /\ fills[n].price \in Prices
  BY <1>5, NumbersAssumption DEF Fill, Ids
<1>7. /\ r.exec = "passive" => fills = <<>>
      /\ Amount(fills) <= r.qty
      /\ \A n \in DOMAIN fills :
           /\ fills[n].maker = NoOrder => fills[n].qty > 0
           /\ fills[n].maker # NoOrder =>
                /\ Opposed(fills[n].maker, r.side)
                /\ resting[fills[n].maker] > 0 /\ fills[n].qty <= resting[fills[n].maker]
                /\ \A o \in DOMAIN fills \ {n} : fills[o].maker # fills[n].maker
  BY DEF Fills
<1> QED BY <1>3, <1>4, <1>6, <1>7 DEF Opposed

LEMMA AmountType ==
  ASSUME NEW i, NEW r, NEW fills \in Fills(i, r)
  PROVE  Amount(fills) \in Nat
<1> DEFINE f == [n \in DOMAIN fills |-> fills[n].qty]
<1>1. IsFiniteSet(DOMAIN fills) /\ \A n \in DOMAIN fills : f[n] \in Nat BY FillsAre
<1>2. SumFunctionOnSet(f, DOMAIN fills) \in Nat
  <2> HIDE DEF f
  <2> QED BY <1>1, SumNat
<1> QED BY <1>2 DEF Amount, SumFunction

\* A maker is in one fill.
LEMMA MakersFill ==
  ASSUME NEW i, NEW r, NEW fills \in Fills(i, r), NEW m \in OrderId
  PROVE  /\ \A n \in DOMAIN fills : fills[n].maker = m =>
              TradedBy(fills, m) = fills[n].qty
              /\ LostBy(fills, m) = IF fills[n].qty = 0 THEN resting[m] ELSE fills[n].qty
         /\ (\A n \in DOMAIN fills : fills[n].maker # m) =>
              TradedBy(fills, m) = 0 /\ LostBy(fills, m) = 0
<1> DEFINE of == {n \in DOMAIN fills : fills[n].maker = m}
<1>1. m # NoOrder BY Numbers
<1>2. ASSUME NEW n \in DOMAIN fills, fills[n].maker = m
      PROVE  of = {n}
  BY <1>1, <1>2, FillsAre
<1>4. ASSUME NEW n \in DOMAIN fills, fills[n].maker = m
      PROVE  TradedBy(fills, m) = fills[n].qty
             /\ LostBy(fills, m) = IF fills[n].qty = 0 THEN resting[m] ELSE fills[n].qty
  <2>1. of = {n} BY <1>2, <1>4
  <2>2. Min(of) = n
    <3> HIDE DEF of
    <3>1. n \in Nat /\ of \subseteq Nat BY <2>1, FillsAre
    <3> QED BY <2>1, <3>1, MinimumIn
  <2>3. TradedBy(fills, m) = fills[n].qty BY <2>1, <2>2 DEF TradedBy
  <2>4. \A k \in DOMAIN fills : fills[k].maker = m => k = n BY <2>1
  <2> QED BY <1>4, <2>3, <2>4 DEF LostBy
<1>5. ASSUME \A n \in DOMAIN fills : fills[n].maker # m
      PROVE  TradedBy(fills, m) = 0 /\ LostBy(fills, m) = 0
  <2>1. of = {} BY <1>5
  <2> QED BY <1>5, <2>1 DEF TradedBy, LostBy
<1> QED BY <1>4, <1>5

\* An item an engine call for order i returns: about the order itself, a maker that
\* self-trade prevention takes out, or a trade between the two.
EngineItem(w, i, ts) ==
  \/ w \in {Item("accepted", i), Item("rejected", i), Item("canceled", i)}
  \/ \E m \in Known : w = Item("canceled", m) /\ resting[m] > 0
  \/ \E m \in Known \cup {NoOrder}, q \in Nat, p \in Prices :
       /\ w = Trade(i, m, q, p, ts) \/ w = Trade(m, i, q, p, ts)
       /\ m \in Known => resting[m] > 0

LEMMA EngineItems ==
  ASSUME NEW i \in OrderId, NEW r, NEW fills \in Fills(i, r), NEW rests \in BOOLEAN, NEW left,
         NEW ts \in Times,
         NEW items, items = <<Item("accepted", i)>>
                            \o [n \in DOMAIN fills |-> FillEvent(i, r, fills[n], ts)]
                            \o Remainder(i, rests, left)
  PROVE  items \in Seq(WorkItem) /\ \A n \in DOMAIN items : EngineItem(items[n], i, ts)
<1> DEFINE E == {w \in WorkItem : EngineItem(w, i, ts)}
           middle == [n \in DOMAIN fills |-> FillEvent(i, r, fills[n], ts)]
<1>1. \A k \in {"accepted", "rejected", "canceled"} : Item(k, i) \in E
  BY ItemTypes, ItemKinds DEF EngineItem
<1>2. Remainder(i, rests, left) \in Seq(E)
  <2>1. Item("canceled", i) \in E BY <1>1
  <2> HIDE DEF E
  <2>2. <<>> \in Seq(E) /\ <<Item("canceled", i)>> \in Seq(E) BY <2>1
  <2> QED BY <2>2 DEF Remainder
<1>3. ASSUME NEW n \in DOMAIN fills PROVE FillEvent(i, r, fills[n], ts) \in E
  <2>1. PICK f : f = fills[n] OBVIOUS
  <2>2. /\ f.maker \in Ids /\ f.qty \in Nat /\ f.price \in Prices
        /\ f.maker = NoOrder => f.qty > 0
        /\ f.maker # NoOrder => f.maker \in Known /\ resting[f.maker] > 0
    BY <2>1, FillsAre
  <2>3. i \in Ids BY DEF Ids
  <2>4. CASE f.qty = 0
    <3>1. f.maker \in Known /\ resting[f.maker] > 0 /\ f.maker \in OrderId
      BY <2>2, <2>4 DEF Ids
    <3>2. Item("canceled", f.maker) \in WorkItem BY <3>1, ItemTypes, ItemKinds
    <3>3. EngineItem(Item("canceled", f.maker), i, ts) BY <3>1 DEF EngineItem
    <3> QED BY <2>1, <2>4, <3>2, <3>3 DEF FillEvent
  <2>5. CASE f.qty # 0
    <3>1. f.maker \in Known \cup {NoOrder} /\ (f.maker \in Known => resting[f.maker] > 0)
      BY <2>2, Numbers DEF Known
    <3>2. /\ Trade(i, f.maker, f.qty, f.price, ts) \in WorkItem
          /\ Trade(f.maker, i, f.qty, f.price, ts) \in WorkItem
      BY <2>2, <2>3, ItemTypes, ItemKinds
    <3>3. /\ EngineItem(Trade(i, f.maker, f.qty, f.price, ts), i, ts)
          /\ EngineItem(Trade(f.maker, i, f.qty, f.price, ts), i, ts)
      BY <2>2, <3>1 DEF EngineItem
    <3> QED BY <2>1, <2>5, <3>2, <3>3 DEF FillEvent
  <2> QED BY <2>4, <2>5
<1>4. middle \in Seq(E)
  <2>1. DOMAIN fills = 1..Len(fills) /\ Len(fills) \in Nat BY FillsAre
  <2> QED BY <1>3, <2>1
<1>5. <<Item("accepted", i)>> \in Seq(E) BY <1>1
<1> HIDE DEF E, middle
<1>6. items \in Seq(E) BY <1>2, <1>4, <1>5 DEF middle
<1>7. items \in Seq(WorkItem) /\ \A n \in DOMAIN items : items[n] \in E BY <1>6 DEF E
<1> QED BY <1>7 DEF E

LEMMA EngineCall ==
  ASSUME resting \in [OrderId -> Nat], executed \in [OrderId -> Nat],
         NEW i \in OrderId, NEW r \in Request, NEW ts \in Times,
         EngineSubmit(i, r, ts)
  PROVE  /\ resting' \in [OrderId -> Nat] /\ executed' \in [OrderId -> Nat]
         /\ \E items \in Seq(WorkItem) :
              Continue(items) /\ \A n \in DOMAIN items : EngineItem(items[n], i, ts)
<1>1. CASE Continue(<<Item("rejected", i)>>) /\ UNCHANGED engine
  <2>1. Item("rejected", i) \in WorkItem BY ItemTypes, ItemKinds
  <2>2. EngineItem(Item("rejected", i), i, ts) BY DEF EngineItem
  <2>3. PICK items : items = <<Item("rejected", i)>> OBVIOUS
  <2>4. items \in Seq(WorkItem) /\ \A n \in DOMAIN items : EngineItem(items[n], i, ts)
    BY <2>1, <2>2, <2>3
  <2> QED BY <1>1, <2>3, <2>4 DEF engine
<1>2. ASSUME NEW fills \in Fills(i, r), NEW rests \in MayRest(r), NEW left,
             left = r.qty - Amount(fills),
             resting' = [m \in OrderId |-> IF m = i THEN IF rests THEN left ELSE 0
                                           ELSE resting[m] - LostBy(fills, m)],
             executed' = [m \in OrderId |-> IF m = i THEN Amount(fills)
                                            ELSE executed[m] + TradedBy(fills, m)],
             Continue(<<Item("accepted", i)>>
                      \o [n \in DOMAIN fills |-> FillEvent(i, r, fills[n], ts)]
                      \o Remainder(i, rests, left))
      PROVE  /\ resting' \in [OrderId -> Nat] /\ executed' \in [OrderId -> Nat]
             /\ \E items \in Seq(WorkItem) :
                  Continue(items) /\ \A n \in DOMAIN items : EngineItem(items[n], i, ts)
  <2>1. rests \in BOOLEAN BY <1>2 DEF MayRest
  <2>2. r.qty \in Nat BY Numbers DEF Request
  <2>3. Amount(fills) \in Nat /\ left \in Nat BY <1>2, <2>2, AmountType, FillsAre
  <2>4. ASSUME NEW m \in OrderId
        PROVE  TradedBy(fills, m) \in Nat /\ resting[m] - LostBy(fills, m) \in Nat
    <3>1. CASE \E n \in DOMAIN fills : fills[n].maker = m
      <4>1. PICK n \in DOMAIN fills : fills[n].maker = m BY <3>1
      <4>2. /\ TradedBy(fills, m) = fills[n].qty
            /\ LostBy(fills, m) = IF fills[n].qty = 0 THEN resting[m] ELSE fills[n].qty
        BY <4>1, MakersFill
      <4>3. fills[n].qty \in Nat /\ fills[n].qty <= resting[m] BY <4>1, FillsAre, Numbers
      <4> QED BY <4>2, <4>3
    <3>2. CASE ~ \E n \in DOMAIN fills : fills[n].maker = m
      <4>1. TradedBy(fills, m) = 0 /\ LostBy(fills, m) = 0 BY <3>2, MakersFill
      <4> QED BY <4>1
    <3> QED BY <3>1, <3>2
  <2>5. resting' \in [OrderId -> Nat] /\ executed' \in [OrderId -> Nat]
    BY <1>2, <2>3, <2>4
  <2> QED BY <1>2, <2>1, <2>5, EngineItems
<1> QED BY <1>1, <1>2 DEF EngineSubmit

-----------------------------------------------------------------------------
(* Base is inductive. *)

\* Orders keep what they were submitted with, and none appears.
RowsKept ==
  /\ orders' \in [OrderId -> OrderRow] /\ Known' = Known
  /\ \A i \in OrderId : orders'[i].req = orders[i].req /\ orders'[i].group = orders[i].group

LEMMA StatusRows ==
  ASSUME Typed, NEW i \in Known, NEW s \in Status \ {"NONE"}, SetStatus(i, s)
  PROVE  /\ RowsKept /\ orders'[i].status = s
         /\ \A j \in OrderId : /\ j # i => orders'[j] = orders[j]
                               /\ orders'[j].filled = orders[j].filled
                               /\ orders'[j].shown = orders[j].shown
<1>1. i \in OrderId /\ orders[i] \in OrderRow BY DEF Typed, Known
<1>2. orders \in [OrderId -> OrderRow] BY DEF Typed
<1>3. orders' = [orders EXCEPT ![i] = [orders[i] EXCEPT !.status = s]] BY <1>1, <1>2 DEF SetStatus
<1>4. PICK row : row = [orders[i] EXCEPT !.status = s] OBVIOUS
<1>5. /\ row \in OrderRow /\ row.status = s /\ row.req = orders[i].req /\ row.group = orders[i].group
      /\ row.filled = orders[i].filled /\ row.shown = orders[i].shown
  BY <1>1, <1>4 DEF OrderRow
<1>6. /\ orders' \in [OrderId -> OrderRow] /\ orders'[i] = row
      /\ \A j \in OrderId : j # i => orders'[j] = orders[j]
  BY <1>1, <1>2, <1>3, <1>4, <1>5
<1>7. Known' = Known BY <1>5, <1>6 DEF Known
<1> QED BY <1>5, <1>6, <1>7 DEF RowsKept

LEMMA SameRows ==
  ASSUME Typed, UNCHANGED orders
  PROVE  RowsKept
BY DEF Typed, RowsKept, Known

\* What a step pushes that begins no handler.
Pushed(items) ==
  \A n \in DOMAIN items :
    /\ Names(items[n])
    /\ items[n].k \notin {"loop", "second", "rollback", "submit", "cancel"}
    /\ items[n].k = "scan" => n = 1

LEMMA PushedAgenda ==
  ASSUME Base, agenda # <<>>, work.k # "submit", Known' = Known,
         NEW items \in Seq(WorkItem), Continue(items), Pushed(items)
  PROVE  /\ agenda' \in Seq(WorkItem) /\ Shaped'
         /\ \A n \in DOMAIN agenda' : Names(agenda'[n])
<1>1. agenda \in Seq(WorkItem) BY DEF Base, Typed
<1>2. /\ work = agenda[1] /\ 1 \in DOMAIN agenda /\ Len(agenda) \in Nat \ {0}
      /\ DOMAIN agenda = 1..Len(agenda) /\ Len(items) \in Nat /\ DOMAIN items = 1..Len(items)
  BY <1>1, Running
<1>3. /\ agenda' \in Seq(WorkItem)
      /\ Len(agenda') = Len(items) + Len(agenda) - 1
      /\ \A n \in DOMAIN agenda' :
           \/ n \in DOMAIN items /\ agenda'[n] = items[n]
           \/ /\ n > Len(items) /\ n - Len(items) + 1 \in DOMAIN agenda
              /\ n - Len(items) + 1 > 1 /\ agenda'[n] = agenda[n - Len(items) + 1]
  BY <1>1, ContinueAgenda
<1>4. ASSUME NEW n \in DOMAIN agenda' PROVE Names(agenda'[n])
  BY <1>3 DEF Pushed, Base, NamesKnown
<1>5. NextId' = NextId BY DEF NextId
<1>6. ASSUME NEW m \in DOMAIN agenda, m > 1
      PROVE  /\ agenda[m].k \notin {"submit", "cancel", "scan"}
             /\ agenda[m].k \in {"loop", "second", "rollback"} => m = Len(agenda)
             /\ agenda[m].k = "second" => agenda[m].group \in Known /\ NextId \in OrderId
  BY <1>2, <1>6 DEF Base, Shaped
<1>7. ASSUME NEW n \in DOMAIN agenda'
      PROVE  /\ agenda'[n].k \in {"loop", "second", "rollback"} => n = Len(agenda')
             /\ agenda'[n].k \in {"submit", "cancel", "scan"} => n = 1
             /\ agenda'[n].k \notin {"cancel", "submit"}
             /\ agenda'[n].k = "second" => agenda'[n].group \in Known /\ NextId \in OrderId
  <2>1. CASE n \in DOMAIN items /\ agenda'[n] = items[n]
    BY <2>1 DEF Pushed
  <2>2. CASE ~(n \in DOMAIN items /\ agenda'[n] = items[n])
    <3>1. PICK m : m = n - Len(items) + 1 OBVIOUS
    <3>2. n \in Nat /\ n > Len(items) /\ m \in DOMAIN agenda /\ m > 1 /\ agenda'[n] = agenda[m]
      BY <1>3, <2>2, <3>1
    <3>3. m = Len(agenda) => n = Len(agenda') BY <1>2, <1>3, <3>1, <3>2
    <3> QED BY <1>6, <3>2, <3>3
  <2> QED BY <2>1, <2>2
<1>8. Shaped' BY <1>5, <1>7 DEF Shaped
<1> QED BY <1>3, <1>4, <1>8

\* An exception leaves nothing to do, or the cancellation of a first leg.
LEMMA RaisedAgenda ==
  ASSUME Base, Raise, Known' = Known
  PROVE  /\ agenda' \in Seq(WorkItem) /\ Shaped' /\ alive' \in BOOLEAN
         /\ \A n \in DOMAIN agenda' : Names(agenda'[n])
         /\ agenda' = <<>> \/ \E n \in DOMAIN agenda : agenda[n].k = "rollback" /\ agenda' = <<Item("cancel", agenda[n].id)>>
<1> DEFINE caught == {n \in DOMAIN agenda : agenda[n].k = "rollback"}
<1>1. agenda \in Seq(WorkItem) BY DEF Base, Typed
<1>2. caught \subseteq Nat BY <1>1
<1>3. agenda' = IF caught = {} THEN <<>> ELSE <<Item("cancel", agenda[Min(caught)].id)>>
  BY DEF Raise
<1>4. alive' \in BOOLEAN BY DEF Raise, Base, Typed
<1>5. CASE caught = {}
  <2>1. agenda' = <<>> BY <1>3, <1>5
  <2> QED BY <1>4, <2>1 DEF Shaped
<1>6. CASE caught # {}
  <2>1. PICK c : c = Min(caught) OBVIOUS
  <2>2. c \in DOMAIN agenda /\ agenda[c].k = "rollback"
    <3>1. c \in caught
      <4> HIDE DEF caught
      <4> QED BY <1>2, <1>6, <2>1, MinimumIn
    <3> QED BY <3>1
  <2>3. agenda[c].id \in Known BY <2>2 DEF Base, NamesKnown, Names, NamesIn
  <2>4. PICK w : w = Item("cancel", agenda[c].id) OBVIOUS
  <2>5. w \in WorkItem /\ w.k = "cancel" /\ w.id = agenda[c].id
    BY <2>3, <2>4, ItemTypes, ItemKinds DEF Known, Item
  <2>6. agenda' = <<w>> BY <1>3, <1>6, <2>1, <2>4
  <2>7. agenda' \in Seq(WorkItem) /\ Len(agenda') = 1 /\ DOMAIN agenda' = {1} /\ agenda'[1] = w
    BY <2>5, <2>6
  <2>8. Names(w) BY <2>3, <2>5 DEF Names, NamesIn
  <2>9. Shaped' BY <2>5, <2>7 DEF Shaped
  <2> QED BY <1>4, <2>2, <2>4, <2>6, <2>7, <2>8, <2>9
<1> QED BY <1>5, <1>6

\* Leaving a group keeps the two maps inverse.
LEMMA LeftGroup ==
  ASSUME Base, RowsKept, NEW keep \in OrderId, NEW g \in Ids, LeaveGroup(g, keep),
         g = groupOf[keep] \/ g = orders[keep].group
  PROVE  /\ groupOf' \in [OrderId -> Ids] /\ members' \in [Ids -> SUBSET OrderId]
         /\ trigBook' \subseteq trigBook /\ Grouped'
<1>1. /\ groupOf \in [OrderId -> Ids] /\ members \in [Ids -> SUBSET OrderId]
      /\ \A i \in OrderId : groupOf[i] \in {NoGroup, orders[i].group}
      /\ \A i \in OrderId \ Known : groupOf[i] = NoGroup
      /\ members[NoGroup] = {} /\ GroupsInverse /\ NoGroup \notin OrderId
  BY Numbers DEF Base, Typed, Grouped
<1>2. /\ groupOf' = [i \in OrderId |-> IF i \in members[g] \cup {keep} THEN NoGroup ELSE groupOf[i]]
      /\ members' = [members EXCEPT ![g] = {}]
      /\ trigBook' = trigBook \ (members[g] \cup {keep})
  BY DEF LeaveGroup
<1>3. NoGroup \in Ids BY DEF Ids, NoGroup, NoOrder
<1>4. groupOf' \in [OrderId -> Ids] /\ members' \in [Ids -> SUBSET OrderId]
  BY <1>1, <1>2, <1>3
<1>5. /\ \A i \in OrderId : groupOf'[i] \in {NoGroup, groupOf[i]}
      /\ \A h \in Ids : members'[h] = IF h = g THEN {} ELSE members[h]
  BY <1>1, <1>2
<1>6. ASSUME NEW i \in OrderId, groupOf'[i] # NoGroup
      PROVE  i \in members'[groupOf'[i]]
  <2>1. i \notin members[g] /\ groupOf'[i] = groupOf[i] /\ groupOf[i] \in Ids BY <1>1, <1>2, <1>6
  <2>2. i \in members[groupOf[i]] BY <1>1, <1>6, <2>1 DEF GroupsInverse
  <2> QED BY <1>5, <2>1, <2>2
<1>7. ASSUME NEW i \in OrderId, NEW h \in OrderId, i \in members'[h]
      PROVE  groupOf'[i] = h
  <2>1. h # g /\ i \in members[h] BY <1>5, <1>7 DEF Ids
  <2>2. groupOf[i] = h BY <1>1, <2>1 DEF GroupsInverse
  <2>3. i # keep BY <1>1, <2>1, <2>2
  <2>4. i \notin members[g]
    <3> SUFFICES ASSUME i \in members[g] PROVE FALSE OBVIOUS
    <3>1. g # NoGroup BY <1>1
    <3>2. g \in OrderId BY <3>1 DEF Ids, NoGroup, NoOrder
    <3> QED BY <1>1, <2>1, <2>2, <3>2 DEF GroupsInverse
  <2> QED BY <1>2, <2>2, <2>3, <2>4
<1>8. members'[NoGroup] = {} BY <1>1, <1>3, <1>5
<1>9. Grouped' BY <1>1, <1>5, <1>6, <1>7, <1>8 DEF Grouped, GroupsInverse, RowsKept
<1> QED BY <1>2, <1>4, <1>9

\* What is left to show when orders keep their rows.
LEMMA BaseKept ==
  ASSUME Base, RowsKept,
         trigBook' \subseteq Known, watch' \in [OrderId -> [peak : Ticks, stop : Ticks]],
         groupOf' \in [OrderId -> Ids], members' \in [Ids -> SUBSET OrderId], Grouped',
         resting' \in [OrderId -> Nat], executed' \in [OrderId -> Nat],
         agenda' \in Seq(WorkItem), \A n \in DOMAIN agenda' : Names(agenda'[n]), Shaped',
         pending' \in Seq(QueueItem), pending' # <<>>,
         \A n \in DOMAIN pending' : Names(pending'[n]),
         alive' \in BOOLEAN, lastTs' \in Times
  PROVE  Base'
<1>1. Known' = Known BY DEF RowsKept
<1>2. \A i \in Known' : orders'[i].req \in Request BY <1>1 DEF RowsKept, Base, Typed, Known
<1>3. Typed' BY <1>1, <1>2 DEF Typed, RowsKept
<1>4. Numbered' BY <1>1 DEF Base, Numbered, NextId
<1>5. NamesKnown' BY <1>1 DEF NamesKnown, Names, NamesIn
<1> QED BY <1>3, <1>4, <1>5 DEF Base

\* A step that pushes items and leaves the trigger book and the groups alone.
LEMMA StepKept ==
  ASSUME Base, RowsKept, agenda # <<>>, work.k # "submit",
         NEW items \in Seq(WorkItem), Continue(items), Pushed(items),
         UNCHANGED <<oms, pending, alive>>, lastTs' \in Times,
         resting' \in [OrderId -> Nat], executed' \in [OrderId -> Nat]
  PROVE  Base'
<1>1. /\ agenda' \in Seq(WorkItem) /\ Shaped'
      /\ \A n \in DOMAIN agenda' : Names(agenda'[n])
  BY PushedAgenda DEF RowsKept
<1>2. Grouped' BY DEF Base, Grouped, GroupsInverse, RowsKept, oms
<1> QED BY <1>1, <1>2, BaseKept DEF Base, Typed, NamesKnown, oms

\* A step that pushes items and takes an order out of its group.
LEMMA LeavingStepKept ==
  ASSUME Base, RowsKept, agenda # <<>>, work.k # "submit",
         NEW items \in Seq(WorkItem), Continue(items), Pushed(items),
         NEW keep \in OrderId, NEW g \in Ids, LeaveGroup(g, keep),
         g = groupOf[keep] \/ g = orders[keep].group,
         watch' \in [OrderId -> [peak : Ticks, stop : Ticks]],
         UNCHANGED <<executed, pending, alive, lastTs>>, resting' \in [OrderId -> Nat]
  PROVE  Base'
<1>1. /\ agenda' \in Seq(WorkItem) /\ Shaped'
      /\ \A n \in DOMAIN agenda' : Names(agenda'[n])
  BY PushedAgenda DEF RowsKept
<1>2. /\ groupOf' \in [OrderId -> Ids] /\ members' \in [Ids -> SUBSET OrderId]
      /\ trigBook' \subseteq trigBook /\ Grouped'
  BY LeftGroup
<1> QED BY <1>1, <1>2, BaseKept DEF Base, Typed, NamesKnown

\* One item, or none, pushed.
LEMMA PushOne ==
  /\ <<>> \in Seq(WorkItem) /\ Pushed(<<>>)
  /\ \A w \in WorkItem :
       Names(w) /\ w.k \notin {"loop", "second", "rollback", "submit", "cancel"}
         => <<w>> \in Seq(WorkItem) /\ Pushed(<<w>>)
<1>1. <<>> \in Seq(WorkItem) /\ Pushed(<<>>) BY DEF Pushed
<1>2. ASSUME NEW w \in WorkItem, Names(w),
             w.k \notin {"loop", "second", "rollback", "submit", "cancel"}
      PROVE  <<w>> \in Seq(WorkItem) /\ Pushed(<<w>>)
  <2>1. PICK s : s = <<w>> OBVIOUS
  <2>2. s \in Seq(WorkItem) /\ DOMAIN s = {1} /\ s[1] = w BY <2>1
  <2> QED BY <1>2, <2>1, <2>2 DEF Pushed
<1> QED BY <1>1, <1>2

LEMMA RunningOk ==
  ASSUME Base, agenda # <<>>
  PROVE  /\ work = agenda[1] /\ 1 \in DOMAIN agenda /\ work \in WorkItem /\ Names(work)
         /\ Len(agenda) \in Nat \ {0} /\ DOMAIN agenda = 1..Len(agenda)
BY Running DEF Base, Typed, NamesKnown

LEMMA LeaveBase ==
  ASSUME Base, LeaveStep
  PROVE  Base'
<1>1. agenda # <<>> /\ work.k # "submit" /\ Continue(<<>>) BY DEF LeaveStep, Doing
<1>2. UNCHANGED <<orders, oms, engine, pending, alive, lastTs>> BY DEF LeaveStep
<1>3. RowsKept BY <1>2, SameRows DEF Base
<1> QED BY <1>1, <1>2, <1>3, PushOne, StepKept DEF Base, Typed, engine

LEMMA PeersBase ==
  ASSUME Base, PeersStep
  PROVE  Base'
<1>1. /\ agenda # <<>> /\ work.k = "peers" /\ UNCHANGED <<oms, pending, alive, lastTs>>
      /\ resting \in [OrderId -> Nat] /\ executed \in [OrderId -> Nat] /\ lastTs \in Times
  BY DEF PeersStep, Doing, Base, Typed
<1>2. work \in PeersItem /\ work.ids \subseteq Known /\ work.ids \subseteq OrderId
  BY <1>1, RunningOk, ItemFields DEF Names, NamesIn, PeersItem
<1>3. CASE work.ids = {} /\ Continue(<<>>) /\ UNCHANGED <<orders, engine>>
  <2>1. RowsKept BY <1>3, SameRows DEF Base
  <2> QED BY <1>1, <1>3, <2>1, PushOne, StepKept DEF engine
<1>4. ASSUME NEW c \in work.ids, Continue(<<Peers(work.ids \ {c})>>),
             \/ SetStatus(c, "CANCELED") /\ UNCHANGED engine
             \/ EngineCancel(c) /\ UNCHANGED executed
             \/ UNCHANGED <<orders, engine>>
      PROVE  Base'
  <2>1. c \in Known /\ c \in OrderId BY <1>2
  <2>2. PICK w : w = Peers(work.ids \ {c}) OBVIOUS
  <2>3. w \in WorkItem /\ w.k = "peers" /\ w.ids = work.ids \ {c}
    BY <1>2, <2>2, ItemTypes, ItemKinds DEF Peers
  <2>4. Names(w) BY <1>2, <2>3 DEF Names, NamesIn
  <2>5. <<w>> \in Seq(WorkItem) /\ Pushed(<<w>>) BY <2>3, <2>4, PushOne
  <2>6. RowsKept /\ resting' \in [OrderId -> Nat] /\ executed' \in [OrderId -> Nat]
    <3>1. "CANCELED" \in Status \ {"NONE"} BY DEF Status
    <3>2. SetStatus(c, "CANCELED") => RowsKept BY <2>1, <3>1, StatusRows DEF Base
    <3>3. UNCHANGED orders => RowsKept BY SameRows DEF Base
    <3>4. CASE EngineCancel(c) /\ UNCHANGED executed
      BY <1>1, <3>2, <3>3, <3>4 DEF EngineCancel
    <3>5. CASE ~(EngineCancel(c) /\ UNCHANGED executed)
      BY <1>1, <1>4, <3>2, <3>3, <3>5 DEF engine
    <3> QED BY <3>4, <3>5
  <2> QED BY <1>1, <1>4, <2>2, <2>5, <2>6, StepKept
<1> QED BY <1>3, <1>4 DEF PeersStep

LEMMA ReportBase ==
  ASSUME Base, ReportStep
  PROVE  Base'
<1>1. /\ agenda # <<>> /\ work.k \in {"accepted", "rejected", "canceled"} /\ Continue(<<>>)
      /\ UNCHANGED <<oms, engine, pending, alive, lastTs>>
  BY DEF ReportStep, Doing
<1>2. work.id \in Known BY <1>1, RunningOk DEF Names, NamesIn
<1>3. \/ \E s \in {"OPEN", "REJECTED", "CANCELED"} : SetStatus(work.id, s)
      \/ UNCHANGED orders
  BY DEF ReportStep
<1>4. {"OPEN", "REJECTED", "CANCELED"} \subseteq Status \ {"NONE"} BY DEF Status
<1>5. RowsKept BY <1>2, <1>3, <1>4, StatusRows, SameRows DEF Base
<1> QED BY <1>1, <1>5, PushOne, StepKept DEF Base, Typed, engine

LEMMA CandleBase ==
  ASSUME Base, CandleStep
  PROVE  Base'
<1>1. /\ agenda # <<>> /\ work.k = "candle" /\ UNCHANGED <<orders, oms, engine, pending>>
      /\ lastTs \in Times
  BY DEF CandleStep, Doing, Base, Typed
<1>2. work.ts \in Times BY <1>1, RunningOk, ItemFields DEF CandleItem
<1>3. RowsKept BY <1>1, SameRows DEF Base
<1>4. CASE Raise /\ UNCHANGED lastTs
  <2>1. /\ agenda' \in Seq(WorkItem) /\ Shaped' /\ alive' \in BOOLEAN
        /\ \A n \in DOMAIN agenda' : Names(agenda'[n])
    BY <1>3, <1>4, RaisedAgenda DEF RowsKept
  <2>2. Grouped' BY <1>1, <1>3 DEF Base, Grouped, GroupsInverse, RowsKept, oms
  <2> QED BY <1>1, <1>3, <1>4, <2>1, <2>2, BaseKept DEF Base, Typed, NamesKnown, oms, engine
<1>5. CASE lastTs' = work.ts /\ Continue(<<>>) /\ UNCHANGED alive
  BY <1>1, <1>2, <1>3, <1>5, PushOne, StepKept DEF Base, Typed, engine
<1> QED BY <1>4, <1>5 DEF CandleStep

Pushable ==
  {w \in WorkItem :
     Names(w) /\ w.k \notin {"loop", "second", "rollback", "submit", "cancel", "scan"}}

LEMMA PushAll ==
  ASSUME NEW items \in Seq(Pushable)
  PROVE  items \in Seq(WorkItem) /\ Pushed(items)
<1>1. \A n \in DOMAIN items : items[n] \in Pushable OBVIOUS
<1>2. items \in Seq(WorkItem) BY DEF Pushable
<1> QED BY <1>1, <1>2 DEF Pushed, Pushable

LEMMA TradeBase ==
  ASSUME Base, TradeStep
  PROVE  Base'
<1>1. /\ agenda # <<>> /\ work.k = "trade" /\ UNCHANGED <<orders, oms, engine, pending, alive, lastTs>>
      /\ Continue(LegOf(work.buy, work.qty) \o LegOf(work.sell, work.qty)
                  \o <<OnTrade(work.price, work.ts), Candle(work.ts)>>)
  BY DEF TradeStep, Doing
<1>2. work \in TradeItem BY <1>1, RunningOk, ItemFields
<1>3. RowsKept BY <1>1, SameRows DEF Base
<1>4. ASSUME NEW i, NEW q \in Nat PROVE LegOf(i, q) \in Seq(Pushable)
  <2>1. CASE i \in Known
    <3>1. Leg(i, q) \in WorkItem BY <2>1, ItemTypes, ItemKinds DEF Known
    <3>2. Leg(i, q) \in Pushable BY <2>1, <3>1 DEF Pushable, Names, NamesIn, Leg
    <3> QED BY <2>1, <3>2 DEF LegOf
  <2>2. CASE i \notin Known BY <2>2 DEF LegOf
  <2> QED BY <2>1, <2>2
<1>5. work.price \in Prices /\ work.ts \in Times /\ work.qty \in Nat BY <1>2 DEF TradeItem
<1>6. OnTrade(work.price, work.ts) \in Pushable /\ Candle(work.ts) \in Pushable
  <2>1. OnTrade(work.price, work.ts) \in WorkItem /\ Candle(work.ts) \in WorkItem
    BY <1>5, ItemTypes, ItemKinds
  <2> QED BY <2>1 DEF Pushable, Names, NamesIn, OnTrade, Candle
<1>7. PICK a, b, c : /\ a = LegOf(work.buy, work.qty) /\ b = LegOf(work.sell, work.qty)
                     /\ c = <<OnTrade(work.price, work.ts), Candle(work.ts)>>
  OBVIOUS
<1>8. a \in Seq(Pushable) /\ b \in Seq(Pushable) /\ c \in Seq(Pushable)
  BY <1>4, <1>5, <1>6, <1>7
<1>9. a \o b \o c \in Seq(Pushable) BY <1>8
<1>10. a \o b \o c \in Seq(WorkItem) /\ Pushed(a \o b \o c) BY <1>9, PushAll
<1> QED BY <1>1, <1>3, <1>7, <1>10, StepKept DEF Base, Typed, engine

LEMMA OnTradeBase ==
  ASSUME Base, OnTradeStep
  PROVE  Base'
<1>1. /\ agenda # <<>> /\ work.k = "onTrade" /\ UNCHANGED <<orders, oms, engine, pending, alive, lastTs>>
      /\ Continue(<<Scan(trigBook, work.price, work.ts, <<>>, {}, {})>>)
  BY DEF OnTradeStep, Doing
<1>2. work.price \in Prices /\ work.ts \in Times BY <1>1, RunningOk, ItemFields DEF OnTradeItem
<1>3. RowsKept BY <1>1, SameRows DEF Base
<1>4. trigBook \subseteq Known /\ trigBook \in SUBSET OrderId BY DEF Base, Typed, Known
<1>5. PICK w : w = Scan(trigBook, work.price, work.ts, <<>>, {}, {}) OBVIOUS
<1>6. w \in WorkItem
  <2>1. {} \in SUBSET OrderId /\ <<>> \in Seq(OrderId) OBVIOUS
  <2> QED BY <1>2, <1>4, <1>5, <2>1, ItemTypes, ItemKinds
<1>7. w.k = "scan" /\ Names(w) BY <1>4, <1>5 DEF Scan, Names, NamesIn
<1>8. <<w>> \in Seq(WorkItem) /\ Pushed(<<w>>) BY <1>6, <1>7, PushOne
<1> QED BY <1>1, <1>3, <1>5, <1>8, StepKept DEF Base, Typed, engine

\* Booking a fill keeps the rows.
LEMMA BookedRows ==
  ASSUME Typed, NEW i \in Known, NEW q \in Nat, orders' = [orders EXCEPT ![i] = Booked(@, q)]
  PROVE  /\ RowsKept /\ orders'[i].filled = orders[i].filled + q
         /\ orders'[i].status = IF orders[i].filled + q >= orders[i].req.qty
                                THEN "FILLED" ELSE "PARTIALLY_FILLED"
         /\ orders'[i] = Booked(orders[i], q)
         /\ orders'[i].shown = orders[i].shown
         /\ \A j \in OrderId : j # i => orders'[j] = orders[j]
<1>1. i \in OrderId /\ orders[i] \in OrderRow BY DEF Typed, Known
<1>2. orders \in [OrderId -> OrderRow] BY DEF Typed
<1>3. PICK row : row = Booked(orders[i], q) OBVIOUS
<1>4. PICK s \in {"FILLED", "PARTIALLY_FILLED"} :
        s = IF orders[i].filled + q >= orders[i].req.qty THEN "FILLED" ELSE "PARTIALLY_FILLED"
  OBVIOUS
<1>5. row = [orders[i] EXCEPT !.filled = orders[i].filled + q, !.status = s]
  BY <1>3, <1>4 DEF Booked
<1>6. /\ row \in OrderRow /\ row.status = s /\ row.filled = orders[i].filled + q
      /\ row.req = orders[i].req /\ row.group = orders[i].group /\ row.shown = orders[i].shown
  <2>1. s \in Status BY <1>4 DEF Status
  <2>2. PICK f \in Nat : f = orders[i].filled + q BY <1>1 DEF OrderRow
  <2>3. row = [orders[i] EXCEPT !.filled = f, !.status = s] BY <1>5, <2>2
  <2> QED BY <1>1, <2>1, <2>2, <2>3 DEF OrderRow
<1>7. /\ orders' \in [OrderId -> OrderRow] /\ orders'[i] = row
      /\ \A j \in OrderId : j # i => orders'[j] = orders[j]
  BY <1>1, <1>2, <1>3, <1>6
<1>8. Known' = Known BY <1>1, <1>4, <1>6, <1>7 DEF Known
<1> QED BY <1>3, <1>4, <1>6, <1>7, <1>8 DEF RowsKept

\* Cancelling peers is a thing to push.
LEMMA PushPeers ==
  ASSUME Base, NEW S, S \subseteq Known
  PROVE  <<Peers(S)>> \in Seq(WorkItem) /\ Pushed(<<Peers(S)>>)
<1>1. PICK w : w = Peers(S) OBVIOUS
<1>2. S \in SUBSET OrderId BY DEF Known
<1>3. w \in WorkItem /\ w.k = "peers" /\ w.ids = S BY <1>1, <1>2, ItemTypes, ItemKinds DEF Peers
<1>4. Names(w) BY <1>3 DEF Names, NamesIn
<1> QED BY <1>1, <1>3, <1>4, PushOne

LEMMA MembersKnown ==
  ASSUME Base, NEW g \in Ids
  PROVE  members[g] \subseteq Known
<1> SUFFICES ASSUME NEW i \in members[g], i \notin Known PROVE FALSE OBVIOUS
<1>1. i \in OrderId BY DEF Base, Typed
<1>2. groupOf[i] = NoGroup BY <1>1 DEF Base, Grouped
<1>3. g # NoGroup BY DEF Base, Grouped
<1>4. g \in OrderId BY <1>3 DEF Ids, NoOrder, NoGroup
<1>5. groupOf[i] = g BY <1>1, <1>4 DEF Base, Grouped, GroupsInverse
<1> QED BY <1>2, <1>3, <1>5

LEMMA PeersOfKnown ==
  ASSUME Base, NEW i \in OrderId
  PROVE  PeersOf(i) \subseteq Known
<1>1. groupOf[i] \in Ids BY DEF Base, Typed
<1> QED BY <1>1, MembersKnown DEF PeersOf

LEMMA LegBase ==
  ASSUME Base, LegStep
  PROVE  Base'
<1>1. /\ agenda # <<>> /\ work.k = "leg" /\ UNCHANGED <<watch, engine, pending, alive, lastTs>>
      /\ orders' = [orders EXCEPT ![work.id] = Booked(@, work.qty)]
  BY DEF LegStep, Doing
<1>2. PICK i : i = work.id OBVIOUS
<1>3. i \in Known /\ i \in OrderId /\ work.qty \in Nat
  BY <1>1, <1>2, RunningOk, ItemFields DEF Names, NamesIn, LegItem
<1>4. RowsKept BY <1>1, <1>2, <1>3, BookedRows DEF Base
<1>5. groupOf[i] \in Ids BY <1>3 DEF Base, Typed
<1>6. <<Peers(PeersOf(i))>> \in Seq(WorkItem) /\ Pushed(<<Peers(PeersOf(i))>>)
  BY <1>3, PeersOfKnown, PushPeers
<1>7. CASE Continue(<<Peers(PeersOf(i))>>) /\ LeaveGroup(groupOf[i], i)
  BY <1>1, <1>3, <1>4, <1>5, <1>6, <1>7, LeavingStepKept DEF Base, Typed, engine
<1>8. CASE Continue(<<>>) /\ UNCHANGED <<trigBook, groupOf, members>>
  BY <1>1, <1>4, <1>8, PushOne, StepKept DEF Base, Typed, engine, oms
<1> QED BY <1>2, <1>7, <1>8 DEF LegStep

LEMMA CancelBase ==
  ASSUME Base, CancelStep
  PROVE  Base'
<1>1. /\ agenda # <<>> /\ work.k = "cancel" /\ UNCHANGED <<pending, lastTs>>
  BY DEF CancelStep, Doing
<1>2. PICK i : i = work.id OBVIOUS
<1>3. i \in Known /\ i \in OrderId
  BY <1>1, <1>2, RunningOk DEF Names, NamesIn, Known
<1>4. groupOf[i] \in Ids /\ resting \in [OrderId -> Nat] /\ PeersOf(i) \subseteq Known
  BY <1>3, PeersOfKnown DEF Base, Typed
<1>5. CASE Raise /\ UNCHANGED <<orders, oms, engine>>
  <2>1. RowsKept BY <1>5, SameRows DEF Base
  <2>2. /\ agenda' \in Seq(WorkItem) /\ Shaped' /\ alive' \in BOOLEAN
        /\ \A n \in DOMAIN agenda' : Names(agenda'[n])
    BY <1>5, <2>1, RaisedAgenda DEF RowsKept
  <2>3. Grouped' BY <1>5, <2>1 DEF Base, Grouped, GroupsInverse, RowsKept, oms
  <2> QED BY <1>1, <1>5, <2>1, <2>2, <2>3, BaseKept DEF Base, Typed, NamesKnown, oms, engine
<1>6. CASE /\ Continue(<<Peers(PeersOf(i) \cup ({i} \cap trigBook))>>)
           /\ LeaveGroup(groupOf[i], i)
           /\ UNCHANGED <<orders, watch, engine, alive>>
  <2>1. RowsKept BY <1>6, SameRows DEF Base
  <2>2. PICK S : S = PeersOf(i) \cup ({i} \cap trigBook) OBVIOUS
  <2>3. <<Peers(S)>> \in Seq(WorkItem) /\ Pushed(<<Peers(S)>>)
    <3>1. S \subseteq Known BY <1>3, <1>4, <2>2
    <3> QED BY <3>1, PushPeers
  <2> QED BY <1>1, <1>3, <1>4, <1>6, <2>1, <2>2, <2>3, LeavingStepKept DEF Base, Typed, engine
<1>7. CASE /\ EngineCancel(i)
           /\ Continue(<<Peers(PeersOf(i))>>)
           /\ LeaveGroup(groupOf[i], i)
           /\ UNCHANGED <<watch, executed, alive>>
  <2>1. "CANCELED" \in Status \ {"NONE"} BY DEF Status
  <2>2. RowsKept /\ resting' \in [OrderId -> Nat]
    BY <1>3, <1>4, <1>7, <2>1, StatusRows, SameRows DEF EngineCancel, Base
  <2>3. <<Peers(PeersOf(i))>> \in Seq(WorkItem) /\ Pushed(<<Peers(PeersOf(i))>>)
    BY <1>4, PushPeers
  <2> QED BY <1>1, <1>3, <1>4, <1>7, <2>2, <2>3, LeavingStepKept DEF Base, Typed
<1> QED BY <1>2, <1>5, <1>6, <1>7 DEF CancelStep

\* One round of the scan.
LEMMA ScanRound ==
  ASSUME Base, ScanStep, NEW i, i = Min(work.todo)
  PROVE  /\ agenda # <<>> /\ work.k = "scan" /\ work \in ScanItem
         /\ i \in work.todo /\ work.todo \subseteq Known
         /\ i \in OrderId /\ i \in Known /\ work.moved \cup {i} \subseteq Known
         /\ watch' = [watch EXCEPT ![i] = Ratchet(orders[i].req, watch[i], work.price)]
         /\ watch' \in [OrderId -> [peak : Ticks, stop : Ticks]]
<1>1. /\ agenda # <<>> /\ work.k = "scan" /\ work.todo # {}
      /\ watch' = [watch EXCEPT ![i] = Ratchet(orders[i].req, watch[i], work.price)]
  BY DEF ScanStep, Doing
<1>2. work \in ScanItem /\ work.todo \cup work.gone \cup work.moved \subseteq Known
  BY <1>1, RunningOk, ItemFields DEF Names, NamesIn
<1>3. work.todo \subseteq Nat BY <1>2, Numbers DEF ScanItem
<1>4. i \in work.todo /\ i \in OrderId /\ i \in Known
  BY <1>1, <1>2, <1>3, MinimumIn DEF Known
<1>5. /\ orders[i].req \in Request /\ watch[i] \in [peak : Ticks, stop : Ticks]
      /\ work.price \in Int
  BY <1>2, <1>4, Numbers DEF Base, Typed, ScanItem
<1>6. Ratchet(orders[i].req, watch[i], work.price) \in [peak : Ticks, stop : Ticks]
  <2>1. PICK r \in Request : r = orders[i].req BY <1>5
  <2>2. PICK p \in Int : p = work.price BY <1>5
  <2>3. PICK w \in [peak : Ticks, stop : Ticks] : w = watch[i] BY <1>5
  <2>4. r.offset \in Nat BY DEF Request
  <2>5. PICK t \in Int : t = Trailed(r.side, p, r.offset) BY <2>4 DEF Trailed
  <2>6. Ratchet(r, w, p) \in [peak : Ticks, stop : Ticks]
    BY <2>5 DEF Ratchet, Ticks
  <2> QED BY <2>1, <2>2, <2>3, <2>6
<1> QED BY <1>1, <1>2, <1>4, <1>6 DEF Base, Typed

LEMMA ScanBase ==
  ASSUME Base, ScanStep
  PROVE  Base'
<1>1. PICK i : i = Min(work.todo) OBVIOUS
<1>2. PICK g : g = orders[i].group OBVIOUS
<1>3. PICK moved : moved \in {work.moved, work.moved \cup {i}}
                   /\ moved = (IF Ratchet(orders[i].req, watch[i], work.price).stop # watch[i].stop
                               THEN work.moved \cup {i} ELSE work.moved)
  OBVIOUS
<1>4. /\ agenda # <<>> /\ work.k = "scan" /\ work \in ScanItem
      /\ i \in work.todo /\ work.todo \subseteq Known
      /\ i \in OrderId /\ i \in Known /\ moved \subseteq Known
      /\ watch' \in [OrderId -> [peak : Ticks, stop : Ticks]]
      /\ UNCHANGED <<orders, engine, pending, lastTs>>
      /\ Names(work)
  BY <1>1, <1>3, ScanRound, RunningOk DEF ScanStep
<1>5. RowsKept BY <1>4, SameRows DEF Base
<1>6. g \in Ids /\ members[g] \subseteq Known
  <2>1. g \in Ids BY <1>2, <1>4 DEF Base, Typed, OrderRow
  <2> QED BY <2>1, MembersKnown
<1>7. CASE /\ Continue(<<[work EXCEPT !.todo = work.todo \ {i}, !.moved = moved]>>)
           /\ UNCHANGED <<trigBook, groupOf, members, alive>>
  <2>1. PICK w : w = [work EXCEPT !.todo = work.todo \ {i}, !.moved = moved] OBVIOUS
  <2>2. /\ w \in ScanItem /\ w.k = "scan" /\ w.todo = work.todo \ {i} /\ w.moved = moved
        /\ w.gone = work.gone /\ w.fired = work.fired
    BY <1>4, <2>1 DEF ScanItem, Known
  <2>3. w \in WorkItem /\ Names(w) BY <1>4, <2>2, ItemKinds DEF Names, NamesIn
  <2>4. <<w>> \in Seq(WorkItem) /\ Pushed(<<w>>) BY <2>2, <2>3, PushOne
  <2>5. /\ agenda' \in Seq(WorkItem) /\ Shaped'
        /\ \A n \in DOMAIN agenda' : Names(agenda'[n])
    BY <1>4, <1>5, <1>7, <2>1, <2>4, PushedAgenda DEF RowsKept
  <2>6. Grouped' BY <1>5, <1>7 DEF Base, Grouped, GroupsInverse, RowsKept
  <2> QED BY <1>4, <1>5, <1>7, <2>5, <2>6, BaseKept DEF Base, Typed, NamesKnown, engine
<1>8. CASE Raise /\ UNCHANGED <<trigBook, groupOf, members>>
  <2>1. /\ agenda' \in Seq(WorkItem) /\ Shaped' /\ alive' \in BOOLEAN
        /\ \A n \in DOMAIN agenda' : Names(agenda'[n])
    BY <1>5, <1>8, RaisedAgenda DEF RowsKept
  <2>2. Grouped' BY <1>5, <1>8 DEF Base, Grouped, GroupsInverse, RowsKept
  <2> QED BY <1>4, <1>5, <1>8, <2>1, <2>2, BaseKept DEF Base, Typed, NamesKnown, engine
<1>9. CASE /\ LeaveGroup(g, i)
           /\ Continue(<<[work EXCEPT !.todo = work.todo \ {i}, !.moved = moved,
                            !.fired = Append(work.fired, i),
                            !.gone = work.gone \cup (members[g] \ {i})]>>)
           /\ UNCHANGED alive
  <2>1. PICK fired : fired = Append(work.fired, i) OBVIOUS
  <2>2. PICK gone : gone = work.gone \cup (members[g] \ {i}) OBVIOUS
  <2>3. PICK w : w = [work EXCEPT !.todo = work.todo \ {i}, !.moved = moved,
                        !.fired = fired, !.gone = gone]
    OBVIOUS
  <2>4. fired \in Seq(OrderId) /\ \A n \in DOMAIN fired : fired[n] \in Known
    <3>1. work.fired \in Seq(OrderId) /\ \A n \in DOMAIN work.fired : work.fired[n] \in Known
      BY <1>4 DEF ScanItem, Names, NamesIn
    <3> QED BY <1>4, <2>1, <3>1
  <2>5. gone \subseteq Known BY <1>4, <1>6, <2>2 DEF Names, NamesIn
  <2>6. /\ w \in ScanItem /\ w.k = "scan" /\ w.todo = work.todo \ {i} /\ w.moved = moved
        /\ w.gone = gone /\ w.fired = fired
    BY <1>4, <2>3, <2>4, <2>5 DEF ScanItem, Known
  <2>7. w \in WorkItem /\ Names(w) BY <1>4, <2>4, <2>5, <2>6, ItemKinds DEF Names, NamesIn
  <2>8. <<w>> \in Seq(WorkItem) /\ Pushed(<<w>>) BY <2>6, <2>7, PushOne
  <2>9. Continue(<<w>>) BY <1>9, <2>1, <2>2, <2>3
  <2> QED BY <1>2, <1>4, <1>5, <1>6, <1>9, <2>8, <2>9, LeavingStepKept DEF Base, Typed, engine
<1> QED BY <1>1, <1>2, <1>3, <1>7, <1>8, <1>9 DEF ScanStep

\* Showing the stops keeps the rows.
LEMMA ShownRows ==
  ASSUME Typed, work.moved \subseteq OrderId, ShowStops
  PROVE  /\ RowsKept
         /\ \A i \in OrderId : /\ orders'[i].status = orders[i].status
                               /\ orders'[i].filled = orders[i].filled
                               /\ orders'[i].shown = IF i \in work.moved THEN watch[i].stop
                                                     ELSE orders[i].shown
<1>1. \A i \in OrderId : /\ orders[i] \in OrderRow /\ watch[i].stop \in Ticks
  BY DEF Typed
<1>2. ASSUME NEW i \in OrderId
      PROVE  LET row == [orders[i] EXCEPT !.shown = watch[i].stop] IN
             /\ row \in OrderRow /\ row.status = orders[i].status /\ row.filled = orders[i].filled
             /\ row.req = orders[i].req /\ row.group = orders[i].group /\ row.shown = watch[i].stop
  BY <1>1 DEF OrderRow
<1>3. orders' = [i \in OrderId |-> IF i \in work.moved
                                   THEN [orders[i] EXCEPT !.shown = watch[i].stop]
                                   ELSE orders[i]]
  BY DEF ShowStops
<1>4. ASSUME NEW i \in OrderId
      PROVE  /\ orders'[i] \in OrderRow /\ orders'[i].status = orders[i].status
             /\ orders'[i].filled = orders[i].filled
             /\ orders'[i].req = orders[i].req /\ orders'[i].group = orders[i].group
             /\ orders'[i].shown = IF i \in work.moved THEN watch[i].stop ELSE orders[i].shown
  BY <1>1, <1>2, <1>3
<1>5. orders' \in [OrderId -> OrderRow] BY <1>3, <1>4
<1>6. Known' = Known BY <1>4 DEF Known
<1> QED BY <1>4, <1>5, <1>6 DEF RowsKept

LEMMA ScannedBase ==
  ASSUME Base, ScannedStep
  PROVE  Base'
<1>1. /\ agenda # <<>> /\ work.k = "scan" /\ ShowStops
      /\ Continue(<<Peers(work.gone)>>
                  \o [n \in DOMAIN work.fired |-> Activate(work.fired[n], work.ts)])
      /\ UNCHANGED <<oms, engine, pending, alive, lastTs>>
  BY DEF ScannedStep, Doing
<1>2. work \in ScanItem /\ Names(work) BY <1>1, RunningOk, ItemFields
<1>3. RowsKept
  <2>1. work.moved \subseteq OrderId BY <1>2 DEF ScanItem
  <2> QED BY <1>1, <2>1, ShownRows DEF Base
<1>4. work.fired \in Seq(OrderId) /\ work.ts \in Times /\ work.gone \in SUBSET OrderId
      /\ work.gone \subseteq Known /\ \A n \in DOMAIN work.fired : work.fired[n] \in Known
  BY <1>1, <1>2 DEF ScanItem, Names, NamesIn
<1>5. Peers(work.gone) \in Pushable
  <2>1. Peers(work.gone) \in WorkItem BY <1>4, ItemTypes, ItemKinds
  <2> QED BY <1>4, <2>1 DEF Pushable, Names, NamesIn, Peers
<1>6. ASSUME NEW n \in DOMAIN work.fired PROVE Activate(work.fired[n], work.ts) \in Pushable
  <2>1. work.fired[n] \in OrderId BY <1>4
  <2>2. Activate(work.fired[n], work.ts) \in WorkItem BY <1>4, <2>1, ItemTypes, ItemKinds
  <2> QED BY <1>4, <2>2 DEF Pushable, Names, NamesIn, Activate
<1>7. PICK a, b : a = <<Peers(work.gone)>>
                  /\ b = [n \in DOMAIN work.fired |-> Activate(work.fired[n], work.ts)]
  OBVIOUS
<1>8. a \in Seq(Pushable) BY <1>5, <1>7
<1>9. b \in Seq(Pushable)
  <2>1. DOMAIN work.fired = 1..Len(work.fired) /\ Len(work.fired) \in Nat BY <1>4
  <2> QED BY <1>6, <1>7, <2>1
<1>10. a \o b \in Seq(WorkItem) /\ Pushed(a \o b)
  <2>1. a \o b \in Seq(Pushable) BY <1>8, <1>9
  <2> QED BY <2>1, PushAll
<1> QED BY <1>1, <1>3, <1>7, <1>10, StepKept DEF Base, Typed, engine

LEMMA ActivateBase ==
  ASSUME Base, ActivateStep
  PROVE  Base'
<1>1. /\ agenda # <<>> /\ work.k = "activate"
      /\ UNCHANGED <<oms, pending, alive, lastTs>>
      /\ \/ SetStatus(work.id, "TRIGGERED")
         \/ UNCHANGED orders
      /\ EngineSubmit(work.id, orders[work.id].req, work.ts)
  BY DEF ActivateStep, Doing
<1>2. work.id \in Known /\ work.id \in OrderId /\ work.ts \in Times
  BY <1>1, RunningOk, ItemFields DEF Names, NamesIn, ActivateItem
<1>3. RowsKept
  <2>1. "TRIGGERED" \in Status \ {"NONE"} BY DEF Status
  <2> QED BY <1>1, <1>2, <2>1, StatusRows, SameRows DEF Base
<1>4. orders[work.id].req \in Request BY <1>2 DEF Base, Typed
<1>5. resting' \in [OrderId -> Nat] /\ executed' \in [OrderId -> Nat]
  BY <1>1, <1>2, <1>4, EngineCall DEF Base, Typed
<1>6. PICK items \in Seq(WorkItem) :
        Continue(items) /\ \A n \in DOMAIN items : EngineItem(items[n], work.id, work.ts)
  BY <1>1, <1>2, <1>4, EngineCall DEF Base, Typed
<1>7. Pushed(items)
  <2> SUFFICES ASSUME NEW n \in DOMAIN items
               PROVE  Names(items[n]) /\ items[n].k \in {"accepted", "rejected", "canceled", "trade"}
    BY DEF Pushed
  <2>1. EngineItem(items[n], work.id, work.ts) BY <1>6
  <2> QED BY <1>2, <2>1 DEF EngineItem, Names, NamesIn, Item, Trade
<1> QED BY <1>1, <1>3, <1>5, <1>6, <1>7, StepKept DEF Base, Typed

LEMMA SecondBase ==
  ASSUME Base, SecondStep
  PROVE  Base'
<1>1. /\ agenda # <<>> /\ work.k = "second"
      /\ UNCHANGED <<orders, oms, engine, pending, alive, lastTs>>
      /\ Continue(<<Submit(work.req, work.group), Item("rollback", work.group)>>)
  BY DEF SecondStep, Doing
<1>2. work \in SecondItem BY <1>1, RunningOk, ItemFields
<1>3. work = agenda[1] /\ 1 \in DOMAIN agenda BY <1>1, RunningOk
<1>4. Len(agenda) = 1 /\ work.group \in Known /\ NextId \in OrderId
  BY <1>1, <1>3 DEF Base, Shaped
<1>5. PICK s, b : s = Submit(work.req, work.group) /\ b = Item("rollback", work.group) OBVIOUS
<1>6. /\ s \in WorkItem /\ s.k = "submit" /\ s.req = work.req /\ s.group = work.group
      /\ b \in WorkItem /\ b.k = "rollback" /\ b.id = work.group
  BY <1>2, <1>4, <1>5, ItemTypes, ItemKinds DEF SecondItem, Submit, Item, Ids
<1>7. PICK items : items = <<s, b>> OBVIOUS
<1>8. agenda' \in Seq(WorkItem) /\ Len(agenda') = 2 /\ DOMAIN agenda' = {1, 2}
      /\ agenda'[1] = s /\ agenda'[2] = b
  <2>1. items \in Seq(WorkItem) /\ Len(items) = 2 /\ DOMAIN items = {1, 2}
        /\ items[1] = s /\ items[2] = b
    BY <1>6, <1>7
  <2>2. Continue(items) BY <1>1, <1>5, <1>7
  <2>3. agenda' \in Seq(WorkItem) /\ Len(agenda') = Len(items) + Len(agenda) - 1
        /\ \A n \in DOMAIN items : agenda'[n] = items[n]
    BY <1>1, <2>1, <2>2, ContinueAgenda DEF Base, Typed
  <2>4. Len(agenda') = 2 BY <1>4, <2>1, <2>3
  <2>5. DOMAIN agenda' = {1, 2} BY <2>3, <2>4
  <2> QED BY <2>1, <2>3, <2>4, <2>5
<1>9. RowsKept BY <1>1, SameRows DEF Base
<1>10. Names(s) /\ Names(b) BY <1>4, <1>6 DEF Names, NamesIn
<1>11. Shaped'
  <2>1. NextId' = NextId BY <1>9 DEF RowsKept, NextId
  <2> QED BY <1>4, <1>6, <1>8, <2>1 DEF Shaped
<1>12. Grouped' BY <1>1, <1>9 DEF Base, Grouped, GroupsInverse, RowsKept, oms
<1> QED BY <1>1, <1>8, <1>9, <1>10, <1>11, <1>12, BaseKept DEF Base, Typed, NamesKnown, oms, engine

NewRow(r, g) ==
  [req |-> r, group |-> g, filled |-> 0, shown |-> r.stop,
   status |-> IF r.trigger = "NONE" THEN "PENDING" ELSE "UNTRIGGERED"]

\* A submission takes the next number.
LEMMA SubmittedRow ==
  ASSUME Base, NEW i, i = NextId, i \in OrderId, NEW r \in Request, NEW g \in Ids,
         orders' = [orders EXCEPT ![i] = NewRow(r, g)]
  PROVE  /\ i \notin Known /\ Known' = Known \cup {i} /\ NextId' = i + 1 /\ Numbered'
         /\ orders' \in [OrderId -> OrderRow] /\ orders'[i] = NewRow(r, g)
         /\ \A j \in OrderId : j # i => orders'[j] = orders[j]
<1>1. /\ orders \in [OrderId -> OrderRow] /\ Known \subseteq OrderId
      /\ NextId \in Nat \ {0} /\ Known = 1..(NextId - 1)
  BY DEF Base, Typed, Numbered, Known
<1>2. i \notin Known BY <1>1
<1>3. PICK row : row = NewRow(r, g) OBVIOUS
<1>4. row \in OrderRow /\ row.status # "NONE"
  <2>1. r.stop \in Ticks BY Numbers DEF Request, Ticks
  <2>2. PICK s \in {"PENDING", "UNTRIGGERED"} :
          s = IF r.trigger = "NONE" THEN "PENDING" ELSE "UNTRIGGERED"
    OBVIOUS
  <2>3. row = [req |-> r, group |-> g, filled |-> 0, shown |-> r.stop, status |-> s]
    BY <1>3, <2>2 DEF NewRow
  <2> QED BY <2>1, <2>2, <2>3 DEF OrderRow, Status
<1>5. /\ orders' \in [OrderId -> OrderRow] /\ orders'[i] = row
      /\ \A j \in OrderId : j # i => orders'[j] = orders[j]
  BY <1>1, <1>3, <1>4
<1>6. Known' = Known \cup {i} BY <1>4, <1>5 DEF Known
<1>7. NextId' = i + 1 /\ Numbered'
  <2>1. Known' = 1..i BY <1>1, <1>6
  <2>2. i \in Nat BY <1>1
  <2>3. Cardinality(1..i) = i BY <2>2, FS_Interval
  <2>4. NextId' = i + 1 BY <2>1, <2>3 DEF NextId
  <2> QED BY <2>1, <2>2, <2>4 DEF Numbered
<1> QED BY <1>2, <1>3, <1>5, <1>6, <1>7

\* A submission and what is below it.
LEMMA Submitting ==
  ASSUME Base, agenda # <<>>, work.k = "submit"
  PROVE  /\ work \in SubmitItem /\ NextId \in OrderId /\ work = agenda[1] /\ 1 \in DOMAIN agenda
         /\ \/ Len(agenda) = 1 /\ work.group = NoGroup
            \/ /\ Len(agenda) = 2 /\ 2 \in DOMAIN agenda
               /\ agenda[2].k = "second" /\ NextId + 1 \in OrderId
               /\ work.group = NextId /\ agenda[2].group = NextId
            \/ /\ Len(agenda) = 2 /\ 2 \in DOMAIN agenda
               /\ agenda[2].k = "rollback" /\ agenda[2].id \in Known /\ work.group = agenda[2].id
<1>1. work = agenda[1] /\ 1 \in DOMAIN agenda /\ work \in SubmitItem
      /\ DOMAIN agenda = 1..Len(agenda)
  BY RunningOk, ItemFields
<1>2. Len(agenda) = 2 => 2 \in DOMAIN agenda BY <1>1
<1>3. 2 \in DOMAIN agenda /\ agenda[2].k = "rollback" => agenda[2].id \in Known
  BY DEF Base, NamesKnown, Names, NamesIn
<1> QED BY <1>1, <1>2, <1>3 DEF Base, Shaped

\* The new order is in its group.
LEMMA SubmittedGroup ==
  ASSUME Base, NEW i, i = NextId, i \in OrderId, NEW r \in Request, NEW g \in Ids,
         orders' = [orders EXCEPT ![i] = NewRow(r, g)],
         groupOf' = [groupOf EXCEPT ![i] = g],
         members' = IF g = NoGroup THEN members ELSE [members EXCEPT ![g] = @ \cup {i}]
  PROVE  Grouped' /\ groupOf' \in [OrderId -> Ids] /\ members' \in [Ids -> SUBSET OrderId]
<1>1. /\ groupOf \in [OrderId -> Ids] /\ members \in [Ids -> SUBSET OrderId]
      /\ \A j \in OrderId : groupOf[j] \in {NoGroup, orders[j].group}
      /\ \A j \in OrderId \ Known : groupOf[j] = NoGroup
      /\ members[NoGroup] = {} /\ GroupsInverse /\ NoGroup \notin OrderId
  BY Numbers DEF Base, Typed, Grouped
<1>2. /\ i \notin Known /\ Known' = Known \cup {i} /\ orders'[i].group = g
      /\ \A j \in OrderId : j # i => orders'[j] = orders[j]
  BY SubmittedRow DEF NewRow
<1>3. /\ groupOf' \in [OrderId -> Ids] /\ groupOf'[i] = g
      /\ \A j \in OrderId : j # i => groupOf'[j] = groupOf[j]
  BY <1>1
<1>4. /\ members' \in [Ids -> SUBSET OrderId]
      /\ \A h \in Ids : members'[h] = IF h = g /\ g # NoGroup THEN members[h] \cup {i} ELSE members[h]
  <2>1. CASE g = NoGroup BY <1>1, <2>1
  <2>2. CASE g # NoGroup
    <3>1. PICK S : S = members[g] \cup {i} OBVIOUS
    <3>2. S \in SUBSET OrderId BY <1>1, <3>1
    <3>3. members' = [members EXCEPT ![g] = S] BY <2>2, <3>1
    <3>4. members' \in [Ids -> SUBSET OrderId] BY <1>1, <3>2, <3>3
    <3>5. \A h \in Ids : members'[h] = IF h = g THEN S ELSE members[h] BY <1>1, <3>3
    <3> QED BY <2>2, <3>1, <3>4, <3>5
  <2> QED BY <2>1, <2>2
<1>5. \A h \in Ids : i \notin members[h] BY <1>2, MembersKnown
<1>6. NoGroup \in Ids /\ OrderId \subseteq Ids BY DEF Ids, NoGroup, NoOrder
<1>7. ASSUME NEW j \in OrderId, groupOf'[j] # NoGroup PROVE j \in members'[groupOf'[j]]
  <2>1. CASE j = i BY <1>3, <1>4, <1>7, <2>1
  <2>2. CASE j # i
    <3>1. j \in members[groupOf[j]] /\ groupOf[j] \in Ids BY <1>1, <1>3, <1>7, <2>2 DEF GroupsInverse
    <3> QED BY <1>3, <1>4, <2>2, <3>1
  <2> QED BY <2>1, <2>2
<1>8. ASSUME NEW j \in OrderId, NEW h \in OrderId, j \in members'[h] PROVE groupOf'[j] = h
  <2>1. CASE j = i BY <1>3, <1>4, <1>5, <1>6, <1>8, <2>1
  <2>2. CASE j # i
    <3>1. j \in members[h] BY <1>4, <1>6, <1>8, <2>2
    <3> QED BY <1>1, <1>3, <2>2, <3>1 DEF GroupsInverse
  <2> QED BY <2>1, <2>2
<1>9. members'[NoGroup] = {} BY <1>1, <1>4, <1>6
<1>10. \A j \in OrderId : groupOf'[j] \in {NoGroup, orders'[j].group} BY <1>1, <1>2, <1>3
<1>11. \A j \in OrderId \ Known' : groupOf'[j] = NoGroup BY <1>1, <1>2, <1>3
<1> QED BY <1>3, <1>4, <1>7, <1>8, <1>9, <1>10, <1>11 DEF Grouped, GroupsInverse

LEMMA SubmitBase ==
  ASSUME Base, SubmitStep
  PROVE  Base'
<1>1. agenda # <<>> /\ work.k = "submit" /\ UNCHANGED <<pending, lastTs>>
  BY DEF SubmitStep, Doing
<1>2. PICK r, g, i : r = work.req /\ g = work.group /\ i = NextId OBVIOUS
<1>3. r \in Request /\ g \in Ids /\ i \in OrderId
  BY <1>1, <1>2, Submitting DEF SubmitItem
<1>4. CASE ~r.valid
  <2>1. Raise /\ UNCHANGED <<orders, oms, engine>> BY <1>2, <1>4 DEF SubmitStep
  <2>2. RowsKept BY <2>1, SameRows DEF Base
  <2>3. /\ agenda' \in Seq(WorkItem) /\ Shaped' /\ alive' \in BOOLEAN
        /\ \A n \in DOMAIN agenda' : Names(agenda'[n])
    BY <2>1, <2>2, RaisedAgenda DEF RowsKept
  <2>4. Grouped' BY <2>1, <2>2 DEF Base, Grouped, GroupsInverse, RowsKept, oms
  <2> QED BY <1>1, <2>1, <2>2, <2>3, <2>4, BaseKept DEF Base, Typed, NamesKnown, oms, engine
<1>5. CASE r.valid
  <2>1. /\ orders' = [orders EXCEPT ![i] = NewRow(r, g)]
        /\ groupOf' = [groupOf EXCEPT ![i] = g]
        /\ members' = IF g = NoGroup THEN members ELSE [members EXCEPT ![g] = @ \cup {i}]
        /\ UNCHANGED alive
    BY <1>2, <1>5 DEF SubmitStep, NewRow
  <2>2. \/ EngineSubmit(i, r, UserTs) /\ UNCHANGED <<trigBook, watch>>
        \/ /\ trigBook' = trigBook \cup {i}
           /\ watch' = [watch EXCEPT ![i] = [peak |-> NoPrice, stop |-> r.stop]]
           /\ Continue(<<>>)
           /\ UNCHANGED engine
    BY <1>2, <1>5 DEF SubmitStep
  <2>3. /\ i \notin Known /\ Known' = Known \cup {i} /\ NextId' = i + 1 /\ Numbered'
        /\ orders' \in [OrderId -> OrderRow] /\ orders'[i] = NewRow(r, g)
        /\ \A j \in OrderId : j # i => orders'[j] = orders[j]
    BY <1>2, <1>3, <2>1, SubmittedRow
  <2>4. Grouped' /\ groupOf' \in [OrderId -> Ids] /\ members' \in [Ids -> SUBSET OrderId]
    BY <1>2, <1>3, <2>1, SubmittedGroup
  <2>5. /\ resting' \in [OrderId -> Nat] /\ executed' \in [OrderId -> Nat]
        /\ trigBook' \subseteq Known' /\ watch' \in [OrderId -> [peak : Ticks, stop : Ticks]]
    <3>1. /\ resting \in [OrderId -> Nat] /\ executed \in [OrderId -> Nat]
          /\ trigBook \subseteq Known /\ watch \in [OrderId -> [peak : Ticks, stop : Ticks]]
      BY DEF Base, Typed
    <3>2. UserTs \in Times BY DEF Times
    <3>3. [peak |-> NoPrice, stop |-> r.stop] \in [peak : Ticks, stop : Ticks]
      BY <1>3, Numbers DEF Ticks, Request
    <3>4. CASE EngineSubmit(i, r, UserTs) /\ UNCHANGED <<trigBook, watch>>
      BY <1>3, <2>3, <3>1, <3>2, <3>4, EngineCall
    <3>5. CASE /\ trigBook' = trigBook \cup {i}
               /\ watch' = [watch EXCEPT ![i] = [peak |-> NoPrice, stop |-> r.stop]]
               /\ UNCHANGED engine
      BY <2>3, <3>1, <3>3, <3>5 DEF engine
    <3> QED BY <2>2, <3>4, <3>5
  <2>6. PICK items \in Seq(WorkItem) :
          Continue(items) /\ \A n \in DOMAIN items : EngineItem(items[n], i, UserTs)
    <3>1. UserTs \in Times BY DEF Times
    <3>2. CASE EngineSubmit(i, r, UserTs)
      BY <1>3, <3>1, <3>2, EngineCall DEF Base, Typed
    <3>3. CASE Continue(<<>>)
      <4>1. PICK items : items = <<>> OBVIOUS
      <4>2. items \in Seq(WorkItem) /\ DOMAIN items = {} BY <4>1
      <4> QED BY <3>3, <4>1, <4>2
    <3> QED BY <2>2, <3>2, <3>3
  <2>7. \A n \in DOMAIN items :
          NamesIn(items[n], Known') /\ items[n].k \in {"accepted", "rejected", "canceled", "trade"}
    <3> SUFFICES ASSUME NEW n \in DOMAIN items
                 PROVE  /\ NamesIn(items[n], Known')
                        /\ items[n].k \in {"accepted", "rejected", "canceled", "trade"}
      OBVIOUS
    <3>1. EngineItem(items[n], i, UserTs) BY <2>6
    <3> QED BY <2>3, <3>1 DEF EngineItem, Names, NamesIn, Item, Trade
  <2>8. /\ agenda' \in Seq(WorkItem)
        /\ Len(agenda') = Len(items) + Len(agenda) - 1
        /\ \A n \in DOMAIN agenda' :
             \/ n \in DOMAIN items /\ agenda'[n] = items[n]
             \/ /\ n > Len(items) /\ n - Len(items) + 1 \in DOMAIN agenda
                /\ n - Len(items) + 1 > 1 /\ agenda'[n] = agenda[n - Len(items) + 1]
    BY <1>1, <2>6, ContinueAgenda DEF Base, Typed
  <2>9. ASSUME NEW n \in DOMAIN agenda', n \notin DOMAIN items
        PROVE  /\ Len(agenda) = 2 /\ 2 \in DOMAIN agenda /\ agenda'[n] = agenda[2]
               /\ n = Len(agenda')
    <3>1. PICK m : m = n - Len(items) + 1 OBVIOUS
    <3>2. m \in DOMAIN agenda /\ m > 1 /\ agenda'[n] = agenda[m] BY <2>8, <2>9, <3>1
    <3>3. DOMAIN agenda = 1..Len(agenda) /\ Len(agenda) \in Nat /\ Len(items) \in Nat
      BY <1>1, RunningOk
    <3>4. Len(agenda) = 1 \/ Len(agenda) = 2 BY <1>1, Submitting
    <3>5. Len(agenda) = 2 /\ m = 2 BY <3>2, <3>3, <3>4
    <3>6. n \in Nat BY <2>8
    <3> QED BY <2>8, <3>1, <3>2, <3>3, <3>5, <3>6
  <2>10. ASSUME NEW n \in DOMAIN agenda'
         PROVE  /\ NamesIn(agenda'[n], Known')
                /\ agenda'[n].k \notin {"submit", "cancel", "scan", "loop"}
                /\ agenda'[n].k \in {"second", "rollback"} => n = Len(agenda')
                /\ agenda'[n].k = "second" => agenda'[n].group \in Known' /\ NextId' \in OrderId
    <3>1. CASE n \in DOMAIN items
      <4>1. agenda'[n] = items[n]
        <5>1. DOMAIN items = 1..Len(items) /\ n \in Nat BY <2>8
        <5> QED BY <2>8, <3>1, <5>1
      <4>2. NamesIn(items[n], Known') /\ items[n].k \in {"accepted", "rejected", "canceled", "trade"}
        BY <2>7, <3>1
      <4>3. PICK w : w = items[n] OBVIOUS
      <4>4. agenda'[n] = w /\ NamesIn(w, Known') /\ w.k \in {"accepted", "rejected", "canceled", "trade"}
        BY <4>1, <4>2, <4>3
      <4> QED BY <4>4
    <3>2. CASE n \notin DOMAIN items
      <4>1. Len(agenda) = 2 /\ 2 \in DOMAIN agenda /\ agenda'[n] = agenda[2] /\ n = Len(agenda')
        BY <2>9, <3>2
      <4>2. PICK w : w = agenda[2] OBVIOUS
      <4>3. \/ w.k = "second" /\ NextId + 1 \in OrderId /\ w.group = NextId
            \/ w.k = "rollback" /\ w.id \in Known
        BY <1>1, <4>1, <4>2, Submitting
      <4>4. agenda'[n] = w BY <4>1, <4>2
      <4>5. NamesIn(w, Known') BY <2>3, <4>3 DEF Names, NamesIn
      <4> QED BY <1>2, <2>3, <4>1, <4>3, <4>4, <4>5
    <3> QED BY <3>1, <3>2
  <2>11. Shaped' BY <2>10 DEF Shaped
  <2>12. NamesKnown'
    <3>1. \A n \in DOMAIN pending' : NamesIn(pending'[n], Known')
      <4> SUFFICES ASSUME NEW n \in DOMAIN pending PROVE NamesIn(pending[n], Known')
        BY <1>1
      <4>1. Names(pending[n]) BY DEF Base, NamesKnown
      <4> QED BY <1>1, <2>3, <4>1 DEF Names, NamesIn
    <3> QED BY <2>10, <3>1 DEF NamesKnown, Names
  <2>13. Typed'
    <3>1. ASSUME NEW j \in Known' PROVE orders'[j].req \in Request
      <4>1. j \in OrderId BY DEF Known
      <4>2. CASE j = i BY <1>3, <2>3, <4>2 DEF NewRow
      <4>3. CASE j # i
        <5>1. j \in Known BY <2>3, <4>3
        <5> QED BY <2>3, <4>1, <4>3, <5>1 DEF Base, Typed
      <4> QED BY <4>2, <4>3
    <3> QED BY <1>1, <2>1, <2>3, <2>4, <2>5, <2>8, <3>1 DEF Base, Typed
  <2> QED BY <2>3, <2>4, <2>11, <2>12, <2>13 DEF Base
<1> QED BY <1>4, <1>5

\* The quantity of an order in an item and in a sequence of them.
LEMMA PartType ==
  ASSUME NEW w \in WorkItem, NEW i
  PROVE  /\ Part(w, i) \in Nat
         /\ w.k \notin {"trade", "leg"} => Part(w, i) = 0
<1>1. w.k = "trade" => w.qty \in Nat BY ItemFields DEF TradeItem
<1>2. w.k = "leg" => w.qty \in Nat BY ItemFields DEF LegItem
<1>3. CASE w.k = "trade" BY <1>1, <1>3 DEF Part
<1>4. CASE w.k # "trade" BY <1>2, <1>4 DEF Part
<1> QED BY <1>3, <1>4

LEMMA TradedType ==
  ASSUME NEW items \in Seq(WorkItem), NEW i
  PROVE  Traded(items, i) \in Nat
<1> DEFINE f == [n \in DOMAIN items |-> Part(items[n], i)]
<1>1. DOMAIN items = 1..Len(items) /\ Len(items) \in Nat OBVIOUS
<1>2. IsFiniteSet(DOMAIN items) BY <1>1, FS_Interval
<1>3. \A n \in DOMAIN items : f[n] \in Nat BY PartType
<1>4. SumFunctionOnSet(f, DOMAIN items) \in Nat
  <2> HIDE DEF f
  <2> QED BY <1>2, <1>3, SumNat
<1> QED BY <1>4 DEF Traded, SumFunction

-----------------------------------------------------------------------------
(* The handlers. *)

LEMMA SubmitOrderBase ==
  ASSUME Base, NEW r \in Requests, SubmitOrder(r)
  PROVE  Base'
<1>1. /\ NextId \in OrderId /\ agenda' = <<Submit(r, NoGroup)>>
      /\ UNCHANGED <<orders, oms, engine, pending, alive, lastTs>>
  BY DEF SubmitOrder
<1>2. PICK w : w = Submit(r, NoGroup) OBVIOUS
<1>3. w \in WorkItem /\ w.k = "submit" /\ w.group = NoGroup
  BY <1>2, Numbers, ItemTypes, ItemKinds DEF Submit, Ids, NoGroup, NoOrder
<1>4. agenda' \in Seq(WorkItem) /\ Len(agenda') = 1 /\ DOMAIN agenda' = {1} /\ agenda'[1] = w
  BY <1>1, <1>2, <1>3
<1>5. RowsKept BY <1>1, SameRows DEF Base
<1>6. Names(w) BY <1>3 DEF Names, NamesIn
<1>7. NextId' = NextId BY <1>5 DEF RowsKept, NextId
<1>8. Shaped' BY <1>1, <1>3, <1>4, <1>7 DEF Shaped
<1>9. Grouped' BY <1>1, <1>5 DEF Base, Grouped, GroupsInverse, RowsKept, oms
<1> QED BY <1>1, <1>4, <1>5, <1>6, <1>8, <1>9, BaseKept DEF Base, Typed, NamesKnown, oms, engine

LEMMA SubmitOcoBase ==
  ASSUME Base, NEW legs \in OcoRequests, SubmitOco(legs)
  PROVE  Base'
<1>1. /\ NextId + 1 \in OrderId
      /\ agenda' = <<Submit(legs[1], NextId), Second(legs[2], NextId)>>
      /\ UNCHANGED <<orders, oms, engine, pending, alive, lastTs>>
  BY DEF SubmitOco
<1>2. PICK i : i = NextId OBVIOUS
<1>3. i \in OrderId /\ i + 1 \in OrderId BY <1>1, <1>2, Numbers DEF Base, Numbered, OrderId
<1>4. PICK w, v : w = Submit(legs[1], i) /\ v = Second(legs[2], i) OBVIOUS
<1>5. /\ w \in WorkItem /\ w.k = "submit" /\ w.group = i
      /\ v \in WorkItem /\ v.k = "second" /\ v.group = i
  BY <1>3, <1>4, Numbers, ItemTypes, ItemKinds DEF Submit, Second, Ids
<1>6. /\ agenda' \in Seq(WorkItem) /\ Len(agenda') = 2 /\ DOMAIN agenda' = {1, 2}
      /\ agenda'[1] = w /\ agenda'[2] = v
  BY <1>1, <1>2, <1>4, <1>5
<1>7. RowsKept BY <1>1, SameRows DEF Base
<1>8. Names(w) /\ Names(v) BY <1>5 DEF Names, NamesIn
<1>9. NextId' = i BY <1>2, <1>7 DEF RowsKept, NextId
<1>10. Shaped' BY <1>3, <1>5, <1>6, <1>9 DEF Shaped
<1>11. Grouped' BY <1>1, <1>7 DEF Base, Grouped, GroupsInverse, RowsKept, oms
<1> QED BY <1>1, <1>6, <1>7, <1>8, <1>10, <1>11, BaseKept DEF Base, Typed, NamesKnown, oms, engine

LEMMA CancelOrderBase ==
  ASSUME Base, NEW i \in OrderId, CancelOrder(i)
  PROVE  Base'
<1>1. /\ i \in Known /\ agenda' = <<Item("cancel", i)>>
      /\ UNCHANGED <<orders, oms, engine, pending, alive, lastTs>>
  BY DEF CancelOrder
<1>2. PICK w : w = Item("cancel", i) OBVIOUS
<1>3. w \in WorkItem /\ w.k = "cancel" /\ w.id = i BY <1>2, ItemTypes, ItemKinds DEF Item
<1>4. agenda' \in Seq(WorkItem) /\ Len(agenda') = 1 /\ DOMAIN agenda' = {1} /\ agenda'[1] = w
  BY <1>1, <1>2, <1>3
<1>5. RowsKept BY <1>1, SameRows DEF Base
<1>6. Names(w) BY <1>1, <1>3 DEF Names, NamesIn
<1>7. Shaped' BY <1>3, <1>4 DEF Shaped
<1>8. Grouped' BY <1>1, <1>5 DEF Base, Grouped, GroupsInverse, RowsKept, oms
<1> QED BY <1>1, <1>4, <1>5, <1>6, <1>7, <1>8, BaseKept DEF Base, Typed, NamesKnown, oms, engine

\* What the agents do.
LEMMA AgentEvents ==
  ASSUME NEW e \in AgentEvent
  PROVE  e \in QueueItem /\ Names(e) /\ Timed(e) /\ e.k \in {"trade", "quiet"}
<1>1. 1 \in Nat /\ AgentTs \in Times /\ NoOrder \in Ids /\ 1..MaxQty \subseteq Nat
  BY NumbersAssumption DEF Times, Ids
<1>2. CASE e = Quiet
  <2>1. e.k = "quiet" BY <1>2 DEF Quiet
  <2> QED BY <1>2, <2>1 DEF Names, NamesIn, Timed, QueueItem
<1>3. ASSUME NEW b \in Known \cup {NoOrder}, NEW s \in Known \cup {NoOrder}, NEW q \in Nat,
             NEW p \in Prices, e = Trade(b, s, q, p, AgentTs)
      PROVE  e \in QueueItem /\ Names(e) /\ Timed(e) /\ e.k \in {"trade", "quiet"}
  <2>1. b \in Ids /\ s \in Ids BY DEF Ids, Known
  <2>2. e \in TradeItem BY <1>1, <1>3, <2>1, ItemTypes
  <2> QED BY <1>3, <2>2 DEF Trade, Names, NamesIn, Timed, QueueItem
<1>4. CASE \E p \in Prices : e = Trade(NoOrder, NoOrder, 1, p, AgentTs) BY <1>1, <1>3, <1>4
<1>5. CASE \E m \in Known, q \in 1..MaxQty, p \in Prices :
             e = Trade(m, NoOrder, q, p, AgentTs) \/ e = Trade(NoOrder, m, q, p, AgentTs)
  <2>1. PICK m \in Known, q \in 1..MaxQty, p \in Prices :
          e = Trade(m, NoOrder, q, p, AgentTs) \/ e = Trade(NoOrder, m, q, p, AgentTs)
    BY <1>5
  <2>2. q \in Nat BY <1>1
  <2> QED BY <1>3, <2>1, <2>2
<1> QED BY <1>2, <1>4, <1>5 DEF AgentEvent

\* What an iteration of the loop takes and what it leaves in the queue.
LEMMA TickPending ==
  ASSUME Base, Tick
  PROVE  /\ Head(pending) = pending[1] /\ 1 \in DOMAIN pending
         /\ Head(pending) \in QueueItem /\ Head(pending) \in WorkItem
         /\ Names(Head(pending))
         /\ pending' \in Seq(QueueItem) /\ pending' # <<>>
         /\ \/ /\ UNCHANGED engine /\ Len(pending) > 1 /\ pending' = Tail(pending)
               /\ \A n \in DOMAIN pending' : n + 1 \in DOMAIN pending /\ pending'[n] = pending[n + 1]
            \/ /\ Len(pending) = 1 /\ pending' \in AgentBatches
               /\ \A n \in DOMAIN pending' : pending'[n] \in AgentEvent
               /\ resting' = [m \in OrderId |-> resting[m] - Traded(pending', m)]
               /\ executed' = [m \in OrderId |-> executed[m] + Traded(pending', m)]
<1>1. pending \in Seq(QueueItem) /\ pending # <<>> BY DEF Base, Typed
<1>2. /\ Head(pending) = pending[1] /\ 1 \in DOMAIN pending /\ Len(pending) \in Nat \ {0}
      /\ Head(pending) \in QueueItem
  BY <1>1
<1>3. Head(pending) \in WorkItem /\ Names(Head(pending))
  <2>1. QueueItem \subseteq WorkItem BY ItemKinds, ItemTypes DEF QueueItem
  <2>2. Names(pending[1]) BY <1>2 DEF Base, NamesKnown
  <2> QED BY <1>2, <2>1, <2>2
<1>4. CASE Len(pending) > 1 /\ pending' = Tail(pending) /\ UNCHANGED engine
  <2>1. /\ pending' \in Seq(QueueItem) /\ Len(pending') = Len(pending) - 1
        /\ \A n \in 1..(Len(pending) - 1) : pending'[n] = pending[n + 1]
    BY <1>1, <1>4
  <2>2. \A n \in DOMAIN pending' : n + 1 \in DOMAIN pending /\ pending'[n] = pending[n + 1]
    BY <1>1, <1>2, <2>1
  <2>3. pending' # <<>>
    <3>1. Len(pending') \in Nat \ {0} BY <1>2, <1>4, <2>1
    <3> QED BY <3>1
  <2> QED BY <1>2, <1>3, <1>4, <2>1, <2>2, <2>3
<1>5. ASSUME ~(Len(pending) > 1), NEW batch \in AgentBatches, pending' = batch,
             resting' = [m \in OrderId |-> resting[m] - Traded(batch, m)],
             executed' = [m \in OrderId |-> executed[m] + Traded(batch, m)]
      PROVE  /\ pending' \in Seq(QueueItem) /\ pending' # <<>>
             /\ \A n \in DOMAIN pending' : pending'[n] \in AgentEvent
             /\ Len(pending) = 1
  <2>1. PICK k \in 1..MaxBatch : batch \in [1..k -> AgentEvent] BY DEF AgentBatches
  <2>2. k \in Nat \ {0} BY NumbersAssumption
  <2>3. \A n \in 1..k : batch[n] \in AgentEvent /\ batch[n] \in QueueItem
    BY <2>1, AgentEvents
  <2>4. batch \in Seq(QueueItem) /\ DOMAIN batch = 1..k BY <2>1, <2>2, <2>3
  <2>5. batch # <<>> BY <2>2, <2>4
  <2>6. Len(pending) = 1
    <3>1. PICK l \in Nat \ {0} : l = Len(pending) BY <1>2
    <3> QED BY <1>5, <3>1
  <2> QED BY <1>5, <2>3, <2>4, <2>5, <2>6
<1> QED BY <1>2, <1>3, <1>4, <1>5 DEF Tick

LEMMA TickBase ==
  ASSUME Base, Tick
  PROVE  Base'
<1>1. agenda' = <<Head(pending), Loop>> /\ UNCHANGED <<orders, oms, alive, lastTs>>
  BY DEF Tick
<1>2. PICK w : w = Head(pending) OBVIOUS
<1>3. RowsKept BY <1>1, SameRows DEF Base
<1>4. w \in WorkItem /\ Names(w) /\ w.k \in {"trade", "quiet"}
  BY <1>2, TickPending DEF TradeItem, QueueItem, Quiet
<1>5. Loop \in WorkItem /\ Loop.k = "loop" /\ Names(Loop)
  BY ItemTypes, ItemKinds DEF Loop, Names, NamesIn
<1>6. /\ agenda' \in Seq(WorkItem) /\ Len(agenda') = 2 /\ DOMAIN agenda' = {1, 2}
      /\ agenda'[1] = w /\ agenda'[2] = Loop
  BY <1>1, <1>2, <1>4, <1>5
<1>7. Shaped' BY <1>4, <1>5, <1>6 DEF Shaped
<1>8. Grouped' BY <1>1, <1>3 DEF Base, Grouped, GroupsInverse, RowsKept, oms
<1>9. /\ pending' \in Seq(QueueItem) /\ pending' # <<>>
      /\ resting' \in [OrderId -> Nat] /\ executed' \in [OrderId -> Nat]
      /\ \A n \in DOMAIN pending' : Names(pending'[n])
  <2>1. /\ resting \in [OrderId -> Nat] /\ executed \in [OrderId -> Nat]
        /\ \A n \in DOMAIN pending : Names(pending[n])
    BY DEF Base, Typed, NamesKnown
  <2>2. pending' \in Seq(QueueItem) /\ pending' # <<>> BY TickPending
  <2>3. CASE UNCHANGED engine /\ \A n \in DOMAIN pending' :
               n + 1 \in DOMAIN pending /\ pending'[n] = pending[n + 1]
    <3>1. \A n \in DOMAIN pending' : Names(pending'[n]) BY <2>1, <2>3
    <3> QED BY <2>1, <2>2, <2>3, <3>1 DEF engine
  <2>4. CASE /\ pending' \in AgentBatches
             /\ \A n \in DOMAIN pending' : pending'[n] \in AgentEvent
             /\ resting' = [m \in OrderId |-> resting[m] - Traded(pending', m)]
             /\ executed' = [m \in OrderId |-> executed[m] + Traded(pending', m)]
    <3>1. \A n \in DOMAIN pending' : Names(pending'[n]) BY <2>4, AgentEvents
    <3>2. \A m \in OrderId : Traded(pending', m) <= resting[m] BY <2>4 DEF AgentBatches
    <3>3. pending' \in Seq(WorkItem)
      BY <2>2, ItemKinds, ItemTypes DEF QueueItem
    <3>4. \A m \in OrderId : Traded(pending', m) \in Nat BY <3>3, TradedType
    <3>5. ASSUME NEW m \in OrderId
          PROVE  resting[m] - Traded(pending', m) \in Nat /\ executed[m] + Traded(pending', m) \in Nat
      <4>1. PICK t \in Nat : t = Traded(pending', m) BY <3>4
      <4> QED BY <2>1, <3>2, <4>1
    <3> QED BY <2>2, <2>4, <3>1, <3>5
  <2> QED BY <2>3, <2>4, TickPending
<1> QED BY <1>1, <1>3, <1>4, <1>5, <1>6, <1>7, <1>8, <1>9, BaseKept DEF Base, Typed, oms

LEMMA BaseNext ==
  ASSUME Base, [Next]_vars
  PROVE  Base'
<1>1. CASE Work
  BY <1>1, SubmitBase, SecondBase, LeaveBase, CancelBase, PeersBase, ReportBase, TradeBase,
     LegBase, OnTradeBase, ScanBase, ScannedBase, ActivateBase, CandleBase DEF Work
<1>2. CASE \E r \in Requests : SubmitOrder(r) BY <1>2, SubmitOrderBase
<1>3. CASE \E legs \in OcoRequests : SubmitOco(legs) BY <1>3, SubmitOcoBase
<1>4. CASE \E i \in OrderId : CancelOrder(i) BY <1>4, CancelOrderBase
<1>5. CASE Tick BY <1>5, TickBase
<1>6. CASE UNCHANGED vars
  BY <1>6 DEF vars, oms, engine, Base, Typed, Numbered, NextId, Known, NamesKnown, Names, NamesIn,
     Shaped, Grouped, GroupsInverse
<1> QED BY <1>1, <1>2, <1>3, <1>4, <1>5, <1>6 DEF Next

LEMMA BaseInit ==
  ASSUME Init
  PROVE  Base
<1>1. /\ orders = [i \in OrderId |-> [req |-> NoRequest, group |-> NoGroup, filled |-> 0,
                                      status |-> "NONE", shown |-> NoPrice]]
      /\ trigBook = {}
      /\ watch = [i \in OrderId |-> [peak |-> NoPrice, stop |-> NoPrice]]
      /\ groupOf = [i \in OrderId |-> NoGroup]
      /\ members = [g \in Ids |-> {}]
      /\ resting = [i \in OrderId |-> 0] /\ executed = [i \in OrderId |-> 0]
      /\ pending = <<Quiet>> /\ agenda = <<>> /\ alive = TRUE /\ lastTs = 0
  BY DEF Init, Ids, NoGroup, NoOrder
<1>2. Known = {} BY <1>1 DEF Known
<1>3. NextId = 1 /\ Numbered
  <2>1. Cardinality({}) = 0 BY FS_EmptySet
  <2>2. NextId = 1 BY <1>2, <2>1 DEF NextId
  <2> QED BY <1>2, <2>2 DEF Numbered
<1>4. NoGroup \in Ids BY DEF Ids, NoGroup, NoOrder
<1>5. orders \in [OrderId -> OrderRow]
  <2>1. [req |-> NoRequest, group |-> NoGroup, filled |-> 0, status |-> "NONE",
         shown |-> NoPrice] \in OrderRow
    BY <1>4 DEF OrderRow, Status, Ticks
  <2> QED BY <1>1, <2>1
<1>6. /\ pending \in Seq(QueueItem) /\ pending # <<>> /\ DOMAIN pending = {1} /\ pending[1] = Quiet
  BY <1>1 DEF QueueItem
<1>7. agenda \in Seq(WorkItem) /\ DOMAIN agenda = {} BY <1>1
<1>8. Names(Quiet) BY DEF Quiet, Names, NamesIn
<1>9. Typed
  BY <1>1, <1>2, <1>4, <1>5, <1>6, <1>7 DEF Typed, Ticks, Times, UserTs
<1>10. NamesKnown /\ Shaped BY <1>6, <1>7, <1>8 DEF NamesKnown, Shaped
<1>11. Grouped BY <1>1, <1>4 DEF Grouped, GroupsInverse, Ids
<1> QED BY <1>3, <1>9, <1>10, <1>11 DEF Base

\* In every reachable state, in the middle of a handler too, what the four holders and the
\* work items name exists and is well-formed, and the two maps of groups agree.
THEOREM BaseInvariant == Spec => []Base
<1>1. Init => Base BY BaseInit
<1>2. Base /\ [Next]_vars => Base' BY BaseNext
<1> QED BY <1>1, <1>2, PTL DEF Spec

\* At any point of any handler, whatever is submitted, cancelled or traded, an order's
\* group lists it and every listed order names its group (_order_to_oco, _oco_groups).
THEOREM GroupsStayInverse == Spec => []GroupsInverse
<1>1. Base => GroupsInverse BY DEF Base, Grouped
<1> QED BY <1>1, BaseInvariant, PTL

\* A step moves the stop of an order in one direction: a submission writes that of a
\* new order only, and a round of the scan follows Ratchet.
LEMMA StopsRatchet ==
  ASSUME Base, Next, NEW i \in Known, watch'[i].stop # watch[i].stop
  PROVE  \/ watch[i].stop = NoPrice
         \/ Ahead(orders[i].req.side, watch'[i].stop, watch[i].stop)
<1>1. watch \in [OrderId -> [peak : Ticks, stop : Ticks]] /\ i \in OrderId
  BY DEF Base, Typed, Known
<1>2. ~UNCHANGED watch BY <1>1
<1>3. SubmitStep \/ ScanStep
  BY <1>2 DEF Next, Work, SecondStep, LeaveStep, CancelStep, PeersStep, ReportStep, TradeStep,
     LegStep, OnTradeStep, ScannedStep, ActivateStep, CandleStep, SubmitOrder, SubmitOco,
     CancelOrder, Tick, oms
<1>4. CASE SubmitStep
  <2>1. PICK v : watch' = [watch EXCEPT ![NextId] = v] BY <1>2, <1>4 DEF SubmitStep, oms
  <2>2. NextId \notin Known BY DEF Base, Numbered
  <2>3. watch'[i] = watch[i] BY <1>1, <2>1, <2>2
  <2> QED BY <1>1, <2>3
<1>5. CASE ScanStep
  <2>1. PICK j : j = Min(work.todo) OBVIOUS
  <2>2. /\ watch' = [watch EXCEPT ![j] = Ratchet(orders[j].req, watch[j], work.price)]
        /\ work \in ScanItem
    BY <1>5, <2>1, ScanRound
  <2>3. j = i BY <1>1, <2>2
  <2>4. watch'[i] = Ratchet(orders[i].req, watch[i], work.price) BY <1>1, <2>2, <2>3
  <2> QED BY <1>1, <2>4 DEF Ratchet
<1> QED BY <1>3, <1>4, <1>5

\* The stop of a trailing order only ever follows the price (_evaluate_order), whatever
\* handlers run and however prices move: up for a sale, down for a purchase.
THEOREM StopsOnlyRatchet == Spec => TrailingStopRatchets
<1> DEFINE A == \A i \in Known :
                  watch'[i].stop # watch[i].stop
                    => \/ watch[i].stop = NoPrice
                       \/ Ahead(orders[i].req.side, watch'[i].stop, watch[i].stop)
<1>1. Base /\ [Next]_vars => [A]_vars
  <2> SUFFICES ASSUME Base, [Next]_vars PROVE [A]_vars OBVIOUS
  <2>1. CASE Next BY <2>1, StopsRatchet
  <2>2. CASE UNCHANGED vars BY <2>2
  <2> QED BY <2>1, <2>2
<1>2. [][A]_vars => TrailingStopRatchets BY DEF TrailingStopRatchets
<1> HIDE DEF A
<1> QED BY <1>1, <1>2, BaseInvariant, PTL DEF Spec

-----------------------------------------------------------------------------
(* The loop survives. *)

LEMMA CancelRows ==
  ASSUME Base, NEW i \in Known, EngineCancel(i)
  PROVE  /\ RowsKept /\ resting' = [resting EXCEPT ![i] = 0]
         /\ \A j \in OrderId : /\ j # i => orders'[j] = orders[j]
                               /\ orders'[j].filled = orders[j].filled
                               /\ orders'[j].shown = orders[j].shown
         /\ orders'[i].status \in {orders[i].status, "CANCELED"}
         /\ resting[i] > 0 => orders'[i].status = "CANCELED"
         /\ orders'[i].status # orders[i].status => resting[i] > 0
<1>1. i \in OrderId /\ resting \in [OrderId -> Nat] /\ "CANCELED" \in Status \ {"NONE"}
  BY DEF Base, Typed, Known, Status
<1>2. CASE resting[i] > 0
  BY <1>1, <1>2, StatusRows DEF EngineCancel, Base
<1>3. CASE ~(resting[i] > 0)
  <2>1. resting[i] = 0 BY <1>1, <1>3
  <2>2. UNCHANGED <<orders, resting>> BY <1>3 DEF EngineCancel
  <2> QED BY <1>1, <1>3, <2>1, <2>2, SameRows DEF Base
<1> QED BY <1>2, <1>3

\* All work but a submission keeps the rows.
LEMMA RowsStay ==
  ASSUME Base, Work, ~SubmitStep
  PROVE  RowsKept
<1>1. {"CANCELED", "OPEN", "REJECTED", "TRIGGERED"} \subseteq Status \ {"NONE"} BY DEF Status
<1>2. UNCHANGED orders => RowsKept BY SameRows DEF Base
<1>3. agenda # <<>> => work \in WorkItem /\ Names(work) BY RunningOk
<1>4. CASE CancelStep
  <2>1. work.id \in Known BY <1>3, <1>4 DEF CancelStep, Doing, Names, NamesIn
  <2>2. UNCHANGED orders \/ EngineCancel(work.id) BY <1>4 DEF CancelStep
  <2> QED BY <1>2, <2>1, <2>2, CancelRows
<1>5. CASE PeersStep
  <2>1. work.ids \subseteq Known BY <1>3, <1>5 DEF PeersStep, Doing, Names, NamesIn
  <2>2. \/ UNCHANGED orders
        \/ \E c \in work.ids : SetStatus(c, "CANCELED") \/ EngineCancel(c) \/ UNCHANGED orders
    BY <1>5 DEF PeersStep
  <2> QED BY <1>1, <1>2, <2>1, <2>2, CancelRows, StatusRows DEF Base
<1>6. CASE ReportStep
  <2>1. work.id \in Known BY <1>3, <1>6 DEF ReportStep, Doing, Names, NamesIn
  <2>2. UNCHANGED orders \/ \E s \in {"OPEN", "REJECTED", "CANCELED"} : SetStatus(work.id, s)
    BY <1>6 DEF ReportStep
  <2> QED BY <1>1, <1>2, <2>1, <2>2, StatusRows DEF Base
<1>7. CASE LegStep
  <2>1. work.id \in Known /\ work.qty \in Nat
    BY <1>3, <1>7, ItemFields DEF LegStep, Doing, Names, NamesIn, LegItem
  <2>2. orders' = [orders EXCEPT ![work.id] = Booked(@, work.qty)] BY <1>7 DEF LegStep
  <2> QED BY <2>1, <2>2, BookedRows DEF Base
<1>8. CASE ScannedStep
  <2>1. work.moved \subseteq OrderId
    BY <1>3, <1>8, ItemFields DEF ScannedStep, Doing, ScanItem
  <2> QED BY <1>8, <2>1, ShownRows DEF ScannedStep, Base
<1>9. CASE ActivateStep
  <2>1. work.id \in Known BY <1>3, <1>9 DEF ActivateStep, Doing, Names, NamesIn
  <2>2. UNCHANGED orders \/ SetStatus(work.id, "TRIGGERED") BY <1>9 DEF ActivateStep
  <2> QED BY <1>1, <1>2, <2>1, <2>2, StatusRows DEF Base
<1>10. CASE UNCHANGED orders BY <1>2, <1>10
<1> QED
  BY <1>4, <1>5, <1>6, <1>7, <1>8, <1>9, <1>10 DEF Work, SecondStep, LeaveStep, TradeStep,
     OnTradeStep, ScanStep, CandleStep

\* What a step pushes keeps the time of the trade, and scans what the book holds.
Carried(items) ==
  \A n \in DOMAIN items :
    /\ items[n].k \notin {"loop", "second", "rollback", "submit", "cancel"}
    /\ Timed(work) => Timed(items[n])
    /\ items[n].k = "scan" => items[n].todo \subseteq trigBook'

Steady ==
  /\ \E items \in Seq(WorkItem) : Continue(items) /\ Carried(items)
  /\ trigBook' \subseteq trigBook /\ pending' = pending /\ alive' = alive

LEMMA SteadyOne ==
  /\ <<>> \in Seq(WorkItem) /\ Carried(<<>>)
  /\ \A w \in WorkItem :
       /\ w.k \notin {"loop", "second", "rollback", "submit", "cancel"}
       /\ Timed(work) => Timed(w)
       /\ w.k = "scan" => w.todo \subseteq trigBook'
       => <<w>> \in Seq(WorkItem) /\ Carried(<<w>>)
<1>1. <<>> \in Seq(WorkItem) /\ Carried(<<>>) BY DEF Carried
<1>2. ASSUME NEW w \in WorkItem,
             w.k \notin {"loop", "second", "rollback", "submit", "cancel"},
             Timed(work) => Timed(w), w.k = "scan" => w.todo \subseteq trigBook'
      PROVE  <<w>> \in Seq(WorkItem) /\ Carried(<<w>>)
  <2>1. PICK s : s = <<w>> OBVIOUS
  <2>2. s \in Seq(WorkItem) /\ DOMAIN s = {1} /\ s[1] = w BY <2>1
  <2> QED BY <1>2, <2>1, <2>2 DEF Carried
<1> QED BY <1>1, <1>2

LEMMA PeersCarried ==
  ASSUME NEW S \in SUBSET OrderId
  PROVE  <<Peers(S)>> \in Seq(WorkItem) /\ Carried(<<Peers(S)>>)
<1>1. PICK w : w = Peers(S) OBVIOUS
<1>2. w \in WorkItem /\ w.k = "peers" BY <1>1, ItemTypes, ItemKinds DEF Peers
<1>3. Timed(w) BY <1>2 DEF Timed
<1> QED BY <1>1, <1>2, <1>3, SteadyOne

LEMMA LegOfItems ==
  ASSUME NEW i, NEW q \in Nat, Base
  PROVE  /\ LegOf(i, q) \in Seq(WorkItem)
         /\ \A n \in DOMAIN LegOf(i, q) : LegOf(i, q)[n] = Leg(i, q)
         /\ i \in Known => LegOf(i, q) = <<Leg(i, q)>>
         /\ i \notin Known => LegOf(i, q) = <<>>
<1>1. CASE i \in Known
  <2>1. Leg(i, q) \in WorkItem BY <1>1, ItemTypes, ItemKinds DEF Known
  <2> QED BY <1>1, <2>1 DEF LegOf
<1>2. CASE i \notin Known BY <1>2 DEF LegOf
<1> QED BY <1>1, <1>2

LEMMA ConcatIn ==
  ASSUME NEW S, NEW a \in Seq(S), NEW b \in Seq(S)
  PROVE  a \o b \in Seq(S)
OBVIOUS

LEMMA AllCarried ==
  ASSUME NEW items \in Seq({w \in WorkItem :
           /\ w.k \notin {"loop", "second", "rollback", "submit", "cancel", "scan"}
           /\ Timed(work) => Timed(w)})
  PROVE  items \in Seq(WorkItem) /\ Carried(items)
<1> DEFINE S == {w \in WorkItem :
                   /\ w.k \notin {"loop", "second", "rollback", "submit", "cancel", "scan"}
                   /\ Timed(work) => Timed(w)}
<1>1. \A n \in DOMAIN items : items[n] \in S OBVIOUS
<1>2. S \subseteq WorkItem OBVIOUS
<1>3. items \in Seq(WorkItem)
  <2> HIDE DEF S
  <2> QED BY <1>1, <1>2
<1> QED BY <1>1, <1>3 DEF Carried

LEMMA TradeSteady ==
  ASSUME Base, TradeStep
  PROVE  Steady
<1> DEFINE S == {w \in WorkItem :
                   /\ w.k \notin {"loop", "second", "rollback", "submit", "cancel", "scan"}
                   /\ Timed(work) => Timed(w)}
<1>1. /\ agenda # <<>> /\ work.k = "trade" /\ UNCHANGED <<oms, pending, alive>>
      /\ Continue(LegOf(work.buy, work.qty) \o LegOf(work.sell, work.qty)
                  \o <<OnTrade(work.price, work.ts), Candle(work.ts)>>)
  BY DEF TradeStep, Doing
<1>2. work.price \in Prices /\ work.ts \in Times /\ work.qty \in Nat
  BY <1>1, RunningOk, ItemFields DEF TradeItem
<1>3. PICK t, c : t = OnTrade(work.price, work.ts) /\ c = Candle(work.ts) OBVIOUS
<1>4. t \in S /\ c \in S
  <2>1. t \in WorkItem /\ c \in WorkItem BY <1>2, <1>3, ItemTypes, ItemKinds
  <2>2. t.k = "onTrade" /\ t.ts = work.ts /\ c.k = "candle" /\ c.ts = work.ts
    BY <1>3 DEF OnTrade, Candle
  <2>3. (Timed(work) => Timed(t)) /\ (Timed(work) => Timed(c)) BY <1>1, <2>2 DEF Timed
  <2> QED BY <2>1, <2>2, <2>3
<1>5. ASSUME NEW i PROVE LegOf(i, work.qty) \in Seq(S)
  <2>1. CASE i \in Known
    <3>1. PICK w : w = Leg(i, work.qty) OBVIOUS
    <3>2. w \in WorkItem /\ w.k = "leg" BY <1>2, <2>1, <3>1, ItemTypes, ItemKinds DEF Known, Leg
    <3>3. w \in S BY <3>2 DEF Timed
    <3>4. <<w>> \in Seq(S)
      <4> HIDE DEF S
      <4> QED BY <3>3
    <3> QED BY <2>1, <3>1, <3>4 DEF LegOf
  <2>2. CASE i \notin Known BY <2>2 DEF LegOf
  <2> QED BY <2>1, <2>2
<1>6. PICK a, b, e : /\ a = LegOf(work.buy, work.qty) /\ b = LegOf(work.sell, work.qty)
                     /\ e = <<t, c>>
  OBVIOUS
<1>7. a \in Seq(S) /\ b \in Seq(S) BY <1>5, <1>6
<1>8. a \o b \o e \in Seq(S)
  <2> HIDE DEF S
  <2> QED BY <1>4, <1>6, <1>7
<1>9. a \o b \o e \in Seq(WorkItem) /\ Carried(a \o b \o e) BY <1>8, AllCarried
<1> QED BY <1>1, <1>3, <1>6, <1>9 DEF Steady, oms

\* One round of the scan fires an order the trigger book holds, and takes out of it the
\* order alone: no other of its group waits for the price.
LEMMA ScanGuarded ==
  ASSUME Guarded, ScanStep, NEW i, i = Min(work.todo)
  PROVE  /\ i \in trigBook /\ work.todo \subseteq trigBook
         /\ orders[i].group \in Ids
         /\ work.todo \cap members[orders[i].group] \subseteq {i}
<1>1. Base BY DEF Guarded
<1>2. agenda # <<>> /\ work.k = "scan" /\ i \in work.todo /\ i \in OrderId /\ work.todo \subseteq Known
  BY <1>1, ScanRound
<1>3. work.todo \subseteq trigBook BY <1>1, <1>2, RunningOk DEF Guarded, ScanCurrent
<1>4. PICK g : g = orders[i].group OBVIOUS
<1>5. g \in Ids BY <1>1, <1>2, <1>4 DEF Base, Typed, OrderRow
<1>6. ASSUME NEW j \in work.todo, j \in members[g] PROVE j = i
  <2>1. g # NoGroup BY <1>6, <1>1 DEF Base, Grouped
  <2>2. g \in OrderId BY <1>5, <2>1 DEF Ids, NoGroup, NoOrder
  <2>3. j \in OrderId /\ j \in Known BY <1>2 DEF Known
  <2>4. groupOf[j] = g BY <1>1, <1>6, <2>2, <2>3 DEF Base, Grouped, GroupsInverse
  <2>5. orders[j].group = g BY <1>1, <2>1, <2>3, <2>4 DEF Base, Grouped
  <2>6. orders[i].req.trigger # "NONE" /\ orders[j].req.trigger # "NONE"
    BY <1>2, <1>3 DEF Guarded, OneWatched
  <2>7. i \in Known BY <1>2
  <2> QED BY <1>4, <2>1, <2>3, <2>5, <2>6, <2>7 DEF Guarded, OneWatched
<1> QED BY <1>2, <1>3, <1>4, <1>5, <1>6

LEMMA ScanSteady ==
  ASSUME Guarded, ScanStep
  PROVE  Steady
<1>1. PICK i : i = Min(work.todo) OBVIOUS
<1>2. PICK g : g = orders[i].group OBVIOUS
<1>3. PICK moved : moved \in {work.moved, work.moved \cup {i}}
                   /\ moved = (IF Ratchet(orders[i].req, watch[i], work.price).stop # watch[i].stop
                               THEN work.moved \cup {i} ELSE work.moved)
  OBVIOUS
<1>4. Base BY DEF Guarded
<1>5. /\ agenda # <<>> /\ work.k = "scan" /\ work \in ScanItem /\ Names(work)
      /\ i \in OrderId /\ moved \in SUBSET OrderId
      /\ pending' = pending /\ work.todo \subseteq OrderId
  <2>1. /\ agenda # <<>> /\ work.k = "scan" /\ work \in ScanItem
        /\ i \in OrderId /\ work.moved \cup {i} \subseteq Known /\ work.todo \subseteq Known
    BY <1>1, <1>4, ScanRound
  <2> QED BY <1>3, <1>4, <2>1, RunningOk DEF ScanStep, Known
<1>6. /\ i \in trigBook /\ work.todo \subseteq trigBook
      /\ work.todo \cap members[g] \subseteq {i}
  BY <1>1, <1>2, ScanGuarded
<1>7. CASE /\ Continue(<<[work EXCEPT !.todo = work.todo \ {i}, !.moved = moved]>>)
           /\ UNCHANGED <<trigBook, groupOf, members, alive>>
  <2>1. PICK w : w = [work EXCEPT !.todo = work.todo \ {i}, !.moved = moved] OBVIOUS
  <2>2. w \in ScanItem /\ w.k = "scan" /\ w.todo = work.todo \ {i} /\ w.ts = work.ts
    BY <1>5, <2>1 DEF ScanItem
  <2>3. (Timed(work) => Timed(w)) /\ w.todo \subseteq trigBook' BY <1>5, <1>6, <1>7, <2>2 DEF Timed
  <2>4. <<w>> \in Seq(WorkItem) /\ Carried(<<w>>) BY <2>2, <2>3, SteadyOne, ItemKinds
  <2> QED BY <1>5, <1>7, <2>1, <2>4 DEF Steady
<1>8. CASE /\ LeaveGroup(g, i)
           /\ Continue(<<[work EXCEPT !.todo = work.todo \ {i}, !.moved = moved,
                            !.fired = Append(work.fired, i),
                            !.gone = work.gone \cup (members[g] \ {i})]>>)
           /\ UNCHANGED alive
  <2>1. PICK fired : fired = Append(work.fired, i) OBVIOUS
  <2>2. PICK gone : gone = work.gone \cup (members[g] \ {i}) OBVIOUS
  <2>3. PICK w : w = [work EXCEPT !.todo = work.todo \ {i}, !.moved = moved,
                        !.fired = fired, !.gone = gone]
    OBVIOUS
  <2>4. fired \in Seq(OrderId) BY <1>5, <2>1 DEF ScanItem
  <2>5. gone \in SUBSET OrderId
    <3>1. g \in Ids BY <1>1, <1>2, ScanGuarded
    <3> QED BY <1>4, <1>5, <2>2, <3>1 DEF Base, Typed, ScanItem
  <2>6. w \in ScanItem /\ w.k = "scan" /\ w.todo = work.todo \ {i} /\ w.ts = work.ts
    BY <1>5, <2>3, <2>4, <2>5 DEF ScanItem
  <2>7. trigBook' = trigBook \ ((members[g] \ {i}) \cup {i}) BY <1>8 DEF LeaveGroup
  <2>8. (Timed(work) => Timed(w)) /\ w.todo \subseteq trigBook'
    BY <1>5, <1>6, <2>6, <2>7 DEF Timed
  <2>9. <<w>> \in Seq(WorkItem) /\ Carried(<<w>>) BY <2>6, <2>8, SteadyOne, ItemKinds
  <2>10. Continue(<<w>>) BY <1>8, <2>1, <2>2, <2>3
  <2> QED BY <1>5, <1>8, <2>7, <2>9, <2>10 DEF Steady
<1> QED BY <1>1, <1>2, <1>3, <1>6, <1>7, <1>8 DEF ScanStep

LEMMA ScannedSteady ==
  ASSUME Base, ScannedStep
  PROVE  Steady
<1> DEFINE S == {w \in WorkItem :
                   /\ w.k \notin {"loop", "second", "rollback", "submit", "cancel", "scan"}
                   /\ Timed(work) => Timed(w)}
<1>1. /\ agenda # <<>> /\ work.k = "scan" /\ UNCHANGED <<oms, pending, alive>>
      /\ Continue(<<Peers(work.gone)>>
                  \o [n \in DOMAIN work.fired |-> Activate(work.fired[n], work.ts)])
  BY DEF ScannedStep, Doing
<1>2. work \in ScanItem BY <1>1, RunningOk, ItemFields
<1>3. work.fired \in Seq(OrderId) /\ work.ts \in Times /\ work.gone \in SUBSET OrderId
  BY <1>2 DEF ScanItem
<1>4. PICK p : p = Peers(work.gone) OBVIOUS
<1>5. p \in S
  <2>1. p \in WorkItem /\ p.k = "peers" BY <1>3, <1>4, ItemTypes, ItemKinds DEF Peers
  <2> QED BY <2>1 DEF Timed
<1>6. ASSUME NEW n \in DOMAIN work.fired PROVE Activate(work.fired[n], work.ts) \in S
  <2>1. PICK w : w = Activate(work.fired[n], work.ts) OBVIOUS
  <2>2. w \in WorkItem BY <1>3, <2>1, ItemTypes, ItemKinds
  <2>3. w.k = "activate" /\ w.ts = work.ts BY <2>1 DEF Activate
  <2>4. w \in S BY <1>1, <2>2, <2>3 DEF Timed
  <2> QED BY <2>1, <2>4
<1>7. PICK b : b = [n \in DOMAIN work.fired |-> Activate(work.fired[n], work.ts)] OBVIOUS
<1>8. b \in Seq(S)
  <2>1. DOMAIN work.fired = 1..Len(work.fired) /\ Len(work.fired) \in Nat BY <1>3
  <2> QED BY <1>6, <1>7, <2>1
<1>9. <<p>> \o b \in Seq(S)
  <2> HIDE DEF S
  <2>1. <<p>> \in Seq(S) BY <1>5
  <2> QED BY <1>8, <2>1
<1>10. <<p>> \o b \in Seq(WorkItem) /\ Carried(<<p>> \o b) BY <1>9, AllCarried
<1> QED BY <1>1, <1>4, <1>7, <1>10 DEF Steady, oms

LEMMA ActivateSteady ==
  ASSUME Base, ActivateStep
  PROVE  Steady
<1>1. /\ agenda # <<>> /\ work.k = "activate" /\ UNCHANGED <<oms, pending, alive>>
      /\ EngineSubmit(work.id, orders[work.id].req, work.ts)
  BY DEF ActivateStep, Doing
<1>2. work.id \in Known /\ work.id \in OrderId /\ work.ts \in Times
  BY <1>1, RunningOk, ItemFields DEF Names, NamesIn, ActivateItem
<1>3. orders[work.id].req \in Request BY <1>2 DEF Base, Typed
<1>4. PICK items \in Seq(WorkItem) :
        Continue(items) /\ \A n \in DOMAIN items : EngineItem(items[n], work.id, work.ts)
  BY <1>1, <1>2, <1>3, EngineCall DEF Base, Typed
<1>5. Carried(items)
  <2> SUFFICES ASSUME NEW n \in DOMAIN items
               PROVE  /\ items[n].k \in {"accepted", "rejected", "canceled", "trade"}
                      /\ Timed(work) => Timed(items[n])
    BY DEF Carried
  <2>1. PICK w : w = items[n] OBVIOUS
  <2>2. EngineItem(w, work.id, work.ts) BY <1>4, <2>1
  <2>3. w.k \in {"accepted", "rejected", "canceled"} \/ (w.k = "trade" /\ w.ts = work.ts)
    BY <2>2 DEF EngineItem, Item, Trade
  <2>4. Timed(work) => Timed(w) BY <1>1, <2>3 DEF Timed
  <2> QED BY <2>1, <2>3, <2>4
<1> QED BY <1>1, <1>4, <1>5 DEF Steady, oms

\* No step but a submission, the second leg's start and an exception does else.
LEMMA WorkSteady ==
  ASSUME Guarded, Work, ~SubmitStep, ~SecondStep
  PROVE  \/ Steady
         \/ Raise /\ (CancelStep \/ CandleStep) /\ UNCHANGED <<oms, pending>>
<1>1. Base BY DEF Guarded
<1>2. agenda # <<>> => work \in WorkItem /\ Names(work) BY <1>1, RunningOk
<1>3. CASE LeaveStep BY <1>3, SteadyOne DEF LeaveStep, Steady, oms
<1>4. CASE CancelStep
  <2>1. work.id \in Known /\ work.id \in OrderId /\ pending' = pending
    BY <1>2, <1>4 DEF CancelStep, Doing, Names, NamesIn, Known
  <2>2. PeersOf(work.id) \in SUBSET OrderId BY <1>1, <2>1, PeersOfKnown DEF Known
  <2>3. PeersOf(work.id) \cup ({work.id} \cap trigBook) \in SUBSET OrderId BY <2>1, <2>2
  <2>4. \/ Raise /\ UNCHANGED oms
        \/ /\ LeaveGroup(groupOf[work.id], work.id) /\ alive' = alive
           /\ \/ Continue(<<Peers(PeersOf(work.id) \cup ({work.id} \cap trigBook))>>)
              \/ Continue(<<Peers(PeersOf(work.id))>>)
    BY <1>4 DEF CancelStep
  <2>5. LeaveGroup(groupOf[work.id], work.id) => trigBook' \subseteq trigBook BY DEF LeaveGroup
  <2> QED BY <1>4, <2>1, <2>2, <2>3, <2>4, <2>5, PeersCarried DEF Steady
<1>5. CASE PeersStep
  <2>1. agenda # <<>> /\ work.k = "peers" /\ UNCHANGED <<oms, pending, alive>>
    BY <1>5 DEF PeersStep, Doing
  <2>2. work.ids \in SUBSET OrderId BY <1>2, <2>1, ItemFields DEF PeersItem
  <2>3. Continue(<<>>) \/ \E c \in work.ids : Continue(<<Peers(work.ids \ {c})>>)
    BY <1>5 DEF PeersStep
  <2>4. ASSUME NEW c \in work.ids, Continue(<<Peers(work.ids \ {c})>>) PROVE Steady
    <3>1. work.ids \ {c} \in SUBSET OrderId BY <2>2
    <3> QED BY <2>1, <2>4, <3>1, PeersCarried DEF Steady, oms
  <2>5. CASE Continue(<<>>) BY <2>1, <2>5, SteadyOne DEF Steady, oms
  <2> QED BY <2>3, <2>4, <2>5
<1>6. CASE ReportStep BY <1>6, SteadyOne DEF ReportStep, Steady, oms
<1>7. CASE TradeStep BY <1>1, <1>7, TradeSteady
<1>8. CASE LegStep
  <2>1. work.id \in OrderId /\ UNCHANGED <<pending, alive>>
    BY <1>2, <1>8, ItemFields DEF LegStep, Doing, LegItem
  <2>2. PeersOf(work.id) \in SUBSET OrderId BY <1>1, <2>1, PeersOfKnown DEF Known
  <2>3. \/ Continue(<<Peers(PeersOf(work.id))>>) /\ LeaveGroup(groupOf[work.id], work.id)
        \/ Continue(<<>>) /\ UNCHANGED trigBook
    BY <1>8 DEF LegStep
  <2>4. LeaveGroup(groupOf[work.id], work.id) => trigBook' \subseteq trigBook BY DEF LeaveGroup
  <2> QED BY <2>1, <2>2, <2>3, <2>4, SteadyOne, PeersCarried DEF Steady
<1>9. CASE OnTradeStep
  <2>1. /\ agenda # <<>> /\ work.k = "onTrade" /\ UNCHANGED <<oms, pending, alive>>
        /\ Continue(<<Scan(trigBook, work.price, work.ts, <<>>, {}, {})>>)
    BY <1>9 DEF OnTradeStep, Doing
  <2>2. work.price \in Prices /\ work.ts \in Times BY <1>2, <2>1, ItemFields DEF OnTradeItem
  <2>3. PICK w : w = Scan(trigBook, work.price, work.ts, <<>>, {}, {}) OBVIOUS
  <2>4. w \in WorkItem
    <3>1. {} \in SUBSET OrderId /\ <<>> \in Seq(OrderId) /\ trigBook \in SUBSET OrderId
      BY <1>1 DEF Base, Typed, Known
    <3> QED BY <2>2, <2>3, <3>1, ItemTypes, ItemKinds
  <2>5. w.k = "scan" /\ w.ts = work.ts /\ w.todo = trigBook BY <2>3 DEF Scan
  <2>6. <<w>> \in Seq(WorkItem) /\ Carried(<<w>>)
    BY <2>1, <2>4, <2>5, SteadyOne DEF Timed, oms
  <2> QED BY <2>1, <2>3, <2>6 DEF Steady, oms
<1>10. CASE ScanStep BY <1>10, ScanSteady
<1>11. CASE ScannedStep BY <1>1, <1>11, ScannedSteady
<1>12. CASE ActivateStep BY <1>1, <1>12, ActivateSteady
<1>13. CASE CandleStep
  <2>1. UNCHANGED <<oms, pending>> /\ (Raise \/ (Continue(<<>>) /\ alive' = alive))
    BY <1>13 DEF CandleStep
  <2> QED BY <1>13, <2>1, SteadyOne DEF Steady, oms
<1> QED
  BY <1>3, <1>4, <1>5, <1>6, <1>7, <1>8, <1>9, <1>10, <1>11, <1>12, <1>13 DEF Work

\* The groups and the legs still to come, when no order is new.
LEMMA GroupsStay ==
  ASSUME OneWatched, trigBook \subseteq Known, RowsKept, trigBook' \subseteq trigBook
  PROVE  /\ OneWatched'
         /\ \A r, g : Coming(r, g) => \A j \in Known' : orders'[j].group = g =>
              j = g /\ (orders'[j].req.trigger = "NONE" \/ r.trigger = "NONE")
<1>1. Known \subseteq OrderId /\ Known' = Known BY DEF Known, RowsKept
<1>2. \A j \in Known : orders'[j].req = orders[j].req /\ orders'[j].group = orders[j].group
  BY <1>1 DEF RowsKept
<1>3. \A i \in trigBook' : orders'[i].req.trigger # "NONE"
  BY <1>1, <1>2 DEF OneWatched, RowsKept
<1> QED BY <1>1, <1>2, <1>3 DEF OneWatched, Coming

LEMMA SteadyGuarded ==
  ASSUME Guarded, Base', RowsKept, agenda # <<>>, work.k # "submit", Steady
  PROVE  Guarded'
<1>1. Base BY DEF Guarded
<1>2. PICK items \in Seq(WorkItem) : Continue(items) /\ Carried(items) BY DEF Steady
<1>3. /\ agenda \in Seq(WorkItem) /\ Len(agenda) \in Nat \ {0} /\ DOMAIN agenda = 1..Len(agenda)
      /\ work = agenda[1] /\ 1 \in DOMAIN agenda
  BY <1>1, RunningOk DEF Base, Typed
<1>4. \A n \in DOMAIN agenda' :
        \/ n \in DOMAIN items /\ agenda'[n] = items[n]
        \/ \E m \in DOMAIN agenda : m > 1 /\ agenda'[n] = agenda[m]
  BY <1>2, <1>3, ContinueAgenda
<1>5. ASSUME NEW m \in DOMAIN agenda, m > 1
      PROVE  agenda[m].k \notin {"submit", "cancel", "scan"}
  BY <1>1, <1>3, <1>5 DEF Base, Shaped
<1>6. ASSUME NEW n \in DOMAIN agenda'
      PROVE  /\ agenda'[n].k \notin {"submit", "cancel"}
             /\ agenda'[n].k = "scan" => agenda'[n].todo \subseteq trigBook'
             /\ agenda'[n].k \in {"loop", "second"} =>
                  \E m \in DOMAIN agenda : m > 1 /\ agenda'[n] = agenda[m]
             /\ (\A m \in DOMAIN agenda : Timed(agenda[m])) => Timed(agenda'[n])
  <2>1. CASE n \in DOMAIN items /\ agenda'[n] = items[n]
    <3>1. PICK w : w = items[n] OBVIOUS
    <3>2. /\ w.k \notin {"loop", "second", "rollback", "submit", "cancel"}
          /\ Timed(work) => Timed(w)
          /\ w.k = "scan" => w.todo \subseteq trigBook'
      BY <1>2, <2>1, <3>1 DEF Carried
    <3> QED BY <1>3, <2>1, <3>1, <3>2
  <2>2. CASE \E m \in DOMAIN agenda : m > 1 /\ agenda'[n] = agenda[m]
    BY <1>5, <2>2
  <2> QED BY <1>4, <2>1, <2>2
<1>7. OneWatched' /\ \A r, g : Coming(r, g) => \A j \in Known' : orders'[j].group = g =>
        j = g /\ (orders'[j].req.trigger = "NONE" \/ r.trigger = "NONE")
  BY <1>1, GroupsStay DEF Guarded, Steady, Base, Typed
<1>8. LoopTimed'
  <2>1. \A n \in DOMAIN pending' : Timed(pending'[n]) BY DEF Steady, Guarded, LoopTimed
  <2>2. ASSUME NEW n \in DOMAIN agenda', agenda'[n].k = "loop"
        PROVE  \A m \in DOMAIN agenda : Timed(agenda[m])
    BY <1>6, <2>2 DEF Guarded, LoopTimed
  <2> QED BY <1>6, <2>1, <2>2 DEF LoopTimed
<1>9. ASSUME NEW n \in DOMAIN agenda', agenda'[n].k = "second"
      PROVE  \A j \in Known' : orders'[j].group = agenda'[n].group =>
               j = agenda'[n].group
               /\ (orders'[j].req.trigger = "NONE" \/ agenda'[n].req.trigger = "NONE")
  <2>1. PICK m \in DOMAIN agenda : agenda'[n] = agenda[m] BY <1>6, <1>9
  <2>2. Coming(agenda[m].req, agenda[m].group) BY <1>9, <2>1 DEF Guarded, SecondLegs
  <2> QED BY <1>7, <2>1, <2>2
<1>10. SecondLegs'
  <2>1. ASSUME NEW n \in DOMAIN agenda', agenda'[n].k = "second" PROVE agenda'[1].k # "submit"
    <3>1. 1 \in DOMAIN agenda' BY DEF Base, Typed
    <3> QED BY <1>6, <3>1
  <2> QED BY <1>6, <1>9, <2>1 DEF SecondLegs, Coming
<1>11. ScanCurrent' BY <1>6 DEF ScanCurrent
<1> QED BY <1>7, <1>8, <1>10, <1>11 DEF Guarded, Steady

\* An exception outside the loop leaves the loop alive.
LEMMA RaiseGuarded ==
  ASSUME Guarded, Base', RowsKept, Raise, UNCHANGED <<oms, pending>>,
         \A n \in DOMAIN agenda : agenda[n].k # "loop"
  PROVE  Guarded'
<1>1. Base BY DEF Guarded
<1>2. alive' BY DEF Raise, Guarded
<1>3. agenda' = <<>> \/ \E i : agenda' = <<Item("cancel", i)>>
  BY <1>1, RaisedAgenda DEF RowsKept
<1>4. \A n \in DOMAIN agenda' : agenda'[n].k = "cancel"
  <2>1. CASE agenda' = <<>> BY <2>1
  <2>2. ASSUME NEW i, agenda' = <<Item("cancel", i)>> PROVE \A n \in DOMAIN agenda' : agenda'[n].k = "cancel"
    <3>1. PICK w : w = Item("cancel", i) OBVIOUS
    <3>2. DOMAIN agenda' = {1} /\ agenda'[1] = w /\ w.k = "cancel" BY <2>2, <3>1 DEF Item
    <3> QED BY <3>2
  <2> QED BY <1>3, <2>1, <2>2
<1>5. OneWatched' BY <1>1, GroupsStay DEF Guarded, Base, Typed, oms
<1>6. LoopTimed' BY <1>4 DEF LoopTimed, Guarded
<1>7. SecondLegs' /\ ScanCurrent' BY <1>4 DEF SecondLegs, ScanCurrent
<1> QED BY <1>2, <1>5, <1>6, <1>7 DEF Guarded

\* A candle in the loop is never older than the last one.
LEMMA WorkGuarded ==
  ASSUME Guarded, Work, ~SubmitStep, ~SecondStep
  PROVE  Guarded'
<1>1. Base /\ Base' BY BaseNext DEF Guarded, Next
<1>2. RowsKept BY <1>1, RowsStay
<1>3. agenda # <<>> /\ work.k # "submit"
  BY DEF Work, LeaveStep, CancelStep, PeersStep, ReportStep, TradeStep, LegStep, OnTradeStep,
     ScanStep, ScannedStep, ActivateStep, CandleStep, Doing
<1>4. work = agenda[1] /\ 1 \in DOMAIN agenda /\ work \in WorkItem BY <1>1, <1>3, RunningOk
<1>5. CASE Steady BY <1>1, <1>2, <1>3, <1>5, SteadyGuarded
<1>6. CASE ~Steady
  <2>1. Raise /\ (CancelStep \/ CandleStep) /\ UNCHANGED <<oms, pending>> BY <1>6, WorkSteady
  <2>2. ASSUME NEW n \in DOMAIN agenda, agenda[n].k = "loop" PROVE FALSE
    <3>1. Timed(work) /\ work.k # "cancel" BY <1>4, <2>2 DEF Guarded, LoopTimed
    <3>2. CandleStep BY <2>1, <3>1 DEF CancelStep, Doing
    <3>3. work.ts = AgentTs BY <3>1, <3>2 DEF CandleStep, Doing, Timed
    <3>4. ~(work.ts < lastTs)
      BY <1>1, <3>3 DEF Base, Typed, Times, AgentTs, UserTs
    <3>5. lastTs' = work.ts /\ Continue(<<>>) /\ UNCHANGED <<oms, pending, alive>>
      BY <3>2, <3>4 DEF CandleStep
    <3> QED BY <1>6, <3>5, SteadyOne DEF Steady, oms
  <2> QED BY <1>1, <1>2, <2>1, <2>2, RaiseGuarded
<1> QED BY <1>5, <1>6

\* What a recorded submission leaves to do: the engine's events, then the second leg or
\* the rollback.
LEMMA Submitted ==
  ASSUME Base, SubmitStep, NEW r, NEW g, NEW i, r = work.req, g = work.group, i = NextId, r.valid
  PROVE  /\ agenda # <<>> /\ work.k = "submit" /\ r \in Request /\ g \in Ids
         /\ i \in OrderId /\ i \in Nat \ {0} /\ i \notin Known /\ Known' = Known \cup {i}
         /\ orders'[i] = NewRow(r, g)
         /\ \A j \in OrderId : j # i => orders'[j] = orders[j]
         /\ \A j \in Known : j \in OrderId /\ j \in Nat /\ j < i
         /\ groupOf' = [groupOf EXCEPT ![i] = g]
         /\ members' = IF g = NoGroup THEN members ELSE [members EXCEPT ![g] = @ \cup {i}]
         /\ UNCHANGED <<pending, alive, lastTs>>
         /\ \/ EngineSubmit(i, r, UserTs) /\ UNCHANGED <<trigBook, watch>> /\ r.trigger = "NONE"
            \/ /\ trigBook' = trigBook \cup {i}
               /\ watch' = [watch EXCEPT ![i] = [peak |-> NoPrice, stop |-> r.stop]]
               /\ Continue(<<>>) /\ UNCHANGED engine /\ r.trigger # "NONE"
         /\ \A n \in DOMAIN agenda' :
              \/ EngineItem(agenda'[n], i, UserTs)
              \/ /\ Len(agenda) = 2 /\ 2 \in DOMAIN agenda /\ agenda'[n] = agenda[2]
                 /\ agenda[2].k \in {"second", "rollback"}
<1>1. agenda # <<>> /\ work.k = "submit" /\ UNCHANGED <<pending, lastTs>>
  BY DEF SubmitStep, Doing
<1>2. r \in Request /\ g \in Ids /\ i \in OrderId
  BY <1>1, Submitting DEF SubmitItem
<1>3. /\ orders' = [orders EXCEPT ![i] = NewRow(r, g)]
      /\ groupOf' = [groupOf EXCEPT ![i] = g]
      /\ members' = IF g = NoGroup THEN members ELSE [members EXCEPT ![g] = @ \cup {i}]
      /\ UNCHANGED alive
  BY DEF SubmitStep, NewRow
<1>4. \/ EngineSubmit(i, r, UserTs) /\ UNCHANGED <<trigBook, watch>> /\ r.trigger = "NONE"
      \/ /\ trigBook' = trigBook \cup {i}
         /\ watch' = [watch EXCEPT ![i] = [peak |-> NoPrice, stop |-> r.stop]]
         /\ Continue(<<>>) /\ UNCHANGED engine /\ r.trigger # "NONE"
  BY DEF SubmitStep
<1>5. /\ i \notin Known /\ Known' = Known \cup {i}
      /\ orders'[i] = NewRow(r, g)
      /\ \A j \in OrderId : j # i => orders'[j] = orders[j]
  BY <1>2, <1>3, SubmittedRow
<1>6. i \in Nat \ {0} /\ \A j \in Known : j \in OrderId /\ j \in Nat /\ j < i
  BY DEF Base, Numbered, Known
<1>7. PICK items \in Seq(WorkItem) :
        Continue(items) /\ \A n \in DOMAIN items : EngineItem(items[n], i, UserTs)
  <2>1. UserTs \in Times BY DEF Times
  <2>2. CASE EngineSubmit(i, r, UserTs)
    BY <1>2, <2>1, <2>2, EngineCall DEF Base, Typed
  <2>3. CASE Continue(<<>>)
    <3>1. PICK items : items = <<>> OBVIOUS
    <3>2. items \in Seq(WorkItem) /\ DOMAIN items = {} BY <3>1
    <3> QED BY <2>3, <3>1, <3>2
  <2> QED BY <1>4, <2>2, <2>3
<1>8. ASSUME NEW n \in DOMAIN agenda'
      PROVE  \/ EngineItem(agenda'[n], i, UserTs)
             \/ /\ Len(agenda) = 2 /\ 2 \in DOMAIN agenda /\ agenda'[n] = agenda[2]
                /\ agenda[2].k \in {"second", "rollback"}
  <2>1. \/ n \in DOMAIN items /\ agenda'[n] = items[n]
        \/ \E m \in DOMAIN agenda : m > 1 /\ agenda'[n] = agenda[m]
    BY <1>1, <1>7, ContinueAgenda DEF Base, Typed
  <2>2. ASSUME NEW m \in DOMAIN agenda, m > 1
        PROVE  m = 2 /\ Len(agenda) = 2 /\ agenda[2].k \in {"second", "rollback"}
    <3>1. Len(agenda) = 1 \/ (Len(agenda) = 2 /\ agenda[2].k \in {"second", "rollback"})
      BY <1>1, Submitting
    <3>2. DOMAIN agenda = 1..Len(agenda) BY <1>1, RunningOk
    <3> QED BY <2>2, <3>1, <3>2
  <2> QED BY <1>7, <2>1, <2>2
<1> QED BY <1>1, <1>2, <1>3, <1>4, <1>5, <1>6, <1>8

LEMMA SubmitGuarded ==
  ASSUME Guarded, SubmitStep
  PROVE  Guarded'
<1>1. Base BY DEF Guarded
<1>2. Base' BY <1>1, SubmitBase
<1>3. PICK r, g, i : r = work.req /\ g = work.group /\ i = NextId OBVIOUS
<1>4. agenda # <<>> /\ work.k = "submit" BY DEF SubmitStep, Doing
<1>5. work = agenda[1] /\ 1 \in DOMAIN agenda BY <1>1, <1>4, RunningOk
<1>6. \A n \in DOMAIN agenda : agenda[n].k # "loop" BY <1>4, <1>5 DEF Guarded, LoopTimed
<1>7. CASE ~r.valid
  <2>1. Raise /\ UNCHANGED <<orders, oms, pending>> BY <1>3, <1>7 DEF SubmitStep
  <2>2. RowsKept BY <1>1, <2>1, SameRows DEF Base
  <2> QED BY <1>1, <1>2, <1>6, <2>1, <2>2, RaiseGuarded
<1>8. CASE r.valid
  <2>1. /\ g \in Ids
        /\ i \in OrderId /\ i \in Nat \ {0} /\ i \notin Known /\ Known' = Known \cup {i}
        /\ orders'[i].req = r /\ orders'[i].group = g
        /\ \A j \in OrderId : j # i => orders'[j] = orders[j]
        /\ \A j \in Known : j \in OrderId /\ j \in Nat /\ j < i /\ orders'[j] = orders[j]
        /\ UNCHANGED <<pending, alive, lastTs>>
        /\ trigBook' = trigBook \/ (trigBook' = trigBook \cup {i} /\ r.trigger # "NONE")
    <3>1. /\ g \in Ids
          /\ i \in OrderId /\ i \in Nat \ {0} /\ i \notin Known /\ Known' = Known \cup {i}
          /\ orders'[i] = NewRow(r, g)
          /\ \A j \in OrderId : j # i => orders'[j] = orders[j]
          /\ \A j \in Known : j \in OrderId /\ j \in Nat /\ j < i
          /\ UNCHANGED <<pending, alive, lastTs>>
          /\ \/ UNCHANGED <<trigBook, watch>>
             \/ trigBook' = trigBook \cup {i} /\ r.trigger # "NONE"
      BY <1>1, <1>3, <1>8, Submitted
    <3>2. NewRow(r, g).req = r /\ NewRow(r, g).group = g BY DEF NewRow
    <3>3. \A j \in Known : j # i BY <3>1
    <3> QED BY <3>1, <3>2, <3>3
  <2>2. \A n \in DOMAIN agenda' :
          \/ agenda'[n].k \in {"accepted", "rejected", "canceled", "trade"}
          \/ /\ Len(agenda) = 2 /\ 2 \in DOMAIN agenda /\ agenda'[n] = agenda[2]
             /\ agenda[2].k \in {"second", "rollback"}
    BY <1>1, <1>3, <1>8, Submitted DEF EngineItem, Item, Trade
  <2>3. g # NoGroup => Coming(r, g) BY <1>3, <1>4, <1>5 DEF Guarded, SecondLegs
  <2>4. /\ \A j \in trigBook : orders[j].req.trigger # "NONE"
        /\ \A j, m \in Known :
             (orders[j].group # NoGroup /\ orders[j].group = orders[m].group
              /\ orders[j].req.trigger # "NONE" /\ orders[m].req.trigger # "NONE") => j = m
        /\ \A j \in Known : orders[j].group <= j
        /\ trigBook \subseteq Known
    BY <1>1 DEF Guarded, OneWatched, Base, Typed
  <2>5. OneWatched'
    <3>1. \A j \in trigBook' : orders'[j].req.trigger # "NONE" BY <2>1, <2>4
    <3>2. ASSUME NEW j \in Known', NEW m \in Known',
                 orders'[j].group # NoGroup, orders'[j].group = orders'[m].group,
                 orders'[j].req.trigger # "NONE", orders'[m].req.trigger # "NONE"
          PROVE  j = m
      <4>1. CASE j = i /\ m \in Known
        BY <2>1, <2>3, <3>2, <4>1 DEF Coming
      <4>2. CASE m = i /\ j \in Known
        BY <2>1, <2>3, <3>2, <4>2 DEF Coming
      <4>3. CASE j \in Known /\ m \in Known
        BY <2>1, <2>4, <3>2, <4>3
      <4> QED BY <2>1, <3>2, <4>1, <4>2, <4>3
    <3>3. g <= i
      <4>1. g = NoGroup \/ g = i \/ g \in Known BY <1>1, <1>3, <1>4, Submitting
      <4> QED BY <2>1, <4>1 DEF NoGroup
    <3>4. \A j \in Known' : orders'[j].group <= j BY <2>1, <2>4, <3>3
    <3> QED BY <3>1, <3>2, <3>4 DEF OneWatched
  <2>6. LoopTimed'
    <3>1. \A n \in DOMAIN agenda' : agenda'[n].k # "loop" BY <2>2
    <3> QED BY <2>1, <3>1 DEF Guarded, LoopTimed
  <2>7. ASSUME NEW n \in DOMAIN agenda', agenda'[n].k = "second",
               NEW j \in Known', orders'[j].group = agenda'[n].group
        PROVE  j = agenda'[n].group
               /\ (orders'[j].req.trigger = "NONE" \/ agenda'[n].req.trigger = "NONE")
    <3>1. 2 \in DOMAIN agenda /\ agenda'[n] = agenda[2] /\ agenda[2].k = "second" BY <2>2, <2>7
    <3>2. agenda[2].group = i BY <1>1, <1>3, <1>4, <3>1, Submitting
    <3>3. j \notin Known
      <4> SUFFICES ASSUME j \in Known PROVE FALSE OBVIOUS
      <4>1. orders[j].group = i /\ j < i /\ j \in Nat BY <2>1, <2>7, <3>1, <3>2
      <4>2. orders[j].group <= j BY <2>4
      <4> QED BY <2>1, <4>1, <4>2
    <3>4. j = i BY <2>1, <3>3
    <3>5. r.trigger = "NONE" \/ agenda[2].req.trigger = "NONE"
      BY <1>3, <1>4, <1>5, <3>1 DEF Guarded, SecondLegs
    <3> QED BY <2>1, <3>1, <3>2, <3>4, <3>5
  <2>8. \A n \in DOMAIN agenda' : agenda'[n].k \notin {"submit", "scan"} BY <2>2
  <2>9. SecondLegs'
    <3>1. ASSUME NEW n \in DOMAIN agenda' PROVE agenda'[1].k # "submit"
      <4>1. 1 \in DOMAIN agenda' BY <1>2 DEF Base, Typed
      <4> QED BY <2>8, <4>1
    <3> QED BY <2>7, <2>8, <3>1 DEF SecondLegs, Coming
  <2>10. ScanCurrent' BY <2>8 DEF ScanCurrent
  <2> QED BY <1>2, <2>1, <2>5, <2>6, <2>9, <2>10 DEF Guarded
<1> QED BY <1>7, <1>8

\* The second leg begins on its own, and finds the first.
LEMMA SecondAgenda ==
  ASSUME Base, SecondStep
  PROVE  /\ agenda # <<>> /\ work.k = "second" /\ work = agenda[1] /\ 1 \in DOMAIN agenda
         /\ Len(agenda) = 1 /\ DOMAIN agenda = {1} /\ work \in SecondItem
         /\ work.group \in Known /\ work.group \in OrderId
         /\ DOMAIN agenda' = {1, 2}
         /\ agenda'[1] = Submit(work.req, work.group) /\ agenda'[2] = Item("rollback", work.group)
         /\ UNCHANGED <<orders, oms, engine, pending, alive, lastTs>>
<1>1. /\ agenda # <<>> /\ work.k = "second"
      /\ UNCHANGED <<orders, oms, engine, pending, alive, lastTs>>
      /\ Continue(<<Submit(work.req, work.group), Item("rollback", work.group)>>)
  BY DEF SecondStep, Doing
<1>2. work \in SecondItem /\ work = agenda[1] /\ 1 \in DOMAIN agenda /\ DOMAIN agenda = 1..Len(agenda)
  BY <1>1, RunningOk, ItemFields
<1>3. Len(agenda) = 1 /\ work.group \in Known BY <1>1, <1>2 DEF Base, Shaped
<1>4. PICK s, b : s = Submit(work.req, work.group) /\ b = Item("rollback", work.group) OBVIOUS
<1>5. s \in WorkItem /\ b \in WorkItem /\ work.group \in OrderId
  BY <1>2, <1>4, ItemTypes, ItemKinds DEF SecondItem, Ids
<1>6. PICK items : items = <<s, b>> OBVIOUS
<1>7. items \in Seq(WorkItem) /\ Len(items) = 2 /\ DOMAIN items = {1, 2}
      /\ items[1] = s /\ items[2] = b
  BY <1>5, <1>6
<1>8. Continue(items) BY <1>1, <1>4, <1>6
<1>9. agenda' \in Seq(WorkItem) /\ Len(agenda') = Len(items) + Len(agenda) - 1
      /\ \A n \in DOMAIN items : agenda'[n] = items[n]
  BY <1>1, <1>7, <1>8, ContinueAgenda DEF Base, Typed
<1>10. Len(agenda') = 2 BY <1>3, <1>7, <1>9
<1>11. DOMAIN agenda' = {1, 2} BY <1>9, <1>10
<1>12. DOMAIN agenda = {1} BY <1>2, <1>3
<1> QED BY <1>1, <1>2, <1>3, <1>4, <1>5, <1>7, <1>9, <1>11, <1>12

LEMMA SecondGuarded ==
  ASSUME Guarded, SecondStep
  PROVE  Guarded'
<1>1. Base BY DEF Guarded
<1>2. Base' BY <1>1, SecondBase
<1>3. /\ work.k = "second" /\ work = agenda[1] /\ 1 \in DOMAIN agenda
      /\ DOMAIN agenda' = {1, 2}
      /\ agenda'[1] = Submit(work.req, work.group) /\ agenda'[2] = Item("rollback", work.group)
      /\ UNCHANGED <<orders, oms, engine, pending, alive, lastTs>>
  BY <1>1, SecondAgenda
<1>4. /\ agenda'[1].k = "submit" /\ agenda'[1].req = work.req /\ agenda'[1].group = work.group
      /\ agenda'[2].k = "rollback"
  BY <1>3 DEF Submit, Item
<1>5. RowsKept BY <1>1, <1>3, SameRows DEF Base
<1>6. OneWatched' BY <1>1, <1>3, <1>5, GroupsStay DEF Guarded, Base, Typed, oms
<1>7. Coming(work.req, work.group) BY <1>3 DEF Guarded, SecondLegs
<1>8. LoopTimed' BY <1>3, <1>4 DEF LoopTimed, Guarded
<1>9. SecondLegs' BY <1>3, <1>4, <1>5, <1>7 DEF SecondLegs, Coming, RowsKept
<1>10. ScanCurrent' BY <1>3, <1>4 DEF ScanCurrent
<1> QED BY <1>2, <1>3, <1>6, <1>8, <1>9, <1>10 DEF Guarded

\* The handlers start with nothing else to do.
LEMMA Started ==
  ASSUME Base, agenda = <<>>
  PROVE  /\ \A r \in Requests : SubmitOrder(r) =>
              /\ DOMAIN agenda' = {1} /\ agenda'[1] = Submit(r, NoGroup)
              /\ UNCHANGED <<orders, oms, engine, pending, alive, lastTs>>
         /\ \A legs \in OcoRequests : SubmitOco(legs) =>
              /\ DOMAIN agenda' = {1, 2} /\ agenda'[1] = Submit(legs[1], NextId)
              /\ agenda'[2] = Second(legs[2], NextId)
              /\ UNCHANGED <<orders, oms, engine, pending, alive, lastTs>>
         /\ \A i \in OrderId : CancelOrder(i) =>
              /\ DOMAIN agenda' = {1} /\ agenda'[1] = Item("cancel", i) /\ i \in Known
              /\ UNCHANGED <<orders, oms, engine, pending, alive, lastTs>>
         /\ Tick =>
              /\ DOMAIN agenda' = {1, 2} /\ agenda'[1] = pending[1] /\ agenda'[2] = Loop
              /\ UNCHANGED <<orders, oms, alive, lastTs>>
<1>1. ASSUME NEW a, agenda' = <<a>> PROVE DOMAIN agenda' = {1} /\ agenda'[1] = a
  BY <1>1
<1>2. ASSUME NEW a, NEW b, agenda' = <<a, b>>
      PROVE  DOMAIN agenda' = {1, 2} /\ agenda'[1] = a /\ agenda'[2] = b
  BY <1>2
<1>3. ASSUME NEW r \in Requests, SubmitOrder(r)
      PROVE  /\ DOMAIN agenda' = {1} /\ agenda'[1] = Submit(r, NoGroup)
             /\ UNCHANGED <<orders, oms, engine, pending, alive, lastTs>>
  BY <1>1, <1>3 DEF SubmitOrder
<1>4. ASSUME NEW legs \in OcoRequests, SubmitOco(legs)
      PROVE  /\ DOMAIN agenda' = {1, 2} /\ agenda'[1] = Submit(legs[1], NextId)
             /\ agenda'[2] = Second(legs[2], NextId)
             /\ UNCHANGED <<orders, oms, engine, pending, alive, lastTs>>
  BY <1>2, <1>4 DEF SubmitOco
<1>5. ASSUME NEW i \in OrderId, CancelOrder(i)
      PROVE  /\ DOMAIN agenda' = {1} /\ agenda'[1] = Item("cancel", i) /\ i \in Known
             /\ UNCHANGED <<orders, oms, engine, pending, alive, lastTs>>
  BY <1>1, <1>5 DEF CancelOrder
<1>6. ASSUME Tick
      PROVE  /\ DOMAIN agenda' = {1, 2} /\ agenda'[1] = pending[1] /\ agenda'[2] = Loop
             /\ UNCHANGED <<orders, oms, alive, lastTs>>
  BY <1>2, <1>6, TickPending DEF Tick
<1> QED BY <1>3, <1>4, <1>5, <1>6

\* A handler that starts brings no scan, and a loop only with what it keeps in time.
LEMMA StartedGuarded ==
  ASSUME Guarded, Base', UNCHANGED <<orders, oms, alive>>,
         \A n \in DOMAIN pending' : Timed(pending'[n]),
         \A n \in DOMAIN agenda' : agenda'[n].k # "scan",
         \A n \in DOMAIN agenda' : agenda'[n].k = "loop" =>
           \A m \in DOMAIN agenda' : Timed(agenda'[m]) /\ agenda'[m].k \notin {"submit", "cancel"},
         SecondLegs'
  PROVE  Guarded'
<1>1. LoopTimed' BY DEF LoopTimed
<1>2. RowsKept BY SameRows DEF Guarded, Base
<1>3. OneWatched' BY <1>2, GroupsStay DEF Guarded, Base, Typed, oms
<1>4. ScanCurrent' BY DEF ScanCurrent
<1> QED BY <1>1, <1>3, <1>4 DEF Guarded

LEMMA HandlerGuarded ==
  ASSUME OneTriggered, Guarded,
         \/ \E r \in Requests : SubmitOrder(r)
         \/ \E legs \in OcoRequests : SubmitOco(legs)
         \/ \E i \in OrderId : CancelOrder(i)
         \/ Tick
  PROVE  Guarded'
<1>1. Base /\ Base' BY BaseNext DEF Guarded, Next
<1>2. agenda = <<>> BY DEF SubmitOrder, SubmitOco, CancelOrder, Tick
<1>3. \A n \in DOMAIN pending : Timed(pending[n]) BY DEF Guarded, LoopTimed
<1>4. ASSUME NEW r \in Requests, SubmitOrder(r) PROVE Guarded'
  <2>1. PICK w : w = Submit(r, NoGroup) OBVIOUS
  <2>2. w.k = "submit" /\ w.group = NoGroup BY <2>1 DEF Submit
  <2>3. /\ DOMAIN agenda' = {1} /\ agenda'[1] = w
        /\ UNCHANGED <<orders, oms, engine, pending, alive, lastTs>>
    BY <1>1, <1>2, <1>4, <2>1, Started
  <2>4. SecondLegs' BY <2>2, <2>3 DEF SecondLegs
  <2> QED BY <1>1, <1>3, <2>2, <2>3, <2>4, StartedGuarded
<1>5. ASSUME NEW legs \in OcoRequests, SubmitOco(legs) PROVE Guarded'
  <2>1. PICK w, v : w = Submit(legs[1], NextId) /\ v = Second(legs[2], NextId) OBVIOUS
  <2>2. /\ w.k = "submit" /\ w.group = NextId /\ w.req = legs[1]
        /\ v.k = "second" /\ v.group = NextId /\ v.req = legs[2]
    BY <2>1 DEF Submit, Second
  <2>3. /\ DOMAIN agenda' = {1, 2} /\ agenda'[1] = w /\ agenda'[2] = v
        /\ UNCHANGED <<orders, oms, engine, pending, alive, lastTs>>
    BY <1>1, <1>2, <1>5, <2>1, Started
  <2>4. ASSUME NEW j \in Known', orders'[j].group = NextId PROVE FALSE
    <3>1. j \in Known /\ orders[j].group = NextId BY <2>3, <2>4 DEF Known
    <3>2. j \in 1..(NextId - 1) /\ NextId \in Nat BY <1>1, <3>1 DEF Base, Numbered
    <3>3. orders[j].group <= j BY <3>1 DEF Guarded, OneWatched
    <3> QED BY <3>1, <3>2, <3>3
  <2>5. w.req.trigger = "NONE" \/ v.req.trigger = "NONE" BY <2>2 DEF OneTriggered
  <2>6. SecondLegs' BY <2>2, <2>3, <2>4, <2>5 DEF SecondLegs, Coming
  <2> QED BY <1>1, <1>3, <2>2, <2>3, <2>6, StartedGuarded
<1>6. ASSUME NEW i \in OrderId, CancelOrder(i) PROVE Guarded'
  <2>1. PICK w : w = Item("cancel", i) OBVIOUS
  <2>2. w.k = "cancel" BY <2>1 DEF Item
  <2>3. /\ DOMAIN agenda' = {1} /\ agenda'[1] = w
        /\ UNCHANGED <<orders, oms, engine, pending, alive, lastTs>>
    BY <1>1, <1>2, <1>6, <2>1, Started
  <2>4. SecondLegs' BY <2>2, <2>3 DEF SecondLegs
  <2> QED BY <1>1, <1>3, <2>2, <2>3, <2>4, StartedGuarded
<1>7. CASE Tick
  <2>1. /\ DOMAIN agenda' = {1, 2} /\ agenda'[1] = pending[1] /\ agenda'[2] = Loop
        /\ UNCHANGED <<orders, oms, alive, lastTs>>
    BY <1>1, <1>2, <1>7, Started
  <2>2. PICK w : w = pending[1] OBVIOUS
  <2>3. w.k \in {"trade", "quiet"} /\ Timed(w)
    <3>1. 1 \in DOMAIN pending /\ w \in QueueItem BY <1>1, <1>7, <2>2, TickPending
    <3> QED BY <1>3, <2>2, <3>1 DEF QueueItem, TradeItem, Quiet
  <2>4. Loop.k = "loop" /\ Timed(Loop) BY DEF Loop, Timed
  <2>5. \A n \in DOMAIN pending' : Timed(pending'[n])
    BY <1>1, <1>3, <1>7, TickPending, AgentEvents
  <2>6. SecondLegs' BY <2>1, <2>2, <2>3, <2>4 DEF SecondLegs
  <2> QED BY <1>1, <2>1, <2>2, <2>3, <2>4, <2>5, <2>6, StartedGuarded
<1> QED BY <1>4, <1>5, <1>6, <1>7

LEMMA GuardedNext ==
  ASSUME OneTriggered, Guarded, [Next]_vars
  PROVE  Guarded'
<1>1. CASE Work /\ ~SubmitStep /\ ~SecondStep BY <1>1, WorkGuarded
<1>2. CASE SubmitStep \/ SecondStep BY <1>2, SubmitGuarded, SecondGuarded
<1>3. CASE ~Work /\ Next BY <1>3, HandlerGuarded DEF Next
<1>4. CASE UNCHANGED vars
  <2>1. Base' BY <1>4, BaseNext DEF Guarded
  <2> QED BY <1>4, <2>1 DEF vars, oms, engine, Guarded, LoopTimed, OneWatched, SecondLegs, Coming,
          ScanCurrent, Known
<1> QED BY <1>1, <1>2, <1>3, <1>4

LEMMA GuardedInit ==
  ASSUME Init
  PROVE  Guarded
<1>1. Base BY BaseInit
<1>2. /\ trigBook = {} /\ pending = <<Quiet>> /\ agenda = <<>> /\ alive = TRUE
      /\ \A i \in OrderId : orders[i].status = "NONE"
  BY DEF Init
<1>3. Known = {} /\ DOMAIN agenda = {} BY <1>2 DEF Known
<1>4. LoopTimed
  <2>1. Timed(Quiet) BY DEF Timed, Quiet
  <2> QED BY <1>2, <1>3, <2>1 DEF LoopTimed
<1> QED BY <1>1, <1>2, <1>3, <1>4 DEF Guarded, OneWatched, SecondLegs, ScanCurrent

\* What keeps every exception away from the simulation loop: of an OCO group at most one
\* order is watched, a scan deletes only what it finds, and times of trades do not fall.
THEOREM GuardedInvariant == OneTriggered /\ Spec => []Guarded
<1> SUFFICES ASSUME OneTriggered PROVE Spec => []Guarded OBVIOUS
<1>1. Init => Guarded BY GuardedInit
<1>2. Guarded /\ [Next]_vars => Guarded' BY GuardedNext
<1> QED BY <1>1, <1>2, PTL DEF Spec

\* As long as no pair of requests waits for the price with both its legs, the simulation
\* loop survives whatever is submitted, cancelled and traded: no scan deletes an order
\* that an earlier one of its group took out (KeyError), and no candle is refused.
THEOREM LoopNeverDies == OneTriggered /\ Spec => []LoopSurvives
<1>1. Guarded => LoopSurvives BY DEF Guarded, LoopSurvives
<1> QED BY <1>1, GuardedInvariant, PTL
=============================================================================
