------------------------- MODULE OrderBookingProofs -------------------------
(***************************************************************************)
(* Proofs about the bookkeeping of user orders, when no order trades in    *)
(* the call that submits it: the trigger book watches what the portfolio   *)
(* calls untriggered, every fill is booked once or on its way, and an OCO  *)
(* submission that fails half-way leaves nothing (Orderly).  Of an OCO     *)
(* group, an order that triggers or fills leaves no other (Exclusive).     *)
(***************************************************************************)
EXTENDS OrderManagementProofs

-----------------------------------------------------------------------------
(* No order trades when it is submitted. *)

Requested == Requests \cup UNION {{legs[1], legs[2]} : legs \in OcoRequests}
NothingAtOnce == \A r \in Requested : r.trigger # "NONE" \/ r.exec = "passive"

\* Orders an item is going to activate, or to cancel for their group.
Acts(w) ==
  IF w.k = "activate" THEN {w.id}
  ELSE IF w.k = "scan" THEN {w.fired[n] : n \in DOMAIN w.fired} ELSE {}
Drops(w) ==
  IF w.k = "peers" THEN w.ids ELSE IF w.k = "scan" THEN w.gone ELSE {}

Quietly(r) == r.trigger # "NONE" \/ r.exec = "passive"
Waits == {i \in Known : orders[i].status = "UNTRIGGERED"}
Loose == {i \in OrderId : groupOf[i] = NoGroup}
Calm ==
  /\ \A i \in Known : Quietly(orders[i].req)
  /\ \A n \in DOMAIN agenda :
       /\ agenda[n].k \in {"submit", "second"} => Quietly(agenda[n].req)
       /\ Timed(agenda[n])

\* An order that waits has not traded and does not rest; the trigger book holds it, or
\* it is about to be activated or cancelled.
Watched ==
  /\ \A i \in Waits :
       /\ orders[i].req.trigger # "NONE"
       /\ executed[i] = 0 /\ resting[i] = 0
       /\ i \in trigBook \/ \E n \in DOMAIN agenda : i \in Acts(agenda[n]) \cup Drops(agenda[n])
  /\ \A i \in trigBook :
       /\ i \in Waits /\ groupOf[i] = orders[i].group
       /\ \/ orders[i].shown = watch[i].stop
          \/ \E n \in DOMAIN agenda : agenda[n].k = "scan" /\ i \in agenda[n].moved

\* What an item still does to an order's status fits the status it has.
OwesTo(w, waits, loose, book) ==
  /\ Acts(w) \subseteq waits \cap loose
  /\ (Acts(w) \cup Drops(w)) \cap book = {}
  /\ w.k \in {"accepted", "rejected", "canceled", "leg"} => w.id \notin waits
  /\ w.k = "trade" => w.buy \notin waits /\ w.sell \notin waits
  /\ w.k = "scan" => \A m, n \in DOMAIN w.fired : m # n => w.fired[m] # w.fired[n]
Owes(w) == OwesTo(w, Waits, Loose, trigBook)
Owed ==
  /\ \A n \in DOMAIN agenda : Owes(agenda[n])
  /\ \A n \in DOMAIN pending : Owes(pending[n])
  /\ \A m, n \in DOMAIN agenda :
       /\ m # n => Acts(agenda[m]) \cap Acts(agenda[n]) = {}
       /\ Acts(agenda[m]) \cap Drops(agenda[n]) = {}

Booking ==
  \A i \in OrderId :
    /\ executed[i] = orders[i].filled + Unbooked(i)
    /\ i \in Known => executed[i] + resting[i] <= orders[i].req.qty
    /\ i \notin Known => executed[i] = 0 /\ resting[i] = 0

\* A first leg whose second leg was not recorded.
Lone(i) == orders[i].group = i /\ \A j \in Known \ {i} : orders[j].group # i
Undone ==
  /\ \A n \in DOMAIN agenda :
       agenda[n].k = "second" => n = 1 \/ (n = 2 /\ agenda[1].k \in {"submit", "accepted"})
  /\ \A i \in Known : Lone(i) =>
       /\ executed[i] = 0
       /\ \/ \E n \in DOMAIN agenda :
               /\ \/ agenda[n].k = "second" /\ agenda[n].group = i
                  \/ agenda[n].k = "rollback" /\ agenda[n].id = i /\ agenda[1].k = "submit"
                  \/ agenda[n].k = "cancel" /\ agenda[n].id = i
               /\ orders[i].status \in {"PENDING", "OPEN", "UNTRIGGERED"}
          \/ /\ resting[i] = 0 /\ i \notin trigBook
             /\ \A n \in DOMAIN agenda : i \notin Acts(agenda[n])

Orderly == Guarded /\ Calm /\ Watched /\ Owed /\ Booking /\ Undone

-----------------------------------------------------------------------------
(* The quantity in a sequence of items. *)

LEMMA TradedConcat ==
  ASSUME NEW a \in Seq(WorkItem), NEW b \in Seq(WorkItem), NEW i
  PROVE  Traded(a \o b, i) = Traded(a, i) + Traded(b, i)
<1> DEFINE f == [n \in DOMAIN a |-> Part(a[n], i)]
           g == [n \in DOMAIN b |-> Part(b[n], i)]
           h == [n \in DOMAIN (a \o b) |-> Part((a \o b)[n], i)]
<1>1. PICK m \in Nat, l \in Nat : m = Len(a) /\ l = Len(b) OBVIOUS
<1>2. DOMAIN a = 1..m /\ DOMAIN b = 1..l /\ DOMAIN (a \o b) = 1..(m + l)
  BY <1>1, ConcatElements
<1>3. \A k \in 1..m : (a \o b)[k] = a[k] BY <1>1, <1>2
<1>4. \A k \in 1..l : m + k \in 1..(m + l) /\ (a \o b)[m + k] = b[k]
  <2> SUFFICES ASSUME NEW k \in 1..l
               PROVE  m + k \in 1..(m + l) /\ (a \o b)[m + k] = b[k]
    OBVIOUS
  <2>1. PICK j : j = m + k OBVIOUS
  <2>2. j \in 1..(m + l) /\ j \notin 1..m /\ j - m = k BY <1>1, <2>1
  <2>3. (a \o b)[j] = b[j - m] BY <1>1, <1>2, <2>2, ConcatElements
  <2> QED BY <2>1, <2>2, <2>3
<1>5. \A k \in 1..m : h[k] = f[k] /\ f[k] \in Int
  <2> SUFFICES ASSUME NEW k \in 1..m PROVE h[k] = f[k] /\ f[k] \in Int OBVIOUS
  <2>1. k \in DOMAIN a /\ k \in DOMAIN (a \o b) BY <1>1, <1>2
  <2>2. a[k] \in WorkItem BY <2>1
  <2>3. Part(a[k], i) \in Nat BY <2>2, PartType
  <2> QED BY <1>3, <2>1, <2>3
<1>6. \A k \in 1..l : h[m + k] = g[k] /\ g[k] \in Int
  <2> SUFFICES ASSUME NEW k \in 1..l PROVE h[m + k] = g[k] /\ g[k] \in Int OBVIOUS
  <2>1. k \in DOMAIN b /\ m + k \in DOMAIN (a \o b) BY <1>2, <1>4
  <2>2. b[k] \in WorkItem BY <2>1
  <2>3. Part(b[k], i) \in Nat BY <2>2, PartType
  <2> QED BY <1>4, <2>1, <2>3
<1>7. SumFunctionOnSet(h, 1..(m + l)) = SumFunctionOnSet(f, 1..m) + SumFunctionOnSet(g, 1..l)
  <2> HIDE DEF f, g, h
  <2>1. Joins(h, f, g, m, l) BY <1>5, <1>6 DEF Joins, Continues
  <2> QED BY <2>1, SumConcat
<1>8. /\ Traded(a, i) = SumFunctionOnSet(f, 1..m) /\ Traded(b, i) = SumFunctionOnSet(g, 1..l)
      /\ Traded(a \o b, i) = SumFunctionOnSet(h, 1..(m + l))
  BY <1>2 DEF Traded, SumFunction
<1> QED BY <1>7, <1>8

LEMMA TradedNone ==
  ASSUME NEW items \in Seq(WorkItem), NEW i, \A n \in DOMAIN items : Part(items[n], i) = 0
  PROVE  Traded(items, i) = 0
<1> DEFINE f == [n \in DOMAIN items |-> Part(items[n], i)]
<1>1. DOMAIN items = 1..Len(items) /\ Len(items) \in Nat OBVIOUS
<1>2. IsFiniteSet(DOMAIN items) BY <1>1, FS_Interval
<1>3. \A n \in DOMAIN items : f[n] = 0 OBVIOUS
<1>4. SumFunctionOnSet(f, DOMAIN items) = 0
  <2> HIDE DEF f
  <2> QED BY <1>2, <1>3, SumZero
<1> QED BY <1>4 DEF Traded, SumFunction

LEMMA TradedOne ==
  ASSUME NEW w \in WorkItem, NEW i
  PROVE  Traded(<<w>>, i) = Part(w, i)
<1>1. PICK s : s = <<w>> OBVIOUS
<1>2. DOMAIN s = {1} /\ s[1] = w BY <1>1
<1> DEFINE f == [n \in DOMAIN s |-> Part(s[n], i)]
<1>3. f[1] = Part(w, i) BY <1>2
<1>4. Part(w, i) \in Int BY PartType
<1>5. IsFiniteSet(DOMAIN s) /\ 1 \in DOMAIN s /\ \A n \in DOMAIN s : n = 1 BY <1>2, FS_Singleton
<1>6. SumFunctionOnSet(f, DOMAIN s) = f[1]
  <2> HIDE DEF f
  <2> QED BY <1>3, <1>4, <1>5, SumOne
<1> QED BY <1>1, <1>3, <1>6 DEF Traded, SumFunction

\* A step moves quantity from the running item to what it pushes.
LEMMA TradedContinue ==
  ASSUME agenda \in Seq(WorkItem), agenda # <<>>, NEW items \in Seq(WorkItem), Continue(items), NEW i
  PROVE  /\ Traded(agenda', i) + Part(work, i) = Traded(agenda, i) + Traded(items, i)
         /\ {Traded(agenda', i), Traded(agenda, i), Traded(items, i), Part(work, i)} \subseteq Nat
<1>1. work \in WorkItem BY Running
<1>2. PICK t, w, s, a : t = Tail(agenda) /\ w = work /\ s = <<w>> /\ a = agenda OBVIOUS
<1>3. t \in Seq(WorkItem) /\ agenda = s \o t /\ agenda' = items \o t /\ s \in Seq(WorkItem)
  BY <1>1, <1>2 DEF work, Continue
<1>4. Traded(s, i) = Part(work, i) BY <1>1, <1>2, TradedOne
<1>5. Traded(agenda, i) = Part(work, i) + Traded(t, i)
  <2>1. Traded(s \o t, i) = Traded(s, i) + Traded(t, i) BY <1>3, TradedConcat
  <2> QED BY <1>3, <1>4, <2>1
<1>6. Traded(agenda', i) = Traded(items, i) + Traded(t, i) BY <1>3, TradedConcat
<1>7. Traded(t, i) \in Nat /\ Traded(items, i) \in Nat /\ Part(work, i) \in Nat
  BY <1>1, <1>3, TradedType, PartType
<1> QED BY <1>5, <1>6, <1>7

\* What an engine call trades is what its events carry.
EngineOutput(i, r, fills, rests, left, ts) ==
  <<Item("accepted", i)>> \o [n \in DOMAIN fills |-> FillEvent(i, r, fills[n], ts)]
  \o Remainder(i, rests, left)

LEMMA EngineTraded ==
  ASSUME NEW i \in OrderId, NEW r, NEW fills \in Fills(i, r), NEW rests \in BOOLEAN, NEW left,
         NEW ts \in Times, NEW m \in OrderId, resting \in [OrderId -> Nat],
         orders[i].req = r, NEW items, items = EngineOutput(i, r, fills, rests, left, ts)
  PROVE  Traded(items, m) = IF m = i THEN Amount(fills) ELSE TradedBy(fills, m)
<1> DEFINE middle == [n \in DOMAIN fills |-> FillEvent(i, r, fills[n], ts)]
<1>1. PICK a, c : a = <<Item("accepted", i)>> /\ c = Remainder(i, rests, left) OBVIOUS
<1>2. {Item("accepted", i), Item("canceled", i)} \subseteq WorkItem BY ItemTypes, ItemKinds
<1>3. \A k : Part(Item("accepted", k), m) = 0 /\ Part(Item("canceled", k), m) = 0
  BY DEF Part, Item
<1>4. a \in Seq(WorkItem) /\ Traded(a, m) = 0
  <2>1. a \in Seq(WorkItem) BY <1>1, <1>2
  <2> QED BY <1>1, <1>2, <1>3, <2>1, TradedOne
<1>5. c \in Seq(WorkItem) /\ Traded(c, m) = 0
  <2>1. CASE c = <<>>
    <3>1. c \in Seq(WorkItem) /\ DOMAIN c = {} BY <2>1
    <3> QED BY <3>1, TradedNone
  <2>2. CASE c = <<Item("canceled", i)>>
    <3>1. c \in Seq(WorkItem) BY <1>2, <2>2
    <3> QED BY <1>2, <1>3, <2>2, <3>1, TradedOne
  <2> QED BY <1>1, <2>1, <2>2 DEF Remainder
<1>6. ASSUME NEW n \in DOMAIN fills
      PROVE  /\ middle[n] \in WorkItem
             /\ Part(middle[n], m) = IF m = i \/ fills[n].maker = m THEN fills[n].qty ELSE 0
  <2>1. PICK f : f = fills[n] OBVIOUS
  <2>2. /\ f.maker \in Ids /\ f.qty \in Nat /\ f.price \in Prices
        /\ f.maker = NoOrder => f.qty > 0
        /\ f.maker # NoOrder => orders[f.maker].req.side # r.side
    BY <2>1, FillsAre
  <2>3. f.maker # i /\ m # NoOrder /\ i \in Ids BY <2>2, Numbers DEF Ids
  <2>4. CASE f.qty = 0
    <3>1. f.maker \in OrderId BY <2>2, <2>4 DEF Ids
    <3>2. Item("canceled", f.maker) \in WorkItem BY <3>1, ItemTypes, ItemKinds
    <3> QED BY <1>3, <2>1, <2>4, <3>2 DEF FillEvent
  <2>5. CASE f.qty # 0
    <3>1. PICK w : w = FillEvent(i, r, f, ts) OBVIOUS
    <3>2. w = Trade(i, f.maker, f.qty, f.price, ts) \/ w = Trade(f.maker, i, f.qty, f.price, ts)
      BY <2>5, <3>1 DEF FillEvent
    <3>3. w \in WorkItem BY <2>2, <2>3, <3>2, ItemTypes, ItemKinds
    <3>4. Part(w, m) = IF m = i \/ f.maker = m THEN f.qty ELSE 0
      BY <2>2, <2>3, <3>2 DEF Part, Trade
    <3> QED BY <2>1, <3>1, <3>3, <3>4
  <2> QED BY <2>4, <2>5
<1>7. middle \in Seq(WorkItem) /\ DOMAIN middle = DOMAIN fills
  <2>1. DOMAIN fills = 1..Len(fills) /\ Len(fills) \in Nat BY FillsAre
  <2> QED BY <1>6, <2>1
<1>8. Traded(middle, m) = IF m = i THEN Amount(fills) ELSE TradedBy(fills, m)
  <2> DEFINE f == [n \in DOMAIN middle |-> Part(middle[n], m)]
             q == [n \in DOMAIN fills |-> fills[n].qty]
  <2>1. IsFiniteSet(DOMAIN fills) /\ DOMAIN f = DOMAIN fills /\ \A n \in DOMAIN fills : fills[n].qty \in Nat
    BY <1>7, FillsAre
  <2>2. \A n \in DOMAIN fills : f[n] = IF m = i \/ fills[n].maker = m THEN fills[n].qty ELSE 0
    BY <1>6, <1>7
  <2>3. Traded(middle, m) = SumFunctionOnSet(f, DOMAIN fills)
    BY <1>7, <2>1 DEF Traded, SumFunction
  <2>4. CASE m = i
    <3>1. \A n \in DOMAIN fills : f[n] = q[n] BY <2>2, <2>4
    <3>2. SumFunctionOnSet(f, DOMAIN fills) = SumFunctionOnSet(q, DOMAIN fills)
      <4> HIDE DEF f, q
      <4> QED BY <2>1, <3>1, SumSame
    <3> QED BY <2>3, <2>4, <3>2 DEF Amount, SumFunction
  <2>5. CASE m # i /\ \E n \in DOMAIN fills : fills[n].maker = m
    <3>1. PICK n \in DOMAIN fills : fills[n].maker = m BY <2>5
    <3>2. m # NoOrder BY Numbers
    <3>3. \A o \in DOMAIN fills : o # n => fills[o].maker # m BY <3>1, <3>2, FillsAre
    <3>4. f[n] = fills[n].qty /\ f[n] \in Int /\ \A o \in DOMAIN fills : o # n => f[o] = 0
      <4> HIDE DEF f
      <4>1. \A o \in DOMAIN fills : o # n => f[o] = 0 BY <2>2, <2>5, <3>3
      <4>2. f[n] = fills[n].qty BY <2>2, <3>1
      <4>3. fills[n].qty \in Int BY <2>1
      <4> QED BY <4>1, <4>2, <4>3
    <3>5. SumFunctionOnSet(f, DOMAIN fills) = f[n]
      <4> HIDE DEF f
      <4> QED BY <2>1, <3>4, SumOne
    <3>6. TradedBy(fills, m) = fills[n].qty BY <3>1, MakersFill
    <3> QED BY <2>3, <2>5, <3>4, <3>5, <3>6
  <2>6. CASE m # i /\ ~ \E n \in DOMAIN fills : fills[n].maker = m
    <3>1. \A n \in DOMAIN fills : f[n] = 0 BY <2>2, <2>6
    <3>2. SumFunctionOnSet(f, DOMAIN fills) = 0
      <4> HIDE DEF f
      <4> QED BY <2>1, <3>1, SumZero
    <3>3. TradedBy(fills, m) = 0 BY <2>6, MakersFill
    <3> QED BY <2>3, <2>6, <3>2, <3>3
  <2> QED BY <2>4, <2>5, <2>6
<1> HIDE DEF middle
<1>9. items = a \o middle \o c BY <1>1 DEF middle, EngineOutput
<1>10. a \o middle \in Seq(WorkItem) BY <1>4, <1>7, ConcatIn
<1>11. Traded(items, m) = Traded(a \o middle, m) + Traded(c, m) BY <1>5, <1>9, <1>10, TradedConcat
<1>12. Traded(a \o middle, m) = Traded(a, m) + Traded(middle, m) BY <1>4, <1>7, TradedConcat
<1>13. Traded(middle, m) \in Nat BY <1>7, TradedType
<1> QED BY <1>4, <1>5, <1>8, <1>11, <1>12, <1>13

-----------------------------------------------------------------------------
(* What a step of a handler has to do for Orderly to stay. *)

\* A step takes orders from those that wait only if the running item was to activate or
\* drop them.
Narrowed ==
  /\ Waits' \subseteq Waits /\ Waits \subseteq Waits' \cup Acts(work) \cup Drops(work)
  /\ Loose \subseteq Loose' /\ trigBook' \subseteq trigBook

\* What a step pushes fits the statuses it leaves.
Fitting(items) ==
  /\ \A n \in DOMAIN items :
       /\ OwesTo(items[n], Waits', Loose', trigBook')
       /\ Acts(items[n]) \subseteq Acts(work) \cup trigBook
       /\ Drops(items[n]) \cap Waits \cap Loose \subseteq Drops(work) \cup trigBook
  /\ \A m, n \in DOMAIN items :
       /\ m # n => Acts(items[m]) \cap Acts(items[n]) = {}
       /\ Acts(items[m]) \cap Drops(items[n]) = {}

LEMMA StillOwes ==
  ASSUME Narrowed, NEW w, Owes(w), Acts(w) \cap (Acts(work) \cup Drops(work)) = {}
  PROVE  OwesTo(w, Waits', Loose', trigBook')
<1>1. Acts(w) \subseteq Waits' \cap Loose' BY DEF Narrowed, Owes, OwesTo
<1>2. (Acts(w) \cup Drops(w)) \cap trigBook' = {} BY DEF Narrowed, Owes, OwesTo
<1>3. Waits' \subseteq Waits BY DEF Narrowed
<1> QED BY <1>1, <1>2, <1>3 DEF Owes, OwesTo

LEMMA OwedKept ==
  ASSUME Base, Owed, Narrowed, agenda # <<>>, UNCHANGED pending,
         NEW items \in Seq(WorkItem), Continue(items), Fitting(items)
  PROVE  Owed'
<1>1. work = agenda[1] /\ 1 \in DOMAIN agenda BY RunningOk
<1>2. \A n \in DOMAIN agenda' :
        \/ n \in DOMAIN items /\ agenda'[n] = items[n]
        \/ /\ n \notin DOMAIN items
           /\ n - Len(items) + 1 \in DOMAIN agenda /\ n - Len(items) + 1 > 1
           /\ agenda'[n] = agenda[n - Len(items) + 1]
  <2>1. DOMAIN items = 1..Len(items) /\ Len(items) \in Nat OBVIOUS
  <2>2. \A n \in DOMAIN agenda' :
           \/ n \in DOMAIN items /\ agenda'[n] = items[n]
           \/ /\ n > Len(items)
              /\ n - Len(items) + 1 \in DOMAIN agenda /\ n - Len(items) + 1 > 1
              /\ agenda'[n] = agenda[n - Len(items) + 1]
    BY ContinueAgenda DEF Base, Typed
  <2>3. \A n \in Int : n > Len(items) => n \notin DOMAIN items BY <2>1
  <2>4. DOMAIN agenda' \subseteq Int
    <3>1. agenda' \in Seq(WorkItem) BY ContinueAgenda DEF Base, Typed
    <3> QED BY <3>1
  <2> QED BY <2>2, <2>3, <2>4
<1>3. ASSUME NEW m \in DOMAIN agenda, m # 1
      PROVE  /\ Acts(agenda[m]) \cap (Acts(work) \cup Drops(work)) = {}
             /\ Acts(work) \cap Drops(agenda[m]) = {}
             /\ Owes(agenda[m])
             /\ OwesTo(agenda[m], Waits', Loose', trigBook')
  <2>1. /\ Acts(agenda[m]) \cap (Acts(work) \cup Drops(work)) = {}
        /\ Acts(work) \cap Drops(agenda[m]) = {} /\ Owes(agenda[m])
    BY <1>1, <1>3 DEF Owed
  <2> QED BY <2>1, StillOwes
<1>4. ASSUME NEW n \in DOMAIN agenda' PROVE OwesTo(agenda'[n], Waits', Loose', trigBook')
  BY <1>2, <1>3 DEF Fitting
<1>5. ASSUME NEW n \in DOMAIN pending' PROVE OwesTo(pending'[n], Waits', Loose', trigBook')
  <2>1. PICK w : w = pending[n] OBVIOUS
  <2>2. w.k \in {"trade", "quiet"} /\ Owes(w)
    <3>1. w \in TradeItem \/ w = Quiet BY <2>1 DEF Base, Typed, QueueItem
    <3>2. Owes(w) BY <2>1 DEF Owed
    <3> QED BY <3>1, <3>2 DEF TradeItem, Quiet
  <2>3. Acts(w) = {} BY <2>2 DEF Acts
  <2> QED BY <2>1, <2>2, <2>3, StillOwes
<1>6. ASSUME NEW m \in DOMAIN agenda, m # 1, NEW n \in DOMAIN items
      PROVE  /\ Acts(agenda[m]) \cap Acts(items[n]) = {}
             /\ Acts(agenda[m]) \cap Drops(items[n]) = {}
             /\ Acts(items[n]) \cap Drops(agenda[m]) = {}
  <2>1. /\ Acts(agenda[m]) \subseteq Waits \cap Loose
        /\ (Acts(agenda[m]) \cup Drops(agenda[m])) \cap trigBook = {}
    BY <1>3, <1>6 DEF Owes, OwesTo
  <2>2. /\ Acts(items[n]) \subseteq Acts(work) \cup trigBook
        /\ Drops(items[n]) \cap Waits \cap Loose \subseteq Drops(work) \cup trigBook
    BY DEF Fitting
  <2> QED BY <1>3, <1>6, <2>1, <2>2
<1>7. ASSUME NEW m \in DOMAIN agenda', NEW n \in DOMAIN agenda'
      PROVE  /\ m # n => Acts(agenda'[m]) \cap Acts(agenda'[n]) = {}
             /\ Acts(agenda'[m]) \cap Drops(agenda'[n]) = {}
  <2>1. CASE m \in DOMAIN items /\ n \in DOMAIN items BY <1>2, <2>1 DEF Fitting
  <2>2. CASE m \in DOMAIN items /\ n \notin DOMAIN items
    <3>1. PICK b \in DOMAIN agenda : b # 1 /\ agenda'[n] = agenda[b] BY <1>2, <2>2
    <3> QED BY <1>2, <1>6, <2>2, <3>1
  <2>3. CASE m \notin DOMAIN items /\ n \in DOMAIN items
    <3>1. PICK b \in DOMAIN agenda : b # 1 /\ agenda'[m] = agenda[b] BY <1>2, <2>3
    <3> QED BY <1>2, <1>6, <2>3, <3>1
  <2>4. CASE m \notin DOMAIN items /\ n \notin DOMAIN items
    <3>1. PICK a \in DOMAIN agenda : a = m - Len(items) + 1 /\ a # 1 /\ agenda'[m] = agenda[a]
      BY <1>2, <2>4
    <3>2. PICK b \in DOMAIN agenda : b = n - Len(items) + 1 /\ b # 1 /\ agenda'[n] = agenda[b]
      BY <1>2, <2>4
    <3>3. m # n => a # b
      <4>1. m \in Int /\ n \in Int /\ Len(items) \in Int
        BY ContinueAgenda DEF Base, Typed
      <4> QED BY <3>1, <3>2, <4>1
    <3> QED BY <3>1, <3>2, <3>3 DEF Owed
  <2> QED BY <2>1, <2>2, <2>3, <2>4
<1> QED BY <1>4, <1>5, <1>7 DEF Owed, Owes

\* An order that waits still has not traded, and is still watched or about to be acted on.
WatchOk(items) ==
  /\ \A i \in Waits' : executed'[i] = executed[i] /\ resting'[i] = resting[i]
  /\ \A i \in Waits' : i \in trigBook \cup Acts(work) \cup Drops(work) =>
       i \in trigBook' \/ \E n \in DOMAIN items : i \in Acts(items[n]) \cup Drops(items[n])
  /\ \A i \in trigBook' :
       /\ groupOf'[i] = groupOf[i]
       /\ \/ orders'[i].shown = watch'[i].stop
          \/ \E n \in DOMAIN items : items[n].k = "scan" /\ i \in items[n].moved

LEMMA WatchedKept ==
  ASSUME Base, Watched, Owed, RowsKept, Narrowed, agenda # <<>>,
         NEW items \in Seq(WorkItem), Continue(items), WatchOk(items)
  PROVE  Watched'
<1>1. work = agenda[1] /\ 1 \in DOMAIN agenda /\ DOMAIN agenda \subseteq Nat BY RunningOk
<1>2. /\ \A n \in DOMAIN items : n \in DOMAIN agenda' /\ agenda'[n] = items[n]
      /\ \A m \in DOMAIN agenda : m > 1 =>
           /\ m + Len(items) - 1 \in DOMAIN agenda'
           /\ agenda'[m + Len(items) - 1] = agenda[m]
  BY ContinueAgenda DEF Base, Typed
<1>3. ASSUME NEW m \in DOMAIN agenda, m # 1
      PROVE  \E n \in DOMAIN agenda' : agenda'[n] = agenda[m]
  <2>1. m > 1
    <3>1. DOMAIN agenda = 1..Len(agenda) /\ Len(agenda) \in Nat BY RunningOk
    <3> QED BY <1>3, <3>1
  <2> QED BY <1>2, <2>1
<1>4. ASSUME NEW i \in Waits'
      PROVE  /\ orders'[i].req.trigger # "NONE"
             /\ executed'[i] = 0 /\ resting'[i] = 0
             /\ i \in trigBook' \/ \E n \in DOMAIN agenda' : i \in Acts(agenda'[n]) \cup Drops(agenda'[n])
  <2>1. i \in Waits BY DEF Narrowed
  <2>2. /\ orders[i].req.trigger # "NONE" /\ executed[i] = 0 /\ resting[i] = 0
        /\ i \in trigBook \/ \E n \in DOMAIN agenda : i \in Acts(agenda[n]) \cup Drops(agenda[n])
    BY <2>1 DEF Watched
  <2>3. orders'[i].req = orders[i].req BY <2>1 DEF RowsKept, Waits, Known
  <2>4. CASE i \in trigBook \cup Acts(work) \cup Drops(work)
    <3>1. i \in trigBook' \/ \E n \in DOMAIN items : i \in Acts(items[n]) \cup Drops(items[n])
      BY <2>4 DEF WatchOk
    <3>2. i \in trigBook' \/ \E n \in DOMAIN agenda' : i \in Acts(agenda'[n]) \cup Drops(agenda'[n])
      BY <1>2, <3>1
    <3> QED BY <2>2, <2>3, <3>2 DEF WatchOk
  <2>5. CASE i \notin trigBook \cup Acts(work) \cup Drops(work)
    <3>1. PICK m \in DOMAIN agenda : i \in Acts(agenda[m]) \cup Drops(agenda[m]) BY <2>2, <2>5
    <3>2. m # 1 BY <1>1, <2>5, <3>1
    <3>3. PICK n \in DOMAIN agenda' : agenda'[n] = agenda[m] BY <1>3, <3>2
    <3> QED BY <2>2, <2>3, <3>1, <3>3 DEF WatchOk
  <2> QED BY <2>4, <2>5
<1>5. ASSUME NEW i \in trigBook'
      PROVE  /\ i \in Waits' /\ groupOf'[i] = orders'[i].group
             /\ \/ orders'[i].shown = watch'[i].stop
                \/ \E n \in DOMAIN agenda' : agenda'[n].k = "scan" /\ i \in agenda'[n].moved
  <2>1. i \in trigBook BY DEF Narrowed
  <2>2. i \in Waits /\ groupOf[i] = orders[i].group BY <2>1 DEF Watched
  <2>3. i \in Waits'
    <3>1. (Acts(work) \cup Drops(work)) \cap trigBook = {} BY <1>1 DEF Owed, Owes, OwesTo
    <3> QED BY <2>1, <2>2, <3>1 DEF Narrowed
  <2>4. orders'[i].group = orders[i].group BY <2>2 DEF RowsKept, Waits, Known
  <2>5. \/ orders'[i].shown = watch'[i].stop
        \/ \E n \in DOMAIN items : items[n].k = "scan" /\ i \in items[n].moved
    BY DEF WatchOk
  <2>6. \/ orders'[i].shown = watch'[i].stop
        \/ \E n \in DOMAIN agenda' : agenda'[n].k = "scan" /\ i \in agenda'[n].moved
    BY <1>2, <2>5
  <2> QED BY <2>2, <2>3, <2>4, <2>6 DEF WatchOk
<1> QED BY <1>4, <1>5 DEF Watched

\* What is booked or pushed is what the running item carried, or what was just traded.
BookOk(items) ==
  \A i \in OrderId :
    /\ executed'[i] + orders[i].filled + Part(work, i)
         = executed[i] + orders'[i].filled + Traded(items, i)
    /\ executed'[i] + resting'[i] <= executed[i] + resting[i]
       \/ (i \in Known /\ executed'[i] + resting'[i] <= orders[i].req.qty)

LEMMA BookingKept ==
  ASSUME Base, Base', Booking, RowsKept, agenda # <<>>, UNCHANGED pending,
         NEW items \in Seq(WorkItem), Continue(items), BookOk(items)
  PROVE  Booking'
<1>1. ASSUME NEW i \in OrderId
      PROVE  /\ executed'[i] = orders'[i].filled + (Traded(agenda', i) + Traded(pending', i))
             /\ i \in Known' => executed'[i] + resting'[i] <= orders'[i].req.qty
             /\ i \notin Known' => executed'[i] = 0 /\ resting'[i] = 0
  <2>1. PICK a1, a0, t, w :
          a1 = Traded(agenda', i) /\ a0 = Traded(agenda, i) /\ t = Traded(items, i) /\ w = Part(work, i)
    OBVIOUS
  <2>2. a1 + w = a0 + t /\ a1 \in Nat /\ a0 \in Nat /\ t \in Nat /\ w \in Nat
    BY <2>1, TradedContinue DEF Base, Typed
  <2>3. PICK p : p = Traded(pending, i) OBVIOUS
  <2>4. p \in Nat
    <3>1. pending \in Seq(WorkItem)
      <4>1. QueueItem \subseteq WorkItem BY ItemKinds, ItemTypes DEF QueueItem
      <4> QED BY <4>1 DEF Base, Typed
    <3> QED BY <2>3, <3>1, TradedType
  <2>5. /\ executed[i] \in Nat /\ resting[i] \in Nat /\ executed'[i] \in Nat /\ resting'[i] \in Nat
        /\ orders[i].filled \in Nat /\ orders'[i].filled \in Nat
    BY DEF Base, Typed, OrderRow
  <2>6. /\ executed[i] = orders[i].filled + (a0 + p)
        /\ i \in Known => executed[i] + resting[i] <= orders[i].req.qty
        /\ i \notin Known => executed[i] = 0 /\ resting[i] = 0
    BY <2>1, <2>3 DEF Booking, Unbooked
  <2>7. /\ executed'[i] + orders[i].filled + w = executed[i] + orders'[i].filled + t
        /\ executed'[i] + resting'[i] <= executed[i] + resting[i]
           \/ (i \in Known /\ executed'[i] + resting'[i] <= orders[i].req.qty)
    BY <2>1 DEF BookOk
  <2>8. executed'[i] = orders'[i].filled + (a1 + p)
    <3>1. PICK e0 \in Nat, e1 \in Nat, f0 \in Nat, f1 \in Nat :
            e0 = executed[i] /\ e1 = executed'[i] /\ f0 = orders[i].filled /\ f1 = orders'[i].filled
      BY <2>5
    <3>2. e0 = f0 + (a0 + p) /\ e1 + f0 + w = e0 + f1 + t BY <2>6, <2>7, <3>1
    <3>3. PICK A0 \in Nat, A1 \in Nat, P \in Nat, T \in Nat, W \in Nat :
            A0 = a0 /\ A1 = a1 /\ P = p /\ T = t /\ W = w
      BY <2>2, <2>4
    <3>4. A1 + W = A0 + T /\ e0 = f0 + (A0 + P) /\ e1 + f0 + W = e0 + f1 + T
      BY <2>2, <3>2, <3>3
    <3>5. e1 = f1 + (A1 + P) BY <3>4
    <3> QED BY <3>1, <3>3, <3>5
  <2>9. i \in Known' <=> i \in Known BY DEF RowsKept
  <2>10. orders'[i].req = orders[i].req BY DEF RowsKept
  <2>11. i \in Known => orders[i].req.qty \in Nat
    <3>1. i \in Known => orders[i].req \in Request BY DEF Base, Typed
    <3> QED BY <3>1, Numbers DEF Request
  <2>12. i \in Known => executed'[i] + resting'[i] <= orders[i].req.qty
    BY <2>5, <2>6, <2>7, <2>11
  <2>13. i \notin Known => executed'[i] = 0 /\ resting'[i] = 0 BY <2>5, <2>6, <2>7
  <2> QED BY <2>1, <2>3, <2>8, <2>9, <2>10, <2>12, <2>13
<1> QED BY <1>1 DEF Booking, Unbooked

\* An order that does not rest and is not acted on stays so.
UndoOk ==
  \A i \in OrderId : resting[i] = 0 /\ i \notin Acts(work) =>
    resting'[i] = 0 /\ executed'[i] = executed[i]

Settled(i) ==
  resting[i] = 0 /\ i \notin trigBook /\ \A n \in DOMAIN agenda : i \notin Acts(agenda[n])

LEMMA SettledKept ==
  ASSUME Base, Narrowed, agenda # <<>>, NEW items \in Seq(WorkItem), Continue(items),
         Fitting(items), UndoOk, NEW i \in OrderId, Settled(i)
  PROVE  Settled(i)' /\ executed'[i] = executed[i]
<1>1. work = agenda[1] /\ 1 \in DOMAIN agenda BY RunningOk
<1>2. i \notin Acts(work) BY <1>1 DEF Settled
<1>3. resting'[i] = 0 /\ executed'[i] = executed[i] BY <1>2 DEF UndoOk, Settled
<1>4. ASSUME NEW n \in DOMAIN agenda' PROVE i \notin Acts(agenda'[n])
  <2>1. \/ n \in DOMAIN items /\ agenda'[n] = items[n]
        \/ \E m \in DOMAIN agenda : agenda'[n] = agenda[m]
    BY ContinueAgenda DEF Base, Typed
  <2>2. \A m \in DOMAIN items : i \notin Acts(items[m]) BY <1>2 DEF Fitting, Settled
  <2> QED BY <2>1, <2>2 DEF Settled
<1> QED BY <1>3, <1>4 DEF Settled, Narrowed

\* A lone first leg of which the submission has still to succeed or to be undone.
Undoing(i) ==
  \E n \in DOMAIN agenda :
    /\ \/ agenda[n].k = "second" /\ agenda[n].group = i
       \/ agenda[n].k = "rollback" /\ agenda[n].id = i /\ agenda[1].k = "submit"
       \/ agenda[n].k = "cancel" /\ agenda[n].id = i
    /\ orders[i].status \in {"PENDING", "OPEN", "UNTRIGGERED"}

SecondSoon ==
  \A n \in DOMAIN agenda :
    agenda[n].k = "second" => n = 1 \/ (n = 2 /\ agenda[1].k \in {"submit", "accepted"})

LEMMA LoneStays ==
  ASSUME RowsKept, NEW i \in Known
  PROVE  Lone(i)' <=> Lone(i)
<1>1. Known' = Known /\ Known \subseteq OrderId BY DEF RowsKept, Known
<1> QED BY <1>1 DEF Lone, RowsKept

LEMMA UndoneKept ==
  ASSUME Base, Undone, RowsKept, Narrowed, agenda # <<>>,
         work.k \notin {"submit", "second", "cancel"},
         NEW items \in Seq(WorkItem), Continue(items), Carried(items),
         work.k = "accepted" => items = <<>> /\ UNCHANGED executed /\ \A i \in OrderId :
           orders[i].status \in {"PENDING", "OPEN", "UNTRIGGERED"}
             => orders'[i].status \in {"PENDING", "OPEN", "UNTRIGGERED"},
         Fitting(items), UndoOk
  PROVE  Undone'
<1>1. work = agenda[1] /\ 1 \in DOMAIN agenda BY RunningOk
<1>2. \A n \in DOMAIN agenda' :
        \/ n \in DOMAIN items /\ agenda'[n] = items[n]
        \/ /\ n - Len(items) + 1 \in DOMAIN agenda /\ n - Len(items) + 1 > 1
           /\ agenda'[n] = agenda[n - Len(items) + 1]
  BY ContinueAgenda DEF Base, Typed
<1>3. ASSUME NEW n \in DOMAIN agenda', agenda'[n].k = "second"
      PROVE  n = 1 /\ work.k = "accepted" /\ 2 \in DOMAIN agenda /\ agenda'[n] = agenda[2]
  <2>1. n - Len(items) + 1 \in DOMAIN agenda /\ n - Len(items) + 1 > 1
        /\ agenda'[n] = agenda[n - Len(items) + 1]
    BY <1>2, <1>3 DEF Carried
  <2>2. PICK m : m = n - Len(items) + 1 OBVIOUS
  <2>3. m \in DOMAIN agenda /\ m > 1 /\ agenda'[n] = agenda[m] BY <2>1, <2>2
  <2>4. m = 2 /\ work.k = "accepted" BY <1>1, <1>3, <2>3 DEF Undone
  <2>5. Len(items) = 0 BY <2>4
  <2>6. n \in Nat
    <3>1. agenda' \in Seq(WorkItem) BY ContinueAgenda DEF Base, Typed
    <3> QED BY <3>1
  <2>7. n = 1 BY <2>2, <2>4, <2>5, <2>6
  <2> QED BY <2>3, <2>4, <2>7
<1>4. SecondSoon' BY <1>3 DEF SecondSoon
<1>5. ASSUME NEW i \in Known', Lone(i)'
      PROVE  executed'[i] = 0 /\ (Undoing(i)' \/ Settled(i)')
  <2>1. i \in Known /\ Lone(i) /\ i \in OrderId BY <1>5, LoneStays DEF RowsKept, Known
  <2>2. executed[i] = 0 /\ (Undoing(i) \/ Settled(i)) BY <2>1 DEF Undone, Undoing, Settled
  <2>3. CASE Settled(i) BY <2>1, <2>2, <2>3, SettledKept
  <2>4. CASE Undoing(i)
    <3>1. PICK n \in DOMAIN agenda :
            /\ \/ agenda[n].k = "second" /\ agenda[n].group = i
               \/ agenda[n].k = "cancel" /\ agenda[n].id = i
            /\ orders[i].status \in {"PENDING", "OPEN", "UNTRIGGERED"}
      BY <1>1, <2>4 DEF Undoing
    <3>2. agenda[n].k = "second" /\ n = 2 /\ work.k = "accepted"
      <4>1. agenda[n].k = "cancel" => n = 1 BY DEF Base, Shaped
      <4> QED BY <1>1, <3>1, <4>1 DEF Undone
    <3>3. items = <<>> /\ orders'[i].status \in {"PENDING", "OPEN", "UNTRIGGERED"}
      BY <2>1, <3>1, <3>2
    <3>4. 1 \in DOMAIN agenda' /\ agenda'[1] = agenda[2]
      <4>1. n > 1 => n + Len(items) - 1 \in DOMAIN agenda' /\ agenda'[n + Len(items) - 1] = agenda[n]
        BY ContinueAgenda DEF Base, Typed
      <4>2. Len(items) = 0 BY <3>3
      <4> QED BY <3>2, <4>1, <4>2
    <3>5. Undoing(i)' BY <3>1, <3>2, <3>3, <3>4 DEF Undoing
    <3>6. executed'[i] = 0 BY <2>2, <3>2
    <3> QED BY <3>5, <3>6
  <2> QED BY <2>2, <2>3, <2>4
<1> QED BY <1>4, <1>5 DEF Undone, SecondSoon, Undoing, Settled

\* What a step of a handler does that keeps the invariant.
Keeps(items) ==
  /\ Continue(items) /\ Fitting(items) /\ WatchOk(items) /\ BookOk(items)
  /\ work.k = "accepted" => items = <<>> /\ UNCHANGED executed /\ \A i \in OrderId :
       orders[i].status \in {"PENDING", "OPEN", "UNTRIGGERED"}
         => orders'[i].status \in {"PENDING", "OPEN", "UNTRIGGERED"}
Keeping == Narrowed /\ UndoOk /\ \E items \in Seq(WorkItem) : Keeps(items)

LEMMA PlainFits ==
  ASSUME NEW items \in Seq(WorkItem),
         \A n \in DOMAIN items :
           /\ items[n].k \notin {"activate", "scan", "peers"}
           /\ OwesTo(items[n], Waits', Loose', trigBook')
  PROVE  Fitting(items)
<1>1. \A n \in DOMAIN items : Acts(items[n]) = {} /\ Drops(items[n]) = {} BY DEF Acts, Drops
<1> QED BY <1>1 DEF Fitting

LEMMA OneFits ==
  ASSUME NEW w, OwesTo(w, Waits', Loose', trigBook'),
         Acts(w) \subseteq Acts(work) \cup trigBook, Acts(w) \cap Drops(w) = {},
         Drops(w) \cap Waits \cap Loose \subseteq Drops(work) \cup trigBook
  PROVE  Fitting(<<w>>)
<1>1. PICK s : s = <<w>> OBVIOUS
<1>2. DOMAIN s = {1} /\ s[1] = w BY <1>1
<1>3. Fitting(s) BY <1>2 DEF Fitting
<1> QED BY <1>1, <1>3

LEMMA NothingFits ==
  /\ <<>> \in Seq(WorkItem) /\ Fitting(<<>>)
  /\ \A i : Traded(<<>>, i) = 0
<1>1. PICK s : s = <<>> OBVIOUS
<1>2. s \in Seq(WorkItem) /\ DOMAIN s = {} BY <1>1
<1>3. \A i : Traded(s, i) = 0 BY <1>2, TradedNone
<1>4. Fitting(s) BY <1>2 DEF Fitting
<1> QED BY <1>1, <1>2, <1>3, <1>4

LEMMA Unmoved ==
  ASSUME UNCHANGED <<orders, trigBook, groupOf>>
  PROVE  Narrowed /\ Waits' = Waits /\ Loose' = Loose
<1>1. Known' = Known BY DEF Known
<1>2. Waits' = Waits /\ Loose' = Loose BY <1>1 DEF Waits, Loose
<1> QED BY <1>2 DEF Narrowed

\* The statuses of all orders but one are kept.
LEMMA MovedOne ==
  ASSUME RowsKept, NEW i \in Known, \A j \in OrderId : j # i => orders'[j].status = orders[j].status
  PROVE  /\ \A j \in OrderId : j # i => (j \in Waits' <=> j \in Waits)
         /\ i \in Waits' <=> orders'[i].status = "UNTRIGGERED"
         /\ i \in Waits <=> orders[i].status = "UNTRIGGERED"
<1>1. Known' = Known /\ Known \subseteq OrderId BY DEF RowsKept, Known
<1> QED BY <1>1 DEF Waits

LEMMA EngineStill ==
  ASSUME UNCHANGED engine
  PROVE  UndoOk
BY DEF UndoOk, engine

\* With the engine and what is booked unchanged, what the item carried goes on.
LEMMA BookedOn ==
  ASSUME Base, UNCHANGED executed, NEW items,
         \A i \in OrderId : /\ orders'[i].filled = orders[i].filled
                            /\ resting'[i] \in {resting[i], 0}
                            /\ Part(work, i) = Traded(items, i)
  PROVE  BookOk(items)
<1>1. ASSUME NEW i \in OrderId
      PROVE  /\ executed'[i] + orders[i].filled + Part(work, i)
                = executed[i] + orders'[i].filled + Traded(items, i)
             /\ executed'[i] + resting'[i] <= executed[i] + resting[i]
  <2>1. resting[i] \in Nat /\ executed[i] \in Nat BY DEF Base, Typed
  <2>2. PICK r0 \in Nat, r1 \in Nat, e \in Nat : r0 = resting[i] /\ r1 = resting'[i] /\ e = executed[i]
    BY <2>1
  <2>3. r1 = r0 \/ r1 = 0 BY <2>2
  <2>4. e + r1 <= e + r0 BY <2>3
  <2>5. orders'[i].filled = orders[i].filled /\ executed' = executed /\ Part(work, i) = Traded(items, i)
    OBVIOUS
  <2> QED BY <2>2, <2>4, <2>5
<1> QED BY <1>1 DEF BookOk

\* What the watched orders show is not touched.
LEMMA WatchedOn ==
  ASSUME Watched, Shaped, agenda # <<>>, work = agenda[1], work.k # "scan", trigBook' \subseteq trigBook,
         \A i \in trigBook' : /\ orders'[i].shown = orders[i].shown
                              /\ watch'[i] = watch[i]
                              /\ groupOf'[i] = groupOf[i]
  PROVE  \A i \in trigBook' : /\ groupOf'[i] = groupOf[i]
                              /\ orders'[i].shown = watch'[i].stop
<1>1. \A n \in DOMAIN agenda : agenda[n].k # "scan" BY DEF Shaped
<1>2. \A i \in trigBook' : orders[i].shown = watch[i].stop BY <1>1 DEF Watched
<1> QED BY <1>2

LEMMA LeaveKeeps ==
  ASSUME Orderly, LeaveStep
  PROVE  Keeping
<1>1. Base /\ Watched /\ Shaped BY DEF Orderly, Guarded, Base
<1>2. /\ agenda # <<>> /\ work.k \in {"rollback", "loop", "quiet"} /\ Continue(<<>>)
      /\ UNCHANGED <<orders, trigBook, watch, groupOf, resting, executed>>
  BY DEF LeaveStep, Doing, oms, engine
<1>3. work = agenda[1] /\ work \in WorkItem BY <1>1, <1>2, RunningOk
<1>4. Narrowed /\ Waits' = Waits /\ Loose' = Loose BY <1>2, Unmoved
<1>5. \A i \in OrderId : Part(work, i) = 0 BY <1>2, <1>3, PartType
<1>6. BookOk(<<>>) BY <1>1, <1>2, <1>5, BookedOn, NothingFits
<1>7. WatchOk(<<>>)
  <2>1. Acts(work) = {} /\ Drops(work) = {} BY <1>2 DEF Acts, Drops
  <2>2. \A i \in trigBook' : groupOf'[i] = groupOf[i] /\ orders'[i].shown = watch'[i].stop
    BY <1>1, <1>2, <1>3, WatchedOn
  <2> QED BY <1>2, <2>1, <2>2 DEF WatchOk
<1>8. UndoOk BY <1>2, EngineStill DEF engine
<1> QED BY <1>2, <1>4, <1>6, <1>7, <1>8, NothingFits DEF Keeping, Keeps

LEMMA CandleKeeps ==
  ASSUME Orderly, CandleStep
  PROVE  Keeping /\ Carried(<<>>) /\ Continue(<<>>)
<1>1. Base /\ Watched /\ Shaped BY DEF Orderly, Guarded, Base
<1>2. /\ agenda # <<>> /\ work.k = "candle"
      /\ UNCHANGED <<orders, trigBook, watch, groupOf, resting, executed>>
  BY DEF CandleStep, Doing, oms, engine
<1>3. work = agenda[1] /\ work \in WorkItem /\ 1 \in DOMAIN agenda BY <1>1, <1>2, RunningOk
<1>4. Narrowed /\ Waits' = Waits /\ Loose' = Loose BY <1>2, Unmoved
<1>5. \A i \in OrderId : Part(work, i) = 0 BY <1>2, <1>3, PartType
<1>6. BookOk(<<>>) BY <1>1, <1>2, <1>5, BookedOn, NothingFits
<1>7. WatchOk(<<>>)
  <2>1. Acts(work) = {} /\ Drops(work) = {} BY <1>2 DEF Acts, Drops
  <2>2. \A i \in trigBook' : groupOf'[i] = groupOf[i] /\ orders'[i].shown = watch'[i].stop
    BY <1>1, <1>2, <1>3, WatchedOn
  <2> QED BY <1>2, <2>1, <2>2 DEF WatchOk
<1>8. UndoOk BY <1>2, EngineStill DEF engine
<1>9. Continue(<<>>)
  <2>1. work.ts = AgentTs BY <1>2, <1>3 DEF Orderly, Calm, Timed
  <2>2. ~(work.ts < lastTs) BY <1>1, <2>1 DEF Base, Typed, Times, AgentTs, UserTs
  <2> QED BY <2>2 DEF CandleStep
<1> QED BY <1>2, <1>4, <1>6, <1>7, <1>8, <1>9, NothingFits, SteadyOne DEF Keeping, Keeps

\* The parts of the invariant a step starts from.
LEMMA Parts ==
  ASSUME Orderly, agenda # <<>>
  PROVE  /\ Base /\ Typed /\ Shaped /\ Watched /\ Owed /\ Booking /\ Guarded
         /\ work = agenda[1] /\ 1 \in DOMAIN agenda /\ work \in WorkItem /\ Names(work)
         /\ Owes(work) /\ Acts(work) \cap Drops(work) = {}
<1>1. Base /\ Typed /\ Shaped /\ Watched /\ Owed /\ Booking /\ Guarded
  BY DEF Orderly, Guarded, Base
<1>2. work = agenda[1] /\ 1 \in DOMAIN agenda /\ work \in WorkItem /\ Names(work)
  BY <1>1, RunningOk
<1> QED BY <1>1, <1>2 DEF Owed

LEMMA ReportKeeps ==
  ASSUME Orderly, ReportStep
  PROVE  Keeping
<1>1. /\ agenda # <<>> /\ work.k \in {"accepted", "rejected", "canceled"} /\ Continue(<<>>)
      /\ UNCHANGED <<trigBook, watch, groupOf, resting, executed>>
      /\ \/ UNCHANGED orders
         \/ \E s \in {"OPEN", "REJECTED", "CANCELED"} :
              SetStatus(work.id, s) /\ (work.k = "accepted" => s = "OPEN")
  BY DEF ReportStep, Doing, oms, engine
<1>2. /\ Base /\ Typed /\ Shaped /\ Watched
      /\ work = agenda[1] /\ work \in WorkItem /\ Names(work) /\ Owes(work)
  BY <1>1, Parts
<1>3. work.id \in Known /\ work.id \notin Waits BY <1>1, <1>2 DEF Names, NamesIn, Owes, OwesTo
<1>4. /\ RowsKept
      /\ \A j \in OrderId : /\ j # work.id => orders'[j].status = orders[j].status
                            /\ orders'[j].filled = orders[j].filled
                            /\ orders'[j].shown = orders[j].shown
      /\ orders'[work.id].status # "UNTRIGGERED"
      /\ work.k = "accepted" => orders'[work.id].status \in {orders[work.id].status, "OPEN"}
  <2>1. CASE UNCHANGED orders
    BY <1>2, <1>3, <2>1, SameRows DEF Waits
  <2>2. CASE \E s \in {"OPEN", "REJECTED", "CANCELED"} :
               SetStatus(work.id, s) /\ (work.k = "accepted" => s = "OPEN")
    <3>1. {"OPEN", "REJECTED", "CANCELED"} \subseteq Status \ {"NONE"} BY DEF Status
    <3> QED BY <1>2, <1>3, <2>2, <3>1, StatusRows
  <2> QED BY <1>1, <2>1, <2>2
<1>5. Waits' = Waits /\ Loose' = Loose /\ Narrowed
  <2>1. /\ \A j \in OrderId : j # work.id => (j \in Waits' <=> j \in Waits)
        /\ work.id \in Waits' <=> orders'[work.id].status = "UNTRIGGERED"
    BY <1>3, <1>4, MovedOne
  <2>2. Waits' \subseteq OrderId /\ Waits \subseteq OrderId BY DEF Waits, Known
  <2>3. Waits' = Waits BY <1>3, <1>4, <2>1, <2>2
  <2> QED BY <1>1, <2>3 DEF Narrowed, Loose
<1>6. \A i \in OrderId : Part(work, i) = 0 BY <1>1, <1>2, PartType
<1>7. BookOk(<<>>) BY <1>1, <1>2, <1>4, <1>6, BookedOn, NothingFits
<1>8. WatchOk(<<>>)
  <2>1. Acts(work) = {} /\ Drops(work) = {} BY <1>1 DEF Acts, Drops
  <2>2. trigBook \subseteq OrderId BY <1>2 DEF Typed, Known
  <2>3. \A i \in trigBook' : groupOf'[i] = groupOf[i] /\ orders'[i].shown = watch'[i].stop
    BY <1>1, <1>2, <1>4, <2>2, WatchedOn
  <2> QED BY <1>1, <2>1, <2>3 DEF WatchOk
<1>9. UndoOk BY <1>1, EngineStill DEF engine
<1>10. ASSUME work.k = "accepted", NEW i \in OrderId,
              orders[i].status \in {"PENDING", "OPEN", "UNTRIGGERED"}
       PROVE  orders'[i].status \in {"PENDING", "OPEN", "UNTRIGGERED"}
  BY <1>4, <1>10
<1> QED BY <1>1, <1>5, <1>7, <1>8, <1>9, <1>10, NothingFits DEF Keeping, Keeps

LEMMA OnTradeKeeps ==
  ASSUME Orderly, OnTradeStep
  PROVE  Keeping
<1>1. /\ agenda # <<>> /\ work.k = "onTrade"
      /\ Continue(<<Scan(trigBook, work.price, work.ts, <<>>, {}, {})>>)
      /\ UNCHANGED <<orders, trigBook, watch, groupOf, resting, executed>>
  BY DEF OnTradeStep, Doing, oms, engine
<1>2. /\ Base /\ Typed /\ Shaped /\ Watched /\ work = agenda[1] /\ work \in WorkItem
  BY <1>1, Parts
<1>3. work.price \in Prices /\ work.ts \in Times BY <1>1, <1>2, ItemFields DEF OnTradeItem
<1>4. PICK w : w = Scan(trigBook, work.price, work.ts, <<>>, {}, {}) OBVIOUS
<1>5. w \in WorkItem
  <2>1. {} \in SUBSET OrderId /\ <<>> \in Seq(OrderId) /\ trigBook \in SUBSET OrderId
    BY <1>2 DEF Typed, Known
  <2> QED BY <1>3, <1>4, <2>1, ItemTypes, ItemKinds
<1>6. Acts(w) = {} /\ Drops(w) = {} /\ w.k = "scan" /\ w.fired = <<>>
  <2>1. w.k = "scan" /\ w.fired = <<>> /\ w.gone = {} BY <1>4 DEF Scan
  <2>2. DOMAIN w.fired = {} BY <2>1
  <2> QED BY <2>1, <2>2 DEF Acts, Drops
<1>7. Narrowed /\ Waits' = Waits /\ Loose' = Loose BY <1>1, Unmoved
<1>8. OwesTo(w, Waits', Loose', trigBook')
  <2>1. DOMAIN w.fired = {} BY <1>6
  <2> QED BY <1>6, <2>1 DEF OwesTo
<1>9. <<w>> \in Seq(WorkItem) /\ Fitting(<<w>>) BY <1>5, <1>6, <1>8, OneFits
<1>10. BookOk(<<w>>)
  <2>1. \A i \in OrderId : Part(work, i) = 0 /\ Traded(<<w>>, i) = 0
    BY <1>1, <1>2, <1>5, <1>6, PartType, TradedOne
  <2> QED BY <1>1, <1>2, <2>1, BookedOn
<1>11. WatchOk(<<w>>)
  <2>1. Acts(work) = {} /\ Drops(work) = {} BY <1>1 DEF Acts, Drops
  <2>2. \A i \in trigBook' : groupOf'[i] = groupOf[i] /\ orders'[i].shown = watch'[i].stop
    BY <1>1, <1>2, WatchedOn
  <2> QED BY <1>1, <2>1, <2>2 DEF WatchOk
<1>12. UndoOk BY <1>1, EngineStill DEF engine
<1> QED BY <1>1, <1>4, <1>7, <1>9, <1>10, <1>11, <1>12 DEF Keeping, Keeps

LEMMA TradeKeeps ==
  ASSUME Orderly, TradeStep
  PROVE  Keeping
<1>1. /\ agenda # <<>> /\ work.k = "trade"
      /\ Continue(LegOf(work.buy, work.qty) \o LegOf(work.sell, work.qty)
                  \o <<OnTrade(work.price, work.ts), Candle(work.ts)>>)
      /\ UNCHANGED <<orders, trigBook, watch, groupOf, resting, executed>>
  BY DEF TradeStep, Doing, oms, engine
<1>2. /\ Base /\ Typed /\ Shaped /\ Watched /\ work = agenda[1] /\ work \in WorkItem
      /\ Names(work) /\ Owes(work)
  BY <1>1, Parts
<1>3. /\ work.price \in Prices /\ work.ts \in Times /\ work.qty \in Nat
      /\ work.buy \in Known \cup {NoOrder} /\ work.sell \in Known \cup {NoOrder}
      /\ work.buy \notin Waits /\ work.sell \notin Waits
  BY <1>1, <1>2, ItemFields DEF TradeItem, Names, NamesIn, Owes, OwesTo
<1>4. Narrowed /\ Waits' = Waits /\ Loose' = Loose BY <1>1, Unmoved
<1>5. PICK t, c : t = OnTrade(work.price, work.ts) /\ c = Candle(work.ts) OBVIOUS
<1>6. t \in WorkItem /\ c \in WorkItem /\ t.k = "onTrade" /\ c.k = "candle"
  BY <1>3, <1>5, ItemTypes, ItemKinds DEF OnTrade, Candle
<1>7. PICK a, b, e : /\ a = LegOf(work.buy, work.qty) /\ b = LegOf(work.sell, work.qty)
                     /\ e = <<t, c>>
  OBVIOUS
<1>8. /\ a \in Seq(WorkItem) /\ b \in Seq(WorkItem) /\ e \in Seq(WorkItem)
      /\ \A n \in DOMAIN a : a[n] = Leg(work.buy, work.qty)
      /\ \A n \in DOMAIN b : b[n] = Leg(work.sell, work.qty)
      /\ \A n \in DOMAIN e : e[n] \in {t, c}
  <2>1. e \in Seq(WorkItem) /\ DOMAIN e = {1, 2} /\ e[1] = t /\ e[2] = c BY <1>6, <1>7
  <2> QED BY <1>2, <1>3, <1>7, <2>1, LegOfItems
<1>9. PICK items : items = a \o b \o e OBVIOUS
<1>10. PICK d : d = a \o b OBVIOUS
<1>11. d \in Seq(WorkItem) /\ items \in Seq(WorkItem) /\ items = d \o e
  BY <1>8, <1>9, <1>10, ConcatIn
<1>12. ASSUME NEW n \in DOMAIN items
       PROVE  items[n] \in {Leg(work.buy, work.qty), Leg(work.sell, work.qty), t, c}
              /\ (items[n] = Leg(work.buy, work.qty) => work.buy \notin Waits)
  <2>1. \/ n \in DOMAIN d /\ items[n] = d[n]
        \/ \E m \in DOMAIN e : items[n] = e[m]
    BY <1>8, <1>11, ConcatElements
  <2>2. \A m \in DOMAIN d : \/ m \in DOMAIN a /\ d[m] = a[m]
                            \/ \E k \in DOMAIN b : d[m] = b[k]
    BY <1>8, <1>10, ConcatElements
  <2> QED BY <1>3, <1>8, <2>1, <2>2
<1>13. ASSUME NEW n \in DOMAIN items
       PROVE  /\ items[n].k \in {"leg", "onTrade", "candle"}
              /\ OwesTo(items[n], Waits', Loose', trigBook')
  <2>1. PICK w : w = items[n] OBVIOUS
  <2>2. /\ w.k \in {"leg", "onTrade", "candle"}
        /\ w.k = "leg" => w.id \notin Waits
    BY <1>3, <1>6, <1>12, <2>1 DEF Leg
  <2>3. Acts(w) = {} /\ Drops(w) = {} BY <2>2 DEF Acts, Drops
  <2>4. OwesTo(w, Waits', Loose', trigBook') BY <1>4, <2>2, <2>3 DEF OwesTo
  <2> QED BY <2>1, <2>2, <2>4
<1>14. Fitting(items) BY <1>11, <1>13, PlainFits
<1>15. ASSUME NEW i \in OrderId PROVE Part(work, i) = Traded(items, i)
  <2>1. Traded(items, i) = Traded(d, i) + Traded(e, i) BY <1>8, <1>11, TradedConcat
  <2>2. Traded(d, i) = Traded(a, i) + Traded(b, i) BY <1>8, <1>10, TradedConcat
  <2>3. Traded(e, i) = 0
    <3>1. \A n \in DOMAIN e : Part(e[n], i) = 0 BY <1>6, <1>8 DEF Part
    <3> QED BY <1>8, <3>1, TradedNone
  <2>4. ASSUME NEW j \in Known \cup {NoOrder}
        PROVE  Traded(LegOf(j, work.qty), i) = IF j = i THEN work.qty ELSE 0
    <3>1. CASE j \in Known
      <4>1. PICK l : l = Leg(j, work.qty) OBVIOUS
      <4>2. l \in WorkItem /\ l.k = "leg" /\ l.id = j /\ l.qty = work.qty
        BY <1>3, <3>1, <4>1, ItemTypes, ItemKinds DEF Leg, Known
      <4>3. Traded(<<l>>, i) = Part(l, i) BY <4>2, TradedOne
      <4>4. Part(l, i) = IF j = i THEN work.qty ELSE 0 BY <4>2 DEF Part
      <4> QED BY <3>1, <4>1, <4>3, <4>4 DEF LegOf
    <3>2. CASE j \notin Known
      <4>1. j # i BY <3>2, Numbers
      <4> QED BY <3>2, <4>1, NothingFits DEF LegOf
    <3> QED BY <3>1, <3>2
  <2>5. /\ Traded(a, i) = IF work.buy = i THEN work.qty ELSE 0
        /\ Traded(b, i) = IF work.sell = i THEN work.qty ELSE 0
    BY <1>3, <1>7, <2>4
  <2>6. Part(work, i) = (IF work.buy = i THEN work.qty ELSE 0) + (IF work.sell = i THEN work.qty ELSE 0)
    BY <1>1 DEF Part
  <2>7. PICK x \in Nat, y \in Nat :
          x = (IF work.buy = i THEN work.qty ELSE 0) /\ y = (IF work.sell = i THEN work.qty ELSE 0)
    BY <1>3
  <2> QED BY <2>1, <2>2, <2>3, <2>5, <2>6, <2>7
<1>16. BookOk(items) BY <1>1, <1>2, <1>15, BookedOn
<1>17. WatchOk(items)
  <2>1. Acts(work) = {} /\ Drops(work) = {} BY <1>1 DEF Acts, Drops
  <2>2. \A i \in trigBook' : groupOf'[i] = groupOf[i] /\ orders'[i].shown = watch'[i].stop
    BY <1>1, <1>2, WatchedOn
  <2> QED BY <1>1, <2>1, <2>2 DEF WatchOk
<1>18. UndoOk BY <1>1, EngineStill DEF engine
<1>19. Continue(items) BY <1>1, <1>5, <1>7, <1>9
<1> QED BY <1>1, <1>4, <1>11, <1>14, <1>16, <1>17, <1>18, <1>19 DEF Keeping, Keeps

\* Leaving a group takes the peers out of the trigger book and hands them over.
LEMMA GroupLeft ==
  ASSUME Base, NEW i \in OrderId, LeaveGroup(groupOf[i], i)
  PROVE  /\ trigBook' \subseteq trigBook /\ i \notin trigBook'
         /\ trigBook \subseteq trigBook' \cup PeersOf(i) \cup {i}
         /\ PeersOf(i) \cap trigBook' = {} /\ PeersOf(i) \cap Loose = {}
         /\ Loose \subseteq Loose' /\ \A j \in trigBook' : groupOf'[j] = groupOf[j]
         /\ PeersOf(i) \subseteq OrderId /\ i \notin PeersOf(i)
<1>1. PICK g : g = groupOf[i] OBVIOUS
<1>2. g \in Ids /\ members[NoGroup] = {} /\ members[g] \subseteq OrderId
  BY <1>1 DEF Base, Typed, Grouped
<1>3. /\ trigBook' = trigBook \ ((members[g] \ {i}) \cup {i})
      /\ groupOf' = [j \in OrderId |-> IF j \in (members[g] \ {i}) \cup {i} THEN NoGroup ELSE groupOf[j]]
  BY <1>1 DEF LeaveGroup
<1>4. PeersOf(i) = members[g] \ {i} BY <1>1, <1>2 DEF PeersOf
<1>5. trigBook \subseteq OrderId BY DEF Base, Typed, Known
<1>6. ASSUME NEW j \in PeersOf(i) PROVE j \notin Loose
  <2>1. g # NoGroup /\ g \in OrderId BY <1>2, <1>4 DEF Ids, NoGroup, NoOrder
  <2>2. groupOf[j] = g BY <1>2, <1>4, <2>1 DEF Base, Grouped, GroupsInverse
  <2> QED BY <2>1, <2>2 DEF Loose
<1>7. Loose \subseteq Loose' BY <1>3 DEF Loose
<1>8. \A j \in trigBook' : groupOf'[j] = groupOf[j] BY <1>3, <1>5
<1> QED BY <1>2, <1>3, <1>4, <1>6, <1>7, <1>8

LEMMA PeersFit ==
  ASSUME NEW S \in SUBSET OrderId, S \cap trigBook' = {},
         S \cap Waits \cap Loose \subseteq Drops(work) \cup trigBook
  PROVE  /\ <<Peers(S)>> \in Seq(WorkItem) /\ Fitting(<<Peers(S)>>)
         /\ \A i : Traded(<<Peers(S)>>, i) = 0
         /\ \A i : i \in S <=> \E n \in DOMAIN <<Peers(S)>> : i \in Drops(<<Peers(S)>>[n])
<1>1. PICK w : w = Peers(S) OBVIOUS
<1>2. w \in WorkItem /\ w.k = "peers" /\ w.ids = S BY <1>1, ItemTypes, ItemKinds DEF Peers
<1>3. Acts(w) = {} /\ Drops(w) = S BY <1>2 DEF Acts, Drops
<1>4. OwesTo(w, Waits', Loose', trigBook') BY <1>2, <1>3 DEF OwesTo
<1>5. Fitting(<<w>>) BY <1>3, <1>4, OneFits
<1>6. \A i : Traded(<<w>>, i) = 0
  <2>1. \A i : Traded(<<w>>, i) = Part(w, i) BY <1>2, TradedOne
  <2> QED BY <1>2, <2>1 DEF Part
<1>7. PICK s : s = <<w>> OBVIOUS
<1>8. DOMAIN s = {1} /\ s[1] = w /\ s \in Seq(WorkItem) BY <1>2, <1>7
<1>9. \A i : i \in S <=> \E n \in DOMAIN s : i \in Drops(s[n]) BY <1>3, <1>8
<1> QED BY <1>1, <1>5, <1>6, <1>7, <1>8, <1>9

LEMMA LegKeeps ==
  ASSUME Orderly, LegStep
  PROVE  Keeping
<1>1. PICK i, q : i = work.id /\ q = work.qty OBVIOUS
<1>2. /\ agenda # <<>> /\ work.k = "leg" /\ orders' = [orders EXCEPT ![i] = Booked(@, q)]
      /\ UNCHANGED <<watch, resting, executed>>
      /\ \/ Continue(<<Peers(PeersOf(i))>>) /\ LeaveGroup(groupOf[i], i)
         \/ Continue(<<>>) /\ UNCHANGED <<trigBook, groupOf>>
  BY <1>1 DEF LegStep, Doing, engine
<1>3. /\ Base /\ Typed /\ Shaped /\ Watched
      /\ work = agenda[1] /\ work \in WorkItem /\ Names(work) /\ Owes(work)
  BY <1>2, Parts
<1>4. i \in Known /\ i \in OrderId /\ i \notin Waits /\ q \in Nat
  BY <1>1, <1>2, <1>3, ItemFields DEF Names, NamesIn, Owes, OwesTo, LegItem
<1>5. /\ RowsKept /\ orders'[i].filled = orders[i].filled + q
      /\ orders'[i].status \in {"FILLED", "PARTIALLY_FILLED"}
      /\ orders'[i].shown = orders[i].shown
      /\ \A j \in OrderId : j # i => orders'[j] = orders[j]
  BY <1>2, <1>3, <1>4, BookedRows
<1>6. Waits' = Waits
  <2>1. /\ \A j \in OrderId : j # i => (j \in Waits' <=> j \in Waits)
        /\ i \in Waits' <=> orders'[i].status = "UNTRIGGERED"
    BY <1>4, <1>5, MovedOne
  <2>2. Waits' \subseteq OrderId /\ Waits \subseteq OrderId BY DEF Waits, Known
  <2> QED BY <1>4, <1>5, <2>1, <2>2
<1>7. Acts(work) = {} /\ Drops(work) = {} BY <1>2 DEF Acts, Drops
<1>8. ASSUME NEW items, \A j \in OrderId : Traded(items, j) = 0
      PROVE  BookOk(items)
  <2>1. ASSUME NEW j \in OrderId
        PROVE  /\ executed'[j] + orders[j].filled + Part(work, j)
                  = executed[j] + orders'[j].filled + Traded(items, j)
               /\ executed'[j] + resting'[j] <= executed[j] + resting[j]
    <3>1. PICK e \in Nat, r \in Nat, f \in Nat :
            e = executed[j] /\ r = resting[j] /\ f = orders[j].filled
      BY <1>3 DEF Typed, OrderRow
    <3>2. Traded(items, j) = 0 BY <1>8
    <3>3. CASE j = i
      <4>1. Part(work, j) = q BY <1>1, <1>2, <3>3 DEF Part
      <4> QED BY <1>2, <1>4, <1>5, <3>1, <3>2, <3>3, <4>1
    <3>4. CASE j # i
      <4>1. Part(work, j) = 0 BY <1>1, <1>2, <3>4 DEF Part
      <4>2. orders'[j] = orders[j] BY <1>5, <3>4
      <4> QED BY <1>2, <3>1, <3>2, <4>1, <4>2
    <3> QED BY <3>3, <3>4
  <2> QED BY <2>1 DEF BookOk
<1>9. UndoOk BY <1>2, EngineStill DEF engine
<1>10. ASSUME trigBook' \subseteq trigBook, \A j \in trigBook' : groupOf'[j] = groupOf[j]
       PROVE  \A j \in trigBook' : groupOf'[j] = groupOf[j] /\ orders'[j].shown = watch'[j].stop
  <2>1. trigBook \subseteq OrderId BY <1>3 DEF Typed, Known
  <2>2. \A j \in trigBook' : orders'[j].shown = orders[j].shown BY <1>5, <1>10, <2>1
  <2> QED BY <1>2, <1>3, <1>10, <2>2, WatchedOn
<1>11. CASE Continue(<<>>) /\ UNCHANGED <<trigBook, groupOf>>
  <2>1. Narrowed BY <1>6, <1>11 DEF Narrowed, Loose
  <2>2. WatchOk(<<>>) BY <1>2, <1>7, <1>10, <1>11 DEF WatchOk
  <2>3. BookOk(<<>>) BY <1>8, NothingFits
  <2> QED BY <1>2, <1>9, <1>11, <2>1, <2>2, <2>3, NothingFits DEF Keeping, Keeps
<1>12. CASE Continue(<<Peers(PeersOf(i))>>) /\ LeaveGroup(groupOf[i], i)
  <2>1. PICK S : S = PeersOf(i) OBVIOUS
  <2>2. /\ trigBook' \subseteq trigBook /\ i \notin trigBook'
        /\ trigBook \subseteq trigBook' \cup S \cup {i}
        /\ S \cap trigBook' = {} /\ S \cap Loose = {}
        /\ Loose \subseteq Loose' /\ \A j \in trigBook' : groupOf'[j] = groupOf[j]
        /\ S \in SUBSET OrderId
    BY <1>3, <1>4, <1>12, <2>1, GroupLeft
  <2>3. Narrowed BY <1>6, <2>2 DEF Narrowed
  <2>4. PICK s : s = <<Peers(S)>> OBVIOUS
  <2>5. /\ s \in Seq(WorkItem) /\ Fitting(s) /\ \A j : Traded(s, j) = 0
        /\ \A j : j \in S <=> \E n \in DOMAIN s : j \in Drops(s[n])
    BY <2>2, <2>4, PeersFit
  <2>6. BookOk(s) BY <1>8, <2>5
  <2>7. WatchOk(s)
    <3>1. \A j \in Waits' : j \in trigBook => j \in trigBook' \/ \E n \in DOMAIN s : j \in Drops(s[n])
      BY <1>4, <1>6, <2>2, <2>5
    <3> QED BY <1>2, <1>7, <1>10, <2>2, <3>1 DEF WatchOk
  <2>8. Continue(s) BY <1>12, <2>1, <2>4
  <2> QED BY <1>2, <1>9, <2>3, <2>5, <2>6, <2>7, <2>8 DEF Keeping, Keeps
<1> QED BY <1>2, <1>11, <1>12

LEMMA PeersKeeps ==
  ASSUME Orderly, PeersStep
  PROVE  Keeping
<1>1. /\ agenda # <<>> /\ work.k = "peers" /\ UNCHANGED <<trigBook, groupOf, watch>>
  BY DEF PeersStep, Doing, oms
<1>2. /\ Base /\ Typed /\ Shaped /\ Watched
      /\ work = agenda[1] /\ work \in WorkItem /\ Names(work) /\ Owes(work)
  BY <1>1, Parts
<1>3. work.ids \subseteq Known /\ Acts(work) = {} /\ Drops(work) = work.ids
  BY <1>1, <1>2 DEF Names, NamesIn, Acts, Drops
<1>4. work.ids \cap trigBook = {} BY <1>3, <1>2 DEF Owes, OwesTo
<1>5. Loose' = Loose BY <1>1 DEF Loose
<1>6. \A j \in OrderId : Part(work, j) = 0 BY <1>1, <1>2, PartType
<1>7. trigBook \subseteq OrderId BY <1>2 DEF Typed, Known
<1>8. CASE work.ids = {} /\ Continue(<<>>) /\ UNCHANGED <<orders, engine>>
  <2>1. Narrowed /\ UndoOk BY <1>1, <1>8, Unmoved, EngineStill
  <2>2. BookOk(<<>>) BY <1>2, <1>6, <1>8, BookedOn, NothingFits DEF engine
  <2>3. WatchOk(<<>>)
    <3>1. \A i \in trigBook' : groupOf'[i] = groupOf[i] /\ orders'[i].shown = watch'[i].stop
      BY <1>1, <1>2, <1>8, WatchedOn
    <3> QED BY <1>1, <1>3, <1>8, <3>1 DEF WatchOk, engine
  <2> QED BY <1>1, <1>8, <2>1, <2>2, <2>3, NothingFits DEF Keeping, Keeps
<1>9. ASSUME NEW c \in work.ids, Continue(<<Peers(work.ids \ {c})>>),
             \/ /\ orders[c].status = "UNTRIGGERED"
                /\ SetStatus(c, "CANCELED") /\ UNCHANGED engine
             \/ /\ orders[c].status # "UNTRIGGERED"
                /\ EngineCancel(c) /\ UNCHANGED executed
             \/ orders[c].status # "UNTRIGGERED" /\ UNCHANGED <<orders, engine>>
      PROVE  Keeping
  <2>1. c \in Known /\ c \in OrderId BY <1>3, <1>9 DEF Known
  <2>2. /\ RowsKept /\ UNCHANGED executed
        /\ \A j \in OrderId : /\ j # c => orders'[j] = orders[j] /\ resting'[j] = resting[j]
                              /\ orders'[j].filled = orders[j].filled
                              /\ orders'[j].shown = orders[j].shown
                              /\ resting'[j] \in {resting[j], 0}
        /\ orders'[c].status # "UNTRIGGERED"
    <3>1. CASE SetStatus(c, "CANCELED") /\ UNCHANGED engine
      <4>1. "CANCELED" \in Status \ {"NONE"} BY DEF Status
      <4> QED BY <1>2, <2>1, <3>1, <4>1, StatusRows DEF engine
    <3>2. CASE orders[c].status # "UNTRIGGERED" /\ EngineCancel(c) /\ UNCHANGED executed
      <4>1. resting \in [OrderId -> Nat] BY <1>2 DEF Typed
      <4>2. /\ RowsKept /\ resting' = [resting EXCEPT ![c] = 0]
            /\ \A j \in OrderId : /\ j # c => orders'[j] = orders[j]
                                  /\ orders'[j].filled = orders[j].filled
                                  /\ orders'[j].shown = orders[j].shown
            /\ orders'[c].status \in {orders[c].status, "CANCELED"}
        BY <1>2, <2>1, <3>2, CancelRows
      <4> QED BY <3>2, <4>1, <4>2
    <3>3. CASE orders[c].status # "UNTRIGGERED" /\ UNCHANGED <<orders, engine>>
      BY <1>2, <3>3, SameRows DEF engine
    <3> QED BY <1>9, <3>1, <3>2, <3>3
  <2>3. /\ \A j \in OrderId : j # c => (j \in Waits' <=> j \in Waits)
        /\ c \notin Waits'
    BY <2>1, <2>2, MovedOne
  <2>4. Waits' \subseteq OrderId /\ Waits \subseteq OrderId BY DEF Waits, Known
  <2>5. Narrowed BY <1>1, <1>3, <1>5, <1>9, <2>3, <2>4 DEF Narrowed
  <2>6. UndoOk BY <2>2 DEF UndoOk
  <2>7. PICK S : S = work.ids \ {c} OBVIOUS
  <2>8. PICK s : s = <<Peers(S)>> OBVIOUS
  <2>9. /\ s \in Seq(WorkItem) /\ Fitting(s) /\ \A j : Traded(s, j) = 0
        /\ \A j : j \in S <=> \E n \in DOMAIN s : j \in Drops(s[n])
    <3>1. S \in SUBSET OrderId /\ S \cap trigBook' = {} /\ S \subseteq Drops(work)
      BY <1>1, <1>3, <1>4, <2>7 DEF Known
    <3> QED BY <2>8, <3>1, PeersFit
  <2>10. BookOk(s) BY <1>2, <1>6, <2>2, <2>9, BookedOn
  <2>11. WatchOk(s)
    <3>1. \A i \in trigBook' : groupOf'[i] = groupOf[i] /\ orders'[i].shown = watch'[i].stop
      BY <1>1, <1>2, <1>7, <2>2, WatchedOn
    <3>2. \A j \in Waits' : j # c /\ j \in OrderId BY <2>3, <2>4
    <3>3. \A j \in Waits' : j \in Drops(work) => j \in S BY <1>3, <2>7, <3>2
    <3> QED BY <1>1, <1>3, <2>2, <2>9, <3>1, <3>2, <3>3 DEF WatchOk
  <2> QED BY <1>1, <1>9, <2>5, <2>6, <2>7, <2>8, <2>9, <2>10, <2>11 DEF Keeping, Keeps
<1>10. \/ work.ids = {} /\ Continue(<<>>) /\ UNCHANGED <<orders, engine>>
       \/ \E c \in work.ids :
            /\ Continue(<<Peers(work.ids \ {c})>>)
            /\ \/ /\ orders[c].status = "UNTRIGGERED"
                  /\ SetStatus(c, "CANCELED") /\ UNCHANGED engine
               \/ /\ orders[c].status # "UNTRIGGERED"
                  /\ EngineCancel(c) /\ UNCHANGED executed
               \/ orders[c].status # "UNTRIGGERED" /\ UNCHANGED <<orders, engine>>
  BY DEF PeersStep
<1> QED BY <1>8, <1>9, <1>10

LEMMA ScannedKeeps ==
  ASSUME Orderly, ScannedStep
  PROVE  Keeping
<1>1. /\ agenda # <<>> /\ work.k = "scan" /\ work.todo = {} /\ ShowStops
      /\ UNCHANGED <<trigBook, groupOf, watch, resting, executed>>
      /\ Continue(<<Peers(work.gone)>>
                  \o [n \in DOMAIN work.fired |-> Activate(work.fired[n], work.ts)])
  BY DEF ScannedStep, Doing, oms, engine
<1>2. /\ Base /\ Typed /\ Shaped /\ Watched
      /\ work = agenda[1] /\ 1 \in DOMAIN agenda /\ work \in WorkItem /\ Owes(work)
      /\ Acts(work) \cap Drops(work) = {}
  BY <1>1, Parts
<1>3. work.fired \in Seq(OrderId) /\ work.ts \in Times /\ work.gone \in SUBSET OrderId
      /\ work.moved \subseteq OrderId
  BY <1>1, <1>2, ItemFields DEF ScanItem
<1>4. /\ RowsKept
      /\ \A i \in OrderId : /\ orders'[i].status = orders[i].status
                            /\ orders'[i].filled = orders[i].filled
                            /\ orders'[i].shown = IF i \in work.moved THEN watch[i].stop
                                                  ELSE orders[i].shown
  BY <1>1, <1>2, <1>3, ShownRows
<1>5. Waits' = Waits /\ Loose' = Loose /\ Narrowed
  <2>1. Known' = Known /\ Known \subseteq OrderId BY <1>4 DEF RowsKept, Known
  <2>2. Waits' = Waits /\ Loose' = Loose BY <1>1, <1>4, <2>1 DEF Waits, Loose
  <2> QED BY <1>1, <2>2 DEF Narrowed
<1>6. PICK p, f, b : /\ p = Peers(work.gone) /\ f = work.fired
                     /\ b = [n \in DOMAIN f |-> Activate(f[n], work.ts)]
  OBVIOUS
<1>7. PICK l \in Nat : l = Len(f) BY <1>3, <1>6
<1>8. DOMAIN f = 1..l /\ \A n \in 1..l : f[n] \in OrderId BY <1>3, <1>6, <1>7
<1>9. p \in WorkItem /\ p.k = "peers" /\ Acts(p) = {} /\ Drops(p) = work.gone
  BY <1>3, <1>6, ItemTypes, ItemKinds DEF Peers, Acts, Drops
<1>10. ASSUME NEW n \in 1..l
       PROVE  /\ b[n] \in WorkItem /\ b[n].k = "activate" /\ Acts(b[n]) = {f[n]} /\ Drops(b[n]) = {}
  <2>1. b[n] = Activate(f[n], work.ts) BY <1>6, <1>8
  <2>2. Activate(f[n], work.ts) \in WorkItem BY <1>3, <1>8, ItemTypes, ItemKinds
  <2> QED BY <2>1, <2>2 DEF Activate, Acts, Drops
<1>11. b \in Seq(WorkItem) /\ DOMAIN b = 1..l BY <1>6, <1>8, <1>10
<1>12. PICK s, items : s = <<p>> /\ items = s \o b OBVIOUS
<1>13. s \in Seq(WorkItem) /\ DOMAIN s = {1} /\ s[1] = p /\ Len(s) = 1 BY <1>9, <1>12
<1>14. /\ items \in Seq(WorkItem) /\ Len(items) = l + 1 /\ DOMAIN items = 1..(l + 1)
       /\ items[1] = p /\ \A n \in 2..(l + 1) : items[n] = b[n - 1]
  <2>1. Len(b) = l BY <1>11
  <2> QED BY <1>11, <1>12, <1>13, <2>1
<1>15. /\ Acts(work) = {f[n] : n \in 1..l} /\ Drops(work) = work.gone
       /\ Acts(work) \subseteq Waits \cap Loose /\ (Acts(work) \cup Drops(work)) \cap trigBook = {}
       /\ \A m, n \in 1..l : m # n => f[m] # f[n]
  <2>1. Acts(work) = {f[n] : n \in 1..l} /\ Drops(work) = work.gone
    BY <1>1, <1>6, <1>8 DEF Acts, Drops
  <2> QED BY <1>1, <1>2, <1>6, <1>8, <2>1 DEF Owes, OwesTo
<1>16. ASSUME NEW n \in DOMAIN items
       PROVE  \/ n = 1 /\ items[n] = p
              \/ n - 1 \in 1..l /\ n # 1 /\ items[n] = b[n - 1]
  <2>1. n = 1 \/ n \in 2..(l + 1) BY <1>14
  <2> QED BY <1>14, <2>1
<1>17. ASSUME NEW n \in DOMAIN items
       PROVE  OwesTo(items[n], Waits', Loose', trigBook') /\ Acts(items[n]) \subseteq Acts(work)
              /\ Drops(items[n]) \subseteq Drops(work)
  <2>1. CASE n = 1 /\ items[n] = p
    BY <1>1, <1>9, <1>15, <2>1 DEF OwesTo
  <2>2. CASE n - 1 \in 1..l /\ n # 1 /\ items[n] = b[n - 1]
    <3>1. PICK m \in 1..l : m = n - 1 BY <2>2
    <3>2. /\ b[m].k = "activate" /\ Acts(b[m]) = {f[m]} /\ Drops(b[m]) = {} BY <1>10
    <3>3. f[m] \in Acts(work) BY <1>15
    <3> QED BY <1>1, <1>5, <1>15, <2>2, <3>1, <3>2, <3>3 DEF OwesTo
  <2> QED BY <1>16, <2>1, <2>2
<1>18. ASSUME NEW m \in DOMAIN items, NEW n \in DOMAIN items
       PROVE  /\ m # n => Acts(items[m]) \cap Acts(items[n]) = {}
              /\ Acts(items[m]) \cap Drops(items[n]) = {}
  <2>1. Acts(items[m]) \cap Drops(items[n]) = {} BY <1>2, <1>17
  <2>2. ASSUME m # n PROVE Acts(items[m]) \cap Acts(items[n]) = {}
    <3>1. CASE m = 1 \/ n = 1 BY <1>9, <1>14, <3>1
    <3>2. CASE m # 1 /\ n # 1
      <4>1. PICK x \in 1..l : x = m - 1 /\ items[m] = b[x] BY <1>16, <3>2
      <4>2. PICK y \in 1..l : y = n - 1 /\ items[n] = b[y] BY <1>16, <3>2
      <4>3. x # y BY <1>14, <2>2, <4>1, <4>2
      <4> QED BY <1>10, <1>15, <4>1, <4>2, <4>3
    <3> QED BY <3>1, <3>2
  <2> QED BY <2>1, <2>2
<1>19. Fitting(items) BY <1>17, <1>18 DEF Fitting
<1>20. BookOk(items)
  <2>1. ASSUME NEW n \in DOMAIN items PROVE items[n].k \in {"peers", "activate"}
    BY <1>9, <1>10, <1>16
  <2>2. \A n \in DOMAIN items, j \in OrderId : Part(items[n], j) = 0 BY <2>1 DEF Part
  <2>3. \A j \in OrderId : Traded(items, j) = 0 BY <1>14, <2>2, TradedNone
  <2>4. \A j \in OrderId : Part(work, j) = 0 BY <1>1, <1>2, PartType
  <2> QED BY <1>1, <1>2, <1>4, <2>3, <2>4, BookedOn
<1>21. WatchOk(items)
  <2>1. ASSUME NEW i \in Waits', i \in Acts(work) \cup Drops(work)
        PROVE  \E n \in DOMAIN items : i \in Acts(items[n]) \cup Drops(items[n])
    <3>1. CASE i \in Drops(work)
      <4>1. 1 \in DOMAIN items BY <1>14
      <4> QED BY <1>9, <1>14, <1>15, <3>1, <4>1
    <3>2. CASE i \in Acts(work)
      <4>1. PICK m \in 1..l : i = f[m] BY <1>15, <3>2
      <4>2. PICK n \in 2..(l + 1) : n - 1 = m BY <4>1
      <4>3. n \in DOMAIN items /\ items[n] = b[m] BY <1>14, <4>2
      <4> QED BY <1>10, <4>1, <4>3
    <3> QED BY <2>1, <3>1, <3>2
  <2>2. ASSUME NEW i \in trigBook' PROVE orders'[i].shown = watch'[i].stop
    <3>1. i \in OrderId /\ i \in trigBook BY <1>1, <1>2 DEF Typed, Known
    <3>2. \/ orders[i].shown = watch[i].stop
          \/ \E n \in DOMAIN agenda : agenda[n].k = "scan" /\ i \in agenda[n].moved
      BY <3>1, <1>2 DEF Watched
    <3>3. \A n \in DOMAIN agenda : agenda[n].k = "scan" => n = 1 BY <1>2 DEF Shaped
    <3>4. orders[i].shown = watch[i].stop \/ i \in work.moved BY <1>2, <3>2, <3>3
    <3> QED BY <1>1, <1>4, <3>1, <3>4
  <2> QED BY <1>1, <2>1, <2>2 DEF WatchOk
<1>22. UndoOk BY <1>1, EngineStill DEF engine
<1>23. Continue(items) BY <1>1, <1>6, <1>12
<1> QED BY <1>1, <1>5, <1>14, <1>19, <1>20, <1>21, <1>22, <1>23 DEF Keeping, Keeps

\* Appending one element.
LEMMA AppendElements ==
  ASSUME NEW f \in Seq(OrderId), NEW i \in OrderId, NEW g, g = Append(f, i)
  PROVE  /\ g \in Seq(OrderId)
         /\ {g[n] : n \in DOMAIN g} = {f[n] : n \in DOMAIN f} \cup {i}
         /\ (i \notin {f[n] : n \in DOMAIN f} /\ (\A m, n \in DOMAIN f : m # n => f[m] # f[n]))
              => \A m, n \in DOMAIN g : m # n => g[m] # g[n]
<1>1. PICK l \in Nat : l = Len(f) OBVIOUS
<1>2. /\ DOMAIN f = 1..l /\ DOMAIN g = 1..(l + 1) /\ g \in Seq(OrderId)
      /\ g[l + 1] = i /\ \A n \in 1..l : g[n] = f[n]
  BY <1>1
<1>3. \A n \in 1..(l + 1) : n = l + 1 \/ n \in 1..l OBVIOUS
<1>4. l + 1 \in 1..(l + 1) /\ 1..l \subseteq 1..(l + 1) OBVIOUS
<1>5. {g[n] : n \in DOMAIN g} = {f[n] : n \in DOMAIN f} \cup {i} BY <1>2, <1>3, <1>4
<1>6. ASSUME i \notin {f[n] : n \in DOMAIN f}, \A m, n \in DOMAIN f : m # n => f[m] # f[n],
             NEW m \in DOMAIN g, NEW n \in DOMAIN g, m # n
      PROVE  g[m] # g[n]
  BY <1>2, <1>3, <1>6
<1> QED BY <1>2, <1>5, <1>6

LEMMA ScanKeeps ==
  ASSUME Orderly, ScanStep
  PROVE  Keeping
<1>1. PICK i : i = Min(work.todo) OBVIOUS
<1>2. PICK r, w0, p, g : r = orders[i].req /\ w0 = watch[i] /\ p = work.price /\ g = orders[i].group
  OBVIOUS
<1>3. PICK moved : moved \in {work.moved, work.moved \cup {i}}
        /\ moved = (IF Ratchet(r, w0, p).stop # w0.stop THEN work.moved \cup {i} ELSE work.moved)
  OBVIOUS
<1>4. agenda # <<>> /\ work.k = "scan" /\ UNCHANGED <<orders, resting, executed>>
  BY DEF ScanStep, Doing, engine
<1>5. /\ Base /\ Typed /\ Shaped /\ Watched /\ Guarded
      /\ work = agenda[1] /\ 1 \in DOMAIN agenda /\ work \in WorkItem /\ Owes(work)
      /\ Acts(work) \cap Drops(work) = {}
  BY <1>4, Parts
<1>6. /\ work \in ScanItem /\ i \in OrderId /\ i \in Known /\ work.todo \subseteq Known
      /\ watch' = [watch EXCEPT ![i] = Ratchet(r, w0, p)]
      /\ work.moved \cup {i} \subseteq Known
  BY <1>1, <1>2, <1>5, ScanRound
<1>7. i \in trigBook BY <1>1, <1>5, ScanGuarded
<1>8. i \in Waits /\ groupOf[i] = g BY <1>2, <1>5, <1>7 DEF Watched
<1>9. /\ work.fired \in Seq(OrderId) /\ work.gone \in SUBSET OrderId
      /\ moved \in SUBSET OrderId /\ work.moved \subseteq moved
  BY <1>3, <1>6 DEF ScanItem, Known
<1>10. Waits' = Waits
  <2>1. Known' = Known BY <1>4 DEF Known
  <2> QED BY <1>4, <2>1 DEF Waits
<1>11. ASSUME NEW j \in trigBook' , j \in trigBook
       PROVE  orders'[j].shown = watch'[j].stop \/ j \in moved
  <2>1. j \in OrderId BY <1>5, <1>11 DEF Typed, Known
  <2>2. \/ orders[j].shown = watch[j].stop
        \/ \E n \in DOMAIN agenda : agenda[n].k = "scan" /\ j \in agenda[n].moved
    BY <1>5, <1>11 DEF Watched
  <2>3. \A n \in DOMAIN agenda : agenda[n].k = "scan" => n = 1 BY <1>5 DEF Shaped
  <2>4. orders[j].shown = watch[j].stop \/ j \in work.moved BY <1>5, <2>2, <2>3
  <2>5. watch \in [OrderId -> [peak : Ticks, stop : Ticks]] BY <1>5 DEF Typed
  <2>6. CASE j # i
    <3>1. watch'[j] = watch[j] BY <1>6, <2>1, <2>5, <2>6
    <3> QED BY <1>4, <1>9, <2>4, <3>1
  <2>7. CASE j = i
    <3>1. watch'[i] = Ratchet(r, w0, p) BY <1>6, <2>5
    <3>2. Ratchet(r, w0, p).stop # w0.stop => i \in moved BY <1>3
    <3> QED BY <1>2, <1>4, <1>9, <2>4, <2>7, <3>1, <3>2
  <2> QED BY <2>6, <2>7
<1>12. \A j \in OrderId : Part(work, j) = 0 BY <1>4, <1>5, PartType
<1>13. UndoOk BY <1>4, EngineStill DEF engine
<1>14. /\ Acts(work) = {work.fired[n] : n \in DOMAIN work.fired} /\ Drops(work) = work.gone
       /\ Acts(work) \subseteq Waits \cap Loose /\ (Acts(work) \cup Drops(work)) \cap trigBook = {}
       /\ \A m, n \in DOMAIN work.fired : m # n => work.fired[m] # work.fired[n]
  BY <1>4, <1>5 DEF Owes, OwesTo, Acts, Drops
<1>15. ASSUME NEW w, w \in WorkItem, w.k = "scan"
       PROVE  <<w>> \in Seq(WorkItem) /\ BookOk(<<w>>)
  <2>1. \A j \in OrderId : Traded(<<w>>, j) = Part(w, j) /\ Part(w, j) = 0
    BY <1>15, TradedOne, PartType
  <2> QED BY <1>4, <1>5, <1>12, <1>15, <2>1, BookedOn
<1>16. CASE /\ Continue(<<[work EXCEPT !.todo = work.todo \ {i}, !.moved = moved]>>)
            /\ UNCHANGED <<trigBook, groupOf>>
  <2>1. PICK w : w = [work EXCEPT !.todo = work.todo \ {i}, !.moved = moved] OBVIOUS
  <2>2. /\ w \in ScanItem /\ w.k = "scan" /\ w.fired = work.fired /\ w.gone = work.gone
        /\ w.moved = moved
    BY <1>4, <1>6, <1>9, <2>1 DEF ScanItem
  <2>3. Acts(w) = Acts(work) /\ Drops(w) = Drops(work) BY <1>4, <2>2 DEF Acts, Drops
  <2>4. Narrowed /\ Loose' = Loose BY <1>4, <1>16, Unmoved
  <2>5. OwesTo(w, Waits', Loose', trigBook')
    BY <1>10, <1>14, <1>16, <2>2, <2>3, <2>4 DEF OwesTo
  <2>6. Fitting(<<w>>) BY <1>5, <2>3, <2>5, OneFits
  <2>7. PICK s : s = <<w>> OBVIOUS
  <2>8. DOMAIN s = {1} /\ s[1] = w BY <2>7
  <2>9. WatchOk(s) BY <1>4, <1>11, <1>16, <2>2, <2>3, <2>8 DEF WatchOk
  <2>10. w \in WorkItem BY <2>2, ItemKinds
  <2> QED BY <1>4, <1>13, <1>15, <1>16, <2>1, <2>2, <2>4, <2>6, <2>7, <2>9, <2>10 DEF Keeping, Keeps
<1>17. CASE /\ LeaveGroup(g, i)
            /\ Continue(<<[work EXCEPT !.todo = work.todo \ {i}, !.moved = moved,
                             !.fired = Append(work.fired, i),
                             !.gone = work.gone \cup (members[g] \ {i})]>>)
  <2>1. PICK fired, gone : fired = Append(work.fired, i) /\ gone = work.gone \cup (members[g] \ {i})
    OBVIOUS
  <2>2. PICK w : w = [work EXCEPT !.todo = work.todo \ {i}, !.moved = moved,
                        !.fired = fired, !.gone = gone]
    OBVIOUS
  <2>3. PeersOf(i) = members[g] \ {i}
    BY <1>5, <1>8 DEF PeersOf, Base, Grouped
  <2>4. /\ trigBook' \subseteq trigBook /\ i \notin trigBook'
        /\ trigBook \subseteq trigBook' \cup PeersOf(i) \cup {i}
        /\ PeersOf(i) \cap trigBook' = {} /\ PeersOf(i) \cap Loose = {}
        /\ Loose \subseteq Loose' /\ \A j \in trigBook' : groupOf'[j] = groupOf[j]
        /\ PeersOf(i) \subseteq OrderId /\ i \notin PeersOf(i)
    BY <1>5, <1>6, <1>8, <1>17, GroupLeft
  <2>5. i \in Loose'
    <3>1. groupOf' = [j \in OrderId |-> IF j \in (members[g] \ {i}) \cup {i} THEN NoGroup ELSE groupOf[j]]
      BY <1>17 DEF LeaveGroup
    <3>2. groupOf'[i] = NoGroup BY <1>6, <3>1
    <3> QED BY <1>6, <3>2 DEF Loose
  <2>6. i \notin Acts(work) /\ i \notin Drops(work) BY <1>7, <1>14
  <2>7. /\ fired \in Seq(OrderId)
        /\ {fired[n] : n \in DOMAIN fired} = Acts(work) \cup {i}
        /\ \A m, n \in DOMAIN fired : m # n => fired[m] # fired[n]
    BY <1>6, <1>9, <1>14, <2>1, <2>6, AppendElements
  <2>8. gone \in SUBSET OrderId /\ gone = Drops(work) \cup PeersOf(i)
    BY <1>9, <1>14, <2>1, <2>3, <2>4
  <2>9. w \in ScanItem /\ w.k = "scan" /\ w.fired = fired /\ w.gone = gone /\ w.moved = moved
    BY <1>4, <1>6, <1>9, <2>2, <2>7, <2>8 DEF ScanItem
  <2>10. Acts(w) = Acts(work) \cup {i} /\ Drops(w) = Drops(work) \cup PeersOf(i)
    <3>1. Acts(w) = {w.fired[n] : n \in DOMAIN w.fired} /\ Drops(w) = w.gone
      BY <2>9 DEF Acts, Drops
    <3> QED BY <2>7, <2>8, <2>9, <3>1
  <2>11. Narrowed BY <1>10, <2>4 DEF Narrowed
  <2>12. OwesTo(w, Waits', Loose', trigBook')
    <3>1. Acts(w) \subseteq Waits' \cap Loose' BY <1>8, <1>10, <1>14, <2>4, <2>5, <2>10
    <3>2. (Acts(w) \cup Drops(w)) \cap trigBook' = {} BY <1>14, <2>4, <2>10
    <3> QED BY <2>7, <2>9, <3>1, <3>2 DEF OwesTo
  <2>13. Fitting(<<w>>)
    <3>1. Acts(w) \cap Drops(w) = {} BY <1>5, <1>14, <2>4, <2>6, <2>10
    <3>2. Acts(w) \subseteq Acts(work) \cup trigBook BY <1>7, <2>10
    <3>3. Drops(w) \cap Waits \cap Loose \subseteq Drops(work) \cup trigBook BY <2>4, <2>10
    <3> QED BY <2>12, <3>1, <3>2, <3>3, OneFits
  <2>14. PICK s : s = <<w>> OBVIOUS
  <2>15. DOMAIN s = {1} /\ s[1] = w BY <2>14
  <2>16. WatchOk(s)
    <3>1. \A j \in Waits' : j \in trigBook \cup Acts(work) \cup Drops(work) =>
            j \in trigBook' \/ j \in Acts(w) \cup Drops(w)
      BY <2>4, <2>10
    <3> QED BY <1>4, <1>11, <2>4, <2>9, <2>15, <3>1 DEF WatchOk
  <2>17. w \in WorkItem BY <2>9, ItemKinds
  <2>18. Continue(s) BY <1>17, <2>1, <2>2, <2>14
  <2> QED BY <1>4, <1>13, <1>15, <2>9, <2>11, <2>13, <2>14, <2>16, <2>17, <2>18 DEF Keeping, Keeps
<1>18. \/ /\ Continue(<<[work EXCEPT !.todo = work.todo \ {i}, !.moved = moved]>>)
          /\ UNCHANGED <<trigBook, groupOf>>
       \/ /\ LeaveGroup(g, i)
          /\ Continue(<<[work EXCEPT !.todo = work.todo \ {i}, !.moved = moved,
                           !.fired = Append(work.fired, i),
                           !.gone = work.gone \cup (members[g] \ {i})]>>)
  BY <1>1, <1>2, <1>3, <1>7 DEF ScanStep
<1> QED BY <1>16, <1>17, <1>18

LEMMA CancelKeeps ==
  ASSUME Orderly, CancelStep
  PROVE  Narrowed /\ UndoOk /\ Undone'
         /\ \E items \in Seq(WorkItem) : Keeps(items) /\ Carried(items)
<1>1. PICK i : i = work.id OBVIOUS
<1>2. agenda # <<>> /\ work.k = "cancel" BY DEF CancelStep, Doing
<1>3. /\ Base /\ Typed /\ Shaped /\ Watched
      /\ work = agenda[1] /\ 1 \in DOMAIN agenda /\ work \in WorkItem /\ Names(work)
  BY <1>2, Parts
<1>4. i \in Known /\ i \in OrderId BY <1>1, <1>2, <1>3 DEF Names, NamesIn, Known
<1>5. DOMAIN agenda = {1} /\ Len(agenda) = 1
  <2>1. Len(agenda) = 1 BY <1>2, <1>3 DEF Shaped
  <2> QED BY <1>3, <1>2, <2>1, RunningOk
<1>6. Acts(work) = {} /\ Drops(work) = {} BY <1>2 DEF Acts, Drops
<1>7. \A j \in OrderId : Part(work, j) = 0 BY <1>2, <1>3, PartType
<1>8. trigBook \subseteq OrderId BY <1>3 DEF Typed, Known
<1>9. /\ i \in Waits <=> orders[i].status = "UNTRIGGERED"
      /\ i \in Waits => resting[i] = 0
  BY <1>3, <1>4 DEF Waits, Watched
\* What each branch has in common.
<1>10. ASSUME NEW items \in Seq(WorkItem), Continue(items), Fitting(items), Narrowed,
              RowsKept, UNCHANGED <<watch, executed>>,
              \A n \in DOMAIN items : items[n].k = "peers",
              \A j \in OrderId : Traded(items, j) = 0,
              \A j \in OrderId : /\ orders'[j].filled = orders[j].filled
                                 /\ orders'[j].shown = orders[j].shown
                                 /\ resting'[j] \in {resting[j], 0},
              \A j \in trigBook' : groupOf'[j] = groupOf[j],
              \A j \in Waits' : resting'[j] = resting[j],
              \A j \in Waits' : j \in trigBook =>
                j \in trigBook' \/ \E n \in DOMAIN items : j \in Drops(items[n]),
              orders[i].status \in {"PENDING", "OPEN", "UNTRIGGERED"} =>
                resting'[i] = 0 /\ i \notin trigBook'
       PROVE  Narrowed /\ UndoOk /\ Undone' /\ Keeps(items) /\ Carried(items)
  <2>1. BookOk(items) BY <1>3, <1>7, <1>10, BookedOn
  <2>2. \A j \in trigBook' : groupOf'[j] = groupOf[j] /\ orders'[j].shown = watch'[j].stop
    BY <1>2, <1>3, <1>8, <1>10, WatchedOn DEF Narrowed
  <2>3. WatchOk(items) BY <1>6, <1>10, <2>2 DEF WatchOk
  <2>4. UndoOk BY <1>10 DEF UndoOk
  <2>5. Carried(items) BY <1>10 DEF Carried, Timed
  <2>6. ASSUME NEW n \in DOMAIN agenda' PROVE agenda'[n].k = "peers" /\ Acts(agenda'[n]) = {}
    <3>1. n \in DOMAIN items /\ agenda'[n] = items[n]
      <4>1. \A m \in DOMAIN agenda : ~(m > 1) BY <1>5
      <4> QED BY <1>2, <1>3, <1>10, <4>1, ContinueAgenda DEF Typed
    <3> QED BY <1>10, <3>1 DEF Acts
  <2>7. ASSUME NEW j \in Known', Lone(j)' PROVE executed'[j] = 0 /\ Settled(j)'
    <3>1. j \in Known /\ Lone(j) /\ j \in OrderId BY <1>10, <2>7, LoneStays DEF RowsKept, Known
    <3>2. executed[j] = 0 /\ (Undoing(j) \/ Settled(j))
      BY <3>1 DEF Orderly, Undone, Undoing, Settled
    <3>3. CASE Settled(j) BY <1>2, <1>3, <1>10, <2>4, <3>1, <3>2, <3>3, SettledKept
    <3>4. CASE Undoing(j)
      <4>1. j = i /\ orders[i].status \in {"PENDING", "OPEN", "UNTRIGGERED"}
        BY <1>1, <1>2, <1>3, <1>5, <3>4 DEF Undoing
      <4> QED BY <1>10, <2>6, <3>2, <4>1 DEF Settled
    <3> QED BY <3>2, <3>3, <3>4
  <2>8. Undone' BY <2>6, <2>7 DEF Undone, Settled
  <2> QED BY <1>2, <1>10, <2>1, <2>3, <2>4, <2>5, <2>8 DEF Keeps
<1>11. CASE orders[i].status \in {"FILLED", "CANCELED", "REJECTED"}
            /\ Raise /\ UNCHANGED <<orders, oms, engine>>
  <2>1. RowsKept BY <1>3, <1>11, SameRows
  <2>2. \A n \in DOMAIN agenda : agenda[n].k # "rollback" BY <1>2, <1>3, <1>5
  <2>3. agenda' = <<>> BY <1>3, <1>11, <2>1, <2>2, RaisedAgenda DEF RowsKept
  <2>4. Continue(<<>>)
    <3>1. PICK t : t = Tail(agenda) OBVIOUS
    <3>2. t \in Seq(WorkItem) /\ Len(t) = 0 BY <1>2, <1>3, <1>5, <3>1 DEF Typed
    <3>3. t = <<>> BY <3>2
    <3> QED BY <2>3, <3>1, <3>3 DEF Continue
  <2>5. UNCHANGED <<orders, trigBook, groupOf, watch, resting, executed>>
    BY <1>11 DEF oms, engine
  <2>6. Narrowed /\ Waits' = Waits BY <2>5, Unmoved
  <2>7. PICK s : s = <<>> OBVIOUS
  <2>8. DOMAIN s = {} /\ s \in Seq(WorkItem) /\ Fitting(s) /\ Continue(s)
        /\ \A j : Traded(s, j) = 0
    BY <2>4, <2>7, NothingFits
  <2> QED BY <1>10, <1>11, <2>1, <2>5, <2>6, <2>8
<1>12. CASE /\ orders[i].status = "UNTRIGGERED" /\ UNCHANGED <<orders, watch, engine>>
            /\ Continue(<<Peers(PeersOf(i) \cup ({i} \cap trigBook))>>)
            /\ LeaveGroup(groupOf[i], i)
  <2>1. RowsKept BY <1>3, <1>12, SameRows
  <2>2. PICK S, P : S = P \cup ({i} \cap trigBook) /\ P = PeersOf(i) OBVIOUS
  <2>3. /\ trigBook' \subseteq trigBook /\ i \notin trigBook'
        /\ trigBook \subseteq trigBook' \cup P \cup {i}
        /\ P \cap trigBook' = {} /\ P \cap Loose = {}
        /\ Loose \subseteq Loose' /\ \A j \in trigBook' : groupOf'[j] = groupOf[j]
        /\ P \subseteq OrderId
    BY <1>3, <1>4, <1>12, <2>2, GroupLeft
  <2>4. Waits' = Waits
    <3>1. Known' = Known BY <2>1 DEF RowsKept
    <3> QED BY <1>12, <3>1 DEF Waits
  <2>5. Narrowed BY <2>3, <2>4 DEF Narrowed
  <2>6. PICK s : s = <<Peers(S)>> OBVIOUS
  <2>7. /\ s \in Seq(WorkItem) /\ Fitting(s) /\ \A j : Traded(s, j) = 0
        /\ \A j : j \in S <=> \E n \in DOMAIN s : j \in Drops(s[n])
    <3>1. S \in SUBSET OrderId BY <1>4, <2>2, <2>3
    <3>2. S \cap trigBook' = {} BY <2>2, <2>3
    <3>3. S \cap Waits \cap Loose \subseteq Drops(work) \cup trigBook BY <2>2, <2>3
    <3> QED BY <2>6, <3>1, <3>2, <3>3, PeersFit
  <2>8. \A n \in DOMAIN s : s[n].k = "peers"
    <3>1. DOMAIN s = {1} /\ s[1] = Peers(S) BY <2>6
    <3> QED BY <3>1 DEF Peers
  <2>9. Continue(s) BY <1>12, <2>2, <2>6
  <2>10. \A j \in trigBook : j \in trigBook' \/ \E n \in DOMAIN s : j \in Drops(s[n])
    BY <2>2, <2>3, <2>7
  <2>11. resting'[i] = 0 /\ UNCHANGED <<resting, executed, watch>> BY <1>9, <1>12 DEF engine
  <2> QED BY <1>10, <1>12, <2>1, <2>3, <2>5, <2>7, <2>8, <2>9, <2>10, <2>11
<1>13. CASE /\ orders[i].status # "UNTRIGGERED" /\ EngineCancel(i) /\ UNCHANGED <<watch, executed>>
            /\ Continue(<<Peers(PeersOf(i))>>)
            /\ LeaveGroup(groupOf[i], i)
  <2>1. /\ RowsKept /\ resting' = [resting EXCEPT ![i] = 0]
        /\ \A j \in OrderId : /\ j # i => orders'[j] = orders[j]
                              /\ orders'[j].filled = orders[j].filled
                              /\ orders'[j].shown = orders[j].shown
        /\ orders'[i].status \in {orders[i].status, "CANCELED"}
    BY <1>3, <1>4, <1>13, CancelRows
  <2>2. PICK S : S = PeersOf(i) OBVIOUS
  <2>3. /\ trigBook' \subseteq trigBook /\ i \notin trigBook'
        /\ trigBook \subseteq trigBook' \cup S \cup {i}
        /\ S \cap trigBook' = {} /\ S \cap Loose = {}
        /\ Loose \subseteq Loose' /\ \A j \in trigBook' : groupOf'[j] = groupOf[j]
        /\ S \in SUBSET OrderId
    BY <1>3, <1>4, <1>13, <2>2, GroupLeft
  <2>4. Waits' = Waits /\ i \notin Waits
    <3>1. /\ \A j \in OrderId : j # i => (j \in Waits' <=> j \in Waits)
          /\ i \notin Waits' /\ i \notin Waits
      BY <1>4, <1>13, <2>1, MovedOne
    <3>2. Waits' \subseteq OrderId /\ Waits \subseteq OrderId BY DEF Waits, Known
    <3> QED BY <3>1, <3>2
  <2>5. Narrowed BY <2>3, <2>4 DEF Narrowed
  <2>6. PICK s : s = <<Peers(S)>> OBVIOUS
  <2>7. /\ s \in Seq(WorkItem) /\ Fitting(s) /\ \A j : Traded(s, j) = 0
        /\ \A j : j \in S <=> \E n \in DOMAIN s : j \in Drops(s[n])
    BY <2>3, <2>6, PeersFit
  <2>8. \A n \in DOMAIN s : s[n].k = "peers"
    <3>1. DOMAIN s = {1} /\ s[1] = Peers(S) BY <2>6
    <3> QED BY <3>1 DEF Peers
  <2>9. Continue(s) BY <1>13, <2>2, <2>6
  <2>10. \A j \in Waits' : j \in trigBook =>
           j \in trigBook' \/ \E n \in DOMAIN s : j \in Drops(s[n])
    BY <2>3, <2>4, <2>7
  <2>11. /\ resting'[i] = 0 /\ \A j \in OrderId : j # i => resting'[j] = resting[j]
         /\ \A j \in OrderId : resting'[j] \in {resting[j], 0}
    <3>1. resting \in [OrderId -> Nat] BY <1>3 DEF Typed
    <3> QED BY <1>4, <2>1, <3>1
  <2>12. \A j \in Waits' : resting'[j] = resting[j]
    <3>1. Waits' \subseteq OrderId BY <2>4 DEF Waits, Known
    <3> QED BY <2>4, <2>11, <3>1
  <2> QED BY <1>10, <1>13, <2>1, <2>3, <2>5, <2>7, <2>8, <2>9, <2>10, <2>11, <2>12
<1>14. \/ orders[i].status \in {"FILLED", "CANCELED", "REJECTED"}
          /\ Raise /\ UNCHANGED <<orders, oms, engine>>
       \/ /\ orders[i].status = "UNTRIGGERED" /\ UNCHANGED <<orders, watch, engine>>
          /\ Continue(<<Peers(PeersOf(i) \cup ({i} \cap trigBook))>>)
          /\ LeaveGroup(groupOf[i], i)
       \/ /\ orders[i].status # "UNTRIGGERED" /\ EngineCancel(i) /\ UNCHANGED <<watch, executed>>
          /\ Continue(<<Peers(PeersOf(i))>>)
          /\ LeaveGroup(groupOf[i], i)
  BY <1>1 DEF CancelStep
<1> QED BY <1>11, <1>12, <1>13, <1>14

\* What an engine call for order i trades is in the items it pushes; nobody trades more
\* than it had in the book, and i not more than its quantity.
EngineMoves(items, i, qty) ==
  \A m \in OrderId :
    /\ executed'[m] = executed[m] + Traded(items, m)
    /\ m # i => /\ executed'[m] + resting'[m] <= executed[m] + resting[m]
                /\ resting[m] = 0 => executed'[m] = executed[m] /\ resting'[m] = 0
    /\ m = i => executed'[m] + resting'[m] <= qty

LEMMA EngineBooks ==
  ASSUME Base, NEW i \in Known, NEW r, r = orders[i].req, NEW ts \in Times,
         executed[i] = 0, resting[i] = 0, EngineSubmit(i, r, ts)
  PROVE  \E items \in Seq(WorkItem) :
           /\ Continue(items) /\ \A n \in DOMAIN items : EngineItem(items[n], i, ts)
           /\ EngineMoves(items, i, r.qty)
<1>1. /\ i \in OrderId /\ r \in Request
      /\ resting \in [OrderId -> Nat] /\ executed \in [OrderId -> Nat]
  BY DEF Base, Typed, Known
<1>2. r.qty \in Nat BY <1>1, Numbers DEF Request
<1>3. CASE Continue(<<Item("rejected", i)>>) /\ UNCHANGED engine
  <2>1. PICK w : w = Item("rejected", i) OBVIOUS
  <2>2. w \in WorkItem /\ EngineItem(w, i, ts)
    BY <1>1, <2>1, ItemTypes, ItemKinds DEF EngineItem
  <2>3. PICK items : items = <<w>> OBVIOUS
  <2>4. items \in Seq(WorkItem) /\ \A n \in DOMAIN items : EngineItem(items[n], i, ts)
    BY <2>2, <2>3
  <2>5. \A m : Part(w, m) = 0 BY <2>1 DEF Part, Item
  <2>6. \A m : Traded(items, m) = 0 BY <2>2, <2>3, <2>5, TradedOne
  <2>7. UNCHANGED <<resting, executed>> BY <1>3 DEF engine
  <2>8. EngineMoves(items, i, r.qty) BY <1>1, <1>2, <2>6, <2>7 DEF EngineMoves
  <2> QED BY <1>3, <2>1, <2>3, <2>4, <2>8
<1>4. ASSUME NEW fills \in Fills(i, r), NEW rests \in MayRest(r), NEW left,
             left = r.qty - Amount(fills),
             resting' = [m \in OrderId |-> IF m = i THEN IF rests THEN left ELSE 0
                                           ELSE resting[m] - LostBy(fills, m)],
             executed' = [m \in OrderId |-> IF m = i THEN Amount(fills)
                                            ELSE executed[m] + TradedBy(fills, m)],
             Continue(<<Item("accepted", i)>>
                      \o [n \in DOMAIN fills |-> FillEvent(i, r, fills[n], ts)]
                      \o Remainder(i, rests, left))
      PROVE  \E items \in Seq(WorkItem) :
               /\ Continue(items) /\ \A n \in DOMAIN items : EngineItem(items[n], i, ts)
               /\ EngineMoves(items, i, r.qty)
  <2>1. rests \in BOOLEAN BY <1>4 DEF MayRest
  <2>2. PICK items : items = <<Item("accepted", i)>>
                             \o [n \in DOMAIN fills |-> FillEvent(i, r, fills[n], ts)]
                             \o Remainder(i, rests, left)
    OBVIOUS
  <2>3. items \in Seq(WorkItem) /\ \A n \in DOMAIN items : EngineItem(items[n], i, ts)
    BY <1>1, <2>1, <2>2, EngineItems
  <2>4. ASSUME NEW m \in OrderId
        PROVE  Traded(items, m) = IF m = i THEN Amount(fills) ELSE TradedBy(fills, m)
    <3>1. orders[i].req = r /\ i \in OrderId /\ resting \in [OrderId -> Nat] BY <1>1
    <3>2. items = EngineOutput(i, r, fills, rests, left, ts) BY <2>2 DEF EngineOutput
    <3> QED BY <2>1, <3>1, <3>2, EngineTraded
  <2>5. Amount(fills) \in Nat /\ Amount(fills) <= r.qty BY AmountType, FillsAre
  <2>6. executed'[i] = executed[i] + Traded(items, i) /\ executed'[i] + resting'[i] <= r.qty
    <3>1. PICK a \in Nat, q \in Nat : a = Amount(fills) /\ q = r.qty BY <1>2, <2>5
    <3>2. a <= q /\ left = q - a BY <1>4, <2>5, <3>1
    <3>3. executed'[i] = a /\ resting'[i] = IF rests THEN left ELSE 0 BY <1>1, <1>4, <3>1
    <3>4. Traded(items, i) = a BY <1>1, <2>4, <3>1
    <3> QED BY <3>1, <3>2, <3>3, <3>4
  <2>7. ASSUME NEW m \in OrderId, m # i
        PROVE  /\ executed'[m] = executed[m] + Traded(items, m)
               /\ executed'[m] + resting'[m] <= executed[m] + resting[m]
               /\ resting[m] = 0 => executed'[m] = executed[m] /\ resting'[m] = 0
    <3>1. PICK t, l, e, s : t = TradedBy(fills, m) /\ l = LostBy(fills, m)
                            /\ e = executed[m] /\ s = resting[m]
      OBVIOUS
    <3>2. e \in Nat /\ s \in Nat BY <1>1, <3>1
    <3>3. executed'[m] = e + t /\ resting'[m] = s - l /\ Traded(items, m) = t
      BY <1>4, <2>4, <2>7, <3>1
    <3>4. /\ t \in Nat /\ l \in Nat /\ t <= l /\ l <= s
      <4>1. CASE \E n \in DOMAIN fills : fills[n].maker = m
        <5>1. PICK n \in DOMAIN fills : fills[n].maker = m BY <4>1
        <5>2. PICK q : q = fills[n].qty OBVIOUS
        <5>3. t = q /\ l = IF q = 0 THEN s ELSE q BY <3>1, <5>1, <5>2, MakersFill
        <5>4. q \in Nat /\ q <= s BY <3>1, <5>1, <5>2, FillsAre, Numbers
        <5> QED BY <3>2, <5>3, <5>4
      <4>2. CASE ~ \E n \in DOMAIN fills : fills[n].maker = m
        <5>1. t = 0 /\ l = 0 BY <3>1, <4>2, MakersFill
        <5> QED BY <3>2, <5>1
      <4> QED BY <4>1, <4>2
    <3>5. e + t + (s - l) <= e + s /\ (s = 0 => t = 0 /\ l = 0) BY <3>2, <3>4
    <3> QED BY <3>1, <3>2, <3>3, <3>4, <3>5
  <2>8. EngineMoves(items, i, r.qty) BY <2>6, <2>7 DEF EngineMoves
  <2> QED BY <1>4, <2>2, <2>3, <2>8
<1>5. CASE \E fills \in Fills(i, r), rests \in MayRest(r) :
             LET left == r.qty - Amount(fills) IN
             /\ resting' = [m \in OrderId |-> IF m = i THEN IF rests THEN left ELSE 0
                                              ELSE resting[m] - LostBy(fills, m)]
             /\ executed' = [m \in OrderId |-> IF m = i THEN Amount(fills)
                                               ELSE executed[m] + TradedBy(fills, m)]
             /\ Continue(<<Item("accepted", i)>>
                         \o [n \in DOMAIN fills |-> FillEvent(i, r, fills[n], ts)]
                         \o Remainder(i, rests, left))
  <2>1. PICK fills \in Fills(i, r), rests \in MayRest(r) :
             LET left == r.qty - Amount(fills) IN
             /\ resting' = [m \in OrderId |-> IF m = i THEN IF rests THEN left ELSE 0
                                              ELSE resting[m] - LostBy(fills, m)]
             /\ executed' = [m \in OrderId |-> IF m = i THEN Amount(fills)
                                               ELSE executed[m] + TradedBy(fills, m)]
             /\ Continue(<<Item("accepted", i)>>
                         \o [n \in DOMAIN fills |-> FillEvent(i, r, fills[n], ts)]
                         \o Remainder(i, rests, left))
    BY <1>5
  <2>2. PICK left : left = r.qty - Amount(fills) OBVIOUS
  <2> QED BY <1>4, <2>1, <2>2
<1> QED BY <1>3, <1>5 DEF EngineSubmit

LEMMA ActivateKeeps ==
  ASSUME Orderly, ActivateStep
  PROVE  Keeping
<1>1. PICK i, r, ts : i = work.id /\ r = orders[i].req /\ ts = work.ts OBVIOUS
<1>2. /\ agenda # <<>> /\ work.k = "activate" /\ EngineSubmit(i, r, ts)
      /\ UNCHANGED <<trigBook, watch, groupOf>>
      /\ IF orders[i].status = "UNTRIGGERED" THEN SetStatus(i, "TRIGGERED") ELSE UNCHANGED orders
  BY <1>1 DEF ActivateStep, Doing, oms
<1>3. /\ Base /\ Typed /\ Shaped /\ Watched
      /\ work = agenda[1] /\ 1 \in DOMAIN agenda /\ work \in WorkItem /\ Owes(work)
  BY <1>2, Parts
<1>4. Acts(work) = {i} /\ Drops(work) = {} BY <1>1, <1>2 DEF Acts, Drops
<1>5. i \in Waits /\ i \in Known /\ i \in OrderId /\ executed[i] = 0 /\ resting[i] = 0
      /\ orders[i].status = "UNTRIGGERED" /\ ts \in Times
  <2>1. i \in Waits BY <1>3, <1>4 DEF Owes, OwesTo
  <2>2. ts \in Times BY <1>1, <1>2, <1>3, ItemFields DEF ActivateItem
  <2> QED BY <1>3, <2>1, <2>2 DEF Waits, Known, Watched
<1>6. /\ RowsKept /\ orders'[i].status = "TRIGGERED"
      /\ \A j \in OrderId : /\ j # i => orders'[j] = orders[j]
                            /\ orders'[j].filled = orders[j].filled
                            /\ orders'[j].shown = orders[j].shown
  <2>1. "TRIGGERED" \in Status \ {"NONE"} BY DEF Status
  <2> QED BY <1>2, <1>3, <1>5, <2>1, StatusRows
<1>7. Waits' = Waits \ {i} /\ Loose' = Loose
  <2>1. /\ \A j \in OrderId : j # i => (j \in Waits' <=> j \in Waits)
        /\ i \notin Waits'
    BY <1>5, <1>6, MovedOne
  <2>2. Waits' \subseteq OrderId /\ Waits \subseteq OrderId BY DEF Waits, Known
  <2>3. Loose' = Loose BY <1>2 DEF Loose
  <2> QED BY <2>1, <2>2, <2>3
<1>8. Narrowed BY <1>2, <1>4, <1>7 DEF Narrowed
<1>9. PICK items \in Seq(WorkItem) :
        /\ Continue(items) /\ \A n \in DOMAIN items : EngineItem(items[n], i, ts)
        /\ EngineMoves(items, i, r.qty)
  BY <1>1, <1>2, <1>3, <1>5, EngineBooks
<1>10. \A j \in Waits' : j \in OrderId /\ j # i /\ resting[j] = 0
  BY <1>3, <1>7 DEF Watched, Waits, Known
<1>11. ASSUME NEW n \in DOMAIN items
       PROVE  /\ items[n].k \notin {"activate", "scan", "peers"}
              /\ OwesTo(items[n], Waits', Loose', trigBook')
  <2>1. PICK w : w = items[n] OBVIOUS
  <2>2. EngineItem(w, i, ts) BY <1>9, <2>1
  <2>3. ASSUME NEW m, m \in Known => resting[m] > 0, m \in Known \cup {NoOrder} PROVE m \notin Waits'
    BY <1>10, <2>3, Numbers DEF Known
  <2>4. /\ w.k \in {"accepted", "rejected", "canceled", "trade"}
        /\ w.k # "trade" => w.id \notin Waits'
        /\ w.k = "trade" => w.buy \notin Waits' /\ w.sell \notin Waits'
    <3>1. CASE w \in {Item("accepted", i), Item("rejected", i), Item("canceled", i)}
      BY <1>7, <3>1 DEF Item
    <3>2. CASE \E m \in Known : w = Item("canceled", m) /\ resting[m] > 0
      BY <2>3, <3>2 DEF Item
    <3>3. CASE \E m \in Known \cup {NoOrder}, q \in Nat, p \in Prices :
                 /\ w = Trade(i, m, q, p, ts) \/ w = Trade(m, i, q, p, ts)
                 /\ m \in Known => resting[m] > 0
      BY <1>7, <2>3, <3>3 DEF Trade
    <3> QED BY <2>2, <3>1, <3>2, <3>3 DEF EngineItem
  <2>5. Acts(w) = {} /\ Drops(w) = {} BY <2>4 DEF Acts, Drops
  <2> QED BY <2>1, <2>4, <2>5 DEF OwesTo
<1>12. Fitting(items) BY <1>11, PlainFits
<1>13. WatchOk(items)
  <2>1. \A j \in trigBook' : groupOf'[j] = groupOf[j] /\ orders'[j].shown = watch'[j].stop
    <3>1. trigBook \subseteq OrderId BY <1>3 DEF Typed, Known
    <3> QED BY <1>2, <1>3, <1>6, <3>1, WatchedOn
  <2>2. \A j \in Waits' : executed'[j] = executed[j] /\ resting'[j] = resting[j]
    BY <1>9, <1>10 DEF EngineMoves
  <2>3. \A j \in Waits' : j \in trigBook \cup Acts(work) \cup Drops(work) => j \in trigBook'
    BY <1>2, <1>4, <1>10
  <2> QED BY <2>1, <2>2, <2>3 DEF WatchOk
<1>14. BookOk(items)
  <2>1. ASSUME NEW m \in OrderId
        PROVE  /\ executed'[m] + orders[m].filled + Part(work, m)
                    = executed[m] + orders'[m].filled + Traded(items, m)
               /\ executed'[m] + resting'[m] <= executed[m] + resting[m]
                  \/ (m \in Known /\ executed'[m] + resting'[m] <= orders[m].req.qty)
    <3>1. executed[m] \in Nat /\ orders[m].filled \in Nat BY <1>3 DEF Typed, OrderRow
    <3>2. Traded(items, m) \in Nat BY TradedType
    <3>3. Part(work, m) = 0 BY <1>2, <1>3, PartType
    <3>4. executed'[m] = executed[m] + Traded(items, m) /\ orders'[m].filled = orders[m].filled
      BY <1>6, <1>9 DEF EngineMoves
    <3>5. PICK e \in Nat, f \in Nat, t \in Nat :
            e = executed[m] /\ f = orders[m].filled /\ t = Traded(items, m)
      BY <3>1, <3>2
    <3>6. e + t + f + 0 = e + f + t BY <3>5
    <3>7. \/ m # i /\ executed'[m] + resting'[m] <= executed[m] + resting[m]
          \/ m = i /\ executed'[m] + resting'[m] <= orders[m].req.qty
      BY <1>1, <1>9 DEF EngineMoves
    <3> QED BY <1>5, <3>3, <3>4, <3>5, <3>6, <3>7
  <2> QED BY <2>1 DEF BookOk
<1>15. UndoOk BY <1>4, <1>9 DEF UndoOk, EngineMoves
<1> QED BY <1>2, <1>8, <1>9, <1>12, <1>13, <1>14, <1>15 DEF Keeping, Keeps

\* The agenda after a step tells what was pushed.
LEMMA SameItems ==
  ASSUME agenda \in Seq(WorkItem), agenda # <<>>,
         NEW a \in Seq(WorkItem), Continue(a), NEW b \in Seq(WorkItem), Continue(b)
  PROVE  a = b
<1>1. PICK l \in Nat, m \in Nat, k \in Nat \ {0} : l = Len(a) /\ m = Len(b) /\ k = Len(agenda)
  OBVIOUS
<1>2. Len(agenda') = l + k - 1 /\ \A n \in DOMAIN a : agenda'[n] = a[n] BY <1>1, ContinueAgenda
<1>3. Len(agenda') = m + k - 1 /\ \A n \in DOMAIN b : agenda'[n] = b[n] BY <1>1, ContinueAgenda
<1>4. l = m BY <1>2, <1>3
<1>5. DOMAIN a = DOMAIN b
  <2>1. DOMAIN a = 1..Len(a) /\ DOMAIN b = 1..Len(b) OBVIOUS
  <2> QED BY <1>1, <1>4, <2>1
<1>6. \A n \in DOMAIN a : a[n] = b[n] BY <1>2, <1>3, <1>5
<1> QED BY <1>5, <1>6

LEMMA CalmKept ==
  ASSUME Base, Calm, RowsKept, agenda # <<>>, NEW items \in Seq(WorkItem), Continue(items),
         Carried(items)
  PROVE  Calm'
<1>1. work = agenda[1] /\ 1 \in DOMAIN agenda BY RunningOk
<1>2. \A i \in Known' : Quietly(orders'[i].req)
  <2>1. Known' = Known /\ Known \subseteq OrderId BY DEF RowsKept, Known
  <2> QED BY <2>1 DEF Calm, RowsKept
<1>3. ASSUME NEW n \in DOMAIN agenda'
      PROVE  /\ agenda'[n].k \in {"submit", "second"} => Quietly(agenda'[n].req)
             /\ Timed(agenda'[n])
  <2>1. \/ n \in DOMAIN items /\ agenda'[n] = items[n]
        \/ \E m \in DOMAIN agenda : agenda'[n] = agenda[m]
    BY ContinueAgenda DEF Base, Typed
  <2>2. Timed(work) BY <1>1 DEF Calm
  <2>3. CASE n \in DOMAIN items /\ agenda'[n] = items[n] BY <2>2, <2>3 DEF Carried
  <2>4. CASE \E m \in DOMAIN agenda : agenda'[n] = agenda[m] BY <2>4 DEF Calm
  <2> QED BY <2>1, <2>3, <2>4
<1>4. \A r : Quietly(r)' <=> Quietly(r) BY DEF Quietly
<1>5. \A w : Timed(w)' <=> Timed(w) BY DEF Timed
<1> QED BY <1>2, <1>3, <1>4, <1>5 DEF Calm

LEMMA Assembled ==
  ASSUME Orderly, Guarded', Undone', RowsKept, agenda # <<>>, UNCHANGED pending, Narrowed,
         NEW items \in Seq(WorkItem), Keeps(items), Carried(items)
  PROVE  Orderly'
<1>1. Base /\ Watched /\ Owed /\ Booking /\ Calm /\ Base' BY DEF Orderly, Guarded
<1>2. Continue(items) /\ Fitting(items) /\ WatchOk(items) /\ BookOk(items) BY DEF Keeps
<1>3. Owed' BY <1>1, <1>2, OwedKept
<1>4. Watched' BY <1>1, <1>2, WatchedKept
<1>5. Booking' BY <1>1, <1>2, BookingKept
<1>6. Calm' BY <1>1, <1>2, CalmKept
<1> QED BY <1>3, <1>4, <1>5, <1>6 DEF Orderly

\* What the steps of the handlers do but for those of a submission.
Does(items) == RowsKept /\ Narrowed /\ UndoOk /\ Keeps(items) /\ Carried(items)

LEMMA WorkDoes ==
  ASSUME Orderly, Work, ~SubmitStep, ~SecondStep
  PROVE  /\ agenda # <<>> /\ work.k \notin {"submit", "second"} /\ UNCHANGED pending
         /\ Guarded' /\ Undone' /\ \E items \in Seq(WorkItem) : Does(items)
<1>1. Guarded /\ Base /\ Undone /\ Guarded' BY WorkGuarded DEF Orderly, Guarded
<1>2. RowsKept BY <1>1, RowsStay
<1>3. agenda # <<>> /\ work.k \notin {"submit", "second"}
  BY DEF Work, LeaveStep, CancelStep, PeersStep, ReportStep, TradeStep, LegStep, OnTradeStep,
     ScanStep, ScannedStep, ActivateStep, CandleStep, Doing
<1>4. agenda \in Seq(WorkItem) BY <1>1 DEF Base, Typed
<1>5. UNCHANGED pending BY <1>1, WorkSteady DEF Steady
<1>6. CASE CancelStep BY <1>1, <1>2, <1>3, <1>5, <1>6, CancelKeeps DEF Does
<1>7. CASE ~CancelStep
  <2>1. Keeping
    BY <1>7, LeaveKeeps, PeersKeeps, ReportKeeps, TradeKeeps, LegKeeps, OnTradeKeeps, ScanKeeps,
       ScannedKeeps, ActivateKeeps, CandleKeeps DEF Work
  <2>2. PICK items \in Seq(WorkItem) : Keeps(items) BY <2>1 DEF Keeping
  <2>3. Narrowed /\ UndoOk /\ Continue(items) BY <2>1, <2>2 DEF Keeping, Keeps
  <2>4. Carried(items)
    <3>1. CASE Steady
      <4>1. PICK b \in Seq(WorkItem) : Continue(b) /\ Carried(b) BY <3>1 DEF Steady
      <4>2. items = b BY <1>3, <1>4, <2>3, <4>1, SameItems
      <4> QED BY <4>1, <4>2
    <3>2. CASE CandleStep
      <4>1. PICK b : b = <<>> OBVIOUS
      <4>2. b \in Seq(WorkItem) /\ Continue(b) /\ Carried(b) BY <3>2, <4>1, CandleKeeps
      <4>3. items = b BY <1>3, <1>4, <2>3, <4>2, SameItems
      <4> QED BY <4>2, <4>3
    <3> QED BY <1>1, <1>7, <3>1, <3>2, WorkSteady
  <2>6. work.k # "cancel"
    BY <1>7 DEF Work, LeaveStep, PeersStep, ReportStep, TradeStep, LegStep, OnTradeStep,
       ScanStep, ScannedStep, ActivateStep, CandleStep, SubmitStep, SecondStep, Doing
  <2>7. Undone'
    <3>1. Fitting(items) BY <2>2 DEF Keeps
    <3>2. work.k = "accepted" => items = <<>> /\ UNCHANGED executed /\ \A i \in OrderId :
            orders[i].status \in {"PENDING", "OPEN", "UNTRIGGERED"}
              => orders'[i].status \in {"PENDING", "OPEN", "UNTRIGGERED"}
      BY <2>2 DEF Keeps
    <3> QED BY <1>1, <1>2, <1>3, <2>3, <2>4, <2>6, <3>1, <3>2, UndoneKept
  <2> QED BY <1>1, <1>2, <1>3, <1>5, <2>2, <2>3, <2>4, <2>7 DEF Does
<1> QED BY <1>6, <1>7

LEMMA WorkOrderly ==
  ASSUME Orderly, Work, ~SubmitStep, ~SecondStep
  PROVE  Orderly'
BY WorkDoes, Assembled DEF Does

-----------------------------------------------------------------------------
(* Submissions, and the handlers. *)

\* Items that carry no quantity and act on no order of the trigger book.
Plain(items) ==
  \A n \in DOMAIN items :
    items[n].k \in {"submit", "second", "rollback", "cancel", "accepted", "loop", "quiet"}

LEMMA PlainItems ==
  ASSUME NEW items \in Seq(WorkItem), Plain(items)
  PROVE  /\ \A n \in DOMAIN items :
              /\ Acts(items[n]) = {} /\ Drops(items[n]) = {} /\ Timed(items[n])
              /\ items[n].k # "scan"
              /\ \A waits, loose, book :
                   (items[n].k = "accepted" => items[n].id \notin waits)
                     => OwesTo(items[n], waits, loose, book)
         /\ \A i : Traded(items, i) = 0
<1>1. ASSUME NEW n \in DOMAIN items
      PROVE  /\ Acts(items[n]) = {} /\ Drops(items[n]) = {} /\ Timed(items[n])
             /\ items[n].k # "scan"
             /\ \A waits, loose, book :
                  (items[n].k = "accepted" => items[n].id \notin waits)
                    => OwesTo(items[n], waits, loose, book)
  <2>1. PICK w : w = items[n] OBVIOUS
  <2>2. w.k \in {"submit", "second", "rollback", "cancel", "accepted", "loop", "quiet"}
    BY <2>1 DEF Plain
  <2>3. Acts(w) = {} /\ Drops(w) = {} /\ Timed(w) BY <2>2 DEF Acts, Drops, Timed
  <2> QED BY <2>1, <2>2, <2>3 DEF OwesTo
<1>2. ASSUME NEW i PROVE Traded(items, i) = 0
  <2>1. \A n \in DOMAIN items : items[n] \in WorkItem /\ items[n].k \notin {"trade", "leg"}
    BY DEF Plain
  <2>2. \A n \in DOMAIN items : Part(items[n], i) = 0 BY <2>1, PartType
  <2> QED BY <2>2, TradedNone
<1> QED BY <1>1, <1>2

\* Only the agenda changes, from plain items to plain items.
LEMMA PlainOrderly ==
  ASSUME Orderly, Guarded', UNCHANGED <<orders, oms, engine, pending>>,
         Plain(agenda), Plain(agenda'),
         \A n \in DOMAIN agenda' : /\ agenda'[n].k # "accepted"
                                   /\ agenda'[n].k \in {"submit", "second"} => Quietly(agenda'[n].req),
         SecondSoon', \A i \in Known : Undoing(i) => Undoing(i)'
  PROVE  Orderly'
<1>1. /\ Base /\ Calm /\ Watched /\ Owed /\ Booking /\ Undone
      /\ agenda \in Seq(WorkItem) /\ agenda' \in Seq(WorkItem)
  BY DEF Orderly, Guarded, Base, Typed
<1>2. UNCHANGED <<orders, trigBook, watch, groupOf, members, resting, executed, pending>>
  BY DEF oms, engine
<1>3. Known' = Known /\ Waits' = Waits /\ Loose' = Loose BY <1>2 DEF Known, Waits, Loose
<1>4. Calm'
  <2>1. \A n \in DOMAIN agenda' : Timed(agenda'[n]) BY <1>1, PlainItems
  <2> QED BY <1>1, <1>2, <1>3, <2>1 DEF Calm, Quietly, Timed
<1>5. Watched'
  <2>1. \A i \in Waits : i \in trigBook BY <1>1, PlainItems DEF Watched
  <2>2. \A i \in trigBook : orders[i].shown = watch[i].stop BY <1>1, PlainItems DEF Watched
  <2> QED BY <1>1, <1>2, <1>3, <2>1, <2>2 DEF Watched
<1>6. Owed'
  <2>1. \A n \in DOMAIN agenda' :
          /\ OwesTo(agenda'[n], Waits', Loose', trigBook')
          /\ Acts(agenda'[n]) = {} /\ Drops(agenda'[n]) = {}
    BY <1>1, PlainItems
  <2>2. \A n \in DOMAIN pending' : OwesTo(pending'[n], Waits', Loose', trigBook')
    BY <1>1, <1>2, <1>3 DEF Owed, Owes
  <2> QED BY <2>1, <2>2 DEF Owed, Owes
<1>7. Booking'
  <2>1. \A i : Traded(agenda', i) = Traded(agenda, i) BY <1>1, PlainItems
  <2> QED BY <1>1, <1>2, <1>3, <2>1 DEF Booking, Unbooked
<1>8. Undone'
  <2>1. ASSUME NEW i \in Known', Lone(i)' PROVE executed'[i] = 0 /\ (Undoing(i)' \/ Settled(i)')
    <3>1. i \in Known /\ Lone(i) BY <1>2, <1>3, <2>1 DEF Lone
    <3>2. executed[i] = 0 /\ (Undoing(i) \/ Settled(i)) BY <1>1, <3>1 DEF Undone, Undoing, Settled
    <3>3. Settled(i) => Settled(i)'
      <4>1. \A n \in DOMAIN agenda' : Acts(agenda'[n]) = {} BY <1>1, PlainItems
      <4> QED BY <1>2, <4>1 DEF Settled
    <3> QED BY <1>2, <3>1, <3>2, <3>3
  <2> QED BY <2>1 DEF Undone, SecondSoon, Undoing, Settled
<1> QED BY <1>4, <1>5, <1>6, <1>7, <1>8 DEF Orderly

\* The engine takes in an order that is too far away to trade.
LEMMA PassiveCall ==
  ASSUME Base, NEW i \in OrderId, NEW r \in Request, r.trigger = "NONE", r.exec = "passive",
         NEW ts \in Times, EngineSubmit(i, r, ts)
  PROVE  /\ Continue(<<Item("accepted", i)>>)
         /\ executed'[i] = 0 /\ resting'[i] = r.qty
         /\ \A m \in OrderId : m # i => executed'[m] = executed[m] /\ resting'[m] = resting[m]
<1>1. resting \in [OrderId -> Nat] /\ executed \in [OrderId -> Nat] BY DEF Base, Typed
<1>2. PICK fills \in Fills(i, r), rests \in MayRest(r) :
        LET left == r.qty - Amount(fills) IN
        /\ resting' = [m \in OrderId |-> IF m = i THEN IF rests THEN left ELSE 0
                                         ELSE resting[m] - LostBy(fills, m)]
        /\ executed' = [m \in OrderId |-> IF m = i THEN Amount(fills)
                                          ELSE executed[m] + TradedBy(fills, m)]
        /\ Continue(<<Item("accepted", i)>>
                    \o [n \in DOMAIN fills |-> FillEvent(i, r, fills[n], ts)]
                    \o Remainder(i, rests, left))
  BY DEF EngineSubmit
<1>3. rests = TRUE BY <1>2 DEF MayRest
<1>4. fills = <<>> /\ DOMAIN fills = {}
  <2>1. fills = <<>> BY FillsAre
  <2>2. PICK s : s = <<>> OBVIOUS
  <2>3. DOMAIN s = {} BY <2>2
  <2> QED BY <2>1, <2>2, <2>3
<1>5. Amount(fills) = 0
  <2> DEFINE f == [n \in DOMAIN fills |-> fills[n].qty]
  <2>1. SumFunctionOnSet(f, DOMAIN fills) = 0
    <3>1. IsFiniteSet(DOMAIN fills) /\ \A n \in DOMAIN fills : f[n] = 0 BY <1>4, FS_EmptySet
    <3> HIDE DEF f
    <3> QED BY <3>1, SumZero
  <2> QED BY <2>1 DEF Amount, SumFunction
<1>6. r.qty \in Nat BY Numbers DEF Request
<1>7. executed'[i] = 0 /\ resting'[i] = r.qty BY <1>2, <1>3, <1>5, <1>6
<1>8. ASSUME NEW m \in OrderId, m # i
      PROVE  executed'[m] = executed[m] /\ resting'[m] = resting[m]
  <2>1. TradedBy(fills, m) = 0 /\ LostBy(fills, m) = 0 BY <1>4, MakersFill
  <2> QED BY <1>1, <1>2, <1>8, <2>1
<1>9. PICK middle, a, c : /\ middle = [n \in DOMAIN fills |-> FillEvent(i, r, fills[n], ts)]
                          /\ a = <<Item("accepted", i)>>
                          /\ c = Remainder(i, rests, r.qty - Amount(fills))
  OBVIOUS
<1>10. c = <<>> BY <1>3, <1>9 DEF Remainder
<1>11. middle = <<>>
  <2>1. middle \in Seq(WorkItem) /\ Len(middle) = 0
    <3>1. DOMAIN middle = {} BY <1>4, <1>9
    <3>2. middle = [n \in 1..0 |-> FillEvent(i, r, fills[n], ts)] BY <1>4, <1>9
    <3> QED BY <3>1, <3>2
  <2> QED BY <2>1
<1>12. a \o middle \o c = a
  <2>1. a \in Seq(WorkItem) BY <1>9, ItemTypes, ItemKinds
  <2> QED BY <1>10, <1>11, <2>1
<1>13. Continue(a \o middle \o c) BY <1>2, <1>9
<1> QED BY <1>7, <1>8, <1>9, <1>12, <1>13

\* What a submission finds in the agenda.
LEMMA SubmitPlain ==
  ASSUME Base, agenda # <<>>, work.k = "submit"
  PROVE  /\ Plain(agenda)
         /\ \A n \in DOMAIN agenda : agenda[n].k \in {"second", "rollback"} => n = 2
         /\ \A n \in DOMAIN agenda : agenda[n].k \in {"submit", "second", "rollback"}
<1>1. work = agenda[1] /\ DOMAIN agenda = 1..Len(agenda) /\ 1 \in DOMAIN agenda BY RunningOk
<1>2. Len(agenda) = 1 \/ (Len(agenda) = 2 /\ agenda[2].k \in {"second", "rollback"})
  BY Submitting
<1>3. \A n \in DOMAIN agenda : n = 1 \/ (n = 2 /\ agenda[2].k \in {"second", "rollback"})
  BY <1>1, <1>2
<1> QED BY <1>1, <1>3 DEF Plain

LEMMA RaisedOrderly ==
  ASSUME Orderly, Guarded', SubmitStep, ~work.req.valid
  PROVE  Orderly'
<1>1. /\ agenda # <<>> /\ work.k = "submit" /\ Raise
      /\ UNCHANGED <<orders, oms, engine, pending>>
  BY DEF SubmitStep, Doing
<1>2. Base /\ Typed BY <1>1, Parts
<1>3. Known' = Known BY <1>1 DEF Known
<1>4. work = agenda[1] BY <1>1, <1>2, RunningOk
<1>5. \/ agenda' = <<>> /\ \A n \in DOMAIN agenda : agenda[n].k # "rollback"
      \/ \E n \in DOMAIN agenda :
           agenda[n].k = "rollback" /\ agenda' = <<Item("cancel", agenda[n].id)>>
  <2>1. CASE \A n \in DOMAIN agenda : agenda[n].k # "rollback"
    BY <1>1, <1>2, <1>3, <2>1, RaisedAgenda
  <2>2. CASE \E n \in DOMAIN agenda : agenda[n].k = "rollback"
    <3>1. PICK caught : caught = {n \in DOMAIN agenda : agenda[n].k = "rollback"} OBVIOUS
    <3>2. caught # {} /\ caught \subseteq Nat BY <1>2, <2>2, <3>1 DEF Typed
    <3>3. Min(caught) \in caught BY <3>2, MinimumIn
    <3>4. agenda' = <<Item("cancel", agenda[Min(caught)].id)>> BY <1>1, <3>1, <3>2 DEF Raise
    <3> QED BY <3>1, <3>3, <3>4
  <2> QED BY <2>1, <2>2
<1>6. ASSUME NEW n \in DOMAIN agenda' PROVE n = 1 /\ agenda'[n].k = "cancel"
  <2>1. CASE agenda' = <<>> BY <2>1
  <2>2. ASSUME NEW j, agenda' = <<Item("cancel", j)>> PROVE n = 1 /\ agenda'[n].k = "cancel"
    <3>1. PICK w : w = Item("cancel", j) OBVIOUS
    <3>2. DOMAIN agenda' = {1} /\ agenda'[1] = w /\ w.k = "cancel" BY <2>2, <3>1 DEF Item
    <3> QED BY <3>2
  <2> QED BY <1>5, <2>1, <2>2
<1>7. Plain(agenda') /\ SecondSoon' BY <1>6 DEF Plain, SecondSoon
<1>8. ASSUME NEW i \in Known, Undoing(i) PROVE Undoing(i)'
  <2>1. PICK n \in DOMAIN agenda :
          /\ \/ agenda[n].k = "second" /\ agenda[n].group = i
             \/ agenda[n].k = "rollback" /\ agenda[n].id = i
          /\ orders[i].status \in {"PENDING", "OPEN", "UNTRIGGERED"}
    BY <1>1, <1>2, <1>8, SubmitPlain DEF Undoing
  <2>2. n = 2 BY <1>1, <1>2, <2>1, SubmitPlain
  <2>3. agenda[2].k = "rollback" /\ agenda[2].id = i
    <3>1. agenda[2].k = "second" => agenda[2].group = NextId BY <1>1, <1>2, <2>2, Submitting
    <3>2. NextId \notin Known BY <1>2 DEF Base, Numbered
    <3> QED BY <2>1, <2>2, <3>1, <3>2
  <2>4. agenda' = <<Item("cancel", i)>>
    <3>1. PICK m \in DOMAIN agenda :
            agenda[m].k = "rollback" /\ agenda' = <<Item("cancel", agenda[m].id)>>
      BY <1>5, <2>1, <2>2, <2>3
    <3>2. m = 2 BY <1>1, <1>2, <3>1, SubmitPlain
    <3> QED BY <2>3, <3>1, <3>2
  <2>5. PICK w : w = Item("cancel", i) OBVIOUS
  <2>6. DOMAIN agenda' = {1} /\ agenda'[1] = w /\ w.k = "cancel" /\ w.id = i
    BY <2>4, <2>5 DEF Item
  <2> QED BY <1>1, <2>1, <2>6 DEF Undoing
<1>9. Plain(agenda) BY <1>1, <1>2, SubmitPlain
<1> QED BY <1>1, <1>6, <1>7, <1>8, <1>9, PlainOrderly

\* What a valid submission leaves: the new order rests or is watched.
LEMMA Recorded ==
  ASSUME Orderly, SubmitStep, NEW r, NEW g, NEW i, r = work.req, g = work.group, i = NextId,
         r.valid
  PROVE  \E items \in Seq(WorkItem) :
    /\ Continue(items)
    /\ \/ /\ items = <<Item("accepted", i)>> /\ r.trigger = "NONE"
          /\ executed'[i] = 0 /\ resting'[i] = r.qty /\ UNCHANGED <<trigBook, watch>>
       \/ /\ items = <<>> /\ r.trigger # "NONE" /\ executed'[i] = 0 /\ resting'[i] = 0
          /\ trigBook' = trigBook \cup {i} /\ watch'[i].stop = r.stop
          /\ \A j \in OrderId : j # i => watch'[j] = watch[j]
    /\ \A j \in OrderId : j # i => executed'[j] = executed[j] /\ resting'[j] = resting[j]
<1>1. Base /\ Booking /\ Typed BY DEF Orderly, Guarded, Base
<1>2. /\ agenda # <<>> /\ work.k = "submit" /\ r \in Request
      /\ i \in OrderId /\ i \notin Known
      /\ \/ EngineSubmit(i, r, UserTs) /\ UNCHANGED <<trigBook, watch>> /\ r.trigger = "NONE"
         \/ /\ trigBook' = trigBook \cup {i}
            /\ watch' = [watch EXCEPT ![i] = [peak |-> NoPrice, stop |-> r.stop]]
            /\ Continue(<<>>) /\ UNCHANGED engine /\ r.trigger # "NONE"
  BY <1>1, Submitted
<1>3. work = agenda[1] /\ 1 \in DOMAIN agenda BY <1>1, <1>2, RunningOk
<1>4. CASE EngineSubmit(i, r, UserTs) /\ UNCHANGED <<trigBook, watch>> /\ r.trigger = "NONE"
  <2>1. r.exec = "passive" BY <1>2, <1>3, <1>4 DEF Orderly, Calm, Quietly
  <2>2. UserTs \in Times BY DEF Times
  <2>3. PICK items : items = <<Item("accepted", i)>> OBVIOUS
  <2>4. items \in Seq(WorkItem) BY <1>2, <2>3, ItemTypes, ItemKinds
  <2>5. /\ Continue(items) /\ executed'[i] = 0 /\ resting'[i] = r.qty
        /\ \A m \in OrderId : m # i => executed'[m] = executed[m] /\ resting'[m] = resting[m]
    BY <1>1, <1>2, <1>4, <2>1, <2>2, <2>3, PassiveCall
  <2> QED BY <1>4, <2>3, <2>4, <2>5
<1>5. CASE /\ trigBook' = trigBook \cup {i}
           /\ watch' = [watch EXCEPT ![i] = [peak |-> NoPrice, stop |-> r.stop]]
           /\ Continue(<<>>) /\ UNCHANGED engine /\ r.trigger # "NONE"
  <2>1. PICK items : items = <<>> OBVIOUS
  <2>2. items \in Seq(WorkItem) BY <2>1
  <2>3. executed[i] = 0 /\ resting[i] = 0 BY <1>1, <1>2 DEF Booking
  <2>4. watch'[i].stop = r.stop /\ \A j \in OrderId : j # i => watch'[j] = watch[j]
    <3>1. PICK row : row = [peak |-> NoPrice, stop |-> r.stop] OBVIOUS
    <3>2. watch' = [watch EXCEPT ![i] = row] /\ row.stop = r.stop BY <1>5, <3>1
    <3>3. DOMAIN watch = OrderId BY <1>1 DEF Typed
    <3> QED BY <1>2, <3>2, <3>3
  <2> QED BY <1>5, <2>1, <2>2, <2>3, <2>4 DEF engine
<1> QED BY <1>2, <1>4, <1>5

LEMMA AcceptedOrderly ==
  ASSUME Orderly, Guarded', SubmitStep, work.req.valid
  PROVE  Orderly'
<1>1. PICK r, g, i : r = work.req /\ g = work.group /\ i = NextId OBVIOUS
<1>2. /\ Base /\ Booking /\ Typed /\ Watched /\ Owed /\ Calm /\ Undone /\ Base'
  BY DEF Orderly, Guarded, Base
<1>3. /\ agenda # <<>> /\ work.k = "submit" /\ r \in Request /\ g \in Ids
      /\ i \in OrderId /\ i \notin Known /\ Known' = Known \cup {i}
      /\ orders'[i] = NewRow(r, g)
      /\ \A j \in OrderId : j # i => orders'[j] = orders[j]
      /\ groupOf' = [groupOf EXCEPT ![i] = g]
      /\ UNCHANGED pending
  BY <1>1, <1>2, Submitted
<1>4. /\ orders'[i].req = r /\ orders'[i].group = g /\ orders'[i].filled = 0
      /\ orders'[i].shown = r.stop
      /\ orders'[i].status = IF r.trigger = "NONE" THEN "PENDING" ELSE "UNTRIGGERED"
  BY <1>3 DEF NewRow
<1>5. PICK items \in Seq(WorkItem) :
    /\ Continue(items)
    /\ \/ /\ items = <<Item("accepted", i)>> /\ r.trigger = "NONE"
          /\ executed'[i] = 0 /\ resting'[i] = r.qty /\ UNCHANGED <<trigBook, watch>>
       \/ /\ items = <<>> /\ r.trigger # "NONE" /\ executed'[i] = 0 /\ resting'[i] = 0
          /\ trigBook' = trigBook \cup {i} /\ watch'[i].stop = r.stop
          /\ \A j \in OrderId : j # i => watch'[j] = watch[j]
    /\ \A j \in OrderId : j # i => executed'[j] = executed[j] /\ resting'[j] = resting[j]
  BY <1>1, Recorded
<1>6. /\ agenda \in Seq(WorkItem) /\ agenda' \in Seq(WorkItem) /\ work = agenda[1] /\ 1 \in DOMAIN agenda
      /\ DOMAIN agenda = 1..Len(agenda)
  BY <1>2, <1>3, RunningOk DEF Base, Typed
\* The agenda after it.
<1>7. \A n \in DOMAIN items : n = 1 /\ items = <<Item("accepted", i)>> /\ items[n] = Item("accepted", i)
  <2>1. CASE items = <<>> BY <2>1
  <2>2. CASE items = <<Item("accepted", i)>>
    <3>1. PICK w : w = Item("accepted", i) OBVIOUS
    <3>2. DOMAIN items = {1} /\ items[1] = w BY <2>2, <3>1
    <3> QED BY <2>2, <3>1, <3>2
  <2> QED BY <1>5, <2>1, <2>2
<1>8. ASSUME NEW n \in DOMAIN agenda'
      PROVE  \/ agenda'[n] = Item("accepted", i) /\ r.trigger = "NONE"
             \/ /\ 2 \in DOMAIN agenda /\ agenda'[n] = agenda[2]
                /\ agenda[2].k \in {"second", "rollback"} /\ n = Len(items) + 1
  <2>1. \/ n \in DOMAIN items /\ agenda'[n] = items[n]
        \/ /\ n - Len(items) + 1 \in DOMAIN agenda /\ n - Len(items) + 1 > 1
           /\ agenda'[n] = agenda[n - Len(items) + 1]
    BY <1>3, <1>5, <1>6, ContinueAgenda
  <2>2. CASE n \in DOMAIN items /\ agenda'[n] = items[n]
    <3>1. items # <<>> BY <2>2
    <3> QED BY <1>5, <1>7, <2>2, <3>1
  <2>3. ASSUME n - Len(items) + 1 \in DOMAIN agenda, n - Len(items) + 1 > 1,
               agenda'[n] = agenda[n - Len(items) + 1]
        PROVE  /\ 2 \in DOMAIN agenda /\ agenda'[n] = agenda[2]
               /\ agenda[2].k \in {"second", "rollback"} /\ n = Len(items) + 1
    <3>1. PICK m : m = n - Len(items) + 1 OBVIOUS
    <3>2. m \in DOMAIN agenda /\ m > 1 /\ agenda'[n] = agenda[m] BY <2>3, <3>1
    <3>3. agenda[m].k \in {"submit", "second", "rollback"} BY <1>2, <1>3, <3>2, SubmitPlain
    <3>4. agenda[m].k # "submit"
      <4>1. agenda[m].k = "submit" => m = 1 BY <1>2, <3>2 DEF Base, Shaped
      <4> QED BY <3>2, <4>1
    <3>5. m = 2 BY <1>2, <1>3, <3>2, <3>3, <3>4, SubmitPlain
    <3>6. n \in Int /\ Len(items) \in Int BY <1>6
    <3> QED BY <3>1, <3>2, <3>3, <3>4, <3>5, <3>6
  <2> QED BY <2>1, <2>2, <2>3
<1>9. \A n \in DOMAIN agenda' :
        /\ agenda'[n].k \in {"accepted", "second", "rollback"}
        /\ agenda'[n].k = "accepted" => agenda'[n].id = i /\ r.trigger = "NONE"
  BY <1>8 DEF Item
<1>10. Plain(agenda') /\ Plain(agenda) BY <1>2, <1>3, <1>9, SubmitPlain DEF Plain
<1>11. Waits' = IF r.trigger = "NONE" THEN Waits ELSE Waits \cup {i}
  <2>1. ASSUME NEW j PROVE j \in Waits' <=> j \in Waits \/ (j = i /\ r.trigger # "NONE")
    <3>1. j \in Known => j \in OrderId /\ j # i BY <1>3 DEF Known
    <3> QED BY <1>3, <1>4, <3>1 DEF Waits
  <2> QED BY <2>1
<1>12. i \notin Waits /\ Waits \subseteq Known /\ Known \subseteq OrderId BY <1>3 DEF Waits, Known
<1>13. Calm'
  <2>1. Quietly(r) BY <1>1, <1>3, <1>6 DEF Orderly, Calm
  <2>2. \A j \in Known' : Quietly(orders'[j].req)
    BY <1>2, <1>3, <1>4, <1>12, <2>1 DEF Calm
  <2>3. \A n \in DOMAIN agenda' : Timed(agenda'[n]) BY <1>6, <1>10, PlainItems
  <2>4. \A n \in DOMAIN agenda' : agenda'[n].k \in {"submit", "second"} => Quietly(agenda'[n].req)
    <3>1. 2 \in DOMAIN agenda /\ agenda[2].k = "second" => Quietly(agenda[2].req) BY <1>2 DEF Calm
    <3>2. ASSUME NEW n \in DOMAIN agenda', agenda'[n].k \in {"submit", "second"}
          PROVE  Quietly(agenda'[n].req)
      <4>1. agenda'[n] # Item("accepted", i) BY <3>2 DEF Item
      <4>2. 2 \in DOMAIN agenda /\ agenda'[n] = agenda[2] /\ agenda[2].k \in {"second", "rollback"}
        BY <1>8, <4>1
      <4>3. agenda[2].k = "second" BY <3>2, <4>2
      <4> QED BY <3>1, <4>2, <4>3
    <3> QED BY <3>2
  <2>5. \A q : Quietly(q)' <=> Quietly(q) BY DEF Quietly
  <2>6. \A w : Timed(w)' <=> Timed(w) BY DEF Timed
  <2> QED BY <2>2, <2>3, <2>4, <2>5, <2>6 DEF Calm
<1>14. Watched'
  <2>1. \A j \in Waits : j \in trigBook BY <1>2, <1>6, <1>10, PlainItems DEF Watched
  <2>2. \A j \in trigBook : orders[j].shown = watch[j].stop
    BY <1>2, <1>6, <1>10, PlainItems DEF Watched
  <2>3. trigBook \subseteq Waits BY <1>2 DEF Watched
  <2>4. ASSUME NEW j \in Waits'
        PROVE  /\ orders'[j].req.trigger # "NONE" /\ executed'[j] = 0 /\ resting'[j] = 0
               /\ j \in trigBook'
    <3>1. CASE j = i
      <4>1. r.trigger # "NONE" BY <1>11, <1>12, <3>1
      <4> QED BY <1>4, <1>5, <3>1, <4>1
    <3>2. CASE j # i
      <4>1. j \in Waits /\ j \in OrderId BY <1>11, <1>12, <3>2
      <4>2. orders'[j] = orders[j] /\ executed'[j] = executed[j] /\ resting'[j] = resting[j]
        BY <1>3, <1>5, <3>2, <4>1
      <4>3. trigBook \subseteq trigBook' BY <1>5
      <4> QED BY <1>2, <2>1, <4>1, <4>2, <4>3 DEF Watched
    <3> QED BY <3>1, <3>2
  <2>5. ASSUME NEW j \in trigBook'
        PROVE  j \in Waits' /\ groupOf'[j] = orders'[j].group /\ orders'[j].shown = watch'[j].stop
    <3>1. DOMAIN groupOf = OrderId BY <1>2 DEF Typed
    <3>2. CASE j \in trigBook
      <4>1. j \in Waits /\ j # i /\ j \in OrderId BY <1>12, <2>3, <3>2
      <4>2. orders'[j] = orders[j] /\ watch'[j] = watch[j] /\ groupOf'[j] = groupOf[j]
        BY <1>3, <1>5, <3>1, <4>1
      <4> QED BY <1>2, <1>11, <2>2, <3>2, <4>1, <4>2 DEF Watched
    <3>3. CASE j \notin trigBook
      <4>1. j = i /\ r.trigger # "NONE" /\ watch'[i].stop = r.stop BY <1>5, <2>5, <3>3
      <4>2. groupOf'[i] = g BY <1>3, <3>1
      <4> QED BY <1>4, <1>11, <4>1, <4>2
    <3> QED BY <3>2, <3>3
  <2> QED BY <2>4, <2>5 DEF Watched
<1>15. Owed'
  <2>1. ASSUME NEW n \in DOMAIN agenda'
        PROVE  OwesTo(agenda'[n], Waits', Loose', trigBook')
               /\ Acts(agenda'[n]) = {} /\ Drops(agenda'[n]) = {}
    <3>1. agenda'[n].k = "accepted" => agenda'[n].id \notin Waits' BY <1>9, <1>11, <1>12
    <3> QED BY <1>6, <1>10, <3>1, PlainItems
  <2>2. ASSUME NEW n \in DOMAIN pending'
        PROVE  OwesTo(pending'[n], Waits', Loose', trigBook')
    <3>1. PICK w : w = pending[n] OBVIOUS
    <3>2. n \in DOMAIN pending /\ pending'[n] = w BY <1>3, <3>1
    <3>3. Owes(w) /\ Names(w) BY <1>2, <3>1, <3>2 DEF Owed, Base, NamesKnown
    <3>4. w = Quiet \/ w \in TradeItem BY <1>2, <3>1, <3>2 DEF Typed, QueueItem
    <3>5. w.k \in {"trade", "quiet"} BY <3>4 DEF Quiet, TradeItem
    <3>6. Acts(w) = {} /\ Drops(w) = {} BY <3>5 DEF Acts, Drops
    <3>7. w.k = "trade" => w.buy \notin Waits' /\ w.sell \notin Waits'
      <4>1. i # NoOrder BY <1>3, Numbers
      <4>2. w.k = "trade" => /\ w.buy \notin Waits /\ w.sell \notin Waits
                             /\ {w.buy, w.sell} \subseteq Known \cup {NoOrder}
        BY <3>3 DEF Owes, OwesTo, Names, NamesIn
      <4> QED BY <1>3, <1>11, <4>1, <4>2
    <3> QED BY <3>2, <3>5, <3>6, <3>7 DEF OwesTo
  <2> QED BY <2>1, <2>2 DEF Owed, Owes
<1>16. Booking'
  <2>1. \A j : Traded(agenda', j) = 0 /\ Traded(agenda, j) = 0 BY <1>6, <1>10, PlainItems
  <2>2. \A j : Traded(pending, j) \in Nat
    <3>1. pending \in Seq(WorkItem)
      <4>1. QueueItem \subseteq WorkItem BY ItemKinds, ItemTypes DEF QueueItem
      <4> QED BY <1>2, <4>1 DEF Typed
    <3> QED BY <3>1, TradedType
  <2>3. ASSUME NEW j \in OrderId
        PROVE  /\ executed'[j] = orders'[j].filled + (Traded(agenda', j) + Traded(pending', j))
               /\ j \in Known' => executed'[j] + resting'[j] <= orders'[j].req.qty
               /\ j \notin Known' => executed'[j] = 0 /\ resting'[j] = 0
    <3>1. CASE j # i
      <4>1. orders'[j] = orders[j] /\ executed'[j] = executed[j] /\ resting'[j] = resting[j]
        BY <1>3, <1>5, <3>1
      <4>2. j \in Known' <=> j \in Known BY <1>3, <3>1
      <4> QED BY <1>2, <1>3, <2>1, <4>1, <4>2 DEF Booking, Unbooked
    <3>2. CASE j = i
      <4>1. PICK f \in Nat, p \in Nat : f = orders[i].filled /\ p = Traded(pending, i)
        BY <1>2, <1>3, <2>2 DEF Typed, OrderRow
      <4>2. 0 = f + (0 + p) BY <1>2, <1>3, <2>1, <4>1 DEF Booking, Unbooked
      <4>3. p = 0 BY <4>1, <4>2
      <4>4. r.qty \in Nat BY <1>3, Numbers DEF Request
      <4>5. executed'[i] = 0 /\ resting'[i] \in {0, r.qty} BY <1>5
      <4>6. executed'[i] + resting'[i] <= r.qty BY <4>4, <4>5
      <4> QED BY <1>3, <1>4, <2>1, <3>2, <4>1, <4>3, <4>5, <4>6
    <3> QED BY <3>1, <3>2
  <2> QED BY <2>3 DEF Booking, Unbooked
<1>17. Undone'
  <2>1. Len(items) \in {0, 1}
    <3>1. CASE items = <<>> BY <3>1
    <3>2. CASE items = <<Item("accepted", i)>> BY <3>2
    <3> QED BY <1>5, <3>1, <3>2
  <2>2. SecondSoon'
    <3>1. ASSUME NEW n \in DOMAIN agenda', agenda'[n].k = "second"
          PROVE  n = 1 \/ (n = 2 /\ agenda'[1].k = "accepted")
      <4>1. n = Len(items) + 1 BY <1>8, <3>1 DEF Item
      <4>2. CASE Len(items) = 0 BY <4>1, <4>2
      <4>3. CASE Len(items) = 1
        <5>1. 1 \in DOMAIN items BY <4>3
        <5>2. agenda'[1] = Item("accepted", i) BY <1>3, <1>5, <1>6, <1>7, <5>1, ContinueAgenda
        <5> QED BY <4>1, <4>3, <5>2 DEF Item
      <4> QED BY <2>1, <4>2, <4>3
    <3> QED BY <3>1 DEF SecondSoon
  <2>3. ASSUME NEW j \in Known', Lone(j)' PROVE executed'[j] = 0 /\ (Undoing(j)' \/ Settled(j)')
    <3>1. CASE j = i
      <4>1. g = i BY <1>4, <2>3, <3>1 DEF Lone
      <4>2. 2 \in DOMAIN agenda /\ agenda[2].k = "second" /\ agenda[2].group = i
        <5>1. i # NoGroup BY <1>3, Numbers
        <5> QED BY <1>1, <1>2, <1>3, <4>1, <5>1, Submitting
      <4>3. \E n \in DOMAIN agenda' : agenda'[n] = agenda[2]
        <5>1. \A m \in DOMAIN agenda : m > 1 =>
                /\ m + Len(items) - 1 \in DOMAIN agenda'
                /\ agenda'[m + Len(items) - 1] = agenda[m]
          BY <1>3, <1>5, <1>6, ContinueAgenda
        <5>2. PICK n : n = 2 + Len(items) - 1 OBVIOUS
        <5>3. n \in DOMAIN agenda' /\ agenda'[n] = agenda[2] BY <4>2, <5>1, <5>2
        <5> QED BY <5>3
      <4>4. Undoing(i)' BY <1>4, <4>2, <4>3 DEF Undoing
      <4> QED BY <1>5, <3>1, <4>4
    <3>2. CASE j # i
      <4>1. j \in Known /\ j \in OrderId /\ orders'[j] = orders[j]
            /\ executed'[j] = executed[j] /\ resting'[j] = resting[j]
        BY <1>3, <1>5, <1>12, <3>2
      <4>2. Lone(j) /\ g # j
        <5>1. orders[j].group = j /\ \A k \in Known' \ {j} : orders'[k].group # j
          BY <2>3, <4>1 DEF Lone
        <5>2. \A k \in Known : k # i /\ k \in OrderId /\ orders'[k] = orders[k] /\ k \in Known'
          BY <1>3, <1>12
        <5>3. g # j BY <1>3, <1>4, <3>2, <5>1
        <5> QED BY <5>1, <5>2, <5>3 DEF Lone
      <4>3. executed[j] = 0 /\ (Undoing(j) \/ Settled(j))
        BY <1>2, <4>1, <4>2 DEF Undone, Undoing, Settled
      <4>4. ~Undoing(j)
        <5> SUFFICES ASSUME Undoing(j) PROVE FALSE OBVIOUS
        <5>1. PICK n \in DOMAIN agenda :
                \/ agenda[n].k = "second" /\ agenda[n].group = j
                \/ agenda[n].k = "rollback" /\ agenda[n].id = j
          BY <1>2, <1>3, SubmitPlain DEF Undoing
        <5>2. n = 2 BY <1>2, <1>3, <5>1, SubmitPlain
        <5>3. \/ agenda[2].k = "second" /\ agenda[2].group = i
              \/ agenda[2].k = "rollback" /\ g = agenda[2].id
              \/ Len(agenda) = 1
          BY <1>1, <1>2, <1>3, Submitting
        <5>4. Len(agenda) # 1 BY <1>6, <5>1, <5>2
        <5> QED BY <3>2, <4>2, <5>1, <5>2, <5>3, <5>4
      <4>5. Settled(j)'
        <5>1. j \notin trigBook' BY <1>5, <3>2, <4>3, <4>4 DEF Settled
        <5>2. \A n \in DOMAIN agenda' : Acts(agenda'[n]) = {} BY <1>6, <1>10, PlainItems
        <5> QED BY <4>1, <4>3, <4>4, <5>1, <5>2 DEF Settled
      <4> QED BY <4>1, <4>3, <4>5
    <3> QED BY <3>1, <3>2
  <2> QED BY <2>2, <2>3 DEF Undone, SecondSoon, Undoing, Settled
<1> QED BY <1>13, <1>14, <1>15, <1>16, <1>17 DEF Orderly

LEMMA SecondOrderly ==
  ASSUME Orderly, Guarded', SecondStep
  PROVE  Orderly'
<1>1. Base BY DEF Orderly, Guarded
<1>2. PICK s, b : s = Submit(work.req, work.group) /\ b = Item("rollback", work.group) OBVIOUS
<1>3. /\ agenda # <<>> /\ work.k = "second" /\ work = agenda[1] /\ 1 \in DOMAIN agenda
      /\ DOMAIN agenda = {1} /\ DOMAIN agenda' = {1, 2} /\ agenda'[1] = s /\ agenda'[2] = b
      /\ UNCHANGED <<orders, oms, engine, pending>>
  BY <1>1, <1>2, SecondAgenda
<1>4. /\ s.k = "submit" /\ s.req = work.req /\ b.k = "rollback" /\ b.id = work.group
  BY <1>2 DEF Submit, Item
<1>5. Plain(agenda) /\ Plain(agenda') BY <1>3, <1>4 DEF Plain
<1>6. Quietly(work.req) BY <1>3 DEF Orderly, Calm
<1>7. SecondSoon' BY <1>3, <1>4 DEF SecondSoon
<1>8. \A i \in Known : Undoing(i) => Undoing(i)' BY <1>3, <1>4 DEF Undoing
<1> QED BY <1>3, <1>4, <1>5, <1>6, <1>7, <1>8, PlainOrderly

\* The quantity in the queue is in its head and in the rest.
LEMMA TradedTail ==
  ASSUME NEW a \in Seq(WorkItem), a # <<>>, NEW i
  PROVE  Traded(a, i) = Part(Head(a), i) + Traded(Tail(a), i)
<1>1. PICK t, w, s : t = Tail(a) /\ w = Head(a) /\ s = <<w>> OBVIOUS
<1>2. t \in Seq(WorkItem) /\ w \in WorkItem /\ a = s \o t /\ s \in Seq(WorkItem) BY <1>1
<1>3. Traded(s, i) = Part(w, i) BY <1>1, <1>2, TradedOne
<1>4. Traded(s \o t, i) = Traded(s, i) + Traded(t, i) BY <1>2, TradedConcat
<1> QED BY <1>1, <1>2, <1>3, <1>4

\* The agents trade with orders that rest.
LEMMA AgentOwes ==
  ASSUME Watched, NEW e \in AgentEvent
  PROVE  Owes(e)
<1>1. \A m \in Known : resting[m] > 0 => m \notin Waits BY DEF Watched
<1>2. NoOrder \notin Waits BY Numbers DEF Waits, Known
<1>3. CASE e = Quiet BY <1>3 DEF Owes, OwesTo, Acts, Drops, Quiet
<1>4. ASSUME NEW b, NEW s, NEW q, NEW p, e = Trade(b, s, q, p, AgentTs), b \notin Waits, s \notin Waits
      PROVE  Owes(e)
  BY <1>4 DEF Owes, OwesTo, Acts, Drops, Trade
<1>5. CASE \E p \in Prices : e = Trade(NoOrder, NoOrder, 1, p, AgentTs) BY <1>2, <1>4, <1>5
<1>6. CASE \E m \in {i \in Known : resting[i] > 0}, q \in 1..MaxQty, p \in Prices :
             e = Trade(m, NoOrder, q, p, AgentTs) \/ e = Trade(NoOrder, m, q, p, AgentTs)
  <2>1. PICK m \in {i \in Known : resting[i] > 0}, q \in 1..MaxQty, p \in Prices :
          e = Trade(m, NoOrder, q, p, AgentTs) \/ e = Trade(NoOrder, m, q, p, AgentTs)
    BY <1>6
  <2>2. m \notin Waits BY <1>1
  <2> QED BY <1>2, <1>4, <2>1, <2>2
<1> QED BY <1>3, <1>5, <1>6 DEF AgentEvent

LEMMA TickOrderly ==
  ASSUME Orderly, Guarded', Tick
  PROVE  Orderly'
<1>1. /\ Base /\ Typed /\ Calm /\ Watched /\ Owed /\ Booking /\ Undone /\ Base'
      /\ agenda' \in Seq(WorkItem) /\ LoopTimed /\ agenda = <<>> /\ DOMAIN agenda = {}
  BY DEF Orderly, Guarded, Base, Typed, Tick
<1>2. PICK h : h = pending[1] OBVIOUS
<1>3. /\ DOMAIN agenda' = {1, 2} /\ agenda'[1] = h /\ agenda'[2] = Loop
      /\ UNCHANGED <<orders, trigBook, watch, groupOf, members>>
  BY <1>1, <1>2, Started DEF oms
<1>4. /\ Head(pending) = h /\ 1 \in DOMAIN pending /\ h \in QueueItem /\ h \in WorkItem
      /\ pending' \in Seq(QueueItem)
      /\ \/ /\ UNCHANGED engine /\ pending' = Tail(pending)
            /\ \A n \in DOMAIN pending' : n + 1 \in DOMAIN pending /\ pending'[n] = pending[n + 1]
         \/ /\ Len(pending) = 1 /\ pending' \in AgentBatches
            /\ \A n \in DOMAIN pending' : pending'[n] \in AgentEvent
            /\ resting' = [m \in OrderId |-> resting[m] - Traded(pending', m)]
            /\ executed' = [m \in OrderId |-> executed[m] + Traded(pending', m)]
  BY <1>1, <1>2, TickPending
<1>5. h.k \in {"trade", "quiet"} /\ Timed(h) /\ Owes(h)
  <2>1. h = Quiet \/ h \in TradeItem BY <1>4 DEF QueueItem
  <2> QED BY <1>1, <1>2, <1>4, <2>1 DEF TradeItem, Quiet, LoopTimed, Owed
<1>6. Loop.k = "loop" /\ Loop \in WorkItem BY ItemTypes, ItemKinds DEF Loop
<1>7. Known' = Known /\ Waits' = Waits /\ Loose' = Loose BY <1>3 DEF Known, Waits, Loose
<1>8. \A n \in DOMAIN agenda' :
        /\ agenda'[n].k \in {"trade", "quiet", "loop"} /\ Timed(agenda'[n])
        /\ Acts(agenda'[n]) = {} /\ Drops(agenda'[n]) = {}
  <2>1. \A n \in DOMAIN agenda' : agenda'[n].k \in {"trade", "quiet", "loop"}
    BY <1>3, <1>5, <1>6
  <2>2. Timed(Loop) BY <1>6 DEF Timed
  <2>3. \A n \in DOMAIN agenda' : Acts(agenda'[n]) = {} /\ Drops(agenda'[n]) = {}
    BY <2>1 DEF Acts, Drops
  <2> QED BY <1>3, <1>5, <2>1, <2>2, <2>3
<1>9. pending \in Seq(WorkItem) /\ pending' \in Seq(WorkItem) /\ pending # <<>>
  <2>1. QueueItem \subseteq WorkItem BY ItemKinds, ItemTypes DEF QueueItem
  <2> QED BY <1>1, <1>4, <2>1 DEF Typed
\* What leaves the book goes to the queue.
<1>10. ASSUME NEW i \in OrderId
       PROVE  /\ executed'[i] = orders[i].filled + (Part(h, i) + Traded(pending', i))
              /\ executed'[i] + resting'[i] = executed[i] + resting[i]
              /\ resting[i] = 0 => resting'[i] = 0 /\ executed'[i] = executed[i]
  <2>1. PICK e \in Nat, s \in Nat, f \in Nat, t \in Nat, t1 \in Nat, p \in Nat :
          /\ e = executed[i] /\ s = resting[i] /\ f = orders[i].filled
          /\ t = Traded(pending, i) /\ t1 = Traded(pending', i) /\ p = Part(h, i)
    BY <1>1, <1>4, <1>9, TradedType, PartType DEF Typed, OrderRow
  <2>2. e = f + t
    <3>1. Traded(agenda, i) = 0 BY <1>1, TradedNone DEF Typed
    <3>2. e = f + (0 + t) BY <1>1, <2>1, <3>1 DEF Booking, Unbooked
    <3> QED BY <2>1, <3>2
  <2>3. t = p + Traded(Tail(pending), i) BY <1>4, <1>9, <2>1, TradedTail
  <2>4. CASE UNCHANGED engine /\ pending' = Tail(pending)
    <3>1. executed'[i] = e /\ resting'[i] = s BY <2>1, <2>4 DEF engine
    <3>2. t = p + t1 BY <2>1, <2>3, <2>4
    <3> QED BY <2>1, <2>2, <3>1, <3>2
  <2>5. CASE /\ Len(pending) = 1 /\ pending' \in AgentBatches
             /\ resting' = [m \in OrderId |-> resting[m] - Traded(pending', m)]
             /\ executed' = [m \in OrderId |-> executed[m] + Traded(pending', m)]
    <3>1. executed'[i] = e + t1 /\ resting'[i] = s - t1 BY <2>1, <2>5
    <3>2. t1 <= s BY <2>1, <2>5 DEF AgentBatches
    <3>3. Traded(Tail(pending), i) = 0
      <4>1. PICK u : u = Tail(pending) OBVIOUS
      <4>2. u \in Seq(WorkItem) /\ DOMAIN u = {}
        <5>1. u \in Seq(WorkItem) /\ Len(u) = 0 BY <1>9, <2>5, <4>1
        <5> QED BY <5>1
      <4> QED BY <4>1, <4>2, TradedNone
    <3>4. t = p BY <2>1, <2>3, <3>3
    <3>5. e + t1 = f + (p + t1) /\ e + t1 + (s - t1) = e + s /\ (s = 0 => t1 = 0)
      BY <2>1, <2>2, <3>2, <3>4
    <3> QED BY <2>1, <3>1, <3>5
  <2> QED BY <1>4, <2>4, <2>5
<1>11. Calm' BY <1>1, <1>3, <1>7, <1>8 DEF Calm, Quietly, Timed
<1>12. Watched'
  <2>1. \A j \in Waits : j \in OrderId /\ j \in trigBook /\ resting[j] = 0 /\ executed[j] = 0
    BY <1>1 DEF Watched, Waits, Known
  <2>2. \A j \in Waits : resting'[j] = 0 /\ executed'[j] = 0 BY <1>10, <2>1
  <2>3. \A j \in trigBook : orders[j].shown = watch[j].stop BY <1>1 DEF Watched
  <2> QED BY <1>1, <1>3, <1>7, <2>1, <2>2, <2>3 DEF Watched
<1>13. Owed'
  <2>1. ASSUME NEW n \in DOMAIN agenda' PROVE OwesTo(agenda'[n], Waits', Loose', trigBook')
    <3>1. CASE n = 1 BY <1>3, <1>5, <1>7, <3>1 DEF Owes
    <3>2. CASE n = 2
      <4>1. agenda'[n].k = "loop" BY <1>3, <1>6, <3>2
      <4> QED BY <1>8, <4>1 DEF OwesTo
    <3> QED BY <1>3, <3>1, <3>2
  <2>2. ASSUME NEW n \in DOMAIN pending' PROVE OwesTo(pending'[n], Waits', Loose', trigBook')
    <3>1. Owes(pending'[n])
      <4>1. \A m \in DOMAIN pending : Owes(pending[m]) BY <1>1 DEF Owed
      <4> QED BY <1>1, <1>4, <4>1, AgentOwes
    <3> QED BY <1>3, <1>7, <3>1 DEF Owes
  <2> QED BY <1>8, <2>1, <2>2 DEF Owed, Owes
<1>14. Booking'
  <2>1. ASSUME NEW i \in OrderId PROVE Traded(agenda', i) = Part(h, i)
    <3>1. PICK b : b = agenda' OBVIOUS
    <3>2. b \in Seq(WorkItem) /\ Len(b) = 2 /\ b # <<>> /\ Head(b) = h
      <4>1. b \in Seq(WorkItem) /\ DOMAIN b = {1, 2} /\ b[1] = h BY <1>1, <1>3, <3>1
      <4>2. Len(b) = 2 BY <4>1
      <4> QED BY <4>1, <4>2
    <3>3. PICK u : u = Tail(b) OBVIOUS
    <3>4. u \in Seq(WorkItem) /\ Len(u) = 1 /\ u[1] = b[2] BY <3>2, <3>3
    <3>5. DOMAIN u = {1} /\ u[1] = Loop BY <1>3, <3>1, <3>4
    <3>6. Traded(u, i) = 0
      <4>1. Part(Loop, i) = 0 BY <1>6, PartType
      <4> QED BY <3>4, <3>5, <4>1, TradedNone
    <3>7. Traded(b, i) = Part(h, i) + Traded(u, i) BY <3>2, <3>3, TradedTail
    <3>8. Part(h, i) \in Nat BY <1>4, PartType
    <3> QED BY <3>1, <3>6, <3>7, <3>8
  <2>2. ASSUME NEW i \in OrderId
        PROVE  /\ executed'[i] = orders'[i].filled + (Traded(agenda', i) + Traded(pending', i))
               /\ i \in Known' => executed'[i] + resting'[i] <= orders'[i].req.qty
               /\ i \notin Known' => executed'[i] = 0 /\ resting'[i] = 0
    BY <1>1, <1>3, <1>7, <1>10, <2>1 DEF Booking
  <2> QED BY <2>2 DEF Booking, Unbooked
<1>15. Undone'
  <2>1. ASSUME NEW j \in Known', Lone(j)' PROVE executed'[j] = 0 /\ Settled(j)'
    <3>1. j \in Known /\ j \in OrderId /\ Lone(j) BY <1>3, <1>7, <2>1 DEF Lone, Known
    <3>2. executed[j] = 0 /\ resting[j] = 0 /\ j \notin trigBook
      BY <1>1, <3>1 DEF Undone
    <3>3. executed'[j] = 0 /\ resting'[j] = 0 BY <1>10, <3>1, <3>2
    <3> QED BY <1>3, <1>8, <3>2, <3>3 DEF Settled
  <2>2. \A n \in DOMAIN agenda' : agenda'[n].k # "second" BY <1>8
  <2> QED BY <2>1, <2>2 DEF Undone, Settled
<1> QED BY <1>11, <1>12, <1>13, <1>14, <1>15 DEF Orderly

LEMMA HandlerOrderly ==
  ASSUME NothingAtOnce, Orderly, Guarded',
         \/ \E r \in Requests : SubmitOrder(r)
         \/ \E legs \in OcoRequests : SubmitOco(legs)
         \/ \E i \in OrderId : CancelOrder(i)
  PROVE  Orderly'
<1>1. Base /\ agenda = <<>> /\ DOMAIN agenda = {}
  BY DEF Orderly, Guarded, SubmitOrder, SubmitOco, CancelOrder
<1>2. Plain(agenda) /\ \A i \in Known : ~Undoing(i) BY <1>1 DEF Plain, Undoing
<1>3. \A r \in Requested : Quietly(r) BY DEF NothingAtOnce, Quietly
<1>4. ASSUME NEW r \in Requests, SubmitOrder(r) PROVE Orderly'
  <2>1. PICK w : w = Submit(r, NoGroup) OBVIOUS
  <2>2. w.k = "submit" /\ w.req = r BY <2>1 DEF Submit
  <2>3. /\ DOMAIN agenda' = {1} /\ agenda'[1] = w
        /\ UNCHANGED <<orders, oms, engine, pending>>
    BY <1>1, <1>4, <2>1, Started
  <2>4. Quietly(r) BY <1>3 DEF Requested
  <2>5. Plain(agenda') /\ SecondSoon' BY <2>2, <2>3 DEF Plain, SecondSoon
  <2> QED BY <1>2, <2>2, <2>3, <2>4, <2>5, PlainOrderly
<1>5. ASSUME NEW legs \in OcoRequests, SubmitOco(legs) PROVE Orderly'
  <2>1. PICK w, v : w = Submit(legs[1], NextId) /\ v = Second(legs[2], NextId) OBVIOUS
  <2>2. /\ w.k = "submit" /\ w.req = legs[1] /\ v.k = "second" /\ v.req = legs[2]
    BY <2>1 DEF Submit, Second
  <2>3. /\ DOMAIN agenda' = {1, 2} /\ agenda'[1] = w /\ agenda'[2] = v
        /\ UNCHANGED <<orders, oms, engine, pending>>
    BY <1>1, <1>5, <2>1, Started
  <2>4. Quietly(legs[1]) /\ Quietly(legs[2]) BY <1>3 DEF Requested
  <2>5. Plain(agenda') /\ SecondSoon' BY <2>2, <2>3 DEF Plain, SecondSoon
  <2> QED BY <1>2, <2>2, <2>3, <2>4, <2>5, PlainOrderly
<1>6. ASSUME NEW i \in OrderId, CancelOrder(i) PROVE Orderly'
  <2>1. PICK w : w = Item("cancel", i) OBVIOUS
  <2>2. w.k = "cancel" BY <2>1 DEF Item
  <2>3. /\ DOMAIN agenda' = {1} /\ agenda'[1] = w
        /\ UNCHANGED <<orders, oms, engine, pending>>
    BY <1>1, <1>6, <2>1, Started
  <2>4. Plain(agenda') /\ SecondSoon' BY <2>2, <2>3 DEF Plain, SecondSoon
  <2> QED BY <1>2, <2>2, <2>3, <2>4, PlainOrderly
<1> QED BY <1>4, <1>5, <1>6

LEMMA OrderlyNext ==
  ASSUME OneTriggered, NothingAtOnce, Orderly, [Next]_vars
  PROVE  Orderly'
<1>1. Guarded' BY GuardedNext DEF Orderly
<1>2. CASE Work
  <2>1. CASE SubmitStep BY <1>1, <2>1, RaisedOrderly, AcceptedOrderly
  <2>2. CASE SecondStep BY <1>1, <2>2, SecondOrderly
  <2>3. CASE ~SubmitStep /\ ~SecondStep BY <1>2, <2>3, WorkOrderly
  <2> QED BY <2>1, <2>2, <2>3
<1>3. CASE Tick BY <1>1, <1>3, TickOrderly
<1>4. CASE UNCHANGED vars
  <2>1. UNCHANGED <<orders, trigBook, watch, groupOf, members, resting, executed, pending, agenda>>
    BY <1>4 DEF vars, oms, engine
  <2>2. Known' = Known /\ Waits' = Waits /\ Loose' = Loose BY <2>1 DEF Known, Waits, Loose
  <2>3. Calm' BY <2>1, <2>2 DEF Orderly, Calm
  <2>4. Watched' BY <2>1, <2>2 DEF Orderly, Watched
  <2>5. Owed' BY <2>1, <2>2 DEF Orderly, Owed, Owes
  <2>6. Booking' BY <2>1, <2>2 DEF Orderly, Booking, Unbooked
  <2>7. Undone' BY <2>1, <2>2 DEF Orderly, Undone, Lone
  <2> QED BY <1>1, <2>3, <2>4, <2>5, <2>6, <2>7 DEF Orderly
<1> QED BY <1>1, <1>2, <1>3, <1>4, HandlerOrderly DEF Next

LEMMA OrderlyInit ==
  ASSUME Init
  PROVE  Orderly
<1>1. Guarded BY GuardedInit
<1>2. /\ orders = [i \in OrderId |-> [req |-> NoRequest, group |-> NoGroup, filled |-> 0,
                                      status |-> "NONE", shown |-> NoPrice]]
      /\ trigBook = {} /\ agenda = <<>> /\ pending = <<Quiet>>
      /\ resting = [i \in OrderId |-> 0] /\ executed = [i \in OrderId |-> 0]
  BY DEF Init
<1>3. \A i \in OrderId : orders[i].status = "NONE" /\ orders[i].filled = 0 BY <1>2
<1>4. Known = {} /\ Waits = {} /\ DOMAIN agenda = {} BY <1>2, <1>3 DEF Known, Waits
<1>5. DOMAIN pending = {1} /\ pending[1] = Quiet BY <1>2
<1>6. \A n \in DOMAIN pending : Owes(pending[n])
  BY <1>4, <1>5 DEF Owes, OwesTo, Acts, Drops, Quiet
<1>7. \A i : Traded(agenda, i) = 0 /\ Traded(pending, i) = 0
  <2>1. agenda \in Seq(WorkItem) /\ pending \in Seq(WorkItem)
    BY <1>1, ItemKinds, ItemTypes DEF Guarded, Base, Typed, QueueItem
  <2>2. \A i : Part(Quiet, i) = 0 BY DEF Part, Quiet
  <2> QED BY <1>4, <1>5, <2>1, <2>2, TradedNone
<1>8. Booking BY <1>2, <1>3, <1>4, <1>7 DEF Booking, Unbooked
<1>9. Calm /\ Watched /\ Undone BY <1>2, <1>4 DEF Calm, Watched, Undone
<1>10. Owed BY <1>4, <1>6 DEF Owed
<1> QED BY <1>1, <1>8, <1>9, <1>10 DEF Orderly

\* The bookkeeping between the four holders of a user's order is in order at every step
\* of every handler, when no submission trades at once.
THEOREM OrderlyInvariant == OneTriggered /\ NothingAtOnce /\ Spec => []Orderly
<1> SUFFICES ASSUME OneTriggered, NothingAtOnce PROVE Spec => []Orderly OBVIOUS
<1>1. Init => Orderly BY OrderlyInit
<1>2. Orderly /\ [Next]_vars => Orderly' BY OrderlyNext
<1> QED BY <1>1, <1>2, PTL DEF Spec

\* Between handlers the trigger book watches exactly the orders the portfolio calls
\* untriggered, with the stop it shows.
THEOREM WatchedMeansUntriggered ==
  OneTriggered /\ NothingAtOnce /\ Spec => []WatchedIffUntriggered
<1>1. Orderly => WatchedIffUntriggered
  <2> SUFFICES ASSUME Orderly, agenda = <<>>
               PROVE  /\ \A i \in OrderId : orders[i].status = "UNTRIGGERED" <=> i \in trigBook
                      /\ \A i \in trigBook : orders[i].shown = watch[i].stop
    BY DEF WatchedIffUntriggered
  <2>1. Watched /\ DOMAIN agenda = {} BY DEF Orderly
  <2>2. \A i \in OrderId : i \in Waits <=> orders[i].status = "UNTRIGGERED" BY DEF Waits, Known
  <2>3. trigBook \subseteq OrderId BY DEF Orderly, Guarded, Base, Typed, Known
  <2> QED BY <2>1, <2>2, <2>3 DEF Watched
<1> QED BY <1>1, OrderlyInvariant, PTL

\* Every fill of a user order is booked once or still on its way, and no order executes
\* beyond its quantity, whatever trades, is cancelled and triggers in between.
THEOREM FillsAreBooked == OneTriggered /\ NothingAtOnce /\ Spec => []EveryFillBooked
<1>1. Orderly => EveryFillBooked
  <2>1. Known \subseteq OrderId BY DEF Known
  <2> QED BY <2>1 DEF Orderly, Booking, EveryFillBooked
<1> QED BY <1>1, OrderlyInvariant, PTL

\* Of an OCO submission whose second leg was refused, the first leg neither rests nor
\* waits nor has traded once the handler is over.
THEOREM SubmissionIsAtomic == OneTriggered /\ NothingAtOnce /\ Spec => []OcoSubmissionAtomic
<1>1. Orderly => OcoSubmissionAtomic
  <2> SUFFICES ASSUME Orderly, agenda = <<>>, NEW i \in Known, orders[i].group = i,
                      \A j \in Known \ {i} : orders[j].group # i
               PROVE  executed[i] = 0 /\ resting[i] = 0 /\ i \notin trigBook
    BY DEF OcoSubmissionAtomic
  <2>1. Undone /\ DOMAIN agenda = {} BY DEF Orderly
  <2>2. Lone(i) BY DEF Lone
  <2> QED BY <2>1, <2>2 DEF Undone
<1> QED BY <1>1, OrderlyInvariant, PTL

-----------------------------------------------------------------------------
(* What becomes of an OCO group. *)

\* In a pair, what waits for the price goes to the market when it triggers.
StopsAtMarket ==
  \A legs \in OcoRequests : \A r \in {legs[1], legs[2]} : r.trigger # "NONE" => r.exec = "market"

Market(r) == r.trigger # "NONE" => r.exec = "market"
InGroup(i) == orders[i].group # NoGroup
Ended(i) == orders[i].status \in {"CANCELED", "REJECTED"}
Over(i) ==
  (orders[i].req.trigger # "NONE" /\ orders[i].status # "UNTRIGGERED")
  \/ orders[i].status = "FILLED"

\* Orders that are over do not rest, nor does any that waited for the price in a group.
Spent ==
  /\ \A i \in Known :
       /\ Ended(i) => resting[i] = 0
       /\ orders[i].status = "FILLED" => orders[i].filled >= orders[i].req.qty
       /\ orders[i].status = "TRIGGERED" => orders[i].req.trigger # "NONE"
       /\ InGroup(i) => Market(orders[i].req)
       /\ (InGroup(i) /\ orders[i].req.trigger # "NONE") => resting[i] = 0
  /\ \A n \in DOMAIN agenda :
       /\ agenda[n].k \in {"rejected", "canceled"} => resting[agenda[n].id] = 0
       /\ (agenda[n].k \in {"submit", "second"} /\ agenda[n].group # NoGroup)
            => Market(agenda[n].req)

\* A group is whole until all of it is left; it is not left before its second leg.
Intact ==
  \A n \in DOMAIN agenda :
    /\ (agenda[n].k = "second" /\ agenda[1].k # "submit") => members[agenda[n].group] # {}
    /\ (agenda[n].k = "rollback" /\ agenda[1].k = "submit") => members[agenda[n].id] # {}
Whole ==
  /\ \A g \in OrderId : members[g] \in {{}, {i \in Known : orders[i].group = g}}
  /\ Intact

\* What has left its group does not rest, or is about to be cancelled; and an order that
\* is over has left.
Left ==
  /\ \A n \in DOMAIN agenda : Drops(agenda[n]) \subseteq Loose
  /\ \A i \in Known : InGroup(i) =>
       /\ Over(i) => i \in Loose
       /\ i \in Loose => resting[i] = 0 \/ \E n \in DOMAIN agenda : i \in Drops(agenda[n])

Exclusive == Orderly /\ Spent /\ Whole /\ Left

\* What a step does to one order.
OrderOk(i, items) ==
  /\ Ended(i)' => Ended(i) \/ resting'[i] = 0
  /\ orders'[i].status = "FILLED" => orders'[i].filled >= orders[i].req.qty
  /\ orders'[i].status = "TRIGGERED" => orders[i].req.trigger # "NONE"
  /\ InGroup(i) =>
       /\ i \in Acts(work) => resting'[i] = 0
       /\ Over(i)' => Over(i) \/ i \in Loose'
       /\ i \in Loose' => \/ resting'[i] = 0 \/ (i \in Loose /\ i \notin Drops(work))
                          \/ \E n \in DOMAIN items : i \in Drops(items[n])

GroupOk(items) ==
  /\ \A i \in Known : OrderOk(i, items)
  /\ \A g \in OrderId : members'[g] \in {members[g], {}}
  /\ work.k = "accepted" => items = <<>> /\ UNCHANGED members
  /\ \A n \in DOMAIN items :
       /\ items[n].k \in {"rejected", "canceled"} => resting'[items[n].id] = 0
       /\ Drops(items[n]) \subseteq Loose'
GroupKeeping == \E items \in Seq(WorkItem) : Continue(items) /\ GroupOk(items)

LEMMA GroupsKept ==
  ASSUME Exclusive, RowsKept, Narrowed, UndoOk, agenda # <<>>, work.k \notin {"submit", "second"},
         NEW items \in Seq(WorkItem), Continue(items), Carried(items), GroupOk(items)
  PROVE  Spent' /\ Whole' /\ Left'
<1>1. /\ Base /\ Owed /\ Watched /\ Undone /\ agenda \in Seq(WorkItem) /\ work = agenda[1]
      /\ 1 \in DOMAIN agenda /\ Names(work) /\ Acts(work) \subseteq Waits /\ NamesKnown
  <2>1. Orderly BY DEF Exclusive
  <2>2. Owes(work) BY <2>1, Parts
  <2> QED BY <2>1, <2>2, Parts DEF Orderly, Base, Typed, Owes, OwesTo
<1>2. Known' = Known /\ \A i \in Known : /\ i \in OrderId /\ orders'[i].req = orders[i].req
                                         /\ orders'[i].group = orders[i].group
  BY DEF RowsKept, Known
<1>3. \A n \in DOMAIN agenda' :
        \/ n \in DOMAIN items /\ agenda'[n] = items[n]
        \/ /\ n > Len(items) /\ n - Len(items) + 1 \in DOMAIN agenda /\ n - Len(items) + 1 > 1
           /\ agenda'[n] = agenda[n - Len(items) + 1]
  BY <1>1, ContinueAgenda
<1>4. \A n \in DOMAIN agenda' :
        \/ n \in DOMAIN items /\ agenda'[n] = items[n]
        \/ \E m \in DOMAIN agenda : m # 1 /\ agenda'[n] = agenda[m]
  <2> SUFFICES ASSUME NEW n \in DOMAIN agenda',
                      n - Len(items) + 1 \in DOMAIN agenda, n - Len(items) + 1 > 1,
                      agenda'[n] = agenda[n - Len(items) + 1]
               PROVE  \E m \in DOMAIN agenda : m # 1 /\ agenda'[n] = agenda[m]
    BY <1>3
  <2>1. PICK m : m = n - Len(items) + 1 OBVIOUS
  <2>2. m \in DOMAIN agenda /\ m > 1 /\ agenda'[n] = agenda[m] BY <2>1
  <2>3. m # 1 BY <2>2
  <2> QED BY <2>2, <2>3
\* Only what is about to be activated may come to rest.
<1>5. \A i \in Known : /\ resting[i] = 0 /\ i \notin Acts(work) => resting'[i] = 0
                       /\ resting[i] = 0 /\ InGroup(i) => resting'[i] = 0
  BY <1>2 DEF UndoOk, GroupOk, OrderOk
<1>6. \A i \in Known : Ended(i) => i \notin Acts(work)
  BY <1>1 DEF Ended, Waits
<1>7. ASSUME NEW i \in Known
      PROVE  /\ Ended(i)' => resting'[i] = 0
             /\ orders'[i].status = "FILLED" => orders'[i].filled >= orders'[i].req.qty
             /\ orders'[i].status = "TRIGGERED" => orders'[i].req.trigger # "NONE"
             /\ InGroup(i)' => Market(orders'[i].req)
             /\ (InGroup(i)' /\ orders'[i].req.trigger # "NONE") => resting'[i] = 0
  <2>1. OrderOk(i, items) BY DEF GroupOk
  <2>2. InGroup(i)' <=> InGroup(i) BY <1>2 DEF InGroup
  <2>3. Spent BY DEF Exclusive
  <2>4. Ended(i)' => resting'[i] = 0 BY <1>5, <1>6, <2>1, <2>3 DEF Spent, OrderOk
  <2> QED BY <1>2, <1>5, <2>1, <2>2, <2>3, <2>4 DEF Spent, OrderOk
<1>8. ASSUME NEW n \in DOMAIN agenda'
      PROVE  /\ agenda'[n].k \in {"rejected", "canceled"} => resting'[agenda'[n].id] = 0
             /\ (agenda'[n].k \in {"submit", "second"} /\ agenda'[n].group # NoGroup)
                  => Market(agenda'[n].req)
             /\ Drops(agenda'[n]) \subseteq Loose'
  <2>1. CASE n \in DOMAIN items /\ agenda'[n] = items[n] BY <2>1 DEF GroupOk, Carried
  <2>2. ASSUME NEW m \in DOMAIN agenda, m # 1, agenda'[n] = agenda[m]
        PROVE  /\ agenda'[n].k \in {"rejected", "canceled"} => resting'[agenda'[n].id] = 0
               /\ (agenda'[n].k \in {"submit", "second"} /\ agenda'[n].group # NoGroup)
                    => Market(agenda'[n].req)
               /\ Drops(agenda'[n]) \subseteq Loose'
    <3>1. Spent /\ Left BY DEF Exclusive
    <3>2. Owes(agenda[m]) /\ Names(agenda[m]) BY <1>1 DEF Owed, NamesKnown
    <3>3. agenda[m].k \in {"rejected", "canceled"} =>
            agenda[m].id \in Known /\ agenda[m].id \notin Acts(work) /\ resting[agenda[m].id] = 0
      BY <1>1, <3>1, <3>2 DEF Owes, OwesTo, Names, NamesIn, Spent
    <3>4. Drops(agenda[m]) \subseteq Loose' BY <3>1 DEF Left, Narrowed
    <3> QED BY <1>5, <2>2, <3>1, <3>3, <3>4 DEF Spent
  <2> QED BY <1>4, <2>1, <2>2
<1>9. Spent' BY <1>2, <1>7, <1>8 DEF Spent
<1>10. Whole'
  <2>1. Whole BY DEF Exclusive
  <2>2. \A g \in OrderId : members'[g] \in {{}, {i \in Known' : orders'[i].group = g}}
    <3> SUFFICES ASSUME NEW g \in OrderId, members'[g] # {}
                 PROVE  members'[g] = {i \in Known' : orders'[i].group = g}
      OBVIOUS
    <3>1. members'[g] = {i \in Known : orders[i].group = g} BY <2>1 DEF GroupOk, Whole
    <3> QED BY <1>2, <3>1
  <2>3. ASSUME NEW n \in DOMAIN agenda'
        PROVE  /\ agenda'[n].k = "second" => members'[agenda'[n].group] # {}
               /\ agenda'[n].k = "rollback" => agenda'[1].k # "submit"
    <3>1. CASE n \in DOMAIN items /\ agenda'[n] = items[n] BY <3>1 DEF Carried
    <3>2. ASSUME NEW m \in DOMAIN agenda, m # 1, agenda'[n] = agenda[m], agenda[m].k = "second"
          PROVE  members'[agenda[m].group] # {}
      <4>1. m = 2 /\ work.k \in {"submit", "accepted"}
        BY <1>1, <3>2 DEF Undone
      <4>2. members[agenda[m].group] # {} BY <1>1, <2>1, <3>2 DEF Whole, Intact
      <4> QED BY <4>1, <4>2 DEF GroupOk
    <3>3. agenda'[1].k # "submit"
      <4>1. 1 \in DOMAIN agenda'
        <5>1. agenda' \in Seq(WorkItem) BY <1>1, ContinueAgenda
        <5> QED BY <5>1
      <4>2. CASE 1 \in DOMAIN items /\ agenda'[1] = items[1] BY <4>2 DEF Carried
      <4>3. CASE \E m \in DOMAIN agenda : m # 1 /\ agenda'[1] = agenda[m]
        BY <1>1, <4>3 DEF Base, Shaped
      <4> QED BY <1>4, <4>1, <4>2, <4>3
    <3> QED BY <1>4, <3>1, <3>2, <3>3
  <2> QED BY <2>2, <2>3 DEF Whole, Intact
<1>11. ASSUME NEW i \in Known, InGroup(i)
       PROVE  /\ Over(i)' => i \in Loose'
              /\ i \in Loose' => resting'[i] = 0 \/ \E n \in DOMAIN agenda' : i \in Drops(agenda'[n])
  <2>1. OrderOk(i, items) BY DEF GroupOk
  <2>2. Left BY DEF Exclusive
  <2>3. Over(i)' => i \in Loose' BY <1>11, <2>1, <2>2 DEF OrderOk, Left, Narrowed
  <2>4. ASSUME i \in Loose', resting'[i] # 0 PROVE \E n \in DOMAIN agenda' : i \in Drops(agenda'[n])
    <3>1. CASE \E n \in DOMAIN items : i \in Drops(items[n]) BY <1>1, <3>1, ContinueAgenda
    <3>2. CASE i \in Loose /\ i \notin Drops(work)
      <4>1. resting[i] # 0 BY <1>5, <1>11, <2>4
      <4>2. PICK m \in DOMAIN agenda : i \in Drops(agenda[m]) BY <1>11, <2>2, <3>2, <4>1 DEF Left
      <4>3. m > 1
        <5>1. m # 1 BY <1>1, <3>2, <4>2
        <5> QED BY <1>1, <5>1
      <4> QED BY <1>1, <4>2, <4>3, ContinueAgenda
    <3> QED BY <1>11, <2>1, <2>4, <3>1, <3>2 DEF OrderOk
  <2> QED BY <2>3, <2>4
<1>12. Left'
  <2>1. \A i \in Known : InGroup(i)' <=> InGroup(i) BY <1>2 DEF InGroup
  <2> QED BY <1>2, <1>8, <1>11, <2>1 DEF Left
<1> QED BY <1>9, <1>10, <1>12

\* An order whose row stays as it is.
LEMMA StaysOk ==
  ASSUME Spent, Left, RowsKept, Narrowed, NEW items, NEW i \in Known,
         orders'[i].status = orders[i].status, orders'[i].filled = orders[i].filled,
         i \in Acts(work) \cup Loose' =>
           resting'[i] = 0 \/ (i \notin Acts(work) /\ i \in Loose /\ i \notin Drops(work))
           \/ (i \notin Acts(work) /\ \E n \in DOMAIN items : i \in Drops(items[n]))
  PROVE  OrderOk(i, items)
<1>1. i \in OrderId /\ orders'[i].req = orders[i].req BY DEF Known, RowsKept
<1>2. (Ended(i)' <=> Ended(i)) /\ (Over(i)' <=> Over(i)) BY <1>1 DEF Ended, Over
<1> QED BY <1>1, <1>2 DEF OrderOk, Spent

\* An order that is filled, once its fills are booked, has nothing left in the book.
LEMMA FilledIsSpentNext ==
  ASSUME Base', Booking', Known' = Known, NEW i \in Known, orders'[i].filled >= orders'[i].req.qty
  PROVE  resting'[i] = 0
<1>1. i \in OrderId /\ i \in Known' BY DEF Known
<1>2. /\ resting'[i] \in Nat /\ executed'[i] \in Nat /\ orders'[i].filled \in Nat
      /\ orders'[i].req \in Request /\ agenda' \in Seq(WorkItem) /\ pending' \in Seq(WorkItem)
  BY <1>1, ItemKinds, ItemTypes DEF Base, Typed, OrderRow, QueueItem
<1>3. orders'[i].req.qty \in Nat BY <1>2, Numbers DEF Request
<1>4. Traded(agenda', i) \in Nat /\ Traded(pending', i) \in Nat BY <1>2, TradedType
<1>5. PICK r \in Nat, e \in Nat, f \in Nat, q \in Nat, a \in Nat, p \in Nat :
        /\ r = resting'[i] /\ e = executed'[i] /\ f = orders'[i].filled /\ q = orders'[i].req.qty
        /\ a = Traded(agenda', i) /\ p = Traded(pending', i)
  BY <1>2, <1>3, <1>4
<1>6. e = f + (a + p) /\ e + r <= q BY <1>1, <1>5 DEF Booking, Unbooked
<1>7. f >= q BY <1>5
<1>8. r = 0 BY <1>6, <1>7
<1> QED BY <1>5, <1>8

\* Leaving a group empties it and sets its orders loose.
LEMMA GroupGone ==
  ASSUME Base, NEW i \in OrderId, LeaveGroup(groupOf[i], i)
  PROVE  /\ Loose' = Loose \cup PeersOf(i) \cup {i}
         /\ \A g \in OrderId : members'[g] \in {members[g], {}}
<1>1. PICK g : g = groupOf[i] OBVIOUS
<1>2. g \in Ids /\ members[NoGroup] = {} /\ members \in [Ids -> SUBSET OrderId]
  BY <1>1 DEF Base, Typed, Grouped
<1>3. /\ groupOf' = [j \in OrderId |-> IF j \in (members[g] \ {i}) \cup {i} THEN NoGroup ELSE groupOf[j]]
      /\ members' = [members EXCEPT ![g] = {}]
  BY <1>1 DEF LeaveGroup
<1>4. PeersOf(i) = members[g] \ {i} /\ members[g] \subseteq OrderId BY <1>1, <1>2 DEF PeersOf
<1>5. \A j \in OrderId : j \in Loose' <=> j \in Loose \cup PeersOf(i) \cup {i} BY <1>3, <1>4 DEF Loose
<1>6. Loose' = Loose \cup PeersOf(i) \cup {i} BY <1>4, <1>5 DEF Loose
<1>7. \A h \in OrderId : members'[h] \in {members[h], {}} BY <1>2, <1>3 DEF Ids
<1> QED BY <1>6, <1>7

\* One item, which drops a set of orders.
LEMMA PeersGo ==
  ASSUME NEW S \in SUBSET OrderId
  PROVE  /\ <<Peers(S)>> \in Seq(WorkItem)
         /\ \A n \in DOMAIN <<Peers(S)>> :
              /\ <<Peers(S)>>[n].k = "peers" /\ Drops(<<Peers(S)>>[n]) = S
         /\ \A i : i \in S => \E n \in DOMAIN <<Peers(S)>> : i \in Drops(<<Peers(S)>>[n])
<1>1. PICK w, s : w = Peers(S) /\ s = <<w>> OBVIOUS
<1>2. w \in WorkItem /\ w.k = "peers" /\ w.ids = S BY <1>1, ItemTypes, ItemKinds DEF Peers
<1>3. DOMAIN s = {1} /\ s[1] = w /\ s \in Seq(WorkItem) /\ Drops(w) = S BY <1>1, <1>2 DEF Drops
<1> QED BY <1>1, <1>2, <1>3

\* The rows, the groups and the book stay; what the item drops is handed on.
LEMMA StillGroups ==
  ASSUME Exclusive, RowsKept, Narrowed, agenda # <<>>, UNCHANGED <<members, resting>>,
         \A i \in OrderId : orders'[i].status = orders[i].status
                            /\ orders'[i].filled = orders[i].filled,
         UNCHANGED groupOf, NEW items \in Seq(WorkItem), Continue(items),
         work.k = "accepted" => items = <<>>,
         \A n \in DOMAIN items : /\ items[n].k \notin {"rejected", "canceled"}
                                 /\ Drops(items[n]) \subseteq Drops(work),
         \A i \in Drops(work) : \E n \in DOMAIN items : i \in Drops(items[n])
  PROVE  GroupKeeping
<1>1. /\ Watched /\ Owes(work) /\ Acts(work) \cap Drops(work) = {} /\ Spent /\ Left
      /\ work = agenda[1] /\ 1 \in DOMAIN agenda
  BY Parts DEF Exclusive
<1>2. Loose' = Loose BY DEF Loose
<1>3. ASSUME NEW i \in Known PROVE OrderOk(i, items)
  <2>1. i \in OrderId BY DEF Known
  <2>2. i \in Acts(work) => resting'[i] = 0 BY <1>1 DEF Owes, OwesTo, Watched
  <2> QED BY <1>1, <1>2, <2>1, <2>2, StaysOk
<1>4. \A n \in DOMAIN items : Drops(items[n]) \subseteq Loose' BY <1>1, <1>2 DEF Left
<1>5. GroupOk(items) BY <1>3, <1>4 DEF GroupOk
<1> QED BY <1>5 DEF GroupKeeping

LEMMA QuietGroups ==
  ASSUME Exclusive, RowsKept, Narrowed, LeaveStep \/ CandleStep \/ TradeStep \/ OnTradeStep
  PROVE  GroupKeeping
<1>1. /\ agenda # <<>> /\ work.k \in {"rollback", "loop", "quiet", "candle", "trade", "onTrade"}
      /\ UNCHANGED <<members, resting, orders, groupOf>>
  BY DEF LeaveStep, CandleStep, TradeStep, OnTradeStep, Doing, oms, engine
<1>2. Drops(work) = {} BY <1>1 DEF Drops
<1>3. Orderly /\ work \in WorkItem /\ Typed BY <1>1, Parts DEF Exclusive
<1>4. ASSUME NEW items \in Seq(WorkItem), Continue(items),
             \A n \in DOMAIN items : items[n].k \in {"leg", "onTrade", "candle"}
                                     \/ (items[n].k = "scan" /\ items[n].gone = {})
      PROVE  GroupKeeping
  <2>1. \A n \in DOMAIN items : /\ items[n].k \notin {"rejected", "canceled"}
                                /\ Drops(items[n]) \subseteq Drops(work)
    BY <1>4 DEF Drops
  <2> QED BY <1>1, <1>2, <1>4, <2>1, StillGroups
<1>5. CASE LeaveStep \/ CandleStep
  <2>1. PICK s : s = <<>> OBVIOUS
  <2>2. s \in Seq(WorkItem) /\ DOMAIN s = {} BY <2>1
  <2>3. Continue(s) BY <1>3, <1>5, <2>1, CandleKeeps DEF LeaveStep
  <2> QED BY <1>4, <2>2, <2>3
<1>6. CASE OnTradeStep
  <2>1. PICK w : w = Scan(trigBook, work.price, work.ts, <<>>, {}, {}) OBVIOUS
  <2>2. w.k = "scan" /\ w.gone = {} BY <2>1 DEF Scan
  <2>3. work.price \in Prices /\ work.ts \in Times
    BY <1>3, <1>6, ItemFields DEF OnTradeItem, OnTradeStep, Doing
  <2>4. w \in WorkItem
    <3>1. {} \in SUBSET OrderId /\ <<>> \in Seq(OrderId) /\ trigBook \in SUBSET OrderId
      BY <1>3 DEF Typed, Known
    <3> QED BY <2>1, <2>3, <3>1, ItemTypes, ItemKinds
  <2>5. PICK s : s = <<w>> OBVIOUS
  <2>6. s \in Seq(WorkItem) /\ DOMAIN s = {1} /\ s[1] = w BY <2>4, <2>5
  <2>7. Continue(s) BY <1>6, <2>1, <2>5 DEF OnTradeStep
  <2> QED BY <1>4, <2>2, <2>6, <2>7
<1>7. CASE TradeStep
  <2>1. PICK a, b, d, e, t, c :
          /\ a = LegOf(work.buy, work.qty) /\ b = LegOf(work.sell, work.qty)
          /\ d = a \o b /\ t = OnTrade(work.price, work.ts) /\ c = Candle(work.ts) /\ e = <<t, c>>
    OBVIOUS
  <2>2. work.price \in Prices /\ work.ts \in Times /\ work.qty \in Nat
    BY <1>3, <1>7, ItemFields DEF TradeItem, TradeStep, Doing
  <2>3. t \in WorkItem /\ c \in WorkItem /\ t.k = "onTrade" /\ c.k = "candle"
    BY <2>1, <2>2, ItemTypes, ItemKinds DEF OnTrade, Candle
  <2>4. e \in Seq(WorkItem) /\ \A n \in DOMAIN e : e[n].k \in {"onTrade", "candle"}
    <3>1. e \in Seq(WorkItem) /\ DOMAIN e = {1, 2} /\ e[1] = t /\ e[2] = c BY <2>1, <2>3
    <3> QED BY <2>3, <3>1
  <2>5. /\ a \in Seq(WorkItem) /\ \A n \in DOMAIN a : a[n].k = "leg"
        /\ b \in Seq(WorkItem) /\ \A n \in DOMAIN b : b[n].k = "leg"
    <3>1. \A i, q : Leg(i, q).k = "leg" BY DEF Leg
    <3>2. Base BY <1>3 DEF Orderly, Guarded
    <3> QED BY <2>1, <2>2, <3>1, <3>2, LegOfItems
  <2>6. d \in Seq(WorkItem) /\ \A n \in DOMAIN d : d[n].k = "leg"
    <3>1. \A n \in DOMAIN d : (n \in DOMAIN a /\ d[n] = a[n]) \/ \E m \in DOMAIN b : d[n] = b[m]
      BY <2>1, <2>5, ConcatElements
    <3> QED BY <2>1, <2>5, <3>1, ConcatIn
  <2>7. PICK items : items = d \o e OBVIOUS
  <2>8. items \in Seq(WorkItem) /\ \A n \in DOMAIN items : items[n].k \in {"leg", "onTrade", "candle"}
    <3>1. \A n \in DOMAIN items : (n \in DOMAIN d /\ items[n] = d[n])
                                  \/ \E m \in DOMAIN e : items[n] = e[m]
      BY <2>4, <2>6, <2>7, ConcatElements
    <3> QED BY <2>4, <2>6, <2>7, <3>1, ConcatIn
  <2>9. Continue(items) BY <1>7, <2>1, <2>7 DEF TradeStep
  <2> QED BY <1>4, <2>8, <2>9
<1> QED BY <1>5, <1>6, <1>7

LEMMA ReportGroups ==
  ASSUME Exclusive, RowsKept, Narrowed, ReportStep
  PROVE  GroupKeeping
<1>1. /\ agenda # <<>> /\ work.k \in {"accepted", "rejected", "canceled"} /\ Continue(<<>>)
      /\ UNCHANGED <<groupOf, members, resting>>
      /\ \/ UNCHANGED orders
         \/ \E s \in {"OPEN", "REJECTED", "CANCELED"} :
              SetStatus(work.id, s) /\ (s # "OPEN" => work.k \in {"rejected", "canceled"})
  BY DEF ReportStep, Doing, oms, engine
<1>2. /\ Typed /\ Spent /\ Left /\ Watched /\ Owes(work) /\ Names(work)
      /\ work = agenda[1] /\ 1 \in DOMAIN agenda
  BY <1>1, Parts DEF Exclusive
<1>3. work.id \in Known /\ work.id \notin Waits BY <1>1, <1>2 DEF Names, NamesIn, Owes, OwesTo
<1>4. Acts(work) = {} /\ Drops(work) = {} /\ Loose' = Loose BY <1>1 DEF Acts, Drops, Loose
<1>5. ASSUME NEW i \in Known PROVE OrderOk(i, <<>>)
  <2>1. i \in OrderId BY DEF Known
  <2>2. CASE orders'[i] = orders[i] BY <1>2, <1>4, <2>2, StaysOk
  <2>3. CASE orders'[i] # orders[i]
    <3>1. PICK s \in {"OPEN", "REJECTED", "CANCELED"} :
            SetStatus(work.id, s) /\ (s # "OPEN" => work.k \in {"rejected", "canceled"})
      BY <1>1, <2>3
    <3>2. s \in Status \ {"NONE"} BY DEF Status
    <3>3. i = work.id /\ orders'[i].status = s BY <1>2, <1>3, <2>1, <2>3, <3>1, <3>2, StatusRows
    <3>4. s # "OPEN" => resting'[i] = 0 BY <1>1, <1>2, <3>1, <3>3 DEF Spent
    <3>5. orders[i].status # "UNTRIGGERED" BY <1>3, <3>3 DEF Waits
    <3>6. orders'[i].req = orders[i].req BY <2>1 DEF RowsKept
    <3>7. Over(i)' => Over(i) BY <3>3, <3>5, <3>6 DEF Over
    <3> QED BY <1>4, <3>3, <3>4, <3>7 DEF OrderOk, Ended
  <2> QED BY <2>2, <2>3
<1>6. PICK s : s = <<>> OBVIOUS
<1>7. s \in Seq(WorkItem) /\ DOMAIN s = {} BY <1>6
<1>8. GroupOk(s) BY <1>1, <1>5, <1>6, <1>7 DEF GroupOk
<1> QED BY <1>1, <1>6, <1>7, <1>8 DEF GroupKeeping

LEMMA LegGroups ==
  ASSUME Exclusive, RowsKept, Narrowed, Base', Booking', LegStep
  PROVE  GroupKeeping
<1>1. PICK i, q : i = work.id /\ q = work.qty OBVIOUS
<1>2. /\ agenda # <<>> /\ work.k = "leg" /\ orders' = [orders EXCEPT ![i] = Booked(@, q)]
      /\ UNCHANGED resting
      /\ IF Booked(orders[i], q).status = "FILLED" /\ groupOf[i] # NoGroup
         THEN Continue(<<Peers(PeersOf(i))>>) /\ LeaveGroup(groupOf[i], i)
         ELSE Continue(<<>>) /\ UNCHANGED <<groupOf, members>>
  BY <1>1 DEF LegStep, Doing, engine
<1>3. /\ Base /\ Typed /\ Spent /\ Left /\ Owes(work) /\ Names(work) /\ work \in WorkItem
      /\ work = agenda[1] /\ 1 \in DOMAIN agenda
  BY <1>2, Parts DEF Exclusive
<1>4. i \in Known /\ i \in OrderId /\ i \notin Waits /\ q \in Nat
  BY <1>1, <1>2, <1>3, ItemFields DEF Names, NamesIn, Owes, OwesTo, LegItem, Known
<1>5. /\ orders'[i].filled = orders[i].filled + q
      /\ orders'[i].status = IF orders[i].filled + q >= orders[i].req.qty
                             THEN "FILLED" ELSE "PARTIALLY_FILLED"
      /\ orders'[i] = Booked(orders[i], q)
      /\ \A j \in OrderId : j # i => orders'[j] = orders[j]
  BY <1>2, <1>3, <1>4, BookedRows
<1>6. Acts(work) = {} /\ Drops(work) = {} BY <1>2 DEF Acts, Drops
<1>7. orders'[i].req = orders[i].req /\ Known' = Known BY <1>4 DEF RowsKept
<1>8. orders'[i].status = "FILLED" => orders'[i].filled >= orders'[i].req.qty /\ resting'[i] = 0
  <2>1. orders'[i].status = "FILLED" => orders'[i].filled >= orders'[i].req.qty BY <1>5, <1>7
  <2> QED BY <1>4, <1>7, <2>1, FilledIsSpentNext
<1>9. Over(i)' => Over(i) \/ orders'[i].status = "FILLED"
  <2>1. orders[i].status # "UNTRIGGERED" BY <1>4 DEF Waits
  <2> QED BY <1>7, <2>1 DEF Over
<1>10. CASE /\ Booked(orders[i], q).status = "FILLED" /\ groupOf[i] # NoGroup
            /\ Continue(<<Peers(PeersOf(i))>>) /\ LeaveGroup(groupOf[i], i)
  <2>1. PICK S, s : S = PeersOf(i) /\ s = <<Peers(S)>> OBVIOUS
  <2>2. /\ Loose' = Loose \cup S \cup {i} /\ \A g \in OrderId : members'[g] \in {members[g], {}}
        /\ S \in SUBSET OrderId
    BY <1>3, <1>4, <1>10, <2>1, GroupGone, GroupLeft
  <2>3. /\ s \in Seq(WorkItem)
        /\ \A n \in DOMAIN s : s[n].k = "peers" /\ Drops(s[n]) = S
        /\ \A j : j \in S => \E n \in DOMAIN s : j \in Drops(s[n])
    BY <2>1, <2>2, PeersGo
  <2>4. ASSUME NEW j \in Known PROVE OrderOk(j, s)
    <3>1. j \in OrderId BY DEF Known
    <3>2. CASE j # i
      <4>1. orders'[j] = orders[j] /\ resting'[j] = resting[j] BY <1>2, <1>5, <3>1, <3>2
      <4> QED BY <1>3, <1>6, <2>2, <2>3, <3>2, <4>1, StaysOk
    <3>3. CASE j = i
      <4>1. orders'[i].status = "FILLED" BY <1>5, <1>10
      <4> QED BY <1>6, <1>7, <1>8, <2>2, <3>3, <4>1 DEF OrderOk, Ended
    <3> QED BY <3>2, <3>3
  <2>5. \A n \in DOMAIN s : s[n].k = "peers" /\ Drops(s[n]) \subseteq Loose' BY <2>2, <2>3
  <2>6. GroupOk(s) BY <1>2, <2>2, <2>4, <2>5 DEF GroupOk
  <2> QED BY <1>10, <2>1, <2>3, <2>6 DEF GroupKeeping
<1>11. CASE /\ ~(Booked(orders[i], q).status = "FILLED" /\ groupOf[i] # NoGroup)
            /\ Continue(<<>>) /\ UNCHANGED <<groupOf, members>>
  <2>1. Loose' = Loose BY <1>11 DEF Loose
  <2>2. ASSUME NEW j \in Known PROVE OrderOk(j, <<>>)
    <3>1. j \in OrderId BY DEF Known
    <3>2. CASE j # i
      <4>1. orders'[j] = orders[j] /\ resting'[j] = resting[j] BY <1>2, <1>5, <3>1, <3>2
      <4> QED BY <1>3, <1>6, <2>1, <3>2, <4>1, StaysOk
    <3>3. CASE j = i
      <4>1. orders'[i].status = "FILLED" => i \in Loose'
        <5>1. orders'[i].status = "FILLED" => groupOf[i] = NoGroup BY <1>5, <1>11
        <5> QED BY <1>4, <2>1, <5>1 DEF Loose
      <4>2. orders'[i].status \in {"FILLED", "PARTIALLY_FILLED"} BY <1>5
      <4> QED BY <1>6, <1>7, <1>8, <1>9, <2>1, <3>3, <4>1, <4>2 DEF OrderOk, Ended
    <3> QED BY <3>2, <3>3
  <2>3. PICK s : s = <<>> OBVIOUS
  <2>4. s \in Seq(WorkItem) /\ DOMAIN s = {} BY <2>3
  <2>5. GroupOk(s) BY <1>2, <1>11, <2>2, <2>3, <2>4 DEF GroupOk
  <2> QED BY <1>11, <2>3, <2>4, <2>5 DEF GroupKeeping
<1> QED BY <1>2, <1>10, <1>11

LEMMA PeersGroups ==
  ASSUME Exclusive, RowsKept, Narrowed, Base', Booking', PeersStep
  PROVE  GroupKeeping
<1>1. agenda # <<>> /\ work.k = "peers" /\ UNCHANGED <<groupOf, members>>
  BY DEF PeersStep, Doing, oms
<1>2. /\ Base /\ Typed /\ Watched /\ Spent /\ Left /\ Names(work)
      /\ work = agenda[1] /\ 1 \in DOMAIN agenda
  BY <1>1, Parts DEF Exclusive
<1>3. work.ids \subseteq Known /\ Acts(work) = {} /\ Drops(work) = work.ids
      /\ work.ids \subseteq Loose /\ Loose' = Loose
  <2>1. Drops(work) = work.ids /\ Acts(work) = {} BY <1>1 DEF Drops, Acts
  <2> QED BY <1>1, <1>2, <2>1 DEF Names, NamesIn, Left, Loose
<1>4. CASE work.ids = {} /\ Continue(<<>>) /\ UNCHANGED <<orders, engine>>
  <2>1. PICK s : s = <<>> OBVIOUS
  <2>2. s \in Seq(WorkItem) /\ DOMAIN s = {} BY <2>1
  <2> QED BY <1>1, <1>3, <1>4, <2>1, <2>2, StillGroups DEF engine
<1>5. ASSUME NEW c \in work.ids, Continue(<<Peers(work.ids \ {c})>>),
             \/ /\ orders[c].status = "UNTRIGGERED"
                /\ SetStatus(c, "CANCELED") /\ UNCHANGED engine
             \/ EngineCancel(c)
             \/ /\ orders[c].status \notin {"UNTRIGGERED", "PENDING", "OPEN", "PARTIALLY_FILLED"}
                /\ UNCHANGED <<orders, engine>>
      PROVE  GroupKeeping
  <2>1. c \in Known /\ c \in OrderId BY <1>3 DEF Known
  <2>2. PICK S, s : S = work.ids \ {c} /\ s = <<Peers(S)>> OBVIOUS
  <2>3. /\ s \in Seq(WorkItem)
        /\ \A n \in DOMAIN s : s[n].k = "peers" /\ Drops(s[n]) = S
        /\ \A j : j \in S => \E n \in DOMAIN s : j \in Drops(s[n])
    <3>1. S \in SUBSET OrderId BY <1>3, <2>2 DEF Known
    <3> QED BY <2>2, <3>1, PeersGo
  <2>4. /\ \A j \in OrderId : j # c => orders'[j] = orders[j] /\ resting'[j] = resting[j]
        /\ \/ orders'[c].status = "CANCELED" /\ resting'[c] = 0
           \/ /\ orders'[c].status = orders[c].status /\ orders'[c].filled = orders[c].filled
              /\ resting'[c] = 0 \/ (UNCHANGED resting /\ orders[c].status \notin
                                        {"UNTRIGGERED", "PENDING", "OPEN", "PARTIALLY_FILLED"})
    <3>1. CASE orders[c].status = "UNTRIGGERED" /\ SetStatus(c, "CANCELED") /\ UNCHANGED engine
      <4>1. "CANCELED" \in Status \ {"NONE"} BY DEF Status
      <4>2. c \in Waits /\ resting[c] = 0 BY <1>2, <2>1, <3>1 DEF Waits, Watched
      <4> QED BY <1>2, <2>1, <3>1, <4>1, <4>2, StatusRows DEF engine
    <3>2. CASE EngineCancel(c)
      <4>1. resting \in [OrderId -> Nat] BY <1>2 DEF Typed
      <4>2. /\ resting' = [resting EXCEPT ![c] = 0]
            /\ \A j \in OrderId : j # c => orders'[j] = orders[j]
            /\ orders'[c].status \in {orders[c].status, "CANCELED"}
            /\ orders'[c].filled = orders[c].filled
        BY <1>2, <2>1, <3>2, CancelRows
      <4> QED BY <2>1, <4>1, <4>2
    <3>3. CASE /\ orders[c].status \notin {"UNTRIGGERED", "PENDING", "OPEN", "PARTIALLY_FILLED"}
               /\ UNCHANGED <<orders, engine>>
      BY <3>3 DEF engine
    <3> QED BY <1>5, <3>1, <3>2, <3>3
  <2>5. Known' = Known /\ orders'[c].req = orders[c].req BY <2>1 DEF RowsKept
\* What is not cancelled does not rest any more.
  <2>6. InGroup(c) => resting'[c] = 0
    <3>1. CASE resting'[c] = 0 BY <3>1
    <3>2. CASE /\ orders'[c].status = orders[c].status /\ orders'[c].filled = orders[c].filled
               /\ UNCHANGED resting
               /\ orders[c].status \in {"FILLED", "CANCELED", "REJECTED", "TRIGGERED"}
      <4>1. orders[c].status = "FILLED" => resting'[c] = 0
        <5>1. orders[c].status = "FILLED" => orders'[c].filled >= orders'[c].req.qty
          BY <1>2, <2>1, <2>5, <3>2 DEF Spent
        <5> QED BY <2>1, <2>5, <5>1, FilledIsSpentNext
      <4>2. orders[c].status \in {"CANCELED", "REJECTED"} => resting'[c] = 0
        BY <1>2, <2>1, <3>2 DEF Spent, Ended
      <4>3. orders[c].status = "TRIGGERED" /\ InGroup(c) => resting'[c] = 0
        BY <1>2, <2>1, <3>2 DEF Spent
      <4> QED BY <3>2, <4>1, <4>2, <4>3
    <3>3. orders[c].status \in Status \ {"NONE"} BY <1>2, <2>1 DEF Typed, OrderRow, Known
    <3> QED BY <2>4, <3>1, <3>2, <3>3 DEF Status
  <2>7. ASSUME NEW j \in Known PROVE OrderOk(j, s)
    <3>1. j \in OrderId BY DEF Known
    <3>2. CASE j # c
      <4>1. orders'[j] = orders[j] /\ resting'[j] = resting[j] BY <2>4, <3>1, <3>2
      <4>2. j \in Drops(work) => j \in S BY <1>3, <2>2, <3>2
      <4> QED BY <1>2, <1>3, <2>3, <4>1, <4>2, StaysOk
    <3>3. CASE j = c /\ orders'[c].status = "CANCELED" /\ resting'[c] = 0
      BY <1>3, <1>5, <3>3 DEF OrderOk
    <3>4. CASE j = c /\ orders'[c].status = orders[c].status /\ orders'[c].filled = orders[c].filled
      <4>1. c \in Loose' BY <1>3, <1>5
      <4>2. (Ended(c)' <=> Ended(c)) /\ (Over(c)' <=> Over(c)) BY <2>5, <3>4 DEF Ended, Over
      <4> QED BY <1>2, <1>3, <2>1, <2>6, <3>4, <4>1, <4>2 DEF OrderOk, Spent
    <3> QED BY <2>4, <3>2, <3>3, <3>4
  <2>8. \A n \in DOMAIN s : s[n].k = "peers" /\ Drops(s[n]) \subseteq Loose' BY <1>3, <2>2, <2>3
  <2>9. GroupOk(s) BY <1>1, <2>7, <2>8 DEF GroupOk
  <2> QED BY <1>5, <2>2, <2>3, <2>9 DEF GroupKeeping
<1>6. \/ work.ids = {} /\ Continue(<<>>) /\ UNCHANGED <<orders, engine>>
      \/ \E c \in work.ids :
           /\ Continue(<<Peers(work.ids \ {c})>>)
           /\ \/ /\ orders[c].status = "UNTRIGGERED"
                 /\ SetStatus(c, "CANCELED") /\ UNCHANGED engine
              \/ EngineCancel(c)
              \/ /\ orders[c].status \notin {"UNTRIGGERED", "PENDING", "OPEN", "PARTIALLY_FILLED"}
                 /\ UNCHANGED <<orders, engine>>
  BY DEF PeersStep
<1> QED BY <1>4, <1>5, <1>6

LEMMA CancelGroups ==
  ASSUME Exclusive, RowsKept, Narrowed, CancelStep
  PROVE  GroupKeeping
<1>1. PICK i : i = work.id OBVIOUS
<1>2. agenda # <<>> /\ work.k = "cancel" BY DEF CancelStep, Doing
<1>3. /\ Base /\ Typed /\ Shaped /\ Watched /\ Spent /\ Left /\ Names(work) /\ Orderly
      /\ work = agenda[1] /\ 1 \in DOMAIN agenda
  BY <1>2, Parts DEF Exclusive
<1>4. i \in Known /\ i \in OrderId BY <1>1, <1>2, <1>3 DEF Names, NamesIn, Known
<1>5. Acts(work) = {} /\ Drops(work) = {} BY <1>2 DEF Acts, Drops
<1>6. PICK P : P = PeersOf(i) OBVIOUS
<1>7. ASSUME NEW S, Continue(<<Peers(S)>>), S \subseteq P \cup {i}, P \subseteq S,
             LeaveGroup(groupOf[i], i), resting'[i] = 0,
             \A j \in OrderId : j # i => orders'[j] = orders[j] /\ resting'[j] = resting[j],
             orders'[i].status \in {orders[i].status, "CANCELED"},
             orders'[i].filled = orders[i].filled
      PROVE  GroupKeeping
  <2>1. /\ Loose' = Loose \cup P \cup {i} /\ \A g \in OrderId : members'[g] \in {members[g], {}}
        /\ P \subseteq OrderId
    BY <1>3, <1>4, <1>6, <1>7, GroupGone, GroupLeft
  <2>2. PICK s : s = <<Peers(S)>> OBVIOUS
  <2>3. /\ s \in Seq(WorkItem)
        /\ \A n \in DOMAIN s : s[n].k = "peers" /\ Drops(s[n]) = S
        /\ \A j : j \in S => \E n \in DOMAIN s : j \in Drops(s[n])
    <3>1. S \in SUBSET OrderId BY <1>4, <1>7, <2>1
    <3> QED BY <2>2, <3>1, PeersGo
  <2>4. ASSUME NEW j \in Known PROVE OrderOk(j, s)
    <3>1. j \in OrderId BY DEF Known
    <3>2. CASE j # i
      <4>1. orders'[j] = orders[j] /\ resting'[j] = resting[j] BY <1>7, <3>1, <3>2
      <4>2. j \in P => \E n \in DOMAIN s : j \in Drops(s[n]) BY <1>7, <2>3
      <4> QED BY <1>3, <1>5, <2>1, <3>2, <4>1, <4>2, StaysOk
    <3>3. CASE j = i
      <4>1. i \in Loose' BY <2>1
      <4> QED BY <1>3, <1>5, <1>7, <3>3, <4>1 DEF OrderOk, Spent
    <3> QED BY <3>2, <3>3
  <2>5. \A n \in DOMAIN s : s[n].k = "peers" /\ Drops(s[n]) \subseteq Loose' BY <1>7, <2>1, <2>3
  <2>6. GroupOk(s) BY <1>2, <2>1, <2>4, <2>5 DEF GroupOk
  <2> QED BY <1>7, <2>2, <2>3, <2>6 DEF GroupKeeping
<1>8. CASE Raise /\ UNCHANGED <<orders, oms, engine>>
  <2>1. \A n \in DOMAIN agenda : agenda[n].k # "rollback"
    <3>1. Len(agenda) = 1 /\ DOMAIN agenda = 1..Len(agenda) BY <1>2, <1>3, RunningOk DEF Shaped
    <3>2. \A n \in DOMAIN agenda : n = 1 BY <3>1
    <3> QED BY <1>2, <1>3, <3>2
  <2>2. agenda' = <<>> BY <1>3, <1>8, <2>1, RaisedAgenda DEF RowsKept
  <2>3. PICK s : s = <<>> OBVIOUS
  <2>4. s \in Seq(WorkItem) /\ DOMAIN s = {} BY <2>3
  <2>5. Continue(s)
    <3>1. PICK t : t = Tail(agenda) OBVIOUS
    <3>2. Len(agenda) = 1 BY <1>2, <1>3 DEF Shaped
    <3>3. t \in Seq(WorkItem) /\ Len(t) = 0 BY <1>2, <1>3, <3>1, <3>2 DEF Typed
    <3>4. t = <<>> BY <3>3
    <3> QED BY <2>2, <2>3, <3>1, <3>4 DEF Continue
  <2> QED BY <1>2, <1>5, <1>8, <2>3, <2>4, <2>5, StillGroups DEF oms, engine
<1>9. CASE /\ orders[i].status = "UNTRIGGERED" /\ UNCHANGED <<orders, engine>>
           /\ Continue(<<Peers(PeersOf(i) \cup ({i} \cap trigBook))>>)
           /\ LeaveGroup(groupOf[i], i)
  <2>1. resting'[i] = 0 BY <1>3, <1>4, <1>9 DEF Watched, Waits, engine
  <2>2. PICK S : S = PeersOf(i) \cup ({i} \cap trigBook) OBVIOUS
  <2>3. Continue(<<Peers(S)>>) /\ S \subseteq P \cup {i} /\ P \subseteq S BY <1>6, <1>9, <2>2
  <2> QED BY <1>7, <1>9, <2>1, <2>3 DEF engine
<1>10. CASE /\ EngineCancel(i) /\ Continue(<<Peers(PeersOf(i))>>) /\ LeaveGroup(groupOf[i], i)
  <2>1. resting \in [OrderId -> Nat] BY <1>3 DEF Typed
  <2>2. /\ resting' = [resting EXCEPT ![i] = 0]
        /\ \A j \in OrderId : j # i => orders'[j] = orders[j]
        /\ orders'[i].status \in {orders[i].status, "CANCELED"}
        /\ orders'[i].filled = orders[i].filled
    BY <1>3, <1>4, <1>10, CancelRows
  <2>3. resting'[i] = 0 /\ \A j \in OrderId : j # i => resting'[j] = resting[j] BY <1>4, <2>1, <2>2
  <2> QED BY <1>6, <1>7, <1>10, <2>2, <2>3
<1>11. \/ Raise /\ UNCHANGED <<orders, oms, engine>>
       \/ /\ orders[i].status = "UNTRIGGERED" /\ UNCHANGED <<orders, engine>>
          /\ Continue(<<Peers(PeersOf(i) \cup ({i} \cap trigBook))>>)
          /\ LeaveGroup(groupOf[i], i)
       \/ EngineCancel(i) /\ Continue(<<Peers(PeersOf(i))>>) /\ LeaveGroup(groupOf[i], i)
  BY <1>1 DEF CancelStep
<1> QED BY <1>8, <1>9, <1>10, <1>11

LEMMA ScanGroups ==
  ASSUME Exclusive, RowsKept, Narrowed, ScanStep
  PROVE  GroupKeeping
<1>1. PICK i, g : i = Min(work.todo) /\ g = orders[i].group OBVIOUS
<1>2. PICK moved : moved =
        IF Ratchet(orders[i].req, watch[i], work.price).stop # watch[i].stop
        THEN work.moved \cup {i} ELSE work.moved
  OBVIOUS
<1>3. agenda # <<>> /\ work.k = "scan" /\ UNCHANGED <<orders, resting>>
  BY DEF ScanStep, Doing, engine
<1>4. /\ Base /\ Watched /\ Spent /\ Left /\ Guarded /\ Owes(work)
      /\ work = agenda[1] /\ 1 \in DOMAIN agenda
  BY <1>3, Parts DEF Exclusive
<1>5. work \in ScanItem /\ i \in OrderId /\ moved \in SUBSET OrderId
  <2>1. work \in ScanItem /\ i \in OrderId /\ work.moved \cup {i} \subseteq Known
    BY <1>1, <1>4, ScanRound
  <2> QED BY <1>2, <2>1 DEF Known
<1>6. i \in trigBook BY <1>1, <1>4, ScanGuarded
<1>7. i \in Waits /\ groupOf[i] = g /\ resting[i] = 0 BY <1>1, <1>4, <1>6 DEF Watched
<1>8. Drops(work) = work.gone /\ work.gone \in SUBSET OrderId BY <1>3, <1>5 DEF Drops, ScanItem
<1>9. CASE /\ Continue(<<[work EXCEPT !.todo = work.todo \ {i}, !.moved = moved]>>)
           /\ UNCHANGED <<groupOf, members>>
  <2>1. PICK w, s : w = [work EXCEPT !.todo = work.todo \ {i}, !.moved = moved] /\ s = <<w>> OBVIOUS
  <2>2. w \in ScanItem /\ w.k = "scan" /\ w.gone = work.gone BY <1>3, <1>5, <2>1 DEF ScanItem
  <2>3. Drops(w) = Drops(work) /\ w \in WorkItem BY <1>8, <2>2, ItemKinds DEF Drops
  <2>4. s \in Seq(WorkItem) /\ DOMAIN s = {1} /\ s[1] = w BY <2>1, <2>3
  <2> QED BY <1>3, <1>9, <2>1, <2>2, <2>3, <2>4, StillGroups
<1>10. CASE /\ LeaveGroup(g, i)
            /\ Continue(<<[work EXCEPT !.todo = work.todo \ {i}, !.moved = moved,
                             !.fired = Append(work.fired, i),
                             !.gone = work.gone \cup (members[g] \ {i})]>>)
  <2>1. PICK w, s, fired, gone :
          /\ fired = Append(work.fired, i) /\ gone = work.gone \cup (members[g] \ {i})
          /\ w = [work EXCEPT !.todo = work.todo \ {i}, !.moved = moved, !.fired = fired,
                              !.gone = gone]
          /\ s = <<w>>
    OBVIOUS
  <2>2. PeersOf(i) = members[g] \ {i} BY <1>4, <1>7 DEF PeersOf, Base, Grouped
  <2>3. /\ Loose' = Loose \cup PeersOf(i) \cup {i} /\ \A h \in OrderId : members'[h] \in {members[h], {}}
        /\ PeersOf(i) \subseteq OrderId
    BY <1>4, <1>5, <1>7, <1>10, GroupGone, GroupLeft
  <2>4. fired \in Seq(OrderId) /\ gone \in SUBSET OrderId
    <3>1. work.fired \in Seq(OrderId) BY <1>5 DEF ScanItem
    <3> QED BY <1>5, <1>8, <2>1, <2>2, <2>3, <3>1, AppendElements
  <2>5. w \in ScanItem /\ w.k = "scan" /\ w.gone = gone
    BY <1>3, <1>5, <2>1, <2>4 DEF ScanItem
  <2>6. Drops(w) = Drops(work) \cup PeersOf(i) /\ w \in WorkItem
    BY <1>8, <2>1, <2>2, <2>5, ItemKinds DEF Drops
  <2>7. s \in Seq(WorkItem) /\ DOMAIN s = {1} /\ s[1] = w BY <2>1, <2>6
  <2>8. ASSUME NEW j \in Known PROVE OrderOk(j, s)
    <3>1. j \in OrderId BY DEF Known
    <3>2. j \in Acts(work) => resting'[j] = 0 BY <1>3, <1>4 DEF Owes, OwesTo, Watched
    <3>3. j \in Loose' => j \in Loose \/ j \in Drops(w) \/ resting'[j] = 0 BY <1>3, <1>7, <2>3, <2>6
    <3>4. j \in Drops(work) => j \in Drops(w) BY <2>6
    <3>5. j \in Drops(w) => \E n \in DOMAIN s : j \in Drops(s[n]) BY <2>7
    <3> QED BY <1>3, <1>4, <3>2, <3>3, <3>4, <3>5, StaysOk
  <2>9. \A n \in DOMAIN s : s[n].k = "scan" /\ Drops(s[n]) \subseteq Loose'
    BY <1>4, <2>3, <2>5, <2>6, <2>7 DEF Left
  <2>10. GroupOk(s) BY <1>3, <2>3, <2>8, <2>9 DEF GroupOk
  <2> QED BY <1>10, <2>1, <2>7, <2>10 DEF GroupKeeping
<1>11. \/ /\ Continue(<<[work EXCEPT !.todo = work.todo \ {i}, !.moved = moved]>>)
          /\ UNCHANGED <<groupOf, members>>
       \/ /\ LeaveGroup(g, i)
          /\ Continue(<<[work EXCEPT !.todo = work.todo \ {i}, !.moved = moved,
                           !.fired = Append(work.fired, i),
                           !.gone = work.gone \cup (members[g] \ {i})]>>)
  BY <1>1, <1>2, <1>6 DEF ScanStep
<1> QED BY <1>9, <1>10, <1>11

LEMMA ScannedGroups ==
  ASSUME Exclusive, RowsKept, Narrowed, ScannedStep
  PROVE  GroupKeeping
<1>1. /\ agenda # <<>> /\ work.k = "scan" /\ ShowStops /\ UNCHANGED <<groupOf, members, resting>>
      /\ Continue(<<Peers(work.gone)>>
                  \o [n \in DOMAIN work.fired |-> Activate(work.fired[n], work.ts)])
  BY DEF ScannedStep, Doing, oms, engine
<1>2. Typed /\ work \in WorkItem BY <1>1, Parts DEF Exclusive
<1>3. work.fired \in Seq(OrderId) /\ work.ts \in Times /\ work.gone \in SUBSET OrderId
      /\ work.moved \subseteq OrderId
  BY <1>1, <1>2, ItemFields DEF ScanItem
<1>4. \A i \in OrderId : orders'[i].status = orders[i].status /\ orders'[i].filled = orders[i].filled
  BY <1>1, <1>2, <1>3, ShownRows
<1>5. PICK f, b : f = work.fired /\ b = [n \in DOMAIN f |-> Activate(f[n], work.ts)]
  OBVIOUS
<1>6. f \in Seq(OrderId) BY <1>3, <1>5
<1>7. PICK l \in Nat : l = Len(f) BY <1>6
<1>8. DOMAIN f = 1..l /\ \A n \in 1..l : f[n] \in OrderId BY <1>6, <1>7
<1>9. \A n \in 1..l : b[n] \in WorkItem /\ b[n].k = "activate" /\ Drops(b[n]) = {}
  <2> SUFFICES ASSUME NEW n \in 1..l
               PROVE  b[n] \in WorkItem /\ b[n].k = "activate" /\ Drops(b[n]) = {}
    OBVIOUS
  <2>1. b[n] = Activate(f[n], work.ts) BY <1>5, <1>8
  <2>2. Activate(f[n], work.ts) \in WorkItem BY <1>3, <1>8, ItemTypes, ItemKinds
  <2> QED BY <2>1, <2>2 DEF Activate, Drops
<1>10. b \in Seq(WorkItem) /\ DOMAIN b = 1..l BY <1>5, <1>8, <1>9
<1>11. PICK s, items : s = <<Peers(work.gone)>> /\ items = s \o b OBVIOUS
<1>12. /\ s \in Seq(WorkItem) /\ DOMAIN s = {1} /\ s[1].k = "peers" /\ Drops(s[1]) = work.gone
  <2>1. PICK w : w = Peers(work.gone) OBVIOUS
  <2>2. w \in WorkItem /\ w.k = "peers" /\ Drops(w) = work.gone
    BY <1>3, <2>1, ItemTypes, ItemKinds DEF Peers, Drops
  <2>3. s = <<w>> BY <1>11, <2>1
  <2>4. s \in Seq(WorkItem) /\ DOMAIN s = {1} /\ s[1] = w BY <2>2, <2>3
  <2> QED BY <2>2, <2>4
<1>13. /\ items \in Seq(WorkItem) /\ DOMAIN items = 1..(l + 1)
       /\ items[1] = s[1] /\ \A n \in 2..(l + 1) : items[n] = b[n - 1]
  <2>1. Len(b) = l /\ Len(s) = 1 BY <1>10, <1>12
  <2> QED BY <1>10, <1>11, <1>12, <2>1
<1>14. ASSUME NEW n \in DOMAIN items
       PROVE  items[n].k \in {"peers", "activate"} /\ Drops(items[n]) \subseteq work.gone
  <2>1. n = 1 \/ n \in 2..(l + 1) BY <1>13
  <2>2. CASE n = 1 BY <1>12, <1>13, <2>2
  <2>3. CASE n \in 2..(l + 1)
    <3>1. PICK m : m = n - 1 OBVIOUS
    <3>2. m \in 1..l /\ items[n] = b[m] BY <1>13, <2>3, <3>1
    <3> QED BY <1>9, <3>2
  <2> QED BY <2>1, <2>2, <2>3
<1>15. 1 \in DOMAIN items /\ Drops(items[1]) = work.gone BY <1>12, <1>13
<1>16. Drops(work) = work.gone BY <1>1 DEF Drops
<1>17. Continue(items) BY <1>1, <1>5, <1>11
<1>18. \A j \in Drops(work) : \E n \in DOMAIN items : j \in Drops(items[n]) BY <1>15, <1>16
<1>19. \A n \in DOMAIN items : items[n].k \notin {"rejected", "canceled"}
                               /\ Drops(items[n]) \subseteq Drops(work)
  BY <1>14, <1>16
<1> QED BY <1>1, <1>4, <1>13, <1>17, <1>18, <1>19, StillGroups

\* What an engine call cancels or rejects does not rest any more, nor does an order
\* that never rests.
LEMMA EngineGone ==
  ASSUME Base, NEW i \in Known, NEW r, r = orders[i].req, NEW ts \in Times, resting[i] = 0,
         EngineSubmit(i, r, ts)
  PROVE  \E items \in Seq(WorkItem) :
           /\ Continue(items)
           /\ \A n \in DOMAIN items :
                /\ items[n].k \in {"rejected", "canceled"} => resting'[items[n].id] = 0
                /\ Drops(items[n]) = {}
           /\ r.exec = "market" => resting'[i] = 0
<1>1. i \in OrderId /\ resting \in [OrderId -> Nat] BY DEF Base, Typed, Known
<1>2. {Item("accepted", i), Item("rejected", i), Item("canceled", i)} \subseteq WorkItem
  BY <1>1, ItemTypes, ItemKinds
<1>3. \A k, j : Item(k, j).k = k /\ Item(k, j).id = j BY DEF Item
<1>4. CASE Continue(<<Item("rejected", i)>>) /\ UNCHANGED engine
  <2>1. PICK w, items : w = Item("rejected", i) /\ items = <<w>> OBVIOUS
  <2>2. w \in WorkItem /\ w.k = "rejected" /\ w.id = i BY <1>2, <1>3, <2>1
  <2>3. items \in Seq(WorkItem) /\ DOMAIN items = {1} /\ items[1] = w BY <2>1, <2>2
  <2>4. Drops(w) = {} /\ resting'[i] = 0 BY <1>4, <2>2 DEF Drops, engine
  <2> QED BY <1>4, <2>1, <2>2, <2>3, <2>4
<1>5. ASSUME NEW fills \in Fills(i, r), NEW rests \in MayRest(r), NEW left,
             resting' = [m \in OrderId |-> IF m = i THEN IF rests THEN left ELSE 0
                                           ELSE resting[m] - LostBy(fills, m)],
             Continue(<<Item("accepted", i)>>
                      \o [n \in DOMAIN fills |-> FillEvent(i, r, fills[n], ts)]
                      \o Remainder(i, rests, left))
      PROVE  \E items \in Seq(WorkItem) :
               /\ Continue(items)
               /\ \A n \in DOMAIN items :
                    /\ items[n].k \in {"rejected", "canceled"} => resting'[items[n].id] = 0
                    /\ Drops(items[n]) = {}
               /\ r.exec = "market" => resting'[i] = 0
  <2> DEFINE Gone(w) == /\ w.k \in {"rejected", "canceled"} => resting'[w.id] = 0
                        /\ Drops(w) = {}
  <2>1. PICK a, b, c : /\ a = <<Item("accepted", i)>>
                       /\ b = [n \in DOMAIN fills |-> FillEvent(i, r, fills[n], ts)]
                       /\ c = Remainder(i, rests, left)
    OBVIOUS
  <2>2. a \in Seq(WorkItem) /\ \A n \in DOMAIN a : Gone(a[n])
    <3>1. PICK w : w = Item("accepted", i) OBVIOUS
    <3>2. w \in WorkItem /\ w.k = "accepted" BY <1>2, <1>3, <3>1
    <3>3. a \in Seq(WorkItem) /\ DOMAIN a = {1} /\ a[1] = w BY <2>1, <3>1, <3>2
    <3>4. Gone(w) BY <3>2 DEF Drops
    <3> QED BY <3>3, <3>4
  <2>3. c \in Seq(WorkItem) /\ \A n \in DOMAIN c : Gone(c[n])
    <3>1. CASE c = <<>> BY <3>1
    <3>2. CASE c = <<Item("canceled", i)>> /\ ~rests
      <4>1. PICK w : w = Item("canceled", i) OBVIOUS
      <4>2. w \in WorkItem /\ w.k = "canceled" /\ w.id = i BY <1>2, <1>3, <4>1
      <4>3. c \in Seq(WorkItem) /\ DOMAIN c = {1} /\ c[1] = w BY <3>2, <4>1, <4>2
      <4>4. resting'[i] = 0 BY <1>1, <1>5, <3>2
      <4>5. Gone(w) BY <4>2, <4>4 DEF Drops
      <4> QED BY <4>3, <4>5
    <3> QED BY <2>1, <3>1, <3>2 DEF Remainder
  <2>4. ASSUME NEW n \in DOMAIN fills PROVE b[n] \in WorkItem /\ Gone(b[n])
    <3>1. PICK f, w : f = fills[n] /\ w = FillEvent(i, r, f, ts) OBVIOUS
    <3>2. /\ f.maker \in Ids /\ f.qty \in Nat /\ f.price \in Prices
          /\ f.maker = NoOrder => f.qty > 0
          /\ f.maker # NoOrder => orders[f.maker].req.side # r.side
      BY <3>1, FillsAre
    <3>3. CASE f.qty = 0
      <4>1. PICK m : m = f.maker OBVIOUS
      <4>2. m \in OrderId /\ m # i BY <3>2, <3>3, <4>1 DEF Ids
      <4>3. w = Item("canceled", m) BY <3>1, <3>3, <4>1 DEF FillEvent
      <4>4. w \in WorkItem /\ w.k = "canceled" /\ w.id = m
        BY <1>3, <4>2, <4>3, ItemTypes, ItemKinds
      <4>5. LostBy(fills, m) = resting[m] BY <3>1, <3>3, <4>1, <4>2, MakersFill
      <4>6. resting'[m] = 0
        <5>1. resting[m] \in Nat BY <1>1, <4>2
        <5>2. resting'[m] = resting[m] - LostBy(fills, m) BY <1>5, <4>2
        <5> QED BY <4>5, <5>1, <5>2
      <4>7. Gone(w) BY <4>4, <4>6 DEF Drops
      <4> QED BY <2>1, <3>1, <4>4, <4>7
    <3>4. CASE f.qty # 0
      <4>1. w = Trade(i, f.maker, f.qty, f.price, ts) \/ w = Trade(f.maker, i, f.qty, f.price, ts)
        BY <3>1, <3>4 DEF FillEvent
      <4>2. i \in Ids BY <1>1 DEF Ids
      <4>3. w \in WorkItem BY <3>2, <4>1, <4>2, ItemTypes, ItemKinds
      <4>4. w.k = "trade" BY <4>1 DEF Trade
      <4>5. Gone(w) BY <4>4 DEF Drops
      <4> QED BY <2>1, <3>1, <4>3, <4>5
    <3> QED BY <3>3, <3>4
  <2>5. b \in Seq(WorkItem) /\ DOMAIN b = DOMAIN fills
    <3>1. DOMAIN fills = 1..Len(fills) /\ Len(fills) \in Nat BY FillsAre
    <3> QED BY <2>1, <2>4, <3>1
  <2> HIDE DEF Gone
  <2>6. PICK d, items : d = a \o b /\ items = d \o c OBVIOUS
  <2>7. d \in Seq(WorkItem) /\ \A n \in DOMAIN d : Gone(d[n])
    <3>1. \A n \in DOMAIN d : (n \in DOMAIN a /\ d[n] = a[n]) \/ \E m \in DOMAIN b : d[n] = b[m]
      BY <2>2, <2>5, <2>6, ConcatElements
    <3> QED BY <2>2, <2>4, <2>5, <2>6, <3>1, ConcatIn
  <2>8. items \in Seq(WorkItem) /\ \A n \in DOMAIN items : Gone(items[n])
    <3>1. \A n \in DOMAIN items : (n \in DOMAIN d /\ items[n] = d[n])
                                  \/ \E m \in DOMAIN c : items[n] = c[m]
      BY <2>3, <2>6, <2>7, ConcatElements
    <3> QED BY <2>3, <2>6, <2>7, <3>1, ConcatIn
  <2>9. Continue(items) BY <1>5, <2>1, <2>6
  <2>10. r.exec = "market" => resting'[i] = 0
    <3>1. r.exec = "market" => rests = FALSE BY <1>5 DEF MayRest
    <3> QED BY <1>1, <1>5, <3>1
  <2> QED BY <2>8, <2>9, <2>10 DEF Gone
<1>6. CASE \E fills \in Fills(i, r), rests \in MayRest(r) :
             LET left == r.qty - Amount(fills) IN
             /\ resting' = [m \in OrderId |-> IF m = i THEN IF rests THEN left ELSE 0
                                              ELSE resting[m] - LostBy(fills, m)]
             /\ executed' = [m \in OrderId |-> IF m = i THEN Amount(fills)
                                               ELSE executed[m] + TradedBy(fills, m)]
             /\ Continue(<<Item("accepted", i)>>
                         \o [n \in DOMAIN fills |-> FillEvent(i, r, fills[n], ts)]
                         \o Remainder(i, rests, left))
  <2>1. PICK fills \in Fills(i, r), rests \in MayRest(r) :
             LET left == r.qty - Amount(fills) IN
             /\ resting' = [m \in OrderId |-> IF m = i THEN IF rests THEN left ELSE 0
                                              ELSE resting[m] - LostBy(fills, m)]
             /\ executed' = [m \in OrderId |-> IF m = i THEN Amount(fills)
                                               ELSE executed[m] + TradedBy(fills, m)]
             /\ Continue(<<Item("accepted", i)>>
                         \o [n \in DOMAIN fills |-> FillEvent(i, r, fills[n], ts)]
                         \o Remainder(i, rests, left))
    BY <1>6
  <2>2. PICK left : left = r.qty - Amount(fills) OBVIOUS
  <2> QED BY <1>5, <2>1, <2>2
<1> QED BY <1>4, <1>6 DEF EngineSubmit

LEMMA ActivateGroups ==
  ASSUME Exclusive, RowsKept, Narrowed, ActivateStep
  PROVE  GroupKeeping
<1>1. PICK i, r, ts : i = work.id /\ r = orders[i].req /\ ts = work.ts OBVIOUS
<1>2. /\ agenda # <<>> /\ work.k = "activate" /\ EngineSubmit(i, r, ts)
      /\ UNCHANGED <<groupOf, members>>
      /\ IF orders[i].status = "UNTRIGGERED" THEN SetStatus(i, "TRIGGERED") ELSE UNCHANGED orders
  BY <1>1 DEF ActivateStep, Doing, oms
<1>3. /\ Base /\ Typed /\ Watched /\ Spent /\ Left
      /\ work = agenda[1] /\ 1 \in DOMAIN agenda /\ work \in WorkItem /\ Owes(work)
  BY <1>2, Parts DEF Exclusive
<1>4. Acts(work) = {i} /\ Drops(work) = {} /\ Loose' = Loose BY <1>1, <1>2 DEF Acts, Drops, Loose
<1>5. i \in Waits /\ i \in Loose /\ i \in Known /\ i \in OrderId /\ resting[i] = 0
      /\ orders[i].status = "UNTRIGGERED" /\ r.trigger # "NONE" /\ ts \in Times
  <2>1. i \in Waits /\ i \in Loose BY <1>3, <1>4 DEF Owes, OwesTo
  <2>2. ts \in Times BY <1>1, <1>2, <1>3, ItemFields DEF ActivateItem
  <2> QED BY <1>1, <1>3, <2>1, <2>2 DEF Waits, Known, Watched
<1>6. /\ orders'[i].status = "TRIGGERED" /\ orders'[i].req = r
      /\ \A j \in OrderId : j # i => orders'[j] = orders[j]
  <2>1. "TRIGGERED" \in Status \ {"NONE"} BY DEF Status
  <2> QED BY <1>1, <1>2, <1>3, <1>5, <2>1, StatusRows DEF RowsKept
<1>7. PICK items \in Seq(WorkItem) :
        /\ Continue(items)
        /\ \A n \in DOMAIN items :
             /\ items[n].k \in {"rejected", "canceled"} => resting'[items[n].id] = 0
             /\ Drops(items[n]) = {}
        /\ r.exec = "market" => resting'[i] = 0
  BY <1>1, <1>2, <1>3, <1>5, EngineGone
<1>8. ASSUME NEW j \in Known PROVE OrderOk(j, items)
  <2>1. j \in OrderId BY DEF Known
  <2>2. CASE j # i
    <3>1. orders'[j] = orders[j] BY <1>6, <2>1, <2>2
    <3> QED BY <1>3, <1>4, <2>2, <3>1, StaysOk
  <2>3. CASE j = i
    <3>1. InGroup(i) => r.exec = "market" BY <1>1, <1>3, <1>5 DEF Spent, Market
    <3>2. InGroup(i) => resting'[i] = 0 BY <1>7, <3>1
    <3> QED BY <1>1, <1>4, <1>5, <1>6, <2>3, <3>2 DEF OrderOk, Ended
  <2> QED BY <2>2, <2>3
<1>9. GroupOk(items) BY <1>2, <1>7, <1>8 DEF GroupOk
<1> QED BY <1>7, <1>9 DEF GroupKeeping

\* What every step of a handler does, but for those of a submission.
LEMMA StepGroups ==
  ASSUME Exclusive, RowsKept, Narrowed, Base', Booking', Work, ~SubmitStep, ~SecondStep
  PROVE  GroupKeeping
BY QuietGroups, ReportGroups, LegGroups, PeersGroups, CancelGroups, ScanGroups, ScannedGroups,
   ActivateGroups DEF Work

LEMMA WorkExclusive ==
  ASSUME Exclusive, Work, ~SubmitStep, ~SecondStep
  PROVE  Exclusive'
<1>1. Orderly /\ Orderly' BY WorkOrderly DEF Exclusive
<1>2. /\ agenda # <<>> /\ work.k \notin {"submit", "second"}
      /\ \E items \in Seq(WorkItem) : Does(items)
  BY <1>1, WorkDoes
<1>3. PICK items \in Seq(WorkItem) : Does(items) BY <1>2
<1>4. RowsKept /\ Narrowed /\ UndoOk /\ Continue(items) /\ Carried(items) BY <1>3 DEF Does, Keeps
<1>5. Base /\ Base' /\ Booking' BY <1>1 DEF Orderly, Guarded
<1>6. GroupKeeping BY <1>4, <1>5, StepGroups
<1>7. PICK b \in Seq(WorkItem) : Continue(b) /\ GroupOk(b) BY <1>6 DEF GroupKeeping
<1>8. b = items BY <1>2, <1>4, <1>5, <1>7, SameItems DEF Base, Typed
<1>9. Spent' /\ Whole' /\ Left' BY <1>2, <1>4, <1>7, <1>8, GroupsKept
<1> QED BY <1>1, <1>9 DEF Exclusive

-----------------------------------------------------------------------------
(* Groups: submissions and the handlers. *)

\* Only the agenda changes, from plain items to plain items.
LEMMA PlainExclusive ==
  ASSUME Exclusive, Orderly', UNCHANGED <<orders, oms, engine>>, Plain(agenda), Plain(agenda'),
         \A n \in DOMAIN agenda' :
           (agenda'[n].k \in {"submit", "second"} /\ agenda'[n].group # NoGroup)
             => Market(agenda'[n].req),
         Intact'
  PROVE  Exclusive'
<1>1. /\ Spent /\ Whole /\ Left /\ agenda \in Seq(WorkItem) /\ agenda' \in Seq(WorkItem)
  BY DEF Exclusive, Orderly, Guarded, Base, Typed
<1>2. UNCHANGED <<orders, members, groupOf, resting>> BY DEF oms, engine
<1>3. Known' = Known /\ Loose' = Loose BY <1>2 DEF Known, Loose
<1>4. /\ \A n \in DOMAIN agenda : Drops(agenda[n]) = {}
      /\ \A n \in DOMAIN agenda' : Drops(agenda'[n]) = {}
  BY <1>1, PlainItems
<1>5. \A n \in DOMAIN agenda' : agenda'[n].k \notin {"rejected", "canceled"} BY DEF Plain
<1>6. Spent' BY <1>1, <1>2, <1>3, <1>5 DEF Spent, Ended, InGroup, Market
<1>7. Whole' BY <1>1, <1>2, <1>3 DEF Whole
<1>8. Left' BY <1>1, <1>2, <1>3, <1>4 DEF Left, InGroup, Over
<1> QED BY <1>6, <1>7, <1>8 DEF Exclusive

LEMMA RaisedExclusive ==
  ASSUME Exclusive, Orderly', SubmitStep, ~work.req.valid
  PROVE  Exclusive'
<1>1. /\ agenda # <<>> /\ work.k = "submit" /\ Raise
      /\ UNCHANGED <<orders, oms, engine>>
  BY DEF SubmitStep, Doing
<1>2. Base BY DEF Exclusive, Orderly, Guarded
<1>3. Known' = Known BY <1>1 DEF Known
<1>4. ASSUME NEW n \in DOMAIN agenda' PROVE agenda'[n].k = "cancel"
  <2>1. agenda' = <<>> \/ \E j : agenda' = <<Item("cancel", j)>> BY <1>1, <1>2, <1>3, RaisedAgenda
  <2>2. CASE agenda' = <<>> BY <2>2
  <2>3. ASSUME NEW j, agenda' = <<Item("cancel", j)>> PROVE agenda'[n].k = "cancel"
    <3>1. PICK w : w = Item("cancel", j) OBVIOUS
    <3>2. DOMAIN agenda' = {1} /\ agenda'[1] = w /\ w.k = "cancel" BY <2>3, <3>1 DEF Item
    <3> QED BY <3>2
  <2> QED BY <2>1, <2>2, <2>3
<1>5. Plain(agenda) /\ Plain(agenda') BY <1>1, <1>2, <1>4, SubmitPlain DEF Plain
<1>6. Intact' BY <1>4 DEF Intact
<1> QED BY <1>1, <1>4, <1>5, <1>6, PlainExclusive

LEMMA AcceptedExclusive ==
  ASSUME Exclusive, Orderly', SubmitStep, work.req.valid
  PROVE  Exclusive'
<1>1. PICK r, g, i : r = work.req /\ g = work.group /\ i = NextId OBVIOUS
<1>2. Orderly /\ Base /\ Typed /\ OneWatched /\ Spent /\ Whole /\ Left /\ Base'
  BY DEF Exclusive, Orderly, Guarded, Base
<1>3. /\ agenda # <<>> /\ work.k = "submit" /\ r \in Request /\ g \in Ids
      /\ i \in OrderId /\ i \in Nat /\ i \notin Known /\ Known' = Known \cup {i}
      /\ orders'[i] = NewRow(r, g)
      /\ \A j \in OrderId : j # i => orders'[j] = orders[j]
      /\ \A j \in Known : j \in OrderId /\ j \in Nat /\ j < i
      /\ groupOf' = [groupOf EXCEPT ![i] = g]
      /\ members' = IF g = NoGroup THEN members ELSE [members EXCEPT ![g] = @ \cup {i}]
      /\ \A n \in DOMAIN agenda' :
           \/ EngineItem(agenda'[n], i, UserTs)
           \/ /\ Len(agenda) = 2 /\ 2 \in DOMAIN agenda /\ agenda'[n] = agenda[2]
              /\ agenda[2].k \in {"second", "rollback"}
  BY <1>1, <1>2, Submitted
<1>4. /\ orders'[i].req = r /\ orders'[i].group = g
      /\ orders'[i].status \in {"PENDING", "UNTRIGGERED"}
      /\ r.trigger # "NONE" => orders'[i].status = "UNTRIGGERED"
  BY <1>3 DEF NewRow
<1>5. PICK items \in Seq(WorkItem) :
    /\ Continue(items)
    /\ \/ /\ items = <<Item("accepted", i)>> /\ r.trigger = "NONE"
          /\ executed'[i] = 0 /\ resting'[i] = r.qty /\ UNCHANGED <<trigBook, watch>>
       \/ /\ items = <<>> /\ r.trigger # "NONE" /\ executed'[i] = 0 /\ resting'[i] = 0
          /\ trigBook' = trigBook \cup {i} /\ watch'[i].stop = r.stop
          /\ \A j \in OrderId : j # i => watch'[j] = watch[j]
    /\ \A j \in OrderId : j # i => executed'[j] = executed[j] /\ resting'[j] = resting[j]
  BY <1>1, <1>2, Recorded
<1>6. /\ agenda \in Seq(WorkItem) /\ agenda' \in Seq(WorkItem) /\ work = agenda[1] /\ 1 \in DOMAIN agenda
  BY <1>2, <1>3, RunningOk DEF Base, Typed
<1>7. \A n \in DOMAIN items : items[n] = Item("accepted", i)
  <2>1. CASE items = <<>> BY <2>1
  <2>2. CASE items = <<Item("accepted", i)>>
    <3>1. PICK w : w = Item("accepted", i) OBVIOUS
    <3>2. DOMAIN items = {1} /\ items[1] = w BY <2>2, <3>1
    <3> QED BY <3>1, <3>2
  <2> QED BY <1>5, <2>1, <2>2
<1>8. ASSUME NEW n \in DOMAIN agenda'
      PROVE  \/ agenda'[n].k = "accepted"
             \/ 2 \in DOMAIN agenda /\ agenda'[n] = agenda[2] /\ agenda[2].k \in {"second", "rollback"}
  <2>1. CASE n \in DOMAIN items /\ agenda'[n] = items[n] BY <1>7, <2>1 DEF Item
  <2>2. ASSUME NEW m \in DOMAIN agenda, m > 1, agenda'[n] = agenda[m]
        PROVE  2 \in DOMAIN agenda /\ agenda'[n] = agenda[2] /\ agenda[2].k \in {"second", "rollback"}
    <3>1. agenda[m].k \in {"submit", "second", "rollback"} BY <1>2, <1>3, SubmitPlain
    <3>2. agenda[m].k = "submit" => m = 1 BY <1>2 DEF Base, Shaped
    <3>3. agenda[m].k \in {"second", "rollback"} BY <2>2, <3>1, <3>2
    <3>4. m = 2 BY <1>2, <1>3, <3>3, SubmitPlain
    <3> QED BY <2>2, <3>3, <3>4
  <2>3. \/ n \in DOMAIN items /\ agenda'[n] = items[n]
        \/ \E m \in DOMAIN agenda : m > 1 /\ agenda'[n] = agenda[m]
    BY <1>3, <1>5, <1>6, ContinueAgenda
  <2> QED BY <2>1, <2>2, <2>3
<1>9. \A n \in DOMAIN agenda' : agenda'[n].k \in {"accepted", "second", "rollback"} BY <1>8
<1>10. Plain(agenda) /\ Plain(agenda') BY <1>2, <1>3, <1>9, SubmitPlain DEF Plain
<1>11. /\ \A n \in DOMAIN agenda : Drops(agenda[n]) = {}
       /\ \A n \in DOMAIN agenda' : Drops(agenda'[n]) = {}
  BY <1>6, <1>10, PlainItems
<1>12. g # NoGroup => Market(r) BY <1>1, <1>2, <1>3, <1>6 DEF Spent
<1>13. Spent'
  <2>1. ASSUME NEW j \in Known'
        PROVE  /\ Ended(j)' => resting'[j] = 0
               /\ orders'[j].status = "FILLED" => orders'[j].filled >= orders'[j].req.qty
               /\ orders'[j].status = "TRIGGERED" => orders'[j].req.trigger # "NONE"
               /\ InGroup(j)' => Market(orders'[j].req)
               /\ (InGroup(j)' /\ orders'[j].req.trigger # "NONE") => resting'[j] = 0
    <3>1. CASE j = i BY <1>4, <1>5, <1>12, <3>1 DEF Ended, InGroup
    <3>2. CASE j # i
      <4>1. j \in Known /\ orders'[j] = orders[j] /\ resting'[j] = resting[j]
        BY <1>3, <1>5, <3>2 DEF Known
      <4> QED BY <1>2, <4>1 DEF Spent, Ended, InGroup
    <3> QED BY <3>1, <3>2
  <2>2. ASSUME NEW n \in DOMAIN agenda'
        PROVE  /\ agenda'[n].k \notin {"rejected", "canceled"}
               /\ (agenda'[n].k \in {"submit", "second"} /\ agenda'[n].group # NoGroup)
                    => Market(agenda'[n].req)
    BY <1>2, <1>8 DEF Spent
  <2>3. \A q : Market(q)' <=> Market(q) BY DEF Market
  <2> QED BY <2>1, <2>2, <2>3 DEF Spent
\* The group the order comes into has not been left.
<1>14. g # NoGroup => g \in OrderId /\ members[g] = {j \in Known : orders[j].group = g}
  <2> SUFFICES ASSUME g # NoGroup
               PROVE  g \in OrderId /\ members[g] = {j \in Known : orders[j].group = g}
    OBVIOUS
  <2>1. g \in OrderId BY <1>3 DEF Ids, NoGroup, NoOrder
  <2>2. members[g] \in {{}, {j \in Known : orders[j].group = g}} BY <1>2, <2>1 DEF Whole
  <2>3. CASE g = i
    <3>1. \A j \in Known : orders[j].group \in Ids BY <1>2 DEF Typed, OrderRow, Known
    <3>2. \A j \in Known : orders[j].group # i
      <4> SUFFICES ASSUME NEW j \in Known, orders[j].group = i PROVE FALSE OBVIOUS
      <4>1. i <= j BY <1>2 DEF OneWatched
      <4> QED BY <1>3, <4>1
    <3> QED BY <2>1, <2>2, <2>3, <3>2
  <2>4. CASE 2 \in DOMAIN agenda /\ agenda[2].k = "rollback" /\ g = agenda[2].id
    <3>1. members[agenda[2].id] # {} BY <1>2, <1>3, <1>6, <2>4 DEF Whole, Intact
    <3> QED BY <2>1, <2>2, <2>4, <3>1
  <2> QED BY <1>1, <1>2, <1>3, <2>3, <2>4, Submitting
<1>15. Whole'
  <2>1. members \in [Ids -> SUBSET OrderId] BY <1>2 DEF Typed
  <2>2. ASSUME NEW h \in OrderId
        PROVE  members'[h] \in {{}, {j \in Known' : orders'[j].group = h}}
    <3>1. \A j : j \in Known /\ orders'[j].group = h <=> j \in Known /\ orders[j].group = h
      BY <1>3
    <3>2. CASE h = g
      <4>1. g # NoGroup BY <3>2, Numbers
      <4>2. members'[g] = members[g] \cup {i} BY <1>3, <2>1, <4>1
      <4>3. members'[g] = {j \in Known' : orders'[j].group = g}
        BY <1>3, <1>4, <1>14, <3>1, <3>2, <4>1, <4>2
      <4> QED BY <3>2, <4>3
    <3>3. CASE h # g
      <4>1. members'[h] = members[h] BY <1>3, <2>1, <3>3 DEF Ids
      <4>2. {j \in Known' : orders'[j].group = h} = {j \in Known : orders[j].group = h}
        BY <1>3, <1>4, <3>1, <3>3
      <4> QED BY <1>2, <4>1, <4>2 DEF Whole
    <3> QED BY <3>2, <3>3
  <2>3. Intact'
    <3>1. ASSUME NEW n \in DOMAIN agenda', agenda'[n].k = "second"
          PROVE  members'[agenda'[n].group] # {}
      <4>1. 2 \in DOMAIN agenda /\ agenda'[n] = agenda[2] /\ agenda[2].k = "second" BY <1>8, <3>1
      <4>2. agenda[2].group = i /\ g = i BY <1>1, <1>2, <1>3, <4>1, Submitting
      <4>3. g # NoGroup BY <1>3, <4>2, Numbers
      <4>4. members'[g] = members[g] \cup {i} BY <1>3, <2>1, <4>3
      <4> QED BY <4>1, <4>2, <4>4
    <3>2. ASSUME NEW n \in DOMAIN agenda' PROVE agenda'[1].k # "submit"
      <4>1. 1 \in DOMAIN agenda' BY <1>6
      <4> QED BY <1>9, <4>1
    <3> QED BY <3>1, <3>2 DEF Intact
  <2> QED BY <2>2, <2>3 DEF Whole
<1>16. Left'
  <2>1. \A j \in OrderId : j # i => (j \in Loose' <=> j \in Loose)
    <3>1. DOMAIN groupOf = OrderId BY <1>2 DEF Typed
    <3> QED BY <1>3, <3>1 DEF Loose
  <2>2. g # NoGroup => i \notin Loose'
    <3>1. groupOf'[i] = g BY <1>2, <1>3 DEF Typed
    <3> QED BY <3>1 DEF Loose
  <2>3. ASSUME NEW j \in Known', InGroup(j)'
        PROVE  /\ Over(j)' => j \in Loose'
               /\ j \in Loose' => resting'[j] = 0
    <3>1. CASE j = i BY <1>4, <2>2, <2>3, <3>1 DEF InGroup, Over
    <3>2. CASE j # i
      <4>1. j \in Known /\ j \in OrderId /\ orders'[j] = orders[j] /\ resting'[j] = resting[j]
        BY <1>3, <1>5, <3>2 DEF Known
      <4>2. InGroup(j) /\ (Over(j)' <=> Over(j)) BY <2>3, <4>1 DEF InGroup, Over
      <4> QED BY <1>2, <1>11, <2>1, <3>2, <4>1, <4>2 DEF Left
    <3> QED BY <3>1, <3>2
  <2> QED BY <1>11, <2>3 DEF Left
<1> QED BY <1>13, <1>15, <1>16 DEF Exclusive

LEMMA SecondExclusive ==
  ASSUME Exclusive, Orderly', SecondStep
  PROVE  Exclusive'
<1>1. Base /\ Spent /\ Whole BY DEF Exclusive, Orderly, Guarded
<1>2. PICK s, b : s = Submit(work.req, work.group) /\ b = Item("rollback", work.group) OBVIOUS
<1>3. /\ work.k = "second" /\ work = agenda[1] /\ 1 \in DOMAIN agenda
      /\ DOMAIN agenda = {1} /\ DOMAIN agenda' = {1, 2} /\ agenda'[1] = s /\ agenda'[2] = b
      /\ work.group \in OrderId /\ UNCHANGED <<orders, oms, engine>>
  BY <1>1, <1>2, SecondAgenda
<1>4. /\ s.k = "submit" /\ s.req = work.req /\ s.group = work.group
      /\ b.k = "rollback" /\ b.id = work.group
  BY <1>2 DEF Submit, Item
<1>5. Plain(agenda) /\ Plain(agenda') BY <1>3, <1>4 DEF Plain
<1>6. Market(work.req)
  <2>1. work.group # NoGroup BY <1>3, Numbers
  <2> QED BY <1>1, <1>3, <2>1 DEF Spent
<1>7. Intact'
  <2>1. members[work.group] # {} /\ UNCHANGED members BY <1>1, <1>3 DEF Whole, Intact, oms
  <2> QED BY <1>3, <1>4, <2>1 DEF Intact
<1> QED BY <1>3, <1>4, <1>5, <1>6, <1>7, PlainExclusive

LEMMA HandlerExclusive ==
  ASSUME StopsAtMarket, Exclusive, Orderly',
         \/ \E r \in Requests : SubmitOrder(r)
         \/ \E legs \in OcoRequests : SubmitOco(legs)
         \/ \E i \in OrderId : CancelOrder(i)
  PROVE  Exclusive'
<1>1. Base /\ agenda = <<>> /\ DOMAIN agenda = {}
  BY DEF Exclusive, Orderly, Guarded, SubmitOrder, SubmitOco, CancelOrder
<1>2. Plain(agenda) BY <1>1 DEF Plain
<1>3. ASSUME NEW r \in Requests, SubmitOrder(r) PROVE Exclusive'
  <2>1. PICK w : w = Submit(r, NoGroup) OBVIOUS
  <2>2. w.k = "submit" /\ w.group = NoGroup BY <2>1 DEF Submit
  <2>3. DOMAIN agenda' = {1} /\ agenda'[1] = w /\ UNCHANGED <<orders, oms, engine>>
    BY <1>1, <1>3, <2>1, Started
  <2>4. Plain(agenda') /\ Intact' BY <2>2, <2>3 DEF Plain, Intact
  <2> QED BY <1>2, <2>2, <2>3, <2>4, PlainExclusive
<1>4. ASSUME NEW legs \in OcoRequests, SubmitOco(legs) PROVE Exclusive'
  <2>1. PICK w, v : w = Submit(legs[1], NextId) /\ v = Second(legs[2], NextId) OBVIOUS
  <2>2. w.k = "submit" /\ w.req = legs[1] /\ v.k = "second" /\ v.req = legs[2]
    BY <2>1 DEF Submit, Second
  <2>3. /\ DOMAIN agenda' = {1, 2} /\ agenda'[1] = w /\ agenda'[2] = v
        /\ UNCHANGED <<orders, oms, engine>>
    BY <1>1, <1>4, <2>1, Started
  <2>4. Market(legs[1]) /\ Market(legs[2]) BY DEF StopsAtMarket, Market
  <2>5. Plain(agenda') /\ Intact' BY <2>2, <2>3 DEF Plain, Intact
  <2> QED BY <1>2, <2>2, <2>3, <2>4, <2>5, PlainExclusive
<1>5. ASSUME NEW i \in OrderId, CancelOrder(i) PROVE Exclusive'
  <2>1. PICK w : w = Item("cancel", i) OBVIOUS
  <2>2. w.k = "cancel" BY <2>1 DEF Item
  <2>3. DOMAIN agenda' = {1} /\ agenda'[1] = w /\ UNCHANGED <<orders, oms, engine>>
    BY <1>1, <1>5, <2>1, Started
  <2>4. Plain(agenda') /\ Intact' BY <2>2, <2>3 DEF Plain, Intact
  <2> QED BY <1>2, <2>2, <2>3, <2>4, PlainExclusive
<1> QED BY <1>3, <1>4, <1>5

LEMMA TickExclusive ==
  ASSUME Exclusive, Orderly', Tick
  PROVE  Exclusive'
<1>1. /\ Base /\ Typed /\ Spent /\ Whole /\ Left /\ agenda = <<>> /\ DOMAIN agenda = {}
  BY DEF Exclusive, Orderly, Guarded, Base, Tick
<1>2. PICK h : h = pending[1] OBVIOUS
<1>3. /\ DOMAIN agenda' = {1, 2} /\ agenda'[1] = h /\ agenda'[2] = Loop
      /\ UNCHANGED <<orders, groupOf, members>>
  BY <1>1, <1>2, Started DEF oms
<1>4. /\ h \in QueueItem /\ pending' \in Seq(QueueItem)
      /\ \/ UNCHANGED engine
         \/ /\ pending' \in AgentBatches
            /\ resting' = [m \in OrderId |-> resting[m] - Traded(pending', m)]
  BY <1>1, <1>2, TickPending
<1>5. h.k \in {"trade", "quiet"} /\ Loop.k = "loop"
  <2>1. h = Quiet \/ h \in TradeItem BY <1>4 DEF QueueItem
  <2> QED BY <2>1 DEF TradeItem, Quiet, Loop
<1>6. \A n \in DOMAIN agenda' :
        agenda'[n].k \in {"trade", "quiet", "loop"} /\ Drops(agenda'[n]) = {}
  <2>1. \A n \in DOMAIN agenda' : agenda'[n].k \in {"trade", "quiet", "loop"} BY <1>3, <1>5
  <2> QED BY <2>1 DEF Drops
<1>7. Known' = Known /\ Loose' = Loose /\ Known \subseteq OrderId BY <1>3 DEF Known, Loose
\* What is not in the book does not trade.
<1>8. ASSUME NEW i \in OrderId, resting[i] = 0 PROVE resting'[i] = 0
  <2>1. CASE UNCHANGED engine BY <1>8, <2>1 DEF engine
  <2>2. CASE /\ pending' \in AgentBatches
             /\ resting' = [m \in OrderId |-> resting[m] - Traded(pending', m)]
    <3>1. pending' \in Seq(WorkItem)
      <4>1. QueueItem \subseteq WorkItem BY ItemKinds, ItemTypes DEF QueueItem
      <4> QED BY <1>4, <4>1
    <3>2. PICK t \in Nat : t = Traded(pending', i) BY <3>1, TradedType
    <3>3. t <= 0 BY <1>8, <2>2, <3>2 DEF AgentBatches
    <3>4. resting'[i] = 0 - t BY <1>8, <2>2, <3>2
    <3> QED BY <3>2, <3>3, <3>4
  <2> QED BY <1>4, <2>1, <2>2
<1>9. Spent' BY <1>1, <1>3, <1>6, <1>7, <1>8 DEF Spent, Ended, InGroup, Market
<1>10. Whole' BY <1>1, <1>3, <1>6, <1>7 DEF Whole, Intact
<1>11. Left' BY <1>1, <1>3, <1>6, <1>7, <1>8 DEF Left, InGroup, Over
<1> QED BY <1>9, <1>10, <1>11 DEF Exclusive

LEMMA ExclusiveNext ==
  ASSUME OneTriggered, NothingAtOnce, StopsAtMarket, Exclusive, [Next]_vars
  PROVE  Exclusive'
<1>1. Orderly' BY OrderlyNext DEF Exclusive
<1>2. CASE Work
  <2>1. CASE SubmitStep BY <1>1, <2>1, RaisedExclusive, AcceptedExclusive
  <2>2. CASE SecondStep BY <1>1, <2>2, SecondExclusive
  <2>3. CASE ~SubmitStep /\ ~SecondStep BY <1>2, <2>3, WorkExclusive
  <2> QED BY <2>1, <2>2, <2>3
<1>3. CASE Tick BY <1>1, <1>3, TickExclusive
<1>4. CASE UNCHANGED vars
  <2>1. UNCHANGED <<orders, groupOf, members, resting, agenda>> BY <1>4 DEF vars, oms, engine
  <2>2. Known' = Known /\ Loose' = Loose BY <2>1 DEF Known, Loose
  <2>3. Spent' BY <2>1, <2>2 DEF Exclusive, Spent, Ended, InGroup
  <2>4. Whole' BY <2>1, <2>2 DEF Exclusive, Whole, Intact
  <2>5. Left' BY <2>1, <2>2 DEF Exclusive, Left, InGroup, Over
  <2> QED BY <1>1, <2>3, <2>4, <2>5 DEF Exclusive
<1> QED BY <1>1, <1>2, <1>3, <1>4, HandlerExclusive DEF Next

LEMMA ExclusiveInit ==
  ASSUME Init
  PROVE  Exclusive
<1>1. Orderly BY OrderlyInit
<1>2. /\ \A i \in OrderId : orders[i].status = "NONE"
      /\ agenda = <<>> /\ DOMAIN agenda = {} /\ \A g \in OrderId : members[g] = {}
  BY DEF Init
<1>3. Known = {} BY <1>2 DEF Known
<1>4. Spent /\ Whole /\ Left BY <1>2, <1>3 DEF Spent, Whole, Intact, Left
<1> QED BY <1>1, <1>4 DEF Exclusive

\* When the stops of pairs go to the market, an order that has triggered or filled leaves
\* no peer behind: between handlers none is watched and none rests.
THEOREM NoPeerIsLeft ==
  OneTriggered /\ NothingAtOnce /\ StopsAtMarket /\ Spec => []PeersDieTogether
<1> SUFFICES ASSUME OneTriggered, NothingAtOnce, StopsAtMarket
             PROVE  Spec => []PeersDieTogether
  OBVIOUS
<1>1. Init => Exclusive BY ExclusiveInit
<1>2. Exclusive /\ [Next]_vars => Exclusive' BY ExclusiveNext
<1>3. Exclusive => PeersDieTogether
  <2> SUFFICES ASSUME Exclusive, agenda = <<>>, NEW i \in Known, NEW j \in Known, i # j,
                      orders[i].group # NoGroup, orders[i].group = orders[j].group,
                      Triggered(i) \/ orders[i].status = "FILLED"
               PROVE  j \notin trigBook /\ resting[j] = 0
    BY DEF PeersDieTogether
  <2>1. /\ Base /\ Typed /\ Grouped /\ GroupsInverse /\ Watched /\ Whole /\ Left
        /\ i \in OrderId /\ j \in OrderId /\ DOMAIN agenda = {}
    BY DEF Exclusive, Orderly, Guarded, Base, Grouped, Known
  <2>2. PICK g : g = orders[i].group OBVIOUS
  <2>3. g \in OrderId
    <3>1. g \in Ids BY <2>1, <2>2 DEF Typed, OrderRow
    <3> QED BY <2>2, <3>1 DEF Ids, NoGroup, NoOrder
  <2>4. groupOf[i] = NoGroup
    <3>1. Over(i) BY DEF Triggered, Over
    <3> QED BY <2>1, <3>1 DEF Left, InGroup, Loose
\* The group has been left by all of its orders.
  <2>5. members[g] = {}
    <3>1. i \notin members[g] BY <2>1, <2>3, <2>4, Numbers DEF GroupsInverse
    <3> QED BY <2>1, <2>2, <2>3, <3>1 DEF Whole
  <2>6. groupOf[j] = NoGroup
    <3>1. groupOf[j] \in {NoGroup, g} BY <2>1, <2>2 DEF Grouped
    <3> QED BY <2>1, <2>5, <3>1 DEF GroupsInverse
  <2>7. resting[j] = 0 BY <2>1, <2>6 DEF Left, InGroup, Loose
  <2>8. j \notin trigBook BY <2>1, <2>6 DEF Watched
  <2> QED BY <2>7, <2>8
<1> QED BY <1>1, <1>2, <1>3, PTL DEF Spec
=============================================================================
