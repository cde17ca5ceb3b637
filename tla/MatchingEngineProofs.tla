------------------------ MODULE MatchingEngineProofs ------------------------
(***************************************************************************)
(* Proofs about MatchingEngine: type correctness, the uncrossed book, the  *)
(* agreement of queues, totals and levels with the order map, price-time   *)
(* priority, what readers of the events know, the refinement of the        *)
(* auction, and fill or kill, for every finite set of prices and bound.    *)
(***************************************************************************)
EXTENDS MatchingEngine, Sums, FiniteSetTheorems, SequenceTheorems, TLAPS

-----------------------------------------------------------------------------
(* Sets of units: the sums behind the cached totals. *)

\* The units a..b of order i.
Block(i, a, b) == {<<i, n>> : n \in a..b}

\* Quantity of a block of units.
LEMMA BlockCardinality ==
  ASSUME NEW i, NEW a \in Nat, NEW b \in Nat, a <= b + 1
  PROVE  IsFiniteSet(Block(i, a, b)) /\ Cardinality(Block(i, a, b)) = b - a + 1
<1> DEFINE f == [n \in a..b |-> <<i, n>>]
<1>1. f \in Bijection(a..b, Block(i, a, b))
  <2>1. f \in [a..b -> Block(i, a, b)]
    BY DEF Block
  <2>2. \A m, n \in a..b : f[m] = f[n] => m = n
    OBVIOUS
  <2>3. \A u \in Block(i, a, b) : \E n \in a..b : f[n] = u
    BY DEF Block
  <2> QED
    BY <2>1, <2>2, <2>3 DEF Bijection, Injection, Surjection, IsInjective
<1>2. ExistsBijection(a..b, Block(i, a, b))
  BY <1>1 DEF ExistsBijection
<1>3. IsFiniteSet(a..b) /\ Cardinality(a..b) = b - a + 1
  BY FS_Interval
<1> QED
  BY <1>2, <1>3, FS_Bijection

\* Adding a block to a set of units, or taking one away, changes the quantity by
\* the size of the block.
LEMMA SplitCardinality ==
  ASSUME NEW U, NEW i, NEW a \in Nat, NEW b \in Nat, a <= b + 1,
         IsFiniteSet(U), U \cap Block(i, a, b) = {}
  PROVE  /\ IsFiniteSet(U \cup Block(i, a, b))
         /\ Cardinality(U \cup Block(i, a, b)) = Cardinality(U) + (b - a + 1)
<1>1. IsFiniteSet(Block(i, a, b)) /\ Cardinality(Block(i, a, b)) = b - a + 1
  BY BlockCardinality
<1>2. Cardinality({}) = 0
  BY FS_EmptySet
<1>3. Cardinality(U) \in Nat
  BY FS_CardinalityType
<1>4. /\ IsFiniteSet(U \cup Block(i, a, b))
      /\ Cardinality(U \cup Block(i, a, b)) =
           Cardinality(U) + Cardinality(Block(i, a, b)) - Cardinality(U \cap Block(i, a, b))
  BY <1>1, FS_Union
<1>5. Cardinality(U \cup Block(i, a, b)) = Cardinality(U) + (b - a + 1) - 0
  BY <1>1, <1>2, <1>4
<1> QED
  BY <1>3, <1>4, <1>5

\* A whole order of quantity r more or less.
LEMMA GrowByOrder ==
  ASSUME NEW U, NEW i, NEW r \in Nat, IsFiniteSet(U), U \cap Block(i, 1, r) = {}
  PROVE  Cardinality(U \cup Block(i, 1, r)) = Cardinality(U) + r
<1>1. PICK a \in Nat : a = 1
  OBVIOUS
<1>2. a <= r + 1 /\ U \cap Block(i, a, r) = {}
  BY <1>1
<1>3. Cardinality(U \cup Block(i, a, r)) = Cardinality(U) + (r - a + 1)
  BY <1>2, SplitCardinality
<1>4. Cardinality(U) \in Nat
  BY FS_CardinalityType
<1> QED
  BY <1>1, <1>3, <1>4

-----------------------------------------------------------------------------
(* Sequences of order ids. *)

\* Popping the front of an oldest-first queue removes its smallest id.
LEMMA PopQueue ==
  ASSUME NEW q \in Seq(OrderId), q # <<>>, OldestFirst(q)
  PROVE  /\ Head(q) \in ToSet(q)
         /\ \A i \in ToSet(q) : Head(q) <= i
         /\ Tail(q) \in Seq(OrderId)
         /\ OldestFirst(Tail(q))
         /\ ToSet(Tail(q)) = ToSet(q) \ {Head(q)}
<1> USE DEF OrderId, OldestFirst, ToSet
<1>1. /\ Len(q) \in Nat \ {0} /\ DOMAIN q = 1..Len(q)
      /\ Head(q) = q[1] /\ \A j \in 1..Len(q) : q[j] \in Nat
  BY BoundsAssumption
<1>2. /\ Tail(q) \in Seq(OrderId) /\ Len(Tail(q)) = Len(q) - 1
      /\ \A j \in 1..(Len(q) - 1) : Tail(q)[j] = q[j + 1]
      /\ DOMAIN Tail(q) = 1..(Len(q) - 1)
  BY <1>1
<1>3. \A j \in 2..Len(q) : q[1] < q[j]
  BY <1>1
<1>4. OldestFirst(Tail(q))
  BY <1>1, <1>2
<1>5. ToSet(Tail(q)) \subseteq ToSet(q) \ {Head(q)}
  BY <1>1, <1>2, <1>3
<1>6. ToSet(q) \ {Head(q)} \subseteq ToSet(Tail(q))
  <2> SUFFICES ASSUME NEW j \in 1..Len(q), j # 1
               PROVE  q[j] \in ToSet(Tail(q))
    BY <1>1
  <2>1. j - 1 \in 1..(Len(q) - 1) /\ Tail(q)[j - 1] = q[j]
    BY <1>1, <1>2
  <2> QED
    BY <2>1, <1>2
<1>7. Head(q) \in ToSet(q)
  BY <1>1
<1>8. \A i \in ToSet(q) : Head(q) <= i
  BY <1>1, <1>3
<1> QED
  BY <1>2, <1>4, <1>5, <1>6, <1>7, <1>8

LEMMA EmptyQueue ==
  ASSUME NEW q \in Seq(OrderId)
  PROVE  ToSet(q) = {} <=> q = <<>>
<1>1. ASSUME q # <<>>
      PROVE  q[1] \in ToSet(q)
  <2>1. Len(q) \in Nat /\ Len(q) # 0 /\ DOMAIN q = 1..Len(q)
    BY <1>1
  <2> QED
    BY <2>1 DEF ToSet
<1>2. ToSet(<<>>) = {}
  BY DEF ToSet
<1> QED
  BY <1>1, <1>2

\* A later order goes to the end of the queue.
LEMMA PushQueue ==
  ASSUME NEW q \in Seq(OrderId), OldestFirst(q), NEW i \in OrderId,
         \A j \in ToSet(q) : j < i
  PROVE  /\ Append(q, i) \in Seq(OrderId) /\ Append(q, i) # <<>>
         /\ OldestFirst(Append(q, i))
         /\ ToSet(Append(q, i)) = ToSet(q) \cup {i}
<1> USE DEF OldestFirst, ToSet
<1>1. /\ Len(q) \in Nat /\ DOMAIN q = 1..Len(q)
      /\ DOMAIN Append(q, i) = 1..(Len(q) + 1)
      /\ \A j \in 1..Len(q) : Append(q, i)[j] = q[j]
      /\ Append(q, i)[Len(q) + 1] = i
      /\ Append(q, i) \in Seq(OrderId) /\ Append(q, i) # <<>>
  OBVIOUS
<1>2. OldestFirst(Append(q, i))
  BY <1>1 DEF OrderId
<1>3. ToSet(Append(q, i)) = ToSet(q) \cup {i}
  BY <1>1
<1> QED
  BY <1>1, <1>2, <1>3

\* Deleting one position of an oldest-first queue removes exactly that id.
LEMMA DeleteFromQueue ==
  ASSUME NEW q \in Seq(OrderId), OldestFirst(q), NEW k \in DOMAIN q
  PROVE  /\ RemoveAt(q, k) \in Seq(OrderId)
         /\ OldestFirst(RemoveAt(q, k))
         /\ ToSet(RemoveAt(q, k)) = ToSet(q) \ {q[k]}
<1> DEFINE r == RemoveAt(q, k)
<1>1. Len(q) \in Nat /\ DOMAIN q = 1..Len(q) /\ k \in 1..Len(q)
      /\ \A j \in 1..Len(q) : q[j] \in OrderId
  OBVIOUS
<1>2. /\ SubSeq(q, 1, k - 1) \in Seq(OrderId) /\ Len(SubSeq(q, 1, k - 1)) = k - 1
      /\ \A j \in 1..(k - 1) : SubSeq(q, 1, k - 1)[j] = q[j]
  <2>1. 1 \in Int /\ k - 1 \in Int /\ \A j \in 1..(k - 1) : q[j] \in OrderId
    BY <1>1
  <2> QED
    BY <2>1, <1>1, SubSeqProperties
<1>3. /\ SubSeq(q, k + 1, Len(q)) \in Seq(OrderId)
      /\ Len(SubSeq(q, k + 1, Len(q))) = Len(q) - k
      /\ \A j \in 1..(Len(q) - k) : SubSeq(q, k + 1, Len(q))[j] = q[j + k]
  <2>1. /\ k + 1 \in Int /\ Len(q) \in Int
        /\ \A j \in (k + 1)..Len(q) : q[j] \in OrderId
    BY <1>1
  <2>2. /\ SubSeq(q, k + 1, Len(q)) \in Seq(OrderId)
        /\ Len(SubSeq(q, k + 1, Len(q))) =
             IF k + 1 <= Len(q) THEN Len(q) - (k + 1) + 1 ELSE 0
        /\ \A j \in 1..(Len(q) - (k + 1) + 1) :
             SubSeq(q, k + 1, Len(q))[j] = q[(k + 1) + j - 1]
    BY <2>1, SubSeqProperties
  <2> QED
    BY <2>2, <1>1
<1>4. /\ r \in Seq(OrderId) /\ DOMAIN r = 1..(Len(q) - 1)
      /\ \A j \in 1..(Len(q) - 1) : r[j] = IF j < k THEN q[j] ELSE q[j + 1]
  <2> DEFINE s == SubSeq(q, 1, k - 1)
             t == SubSeq(q, k + 1, Len(q))
  <2>1. r = s \o t
    BY DEF RemoveAt
  <2>2. s \in Seq(OrderId) /\ t \in Seq(OrderId)
    BY <1>2, <1>3
  <2>3. Len(s) = k - 1 /\ Len(t) = Len(q) - k
    BY <1>2, <1>3
  <2>4. \A j \in 1..(k - 1) : s[j] = q[j]
    BY <1>2
  <2>5. \A j \in 1..(Len(q) - k) : t[j] = q[j + k]
    BY <1>3
  <2> HIDE DEF s, t, r
  <2>6. /\ r \in Seq(OrderId) /\ Len(r) = Len(s) + Len(t)
        /\ \A j \in 1..(Len(s) + Len(t)) :
             r[j] = IF j <= Len(s) THEN s[j] ELSE t[j - Len(s)]
    BY <2>1, <2>2, ConcatProperties
  <2>7. r \in Seq(OrderId) /\ DOMAIN r = 1..(Len(q) - 1)
    BY <2>3, <2>6, <1>1
  <2>8. ASSUME NEW j \in 1..(Len(q) - 1)
        PROVE  r[j] = IF j < k THEN q[j] ELSE q[j + 1]
    <3>1. CASE j < k
      BY <3>1, <2>3, <2>4, <2>6, <1>1
    <3>2. CASE j >= k
      <4>1. j - (k - 1) \in 1..(Len(q) - k) /\ (j - (k - 1)) + k = j + 1
        BY <3>2, <1>1
      <4>2. t[j - (k - 1)] = q[j + 1]
        BY <4>1, <2>5
      <4>3. ~(j <= Len(s)) /\ j \in 1..(Len(s) + Len(t)) /\ j - Len(s) = j - (k - 1)
        BY <3>2, <2>3, <1>1
      <4>4. r[j] = t[j - (k - 1)]
        BY <4>3, <2>6
      <4> QED
        BY <4>2, <4>4, <3>2, <1>1
    <3> QED
      BY <3>1, <3>2, <1>1
  <2> QED
    BY <2>7, <2>8
<1> HIDE DEF r
<1>5. OldestFirst(r)
  <2> SUFFICES ASSUME NEW i \in 1..(Len(q) - 1), NEW j \in 1..(Len(q) - 1), i < j
               PROVE  r[i] < r[j]
    BY <1>4 DEF OldestFirst
  <2> DEFINE after(n) == IF n < k THEN n ELSE n + 1
  <2>1. /\ after(i) \in 1..Len(q) /\ after(j) \in 1..Len(q)
        /\ after(i) < after(j)
    BY <1>1
  <2>2. r[i] = q[after(i)] /\ r[j] = q[after(j)]
    BY <1>4
  <2> HIDE DEF after
  <2>3. q[after(i)] < q[after(j)]
    BY <2>1, <1>1 DEF OldestFirst
  <2> QED
    BY <2>2, <2>3
<1>6. \A i, j \in 1..Len(q) : i # j => q[i] # q[j]
  <2> SUFFICES ASSUME NEW i \in 1..Len(q), NEW j \in 1..Len(q), i # j
               PROVE  q[i] # q[j]
    OBVIOUS
  <2>1. q[i] \in Int /\ q[j] \in Int
    BY <1>1 DEF OrderId
  <2>2. (i < j => q[i] < q[j]) /\ (j < i => q[j] < q[i])
    BY <1>1 DEF OldestFirst
  <2> QED
    BY <2>1, <2>2, <1>1
<1>7. ToSet(r) \subseteq ToSet(q) \ {q[k]}
  <2> SUFFICES ASSUME NEW j \in 1..(Len(q) - 1)
               PROVE  r[j] \in ToSet(q) \ {q[k]}
    BY <1>4 DEF ToSet
  <2>1. PICK l \in 1..Len(q) : l # k /\ r[j] = q[l]
    BY <1>1, <1>4
  <2> QED
    BY <2>1, <1>1, <1>6 DEF ToSet
<1>8. ToSet(q) \ {q[k]} \subseteq ToSet(r)
  <2> SUFFICES ASSUME NEW j \in 1..Len(q), j # k
               PROVE  q[j] \in ToSet(r)
    BY <1>1 DEF ToSet
  <2>1. CASE j < k
    <3>1. j \in 1..(Len(q) - 1) /\ r[j] = q[j]
      BY <2>1, <1>1, <1>4
    <3> QED
      BY <3>1, <1>4 DEF ToSet
  <2>2. CASE j > k
    <3>1. j - 1 \in 1..(Len(q) - 1) /\ r[j - 1] = q[j]
      BY <2>2, <1>1, <1>4
    <3> QED
      BY <3>1, <1>4 DEF ToSet
  <2> QED
    BY <2>1, <2>2, <1>1
<1> QED
  BY <1>4, <1>5, <1>7, <1>8 DEF r

-----------------------------------------------------------------------------
(* The inductive invariant. *)

BookTypes ==
  /\ DOMAIN orders \subseteq OrderId
  /\ orders \in [DOMAIN orders -> RestingOrder]
  /\ levels \in [Side -> SUBSET Prices]
  /\ queue \in [Side -> [Prices -> Seq(OrderId)]]
  /\ total \in [Side -> [Prices -> Nat]]

QueuesMatch == \A s \in Side, p \in Prices : QueueMatches(s, p)
TotalsMatch == \A s \in Side, p \in Prices : TotalMatches(s, p)
LevelsMatch == \A s \in Side, p \in Prices : LevelMatches(s, p)

\* What the loops of submit_order know: ids in the book are older than the next
\* one, the readers never see less open than there is, and the level being
\* matched is the best one and acceptable to the incoming order.
LoopFacts ==
  /\ \A i \in DOMAIN orders : i < nextId /\ orders[i].rem <= told[i]
  /\ pc # "idle" =>
       /\ taker.id < nextId /\ taker.id \notin DOMAIN orders
       /\ taker.rem <= told[taker.id]
       /\ \A i \in DOMAIN orders : i < taker.id
       /\ taker.type = "LIMIT" => taker.price \in Prices
  /\ pc = "fifo" =>
       /\ at \in levels[Opposite(taker.side)]
       /\ Crosses(taker, at)
       /\ \A p \in levels[Opposite(taker.side)] : AsGood(Opposite(taker.side), at, p)

\* A reader's depth is behind only at the level being matched.
ViewFollows ==
  \A s \in Side, p \in Prices :
    \/ pc = "fifo" /\ s = Opposite(taker.side) /\ p = at
    \/ view[s][p] = IF p \in levels[s] THEN total[s][p] ELSE 0

IInv ==
  /\ TypeOK /\ QueuesMatch /\ TotalsMatch /\ LevelsMatch /\ BookUncrossed
  /\ LoopFacts /\ ViewFollows

-----------------------------------------------------------------------------
(* Units and totals. *)

LEMMA UnitsFinite ==
  ASSUME BookTypes, NEW s \in Side, NEW p \in Prices
  PROVE  IsFiniteSet(Units(s, p)) /\ Cardinality(Units(s, p)) \in Nat
<1>1. IsFiniteSet(OrderId) /\ IsFiniteSet(1..MaxQty)
  BY BoundsAssumption, FS_Interval DEF OrderId
<1>2. IsFiniteSet(OrderId \X (1..MaxQty))
  BY <1>1, FS_Product
<1>3. Units(s, p) \in SUBSET (OrderId \X (1..MaxQty))
  BY DEF Units, OrdersAt, BookTypes
<1>4. IsFiniteSet(Units(s, p))
  BY <1>2, <1>3, FS_Subset
<1> QED
  BY <1>4, FS_CardinalityType

LEMMA UnitsMembers ==
  ASSUME NEW s, NEW p
  PROVE  /\ \A u \in Units(s, p) : u = <<u[1], u[2]>>
         /\ \A i, n : <<i, n>> \in Units(s, p) <=>
              /\ i \in OrdersAt(s, p) /\ n \in 1..MaxQty /\ n <= orders[i].rem
BY DEF Units

\* A level's total is zero exactly when its queue is empty, which is what
\* clean_empty_level and remove_order rely on.
LEMMA EmptyLevel ==
  ASSUME BookTypes, NEW s \in Side, NEW p \in Prices,
         QueueMatches(s, p), TotalMatches(s, p)
  PROVE  total[s][p] = 0 <=> queue[s][p] = <<>>
<1>1. total[s][p] = 0 <=> Units(s, p) = {}
  BY UnitsFinite, FS_EmptySet DEF TotalMatches
<1>2. ASSUME Units(s, p) = {}
      PROVE  OrdersAt(s, p) = {}
  <2> SUFFICES ASSUME NEW i \in OrdersAt(s, p)
               PROVE  FALSE
    OBVIOUS
  <2>1. orders[i].rem \in 1..MaxQty
    BY DEF OrdersAt, BookTypes, RestingOrder
  <2>2. <<i, 1>> \in Units(s, p)
    BY <2>1, UnitsMembers, BoundsAssumption
  <2> QED
    BY <1>2, <2>2
<1>3. ASSUME OrdersAt(s, p) = {}
      PROVE  Units(s, p) = {}
  BY <1>3 DEF Units
<1>4. queue[s][p] \in Seq(OrderId)
  BY DEF BookTypes
<1>5. ToSet(queue[s][p]) = {} <=> queue[s][p] = <<>>
  BY <1>4, EmptyQueue
<1> QED
  BY <1>1, <1>2, <1>3, <1>5 DEF QueueMatches

-----------------------------------------------------------------------------
(* Taking quantity from the front of the level being matched. *)

\* The front order of the level being matched, and its priority.
LEMMA FrontOrder ==
  ASSUME IInv, AtFront
  PROVE  /\ Opposite(taker.side) \in Side /\ at \in Prices /\ taker \in Taker
         /\ queue[Opposite(taker.side)][at] \in Seq(OrderId)
         /\ queue[Opposite(taker.side)][at] # <<>>
         /\ FrontId \in OrdersAt(Opposite(taker.side), at)
         /\ FrontId \in DOMAIN orders /\ FrontId \in OrderId
         /\ orders[FrontId] \in RestingOrder
         /\ \A i \in OrdersAt(Opposite(taker.side), at) : FrontId <= i
<1> DEFINE s == Opposite(taker.side)
<1>1. at \in Prices /\ taker \in Taker /\ queue[s][at] # <<>>
  BY DEF IInv, TypeOK, AtFront
<1>2. s \in Side
  BY <1>1 DEF Opposite, Side, Taker
<1>3. queue[s][at] \in Seq(OrderId)
  BY <1>1, <1>2 DEF IInv, TypeOK
<1>4. QueueMatches(s, at)
  BY <1>1, <1>2 DEF IInv, QueuesMatch
<1>5. FrontId \in OrdersAt(s, at) /\ \A i \in OrdersAt(s, at) : FrontId <= i
  BY <1>1, <1>3, <1>4, PopQueue DEF QueueMatches, FrontId
<1>6. FrontId \in DOMAIN orders /\ FrontId \in OrderId /\ orders[FrontId] \in RestingOrder
  BY <1>5 DEF OrdersAt, IInv, TypeOK
<1> QED
  BY <1>1, <1>2, <1>3, <1>5, <1>6

\* What taking n from order f, the front of level a of side s with r open, leaves:
\* every order keeps its place and can only shrink, and queues and totals still
\* match.
Taken(n, s, a, f, r) ==
  /\ BookTypes'
  /\ QueuesMatch' /\ TotalsMatch'
  /\ DOMAIN orders' \subseteq DOMAIN orders
  /\ \A i \in DOMAIN orders' :
       /\ orders'[i].side = orders[i].side /\ orders'[i].price = orders[i].price
       /\ orders'[i].pid = orders[i].pid
       /\ orders'[i].rem = IF i = f THEN r - n ELSE orders[i].rem
  /\ DOMAIN orders' = IF r = n THEN DOMAIN orders \ {f} ELSE DOMAIN orders
  /\ levels' = levels
  /\ \A t \in Side, p \in Prices : ~(t = s /\ p = a) =>
       queue'[t][p] = queue[t][p] /\ total'[t][p] = total[t][p]

LEMMA TakeStep ==
  ASSUME IInv, AtFront, NEW n \in Nat \ {0}, TakeFromFront(n),
         NEW s, NEW a, NEW f, NEW r,
         s = Opposite(taker.side), a = at, f = FrontId, r = orders[f].rem, n <= r
  PROVE  Taken(n, s, a, f, r)
<1>1. /\ s \in Side /\ a \in Prices
      /\ queue[s][a] \in Seq(OrderId) /\ queue[s][a] # <<>>
      /\ f \in OrdersAt(s, a) /\ f \in DOMAIN orders /\ f \in OrderId
      /\ orders[f] \in RestingOrder
  BY FrontOrder
<1>2. r \in 1..MaxQty /\ r \in Nat /\ orders[f].side = s /\ orders[f].price = a
  BY <1>1, BoundsAssumption DEF RestingOrder, OrdersAt
<1>3. BookTypes /\ QueueMatches(s, a) /\ TotalMatches(s, a)
  BY <1>1 DEF IInv, TypeOK, BookTypes, QueuesMatch, TotalsMatch
<1>4. /\ Tail(queue[s][a]) \in Seq(OrderId) /\ OldestFirst(Tail(queue[s][a]))
      /\ ToSet(Tail(queue[s][a])) = OrdersAt(s, a) \ {f}
  BY <1>1, <1>3, PopQueue DEF QueueMatches, FrontId
<1>5. /\ DOMAIN orders' = IF r = n THEN DOMAIN orders \ {f} ELSE DOMAIN orders
      /\ orders' \in [DOMAIN orders' -> RestingOrder]
      /\ \A i \in DOMAIN orders' :
           /\ orders'[i].side = orders[i].side /\ orders'[i].price = orders[i].price
           /\ orders'[i].pid = orders[i].pid
           /\ orders'[i].rem = IF i = f THEN r - n ELSE orders[i].rem
  <2>1. CASE r = n
    <3>1. orders' = [j \in DOMAIN orders \ {f} |-> orders[j]]
      BY <2>1 DEF TakeFromFront, Forget
    <3> QED
      BY <3>1, <2>1, <1>3 DEF BookTypes
  <2>2. CASE r # n
    <3>1. orders' = [orders EXCEPT ![f].rem = @ - n]
      BY <2>2 DEF TakeFromFront
    <3>2. r - n \in 1..MaxQty
      BY <2>2, <1>2, BoundsAssumption
    <3> QED
      BY <3>1, <3>2, <2>2, <1>1, <1>3 DEF BookTypes, RestingOrder
  <2> QED
    BY <2>1, <2>2
<1>6. \A t \in Side, p \in Prices :
        OrdersAt(t, p)' = IF r = n THEN OrdersAt(t, p) \ {f} ELSE OrdersAt(t, p)
  BY <1>5 DEF OrdersAt
<1>7. /\ queue' \in [Side -> [Prices -> Seq(OrderId)]]
      /\ \A t \in Side, p \in Prices :
           queue'[t][p] = IF r = n /\ t = s /\ p = a THEN Tail(queue[s][a]) ELSE queue[t][p]
  <2>1. CASE r = n
    <3>1. queue' = [queue EXCEPT ![s][a] = Tail(@)]
      BY <2>1 DEF TakeFromFront
    <3> QED
      BY <3>1, <2>1, <1>1, <1>3, <1>4 DEF BookTypes
  <2>2. CASE r # n
    BY <2>2, <1>3 DEF TakeFromFront, BookTypes
  <2> QED
    BY <2>1, <2>2
<1>8. QueuesMatch'
  <2> SUFFICES ASSUME NEW t \in Side, NEW p \in Prices
               PROVE  ToSet(queue'[t][p]) = OrdersAt(t, p)' /\ OldestFirst(queue'[t][p])
    BY DEF QueuesMatch, QueueMatches
  <2>1. CASE t = s /\ p = a
    BY <2>1, <1>3, <1>4, <1>6, <1>7 DEF QueueMatches
  <2>2. CASE ~(t = s /\ p = a)
    <3>1. f \notin OrdersAt(t, p)
      BY <2>2, <1>2 DEF OrdersAt
    <3>2. QueueMatches(t, p)
      BY DEF IInv, QueuesMatch
    <3>3. OrdersAt(t, p) \ {f} = OrdersAt(t, p)
      BY <3>1
    <3>4. OrdersAt(t, p)' = OrdersAt(t, p)
      BY <3>3, <1>6
    <3>5. queue'[t][p] = queue[t][p]
      BY <2>2, <1>7
    <3> QED
      BY <3>2, <3>4, <3>5 DEF QueueMatches
  <2> QED
    BY <2>1, <2>2
<1>9. total' = [total EXCEPT ![s][a] = @ - n]
  BY DEF TakeFromFront
<1>10. \A t \in Side, p \in Prices : ~(t = s /\ p = a) => Units(t, p)' = Units(t, p)
  <2> SUFFICES ASSUME NEW t \in Side, NEW p \in Prices, ~(t = s /\ p = a)
               PROVE  Units(t, p)' = Units(t, p)
    OBVIOUS
  <2>1. f \notin OrdersAt(t, p) /\ OrdersAt(t, p)' = OrdersAt(t, p)
    BY <1>2, <1>6 DEF OrdersAt
  <2>2. \A i \in OrdersAt(t, p) : orders'[i].rem = orders[i].rem
    BY <2>1, <1>5 DEF OrdersAt
  <2> QED
    BY <2>1, <2>2 DEF Units
<1>11. /\ Units(s, a) = Units(s, a)' \cup Block(f, r - n + 1, r)
       /\ Units(s, a)' \cap Block(f, r - n + 1, r) = {}
  <2>1. /\ \A u \in Units(s, a)' : u = <<u[1], u[2]>>
        /\ \A i, m : <<i, m>> \in Units(s, a)' <=>
             i \in OrdersAt(s, a)' /\ m \in 1..MaxQty /\ m <= orders'[i].rem
    BY DEF Units
  <2>2. \A u \in Block(f, r - n + 1, r) : u = <<u[1], u[2]>>
    BY DEF Block
  <2>3. \A i, m : <<i, m>> \in Block(f, r - n + 1, r) <=> i = f /\ m \in (r - n + 1)..r
    BY DEF Block
  <2>4. \A i \in OrdersAt(s, a) : orders[i].rem \in 1..MaxQty
    BY <1>3 DEF OrdersAt, BookTypes, RestingOrder
  <2>5. ASSUME NEW i, NEW m
        PROVE  /\ <<i, m>> \in Units(s, a) <=>
                    <<i, m>> \in Units(s, a)' \/ <<i, m>> \in Block(f, r - n + 1, r)
               /\ ~(<<i, m>> \in Units(s, a)' /\ <<i, m>> \in Block(f, r - n + 1, r))
    <3>1. CASE i # f
      <4>1. i \in OrdersAt(s, a)' <=> i \in OrdersAt(s, a)
        BY <3>1, <1>1, <1>6
      <4>2. i \in OrdersAt(s, a) => orders'[i].rem = orders[i].rem
        BY <3>1, <1>5 DEF OrdersAt
      <4> QED
        BY <3>1, <4>1, <4>2, <2>1, <2>3, UnitsMembers
    <3>2. CASE i = f
      <4>1. <<i, m>> \in Units(s, a) <=> m \in 1..r
        BY <3>2, <1>1, <1>2, UnitsMembers, BoundsAssumption
      <4>2. <<i, m>> \in Units(s, a)' <=> m \in 1..(r - n)
        <5>1. CASE r = n
          BY <5>1, <3>2, <1>1, <1>2, <1>6, <2>1
        <5>2. CASE r # n
          <6>1. f \in OrdersAt(s, a)' /\ orders'[f].rem = r - n
            BY <5>2, <1>1, <1>5, <1>6
          <6> QED
            BY <6>1, <3>2, <1>2, <2>1, BoundsAssumption
        <5> QED
          BY <5>1, <5>2
      <4>3. m \in 1..r <=> m \in 1..(r - n) \/ m \in (r - n + 1)..r
        BY <1>2
      <4>4. ~(m \in 1..(r - n) /\ m \in (r - n + 1)..r)
        BY <1>2
      <4> QED
        BY <3>2, <4>1, <4>2, <4>3, <4>4, <2>3
    <3> QED
      BY <3>1, <3>2
  <2>6. \A u \in Units(s, a) : u = <<u[1], u[2]>>
    BY UnitsMembers
  <2> QED
    BY <2>1, <2>2, <2>5, <2>6
<1>12. DOMAIN orders' \subseteq OrderId /\ levels' = levels
  BY <1>3, <1>5 DEF BookTypes, TakeFromFront
<1>13. IsFiniteSet(Units(s, a)')
  <2>1. Units(s, a)' \in SUBSET Units(s, a)
    BY <1>11
  <2> QED
    BY <2>1, <1>1, <1>3, UnitsFinite, FS_Subset
<1>14. total[s][a] = Cardinality(Units(s, a)') + n /\ Cardinality(Units(s, a)') \in Nat
  <2>1. r - n + 1 \in Nat /\ r - n + 1 <= r + 1 /\ r - (r - n + 1) + 1 = n
    BY <1>2
  <2> DEFINE U == Units(s, a)'
             V == Units(s, a)
             b == r - n + 1
  <2>2. V = U \cup Block(f, b, r) /\ U \cap Block(f, b, r) = {} /\ IsFiniteSet(U)
    BY <1>11, <1>13
  <2>3. b \in Nat /\ r \in Nat /\ b <= r + 1
    BY <1>2, <2>1
  <2> HIDE DEF U, V, b
  <2>4. ASSUME NEW X, IsFiniteSet(X), X \cap Block(f, b, r) = {}
        PROVE  Cardinality(X \cup Block(f, b, r)) = Cardinality(X) + (r - b + 1)
    BY <2>3, <2>4, SplitCardinality
  <2>5. Cardinality(U \cup Block(f, b, r)) = Cardinality(U) + (r - b + 1)
    BY <2>2, <2>4
  <2> USE DEF U, V, b
  <2> QED
    BY <2>1, <2>2, <2>5, <1>3, <1>13, FS_CardinalityType DEF TotalMatches
<1>15. total'[s][a] = Cardinality(Units(s, a)')
  BY <1>1, <1>3, <1>9, <1>14 DEF BookTypes
<1>16. TotalsMatch'
  <2> SUFFICES ASSUME NEW t \in Side, NEW p \in Prices
               PROVE  total'[t][p] = Cardinality(Units(t, p)')
    BY DEF TotalsMatch, TotalMatches
  <2>1. CASE t = s /\ p = a
    BY <2>1, <1>15
  <2>2. CASE ~(t = s /\ p = a)
    <3>1. total'[t][p] = total[t][p]
      BY <2>2, <1>3, <1>9 DEF BookTypes
    <3>2. total[t][p] = Cardinality(Units(t, p))
      BY DEF IInv, TotalsMatch, TotalMatches
    <3> QED
      BY <2>2, <3>1, <3>2, <1>10
  <2> QED
    BY <2>1, <2>2
<1>17. total' \in [Side -> [Prices -> Nat]]
  BY <1>1, <1>3, <1>9, <1>14 DEF BookTypes
<1>18. BookTypes'
  BY <1>3, <1>5, <1>7, <1>12, <1>17 DEF BookTypes
<1>19. \A t \in Side, p \in Prices : ~(t = s /\ p = a) =>
         queue'[t][p] = queue[t][p] /\ total'[t][p] = total[t][p]
  BY <1>1, <1>3, <1>7, <1>9 DEF BookTypes
<1> QED
  BY <1>5, <1>8, <1>12, <1>16, <1>18, <1>19 DEF Taken

-----------------------------------------------------------------------------
(* Adding a resting order and canceling one. *)

\* The remainder of an order that goes to the book: queues and totals still
\* match, and only that order is new.
LEMMA AddStep ==
  ASSUME IInv, pc = "level", NEW i \in OrderId, NEW o \in RestingOrder,
         i \notin DOMAIN orders, \A j \in DOMAIN orders : j < i, AddResting(i, o)
  PROVE  /\ BookTypes'
         /\ QueuesMatch' /\ TotalsMatch'
         /\ DOMAIN orders' = DOMAIN orders \cup {i}
         /\ orders'[i] = o /\ \A j \in DOMAIN orders : orders'[j] = orders[j]
         /\ levels' = [levels EXCEPT ![o.side] = @ \cup {o.price}]
         /\ \A t \in Side, p \in Prices :
              queue'[t][p] # <<>> <=> queue[t][p] # <<>> \/ (t = o.side /\ p = o.price)
         /\ view' \in [Side -> [Prices -> Nat]]
         /\ ViewFollows /\ pc' # "fifo" => ViewFollows'
<1>1. PICK s \in Side, a \in Prices : s = o.side /\ a = o.price
  BY DEF RestingOrder
<1>2. PICK r \in Nat : r = o.rem /\ r \in 1..MaxQty
  BY BoundsAssumption DEF RestingOrder
<1>3. BookTypes /\ QueueMatches(s, a) /\ TotalMatches(s, a) /\ LevelMatches(s, a)
  BY <1>1 DEF IInv, TypeOK, BookTypes, QueuesMatch, TotalsMatch, LevelsMatch
<1>4. a \notin levels[s] => queue[s][a] = <<>> /\ total[s][a] = 0
  BY <1>1, <1>3, EmptyLevel DEF LevelMatches
<1>5. /\ orders' = [j \in DOMAIN orders \cup {i} |-> IF j = i THEN o ELSE orders[j]]
      /\ levels' = [levels EXCEPT ![s] = @ \cup {a}]
      /\ queue' = [queue EXCEPT ![s][a] = Append(queue[s][a], i)]
      /\ total' = [total EXCEPT ![s][a] = total[s][a] + r]
      /\ view' = [view EXCEPT ![s][a] = total[s][a] + r]
  BY <1>1, <1>2, <1>4 DEF AddResting, BookDelta
<1>6. queue[s][a] \in Seq(OrderId) /\ total[s][a] \in Nat
  BY <1>1, <1>3 DEF BookTypes
<1>7. \A j \in ToSet(queue[s][a]) : j < i
  BY <1>3 DEF QueueMatches, OrdersAt
<1>8. /\ Append(queue[s][a], i) \in Seq(OrderId) /\ Append(queue[s][a], i) # <<>>
      /\ OldestFirst(Append(queue[s][a], i))
      /\ ToSet(Append(queue[s][a], i)) = OrdersAt(s, a) \cup {i}
  BY <1>3, <1>6, <1>7, PushQueue DEF QueueMatches
<1>9. /\ DOMAIN orders' = DOMAIN orders \cup {i} /\ orders'[i] = o
      /\ \A j \in DOMAIN orders : orders'[j] = orders[j]
      /\ orders' \in [DOMAIN orders' -> RestingOrder]
  BY <1>3, <1>5 DEF BookTypes
<1>10. \A t \in Side, p \in Prices :
         OrdersAt(t, p)' = IF t = s /\ p = a THEN OrdersAt(s, a) \cup {i} ELSE OrdersAt(t, p)
  BY <1>1, <1>9 DEF OrdersAt
<1>11. /\ queue' \in [Side -> [Prices -> Seq(OrderId)]]
       /\ \A t \in Side, p \in Prices :
            queue'[t][p] = IF t = s /\ p = a THEN Append(queue[s][a], i) ELSE queue[t][p]
  BY <1>1, <1>3, <1>5, <1>8 DEF BookTypes
<1>12. QueuesMatch'
  <2> SUFFICES ASSUME NEW t \in Side, NEW p \in Prices
               PROVE  ToSet(queue'[t][p]) = OrdersAt(t, p)' /\ OldestFirst(queue'[t][p])
    BY DEF QueuesMatch, QueueMatches
  <2>1. QueueMatches(t, p)
    BY DEF IInv, QueuesMatch
  <2> QED
    BY <2>1, <1>8, <1>10, <1>11 DEF QueueMatches
<1>13. \A t \in Side, p \in Prices : ~(t = s /\ p = a) => Units(t, p)' = Units(t, p)
  <2> SUFFICES ASSUME NEW t \in Side, NEW p \in Prices, ~(t = s /\ p = a)
               PROVE  Units(t, p)' = Units(t, p)
    OBVIOUS
  <2>1. OrdersAt(t, p)' = OrdersAt(t, p)
    BY <1>10
  <2>2. \A j \in OrdersAt(t, p) : orders'[j].rem = orders[j].rem
    BY <1>9 DEF OrdersAt
  <2> QED
    BY <2>1, <2>2 DEF Units
<1>14. /\ Units(s, a)' = Units(s, a) \cup Block(i, 1, r)
       /\ Units(s, a) \cap Block(i, 1, r) = {}
  <2>1. /\ \A u \in Units(s, a)' : u = <<u[1], u[2]>>
        /\ \A j, m : <<j, m>> \in Units(s, a)' <=>
             j \in OrdersAt(s, a)' /\ m \in 1..MaxQty /\ m <= orders'[j].rem
    BY DEF Units
  <2>2. \A u \in Block(i, 1, r) : u = <<u[1], u[2]>>
    BY DEF Block
  <2>3. \A j, m : <<j, m>> \in Block(i, 1, r) <=> j = i /\ m \in 1..r
    BY DEF Block
  <2>4. ASSUME NEW j, NEW m
        PROVE  /\ <<j, m>> \in Units(s, a)' <=>
                    <<j, m>> \in Units(s, a) \/ <<j, m>> \in Block(i, 1, r)
               /\ ~(<<j, m>> \in Units(s, a) /\ <<j, m>> \in Block(i, 1, r))
    <3>1. CASE j # i
      <4>1. j \in OrdersAt(s, a)' <=> j \in OrdersAt(s, a)
        BY <3>1, <1>10
      <4>2. j \in OrdersAt(s, a) => orders'[j].rem = orders[j].rem
        BY <1>9 DEF OrdersAt
      <4> QED
        BY <3>1, <4>1, <4>2, <2>1, <2>3, UnitsMembers
    <3>2. CASE j = i
      <4>1. j \notin OrdersAt(s, a) /\ j \in OrdersAt(s, a)' /\ orders'[j].rem = r
        BY <3>2, <1>2, <1>9, <1>10 DEF OrdersAt
      <4>2. <<j, m>> \in Units(s, a)' <=> m \in 1..r
        BY <4>1, <2>1, <1>2, BoundsAssumption
      <4> QED
        BY <3>2, <4>1, <4>2, <2>3, UnitsMembers
    <3> QED
      BY <3>1, <3>2
  <2>5. \A u \in Units(s, a) : u = <<u[1], u[2]>>
    BY UnitsMembers
  <2> QED
    BY <2>1, <2>2, <2>4, <2>5
<1>15. Cardinality(Units(s, a)') = total[s][a] + r
  <2>1. IsFiniteSet(Units(s, a)) /\ total[s][a] = Cardinality(Units(s, a))
    BY <1>1, <1>3, UnitsFinite DEF TotalMatches
  <2>2. ASSUME NEW X, IsFiniteSet(X), X \cap Block(i, 1, r) = {}
        PROVE  Cardinality(X \cup Block(i, 1, r)) = Cardinality(X) + r
    BY <2>2, <1>2, GrowByOrder
  <2>3. Cardinality(Units(s, a) \cup Block(i, 1, r)) = Cardinality(Units(s, a)) + r
    BY <2>1, <2>2, <1>14
  <2> QED
    BY <2>1, <2>3, <1>2, <1>6, <1>14
<1>16. total' \in [Side -> [Prices -> Nat]] /\ total'[s][a] = total[s][a] + r
  BY <1>1, <1>2, <1>3, <1>5, <1>6 DEF BookTypes
<1>17. TotalsMatch'
  <2> SUFFICES ASSUME NEW t \in Side, NEW p \in Prices
               PROVE  total'[t][p] = Cardinality(Units(t, p)')
    BY DEF TotalsMatch, TotalMatches
  <2>1. CASE t = s /\ p = a
    BY <2>1, <1>15, <1>16
  <2>2. CASE ~(t = s /\ p = a)
    <3>1. total'[t][p] = total[t][p]
      BY <2>2, <1>3, <1>5 DEF BookTypes
    <3>2. total[t][p] = Cardinality(Units(t, p))
      BY DEF IInv, TotalsMatch, TotalMatches
    <3> QED
      BY <2>2, <3>1, <3>2, <1>13
  <2> QED
    BY <2>1, <2>2
<1>18. levels' \in [Side -> SUBSET Prices]
  BY <1>1, <1>3, <1>5 DEF BookTypes
<1>19. BookTypes'
  BY <1>3, <1>9, <1>11, <1>16, <1>18 DEF BookTypes
<1>20. view' \in [Side -> [Prices -> Nat]]
  <2>1. view \in [Side -> [Prices -> Nat]] /\ total[s][a] + r \in Nat
    BY <1>2, <1>6 DEF IInv, TypeOK
  <2> QED
    BY <2>1, <1>1, <1>5
<1>21. ASSUME ViewFollows, pc' # "fifo", NEW t \in Side, NEW p \in Prices
       PROVE  view'[t][p] = IF p \in levels'[t] THEN total'[t][p] ELSE 0
  <2>1. view[t][p] = IF p \in levels[t] THEN total[t][p] ELSE 0
    BY <1>21 DEF ViewFollows
  <2>2. CASE t = s /\ p = a
    <3>1. view' = [view EXCEPT ![s][a] = total'[s][a]] /\ view \in [Side -> [Prices -> Nat]]
      BY <1>5, <1>16 DEF IInv, TypeOK
    <3>2. a \in levels'[s]
      BY <1>1, <1>3, <1>5 DEF BookTypes
    <3> QED
      BY <2>2, <3>1, <3>2, <1>1
  <2>3. CASE ~(t = s /\ p = a)
    <3>1. total'[t][p] = total[t][p] /\ (p \in levels'[t] <=> p \in levels[t])
      BY <2>3, <1>1, <1>3, <1>5 DEF BookTypes
    <3>2. view'[t][p] = view[t][p]
      BY <2>3, <1>1, <1>5 DEF IInv, TypeOK
    <3> QED
      BY <2>1, <3>1, <3>2
  <2> QED
    BY <2>2, <2>3
<1>22. \A t \in Side, p \in Prices :
         queue'[t][p] # <<>> <=> queue[t][p] # <<>> \/ (t = o.side /\ p = o.price)
  BY <1>1, <1>8, <1>11
<1>23. levels' = [levels EXCEPT ![o.side] = @ \cup {o.price}]
  BY <1>1, <1>5
<1>24. ViewFollows /\ pc' # "fifo" => ViewFollows'
  BY <1>21 DEF ViewFollows
<1> QED
  BY <1>9, <1>12, <1>17, <1>19, <1>20, <1>22, <1>23, <1>24

\* A canceled order leaves the book and nothing else changes in it.
LEMMA CancelStep ==
  ASSUME IInv, NEW i \in DOMAIN orders, CancelOrder(i)
  PROVE  /\ BookTypes'
         /\ QueuesMatch' /\ TotalsMatch' /\ LevelsMatch'
         /\ DOMAIN orders' = DOMAIN orders \ {i}
         /\ \A j \in DOMAIN orders' : orders'[j] = orders[j]
         /\ view' \in [Side -> [Prices -> Nat]] /\ ViewFollows'
<1>1. PICK s \in Side, a \in Prices : s = orders[i].side /\ a = orders[i].price
  BY DEF IInv, TypeOK, RestingOrder
<1>2. PICK r \in Nat : r = orders[i].rem /\ r \in 1..MaxQty
  <2>1. orders[i] \in RestingOrder
    BY DEF IInv, TypeOK
  <2>2. orders[i].rem \in 1..MaxQty
    BY <2>1 DEF RestingOrder
  <2> QED
    BY <2>2, BoundsAssumption
<1>3. BookTypes /\ QueueMatches(s, a) /\ TotalMatches(s, a)
  BY <1>1 DEF IInv, TypeOK, BookTypes, QueuesMatch, TotalsMatch
<1>4. PICK k \in DOMAIN queue[s][a] :
        /\ queue[s][a][k] = i
        /\ k = CHOOSE j \in DOMAIN queue[s][a] : queue[s][a][j] = i
  <2>1. i \in ToSet(queue[s][a])
    BY <1>1, <1>3 DEF QueueMatches, OrdersAt
  <2> QED
    BY <2>1 DEF ToSet
<1> DEFINE q == RemoveAt(queue[s][a], k)
           left == total[s][a] - r
<1>5. /\ orders' = [j \in DOMAIN orders \ {i} |-> orders[j]]
      /\ queue' = [queue EXCEPT ![s][a] = q]
      /\ total' = [total EXCEPT ![s][a] = left]
      /\ levels' = [levels EXCEPT ![s] = IF left = 0 THEN @ \ {a} ELSE @]
      /\ view' = [view EXCEPT ![s][a] = left]
      /\ pc = "idle" /\ pc' = pc /\ at' = at
  BY <1>1, <1>2, <1>4 DEF CancelOrder, BookDelta, Forget
<1>6. queue[s][a] \in Seq(OrderId) /\ total[s][a] \in Nat
  BY <1>1, <1>3 DEF BookTypes
<1>7. q \in Seq(OrderId) /\ OldestFirst(q) /\ ToSet(q) = OrdersAt(s, a) \ {i}
  BY <1>3, <1>4, <1>6, DeleteFromQueue DEF QueueMatches
<1> HIDE DEF q, left
<1>8. /\ DOMAIN orders' = DOMAIN orders \ {i}
      /\ \A j \in DOMAIN orders' : orders'[j] = orders[j]
      /\ orders' \in [DOMAIN orders' -> RestingOrder]
  BY <1>3, <1>5 DEF BookTypes
<1>9. \A t \in Side, p \in Prices :
        OrdersAt(t, p)' = IF t = s /\ p = a THEN OrdersAt(s, a) \ {i} ELSE OrdersAt(t, p)
  BY <1>1, <1>8 DEF OrdersAt
<1>10. /\ queue' \in [Side -> [Prices -> Seq(OrderId)]]
       /\ \A t \in Side, p \in Prices :
            queue'[t][p] = IF t = s /\ p = a THEN q ELSE queue[t][p]
  BY <1>1, <1>3, <1>5, <1>7 DEF BookTypes
<1>11. QueuesMatch'
  <2> SUFFICES ASSUME NEW t \in Side, NEW p \in Prices
               PROVE  ToSet(queue'[t][p]) = OrdersAt(t, p)' /\ OldestFirst(queue'[t][p])
    BY DEF QueuesMatch, QueueMatches
  <2>1. QueueMatches(t, p)
    BY DEF IInv, QueuesMatch
  <2> QED
    BY <2>1, <1>7, <1>9, <1>10 DEF QueueMatches
<1>12. \A t \in Side, p \in Prices : ~(t = s /\ p = a) => Units(t, p)' = Units(t, p)
  <2> SUFFICES ASSUME NEW t \in Side, NEW p \in Prices, ~(t = s /\ p = a)
               PROVE  Units(t, p)' = Units(t, p)
    OBVIOUS
  <2>1. OrdersAt(t, p)' = OrdersAt(t, p) /\ i \notin OrdersAt(t, p)
    BY <1>1, <1>9 DEF OrdersAt
  <2>2. \A j \in OrdersAt(t, p) : orders'[j].rem = orders[j].rem
    BY <2>1, <1>8 DEF OrdersAt
  <2> QED
    BY <2>1, <2>2 DEF Units
<1>13. /\ Units(s, a) = Units(s, a)' \cup Block(i, 1, r)
       /\ Units(s, a)' \cap Block(i, 1, r) = {}
  <2>1. /\ \A u \in Units(s, a)' : u = <<u[1], u[2]>>
        /\ \A j, m : <<j, m>> \in Units(s, a)' <=>
             j \in OrdersAt(s, a)' /\ m \in 1..MaxQty /\ m <= orders'[j].rem
    BY DEF Units
  <2>2. \A u \in Block(i, 1, r) : u = <<u[1], u[2]>>
    BY DEF Block
  <2>3. \A j, m : <<j, m>> \in Block(i, 1, r) <=> j = i /\ m \in 1..r
    BY DEF Block
  <2>4. ASSUME NEW j, NEW m
        PROVE  /\ <<j, m>> \in Units(s, a) <=>
                    <<j, m>> \in Units(s, a)' \/ <<j, m>> \in Block(i, 1, r)
               /\ ~(<<j, m>> \in Units(s, a)' /\ <<j, m>> \in Block(i, 1, r))
    <3>1. CASE j # i
      <4>1. j \in OrdersAt(s, a)' <=> j \in OrdersAt(s, a)
        BY <3>1, <1>9
      <4>2. j \in OrdersAt(s, a) => orders'[j].rem = orders[j].rem
        BY <3>1, <1>8 DEF OrdersAt
      <4> QED
        BY <3>1, <4>1, <4>2, <2>1, <2>3, UnitsMembers
    <3>2. CASE j = i
      <4>1. j \in OrdersAt(s, a) /\ j \notin OrdersAt(s, a)' /\ orders[j].rem = r
        BY <3>2, <1>1, <1>2, <1>9 DEF OrdersAt
      <4>2. <<j, m>> \in Units(s, a) <=> m \in 1..r
        BY <4>1, <1>2, UnitsMembers, BoundsAssumption
      <4> QED
        BY <3>2, <4>1, <4>2, <2>1, <2>3
    <3> QED
      BY <3>1, <3>2
  <2>5. \A u \in Units(s, a) : u = <<u[1], u[2]>>
    BY UnitsMembers
  <2> QED
    BY <2>1, <2>2, <2>4, <2>5
<1>14. left = Cardinality(Units(s, a)') /\ left \in Nat
  <2>1. IsFiniteSet(Units(s, a)) /\ total[s][a] = Cardinality(Units(s, a))
    BY <1>1, <1>3, UnitsFinite DEF TotalMatches
  <2>2. Units(s, a)' \in SUBSET Units(s, a)
    BY <1>13
  <2>3. IsFiniteSet(Units(s, a)')
    BY <2>1, <2>2, FS_Subset
  <2>4. Cardinality(Units(s, a)') \in Nat
    BY <2>3, FS_CardinalityType
  <2>5. ASSUME NEW X, IsFiniteSet(X), X \cap Block(i, 1, r) = {}
        PROVE  Cardinality(X \cup Block(i, 1, r)) = Cardinality(X) + r
    BY <2>5, <1>2, GrowByOrder
  <2>6. Cardinality(Units(s, a)' \cup Block(i, 1, r)) = Cardinality(Units(s, a)') + r
    BY <2>3, <2>5, <1>13
  <2> QED
    BY <2>1, <2>4, <2>6, <1>2, <1>6, <1>13 DEF left
<1>15. total' \in [Side -> [Prices -> Nat]] /\ total'[s][a] = left
  BY <1>1, <1>3, <1>5, <1>14 DEF BookTypes
<1>16. TotalsMatch'
  <2> SUFFICES ASSUME NEW t \in Side, NEW p \in Prices
               PROVE  total'[t][p] = Cardinality(Units(t, p)')
    BY DEF TotalsMatch, TotalMatches
  <2>1. CASE t = s /\ p = a
    BY <2>1, <1>14, <1>15
  <2>2. CASE ~(t = s /\ p = a)
    <3>1. total'[t][p] = total[t][p]
      BY <2>2, <1>3, <1>5 DEF BookTypes
    <3>2. total[t][p] = Cardinality(Units(t, p))
      BY DEF IInv, TotalsMatch, TotalMatches
    <3> QED
      BY <2>2, <3>1, <3>2, <1>12
  <2> QED
    BY <2>1, <2>2
<1>17. levels' \in [Side -> SUBSET Prices]
  BY <1>1, <1>3, <1>5 DEF BookTypes
<1>18. BookTypes'
  BY <1>3, <1>8, <1>10, <1>15, <1>17 DEF BookTypes
<1>19. left = 0 <=> q = <<>>
  <2>1. left = 0 <=> Units(s, a)' = {}
    <3>1. IsFiniteSet(Units(s, a)')
      BY <1>1, <1>3, <1>13, UnitsFinite, FS_Subset
    <3>2. \A X : IsFiniteSet(X) => (Cardinality(X) = 0 <=> X = {})
      BY FS_EmptySet
    <3> QED
      BY <3>1, <3>2, <1>14
  <2>2. Units(s, a)' = {} <=> OrdersAt(s, a)' = {}
    <3>1. ASSUME NEW j \in OrdersAt(s, a)'
          PROVE  <<j, 1>> \in Units(s, a)'
      <4>1. j \in DOMAIN orders' /\ orders'[j] \in RestingOrder
        BY <1>8 DEF OrdersAt
      <4>2. orders'[j].rem \in 1..MaxQty
        BY <4>1 DEF RestingOrder
      <4> QED
        BY <3>1, <4>2, BoundsAssumption DEF Units
    <3> QED
      BY <3>1 DEF Units
  <2>3. q = <<>> <=> OrdersAt(s, a)' = {}
    BY <1>1, <1>7, <1>9, EmptyQueue
  <2> QED
    BY <2>1, <2>2, <2>3
<1>20. LevelsMatch'
  <2> SUFFICES ASSUME NEW t \in Side, NEW p \in Prices
               PROVE  queue'[t][p] # <<>> <=> p \in levels'[t]
    BY DEF LevelsMatch, LevelMatches
  <2>1. queue[t][p] # <<>> <=> p \in levels[t]
    BY <1>5 DEF IInv, LevelsMatch, LevelMatches
  <2>2. CASE t = s /\ p = a
    <3>1. queue[s][a] # <<>>
      BY <1>4
    <3>2. a \in levels'[s] <=> left # 0
      BY <2>1, <2>2, <3>1, <1>1, <1>3, <1>5 DEF BookTypes
    <3> QED
      BY <2>2, <3>2, <1>1, <1>10, <1>19
  <2>3. CASE ~(t = s /\ p = a)
    <3>1. p \in levels'[t] <=> p \in levels[t]
      BY <2>3, <1>1, <1>3, <1>5 DEF BookTypes
    <3> QED
      BY <2>1, <2>3, <3>1, <1>10
  <2> QED
    BY <2>2, <2>3
<1>21. view' \in [Side -> [Prices -> Nat]]
  BY <1>1, <1>5, <1>14 DEF IInv, TypeOK
<1>22. ASSUME NEW t \in Side, NEW p \in Prices
       PROVE  view'[t][p] = IF p \in levels'[t] THEN total'[t][p] ELSE 0
  <2>1. view[t][p] = IF p \in levels[t] THEN total[t][p] ELSE 0
    BY <1>5 DEF IInv, ViewFollows
  <2>2. CASE t = s /\ p = a
    <3>1. view'[s][a] = left /\ (a \in levels'[s] => left # 0)
      BY <1>1, <1>3, <1>5 DEF BookTypes, IInv, TypeOK
    <3>2. left # 0 => a \in levels'[s]
      BY <1>1, <1>11, <1>15, <1>19, <1>20, <1>10 DEF LevelsMatch, LevelMatches
    <3> QED
      BY <2>2, <3>1, <3>2, <1>15
  <2>3. CASE ~(t = s /\ p = a)
    <3>1. total'[t][p] = total[t][p] /\ (p \in levels'[t] <=> p \in levels[t])
      BY <2>3, <1>1, <1>3, <1>5 DEF BookTypes
    <3>2. view'[t][p] = view[t][p]
      BY <2>3, <1>1, <1>5 DEF IInv, TypeOK
    <3> QED
      BY <2>1, <3>1, <3>2
  <2> QED
    BY <2>2, <2>3
<1> QED
  BY <1>8, <1>11, <1>16, <1>18, <1>20, <1>21, <1>22 DEF ViewFollows

-----------------------------------------------------------------------------
(* The best price of a side exists. *)

LEMMA BestExists ==
  ASSUME NEW s \in Side, NEW T \in SUBSET Prices, T # {}
  PROVE  \E p \in T : \A q \in T : AsGood(s, p, q)
<1> DEFINE B(p) == {q \in T : ~AsGood(s, p, q)}
           F == {B(p) : p \in T}
<1>1. IsWellFoundedOn(StrictSubsetOrdering(Prices), FiniteSubsetsOf(Prices))
  BY FS_StrictSubsetOrderingWellFounded
<1>2. F \subseteq FiniteSubsetsOf(Prices) /\ F # {}
  <2>1. \A X \in SUBSET Prices : IsFiniteSet(X)
    BY PricesAssumption, FS_Subset
  <2> QED
    BY <2>1 DEF FiniteSubsetsOf
<1>3. PICK X \in F : \A Y \in F : ~(<<Y, X>> \in StrictSubsetOrdering(Prices))
  <2> HIDE DEF F
  <2> QED
    BY <1>1, <1>2, WFMin
<1>4. PICK p \in T : X = B(p)
  OBVIOUS
<1>5. ASSUME NEW q \in T, ~AsGood(s, p, q)
      PROVE  FALSE
  <2>1. p \in Nat /\ \A x \in T : x \in Nat
    BY PricesAssumption
  <2>2. \A x \in T : AsGood(s, q, q) /\ (AsGood(s, p, x) => AsGood(s, q, x))
    BY <1>5, <2>1 DEF AsGood
  <2>4. B(q) \subseteq B(p) /\ q \in B(p) /\ q \notin B(q)
    BY <1>5, <2>2
  <2>3. <<B(q), B(p)>> \in StrictSubsetOrdering(Prices)
    BY <2>4 DEF StrictSubsetOrdering
  <2> QED
    BY <2>3, <1>3, <1>4
<1> QED
  BY <1>5

LEMMA BestPriceIsBest ==
  ASSUME BookTypes, NEW s \in Side, levels[s] # {}
  PROVE  /\ BestPrice(s) \in levels[s] /\ BestPrice(s) \in Prices
         /\ \A q \in levels[s] : AsGood(s, BestPrice(s), q)
<1>1. levels[s] \in SUBSET Prices
  BY DEF BookTypes
<1>2. \E p \in levels[s] : \A q \in levels[s] : AsGood(s, p, q)
  BY <1>1, BestExists
<1> QED
  BY <1>1, <1>2 DEF BestPrice

-----------------------------------------------------------------------------
(* Every step keeps the invariant. *)

\* TypeOK without the book.
CallTypes ==
  /\ halted \in BOOLEAN
  /\ pc \in {"idle", "level", "fifo"}
  /\ IF pc = "idle" THEN taker = NoTaker ELSE taker \in Taker
  /\ IF pc = "fifo" THEN at \in Prices ELSE at = 0
  /\ nextId \in 1..(MaxOrders + 1)
  /\ view \in [Side -> [Prices -> Nat]]
  /\ told \in [OrderId -> 0..MaxQty]

LEMMA TypeParts ==
  /\ TypeOK <=> BookTypes /\ CallTypes
  /\ TypeOK' <=> BookTypes' /\ CallTypes'
BY DEF TypeOK, BookTypes, CallTypes

\* A step that leaves the book alone keeps what is said of the book alone.
LEMMA SameBook ==
  ASSUME IInv, UNCHANGED book
  PROVE  BookTypes' /\ QueuesMatch' /\ TotalsMatch' /\ BookUncrossed'
<1>1. orders' = orders /\ levels' = levels /\ queue' = queue /\ total' = total
  BY DEF book
<1>2. BookTypes'
  BY <1>1, TypeParts DEF BookTypes, IInv
<1>3. \A s, p : OrdersAt(s, p)' = OrdersAt(s, p) /\ Units(s, p)' = Units(s, p)
  BY <1>1 DEF OrdersAt, Units
<1>4. QueuesMatch' /\ TotalsMatch'
  BY <1>1, <1>3 DEF IInv, QueuesMatch, TotalsMatch, QueueMatches, TotalMatches
<1>5. BookUncrossed'
  BY <1>1 DEF IInv, BookUncrossed
<1> QED
  BY <1>2, <1>4, <1>5

\* A step that only removes or shrinks orders keeps the book uncrossed.
LEMMA StillUncrossed ==
  ASSUME BookUncrossed, DOMAIN orders' \subseteq DOMAIN orders,
         \A i \in DOMAIN orders' :
           orders'[i].side = orders[i].side /\ orders'[i].price = orders[i].price
  PROVE  BookUncrossed'
BY DEF BookUncrossed

\* Any resting order's price is a level of its side, and the other way round,
\* except for the level being matched.
LEMMA OrderHasLevel ==
  ASSUME IInv, NEW i \in DOMAIN orders
  PROVE  /\ orders[i].side \in Side /\ orders[i].price \in Prices
         /\ orders[i].price \in levels[orders[i].side]
<1> DEFINE s == orders[i].side
           p == orders[i].price
<1>1. orders[i] \in RestingOrder
  BY DEF IInv, TypeOK
<1>2. s \in Side /\ p \in Prices /\ i \in OrdersAt(s, p)
  BY <1>1 DEF RestingOrder, OrdersAt
<1>3. QueueMatches(s, p) /\ LevelMatches(s, p) /\ queue[s][p] \in Seq(OrderId)
  BY <1>2 DEF IInv, QueuesMatch, LevelsMatch, TypeOK
<1>4. queue[s][p] # <<>>
  BY <1>2, <1>3, EmptyQueue DEF QueueMatches
<1> QED
  BY <1>2, <1>3, <1>4 DEF LevelMatches

LEMMA InitInv == Init => IInv
<1> SUFFICES ASSUME Init
             PROVE  IInv
  OBVIOUS
<1>1. DOMAIN orders = {}
  BY DEF Init
<1>2. TypeOK
  <2>1. BookTypes
    BY <1>1 DEF Init, BookTypes
  <2>2. nextId \in 1..(MaxOrders + 1) /\ 0 \in 0..MaxQty
    BY BoundsAssumption DEF Init
  <2>3. view \in [Side -> [Prices -> Nat]]
    BY DEF Init
  <2>4. told \in [OrderId -> 0..MaxQty]
    BY <2>2 DEF Init
  <2>5. CallTypes
    BY <2>2, <2>3, <2>4 DEF Init, CallTypes
  <2> QED
    BY <2>1, <2>5, TypeParts
<1>3. \A s \in Side, p \in Prices : OrdersAt(s, p) = {} /\ Units(s, p) = {}
  BY <1>1 DEF OrdersAt, Units
<1>4. QueuesMatch
  BY <1>3 DEF Init, QueuesMatch, QueueMatches, OldestFirst, ToSet
<1>5. TotalsMatch
  BY <1>3, FS_EmptySet DEF Init, TotalsMatch, TotalMatches
<1>6. LevelsMatch
  BY DEF Init, LevelsMatch, LevelMatches
<1>7. BookUncrossed /\ LoopFacts
  BY <1>1 DEF BookUncrossed, LoopFacts, Init
<1>8. ViewFollows
  BY DEF Init, ViewFollows
<1> QED
  BY <1>2, <1>4, <1>5, <1>6, <1>7, <1>8 DEF IInv

LEMMA RejectInv ==
  ASSUME IInv, NEW o \in Submission, Reject(o)
  PROVE  IInv'
<1>1. /\ UNCHANGED <<halted, book, pc, taker, at, view, told>>
      /\ nextId' = nextId + 1 /\ nextId <= MaxOrders
  BY DEF Reject, readers
<1>2. BookTypes' /\ QueuesMatch' /\ TotalsMatch' /\ BookUncrossed'
  BY <1>1, SameBook
<1>3. CallTypes /\ LoopFacts /\ DOMAIN orders \subseteq Nat /\ nextId \in Nat
  BY TypeParts, BoundsAssumption DEF IInv, CallTypes, BookTypes, OrderId
<1>4. CallTypes'
  BY <1>1, <1>3, BoundsAssumption DEF CallTypes
<1>5. pc = "idle"
  BY DEF Reject
<1>6. LoopFacts'
  BY <1>1, <1>3, <1>5 DEF LoopFacts, book
<1>7. LevelsMatch' /\ ViewFollows'
  BY <1>1, <1>5 DEF IInv, LevelsMatch, LevelMatches, ViewFollows, book
<1> QED
  BY <1>2, <1>4, <1>6, <1>7, TypeParts DEF IInv

LEMMA AcceptInv ==
  ASSUME IInv, NEW o \in Submission, Accept(o)
  PROVE  IInv'
<1>1. /\ UNCHANGED <<halted, book, at, view>> /\ pc = "idle" /\ pc' = "level"
      /\ nextId' = nextId + 1 /\ nextId <= MaxOrders
      /\ taker' = [id |-> nextId, side |-> o.side, type |-> o.type, price |-> o.price,
                   rem |-> o.qty, tif |-> o.tif, pid |-> o.pid, stp |-> o.stp]
      /\ told' = [told EXCEPT ![nextId] = o.qty]
  BY DEF Accept
<1>2. BookTypes' /\ QueuesMatch' /\ TotalsMatch' /\ BookUncrossed'
  BY <1>1, SameBook
<1>3. CallTypes /\ BookTypes /\ LoopFacts /\ nextId \in OrderId /\ nextId \in Nat
  BY <1>1, TypeParts, BoundsAssumption DEF IInv, CallTypes, OrderId
<1>4. /\ o.qty \in 0..MaxQty /\ o.side \in Side /\ o.type \in {"LIMIT", "MARKET"}
      /\ o.price \in Prices \cup {0} /\ o.tif \in Tifs /\ o.pid \in Pids /\ o.stp \in Policies
      /\ o.type = "LIMIT" => o.price \in Prices
  BY DEF Submission
<1>5. taker' \in Taker
  BY <1>1, <1>3, <1>4 DEF Taker
<1>6. CallTypes'
  BY <1>1, <1>3, <1>4, <1>5, BoundsAssumption DEF CallTypes
<1>7. \A i \in DOMAIN orders : i \in OrderId /\ i \in Nat /\ i < nextId
  BY <1>3, BoundsAssumption DEF LoopFacts, BookTypes, OrderId
<1>8. told'[nextId] = o.qty /\ \A i \in DOMAIN orders : told'[i] = told[i]
  BY <1>1, <1>3, <1>7 DEF CallTypes
<1>9. LoopFacts'
  <2>1. orders' = orders
    BY <1>1 DEF book
  <2>2. \A i \in DOMAIN orders : i < nextId + 1 /\ orders[i].rem <= told'[i]
    BY <1>3, <1>7, <1>8 DEF LoopFacts
  <2>3. /\ nextId < nextId + 1 /\ nextId \notin DOMAIN orders
        /\ o.qty <= told'[nextId]
        /\ \A i \in DOMAIN orders : i < nextId
    BY <1>3, <1>4, <1>7, <1>8, BoundsAssumption
  <2> QED
    BY <2>1, <2>2, <2>3, <1>1, <1>4 DEF LoopFacts
<1>10. LevelsMatch' /\ ViewFollows'
  BY <1>1 DEF IInv, LevelsMatch, LevelMatches, ViewFollows, book
<1> QED
  BY <1>2, <1>6, <1>9, <1>10, TypeParts DEF IInv

LEMMA EnterLevelInv ==
  ASSUME IInv, EnterLevel
  PROVE  IInv'
<1> DEFINE s == Opposite(taker.side)
<1>1. /\ UNCHANGED <<halted, book, taker, nextId, view, told>>
      /\ pc = "level" /\ pc' = "fifo" /\ at' = BestPrice(s) /\ MoreToMatch
  BY DEF EnterLevel, readers
<1>2. BookTypes' /\ QueuesMatch' /\ TotalsMatch' /\ BookUncrossed'
  BY <1>1, SameBook
<1>3. CallTypes /\ BookTypes /\ LoopFacts
  BY TypeParts DEF IInv
<1>4. s \in Side /\ levels[s] # {}
  BY <1>1, <1>3 DEF CallTypes, Taker, Opposite, Side, MoreToMatch
<1>5. /\ at' \in levels[s] /\ at' \in Prices
      /\ \A q \in levels[s] : AsGood(s, at', q)
  BY <1>1, <1>3, <1>4, BestPriceIsBest
<1>6. CallTypes'
  BY <1>1, <1>3, <1>5 DEF CallTypes
<1>7. Crosses(taker, at')
  BY <1>1 DEF MoreToMatch
<1>8. LoopFacts'
  BY <1>1, <1>3, <1>5, <1>7 DEF LoopFacts, book, Crosses
<1>9. LevelsMatch' /\ ViewFollows'
  BY <1>1 DEF IInv, LevelsMatch, LevelMatches, ViewFollows, book
<1> QED
  BY <1>2, <1>6, <1>8, <1>9, TypeParts DEF IInv

\* The three steps that take quantity from the front order.
LEMMA TakeInv ==
  ASSUME IInv, AtFront, NEW n \in Nat \ {0}, TakeFromFront(n),
         n <= orders[FrontId].rem,
         NEW m \in 0..taker.rem, taker' = [taker EXCEPT !.rem = m],
         UNCHANGED <<halted, pc, at, nextId, view>>,
         told' \in [OrderId -> 0..MaxQty], m <= told'[taker.id],
         orders[FrontId].rem - n <= told'[FrontId],
         \A i \in DOMAIN orders : i # FrontId => told'[i] = told[i]
  PROVE  IInv'
<1>1. PICK s \in Side, a \in Prices, f \in DOMAIN orders :
        s = Opposite(taker.side) /\ a = at /\ f = FrontId
  BY FrontOrder
<1>2. PICK r : r = orders[f].rem
  OBVIOUS
<1>3. /\ BookTypes'
      /\ QueuesMatch' /\ TotalsMatch'
      /\ DOMAIN orders' \subseteq DOMAIN orders
      /\ \A i \in DOMAIN orders' :
           /\ orders'[i].side = orders[i].side /\ orders'[i].price = orders[i].price
           /\ orders'[i].rem = IF i = f THEN r - n ELSE orders[i].rem
      /\ levels' = levels
      /\ \A t \in Side, p \in Prices : ~(t = s /\ p = a) =>
           queue'[t][p] = queue[t][p] /\ total'[t][p] = total[t][p]
  <2>1. n <= r
    BY <1>1, <1>2
  <2>2. Taken(n, s, a, f, r)
    BY <2>1, <1>1, <1>2, TakeStep
  <2> QED
    BY <2>2 DEF Taken
<1>4. CallTypes /\ LoopFacts /\ pc = "fifo" /\ taker \in Taker
  BY FrontOrder, TypeParts DEF IInv, AtFront
<1>5. /\ taker' \in Taker /\ taker'.id = taker.id /\ taker'.side = taker.side
      /\ taker'.type = taker.type /\ taker'.price = taker.price /\ taker'.rem = m
  <2>1. m \in 0..MaxQty
    BY <1>4, BoundsAssumption DEF Taker
  <2> QED
    BY <2>1, <1>4 DEF Taker
<1>6. CallTypes'
  BY <1>4, <1>5 DEF CallTypes
<1>7. BookUncrossed'
  BY <1>3, StillUncrossed DEF IInv
<1>8. LoopFacts'
  <2>1. \A i \in DOMAIN orders' : i < nextId' /\ orders'[i].rem <= told'[i]
    BY <1>1, <1>2, <1>3, <1>4 DEF LoopFacts
  <2>2. /\ taker'.id < nextId' /\ taker'.id \notin DOMAIN orders'
        /\ taker'.rem <= told'[taker'.id]
        /\ \A i \in DOMAIN orders' : i < taker'.id
        /\ taker'.type = "LIMIT" => taker'.price \in Prices
    BY <1>3, <1>4, <1>5 DEF LoopFacts
  <2>3. /\ at' \in levels'[Opposite(taker'.side)]
        /\ Crosses(taker', at')
        /\ \A p \in levels'[Opposite(taker'.side)] : AsGood(Opposite(taker'.side), at', p)
    BY <1>3, <1>4, <1>5 DEF LoopFacts, Crosses
  <2> QED
    BY <2>1, <2>2, <2>3 DEF LoopFacts
<1>9. LevelsMatch'
  <2> SUFFICES ASSUME NEW t \in Side, NEW p \in Prices
               PROVE  /\ queue'[t][p] # <<>> => p \in levels'[t]
                      /\ p \in levels'[t] => queue'[t][p] # <<>> \/ (t = s /\ p = a)
    BY <1>1, <1>4, <1>5 DEF LevelsMatch, LevelMatches
  <2>1. /\ queue[t][p] # <<>> => p \in levels[t]
        /\ p \in levels[t] => queue[t][p] # <<>> \/ (t = s /\ p = a)
    BY <1>1, <1>4 DEF IInv, LevelsMatch, LevelMatches
  <2>2. a \in levels[s]
    BY <1>1, <1>4 DEF LoopFacts
  <2>3. CASE t = s /\ p = a
    BY <2>2, <2>3, <1>3
  <2>4. CASE ~(t = s /\ p = a)
    BY <2>1, <2>4, <1>3
  <2> QED
    BY <2>3, <2>4
<1>10. ViewFollows'
  <2> SUFFICES ASSUME NEW t \in Side, NEW p \in Prices, ~(t = s /\ p = a)
               PROVE  view'[t][p] = IF p \in levels'[t] THEN total'[t][p] ELSE 0
    BY <1>1, <1>4, <1>5 DEF ViewFollows
  <2>1. view[t][p] = IF p \in levels[t] THEN total[t][p] ELSE 0
    BY <1>1 DEF IInv, ViewFollows
  <2> QED
    BY <2>1, <1>3
<1> QED
  BY <1>3, <1>6, <1>7, <1>8, <1>9, <1>10, TypeParts DEF IInv

\* What the reader of events has been told, before a step at the front.
LEMMA FrontTold ==
  ASSUME IInv, AtFront
  PROVE  /\ FrontId \in OrderId /\ taker.id \in OrderId /\ FrontId # taker.id
         /\ taker.rem \in 1..MaxQty /\ orders[FrontId].rem \in 1..MaxQty
         /\ told \in [OrderId -> 0..MaxQty] /\ DOMAIN orders \subseteq OrderId
         /\ taker.id \notin DOMAIN orders
         /\ taker.rem <= told[taker.id] /\ orders[FrontId].rem <= told[FrontId]
<1>1. /\ FrontId \in OrderId /\ FrontId \in DOMAIN orders
      /\ orders[FrontId] \in RestingOrder /\ taker \in Taker
  BY FrontOrder
<1>2. LoopFacts /\ TypeOK /\ pc = "fifo" /\ taker.rem > 0
  BY DEF IInv, AtFront
<1>3. taker.id \in OrderId /\ taker.rem \in 1..MaxQty /\ orders[FrontId].rem \in 1..MaxQty
  BY <1>1, <1>2, BoundsAssumption DEF Taker, RestingOrder
<1>4. /\ taker.rem <= told[taker.id] /\ taker.id \notin DOMAIN orders
      /\ orders[FrontId].rem <= told[FrontId]
  BY <1>1, <1>2 DEF LoopFacts
<1> QED
  BY <1>1, <1>2, <1>3, <1>4 DEF TypeOK

LEMMA FillInv ==
  ASSUME IInv, Fill
  PROVE  IInv'
<1>1. /\ AtFront /\ UNCHANGED <<halted, pc, at, nextId, view>>
      /\ LET n == Smaller(taker.rem, orders[FrontId].rem)
         IN  /\ TakeFromFront(n)
             /\ taker' = [taker EXCEPT !.rem = @ - n]
             /\ told' = [told EXCEPT ![taker.id] = @ - n, ![FrontId] = @ - n]
  BY DEF Fill
<1>2. PICK n : n = Smaller(taker.rem, orders[FrontId].rem)
  OBVIOUS
<1>3. /\ FrontId \in OrderId /\ taker.id \in OrderId /\ FrontId # taker.id
      /\ taker.rem \in 1..MaxQty /\ orders[FrontId].rem \in 1..MaxQty
      /\ told \in [OrderId -> 0..MaxQty] /\ DOMAIN orders \subseteq OrderId
      /\ taker.id \notin DOMAIN orders
      /\ taker.rem <= told[taker.id] /\ orders[FrontId].rem <= told[FrontId]
  BY <1>1, FrontTold
<1>4. n \in Nat \ {0} /\ n <= taker.rem /\ n <= orders[FrontId].rem
  BY <1>2, <1>3, BoundsAssumption DEF Smaller
<1>5. taker.rem - n \in 0..taker.rem /\ taker' = [taker EXCEPT !.rem = taker.rem - n]
  BY <1>1, <1>2, <1>3, <1>4
<1>6. told' = [told EXCEPT ![taker.id] = told[taker.id] - n, ![FrontId] = told[FrontId] - n]
  BY <1>1, <1>2, <1>3
<1>7. told[taker.id] - n \in 0..MaxQty /\ told[FrontId] - n \in 0..MaxQty
  BY <1>3, <1>4, BoundsAssumption
<1>8. /\ told' \in [OrderId -> 0..MaxQty]
      /\ told'[taker.id] = told[taker.id] - n /\ told'[FrontId] = told[FrontId] - n
      /\ \A i \in DOMAIN orders : i # FrontId => told'[i] = told[i]
  BY <1>3, <1>6, <1>7
<1>9. taker.rem - n <= told'[taker.id] /\ orders[FrontId].rem - n <= told'[FrontId]
  BY <1>3, <1>4, <1>8, BoundsAssumption
<1> QED
  BY <1>1, <1>2, <1>4, <1>5, <1>8, <1>9, TakeInv

LEMMA StpCancelOldestInv ==
  ASSUME IInv, StpCancelOldest
  PROVE  IInv'
<1>1. /\ AtFront /\ UNCHANGED <<halted, pc, taker, at, nextId, view>>
      /\ TakeFromFront(orders[FrontId].rem)
      /\ told' = [told EXCEPT ![FrontId] = 0]
  BY DEF StpCancelOldest
<1>2. /\ FrontId \in OrderId /\ taker.id \in OrderId /\ FrontId # taker.id
      /\ taker.rem \in 1..MaxQty /\ orders[FrontId].rem \in 1..MaxQty
      /\ told \in [OrderId -> 0..MaxQty] /\ DOMAIN orders \subseteq OrderId
      /\ taker.rem <= told[taker.id] /\ taker \in Taker
  BY <1>1, FrontTold, FrontOrder
<1>3. PICK n \in Nat \ {0} : n = orders[FrontId].rem
  BY <1>2, BoundsAssumption
<1>4. taker.rem \in 0..taker.rem /\ taker' = [taker EXCEPT !.rem = taker.rem]
  BY <1>1, <1>2, BoundsAssumption DEF Taker
<1>5. /\ told' \in [OrderId -> 0..MaxQty]
      /\ told'[taker.id] = told[taker.id] /\ told'[FrontId] = 0
      /\ \A i \in DOMAIN orders : i # FrontId => told'[i] = told[i]
  BY <1>1, <1>2, BoundsAssumption
<1>6. n <= orders[FrontId].rem /\ orders[FrontId].rem - n <= told'[FrontId]
  BY <1>2, <1>3, <1>5, BoundsAssumption
<1> QED
  BY <1>1, <1>2, <1>3, <1>4, <1>5, <1>6, TakeInv

LEMMA StpDecrementInv ==
  ASSUME IInv, StpDecrement
  PROVE  IInv'
<1>1. /\ AtFront /\ UNCHANGED <<halted, pc, at, nextId, view>>
      /\ LET n == Smaller(taker.rem, orders[FrontId].rem)
         IN  /\ TakeFromFront(n)
             /\ taker' = [taker EXCEPT !.rem = @ - n]
             /\ told' = [told EXCEPT
                           ![taker.id] = IF taker.rem = n THEN 0 ELSE @,
                           ![FrontId] = IF orders[FrontId].rem = n THEN 0 ELSE @]
  BY DEF StpDecrement
<1>2. PICK n : n = Smaller(taker.rem, orders[FrontId].rem)
  OBVIOUS
<1>3. /\ FrontId \in OrderId /\ taker.id \in OrderId /\ FrontId # taker.id
      /\ taker.rem \in 1..MaxQty /\ orders[FrontId].rem \in 1..MaxQty
      /\ told \in [OrderId -> 0..MaxQty] /\ DOMAIN orders \subseteq OrderId
      /\ taker.id \notin DOMAIN orders
      /\ taker.rem <= told[taker.id] /\ orders[FrontId].rem <= told[FrontId]
  BY <1>1, FrontTold
<1>4. n \in Nat \ {0} /\ n <= taker.rem /\ n <= orders[FrontId].rem
  BY <1>2, <1>3, BoundsAssumption DEF Smaller
<1>5. taker.rem - n \in 0..taker.rem /\ taker' = [taker EXCEPT !.rem = taker.rem - n]
  BY <1>1, <1>2, <1>3, <1>4
<1>6. /\ told' \in [OrderId -> 0..MaxQty]
      /\ told'[taker.id] = (IF taker.rem = n THEN 0 ELSE told[taker.id])
      /\ told'[FrontId] = (IF orders[FrontId].rem = n THEN 0 ELSE told[FrontId])
      /\ \A i \in DOMAIN orders : i # FrontId => told'[i] = told[i]
  BY <1>1, <1>2, <1>3, BoundsAssumption
<1>7. taker.rem - n <= told'[taker.id] /\ orders[FrontId].rem - n <= told'[FrontId]
  BY <1>3, <1>4, <1>6, BoundsAssumption
<1> QED
  BY <1>1, <1>2, <1>4, <1>5, <1>6, <1>7, TakeInv

LEMMA StpCancelNewestInv ==
  ASSUME IInv, StpCancelNewest
  PROVE  IInv'
<1>1. /\ AtFront /\ UNCHANGED <<halted, book, pc, at, nextId, view>>
      /\ taker' = [taker EXCEPT !.rem = 0]
      /\ told' = [told EXCEPT ![taker.id] = 0]
  BY DEF StpCancelNewest
<1>2. BookTypes' /\ QueuesMatch' /\ TotalsMatch' /\ BookUncrossed'
  BY <1>1, SameBook
<1>3. CallTypes /\ LoopFacts /\ pc = "fifo" /\ taker \in Taker
  BY <1>1, FrontOrder, TypeParts DEF IInv, AtFront
<1>4. /\ taker.id \in OrderId /\ taker.id \notin DOMAIN orders
      /\ told \in [OrderId -> 0..MaxQty] /\ 0 \in 0..MaxQty
  BY <1>1, FrontTold, BoundsAssumption
<1>5. /\ taker' \in Taker /\ taker'.id = taker.id /\ taker'.side = taker.side
      /\ taker'.type = taker.type /\ taker'.price = taker.price /\ taker'.rem = 0
  BY <1>1, <1>3, <1>4 DEF Taker
<1>6. /\ told' \in [OrderId -> 0..MaxQty] /\ told'[taker.id] = 0
      /\ \A i \in DOMAIN orders : told'[i] = told[i]
  BY <1>1, <1>3, <1>4 DEF CallTypes
<1>7. CallTypes'
  BY <1>1, <1>3, <1>5, <1>6 DEF CallTypes
<1>8. LoopFacts'
  BY <1>1, <1>3, <1>5, <1>6 DEF LoopFacts, book, Crosses
<1>9. LevelsMatch' /\ ViewFollows'
  BY <1>1, <1>5 DEF IInv, LevelsMatch, LevelMatches, ViewFollows, book
<1> QED
  BY <1>2, <1>7, <1>8, <1>9, TypeParts DEF IInv

LEMMA LeaveLevelInv ==
  ASSUME IInv, LeaveLevel
  PROVE  IInv'
<1>1. PICK s : s = Opposite(taker.side)
  OBVIOUS
<1>2. /\ pc = "fifo" /\ pc' = "level" /\ at' = 0 /\ ~AtFront
      /\ levels' = [levels EXCEPT ![s] = IF total[s][at] = 0 THEN @ \ {at} ELSE @]
      /\ view' = [view EXCEPT ![s][at] = total[s][at]]
      /\ UNCHANGED <<halted, orders, queue, total, taker, nextId, told>>
  BY <1>1 DEF LeaveLevel, CleanEmptyLevel, BookDelta
<1>3. BookTypes /\ CallTypes /\ LoopFacts
  BY TypeParts DEF IInv
<1>4. /\ taker \in Taker /\ s \in Side /\ at \in Prices /\ at \in levels[s]
  BY <1>1, <1>2, <1>3 DEF CallTypes, LoopFacts, Taker, Opposite, Side
<1>5. QueueMatches(s, at) /\ TotalMatches(s, at)
  BY <1>4 DEF IInv, QueuesMatch, TotalsMatch
<1>6. total[s][at] = 0 <=> queue[s][at] = <<>>
  BY <1>3, <1>4, <1>5, EmptyLevel
<1>7. \A t \in Side, p \in Prices :
        p \in levels'[t] <=> p \in levels[t] /\ ~(t = s /\ p = at /\ total[s][at] = 0)
  BY <1>2, <1>3, <1>4 DEF BookTypes
<1>8. BookTypes'
  BY <1>2, <1>3, <1>4 DEF BookTypes
<1>9. view' \in [Side -> [Prices -> Nat]] /\ view'[s][at] = total[s][at]
      /\ \A t \in Side, p \in Prices : ~(t = s /\ p = at) => view'[t][p] = view[t][p]
  BY <1>2, <1>3, <1>4 DEF BookTypes, CallTypes
<1>10. CallTypes'
  BY <1>2, <1>3, <1>9 DEF CallTypes
<1>11. QueuesMatch' /\ TotalsMatch'
  <2>1. \A t, p : OrdersAt(t, p)' = OrdersAt(t, p) /\ Units(t, p)' = Units(t, p)
    BY <1>2 DEF OrdersAt, Units
  <2> QED
    BY <2>1, <1>2 DEF IInv, QueuesMatch, TotalsMatch, QueueMatches, TotalMatches
<1>12. BookUncrossed'
  BY <1>2 DEF IInv, BookUncrossed
<1>13. LoopFacts'
  BY <1>2, <1>3 DEF LoopFacts
<1>14. LevelsMatch'
  <2> SUFFICES ASSUME NEW t \in Side, NEW p \in Prices
               PROVE  queue[t][p] # <<>> <=> p \in levels'[t]
    BY <1>2 DEF LevelsMatch, LevelMatches
  <2>1. /\ queue[t][p] # <<>> => p \in levels[t]
        /\ p \in levels[t] => queue[t][p] # <<>> \/ (t = s /\ p = at)
    BY <1>1 DEF IInv, LevelsMatch, LevelMatches
  <2> QED
    BY <2>1, <1>4, <1>6, <1>7
<1>15. ViewFollows'
  <2> SUFFICES ASSUME NEW t \in Side, NEW p \in Prices
               PROVE  view'[t][p] = IF p \in levels'[t] THEN total[t][p] ELSE 0
    BY <1>2 DEF ViewFollows
  <2>1. CASE t = s /\ p = at
    BY <2>1, <1>4, <1>7, <1>9
  <2>2. CASE ~(t = s /\ p = at)
    <3>1. view[t][p] = IF p \in levels[t] THEN total[t][p] ELSE 0
      BY <2>2, <1>1 DEF IInv, ViewFollows
    <3> QED
      BY <2>2, <3>1, <1>7, <1>9
  <2> QED
    BY <2>1, <2>2
<1> QED
  BY <1>8, <1>10, <1>11, <1>12, <1>13, <1>14, <1>15, TypeParts DEF IInv

\* An order rests only when it crosses nothing that rests on the other side.
LEMMA NothingToCross ==
  ASSUME IInv, pc = "level", ~MoreToMatch, taker.rem > 0, taker.type = "LIMIT",
         NEW i \in DOMAIN orders, orders[i].side = Opposite(taker.side)
  PROVE  ~AsGood(orders[i].side, orders[i].price, taker.price)
<1> DEFINE s == orders[i].side
           p == orders[i].price
<1>1. s \in Side /\ p \in Prices /\ p \in levels[s]
  BY OrderHasLevel
<1>2. BookTypes
  BY TypeParts DEF IInv
<1>3. /\ BestPrice(s) \in Prices /\ AsGood(s, BestPrice(s), p)
  BY <1>1, <1>2, BestPriceIsBest
<1>4. ~AsGood(s, BestPrice(s), taker.price)
  BY <1>1 DEF MoreToMatch, Crosses
<1>5. taker.price \in Prices
  BY DEF IInv, LoopFacts
<1>6. \A q \in Prices : q \in Nat
  BY PricesAssumption
<1> QED
  BY <1>1, <1>3, <1>4, <1>5, <1>6 DEF AsGood

LEMMA RestInv ==
  ASSUME IInv, Rest
  PROVE  IInv'
<1> DEFINE o == [side |-> taker.side, price |-> taker.price,
                 rem |-> taker.rem, pid |-> taker.pid]
<1>1. /\ pc = "level" /\ ~MoreToMatch /\ taker.rem > 0 /\ taker.type = "LIMIT"
      /\ AddResting(taker.id, o) /\ pc' = "idle" /\ taker' = NoTaker
      /\ UNCHANGED <<halted, at, nextId, told>>
  BY DEF Rest, Returned
<1>2. CallTypes /\ LoopFacts /\ taker \in Taker /\ taker.price \in Prices
  BY <1>1, TypeParts DEF IInv, CallTypes, LoopFacts
<1>3. taker.id \in OrderId /\ taker.rem \in 1..MaxQty /\ o \in RestingOrder
  BY <1>1, <1>2, BoundsAssumption DEF Taker, RestingOrder
<1>4. taker.id \notin DOMAIN orders /\ \A j \in DOMAIN orders : j < taker.id
  BY <1>1, <1>2 DEF LoopFacts
<1>5. /\ BookTypes'
      /\ QueuesMatch' /\ TotalsMatch'
      /\ DOMAIN orders' = DOMAIN orders \cup {taker.id}
      /\ orders'[taker.id] = o /\ \A j \in DOMAIN orders : orders'[j] = orders[j]
      /\ levels' = [levels EXCEPT ![o.side] = @ \cup {o.price}]
      /\ \A t \in Side, p \in Prices :
           queue'[t][p] # <<>> <=> queue[t][p] # <<>> \/ (t = o.side /\ p = o.price)
      /\ view' \in [Side -> [Prices -> Nat]]
      /\ ViewFollows /\ pc' # "fifo" => ViewFollows'
  <2> HIDE DEF o
  <2> QED
    BY <1>1, <1>3, <1>4, AddStep
<1>6. CallTypes'
  BY <1>1, <1>2, <1>5 DEF CallTypes
<1>7. ViewFollows'
  BY <1>1, <1>5 DEF IInv
<1>8. LevelsMatch'
  <2> SUFFICES ASSUME NEW t \in Side, NEW p \in Prices
               PROVE  queue'[t][p] # <<>> <=> p \in levels'[t]
    BY <1>1 DEF LevelsMatch, LevelMatches
  <2>1. queue[t][p] # <<>> <=> p \in levels[t]
    BY <1>1 DEF IInv, LevelsMatch, LevelMatches
  <2>2. p \in levels'[t] <=> p \in levels[t] \/ (t = o.side /\ p = o.price)
    BY <1>3, <1>5 DEF IInv, TypeOK
  <2> QED
    BY <2>1, <2>2, <1>5
<1>9. LoopFacts'
  BY <1>1, <1>2, <1>5 DEF LoopFacts
<1>10. BookUncrossed'
  <2> SUFFICES ASSUME NEW i \in DOMAIN orders', NEW j \in DOMAIN orders',
                      orders'[i].side = "BUY", orders'[j].side = "SELL"
               PROVE  orders'[i].price < orders'[j].price
    BY DEF BookUncrossed
  <2>1. CASE i \in DOMAIN orders /\ j \in DOMAIN orders
    BY <2>1, <1>5 DEF IInv, BookUncrossed
  <2>2. CASE i = taker.id /\ j \in DOMAIN orders
    <3>1. taker.side = "BUY" /\ orders[j].side = "SELL"
      BY <2>2, <1>5
    <3>2. ~AsGood(orders[j].side, orders[j].price, taker.price)
      BY <3>1, <2>2, <1>1, NothingToCross DEF Opposite
    <3>3. orders[j].price \in Nat /\ taker.price \in Nat
      BY <2>2, <1>2, OrderHasLevel, PricesAssumption
    <3>4. taker.price < orders[j].price
      BY <3>1, <3>2, <3>3 DEF AsGood
    <3> QED
      BY <3>4, <2>2, <1>5
  <2>3. CASE i \in DOMAIN orders /\ j = taker.id
    <3>1. taker.side = "SELL" /\ orders[i].side = "BUY"
      BY <2>3, <1>5
    <3>2. ~AsGood(orders[i].side, orders[i].price, taker.price)
      BY <3>1, <2>3, <1>1, NothingToCross DEF Opposite
    <3>3. orders[i].price \in Nat /\ taker.price \in Nat
      BY <2>3, <1>2, OrderHasLevel, PricesAssumption
    <3>4. orders[i].price < taker.price
      BY <3>1, <3>2, <3>3 DEF AsGood
    <3> QED
      BY <3>4, <2>3, <1>5
  <2>4. CASE i = taker.id /\ j = taker.id
    BY <2>4
  <2> QED
    BY <2>1, <2>2, <2>3, <2>4, <1>5
<1> QED
  BY <1>5, <1>6, <1>7, <1>8, <1>9, <1>10, TypeParts DEF IInv

\* A call that ends without touching the book.
LEMMA ReturnInv ==
  ASSUME IInv, pc = "level", Returned, UNCHANGED <<halted, book, at, nextId, view>>,
         told' \in [OrderId -> 0..MaxQty],
         \A i \in DOMAIN orders : told'[i] = told[i]
  PROVE  IInv'
<1>1. BookTypes' /\ QueuesMatch' /\ TotalsMatch' /\ BookUncrossed'
  BY SameBook
<1>2. CallTypes /\ LoopFacts /\ pc' = "idle" /\ taker' = NoTaker
  BY TypeParts DEF IInv, Returned
<1>3. CallTypes'
  BY <1>2 DEF CallTypes
<1>4. LoopFacts'
  BY <1>2 DEF LoopFacts, book
<1>5. LevelsMatch' /\ ViewFollows'
  BY <1>2 DEF IInv, LevelsMatch, LevelMatches, ViewFollows, book
<1> QED
  BY <1>1, <1>3, <1>4, <1>5, TypeParts DEF IInv

LEMMA DropInv ==
  ASSUME IInv, Drop
  PROVE  IInv'
<1>1. /\ pc = "level" /\ Returned /\ UNCHANGED <<halted, book, at, nextId, view>>
      /\ told' = [told EXCEPT ![taker.id] = 0]
  BY DEF Drop
<1>2. CallTypes /\ LoopFacts
  BY TypeParts DEF IInv
<1>3. taker.id \notin DOMAIN orders /\ taker.id \in OrderId
  BY <1>1, <1>2 DEF LoopFacts, CallTypes, Taker
<1>4. told \in [OrderId -> 0..MaxQty] /\ 0 \in 0..MaxQty
  BY <1>2, BoundsAssumption DEF CallTypes
<1>5. told' \in [OrderId -> 0..MaxQty]
  BY <1>1, <1>4
<1>6. \A i \in DOMAIN orders : told'[i] = told[i]
  <2> SUFFICES ASSUME NEW i \in DOMAIN orders
               PROVE  told'[i] = told[i]
    OBVIOUS
  <2>1. i # taker.id /\ i \in OrderId
    BY <1>3, TypeParts DEF IInv, BookTypes
  <2> QED
    BY <2>1, <1>1, <1>4
<1> QED
  BY <1>1, <1>5, <1>6, ReturnInv

LEMMA FinishInv ==
  ASSUME IInv, Finish
  PROVE  IInv'
<1>1. /\ pc = "level" /\ Returned /\ UNCHANGED <<halted, book, at, nextId, view, told>>
  BY DEF Finish, readers
<1>2. told' \in [OrderId -> 0..MaxQty]
  BY <1>1, TypeParts DEF IInv, CallTypes
<1> QED
  BY <1>1, <1>2, ReturnInv

LEMMA CancelInv ==
  ASSUME IInv, NEW i \in OrderId, CancelOrder(i)
  PROVE  IInv'
<1>1. /\ i \in DOMAIN orders /\ pc = "idle" /\ told' = [told EXCEPT ![i] = 0]
      /\ UNCHANGED <<halted, pc, taker, at, nextId>>
  BY DEF CancelOrder
<1>2. /\ BookTypes'
      /\ QueuesMatch' /\ TotalsMatch' /\ LevelsMatch'
      /\ DOMAIN orders' = DOMAIN orders \ {i}
      /\ \A j \in DOMAIN orders' : orders'[j] = orders[j]
      /\ view' \in [Side -> [Prices -> Nat]] /\ ViewFollows'
  BY <1>1, CancelStep
<1>3. CallTypes /\ LoopFacts
  BY TypeParts DEF IInv
<1>4. told' \in [OrderId -> 0..MaxQty] /\ \A j \in DOMAIN orders' : told'[j] = told[j]
  BY <1>1, <1>2, <1>3, BoundsAssumption DEF CallTypes, BookTypes
<1>5. CallTypes'
  BY <1>1, <1>2, <1>3, <1>4 DEF CallTypes
<1>6. LoopFacts'
  BY <1>1, <1>2, <1>3, <1>4 DEF LoopFacts
<1>7. BookUncrossed'
  BY <1>2, StillUncrossed DEF IInv
<1> QED
  BY <1>2, <1>5, <1>6, <1>7, TypeParts DEF IInv

\* A step that leaves everything but the halt flag.
LEMMA SameStateInv ==
  ASSUME IInv, halted' \in BOOLEAN,
         UNCHANGED <<book, pc, taker, at, nextId, readers>>
  PROVE  IInv'
<1>1. BookTypes' /\ QueuesMatch' /\ TotalsMatch' /\ BookUncrossed'
  BY SameBook
<1>2. CallTypes'
  BY TypeParts DEF IInv, CallTypes, readers
<1>3. LoopFacts'
  BY DEF IInv, LoopFacts, book, readers, Crosses
<1>4. LevelsMatch' /\ ViewFollows'
  BY DEF IInv, LevelsMatch, LevelMatches, ViewFollows, book, readers
<1> QED
  BY <1>1, <1>2, <1>3, <1>4, TypeParts DEF IInv

LEMMA NextInv ==
  ASSUME IInv, [Next]_vars
  PROVE  IInv'
<1>1. ASSUME NEW o \in Submission, Reject(o)
      PROVE  IInv'
  BY <1>1, RejectInv
<1>2. ASSUME NEW o \in Submission, Accept(o)
      PROVE  IInv'
  BY <1>2, AcceptInv
<1>3. CASE MatchStep
  BY <1>3, EnterLevelInv, LeaveLevelInv, FillInv, StpCancelNewestInv,
     StpCancelOldestInv, StpDecrementInv, RestInv, DropInv, FinishInv DEF MatchStep
<1>4. ASSUME NEW i \in OrderId, CancelOrder(i)
      PROVE  IInv'
  BY <1>4, CancelInv
<1>5. ASSUME NEW b \in BOOLEAN, SetHalted(b)
      PROVE  IInv'
  BY <1>5, SameStateInv DEF SetHalted
<1>6. CASE UNCHANGED vars
  <2>1. halted \in BOOLEAN
    BY DEF IInv, TypeOK
  <2> QED
    BY <2>1, <1>6, SameStateInv DEF vars
<1> QED
  BY <1>1, <1>2, <1>3, <1>4, <1>5, <1>6 DEF Next

-----------------------------------------------------------------------------
(* The theorems. *)

THEOREM Invariance == Spec => []IInv
<1>1. Init => IInv
  BY InitInv
<1>2. IInv /\ [Next]_vars => IInv'
  BY NextInv
<1> QED
  BY <1>1, <1>2, PTL DEF Spec

\* Every reachable state of the engine has its types, for any finite price set.
THEOREM TypeCorrect == Spec => []TypeOK
<1>1. IInv => TypeOK
  BY DEF IInv
<1> QED
  BY <1>1, Invariance, PTL

\* The book never crosses.
THEOREM NeverCrossed == Spec => []BookUncrossed
<1>1. IInv => BookUncrossed
  BY DEF IInv
<1> QED
  BY <1>1, Invariance, PTL

\* Queues, cached totals and the level dictionary agree with the order map.
THEOREM CopiesAgree == Spec => []LevelsMatchOrders
<1>1. IInv => LevelsMatchOrders
  BY DEF IInv, QueuesMatch, TotalsMatch, LevelsMatch, LevelsMatchOrders
<1> QED
  BY <1>1, Invariance, PTL

\* A reader of BookDelta events knows the depth of the book between calls.
THEOREM DepthIsKnown == Spec => []DepthViewExact
<1>1. IInv => DepthViewExact
  BY DEF IInv, ViewFollows, DepthViewExact
<1> QED
  BY <1>1, Invariance, PTL

-----------------------------------------------------------------------------
(* Price-time priority. *)

\* A step at the front consumes only the front order, which has priority.
LEMMA TakePriority ==
  ASSUME IInv, AtFront, NEW n \in Nat \ {0}, TakeFromFront(n), n <= orders[FrontId].rem
  PROVE  PriorityKept
<1>1. PICK s \in Side, a \in Prices, f \in DOMAIN orders :
        /\ s = Opposite(taker.side) /\ a = at /\ f = FrontId
        /\ f \in OrdersAt(s, a) /\ \A i \in OrdersAt(s, a) : f <= i
  BY FrontOrder
<1>2. PICK r : r = orders[f].rem
  OBVIOUS
<1>3. n <= r
  BY <1>1, <1>2
<1>4. /\ DOMAIN orders' = IF r = n THEN DOMAIN orders \ {f} ELSE DOMAIN orders
      /\ \A i \in DOMAIN orders' : orders'[i].rem = IF i = f THEN r - n ELSE orders[i].rem
  <2>1. Taken(n, s, a, f, r)
    BY <1>1, <1>2, <1>3, TakeStep
  <2> QED
    BY <2>1 DEF Taken
<1>5. /\ pc = "fifo" /\ LoopFacts /\ BookTypes
  BY TypeParts DEF IInv, AtFront
<1>6. orders[f].side = s /\ orders[f].price = a
  BY <1>1 DEF OrdersAt
<1>7. ASSUME NEW i \in DOMAIN orders, Consumed(i)
      PROVE  i = f
  <2>1. ASSUME i # f
        PROVE  FALSE
    <3>1. i \in DOMAIN orders' /\ orders'[i].rem = orders[i].rem
      BY <2>1, <1>4
    <3>2. orders[i].rem \in Int
      BY <1>5, BoundsAssumption DEF BookTypes, RestingOrder
    <3> QED
      BY <3>1, <3>2, <1>7 DEF Consumed
  <2> QED
    BY <2>1
<1>8. Crosses(taker, a)
  BY <1>1, <1>5 DEF LoopFacts
<1>9. HasPriority(f)
  <2> SUFFICES ASSUME NEW j \in DOMAIN orders, j # f, orders[j].side = s
               PROVE  ~AsGood(s, orders[j].price, a) \/ (orders[j].price = a /\ f < j)
    BY <1>6 DEF HasPriority
  <2>1. orders[j].price \in Prices /\ orders[j].price \in levels[s]
    BY OrderHasLevel
  <2>2. AsGood(s, a, orders[j].price)
    BY <2>1, <1>1, <1>5 DEF LoopFacts
  <2>3. a \in Nat /\ orders[j].price \in Nat /\ f \in Nat /\ j \in Nat
    BY <2>1, <1>1, <1>5, PricesAssumption, BoundsAssumption DEF BookTypes, OrderId
  <2>4. CASE orders[j].price = a
    <3>1. j \in OrdersAt(s, a)
      BY <2>4 DEF OrdersAt
    <3>2. f < j
      BY <3>1, <2>3, <1>1
    <3> QED
      BY <3>2, <2>4
  <2>5. CASE orders[j].price # a
    BY <2>2, <2>3, <2>5 DEF AsGood
  <2> QED
    BY <2>4, <2>5
<1> QED
  BY <1>6, <1>7, <1>8, <1>9 DEF PriorityKept

LEMMA StepPriority ==
  ASSUME IInv, Next
  PROVE  PriorityKept
<1>1. ASSUME UNCHANGED orders
      PROVE  PriorityKept
  <2>1. \A i \in DOMAIN orders : orders[i].rem \in Int
    BY BoundsAssumption DEF IInv, TypeOK, RestingOrder
  <2> QED
    BY <1>1, <2>1 DEF PriorityKept, Consumed
<1>2. ASSUME pc # "fifo"
      PROVE  PriorityKept
  BY <1>2 DEF PriorityKept, Consumed
<1>3. ASSUME AtFront, NEW n, n = Smaller(taker.rem, orders[FrontId].rem), TakeFromFront(n)
      PROVE  PriorityKept
  <2>1. taker.rem \in 1..MaxQty /\ orders[FrontId].rem \in 1..MaxQty
    BY <1>3, FrontTold
  <2>2. n \in Nat \ {0} /\ n <= orders[FrontId].rem
    BY <1>3, <2>1, BoundsAssumption DEF Smaller
  <2> QED
    BY <1>3, <2>2, TakePriority
<1>4. CASE Fill
  BY <1>3, <1>4 DEF Fill
<1>5. CASE StpDecrement
  BY <1>3, <1>5 DEF StpDecrement
<1>6. CASE StpCancelOldest
  <2>1. AtFront /\ TakeFromFront(orders[FrontId].rem)
    BY <1>6 DEF StpCancelOldest
  <2>2. PICK n \in Nat \ {0} : n = orders[FrontId].rem /\ n <= orders[FrontId].rem
    BY <2>1, FrontTold, BoundsAssumption
  <2> QED
    BY <2>1, <2>2, TakePriority
<1>7. CASE StpCancelNewest
  BY <1>1, <1>7 DEF StpCancelNewest, book
<1>8. CASE LeaveLevel
  BY <1>1, <1>8 DEF LeaveLevel
<1>9. CASE EnterLevel \/ Rest \/ Drop \/ Finish
  BY <1>2, <1>9 DEF EnterLevel, Rest, Drop, Finish
<1>10. ASSUME ~MatchStep
       PROVE  PriorityKept
  BY <1>2, <1>10 DEF Next, Reject, Accept, CancelOrder, SetHalted
<1> QED
  BY <1>4, <1>5, <1>6, <1>7, <1>8, <1>9, <1>10 DEF MatchStep

\* The matching loop never takes an order out of turn.
THEOREM PriorityTheorem == Spec => PriceTimePriority
<1>1. IInv /\ [Next]_vars => [PriorityKept]_vars
  BY StepPriority
<1> QED
  BY <1>1, Invariance, PTL DEF Spec, PriceTimePriority

-----------------------------------------------------------------------------
(* The events account for the orders, without DECREMENT_AND_CANCEL. *)

\* During a call, the incoming order's open quantity is its remainder.
EventFacts ==
  \A i \in OrderId :
    told[i] = IF i \in DOMAIN orders THEN orders[i].rem
              ELSE IF pc # "idle" /\ i = taker.id THEN taker.rem ELSE 0

LEMMA StepEvents ==
  ASSUME IInv, EventFacts, [Next]_vars, "DECREMENT_AND_CANCEL" \notin Policies
  PROVE  EventFacts'
<1>1. CallTypes /\ BookTypes /\ LoopFacts
  BY TypeParts DEF IInv
<1>2. CASE UNCHANGED vars
  BY <1>2 DEF EventFacts, vars, book, readers
<1>3. ASSUME NEW o \in Submission, Reject(o)
      PROVE  EventFacts'
  BY <1>3 DEF Reject, EventFacts, book, readers
<1>4. ASSUME NEW o \in Submission, Accept(o)
      PROVE  EventFacts'
  <2>1. /\ pc = "idle" /\ pc' = "level" /\ orders' = orders
        /\ taker'.id = nextId /\ taker'.rem = o.qty
        /\ told' = [told EXCEPT ![nextId] = o.qty]
    BY <1>4 DEF Accept, book
  <2>2. nextId \notin DOMAIN orders
    BY <1>1, BoundsAssumption DEF LoopFacts, BookTypes, CallTypes, OrderId
  <2> QED
    BY <2>1, <2>2, <1>1 DEF EventFacts, CallTypes
<1>5. CASE EnterLevel \/ LeaveLevel
  BY <1>5 DEF EnterLevel, LeaveLevel, EventFacts, book, readers
<1>6. ASSUME AtFront, NEW n \in Nat \ {0}, TakeFromFront(n), n <= orders[FrontId].rem,
             pc' = pc, taker'.id = taker.id, told'[taker.id] = taker'.rem,
             told'[FrontId] = orders[FrontId].rem - n,
             \A i \in OrderId : i # FrontId /\ i # taker.id => told'[i] = told[i]
      PROVE  EventFacts'
  <2>1. PICK s \in Side, a \in Prices, f \in DOMAIN orders :
          s = Opposite(taker.side) /\ a = at /\ f = FrontId
    BY <1>6, FrontOrder
  <2>2. PICK r : r = orders[f].rem
    OBVIOUS
  <2>3. n <= r
    BY <1>6, <2>1, <2>2
  <2>4. /\ DOMAIN orders' = IF r = n THEN DOMAIN orders \ {f} ELSE DOMAIN orders
        /\ \A i \in DOMAIN orders' : orders'[i].rem = IF i = f THEN r - n ELSE orders[i].rem
    <3>1. Taken(n, s, a, f, r)
      BY <1>6, <2>1, <2>2, <2>3, TakeStep
    <3> QED
      BY <3>1 DEF Taken
  <2>5. /\ pc = "fifo" /\ taker.id \notin DOMAIN orders /\ taker.id # f
        /\ r \in Nat
    BY <1>6, <2>1, <2>2, FrontTold, BoundsAssumption DEF AtFront
  <2> QED
    BY <1>6, <2>1, <2>2, <2>4, <2>5 DEF EventFacts
<1>7. CASE Fill
  <2>1. /\ AtFront /\ pc' = pc
        /\ LET n == Smaller(taker.rem, orders[FrontId].rem)
           IN  /\ TakeFromFront(n)
               /\ taker' = [taker EXCEPT !.rem = @ - n]
               /\ told' = [told EXCEPT ![taker.id] = @ - n, ![FrontId] = @ - n]
    BY <1>7 DEF Fill
  <2>2. PICK n : n = Smaller(taker.rem, orders[FrontId].rem)
    OBVIOUS
  <2>3. /\ FrontId \in OrderId /\ taker.id \in OrderId /\ FrontId # taker.id
        /\ taker.rem \in 1..MaxQty /\ orders[FrontId].rem \in 1..MaxQty
        /\ taker.id \notin DOMAIN orders
        /\ FrontId \in DOMAIN orders /\ taker \in Taker
    BY <2>1, FrontTold, FrontOrder
  <2>4. n \in Nat \ {0} /\ n <= orders[FrontId].rem
    BY <2>2, <2>3, BoundsAssumption DEF Smaller
  <2>5. told[taker.id] = taker.rem /\ told[FrontId] = orders[FrontId].rem
    BY <2>1, <2>3 DEF EventFacts, AtFront
  <2>6. taker'.id = taker.id /\ taker'.rem = taker.rem - n
    BY <2>1, <2>2, <2>3 DEF Taker
  <2>7. /\ told'[taker.id] = taker.rem - n /\ told'[FrontId] = orders[FrontId].rem - n
        /\ \A i \in OrderId : i # FrontId /\ i # taker.id => told'[i] = told[i]
    BY <2>1, <2>2, <2>3, <2>5, <1>1 DEF CallTypes
  <2> QED
    BY <2>1, <2>2, <2>4, <2>6, <2>7, <1>6
<1>8. CASE StpCancelOldest
  <2>1. /\ AtFront /\ pc' = pc /\ taker' = taker
        /\ TakeFromFront(orders[FrontId].rem)
        /\ told' = [told EXCEPT ![FrontId] = 0]
    BY <1>8 DEF StpCancelOldest
  <2>2. /\ FrontId \in OrderId /\ taker.id \in OrderId /\ FrontId # taker.id
        /\ orders[FrontId].rem \in 1..MaxQty /\ taker.id \notin DOMAIN orders
    BY <2>1, FrontTold
  <2>3. PICK n \in Nat \ {0} : n = orders[FrontId].rem /\ n <= orders[FrontId].rem
    BY <2>2, BoundsAssumption
  <2>4. told[taker.id] = taker.rem
    BY <2>1, <2>2 DEF EventFacts, AtFront
  <2>5. /\ told'[taker.id] = taker'.rem /\ told'[FrontId] = orders[FrontId].rem - n
        /\ \A i \in OrderId : i # FrontId /\ i # taker.id => told'[i] = told[i]
    BY <2>1, <2>2, <2>3, <2>4, <1>1 DEF CallTypes
  <2> QED
    BY <2>1, <2>3, <2>5, <1>6
<1>9. CASE StpCancelNewest
  <2>1. /\ AtFront /\ pc' = pc /\ orders' = orders
        /\ taker' = [taker EXCEPT !.rem = 0]
        /\ told' = [told EXCEPT ![taker.id] = 0]
    BY <1>9 DEF StpCancelNewest, book
  <2>2. taker.id \in OrderId /\ taker.id \notin DOMAIN orders /\ taker \in Taker
    BY <2>1, FrontTold, FrontOrder
  <2>3. taker'.id = taker.id /\ taker'.rem = 0
    BY <2>1, <2>2 DEF Taker
  <2> QED
    BY <2>1, <2>2, <2>3, <1>1 DEF EventFacts, CallTypes, AtFront
<1>10. CASE StpDecrement
  <2>1. AtFront /\ taker.stp = "DECREMENT_AND_CANCEL"
    BY <1>10 DEF StpDecrement
  <2>2. taker.stp \in Policies
    BY <2>1, FrontOrder DEF Taker
  <2> QED
    BY <2>1, <2>2
<1>11. CASE Rest
  <2>1. /\ pc = "level" /\ pc' = "idle" /\ told' = told
        /\ DOMAIN orders' = DOMAIN orders \cup {taker.id}
        /\ \A i \in DOMAIN orders' :
             orders'[i].rem = IF i = taker.id THEN taker.rem ELSE orders[i].rem
    BY <1>11 DEF Rest, Returned, AddResting
  <2>2. taker.id \notin DOMAIN orders
    BY <2>1, <1>1 DEF LoopFacts
  <2> QED
    BY <2>1, <2>2 DEF EventFacts
<1>12. CASE Drop
  <2>1. /\ pc = "level" /\ pc' = "idle" /\ orders' = orders
        /\ told' = [told EXCEPT ![taker.id] = 0]
    BY <1>12 DEF Drop, Returned, book
  <2>2. taker.id \notin DOMAIN orders
    BY <2>1, <1>1 DEF LoopFacts
  <2> QED
    BY <2>1, <2>2, <1>1 DEF EventFacts, CallTypes
<1>13. CASE Finish
  <2>1. pc = "level" /\ pc' = "idle" /\ orders' = orders /\ told' = told /\ taker.rem = 0
    BY <1>13 DEF Finish, Returned, book, readers
  <2> QED
    BY <2>1 DEF EventFacts
<1>14. ASSUME NEW i \in OrderId, CancelOrder(i)
       PROVE  EventFacts'
  <2>1. /\ pc = "idle" /\ pc' = pc /\ i \in DOMAIN orders
        /\ orders' = [j \in DOMAIN orders \ {i} |-> orders[j]]
        /\ told' = [told EXCEPT ![i] = 0]
    BY <1>14 DEF CancelOrder, Forget
  <2> QED
    BY <2>1, <1>1 DEF EventFacts, CallTypes
<1>15. ASSUME NEW b \in BOOLEAN, SetHalted(b)
       PROVE  EventFacts'
  BY <1>15 DEF SetHalted, EventFacts, book, readers
<1> QED
  BY <1>2, <1>3, <1>4, <1>5, <1>7, <1>8, <1>9, <1>10, <1>11, <1>12, <1>13, <1>14, <1>15
  DEF Next, MatchStep

\* Unless DECREMENT_AND_CANCEL is used, the event log tells the open quantity of
\* every order.
THEOREM EventsTheorem ==
  ASSUME "DECREMENT_AND_CANCEL" \notin Policies
  PROVE  Spec => []EventsAccountForOrders
<1>1. Init => EventFacts
  BY DEF Init, EventFacts
<1>2. IInv /\ EventFacts /\ [Next]_vars => EventFacts'
  BY StepEvents
<1>3. EventFacts => EventsAccountForOrders
  BY DEF EventFacts, EventsAccountForOrders
<1> QED
  BY <1>1, <1>2, <1>3, Invariance, PTL DEF Spec

-----------------------------------------------------------------------------
(* The engine implements the continuous double auction: under the mapping of *)
(* MatchingEngine (Auction), the initial state is an initial state of        *)
(* ContinuousAuction and every step is one of its steps, or none.            *)

\* An abstract step or a stutter.
AuctionStep == Auction!ANext \/ UNCHANGED Auction!avars

LEMMA SameResting ==
  ASSUME UNCHANGED orders
  PROVE  RestingSet' = RestingSet
BY DEF RestingSet, Entry

LEMMA Stutter ==
  ASSUME UNCHANGED <<orders, taker, nextId>>
  PROVE  AuctionStep
BY SameResting DEF AuctionStep, Auction!avars

\* Between calls there is no incoming order, during one there is.
LEMMA Incoming ==
  ASSUME IInv
  PROVE  /\ nextId \in Nat /\ nextId - 1 \in Nat
         /\ pc = "idle" => taker = NoTaker
         /\ pc # "idle" => taker \in Taker /\ taker # NoTaker
<1>1. CallTypes
  BY TypeParts DEF IInv
<1>2. nextId \in Nat /\ nextId - 1 \in Nat
  BY <1>1, BoundsAssumption DEF CallTypes
<1>3. ASSUME taker \in Taker
      PROVE  taker # NoTaker
  <2>1. taker.id # 0 /\ NoTaker.id = 0
    BY <1>3, BoundsAssumption DEF Taker, OrderId, NoTaker
  <2> QED
    BY <2>1
<1> QED
  BY <1>1, <1>2, <1>3 DEF CallTypes

\* The front order is the one that ContinuousAuction calls First.
LEMMA FrontIsFirst ==
  ASSUME IInv, AtFront
  PROVE  /\ FrontId \in DOMAIN orders
         /\ Entry(FrontId) \in RestingSet
         /\ Auction!First(Entry(FrontId))
         /\ Auction!Own(Entry(FrontId)) <=> SelfTrade
<1>1. PICK s \in Side, a \in Prices, f \in DOMAIN orders :
        /\ s = Opposite(taker.side) /\ a = at /\ f = FrontId
        /\ f \in OrdersAt(s, a) /\ \A i \in OrdersAt(s, a) : f <= i
  BY FrontOrder
<1>2. /\ taker \in Taker /\ taker.rem > 0 /\ taker # NoTaker
      /\ LoopFacts /\ BookTypes /\ pc = "fifo"
  BY FrontOrder, Incoming, TypeParts DEF AtFront, IInv
<1>3. orders[f].side = s /\ orders[f].price = a
  BY <1>1 DEF OrdersAt
<1>4. Entry(f) \in RestingSet
  BY DEF RestingSet
<1>5. s # taker.side
  BY <1>1, <1>2 DEF Taker, Side, Opposite
<1>6. taker.type = "LIMIT" => taker.price \in Nat
  BY <1>2, PricesAssumption DEF LoopFacts
<1>7. Auction!Willing(taker, Entry(f))
  <2>1. taker.type = "LIMIT" => AsGood(s, a, taker.price)
    BY <1>1, <1>2 DEF LoopFacts, Crosses
  <2>2. a \in Nat
    BY <1>1, PricesAssumption
  <2>3. taker.type = "LIMIT" => ~Auction!Better(s, taker.price, a)
    BY <2>1, <2>2, <1>6 DEF AsGood, Auction!Better
  <2> QED
    BY <2>3, <1>3, <1>5 DEF Auction!Willing, Entry
<1>8. ASSUME NEW j \in DOMAIN orders, j # f, orders[j].side = s
      PROVE  Auction!Before(Entry(f), Entry(j))
  <2>1. orders[j].price \in Prices /\ orders[j].price \in levels[s]
    BY <1>8, OrderHasLevel
  <2>2. AsGood(s, a, orders[j].price)
    BY <2>1, <1>1, <1>2 DEF LoopFacts
  <2>3. a \in Nat /\ orders[j].price \in Nat /\ f \in Nat /\ j \in Nat
    BY <2>1, <1>1, <1>2, PricesAssumption, BoundsAssumption DEF BookTypes, OrderId
  <2>4. orders[j].price = a => f < j
    BY <2>3, <1>1, <1>8 DEF OrdersAt
  <2>5. Auction!Better(s, a, orders[j].price) \/ (a = orders[j].price /\ f < j)
    BY <2>2, <2>3, <2>4 DEF AsGood, Auction!Better
  <2> QED
    BY <2>5, <1>3 DEF Auction!Before, Entry
<1>9. Auction!First(Entry(f))
  <2>1. ASSUME NEW q \in RestingSet, q.side = Entry(f).side, q # Entry(f)
        PROVE  Auction!Before(Entry(f), q)
    <3>1. PICK j \in DOMAIN orders : q = Entry(j)
      BY DEF RestingSet
    <3>2. j # f /\ orders[j].side = s
      BY <3>1, <2>1, <1>3 DEF Entry
    <3> QED
      BY <3>1, <3>2, <1>8
  <2> QED
    BY <2>1, <1>2, <1>4, <1>7 DEF Auction!First
<1>10. Auction!Own(Entry(f)) <=> SelfTrade
  BY <1>1 DEF Auction!Own, SelfTrade, Entry
<1> QED
  BY <1>1, <1>4, <1>9, <1>10

\* What taking n from the front does to the set of resting orders.
LEMMA TakeResting ==
  ASSUME IInv, AtFront, NEW n \in Nat \ {0}, TakeFromFront(n), n <= orders[FrontId].rem
  PROVE  RestingSet' =
           IF orders[FrontId].rem = n THEN RestingSet \ {Entry(FrontId)}
           ELSE (RestingSet \ {Entry(FrontId)}) \cup {[Entry(FrontId) EXCEPT !.rem = @ - n]}
<1>1. PICK s \in Side, a \in Prices, f \in DOMAIN orders :
        s = Opposite(taker.side) /\ a = at /\ f = FrontId
  BY FrontOrder
<1>2. PICK r : r = orders[f].rem
  OBVIOUS
<1>3. n <= r
  BY <1>1, <1>2
<1>4. /\ DOMAIN orders' = IF r = n THEN DOMAIN orders \ {f} ELSE DOMAIN orders
      /\ \A i \in DOMAIN orders' :
           /\ orders'[i].side = orders[i].side /\ orders'[i].price = orders[i].price
           /\ orders'[i].pid = orders[i].pid
           /\ orders'[i].rem = IF i = f THEN r - n ELSE orders[i].rem
  <2>1. Taken(n, s, a, f, r)
    BY <1>1, <1>2, <1>3, TakeStep
  <2> QED
    BY <2>1 DEF Taken
<1>5. \A i \in DOMAIN orders' :
        Entry(i)' = IF i = f THEN [Entry(f) EXCEPT !.rem = r - n] ELSE Entry(i)
  BY <1>2, <1>4 DEF Entry
<1>6. \A i, j : Entry(i) = Entry(j) => i = j
  BY DEF Entry
<1>7. RestingSet' = {Entry(i)' : i \in DOMAIN orders'}
  BY DEF RestingSet
<1>8. [Entry(f) EXCEPT !.rem = @ - n] = [Entry(f) EXCEPT !.rem = r - n]
  BY <1>2 DEF Entry
<1>9. CASE r = n
  <2>1. \A i \in DOMAIN orders \ {f} : Entry(i)' = Entry(i)
    BY <1>4, <1>5, <1>9
  <2>2. RestingSet' = {Entry(i) : i \in DOMAIN orders \ {f}}
    BY <2>1, <1>4, <1>7, <1>9
  <2>3. {Entry(i) : i \in DOMAIN orders \ {f}} = RestingSet \ {Entry(f)}
    BY <1>6 DEF RestingSet
  <2> QED
    BY <2>2, <2>3, <1>1, <1>2, <1>9
<1>10. CASE r # n
  <2>1. DOMAIN orders' = DOMAIN orders
    BY <1>4, <1>10
  <2>2. RestingSet' = {Entry(i) : i \in DOMAIN orders \ {f}} \cup {Entry(f)'}
    BY <2>1, <1>1, <1>5, <1>7
  <2>3. {Entry(i) : i \in DOMAIN orders \ {f}} = RestingSet \ {Entry(f)}
    BY <1>6 DEF RestingSet
  <2>4. Entry(f)' = [Entry(f) EXCEPT !.rem = r - n]
    BY <2>1, <1>5
  <2> QED
    BY <2>2, <2>3, <2>4, <1>1, <1>2, <1>8, <1>10
<1> QED
  BY <1>9, <1>10

\* A trade, or the decrement of two orders of one participant.
LEMMA MeetStep ==
  ASSUME IInv, AtFront, SelfTrade => taker.stp = "DECREMENT_AND_CANCEL",
         NEW n, n = Smaller(taker.rem, orders[FrontId].rem), TakeFromFront(n),
         taker' = [taker EXCEPT !.rem = @ - n], nextId' = nextId
  PROVE  AuctionStep
<1>1. taker.rem \in 1..MaxQty /\ orders[FrontId].rem \in 1..MaxQty
  BY FrontTold
<1>2. n \in Nat \ {0} /\ n <= orders[FrontId].rem
  BY <1>1, BoundsAssumption DEF Smaller
<1>3. PICK r \in RestingSet : r = Entry(FrontId)
  BY FrontIsFirst
<1>4. Auction!First(r) /\ (Auction!Own(r) => taker.stp = "DECREMENT_AND_CANCEL")
  BY <1>3, FrontIsFirst
<1>5. r.rem = orders[FrontId].rem
  BY <1>3 DEF Entry
<1>6. n = IF taker.rem <= r.rem THEN taker.rem ELSE r.rem
  BY <1>5 DEF Smaller
<1>7. RestingSet' = IF r.rem = n THEN RestingSet \ {r}
                    ELSE (RestingSet \ {r}) \cup {[r EXCEPT !.rem = @ - n]}
  BY <1>2, <1>3, <1>5, TakeResting
<1>8. Auction!Meet(r)
  BY <1>4, <1>6, <1>7 DEF Auction!Meet
<1> QED
  BY <1>8 DEF AuctionStep, Auction!ANext

LEMMA CancelOldestStep ==
  ASSUME IInv, StpCancelOldest
  PROVE  AuctionStep
<1>1. /\ AtFront /\ SelfTrade /\ taker.stp = "CANCEL_OLDEST"
      /\ TakeFromFront(orders[FrontId].rem) /\ taker' = taker /\ nextId' = nextId
  BY DEF StpCancelOldest
<1>2. PICK n \in Nat \ {0} : n = orders[FrontId].rem /\ n <= orders[FrontId].rem
  BY <1>1, FrontTold, BoundsAssumption
<1>3. RestingSet' = RestingSet \ {Entry(FrontId)}
  BY <1>1, <1>2, TakeResting
<1>4. PICK r \in RestingSet : r = Entry(FrontId)
  BY <1>1, FrontIsFirst
<1>5. Auction!First(r) /\ Auction!Own(r)
  BY <1>1, <1>4, FrontIsFirst
<1>6. Auction!RemoveOwn(r)
  BY <1>1, <1>3, <1>4, <1>5 DEF Auction!RemoveOwn
<1> QED
  BY <1>6 DEF AuctionStep, Auction!ANext

LEMMA CancelNewestStep ==
  ASSUME IInv, StpCancelNewest
  PROVE  AuctionStep
<1>1. /\ AtFront /\ SelfTrade /\ taker.stp = "CANCEL_NEWEST"
      /\ taker' = [taker EXCEPT !.rem = 0] /\ nextId' = nextId /\ orders' = orders
  BY DEF StpCancelNewest, book
<1>2. PICK r \in RestingSet : r = Entry(FrontId)
  BY <1>1, FrontIsFirst
<1>3. Auction!First(r) /\ Auction!Own(r)
  BY <1>1, <1>2, FrontIsFirst
<1>4. Auction!RemoveOwn(r)
  BY <1>1, <1>3, SameResting DEF Auction!RemoveOwn
<1> QED
  BY <1>4 DEF AuctionStep, Auction!ANext

\* When the loop is over, nobody is left that the incoming order may deal with.
LEMMA NobodyLeft ==
  ASSUME IInv, pc = "level", ~MoreToMatch
  PROVE  taker.rem = 0 \/ ~\E r \in RestingSet : Auction!Willing(taker, r)
<1> SUFFICES ASSUME taker.rem # 0, NEW i \in DOMAIN orders,
                    Auction!Willing(taker, Entry(i))
             PROVE  FALSE
  BY DEF RestingSet
<1>1. taker \in Taker /\ taker.rem > 0 /\ BookTypes
  BY Incoming, TypeParts, BoundsAssumption DEF IInv, Taker
<1>2. /\ orders[i].side \in Side /\ orders[i].price \in Prices
      /\ orders[i].price \in levels[orders[i].side]
  BY OrderHasLevel
<1>3. orders[i].side = Opposite(taker.side)
  BY <1>1, <1>2 DEF Auction!Willing, Entry, Taker, Side, Opposite
<1>4. CASE taker.type = "LIMIT"
  <2>1. ~AsGood(orders[i].side, orders[i].price, taker.price)
    BY <1>1, <1>3, <1>4, NothingToCross
  <2>2. ~Auction!Better(orders[i].side, taker.price, orders[i].price)
    BY <1>4 DEF Auction!Willing, Entry
  <2>3. taker.price \in Nat /\ orders[i].price \in Nat
    BY <1>2, <1>4, PricesAssumption DEF IInv, LoopFacts
  <2> QED
    BY <2>1, <2>2, <2>3 DEF AsGood, Auction!Better
<1>5. CASE taker.type # "LIMIT"
  BY <1>1, <1>2, <1>3, <1>5 DEF MoreToMatch, Crosses
<1> QED
  BY <1>4, <1>5

LEMMA ConcludeStep ==
  ASSUME IInv, Rest \/ Drop \/ Finish
  PROVE  AuctionStep
<1>1. pc = "level" /\ ~MoreToMatch /\ taker' = NoTaker /\ nextId' = nextId
  BY DEF Rest, Drop, Finish, Returned
<1>2. /\ taker \in Taker /\ taker # NoTaker
      /\ taker.rem = 0 \/ ~\E r \in RestingSet : Auction!Willing(taker, r)
  BY <1>1, Incoming, NobodyLeft
<1>3. RestingSet' =
        IF taker.rem > 0 /\ taker.type = "LIMIT" /\ taker.tif = "GTC"
        THEN RestingSet \cup {[id |-> taker.id, side |-> taker.side,
                               price |-> taker.price, rem |-> taker.rem,
                               pid |-> taker.pid]}
        ELSE RestingSet
  <2>1. CASE Rest
    <3>1. taker.rem > 0 /\ taker.type = "LIMIT" /\ taker.tif = "GTC"
      BY <2>1 DEF Rest
    <3>2. PICK i : i = taker.id
      OBVIOUS
    <3>3. /\ DOMAIN orders' = DOMAIN orders \cup {i}
          /\ orders'[i] = [side |-> taker.side, price |-> taker.price,
                           rem |-> taker.rem, pid |-> taker.pid]
          /\ \A j \in DOMAIN orders \ {i} : orders'[j] = orders[j]
      BY <2>1, <3>2 DEF Rest, AddResting
    <3>4. i \notin DOMAIN orders
      BY <3>2, <1>1 DEF IInv, LoopFacts
    <3>5. /\ Entry(i)' = [id |-> i, side |-> taker.side, price |-> taker.price,
                          rem |-> taker.rem, pid |-> taker.pid]
          /\ \A j \in DOMAIN orders : Entry(j)' = Entry(j)
      BY <3>3, <3>4 DEF Entry
    <3>6. RestingSet' = {Entry(j)' : j \in DOMAIN orders'}
      BY DEF RestingSet
    <3>7. RestingSet' = RestingSet \cup {Entry(i)'}
      BY <3>3, <3>5, <3>6 DEF RestingSet
    <3> QED
      BY <3>1, <3>2, <3>5, <3>7
  <2>2. CASE Drop
    <3>1. ~(taker.type = "LIMIT" /\ taker.tif = "GTC") /\ orders' = orders
      BY <2>2 DEF Drop, book
    <3> QED
      BY <3>1, SameResting
  <2>3. CASE Finish
    <3>1. ~(taker.rem > 0) /\ orders' = orders
      BY <2>3 DEF Finish, book
    <3> QED
      BY <3>1, SameResting
  <2> QED
    BY <2>1, <2>2, <2>3
<1>4. Auction!Conclude
  BY <1>1, <1>2, <1>3 DEF Auction!Conclude
<1> QED
  BY <1>4 DEF AuctionStep, Auction!ANext

LEMMA ArriveStep ==
  ASSUME IInv, NEW o \in Submission, Accept(o)
  PROVE  AuctionStep
<1>1. /\ pc = "idle" /\ nextId <= MaxOrders /\ nextId' = nextId + 1 /\ orders' = orders
      /\ taker' = [id |-> nextId, side |-> o.side, type |-> o.type, price |-> o.price,
                   rem |-> o.qty, tif |-> o.tif, pid |-> o.pid, stp |-> o.stp]
  BY DEF Accept, book
<1>2. taker = NoTaker /\ nextId \in 1..MaxOrders /\ nextId \in Nat
  BY <1>1, Incoming, BoundsAssumption DEF IInv, TypeOK
<1>3. /\ o.qty \in 0..MaxQty /\ o.qty > 0 /\ o.side \in Side /\ o.type \in {"LIMIT", "MARKET"}
      /\ o.price \in Prices \cup {0} /\ o.tif \in Tifs /\ o.pid \in Pids /\ o.stp \in Policies
  BY BoundsAssumption DEF Submission
<1>4. taker' \in Auction!IncomingRecord
  BY <1>1, <1>2, <1>3
  DEF Auction!IncomingRecord, Auction!Side, Auction!Pids, Side, Pids
<1>5. taker'.id = (nextId - 1) + 1 /\ taker'.rem > 0 /\ nextId' - 1 = (nextId - 1) + 1
  BY <1>1, <1>2, <1>3, BoundsAssumption
<1>6. Auction!Arrive
  BY <1>1, <1>2, <1>4, <1>5, SameResting DEF Auction!Arrive
<1> QED
  BY <1>6 DEF AuctionStep, Auction!ANext

LEMMA TurnAwayStep ==
  ASSUME IInv, NEW o \in Submission, Reject(o)
  PROVE  AuctionStep
<1>1. /\ pc = "idle" /\ nextId <= MaxOrders /\ nextId' = nextId + 1
      /\ orders' = orders /\ taker' = taker
  BY DEF Reject, book
<1>2. /\ taker = NoTaker /\ nextId - 1 < MaxOrders
      /\ nextId' - 1 = (nextId - 1) + 1
  BY <1>1, Incoming, BoundsAssumption
<1>3. Auction!TurnAway
  BY <1>1, <1>2, SameResting DEF Auction!TurnAway
<1> QED
  BY <1>3 DEF AuctionStep, Auction!ANext

LEMMA WithdrawStep ==
  ASSUME IInv, NEW i \in OrderId, CancelOrder(i)
  PROVE  AuctionStep
<1>1. /\ pc = "idle" /\ i \in DOMAIN orders /\ taker' = taker /\ nextId' = nextId
      /\ DOMAIN orders' = DOMAIN orders \ {i}
      /\ \A j \in DOMAIN orders \ {i} : orders'[j] = orders[j]
  BY DEF CancelOrder, Forget
<1>2. taker = NoTaker
  BY <1>1, Incoming
<1>3. PICK r \in RestingSet : r = Entry(i)
  BY <1>1 DEF RestingSet
<1>4. \A j, k : Entry(j) = Entry(k) => j = k
  BY DEF Entry
<1>5. \A j \in DOMAIN orders \ {i} : Entry(j)' = Entry(j)
  BY <1>1 DEF Entry
<1>6. RestingSet' = {Entry(j) : j \in DOMAIN orders \ {i}}
  BY <1>1, <1>5 DEF RestingSet
<1>7. RestingSet' = RestingSet \ {r}
  BY <1>3, <1>4, <1>6 DEF RestingSet
<1>8. Auction!Withdraw(r)
  BY <1>1, <1>2, <1>7 DEF Auction!Withdraw
<1> QED
  BY <1>3, <1>8 DEF AuctionStep, Auction!ANext

LEMMA StepRefines ==
  ASSUME IInv, [Next]_vars
  PROVE  AuctionStep
<1>1. CASE Fill
  BY <1>1, MeetStep DEF Fill
<1>2. CASE StpDecrement
  BY <1>2, MeetStep DEF StpDecrement
<1>3. CASE StpCancelOldest
  BY <1>3, CancelOldestStep
<1>4. CASE StpCancelNewest
  BY <1>4, CancelNewestStep
<1>5. CASE EnterLevel \/ LeaveLevel
  BY <1>5, Stutter DEF EnterLevel, LeaveLevel, book
<1>6. CASE Rest \/ Drop \/ Finish
  BY <1>6, ConcludeStep
<1>7. ASSUME NEW o \in Submission, Reject(o) \/ Accept(o)
      PROVE  AuctionStep
  BY <1>7, TurnAwayStep, ArriveStep
<1>8. ASSUME NEW i \in OrderId, CancelOrder(i)
      PROVE  AuctionStep
  BY <1>8, WithdrawStep
<1>9. ASSUME NEW b \in BOOLEAN, SetHalted(b)
      PROVE  AuctionStep
  BY <1>9, Stutter DEF SetHalted, book
<1>10. CASE UNCHANGED vars
  BY <1>10, Stutter DEF vars, book
<1> QED
  BY <1>1, <1>2, <1>3, <1>4, <1>5, <1>6, <1>7, <1>8, <1>9, <1>10 DEF Next, MatchStep

\* The matching engine is a continuous double auction.
THEOREM Refinement == Spec => ImplementsAuction
<1>1. Init => Auction!AInit
  BY DEF Init, Auction!AInit, RestingSet
<1>2. IInv /\ [Next]_vars => [Auction!ANext]_(Auction!avars)
  BY StepRefines DEF AuctionStep
<1> QED
  BY <1>1, <1>2, Invariance, PTL DEF Spec, ImplementsAuction, Auction!ASpec

-----------------------------------------------------------------------------
(* Fill or kill, where no resting order is removed as a self-trade. *)

NothingRemoved == Participants = {} \/ "CANCEL_OLDEST" \notin Policies

\* The levels of a side that a limit admits, and what rests there.
Admitted(ls, s, limit) == {p \in ls[s] : limit = 0 \/ AsGood(s, p, limit)}
Supply(tot, ls, s, limit) == SumFunctionOnSet(tot[s], Admitted(ls, s, limit))

\* An accepted FOK order finds what it still asks for.
FokCovered ==
  pc # "idle" =>
    /\ taker.type = "MARKET" => taker.price = 0
    /\ taker.tif = "FOK" =>
         taker.rem <= Supply(total, levels, Opposite(taker.side), taker.price)

\* The engine's liquidity is this sum.
LEMMA LiquiditySum ==
  ASSUME NEW s, NEW limit
  PROVE  Liquidity(s, limit) = Supply(total, levels, s, limit)
BY DEF Liquidity, Supply, Admitted, MapThenSumSet, SumFunctionOnSet, FoldFunctionOnSet,
       MapThenFoldSet

\* The admitted levels are finitely many.
LEMMA AdmittedFinite ==
  ASSUME NEW tot, NEW ls, NEW s \in Side, NEW limit,
         tot \in [Side -> [Prices -> Nat]], ls \in [Side -> SUBSET Prices]
  PROVE  /\ Admitted(ls, s, limit) \in SUBSET Prices /\ IsFiniteSet(Admitted(ls, s, limit))
         /\ \A p \in Admitted(ls, s, limit) : tot[s][p] \in Nat
         /\ Supply(tot, ls, s, limit) \in Nat
<1>1. Admitted(ls, s, limit) \in SUBSET Prices BY DEF Admitted
<1>2. IsFiniteSet(Admitted(ls, s, limit)) BY <1>1, PricesAssumption, FS_Subset
<1>3. \A p \in Admitted(ls, s, limit) : tot[s][p] \in Nat BY <1>1
<1>4. Supply(tot, ls, s, limit) \in Nat BY <1>2, <1>3, SumNat DEF Supply
<1> QED BY <1>1, <1>2, <1>3, <1>4

\* What counts for nothing may be left out of a sum.
LEMMA SumTrimmed ==
  ASSUME NEW f, NEW S, IsFiniteSet(S), \A x \in S : f[x] \in Int, NEW a, f[a] = 0
  PROVE  SumFunctionOnSet(f, S \ {a}) = SumFunctionOnSet(f, S)
<1>1. CASE a \notin S
  <2>1. S \ {a} = S BY <1>1
  <2> QED BY <2>1
<1>2. CASE a \in S
  <2>1. SumFunctionOnSet(f, S) = f[a] + SumFunctionOnSet(f, S \ {a}) BY <1>2, SumTakeOut
  <2>2. IsFiniteSet(S \ {a}) /\ \A x \in S \ {a} : f[x] \in Int BY FS_RemoveElement
  <2>3. SumFunctionOnSet(f, S \ {a}) \in Int BY <2>2, SumType
  <2> QED BY <2>1, <2>3
<1> QED BY <1>1, <1>2

TakenAt(rest, tot, s, a, n) ==
  rest[s][a] = tot[s][a] - n /\ \A p \in Prices : p # a => rest[s][p] = tot[s][p]
CleanedAt(more, ls, tot, s, a) ==
  more[s] = ls[s] \/ (more[s] = ls[s] \ {a} /\ tot[s][a] = 0)

\* Taking n at an admitted price takes n from the supply.
LEMMA SupplyTaken ==
  ASSUME NEW tot, NEW rest, NEW ls, NEW s \in Side, NEW limit, NEW a, NEW n \in Nat,
         tot \in [Side -> [Prices -> Nat]], ls \in [Side -> SUBSET Prices],
         rest \in [Side -> [Prices -> Nat]], a \in Admitted(ls, s, limit),
         TakenAt(rest, tot, s, a, n)
  PROVE  Supply(rest, ls, s, limit) = Supply(tot, ls, s, limit) - n
<1>1. PICK S, f, g : S = Admitted(ls, s, limit) /\ f = tot[s] /\ g = rest[s] OBVIOUS
<1>2. S \in SUBSET Prices /\ IsFiniteSet(S) /\ \A p \in S : f[p] \in Nat
  BY <1>1, AdmittedFinite
<1>3. \A p \in S : g[p] \in Nat BY <1>1, <1>2
<1>4. \A p \in S : f[p] \in Int /\ g[p] \in Int /\ (p # a => g[p] = f[p])
  BY <1>1, <1>2, <1>3 DEF TakenAt
<1>5. a \in S /\ f[a] \in Nat BY <1>1, <1>2
<1>6. /\ SumFunctionOnSet(f, S) \in Int
      /\ SumFunctionOnSet(g, S) = SumFunctionOnSet(f, S) + (g[a] - f[a])
  BY <1>2, <1>4, <1>5, SumChange
<1>7. g[a] = f[a] - n BY <1>1 DEF TakenAt
<1>8. SumFunctionOnSet(g, S) = SumFunctionOnSet(f, S) - n BY <1>5, <1>6, <1>7
<1> QED BY <1>1, <1>8 DEF Supply

\* Removing an empty level takes nothing from it.
LEMMA SupplyCleaned ==
  ASSUME NEW tot, NEW ls, NEW more, NEW s \in Side, NEW limit, NEW a \in Prices,
         tot \in [Side -> [Prices -> Nat]], ls \in [Side -> SUBSET Prices],
         more \in [Side -> SUBSET Prices],
         CleanedAt(more, ls, tot, s, a)
  PROVE  Supply(tot, more, s, limit) = Supply(tot, ls, s, limit)
<1>1. PICK S, T, f : /\ S = Admitted(ls, s, limit) /\ T = Admitted(more, s, limit)
                     /\ f = tot[s]
  OBVIOUS
<1>2. S \in SUBSET Prices /\ IsFiniteSet(S) /\ \A p \in S : f[p] \in Nat
  BY <1>1, AdmittedFinite
<1>3. T = S \/ (T = S \ {a} /\ f[a] = 0) BY <1>1 DEF Admitted, CleanedAt
<1>4. CASE T = S BY <1>1, <1>4 DEF Supply
<1>5. CASE T = S \ {a} /\ f[a] = 0
  <2>1. \A p \in S : f[p] \in Int BY <1>2
  <2>2. SumFunctionOnSet(f, S \ {a}) = SumFunctionOnSet(f, S) BY <1>2, <1>5, <2>1, SumTrimmed
  <2> QED BY <1>1, <1>5, <2>2 DEF Supply
<1> QED BY <1>3, <1>4, <1>5

\* The level being matched is one that the incoming order's limit admits.
LEMMA AtAdmitted ==
  ASSUME IInv, FokCovered, pc = "fifo"
  PROVE  /\ at \in Admitted(levels, Opposite(taker.side), taker.price)
         /\ at \in Prices /\ Opposite(taker.side) \in Side /\ taker \in Taker
<1>1. TypeOK /\ LoopFacts BY DEF IInv
<1>2. taker \in Taker /\ at \in Prices BY <1>1 DEF TypeOK
<1>3. Opposite(taker.side) \in Side BY <1>2 DEF Taker, Opposite, Side
<1>4. at \in levels[Opposite(taker.side)] /\ Crosses(taker, at) BY <1>1 DEF LoopFacts
<1>5. taker.type = "LIMIT" \/ taker.type = "MARKET" BY <1>2 DEF Taker
<1>6. taker.type = "MARKET" => taker.price = 0 BY DEF FokCovered
<1> QED BY <1>2, <1>3, <1>4, <1>5, <1>6 DEF Admitted, Crosses

\* A fill, or a decrement, takes as much from the incoming order as from the supply.
LEMMA TakeCovered ==
  ASSUME IInv, FokCovered, AtFront, NEW n, n = Smaller(taker.rem, orders[FrontId].rem),
         TakeFromFront(n), taker' = [taker EXCEPT !.rem = @ - n], pc' = pc
  PROVE  FokCovered'
<1>1. taker.rem \in 1..MaxQty /\ orders[FrontId].rem \in 1..MaxQty BY FrontTold
<1>2. n \in Nat \ {0} /\ n <= orders[FrontId].rem /\ n <= taker.rem
  BY <1>1, BoundsAssumption DEF Smaller
<1>3. PICK s, a, f, r : s = Opposite(taker.side) /\ a = at /\ f = FrontId /\ r = orders[f].rem
  OBVIOUS
<1>4. Taken(n, s, a, f, r) BY <1>2, <1>3, TakeStep
<1>5. pc = "fifo" BY DEF AtFront
<1>6. a \in Admitted(levels, s, taker.price) /\ a \in Prices /\ s \in Side /\ taker \in Taker
  BY <1>3, <1>5, AtAdmitted
<1>7. total \in [Side -> [Prices -> Nat]] /\ levels \in [Side -> SUBSET Prices]
  BY DEF IInv, TypeOK
<1>8. /\ total' \in [Side -> [Prices -> Nat]] /\ levels' = levels
      /\ \A p \in Prices : p # a => total'[s][p] = total[s][p]
  BY <1>4, <1>6 DEF Taken, BookTypes
<1>9. total'[s][a] = total[s][a] - n BY <1>3, <1>6, <1>7 DEF TakeFromFront
<1>10. PICK tot, rest, ls, limit :
         tot = total /\ rest = total' /\ ls = levels /\ limit = taker.price
  OBVIOUS
<1>11. n \in Nat BY <1>2
<1>12. Supply(rest, ls, s, limit) = Supply(tot, ls, s, limit) - n
  <2>1. TakenAt(rest, tot, s, a, n) BY <1>8, <1>9, <1>10 DEF TakenAt
  <2>2. /\ tot \in [Side -> [Prices -> Nat]] /\ rest \in [Side -> [Prices -> Nat]]
        /\ ls \in [Side -> SUBSET Prices] /\ a \in Admitted(ls, s, limit)
    BY <1>6, <1>7, <1>8, <1>10
  <2> QED BY <1>6, <1>11, <2>1, <2>2, SupplyTaken
<1>13. Supply(tot, ls, s, limit) \in Nat BY <1>6, <1>7, <1>10, AdmittedFinite
<1>14. /\ taker'.type = taker.type /\ taker'.price = taker.price /\ taker'.tif = taker.tif
       /\ taker'.side = taker.side /\ taker'.rem = taker.rem - n
  BY <1>6 DEF Taker
<1>15. pc # "idle" BY <1>5
<1>16. /\ taker.type = "MARKET" => taker.price = 0
       /\ taker.tif = "FOK" => taker.rem <= Supply(tot, ls, s, limit)
  BY <1>3, <1>10, <1>15 DEF FokCovered
<1>17. taker.rem \in Nat BY <1>1, BoundsAssumption
<1>18. taker.tif = "FOK" => taker.rem - n <= Supply(rest, ls, s, limit)
  BY <1>11, <1>12, <1>13, <1>16, <1>17
<1>19. Opposite(taker'.side) = s BY <1>3, <1>14
<1> QED BY <1>8, <1>10, <1>14, <1>16, <1>18, <1>19 DEF FokCovered

\* A step that leaves totals, levels and the incoming order alone.
LEMMA SameCovered ==
  ASSUME FokCovered, UNCHANGED <<total, levels, taker>>, pc # "idle" \/ pc' = "idle"
  PROVE  FokCovered'
BY DEF FokCovered

\* Every step keeps an accepted FOK order covered.
LEMMA CoveredNext ==
  ASSUME NothingRemoved, IInv, FokCovered, [Next]_vars
  PROVE  FokCovered'
<1>1. /\ total \in [Side -> [Prices -> Nat]] /\ levels \in [Side -> SUBSET Prices]
      /\ pc # "idle" => taker \in Taker
  BY DEF IInv, TypeOK
<1>2. ASSUME pc' = "idle" PROVE FokCovered'
  BY <1>2 DEF FokCovered
<1>3. ASSUME NEW o \in Submission, Accept(o) PROVE FokCovered'
  <2>1. /\ ~Refused(o) /\ total' = total /\ levels' = levels
        /\ taker' = [id |-> nextId, side |-> o.side, type |-> o.type, price |-> o.price,
                     rem |-> o.qty, tif |-> o.tif, pid |-> o.pid, stp |-> o.stp]
    BY <1>3 DEF Accept, book
  <2>2. o.type = "MARKET" => o.price = 0 BY DEF Submission
  <2>3. PICK s, limit : s = Opposite(o.side) /\ limit = o.price OBVIOUS
  <2>4. o.side \in Side /\ o.qty \in Nat BY BoundsAssumption DEF Submission
  <2>5. s \in Side BY <2>3, <2>4 DEF Opposite, Side
  <2>6. PICK tot, ls : tot = total /\ ls = levels OBVIOUS
  <2>7. Supply(tot, ls, s, limit) \in Nat BY <1>1, <2>5, <2>6, AdmittedFinite
  <2>8. Liquidity(s, limit) = Supply(tot, ls, s, limit) BY <2>6, LiquiditySum
  <2>9. o.tif = "FOK" => ~(Liquidity(s, limit) < o.qty) BY <2>1, <2>3 DEF Refused
  <2>10. o.tif = "FOK" => o.qty <= Supply(tot, ls, s, limit) BY <2>4, <2>7, <2>8, <2>9
  <2>11. /\ taker'.type = o.type /\ taker'.price = limit /\ taker'.tif = o.tif
         /\ taker'.rem = o.qty /\ Opposite(taker'.side) = s
    BY <2>1, <2>3
  <2>12. FokCovered' BY <2>1, <2>2, <2>3, <2>6, <2>10, <2>11 DEF FokCovered
  <2> QED BY <2>12
<1>4. CASE EnterLevel
  BY <1>4, SameCovered DEF EnterLevel, book
<1>5. CASE Fill
  BY <1>5, TakeCovered DEF Fill
<1>6. CASE StpDecrement
  BY <1>6, TakeCovered DEF StpDecrement
<1>7. CASE StpCancelOldest
  <2>1. taker \in Taker /\ SelfTrade /\ taker.stp = "CANCEL_OLDEST"
    BY <1>1, <1>7 DEF StpCancelOldest, AtFront
  <2>2. taker.pid \in Participants /\ "CANCEL_OLDEST" \in Policies
    BY <2>1 DEF Taker, SelfTrade, Pids
  <2> QED BY <2>2 DEF NothingRemoved
<1>8. CASE StpCancelNewest
  <2>1. pc = "fifo" /\ taker' = [taker EXCEPT !.rem = 0] /\ UNCHANGED <<pc, total, levels>>
    BY <1>8 DEF StpCancelNewest, AtFront, book
  <2>2. taker \in Taker /\ pc # "idle" BY <1>1, <2>1
  <2>3. /\ taker'.type = taker.type /\ taker'.price = taker.price /\ taker'.rem = 0
        /\ taker'.side = taker.side
    BY <2>1, <2>2 DEF Taker
  <2>4. PICK s, limit, tot, ls : /\ s = Opposite(taker.side) /\ limit = taker.price
                                 /\ tot = total /\ ls = levels
    OBVIOUS
  <2>5. s \in Side BY <2>2, <2>4 DEF Taker, Opposite, Side
  <2>6. Supply(tot, ls, s, limit) \in Nat BY <1>1, <2>4, <2>5, AdmittedFinite
  <2>7. 0 <= Supply(tot, ls, s, limit) BY <2>6
  <2>8. taker.type = "MARKET" => taker.price = 0 BY <2>2 DEF FokCovered
  <2> QED BY <2>1, <2>3, <2>4, <2>7, <2>8 DEF FokCovered
<1>9. CASE LeaveLevel
  <2>1. PICK s, limit, tot, ls, more, a :
          /\ s = Opposite(taker.side) /\ limit = taker.price /\ tot = total /\ ls = levels
          /\ more = levels' /\ a = at
    OBVIOUS
  <2>2. /\ pc = "fifo" /\ UNCHANGED <<total, taker>>
        /\ more = [ls EXCEPT ![s] = IF tot[s][a] = 0 THEN @ \ {a} ELSE @]
    BY <1>9, <2>1 DEF LeaveLevel, CleanEmptyLevel
  <2>3. s \in Side /\ a \in Prices BY <2>1, <2>2, AtAdmitted
  <2>4. /\ more \in [Side -> SUBSET Prices]
        /\ tot \in [Side -> [Prices -> Nat]] /\ ls \in [Side -> SUBSET Prices]
        /\ CleanedAt(more, ls, tot, s, a)
    BY <1>1, <2>1, <2>2, <2>3 DEF CleanedAt
  <2>5. Supply(tot, more, s, limit) = Supply(tot, ls, s, limit)
    BY <2>3, <2>4, SupplyCleaned
  <2>6. pc # "idle" BY <2>2
  <2>7. /\ taker.type = "MARKET" => taker.price = 0
        /\ taker.tif = "FOK" => taker.rem <= Supply(tot, ls, s, limit)
    BY <2>1, <2>6 DEF FokCovered
  <2>8. Supply(total, levels', s, limit) = Supply(tot, ls, s, limit) BY <2>1, <2>5
  <2> QED BY <2>1, <2>2, <2>7, <2>8 DEF FokCovered
<1>10. CASE Rest \/ Drop \/ Finish
  BY <1>2, <1>10 DEF Rest, Drop, Finish, Returned
<1>11. ASSUME NEW o \in Submission, Reject(o) PROVE FokCovered'
  BY <1>2, <1>11 DEF Reject
<1>12. ASSUME NEW i \in OrderId, CancelOrder(i) PROVE FokCovered'
  BY <1>2, <1>12 DEF CancelOrder
<1>13. ASSUME NEW b \in BOOLEAN, SetHalted(b) PROVE FokCovered'
  BY <1>2, <1>13 DEF SetHalted
<1>14. CASE UNCHANGED vars
  BY <1>14, SameCovered DEF vars, book
<1> QED
  BY <1>3, <1>4, <1>5, <1>6, <1>7, <1>8, <1>9, <1>10, <1>11, <1>12, <1>13, <1>14
  DEF Next, MatchStep

\* When the loop stops, no level that the limit admits is left.
LEMMA NothingLeft ==
  ASSUME IInv, FokCovered, Drop
  PROVE  taker.tif # "FOK"
<1>1. PICK s, limit, tot, ls : /\ s = Opposite(taker.side) /\ limit = taker.price
                               /\ tot = total /\ ls = levels
  OBVIOUS
<1>2. pc = "level" /\ ~MoreToMatch /\ taker.rem > 0 BY DEF Drop
<1>3. BookTypes /\ LoopFacts /\ taker \in Taker BY <1>2, TypeParts DEF IInv, CallTypes
<1>4. s \in Side /\ taker.rem \in Nat BY <1>1, <1>3, BoundsAssumption DEF Taker, Opposite, Side
<1>5. Admitted(ls, s, limit) = {}
  <2>1. CASE ls[s] = {} BY <2>1 DEF Admitted
  <2>2. CASE ls[s] # {}
    <3>1. /\ BestPrice(s) \in Prices /\ \A q \in ls[s] : AsGood(s, BestPrice(s), q)
      BY <1>1, <1>3, <1>4, <2>2, BestPriceIsBest
    <3>2. ~Crosses(taker, BestPrice(s)) BY <1>1, <1>2, <2>2 DEF MoreToMatch
    <3>3. taker.type = "LIMIT" /\ ~AsGood(s, BestPrice(s), limit)
      BY <1>1, <3>2 DEF Crosses
    <3>4. limit \in Prices BY <1>1, <1>2, <1>3, <3>3 DEF LoopFacts
    <3>5. ls[s] \subseteq Prices BY <1>1, <1>3, <1>4 DEF BookTypes
    <3>6. \A p \in Prices : p \in Nat \ {0} BY PricesAssumption
    <3>7. ASSUME NEW q \in ls[s], limit = 0 \/ AsGood(s, q, limit) PROVE FALSE
      <4>1. PICK b \in Nat, x \in Nat, l \in Nat \ {0} : b = BestPrice(s) /\ x = q /\ l = limit
        BY <3>1, <3>4, <3>5, <3>6
      <4>2. AsGood(s, b, x) /\ AsGood(s, x, l) /\ ~AsGood(s, b, l)
        BY <3>1, <3>3, <3>7, <4>1
      <4> QED BY <4>1, <4>2 DEF AsGood
    <3> QED BY <3>7 DEF Admitted
  <2> QED BY <2>1, <2>2
<1>6. Supply(tot, ls, s, limit) = 0 BY <1>5, SumEmpty DEF Supply
<1>7. taker.tif = "FOK" => taker.rem <= Supply(tot, ls, s, limit)
  BY <1>1, <1>2 DEF FokCovered
<1> QED BY <1>2, <1>4, <1>6, <1>7

\* "Fill or kill" holds of every order, also of one whose owner has orders on the other
\* side, unless the policy removes them from under the check (FokFillsCompletely).
THEOREM FillOrKill ==
  ASSUME NothingRemoved
  PROVE  Spec => FokFillsCompletely
<1>1. Init => FokCovered BY DEF Init, FokCovered
<1>2. IInv /\ FokCovered /\ [Next]_vars => FokCovered' BY CoveredNext
<1>3. IInv /\ FokCovered /\ [Next]_vars => [~(Drop /\ taker.tif = "FOK")]_vars
  BY NothingLeft
<1> QED BY <1>1, <1>2, <1>3, Invariance, PTL DEF Spec, FokFillsCompletely
=============================================================================
