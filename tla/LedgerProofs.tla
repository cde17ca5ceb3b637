---------------------------- MODULE LedgerProofs ----------------------------
(***************************************************************************)
(* Proofs about Ledger, for any finite number of symbols, any prices and   *)
(* deposits and any number of orders and resets: when the cash cannot run  *)
(* out, that positions are what the orders have executed, and that the     *)
(* accounting identity holds up to the rounding of profits.                *)
(***************************************************************************)
EXTENDS Ledger, Sums

\* The orders, numbered in the order of their submission.
OrdersInv ==
  /\ \E n \in Nat : DOMAIN submitted = 1..n /\ DOMAIN filled = 1..n
  /\ \A o \in DOMAIN submitted : submitted[o] \in Order /\ filled[o] \in 0..submitted[o].qty
  /\ resting \subseteq DOMAIN submitted

Remaining(o) == submitted[o].qty - filled[o]

\* The cash is enough for what is open: at most one buy is, it has a limit, and unless
\* a reset has forgotten it, what remains of it can be paid at that limit.
Funded ==
  /\ cash >= 0
  /\ \A a, b \in OpenBuys : a = b
  /\ \A o \in OpenBuys :
       /\ submitted[o].type = "LIMIT"
       /\ o \in known => Remaining(o) * submitted[o].price <= cash

CashInv == cash \in Int /\ exposed \in BOOLEAN /\ (~exposed => Funded)

-----------------------------------------------------------------------------
(* Arithmetic. *)

LEMMA ProductMonotone ==
  ASSUME NEW q \in Nat, NEW p \in Nat, NEW limit \in Nat, p <= limit
  PROVE  q * p \in Nat /\ q * limit \in Nat /\ q * p <= q * limit
OBVIOUS

\* Paying for a part at a price within the limit leaves enough for the rest.
LEMMA RestIsPayable ==
  ASSUME NEW r \in Nat, NEW q \in Nat, q <= r, NEW p \in Nat, NEW limit \in Nat, p <= limit,
         NEW c \in Int, r * limit <= c
  PROVE  c - q * p \in Int /\ c - q * p >= 0 /\ (r - q) * limit <= c - q * p
<1>1. q * p \in Nat /\ q * limit \in Nat /\ q * p <= q * limit BY ProductMonotone
<1>2. r * limit \in Nat /\ (r - q) * limit \in Nat OBVIOUS
<1>3. (r - q) * limit = r * limit - q * limit OBVIOUS
<1> QED BY <1>1, <1>2, <1>3

-----------------------------------------------------------------------------
(* The orders. *)

\* A new order gets a number that no order has.
LEMMA FreshNumber ==
  ASSUME NEW n \in Nat, DOMAIN submitted = 1..n
  PROVE  Cardinality(DOMAIN submitted) + 1 = n + 1
<1>1. Cardinality(1..n) = n BY FS_Interval
<1> QED BY <1>1

LEMMA OrderFields ==
  ASSUME NEW ord \in Order
  PROVE  /\ ord.qty \in Nat /\ ord.price \in Nat /\ ord.side \in Sides
         /\ ord.type \in {"LIMIT", "MARKET"}
<1>1. /\ ord.qty \in 1..MaxQty /\ ord.price \in Prices /\ ord.side \in Sides
      /\ ord.type \in {"LIMIT", "MARKET"}
  BY DEF Order
<1>2. MaxQty \in Nat /\ Prices \subseteq Nat BY LedgerAssumption
<1>3. ord.price \in Nat BY <1>1, <1>2
<1>4. \A q \in 1..MaxQty : q \in Nat BY <1>2
<1>5. ord.qty \in Nat BY <1>1, <1>4
<1> QED BY <1>1, <1>3, <1>5

LEMMA OrderTypes ==
  ASSUME OrdersInv, NEW o \in DOMAIN submitted
  PROVE  /\ submitted[o].qty \in Nat /\ submitted[o].price \in Nat
         /\ filled[o] \in Nat /\ Remaining(o) \in Nat
         /\ submitted[o].side \in Sides
<1>1. submitted[o] \in Order /\ filled[o] \in 0..submitted[o].qty BY DEF OrdersInv
<1>2. submitted[o].qty \in Nat /\ submitted[o].price \in Nat /\ submitted[o].side \in Sides
  BY <1>1, OrderFields
<1> QED BY <1>1, <1>2 DEF Remaining

\* What submitting does to the records of the orders.
LEMMA SubmitRecords ==
  ASSUME OrdersInv, NEW ord \in Order, Submit(ord), NEW n \in Nat,
         DOMAIN submitted = 1..n, DOMAIN filled = 1..n
  PROVE  /\ DOMAIN submitted' = 1..(n + 1) /\ DOMAIN filled' = 1..(n + 1)
         /\ submitted'[n + 1] = ord /\ filled'[n + 1] = 0
         /\ \A o \in 1..n : submitted'[o] = submitted[o] /\ filled'[o] = filled[o]
         /\ known' = known \cup {n + 1} /\ resting' = resting \cup {n + 1}
         /\ n + 1 \notin DOMAIN submitted
<1>1. Cardinality(DOMAIN submitted) + 1 = n + 1 BY FreshNumber
<1>2. /\ submitted' = [i \in 1..n \cup {n + 1} |-> IF i = n + 1 THEN ord ELSE submitted[i]]
      /\ filled' = [i \in 1..n \cup {n + 1} |-> IF i = n + 1 THEN 0 ELSE filled[i]]
      /\ known' = known \cup {n + 1} /\ resting' = resting \cup {n + 1}
  BY <1>1 DEF Submit
<1>3. 1..n \cup {n + 1} = 1..(n + 1) /\ n + 1 \notin 1..n OBVIOUS
<1> QED BY <1>2, <1>3

LEMMA SubmitKeeps ==
  ASSUME OrdersInv, CashInv, NEW ord \in Order, Submit(ord)
  PROVE  OrdersInv' /\ CashInv'
<1>1. PICK n \in Nat : DOMAIN submitted = 1..n /\ DOMAIN filled = 1..n BY DEF OrdersInv
<1>2. /\ DOMAIN submitted' = 1..(n + 1) /\ DOMAIN filled' = 1..(n + 1)
      /\ submitted'[n + 1] = ord /\ filled'[n + 1] = 0
      /\ \A o \in 1..n : submitted'[o] = submitted[o] /\ filled'[o] = filled[o]
      /\ known' = known \cup {n + 1} /\ resting' = resting \cup {n + 1}
      /\ n + 1 \notin DOMAIN submitted
  BY <1>1, SubmitRecords
<1>3. ord.qty \in Nat /\ ord.price \in Nat /\ ord.side \in Sides
      /\ ord.type \in {"LIMIT", "MARKET"}
  BY OrderFields
<1>4. OrdersInv'
  <2>1. \A o \in 1..(n + 1) : submitted'[o] \in Order /\ filled'[o] \in 0..submitted'[o].qty
    <3> SUFFICES ASSUME NEW o \in 1..(n + 1)
                 PROVE  submitted'[o] \in Order /\ filled'[o] \in 0..submitted'[o].qty
      OBVIOUS
    <3>1. CASE o = n + 1 BY <3>1, <1>2, <1>3
    <3>2. CASE o # n + 1
      <4>1. o \in 1..n BY <3>2
      <4> QED BY <4>1, <1>1, <1>2 DEF OrdersInv
    <3> QED BY <3>1, <3>2
  <2>2. resting' \subseteq DOMAIN submitted' BY <1>1, <1>2 DEF OrdersInv
  <2>3. n + 1 \in Nat OBVIOUS
  <2> QED BY <1>2, <2>1, <2>2, <2>3 DEF OrdersInv
<1>5. cash' = cash /\ exposed' = (exposed \/ (ord.side = "BUY" /\ (OpenBuys # {} \/ ord.type = "MARKET")))
  BY DEF Submit, account
<1>6. ASSUME ~exposed' PROVE Funded'
  <2>1. ~exposed /\ Funded /\ (ord.side = "BUY" => OpenBuys = {} /\ ord.type = "LIMIT")
    BY <1>3, <1>5, <1>6 DEF CashInv
  <2>2. OpenBuys' = OpenBuys \cup (IF ord.side = "BUY" THEN {n + 1} ELSE {})
    <3>1. \A o \in resting : o \in 1..n BY <1>1 DEF OrdersInv
    <3> QED BY <3>1, <1>2 DEF OpenBuys
  <2>3. \A o \in OpenBuys : o \in 1..n /\ o # n + 1 BY <1>1, <1>2 DEF OpenBuys, OrdersInv
  <2>4. cash' >= 0 BY <1>5, <2>1 DEF Funded
  <2>5. \A a, b \in OpenBuys' : a = b BY <2>1, <2>2 DEF Funded
  <2>6. ASSUME NEW o \in OpenBuys'
        PROVE  /\ submitted'[o].type = "LIMIT"
               /\ o \in known' => Remaining(o)' * submitted'[o].price <= cash'
    <3>1. CASE o \in OpenBuys
      <4>1. o \in 1..n /\ o # n + 1 BY <3>1, <2>3
      <4>2. submitted'[o] = submitted[o] /\ Remaining(o)' = Remaining(o)
        BY <4>1, <1>2 DEF Remaining
      <4>3. o \in known' => o \in known BY <4>1, <1>2
      <4> QED BY <3>1, <4>2, <4>3, <2>1, <1>5 DEF Funded
    <3>2. CASE o \notin OpenBuys
      <4>1. o = n + 1 /\ ord.side = "BUY" BY <3>2, <2>2
      <4>2. ord.qty * ord.price <= cash BY <4>1 DEF Submit, Affordable
      <4>3. Remaining(o)' = ord.qty BY <4>1, <1>2, <1>3 DEF Remaining
      <4> QED BY <4>1, <4>2, <4>3, <1>2, <1>5, <2>1
    <3> QED BY <3>1, <3>2
  <2> QED BY <2>4, <2>5, <2>6 DEF Funded
<1>7. cash' \in Int /\ exposed' \in BOOLEAN BY <1>5 DEF CashInv
<1> QED BY <1>4, <1>6, <1>7 DEF CashInv

LEMMA CancelKeeps ==
  ASSUME OrdersInv, CashInv, NEW o \in resting, Cancel(o)
  PROVE  OrdersInv' /\ CashInv'
<1>1. /\ resting' = resting \ {o} /\ cash' = cash /\ submitted' = submitted
      /\ known' = known /\ filled' = filled /\ exposed' = exposed
  BY DEF Cancel, account
<1>2. OrdersInv' BY <1>1 DEF OrdersInv
<1>3. ASSUME Funded PROVE Funded'
  <2>1. OpenBuys' \subseteq OpenBuys BY <1>1 DEF OpenBuys
  <2>2. \A a : Remaining(a)' = Remaining(a) BY <1>1 DEF Remaining
  <2> QED BY <1>1, <1>3, <2>1, <2>2 DEF Funded
<1> QED BY <1>1, <1>2, <1>3 DEF CashInv

-----------------------------------------------------------------------------
(* Executions. *)

\* What an execution does to the records of the orders.
LEMMA ExecuteRecords ==
  ASSUME OrdersInv, NEW o \in DOMAIN submitted, NEW qty \in 1..MaxQty, NEW price \in Prices,
         Execute(o, qty, price)
  PROVE  /\ qty \in Nat /\ price \in Nat /\ qty <= Remaining(o)
         /\ Remaining(o)' = Remaining(o) - qty
         /\ \A a \in DOMAIN submitted : a # o => Remaining(a)' = Remaining(a)
         /\ submitted' = submitted /\ known' = known /\ exposed' = exposed
         /\ resting' \subseteq resting
         /\ DOMAIN filled' = DOMAIN filled
         /\ \A a \in DOMAIN submitted : filled'[a] \in 0..submitted[a].qty
<1>1. MaxQty \in Nat /\ Prices \subseteq Nat BY LedgerAssumption
<1>2. qty \in Nat /\ price \in Nat BY <1>1
<1>3. PICK n \in Nat : DOMAIN submitted = 1..n /\ DOMAIN filled = 1..n BY DEF OrdersInv
<1>4. \A a \in DOMAIN submitted : submitted[a].qty \in Nat /\ filled[a] \in 0..submitted[a].qty
  BY OrderTypes DEF OrdersInv
<1>5. /\ submitted' = submitted /\ known' = known /\ exposed' = exposed
      /\ resting' \subseteq resting /\ qty <= submitted[o].qty - filled[o]
      /\ filled' = [filled EXCEPT ![o] = @ + qty]
  BY DEF Execute
<1>6. DOMAIN filled' = DOMAIN filled BY <1>5
<1>7. filled'[o] = filled[o] + qty BY <1>3, <1>5
<1>8. \A a \in DOMAIN submitted : a # o => filled'[a] = filled[a] BY <1>3, <1>5
<1>9. \A a \in DOMAIN submitted : filled'[a] \in 0..submitted[a].qty
  <2> SUFFICES ASSUME NEW a \in DOMAIN submitted PROVE filled'[a] \in 0..submitted[a].qty
    OBVIOUS
  <2>1. CASE a = o BY <2>1, <1>2, <1>4, <1>5, <1>7
  <2>2. CASE a # o BY <2>2, <1>4, <1>8
  <2> QED BY <2>1, <2>2
<1>10. Remaining(o)' = Remaining(o) - qty
  <2>1. Remaining(o)' = submitted[o].qty - (filled[o] + qty) BY <1>5, <1>7 DEF Remaining
  <2> QED BY <2>1, <1>2, <1>4 DEF Remaining
<1>11. \A a \in DOMAIN submitted : a # o => Remaining(a)' = Remaining(a)
  BY <1>5, <1>8 DEF Remaining
<1> QED BY <1>2, <1>5, <1>6, <1>9, <1>10, <1>11 DEF Remaining

\* A buy is paid, a sale is received; an order that a reset has forgotten is neither.
LEMMA ExecuteCash ==
  ASSUME NEW o \in DOMAIN submitted, submitted[o].side \in Sides,
         NEW qty \in Nat, NEW price \in Nat, cash \in Int, Execute(o, qty, price)
  PROVE  /\ o \notin known => cash' = cash
         /\ o \in known /\ submitted[o].side = "BUY" => cash' = cash - qty * price
         /\ submitted[o].side # "BUY" => cash' \in Int /\ cash' >= cash
<1>1. qty * price \in Nat BY ProductMonotone
<1>2. o \notin known => cash' = cash BY DEF Execute, account
<1>3. ASSUME o \in known
      PROVE  cash' = cash - Signed(submitted[o].side, 1) * qty * price
  BY <1>3 DEF Execute, OnTradeExecuted
<1>4. CASE submitted[o].side = "BUY"
  <2>1. Signed(submitted[o].side, 1) = 1 BY <1>4 DEF Signed
  <2>2. 1 * qty * price = qty * price BY <1>1
  <2> QED BY <1>2, <1>3, <1>4, <2>1, <2>2
<1>5. CASE submitted[o].side # "BUY"
  <2>1. Signed(submitted[o].side, 1) = -1 BY <1>5 DEF Signed
  <2>2. (-1) * qty * price = -(qty * price) OBVIOUS
  <2>3. cash - (-(qty * price)) = cash + qty * price BY <1>1
  <2> QED BY <1>1, <1>2, <1>3, <1>5, <2>1, <2>2, <2>3
<1> QED BY <1>4, <1>5

LEMMA ExecuteKeeps ==
  ASSUME OrdersInv, CashInv, NEW o \in DOMAIN submitted, NEW qty \in 1..MaxQty,
         NEW price \in Prices, Execute(o, qty, price)
  PROVE  OrdersInv' /\ CashInv'
<1>1. /\ qty \in Nat /\ price \in Nat /\ qty <= Remaining(o)
      /\ Remaining(o)' = Remaining(o) - qty
      /\ \A a \in DOMAIN submitted : a # o => Remaining(a)' = Remaining(a)
      /\ submitted' = submitted /\ known' = known /\ exposed' = exposed
      /\ resting' \subseteq resting
      /\ DOMAIN filled' = DOMAIN filled
      /\ \A a \in DOMAIN submitted : filled'[a] \in 0..submitted[a].qty
  BY ExecuteRecords
<1>2. /\ submitted[o].qty \in Nat /\ submitted[o].price \in Nat
      /\ Remaining(o) \in Nat /\ submitted[o].side \in Sides
  BY OrderTypes
<1>3. cash \in Int BY DEF CashInv
<1>4. /\ o \notin known => cash' = cash
      /\ o \in known /\ submitted[o].side = "BUY" => cash' = cash - qty * price
      /\ submitted[o].side # "BUY" => cash' \in Int /\ cash' >= cash
  BY <1>1, <1>2, <1>3, ExecuteCash
<1>5. OrdersInv' BY <1>1 DEF OrdersInv
<1>6. cash' \in Int
  <2>1. qty * price \in Nat BY <1>1, ProductMonotone
  <2> QED BY <1>3, <1>4, <2>1
<1>7. OpenBuys' \subseteq OpenBuys BY <1>1 DEF OpenBuys
<1>8. o \in resting /\ Allowed(submitted[o], price) BY DEF Execute
<1>9. \A a \in OpenBuys : a \in DOMAIN submitted BY DEF OpenBuys, OrdersInv
<1>10. ASSUME Funded PROVE Funded'
  <2>1. CASE submitted[o].side = "BUY"
    <3>1. o \in OpenBuys /\ \A a \in OpenBuys : a = o BY <1>8, <1>10, <2>1 DEF OpenBuys, Funded
    <3>2. submitted[o].type = "LIMIT" BY <1>10, <3>1 DEF Funded
    <3>3. price <= submitted[o].price BY <1>8, <2>1, <3>2 DEF Allowed
    <3>4. cash' >= 0 /\ (o \in known => Remaining(o)' * submitted[o].price <= cash')
      <4>1. CASE o \in known
        <5>1. Remaining(o) * submitted[o].price <= cash BY <1>10, <3>1, <4>1 DEF Funded
        <5>2. /\ cash - qty * price >= 0
              /\ (Remaining(o) - qty) * submitted[o].price <= cash - qty * price
          BY <1>1, <1>2, <1>3, <3>3, <5>1, RestIsPayable
        <5> QED BY <1>1, <1>4, <2>1, <4>1, <5>2
      <4>2. CASE o \notin known BY <1>4, <1>10, <4>2 DEF Funded
      <4> QED BY <4>1, <4>2
    <3> QED BY <1>1, <1>7, <3>1, <3>2, <3>4 DEF Funded
  <2>2. CASE submitted[o].side # "BUY"
    <3>1. cash' >= cash /\ cash >= 0 BY <1>4, <1>10, <2>2 DEF Funded
    <3>2. \A a \in OpenBuys : a \in DOMAIN submitted /\ a # o BY <1>9, <2>2 DEF OpenBuys
    <3>3. ASSUME NEW a \in OpenBuys', a \in known'
          PROVE  Remaining(a)' * submitted'[a].price <= cash'
      <4>1. a \in OpenBuys /\ a \in known /\ a # o /\ a \in DOMAIN submitted
        BY <1>1, <1>7, <3>2, <3>3
      <4>2. Remaining(a)' = Remaining(a) /\ submitted'[a] = submitted[a] BY <1>1, <4>1
      <4>3. Remaining(a) * submitted[a].price <= cash BY <1>10, <4>1 DEF Funded
      <4>4. Remaining(a) \in Nat /\ submitted[a].price \in Nat BY <4>1, OrderTypes
      <4>5. Remaining(a) * submitted[a].price \in Nat BY <4>4, ProductMonotone
      <4> QED BY <1>3, <1>6, <3>1, <4>2, <4>3, <4>5
    <3>4. cash' >= 0 BY <1>3, <1>6, <3>1
    <3>5. \A a \in OpenBuys' : submitted'[a].type = "LIMIT" BY <1>1, <1>7, <1>10 DEF Funded
    <3> QED BY <1>7, <1>10, <3>3, <3>4, <3>5 DEF Funded
  <2> QED BY <2>1, <2>2
<1> QED BY <1>1, <1>5, <1>6, <1>10 DEF CashInv

-----------------------------------------------------------------------------
(* The account is reset; no order is known any more. *)

LEMMA ResetKeeps ==
  ASSUME OrdersInv, CashInv, NEW deposit \in Deposits, Reset(deposit)
  PROVE  OrdersInv' /\ CashInv'
<1>1. /\ cash' = deposit /\ known' = {} /\ submitted' = submitted /\ filled' = filled
      /\ resting' = resting /\ exposed' = exposed
  BY DEF Reset
<1>2. deposit \in Nat BY LedgerAssumption
<1>3. OrdersInv' BY <1>1 DEF OrdersInv
<1>4. OpenBuys' = OpenBuys BY <1>1 DEF OpenBuys
<1>5. ASSUME Funded PROVE Funded' BY <1>1, <1>2, <1>4, <1>5 DEF Funded
<1> QED BY <1>1, <1>2, <1>3, <1>5 DEF CashInv

\* The inductive invariant behind NeverOverdrawn: orders are numbered and filled by no
\* more than their quantity, and the cash is enough for what is open.
THEOREM LedgerInvariance == Spec => [](OrdersInv /\ CashInv)
<1>1. Init => OrdersInv /\ CashInv
  <2> SUFFICES ASSUME Init PROVE OrdersInv /\ CashInv OBVIOUS
  <2>1. /\ submitted = <<>> /\ filled = <<>> /\ known = {} /\ resting = {}
        /\ cash \in Nat /\ exposed = FALSE
    BY LedgerAssumption DEF Init
  <2>2. DOMAIN submitted = 1..0 /\ DOMAIN filled = 1..0 BY <2>1
  <2>3. OrdersInv BY <2>1, <2>2 DEF OrdersInv
  <2>4. OpenBuys = {} BY <2>1 DEF OpenBuys
  <2>5. Funded BY <2>1, <2>4 DEF Funded
  <2>6. cash \in Int BY <2>1
  <2>7. exposed \in BOOLEAN BY <2>1, Zenon
  <2> QED BY <2>3, <2>5, <2>6, <2>7 DEF CashInv
<1>2. OrdersInv /\ CashInv /\ [Next]_vars => OrdersInv' /\ CashInv'
  <2> SUFFICES ASSUME OrdersInv, CashInv, [Next]_vars PROVE OrdersInv' /\ CashInv' OBVIOUS
  <2>1. ASSUME NEW ord \in Order, Submit(ord) PROVE OrdersInv' /\ CashInv'
    BY <2>1, SubmitKeeps
  <2>2. ASSUME NEW o \in DOMAIN submitted, Cancel(o) PROVE OrdersInv' /\ CashInv'
    <3>1. o \in resting BY <2>2 DEF Cancel
    <3> QED BY <2>2, <3>1, CancelKeeps
  <2>3. ASSUME NEW o \in DOMAIN submitted, NEW qty \in 1..MaxQty, NEW price \in Prices,
               Execute(o, qty, price)
        PROVE  OrdersInv' /\ CashInv'
    BY <2>3, ExecuteKeeps
  <2>4. ASSUME NEW deposit \in Deposits, Reset(deposit) PROVE OrdersInv' /\ CashInv'
    BY <2>4, ResetKeeps
  <2>5. CASE UNCHANGED vars
    <3>1. /\ cash' = cash /\ submitted' = submitted /\ known' = known /\ filled' = filled
          /\ resting' = resting /\ exposed' = exposed
      BY <2>5 DEF vars, account, book
    <3>2. OpenBuys' = OpenBuys /\ \A a : Remaining(a)' = Remaining(a)
      BY <3>1 DEF OpenBuys, Remaining
    <3>3. OrdersInv' BY <3>1 DEF OrdersInv
    <3>4. Funded => Funded' BY <3>1, <3>2 DEF Funded
    <3> QED BY <3>1, <3>3, <3>4 DEF CashInv
  <2> QED BY <2>1, <2>2, <2>3, <2>4, <2>5 DEF Next
<1> QED BY <1>1, <1>2, PTL DEF Spec

\* As long as no two buys were open together and none went to the market, the cash
\* never runs out: what validate_order checks once, when an order comes, is enough
\* for all its executions, whatever sales, cancellations and resets come between.
THEOREM NeverOverdrawn == Spec => []NoOverdraft
<1>1. CashInv => NoOverdraft BY DEF CashInv, Funded, NoOverdraft
<1> QED BY <1>1, LedgerInvariance, PTL

-----------------------------------------------------------------------------
(* Rounding and fractions. *)

LEMMA DivMod ==
  ASSUME NEW a \in Int, NEW d \in Nat \ {0}
  PROVE  /\ a \div d \in Int /\ a % d \in 0..(d - 1)
         /\ a = d * (a \div d) + (a % d)
OBVIOUS

\* Rounding is off by half a tick at most.
LEMMA RoundNear ==
  ASSUME NEW a \in Int, NEW d \in Nat \ {0}
  PROVE  /\ Round(a, d) \in Int
         /\ -d <= 2 * (Round(a, d) * d - a) /\ 2 * (Round(a, d) * d - a) <= d
<1>1. PICK k \in Int, m \in 0..(d - 1) : k = a \div d /\ m = a % d /\ a = d * k + m
  BY DivMod
<1>2. PICK e \in Int : e = d * k /\ k * d = e /\ (k + 1) * d = e + d /\ a = e + m BY <1>1
<1>3. CASE 2 * m < d \/ (2 * m = d /\ k % 2 = 0)
  <2>1. Round(a, d) = k BY <1>1, <1>3 DEF Round
  <2>2. Round(a, d) * d - a = -m BY <1>1, <1>2, <2>1
  <2> QED BY <1>3, <2>1, <2>2
<1>4. CASE ~(2 * m < d \/ (2 * m = d /\ k % 2 = 0))
  <2>1. Round(a, d) = k + 1 BY <1>1, <1>4 DEF Round
  <2>2. Round(a, d) * d - a = d - m BY <1>1, <1>2, <2>1
  <2>3. 2 * m >= d BY <1>4
  <2> QED BY <2>1, <2>2, <2>3
<1> QED BY <1>3, <1>4

\* A ratio in lowest terms is the same fraction.
LEMMA RatioIsFraction ==
  ASSUME NEW n \in Int, NEW d \in Nat \ {0}
  PROVE  /\ Ratio(n, d) = [n |-> Ratio(n, d).n, d |-> Ratio(n, d).d]
         /\ Ratio(n, d).n \in Int /\ Ratio(n, d).d \in Nat \ {0}
         /\ Ratio(n, d).n * d = n * Ratio(n, d).d
<1> DEFINE K == {k \in 1..d : d % k = 0 /\ n % k = 0}
           R == {d - k : k \in K}
<1>1. 1 \in K
  <2>1. d % 1 = 0 /\ n % 1 = 0 OBVIOUS
  <2> QED BY <2>1
<1>2. Max(K) \in K
  <2>1. R \subseteq Nat /\ R # {} BY <1>1
  <2>2. PICK r \in R : \A s \in R : r <= s
    <3> HIDE DEF R
    <3> QED BY <2>1, LeastNatural
  <2>3. PICK k \in K : r = d - k OBVIOUS
  <2>4. \A j \in K : j <= k
    <3> SUFFICES ASSUME NEW j \in K PROVE j <= k OBVIOUS
    <3>1. r <= d - j BY <2>2
    <3> QED BY <2>3, <3>1
  <2> HIDE DEF K
  <2>5. \E y \in K : \A j \in K : y >= j
    <3>1. \A j \in K : j \in Nat BY DEF K
    <3> QED BY <2>4, <3>1
  <2> QED BY <2>5 DEF Max
<1>3. PICK g : g = Max(K) OBVIOUS
<1>4. g \in 1..d /\ d % g = 0 /\ n % g = 0 BY <1>2, <1>3
<1>5. PICK p \in Int, q \in Int : /\ p = n \div g /\ n = g * p
                                  /\ q = d \div g /\ d = g * q
  <2>1. g \in Nat \ {0} BY <1>4
  <2>2. /\ n \div g \in Int /\ n = g * (n \div g) + (n % g)
        /\ d \div g \in Int /\ d = g * (d \div g) + (d % g)
    BY <2>1, DivMod
  <2>3. g * (n \div g) \in Int /\ g * (d \div g) \in Int BY <2>1, <2>2
  <2> QED BY <1>4, <2>2, <2>3
<1>6. Ratio(n, d) = [n |-> p, d |-> q] BY <1>3, <1>5 DEF Ratio
<1>7. q > 0
  <2>1. g \in Nat /\ g > 0 BY <1>4
  <2>2. q <= 0 => g * q <= 0 BY <2>1
  <2> QED BY <1>5, <2>2
<1>8. p * (g * q) = (g * p) * q BY <1>4
<1> QED BY <1>5, <1>6, <1>7, <1>8

-----------------------------------------------------------------------------
(* One trade of a position. *)

Position == [qty : Int, avg : [n : Int, d : Nat \ {0}], realized : Int]

Traded(pos, sign, qty, price) ==
  IF Closes(pos, sign) THEN Reduced(pos, sign, qty, price) ELSE Added(pos, sign, qty, price)

LEMMA PositionFields ==
  ASSUME NEW pos \in Position
  PROVE  /\ pos.qty \in Int /\ pos.realized \in Int
         /\ pos.avg.n \in Int /\ pos.avg.d \in Nat \ {0}
BY DEF Position

\* c / D is what the position has cost at its average entry price.
Costs(c, D, pos) == c * pos.avg.d = D * (pos.qty * pos.avg.n)

\* The new position costs what the old one did and what is paid, in a finer unit.
AddsPaid(pos, sign, q, p, new) ==
  \A D \in Nat \ {0}, c \in Int :
    Costs(c, D, pos) =>
      Costs(c * pos.avg.d + (D * pos.avg.d) * (sign * (q * p)), D * pos.avg.d, new)

AddsTo(pos, sign, q, p, new) == ~Closes(pos, sign) /\ new = Added(pos, sign, q, p)

\* Adding to a position: the weighted average is the exact cost.
LEMMA AddedPosition ==
  ASSUME NEW pos \in Position, NEW sign \in {1, -1}, NEW q \in Nat \ {0}, NEW p \in Nat,
         NEW new, AddsTo(pos, sign, q, p, new)
  PROVE  /\ new \in Position /\ new.qty = pos.qty + sign * q /\ new.realized = pos.realized
         /\ AddsPaid(pos, sign, q, p, new)
<1>1. PICK y \in Int, n \in Int, d \in Nat \ {0} : y = pos.qty /\ n = pos.avg.n /\ d = pos.avg.d
  BY PositionFields
<1>2. PICK h \in Nat : h = Abs(y) /\ y = sign * h
  <2>1. sign * y >= 0 BY <1>1 DEF AddsTo, Closes
  <2>2. Abs(y) \in Nat BY DEF Abs
  <2>3. CASE sign = 1 BY <2>1, <2>2, <2>3 DEF Abs
  <2>4. CASE sign = -1
    <3>1. y <= 0 BY <2>1, <2>4
    <3>2. CASE y = 0 BY <2>2, <2>4, <3>2 DEF Abs
    <3>3. CASE y < 0
      <4>1. Abs(y) = -y BY <3>3 DEF Abs
      <4> QED BY <2>2, <2>4, <4>1
    <3> QED BY <3>1, <3>2, <3>3
  <2> QED BY <2>3, <2>4
<1>3. PICK N \in Int, E \in Nat \ {0} : N = h * n + q * p * d /\ E = d * (h + q)
  <2>1. h * n + q * p * d \in Int OBVIOUS
  <2>2. d * (h + q) \in Nat /\ d * (h + q) > 0
    <3>1. h + q \in Nat /\ h + q > 0 BY <1>2
    <3>2. d * (h + q) > 0 BY <3>1
    <3> QED BY <3>1, <3>2
  <2> QED BY <2>1, <2>2
<1>4. PICK m \in Int, f \in Nat \ {0} : Ratio(N, E) = [n |-> m, d |-> f] /\ m * E = N * f
  BY RatioIsFraction
<1>5. new = [pos EXCEPT !.qty = y + sign * q, !.avg = [n |-> m, d |-> f]]
  BY <1>1, <1>2, <1>3, <1>4 DEF AddsTo, Added
<1>6. sign \in Int /\ y + sign * q \in Int OBVIOUS
<1>7. /\ new \in Position /\ new.qty = y + sign * q /\ new.realized = pos.realized
      /\ new.avg.n = m /\ new.avg.d = f
  <2>1. PICK w \in Int : w = y + sign * q BY <1>6
  <2>2. PICK a : a = [n |-> m, d |-> f] OBVIOUS
  <2>3. a \in [n : Int, d : Nat \ {0}] /\ a.n = m /\ a.d = f BY <2>2
  <2>4. new = [pos EXCEPT !.qty = w, !.avg = a] BY <1>5, <2>1, <2>2
  <2>5. new \in Position /\ new.qty = w /\ new.avg = a /\ new.realized = pos.realized
    BY <2>3, <2>4 DEF Position
  <2> QED BY <2>1, <2>3, <2>5
<1>8. ASSUME NEW D \in Nat \ {0}, NEW c \in Int, Costs(c, D, pos)
      PROVE  Costs(c * d + (D * d) * (sign * (q * p)), D * d, new)
  <2>1. c * d = D * (y * n) BY <1>1, <1>8 DEF Costs
  <2>2. m * (d * (h + q)) = (h * n + q * p * d) * f BY <1>3, <1>4
  <2>3. (D * d) * ((y + sign * q) * m) = (D * sign) * (m * (d * (h + q))) BY <1>2, <1>6
  <2>4. (D * sign) * ((h * n + q * p * d) * f) = (D * (y * n) + (D * d) * (sign * (q * p))) * f
    BY <1>2, <1>6
  <2> QED BY <1>7, <2>1, <2>2, <2>3, <2>4 DEF Costs
<1>9. AddsPaid(pos, sign, q, p, new) BY <1>1, <1>8 DEF AddsPaid
<1> QED BY <1>1, <1>7, <1>9

\* v is half of b at most, up or down.
Off(v, b) == -b <= 2 * v /\ 2 * v <= b

LEMMA ScaleUp ==
  ASSUME NEW D \in Nat, NEW a \in Int, NEW b \in Int, a <= b
  PROVE  D * a <= D * b
OBVIOUS

\* Closing a position, or part of it, and opening the opposite one: what is off is the
\* rounding of the profit, half a tick at most.
LEMMA ReducedPosition ==
  ASSUME NEW pos \in Position, NEW sign \in {1, -1}, NEW q \in Nat \ {0}, NEW p \in Nat,
         Closes(pos, sign), NEW new, new = Reduced(pos, sign, q, p)
  PROVE  /\ new \in Position /\ new.qty = pos.qty + sign * q
         /\ \A D \in Nat \ {0}, c \in Int :
              Costs(c, D, pos) =>
                \E e \in Int :
                  /\ Costs(e, D * pos.avg.d, new)
                  /\ Off(e - (c * pos.avg.d + (D * pos.avg.d) * (sign * (q * p))
                              + (D * pos.avg.d) * (new.realized - pos.realized)),
                         D * pos.avg.d)
<1>1. PICK y \in Int, n \in Int, d \in Nat \ {0}, z \in Int :
        y = pos.qty /\ n = pos.avg.n /\ d = pos.avg.d /\ z = pos.realized
  BY PositionFields
<1>2. PICK h \in Nat : h = Abs(y) /\ y = -(sign * h)
  <2>1. sign * y < 0 BY <1>1 DEF Closes
  <2>2. CASE sign = 1
    <3>1. y < 0 BY <2>1, <2>2
    <3>2. Abs(y) = -y BY <3>1 DEF Abs
    <3> QED BY <2>2, <3>1, <3>2
  <2>3. CASE sign = -1
    <3>1. y > 0 BY <2>1, <2>3
    <3>2. Abs(y) = y BY <3>1 DEF Abs
    <3> QED BY <2>3, <3>1, <3>2
  <2> QED BY <2>2, <2>3
<1>3. PICK k \in Nat : k = Smaller(q, h) /\ k <= q /\ k <= h /\ (k = q \/ k = h) BY DEF Smaller
<1>4. PICK a \in Int : a = sign * (n - p * d) * k OBVIOUS
<1>5. PICK R \in Int : R = Round(a, d) /\ -d <= 2 * (R * d - a) /\ 2 * (R * d - a) <= d
  BY RoundNear
<1>6. PICK g : g = IF q - k > 0 THEN Ratio(p, 1) ELSE IF k = h THEN Flat.avg ELSE pos.avg
  OBVIOUS
<1>7. PICK w : w = IF q - k > 0 THEN sign * (q - k) ELSE y + sign * k OBVIOUS
<1>8. new = [qty |-> w, avg |-> g, realized |-> z + R]
  BY <1>1, <1>2, <1>3, <1>4, <1>5, <1>6, <1>7 DEF Reduced
<1>9. w \in Int /\ w = y + sign * q
  <2>1. CASE q - k > 0
    <3>0. k = h BY <1>3, <2>1
    <3>1. w = sign * (q - h) BY <1>7, <2>1, <3>0
    <3>2. PICK u \in Int, t \in Int : u = sign * q /\ t = sign * h BY <1>2
    <3>3. sign * (q - h) = u - t BY <3>2
    <3>4. w = u - t BY <3>1, <3>3
    <3>5. y = -t BY <1>2, <3>2
    <3>6. w = y + u BY <3>4, <3>5
    <3> QED BY <3>2, <3>4, <3>6
  <2>2. CASE ~(q - k > 0)
    <3>1. k = q BY <1>3, <2>2
    <3> QED BY <1>7, <2>2, <3>1
  <2> QED BY <2>1, <2>2
<1>10. g \in [n : Int, d : Nat \ {0}]
  <2>1. Ratio(p, 1) \in [n : Int, d : Nat \ {0}]
    <3>1. PICK m \in Int, f \in Nat \ {0} : Ratio(p, 1) = [n |-> m, d |-> f] BY RatioIsFraction
    <3> QED BY <3>1
  <2>2. Flat.avg \in [n : Int, d : Nat \ {0}] BY DEF Flat
  <2>3. pos.avg \in [n : Int, d : Nat \ {0}] BY DEF Position
  <2> QED BY <1>6, <2>1, <2>2, <2>3
<1>11. /\ new \in Position /\ new.qty = w /\ new.avg = g /\ new.realized = z + R
  <2>1. PICK r \in Int : r = z + R OBVIOUS
  <2> QED BY <1>8, <1>9, <1>10, <2>1 DEF Position
<1>12. ASSUME NEW D \in Nat \ {0}, NEW c \in Int, Costs(c, D, pos)
       PROVE  \E e \in Int :
                /\ Costs(e, D * d, new)
                /\ Off(e - (c * d + (D * d) * (sign * (q * p)) + (D * d) * R), D * d)
  <2>1. c * d = -((D * sign) * (h * n))
    <3>1. c * d = D * (y * n) BY <1>1, <1>12 DEF Costs
    <3>2. D * ((-(sign * h)) * n) = -((D * sign) * (h * n)) OBVIOUS
    <3> QED BY <1>2, <3>1, <3>2
  <2>2. Off(D * (a - R * d), D * d)
    <3>1. PICK b \in Int : b = a - R * d /\ -d <= 2 * b /\ 2 * b <= d BY <1>5
    <3>2. D * (2 * b) <= D * d /\ D * (-d) <= D * (2 * b) BY <3>1, ScaleUp
    <3>3. D * (2 * b) = 2 * (D * b) /\ D * (-d) = -(D * d) /\ D * b \in Int OBVIOUS
    <3> QED BY <3>1, <3>2, <3>3 DEF Off
  <2>3. CASE q - k > 0
    <3>1. k = h BY <1>3, <2>3
    <3> DEFINE e == (D * d) * (w * p)
    <3>2. e \in Int BY <1>9
    <3>3. PICK m \in Int, f \in Nat \ {0} : Ratio(p, 1) = [n |-> m, d |-> f] /\ m * 1 = p * f
      BY RatioIsFraction
    <3>4. new.avg.n = p * f /\ new.avg.d = f BY <1>6, <1>11, <2>3, <3>3
    <3>5. Costs(e, D * d, new)
      <4>1. ((D * d) * (w * p)) * f = (D * d) * (w * (p * f)) BY <1>9
      <4> QED BY <1>11, <3>4, <4>1 DEF Costs
    <3>6. e - (c * d + (D * d) * (sign * (q * p)) + (D * d) * R) = D * (a - R * d)
      <4>1. w = sign * (q - h) BY <1>7, <2>3, <3>1
      <4>2. (D * d) * ((sign * (q - h)) * p)
            - ((-((D * sign) * (h * n))) + (D * d) * (sign * (q * p)) + (D * d) * R)
            = D * (sign * (n - p * d) * h - R * d)
        BY <1>2
      <4> QED BY <1>4, <2>1, <3>1, <4>1, <4>2
    <3> QED BY <2>2, <3>2, <3>5, <3>6
  <2>4. CASE ~(q - k > 0)
    <3>1. k = q BY <1>3, <2>4
    <3> DEFINE e == D * (w * n)
    <3>2. e \in Int BY <1>9
    <3>3. Costs(e, D * d, new)
      <4>1. CASE k = h
        <5>1. w = 0 BY <1>2, <1>9, <3>1, <4>1
        <5>2. new.avg.n = 0 /\ new.avg.d = 1 BY <1>6, <1>11, <2>4, <4>1 DEF Flat
        <5>3. D * (0 * n) = 0 /\ (D * d) * (0 * 0) = 0 OBVIOUS
        <5> QED BY <1>11, <5>1, <5>2, <5>3 DEF Costs
      <4>2. CASE k # h
        <5>1. new.avg.n = n /\ new.avg.d = d BY <1>1, <1>6, <1>11, <2>4, <4>2
        <5>2. (D * (w * n)) * d = (D * d) * (w * n) BY <1>9
        <5> QED BY <1>11, <5>1, <5>2 DEF Costs
      <4> QED BY <4>1, <4>2
    <3>4. e - (c * d + (D * d) * (sign * (q * p)) + (D * d) * R) = D * (a - R * d)
      <4>1. D * ((-(sign * h) + sign * q) * n)
            - ((-((D * sign) * (h * n))) + (D * d) * (sign * (q * p)) + (D * d) * R)
            = D * (sign * (n - p * d) * q - R * d)
        OBVIOUS
      <4> QED BY <1>2, <1>4, <1>9, <2>1, <3>1, <4>1
    <3> QED BY <2>2, <3>2, <3>3, <3>4
  <2> QED BY <2>3, <2>4
<1>13. new.realized - pos.realized = R BY <1>1, <1>11
<1> QED BY <1>1, <1>9, <1>11, <1>12, <1>13

-----------------------------------------------------------------------------
(* Positions and the orders they come from. *)

PositionsInv ==
  /\ positions \in [Symbols -> Position] /\ known \subseteq DOMAIN submitted
  /\ PositionsFromKnownOrders

\* What booking a trade does to the account.
LEMMA TradeBooked ==
  ASSUME positions \in [Symbols -> Position], NEW x \in Symbols, NEW side,
         NEW q \in Nat \ {0}, NEW p \in Nat, OnTradeExecuted(x, side, q, p)
  PROVE  /\ Signed(side, 1) \in {1, -1}
         /\ positions' \in [Symbols -> Position]
         /\ positions'[x] = Traded(positions[x], Signed(side, 1), q, p)
         /\ positions'[x].qty = positions[x].qty + Signed(side, 1) * q
         /\ \A y \in Symbols : y # x => positions'[y] = positions[y]
         /\ cash' = cash - Signed(side, 1) * q * p /\ initial' = initial
         /\ rounded' = rounded + (IF Closes(positions[x], Signed(side, 1)) THEN 1 ELSE 0)
<1>1. PICK sign \in {1, -1} : sign = Signed(side, 1) BY DEF Signed
<1>2. PICK pos \in Position : pos = positions[x] OBVIOUS
<1>3. PICK new : new = Traded(pos, sign, q, p) OBVIOUS
<1>4. new \in Position /\ new.qty = pos.qty + sign * q
  <2>1. CASE Closes(pos, sign)
    <3>1. new = Reduced(pos, sign, q, p) BY <1>3, <2>1 DEF Traded
    <3> QED BY <2>1, <3>1, ReducedPosition
  <2>2. CASE ~Closes(pos, sign)
    <3>1. new = Added(pos, sign, q, p) BY <1>3, <2>2 DEF Traded
    <3>2. AddsTo(pos, sign, q, p, new) BY <2>2, <3>1 DEF AddsTo
    <3> QED BY <3>2, AddedPosition
  <2> QED BY <2>1, <2>2
<1>5. positions' = [positions EXCEPT ![x] = new]
  BY <1>1, <1>2, <1>3 DEF OnTradeExecuted, Traded
<1>6. /\ positions' \in [Symbols -> Position] /\ positions'[x] = new
      /\ \A y \in Symbols : y # x => positions'[y] = positions[y]
  BY <1>4, <1>5
<1>7. /\ cash' = cash - sign * q * p /\ initial' = initial
      /\ rounded' = rounded + (IF Closes(pos, sign) THEN 1 ELSE 0)
  BY <1>1, <1>2 DEF OnTradeExecuted
<1> QED BY <1>1, <1>2, <1>3, <1>4, <1>6, <1>7

LEMMA SignedType ==
  ASSUME NEW side, NEW n \in Int
  PROVE  Signed(side, n) \in Int
BY DEF Signed

LEMMA Opposite ==
  ASSUME NEW k \in Int, NEW m \in Int, m = -k
  PROVE  m + k = 0
OBVIOUS

LEMMA SignedSum ==
  ASSUME NEW side, NEW n \in Int, NEW q \in Int
  PROVE  Signed(side, n + q) - Signed(side, n) = Signed(side, 1) * q
<1>1. CASE side = "BUY"
  <2>1. Signed(side, n + q) = n + q /\ Signed(side, n) = n /\ Signed(side, 1) = 1
    BY <1>1 DEF Signed
  <2> QED BY <2>1
<1>2. CASE side # "BUY"
  <2>1. Signed(side, n + q) = -(n + q) /\ Signed(side, n) = -n /\ Signed(side, 1) = -1
    BY <1>2 DEF Signed
  <2>2. (-1) * q = -q OBVIOUS
  <2> QED BY <2>1, <2>2
<1> QED BY <1>1, <1>2

\* What the sums over the known orders of a symbol run over.
LEMMA KnownOrders ==
  ASSUME OrdersInv, known \subseteq DOMAIN submitted, NEW x
  PROVE  /\ IsFiniteSet(KnownOf(x)) /\ KnownOf(x) \subseteq DOMAIN submitted
         /\ \A o \in DOMAIN submitted :
              /\ Executed[o] = Signed(submitted[o].side, filled[o])
              /\ Executed[o] \in Int
<1>1. PICK n \in Nat : DOMAIN submitted = 1..n BY DEF OrdersInv
<1>2. IsFiniteSet(1..n) BY FS_Interval
<1>3. KnownOf(x) \subseteq 1..n BY <1>1 DEF KnownOf
<1>4. IsFiniteSet(KnownOf(x)) BY <1>2, <1>3, FS_Subset
<1>5. ASSUME NEW o \in DOMAIN submitted
      PROVE  Executed[o] = Signed(submitted[o].side, filled[o]) /\ Executed[o] \in Int
  <2>1. filled[o] \in Nat BY OrderTypes
  <2>2. Executed[o] = Signed(submitted[o].side, filled[o]) BY DEF Executed
  <2> QED BY <2>1, <2>2, SignedType
<1> QED BY <1>1, <1>3, <1>4, <1>5

\* A new order has executed nothing.
LEMMA SubmitPositions ==
  ASSUME OrdersInv, OrdersInv', PositionsInv, NEW ord \in Order, Submit(ord)
  PROVE  PositionsInv'
<1>1. PICK n \in Nat : DOMAIN submitted = 1..n /\ DOMAIN filled = 1..n BY DEF OrdersInv
<1>2. /\ DOMAIN submitted' = 1..(n + 1) /\ DOMAIN filled' = 1..(n + 1)
      /\ submitted'[n + 1] = ord /\ filled'[n + 1] = 0
      /\ \A o \in 1..n : submitted'[o] = submitted[o] /\ filled'[o] = filled[o]
      /\ known' = known \cup {n + 1}
  BY <1>1, SubmitRecords
<1>3. known \subseteq 1..n /\ known' \subseteq DOMAIN submitted' BY <1>1, <1>2 DEF PositionsInv
<1>4. positions' = positions BY DEF Submit, account
<1>5. ASSUME NEW x \in Symbols
      PROVE  SumFunctionOnSet(Executed', KnownOf(x)') = SumFunctionOnSet(Executed, KnownOf(x))
  <2>1. PICK f, g, K, L : f = Executed /\ g = Executed' /\ K = KnownOf(x) /\ L = KnownOf(x)'
    OBVIOUS
  <2>2. /\ IsFiniteSet(K) /\ K \subseteq 1..n
        /\ \A o \in 1..n : f[o] = Signed(submitted[o].side, filled[o]) /\ f[o] \in Int
    BY <1>1, <1>3, <2>1, KnownOrders
  <2>3. /\ IsFiniteSet(L) /\ L \subseteq 1..(n + 1)
        /\ \A o \in 1..(n + 1) : g[o] = Signed(submitted'[o].side, filled'[o]) /\ g[o] \in Int
    <3>1. L \subseteq 1..(n + 1) BY <1>2, <1>3, <2>1 DEF KnownOf
    <3>2. IsFiniteSet(1..(n + 1)) BY FS_Interval
    <3>3. IsFiniteSet(L) BY <3>1, <3>2, FS_Subset
    <3>4. ASSUME NEW o \in 1..(n + 1)
          PROVE  g[o] = Signed(submitted'[o].side, filled'[o]) /\ g[o] \in Int
      <4>1. submitted'[o] \in Order /\ filled'[o] \in 0..submitted'[o].qty
        BY <1>2 DEF OrdersInv
      <4>2. filled'[o] \in Int BY <4>1, OrderFields
      <4>3. g[o] = Signed(submitted'[o].side, filled'[o]) BY <1>2, <2>1 DEF Executed
      <4> QED BY <4>2, <4>3, SignedType
    <3> QED BY <3>1, <3>3, <3>4
  <2>4. \A o \in K : o \in 1..n /\ f[o] = g[o] BY <1>2, <2>2, <2>3
  <2>5. SumFunctionOnSet(g, K) = SumFunctionOnSet(f, K) BY <2>2, <2>4, SumSame
  <2>6. \A o \in K : o # n + 1 BY <2>2
  <2>7. CASE ord.symbol = x
    <3>1. L = K \cup {n + 1} BY <1>1, <1>2, <1>3, <2>1, <2>7 DEF KnownOf
    <3>2. n + 1 \in L /\ L \ {n + 1} = K BY <2>6, <3>1
    <3>3. \A o \in L : g[o] \in Int BY <2>3
    <3>4. SumFunctionOnSet(g, L) = g[n + 1] + SumFunctionOnSet(g, L \ {n + 1})
      <4>1. \A m \in L : SumFunctionOnSet(g, L) = g[m] + SumFunctionOnSet(g, L \ {m})
        BY <2>3, <3>3, SumTakeOut
      <4> QED BY <3>2, <4>1
    <3>5. g[n + 1] = 0
      <4>1. n + 1 \in 1..(n + 1) OBVIOUS
      <4>2. PICK k \in Int : k = filled'[n + 1] /\ k = 0 BY <1>2
      <4>3. g[n + 1] = Signed(ord.side, k) BY <1>2, <2>3, <4>1, <4>2
      <4>4. g[n + 1] = IF ord.side = "BUY" THEN k ELSE -k BY <4>3 DEF Signed
      <4>5. g[n + 1] \in Int BY <2>3, <4>1
      <4>6. g[n + 1] = k \/ g[n + 1] + k = 0 BY <4>4, <4>5, Opposite
      <4> QED BY <4>2, <4>5, <4>6
    <3>6. SumFunctionOnSet(f, K) \in Int BY <2>2, SumType
    <3> QED BY <2>1, <2>5, <3>2, <3>4, <3>5, <3>6
  <2>8. CASE ord.symbol # x
    <3>1. L = K BY <1>1, <1>2, <1>3, <2>1, <2>8 DEF KnownOf
    <3> QED BY <2>1, <2>5, <3>1
  <2> QED BY <2>7, <2>8
<1> QED BY <1>3, <1>4, <1>5 DEF PositionsInv, PositionsFromKnownOrders

\* What an execution adds to an order it adds to the position, unless a reset has
\* forgotten the order; then it is in neither.
LEMMA ExecutePositions ==
  ASSUME OrdersInv, OrdersInv', PositionsInv, NEW o \in DOMAIN submitted,
         NEW qty \in 1..MaxQty, NEW price \in Prices, Execute(o, qty, price)
  PROVE  PositionsInv'
<1>1. /\ qty \in Nat \ {0} /\ price \in Nat /\ submitted' = submitted /\ known' = known
  BY ExecuteRecords
<1>2. PICK n \in Nat : DOMAIN submitted = 1..n /\ DOMAIN filled = 1..n BY DEF OrdersInv
<1>3. /\ known \subseteq DOMAIN submitted /\ known' \subseteq DOMAIN submitted'
      /\ positions \in [Symbols -> Position]
  BY <1>1 DEF PositionsInv
<1>4. /\ \A a \in DOMAIN submitted : a # o => filled'[a] = filled[a]
      /\ filled'[o] = filled[o] + qty
  BY <1>2 DEF Execute
<1>5. \A x : KnownOf(x)' = KnownOf(x) BY <1>1 DEF KnownOf
<1>6. submitted[o].symbol \in Symbols BY DEF OrdersInv, Order
<1>7. ASSUME NEW x
      PROVE  /\ o \notin KnownOf(x) =>
                  SumFunctionOnSet(Executed', KnownOf(x)) = SumFunctionOnSet(Executed, KnownOf(x))
             /\ o \in KnownOf(x) =>
                  SumFunctionOnSet(Executed', KnownOf(x))
                  = SumFunctionOnSet(Executed, KnownOf(x)) + Signed(submitted[o].side, 1) * qty
  <2>1. PICK f, g, K : f = Executed /\ g = Executed' /\ K = KnownOf(x) OBVIOUS
  <2>2. /\ IsFiniteSet(K) /\ K \subseteq DOMAIN submitted
        /\ \A a \in DOMAIN submitted : f[a] = Signed(submitted[a].side, filled[a]) /\ f[a] \in Int
    BY <1>3, <2>1, KnownOrders
  <2>3. \A a \in DOMAIN submitted : g[a] = Signed(submitted[a].side, filled'[a]) /\ g[a] \in Int
    <3> SUFFICES ASSUME NEW a \in DOMAIN submitted
                 PROVE  g[a] = Signed(submitted[a].side, filled'[a]) /\ g[a] \in Int
      OBVIOUS
    <3>1. submitted[a] \in Order /\ filled'[a] \in 0..submitted[a].qty
      BY <1>1 DEF OrdersInv
    <3>2. filled'[a] \in Int BY <3>1, OrderFields
    <3>3. g[a] = Signed(submitted[a].side, filled'[a]) BY <1>1, <2>1 DEF Executed
    <3> QED BY <3>2, <3>3, SignedType
  <2>4. \A a \in DOMAIN submitted : a # o => g[a] = f[a] BY <1>4, <2>2, <2>3
  <2>5. ASSUME o \notin K PROVE SumFunctionOnSet(g, K) = SumFunctionOnSet(f, K)
    <3>1. \A a \in K : g[a] = f[a] BY <2>2, <2>4, <2>5
    <3> QED BY <2>2, <3>1, SumSame
  <2>6. ASSUME o \in K
        PROVE  SumFunctionOnSet(g, K)
               = SumFunctionOnSet(f, K) + Signed(submitted[o].side, 1) * qty
    <3>1. \A a \in K : f[a] \in Int /\ g[a] \in Int /\ (a # o => g[a] = f[a])
      BY <2>2, <2>3, <2>4
    <3>2. SumFunctionOnSet(g, K) = SumFunctionOnSet(f, K) + (g[o] - f[o])
      BY <2>2, <2>6, <3>1, SumChange
    <3>3. g[o] - f[o] = Signed(submitted[o].side, 1) * qty
      <4>1. filled[o] \in Int /\ qty \in Int BY <1>1, OrderTypes
      <4>2. g[o] = Signed(submitted[o].side, filled[o] + qty) BY <1>4, <2>3
      <4>3. f[o] = Signed(submitted[o].side, filled[o]) BY <2>2
      <4> QED BY <4>1, <4>2, <4>3, SignedSum
    <3> QED BY <3>2, <3>3
  <2> QED BY <2>1, <2>5, <2>6
<1>8. CASE o \notin known
  <2>1. positions' = positions BY <1>8 DEF Execute, account
  <2>2. \A x : o \notin KnownOf(x) BY <1>8 DEF KnownOf
  <2>3. \A x \in Symbols : positions[x].qty = SumFunctionOnSet(Executed', KnownOf(x))
    BY <1>7, <2>2 DEF PositionsInv, PositionsFromKnownOrders
  <2> QED BY <1>3, <1>5, <2>1, <2>3 DEF PositionsInv, PositionsFromKnownOrders
<1>9. CASE o \in known
  <2>1. PICK s \in Symbols : s = submitted[o].symbol BY <1>6
  <2>2. OnTradeExecuted(s, submitted[o].side, qty, price) BY <1>9, <2>1 DEF Execute
  <2>3. /\ positions' \in [Symbols -> Position]
        /\ positions'[s].qty = positions[s].qty + Signed(submitted[o].side, 1) * qty
        /\ \A y \in Symbols : y # s => positions'[y] = positions[y]
    BY <1>1, <1>3, <2>2, TradeBooked
  <2>4. \A x : o \in KnownOf(x) <=> x = s BY <1>9, <2>1 DEF KnownOf
  <2>5. ASSUME NEW x \in Symbols
        PROVE  positions'[x].qty = SumFunctionOnSet(Executed', KnownOf(x))
    <3>1. positions[x].qty = SumFunctionOnSet(Executed, KnownOf(x))
      BY DEF PositionsInv, PositionsFromKnownOrders
    <3>2. CASE x = s BY <1>7, <2>3, <2>4, <3>1, <3>2
    <3>3. CASE x # s BY <1>7, <2>3, <2>4, <3>1, <3>3
    <3> QED BY <3>2, <3>3
  <2> QED BY <1>3, <1>5, <2>3, <2>5 DEF PositionsInv, PositionsFromKnownOrders
<1> QED BY <1>8, <1>9

LEMMA FlatPosition == Flat \in Position
<1>1. Flat.avg \in [n : Int, d : Nat \ {0}] BY DEF Flat
<1> QED BY <1>1 DEF Flat, Position

\* A position is what the known orders have executed: fills in parts, turned positions,
\* resets and orders that a reset has forgotten do not make the two drift apart.
THEOREM PositionsAddUp == Spec => []PositionsFromKnownOrders
<1>1. Init => PositionsInv
  <2> SUFFICES ASSUME Init PROVE PositionsInv OBVIOUS
  <2>1. positions = [x \in Symbols |-> Flat] /\ known = {} /\ Flat.qty = 0 BY DEF Init, Flat
  <2>2. positions \in [Symbols -> Position] BY <2>1, FlatPosition
  <2>3. \A x : KnownOf(x) = {} BY <2>1 DEF KnownOf
  <2>4. SumFunctionOnSet(Executed, {}) = 0 BY SumEmpty
  <2> QED BY <2>1, <2>2, <2>3, <2>4 DEF PositionsInv, PositionsFromKnownOrders
<1>2. OrdersInv /\ OrdersInv' /\ PositionsInv /\ [Next]_vars => PositionsInv'
  <2> SUFFICES ASSUME OrdersInv, OrdersInv', PositionsInv, [Next]_vars PROVE PositionsInv'
    OBVIOUS
  <2>1. ASSUME NEW ord \in Order, Submit(ord) PROVE PositionsInv' BY <2>1, SubmitPositions
  <2>2. ASSUME /\ submitted' = submitted /\ known' = known /\ filled' = filled
               /\ positions' = positions
        PROVE  PositionsInv'
    <3>1. Executed' = Executed BY <2>2 DEF Executed
    <3>2. \A x : KnownOf(x)' = KnownOf(x) BY <2>2 DEF KnownOf
    <3> QED BY <2>2, <3>1, <3>2 DEF PositionsInv, PositionsFromKnownOrders
  <2>3. ASSUME NEW o \in DOMAIN submitted, Cancel(o) PROVE PositionsInv'
    BY <2>2, <2>3 DEF Cancel, account
  <2>4. ASSUME NEW o \in DOMAIN submitted, NEW qty \in 1..MaxQty, NEW price \in Prices,
               Execute(o, qty, price)
        PROVE  PositionsInv'
    BY <2>4, ExecutePositions
  <2>5. ASSUME NEW deposit \in Deposits, Reset(deposit) PROVE PositionsInv'
    <3>1. positions' = [x \in Symbols |-> Flat] /\ known' = {} /\ Flat.qty = 0
      BY <2>5 DEF Reset, Flat
    <3>2. positions' \in [Symbols -> Position] BY <3>1, FlatPosition
    <3>3. \A x : KnownOf(x)' = {} BY <3>1 DEF KnownOf
    <3>4. SumFunctionOnSet(Executed', {}) = 0 BY SumEmpty
    <3> QED BY <3>1, <3>2, <3>3, <3>4 DEF PositionsInv, PositionsFromKnownOrders
  <2>6. CASE UNCHANGED vars BY <2>2, <2>6 DEF vars, account, book
  <2> QED BY <2>1, <2>3, <2>4, <2>5, <2>6 DEF Next
<1>3. PositionsInv => PositionsFromKnownOrders BY DEF PositionsInv
<1> QED BY <1>1, <1>2, <1>3, LedgerInvariance, PTL DEF Spec

-----------------------------------------------------------------------------
(* The accounting identity.  At their average entry prices the positions   *)
(* have cost what left the cash, but for the rounding of profits: D is a    *)
(* common denominator of those prices, c[x] / D the cost of a position.    *)

CostBalance(D, c) ==
  /\ \A x \in Symbols : Costs(c[x], D, positions[x])
  /\ Off(D * (cash - initial - Realized) + SumFunctionOnSet(c, Symbols), D * rounded)

AccountInv ==
  /\ positions \in [Symbols -> Position] /\ cash \in Int /\ initial \in Int /\ rounded \in Nat
  /\ \E D \in Nat \ {0}, c \in [Symbols -> Int] : CostBalance(D, c)

\* A trade costs what is paid for it and the profit booked on it.
LEMMA TradedCost ==
  ASSUME NEW pos \in Position, NEW sign \in {1, -1}, NEW q \in Nat \ {0}, NEW p \in Nat,
         NEW new, new = Traded(pos, sign, q, p),
         NEW D \in Nat \ {0}, NEW c \in Int, Costs(c, D, pos)
  PROVE  \E e \in Int :
           /\ Costs(e, D * pos.avg.d, new)
           /\ Off(e - (c * pos.avg.d + (D * pos.avg.d) * (sign * (q * p))
                       + (D * pos.avg.d) * (new.realized - pos.realized)),
                  (D * pos.avg.d) * (IF Closes(pos, sign) THEN 1 ELSE 0))
<1>1. CASE Closes(pos, sign)
  <2>1. new = Reduced(pos, sign, q, p) BY <1>1 DEF Traded
  <2>2. (D * pos.avg.d) * 1 = D * pos.avg.d BY PositionFields
  <2>3. \A F \in Nat \ {0}, b \in Int :
          Costs(b, F, pos) =>
            \E e \in Int :
              /\ Costs(e, F * pos.avg.d, new)
              /\ Off(e - (b * pos.avg.d + (F * pos.avg.d) * (sign * (q * p))
                          + (F * pos.avg.d) * (new.realized - pos.realized)),
                     F * pos.avg.d)
    BY <1>1, <2>1, ReducedPosition
  <2>4. \E e \in Int :
          /\ Costs(e, D * pos.avg.d, new)
          /\ Off(e - (c * pos.avg.d + (D * pos.avg.d) * (sign * (q * p))
                      + (D * pos.avg.d) * (new.realized - pos.realized)),
                 D * pos.avg.d)
    BY <2>3
  <2> QED BY <1>1, <2>2, <2>4
<1>2. CASE ~Closes(pos, sign)
  <2>1. AddsTo(pos, sign, q, p, new) BY <1>2 DEF Traded, AddsTo
  <2>2. new.realized = pos.realized /\ Costs(c * pos.avg.d + (D * pos.avg.d) * (sign * (q * p)),
                                             D * pos.avg.d, new)
    <3>1. AddsPaid(pos, sign, q, p, new) /\ new.realized = pos.realized
      BY <2>1, AddedPosition
    <3> QED BY <3>1 DEF AddsPaid
  <2>3. PICK d \in Nat \ {0}, z \in Int : d = pos.avg.d /\ z = pos.realized BY PositionFields
  <2>4. PICK e \in Int : e = c * d + (D * d) * (sign * (q * p)) OBVIOUS
  <2>5. e - (e + (D * d) * (z - z)) = 0 BY <2>4
  <2>6. Off(0, (D * d) * 0)
    <3>1. (D * d) * 0 = 0 BY <2>3
    <3>2. Off(0, 0) BY DEF Off
    <3> QED BY <3>1, <3>2
  <2> QED BY <1>2, <2>2, <2>3, <2>4, <2>5, <2>6
<1> QED BY <1>1, <1>2

LEMMA OffSum ==
  ASSUME NEW u \in Int, NEW v \in Int, NEW a \in Int, NEW b \in Int, Off(u, a), Off(v, b)
  PROVE  Off(u + v, a + b)
BY DEF Off

LEMMA OffScaled ==
  ASSUME NEW d \in Nat, NEW v \in Int, NEW b \in Int, Off(v, b)
  PROVE  Off(d * v, d * b)
<1>1. -b <= 2 * v /\ 2 * v <= b BY DEF Off
<1>2. d * (-b) <= d * (2 * v) /\ d * (2 * v) <= d * b BY <1>1, ScaleUp
<1>3. d * (-b) = -(d * b) /\ d * (2 * v) = 2 * (d * v) OBVIOUS
<1> QED BY <1>2, <1>3 DEF Off

\* Booking a trade keeps the balance, in a finer unit.
LEMMA BalanceKept ==
  ASSUME AccountInv, NEW x \in Symbols, NEW side, NEW q \in Nat \ {0}, NEW p \in Nat,
         OnTradeExecuted(x, side, q, p)
  PROVE  AccountInv'
<1>1. /\ positions \in [Symbols -> Position] /\ cash \in Int /\ initial \in Int /\ rounded \in Nat
  BY DEF AccountInv
<1>2. PICK D \in Nat \ {0}, c \in [Symbols -> Int] : CostBalance(D, c) BY DEF AccountInv
<1>3. PICK sign \in {1, -1} : sign = Signed(side, 1) BY DEF Signed
<1>4. PICK pos \in Position : pos = positions[x] BY <1>1
<1>5. PICK new : new = Traded(pos, sign, q, p) OBVIOUS
<1>6. PICK k \in {0, 1} : k = IF Closes(pos, sign) THEN 1 ELSE 0 OBVIOUS
<1>7. /\ positions' \in [Symbols -> Position] /\ positions'[x] = new
      /\ \A y \in Symbols : y # x => positions'[y] = positions[y]
      /\ cash' = cash - sign * q * p /\ initial' = initial /\ rounded' = rounded + k
  BY <1>1, <1>3, <1>4, <1>5, <1>6, TradeBooked
<1>8. PICK d \in Nat \ {0}, z \in Int : d = pos.avg.d /\ z = pos.realized
  BY PositionFields
<1>9. new \in Position BY <1>7
<1>10. PICK z1 \in Int : z1 = new.realized BY <1>9, PositionFields
<1>11. PICK cx \in Int : cx = c[x] OBVIOUS
<1>12. Costs(cx, D, pos) BY <1>2, <1>4, <1>11 DEF CostBalance
<1>13. PICK e \in Int :
         /\ Costs(e, D * d, new)
         /\ Off(e - (cx * d + (D * d) * (sign * (q * p)) + (D * d) * (z1 - z)), (D * d) * k)
  <2>1. \E e \in Int :
          /\ Costs(e, D * pos.avg.d, new)
          /\ Off(e - (cx * pos.avg.d + (D * pos.avg.d) * (sign * (q * p))
                      + (D * pos.avg.d) * (new.realized - pos.realized)),
                 (D * pos.avg.d) * (IF Closes(pos, sign) THEN 1 ELSE 0))
    BY <1>5, <1>12, TradedCost
  <2> QED BY <1>6, <1>8, <1>10, <2>1
<1>14. PICK D2 \in Nat \ {0} : D2 = D * d
  <2>1. D * d \in Nat /\ D * d > 0 OBVIOUS
  <2> QED BY <2>1
<1> DEFINE scaled == [y \in Symbols |-> d * c[y]]
           c2 == [y \in Symbols |-> IF y = x THEN e ELSE d * c[y]]
<1>15. /\ \A y \in Symbols : scaled[y] = d * c[y] /\ scaled[y] \in Int
       /\ c2 \in [Symbols -> Int] /\ c2[x] = e
       /\ \A y \in Symbols : y # x => c2[y] = d * c[y]
  OBVIOUS
<1>16. IsFiniteSet(Symbols) BY LedgerAssumption
<1>17. PICK S \in Int : S = SumFunctionOnSet(c, Symbols) BY <1>16, SumType
<1>18. SumFunctionOnSet(c2, Symbols) = d * S + (e - d * cx)
  <2> HIDE DEF scaled, c2
  <2>1. SumFunctionOnSet(scaled, Symbols) = d * S BY <1>15, <1>16, <1>17, SumScaled
  <2>2. \A y \in Symbols : scaled[y] \in Int /\ c2[y] \in Int /\ (y # x => c2[y] = scaled[y])
    BY <1>15
  <2>3. SumFunctionOnSet(c2, Symbols) = SumFunctionOnSet(scaled, Symbols) + (c2[x] - scaled[x])
    BY <1>16, <2>2, SumChange
  <2> QED BY <1>11, <1>15, <2>1, <2>3
<1> HIDE DEF scaled, c2
<1>19. PICK R \in Int : R = Realized /\ Realized' = R + (z1 - z)
  <2> DEFINE f == [y \in Symbols |-> positions[y].realized]
             g == [y \in Symbols |-> positions'[y].realized]
  <2>1. Realized = SumFunctionOnSet(f, Symbols) BY DEF Realized, SumFunction
  <2>2. Realized' = SumFunctionOnSet(g, Symbols) BY DEF Realized, SumFunction
  <2>3. \A y \in Symbols : f[y] \in Int /\ g[y] \in Int /\ (y # x => g[y] = f[y])
    BY <1>1, <1>7, PositionFields
  <2>4. g[x] - f[x] = z1 - z BY <1>4, <1>7, <1>8, <1>10
  <2> HIDE DEF f, g
  <2>5. /\ SumFunctionOnSet(f, Symbols) \in Int
        /\ SumFunctionOnSet(g, Symbols) = SumFunctionOnSet(f, Symbols) + (g[x] - f[x])
    BY <1>16, <2>3, SumChange
  <2> QED BY <2>1, <2>2, <2>4, <2>5
<1>20. PICK T \in Int : T = D * (cash - initial - R) + S /\ Off(T, D * rounded)
  <2>1. D * (cash - initial - R) + S \in Int BY <1>1
  <2> QED BY <1>2, <1>17, <1>19, <2>1 DEF CostBalance
<1>21. PICK V \in Int : /\ V = e - (cx * d + (D * d) * (sign * (q * p)) + (D * d) * (z1 - z))
                        /\ Off(V, (D * d) * k)
  BY <1>13
<1>22. D2 * (cash' - initial' - Realized') + SumFunctionOnSet(c2, Symbols) = d * T + V
  <2>1. PICK m \in Int : m = cash - initial - R /\ T = D * m + S BY <1>1, <1>20
  <2>2. PICK t \in Int : t = q * p OBVIOUS
  <2>3. cash' - initial' - Realized' = m - sign * t - (z1 - z)
    <3>1. PICK a \in Int, i \in Int : a = cash /\ i = initial BY <1>1
    <3>2. sign * q * p = sign * t BY <2>2
    <3>3. PICK u \in Int : u = sign * t BY <2>2
    <3> QED BY <1>7, <1>19, <2>1, <3>1, <3>2, <3>3
  <2>4. (D * d) * (m - sign * t - (z1 - z)) + (d * S + (e - d * cx))
        = d * (D * m + S) + (e - (cx * d + (D * d) * (sign * t) + (D * d) * (z1 - z)))
    OBVIOUS
  <2> QED BY <1>14, <1>18, <1>21, <2>1, <2>2, <2>3, <2>4
<1>23. Off(d * T + V, D2 * rounded')
  <2>1. PICK r \in Nat : r = rounded BY <1>1
  <2>2. Off(d * T, d * (D * r))
    <3>1. PICK b \in Int : b = D * r BY <2>1
    <3>2. Off(T, b) BY <1>20, <2>1, <3>1
    <3>3. Off(d * T, d * b) BY <3>2, OffScaled
    <3> QED BY <3>1, <3>3
  <2>3. Off(d * T + V, d * (D * r) + (D * d) * k)
    <3>1. d * T \in Int /\ d * (D * r) \in Int /\ (D * d) * k \in Int OBVIOUS
    <3> QED BY <1>21, <2>2, <3>1, OffSum
  <2>4. d * (D * r) + (D * d) * k = (D * d) * (r + k) OBVIOUS
  <2> QED BY <1>7, <1>14, <2>1, <2>3, <2>4
<1>24. ASSUME NEW y \in Symbols PROVE Costs(c2[y], D2, positions'[y])
  <2>1. CASE y = x BY <1>7, <1>13, <1>14, <1>15, <2>1
  <2>2. CASE y # x
    <3>1. PICK h \in Int, n \in Int, f \in Nat \ {0} :
            h = positions[y].qty /\ n = positions[y].avg.n /\ f = positions[y].avg.d
      BY <1>1, PositionFields
    <3>2. PICK b \in Int : b = c[y] OBVIOUS
    <3>3. b * f = D * (h * n) BY <1>2, <3>1, <3>2 DEF CostBalance, Costs
    <3>4. (d * b) * f = d * (b * f) /\ d * (D * (h * n)) = (D * d) * (h * n) OBVIOUS
    <3>5. c2[y] = d * b /\ positions'[y] = positions[y] BY <1>7, <1>15, <2>2, <3>2
    <3> QED BY <1>14, <3>1, <3>3, <3>4, <3>5 DEF Costs
  <2> QED BY <2>1, <2>2
<1>25. CostBalance(D2, c2)' BY <1>22, <1>23, <1>24 DEF CostBalance
<1>26. cash' \in Int /\ initial' \in Int /\ rounded' \in Nat
  <2>1. sign * q * p \in Int OBVIOUS
  <2> QED BY <1>1, <1>7, <2>1
<1> QED BY <1>7, <1>14, <1>15, <1>25, <1>26 DEF AccountInv

\* Without positions nothing has been booked and nothing has cost anything.
LEMMA FlatBalance ==
  ASSUME NEW P, P = [x \in Symbols |-> Flat]
  PROVE  /\ P \in [Symbols -> Position]
         /\ SumFunctionOnSet([x \in Symbols |-> P[x].realized], Symbols) = 0
         /\ \E zero \in [Symbols -> Int] :
              /\ \A x \in Symbols : Costs(zero[x], 1, P[x])
              /\ SumFunctionOnSet(zero, Symbols) = 0
<1> DEFINE zero == [x \in Symbols |-> 0]
           f == [x \in Symbols |-> P[x].realized]
<1>0. IsFiniteSet(Symbols) BY LedgerAssumption
<1>1. P \in [Symbols -> Position] BY FlatPosition
<1>2. \A x \in Symbols : P[x].qty = 0 /\ P[x].realized = 0 /\ P[x].avg.d = 1 BY DEF Flat
<1>3. SumFunctionOnSet(f, Symbols) = 0
  <2>1. \A x \in Symbols : f[x] = 0 BY <1>2
  <2> HIDE DEF f
  <2> QED BY <1>0, <2>1, SumZero
<1>4. SumFunctionOnSet(zero, Symbols) = 0 BY <1>0, SumZero
<1>5. ASSUME NEW x \in Symbols PROVE Costs(zero[x], 1, P[x])
  <2>1. PICK n \in Int : n = P[x].avg.n BY <1>1, PositionFields
  <2>2. 0 * 1 = 1 * (0 * n) OBVIOUS
  <2> QED BY <1>2, <2>1, <2>2 DEF Costs
<1>6. zero \in [Symbols -> Int] OBVIOUS
<1> HIDE DEF zero
<1> QED BY <1>1, <1>3, <1>4, <1>5, <1>6

\* The account as it starts, also after a reset.
LEMMA StartBalance ==
  ASSUME positions = [x \in Symbols |-> Flat], cash = initial, initial \in Nat, rounded = 0
  PROVE  AccountInv
<1>1. positions \in [Symbols -> Position] /\ Realized = 0
  BY FlatBalance DEF Realized, SumFunction
<1>2. PICK zero \in [Symbols -> Int] : /\ \A x \in Symbols : Costs(zero[x], 1, positions[x])
                                      /\ SumFunctionOnSet(zero, Symbols) = 0
  BY FlatBalance
<1>3. 1 * (cash - initial - Realized) + SumFunctionOnSet(zero, Symbols) = 0 BY <1>1, <1>2
<1>4. Off(0, 1 * rounded) BY DEF Off
<1>5. CostBalance(1, zero) BY <1>2, <1>3, <1>4 DEF CostBalance
<1> QED BY <1>1, <1>5 DEF AccountInv

LEMMA ResetBalance ==
  ASSUME NEW deposit \in Deposits, Reset(deposit)
  PROVE  AccountInv'
<1>0. /\ positions' = [x \in Symbols |-> Flat] /\ cash' = initial' /\ rounded' = 0
      /\ initial' \in Nat
  BY LedgerAssumption DEF Reset
<1>1. positions' \in [Symbols -> Position] /\ Realized' = 0
  BY <1>0, FlatBalance DEF Realized, SumFunction
<1>2. PICK zero \in [Symbols -> Int] : /\ \A x \in Symbols : Costs(zero[x], 1, positions'[x])
                                      /\ SumFunctionOnSet(zero, Symbols) = 0
  BY <1>0, FlatBalance
<1>3. 1 * (cash' - initial' - Realized') + SumFunctionOnSet(zero, Symbols) = 0
  <2>1. PICK i \in Nat : i = initial' /\ i = cash' BY <1>0
  <2>2. 1 * (i - i - 0) + 0 = 0 OBVIOUS
  <2> QED BY <1>1, <1>2, <2>1, <2>2
<1>4. Off(0, 1 * rounded') BY <1>0 DEF Off
<1>5. CostBalance(1, zero)' BY <1>2, <1>3, <1>4 DEF CostBalance
<1> QED BY <1>0, <1>1, <1>5 DEF AccountInv

\* The account and what its balance depends on stay as they are.
LEMMA AccountSame ==
  ASSUME AccountInv, UNCHANGED account
  PROVE  AccountInv'
<1>1. /\ positions' = positions /\ cash' = cash /\ initial' = initial /\ rounded' = rounded
  BY DEF account
<1>2. Realized' = Realized BY <1>1 DEF Realized
<1>3. \A D, c : CostBalance(D, c)' = CostBalance(D, c) BY <1>1, <1>2 DEF CostBalance
<1> QED BY <1>1, <1>3 DEF AccountInv

LEMMA OffUnscaled ==
  ASSUME NEW d \in Nat \ {0}, NEW v \in Int, NEW b \in Int, Off(d * v, d * b)
  PROVE  Off(v, b)
<1>1. d * (2 * v) <= d * b /\ -(d * b) <= d * (2 * v)
  <2>1. d * (2 * v) = 2 * (d * v) OBVIOUS
  <2> QED BY <2>1 DEF Off
<1>2. ASSUME 2 * v > b PROVE FALSE
  <2>1. d * (b + 1) <= d * (2 * v) BY <1>2, ScaleUp
  <2>2. d * (b + 1) = d * b + d /\ d * b \in Int /\ d * (2 * v) \in Int OBVIOUS
  <2> QED BY <1>1, <2>1, <2>2
<1>3. ASSUME 2 * v < -b PROVE FALSE
  <2>1. d * (2 * v) <= d * (-b - 1) BY <1>3, ScaleUp
  <2>2. d * (-b - 1) = -(d * b) - d /\ d * b \in Int /\ d * (2 * v) \in Int OBVIOUS
  <2> QED BY <1>1, <2>1, <2>2
<1> QED BY <1>2, <1>3 DEF Off

\* What a position is worth at a price, less what it has cost and the rounded profit of
\* selling it: half a tick at most, and nothing without a position.
LEMMA PositionOff ==
  ASSUME NEW pos \in Position, NEW price \in Nat, NEW D \in Nat \ {0}, NEW c \in Int,
         Costs(c, D, pos)
  PROVE  /\ UnrealizedOf(pos, price) \in Int
         /\ Off(D * (pos.qty * price - UnrealizedOf(pos, price)) - c, D)
         /\ pos.qty = 0 => D * (pos.qty * price - UnrealizedOf(pos, price)) - c = 0
<1>1. PICK y \in Int, n \in Int, d \in Nat \ {0} : y = pos.qty /\ n = pos.avg.n /\ d = pos.avg.d
  BY PositionFields
<1>2. PICK a \in Int : a = (price * d - n) * y OBVIOUS
<1>3. PICK u \in Int : u = UnrealizedOf(pos, price) /\ Off(u * d - a, d)
  <2>1. UnrealizedOf(pos, price) = Round(a, d) BY <1>1, <1>2 DEF UnrealizedOf
  <2> QED BY <2>1, RoundNear DEF Off
<1>4. PICK v \in Int : v = D * (y * price - u) - c OBVIOUS
<1>5. c * d = D * (y * n) BY <1>1 DEF Costs
<1>6. Off(D * (a - u * d), D * d)
  <2>1. PICK b \in Int : b = a - u * d OBVIOUS
  <2>2. Off(b, d)
    <3>1. PICK e \in Int : e = u * d - a /\ Off(e, d) BY <1>3
    <3>2. b = -e BY <2>1, <3>1
    <3> QED BY <3>1, <3>2 DEF Off
  <2>3. \A k \in Int : Off(b, k) => Off(D * b, D * k) BY OffScaled
  <2>4. Off(D * b, D * d) BY <2>2, <2>3
  <2> QED BY <2>1, <2>4
<1>7. d * v = D * (a - u * d)
  <2>1. d * (D * (y * price - u) - c) = D * (d * (y * price - u)) - c * d OBVIOUS
  <2>2. D * (d * (y * price - u)) - D * (y * n) = D * ((price * d - n) * y - u * d) OBVIOUS
  <2> QED BY <1>2, <1>4, <1>5, <2>1, <2>2
<1>8. Off(v, D)
  <2>1. D * d = d * D OBVIOUS
  <2>2. Off(d * v, d * D) BY <1>6, <1>7, <2>1
  <2> QED BY <2>2, OffUnscaled
<1>9. ASSUME y = 0 PROVE v = 0
  <2>1. c * d = 0
    <3>1. D * (0 * n) = 0 OBVIOUS
    <3> QED BY <1>5, <1>9, <3>1
  <2>2. c = 0
    <3>1. c > 0 => c * d > 0 OBVIOUS
    <3>2. c < 0 => c * d < 0 OBVIOUS
    <3> QED BY <2>1, <3>1, <3>2
  <2>3. a = 0
    <3>1. (price * d - n) * 0 = 0 OBVIOUS
    <3> QED BY <1>2, <1>9, <3>1
  <2>4. Off(u * d, d)
    <3>1. u * d - 0 = u * d OBVIOUS
    <3> QED BY <1>3, <2>3, <3>1
  <2>5. u = 0
    <3>1. u >= 1 => u * d >= d OBVIOUS
    <3>2. u <= -1 => u * d <= -d OBVIOUS
    <3>3. u * d \in Int OBVIOUS
    <3> QED BY <2>4, <3>1, <3>2, <3>3 DEF Off
  <2>6. D * (0 * price - 0) - 0 = 0 OBVIOUS
  <2> QED BY <1>4, <1>9, <2>2, <2>5, <2>6
<1> QED BY <1>1, <1>3, <1>4, <1>8, <1>9

LEMMA BalanceBoundsDrift ==
  ASSUME AccountInv, NEW price \in Prices
  PROVE  2 * Abs(Drift(price)) <= rounded + Cardinality({x \in Symbols : positions[x].qty # 0})
<1> DEFINE Z == {x \in Symbols : positions[x].qty # 0}
           worth == [x \in Symbols |-> positions[x].qty * price]
           gain == [x \in Symbols |-> UnrealizedOf(positions[x], price)]
           net == [x \in Symbols |-> worth[x] - gain[x]]
<1>0. IsFiniteSet(Symbols) /\ price \in Nat BY LedgerAssumption
<1>1. /\ positions \in [Symbols -> Position] /\ cash \in Int /\ initial \in Int /\ rounded \in Nat
  BY DEF AccountInv
<1>2. PICK D \in Nat \ {0}, c \in [Symbols -> Int] : CostBalance(D, c) BY DEF AccountInv
<1> DEFINE big == [x \in Symbols |-> D * net[x]]
           off == [x \in Symbols |-> D * net[x] - c[x]]
<1>3. ASSUME NEW x \in Symbols
      PROVE  /\ worth[x] \in Int /\ gain[x] \in Int /\ net[x] \in Int /\ c[x] \in Int
             /\ net[x] = (-1) * gain[x] + worth[x] /\ big[x] = D * net[x]
             /\ big[x] = 1 * c[x] + off[x] /\ off[x] \in Int
             /\ Off(off[x], D) /\ (x \notin Z => off[x] = 0)
  <2>1. PICK pos \in Position : pos = positions[x] BY <1>1
  <2>2. pos.qty \in Int BY PositionFields
  <2>3. Costs(c[x], D, pos) BY <1>2, <2>1 DEF CostBalance
  <2>4. /\ UnrealizedOf(pos, price) \in Int
        /\ Off(D * (pos.qty * price - UnrealizedOf(pos, price)) - c[x], D)
        /\ pos.qty = 0 => D * (pos.qty * price - UnrealizedOf(pos, price)) - c[x] = 0
    BY <1>0, <2>3, PositionOff
  <2>5. PICK w \in Int, u \in Int, b \in Int :
          w = pos.qty * price /\ u = UnrealizedOf(pos, price) /\ b = c[x]
    BY <1>0, <2>2, <2>4
  <2>6. /\ worth[x] = w /\ gain[x] = u /\ net[x] = w - u /\ big[x] = D * (w - u)
        /\ off[x] = D * (w - u) - b
    BY <2>1, <2>5
  <2>7. /\ w - u = (-1) * u + w /\ D * (w - u) = 1 * b + (D * (w - u) - b)
        /\ D * (w - u) - b \in Int
    OBVIOUS
  <2>8. x \in Z <=> pos.qty # 0 BY <2>1
  <2> HIDE DEF Z, worth, gain, net, big, off
  <2> QED BY <2>4, <2>5, <2>6, <2>7, <2>8
<1>4. Z \in SUBSET Symbols OBVIOUS
<1>5. /\ MarketValue(price) = SumFunctionOnSet(worth, Symbols)
      /\ Unrealized(price) = SumFunctionOnSet(gain, Symbols)
  BY DEF MarketValue, Unrealized, SumFunction
<1>6. Realized \in Int
  <2> DEFINE f == [y \in Symbols |-> positions[y].realized]
  <2>1. \A y \in Symbols : f[y] \in Int BY <1>1, PositionFields
  <2>2. Realized = SumFunctionOnSet(f, Symbols) BY DEF Realized, SumFunction
  <2> HIDE DEF f
  <2> QED BY <1>0, <2>1, <2>2, SumType
<1> HIDE DEF Z, worth, gain, net, big, off
<1>7. PICK W \in Int, G \in Int, N \in Int :
        /\ W = SumFunctionOnSet(worth, Symbols) /\ G = SumFunctionOnSet(gain, Symbols)
        /\ N = SumFunctionOnSet(net, Symbols)
  BY <1>0, <1>3, SumType
<1>8. N = W - G
  <2>1. SumFunctionOnSet(net, Symbols)
        = (-1) * SumFunctionOnSet(gain, Symbols) + SumFunctionOnSet(worth, Symbols)
    BY <1>0, <1>3, SumLinear
  <2>2. (-1) * G + W = W - G OBVIOUS
  <2> QED BY <1>7, <2>1, <2>2
<1>9. PICK C \in Int, O \in Int :
        C = SumFunctionOnSet(c, Symbols) /\ O = SumFunctionOnSet(off, Symbols)
  BY <1>0, <1>3, SumType
<1>10. D * N = C + O
  <2>1. SumFunctionOnSet(big, Symbols) = D * SumFunctionOnSet(net, Symbols)
    BY <1>0, <1>3, SumScaled
  <2>2. SumFunctionOnSet(big, Symbols)
        = 1 * SumFunctionOnSet(c, Symbols) + SumFunctionOnSet(off, Symbols)
    BY <1>0, <1>3, SumLinear
  <2>3. 1 * C + O = C + O OBVIOUS
  <2> QED BY <1>7, <1>9, <2>1, <2>2, <2>3
<1>11. PICK z \in Nat : z = Cardinality(Z) /\ Off(O, D * z)
  <2>1. \A x \in Symbols : off[x] \in Int /\ -D <= 2 * off[x] /\ 2 * off[x] <= D
    BY <1>3 DEF Off
  <2>2. \A x \in Symbols \ Z : off[x] = 0 BY <1>3
  <2>3. /\ Cardinality(Z) \in Nat
        /\ -(D * Cardinality(Z)) <= 2 * SumFunctionOnSet(off, Symbols)
        /\ 2 * SumFunctionOnSet(off, Symbols) <= D * Cardinality(Z)
    BY <1>0, <1>4, <2>1, <2>2, SumBounded
  <2> QED BY <1>9, <2>3 DEF Off
<1>12. PICK m \in Int, r \in Nat : m = cash - initial - Realized /\ r = rounded BY <1>1, <1>6
<1>13. Off(D * m + C, D * r) BY <1>2, <1>9, <1>12 DEF CostBalance
<1>14. PICK v \in Int : v = Drift(price) /\ v = m + N
  <2>1. PICK a \in Int, i \in Int, R \in Int : a = cash /\ i = initial /\ R = Realized
    BY <1>1, <1>6
  <2>2. Drift(price) = a + W - (i + R + G) BY <1>5, <1>7, <2>1 DEF Drift, Equity
  <2>3. a + W - (i + R + G) = (a - i - R) + (W - G) OBVIOUS
  <2> QED BY <1>8, <1>12, <2>1, <2>2, <2>3
<1>15. Off(v, r + z)
  <2>1. Off((D * m + C) + O, D * r + D * z)
    <3>1. D * m + C \in Int /\ D * r \in Int /\ D * z \in Int OBVIOUS
    <3> QED BY <1>11, <1>13, <3>1, OffSum
  <2>2. D * v = (D * m + C) + O
    <3>1. D * (m + N) = D * m + D * N /\ D * m \in Int OBVIOUS
    <3>2. D * m + (C + O) = (D * m + C) + O OBVIOUS
    <3> QED BY <1>10, <1>14, <3>1, <3>2
  <2>3. D * r + D * z = D * (r + z) OBVIOUS
  <2>4. PICK b \in Int : b = r + z OBVIOUS
  <2>5. Off(D * v, D * b) BY <2>1, <2>2, <2>3, <2>4
  <2>6. Off(v, b) BY <2>5, OffUnscaled
  <2> QED BY <2>4, <2>6
<1>16. 2 * Abs(v) <= r + z BY <1>15 DEF Off, Abs
<1> QED BY <1>11, <1>12, <1>14, <1>16 DEF Z

\* The accounting identity of the documentation holds up to half a tick for every
\* rounding: one for each execution that closed something since the last reset, one for
\* each open position.  Prices, quantities and the number of symbols do not matter.
THEOREM AccountsBalance == Spec => []DriftBounded
<1>1. Init => AccountInv
  <2> SUFFICES ASSUME Init PROVE AccountInv OBVIOUS
  <2>1. /\ positions = [x \in Symbols |-> Flat] /\ cash = initial /\ rounded = 0
        /\ initial \in Nat
    BY LedgerAssumption DEF Init
  <2> QED BY <2>1, StartBalance
<1>2. OrdersInv /\ AccountInv /\ [Next]_vars => AccountInv'
  <2> SUFFICES ASSUME OrdersInv, AccountInv, [Next]_vars PROVE AccountInv' OBVIOUS
  <2>1. ASSUME NEW ord \in Order, Submit(ord) PROVE AccountInv'
    BY <2>1, AccountSame DEF Submit
  <2>2. ASSUME NEW o \in DOMAIN submitted, Cancel(o) PROVE AccountInv'
    BY <2>2, AccountSame DEF Cancel
  <2>3. ASSUME NEW o \in DOMAIN submitted, NEW qty \in 1..MaxQty, NEW price \in Prices,
               Execute(o, qty, price)
        PROVE  AccountInv'
    <3>1. qty \in Nat \ {0} /\ price \in Nat BY <2>3, ExecuteRecords
    <3>2. submitted[o].symbol \in Symbols BY DEF OrdersInv, Order
    <3>3. CASE o \in known
      <4>1. OnTradeExecuted(submitted[o].symbol, submitted[o].side, qty, price)
        BY <2>3, <3>3 DEF Execute
      <4> QED BY <3>1, <3>2, <4>1, BalanceKept
    <3>4. CASE o \notin known BY <2>3, <3>4, AccountSame DEF Execute
    <3> QED BY <3>3, <3>4
  <2>4. ASSUME NEW deposit \in Deposits, Reset(deposit) PROVE AccountInv'
    BY <2>4, ResetBalance
  <2>5. CASE UNCHANGED vars BY <2>5, AccountSame DEF vars
  <2> QED BY <2>1, <2>2, <2>3, <2>4, <2>5 DEF Next
<1>3. AccountInv => DriftBounded BY BalanceBoundsDrift DEF DriftBounded
<1> QED BY <1>1, <1>2, <1>3, LedgerInvariance, PTL DEF Spec

=============================================================================
