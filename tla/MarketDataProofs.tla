-------------------------- MODULE MarketDataProofs --------------------------
(***************************************************************************)
(* Proofs about MarketData, for any intervals, lengths of the history and  *)
(* of the cool-down, trades and metrics: the types, that bars tile time    *)
(* and say of their trades what they were, and that alerts of one type are *)
(* a cool-down apart.                                                      *)
(***************************************************************************)
EXTENDS MarketData, Sums, TLAPS

-----------------------------------------------------------------------------
(* Alerts. *)

\* The alerts of one type: ascending by a cool-down at least, and the last of them,
\* if there is one, is what _last_alert_ts remembers.
Spaced(last, times) ==
  /\ times \in Seq(Nat)
  /\ IF last = None THEN times = <<>>
     ELSE last \in Nat /\ times # <<>> /\ times[Len(times)] = last
  /\ \A i, j \in 1..Len(times) : i < j => times[j] - times[i] >= Cooldown

AlertsInv ==
  /\ lastAlert \in [AnomalyType -> Nat \cup {None}]
  /\ alerts \in [AnomalyType -> Seq(Nat)]
  /\ \A kind \in AnomalyType : Spaced(lastAlert[kind], alerts[kind])

\* Emitting one more alert, a cool-down after the last, keeps the alerts spaced.
LEMMA AppendSpaced ==
  ASSUME NEW last \in Nat \cup {None}, NEW times, NEW ts \in Nat, Spaced(last, times),
         last = None \/ ts - last >= Cooldown
  PROVE  Spaced(ts, Append(times, ts))
<1> DEFINE new == Append(times, ts)
<1>0. Cooldown \in Nat \ {0} BY CooldownAssumption
<1>1. times \in Seq(Nat) BY DEF Spaced
<1>2. /\ new \in Seq(Nat) /\ Len(new) = Len(times) + 1 /\ Len(times) \in Nat
      /\ new[Len(new)] = ts
      /\ \A i \in 1..Len(times) : new[i] = times[i] /\ times[i] \in Nat
  BY <1>1
<1>3. \A i \in 1..Len(times) : ts - times[i] >= Cooldown
  <2> SUFFICES ASSUME NEW i \in 1..Len(times) PROVE ts - times[i] >= Cooldown
    OBVIOUS
  <2>1. Len(times) # 0 BY <1>2
  <2>2. last # None BY <1>2, <2>1 DEF Spaced
  <2>3. last \in Nat /\ times[Len(times)] = last BY <2>2 DEF Spaced
  <2>4. CASE i = Len(times) BY <2>2, <2>3, <2>4
  <2>5. CASE i < Len(times)
    <3>1. times[Len(times)] - times[i] >= Cooldown BY <2>5, <1>2 DEF Spaced
    <3>2. times[i] \in Nat BY <1>2
    <3> QED BY <3>1, <3>2, <2>2, <2>3, <1>0
  <2> QED BY <2>4, <2>5, <1>2
<1>4. \A i, j \in 1..Len(new) : i < j => new[j] - new[i] >= Cooldown
  <2> SUFFICES ASSUME NEW i \in 1..Len(new), NEW j \in 1..Len(new), i < j
               PROVE  new[j] - new[i] >= Cooldown
    OBVIOUS
  <2>1. CASE j = Len(new) BY <2>1, <1>2, <1>3
  <2>2. CASE j # Len(new)
    <3>1. j \in 1..Len(times) /\ i \in 1..Len(times) BY <2>2, <1>2, SMTT(20)
    <3>2. times[j] - times[i] >= Cooldown BY <3>1 DEF Spaced
    <3> QED BY <3>1, <3>2, <1>2
  <2> QED BY <2>1, <2>2
<1>5. ts # None BY DEF None
<1>6. new # <<>> BY <1>2
<1> HIDE DEF new
<1>7. Spaced(ts, new) BY <1>2, <1>4, <1>5, <1>6 DEF Spaced
<1> QED BY <1>7 DEF new

\* What update_trade and update_book do to the alerts.
LEMMA AlertSpaced ==
  ASSUME AlertsInv, NEW exceeding, NEW ts \in Nat, Alert(exceeding, ts)
  PROVE  AlertsInv'
<1> DEFINE raised == {kind \in exceeding : CooledDown(kind, ts)}
<1>1. \A kind \in AnomalyType :
        /\ lastAlert'[kind] = IF kind \in raised THEN ts ELSE lastAlert[kind]
        /\ alerts'[kind] = IF kind \in raised THEN Append(alerts[kind], ts) ELSE alerts[kind]
  BY DEF Alert
<1>2. ASSUME NEW kind \in AnomalyType
      PROVE  /\ Spaced(lastAlert'[kind], alerts'[kind])
             /\ lastAlert'[kind] \in Nat \cup {None} /\ alerts'[kind] \in Seq(Nat)
  <2>1. /\ Spaced(lastAlert[kind], alerts[kind])
        /\ lastAlert[kind] \in Nat \cup {None} /\ alerts[kind] \in Seq(Nat)
    BY DEF AlertsInv
  <2>2. CASE kind \in raised
    <3>1. lastAlert[kind] = None \/ ts - lastAlert[kind] >= Cooldown
      BY <2>2 DEF CooledDown
    <3>2. Spaced(ts, Append(alerts[kind], ts)) BY <2>1, <3>1, AppendSpaced
    <3>3. lastAlert'[kind] = ts /\ alerts'[kind] = Append(alerts[kind], ts) BY <1>1, <2>2
    <3>4. Append(alerts[kind], ts) \in Seq(Nat) BY <2>1
    <3> QED BY <3>2, <3>3, <3>4
  <2>3. CASE kind \notin raised BY <1>1, <2>1, <2>3
  <2> QED BY <2>2, <2>3
<1>3. /\ lastAlert' = [kind \in AnomalyType |-> lastAlert'[kind]]
      /\ alerts' = [kind \in AnomalyType |-> alerts'[kind]]
  BY DEF Alert
<1>4. lastAlert' \in [AnomalyType -> Nat \cup {None}] /\ alerts' \in [AnomalyType -> Seq(Nat)]
  BY <1>2, <1>3
<1> QED BY <1>2, <1>4 DEF AlertsInv

LEMMA NothingRaised ==
  ASSUME lastAlert = NoAlert, alerts = NoAlerts
  PROVE  AlertsInv
<1>1. \A kind \in AnomalyType : Spaced(None, <<>>) BY DEF Spaced
<1> QED BY <1>1 DEF AlertsInv, NoAlert, NoAlerts

LEMMA AlertsNext == AlertsInv /\ [Next]_vars => AlertsInv'
<1> SUFFICES ASSUME AlertsInv, [Next]_vars PROVE AlertsInv'
  OBVIOUS
<1>1. CASE Next
  <2>1. ASSUME NEW ts \in Stamps, NEW t \in TradeInput, NEW exceeding \in Exceeding,
               ProcessTrade(ts, t, exceeding)
        PROVE  AlertsInv'
    <3>1. ts \in Nat BY MarketDataAssumption DEF Stamps
    <3>2. \E raised : Alert(raised, ts) BY <2>1 DEF ProcessTrade
    <3> QED BY <3>1, <3>2, AlertSpaced
  <2>2. CASE Reset
    <3>1. lastAlert' = NoAlert /\ alerts' = NoAlerts BY <2>2 DEF Reset, ClearAlerts
    <3>2. \A kind \in AnomalyType : Spaced(None, <<>>) BY DEF Spaced
    <3> QED BY <3>1, <3>2 DEF AlertsInv, NoAlert, NoAlerts
  <2> QED BY <1>1, <2>1, <2>2 DEF Next
<1>2. CASE UNCHANGED vars
  BY <1>2 DEF vars, detector, AlertsInv
<1> QED BY <1>1, <1>2

\* Alerts of one type are a cool-down apart (AlertsApart), whatever the time stamps.
THEOREM AlertsKeepApart == Spec => []AlertsApart
<1>1. Init => AlertsInv BY NothingRaised DEF Init, AlertsInit
<1>2. AlertsInv => AlertsApart BY DEF AlertsInv, Spaced, AlertsApart
<1> QED BY <1>1, <1>2, AlertsNext, PTL DEF Spec

-----------------------------------------------------------------------------
(* Bars. *)

Bar == [bucket : Nat, open : Int, high : Int, low : Int, close : Int, volume : Int,
        count : Int, pv : Int]

\* A later time is not in an earlier bucket.
LEMMA DivMonotone ==
  ASSUME NEW n \in Nat \ {0}, NEW a \in Nat, NEW b \in Nat, a <= b
  PROVE  a \div n \in Nat /\ a \div n <= b \div n
OBVIOUS

\* Closed bars without a gap, up to the one before bucket b.
ChainTo(bars, b) ==
  /\ bars \in Seq(Bar)
  /\ Consecutive(bars)
  /\ bars # <<>> => bars[Len(bars)].bucket + 1 = b

\* Forgetting the oldest bars leaves the chain, and bounds it.
LEMMA RecentChain ==
  ASSUME NEW bars, NEW b \in Nat, ChainTo(bars, b)
  PROVE  ChainTo(Recent(bars), b) /\ Len(Recent(bars)) <= MaxHistory
<1> DEFINE m == Larger(1, Len(bars) - MaxHistory + 1)
           kept == Recent(bars)
<1>0. MaxHistory \in Nat \ {0} BY CandlesAssumption
<1>1. bars \in Seq(Bar) /\ Len(bars) \in Nat BY DEF ChainTo
<1>2. m \in Nat /\ m >= 1 /\ m > Len(bars) - MaxHistory /\ (Len(bars) > 0 => m <= Len(bars))
  BY <1>0, <1>1 DEF Larger
<1>3. CASE Len(bars) = 0
  <2>1. kept = <<>> BY <1>1, <1>2, <1>3 DEF Recent
  <2> QED BY <2>1, <1>0 DEF ChainTo, Consecutive
<1>4. CASE Len(bars) > 0
  <2>1. m <= Len(bars) BY <1>2, <1>4
  <2>2. kept = SubSeq(bars, m, Len(bars)) BY DEF Recent
  <2> HIDE DEF m, kept
  <2>3. /\ kept \in Seq(Bar) /\ Len(kept) = Len(bars) - m + 1
        /\ \A i \in 1..Len(kept) : kept[i] = bars[i + m - 1]
    BY <2>1, <2>2, <1>1, <1>2
  <2>4. Consecutive(kept)
    <3> SUFFICES ASSUME NEW i \in 1..(Len(kept) - 1)
                 PROVE  kept[i + 1].bucket = kept[i].bucket + 1
      BY DEF Consecutive
    <3>0. Len(kept) \in Nat /\ Len(bars) \in Nat /\ m \in Nat /\ m >= 1 BY <2>3, <1>1, <1>2
    <3>1. i \in 1..Len(kept) /\ i + 1 \in 1..Len(kept) BY <3>0
    <3>2. kept[i] = bars[i + m - 1] /\ kept[i + 1] = bars[i + m]
      BY <3>0, <3>1, <2>3
    <3>3. i + m - 1 \in 1..(Len(bars) - 1) BY <3>0, <2>3
    <3>4. bars[(i + m - 1) + 1].bucket = bars[i + m - 1].bucket + 1
      BY <3>3 DEF ChainTo, Consecutive
    <3> QED BY <3>2, <3>4, <3>0
  <2>5. kept[Len(kept)] = bars[Len(bars)] BY <2>3, <2>1, <1>1, <1>2
  <2>6. bars # <<>> BY <1>4
  <2>7. Len(kept) <= MaxHistory BY <2>3, <1>0, <1>1, <1>2
  <2> QED BY <2>3, <2>4, <2>5, <2>6, <2>7 DEF ChainTo, kept
<1> QED BY <1>1, <1>3, <1>4

\* The elements of a concatenation.
LEMMA Concatenated ==
  ASSUME NEW s \in Seq(Bar), NEW t \in Seq(Bar)
  PROVE  /\ s \o t \in Seq(Bar) /\ Len(s \o t) = Len(s) + Len(t)
         /\ \A i \in 1..Len(s) : (s \o t)[i] = s[i]
         /\ \A i \in (Len(s) + 1)..(Len(s) + Len(t)) : (s \o t)[i] = t[i - Len(s)]
OBVIOUS

\* Closing the bar in progress and filling the gap lengthens the chain to bucket b.
LEMMA ClosingChain ==
  ASSUME NEW bars, NEW bar \in Bar, ChainTo(bars, bar.bucket), NEW b \in Nat, bar.bucket < b
  PROVE  ChainTo(bars \o Closing(bar, b), b)
<1> DEFINE n == b - bar.bucket - 1
           gap == [i \in 1..n |-> EmptyBar(bar.bucket + i, bar.close)]
           all == bars \o Closing(bar, b)
<1>0. bar.bucket \in Nat /\ n \in Nat BY DEF Bar
<1>1. bars \in Seq(Bar) /\ Len(bars) \in Nat BY DEF ChainTo
<1>2. \A i \in 1..n : EmptyBar(bar.bucket + i, bar.close) \in Bar /\
                      EmptyBar(bar.bucket + i, bar.close).bucket = bar.bucket + i
  BY <1>0 DEF EmptyBar, FirstBar, Bar
<1>3. gap \in Seq(Bar) /\ Len(gap) = n BY <1>0, <1>2
<1>3a. \A i \in 1..n : gap[i].bucket = bar.bucket + i BY <1>2
<1>4. <<bar>> \in Seq(Bar) /\ Len(<<bar>>) = 1 /\ <<bar>>[1] = bar OBVIOUS
<1>5. Closing(bar, b) = <<bar>> \o gap BY DEF Closing
<1> HIDE DEF gap, n
<1>6. /\ Closing(bar, b) \in Seq(Bar) /\ Len(Closing(bar, b)) = n + 1
      /\ Closing(bar, b)[1] = bar
      /\ \A i \in 2..(n + 1) : Closing(bar, b)[i] = gap[i - 1]
  BY <1>0, <1>3, <1>4, <1>5
<1>7. \A i \in 1..(n + 1) : Closing(bar, b)[i].bucket = bar.bucket + i - 1
  <2> SUFFICES ASSUME NEW i \in 1..(n + 1)
               PROVE  Closing(bar, b)[i].bucket = bar.bucket + i - 1
    OBVIOUS
  <2>1. CASE i = 1 BY <2>1, <1>6, <1>0
  <2>2. CASE i # 1
    <3>1. i \in 2..(n + 1) /\ i - 1 \in 1..n BY <2>2, <1>0
    <3>2. Closing(bar, b)[i] = gap[i - 1] BY <3>1, <1>6
    <3>3. gap[i - 1].bucket = bar.bucket + (i - 1) BY <3>1, <1>3a
    <3> QED BY <3>2, <3>3, <1>0
  <2> QED BY <2>1, <2>2
<1>8. /\ all \in Seq(Bar) /\ Len(all) = Len(bars) + n + 1
      /\ \A i \in 1..Len(bars) : all[i] = bars[i]
      /\ \A i \in (Len(bars) + 1)..(Len(bars) + n + 1) : all[i] = Closing(bar, b)[i - Len(bars)]
  <2>1. Len(Closing(bar, b)) = n + 1 /\ Closing(bar, b) \in Seq(Bar) BY <1>6
  <2>2. Len(bars) + (n + 1) = Len(bars) + n + 1 BY <1>0, <1>1
  <2>3. PICK c \in Seq(Bar) : c = Closing(bar, b) BY <2>1
  <2>4. /\ bars \o c \in Seq(Bar) /\ Len(bars \o c) = Len(bars) + Len(c)
        /\ \A i \in 1..Len(bars) : (bars \o c)[i] = bars[i]
        /\ \A i \in (Len(bars) + 1)..(Len(bars) + Len(c)) : (bars \o c)[i] = c[i - Len(bars)]
    BY <1>1, Concatenated
  <2>5. all = bars \o c BY <2>3
  <2> HIDE DEF all
  <2>6. /\ all \in Seq(Bar) /\ Len(all) = Len(bars) + Len(c)
        /\ \A i \in 1..Len(bars) : all[i] = bars[i]
        /\ \A i \in (Len(bars) + 1)..(Len(bars) + Len(c)) : all[i] = c[i - Len(bars)]
    BY <2>4, <2>5
  <2> QED BY <2>1, <2>2, <2>3, <2>6
<1> HIDE DEF all
<1>9. \A i \in (Len(bars) + 1)..(Len(bars) + n + 1) :
         all[i].bucket = bar.bucket + i - Len(bars) - 1
  <2> SUFFICES ASSUME NEW i \in (Len(bars) + 1)..(Len(bars) + n + 1)
               PROVE  all[i].bucket = bar.bucket + i - Len(bars) - 1
    OBVIOUS
  <2>1. i - Len(bars) \in 1..(n + 1) BY <1>0, <1>1
  <2>2. Closing(bar, b)[i - Len(bars)].bucket = bar.bucket + (i - Len(bars)) - 1 BY <2>1, <1>7
  <2> QED BY <2>2, <1>8, <1>0, <1>1
<1>10. Consecutive(all)
  <2> SUFFICES ASSUME NEW i \in 1..(Len(all) - 1)
               PROVE  all[i + 1].bucket = all[i].bucket + 1
    BY DEF Consecutive
  <2>0. Len(all) = Len(bars) + n + 1 /\ n \in Nat /\ Len(bars) \in Nat /\ bar.bucket \in Nat
    BY <1>0, <1>1, <1>8
  <2>1. CASE i < Len(bars)
    <3>1. i \in 1..(Len(bars) - 1) /\ i \in 1..Len(bars) /\ i + 1 \in 1..Len(bars)
      BY <2>0, <2>1
    <3>2. bars[i + 1].bucket = bars[i].bucket + 1 BY <3>1 DEF ChainTo, Consecutive
    <3> QED BY <3>1, <3>2, <1>8
  <2>2. CASE i = Len(bars)
    <3>1. bars # <<>> /\ bars[Len(bars)].bucket + 1 = bar.bucket BY <2>2, <2>0 DEF ChainTo
    <3>2. i \in 1..Len(bars) /\ i + 1 \in (Len(bars) + 1)..(Len(bars) + n + 1) BY <2>2, <2>0
    <3>3. all[i] = bars[i] /\ all[i + 1].bucket = bar.bucket + (i + 1) - Len(bars) - 1
      BY <3>2, <1>8, <1>9
    <3> QED BY <3>1, <3>3, <2>2, <2>0
  <2>3. CASE i > Len(bars)
    <3>1. /\ i \in (Len(bars) + 1)..(Len(bars) + n + 1)
          /\ i + 1 \in (Len(bars) + 1)..(Len(bars) + n + 1)
      BY <2>0, <2>3
    <3>2. /\ all[i].bucket = bar.bucket + i - Len(bars) - 1
          /\ all[i + 1].bucket = bar.bucket + (i + 1) - Len(bars) - 1
      BY <3>1, <1>9
    <3> QED BY <3>2, <2>0
  <2> QED BY <2>0, <2>1, <2>2, <2>3
<1>11. all[Len(all)].bucket + 1 = b
  <2>1. Len(all) \in (Len(bars) + 1)..(Len(bars) + n + 1) BY <1>0, <1>1, <1>8
  <2>2. all[Len(all)].bucket = bar.bucket + Len(all) - Len(bars) - 1 BY <2>1, <1>9
  <2>3. Len(all) - Len(bars) - 1 = n BY <1>0, <1>1, <1>8
  <2>4. all[Len(all)].bucket = bar.bucket + n BY <2>2, <2>3, <1>0, <1>1, <1>8
  <2>5. bar.bucket + n + 1 = b BY <1>0 DEF n
  <2> QED BY <2>4, <2>5
<1> QED BY <1>8, <1>10, <1>11 DEF ChainTo, all

\* A bar stays a bar of its bucket.
LEMMA ExtendedIsBar ==
  ASSUME NEW bar \in Bar, NEW p \in Nat, NEW q \in Nat
  PROVE  Extended(bar, p, q) \in Bar /\ Extended(bar, p, q).bucket = bar.bucket
<1>1. p * q \in Int OBVIOUS
<1>2. bar.pv + p * q \in Int /\ bar.volume + q \in Int /\ bar.count + 1 \in Int
  BY <1>1 DEF Bar
<1>3. Larger(bar.high, p) \in Int /\ Smaller(bar.low, p) \in Int
  BY DEF Larger, Smaller, Bar
<1>4. PICK h \in Int, l \in Int : h = Larger(bar.high, p) /\ l = Smaller(bar.low, p)
  BY <1>3
<1>5. PICK v \in Int, n \in Int, pv \in Int :
        v = bar.volume + q /\ n = bar.count + 1 /\ pv = bar.pv + p * q
  BY <1>2
<1>6. p \in Int OBVIOUS
<1> DEFINE new == [bar EXCEPT !.high = h, !.low = l, !.close = p, !.volume = v,
                              !.count = n, !.pv = pv]
<1>7. Extended(bar, p, q) = new BY <1>4, <1>5 DEF Extended
<1>8. new \in Bar /\ new.bucket = bar.bucket BY <1>6 DEF Bar
<1> HIDE DEF new
<1> QED BY <1>7, <1>8

\* An interval's bars: none before the first trade; then one in progress, in the bucket
\* of the last trade, and closed ones that lead up to it.
IntervalInv(iv, bars, closed, ts) ==
  \/ bars = <<>> /\ closed = <<>>
  \/ \E bar \in Bar : /\ bars = <<bar>> /\ ts \in Nat /\ bar.bucket = Bucket(iv, ts)
                      /\ ChainTo(closed, bar.bucket) /\ Len(closed) <= MaxHistory

BarsInv ==
  /\ lastTs \in Nat \cup {-1}
  /\ \A iv \in Intervals : IntervalInv(iv, current[iv], history[iv], lastTs)

LEMMA EmptyChain == ASSUME NEW b PROVE ChainTo(<<>>, b) /\ Len(<<>>) <= MaxHistory
<1>1. MaxHistory \in Nat \ {0} BY CandlesAssumption
<1> QED BY <1>1 DEF ChainTo, Consecutive

\* One interval takes a trade that is not older than the last one.
LEMMA IntervalStep ==
  ASSUME BarsInv, NEW iv \in Intervals, NEW ts \in Nat, InOrder(ts), NEW p \in Nat, NEW q \in Nat
  PROVE  IntervalInv(iv, <<NextBar(iv, ts, p, q)>>, NextHistory(iv, ts), ts)
<1> DEFINE b == Bucket(iv, ts)
<1>0. iv \in Nat \ {0} BY CandlesAssumption
<1>1. b \in Nat BY <1>0, DivMonotone DEF Bucket
<1>2. FirstBar(b, p, q) \in Bar /\ FirstBar(b, p, q).bucket = b
  <2>1. p * q \in Int OBVIOUS
  <2> QED BY <1>1, <2>1 DEF FirstBar, Bar
<1>3. CASE current[iv] = <<>> /\ history[iv] = <<>>
  <2>1. NextBar(iv, ts, p, q) = FirstBar(b, p, q) /\ NextHistory(iv, ts) = <<>>
    BY <1>3 DEF NextBar, NextHistory
  <2> QED BY <2>1, <1>2, EmptyChain DEF IntervalInv
<1>4. ASSUME NEW bar \in Bar, current[iv] = <<bar>>, lastTs \in Nat,
             bar.bucket = Bucket(iv, lastTs), ChainTo(history[iv], bar.bucket),
             Len(history[iv]) <= MaxHistory
      PROVE  IntervalInv(iv, <<NextBar(iv, ts, p, q)>>, NextHistory(iv, ts), ts)
  <2>1. current[iv] # <<>> /\ current[iv][1] = bar BY <1>4
  <2>2. CASE bar.bucket = b
    <3>1. NextBar(iv, ts, p, q) = Extended(bar, p, q) /\ NextHistory(iv, ts) = history[iv]
      BY <2>1, <2>2 DEF NextBar, NextHistory
    <3>2. Extended(bar, p, q) \in Bar /\ Extended(bar, p, q).bucket = b
      BY <2>2, ExtendedIsBar
    <3> QED BY <3>1, <3>2, <1>4, <2>2 DEF IntervalInv
  <2>3. CASE bar.bucket # b
    <3>1. bar.bucket \in Nat /\ bar.bucket < b
      BY <1>4, <2>3, <1>0, <1>1, DivMonotone DEF InOrder, Bucket
    <3>2. /\ NextBar(iv, ts, p, q) = FirstBar(b, p, q)
          /\ NextHistory(iv, ts) = Recent(history[iv] \o Closing(bar, b))
      BY <2>1, <2>3 DEF NextBar, NextHistory
    <3>3. ChainTo(history[iv] \o Closing(bar, b), b) BY <1>4, <1>1, <3>1, ClosingChain
    <3>4. /\ ChainTo(Recent(history[iv] \o Closing(bar, b)), b)
          /\ Len(Recent(history[iv] \o Closing(bar, b))) <= MaxHistory
      BY <3>3, <1>1, RecentChain
    <3> QED BY <3>2, <3>4, <1>2 DEF IntervalInv
  <2> QED BY <2>2, <2>3
<1>5. IntervalInv(iv, current[iv], history[iv], lastTs) BY DEF BarsInv
<1> QED BY <1>3, <1>4, <1>5 DEF IntervalInv

LEMMA BarsNext == BarsInv /\ [Next]_vars => BarsInv'
<1> SUFFICES ASSUME BarsInv, [Next]_vars PROVE BarsInv'
  OBVIOUS
<1>1. ASSUME NEW ts \in Stamps, NEW t \in TradeInput, NEW exceeding \in Exceeding,
             ProcessTrade(ts, t, exceeding)
      PROVE  BarsInv'
  <2>1. ts \in Nat /\ t.price \in Nat /\ t.qty \in Nat BY MarketDataAssumption DEF Stamps
  <2>2. CASE InOrder(ts)
    <3>1. UpdateBars(ts, t.price, t.qty) BY <1>1, <2>2 DEF ProcessTrade
    <3>2. ASSUME NEW iv \in Intervals
          PROVE  IntervalInv(iv, current'[iv], history'[iv], lastTs')
      <4>1. IntervalInv(iv, <<NextBar(iv, ts, t.price, t.qty)>>, NextHistory(iv, ts), ts)
        BY <2>1, <2>2, IntervalStep
      <4> QED BY <3>1, <4>1 DEF UpdateBars
    <3> QED BY <3>1, <3>2, <2>1 DEF BarsInv, UpdateBars
  <2>3. CASE ~InOrder(ts)
    BY <1>1, <2>3 DEF ProcessTrade, candles, BarsInv
  <2> QED BY <2>2, <2>3
<1>2. CASE Reset
  BY <1>2 DEF Reset, ClearBars, NoBars, BarsInv, IntervalInv
<1>3. CASE UNCHANGED vars
  BY <1>3 DEF vars, candles, BarsInv
<1> QED BY <1>1, <1>2, <1>3 DEF Next

LEMMA BarsTile == BarsInv => BarsTileTime
<1> SUFFICES ASSUME BarsInv, NEW iv \in Intervals PROVE Consecutive(history[iv] \o current[iv])
  BY DEF BarsTileTime
<1>1. CASE current[iv] = <<>> /\ history[iv] = <<>>
  BY <1>1 DEF Consecutive
<1>2. ASSUME NEW bar \in Bar, current[iv] = <<bar>>, ChainTo(history[iv], bar.bucket)
      PROVE  Consecutive(history[iv] \o current[iv])
  <2> DEFINE s == history[iv]
             all == s \o <<bar>>
  <2>1. s \in Seq(Bar) /\ Len(s) \in Nat BY <1>2 DEF ChainTo
  <2>2. all \in Seq(Bar) /\ Len(all) = Len(s) + 1 /\ all[Len(s) + 1] = bar
        /\ \A i \in 1..Len(s) : all[i] = s[i]
    BY <2>1
  <2> HIDE DEF all
  <2>3. ASSUME NEW i \in 1..(Len(all) - 1) PROVE all[i + 1].bucket = all[i].bucket + 1
    <3>1. CASE i = Len(s)
      <4>1. s # <<>> BY <3>1, <2>1
      <4>2. s[Len(s)].bucket + 1 = bar.bucket BY <4>1, <1>2 DEF ChainTo
      <4>3. all[i] = s[Len(s)] /\ all[i + 1] = bar BY <3>1, <2>1, <2>2
      <4> QED BY <4>2, <4>3
    <3>2. CASE i # Len(s)
      <4>1. i \in 1..(Len(s) - 1) /\ i \in 1..Len(s) /\ i + 1 \in 1..Len(s)
        BY <3>2, <2>1, <2>2
      <4>2. s[i + 1].bucket = s[i].bucket + 1 BY <4>1, <1>2 DEF ChainTo, Consecutive
      <4> QED BY <4>1, <4>2, <2>2
    <3> QED BY <3>1, <3>2
  <2>4. Consecutive(all) BY <2>3 DEF Consecutive
  <2> QED BY <2>4, <1>2 DEF all
<1>3. IntervalInv(iv, current[iv], history[iv], lastTs) BY DEF BarsInv
<1> QED BY <1>1, <1>2, <1>3 DEF IntervalInv

\* The bars of every interval follow each other without a gap (BarsTileTime), up to
\* the one in progress, whatever time passes between trades.
THEOREM BarsKeepTiling == Spec => []BarsTileTime
<1>1. Init => BarsInv BY DEF Init, BarsInit, NoBars, BarsInv, IntervalInv
<1> QED BY <1>1, BarsNext, BarsTile, PTL DEF Spec

-----------------------------------------------------------------------------
(* What bars say of the trades. *)

Trade == [ts : Nat, price : Nat, qty : Nat]

\* The greatest and the least, by what they are.
LEMMA GreatestOf ==
  ASSUME NEW S \in SUBSET Nat, NEW m \in S, \A y \in S : y <= m
  PROVE  Max(S) = m
<1>1. \A y \in S : y \in Nat OBVIOUS
<1>2. \A y \in S : m >= y BY <1>1
<1>3. Max(S) \in S /\ \A y \in S : Max(S) >= y BY <1>2 DEF Max
<1>4. PICK x \in Nat : x = Max(S) BY <1>3
<1> QED BY <1>3, <1>4

LEMMA LeastOf ==
  ASSUME NEW S \in SUBSET Nat, NEW m \in S, \A y \in S : m <= y
  PROVE  Min(S) = m
<1>1. \A y \in S : y \in Nat OBVIOUS
<1>3. Min(S) \in S /\ \A y \in S : Min(S) <= y BY DEF Min
<1>4. PICK x \in Nat : x = Min(S) BY <1>3
<1> QED BY <1>3, <1>4

\* A finite set of natural numbers has a greatest element, and a least one.
LEMMA FiniteGreatest ==
  ASSUME NEW S, IsFiniteSet(S), S # {}, \A x \in S : x \in Nat
  PROVE  \E m \in S : \A y \in S : y <= m
<1> DEFINE B == {U \in SUBSET S : U # {} /\ ~\E m \in U : \A y \in U : y <= m}
<1> SUFFICES ASSUME B # {} PROVE FALSE
  OBVIOUS
<1>2. PICK T \in B : \A U \in B : U \subseteq T => U = T
  <2> HIDE DEF B
  <2>1. B \subseteq SUBSET S BY DEF B
  <2> QED BY <2>1, SmallestSubset
<1>3. PICK x \in T : TRUE OBVIOUS
<1>4. x \in Nat /\ T \ {x} \in SUBSET S BY <1>3
<1>5. CASE T \ {x} = {}
  <2>1. \A y \in T : y <= x BY <1>4, <1>5
  <2> QED BY <2>1, <1>3
<1>6. CASE T \ {x} # {}
  <2>1. T \ {x} \notin B BY <1>2, <1>3
  <2>2. PICK m \in T \ {x} : \A y \in T \ {x} : y <= m BY <2>1, <1>4, <1>6
  <2>3. m \in Nat /\ m \in T /\ \A y \in T : y = x \/ y <= m BY <2>2, <1>2
  <2>4. CASE x <= m
    <3>1. \A y \in T : y <= m BY <2>3, <2>4
    <3> QED BY <3>1, <2>3
  <2>5. CASE m <= x
    <3>1. \A y \in T : y \in Nat OBVIOUS
    <3>2. \A y \in T : y <= x BY <2>3, <2>5, <1>4, <3>1
    <3> QED BY <3>2, <1>3
  <2> QED BY <2>3, <2>4, <2>5, <1>4
<1> QED BY <1>5, <1>6

\* One more number.
LEMMA ExtremesAdd ==
  ASSUME NEW S, IsFiniteSet(S), S # {}, \A x \in S : x \in Nat, NEW p \in Nat
  PROVE  /\ Max(S) \in S /\ \A y \in S : y <= Max(S)
         /\ Min(S) \in S /\ \A y \in S : Min(S) <= y
         /\ Max(S \cup {p}) = Larger(Max(S), p)
         /\ Min(S \cup {p}) = Smaller(Min(S), p)
<1>1. PICK m \in S : \A y \in S : y <= m BY FiniteGreatest
<1>2. PICK l \in S : \A y \in S : l <= y BY LeastNatural
<1>3. Max(S) = m BY <1>1, GreatestOf
<1>4. Min(S) = l BY <1>2, LeastOf
<1>5. \A y \in S : y \in Nat OBVIOUS
<1>6. S \cup {p} \in SUBSET Nat OBVIOUS
<1>7. PICK hi \in S \cup {p} : hi = Larger(m, p) BY DEF Larger
<1>8. PICK lo \in S \cup {p} : lo = Smaller(l, p) BY DEF Smaller
<1>9. \A y \in S \cup {p} : y <= hi BY <1>1, <1>5, <1>7 DEF Larger
<1>10. \A y \in S \cup {p} : lo <= y BY <1>2, <1>5, <1>8 DEF Smaller
<1>11. Max(S \cup {p}) = hi BY <1>6, <1>9, GreatestOf
<1>12. Min(S \cup {p}) = lo BY <1>6, <1>10, LeastOf
<1> QED BY <1>1, <1>2, <1>3, <1>4, <1>7, <1>8, <1>11, <1>12

\* Rounding a quotient stays within integral bounds of it.
LEMMA FactorOut ==
  ASSUME NEW a \in Int, NEW b \in Int, NEW d \in Nat \ {0}, a * d < b * d
  PROVE  a < b
<1> SUFFICES ASSUME b <= a PROVE FALSE OBVIOUS
<1>1. PICK k \in Nat : a = b + k BY SMT
<1>2. a * d = b * d + k * d BY <1>1
<1>3. k * d >= 0 OBVIOUS
<1>4. PICK x \in Int, y \in Int, z \in Int : x = a * d /\ y = b * d /\ z = k * d OBVIOUS
<1> QED BY <1>2, <1>3, <1>4

LEMMA RoundWithin ==
  ASSUME NEW n \in Int, NEW d \in Nat \ {0}, NEW l \in Int, NEW h \in Int, l * d <= n, n <= h * d
  PROVE  l <= Round(n, d) /\ Round(n, d) <= h
<1> DEFINE down == n \div d
           rest == n % d
<1>1. down \in Int /\ rest \in 0..(d - 1) /\ n = down * d + rest OBVIOUS
<1>2. l <= down
  <2>1. (down + 1) * d = down * d + d BY <1>1
  <2>a. l * d \in Int /\ down * d \in Int /\ (down + 1) * d \in Int BY <1>1
  <2>2. PICK x \in Int, y \in Int, z \in Int : x = l * d /\ y = down * d /\ z = (down + 1) * d
    BY <2>a
  <2>3. l * d < (down + 1) * d BY <1>1, <2>1, <2>2
  <2>4. l < down + 1 BY <2>3, <1>1, FactorOut
  <2> QED BY <2>4, <1>1
<1>3. down <= h
  <2>1. (h + 1) * d = h * d + d OBVIOUS
  <2>2. PICK x \in Int, y \in Int, z \in Int : x = h * d /\ y = down * d /\ z = (h + 1) * d
    BY <1>1
  <2>3. down * d < (h + 1) * d BY <1>1, <2>1, <2>2
  <2>4. down < h + 1 BY <2>3, <1>1, FactorOut
  <2> QED BY <2>4, <1>1
<1>4. ASSUME rest > 0 PROVE down + 1 <= h
  <2>1. PICK x \in Int, y \in Int : x = h * d /\ y = down * d BY <1>1
  <2>2. down * d < h * d BY <1>1, <1>4, <2>1
  <2>3. down < h BY <2>2, <1>1, FactorOut
  <2> QED BY <2>3, <1>1
<1>5. Round(n, d) = IF 2 * rest < d \/ (2 * rest = d /\ down % 2 = 0) THEN down ELSE down + 1
  BY DEF Round
<1> HIDE DEF down, rest
<1>6. CASE rest = 0
  <2>1. 2 * rest < d BY <1>6
  <2> QED BY <2>1, <1>5, <1>2, <1>3
<1>7. CASE rest > 0 BY <1>7, <1>4, <1>5, <1>2, <1>3, <1>1
<1> QED BY <1>1, <1>6, <1>7

\* Trades in the order of their time stamps.
Rising(ts) == ts \in Seq(Trade) /\ \A i, j \in 1..Len(ts) : i <= j => ts[i].ts <= ts[j].ts

PricesOf(ts, is) == {ts[i].price : i \in is}

\* The trades of a bucket are finitely many, with natural prices and quantities.
LEMMA PlacesOf ==
  ASSUME NEW ts \in Seq(Trade), NEW S \in SUBSET (1..Len(ts))
  PROVE  /\ IsFiniteSet(S) /\ S \in SUBSET Nat
         /\ IsFiniteSet(PricesOf(ts, S)) /\ \A p \in PricesOf(ts, S) : p \in Nat
         /\ S # {} => PricesOf(ts, S) # {}
         /\ \A i \in S : /\ ts[i] \in Trade /\ ts[i].price \in Nat /\ ts[i].qty \in Nat
                         /\ Quantity(ts)[i] = ts[i].qty /\ Quantity(ts)[i] \in Nat
                         /\ Turnover(ts)[i] = ts[i].price * ts[i].qty /\ Turnover(ts)[i] \in Nat
<1>1. Len(ts) \in Nat /\ DOMAIN ts = 1..Len(ts) /\ 1 \in Int /\ Len(ts) \in Int OBVIOUS
<1>2. IsFiniteSet(1..Len(ts)) BY <1>1, FS_Interval
<1>3. IsFiniteSet(S) BY <1>2, FS_Subset
<1>4. ASSUME NEW i \in S
      PROVE  /\ ts[i] \in Trade /\ ts[i].price \in Nat /\ ts[i].qty \in Nat
             /\ Quantity(ts)[i] = ts[i].qty
             /\ Turnover(ts)[i] = ts[i].price * ts[i].qty /\ Turnover(ts)[i] \in Nat
  <2>1. i \in DOMAIN ts BY <1>1
  <2>2. ts[i] \in Trade BY <2>1, <1>1
  <2>3. ts[i].price \in Nat /\ ts[i].qty \in Nat BY <2>2 DEF Trade
  <2>4. ts[i].price * ts[i].qty \in Nat
    <3>1. PICK p \in Nat, q \in Nat : p = ts[i].price /\ q = ts[i].qty BY <2>3
    <3>2. p * q \in Nat OBVIOUS
    <3> QED BY <3>1, <3>2
  <2>5. Quantity(ts)[i] = ts[i].qty BY <2>1 DEF Quantity
  <2>6. Turnover(ts)[i] = ts[i].price * ts[i].qty BY <2>1 DEF Turnover
  <2> QED BY <2>2, <2>3, <2>4, <2>5, <2>6
<1>5. PricesOf(ts, S) = {ts[i].price : i \in S} BY DEF PricesOf
<1>6. IsFiniteSet(PricesOf(ts, S))
  <2> DEFINE f == [i \in S |-> ts[i].price]
  <2>1. f \in Surjection(S, PricesOf(ts, S)) BY <1>5 DEF Surjection
  <2> HIDE DEF f
  <2> QED BY <2>1, <1>3, FS_Surjection
<1>7. S # {} => PricesOf(ts, S) # {} BY <1>5
<1>8. \A p \in PricesOf(ts, S) : p \in Nat BY <1>4, <1>5
<1> QED BY <1>1, <1>3, <1>4, <1>6, <1>7, <1>8

\* What one more trade t, at place n, changes.
Extends(new, ts, t, n) ==
  /\ new \in Seq(Trade) /\ Len(new) = n /\ n = Len(ts) + 1 /\ new[n] = t
  /\ \A i \in 1..Len(ts) : new[i] = ts[i]

\* Appending a trade is such an extension.
LEMMA OneMore ==
  ASSUME NEW ts \in Seq(Trade), NEW t \in Trade
  PROVE  Extends(Append(ts, t), ts, t, Len(ts) + 1)
BY DEF Extends

InsideOneMore(new, ts, t, n, iv, b) ==
  /\ Inside(new, iv, b) = IF Bucket(iv, t.ts) = b THEN Inside(ts, iv, b) \cup {n}
                          ELSE Inside(ts, iv, b)
  /\ Before(new, iv, b) = IF Bucket(iv, t.ts) < b THEN Before(ts, iv, b) \cup {n}
                          ELSE Before(ts, iv, b)
  /\ Inside(ts, iv, b) \in SUBSET (1..Len(ts)) /\ Before(ts, iv, b) \in SUBSET (1..Len(ts))

\* The bucket of the new trade gains its place; no other changes.
LEMMA InsideExtended ==
  ASSUME NEW ts \in Seq(Trade), NEW new, NEW t, NEW n, Extends(new, ts, t, n), NEW iv, NEW b
  PROVE  InsideOneMore(new, ts, t, n, iv, b)
<1>1. /\ DOMAIN new = 1..n /\ DOMAIN ts = 1..Len(ts) /\ n = Len(ts) + 1 /\ Len(ts) \in Nat
      /\ new[n] = t
  BY DEF Extends
<1>2. 1..n = 1..Len(ts) \cup {n} /\ n \notin 1..Len(ts) BY <1>1
<1>3. \A i \in 1..Len(ts) : new[i] = ts[i] BY DEF Extends
<1>4. /\ Inside(new, iv, b) = {i \in 1..Len(ts) \cup {n} : Bucket(iv, new[i].ts) = b}
      /\ Before(new, iv, b) = {i \in 1..Len(ts) \cup {n} : Bucket(iv, new[i].ts) < b}
      /\ Inside(ts, iv, b) = {i \in 1..Len(ts) : Bucket(iv, ts[i].ts) = b}
      /\ Before(ts, iv, b) = {i \in 1..Len(ts) : Bucket(iv, ts[i].ts) < b}
  BY <1>1, <1>2 DEF Inside, Before
<1> QED BY <1>1, <1>2, <1>3, <1>4 DEF InsideOneMore

\* The two cases of the reference.
LEMMA ReferenceIs ==
  ASSUME NEW ts, NEW iv, NEW b
  PROVE  /\ Inside(ts, iv, b) = {} =>
              ReferenceBar(ts, iv, b) = EmptyBar(b, ts[Max(Before(ts, iv, b))].price)
         /\ Inside(ts, iv, b) # {} =>
              ReferenceBar(ts, iv, b)
              = [bucket |-> b, open |-> ts[Min(Inside(ts, iv, b))].price,
                 high |-> Max(PricesOf(ts, Inside(ts, iv, b))),
                 low |-> Min(PricesOf(ts, Inside(ts, iv, b))),
                 close |-> ts[Max(Inside(ts, iv, b))].price,
                 volume |-> SumFunctionOnSet(Quantity(ts), Inside(ts, iv, b)),
                 count |-> Cardinality(Inside(ts, iv, b)),
                 pv |-> SumFunctionOnSet(Turnover(ts), Inside(ts, iv, b))]
BY DEF ReferenceBar, PricesOf

\* Places have a first and a last.
LEMMA FirstAndLast ==
  ASSUME NEW ts \in Seq(Trade), NEW S \in SUBSET (1..Len(ts)), S # {}
  PROVE  /\ Max(S) \in S /\ \A i \in S : i <= Max(S)
         /\ Min(S) \in S /\ \A i \in S : Min(S) <= i
<1>1. Len(ts) \in Nat OBVIOUS
<1>2. IsFiniteSet(S) /\ \A i \in S : i \in Nat BY <1>1, PlacesOf
<1>3. 0 \in Nat OBVIOUS
<1> QED BY <1>2, <1>3, ExtremesAdd

\* A trade in a later bucket leaves the reference of an earlier one as it is.
LEMMA EarlierReference ==
  ASSUME NEW ts \in Seq(Trade), NEW new, NEW t, NEW n, Extends(new, ts, t, n), NEW iv, NEW b,
         Bucket(iv, t.ts) # b, ~(Bucket(iv, t.ts) < b),
         Inside(ts, iv, b) \cup Before(ts, iv, b) # {}
  PROVE  ReferenceBar(new, iv, b) = ReferenceBar(ts, iv, b)
<1>1. InsideOneMore(new, ts, t, n, iv, b) BY InsideExtended
<1>2. PICK I, P : I = Inside(ts, iv, b) /\ P = Before(ts, iv, b) OBVIOUS
<1>3. /\ Inside(new, iv, b) = I /\ Before(new, iv, b) = P
      /\ I \in SUBSET (1..Len(ts)) /\ P \in SUBSET (1..Len(ts)) /\ I \cup P # {}
  BY <1>1, <1>2 DEF InsideOneMore
<1>4. \A i \in 1..Len(ts) : new[i] = ts[i] BY DEF Extends
<1>5. new \in Seq(Trade) /\ 1..Len(ts) \subseteq 1..Len(new)
  BY DEF Extends
<1>6. CASE I = {}
  <2>1. P # {} BY <1>3, <1>6
  <2>2. Max(P) \in P BY <2>1, <1>3, FirstAndLast
  <2>3. new[Max(P)] = ts[Max(P)] BY <2>2, <1>3, <1>4
  <2> QED BY <2>3, <1>2, <1>3, <1>6, ReferenceIs
<1>7. CASE I # {}
  <2>1. Max(I) \in I /\ Min(I) \in I BY <1>3, <1>7, FirstAndLast
  <2>2. new[Max(I)] = ts[Max(I)] /\ new[Min(I)] = ts[Min(I)] BY <2>1, <1>3, <1>4
  <2>3. PricesOf(new, I) = PricesOf(ts, I) BY <1>3, <1>4 DEF PricesOf
  <2>4. /\ IsFiniteSet(I)
        /\ \A i \in I : Quantity(ts)[i] = ts[i].qty /\ Turnover(ts)[i] = ts[i].price * ts[i].qty
    BY <1>3, PlacesOf
  <2>5. I \in SUBSET (1..Len(new)) BY <1>3, <1>5
  <2>6. \A i \in I : /\ Quantity(new)[i] = new[i].qty
                     /\ Turnover(new)[i] = new[i].price * new[i].qty
    BY <1>5, <2>5, PlacesOf
  <2>7. \A i \in I : Quantity(new)[i] = Quantity(ts)[i] /\ Turnover(new)[i] = Turnover(ts)[i]
    BY <2>4, <2>6, <1>3, <1>4
  <2>8. SumFunctionOnSet(Quantity(new), I) = SumFunctionOnSet(Quantity(ts), I)
    BY <2>4, <2>7, SumSame
  <2>9. SumFunctionOnSet(Turnover(new), I) = SumFunctionOnSet(Turnover(ts), I)
    BY <2>4, <2>7, SumSame
  <2> QED BY <2>2, <2>3, <2>8, <2>9, <1>2, <1>3, <1>7, ReferenceIs
<1> QED BY <1>6, <1>7

\* The first trade of a bucket opens its bar.
LEMMA OpeningReference ==
  ASSUME NEW ts \in Seq(Trade), NEW new, NEW t \in Trade, NEW n, Extends(new, ts, t, n), NEW iv,
         Inside(ts, iv, Bucket(iv, t.ts)) = {}
  PROVE  ReferenceBar(new, iv, Bucket(iv, t.ts)) = FirstBar(Bucket(iv, t.ts), t.price, t.qty)
<1>1. PICK b : b = Bucket(iv, t.ts) OBVIOUS
<1>2. Inside(new, iv, b) = {n} BY <1>1, InsideExtended DEF InsideOneMore
<1>3. /\ new \in Seq(Trade) /\ new[n] = t /\ n \in Nat /\ n = Len(new) /\ n \in 1..Len(new)
  BY DEF Extends
<1>4. {n} \in SUBSET (1..Len(new)) BY <1>3
<1>5. /\ IsFiniteSet({n}) /\ Quantity(new)[n] = t.qty /\ Turnover(new)[n] = t.price * t.qty
      /\ t.price \in Nat /\ t.qty \in Nat /\ Turnover(new)[n] \in Nat
  BY <1>3, <1>4, PlacesOf
<1>6. Max({n}) = n /\ Min({n}) = n BY <1>3, GreatestOf, LeastOf
<1>7. PricesOf(new, {n}) = {t.price} BY <1>3 DEF PricesOf
<1>8. Max({t.price}) = t.price /\ Min({t.price}) = t.price
  <2>1. PICK p \in Nat : p = t.price BY <1>5
  <2>2. Max({p}) = p /\ Min({p}) = p BY GreatestOf, LeastOf
  <2> QED BY <2>1, <2>2
<1>9. /\ SumFunctionOnSet(Quantity(new), {n}) = t.qty
      /\ SumFunctionOnSet(Turnover(new), {n}) = t.price * t.qty
  <2>1. SumFunctionOnSet(Quantity(new), {n}) = Quantity(new)[n] BY <1>5, SumOne
  <2>2. SumFunctionOnSet(Turnover(new), {n}) = Turnover(new)[n] BY <1>5, SumOne
  <2> QED BY <2>1, <2>2, <1>5
<1>10. Cardinality({n}) = 1 BY FS_Singleton
<1>11. ReferenceBar(new, iv, b) = FirstBar(b, t.price, t.qty)
  <2>1. Inside(new, iv, b) # {} BY <1>2
  <2>2. ReferenceBar(new, iv, b)
        = [bucket |-> b, open |-> new[Min({n})].price, high |-> Max(PricesOf(new, {n})),
           low |-> Min(PricesOf(new, {n})), close |-> new[Max({n})].price,
           volume |-> SumFunctionOnSet(Quantity(new), {n}), count |-> Cardinality({n}),
           pv |-> SumFunctionOnSet(Turnover(new), {n})]
    BY <1>2, <2>1, ReferenceIs
  <2>3. ReferenceBar(new, iv, b)
        = [bucket |-> b, open |-> t.price, high |-> t.price, low |-> t.price,
           close |-> t.price, volume |-> t.qty, count |-> 1, pv |-> t.price * t.qty]
    BY <2>2, <1>3, <1>6, <1>7, <1>8, <1>9, <1>10
  <2> QED BY <2>3 DEF FirstBar
<1> QED BY <1>1, <1>11

\* A further trade extends it.
LEMMA ExtendedReference ==
  ASSUME NEW ts \in Seq(Trade), NEW new, NEW t \in Trade, NEW n, Extends(new, ts, t, n), NEW iv,
         Inside(ts, iv, Bucket(iv, t.ts)) # {}
  PROVE  ReferenceBar(new, iv, Bucket(iv, t.ts))
         = Extended(ReferenceBar(ts, iv, Bucket(iv, t.ts)), t.price, t.qty)
<1>1. PICK b, I, J : b = Bucket(iv, t.ts) /\ I = Inside(ts, iv, b) /\ J = Inside(new, iv, b)
  OBVIOUS
<1>2. J = I \cup {n} /\ I \in SUBSET (1..Len(ts)) /\ I # {}
  BY <1>1, InsideExtended DEF InsideOneMore
<1>3. /\ new \in Seq(Trade) /\ new[n] = t /\ n \in Nat /\ n = Len(ts) + 1 /\ n = Len(new)
      /\ Len(ts) \in Nat /\ \A i \in 1..Len(ts) : new[i] = ts[i]
  BY DEF Extends
<1>4. /\ J \in SUBSET (1..Len(new)) /\ n \notin I /\ I \in SUBSET (1..Len(new)) /\ n \in J
      /\ J \in SUBSET Nat /\ \A i \in J : i <= n
  <2>1. 1..Len(new) = 1..Len(ts) \cup {n} /\ n \notin 1..Len(ts) BY <1>3
  <2>2. \A i \in 1..Len(new) : i \in Nat /\ i <= n BY <1>3
  <2> QED BY <1>2, <2>1, <2>2
<1>5. /\ IsFiniteSet(I) /\ IsFiniteSet(PricesOf(ts, I)) /\ PricesOf(ts, I) # {}
      /\ \A p \in PricesOf(ts, I) : p \in Nat
      /\ \A i \in I : Quantity(ts)[i] = ts[i].qty /\ Turnover(ts)[i] = ts[i].price * ts[i].qty
  BY <1>2, PlacesOf
<1>6. /\ IsFiniteSet(J)
      /\ \A i \in J : /\ Quantity(new)[i] = new[i].qty /\ Quantity(new)[i] \in Nat
                      /\ Turnover(new)[i] = new[i].price * new[i].qty /\ Turnover(new)[i] \in Nat
      /\ t.price \in Nat /\ t.qty \in Nat
  BY <1>3, <1>4, PlacesOf
<1>7. Max(J) = n BY <1>4, GreatestOf
<1>8. Min(I) \in I /\ \A i \in I : Min(I) <= i BY <1>2, FirstAndLast
<1>9. Min(J) = Min(I)
  <2>1. PICK m \in J : m = Min(I) /\ m \in I BY <1>2, <1>8
  <2>2. \A i \in J : m <= i BY <2>1, <1>2, <1>4, <1>8
  <2>3. Min(J) = m BY <2>2, <1>4, LeastOf
  <2> QED BY <2>1, <2>3
<1>10. new[Min(I)] = ts[Min(I)] BY <1>2, <1>3, <1>8
<1>11. PricesOf(new, J) = PricesOf(ts, I) \cup {t.price}
  BY <1>2, <1>3 DEF PricesOf
<1>12. /\ Max(PricesOf(new, J)) = Larger(Max(PricesOf(ts, I)), t.price)
       /\ Min(PricesOf(new, J)) = Smaller(Min(PricesOf(ts, I)), t.price)
  BY <1>5, <1>6, <1>11, ExtremesAdd
<1>13. \A i \in I : Quantity(new)[i] = Quantity(ts)[i] /\ Turnover(new)[i] = Turnover(ts)[i]
  BY <1>2, <1>3, <1>5, <1>6
<1>14. J \ {n} = I BY <1>2, <1>4
<1>15. ASSUME NEW f, NEW g, \A i \in J : g[i] \in Nat, \A i \in I : g[i] = f[i]
       PROVE  SumFunctionOnSet(g, J) = SumFunctionOnSet(f, I) + g[n]
  <2>1. SumFunctionOnSet(g, J) = g[n] + SumFunctionOnSet(g, J \ {n})
    <3>1. \A i \in J : g[i] \in Int BY <1>15
    <3>2. IsFiniteSet(J) /\ n \in J BY <1>4, <1>6
    <3> QED BY <3>1, <3>2, SumTakeOut
  <2>2. SumFunctionOnSet(g, I) = SumFunctionOnSet(f, I) BY <1>5, <1>15, SumSame
  <2>3. SumFunctionOnSet(g, I) \in Int
    <3>1. \A i \in I : g[i] \in Int BY <1>15, <1>2
    <3> QED BY <3>1, <1>5, SumType
  <2>4. g[n] \in Nat BY <1>15, <1>4
  <2>5. PICK x \in Int, y \in Int : x = SumFunctionOnSet(g, I) /\ y = g[n] BY <2>3, <2>4
  <2>6. SumFunctionOnSet(g, J) = g[n] + SumFunctionOnSet(g, I) BY <2>1, <1>14
  <2>7. y + x = x + y OBVIOUS
  <2> QED BY <2>2, <2>5, <2>6, <2>7
<1>16. /\ SumFunctionOnSet(Quantity(new), J) = SumFunctionOnSet(Quantity(ts), I) + t.qty
       /\ SumFunctionOnSet(Turnover(new), J) = SumFunctionOnSet(Turnover(ts), I) + t.price * t.qty
  <2>1. SumFunctionOnSet(Quantity(new), J)
        = SumFunctionOnSet(Quantity(ts), I) + Quantity(new)[n]
    BY <1>6, <1>13, <1>15
  <2>2. SumFunctionOnSet(Turnover(new), J)
        = SumFunctionOnSet(Turnover(ts), I) + Turnover(new)[n]
    BY <1>6, <1>13, <1>15
  <2> QED BY <2>1, <2>2, <1>3, <1>4, <1>6
<1>17. Cardinality(J) = Cardinality(I) + 1 BY <1>2, <1>4, <1>5, FS_AddElement
<1>18. ReferenceBar(ts, iv, b)
       = [bucket |-> b, open |-> ts[Min(I)].price, high |-> Max(PricesOf(ts, I)),
          low |-> Min(PricesOf(ts, I)), close |-> ts[Max(I)].price,
          volume |-> SumFunctionOnSet(Quantity(ts), I), count |-> Cardinality(I),
          pv |-> SumFunctionOnSet(Turnover(ts), I)]
  BY <1>1, <1>2, ReferenceIs
<1>19. ReferenceBar(new, iv, b)
       = [bucket |-> b, open |-> ts[Min(I)].price,
          high |-> Larger(Max(PricesOf(ts, I)), t.price),
          low |-> Smaller(Min(PricesOf(ts, I)), t.price), close |-> t.price,
          volume |-> SumFunctionOnSet(Quantity(ts), I) + t.qty, count |-> Cardinality(I) + 1,
          pv |-> SumFunctionOnSet(Turnover(ts), I) + t.price * t.qty]
  <2>1. J # {} BY <1>4
  <2>2. ReferenceBar(new, iv, b)
        = [bucket |-> b, open |-> new[Min(J)].price, high |-> Max(PricesOf(new, J)),
           low |-> Min(PricesOf(new, J)), close |-> new[Max(J)].price,
           volume |-> SumFunctionOnSet(Quantity(new), J), count |-> Cardinality(J),
           pv |-> SumFunctionOnSet(Turnover(new), J)]
    BY <1>1, <2>1, ReferenceIs
  <2> QED BY <2>2, <1>3, <1>7, <1>9, <1>10, <1>12, <1>16, <1>17
<1>20. ReferenceBar(new, iv, b) = Extended(ReferenceBar(ts, iv, b), t.price, t.qty)
  <2>1. PICK o, h, l, c, v, k, w :
          /\ o = ts[Min(I)].price /\ h = Max(PricesOf(ts, I)) /\ l = Min(PricesOf(ts, I))
          /\ c = ts[Max(I)].price /\ v = SumFunctionOnSet(Quantity(ts), I)
          /\ k = Cardinality(I) /\ w = SumFunctionOnSet(Turnover(ts), I)
    OBVIOUS
  <2>2. PICK p, q : p = t.price /\ q = t.qty OBVIOUS
  <2>3. Extended([bucket |-> b, open |-> o, high |-> h, low |-> l, close |-> c, volume |-> v,
                  count |-> k, pv |-> w], p, q)
        = [bucket |-> b, open |-> o, high |-> Larger(h, p), low |-> Smaller(l, p), close |-> p,
           volume |-> v + q, count |-> k + 1, pv |-> w + p * q]
    <3> DEFINE bar == [bucket |-> b, open |-> o, high |-> h, low |-> l, close |-> c,
                       volume |-> v, count |-> k, pv |-> w]
    <3>1. PICK h2, l2, v2, k2, w2 : /\ h2 = Larger(h, p) /\ l2 = Smaller(l, p)
                                    /\ v2 = v + q /\ k2 = k + 1 /\ w2 = w + p * q
      OBVIOUS
    <3>2. /\ bar.high = h /\ bar.low = l /\ bar.volume = v /\ bar.count = k /\ bar.pv = w
      OBVIOUS
    <3>3. Extended(bar, p, q) = [bar EXCEPT !.high = h2, !.low = l2, !.close = p,
                                            !.volume = v2, !.count = k2, !.pv = w2]
      <4> HIDE DEF bar
      <4> QED BY <3>1, <3>2 DEF Extended
    <3>4. bar \in [bucket : {b}, open : {o}, high : {h}, low : {l}, close : {c}, volume : {v},
                   count : {k}, pv : {w}]
      OBVIOUS
    <3> HIDE DEF bar
    <3>5. Extended(bar, p, q) \in [bucket : {b}, open : {o}, high : {h2}, low : {l2},
                                   close : {p}, volume : {v2}, count : {k2}, pv : {w2}]
      BY <3>3, <3>4
    <3>6. Extended(bar, p, q) = [bucket |-> b, open |-> o, high |-> h2, low |-> l2, close |-> p,
                                 volume |-> v2, count |-> k2, pv |-> w2]
      BY <3>5
    <3> QED BY <3>1, <3>6 DEF bar
  <2> QED BY <1>18, <1>19, <2>1, <2>2, <2>3
<1> QED BY <1>1, <1>20

Seen(ts, iv, b) == Inside(ts, iv, b) \cup Before(ts, iv, b) # {}

\* Between the bucket of the last trade and that of the next, its price carries forward.
LEMMA GapReference ==
  ASSUME NEW ts, Rising(ts), ts # <<>>, NEW new, NEW t, NEW n, Extends(new, ts, t, n),
         NEW iv \in Nat \ {0}, NEW b \in Nat, t.ts \in Nat,
         Bucket(iv, ts[Len(ts)].ts) < b, b < Bucket(iv, t.ts)
  PROVE  ReferenceBar(new, iv, b) = EmptyBar(b, ts[Len(ts)].price) /\ Seen(new, iv, b)
<1>1. ts \in Seq(Trade) /\ Len(ts) \in Nat /\ Len(ts) \in 1..Len(ts) BY DEF Rising
<1>2. \A i \in 1..Len(ts) : Bucket(iv, ts[i].ts) \in Nat /\ Bucket(iv, ts[i].ts) < b
  <2> SUFFICES ASSUME NEW i \in 1..Len(ts)
               PROVE  Bucket(iv, ts[i].ts) \in Nat /\ Bucket(iv, ts[i].ts) < b
    OBVIOUS
  <2>1. ts[i] \in Trade /\ ts[Len(ts)] \in Trade BY <1>1
  <2>2. PICK x \in Nat, y \in Nat : x = ts[i].ts /\ y = ts[Len(ts)].ts BY <2>1 DEF Trade
  <2>3. x <= y /\ y <= y BY <1>1, <2>2 DEF Rising
  <2>4. x \div iv \in Nat /\ y \div iv \in Nat /\ x \div iv <= y \div iv BY <2>3, DivMonotone
  <2> QED BY <2>2, <2>4 DEF Bucket
<1>3. Inside(ts, iv, b) = {} /\ Before(ts, iv, b) = 1..Len(ts)
  BY <1>1, <1>2 DEF Inside, Before
<1>4. Bucket(iv, t.ts) \in Nat BY DivMonotone DEF Bucket
<1>5. ~(Bucket(iv, t.ts) = b) /\ ~(Bucket(iv, t.ts) < b) BY <1>4
<1>6. Inside(new, iv, b) = {} /\ Before(new, iv, b) = 1..Len(ts)
  BY <1>1, <1>3, <1>5, InsideExtended DEF InsideOneMore
<1>7. Max(1..Len(ts)) = Len(ts)
  <2>1. 1..Len(ts) \in SUBSET Nat /\ \A i \in 1..Len(ts) : i <= Len(ts) BY <1>1
  <2> QED BY <2>1, <1>1, GreatestOf
<1>8. new[Len(ts)] = ts[Len(ts)] BY <1>1 DEF Extends
<1>9. Seen(new, iv, b) BY <1>1, <1>6 DEF Seen
<1> QED BY <1>6, <1>7, <1>8, <1>9, ReferenceIs

\* The bar of the last trade closes at its price.
LEMMA LastReference ==
  ASSUME NEW ts, Rising(ts), ts # <<>>, NEW iv
  PROVE  /\ Inside(ts, iv, Bucket(iv, ts[Len(ts)].ts)) # {}
         /\ ReferenceBar(ts, iv, Bucket(iv, ts[Len(ts)].ts)).close = ts[Len(ts)].price
<1>1. ts \in Seq(Trade) /\ Len(ts) \in Nat /\ Len(ts) \in 1..Len(ts) BY DEF Rising
<1>2. PICK b, I : b = Bucket(iv, ts[Len(ts)].ts) /\ I = Inside(ts, iv, b) OBVIOUS
<1>3. Len(ts) \in I /\ I \in SUBSET (1..Len(ts)) BY <1>1, <1>2 DEF Inside
<1>4. I \in SUBSET Nat /\ \A i \in I : i <= Len(ts) BY <1>1, <1>3
<1>5. Max(I) = Len(ts) BY <1>3, <1>4, GreatestOf
<1> QED BY <1>2, <1>3, <1>5, ReferenceIs

-----------------------------------------------------------------------------
(* The range of a bar. *)

\* The mean price of a bar, exact, is between its low and its high.
Ranged(bar) ==
  /\ bar.low \in Nat /\ bar.high \in Nat /\ bar.close \in Nat /\ bar.volume \in Nat
  /\ bar.pv \in Nat
  /\ bar.low <= bar.close /\ bar.close <= bar.high
  /\ bar.low * bar.volume <= bar.pv /\ bar.pv <= bar.high * bar.volume

\* The mean of a first bar, or of an empty one, is its only price.
LEMMA FirstRanged ==
  ASSUME NEW b, NEW p \in Nat, NEW q \in Nat
  PROVE  Ranged(FirstBar(b, p, q)) /\ Ranged(EmptyBar(b, p))
<1>1. p * q \in Nat /\ p * 0 = 0 OBVIOUS
<1>2. PICK w \in Nat : w = p * q BY <1>1
<1>3. w <= w OBVIOUS
<1>4. Ranged(FirstBar(b, p, q)) BY <1>2, <1>3 DEF Ranged, FirstBar
<1>5. /\ EmptyBar(b, p).low = p /\ EmptyBar(b, p).high = p /\ EmptyBar(b, p).close = p
      /\ EmptyBar(b, p).volume = 0 /\ EmptyBar(b, p).pv = 0
  BY <1>1 DEF EmptyBar, FirstBar
<1>6. Ranged(EmptyBar(b, p)) BY <1>1, <1>5 DEF Ranged
<1> QED BY <1>4, <1>6

\* Weighing one more price.
LEMMA WeighedMore ==
  ASSUME NEW l \in Nat, NEW h \in Nat, NEW v \in Nat, NEW w \in Nat, NEW p \in Nat, NEW q \in Nat,
         l * v <= w, w <= h * v
  PROVE  /\ Smaller(l, p) * (v + q) <= w + p * q
         /\ w + p * q <= Larger(h, p) * (v + q)
<1>0. ASSUME NEW a \in Nat, NEW c \in Nat, NEW d \in Nat, a <= c PROVE a * d <= c * d
  <2>1. PICK k \in Nat : c = a + k
    <3>1. c - a \in Nat /\ c = a + (c - a) BY <1>0
    <3> QED BY <3>1
  <2>2. c * d = a * d + k * d BY <2>1
  <2>3. PICK x \in Nat, y \in Nat : x = a * d /\ y = k * d OBVIOUS
  <2> QED BY <2>2, <2>3
<1>1. PICK m \in Nat : m = Smaller(l, p) /\ m <= l /\ m <= p BY DEF Smaller
<1>2. PICK g \in Nat : g = Larger(h, p) /\ h <= g /\ p <= g BY DEF Larger
<1>3. m * (v + q) = m * v + m * q /\ g * (v + q) = g * v + g * q OBVIOUS
<1>4. m * v <= l * v /\ m * q <= p * q BY <1>0, <1>1
<1>5. h * v <= g * v /\ p * q <= g * q BY <1>0, <1>2
<1>6. PICK x1 \in Nat, x2 \in Nat, x3 \in Nat, x4 \in Nat :
        x1 = m * v /\ x2 = m * q /\ x3 = l * v /\ x4 = p * q
  OBVIOUS
<1>7. PICK y1 \in Nat, y2 \in Nat, y3 \in Nat : y1 = g * v /\ y2 = g * q /\ y3 = h * v
  OBVIOUS
<1>8. m * (v + q) <= w + p * q BY <1>3, <1>4, <1>6
<1>9. w + p * q <= g * (v + q) BY <1>3, <1>5, <1>6, <1>7
<1> QED BY <1>1, <1>2, <1>8, <1>9

\* A further trade keeps the mean in the range.
LEMMA ExtendedRanged ==
  ASSUME NEW bar \in Bar, Ranged(bar), NEW p \in Nat, NEW q \in Nat
  PROVE  Ranged(Extended(bar, p, q))
<1>1. PICK l \in Nat, h \in Nat, v \in Nat, w \in Nat :
        /\ l = bar.low /\ h = bar.high /\ v = bar.volume /\ w = bar.pv
        /\ l * v <= w /\ w <= h * v
  BY DEF Ranged
<1>2. /\ Smaller(l, p) * (v + q) <= w + p * q /\ w + p * q <= Larger(h, p) * (v + q)
  BY <1>1, WeighedMore
<1>3. PICK l2 \in Nat, h2 \in Nat : /\ l2 = Smaller(l, p) /\ h2 = Larger(h, p)
                                    /\ l2 <= p /\ p <= h2
  BY DEF Smaller, Larger
<1>4. PICK v2 \in Nat, w2 \in Nat : v2 = v + q /\ w2 = w + p * q
  <2>1. p * q \in Nat OBVIOUS
  <2>2. v + q \in Nat /\ w + p * q \in Nat BY <2>1
  <2> QED BY <2>2
<1>5. PICK k : k = bar.count + 1 OBVIOUS
<1>6. Extended(bar, p, q) = [bar EXCEPT !.high = h2, !.low = l2, !.close = p, !.volume = v2,
                                        !.count = k, !.pv = w2]
  BY <1>1, <1>3, <1>4, <1>5 DEF Extended
<1>7. PICK new : new = Extended(bar, p, q) OBVIOUS
<1>8. new.high = h2 /\ new.low = l2 /\ new.close = p /\ new.volume = v2 /\ new.pv = w2
  BY <1>6, <1>7 DEF Bar
<1>9. Ranged(new) BY <1>2, <1>3, <1>4, <1>8 DEF Ranged
<1> QED BY <1>7, <1>9

\* And so does rounding.
LEMMA MeanRanged ==
  ASSUME NEW bar, Ranged(bar)
  PROVE  bar.low <= Vwap(bar) /\ Vwap(bar) <= bar.high
<1>1. PICK l \in Nat, h \in Nat, v \in Nat, w \in Nat :
        /\ l = bar.low /\ h = bar.high /\ v = bar.volume /\ w = bar.pv
        /\ l * v <= w /\ w <= h * v
  BY DEF Ranged
<1>2. CASE v > 0
  <2>1. v \in Nat \ {0} /\ w \in Int /\ l \in Int /\ h \in Int BY <1>2
  <2>2. l <= Round(w, v) /\ Round(w, v) <= h BY <1>1, <2>1, RoundWithin
  <2> QED BY <1>1, <1>2, <2>2 DEF Vwap
<1>3. CASE ~(v > 0) BY <1>1, <1>3 DEF Vwap, Ranged
<1> QED BY <1>2, <1>3

\* Forgetting the oldest leaves bars.
LEMMA RecentBars ==
  ASSUME NEW bars \in Seq(Bar)
  PROVE  Recent(bars) \in Seq(Bar)
<1> DEFINE m == Larger(1, Len(bars) - MaxHistory + 1)
<1>0. MaxHistory \in Nat \ {0} BY CandlesAssumption
<1>1. m \in Nat /\ m >= 1 /\ Len(bars) \in Nat BY <1>0 DEF Larger
<1>2. Recent(bars) = SubSeq(bars, m, Len(bars)) BY DEF Recent
<1> HIDE DEF m
<1>3. SubSeq(bars, m, Len(bars)) \in Seq(Bar) BY <1>1
<1> QED BY <1>2, <1>3

\* The closed bars that are kept, and what closing adds.
LEMMA KeptWere ==
  ASSUME NEW bars \in Seq(Bar)
  PROVE  ToSet(Recent(bars)) \subseteq ToSet(bars)
<1> DEFINE m == Larger(1, Len(bars) - MaxHistory + 1)
<1>0. MaxHistory \in Nat \ {0} BY CandlesAssumption
<1>1. m \in Nat /\ m >= 1 /\ Len(bars) \in Nat BY <1>0 DEF Larger
<1>2. Recent(bars) = SubSeq(bars, m, Len(bars)) BY DEF Recent
<1> HIDE DEF m
<1>3. PICK kept : kept = SubSeq(bars, m, Len(bars)) OBVIOUS
<1>4. \A i \in DOMAIN kept : i + m - 1 \in DOMAIN bars /\ kept[i] = bars[i + m - 1]
  BY <1>1, <1>3
<1>5. ToSet(kept) \subseteq ToSet(bars) BY <1>4 DEF ToSet
<1> QED BY <1>2, <1>3, <1>5

Gap(bar, b) == {EmptyBar(c, bar.close) : c \in (bar.bucket + 1)..(b - 1)}

\* Closing adds the bar in progress and the empty ones up to the next trade.
LEMMA ClosingAdds ==
  ASSUME NEW bars \in Seq(Bar), NEW bar \in Bar, NEW b \in Nat, bar.bucket < b
  PROVE  /\ bars \o Closing(bar, b) \in Seq(Bar)
         /\ ToSet(bars \o Closing(bar, b)) \subseteq ToSet(bars) \cup {bar} \cup Gap(bar, b)
         /\ Gap(bar, b) \subseteq Bar
<1> DEFINE n == b - bar.bucket - 1
           gap == [i \in 1..n |-> EmptyBar(bar.bucket + i, bar.close)]
<1>0. bar.bucket \in Nat /\ n \in Nat BY DEF Bar
<1>1. ASSUME NEW c \in (bar.bucket + 1)..(b - 1) PROVE EmptyBar(c, bar.close) \in Bar
  <2>1. c \in Nat BY <1>0
  <2>2. PICK p \in Int : p = bar.close /\ p * 0 \in Int BY DEF Bar
  <2>3. EmptyBar(c, p) \in Bar BY <2>1, <2>2 DEF EmptyBar, FirstBar, Bar
  <2> QED BY <2>2, <2>3
<1>2. \A i \in 1..n : bar.bucket + i \in (bar.bucket + 1)..(b - 1) BY <1>0
<1>3. gap \in Seq(Bar) /\ DOMAIN gap = 1..n /\ Len(gap) = n
  <2>1. \A i \in 1..n : EmptyBar(bar.bucket + i, bar.close) \in Bar BY <1>1, <1>2
  <2> QED BY <1>0, <2>1
<1>4. \A i \in DOMAIN gap : gap[i] \in Gap(bar, b) BY <1>2, <1>3 DEF Gap
<1>5. Closing(bar, b) = <<bar>> \o gap BY DEF Closing
<1> HIDE DEF gap, n
<1>6. <<bar>> \in Seq(Bar) /\ Len(<<bar>>) = 1 /\ <<bar>>[1] = bar OBVIOUS
<1>7. PICK added \in Seq(Bar) : added = <<bar>> \o gap
  <2>1. PICK s \in Seq(Bar), r \in Seq(Bar) : s = <<bar>> /\ r = gap BY <1>3, <1>6
  <2>2. s \o r \in Seq(Bar) OBVIOUS
  <2> QED BY <2>1, <2>2
<1>8. \A i \in DOMAIN added : added[i] \in {bar} \cup Gap(bar, b)
  <2>1. DOMAIN added = 1..(n + 1) /\ added[1] = bar /\ \A i \in 2..(n + 1) : added[i] = gap[i - 1]
    BY <1>0, <1>3, <1>6, <1>7
  <2>2. \A i \in 1..(n + 1) : i = 1 \/ (i \in 2..(n + 1) /\ i - 1 \in 1..n) BY <1>0
  <2> QED BY <2>1, <2>2, <1>3, <1>4
<1>9. PICK all : all = bars \o added OBVIOUS
<1>10. /\ all \in Seq(Bar) /\ DOMAIN all = 1..(Len(bars) + Len(added))
       /\ Len(bars) \in Nat /\ Len(added) \in Nat /\ DOMAIN bars = 1..Len(bars)
       /\ DOMAIN added = 1..Len(added)
       /\ \A i \in 1..Len(bars) : all[i] = bars[i]
       /\ \A i \in (Len(bars) + 1)..(Len(bars) + Len(added)) : all[i] = added[i - Len(bars)]
  BY <1>9
<1>11. \A i \in DOMAIN all : \/ i \in DOMAIN bars
                             \/ /\ i \in (Len(bars) + 1)..(Len(bars) + Len(added))
                                /\ i - Len(bars) \in DOMAIN added
  BY <1>10
<1>12. \A i \in DOMAIN all : all[i] \in ToSet(bars) \cup {bar} \cup Gap(bar, b)
  BY <1>8, <1>10, <1>11 DEF ToSet
<1>13. ToSet(all) \subseteq ToSet(bars) \cup {bar} \cup Gap(bar, b) BY <1>12 DEF ToSet
<1>14. Gap(bar, b) \subseteq Bar BY <1>1 DEF Gap
<1> QED BY <1>5, <1>7, <1>9, <1>10, <1>13, <1>14

-----------------------------------------------------------------------------
(* The invariant. *)

Right(bar, ts, iv) ==
  /\ bar \in Bar /\ Ranged(bar)
  /\ bar = ReferenceBar(ts, iv, bar.bucket)
  /\ Seen(ts, iv, bar.bucket)

\* What the bars of one interval are after the trades ts.
Told(iv, bars, closed, ts) ==
  IF ts = <<>> THEN bars = <<>> /\ closed = <<>>
  ELSE \E bar \in Bar : /\ bars = <<bar>> /\ bar.bucket = Bucket(iv, ts[Len(ts)].ts)
                        /\ Right(bar, ts, iv) /\ closed \in Seq(Bar)
                        /\ \A old \in ToSet(closed) : Right(old, ts, iv)
                                                      /\ old.bucket < bar.bucket

BarsTellInv ==
  /\ Rising(taken)
  /\ taken # <<>> => lastTs = taken[Len(taken)].ts
  /\ \A iv \in Intervals : Told(iv, current[iv], history[iv], taken)

\* A right bar of an earlier bucket stays right.
LEMMA StaysRight ==
  ASSUME NEW ts \in Seq(Trade), NEW new, NEW t \in Trade, NEW n, Extends(new, ts, t, n),
         NEW iv \in Nat \ {0}, NEW bar, Right(bar, ts, iv), bar.bucket < Bucket(iv, t.ts)
  PROVE  Right(bar, new, iv)
<1>1. PICK b \in Nat : b = bar.bucket BY DEF Right, Bar
<1>2. PICK c \in Nat : c = Bucket(iv, t.ts)
  <2>1. t.ts \in Nat /\ t.ts <= t.ts BY DEF Trade
  <2> QED BY <2>1, DivMonotone DEF Bucket
<1>3. c # b /\ ~(c < b) BY <1>1, <1>2
<1>4. Inside(ts, iv, b) \cup Before(ts, iv, b) # {} BY <1>1 DEF Right, Seen
<1>5. ReferenceBar(new, iv, b) = ReferenceBar(ts, iv, b) BY <1>2, <1>3, <1>4, EarlierReference
<1>6. Inside(new, iv, b) = Inside(ts, iv, b) /\ Before(new, iv, b) = Before(ts, iv, b)
  BY <1>2, <1>3, InsideExtended DEF InsideOneMore
<1> QED BY <1>1, <1>4, <1>5, <1>6 DEF Right, Seen

\* The bar of the last trade is the one in progress.
LEMMA SeenLast ==
  ASSUME NEW ts \in Seq(Trade), NEW new, NEW t, NEW n, Extends(new, ts, t, n), NEW iv
  PROVE  /\ Seen(new, iv, Bucket(iv, t.ts)) /\ new # <<>>
         /\ Bucket(iv, new[Len(new)].ts) = Bucket(iv, t.ts)
<1>1. new \in Seq(Trade) /\ Len(new) = n /\ n \in Nat \ {0} /\ new[n] = t BY DEF Extends
<1>2. n \in Inside(new, iv, Bucket(iv, t.ts)) BY <1>1 DEF Inside
<1> QED BY <1>1, <1>2 DEF Seen

\* A trade not older than the last keeps the order.
LEMMA StillRising ==
  ASSUME NEW ts, Rising(ts), NEW t \in Trade, NEW new, NEW n, Extends(new, ts, t, n),
         ts # <<>> => ts[Len(ts)].ts <= t.ts
  PROVE  Rising(new)
<1>1. /\ new \in Seq(Trade) /\ Len(new) = n /\ n = Len(ts) + 1 /\ new[n] = t
      /\ Len(ts) \in Nat /\ \A i \in 1..Len(ts) : new[i] = ts[i] /\ ts[i] \in Trade
  BY DEF Extends, Rising
<1>2. ASSUME NEW i \in 1..n, NEW j \in 1..n, i <= j PROVE new[i].ts <= new[j].ts
  <2>1. CASE j # n
    <3>1. i \in 1..Len(ts) /\ j \in 1..Len(ts) BY <1>1, <1>2, <2>1
    <3> QED BY <3>1, <1>1, <1>2 DEF Rising
  <2>2. CASE j = n /\ i = n BY <2>2, <1>1 DEF Trade
  <2>3. CASE j = n /\ i # n
    <3>1. i \in 1..Len(ts) /\ Len(ts) \in 1..Len(ts) /\ i <= Len(ts) /\ ts # <<>>
      BY <1>1, <2>3
    <3>2. ts[i].ts <= ts[Len(ts)].ts BY <3>1 DEF Rising
    <3>3. ts[i].ts \in Nat /\ ts[Len(ts)].ts \in Nat /\ t.ts \in Nat BY <3>1, <1>1 DEF Trade
    <3> QED BY <3>1, <3>2, <3>3, <1>1, <2>3
  <2> QED BY <2>1, <2>2, <2>3
<1> QED BY <1>1, <1>2 DEF Rising

\* A trade that is not older than the last one keeps what an interval tells.
LEMMA ToldStep ==
  ASSUME BarsTellInv, NEW iv \in Intervals, NEW t \in Trade, InOrder(t.ts)
  PROVE  Told(iv, <<NextBar(iv, t.ts, t.price, t.qty)>>, NextHistory(iv, t.ts), Append(taken, t))
<1> DEFINE b == Bucket(iv, t.ts)
           bar2 == NextBar(iv, t.ts, t.price, t.qty)
           closed2 == NextHistory(iv, t.ts)
<1>0. iv \in Nat \ {0} BY CandlesAssumption
<1>1. Rising(taken) /\ taken \in Seq(Trade) /\ Told(iv, current[iv], history[iv], taken)
  BY DEF BarsTellInv, Rising
<1>2. PICK new, n : new = Append(taken, t) /\ n = Len(taken) + 1 OBVIOUS
<1>3. Extends(new, taken, t, n) BY <1>1, <1>2, OneMore
<1>4. t.ts \in Nat /\ t.price \in Nat /\ t.qty \in Nat BY DEF Trade
<1>5. b \in Nat
  <2>1. t.ts <= t.ts BY <1>4
  <2> QED BY <2>1, <1>0, <1>4, DivMonotone DEF Bucket
<1>6. Seen(new, iv, b) /\ new # <<>> /\ Bucket(iv, new[Len(new)].ts) = b
  BY <1>1, <1>3, SeenLast
<1>7. FirstBar(b, t.price, t.qty) \in Bar /\ Ranged(FirstBar(b, t.price, t.qty))
      /\ FirstBar(b, t.price, t.qty).bucket = b
  <2>1. t.price * t.qty \in Int BY <1>4
  <2>2. FirstBar(b, t.price, t.qty) \in Bar BY <1>4, <1>5, <2>1 DEF FirstBar, Bar
  <2> QED BY <2>2, <1>4, FirstRanged DEF FirstBar
<1>8. SUFFICES /\ Right(bar2, new, iv) /\ bar2.bucket = b /\ closed2 \in Seq(Bar)
               /\ \A old \in ToSet(closed2) : Right(old, new, iv) /\ old.bucket < b
  <2>1. PICK bar, closed : bar = bar2 /\ closed = closed2 OBVIOUS
  <2> HIDE DEF bar2, closed2, b
  <2>2. bar \in Bar BY <1>8, <2>1 DEF Right
  <2>3. bar.bucket = Bucket(iv, new[Len(new)].ts) BY <1>6, <1>8, <2>1
  <2>4. Told(iv, <<bar>>, closed, new) BY <1>6, <1>8, <2>1, <2>2, <2>3 DEF Told
  <2> QED BY <1>2, <2>1, <2>4 DEF bar2, closed2
<1> HIDE DEF b
<1>9. CASE taken = <<>>
  <2>1. current[iv] = <<>> /\ history[iv] = <<>> BY <1>1, <1>9 DEF Told
  <2>2. bar2 = FirstBar(b, t.price, t.qty) /\ closed2 = <<>>
    BY <2>1 DEF NextBar, NextHistory, b
  <2>3. Inside(taken, iv, b) = {} BY <1>9 DEF Inside
  <2>4. ReferenceBar(new, iv, b) = FirstBar(b, t.price, t.qty)
    BY <1>1, <1>3, <2>3, OpeningReference DEF b
  <2>5. ToSet(<<>>) = {} BY DEF ToSet
  <2>6. Right(FirstBar(b, t.price, t.qty), new, iv) BY <1>6, <1>7, <2>4 DEF Right
  <2> QED BY <1>7, <2>2, <2>5, <2>6
<1>10. CASE taken # <<>>
  <2>1. PICK bar \in Bar :
          /\ current[iv] = <<bar>> /\ bar.bucket = Bucket(iv, taken[Len(taken)].ts)
          /\ Right(bar, taken, iv) /\ history[iv] \in Seq(Bar)
          /\ \A old \in ToSet(history[iv]) : Right(old, taken, iv) /\ old.bucket < bar.bucket
    BY <1>1, <1>10 DEF Told
  <2>2. current[iv] # <<>> /\ current[iv][1] = bar BY <2>1
  <2>3. /\ lastTs = taken[Len(taken)].ts /\ lastTs \in Nat /\ lastTs <= t.ts
        /\ taken[Len(taken)] \in Trade
    <3>1. Len(taken) \in 1..Len(taken) BY <1>1, <1>10
    <3>2. taken[Len(taken)] \in Trade BY <1>1, <3>1
    <3>3. lastTs = taken[Len(taken)].ts BY <1>10 DEF BarsTellInv
    <3>4. lastTs \in Nat BY <3>2, <3>3 DEF Trade
    <3> QED BY <3>2, <3>3, <3>4, <1>4 DEF InOrder
  <2>4. bar.bucket \in Nat /\ bar.bucket <= b
    BY <1>0, <1>4, <2>1, <2>3, DivMonotone DEF Bucket, b
  <2>5. ASSUME NEW old, Right(old, taken, iv), old.bucket < b PROVE Right(old, new, iv)
    BY <1>0, <1>1, <1>3, <2>5, StaysRight DEF b
  <2>6. CASE bar.bucket = b
    <3>1. bar2 = Extended(bar, t.price, t.qty) /\ closed2 = history[iv]
      BY <2>2, <2>6 DEF NextBar, NextHistory, b
    <3>2. Inside(taken, iv, b) # {}
      BY <1>1, <1>10, <2>1, <2>6, LastReference
    <3>3. bar = ReferenceBar(taken, iv, b) BY <2>1, <2>6 DEF Right
    <3>4. ReferenceBar(new, iv, b) = Extended(bar, t.price, t.qty)
      BY <1>1, <1>3, <3>2, <3>3, ExtendedReference DEF b
    <3>5. Ranged(Extended(bar, t.price, t.qty)) BY <1>4, <2>1, ExtendedRanged DEF Right
    <3>6. Extended(bar, t.price, t.qty) \in Bar /\ Extended(bar, t.price, t.qty).bucket = b
      BY <1>4, <2>6, ExtendedIsBar
    <3>7. Right(Extended(bar, t.price, t.qty), new, iv)
      BY <1>6, <3>4, <3>5, <3>6 DEF Right
    <3>8. \A old \in ToSet(history[iv]) : Right(old, new, iv) /\ old.bucket < b
      BY <2>1, <2>5, <2>6
    <3> QED BY <2>1, <3>1, <3>6, <3>7, <3>8
  <2>7. CASE bar.bucket # b
    <3>0. bar.bucket < b BY <1>5, <2>4, <2>7
    <3>1. /\ bar2 = FirstBar(b, t.price, t.qty)
          /\ closed2 = Recent(history[iv] \o Closing(bar, b))
      BY <2>2, <2>7 DEF NextBar, NextHistory, b
    <3>2. Inside(taken, iv, b) = {}
      <4> SUFFICES ASSUME NEW i \in 1..Len(taken), Bucket(iv, taken[i].ts) = b PROVE FALSE
        BY <1>1 DEF Inside
      <4>1. taken[i] \in Trade /\ taken[i].ts <= taken[Len(taken)].ts BY <1>1 DEF Rising
      <4>2. PICK x \in Nat, y \in Nat : x = taken[i].ts /\ y = taken[Len(taken)].ts /\ x <= y
        BY <2>3, <4>1 DEF Trade
      <4>3. x \div iv <= y \div iv BY <1>0, <4>2, DivMonotone
      <4>4. Bucket(iv, taken[i].ts) <= bar.bucket BY <2>1, <4>2, <4>3 DEF Bucket
      <4> QED BY <1>5, <2>4, <3>0, <4>4
    <3>3. ReferenceBar(new, iv, b) = FirstBar(b, t.price, t.qty)
      BY <1>1, <1>3, <3>2, OpeningReference DEF b
    <3>4. Right(bar2, new, iv) /\ bar2.bucket = b BY <1>6, <1>7, <3>1, <3>3 DEF Right
    <3>5. PICK all : all = history[iv] \o Closing(bar, b) OBVIOUS
    <3>6. /\ all \in Seq(Bar) /\ ToSet(all) \subseteq ToSet(history[iv]) \cup {bar} \cup Gap(bar, b)
          /\ Gap(bar, b) \subseteq Bar
      BY <1>5, <2>1, <3>0, <3>5, ClosingAdds
    <3>7. ToSet(closed2) \subseteq ToSet(all) BY <3>1, <3>5, <3>6, KeptWere
    <3>8. closed2 \in Seq(Bar) BY <3>1, <3>5, <3>6, RecentBars
    <3>9. ASSUME NEW old \in Gap(bar, b) PROVE Right(old, new, iv) /\ old.bucket < b
      <4>1. PICK c \in (bar.bucket + 1)..(b - 1) : old = EmptyBar(c, bar.close)
        BY DEF Gap
      <4>2. c \in Nat /\ bar.bucket < c /\ c < b BY <1>5, <2>4
      <4>3. bar.close = taken[Len(taken)].price BY <1>1, <1>10, <2>1, LastReference DEF Right
      <4>4. ReferenceBar(new, iv, c) = EmptyBar(c, bar.close) /\ Seen(new, iv, c)
        BY <1>0, <1>1, <1>3, <1>4, <1>10, <2>1, <4>2, <4>3, GapReference DEF b
      <4>5. bar.close \in Nat BY <2>1 DEF Right, Ranged
      <4>6. Ranged(old) BY <4>1, <4>5, <1>4, FirstRanged
      <4>7. old.bucket = c BY <4>1 DEF EmptyBar, FirstBar
      <4>8. old \in Bar BY <3>6
      <4> QED BY <4>1, <4>2, <4>4, <4>6, <4>7, <4>8 DEF Right
    <3>10. Right(bar, new, iv) /\ bar.bucket < b BY <2>1, <2>5, <3>0
    <3>11. ASSUME NEW old \in ToSet(history[iv]) PROVE Right(old, new, iv) /\ old.bucket < b
      <4>1. Right(old, taken, iv) /\ old.bucket < bar.bucket BY <2>1
      <4>2. old.bucket \in Nat BY <4>1 DEF Right, Bar
      <4>3. old.bucket < b BY <1>5, <2>4, <4>1, <4>2
      <4> QED BY <2>5, <4>1, <4>3
    <3>12. \A old \in ToSet(closed2) : Right(old, new, iv) /\ old.bucket < b
      BY <3>6, <3>7, <3>9, <3>10, <3>11
    <3> QED BY <3>4, <3>8, <3>12
  <2> QED BY <2>6, <2>7
<1> QED BY <1>9, <1>10

\* The invariant is inductive.
LEMMA BarsTellNext == BarsTellInv /\ [Next]_vars => BarsTellInv'
<1> SUFFICES ASSUME BarsTellInv, [Next]_vars PROVE BarsTellInv'
  OBVIOUS
<1>1. ASSUME NEW ts \in Stamps, NEW i \in TradeInput, NEW exceeding \in Exceeding,
             ProcessTrade(ts, i, exceeding)
      PROVE  BarsTellInv'
  <2>1. CASE InOrder(ts)
    <3>1. PICK t \in Trade : t = [ts |-> ts, price |-> i.price, qty |-> i.qty]
      <4>1. ts \in Nat /\ i.price \in Nat /\ i.qty \in Nat BY MarketDataAssumption DEF Stamps
      <4>2. [ts |-> ts, price |-> i.price, qty |-> i.qty] \in Trade BY <4>1 DEF Trade
      <4> QED BY <4>2
    <3>2. t.ts = ts /\ t.price = i.price /\ t.qty = i.qty BY <3>1
    <3>3. UpdateBars(ts, i.price, i.qty) BY <1>1, <2>1 DEF ProcessTrade
    <3>4. taken' = Append(taken, t) /\ lastTs' = t.ts BY <3>1, <3>2, <3>3 DEF UpdateBars
    <3>5. ASSUME NEW iv \in Intervals PROVE Told(iv, current'[iv], history'[iv], taken')
      <4>1. current'[iv] = <<NextBar(iv, ts, i.price, i.qty)>> /\ history'[iv] = NextHistory(iv, ts)
        BY <3>3 DEF UpdateBars
      <4>2. Told(iv, <<NextBar(iv, t.ts, t.price, t.qty)>>, NextHistory(iv, t.ts),
                 Append(taken, t))
        BY <2>1, <3>2, ToldStep
      <4> QED BY <3>2, <3>4, <4>1, <4>2
    <3>6. Rising(taken) /\ taken \in Seq(Trade) BY DEF BarsTellInv, Rising
    <3>7. taken # <<>> => taken[Len(taken)].ts <= t.ts
      <4> SUFFICES ASSUME taken # <<>> PROVE taken[Len(taken)].ts <= t.ts
        OBVIOUS
      <4>1. Len(taken) \in 1..Len(taken) BY <3>6
      <4>2. taken[Len(taken)] \in Trade BY <3>6, <4>1
      <4>3. lastTs = taken[Len(taken)].ts BY DEF BarsTellInv
      <4>4. taken[Len(taken)].ts \in Nat /\ t.ts \in Nat BY <4>2 DEF Trade
      <4> QED BY <2>1, <3>2, <4>3, <4>4 DEF InOrder
    <3>8. PICK new, n : new = Append(taken, t) /\ n = Len(taken) + 1 OBVIOUS
    <3>9. Extends(new, taken, t, n) BY <3>6, <3>8, OneMore
    <3>10. Rising(new) BY <3>6, <3>7, <3>9, StillRising
    <3>11. new[Len(new)] = t BY <3>9 DEF Extends
    <3> QED BY <3>4, <3>5, <3>8, <3>10, <3>11 DEF BarsTellInv
  <2>2. CASE ~InOrder(ts)
    BY <1>1, <2>2 DEF ProcessTrade, candles, BarsTellInv
  <2> QED BY <2>1, <2>2
<1>2. CASE Reset
  BY <1>2 DEF Reset, ClearBars, NoBars, BarsTellInv, Told, Rising
<1>3. CASE UNCHANGED vars
  BY <1>3 DEF vars, candles, BarsTellInv
<1> QED BY <1>1, <1>2, <1>3 DEF Next

\* It is what the property asks.
LEMMA RightTold == BarsTellInv => BarsAreTheTrades
<1> SUFFICES ASSUME BarsTellInv, NEW iv \in Intervals,
                    NEW bar \in ToSet(history[iv]) \cup ToSet(current[iv])
             PROVE  /\ bar = ReferenceBar(taken, iv, bar.bucket)
                    /\ bar.low <= Vwap(bar) /\ Vwap(bar) <= bar.high
  BY DEF BarsAreTheTrades
<1>1. Told(iv, current[iv], history[iv], taken) BY DEF BarsTellInv
<1>2. CASE taken = <<>>
  <2>1. ToSet(<<>>) = {} BY DEF ToSet
  <2> QED BY <1>1, <1>2, <2>1 DEF Told
<1>3. CASE taken # <<>>
  <2>1. PICK last \in Bar : /\ current[iv] = <<last>> /\ Right(last, taken, iv)
                            /\ \A old \in ToSet(history[iv]) : Right(old, taken, iv)
    BY <1>1, <1>3 DEF Told
  <2>2. ToSet(<<last>>) = {last} BY DEF ToSet
  <2>3. Right(bar, taken, iv) BY <2>1, <2>2
  <2> QED BY <2>3, MeanRanged DEF Right
<1> QED BY <1>2, <1>3

\* Whatever the trades, the intervals and the length of the history, every bar says of
\* the trades of its bucket what they were (BarsAreTheTrades), and its rounded mean
\* price is between its low and its high.
THEOREM BarsTellTrades == Spec => []BarsAreTheTrades
<1>1. Init => BarsTellInv BY DEF Init, BarsInit, NoBars, BarsTellInv, Told, Rising
<1> QED BY <1>1, BarsTellNext, RightTold, PTL DEF Spec

-----------------------------------------------------------------------------
(* Types. *)

CountsInv ==
  /\ lastTs <= MaxTime
  /\ \A kind \in AnomalyType : lastAlert[kind] <= MaxTime
  /\ taken \in Seq(Trade)
  /\ refused \in 0..MaxTrades /\ resets \in 0..MaxResets

LEMMA CountsNext == AlertsInv /\ BarsInv /\ CountsInv /\ [Next]_vars => CountsInv'
<1> SUFFICES ASSUME AlertsInv, BarsInv, CountsInv, [Next]_vars PROVE CountsInv'
  OBVIOUS
<1>0. MaxTime \in Nat /\ MaxTrades \in Nat /\ MaxResets \in Nat BY MarketDataAssumption
<1>1. ASSUME NEW ts \in Stamps, NEW t \in TradeInput, NEW exceeding \in Exceeding,
             ProcessTrade(ts, t, exceeding)
      PROVE  CountsInv'
  <2>1. ts \in 0..MaxTime /\ t.price \in Nat /\ t.qty \in Nat
    BY MarketDataAssumption DEF Stamps
  <2>2. \A kind \in AnomalyType : lastAlert'[kind] <= MaxTime
    BY <1>1, <2>1 DEF ProcessTrade, Alert, CountsInv
  <2>3. resets' = resets BY <1>1 DEF ProcessTrade
  <2>4. CASE InOrder(ts)
    <3>1. UpdateBars(ts, t.price, t.qty) /\ refused' = refused BY <1>1, <2>4 DEF ProcessTrade
    <3>2. [ts |-> ts, price |-> t.price, qty |-> t.qty] \in Trade BY <2>1 DEF Trade
    <3>3. taken' \in Seq(Trade) BY <3>1, <3>2 DEF UpdateBars, CountsInv
    <3>4. lastTs' <= MaxTime BY <3>1, <2>1 DEF UpdateBars
    <3> QED BY <2>2, <2>3, <3>1, <3>3, <3>4 DEF CountsInv
  <2>5. CASE ~InOrder(ts)
    <3>1. /\ refused' = refused + 1 /\ taken' = taken /\ lastTs' = lastTs
          /\ Len(taken) + refused < MaxTrades
      BY <1>1, <2>5 DEF ProcessTrade, candles
    <3>2. Len(taken) \in Nat BY DEF CountsInv
    <3>3. refused' \in 0..MaxTrades BY <3>1, <3>2, <1>0 DEF CountsInv
    <3> QED BY <2>2, <2>3, <3>1, <3>3 DEF CountsInv
  <2> QED BY <2>4, <2>5
<1>2. CASE Reset
  <2>1. lastTs' <= MaxTime /\ taken' = <<>> BY <1>2, <1>0 DEF Reset, ClearBars
  <2>2. \A kind \in AnomalyType : lastAlert'[kind] <= MaxTime
    BY <1>2, <1>0 DEF Reset, ClearAlerts, NoAlert, None
  <2>3. refused' \in 0..MaxTrades /\ resets' \in 0..MaxResets
    BY <1>2, <1>0 DEF Reset, CountsInv
  <2> QED BY <2>1, <2>2, <2>3 DEF CountsInv
<1>3. CASE UNCHANGED vars
  BY <1>3 DEF vars, candles, detector, CountsInv
<1> QED BY <1>1, <1>2, <1>3 DEF Next

LEMMA TypesFollow == AlertsInv /\ BarsInv /\ CountsInv => TypeOK
<1> SUFFICES ASSUME AlertsInv, BarsInv, CountsInv PROVE TypeOK
  OBVIOUS
<1>0. MaxTime \in Nat /\ MaxHistory \in Nat BY MarketDataAssumption, CandlesAssumption
<1>1. lastTs \in -1..MaxTime BY <1>0 DEF BarsInv, CountsInv
<1>2. ASSUME NEW iv \in Intervals
      PROVE  /\ Len(history[iv]) <= MaxHistory /\ Len(current[iv]) <= 1
             /\ current[iv] = <<>> => history[iv] = <<>>
  <2>1. IntervalInv(iv, current[iv], history[iv], lastTs) BY DEF BarsInv
  <2>2. CASE current[iv] = <<>> /\ history[iv] = <<>> BY <2>2, <1>0
  <2>3. CASE \E bar \in Bar : current[iv] = <<bar>> /\ Len(history[iv]) <= MaxHistory
    BY <2>3
  <2> QED BY <2>1, <2>2, <2>3 DEF IntervalInv
<1>3. \A kind \in AnomalyType : lastAlert[kind] \in {None} \cup 0..MaxTime
  BY <1>0 DEF AlertsInv, CountsInv
<1> QED BY <1>1, <1>2, <1>3 DEF TypeOK, CountsInv

\* Types, and the bound on every interval's history (TypeOK).
THEOREM TypeCorrect == Spec => []TypeOK
<1>1. Init => AlertsInv /\ BarsInv /\ CountsInv
  <2> SUFFICES ASSUME Init PROVE AlertsInv /\ BarsInv /\ CountsInv
    OBVIOUS
  <2>1. AlertsInv BY NothingRaised DEF Init, AlertsInit
  <2>2. BarsInv BY DEF Init, BarsInit, NoBars, BarsInv, IntervalInv
  <2>3. MaxTime \in Nat /\ MaxTrades \in Nat /\ MaxResets \in Nat BY MarketDataAssumption
  <2>4. CountsInv BY <2>3 DEF Init, BarsInit, AlertsInit, NoAlert, None, CountsInv
  <2> QED BY <2>1, <2>2, <2>4
<1> QED BY <1>1, AlertsNext, BarsNext, CountsNext, TypesFollow, PTL DEF Spec
=============================================================================
