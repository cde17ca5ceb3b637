------------------------------- MODULE Candles -------------------------------
(***************************************************************************)
(* core/ohlc.py, the OHLCAggregator of one symbol.  A bar is known by its  *)
(* bucket, the number of its interval since the epoch: start_ts_ns is      *)
(* bucket times the interval's length.                                     *)
(***************************************************************************)
EXTENDS Ticks, Sequences, SequencesExt, FiniteSets, FiniteSetsExt

CONSTANTS
  Intervals,  \* lengths of the intervals
  MaxHistory  \* max_history_per_interval

ASSUME CandlesAssumption == Intervals \subseteq Nat \ {0} /\ MaxHistory \in Nat \ {0}

VARIABLES
  lastTs,   \* _last_trade_ts_ns
  current,  \* interval -> the bar in progress, none before the first trade
  history,  \* interval -> closed bars, oldest first
  taken     \* the trades the aggregator has accepted

candles == <<lastTs, current, history, taken>>

Bucket(iv, ts) == ts \div iv
FirstBar(b, p, q) ==
  [bucket |-> b, open |-> p, high |-> p, low |-> p, close |-> p, volume |-> q, count |-> 1,
   pv |-> p * q]

\* An interval without a trade carries the previous close forward.
EmptyBar(b, p) == [FirstBar(b, p, 0) EXCEPT !.count = 0]

\* Mutant of Extended: the low is the first price.
ExtendedUpwards(bar, p, q) ==
  [bar EXCEPT !.high = Larger(@, p), !.close = p, !.volume = @ + q, !.count = @ + 1,
              !.pv = @ + p * q]

Extended(bar, p, q) ==
  [bar EXCEPT !.high = Larger(@, p), !.low = Smaller(@, p), !.close = p,
              !.volume = @ + q, !.count = @ + 1, !.pv = @ + p * q]

\* Mutant of Closing: gaps are not filled.
ClosingWithGap(bar, b) == <<bar>>

\* The bars closed by a trade in bucket b: the current one and those of the gap.
Closing(bar, b) ==
  <<bar>> \o [i \in 1..(b - bar.bucket - 1) |-> EmptyBar(bar.bucket + i, bar.close)]

\* Mutant of Recent: one bar too many is kept.
RecentAndOne(bars) == SubSeq(bars, Larger(1, Len(bars) - MaxHistory), Len(bars))

\* A deque with maxlen keeps its last elements.
Recent(bars) == SubSeq(bars, Larger(1, Len(bars) - MaxHistory + 1), Len(bars))

\* _IntervalState.update_trade: the bar in progress, and the closed ones.
NextBar(iv, ts, p, q) ==
  IF current[iv] # <<>> /\ current[iv][1].bucket = Bucket(iv, ts)
  THEN Extended(current[iv][1], p, q) ELSE FirstBar(Bucket(iv, ts), p, q)
NextHistory(iv, ts) ==
  IF current[iv] = <<>> \/ current[iv][1].bucket = Bucket(iv, ts) THEN history[iv]
  ELSE Recent(history[iv] \o Closing(current[iv][1], Bucket(iv, ts)))

\* OHLCAggregator.update_trade raises on a trade older than the last one.
InOrder(ts) == ts >= lastTs

UpdateBars(ts, p, q) ==
  /\ lastTs' = ts
  /\ current' = [iv \in Intervals |-> <<NextBar(iv, ts, p, q)>>]
  /\ history' = [iv \in Intervals |-> NextHistory(iv, ts)]
  /\ taken' = Append(taken, [ts |-> ts, price |-> p, qty |-> q])

NoBars == [iv \in Intervals |-> <<>>]
BarsInit == lastTs = -1 /\ current = NoBars /\ history = NoBars /\ taken = <<>>
ClearBars == lastTs' = -1 /\ current' = NoBars /\ history' = NoBars /\ taken' = <<>>

-----------------------------------------------------------------------------
(* What a bar is supposed to say, from the trades. *)

\* The trades of a bucket and those before it, by their places among the trades ts.
Inside(ts, iv, b) == {i \in DOMAIN ts : Bucket(iv, ts[i].ts) = b}
Before(ts, iv, b) == {i \in DOMAIN ts : Bucket(iv, ts[i].ts) < b}

Quantity(ts) == [i \in DOMAIN ts |-> ts[i].qty]
Turnover(ts) == [i \in DOMAIN ts |-> ts[i].price * ts[i].qty]

ReferenceBar(ts, iv, b) ==
  LET inside == Inside(ts, iv, b)
      prices == {ts[i].price : i \in inside}
  IN  IF inside = {} THEN EmptyBar(b, ts[Max(Before(ts, iv, b))].price)
      ELSE [bucket |-> b, open |-> ts[Min(inside)].price, high |-> Max(prices),
            low |-> Min(prices), close |-> ts[Max(inside)].price,
            volume |-> SumFunctionOnSet(Quantity(ts), inside),
            count |-> Cardinality(inside), pv |-> SumFunctionOnSet(Turnover(ts), inside)]

\* vwap_ticks, the rounded mean price shown with a bar.
Vwap(bar) == IF bar.volume > 0 THEN Round(bar.pv, bar.volume) ELSE bar.close

\* Every bar, closed, filled in or in progress, in every interval, is the summary of
\* the trades of its bucket, and rounding does not carry its mean out of its range.
BarsAreTheTrades ==
  \A iv \in Intervals : \A bar \in ToSet(history[iv]) \cup ToSet(current[iv]) :
    /\ bar = ReferenceBar(taken, iv, bar.bucket)
    /\ bar.low <= Vwap(bar) /\ Vwap(bar) <= bar.high

\* The bars follow each other without a gap or an overlap, up to the one in progress.
Consecutive(bars) == \A i \in 1..(Len(bars) - 1) : bars[i + 1].bucket = bars[i].bucket + 1
BarsTileTime == \A iv \in Intervals : Consecutive(history[iv] \o current[iv])
=============================================================================
