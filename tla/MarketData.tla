----------------------------- MODULE MarketData -----------------------------
(***************************************************************************)
(* What _process_event (api/server.py) derives from the trades of a symbol *)
(* besides the ledger: first the alerts of the trade, then the bars, then  *)
(* the alerts of the book.  The aggregator may raise in the middle.        *)
(***************************************************************************)
EXTENDS Candles, Anomalies

CONSTANTS
  MaxTime,     \* time stamps of trades (bound)
  TradeInput,  \* price and quantity of a trade
  Exceeding,   \* sets of metrics that exceed their thresholds at once
  MaxTrades,   \* trades between two resets (bound)
  MaxResets    \* seeks and new sessions (bound)

ASSUME MarketDataAssumption ==
  /\ {MaxTime, MaxTrades, MaxResets} \subseteq Nat
  /\ TradeInput \subseteq [price : Nat \ {0}, qty : Nat \ {0}]
  /\ Exceeding \subseteq SUBSET AnomalyType

VARIABLES
  refused,  \* trades the aggregator has refused since the last reset
  resets

vars == <<candles, detector, refused, resets>>

TypeOK ==
  /\ lastTs \in -1..MaxTime
  /\ \A iv \in Intervals :
       /\ Len(history[iv]) <= MaxHistory /\ Len(current[iv]) <= 1
       /\ current[iv] = <<>> => history[iv] = <<>>
  /\ \A kind \in AnomalyType : lastAlert[kind] \in {None} \cup 0..MaxTime
  /\ refused \in 0..MaxTrades /\ resets \in 0..MaxResets

Init ==
  /\ BarsInit /\ AlertsInit
  /\ refused = 0 /\ resets = 0

\* Time stamps of agents' trades ascend; a user's trade is stamped 0.
Stamps == {ts \in 0..MaxTime : ts >= lastTs \/ ts = 0}

\* The update of the bars raises if the trade is late: the alerts of the trade have
\* been emitted by then, the book is not examined.
ProcessTrade(ts, t, exceeding) ==
  /\ Len(taken) + refused < MaxTrades
  /\ IF InOrder(ts)
     THEN Alert(exceeding, ts) /\ UpdateBars(ts, t.price, t.qty) /\ UNCHANGED refused
     ELSE Alert(exceeding \cap TradeMetrics, ts) /\ refused' = refused + 1 /\ UNCHANGED candles
  /\ UNCHANGED resets

\* _reset_terminal_state, before a session, a replay or a seek.
Reset ==
  /\ resets < MaxResets /\ resets' = resets + 1
  /\ ClearBars /\ ClearAlerts /\ refused' = 0

Next ==
  \/ \E ts \in Stamps, t \in TradeInput, exceeding \in Exceeding : ProcessTrade(ts, t, exceeding)
  \/ Reset

Spec == Init /\ [][Next]_vars
=============================================================================
