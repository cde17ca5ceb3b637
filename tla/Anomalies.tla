------------------------------ MODULE Anomalies ------------------------------
(***************************************************************************)
(* core/anomaly.py, the StreamingAnomalyDetector of one symbol, as far as  *)
(* alerts and their cool-down go.  Whether a metric exceeds its threshold, *)
(* a matter of floating-point statistics over recent trades, is an input.  *)
(***************************************************************************)
EXTENDS Integers, Sequences

CONSTANT Cooldown  \* _min_cooldown_ns
ASSUME CooldownAssumption == Cooldown \in Nat \ {0}

VARIABLES
  lastAlert,  \* _last_alert_ts: anomaly type -> time of the last alert, or None
  alerts      \* anomaly type -> times of all alerts, in the order emitted

detector == <<lastAlert, alerts>>

TradeMetrics == {"VOLUME_SURGE", "PRICE_SHOCK"}
BookMetrics == {"SPREAD_BLOWOUT", "BOOK_IMBALANCE"}
AnomalyType == TradeMetrics \cup BookMetrics
None == -1

\* Mutant of CooledDown: the distance counts, not the order.
CooledDownEitherWay(kind, ts) ==
  lastAlert[kind] = None \/ ts - lastAlert[kind] >= Cooldown \/ lastAlert[kind] - ts >= Cooldown

\* _is_cooled_down
CooledDown(kind, ts) == lastAlert[kind] = None \/ ts - lastAlert[kind] >= Cooldown

\* update_trade and update_book: each metric that exceeds its threshold alerts.
Alert(exceeding, ts) ==
  LET raised == {kind \in exceeding : CooledDown(kind, ts)}
  IN  /\ lastAlert' = [kind \in AnomalyType |-> IF kind \in raised THEN ts ELSE lastAlert[kind]]
      /\ alerts' = [kind \in AnomalyType |->
                      IF kind \in raised THEN Append(alerts[kind], ts) ELSE alerts[kind]]

NoAlert == [kind \in AnomalyType |-> None]
NoAlerts == [kind \in AnomalyType |-> <<>>]
AlertsInit == lastAlert = NoAlert /\ alerts = NoAlerts
ClearAlerts == lastAlert' = NoAlert /\ alerts' = NoAlerts

\* Alerts of one type come in the order of time and a cool-down apart, whatever the
\* time stamps of the trades: a user's trade is stamped 0.
AlertsApart ==
  \A kind \in AnomalyType :
    \A i, j \in 1..Len(alerts[kind]) : i < j => alerts[kind][j] - alerts[kind][i] >= Cooldown
=============================================================================
