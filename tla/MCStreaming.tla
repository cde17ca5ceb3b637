----------------------------- MODULE MCStreaming -----------------------------
(* Channels and push calls for the TLC instances of Streaming. *)
EXTENDS Streaming

\* A trade is pushed on its symbol's channel of trades, which the application keeps,
\* and its candle on the channel of an interval, which the user changes.
TradeChannels == <<"trades:AAPL", "bars:AAPL:1s">>
TradePushes == {{"trades:AAPL", "bars:AAPL:1s"}}

OneChannel == <<"bars:AAPL:1s">>
BarPushes == {{"bars:AAPL:1s"}}
Bars == {"bars:AAPL:1s"}
=============================================================================
