---------------------------- MODULE MCMarketData ----------------------------
EXTENDS MarketData

Lengths == {1, 2}
Inputs == {[price |-> 1, qty |-> 2], [price |-> 2, qty |-> 1], [price |-> 3, qty |-> 1]}
NoneOrBoth == {{}, {"VOLUME_SURGE", "BOOK_IMBALANCE"}}
=============================================================================
