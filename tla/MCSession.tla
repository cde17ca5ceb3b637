----------------------------- MODULE MCSession -----------------------------
EXTENDS Session

OneSymbol == {"AAPL"}
Halting == {<<"HALT">>, <<"RESUME">>, <<"NEWS", "HALT">>}
Quiet == {}
Places == {1, 3}
Lengths == <<9, 4>>
TwoSymbols == {"AAPL", "MSFT"}
=============================================================================
