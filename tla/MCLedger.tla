------------------------------ MODULE MCLedger ------------------------------
EXTENDS Ledger

OneSymbol == {"AAPL"}
TwoSymbols == {"AAPL", "MSFT"}
TwoPrices == {1, 2}
Cash == {3}
=============================================================================
