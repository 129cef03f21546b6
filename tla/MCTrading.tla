----------------------------- MODULE MCTrading ------------------------------
EXTENDS TradingProcess
=============================================================================
