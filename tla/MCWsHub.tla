------------------------------ MODULE MCWsHub -------------------------------
EXTENDS WsHub
=============================================================================
