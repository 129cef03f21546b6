---------------------------- MODULE MCWsDelivery ----------------------------
EXTENDS WsDelivery
=============================================================================
