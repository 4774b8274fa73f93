--------------------------- MODULE MCPriceAlerts ---------------------------
(* PriceAlerts on small instances.                                         *)
EXTENDS PriceAlerts
=============================================================================
