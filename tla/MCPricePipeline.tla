-------------------------- MODULE MCPricePipeline --------------------------
(* Instances of PricePipeline for TLC: two timeframes, the second of twice  *)
(* the length of the first.                                                *)
EXTENDS PricePipeline, TLC

MCInterval == <<1, 2>>
=============================================================================
