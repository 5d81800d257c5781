----------------------------- MODULE MCMarketData -----------------------------
(* Instance of MarketData for TLC: the file the recorder begins with has one *)
(* row of the old format, in the minute of the first poll.                 *)
EXTENDS MarketData

MCOldRows == {0}
=============================================================================
