--------------------------- MODULE MCCapitalTrader ---------------------------
(* Small instances of CapitalTrader.                                           *)
EXTENDS CapitalTrader, TLC

\* one order the gate lets through and one that is too large
MCOrderRequests == {[size |-> 1, spread |-> 1], [size |-> 3, spread |-> 1]}

MCSymmetry == Permutations(Submissions) \cup Permutations(Deals)
==============================================================================
