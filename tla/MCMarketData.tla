---------------------------- MODULE MCMarketData ----------------------------
(***************************************************************************)
(* Instances of MarketData for TLC.                                        *)
(***************************************************************************)
EXTENDS MarketData

CONSTANTS s1, s2, startup, o1, o2

TwoSymbols == {s1, s2}
ThreeOwners == {startup, o1, o2}
=============================================================================
