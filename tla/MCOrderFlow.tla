---------------------------- MODULE MCOrderFlow ----------------------------
(***************************************************************************)
(* Instances of OrderFlow for TLC.  Order keys and foreign orders are model*)
(* values; the exchange's numbers are named after the orders.              *)
(***************************************************************************)
EXTENDS OrderFlow, TLC

CONSTANTS k1, k2, f1

TwoKeys == {k1, k2}
OneKey  == {k1}
OneForeign == {f1}
KeysAndForeign == {k1, k2, f1}
KeyAndForeign  == {k1, f1}
NoForeign == {}

KeySymmetry == Permutations({k1, k2})
=============================================================================
