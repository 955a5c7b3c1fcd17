--------------------------- MODULE MCTradeLedger ---------------------------
(***************************************************************************)
(* Instances of TradeLedger for TLC: key k0 is an order of an earlier day  *)
(* whose number n1 the exchange gives again to k1; f and g are orders of   *)
(* other terminals, g one that is refused; all have the same OrderRef.     *)
(***************************************************************************)
EXTENDS TradeLedger, TLC

CONSTANTS k0, k1, f, g, n1, n2, n3, t1, t2, t3, x1, x2, o1, o2

Numbers  == k0 :> n1 @@ k1 :> n1 @@ f :> n2 @@ g :> n3
Refs     == k0 :> 1 @@ k1 :> 1 @@ f :> 1 @@ g :> 1
Fills    == t1 :> k1 @@ t2 :> k1 @@ t3 :> f
FillIds  == t1 :> x1 @@ t2 :> Null @@ t3 :> x2
PageLimits == o1 :> 0 @@ o2 :> -1
KeyOwner == k0 :> o1 @@ k1 :> o2
=============================================================================
