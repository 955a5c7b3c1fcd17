--------------------------- MODULE MCAccountQuery ---------------------------
(***************************************************************************)
(* Instances of AccountQuery for TLC.                                      *)
(***************************************************************************)
EXTENDS AccountQuery

\* An account has one row or is missing; positions may be none or several.
SomeRows == [account |-> {0, 1}, positions |-> {0, 2}, orders |-> {1}]
=============================================================================
