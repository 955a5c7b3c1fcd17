----------------------------- MODULE OrderDesk -----------------------------
(***************************************************************************)
(* What placing an order promises to a client: an order key is claimed     *)
(* once and durably, and only a claimed key is handed, at most once, to    *)
(* CTP.  A client may therefore send a place_order again after any failure *)
(* (src/README.md: a repeated key is not ordered again; no order is        *)
(* accepted without the protection of the database).                       *)
(***************************************************************************)
EXTENDS Naturals

CONSTANTS
    Keys, \* the order keys
    Old   \* the keys claimed and handed over before the service started

VARIABLES
    claimed, \* the keys recorded
    calls    \* how often each key was handed to CTP

vars == <<claimed, calls>>

Init ==
    /\ claimed = Old
    /\ calls = [k \in Keys |-> IF k \in Old THEN 1 ELSE 0]

Claim(k) ==
    /\ k \notin claimed
    /\ claimed' = claimed \cup {k}
    /\ UNCHANGED calls

HandOver(k) ==
    /\ k \in claimed /\ calls[k] = 0
    /\ calls' = [calls EXCEPT ![k] = 1]
    /\ UNCHANGED claimed

Next == \E k \in Keys : Claim(k) \/ HandOver(k)

Spec == Init /\ [][Next]_vars
=============================================================================
