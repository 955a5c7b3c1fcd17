------------------------------ MODULE TradeLog ------------------------------
(***************************************************************************)
(* What the trade ledger promises the engines (src/README.md: trades are   *)
(* written before they are published, and get_trades gives each owner its  *)
(* own, page after page): a log for each owner that only grows at its end, *)
(* and a reader for each owner that takes what is new in the order of the  *)
(* log, without a gap and nothing twice.                                   *)
(***************************************************************************)
EXTENDS Naturals

CONSTANT Owners \* the (client_id, strategy_id) pairs

VARIABLES
    log,  \* log[o]: the cursors of the trades of o
    read  \* read[o]: those its reader has taken

vars == <<log, read>>

Init == log = [o \in Owners |-> {}] /\ read = [o \in Owners |-> {}]

Append(o, c) ==
    /\ \A d \in log[o] : d < c
    /\ log' = [log EXCEPT ![o] = @ \cup {c}]
    /\ UNCHANGED read

Take(o, S) ==
    /\ S \subseteq log[o] \ read[o]
    /\ \A c \in S, d \in log[o] \ (read[o] \cup S) : c < d
    /\ read' = [read EXCEPT ![o] = @ \cup S]
    /\ UNCHANGED log

Next == \E o \in Owners :
           \/ \E c \in log'[o] : Append(o, c)
           \/ \E S \in SUBSET (log[o] \ read[o]) : Take(o, S)

Spec == Init /\ [][Next]_vars
=============================================================================
