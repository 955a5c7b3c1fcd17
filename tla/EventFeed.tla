----------------------------- MODULE EventFeed -----------------------------
(***************************************************************************)
(* What the PUB socket promises a subscriber: events in the order in which *)
(* they happened, each at most once.  Events may be missing (src/README.md *)
(* promises no replay).                                                    *)
(***************************************************************************)
EXTENDS Naturals

VARIABLES
    happened, \* how many events there were; they are numbered from 1
    sent      \* the events that were sent

vars == <<happened, sent>>

Init == happened = 0 /\ sent = {}

Happen == happened' = happened + 1 /\ UNCHANGED sent

Publish ==
    /\ \E e \in 1..happened : /\ \A d \in sent : d < e
                              /\ sent' = sent \cup {e}
    /\ UNCHANGED happened

Next == Happen \/ Publish

Spec == Init /\ [][Next]_vars
=============================================================================
