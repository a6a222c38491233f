-------------------------------- MODULE Cable --------------------------------
(***************************************************************************)
(* What one direction of the helper promises: it is an Ethernet cable.     *)
(* Packets are numbered from 1 in the order one end offers them.  The      *)
(* cable settles them in that order: it puts a packet on the wire or loses *)
(* it.  It never repeats, reorders or invents one, and, given fairness,    *)
(* it never holds on to one.                                               *)
(***************************************************************************)
EXTENDS Integers, Sequences

VARIABLES
    offered,  \* number of packets one end handed to the cable
    settled,  \* number of those that were put on the wire or lost
    wire      \* the packets put on the wire, in order

vars == <<offered, settled, wire>>

\* The next n unsettled packets, in order.
Burst(n) == [k \in 1..n |-> settled + k]

Init ==
    /\ offered = 0
    /\ settled = 0
    /\ wire = <<>>

Offer ==
    /\ offered' = offered + 1
    /\ UNCHANGED <<settled, wire>>

Deliver ==
    \E n \in 1..(offered - settled) :
        /\ wire' = wire \o Burst(n)
        /\ settled' = settled + n
        /\ UNCHANGED offered

Lose ==
    /\ settled < offered
    /\ settled' = settled + 1
    /\ UNCHANGED <<offered, wire>>

Settle == Deliver \/ Lose

Next == Offer \/ Settle

Spec == Init /\ [][Next]_vars

Fairness == WF_vars(Settle)

FairSpec == Spec /\ Fairness

\* A cable that loses nothing.
LosslessSpec == Init /\ [][Offer \/ Deliver]_vars
==============================================================================
