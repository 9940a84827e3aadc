------------------------------ MODULE IrqTable ------------------------------
(***************************************************************************)
(* What irqs.c promises its callers: an IRQ has at most one watcher, and   *)
(* the watcher sees in its counter how often the IRQ fired since it was    *)
(* granted.  IrqWatch implements it (IrqWatchRefines).                     *)
(***************************************************************************)
EXTENDS Integers

CONSTANTS Drivers, Lines, Nobody, CountWidth

VARIABLES owner, count, asked
vars == <<owner, count, asked>>

Init ==
    /\ owner = [n \in Lines |-> Nobody]
    /\ count = [n \in Lines |-> 0]
    /\ asked = {}

Acquire(d, n) ==
    /\ owner[n] = Nobody
    /\ owner' = [owner EXCEPT ![n] = d]
    /\ count' = [count EXCEPT ![n] = 0]
    /\ UNCHANGED asked

Release(d, n) ==
    /\ owner[n] = d
    /\ owner' = [owner EXCEPT ![n] = Nobody]
    /\ UNCHANGED <<count, asked>>

Ask(n) ==
    /\ asked' = asked \cup {n}
    /\ UNCHANGED <<owner, count>>

\* A request is counted once, and only for an owner.
Fire(n) ==
    /\ n \in asked /\ owner[n] # Nobody
    /\ asked' = asked \ {n}
    /\ count' = [count EXCEPT ![n] = (@ + 1) % CountWidth]
    /\ UNCHANGED owner

Next ==
    \E n \in Lines :
        \/ \E d \in Drivers : Acquire(d, n) \/ Release(d, n)
        \/ Ask(n) \/ Fire(n)

Spec == Init /\ [][Next]_vars
=============================================================================
