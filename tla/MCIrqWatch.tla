----------------------------- MODULE MCIrqWatch -----------------------------
(* Small instances of IrqWatch for TLC.                                    *)
EXTENDS IrqWatchRefines
CONSTANTS d1, d2

\* Distinct keys, as in irqs.c:11-14; one offered key opens nothing.
MCKeyOf == [n \in IRQs |-> 10 * n + 5]
MCOffered == {MCKeyOf[n] : n \in Watched} \cup {7}
=============================================================================
