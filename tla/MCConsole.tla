----------------------------- MODULE MCConsole -----------------------------
(* The text screen and the lock that putc does not take: a behaviour is one *)
(* of either, since nothing of one reads what the other keeps.              *)
EXTENDS Console, ConsoleLock

CONSTANTS main, t1, t2, t3

VARIABLE part          \* whose behaviour it is

lockVars == <<mutex, state, result>>

PartInit == part \in {"screen", "lock"} /\ Init /\ Lock!Init
PartNext == /\ UNCHANGED part
            /\ \/ part = "screen" /\ Next /\ UNCHANGED lockVars
               \/ part = "lock" /\ Lock!Next /\ UNCHANGED vars
PartSpec == /\ PartInit /\ [][PartNext]_<<part, vars, lockVars>>
            /\ \A t \in Threads : WF_lockVars(Lock!Run(t))

ASSUME InstancePrintsAlone == OneCaller
=============================================================================
