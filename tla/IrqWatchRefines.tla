-------------------------- MODULE IrqWatchRefines ---------------------------
(***************************************************************************)
(* IrqWatch implements IrqTable.  An IRQ is owned from the moment its key  *)
(* is taken (Claim) to the moment it is put back (DropKey).                *)
(***************************************************************************)
EXTENDS IrqWatch

CONSTANT Nobody

ASSUME NobodyAssumption == Nobody \notin Drivers

Owns(d, n) ==
    \/ n \in holds[d]
    \/ at[d] \in (WatchSteps \ {"claim"}) \cup ReleaseSteps /\ arg[d] = n

OwnerOf == [n \in Watched |->
    IF \E d \in Drivers : Owns(d, n)
    THEN CHOOSE d \in Drivers : Owns(d, n) ELSE Nobody]

Table == INSTANCE IrqTable WITH
    Lines <- Watched,
    owner <- OwnerOf,
    count <- [n \in Watched |-> irq_watching[n]],
    asked <- irr

\* Drivers that hold interrupts off, or a single one, see the table of
\* IrqTable whatever the interleaving of calls, ticks and interrupts.
ImplementsTable == Table!Spec
=============================================================================
