----------------------------- MODULE PhysStack -----------------------------
(***************************************************************************)
(* The stack of free physical pages (phys_mm.c).  k_main sets it up at     *)
(* 0x200000 and pushes one page for each 4MB of memory; everything that    *)
(* needs a physical page pops it here.                                     *)
(*                                                                         *)
(* A page is named by its number (address / 4096).  Page 0 is what         *)
(* pop_phys_mm answers for "nothing on the stack".  setup_phys_mm_stack    *)
(* points base past its own parameter, into the boot call stack, and       *)
(* nothing writes base[0]: Garbage is what that word happens to hold.      *)
(***************************************************************************)
EXTENDS Integers

CONSTANTS StackWords,   \* words of memory that base may index
          Garbage       \* the possible values of base[0]

ASSUME StackAssumption == StackWords \in Nat \ {0} /\ Garbage \subseteq Nat

VARIABLES base,        \* the words of the stack
          posistion    \* the index push and pop move

stackVars == <<base, posistion>>

None == 0

\* setup_phys_mm_stack: an empty stack over memory that was never cleared.
SetupStack == /\ \E g \in Garbage : base = [i \in 0..StackWords |-> IF i = 0 THEN g ELSE None]
              /\ posistion = 0

\* push_phys_mm moves first and writes at the new place: base[0] is skipped.
Push(data) == /\ posistion' = posistion + 1
              /\ base' = [base EXCEPT ![posistion + 1] = data]

\* pop_phys_mm moves first and reads at the new place, so it answers the word
\* below the last one pushed.
Popped == IF posistion >= 1 THEN base[posistion - 1] ELSE None

PopStays == UNCHANGED <<posistion, base>>     \* slip: the decrement is missing

Pop == /\ posistion' = IF posistion >= 1 THEN posistion - 1 ELSE posistion
       /\ UNCHANGED base

\* What the pops to come will answer.
StillToPop == {i \in 0..StackWords : i < posistion}
=============================================================================
