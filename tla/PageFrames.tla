---------------------------- MODULE PageFrames ----------------------------
(***************************************************************************)
(* The stack of physical pages as its callers may use it: any page may be  *)
(* pushed that is not on the stack, any caller may pop, in any order.      *)
(* `out` is the set of pages popped and not pushed back, `twice` the pages *)
(* that a pop answered while they were still out.                          *)
(***************************************************************************)
EXTENDS PhysStack, FiniteSets

CONSTANTS Pages,       \* the machine's free pages
          BootOnly     \* TRUE: every push precedes the first pop, as in k_main

PagesAssumption == /\ Pages \subseteq Nat \ {None} /\ IsFiniteSet(Pages)
                   /\ Cardinality(Pages) <= StackWords
                   /\ BootOnly \in BOOLEAN

VARIABLES free, out, twice, popping

vars == <<base, posistion, free, out, twice, popping>>

TypeOK == /\ base \in [0..StackWords -> Pages \cup Garbage \cup {None}]
          /\ posistion \in 0..Cardinality(Pages)
          /\ free \subseteq Pages /\ twice \subseteq out
          /\ popping \in BOOLEAN

Init == SetupStack /\ free = {} /\ out = {} /\ twice = {} /\ popping = FALSE

PushPage(p) == /\ p \notin free
               /\ popping => ~BootOnly /\ p \in out
               /\ posistion < Cardinality(Pages)
               /\ Push(p)
               /\ free' = free \cup {p}
               /\ out' = out \ {p}
               /\ twice' = twice \ {p}
               /\ UNCHANGED popping

PopPage == /\ Pop
           /\ popping' = TRUE
           /\ IF Popped = None
              THEN UNCHANGED <<free, out, twice>>
              ELSE /\ out' = out \cup {Popped}
                   /\ free' = free \ {Popped}
                   /\ twice' = IF Popped \in out THEN twice \cup {Popped} ELSE twice

Next == PopPage \/ \E p \in Pages : PushPage(p)

Spec == Init /\ [][Next]_vars

-----------------------------------------------------------------------------
(* No page is handed out while an earlier caller still has it               *)
(* (phys_mm.c:21-42, the stack "for tracking _physical_ memory").           *)
NoPageTwice == twice = {}

(* A pop answers a page that was pushed and is free, or 0                   *)
(* (phys_mm.c:30, "returns the starting address if succesful, or 0 if       *)
(* unsuccesful").                                                           *)
PopAnswersAFreePage == [][PopPage => Popped \in free \cup {None}]_vars
=============================================================================
