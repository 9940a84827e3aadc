------------------------------ MODULE Paging ------------------------------
(***************************************************************************)
(* Demand paging (mm.c virt_mem_inti, exceptions.c page_fault, the boot    *)
(* pushes of kernel.c), scaled: Entries entries per table where the        *)
(* machine has 1024, so a page number splits into a directory entry        *)
(* (p \div Entries) and a table entry (p % Entries) and the tables of four *)
(* consecutive directory entries are one group of the mask 0xFFFFF000.     *)
(*                                                                         *)
(* Physical pages are numbers.  An entry holds the number of the page it   *)
(* maps, or Absent.  mem gives the contents of the pages that may serve as *)
(* directory or table; what they hold before anyone writes them is Fill.   *)
(* Interrupt gates keep the handler from being preempted; only a page      *)
(* fault of its own interrupts it.                                         *)
(***************************************************************************)
EXTENDS PhysStack

CONSTANTS Entries,      \* entries of a directory or table
          BootPages,    \* how many 4MB steps k_main pushes
          UserPages,    \* the pages the system touches once paging is on
          Fill          \* what memory may hold before it is written

Absent == -1

ASSUME PagingAssumption == /\ Entries \in Nat /\ Entries >= 2 /\ Entries % 4 = 0
                           /\ BootPages \in 3..StackWords
                           /\ UserPages \subseteq 0..(Entries * Entries - 1)
                           /\ Fill \subseteq Nat \cup {Absent}

VARIABLES pc,        \* where the processor is
          cr3,       \* the page directory
          mem,       \* contents of the physical pages used as directory or table
          fault,     \* the page the handler is resolving
          fresh,     \* new_pt_flag
          wanted,    \* the page the interrupted instruction touches, or Absent
          served     \* history: the pages resolved, each with the page it got

vars == <<base, posistion, pc, cr3, mem, fault, fresh, wanted, served>>

Index   == 0..(Entries - 1)
Boot    == {k * Entries : k \in 1..BootPages}
Tables  == Boot \cup (Garbage \ {None})
Dir(p)  == p \div Entries
Slot(p) == p % Entries
Window  == Entries - 1          \* the directory entry that maps the directory
GroupBase(p) == (p \div (4 * Entries)) * (4 * Entries)   \* tmp3 & 0xFFFFF000

\* An access through page_tabs[p]: the table is found through the directory.
TableOf(p)   == mem[cr3][Dir(p)]
Present(p)   == TableOf(p) # Absent /\ mem[TableOf(p)][Slot(p)] # Absent
Frame(p)     == mem[TableOf(p)][Slot(p)]
Store(p, f)  == [mem EXCEPT ![TableOf(p)][Slot(p)] = f]

TypeOK == /\ base \in [0..StackWords -> Nat] /\ posistion \in 0..BootPages
          /\ pc \in {"boot", "paging", "run", "directory", "clear", "map", "halted"}
          /\ cr3 \in Tables \cup {None}
          /\ mem \in [Tables -> [Index -> Nat \cup {Absent}]]
          /\ fault \in UserPages \cup {Absent} /\ wanted \in UserPages \cup {Absent}
          /\ fresh \in BOOLEAN
          /\ \A s \in served : s[1] \in UserPages /\ s[2] \in Nat

Init == /\ SetupStack
        /\ pc = "boot" /\ cr3 = None /\ fault = Absent /\ wanted = Absent
        /\ fresh = FALSE /\ served = {}
        /\ \E v \in Fill : mem = [f \in Tables |-> [e \in Index |-> v]]

-----------------------------------------------------------------------------
(* k_main: one page pushed for each 4MB from 4MB up.                        *)
BootPush == /\ pc = "boot"
            /\ Push((posistion + 1) * Entries)
            /\ pc' = IF posistion + 1 = BootPages THEN "paging" ELSE "boot"
            /\ UNCHANGED <<cr3, mem, fault, fresh, wanted, served>>

(* virt_mem_inti and write_cr3: pop the directory and the first table, map  *)
(* the directory into itself and the first Entries pages onto themselves,   *)
(* except page 1, which becomes the directory.                              *)
StartPaging ==
    /\ pc = "paging"
    /\ LET dir   == Popped
           first == base[posistion - 2]
       IN /\ mem' = [mem EXCEPT
                     ![dir]   = [e \in Index |-> IF e = Window THEN dir
                                                 ELSE IF e = 0 THEN first ELSE Absent],
                     ![first] = [e \in Index |-> IF e = 1 THEN dir ELSE e]]
          /\ cr3' = dir
    /\ posistion' = posistion - 2
    /\ pc' = "run"
    /\ UNCHANGED <<base, fault, fresh, wanted, served>>

(* An instruction touches a page that is present: nothing happens.  One     *)
(* that is not: the processor enters page_fault with the address in CR2.    *)
Touch(p) == /\ pc = "run" /\ wanted = Absent
            /\ wanted' = p
            /\ UNCHANGED <<base, posistion, pc, cr3, mem, fault, fresh, served>>

Access == /\ pc = "run" /\ wanted # Absent /\ Present(wanted)
          /\ wanted' = Absent
          /\ UNCHANGED <<base, posistion, pc, cr3, mem, fault, fresh, served>>

\* Slip: new_pt_flag starts set.
FaultAsNew == /\ pc = "run" /\ wanted # Absent /\ ~Present(wanted)
              /\ fault' = wanted
              /\ fresh' = TRUE
              /\ pc' = IF TableOf(wanted) = Absent THEN "directory" ELSE "clear"
              /\ UNCHANGED <<base, posistion, cr3, mem, wanted, served>>

Fault == /\ pc = "run" /\ wanted # Absent /\ ~Present(wanted)
         /\ fault' = wanted
         /\ fresh' = FALSE
         /\ pc' = IF TableOf(wanted) = Absent THEN "directory" ELSE "map"
         /\ UNCHANGED <<base, posistion, cr3, mem, wanted, served>>

Halt == /\ pc' = "halted"
        /\ UNCHANGED <<cr3, mem, fault, fresh, wanted, served>>

(* No table covers the address: pop one, or panic.                          *)
AddTable == /\ pc = "directory"
            /\ Pop
            /\ \/ Popped = None /\ Halt
               \/ /\ Popped # None
                  /\ mem' = [mem EXCEPT ![cr3][Dir(fault)] = Popped]
                  /\ fresh' = TRUE
                  /\ pc' = "clear"
                  /\ UNCHANGED <<cr3, fault, wanted, served>>

(* The table is cleared through the window, from the start of its group.    *)
(* The write faults in turn when the first directory entry of the group has *)
(* no table: the nested page_fault pops one for it and leaves it uncleared. *)
NestedFault == /\ pc = "clear" /\ TableOf(GroupBase(fault)) = Absent
               /\ Pop
               /\ \/ Popped = None /\ Halt
                  \/ /\ Popped # None
                     /\ mem' = [mem EXCEPT ![cr3][Dir(GroupBase(fault))] = Popped]
                     /\ UNCHANGED <<pc, cr3, fault, fresh, wanted, served>>

(* i runs from 0 to 1022.                                                   *)
Cleared(t) == [e \in Index |-> IF e < Entries - 1 THEN Absent ELSE mem[t][e]]

ClearTable == /\ pc = "clear" /\ TableOf(GroupBase(fault)) # Absent
              /\ LET t == TableOf(GroupBase(fault))
                 IN mem' = [mem EXCEPT ![t] = Cleared(t)]
              /\ fresh' = FALSE
              /\ pc' = "map"
              /\ UNCHANGED <<base, posistion, cr3, fault, wanted, served>>

(* Pop the page itself and map it, or panic; the flush makes it count.      *)
\* Slip: after panic, which returns, the processor is not halted.
MapOrReturn == /\ pc = "map"
               /\ Pop
               /\ mem' = IF Popped = None THEN mem ELSE Store(fault, Popped)
               /\ served' = IF Popped = None THEN served ELSE served \cup {<<fault, Popped>>}
               /\ fault' = Absent
               /\ pc' = "run"
               /\ UNCHANGED <<cr3, fresh, wanted>>

MapPage == /\ pc = "map"
           /\ Pop
           /\ \/ Popped = None /\ Halt
              \/ /\ Popped # None
                 /\ mem' = Store(fault, Popped)
                 /\ served' = served \cup {<<fault, Popped>>}
                 /\ fault' = Absent
                 /\ pc' = "run"
                 /\ UNCHANGED <<cr3, fresh, wanted>>

Handler == Access \/ Fault \/ AddTable \/ NestedFault \/ ClearTable \/ MapPage

Next == BootPush \/ StartPaging \/ Handler \/ \E p \in UserPages : Touch(p)

Spec == Init /\ [][Next]_vars

(* The processor goes on executing.                                         *)
FairSpec == Spec /\ WF_vars(Handler)

-----------------------------------------------------------------------------
(* When the properties hold for any sizes.                                  *)
\* The word under the stack names none of the pages that are pushed.
WordIsPrivate == Garbage \cap Boot = {}

\* Nothing touches memory through the window of the directory by itself.
WindowIsLeft == \A p \in UserPages : Dir(p) # Window

Paged == pc \in {"run", "directory", "clear", "map"}

\* The tables the directory reaches, the directory itself left out.
LiveTables == {mem[cr3][d] : d \in {d \in Index \ {Window} : mem[cr3][d] # Absent}}

(* A physical page has one use: directory, one table, one mapped page, or   *)
(* waiting to be popped (phys_mm.c:31-42 with exceptions.c:36-39, 76-80).   *)
OneUsePerFrame ==
    TypeOK /\ (Paged =>
      /\ \A d1, d2 \in Index : mem[cr3][d1] = mem[cr3][d2] /\ mem[cr3][d1] # Absent => d1 = d2
      /\ \A s, t \in served : s[2] = t[2] => s = t
      /\ \A s \in served : s[2] \notin LiveTables \cup {cr3}
      /\ \A i \in StillToPop : base[i] # None =>
            base[i] \notin LiveTables \cup {cr3} \cup {s[2] : s \in served})

(* A page, once the handler mapped it, keeps its physical page: data stored *)
(* there is still there at the next access (exceptions.c:65, only "a new    *)
(* page table" is cleared).                                                 *)
MappingsSurvive == Paged =>
                       \A s \in served : Present(s[1]) /\ Frame(s[1]) = s[2]

\* Every table the handler added is the first of its group of four.
OnlyFirstTables == \A d \in Index \ {Window} : mem[cr3][d] # Absent => d % 4 = 0

\* No table was added to the group of the first one, which clearing it would clear.
FirstTableIsAlone == \A d \in (1..3) \ {Window} : mem[cr3][d] = Absent

\* What a table that is new says of the page is zeroed: the first table is not new,
\* and the loop never comes to the last entry.
IsZeroed(p) == Dir(p) # 0 /\ Slot(p) # Entries - 1

(* The kernel's own pages stay mapped where they are (mm.c:25-31, the first *)
(* table maps 0x0 - 0x3FFFFF) until a table of its group is added.  As long *)
(* as only first tables are added, the pages the handler mapped stay where  *)
(* they are, through any number of faults (exceptions.c:60-80), and a new   *)
(* table holds nothing but what was put there (exceptions.c:65, "if this a  *)
(* new page table, zero it before going on"), its last entry left out.      *)
MappedAndNoMore ==
    Paged =>
       /\ FirstTableIsAlone => \A p \in Index : Present(p) /\ (p # 1 => Frame(p) = p)
       /\ OnlyFirstTables =>
             /\ MappingsSurvive
             /\ pc = "run" => \A p \in UserPages : IsZeroed(p) /\ Present(p)
                                                      => <<p, Frame(p)>> \in served

(* An access ends: the page is there, or the kernel has panicked because no *)
(* physical page is left (exceptions.c:14-96).                              *)
AccessEnds == (wanted # Absent) ~> (wanted = Absent \/ pc = "halted")
=============================================================================
