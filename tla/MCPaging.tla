----------------------------- MODULE MCPaging -----------------------------
(* A small instance of Paging for TLC, with 16 entries to a table, and one  *)
(* of the stack of pages under callers of any kind: a behaviour is one of   *)
(* either.  Directory entries 4 and 8 start groups of four tables, 5 lies   *)
(* inside the first of them; 79 is the last page of 4, 5 is the kernel's.   *)
EXTENDS Paging, PageCallers

VARIABLE part          \* who calls: the kernel, or anyone

pagingVars == <<pc, cr3, mem, fault, fresh, wanted, served>>
callerVars == <<free, out, twice, popping>>

PartInit == part \in {"kernel", "callers"} /\ Init /\ Frames!Init
PartNext == /\ UNCHANGED part
            /\ \/ part = "kernel" /\ Next /\ UNCHANGED callerVars
               \/ part = "callers" /\ Frames!Next /\ UNCHANGED pagingVars
PartSpec == /\ PartInit /\ [][PartNext]_<<part, vars, callerVars>>
            /\ WF_vars(part = "kernel" /\ Handler)

TwoGroups == {5, 64, 67, 79, 80, 95, 128, 129}

ASSUME InstanceIsServed == WordIsPrivate /\ WindowIsLeft

\* Memory that was clear, and memory that was not.
Dirty == {Absent, 3}
=============================================================================
