----------------------------- MODULE Allocator -----------------------------
(***************************************************************************)
(* What malloc promises its callers: blocks that are aligned, apart from   *)
(* each other and inside memory the allocator owns.  A block is its        *)
(* address, with the bytes its user may write.                             *)
(***************************************************************************)
EXTENDS Integers

CONSTANT Unit          \* alignment of every block

VARIABLES blocks,      \* function from the blocks in use to their bytes
          owned        \* aligned addresses of the memory obtained

Apart(m, n, k, l)  == m + n <= k \/ k + l <= m
Inside(m, n, mem)  == \A a \in m..(m + n - 1) : a - (a % Unit) \in mem
Fits(m, all, mem)  == /\ m \in Nat /\ m % Unit = 0
                      /\ all[m] \in Nat /\ Inside(m, all[m], mem)
                      /\ \A k \in DOMAIN all \ {m} : Apart(m, all[m], k, all[k])

\* Blocks of now that the last step left as they were.
Kept == {k \in DOMAIN blocks \cap DOMAIN blocks' : blocks'[k] = blocks[k]}

Init == blocks = [m \in {} |-> 0] /\ owned = {}

\* A call takes away, moves or resizes at most the block it was given, and every
\* block it makes or changes fits among the others.
Call(given) == /\ DOMAIN blocks \ Kept \subseteq given
               /\ \A m \in DOMAIN blocks' \ Kept : Fits(m, blocks', owned')
               /\ owned \subseteq owned'
               /\ blocks' = [m \in DOMAIN blocks' |-> blocks'[m]]
Next == \E given \in {{}} \cup {{m} : m \in DOMAIN blocks} : Call(given)
Spec == Init /\ [][Next]_<<blocks, owned>>

\* No two users write the same byte, and none writes outside the heap's memory.
BlocksApart == \A m \in DOMAIN blocks : Fits(m, blocks, owned)
=============================================================================
