----------------------------- MODULE MoreCore -----------------------------
(***************************************************************************)
(* The allocator of virtual address space under malloc (mm.c): kmorecore   *)
(* for the kernel's heap, morecore for the rest.  Both search the same     *)
(* bitmaps for n pages in a row, in different superpages, then mark the    *)
(* pages; no lock is held between the search and the marks.                *)
(*                                                                         *)
(* The machine's 32 pages to a group and 32 groups to a superpage are      *)
(* scaled to Bits and Groups.  A word of superpage_bitmap holds one bit    *)
(* per superpage; the search skips only a word that is all ones, so words  *)
(* of WordSupers superpages are kept too.  Nothing ever frees pages.       *)
(*                                                                         *)
(* Each array of mm_t is one element short (mm.h:7-9): the word behind the *)
(* last of page_bitmap is the first of superpage_bitmap, the one behind    *)
(* the last of superpage_bitmap is superpage_count[0] and [1], two shorts  *)
(* to a word, and the count behind the last, which nothing sets, is left   *)
(* over at the end of the structure.                                       *)
(***************************************************************************)
EXTENDS Integers, FiniteSets

CONSTANTS Bits,           \* pages in a group: the bits of a page_bitmap word
          Groups,         \* groups in a superpage
          WordSupers,     \* superpages in a word of superpage_bitmap
          KernelWords,    \* words kmorecore searches; morecore takes the rest
          Words,          \* words of superpage_bitmap
          BootSupers,     \* superpages allocated before the first call
          ShortTop,       \* 2^15: the value of the sign bit of a short
          Callers,        \* threads that may allocate
          KernelSizes,    \* pages asked of kmorecore
          UserSizes,      \* pages asked of morecore
          MaxCalls        \* bound on the calls that find room

ASSUME MoreCoreAssumption ==
    /\ {Bits, Groups, WordSupers, KernelWords, Words, ShortTop} \subseteq Nat
    /\ Bits >= 2 /\ Groups >= 2 /\ WordSupers >= 2 /\ Words >= 2
    /\ KernelWords \in 1..Words
    /\ BootSupers \in 2..WordSupers          \* in the first word, with the counts 0 and 1
    /\ WordSupers % 2 = 0 /\ ShortTop = 2^((WordSupers \div 2) - 1)
    /\ ShortTop > Bits * Groups
    /\ Bits <= WordSupers
    /\ KernelSizes \subseteq Nat /\ UserSizes \subseteq Nat
    /\ MaxCalls \in Nat

VARIABLES page_bitmap,       \* the pages marked
          superpage_bitmap,  \* the superpages marked full, but for those of the last word
          superpage_count,   \* free pages of each superpage
          found,             \* what each caller's search found: a run, or Idle
          given,             \* history: the runs returned
          calls              \* calls that found room

vars == <<page_bitmap, superpage_bitmap, superpage_count, found, given, calls>>

SuperPages == Bits * Groups
Supers     == Words * WordSupers
LastSuper  == Supers - 1                        \* 1023
LastWord   == (Words - 1) * WordSupers          \* its first superpage, 992
Pages      == 0..(Supers * SuperPages - 1)
Super(p)   == p \div SuperPages
Run(start, n) == start..(start + n - 1)
Idle   == [start |-> -1, n |-> 0, id |-> 0, heap |-> "none"]

\* One caller at a time, which the theorems assume.
OneCaller == \A c, d \in Callers : c = d

TypeOK == /\ page_bitmap \subseteq Pages
          /\ superpage_bitmap \subseteq 0..LastSuper
          /\ DOMAIN superpage_count = 0..LastSuper
          /\ \A c \in Callers : found[c] = Idle \/
                 /\ found[c].start \in Pages
                 /\ found[c].n \in KernelSizes \cup UserSizes
          /\ calls \in 0..MaxCalls

(* What kernel.c:91-95 prepares: the boot superpages are full in the        *)
(* superpage bitmap only, their count and their page bits stay zero, and so *)
(* does the count of the last superpage, where the loop stops one short.    *)
Init == /\ page_bitmap = {}
        /\ superpage_bitmap = 0..(BootSupers - 1)
        /\ superpage_count = [s \in 0..LastSuper |->
                                 IF s \in BootSupers..(LastSuper - 1) THEN SuperPages ELSE 0]
        /\ found = [c \in Callers |-> Idle]
        /\ given = {} /\ calls = 0

-----------------------------------------------------------------------------
(* The words that two arrays share.  A number kept in a short is wrapped.   *)
ShortBits == WordSupers \div 2
Short(v)  == ((v + ShortTop) % (2 * ShortTop)) - ShortTop

Power[b \in 0..ShortBits] == IF b = 0 THEN 1 ELSE 2 * Power[b - 1]
BitValue(b)  == IF b = ShortBits - 1 THEN -ShortTop ELSE Power[b]
BitSet(v, b) == IF b = ShortBits - 1 THEN v < 0 ELSE (v \div Power[b]) % 2 = 1

\* The short v with the bits of a set put in.
Or(v, b) == IF BitSet(v, b) THEN v ELSE v + BitValue(b)
WithBits(v, bits) ==
    LET with[b \in 0..ShortBits] ==
            IF b = 0 THEN v
            ELSE IF b - 1 \in bits THEN Or(with[b - 1], b - 1)
            ELSE with[b - 1]
    IN with[ShortBits]

(* The bit of superpage s in superpage_bitmap.                              *)
SuperFull(s) ==
    IF s < LastWord THEN s \in superpage_bitmap
    ELSE BitSet(superpage_count[(s - LastWord) \div ShortBits], (s - LastWord) % ShortBits)

-----------------------------------------------------------------------------
(* The search.  A scan state is [start, size]: f_start and f_size.          *)
Longer(scan, p, by) == [start |-> IF scan.size = 0 THEN p ELSE scan.start,
                        size  |-> scan.size + by]
Broken(scan) == [scan EXCEPT !.size = 0]

\* One page of a group that is partly used.
ScanPage(scan, p) == IF p \in page_bitmap THEN Broken(scan) ELSE Longer(scan, p, 1)

\* The loop over l stops one short: a mixed group's last page is never looked at.
ScanMixed(scan, first) ==
    LET after[l \in 0..(Bits - 1)] ==
            IF l = 0 THEN scan ELSE ScanPage(after[l - 1], first + l - 1)
    IN after[Bits - 1]

ScanGroup(scan, g) ==
    LET pages == Run(g * Bits, Bits)
    IN IF pages \cap page_bitmap = {} THEN Longer(scan, g * Bits, Bits)
       ELSE IF pages \subseteq page_bitmap THEN Broken(scan)
       ELSE ScanMixed(scan, g * Bits)

\* The loop over k stops one short: a superpage's last group is never looked at.
GroupUnlessFound(scan, g, n) == IF scan.size >= n THEN scan ELSE ScanGroup(scan, g)
ScanSuper(scan, s, n) ==
    LET after[k \in 0..(Groups - 1)] ==
            IF k = 0 THEN scan
            ELSE GroupUnlessFound(after[k - 1], s * Groups + k - 1, n)
    IN after[Groups - 1]

(* A superpage is searched when its count reaches what is still missing,    *)
(* taken modulo the superpage; the comparison is unsigned, so a count below *)
(* zero reaches everything.                                                 *)
MayHold(scan, s, n) ==
    superpage_count[s] < 0 \/ superpage_count[s] >= (n - scan.size) % SuperPages

WordFull(w) == \A s \in (w * WordSupers)..((w + 1) * WordSupers - 1) : SuperFull(s)

\* The scan taken through superpage s.
Through(scan, s, n) ==
    IF \/ scan.size >= n
       \/ WordFull(s \div WordSupers)
       \/ ~MayHold(scan, s, n)
    THEN scan
    ELSE ScanSuper(scan, s, n)

\* The superpages from the first of word lo to the last of word hi - 1.
Search(n, lo, hi) ==
    LET first == lo * WordSupers
        after[s \in first..(hi * WordSupers)] ==
            IF s = first THEN [start |-> -1, size |-> 0]
            ELSE Through(after[s - 1], s - 1, n)
    IN after[hi * WordSupers]

(* Call kmorecore or morecore for n pages.  Nothing is remembered when n is *)
(* 0 or no run is long enough: the answer is -1.                            *)
Look(c, heap, n, lo, hi) ==
    /\ found[c] = Idle /\ calls < MaxCalls
    /\ n > 0
    /\ LET scan == Search(n, lo, hi)
       IN /\ scan.size >= n
          /\ found' = [found EXCEPT ![c] = [start |-> scan.start, n |-> n,
                                               id |-> calls + 1, heap |-> heap]]
    /\ calls' = calls + 1
    /\ UNCHANGED <<page_bitmap, superpage_bitmap, superpage_count, given>>

kmorecore(c, n) == Look(c, "kernel", n, 0, KernelWords)
morecore(c, n)  == Look(c, "user", n, KernelWords, Words)

\* How many pages of superpage s a run takes, and whether that fills it.
Taken(s, run) == Cardinality({p \in run : Super(p) = s})

FilledEarly(s, run) == superpage_count[s] > 1 /\ Taken(s, run) >= superpage_count[s] - 1   \* slip
Filled(s, run) == superpage_count[s] > 0 /\ Taken(s, run) >= superpage_count[s]

MarkedButLast(run) == page_bitmap \cup {p \in run : p + 1 \in run}   \* slip
Marked(run) == page_bitmap \cup run

\* The counts after a run has been marked, and with the bits of the superpages that it
\* filled in the last word put into the first two.
Less(run) == [s \in 0..LastSuper |-> Short(superpage_count[s] - Taken(s, run))]
BitsOf(half, full) == {b \in 0..(ShortBits - 1) : LastWord + half * ShortBits + b \in full}
PutBits(count, full) ==
    [s \in 0..LastSuper |-> IF s \in {0, 1} THEN WithBits(count[s], BitsOf(s, full)) ELSE count[s]]

\* The pages of the last group, whose bits lie in the first word of superpage_bitmap.
LastGroup == Run(LastSuper * SuperPages + (Groups - 1) * Bits, Bits)
Stray(run) == {p % Bits : p \in run \cap LastGroup}

(* Mark the pages found: their bits, one less in the count for each, and    *)
(* the superpage's bit when the count comes to zero.                        *)
Mark(c) ==
    LET run  == Run(found[c].start, found[c].n)
        full == {s \in 0..LastSuper : Filled(s, run)}
    IN /\ found[c] # Idle
       /\ page_bitmap' = Marked(run)
       /\ superpage_count' = PutBits(Less(run), full)
       /\ superpage_bitmap' = superpage_bitmap \cup {s \in full : s < LastWord} \cup Stray(run)
       /\ given' = given \cup {found[c]}
       /\ found' = [found EXCEPT ![c] = Idle]
       /\ UNCHANGED calls

Next == \E c \in Callers :
            \/ \E n \in KernelSizes : kmorecore(c, n)
            \/ \E n \in UserSizes : morecore(c, n)
            \/ Mark(c)

Spec == Init /\ [][Next]_vars

-----------------------------------------------------------------------------
(* The search is right for requests whose last part, after their whole       *)
(* superpages, is a page at least and no more than what a superpage has left *)
(* when the last page the search looks at is free: a group and two pages     *)
(* (of the machine's 1024, 1 to 34).  And the tables are right until a       *)
(* superpage of the last word is full, whose bit is not in superpage_bitmap. *)
Fits(n) == n % SuperPages \in 1..(Bits + 2)
AllFit  == \A a \in given : Fits(a.n)
LastWordHasRoom ==
    \A s \in LastWord..LastSuper : ~(Run(s * SuperPages, SuperPages) \subseteq page_bitmap)
Reliable == AllFit /\ LastWordHasRoom

(* No page is part of two runs returned (mm.c:135-160), and the pages below *)
(* the first free superpage, which hold the kernel image, are part of none  *)
(* (kernel.c:91, "first 4 superpages are allocated"), as long as the tables *)
(* are right.  And whatever the tables hold, no run reaches the last        *)
(* superpage, so that the element page_bitmap lacks is never written.       *)
RunsAreApart ==
    /\ \A a \in given : a.start + a.n <= LastSuper * SuperPages
    /\ Reliable =>
          /\ \A a, b \in given : a # b => Run(a.start, a.n) \cap Run(b.start, b.n) = {}
          /\ \A a \in given : a.start >= BootSupers * SuperPages

(* The three tables agree: the count of a superpage is the number of its    *)
(* pages that are not marked (mm.h:9, "number of free pages in the          *)
(* superpage"), and it is marked full exactly when none is left (mm.h:8,    *)
(* "bitmap of which superpages have free pages"), of all superpages but the *)
(* kernel image's and the last one.                                         *)
TablesAgree ==
    /\ TypeOK
    /\ Reliable => \A s \in BootSupers..(LastSuper - 1) :
          /\ superpage_count[s] = Cardinality(Run(s * SuperPages, SuperPages) \ page_bitmap)
          /\ SuperFull(s) <=> Run(s * SuperPages, SuperPages) \subseteq page_bitmap

(* "First 4 superpages are allocated" (kernel.c:91), without the condition  *)
(* on the tables: the kernel image is never given out.                      *)
KernelImageIsKept == \A a \in given : a.start >= BootSupers * SuperPages
=============================================================================
