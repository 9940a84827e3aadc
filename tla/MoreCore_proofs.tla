--------------------------- MODULE MoreCore_proofs ---------------------------
(***************************************************************************)
(* The allocator of address space (mm.c): the runs it returns are apart    *)
(* and its three tables agree, for any geometry of groups and superpages   *)
(* and any number of calls, as long as the tables are right: until a size  *)
(* is asked for that the search does not see through, or a superpage's bit *)
(* lies behind the array that holds the others.                            *)
(***************************************************************************)
EXTENDS MoreCore, FiniteSetTheorems, WellFoundedInduction, TLAPS
-----------------------------------------------------------------------------
(* The inductive invariant.                                                   *)
\* The first superpage of the user's heap, and of the heap of superpage s.
Border == KernelWords * WordSupers
First(s) == IF s < Border THEN 0 ELSE Border

Free(lo, hi) == \A p \in lo..hi : p \notin page_bitmap

\* The page at place l of group k of superpage s; those the search looks at, the
\* last of them, and those it takes for used or free with a neighbour.
Place(s, k, l) == s * SuperPages + k * Bits + l
Looked(s) == {Place(s, k, l) : k \in 0..(Groups - 2), l \in 0..(Bits - 2)}
LastLooked(s) == Place(s, Groups - 2, Bits - 2)
Unseen(s) == {Place(s, k, Bits - 1) : k \in 0..(Groups - 1)}
                \cup {Place(s, Groups - 1, l) : l \in 0..(Bits - 1)}

\* A page the search never looks at is not marked before the one below it.
Followers == \A s \in 0..(Supers - 1) : \A p \in Unseen(s) :
                p \in page_bitmap => p - 1 \in page_bitmap

\* A superpage behind one that has room at its end is untouched.
Before(s) == s - 1 >= BootSupers /\ s - 1 >= First(s)
Untouched(s) == Free(s * SuperPages, s * SuperPages + SuperPages - 1)
InOrder ==
    \A s \in 0..(Supers - 1) :
       Before(s) /\ LastLooked(s - 1) \notin page_bitmap => Untouched(s)

\* Where a run may start.
StartsIn(s) == IF Before(s) => LastLooked(s - 1) \in page_bitmap THEN Looked(s) ELSE {}
Starts == UNION {StartsIn(s) : s \in BootSupers..(Supers - 1)}
Placed(r) ==
    /\ r.start \in Nat /\ r.n \in KernelSizes \cup UserSizes /\ r.n > 0
    /\ r.start + r.n <= LastSuper * SuperPages
FoundIsFree ==
    \A c \in Callers : found[c] # Idle /\ Fits(found[c].n) =>
       /\ found[c].start \in Starts
       /\ Free(found[c].start, found[c].start + found[c].n - 1)

GivenIsMarked ==
    \A a \in given : /\ Run(a.start, a.n) \subseteq page_bitmap
                     /\ a.start >= BootSupers * SuperPages
GivenApart == \A a, b \in given : a # b => Run(a.start, a.n) \cap Run(b.start, b.n) = {}
BootIsLeft == \A s \in 0..(BootSupers - 1) : superpage_count[s] = 0

\* What TablesAgree says of a superpage's count and bit.
Exact == \A s \in BootSupers..(LastSuper - 1) :
            /\ superpage_count[s] = Cardinality(Run(s * SuperPages, SuperPages) \ page_bitmap)
            /\ SuperFull(s) <=> Run(s * SuperPages, SuperPages) \subseteq page_bitmap

\* Whatever has been asked for: nobody reaches the last superpage, whose count stays
\* as it was left.
Basic == /\ TypeOK /\ superpage_count[LastSuper] = 0
         /\ found = [c \in Callers |-> found[c]]
         /\ \A c \in Callers : found[c] # Idle => Placed(found[c])
         /\ \A a \in given : a.start + a.n <= LastSuper * SuperPages

\* As long as the tables are right.
Strong == /\ Exact /\ BootIsLeft /\ Followers /\ InOrder
          /\ FoundIsFree /\ GivenIsMarked /\ GivenApart

MInv == Basic /\ (Reliable => Strong)
-----------------------------------------------------------------------------
(* Functions defined by recursion on numbers.                                 *)
LEMMA LeastOf ==
    ASSUME NEW S, S \subseteq Nat, S # {}
    PROVE  \E m \in S : \A k \in S : m <= k
<1> DEFINE less == {ss \in Nat \X Nat : ss[1] < ss[2]}
<1>1. IsWellFoundedOn(less, Nat) BY NatLessThanWellFounded, Zenon DEF OpToRel
<1>2. \A k, m \in Nat : k < m => <<k, m>> \in less OBVIOUS
<1> HIDE DEF less
<1>3. PICK m \in S : \A k \in S : ~ (<<k, m>> \in less) BY <1>1, WFMin
<1>4. \A k \in S : ~ (k < m) BY <1>2, <1>3
<1>5. \A k \in S : k \in Nat /\ m \in Nat OBVIOUS
<1>6. \A k \in S : m <= k BY <1>4, <1>5
<1>7. QED BY <1>6

\* What holds at a and goes on from each number to the next holds up to b.
LEMMA Climb ==
    ASSUME NEW a \in Nat, NEW b \in Nat, NEW P, a \in P,
           \A k \in (a + 1)..b : k - 1 \in P => k \in P
    PROVE  \A k \in a..b : k \in P
<1> DEFINE Bad == {k \in a..b : k \notin P}
<1>1. ASSUME NEW m \in Bad, \A k \in Bad : m <= k PROVE FALSE
  <2>1. m \in (a + 1)..b /\ m \notin P OBVIOUS
  <2>2. m - 1 \in a..b /\ ~ (m <= m - 1) BY <2>1
  <2>3. m - 1 \in P BY <1>1, <2>2
  <2>4. QED BY <2>1, <2>3
<1>2. Bad \subseteq Nat OBVIOUS
<1> HIDE DEF Bad
<1>3. Bad = {} BY <1>1, <1>2, LeastOf
<1>4. QED BY <1>3 DEF Bad

\* Steps from S to S, taken one after the other from init, are a function.
Stepping(a, b, S, step) == \A x \in S, k \in (a + 1)..b : step[<<x, k>>] \in S
Solves(f, a, b, S, init, step) ==
    /\ f \in [a..b -> S]
    /\ \A k \in a..b : f[k] = IF k = a THEN init ELSE step[<<f[k - 1], k>>]

LEMMA Iteration ==
    ASSUME NEW a \in Nat, NEW b \in Nat, a <= b, NEW S, NEW init \in S, NEW step,
           Stepping(a, b, S, step)
    PROVE  \E f : Solves(f, a, b, S, init, step)
<1> DEFINE G(m) == \E f \in [a..m -> S] :
                      f = [k \in a..m |-> IF k = a THEN init ELSE step[<<f[k - 1], k>>]]
           P == {m \in a..b : G(m)}
<1>1. a \in P
  <2> DEFINE g == [k \in a..a |-> init]
  <2>1. g \in [a..a -> S] OBVIOUS
  <2>2. g = [k \in a..a |-> IF k = a THEN init ELSE step[<<g[k - 1], k>>]] OBVIOUS
  <2>3. G(a) BY <2>1, <2>2
  <2>4. QED BY <2>3
<1>2. ASSUME NEW m \in (a + 1)..b, m - 1 \in P PROVE m \in P
  <2>1. PICK f \in [a..(m - 1) -> S] :
           f = [k \in a..(m - 1) |-> IF k = a THEN init ELSE step[<<f[k - 1], k>>]]
    BY <1>2
  <2> DEFINE g == [k \in a..m |-> IF k = m THEN step[<<f[m - 1], m>>] ELSE f[k]]
  <2>2. m - 1 \in a..(m - 1) /\ a # m OBVIOUS
  <2>3. step[<<f[m - 1], m>>] \in S
    <3>1. f[m - 1] \in S BY <2>2
    <3>2. QED BY <3>1 DEF Stepping
  <2>4. \A k \in a..m : k # m => k \in a..(m - 1) OBVIOUS
  <2>5. g \in [a..m -> S] BY <2>3, <2>4
  <2>6. ASSUME NEW k \in a..m
        PROVE  g[k] = IF k = a THEN init ELSE step[<<g[k - 1], k>>]
    <3>1. CASE k = a
      <4>1. g[k] = f[a] /\ f[a] = init BY <2>1, <2>2, <2>4, <3>1
      <4>2. QED BY <3>1, <4>1
    <3>2. CASE k # a /\ k # m
      <4>1. k \in a..(m - 1) /\ k - 1 \in a..(m - 1) /\ k - 1 # m BY <3>2
      <4>2. g[k] = f[k] /\ g[k - 1] = f[k - 1] BY <3>2, <4>1
      <4>3. f[k] = step[<<f[k - 1], k>>] BY <2>1, <3>2, <4>1
      <4>4. QED BY <3>2, <4>2, <4>3
    <3>3. CASE k = m
      <4>1. g[k - 1] = f[m - 1] BY <2>2, <3>3
      <4>2. QED BY <2>2, <3>3, <4>1
    <3>4. QED BY <3>1, <3>2, <3>3
  <2>7. g = [k \in a..m |-> IF k = a THEN init ELSE step[<<g[k - 1], k>>]]
    BY <2>6
  <2>8. G(m) BY <2>5, <2>7
  <2>9. m \in a..b OBVIOUS
  <2>10. QED BY <2>8, <2>9
<1> HIDE DEF P
<1>3. \A k \in a..b : k \in P BY <1>1, <1>2, Climb
<1>4. b \in P BY <1>3
<1>5. PICK f \in [a..b -> S] :
         f = [k \in a..b |-> IF k = a THEN init ELSE step[<<f[k - 1], k>>]]
  BY <1>4 DEF P
<1>6. \A k \in a..b : f[k] = IF k = a THEN init ELSE step[<<f[k - 1], k>>] BY <1>5
<1>7. f \in [a..b -> S] BY <1>5
<1>8. Solves(f, a, b, S, init, step) BY <1>6, <1>7, Zenon DEF Solves
<1>9. QED BY <1>8
-----------------------------------------------------------------------------
(* Pages, groups and superpages.                                              *)
\* Where in its superpage the last page looked at is.
Last == (Groups - 2) * Bits + Bits - 2

LEMMA Product ==
    /\ \A m, b \in Nat : m * b \in Nat
    /\ \A m, n, b \in Int : (m + n) * b = m * b + n * b
    /\ \A m, n, b \in Nat : m <= n => m * b <= n * b
    /\ \A m, n, b \in Nat : m < n => m * b + b <= n * b
<1>1. \A m, b \in Nat : m * b \in Nat OBVIOUS
<1>2. \A m, n, b \in Int : (m + n) * b = m * b + n * b OBVIOUS
<1>3. ASSUME NEW m \in Nat, NEW n \in Nat, NEW b \in Nat, m <= n PROVE m * b <= n * b
  <2>1. PICK d \in Nat : n = m + d BY <1>3, n - m \in Nat
  <2>2. n * b = m * b + d * b /\ d * b \in Nat /\ m * b \in Nat BY <1>1, <1>2, <2>1
  <2>3. \A x, y \in Nat : x <= x + y OBVIOUS
  <2>4. QED BY <2>2, <2>3
<1>4. ASSUME NEW m \in Nat, NEW n \in Nat, NEW b \in Nat, m < n PROVE m * b + b <= n * b
  <2>1. m + 1 \in Nat /\ m + 1 <= n BY <1>4
  <2>2. (m + 1) * b <= n * b BY <1>3, <2>1
  <2>3. (m + 1) * b = m * b + 1 * b /\ 1 * b = b BY <1>2
  <2>4. QED BY <2>2, <2>3
<1>5. QED BY <1>1, <1>2, <1>3, <1>4

\* A number is a multiple and a remainder in one way.
LEMMA OneWay ==
    ASSUME NEW b \in Nat, NEW m \in Nat, NEW n \in Nat,
           NEW x \in 0..(b - 1), NEW y \in 0..(b - 1), m * b + x = n * b + y
    PROVE  m = n /\ x = y
<1>1. m * b \in Nat /\ n * b \in Nat BY Product
<1>2. m < n => m * b + b <= n * b BY Product
<1>3. n < m => n * b + b <= m * b BY Product
<1>4. ~ (m < n) BY <1>1, <1>2
<1>5. ~ (n < m) BY <1>1, <1>3
<1>6. m = n BY <1>4, <1>5
<1>7. QED BY <1>1, <1>6

LEMMA Geometry ==
           /\ Bits \in Nat /\ Bits >= 2 /\ Groups \in Nat /\ Groups >= 2
           /\ SuperPages \in Nat /\ Last \in Nat /\ SuperPages = Last + Bits + 2
           /\ WordSupers \in Nat /\ WordSupers > 0
           /\ Border \in Nat /\ Supers \in Nat /\ Border <= Supers
           /\ BootSupers \in Nat /\ BootSupers <= Border
           /\ KernelWords \in Nat /\ Words \in Nat
           /\ LastWord \in Nat /\ LastWord + WordSupers = Supers /\ BootSupers <= LastWord
           /\ LastSuper \in Nat /\ LastSuper = Supers - 1 /\ LastSuper >= 3
           /\ BootSupers < LastSuper /\ BootSupers >= 2
<1>1. Bits \in Nat /\ Groups \in Nat /\ WordSupers \in Nat /\ WordSupers > 0
      /\ KernelWords \in Nat /\ Words \in Nat /\ KernelWords <= Words
  BY MoreCoreAssumption
<1>2. Bits >= 2 /\ Groups >= 2 BY MoreCoreAssumption
<1>3. PICK g \in Nat : Groups = g + 2 BY <1>1, <1>2, Groups - 2 \in Nat
<1>4. SuperPages = g * Bits + 2 * Bits /\ g * Bits \in Nat /\ Groups - 2 = g
  BY <1>1, <1>3, Product DEF SuperPages
<1>5. Last = g * Bits + Bits - 2 BY <1>4 DEF Last
<1>6. SuperPages \in Nat /\ Last \in Nat /\ SuperPages = Last + Bits + 2
  BY <1>1, <1>2, <1>4, <1>5
<1>7. Border \in Nat /\ Supers \in Nat /\ Border <= Supers
  BY <1>1, Product DEF Border, Supers
<1>8. BootSupers \in Nat /\ BootSupers <= Border BY <1>7, MoreCoreAssumption DEF Border
<1>9. BootSupers \in Nat /\ BootSupers >= 2 /\ BootSupers <= WordSupers /\ Words >= 2
  BY <1>1, MoreCoreAssumption
<1>10. LastWord \in Nat /\ LastWord + WordSupers = Supers /\ WordSupers <= LastWord
  <2>1. PICK w \in Nat : Words = w + 2 BY <1>1, <1>9, Words - 2 \in Nat
  <2>2. (w + 2) * WordSupers = w * WordSupers + 2 * WordSupers /\ w * WordSupers \in Nat
        /\ (w + 1) * WordSupers = w * WordSupers + 1 * WordSupers
    BY <1>1, Product
  <2>3. LastWord = w * WordSupers + WordSupers /\ Supers = w * WordSupers + 2 * WordSupers
    BY <1>1, <2>1, <2>2 DEF LastWord, Supers
  <2>4. QED BY <1>1, <2>2, <2>3
<1>11. LastSuper \in Nat /\ LastSuper = Supers - 1 /\ LastSuper >= 3 /\ BootSupers < LastSuper
  BY <1>1, <1>7, <1>9, <1>10 DEF LastSuper
<1>12. QED BY <1>1, <1>2, <1>6, <1>7, <1>8, <1>9, <1>10, <1>11

\* Where the places of a superpage are.
LEMMA Places ==
    ASSUME NEW s \in Nat
    PROVE  /\ s * SuperPages \in Nat
           /\ (s + 1) * SuperPages = s * SuperPages + SuperPages
           /\ LastLooked(s) = s * SuperPages + Last
           /\ \A l \in Int : Place(s, Groups - 1, l) = LastLooked(s) + 2 + l
           /\ \A k \in 0..(Groups - 2), l \in 0..(Bits - 2) :
                 /\ Place(s, k, l) \in (s * SuperPages)..LastLooked(s)
                 /\ Place(s, k, l) \in Looked(s)
           /\ \A k \in Nat, l \in Int : Place(s, k, l) = (s * Groups + k) * Bits + l
           /\ \A k \in Nat, l \in Int : Place(s, k + 1, l) = Place(s, k, l) + Bits
<1>1. Bits \in Nat /\ Bits >= 2 /\ Groups \in Nat /\ Groups >= 2 /\ SuperPages \in Nat
      /\ Last \in Nat
  BY Geometry
<1>2. s * SuperPages \in Nat /\ (s + 1) * SuperPages = s * SuperPages + SuperPages
  BY <1>1, Product
<1>3. (Groups - 2) * Bits \in Nat
  <2>1. Groups - 2 \in Nat BY <1>1
  <2>2. QED BY <1>1, <2>1, Product
<1>4. LastLooked(s) = s * SuperPages + Last BY <1>1, <1>2, <1>3 DEF LastLooked, Place, Last
<1>5. (Groups - 1) * Bits = (Groups - 2) * Bits + Bits
  <2>1. Groups - 2 \in Int /\ Groups - 1 = (Groups - 2) + 1 BY <1>1
  <2>2. ((Groups - 2) + 1) * Bits = (Groups - 2) * Bits + 1 * Bits BY <1>1, <2>1, Product
  <2>3. 1 * Bits = Bits BY <1>1
  <2>4. QED BY <2>1, <2>2, <2>3
<1>6. ASSUME NEW l \in Int PROVE Place(s, Groups - 1, l) = LastLooked(s) + 2 + l
  BY <1>1, <1>2, <1>3, <1>4, <1>5 DEF Place, Last
<1>7. ASSUME NEW k \in 0..(Groups - 2), NEW l \in 0..(Bits - 2)
      PROVE  /\ Place(s, k, l) \in (s * SuperPages)..LastLooked(s)
             /\ Place(s, k, l) \in Looked(s)
  <2>1. Groups - 2 \in Nat /\ k \in Nat /\ k <= Groups - 2 BY <1>1
  <2>2. k * Bits \in Nat /\ k * Bits <= (Groups - 2) * Bits BY <1>1, <2>1, Product
  <2>3. k * Bits + l \in Nat /\ k * Bits + l <= Last BY <1>1, <1>3, <2>2 DEF Last
  <2>4. \A b, x, y \in Nat : x <= y => b + x \in b..(b + y) OBVIOUS
  <2>5. Place(s, k, l) = s * SuperPages + (k * Bits + l) BY <1>2, <2>2 DEF Place
  <2>6. QED BY <1>1, <1>2, <1>4, <2>3, <2>4, <2>5 DEF Looked
<1>8. ASSUME NEW k \in Nat, NEW l \in Int
      PROVE  /\ Place(s, k, l) = (s * Groups + k) * Bits + l
             /\ Place(s, k + 1, l) = Place(s, k, l) + Bits
  <2>1. s * SuperPages = (s * Groups) * Bits /\ s * Groups \in Nat BY <1>1 DEF SuperPages
  <2>2. (s * Groups + k) * Bits = (s * Groups) * Bits + k * Bits BY <1>1, <2>1, Product
  <2>3. (k + 1) * Bits = k * Bits + Bits /\ k * Bits \in Nat
    <3>1. (k + 1) * Bits = k * Bits + 1 * Bits BY <1>1, Product
    <3>2. 1 * Bits = Bits /\ k * Bits \in Nat BY <1>1, Product
    <3>3. QED BY <3>1, <3>2
  <2>4. QED BY <1>1, <1>2, <2>1, <2>2, <2>3 DEF Place
<1>9. QED BY <1>2, <1>4, <1>6, <1>7, <1>8

\* Where a page that is looked at is: not behind the last one of any superpage it
\* is not above, and never a page that takes its neighbour's word.
LEMMA LookedAt ==
    ASSUME NEW s \in Nat, NEW p \in Looked(s)
    PROVE  /\ p \in (s * SuperPages)..LastLooked(s)
           /\ \A t \in Nat : p < (t + 1) * SuperPages => s <= t /\ p <= LastLooked(t)
           /\ \A t \in Nat : p \notin Unseen(t)
<1>1. PICK k \in 0..(Groups - 2), l \in 0..(Bits - 2) : p = Place(s, k, l) BY DEF Looked
<1>2. p \in (s * SuperPages)..LastLooked(s) BY <1>1, Places
<1> USE Geometry
<1>3. s * SuperPages \in Nat /\ LastLooked(s) = s * SuperPages + Last BY Places
<1>4. ASSUME NEW t \in Nat, p < (t + 1) * SuperPages PROVE s <= t /\ p <= LastLooked(t)
  <2>1. t * SuperPages \in Nat /\ (t + 1) * SuperPages = t * SuperPages + SuperPages
        /\ LastLooked(t) = t * SuperPages + Last
    BY Places
  <2>2. t < s => t * SuperPages + SuperPages <= s * SuperPages BY Product
  <2>3. s <= t BY <1>2, <1>3, <1>4, <2>1, <2>2
  <2>4. s * SuperPages <= t * SuperPages BY <2>3, Product
  <2>5. QED BY <1>2, <1>3, <2>1, <2>3, <2>4
<1>5. ASSUME NEW t \in Nat, p \in Unseen(t) PROVE FALSE
  <2>1. CASE \E j \in 0..(Groups - 1) : p = Place(t, j, Bits - 1)
    <3>1. PICK j \in 0..(Groups - 1) : p = Place(t, j, Bits - 1) BY <2>1
    <3>2. k \in Nat /\ l \in 0..(Bits - 1) /\ j \in Nat /\ Bits - 1 \in 0..(Bits - 1)
          /\ l # Bits - 1
      OBVIOUS
    <3>3. (s * Groups + k) * Bits + l = (t * Groups + j) * Bits + (Bits - 1)
      <4>1. Place(s, k, l) = (s * Groups + k) * Bits + l BY <3>2, Places
      <4>2. Place(t, j, Bits - 1) = (t * Groups + j) * Bits + (Bits - 1) BY <3>2, Places
      <4>3. QED BY <1>1, <3>1, <4>1, <4>2
    <3>4. s * Groups + k \in Nat /\ t * Groups + j \in Nat BY <3>2, Product
    <3>5. \A m, n \in Nat, x, y \in 0..(Bits - 1) :
             m * Bits + x = n * Bits + y => x = y
      BY OneWay, SMTT(30)
    <3>6. l = Bits - 1 BY <3>2, <3>3, <3>4, <3>5, Zenon
    <3>7. QED BY <3>2, <3>6
  <2>2. CASE \E j \in 0..(Bits - 1) : p = Place(t, Groups - 1, j)
    <3>1. PICK j \in 0..(Bits - 1) : p = Place(t, Groups - 1, j) BY <2>2
    <3>2. t * SuperPages \in Nat /\ LastLooked(t) = t * SuperPages + Last
          /\ p = LastLooked(t) + 2 + j
      BY <3>1, Places
    <3>3. \A b, x, y \in Nat : /\ 2 + x + y \in Nat
                               /\ (b + x) + 2 + y = b + (2 + x + y)
      OBVIOUS
    <3>4. p = t * SuperPages + (2 + Last + j) BY <3>2, <3>3
    <3>5. 2 + Last + j \in 0..(SuperPages - 1) OBVIOUS
    <3>6. PICK x \in 0..Last : p = s * SuperPages + x
      <4>1. p - s * SuperPages \in 0..Last BY <1>2, <1>3
      <4>2. p = s * SuperPages + (p - s * SuperPages) BY <1>2, <1>3
      <4>3. QED BY <4>1, <4>2
    <3>7. x \in 0..(SuperPages - 1) /\ x # 2 + Last + j OBVIOUS
    <3>8. QED BY <3>4, <3>5, <3>6, <3>7, OneWay, SMTT(30)
  <2>3. QED BY <1>5, <2>1, <2>2 DEF Unseen
<1>6. QED BY <1>2, <1>4, <1>5
-----------------------------------------------------------------------------
(* What the tables say of a superpage.                                        *)
LEMMA FreeGroup ==
    ASSUME Followers, NEW s \in 0..(Supers - 1), NEW k \in 0..(Groups - 2),
           Place(s, k, Bits - 2) \notin page_bitmap
    PROVE  Place(s, k, Bits - 1) \notin page_bitmap
<1> USE Geometry
<1>1. Place(s, k, Bits - 1) = Place(s, k, Bits - 2) + 1 /\ Place(s, k, Bits - 2) \in Int
  <2>1. s * SuperPages \in Nat /\ k * Bits \in Nat BY Product
  <2>2. QED BY <2>1 DEF Place
<1>2. k \in 0..(Groups - 1) OBVIOUS
<1>3. Place(s, k, Bits - 1) \in Unseen(s) BY <1>2 DEF Unseen
<1>4. Place(s, k, Bits - 1) \in page_bitmap => Place(s, k, Bits - 1) - 1 \in page_bitmap
  BY <1>3 DEF Followers
<1>5. Place(s, k, Bits - 1) - 1 = Place(s, k, Bits - 2) BY <1>1
<1>6. QED BY <1>4, <1>5

\* Behind the last page looked at, or behind the next one, the rest of the
\* superpage is free when that page is.
LEMMA FreeEnd ==
    ASSUME Followers, NEW s \in 0..(Supers - 1),
           NEW a \in {LastLooked(s), LastLooked(s) + 1}, a \notin page_bitmap
    PROVE  Free(a, s * SuperPages + SuperPages - 1)
<1> USE Geometry
<1>1. s \in Nat OBVIOUS
<1>2. /\ s * SuperPages \in Nat
      /\ LastLooked(s) = s * SuperPages + Last
      /\ \A l \in Int : Place(s, Groups - 1, l) = LastLooked(s) + 2 + l
  BY <1>1, Places
<1> DEFINE last == LastLooked(s)  b == s * SuperPages + SuperPages - 1
           P == Nat \ page_bitmap
<1>3. last \in Nat /\ a \in {last, last + 1} /\ b \in Nat /\ b = last + Bits + 1
  <2>1. PICK base \in Nat : base = s * SuperPages BY <1>2
  <2>2. last = base + Last /\ b = base + SuperPages - 1 BY <1>2, <2>1
  <2> HIDE DEF last, b
  <2>3. last \in Nat /\ b \in Nat /\ b = last + Bits + 1 BY <2>2
  <2>4. a \in {last, last + 1} BY DEF last
  <2>5. QED BY <2>3, <2>4
<1>4. a \in P BY <1>3
<1>5. ASSUME NEW p \in (a + 1)..b, p - 1 \in P PROVE p \in P
  <2> HIDE DEF last, b
  <2>1. p \in Unseen(s)
    <3>1. CASE p = last + 1
      <4>1. Place(s, Groups - 2, Bits - 1) = Place(s, Groups - 2, Bits - 2) + 1
        <5>1. (Groups - 2) * Bits \in Nat
          <6>1. Groups - 2 \in Nat OBVIOUS
          <6>2. QED BY <6>1, Product
        <5>2. QED BY <1>2, <5>1 DEF Place
      <4>2. p = Place(s, Groups - 2, Bits - 1) BY <3>1, <4>1 DEF LastLooked, last
      <4>3. Groups - 2 \in 0..(Groups - 1) OBVIOUS
      <4>4. QED BY <4>2, <4>3 DEF Unseen
    <3>2. CASE p # last + 1
      <4>1. PICK l \in 0..(Bits - 1) : p = last + 2 + l
        <5>1. p - last - 2 \in 0..(Bits - 1) /\ p = last + 2 + (p - last - 2)
          BY <1>3, <1>5, <3>2
        <5>2. QED BY <5>1
      <4>2. Place(s, Groups - 1, l) = p BY <1>2, <4>1 DEF last
      <4>3. QED BY <4>2 DEF Unseen
    <3>3. QED BY <3>1, <3>2
  <2>2. p \in page_bitmap => p - 1 \in page_bitmap BY <2>1 DEF Followers
  <2>3. p \in Nat BY <1>3, <1>5
  <2>4. QED BY <1>5, <2>2, <2>3
<1> HIDE DEF last, b, P
<1>6. a \in Nat BY <1>3
<1>7. \A p \in a..b : p \in P BY <1>3, <1>4, <1>5, <1>6, Climb
<1>8. QED BY <1>7 DEF b, P, Free

LEMMA Counted ==
    ASSUME Exact, NEW s \in BootSupers..(LastSuper - 1),
           NEW lo \in Int, NEW hi \in Int, Free(lo, hi), lo <= hi,
           lo >= s * SuperPages, hi <= s * SuperPages + SuperPages - 1
    PROVE  /\ superpage_count[s] >= hi - lo + 1
           /\ superpage_count[s] \in Nat
           /\ ~ SuperFull(s)
<1> USE Geometry
<1>1. s * SuperPages \in Nat
  <2>1. s \in Nat OBVIOUS
  <2>2. QED BY <2>1, Product
<1> DEFINE b == s * SuperPages  all == Run(b, SuperPages)
<1>2. all = b..(b + SuperPages - 1) BY DEF Run
<1>3. IsFiniteSet(all)
  <2>1. b \in Int /\ b + SuperPages - 1 \in Int BY <1>1
  <2> HIDE DEF b, all
  <2>2. QED BY <1>2, <2>1, FS_Interval
<1>4. lo..hi \in SUBSET (all \ page_bitmap)
  <2>1. b \in Nat /\ lo >= b /\ hi <= b + SuperPages - 1 BY <1>1
  <2> HIDE DEF b, all
  <2>2. \A p \in lo..hi : p \in b..(b + SuperPages - 1) BY <2>1
  <2>3. lo..hi \subseteq all BY <1>2, <2>2
  <2>4. QED BY <2>3 DEF Free
<1>5. IsFiniteSet(all \ page_bitmap) /\ Cardinality(all \ page_bitmap) \in Nat
  <2>1. all \ page_bitmap \in SUBSET all OBVIOUS
  <2>2. IsFiniteSet(all \ page_bitmap) BY <1>3, <2>1, FS_Subset
  <2>3. QED BY <2>2, FS_CardinalityType
<1>6. Cardinality(lo..hi) = hi - lo + 1 BY FS_Interval
<1>7. Cardinality(lo..hi) <= Cardinality(all \ page_bitmap) BY <1>4, <1>5, FS_Subset
<1>8. /\ superpage_count[s] = Cardinality(all \ page_bitmap)
      /\ SuperFull(s) <=> all \subseteq page_bitmap
  BY DEF Exact
<1>9. lo \in all /\ lo \notin page_bitmap
  <2>1. lo \in lo..hi OBVIOUS
  <2>2. QED BY <1>4, <2>1
<1> HIDE DEF all
<1>10. QED BY <1>5, <1>6, <1>7, <1>8, <1>9

LEMMA Room ==
    ASSUME Exact, Followers, NEW s \in BootSupers..(LastSuper - 1)
    PROVE  /\ LastLooked(s) \notin page_bitmap
                 => /\ superpage_count[s] \in Nat /\ superpage_count[s] >= Bits + 2
                    /\ ~ SuperFull(s)
           /\ Untouched(s) => /\ superpage_count[s] \in Nat
                              /\ superpage_count[s] >= SuperPages
                              /\ ~ SuperFull(s)
<1> USE Geometry
<1>1. s \in Nat /\ s \in 0..(Supers - 1) OBVIOUS
<1>2. s * SuperPages \in Nat /\ LastLooked(s) = s * SuperPages + Last BY <1>1, Places
<1>3. ASSUME LastLooked(s) \notin page_bitmap
      PROVE  /\ superpage_count[s] \in Nat /\ superpage_count[s] >= Bits + 2
             /\ ~ SuperFull(s)
  <2>1. Free(LastLooked(s), s * SuperPages + SuperPages - 1) BY <1>1, <1>3, FreeEnd
  <2> DEFINE lo == LastLooked(s)  hi == s * SuperPages + SuperPages - 1
  <2>2. /\ lo \in Int /\ hi \in Int /\ lo <= hi /\ lo >= s * SuperPages
        /\ hi <= s * SuperPages + SuperPages - 1 /\ hi - lo + 1 = Bits + 2
    <3>1. PICK base \in Nat : base = s * SuperPages BY <1>2
    <3>2. lo = base + Last /\ hi = base + SuperPages - 1 BY <1>2, <3>1
    <3> HIDE DEF lo, hi
    <3>3. QED BY <3>1, <3>2
  <2> HIDE DEF lo, hi
  <2>3. Free(lo, hi) BY <2>1 DEF lo, hi
  <2>4. superpage_count[s] >= hi - lo + 1 /\ superpage_count[s] \in Nat
        /\ ~ SuperFull(s)
    BY <2>2, <2>3, Counted
  <2>5. QED BY <2>2, <2>4
<1>4. ASSUME Untouched(s)
      PROVE  /\ superpage_count[s] \in Nat /\ superpage_count[s] >= SuperPages
             /\ ~ SuperFull(s)
  <2> DEFINE lo == s * SuperPages  hi == s * SuperPages + SuperPages - 1
  <2>1. /\ lo \in Int /\ hi \in Int /\ lo <= hi /\ lo >= s * SuperPages
        /\ hi <= s * SuperPages + SuperPages - 1 /\ hi - lo + 1 = SuperPages
    <3>1. PICK base \in Nat : base = s * SuperPages BY <1>2
    <3>2. lo = base /\ hi = base + SuperPages - 1 BY <3>1
    <3>3. SuperPages \in Nat /\ SuperPages >= 1 OBVIOUS
    <3> HIDE DEF lo, hi
    <3>4. /\ lo \in Int /\ hi \in Int /\ lo <= hi /\ lo >= base
          /\ hi <= base + SuperPages - 1 /\ hi - lo + 1 = SuperPages
      BY <3>2, <3>3
    <3>5. QED BY <3>1, <3>4
  <2>2. Free(lo, hi) BY <1>4 DEF Untouched
  <2> HIDE DEF lo, hi
  <2>3. superpage_count[s] >= hi - lo + 1 /\ superpage_count[s] \in Nat
        /\ ~ SuperFull(s)
    BY <2>1, <2>2, Counted
  <2>4. QED BY <2>1, <2>3
<1>5. QED BY <1>3, <1>4
-----------------------------------------------------------------------------
(* The search through a superpage, for runs that start in A.                  *)
Scans == [start : Int, size : Nat]

\* What a scan of superpage s that has come to page pos carries: nothing, when a
\* run may start in s, or a run that is free up to pos.
Carries(x, A, s, pos) ==
    /\ x \in Scans
    /\ Looked(s) \subseteq A \/ Untouched(s)
    /\ x.size = 0 => Looked(s) \subseteq A
    /\ x.size > 0 => x.start \in A /\ x.start + x.size <= pos /\ Free(x.start, pos - 1)

LEMMA Scanned ==
    ASSUME NEW x \in Scans, NEW p \in Int, NEW by \in Nat
    PROVE  /\ x.start \in Int /\ x.size \in Nat
           /\ Longer(x, p, by) \in Scans /\ Broken(x) \in Scans
           /\ Broken(x).size = 0
           /\ Longer(x, p, by).size = x.size + by
           /\ x.size = 0 => Longer(x, p, by).start = p
           /\ x.size > 0 => Longer(x, p, by).start = x.start
<1>1. x.start \in Int /\ x.size \in Nat BY DEF Scans
<1>2. x.size + by \in Nat BY <1>1
<1>3. Longer(x, p, by) = [start |-> IF x.size = 0 THEN p ELSE x.start,
                          size |-> x.size + by]
  BY DEF Longer
<1>4. Longer(x, p, by) \in Scans BY <1>1, <1>2, <1>3 DEF Scans
<1>5. Broken(x) \in Scans /\ Broken(x).size = 0 BY DEF Broken, Scans
<1>6. QED BY <1>1, <1>3, <1>4, <1>5

\* Pages that are all free make the run longer, a marked page ends it.
LEMMA Lengthens ==
    ASSUME NEW A, NEW s \in Nat, NEW pos \in Int, NEW by \in Nat, by > 0, NEW x,
           Carries(x, A, s, pos), pos \in Looked(s),
           Free(pos, pos + by - 1)
    PROVE  /\ Carries(Longer(x, pos, by), A, s, pos + by)
           /\ Longer(x, pos, by).size > 0
<1>1. x \in Scans BY DEF Carries
<1> DEFINE y == Longer(x, pos, by)
<1>2. /\ x.start \in Int /\ x.size \in Nat /\ y \in Scans /\ y.size = x.size + by
      /\ x.size = 0 => y.start = pos
      /\ x.size > 0 => y.start = x.start
  BY <1>1, Scanned
<1> HIDE DEF y
<1>3. y.size > 0 BY <1>2
<1>4. y.start \in A /\ y.start + y.size <= pos + by /\ Free(y.start, pos + by - 1)
  <2>1. CASE x.size = 0
    <3>1. y.start = pos /\ y.size = by /\ pos \in A BY <1>2, <2>1 DEF Carries
    <3>2. QED BY <3>1
  <2>2. CASE x.size > 0
    <3>1. x.start \in A /\ x.start + x.size <= pos /\ Free(x.start, pos - 1)
      BY <2>2 DEF Carries
    <3>2. \A p \in (x.start)..(pos + by - 1) : \/ p \in (x.start)..(pos - 1)
                                               \/ p \in pos..(pos + by - 1)
      BY <1>2
    <3>3. Free(x.start, pos + by - 1) BY <3>1, <3>2 DEF Free
    <3>4. QED BY <1>2, <2>2, <3>1, <3>3
  <2>3. QED BY <1>2, <2>1, <2>2
<1>5. QED BY <1>2, <1>3, <1>4 DEF Carries, y

LEMMA Breaks ==
    ASSUME NEW A, NEW s \in Nat, NEW pos, NEW at, NEW p \in page_bitmap, NEW x,
           Carries(x, A, s, pos), p \in (s * SuperPages)..(s * SuperPages + SuperPages - 1)
    PROVE  Carries(Broken(x), A, s, at) /\ Broken(x).size = 0
<1>1. x \in Scans BY DEF Carries
<1>2. Broken(x) \in Scans /\ Broken(x).size = 0
  <2>1. 0 \in Int /\ 0 \in Nat OBVIOUS
  <2>2. QED BY <1>1, <2>1, Scanned
<1>3. ~ Untouched(s) BY DEF Untouched, Free
<1>4. Looked(s) \subseteq A BY <1>3 DEF Carries
<1>5. ~ (Broken(x).size > 0) BY <1>2
<1>6. QED BY <1>2, <1>4, <1>5 DEF Carries

LEMMA LookedRange ==
    ASSUME NEW s \in Nat, NEW p \in Looked(s)
    PROVE  p \in Int /\ p \in (s * SuperPages)..(s * SuperPages + SuperPages - 1)
<1> USE Geometry
<1>1. p \in (s * SuperPages)..LastLooked(s) BY LookedAt
<1>2. s * SuperPages \in Nat /\ LastLooked(s) = s * SuperPages + Last BY Places
<1>3. PICK base \in Nat : base = s * SuperPages BY <1>2
<1>4. p \in base..(base + Last) BY <1>1, <1>2, <1>3
<1>5. p \in Int /\ p \in base..(base + SuperPages - 1) BY <1>4
<1>6. QED BY <1>3, <1>5

LEMMA PageStep ==
    ASSUME NEW A, NEW s \in Nat, NEW p \in Looked(s), NEW x,
           Carries(x, A, s, p)
    PROVE  /\ Carries(ScanPage(x, p), A, s, p + 1)
           /\ p \notin page_bitmap => ScanPage(x, p).size > 0
<1>1. p \in Int /\ p \in (s * SuperPages)..(s * SuperPages + SuperPages - 1)
  BY LookedRange
<1>2. CASE p \in page_bitmap
  <2>1. Carries(Broken(x), A, s, p + 1) BY <1>1, <1>2, Breaks
  <2>2. QED BY <1>2, <2>1 DEF ScanPage
<1>3. CASE p \notin page_bitmap
  <2>1. \A q \in p..(p + 1 - 1) : q = p BY <1>1
  <2>2. Free(p, p + 1 - 1) BY <1>3, <2>1 DEF Free
  <2>3. 1 \in Nat /\ 1 > 0 OBVIOUS
  <2>4. Carries(Longer(x, p, 1), A, s, p + 1) /\ Longer(x, p, 1).size > 0
    BY <1>1, <2>2, <2>3, Lengthens
  <2>5. QED BY <1>3, <2>4 DEF ScanPage
<1>4. QED BY <1>2, <1>3

LEMMA ScanPageType ==
    ASSUME NEW x \in Scans, NEW p \in Int PROVE ScanPage(x, p) \in Scans
<1>1. 1 \in Nat OBVIOUS
<1>2. QED BY <1>1, Scanned DEF ScanPage

\* The scans after each page of a group.
MixedScans(f, x, first) ==
    /\ f \in [0..(Bits - 1) -> Scans]
    /\ f = [l \in 0..(Bits - 1) |->
               IF l = 0 THEN x ELSE ScanPage(f[l - 1], first + l - 1)]
    /\ ScanMixed(x, first) = f[Bits - 1]

LEMMA MixedFunction ==
    ASSUME NEW x \in Scans, NEW first \in Int
    PROVE  \E f : MixedScans(f, x, first)
<1> USE Geometry
<1> DEFINE after == CHOOSE f : f = [l \in 0..(Bits - 1) |->
                         IF l = 0 THEN x ELSE ScanPage(f[l - 1], first + l - 1)]
           step == [z \in Scans \X (1..(Bits - 1)) |-> ScanPage(z[1], first + z[2] - 1)]
<1>1. ScanMixed(x, first) = after[Bits - 1] BY DEF ScanMixed
<1>2. ASSUME NEW y \in Scans, NEW k \in (0 + 1)..(Bits - 1)
      PROVE  step[<<y, k>>] = ScanPage(y, first + k - 1) /\ step[<<y, k>>] \in Scans
  <2>1. <<y, k>> \in Scans \X (1..(Bits - 1)) /\ first + k - 1 \in Int OBVIOUS
  <2>2. step[<<y, k>>] = ScanPage(y, first + k - 1) BY <2>1
  <2>3. QED BY <2>1, <2>2, ScanPageType
<1> HIDE DEF step
<1>3. PICK f :
         /\ f \in [0..(Bits - 1) -> Scans]
         /\ \A k \in 0..(Bits - 1) : f[k] = IF k = 0 THEN x ELSE step[<<f[k - 1], k>>]
  <2>1. 0 \in Nat /\ Bits - 1 \in Nat /\ 0 <= Bits - 1 OBVIOUS
  <2>2. Stepping(0, Bits - 1, Scans, step) BY <1>2, Zenon DEF Stepping
  <2>3. \E f : Solves(f, 0, Bits - 1, Scans, x, step) BY <2>1, <2>2, Iteration
  <2>4. QED BY <2>3 DEF Solves
<1>4. f = [l \in 0..(Bits - 1) |->
              IF l = 0 THEN x ELSE ScanPage(f[l - 1], first + l - 1)]
  <2>1. ASSUME NEW k \in 0..(Bits - 1), k # 0
        PROVE  step[<<f[k - 1], k>>] = ScanPage(f[k - 1], first + k - 1)
    <3>1. k - 1 \in 0..(Bits - 1) /\ k \in (0 + 1)..(Bits - 1) BY <2>1
    <3>2. f[k - 1] \in Scans BY <1>3, <3>1
    <3>3. QED BY <1>2, <3>1, <3>2
  <2>2. QED BY <1>3, <2>1
<1>5. after = [l \in 0..(Bits - 1) |->
              IF l = 0 THEN x ELSE ScanPage(after[l - 1], first + l - 1)]
  BY <1>4
<1> HIDE DEF after
<1>6. after \in [0..(Bits - 1) -> Scans]
  <2> DEFINE P == {l \in 0..(Bits - 1) : after[l] \in Scans}
  <2>1. 0 \in P BY <1>5
  <2>2. ASSUME NEW l \in (0 + 1)..(Bits - 1), l - 1 \in P PROVE l \in P
    <3>1. l \in 0..(Bits - 1) /\ l # 0 /\ first + l - 1 \in Int BY <2>2
    <3>2. after[l] = ScanPage(after[l - 1], first + l - 1) BY <1>5, <3>1
    <3>3. after[l] \in Scans BY <2>2, <3>1, <3>2, ScanPageType
    <3>4. QED BY <3>1, <3>3
  <2> HIDE DEF P
  <2>3. 0 \in Nat /\ Bits - 1 \in Nat OBVIOUS
  <2>4. \A l \in 0..(Bits - 1) : l \in P BY <2>1, <2>2, <2>3, Climb
  <2>5. \A l \in 0..(Bits - 1) : after[l] \in Scans BY <2>4 DEF P
  <2>6. QED BY <1>5, <2>5
<1>7. QED BY <1>1, <1>5, <1>6 DEF MixedScans

LEMMA MixedScan ==
    ASSUME NEW A, NEW s \in Nat, NEW k \in 0..(Groups - 2), NEW x,
           Carries(x, A, s, Place(s, k, 0))
    PROVE  /\ Carries(ScanMixed(x, Place(s, k, 0)), A, s, Place(s, k, Bits - 1))
           /\ Place(s, k, Bits - 2) \notin page_bitmap
                 => ScanMixed(x, Place(s, k, 0)).size > 0
<1> USE Geometry
<1> DEFINE first == Place(s, k, 0)
<1>1. first \in Int
  <2>1. s * SuperPages \in Nat /\ k * Bits \in Nat BY Product
  <2>2. QED BY <2>1 DEF Place
<1> DEFINE Offsets == \A l \in Int : Place(s, k, l) = first + l
<1>2. Offsets
  <2>1. s * SuperPages \in Nat /\ k * Bits \in Nat BY Product
  <2>2. QED BY <2>1 DEF Place
<1>3. \A l \in 0..(Bits - 2) : first + l \in Looked(s) BY <1>2 DEF Looked
<1> HIDE DEF Offsets
<1>4. x \in Scans /\ Carries(x, A, s, first) BY DEF Carries
<1> HIDE DEF first
<1>5. PICK f : MixedScans(f, x, first) BY <1>1, <1>4, MixedFunction
<1> DEFINE P == {l \in 0..(Bits - 1) :
                    /\ Carries(f[l], A, s, first + l)
                    /\ l > 0 /\ first + l - 1 \notin page_bitmap => f[l].size > 0}
<1>6. 0 \in P
  <2>1. 0 \in 0..(Bits - 1) /\ first + 0 = first BY <1>1
  <2>2. f[0] = x BY <1>5, <2>1 DEF MixedScans
  <2>3. QED BY <1>4, <2>1, <2>2
<1>7. ASSUME NEW l \in (0 + 1)..(Bits - 1), l - 1 \in P PROVE l \in P
  <2>1. l \in 0..(Bits - 1) /\ l # 0 /\ l - 1 \in 0..(Bits - 2)
        /\ first + l - 1 = first + (l - 1) /\ (first + (l - 1)) + 1 = first + l
    BY <1>1
  <2>2. f[l] = ScanPage(f[l - 1], first + (l - 1))
    BY <1>5, <2>1 DEF MixedScans
  <2>3. first + (l - 1) \in Looked(s) /\ Carries(f[l - 1], A, s, first + (l - 1))
    BY <1>3, <1>7, <2>1
  <2>4. /\ Carries(f[l], A, s, (first + (l - 1)) + 1)
        /\ first + (l - 1) \notin page_bitmap => f[l].size > 0
    BY <2>2, <2>3, PageStep
  <2>5. QED BY <2>1, <2>4
<1> HIDE DEF P
<1>8. 0 \in Nat /\ Bits - 1 \in Nat OBVIOUS
<1>9. \A l \in 0..(Bits - 1) : l \in P BY <1>6, <1>7, <1>8, Climb
<1>10. Bits - 1 \in P BY <1>8, <1>9
<1>11. /\ Carries(f[Bits - 1], A, s, first + (Bits - 1))
       /\ first + (Bits - 1) - 1 \notin page_bitmap => f[Bits - 1].size > 0
  BY <1>10 DEF P
<1>12. /\ Place(s, k, Bits - 1) = first + (Bits - 1)
       /\ Place(s, k, Bits - 2) = first + (Bits - 1) - 1
  <2>1. Bits - 1 \in Int /\ Bits - 2 \in Int /\ first + (Bits - 2) = first + (Bits - 1) - 1
    BY <1>1
  <2>2. QED BY <1>2, <2>1 DEF Offsets
<1>13. ScanMixed(x, first) = f[Bits - 1] BY <1>5 DEF MixedScans
<1>14. QED BY <1>11, <1>12, <1>13 DEF first

LEMMA GroupScan ==
    ASSUME Followers, NEW A, NEW s \in 0..(Supers - 1),
           NEW k \in 0..(Groups - 2), NEW x, Carries(x, A, s, Place(s, k, 0))
    PROVE  /\ Carries(ScanGroup(x, s * Groups + k), A, s, Place(s, k + 1, 0))
           /\ Place(s, k, Bits - 2) \notin page_bitmap
                 => ScanGroup(x, s * Groups + k).size > 0
<1> USE Geometry
<1> DEFINE first == Place(s, k, 0)
           y == ScanGroup(x, s * Groups + k)
<1>0. s \in Nat OBVIOUS
<1>1. first \in Int
  <2>1. s * SuperPages \in Nat /\ k * Bits \in Nat BY Product
  <2>2. QED BY <2>1 DEF Place
<1> DEFINE Offsets == \A l \in Int : Place(s, k, l) = first + l
<1>2. Offsets
  <2>1. s * SuperPages \in Nat /\ k * Bits \in Nat BY Product
  <2>2. QED BY <2>1 DEF Place
<1>3. \A l \in 0..(Bits - 2) : first + l \in Looked(s) BY <1>2 DEF Looked
<1> HIDE DEF Offsets
<1>4. Place(s, k + 1, 0) = first + Bits
  <2>1. k \in Nat /\ 0 \in Int OBVIOUS
  <2>2. QED BY <1>0, <2>1, Places
<1>5. (s * Groups + k) * Bits = first
  <2>1. k \in Nat /\ 0 \in Int OBVIOUS
  <2>2. first = (s * Groups + k) * Bits + 0 BY <1>0, <2>1, Places
  <2>3. s * Groups + k \in Nat /\ (s * Groups + k) * Bits \in Nat BY <2>1, Product
  <2>4. QED BY <2>2, <2>3
<1>6. Place(s, k, Bits - 2) = first + (Bits - 2) /\ Place(s, k, Bits - 1) = first + (Bits - 1)
  <2>1. Bits - 1 \in Int /\ Bits - 2 \in Int OBVIOUS
  <2>2. QED BY <1>2, <2>1 DEF Offsets
<1>7. first \in Looked(s) /\ first + (Bits - 2) \in Looked(s)
  <2>1. 0 \in 0..(Bits - 2) /\ Bits - 2 \in 0..(Bits - 2) /\ first + 0 = first BY <1>1
  <2>2. QED BY <1>3, <2>1
<1> DEFINE pages == Run(first, Bits)
<1>8. y = IF pages \cap page_bitmap = {} THEN Longer(x, first, Bits)
          ELSE IF pages \subseteq page_bitmap THEN Broken(x)
          ELSE ScanMixed(x, first)
  BY <1>5 DEF ScanGroup
<1>9. pages = first..(first + Bits - 1) BY DEF Run
<1>10. first + (Bits - 2) \in pages
  <2> HIDE DEF first, pages
  <2>1. first + (Bits - 2) \in first..(first + Bits - 1) BY <1>1
  <2>2. QED BY <1>9, <2>1
<1>11. Carries(x, A, s, first) OBVIOUS
<1>12. CASE pages \cap page_bitmap = {}
  <2>1. Free(first, first + Bits - 1) BY <1>9, <1>12 DEF Free
  <2>2. Bits \in Nat /\ Bits > 0 OBVIOUS
  <2> HIDE DEF first, pages, y
  <2>3. Carries(Longer(x, first, Bits), A, s, first + Bits)
        /\ Longer(x, first, Bits).size > 0
    BY <1>0, <1>1, <1>7, <1>11, <2>1, <2>2, Lengthens
  <2>4. y = Longer(x, first, Bits) BY <1>8, <1>12
  <2>5. QED BY <1>4, <2>3, <2>4 DEF y
<1>13. CASE pages \cap page_bitmap # {} /\ pages \subseteq page_bitmap
  <2> HIDE DEF first, pages, y
  <2>1. y = Broken(x) BY <1>8, <1>13
  <2>2. first + (Bits - 2) \in page_bitmap BY <1>10, <1>13
  <2>3. first + (Bits - 2) \in (s * SuperPages)..(s * SuperPages + SuperPages - 1)
    BY <1>0, <1>7, LookedRange
  <2>4. Carries(Broken(x), A, s, first + Bits) BY <1>0, <1>11, <2>2, <2>3, Breaks
  <2>5. QED BY <1>4, <1>6, <2>1, <2>2, <2>4 DEF y
<1>14. CASE pages \cap page_bitmap # {} /\ ~ (pages \subseteq page_bitmap)
  <2> HIDE DEF pages, y
  <2>1. y = ScanMixed(x, first) BY <1>8, <1>14
  <2>2. Carries(y, A, s, Place(s, k, Bits - 1))
        /\ (Place(s, k, Bits - 2) \notin page_bitmap => y.size > 0)
    BY <1>0, <2>1, MixedScan
  <2> HIDE DEF first
  <2>3. Carries(y, A, s, first + (Bits - 1)) BY <1>6, <2>2
  <2>4. y \in Scans /\ (y.size = 0 => Looked(s) \subseteq A)
        /\ (Looked(s) \subseteq A \/ Untouched(s))
    BY <2>3 DEF Carries
  <2>5. ASSUME y.size > 0
        PROVE  y.start \in A /\ y.start + y.size <= first + Bits
               /\ Free(y.start, (first + Bits) - 1)
    <3>1. y.start \in A /\ y.start + y.size <= first + (Bits - 1)
          /\ Free(y.start, (first + (Bits - 1)) - 1)
      BY <2>3, <2>5, Zenon DEF Carries
    <3>2. y.start \in Int /\ y.size \in Nat BY <2>4 DEF Scans
    <3>3. first + (Bits - 2) \in (y.start)..((first + (Bits - 1)) - 1)
      BY <1>1, <2>5, <3>1, <3>2
    <3>4. Place(s, k, Bits - 2) \notin page_bitmap BY <1>6, <3>1, <3>3 DEF Free
    <3>5. first + (Bits - 1) \notin page_bitmap BY <1>6, <3>4, FreeGroup
    <3>6. \A p \in (y.start)..((first + Bits) - 1) :
             p \in (y.start)..((first + (Bits - 1)) - 1) \/ p = first + (Bits - 1)
      BY <1>1, <3>2
    <3>7. Free(y.start, (first + Bits) - 1) BY <3>1, <3>5, <3>6 DEF Free
    <3>8. y.start + y.size <= first + Bits BY <1>1, <3>1, <3>2
    <3>9. QED BY <3>1, <3>7, <3>8
  <2>6. Carries(y, A, s, first + Bits) BY <2>4, <2>5, Zenon DEF Carries
  <2>7. QED BY <1>4, <2>2, <2>6 DEF y
<1> HIDE DEF first, pages, y
<1>15. QED BY <1>12, <1>13, <1>14 DEF y

LEMMA ScanGroupType ==
    ASSUME NEW x \in Scans, NEW g \in Nat PROVE ScanGroup(x, g) \in Scans
<1> USE Geometry
<1>1. g * Bits \in Int /\ Bits \in Nat BY Product
<1>2. Longer(x, g * Bits, Bits) \in Scans /\ Broken(x) \in Scans BY <1>1, Scanned
<1>3. ScanMixed(x, g * Bits) \in Scans
  <2>1. PICK f : MixedScans(f, x, g * Bits) BY <1>1, MixedFunction
  <2>2. Bits - 1 \in 0..(Bits - 1) OBVIOUS
  <2>3. QED BY <2>1, <2>2 DEF MixedScans
<1>4. QED BY <1>2, <1>3 DEF ScanGroup

\* The scans after each group of a superpage.
SuperScans(f, x, s, n) ==
    /\ f \in [0..(Groups - 1) -> Scans]
    /\ f = [k \in 0..(Groups - 1) |->
               IF k = 0 THEN x ELSE GroupUnlessFound(f[k - 1], s * Groups + k - 1, n)]
    /\ ScanSuper(x, s, n) = f[Groups - 1]

LEMMA SuperFunction ==
    ASSUME NEW x \in Scans, NEW s \in Nat, NEW n
    PROVE  \E f : SuperScans(f, x, s, n)
<1> USE Geometry
<1> DEFINE after == CHOOSE f : f = [k \in 0..(Groups - 1) |->
                         IF k = 0 THEN x
                         ELSE GroupUnlessFound(f[k - 1], s * Groups + k - 1, n)]
           one(y, k) == GroupUnlessFound(y, s * Groups + k - 1, n)
           step == [z \in Scans \X (1..(Groups - 1)) |-> one(z[1], z[2])]
<1>1. ScanSuper(x, s, n) = after[Groups - 1] BY DEF ScanSuper
<1>2. ASSUME NEW y \in Scans, NEW k \in (0 + 1)..(Groups - 1)
      PROVE  step[<<y, k>>] = one(y, k) /\ one(y, k) \in Scans
  <2>1. <<y, k>> \in Scans \X (1..(Groups - 1)) OBVIOUS
  <2>2. step[<<y, k>>] = one(y, k) BY <2>1
  <2>3. s * Groups + k - 1 \in Nat
    <3>1. s * Groups \in Nat BY Product
    <3>2. QED BY <3>1
  <2>4. ScanGroup(y, s * Groups + k - 1) \in Scans BY <2>3, ScanGroupType
  <2> HIDE DEF step
  <2>5. one(y, k) \in Scans BY <2>4 DEF GroupUnlessFound
  <2>6. QED BY <2>2, <2>5
<1> HIDE DEF step
<1>3. PICK f :
         /\ f \in [0..(Groups - 1) -> Scans]
         /\ \A k \in 0..(Groups - 1) : f[k] = IF k = 0 THEN x ELSE step[<<f[k - 1], k>>]
  <2>1. 0 \in Nat /\ Groups - 1 \in Nat /\ 0 <= Groups - 1 OBVIOUS
  <2>2. \A y \in Scans, k \in (0 + 1)..(Groups - 1) : step[<<y, k>>] \in Scans
    BY <1>2, Zenon
  <2>3. Stepping(0, Groups - 1, Scans, step) BY <2>2, Zenon DEF Stepping
  <2>4. \E f : Solves(f, 0, Groups - 1, Scans, x, step) BY <2>1, <2>3, Iteration
  <2>5. QED BY <2>4 DEF Solves
<1>4. f = [k \in 0..(Groups - 1) |-> IF k = 0 THEN x ELSE one(f[k - 1], k)]
  <2>1. ASSUME NEW k \in 0..(Groups - 1), k # 0
        PROVE  step[<<f[k - 1], k>>] = one(f[k - 1], k)
    <3>1. k - 1 \in 0..(Groups - 1) /\ k \in (0 + 1)..(Groups - 1) BY <2>1
    <3>2. f \in [0..(Groups - 1) -> Scans] BY <1>3, Zenon
    <3>3. f[k - 1] \in Scans BY <3>1, <3>2, Zenon
    <3> HIDE DEF one
    <3>4. QED BY <1>2, <3>1, <3>3
  <2> HIDE DEF one
  <2>2. QED BY <1>3, <2>1
<1>5. after = [k \in 0..(Groups - 1) |-> IF k = 0 THEN x ELSE one(after[k - 1], k)]
  BY <1>4
<1> HIDE DEF after
<1>6. after \in [0..(Groups - 1) -> Scans]
  <2> DEFINE P == {k \in 0..(Groups - 1) : after[k] \in Scans}
  <2>1. 0 \in P BY <1>5
  <2>2. ASSUME NEW k \in (0 + 1)..(Groups - 1), k - 1 \in P PROVE k \in P
    <3>1. k \in 0..(Groups - 1) /\ k # 0 BY <2>2
    <3> HIDE DEF one
    <3>2. after[k] = one(after[k - 1], k) BY <1>5, <3>1
    <3>3. one(after[k - 1], k) \in Scans BY <1>2, <2>2
    <3>4. QED BY <3>1, <3>2, <3>3
  <2> HIDE DEF P
  <2>3. 0 \in Nat /\ Groups - 1 \in Nat OBVIOUS
  <2>4. \A k \in 0..(Groups - 1) : k \in P BY <2>1, <2>2, <2>3, Climb
  <2>5. \A k \in 0..(Groups - 1) : after[k] \in Scans BY <2>4 DEF P
  <2>6. QED BY <1>5, <2>5
<1>7. QED BY <1>1, <1>5, <1>6 DEF SuperScans

\* What a scan that has come to page pos has for a request of n pages: a run, or
\* what it carries on.
Reaches(x, A, s, pos, n) ==
    /\ x \in Scans
    /\ IF x.size >= n
       THEN x.start \in A /\ x.start + n <= pos /\ Free(x.start, x.start + n - 1)
       ELSE Carries(x, A, s, pos)

LEMMA Reached ==
    ASSUME NEW A, NEW s, NEW pos \in Int, NEW n \in Nat, n > 0, NEW x,
           Carries(x, A, s, pos)
    PROVE  Reaches(x, A, s, pos, n)
<1>1. x \in Scans /\ x.start \in Int /\ x.size \in Nat BY DEF Carries, Scans
<1>2. ASSUME x.size >= n
      PROVE  x.start \in A /\ x.start + n <= pos /\ Free(x.start, x.start + n - 1)
  <2>1. x.size > 0 BY <1>1, <1>2
  <2>2. x.start \in A /\ x.start + x.size <= pos /\ Free(x.start, pos - 1)
    BY <2>1 DEF Carries
  <2>3. x.start + n <= pos BY <1>1, <1>2, <2>2
  <2>4. \A p \in (x.start)..(x.start + n - 1) : p \in (x.start)..(pos - 1) BY <1>1, <2>3
  <2>5. Free(x.start, x.start + n - 1) BY <2>2, <2>4 DEF Free
  <2>6. QED BY <2>2, <2>3, <2>5
<1>3. QED BY <1>1, <1>2 DEF Reaches

LEMMA SuperScan ==
    ASSUME Followers, NEW A, NEW s \in 0..(Supers - 1),
           NEW n \in Nat, n > 0, NEW x, Carries(x, A, s, s * SuperPages)
    PROVE  /\ Reaches(ScanSuper(x, s, n), A, s, s * SuperPages + SuperPages, n)
           /\ LastLooked(s) \notin page_bitmap => ScanSuper(x, s, n).size > 0
<1> USE Geometry
<1>1. s \in Nat /\ x \in Scans BY DEF Carries
<1>2. /\ s * SuperPages \in Nat /\ LastLooked(s) = s * SuperPages + Last
      /\ \A k \in Nat : Place(s, k + 1, 0) = Place(s, k, 0) + Bits
      /\ Place(s, 0, 0) = s * SuperPages
      /\ \A k \in Nat : Place(s, k, 0) \in Nat
  <2>1. /\ s * SuperPages \in Nat /\ LastLooked(s) = s * SuperPages + Last
        /\ \A k \in Nat, l \in Int : Place(s, k + 1, l) = Place(s, k, l) + Bits
    BY <1>1, Places
  <2>3. 0 * Bits = 0 OBVIOUS
  <2>4. 0 \in Int OBVIOUS
  <2>5. ASSUME NEW k \in Nat PROVE Place(s, k, 0) \in Nat
    <3>1. k * Bits \in Nat /\ s * SuperPages \in Nat BY <2>1, Product
    <3>2. QED BY <3>1 DEF Place
  <2>6. Place(s, 0, 0) = s * SuperPages BY <2>1, <2>3 DEF Place
  <2>7. QED BY <2>1, <2>4, <2>5, <2>6
<1>3. PICK f : SuperScans(f, x, s, n) BY <1>1, SuperFunction
<1> DEFINE P == {k \in 0..(Groups - 1) :
                    /\ Reaches(f[k], A, s, Place(s, k, 0), n)
                    /\ k > 0 /\ Place(s, k - 1, Bits - 2) \notin page_bitmap
                          => f[k].size > 0}
<1>4. 0 \in P
  <2>1. 0 \in 0..(Groups - 1) OBVIOUS
  <2>2. f[0] = x BY <1>3, <2>1 DEF SuperScans
  <2>3. Reaches(x, A, s, s * SuperPages, n) BY <1>2, Reached
  <2>4. QED BY <1>2, <2>1, <2>2, <2>3
<1>5. ASSUME NEW k \in (0 + 1)..(Groups - 1), k - 1 \in P PROVE k \in P
  <2>1. k \in 0..(Groups - 1) /\ k # 0 /\ k - 1 \in 0..(Groups - 2) /\ k - 1 \in Nat
        /\ (k - 1) + 1 = k /\ s * Groups + k - 1 = s * Groups + (k - 1)
    OBVIOUS
  <2>2. Place(s, k, 0) = Place(s, k - 1, 0) + Bits /\ Place(s, k - 1, 0) \in Nat
        /\ Place(s, k, 0) \in Nat
    BY <1>2, <2>1
  <2>3. f[k - 1] \in Scans /\ f[k - 1].size \in Nat /\ f[k - 1].start \in Int
    <3>1. k - 1 \in 0..(Groups - 1) BY <2>1
    <3>2. f[k - 1] \in Scans BY <1>3, <3>1 DEF SuperScans
    <3>3. QED BY <3>2 DEF Scans
  <2>4. Reaches(f[k - 1], A, s, Place(s, k - 1, 0), n) BY <1>5
  <2>5. CASE f[k - 1].size >= n
    <3>1. f[k] = f[k - 1] BY <1>3, <2>1, <2>5 DEF SuperScans, GroupUnlessFound
    <3>2. Reaches(f[k - 1], A, s, Place(s, k, 0), n)
      <4>1. f[k - 1].start \in A /\ f[k - 1].start + n <= Place(s, k - 1, 0)
            /\ Free(f[k - 1].start, f[k - 1].start + n - 1)
        BY <2>4, <2>5 DEF Reaches
      <4>2. f[k - 1].start + n <= Place(s, k, 0) BY <2>2, <2>3, <4>1
      <4>3. QED BY <2>3, <2>5, <4>1, <4>2 DEF Reaches
    <3>3. f[k].size > 0 BY <2>3, <2>5, <3>1
    <3>4. QED BY <2>1, <3>1, <3>2, <3>3
  <2>6. CASE ~ (f[k - 1].size >= n)
    <3>1. f[k] = ScanGroup(f[k - 1], s * Groups + (k - 1))
      BY <1>3, <2>1, <2>6 DEF SuperScans, GroupUnlessFound
    <3>2. Carries(f[k - 1], A, s, Place(s, k - 1, 0)) BY <2>4, <2>6 DEF Reaches
    <3>3. /\ Carries(f[k], A, s, Place(s, (k - 1) + 1, 0))
          /\ Place(s, k - 1, Bits - 2) \notin page_bitmap => f[k].size > 0
      BY <2>1, <3>1, <3>2, GroupScan
    <3>4. Carries(f[k], A, s, Place(s, k, 0)) BY <2>1, <3>3
    <3>5. Reaches(f[k], A, s, Place(s, k, 0), n) BY <2>2, <3>4, Reached
    <3>6. QED BY <2>1, <3>3, <3>5
  <2>7. QED BY <2>5, <2>6
<1> HIDE DEF P
<1>6. 0 \in Nat /\ Groups - 1 \in Nat OBVIOUS
<1>7. \A k \in 0..(Groups - 1) : k \in P BY <1>4, <1>5, <1>6, Climb
<1>8. Groups - 1 \in P BY <1>6, <1>7
<1> DEFINE y == f[Groups - 1]
<1>9. /\ Reaches(y, A, s, Place(s, Groups - 1, 0), n)
      /\ Groups - 1 > 0 /\ Place(s, (Groups - 1) - 1, Bits - 2) \notin page_bitmap
            => y.size > 0
  BY <1>8 DEF P
<1>10. y \in Scans /\ y = ScanSuper(x, s, n)
  <2>1. Groups - 1 \in 0..(Groups - 1) OBVIOUS
  <2>2. QED BY <1>3, <2>1 DEF SuperScans
<1> HIDE DEF y
<1>11. LastLooked(s) \notin page_bitmap => y.size > 0
  <2>1. (Groups - 1) - 1 = Groups - 2 /\ Groups - 1 > 0 OBVIOUS
  <2>2. QED BY <1>9, <2>1 DEF LastLooked
<1>12. PICK base \in Nat : base = s * SuperPages BY <1>2
<1>13. Place(s, Groups - 1, 0) = base + Last + 2
  <2>1. Place(s, Groups - 1, 0) = LastLooked(s) + 2 + 0
    <3>1. 0 \in Int OBVIOUS
    <3>2. QED BY <1>1, <3>1, Places
  <2>2. LastLooked(s) = base + Last BY <1>2, <1>12
  <2>3. QED BY <2>1, <2>2
<1>14. y.start \in Int /\ y.size \in Nat BY <1>10 DEF Scans
<1>15. Reaches(y, A, s, base + SuperPages, n)
  <2>1. CASE y.size >= n
    <3>1. y.start \in A /\ y.start + n <= base + Last + 2
          /\ Free(y.start, y.start + n - 1)
      BY <1>9, <1>13, <2>1 DEF Reaches
    <3>2. y.start + n <= base + SuperPages BY <1>14, <3>1
    <3>3. QED BY <1>10, <2>1, <3>1, <3>2 DEF Reaches
  <2>2. CASE ~ (y.size >= n)
    <3>1. Carries(y, A, s, base + Last + 2) BY <1>9, <1>13, <2>2 DEF Reaches
    <3>2. ASSUME y.size > 0
          PROVE  y.start \in A /\ y.start + y.size <= base + SuperPages
                 /\ Free(y.start, base + SuperPages - 1)
      <4>1. y.start \in A /\ y.start + y.size <= base + Last + 2
            /\ Free(y.start, base + Last + 2 - 1)
        BY <3>1, <3>2 DEF Carries
      <4>2. LastLooked(s) = base + Last BY <1>2, <1>12
      <4>3. y.start <= base + Last + 1 BY <1>14, <3>2, <4>1
      <4>4. LastLooked(s) + 1 \notin page_bitmap
        <5>1. base + Last + 1 \in (y.start)..(base + Last + 2 - 1) BY <1>14, <4>3
        <5>2. LastLooked(s) + 1 = base + Last + 1 BY <4>2
        <5>3. QED BY <4>1, <5>1, <5>2 DEF Free
      <4>5. Free(LastLooked(s) + 1, s * SuperPages + SuperPages - 1) BY <4>4, FreeEnd
      <4>6. Free(base + Last + 1, base + SuperPages - 1)
        <5>1. LastLooked(s) + 1 = base + Last + 1 BY <4>2
        <5>2. QED BY <1>12, <4>5, <5>1
      <4>7. \A p \in (y.start)..(base + SuperPages - 1) :
               \/ p \in (y.start)..(base + Last + 2 - 1)
               \/ p \in (base + Last + 1)..(base + SuperPages - 1)
        BY <1>14
      <4>8. Free(y.start, base + SuperPages - 1) BY <4>1, <4>6, <4>7 DEF Free
      <4>9. y.start + y.size <= base + SuperPages BY <1>14, <4>1
      <4>10. QED BY <4>1, <4>8, <4>9
    <3>3. Carries(y, A, s, base + SuperPages) BY <3>1, <3>2 DEF Carries
    <3>4. QED BY <1>10, <2>2, <3>3 DEF Reaches
  <2>3. QED BY <2>1, <2>2
<1>16. QED BY <1>10, <1>11, <1>12, <1>15
-----------------------------------------------------------------------------
(* The search through a heap.                                                 *)
LEMMA ScanSuperType ==
    ASSUME NEW x \in Scans, NEW s \in Nat, NEW n PROVE ScanSuper(x, s, n) \in Scans
<1>1. PICK f : SuperScans(f, x, s, n) BY SuperFunction
<1>2. Groups - 1 \in 0..(Groups - 1)
  <2>1. Groups \in Nat /\ Groups >= 2 BY Geometry
  <2>2. QED BY <2>1
<1>3. QED BY <1>1, <1>2 DEF SuperScans

\* The scans before each superpage from first to last.
SearchScans(f, n, first, last) ==
    /\ f \in [first..last -> Scans]
    /\ f = [s \in first..last |->
               IF s = first THEN [start |-> -1, size |-> 0] ELSE Through(f[s - 1], s - 1, n)]

LEMMA SearchFunction ==
    ASSUME NEW n, NEW lo \in Nat, NEW hi \in Nat, lo <= hi
    PROVE  \E f : /\ SearchScans(f, n, lo * WordSupers, hi * WordSupers)
                  /\ Search(n, lo, hi) = f[hi * WordSupers]
<1> USE Geometry
<1> DEFINE first == lo * WordSupers  last == hi * WordSupers
           none == [start |-> -1, size |-> 0]
           after == CHOOSE f : f = [s \in first..last |->
                       IF s = first THEN none ELSE Through(f[s - 1], s - 1, n)]
           step == [z \in Scans \X ((first + 1)..last) |-> Through(z[1], z[2] - 1, n)]
<1>1. Search(n, lo, hi) = after[last] BY DEF Search
<1>2. first \in Nat /\ last \in Nat /\ first <= last BY Product
<1>3. none \in Scans BY DEF Scans
<1> HIDE DEF first, last, none
<1>4. ASSUME NEW y \in Scans, NEW s \in (first + 1)..last
      PROVE  step[<<y, s>>] = Through(y, s - 1, n) /\ Through(y, s - 1, n) \in Scans
  <2>1. <<y, s>> \in Scans \X ((first + 1)..last) /\ s - 1 \in Nat BY <1>2
  <2>2. step[<<y, s>>] = Through(y, s - 1, n) BY <2>1
  <2>3. ScanSuper(y, s - 1, n) \in Scans BY <2>1, ScanSuperType
  <2>4. Through(y, s - 1, n) \in Scans BY <2>3 DEF Through
  <2>5. QED BY <2>2, <2>4
<1> HIDE DEF step
<1>5. PICK f :
         /\ f \in [first..last -> Scans]
         /\ \A s \in first..last : f[s] = IF s = first THEN none ELSE step[<<f[s - 1], s>>]
  <2>1. \A y \in Scans, s \in (first + 1)..last : step[<<y, s>>] \in Scans
    BY <1>4, Zenon
  <2>2. Stepping(first, last, Scans, step) BY <2>1, Zenon DEF Stepping
  <2>3. \E f : Solves(f, first, last, Scans, none, step) BY <1>2, <1>3, <2>2, Iteration
  <2>4. QED BY <2>3 DEF Solves
<1>6. f = [s \in first..last |-> IF s = first THEN none ELSE Through(f[s - 1], s - 1, n)]
  <2>1. ASSUME NEW s \in first..last, s # first
        PROVE  step[<<f[s - 1], s>>] = Through(f[s - 1], s - 1, n)
    <3>1. s - 1 \in first..last /\ s \in (first + 1)..last BY <1>2, <2>1
    <3>2. f[s - 1] \in Scans BY <1>5, <3>1
    <3>3. QED BY <1>4, <3>1, <3>2
  <2>2. QED BY <1>5, <2>1
<1>7. after = [s \in first..last |->
                  IF s = first THEN none ELSE Through(after[s - 1], s - 1, n)]
  BY <1>6
<1> HIDE DEF after
<1>8. after \in [first..last -> Scans]
  <2> DEFINE P == {s \in first..last : after[s] \in Scans}
  <2>1. first \in P
    <3>1. first \in first..last BY <1>2
    <3>2. after[first] = none BY <1>7, <3>1
    <3>3. QED BY <1>3, <3>1, <3>2
  <2>2. ASSUME NEW s \in (first + 1)..last, s - 1 \in P PROVE s \in P
    <3>1. s \in first..last /\ s # first BY <1>2, <2>2
    <3>2. after[s] = Through(after[s - 1], s - 1, n) BY <1>7, <3>1
    <3>3. Through(after[s - 1], s - 1, n) \in Scans BY <1>4, <2>2
    <3>4. QED BY <3>1, <3>2, <3>3
  <2> HIDE DEF P
  <2>3. \A s \in first..last : s \in P BY <1>2, <2>1, <2>2, Climb
  <2>4. \A s \in first..last : after[s] \in Scans BY <2>3 DEF P
  <2>5. QED BY <1>7, <2>4
<1>9. SearchScans(after, n, first, last) BY <1>7, <1>8 DEF SearchScans, none
<1>10. QED BY <1>1, <1>9 DEF first, last

-----------------------------------------------------------------------------
(* Whatever the tables hold, a run lies between the places that were scanned.  *)
\* A scan that has come to page p has pages between 0 and p, and at most m.
Within(x, m, p) ==
    /\ x \in Scans /\ x.size <= m
    /\ x.size > 0 => x.start >= 0 /\ x.start + x.size <= p

LEMMA LengthensWithin ==
    ASSUME NEW x, NEW m \in Nat, NEW p \in Nat, NEW by \in Nat, Within(x, m, p)
    PROVE  Within(Longer(x, p, by), m + by, p + by)
<1>1. x \in Scans /\ x.start \in Int /\ x.size \in Nat BY DEF Within, Scans
<1> DEFINE y == Longer(x, p, by)
<1>2. /\ y \in Scans /\ y.size = x.size + by
      /\ x.size = 0 => y.start = p
      /\ x.size > 0 => y.start = x.start
  BY <1>1, Scanned
<1>3. y.start \in Int BY <1>2 DEF Scans
<1> HIDE DEF y
<1>4. x.size <= m /\ (x.size > 0 => x.start >= 0 /\ x.start + x.size <= p) BY DEF Within
<1>5. y.size <= m + by /\ y.start >= 0 /\ y.start + y.size <= p + by
  BY <1>1, <1>2, <1>3, <1>4
<1>6. QED BY <1>2, <1>5 DEF Within, y

LEMMA BreaksWithin ==
    ASSUME NEW x \in Scans, NEW m \in Nat, NEW p
    PROVE  Within(Broken(x), m, p)
<1>1. Broken(x) \in Scans /\ Broken(x).size = 0
  <2>1. 0 \in Int /\ 0 \in Nat OBVIOUS
  <2>2. QED BY <2>1, Scanned
<1>2. QED BY <1>1 DEF Within

LEMMA PageWithin ==
    ASSUME NEW x, NEW m \in Nat, NEW p \in Nat, Within(x, m, p)
    PROVE  Within(ScanPage(x, p), m + 1, p + 1)
<1>1. x \in Scans /\ m + 1 \in Nat BY DEF Within
<1>2. Within(Broken(x), m + 1, p + 1) BY <1>1, BreaksWithin
<1>3. Within(Longer(x, p, 1), m + 1, p + 1)
  <2>1. 1 \in Nat OBVIOUS
  <2>2. QED BY <2>1, LengthensWithin
<1>4. QED BY <1>2, <1>3 DEF ScanPage

\* More room than is needed.
LEMMA Wider ==
    ASSUME NEW x, NEW m \in Nat, NEW p \in Nat, Within(x, m, p),
           NEW mm \in Nat, NEW pp \in Nat, m <= mm, p <= pp
    PROVE  Within(x, mm, pp)
<1>1. x \in Scans /\ x.start \in Int /\ x.size \in Nat BY DEF Within, Scans
<1>2. x.size <= m /\ (x.size > 0 => x.start >= 0 /\ x.start + x.size <= p) BY DEF Within
<1>3. x.size <= mm /\ (x.size > 0 => x.start >= 0 /\ x.start + x.size <= pp) BY <1>1, <1>2
<1>4. QED BY <1>1, <1>3 DEF Within

LEMMA MixedWithin ==
    ASSUME NEW x, NEW m \in Nat, NEW p \in Nat, Within(x, m, p)
    PROVE  Within(ScanMixed(x, p), m + Bits, p + Bits)
<1> USE Geometry
<1>1. x \in Scans /\ p \in Int BY DEF Within
<1>2. PICK f : MixedScans(f, x, p) BY <1>1, MixedFunction
<1> DEFINE P == {l \in 0..(Bits - 1) : Within(f[l], m + l, p + l)}
<1>3. 0 \in P
  <2>1. 0 \in 0..(Bits - 1) /\ m + 0 = m /\ p + 0 = p OBVIOUS
  <2>2. f[0] = x BY <1>2, <2>1 DEF MixedScans
  <2>3. QED BY <2>1, <2>2
<1>4. ASSUME NEW l \in (0 + 1)..(Bits - 1), l - 1 \in P PROVE l \in P
  <2>1. l \in 0..(Bits - 1) /\ l # 0 /\ p + l - 1 = p + (l - 1) OBVIOUS
  <2>2. f[l] = ScanPage(f[l - 1], p + (l - 1)) BY <1>2, <2>1 DEF MixedScans
  <2>3. Within(f[l - 1], m + (l - 1), p + (l - 1)) BY <1>4
  <2>4. PICK a \in Nat, b \in Nat :
           a = m + (l - 1) /\ b = p + (l - 1) /\ a + 1 = m + l /\ b + 1 = p + l
    OBVIOUS
  <2>5. Within(ScanPage(f[l - 1], b), a + 1, b + 1) BY <2>3, <2>4, PageWithin
  <2>6. QED BY <2>1, <2>2, <2>4, <2>5
<1> HIDE DEF P
<1>5. 0 \in Nat /\ Bits - 1 \in Nat OBVIOUS
<1>6. \A l \in 0..(Bits - 1) : l \in P BY <1>3, <1>4, <1>5, Climb
<1>7. Bits - 1 \in P BY <1>5, <1>6
<1>8. Within(ScanMixed(x, p), m + (Bits - 1), p + (Bits - 1))
  BY <1>2, <1>7 DEF P, MixedScans
<1>9. PICK a \in Nat, b \in Nat : a = m + (Bits - 1) /\ b = p + (Bits - 1)
        /\ a <= m + Bits /\ b <= p + Bits /\ m + Bits \in Nat /\ p + Bits \in Nat
  OBVIOUS
<1>10. QED BY <1>8, <1>9, Wider

LEMMA GroupWithin ==
    ASSUME NEW x, NEW m \in Nat, NEW g \in Nat, Within(x, m, g * Bits)
    PROVE  Within(ScanGroup(x, g), m + Bits, (g + 1) * Bits)
<1> USE Geometry
<1>1. PICK p \in Nat : p = g * Bits BY Product
<1>2. (g + 1) * Bits = p + Bits
  <2>1. (g + 1) * Bits = g * Bits + 1 * Bits /\ 1 * Bits = Bits BY Product
  <2>2. QED BY <1>1, <2>1
<1>3. x \in Scans /\ Within(x, m, p) /\ m + Bits \in Nat BY <1>1 DEF Within
<1>4. Within(Longer(x, p, Bits), m + Bits, p + Bits) BY <1>3, LengthensWithin
<1>5. Within(Broken(x), m + Bits, p + Bits) BY <1>3, BreaksWithin
<1>6. Within(ScanMixed(x, p), m + Bits, p + Bits) BY <1>3, MixedWithin
<1>7. QED BY <1>1, <1>2, <1>4, <1>5, <1>6 DEF ScanGroup

LEMMA SuperWithin ==
    ASSUME NEW x, NEW m \in Nat, NEW s \in Nat, NEW n, Within(x, m, s * SuperPages)
    PROVE  Within(ScanSuper(x, s, n), m + (Groups - 1) * Bits, (s + 1) * SuperPages)
<1> USE Geometry
<1>1. x \in Scans BY DEF Within
<1>2. PICK f : SuperScans(f, x, s, n) BY <1>1, SuperFunction
<1>3. s * Groups \in Nat /\ (s * Groups) * Bits = s * SuperPages
  BY Product DEF SuperPages
<1>4. PICK h \in Nat : h = s * Groups BY <1>3
<1> DEFINE P == {k \in 0..(Groups - 1) : Within(f[k], m + k * Bits, (h + k) * Bits)}
<1>5. 0 \in P
  <2>1. 0 \in 0..(Groups - 1) /\ m + 0 * Bits = m /\ h + 0 = h OBVIOUS
  <2>2. f[0] = x BY <1>2, <2>1 DEF SuperScans
  <2>3. QED BY <1>3, <1>4, <2>1, <2>2
<1>6. ASSUME NEW k \in (0 + 1)..(Groups - 1), k - 1 \in P PROVE k \in P
  <2>1. PICK j \in Nat : j = k - 1 /\ k = j + 1 /\ k \in 0..(Groups - 1) /\ k # 0
    <3>1. k - 1 \in Nat /\ k = (k - 1) + 1 /\ k \in 0..(Groups - 1) /\ k # 0 OBVIOUS
    <3>2. QED BY <3>1
  <2>2. s * Groups + k - 1 = h + j BY <1>4, <2>1
  <2>3. f[k] = GroupUnlessFound(f[j], h + j, n)
    <3>1. f[k] = GroupUnlessFound(f[k - 1], s * Groups + k - 1, n)
      BY <1>2, <2>1 DEF SuperScans
    <3>2. QED BY <2>1, <2>2, <3>1
  <2>4. PICK a \in Nat, b \in Nat : a = m + j * Bits /\ b = (h + j) * Bits
    <3>1. j * Bits \in Nat /\ h + j \in Nat BY Product
    <3>2. m + j * Bits \in Nat /\ (h + j) * Bits \in Nat BY <3>1, Product
    <3>3. QED BY <3>2
  <2>5. m + k * Bits = a + Bits /\ (h + k) * Bits = b + Bits
    <3>1. (j + 1) * Bits = j * Bits + 1 * Bits /\ 1 * Bits = Bits /\ j * Bits \in Nat
      BY Product
    <3>2. h + k = (h + j) + 1 /\ h + j \in Nat BY <2>1
    <3>3. ((h + j) + 1) * Bits = (h + j) * Bits + 1 * Bits BY <3>2, Product
    <3>4. QED BY <2>1, <2>4, <3>1, <3>2, <3>3
  <2>6. Within(f[j], a, b) BY <1>6, <2>1, <2>4
  <2>7. Within(f[j], a + Bits, b + Bits)
    <3>1. a + Bits \in Nat /\ b + Bits \in Nat /\ a <= a + Bits /\ b <= b + Bits OBVIOUS
    <3>2. QED BY <2>6, <3>1, Wider
  <2>8. Within(ScanGroup(f[j], h + j), a + Bits, b + Bits)
    <3>1. h + j \in Nat /\ Within(f[j], a, (h + j) * Bits) BY <2>4, <2>6
    <3>2. ((h + j) + 1) * Bits = b + Bits
      <4>1. (h + j) + 1 = h + k BY <2>1
      <4>2. QED BY <2>5, <4>1
    <3>3. QED BY <3>1, <3>2, GroupWithin
  <2>9. Within(f[k], a + Bits, b + Bits) BY <2>3, <2>7, <2>8 DEF GroupUnlessFound
  <2>10. QED BY <2>1, <2>5, <2>9
<1> HIDE DEF P
<1>7. 0 \in Nat /\ Groups - 1 \in Nat OBVIOUS
<1>8. \A k \in 0..(Groups - 1) : k \in P BY <1>5, <1>6, <1>7, Climb
<1>9. Groups - 1 \in P BY <1>7, <1>8
<1>10. Within(ScanSuper(x, s, n), m + (Groups - 1) * Bits, (h + (Groups - 1)) * Bits)
  BY <1>2, <1>9 DEF P, SuperScans
<1>11. (Groups - 1) * Bits \in Nat /\ (h + (Groups - 1)) * Bits = h * Bits + (Groups - 1) * Bits
       /\ h * Bits \in Nat
  BY <1>7, Product
<1>12. h * Bits = s * SuperPages BY <1>3, <1>4
<1>13. (s + 1) * SuperPages = s * SuperPages + SuperPages BY Places
<1>14. (Groups - 1) * Bits <= SuperPages
  <2>1. Groups - 1 <= Groups /\ Groups - 1 \in Nat OBVIOUS
  <2>2. QED BY <2>1, Product DEF SuperPages
<1>15. PICK c \in Nat, d \in Nat : c = (Groups - 1) * Bits /\ d = h * Bits BY <1>11
<1>16. Within(ScanSuper(x, s, n), m + c, d + c) BY <1>10, <1>11, <1>15
<1>17. m + c \in Nat /\ d + c \in Nat /\ d + SuperPages \in Nat /\ d + c <= d + SuperPages
       /\ m + c <= m + c
  BY <1>14, <1>15
<1>18. Within(ScanSuper(x, s, n), m + c, d + SuperPages) BY <1>16, <1>17, Wider
<1>19. QED BY <1>12, <1>13, <1>15, <1>18

LEMMA ThroughWithin ==
    ASSUME NEW x, NEW s \in Nat, NEW n, Within(x, s * SuperPages, s * SuperPages)
    PROVE  Within(Through(x, s, n), (s + 1) * SuperPages, (s + 1) * SuperPages)
<1> USE Geometry
<1>1. PICK b \in Nat : b = s * SuperPages BY Product
<1>2. (s + 1) * SuperPages = b + SuperPages BY <1>1, Places
<1>3. PICK c \in Nat : c = (Groups - 1) * Bits /\ c <= SuperPages
  <2>1. Groups - 1 <= Groups /\ Groups - 1 \in Nat OBVIOUS
  <2>2. (Groups - 1) * Bits \in Nat /\ (Groups - 1) * Bits <= Groups * Bits BY <2>1, Product
  <2>3. QED BY <2>2 DEF SuperPages
<1>4. b + c \in Nat /\ b + SuperPages \in Nat /\ b + c <= b + SuperPages
      /\ b <= b + SuperPages /\ b + SuperPages <= b + SuperPages
  BY <1>3
<1>5. Within(x, b, b) BY <1>1
<1>6. Within(x, b + SuperPages, b + SuperPages) BY <1>4, <1>5, Wider
<1>7. Within(ScanSuper(x, s, n), b + c, b + SuperPages)
  BY <1>1, <1>2, <1>3, SuperWithin
<1>8. Within(ScanSuper(x, s, n), b + SuperPages, b + SuperPages)
  BY <1>4, <1>7, Wider
<1>9. QED BY <1>2, <1>6, <1>8 DEF Through

\* The count of the last superpage is 0: it is scanned only for a request that
\* misses whole superpages, and it has not got one.
LEMMA LastIsNeverEnough ==
    ASSUME superpage_count[LastSuper] = 0, NEW n \in Nat, NEW x,
           Within(x, LastSuper * SuperPages, LastSuper * SuperPages),
           Through(x, LastSuper, n).size >= n
    PROVE  x.size >= n /\ Through(x, LastSuper, n) = x
<1> USE Geometry
<1>1. x \in Scans /\ x.size \in Nat BY DEF Within, Scans
<1>2. x.size >= n => Through(x, LastSuper, n) = x BY DEF Through
<1>3. SUFFICES ASSUME ~ (x.size >= n) PROVE FALSE BY <1>2
<1>4. Through(x, LastSuper, n) # x BY <1>3
<1>5. MayHold(x, LastSuper, n) /\ Through(x, LastSuper, n) = ScanSuper(x, LastSuper, n)
  BY <1>4 DEF Through
<1>6. PICK missing \in Nat : missing = n - x.size /\ missing > 0 BY <1>1, <1>3, n - x.size \in Nat
<1>7. missing % SuperPages = 0
  <2>1. 0 >= missing % SuperPages BY <1>5, <1>6 DEF MayHold
  <2>2. missing % SuperPages \in Nat OBVIOUS
  <2>3. QED BY <2>1, <2>2
<1>8. missing >= SuperPages
  <2>1. \A a, b \in Nat : a > 0 /\ b > 0 /\ a % b = 0 => a >= b OBVIOUS
  <2>2. SuperPages > 0 OBVIOUS
  <2>3. QED BY <1>6, <1>7, <2>1, <2>2
<1>9. PICK c \in Nat : c = (Groups - 1) * Bits /\ c < SuperPages
  <2>1. Groups - 1 < Groups /\ Groups - 1 \in Nat OBVIOUS
  <2>2. (Groups - 1) * Bits \in Nat /\ (Groups - 1) * Bits + Bits <= Groups * Bits
    BY <2>1, Product
  <2>3. \A a, b, g \in Nat : a + b <= g /\ b >= 2 => a < g OBVIOUS
  <2>4. QED BY <2>2, <2>3 DEF SuperPages
<1>10. Within(ScanSuper(x, LastSuper, n), x.size + c, (LastSuper + 1) * SuperPages)
  <2>1. Within(x, x.size, LastSuper * SuperPages) BY <1>1 DEF Within
  <2>2. QED BY <1>1, <1>9, <2>1, SuperWithin
<1>11. ScanSuper(x, LastSuper, n).size <= x.size + c
       /\ ScanSuper(x, LastSuper, n).size \in Nat
  BY <1>10 DEF Within, Scans
<1>12. QED BY <1>1, <1>5, <1>6, <1>8, <1>9, <1>11

\* What a search finds, it has found before the last superpage, in the pages below.
LEMMA SearchEnds ==
    ASSUME superpage_count[LastSuper] = 0, NEW n \in Nat, n > 0,
           NEW first \in Nat, NEW last \in Nat, first <= last, last <= Supers,
           NEW f, SearchScans(f, n, first, last), f[last].size >= n
    PROVE  /\ f[last].start \in Nat /\ f[last].start + n <= LastSuper * SuperPages
           /\ \E m \in first..last : m <= LastSuper /\ f[m] = f[last]
<1> USE Geometry
<1> DEFINE P == {s \in first..last : Within(f[s], s * SuperPages, s * SuperPages)}
           none == [start |-> -1, size |-> 0]
<1>1. first \in first..last /\ last \in first..last OBVIOUS
<1>2. f[first] = none BY <1>1 DEF SearchScans
<1>3. none \in Scans /\ none.size = 0 BY DEF Scans
<1> HIDE DEF none
<1>4. first \in P
  <2>1. PICK b \in Nat : b = first * SuperPages BY Product
  <2>2. Within(none, b, b) BY <1>3 DEF Within
  <2>3. QED BY <1>1, <1>2, <2>1, <2>2
<1>5. ASSUME NEW s \in (first + 1)..last, s - 1 \in P PROVE s \in P
  <2>1. s \in first..last /\ s # first /\ s - 1 \in Nat /\ (s - 1) + 1 = s OBVIOUS
  <2>2. f[s] = Through(f[s - 1], s - 1, n) BY <2>1 DEF SearchScans
  <2>3. Within(f[s], s * SuperPages, s * SuperPages) BY <1>5, <2>1, <2>2, ThroughWithin
  <2>4. QED BY <2>1, <2>3
<1> HIDE DEF P
<1>6. \A s \in first..last : s \in P BY <1>4, <1>5, Climb
<1>7. PICK m \in first..last : m <= LastSuper /\ f[m] = f[last]
  <2>1. CASE last <= LastSuper BY <1>1, <2>1
  <2>2. CASE ~ (last <= LastSuper) /\ first # last
    <3>1. last = LastSuper + 1 /\ LastSuper \in first..last BY <2>2
    <3>2. f[last] = Through(f[LastSuper], LastSuper, n)
      <4>1. last - 1 = LastSuper BY <3>1
      <4>2. f[last] = Through(f[last - 1], last - 1, n) BY <1>1, <2>2 DEF SearchScans
      <4>3. QED BY <4>1, <4>2
    <3>3. Within(f[LastSuper], LastSuper * SuperPages, LastSuper * SuperPages)
      BY <1>6, <3>1 DEF P
    <3>4. f[last] = f[LastSuper] BY <3>2, <3>3, LastIsNeverEnough
    <3>5. QED BY <3>1, <3>4
  <2>3. CASE first = last
    <3>1. f[last].size = 0 BY <1>2, <1>3, <2>3
    <3>2. QED BY <3>1
  <2>4. QED BY <2>1, <2>2, <2>3
<1>8. Within(f[m], m * SuperPages, m * SuperPages) BY <1>6, <1>7 DEF P
<1>9. m \in Nat /\ m * SuperPages <= LastSuper * SuperPages /\ m * SuperPages \in Nat
      /\ LastSuper * SuperPages \in Nat
  <2>1. m \in Nat /\ m <= LastSuper BY <1>7
  <2>2. QED BY <2>1, Product
<1>10. PICK a \in Nat, b \in Nat : a = m * SuperPages /\ b = LastSuper * SuperPages /\ a <= b
  BY <1>9
<1> DEFINE y == f[last]
<1>11. Within(y, a, a) BY <1>7, <1>8, <1>10
<1>12. y.size >= n OBVIOUS
<1> HIDE DEF y
<1>13. y \in Scans /\ y.start \in Int /\ y.size \in Nat BY <1>11 DEF Within, Scans
<1>14. y.start >= 0 /\ y.start + y.size <= a
  <2>1. y.size > 0 BY <1>12, <1>13
  <2>2. QED BY <1>11, <2>1 DEF Within
<1>15. y.start \in Nat /\ y.start + n <= b BY <1>10, <1>12, <1>13, <1>14
<1>16. QED BY <1>7, <1>10, <1>15 DEF y
-----------------------------------------------------------------------------
\* What a search of the superpages from first on has when it comes to superpage s: a
\* run, or a run that goes on into s, or nothing and no room right below s.
Behind(s, first) == s - 1 >= BootSupers /\ s - 1 >= first
Comes(x, s, n, first) ==
    /\ x \in Scans
    /\ x.size >= n => /\ x.start \in Starts /\ x.start + n <= s * SuperPages
                      /\ Free(x.start, x.start + n - 1)
    /\ x.size < n /\ x.size > 0
          => /\ x.start \in Starts /\ x.start + x.size <= s * SuperPages
             /\ Free(x.start, s * SuperPages - 1)
             /\ Behind(s, first)
    /\ x.size < n /\ Behind(s, first) /\ LastLooked(s - 1) \notin page_bitmap => x.size > 0

LEMMA StartsAre ==
    ASSUME NEW p \in Starts
    PROVE  \E t \in BootSupers..(Supers - 1) :
              /\ t \in Nat /\ p \in Looked(t)
              /\ Before(t) => LastLooked(t - 1) \in page_bitmap
<1>1. PICK t \in BootSupers..(Supers - 1) : p \in StartsIn(t) BY DEF Starts
<1>2. p \in Looked(t) /\ (Before(t) => LastLooked(t - 1) \in page_bitmap)
  BY <1>1 DEF StartsIn
<1>3. t \in Nat
  <2>1. BootSupers \in Nat BY Geometry
  <2>2. QED BY <2>1
<1>4. QED BY <1>2, <1>3

\* A run goes on into a superpage that is untouched.
LEMMA GoesOn ==
    ASSUME InOrder, NEW n \in Nat, NEW first \in Nat, NEW s \in 0..(Supers - 1),
           First(s) = first, NEW x, Comes(x, s, n, first), x.size < n, x.size > 0
    PROVE  Untouched(s) /\ s \in BootSupers..(Supers - 1)
<1> USE Geometry
<1>1. x.start \in Int /\ x.size \in Nat BY DEF Comes, Scans
<1>2. /\ x.start \in Starts /\ x.start + x.size <= s * SuperPages
      /\ Free(x.start, s * SuperPages - 1) /\ Behind(s, first)
  BY DEF Comes
<1>3. s - 1 \in Nat /\ s \in Nat /\ s - 1 >= BootSupers /\ (s - 1) + 1 = s
  BY <1>2 DEF Behind
<1>4. /\ s * SuperPages = (s - 1) * SuperPages + SuperPages
      /\ (s - 1) * SuperPages \in Nat
      /\ LastLooked(s - 1) = (s - 1) * SuperPages + Last
  <2>1. /\ ((s - 1) + 1) * SuperPages = (s - 1) * SuperPages + SuperPages
        /\ (s - 1) * SuperPages \in Nat
        /\ LastLooked(s - 1) = (s - 1) * SuperPages + Last
    BY <1>3, Places
  <2>2. QED BY <1>3, <2>1
<1>5. x.start < s * SuperPages
  <2>1. PICK top \in Nat : top = s * SuperPages BY <1>4
  <2>2. QED BY <1>1, <1>2, <2>1
<1>6. x.start <= LastLooked(s - 1)
  <2>1. PICK t \in BootSupers..(Supers - 1) : t \in Nat /\ x.start \in Looked(t)
    BY <1>2, StartsAre
  <2>2. x.start < ((s - 1) + 1) * SuperPages BY <1>3, <1>5
  <2>3. QED BY <1>3, <2>1, <2>2, LookedAt
<1>7. LastLooked(s - 1) \in (x.start)..(s * SuperPages - 1)
  <2>1. PICK base \in Nat : base = (s - 1) * SuperPages BY <1>4
  <2>2. s * SuperPages = base + SuperPages /\ LastLooked(s - 1) = base + Last BY <1>4, <2>1
  <2>3. base + Last <= base + SuperPages - 1 OBVIOUS
  <2>4. QED BY <1>1, <1>6, <2>2, <2>3
<1>8. LastLooked(s - 1) \notin page_bitmap BY <1>2, <1>7 DEF Free
<1>9. Before(s) BY <1>2 DEF Before, Behind
<1>10. Untouched(s) BY <1>8, <1>9 DEF InOrder
<1>11. QED BY <1>3, <1>10

LEMMA StillMissing ==
    ASSUME NEW n \in Nat, NEW m \in Nat
    PROVE  (n - m) % SuperPages \in 0..(SuperPages - 1)
<1>1. n - m \in Int /\ SuperPages \in Nat /\ SuperPages > 0 BY Geometry
<1>2. \A i \in Int, b \in Nat : b > 0 => i % b \in 0..(b - 1) OBVIOUS
<1>3. QED BY <1>1, <1>2

LEMMA InWord ==
    ASSUME NEW s \in Nat, WordFull(s \div WordSupers)
    PROVE  SuperFull(s)
<1>1. WordSupers \in Nat /\ WordSupers > 0 BY Geometry
<1>2. PICK w \in Nat : w = s \div WordSupers BY <1>1
<1>3. w * WordSupers <= s /\ s < w * WordSupers + WordSupers
  <2>1. (s \div WordSupers) * WordSupers <= s BY <1>1
  <2>2. s < (s \div WordSupers) * WordSupers + WordSupers BY <1>1
  <2>3. QED BY <1>2, <2>1, <2>2
<1>4. (w + 1) * WordSupers = w * WordSupers + WordSupers /\ w * WordSupers \in Nat
  <2>1. (w + 1) * WordSupers = w * WordSupers + 1 * WordSupers BY <1>1, Product
  <2>2. 1 * WordSupers = WordSupers /\ w * WordSupers \in Nat BY <1>1, Product
  <2>3. QED BY <2>1, <2>2
<1>5. PICK base \in Nat : base = w * WordSupers BY <1>4
<1>6. s \in base..(base + WordSupers - 1) BY <1>1, <1>3, <1>5
<1>7. base + WordSupers - 1 = (w + 1) * WordSupers - 1 BY <1>1, <1>4, <1>5
<1>8. s \in (w * WordSupers)..((w + 1) * WordSupers - 1) BY <1>5, <1>6, <1>7
<1>9. WordFull(w) BY <1>2
<1>10. QED BY <1>8, <1>9 DEF WordFull

\* A superpage is passed over only when nothing is carried and it has no room at its end.
LEMMA PassedOver ==
    ASSUME Exact, Followers, InOrder,
           NEW n \in Nat, n > 0, Fits(n), NEW first \in Nat,
           NEW s \in first..(LastSuper - 1), First(s) = first, NEW x, Comes(x, s, n, first),
           x.size < n, WordFull(s \div WordSupers) \/ ~ MayHold(x, s, n)
    PROVE  Comes(x, s + 1, n, first)
<1> USE Geometry
<1>1. x \in Scans /\ x.start \in Int /\ x.size \in Nat BY DEF Comes, Scans
<1>2. s \in Nat /\ s \in 0..(Supers - 1) /\ (s + 1) - 1 = s OBVIOUS
<1>3. (n - x.size) % SuperPages \in 0..(SuperPages - 1) BY <1>1, StillMissing
<1>4. WordFull(s \div WordSupers) => SuperFull(s) BY <1>2, InWord
<1>5. ~ MayHold(x, s, n)
         => /\ ~ (superpage_count[s] < 0)
            /\ ~ (superpage_count[s] >= (n - x.size) % SuperPages)
  BY DEF MayHold
<1>6. x.size = 0
  <2>1. SUFFICES ASSUME x.size > 0 PROVE FALSE BY <1>1
  <2>2. Untouched(s) /\ s \in BootSupers..(LastSuper - 1)
    <3>1. Untouched(s) /\ s \in BootSupers..(Supers - 1) BY <1>2, <2>1, GoesOn
    <3>2. QED BY <3>1
  <2>3. /\ superpage_count[s] \in Nat /\ superpage_count[s] >= SuperPages
        /\ ~ SuperFull(s)
    BY <2>2, Room
  <2>4. \A a, b, c \in Int : a >= b /\ c <= b - 1 => a >= c OBVIOUS
  <2>5. PICK left \in 0..(SuperPages - 1) : left = (n - x.size) % SuperPages BY <1>3
  <2>6. superpage_count[s] >= left BY <2>3, <2>5
  <2>7. QED BY <1>4, <1>5, <2>3, <2>5, <2>6
<1>7. ~ (Behind(s + 1, first) /\ LastLooked((s + 1) - 1) \notin page_bitmap)
  <2>1. SUFFICES ASSUME s >= BootSupers, LastLooked(s) \notin page_bitmap PROVE FALSE
    BY <1>2 DEF Behind
  <2>2. s \in BootSupers..(LastSuper - 1) BY <2>1
  <2>3. /\ superpage_count[s] \in Nat /\ superpage_count[s] >= Bits + 2
        /\ ~ SuperFull(s)
    BY <2>1, <2>2, Room
  <2>4. n - x.size = n BY <1>6
  <2>5. PICK left \in 1..(Bits + 2) : left = n % SuperPages BY DEF Fits
  <2>6. superpage_count[s] >= left BY <2>3, <2>5
  <2>7. QED BY <1>4, <1>5, <2>3, <2>4, <2>5, <2>6
<1>8. ~ (x.size >= n) /\ ~ (x.size > 0) BY <1>1, <1>6
<1>9. QED BY <1>1, <1>7, <1>8 DEF Comes

LEMMA ScannedThrough ==
    ASSUME BootIsLeft, Followers, InOrder,
           NEW n \in Nat, n > 0, Fits(n), NEW first \in Nat,
           NEW s \in first..(LastSuper - 1), First(s) = first, NEW x, Comes(x, s, n, first),
           x.size < n, MayHold(x, s, n)
    PROVE  Comes(ScanSuper(x, s, n), s + 1, n, first)
<1> USE Geometry
<1>1. x \in Scans /\ x.start \in Int /\ x.size \in Nat BY DEF Comes, Scans
<1>2. s \in Nat /\ s \in 0..(Supers - 1) /\ (s + 1) - 1 = s OBVIOUS
<1>3. s >= BootSupers
  <2>1. SUFFICES ASSUME s < BootSupers PROVE FALSE BY <1>2
  <2>2. superpage_count[s] = 0
    <3>1. s \in 0..(BootSupers - 1) BY <1>2, <2>1
    <3>2. QED BY <3>1 DEF BootIsLeft
  <2>3. x.size = 0
    <3>1. ~ Behind(s, first) BY <1>2, <2>1 DEF Behind
    <3>2. ~ (x.size > 0) BY <3>1 DEF Comes
    <3>3. QED BY <1>1, <3>2
  <2>4. n - x.size = n BY <2>3
  <2>5. PICK left \in 1..(Bits + 2) : left = n % SuperPages BY DEF Fits
  <2>6. ~ (0 < 0) /\ ~ (0 >= left) BY <2>5
  <2>7. ~ MayHold(x, s, n) BY <2>2, <2>4, <2>5, <2>6 DEF MayHold
  <2>8. QED BY <2>7
<1>4. s \in BootSupers..(LastSuper - 1) BY <1>3
<1>5. Carries(x, Starts, s, s * SuperPages)
  <2> s \in BootSupers..(Supers - 1) BY <1>4
  <2>1. CASE x.size = 0
    <3>1. ~ Behind(s, first) \/ LastLooked(s - 1) \in page_bitmap
      BY <2>1 DEF Comes
    <3>2. Before(s) => LastLooked(s - 1) \in page_bitmap BY <3>1 DEF Before, Behind
    <3>3. StartsIn(s) = Looked(s) BY <3>2 DEF StartsIn
    <3>4. Looked(s) \subseteq Starts BY <1>4, <3>3 DEF Starts
    <3>5. ~ (x.size > 0) BY <2>1
    <3>6. QED BY <1>1, <3>4, <3>5 DEF Carries
  <2>2. CASE x.size > 0
    <3>1. Untouched(s) BY <1>2, <2>2, GoesOn
    <3>2. x.start \in Starts /\ x.start + x.size <= s * SuperPages
          /\ Free(x.start, s * SuperPages - 1)
      BY <2>2 DEF Comes
    <3>3. ~ (x.size = 0) BY <2>2
    <3>4. QED BY <1>1, <3>1, <3>2, <3>3 DEF Carries
  <2>3. QED BY <1>1, <2>1, <2>2
<1> DEFINE y == ScanSuper(x, s, n)
<1>6. /\ Reaches(y, Starts, s, s * SuperPages + SuperPages, n)
      /\ LastLooked(s) \notin page_bitmap => y.size > 0
  BY <1>2, <1>5, SuperScan
<1> HIDE DEF y
<1>7. (s + 1) * SuperPages = s * SuperPages + SuperPages BY <1>2, Places
<1>8. y \in Scans /\ y.start \in Int /\ y.size \in Nat BY <1>6 DEF Reaches, Scans
<1>9. ASSUME y.size >= n
      PROVE  /\ y.start \in Starts /\ y.start + n <= (s + 1) * SuperPages
             /\ Free(y.start, y.start + n - 1)
  BY <1>6, <1>7, <1>9, Zenon DEF Reaches
<1>10. ASSUME y.size < n, y.size > 0
       PROVE  /\ y.start \in Starts /\ y.start + y.size <= (s + 1) * SuperPages
              /\ Free(y.start, (s + 1) * SuperPages - 1)
              /\ Behind(s + 1, first)
  <2>1. ~ (y.size >= n) BY <1>8, <1>10
  <2>2. Carries(y, Starts, s, (s + 1) * SuperPages)
    BY <1>6, <1>7, <2>1, Zenon DEF Reaches
  <2>3. /\ y.start \in Starts /\ y.start + y.size <= (s + 1) * SuperPages
        /\ Free(y.start, (s + 1) * SuperPages - 1)
    BY <1>10, <2>2, Zenon DEF Carries
  <2>4. Behind(s + 1, first) BY <1>2, <1>3 DEF Behind
  <2>5. QED BY <2>3, <2>4
<1>11. LastLooked((s + 1) - 1) \notin page_bitmap => y.size > 0 BY <1>2, <1>6
<1>12. Comes(y, s + 1, n, first) BY <1>8, <1>9, <1>10, <1>11, Zenon DEF Comes
<1>13. QED BY <1>12 DEF y

LEMMA ThroughOne ==
    ASSUME Exact, BootIsLeft, Followers, InOrder,
           NEW n \in Nat, n > 0, Fits(n), NEW first \in Nat,
           NEW s \in first..(LastSuper - 1), First(s) = first, NEW x, Comes(x, s, n, first)
    PROVE  Comes(Through(x, s, n), s + 1, n, first)
<1> USE Geometry
<1>1. x \in Scans /\ x.start \in Int /\ x.size \in Nat BY DEF Comes, Scans
<1>2. CASE x.size >= n
  <2>1. x.start \in Starts /\ x.start + n <= s * SuperPages
        /\ Free(x.start, x.start + n - 1)
    BY <1>2 DEF Comes
  <2>2. x.start + n <= (s + 1) * SuperPages
    <3>1. (s + 1) * SuperPages = s * SuperPages + SuperPages /\ s * SuperPages \in Nat
      <4>1. s \in Nat OBVIOUS
      <4>2. QED BY <4>1, Places
    <3>2. PICK base \in Nat : base = s * SuperPages BY <3>1
    <3>3. x.start + n <= base + SuperPages BY <1>1, <2>1, <3>2
    <3>4. QED BY <3>1, <3>2, <3>3
  <2>3. ~ (x.size < n) BY <1>1, <1>2
  <2>4. Comes(x, s + 1, n, first) BY <1>1, <2>1, <2>2, <2>3 DEF Comes
  <2>5. QED BY <1>2, <2>4 DEF Through
<1>3. CASE x.size < n /\ (WordFull(s \div WordSupers) \/ ~ MayHold(x, s, n))
  <2>1. Comes(x, s + 1, n, first) BY <1>3, PassedOver
  <2>2. QED BY <1>3, <2>1 DEF Through
<1>4. CASE x.size < n /\ ~ WordFull(s \div WordSupers) /\ MayHold(x, s, n)
  <2>1. Comes(ScanSuper(x, s, n), s + 1, n, first) BY <1>4, ScannedThrough
  <2>2. ~ (x.size >= n) BY <1>1, <1>4
  <2>3. QED BY <1>4, <2>1, <2>2 DEF Through
<1>5. QED BY <1>1, <1>2, <1>3, <1>4

\* The search finds a run that is free.
LEMMA SearchFinds ==
    ASSUME superpage_count[LastSuper] = 0, Exact, BootIsLeft, Followers, InOrder,
           NEW n \in Nat, n > 0, Fits(n),
           NEW lo \in Nat, NEW hi \in Nat, lo <= hi,
           hi * WordSupers <= Supers,
           \A s \in (lo * WordSupers)..(hi * WordSupers - 1) : First(s) = lo * WordSupers,
           Search(n, lo, hi).size >= n
    PROVE  /\ Search(n, lo, hi).start \in Starts
           /\ Free(Search(n, lo, hi).start, Search(n, lo, hi).start + n - 1)
<1> USE Geometry
<1>1. PICK first \in Nat, last \in Nat :
         first = lo * WordSupers /\ last = hi * WordSupers /\ first <= last
  BY Product
<1>2. PICK f : SearchScans(f, n, first, last) /\ Search(n, lo, hi) = f[last]
  BY <1>1, SearchFunction
<1>3. \A s \in first..(last - 1) : First(s) = first BY <1>1
<1>4. last <= Supers /\ f[last].size >= n BY <1>1, <1>2
<1>5. PICK top \in first..last : top <= LastSuper /\ f[top] = f[last]
  BY <1>1, <1>2, <1>4, SearchEnds
<1>6. top \in Nat /\ first <= top /\ top <= last BY <1>5
<1> DEFINE P == {s \in first..top : Comes(f[s], s, n, first)}
<1>7. first \in P
  <2> DEFINE none == [start |-> -1, size |-> 0]
  <2>1. first \in first..last /\ first \in first..top BY <1>6
  <2>2. f[first] = none BY <1>2, <2>1 DEF SearchScans
  <2>3. none \in Scans /\ none.size = 0 BY DEF Scans
  <2> HIDE DEF none
  <2>4. ~ Behind(first, first) BY DEF Behind
  <2>5. ~ (none.size >= n) /\ ~ (none.size > 0) BY <2>3
  <2>6. Comes(none, first, n, first) BY <2>3, <2>4, <2>5, Zenon DEF Comes
  <2>7. QED BY <2>1, <2>2, <2>6
<1>8. ASSUME NEW s \in (first + 1)..top, s - 1 \in P PROVE s \in P
  <2>1. s \in first..top /\ s \in first..last /\ s # first
        /\ s - 1 \in first..(LastSuper - 1)
        /\ s - 1 \in first..(last - 1) /\ (s - 1) + 1 = s
    BY <1>5, <1>6
  <2>2. f[s] = Through(f[s - 1], s - 1, n) BY <1>2, <2>1 DEF SearchScans
  <2>3. Comes(f[s - 1], s - 1, n, first) BY <1>8
  <2>4. First(s - 1) = first BY <1>3, <2>1
  <2>5. Comes(Through(f[s - 1], s - 1, n), (s - 1) + 1, n, first)
    BY <2>1, <2>3, <2>4, ThroughOne
  <2>6. QED BY <2>1, <2>2, <2>5
<1> HIDE DEF P
<1>9. \A s \in first..top : s \in P BY <1>6, <1>7, <1>8, Climb
<1>10. top \in P BY <1>6, <1>9
<1>11. Comes(f[top], top, n, first) BY <1>10 DEF P
<1>12. f[top].size >= n /\ f[top] = Search(n, lo, hi) BY <1>2, <1>4, <1>5
<1>13. QED BY <1>11, <1>12 DEF Comes
-----------------------------------------------------------------------------
(* A call: the search.                                                        *)
LEMMA StartsArePages ==
    ASSUME NEW p \in Starts
    PROVE  p \in Pages /\ p \in Nat /\ p >= BootSupers * SuperPages
<1> USE Geometry
<1>1. PICK t \in BootSupers..(Supers - 1) : t \in Nat /\ p \in Looked(t) BY StartsAre
<1>2. p \in (t * SuperPages)..LastLooked(t) BY <1>1, LookedAt
<1>3. PICK base \in Nat : base = t * SuperPages /\ LastLooked(t) = base + Last
  BY <1>1, Places
<1>4. p \in Nat /\ base <= p /\ p <= base + SuperPages - 1
  <2>1. p \in base..(base + Last) BY <1>2, <1>3
  <2>2. QED BY <2>1
<1>5. BootSupers * SuperPages <= base /\ BootSupers * SuperPages \in Nat
  <2>1. BootSupers <= t BY <1>1
  <2>2. QED BY <1>1, <1>3, <2>1, Product
<1>6. base + SuperPages <= Supers * SuperPages /\ Supers * SuperPages \in Nat
  <2>1. t < Supers BY <1>1
  <2>2. QED BY <1>1, <1>3, <2>1, Product
<1>7. PICK a \in Nat, b \in Nat : a = BootSupers * SuperPages /\ b = Supers * SuperPages
  BY <1>5, <1>6
<1>8. a <= base /\ base + SuperPages <= b BY <1>5, <1>6, <1>7
<1>9. p >= a /\ p \in 0..(b - 1) BY <1>4, <1>8
<1>10. QED BY <1>4, <1>7, <1>9 DEF Pages

LEMMA SamePages ==
    ASSUME page_bitmap' = page_bitmap
    PROVE  /\ Followers => Followers'
           /\ InOrder => InOrder'
           /\ Starts' = Starts
<1>1. Followers => Followers' BY DEF Followers
<1>2. InOrder => InOrder' BY DEF InOrder, Untouched, Free
<1>3. Starts' = Starts
  <2>1. \A s : StartsIn(s)' = StartsIn(s) BY DEF StartsIn
  <2>2. QED BY <2>1 DEF Starts
<1>4. QED BY <1>1, <1>2, <1>3

\* What is given and marked only grows, so tables that are right were right before.
LEMMA StillReliable ==
    ASSUME given \subseteq given', page_bitmap \subseteq page_bitmap', Reliable'
    PROVE  Reliable
<1>1. AllFit BY DEF Reliable, AllFit
<1>2. LastWordHasRoom BY DEF Reliable, LastWordHasRoom
<1>3. QED BY <1>1, <1>2 DEF Reliable

LEMMA PlacedIn ==
    ASSUME NEW r, Placed(r)
    PROVE  r.start \in Pages /\ r.start + r.n <= Supers * SuperPages
<1> USE Geometry
<1>1. LastSuper * SuperPages <= Supers * SuperPages
      /\ LastSuper * SuperPages \in Nat /\ Supers * SuperPages \in Nat
  BY Product
<1>2. PICK a \in Nat, b \in Nat :
         a = LastSuper * SuperPages /\ b = Supers * SuperPages /\ a <= b
  BY <1>1
<1>3. r.start \in Nat /\ r.n \in Nat /\ r.n > 0 /\ r.start + r.n <= a
  BY <1>2, MoreCoreAssumption DEF Placed
<1>4. r.start \in 0..(b - 1) /\ r.start + r.n <= b BY <1>2, <1>3
<1>5. QED BY <1>2, <1>4 DEF Pages

LEMMA LookKeeps ==
    ASSUME OneCaller, MInv, NEW c \in Callers, NEW heap,
           NEW n \in KernelSizes \cup UserSizes,
           NEW lo \in Nat, NEW hi \in Nat, lo <= hi, hi * WordSupers <= Supers,
           \A s \in (lo * WordSupers)..(hi * WordSupers - 1) : First(s) = lo * WordSupers,
           Look(c, heap, n, lo, hi)
    PROVE  MInv'
<1> USE Geometry
<1>1. Basic BY DEF MInv
<1>2. n \in Nat /\ KernelSizes \cup UserSizes \subseteq Nat BY MoreCoreAssumption
<1> DEFINE scan == Search(n, lo, hi)
<1>3. /\ n > 0 /\ scan.size >= n /\ calls < MaxCalls /\ calls' = calls + 1
      /\ found' = [found EXCEPT ![c] = [start |-> scan.start, n |-> n,
                                          id |-> calls + 1, heap |-> heap]]
      /\ page_bitmap' = page_bitmap /\ superpage_bitmap' = superpage_bitmap
      /\ superpage_count' = superpage_count /\ given' = given
  BY DEF Look
<1>4. PICK r : r = [start |-> scan.start, n |-> n, id |-> calls + 1, heap |-> heap] OBVIOUS
<1>5. r.start = scan.start /\ r.n = n BY <1>4
<1>6. Placed(r)
  <2>1. PICK first \in Nat, last \in Nat :
           first = lo * WordSupers /\ last = hi * WordSupers /\ first <= last
    BY Product
  <2>2. PICK f : SearchScans(f, n, first, last) /\ scan = f[last] BY <2>1, SearchFunction
  <2> HIDE DEF scan
  <2>3. f[last].start \in Nat /\ f[last].start + n <= LastSuper * SuperPages
    BY <1>1, <1>2, <1>3, <2>1, <2>2, SearchEnds DEF Basic
  <2>4. QED BY <1>3, <1>5, <2>2, <2>3 DEF Placed
<1>7. found' = [d \in Callers |-> r]
  <2> HIDE DEF scan
  <2>1. found = [d \in Callers |-> found[d]] BY <1>1 DEF Basic
  <2>2. found' = [found EXCEPT ![c] = r] BY <1>3, <1>4
  <2>3. \A d \in Callers : d = c BY DEF OneCaller
  <2>4. QED BY <2>1, <2>2, <2>3
<1>8. \A d \in Callers : found'[d] = r BY <1>7
<1>9. Basic'
  <2> HIDE DEF scan
  <2>1. TypeOK'
    <3>1. calls' \in 0..MaxCalls
      <4>1. calls \in 0..MaxCalls /\ MaxCalls \in Nat
        BY <1>1, MoreCoreAssumption DEF Basic, TypeOK
      <4>2. QED BY <1>3, <4>1
    <3>2. /\ page_bitmap' \subseteq Pages /\ superpage_bitmap' \subseteq 0..LastSuper
          /\ DOMAIN superpage_count' = 0..LastSuper
      BY <1>1, <1>3 DEF Basic, TypeOK
    <3>3. \A d \in Callers : /\ found'[d].start \in Pages
                             /\ found'[d].n \in KernelSizes \cup UserSizes
      BY <1>5, <1>6, <1>8, PlacedIn
    <3>4. QED BY <3>1, <3>2, <3>3, Zenon DEF TypeOK
  <2>2. superpage_count'[LastSuper] = 0 BY <1>1, <1>3 DEF Basic
  <2>3. found' = [d \in Callers |-> found'[d]] BY <1>7
  <2>4. \A d \in Callers : found'[d] # Idle => Placed(found'[d]) BY <1>6, <1>8
  <2>5. \A a \in given' : a.start + a.n <= LastSuper * SuperPages BY <1>1, <1>3 DEF Basic
  <2>6. QED BY <2>1, <2>2, <2>3, <2>4, <2>5, Zenon DEF Basic
<1>10. ASSUME Reliable' PROVE Strong'
  <2>1. Reliable BY <1>3, <1>10, StillReliable
  <2>2. Exact /\ BootIsLeft /\ Followers /\ InOrder /\ FoundIsFree /\ GivenIsMarked
        /\ GivenApart
    BY <2>1 DEF MInv, Strong
  <2>3. Followers' /\ InOrder' /\ Starts' = Starts BY <1>3, <2>2, SamePages
  <2>4. FoundIsFree'
    <3>1. CASE Fits(n)
      <4>1. scan.start \in Starts /\ Free(scan.start, scan.start + n - 1)
        BY <1>1, <1>2, <1>3, <2>2, <3>1, SearchFinds DEF Basic
      <4> HIDE DEF scan
      <4>2. \A p \in (r.start)..(r.start + r.n - 1) : p \notin page_bitmap'
        BY <1>3, <1>5, <4>1 DEF Free
      <4>3. r.start \in Starts' BY <1>5, <2>3, <4>1
      <4>4. QED BY <1>8, <4>2, <4>3 DEF FoundIsFree, Free
    <3>2. CASE ~ Fits(n)
      <4>1. \A d \in Callers : ~ Fits(found'[d].n) BY <1>5, <1>8, <3>2
      <4>2. QED BY <4>1 DEF FoundIsFree, Fits
    <3>3. QED BY <3>1, <3>2
  <2>5. Exact' BY <1>3, <2>2 DEF Exact, SuperFull
  <2>6. BootIsLeft' /\ GivenIsMarked' /\ GivenApart'
    BY <1>3, <2>2 DEF BootIsLeft, GivenIsMarked, GivenApart
  <2>7. QED BY <2>3, <2>4, <2>5, <2>6 DEF Strong
<1>11. QED BY <1>9, <1>10 DEF MInv
-----------------------------------------------------------------------------
(* A call: the marks.                                                         *)
LEMMA OfSuper ==
    ASSUME NEW s \in Nat, NEW p \in Nat
    PROVE  Super(p) = s <=> p \in Run(s * SuperPages, SuperPages)
<1>1. SuperPages \in Nat /\ SuperPages > 0 BY Geometry
<1>2. PICK q \in Nat : q = p \div SuperPages BY <1>1
<1>3. q * SuperPages <= p /\ p < q * SuperPages + SuperPages
  <2>1. (p \div SuperPages) * SuperPages <= p BY <1>1
  <2>2. p < (p \div SuperPages) * SuperPages + SuperPages BY <1>1
  <2>3. QED BY <1>2, <2>1, <2>2
<1>4. PICK a \in Nat, b \in Nat : a = q * SuperPages /\ b = s * SuperPages
  BY <1>1, Product
<1>5. q < s => a + SuperPages <= b BY <1>1, <1>4, Product
<1>6. s < q => b + SuperPages <= a BY <1>1, <1>4, Product
<1>7. a <= p /\ p < a + SuperPages BY <1>3, <1>4
<1>8. p \in b..(b + SuperPages - 1) => q = s BY <1>1, <1>5, <1>6, <1>7
<1>9. q = s => p \in b..(b + SuperPages - 1)
  <2>1. q = s => a = b BY <1>4
  <2>2. QED BY <1>1, <1>7, <2>1
<1>10. QED BY <1>2, <1>4, <1>8, <1>9 DEF Super, Run

\* What a run takes of a superpage is taken from its free pages.
TakesOf(s, run) ==
    LET all  == Run(s * SuperPages, SuperPages)
        left == Cardinality(all \ page_bitmap)
    IN  /\ left \in Nat /\ Taken(s, run) \in Nat /\ Taken(s, run) <= left
        /\ Cardinality(all \ (page_bitmap \cup run)) = left - Taken(s, run)
        /\ Taken(s, run) = left <=> all \subseteq page_bitmap \cup run
        /\ left = 0 <=> all \subseteq page_bitmap

LEMMA TakesFree ==
    ASSUME NEW s \in Nat, NEW run, run \subseteq Nat, run \cap page_bitmap = {}
    PROVE  TakesOf(s, run)
<1> DEFINE all == Run(s * SuperPages, SuperPages)
           X == all \ page_bitmap
           T == {p \in run : Super(p) = s}
<1>1. T = run \cap all
  <2>1. \A p \in run : Super(p) = s <=> p \in all BY OfSuper
  <2>2. QED BY <2>1
<1>2. IsFiniteSet(all)
  <2>1. SuperPages \in Nat BY Geometry
  <2>2. s * SuperPages \in Int /\ s * SuperPages + SuperPages - 1 \in Int BY <2>1, Product
  <2>3. QED BY <2>2, FS_Interval DEF Run
<1> HIDE DEF all, T
<1>3. T \in SUBSET X BY <1>1
<1>4. IsFiniteSet(X) /\ X \in SUBSET all
  <2>1. X \in SUBSET all OBVIOUS
  <2>2. QED BY <1>2, <2>1, FS_Subset
<1>5. IsFiniteSet(T) /\ Cardinality(T) <= Cardinality(X)
      /\ (Cardinality(X) = Cardinality(T) => X = T)
  BY <1>3, <1>4, FS_Subset
<1>6. Cardinality(X) \in Nat /\ Cardinality(T) \in Nat BY <1>4, <1>5, FS_CardinalityType
<1>7. all \ (page_bitmap \cup run) = X \ T BY <1>1
<1>8. Cardinality(X \ T) = Cardinality(X) - Cardinality(T)
  <2>1. Cardinality(X \ T) = Cardinality(X) - Cardinality(X \cap T) BY <1>4, FS_Difference
  <2>2. X \cap T = T BY <1>3
  <2>3. QED BY <2>1, <2>2
<1>9. X = T <=> all \subseteq page_bitmap \cup run BY <1>1
<1>10. Cardinality(X) = 0 <=> all \subseteq page_bitmap
  <2>1. Cardinality(X) = 0 <=> X = {} BY <1>4, FS_EmptySet
  <2>2. QED BY <2>1
<1>11. Taken(s, run) = Cardinality(T) BY DEF Taken, T
<1> HIDE DEF X
<1>12. /\ Cardinality(X) \in Nat /\ Taken(s, run) \in Nat
       /\ Taken(s, run) <= Cardinality(X)
       /\ Cardinality(all \ (page_bitmap \cup run)) = Cardinality(X) - Taken(s, run)
       /\ Taken(s, run) = Cardinality(X) <=> all \subseteq page_bitmap \cup run
       /\ Cardinality(X) = 0 <=> all \subseteq page_bitmap
  BY <1>5, <1>6, <1>7, <1>8, <1>9, <1>10, <1>11
<1>13. QED BY <1>12 DEF all, X, TakesOf

\* The run a caller found, on its way to be marked.
Fresh(r) ==
    /\ r.start \in Starts /\ r.n \in Nat /\ r.n > 0
    /\ Free(r.start, r.start + r.n - 1)
    /\ r.start + r.n <= Supers * SuperPages

LEMMA FreshRun ==
    ASSUME NEW r, Fresh(r)
    PROVE  LET run == Run(r.start, r.n)
           IN  /\ run = (r.start)..(r.start + r.n - 1)
               /\ r.start \in Nat /\ r.start \in run
               /\ run \subseteq Nat /\ run \subseteq Pages /\ run \cap page_bitmap = {}
               /\ r.start >= BootSupers * SuperPages
<1> DEFINE run == Run(r.start, r.n)
<1>1. r.start \in Nat /\ r.start >= BootSupers * SuperPages
  BY StartsArePages DEF Fresh
<1>2. r.n \in Nat /\ r.n > 0 /\ r.start + r.n <= Supers * SuperPages BY DEF Fresh
<1>3. run = (r.start)..(r.start + r.n - 1) BY DEF Run
<1>4. run \cap page_bitmap = {} BY <1>3 DEF Fresh, Free
<1> HIDE DEF run
<1>5. r.start \in run /\ run \subseteq Nat BY <1>1, <1>2, <1>3
<1>6. run \subseteq Pages
  <2>1. Supers * SuperPages \in Nat BY Geometry, Product
  <2>2. PICK b \in Nat : b = Supers * SuperPages BY <2>1
  <2>3. \A p \in run : p \in 0..(b - 1) BY <1>1, <1>2, <1>3, <2>2
  <2>4. QED BY <2>2, <2>3 DEF Pages
<1>7. QED BY <1>1, <1>3, <1>4, <1>5, <1>6 DEF run

\* A run takes every page it starts below of those that take a neighbour's word.
LEMMA MarkFollowers ==
    ASSUME Followers, NEW r, Fresh(r),
           page_bitmap' = page_bitmap \cup Run(r.start, r.n)
    PROVE  Followers'
<1> DEFINE run == Run(r.start, r.n)
<1>1. run = (r.start)..(r.start + r.n - 1) /\ r.start \in Nat BY FreshRun
<1> HIDE DEF run
<1>2. page_bitmap' = page_bitmap \cup run BY DEF run
<1>3. PICK t \in Nat : r.start \in Looked(t)
  <2>1. r.start \in Starts BY DEF Fresh
  <2>2. QED BY <2>1, StartsAre
<1>4. ASSUME NEW s \in 0..(Supers - 1), NEW p \in Unseen(s), p \in page_bitmap'
      PROVE  p - 1 \in page_bitmap'
  <2>1. CASE p \in page_bitmap
    <3>1. p - 1 \in page_bitmap BY <2>1 DEF Followers
    <3>2. QED BY <1>2, <3>1
  <2>2. CASE p \in run
    <3>1. s \in Nat OBVIOUS
    <3>2. p # r.start BY <1>3, <3>1, LookedAt
    <3>3. r.n \in Nat BY DEF Fresh
    <3>4. p - 1 \in (r.start)..(r.start + r.n - 1) BY <1>1, <2>2, <3>2, <3>3
    <3>5. QED BY <1>1, <1>2, <3>4
  <2>3. QED BY <1>2, <1>4, <2>1, <2>2
<1>5. QED BY <1>4 DEF Followers

\* A run that comes into a superpage takes the room right below it.
LEMMA MarkInOrder ==
    ASSUME InOrder, NEW r, Fresh(r),
           page_bitmap' = page_bitmap \cup Run(r.start, r.n)
    PROVE  InOrder'
<1> USE Geometry
<1> DEFINE run == Run(r.start, r.n)
<1>1. run = (r.start)..(r.start + r.n - 1) /\ r.start \in Nat BY FreshRun
<1> HIDE DEF run
<1>2. page_bitmap' = page_bitmap \cup run BY DEF run
<1>3. PICK t \in BootSupers..(Supers - 1) :
         /\ t \in Nat /\ r.start \in Looked(t)
         /\ Before(t) => LastLooked(t - 1) \in page_bitmap
  <2>1. r.start \in Starts BY DEF Fresh
  <2>2. QED BY <2>1, StartsAre
<1>4. ASSUME NEW s \in 0..(Supers - 1), Before(s), LastLooked(s - 1) \notin page_bitmap',
             NEW p \in (s * SuperPages)..(s * SuperPages + SuperPages - 1),
             p \in page_bitmap'
      PROVE  FALSE
  <2>1. LastLooked(s - 1) \notin page_bitmap /\ LastLooked(s - 1) \notin run BY <1>2, <1>4
  <2>2. Untouched(s) BY <1>4, <2>1 DEF InOrder
  <2>3. p \in run
    <3>1. p \notin page_bitmap BY <2>2 DEF Untouched, Free
    <3>2. QED BY <1>2, <1>4, <3>1
  <2>4. s \in Nat /\ s - 1 \in Nat /\ (s - 1) + 1 = s BY <1>4 DEF Before
  <2>5. PICK base \in Nat : base = s * SuperPages BY <2>4, Places
  <2>6. (s + 1) * SuperPages = base + SuperPages
    <3>1. (s + 1) * SuperPages = s * SuperPages + SuperPages BY <2>4, Places
    <3>2. QED BY <2>5, <3>1
  <2>7. LastLooked(s - 1) < base /\ LastLooked(s - 1) \in Int
    <3>1. /\ ((s - 1) + 1) * SuperPages = (s - 1) * SuperPages + SuperPages
          /\ (s - 1) * SuperPages \in Nat
          /\ LastLooked(s - 1) = (s - 1) * SuperPages + Last
      BY <2>4, Places
    <3>2. PICK b \in Nat : b = (s - 1) * SuperPages BY <3>1
    <3>3. base = b + SuperPages /\ LastLooked(s - 1) = b + Last BY <2>4, <2>5, <3>1, <3>2
    <3>4. QED BY <3>3
  <2>8. p \in base..(base + SuperPages - 1) BY <2>5
  <2>9. r.n \in Nat /\ r.start <= p /\ p <= r.start + r.n - 1 BY <1>1, <2>3 DEF Fresh
  <2>10. r.start < (s + 1) * SuperPages
    <3>1. r.start \in Nat BY <1>1
    <3>2. p \in Nat /\ p < base + SuperPages BY <2>8
    <3>3. r.start < base + SuperPages BY <2>9, <3>1, <3>2
    <3>4. QED BY <2>6, <3>3
  <2>11. t <= s BY <1>3, <2>4, <2>10, LookedAt
  <2>12. CASE t = s
    BY <1>3, <1>4, <2>1, <2>12
  <2>13. CASE t < s
    <3>1. r.start <= LastLooked(t) BY <1>3, LookedAt
    <3>2. r.start < s * SuperPages
      <4>1. /\ LastLooked(t) = t * SuperPages + Last /\ t * SuperPages \in Nat
        BY <1>3, Places
      <4>2. PICK b \in Nat : b = t * SuperPages BY <4>1
      <4>3. b + SuperPages <= base BY <1>3, <2>4, <2>5, <2>13, <4>2, Product
      <4>4. r.start < base
        <5>1. r.start \in Nat BY <1>1
        <5>2. r.start <= b + Last BY <3>1, <4>1, <4>2
        <5>3. b + Last < b + SuperPages OBVIOUS
        <5>4. QED BY <4>3, <5>1, <5>2, <5>3
      <4>5. QED BY <2>5, <4>4
    <3>3. r.start <= LastLooked(s - 1)
      <4>1. r.start < ((s - 1) + 1) * SuperPages BY <2>4, <3>2
      <4>2. QED BY <1>3, <2>4, <4>1, LookedAt
    <3>4. LastLooked(s - 1) \in (r.start)..(r.start + r.n - 1)
      <4>1. r.start \in Nat BY <1>1
      <4>2. p \in Nat /\ base <= p BY <2>8
      <4>3. QED BY <2>7, <2>9, <3>3, <4>1, <4>2
    <3>5. QED BY <1>1, <2>1, <3>4
  <2>14. QED BY <1>3, <2>4, <2>11, <2>12, <2>13
<1>5. \A s \in 0..(Supers - 1) :
         Before(s) /\ LastLooked(s - 1) \notin page_bitmap'
            => \A p \in (s * SuperPages)..(s * SuperPages + SuperPages - 1) :
                  p \notin page_bitmap'
  BY <1>4
<1>6. QED BY <1>5 DEF InOrder, Untouched, Free

\* The words that two arrays share, as long as nothing is put into them.
LEMMA Halves ==
    /\ ShortBits \in Nat /\ ShortBits >= 1 /\ ShortBits + ShortBits = WordSupers
    /\ \A i \in 0..(WordSupers - 1) : /\ i \div ShortBits \in {0, 1}
                                      /\ i % ShortBits \in 0..(ShortBits - 1)
<1>1. WordSupers \in Nat /\ WordSupers >= 2 /\ WordSupers % 2 = 0 BY MoreCoreAssumption
<1>2. ShortBits \in Nat /\ ShortBits + ShortBits = WordSupers BY <1>1 DEF ShortBits
<1>3. ShortBits >= 1 BY <1>1, <1>2
<1>4. ASSUME NEW i \in 0..(WordSupers - 1)
      PROVE  i \div ShortBits \in {0, 1} /\ i % ShortBits \in 0..(ShortBits - 1)
  <2>1. PICK h \in Nat : h = ShortBits /\ h >= 1 /\ i \in 0..(h + h - 1) BY <1>2, <1>3
  <2>2. PICK q \in Int, m \in 0..(h - 1) : q = i \div h /\ m = i % h /\ i = q * h + m
    BY <2>1
  <2>3. q = 0 \/ q = 1
    <3>1. q >= 2 => q * h >= 2 * h BY <2>1
    <3>2. q < 0 => q * h <= 0 - h BY <2>1
    <3>3. QED BY <2>1, <2>2, <3>1, <3>2
  <2>4. QED BY <2>1, <2>2, <2>3
<1>5. QED BY <1>2, <1>3, <1>4

LEMMA Powers == \A b \in 0..ShortBits : Power[b] \in Nat /\ Power[b] > 0
<1> DEFINE step == [z \in Nat \X (1..ShortBits) |-> 2 * z[1]]
<1>1. 0 \in Nat /\ ShortBits \in Nat /\ 0 <= ShortBits BY Halves
<1>2. PICK f : Solves(f, 0, ShortBits, Nat, 1, step)
  <2>1. ASSUME NEW y \in Nat, NEW k \in (0 + 1)..ShortBits PROVE step[<<y, k>>] \in Nat
    <3>1. <<y, k>> \in Nat \X (1..ShortBits) OBVIOUS
    <3>2. QED BY <3>1
  <2> HIDE DEF step
  <2>2. Stepping(0, ShortBits, Nat, step) BY <2>1, Zenon DEF Stepping
  <2>3. 1 \in Nat OBVIOUS
  <2>4. QED BY <1>1, <2>2, <2>3, Iteration
<1>3. f = [b \in 0..ShortBits |-> IF b = 0 THEN 1 ELSE 2 * f[b - 1]]
  <2>1. f \in [0..ShortBits -> Nat]
        /\ \A k \in 0..ShortBits : f[k] = IF k = 0 THEN 1 ELSE step[<<f[k - 1], k>>]
    BY <1>2, Zenon DEF Solves
  <2>2. ASSUME NEW k \in 0..ShortBits, k # 0 PROVE step[<<f[k - 1], k>>] = 2 * f[k - 1]
    <3>1. k - 1 \in 0..ShortBits /\ k \in 1..ShortBits BY <1>1, <2>2
    <3>2. f[k - 1] \in Nat BY <2>1, <3>1
    <3>3. <<f[k - 1], k>> \in Nat \X (1..ShortBits) BY <3>1, <3>2
    <3>4. QED BY <3>3
  <2> HIDE DEF step
  <2>3. QED BY <2>1, <2>2
<1>4. Power = [b \in 0..ShortBits |-> IF b = 0 THEN 1 ELSE 2 * Power[b - 1]]
  BY <1>3 DEF Power
<1> DEFINE P == {b \in 0..ShortBits : Power[b] \in Nat /\ Power[b] > 0}
<1>5. 0 \in P
  <2>1. 0 \in 0..ShortBits BY <1>1
  <2>2. Power[0] = 1 BY <1>4, <2>1
  <2>3. QED BY <2>1, <2>2
<1>6. ASSUME NEW b \in (0 + 1)..ShortBits, b - 1 \in P PROVE b \in P
  <2>1. b \in 0..ShortBits /\ b # 0 BY <1>1
  <2>2. Power[b] = 2 * Power[b - 1] BY <1>4, <2>1
  <2>3. Power[b - 1] \in Nat /\ Power[b - 1] > 0 BY <1>6
  <2>4. Power[b] \in Nat /\ Power[b] > 0 BY <2>2, <2>3
  <2>5. QED BY <2>1, <2>4
<1> HIDE DEF P
<1>7. \A b \in 0..ShortBits : b \in P BY <1>1, <1>5, <1>6, Climb
<1>8. QED BY <1>7 DEF P

LEMMA NoBitOfZero == \A i \in 0..(WordSupers - 1) : ~ BitSet(0, i % ShortBits)
<1>1. TAKE i \in 0..(WordSupers - 1)
<1>2. PICK b \in 0..(ShortBits - 1) : b = i % ShortBits BY Halves
<1>3. Power[b] \in Nat /\ Power[b] > 0
  <2>1. b \in 0..ShortBits BY Halves
  <2>2. QED BY <2>1, Powers
<1>4. 0 \div Power[b] = 0 BY <1>3
<1>5. ~ BitSet(0, b) BY <1>4 DEF BitSet
<1>6. QED BY <1>2, <1>5

LEMMA NothingPut == ASSUME NEW v PROVE WithBits(v, {}) = v
<1> DEFINE with == CHOOSE w : w = [b \in 0..ShortBits |->
                       IF b = 0 THEN v ELSE IF b - 1 \in {} THEN Or(w[b - 1], b - 1)
                       ELSE w[b - 1]]
           plain == [b \in 0..ShortBits |-> v]
<1>1. WithBits(v, {}) = with[ShortBits] BY DEF WithBits
<1>2. \A b \in 0..ShortBits : b # 0 => b - 1 \in 0..ShortBits BY Halves
<1>3. plain = [b \in 0..ShortBits |->
                  IF b = 0 THEN v ELSE IF b - 1 \in {} THEN Or(plain[b - 1], b - 1)
                  ELSE plain[b - 1]]
  BY <1>2
<1>4. with = [b \in 0..ShortBits |->
                 IF b = 0 THEN v ELSE IF b - 1 \in {} THEN Or(with[b - 1], b - 1)
                 ELSE with[b - 1]]
  BY <1>3
<1> HIDE DEF with
<1> DEFINE P == {b \in 0..ShortBits : with[b] = v}
<1>5. 0 \in Nat /\ ShortBits \in Nat /\ 0 \in 0..ShortBits BY Halves
<1>6. 0 \in P BY <1>4, <1>5
<1>7. ASSUME NEW b \in (0 + 1)..ShortBits, b - 1 \in P PROVE b \in P
  <2>1. b \in 0..ShortBits /\ b # 0 BY <1>5
  <2>2. with[b] = with[b - 1] BY <1>4, <2>1
  <2>3. QED BY <1>7, <2>1, <2>2
<1> HIDE DEF P
<1>8. \A b \in 0..ShortBits : b \in P BY <1>5, <1>6, <1>7, Climb
<1>9. ShortBits \in P BY <1>5, <1>8
<1>10. QED BY <1>1, <1>9 DEF P

\* A count is a short.
LEMMA ShortIs == ASSUME NEW v \in 0..SuperPages PROVE Short(v) = v
<1>1. ShortTop \in Nat /\ SuperPages \in Nat /\ ShortTop > SuperPages
  BY Geometry, MoreCoreAssumption DEF SuperPages
<1>2. v + ShortTop \in Nat /\ 2 * ShortTop \in Nat /\ v + ShortTop < 2 * ShortTop BY <1>1
<1>3. \A x, b \in Nat : x < b => x % b = x OBVIOUS
<1>4. (v + ShortTop) % (2 * ShortTop) = v + ShortTop BY <1>2, <1>3
<1>5. QED BY <1>1, <1>4 DEF Short

\* A run that stays below a superpage takes none of its pages.
LEMMA TakesNone ==
    ASSUME NEW s \in Nat, NEW run, run \subseteq Nat,
           \A p \in run : p < s * SuperPages \/ p >= (s + 1) * SuperPages
    PROVE  Taken(s, run) = 0
<1>1. {p \in run : Super(p) = s} = {}
  <2>1. SUFFICES ASSUME NEW p \in run, Super(p) = s PROVE FALSE OBVIOUS
  <2>2. p \in Nat OBVIOUS
  <2>3. p \in Run(s * SuperPages, SuperPages) BY <2>1, <2>2, OfSuper
  <2>4. (s + 1) * SuperPages = s * SuperPages + SuperPages /\ s * SuperPages \in Nat
        /\ SuperPages \in Nat
    BY Places, Geometry
  <2>5. PICK a \in Nat : a = s * SuperPages BY <2>4
  <2>6. p \in a..(a + SuperPages - 1) BY <2>3, <2>5 DEF Run
  <2>7. p < a \/ p >= a + SuperPages BY <2>4, <2>5
  <2>8. QED BY <2>2, <2>4, <2>6, <2>7
<1>2. QED BY <1>1, FS_EmptySet DEF Taken

\* Whatever it is marked for, a run that was found leaves the last superpage alone.
LEMMA PlacedRun ==
    ASSUME NEW r, Placed(r)
    PROVE  LET run == Run(r.start, r.n)
           IN  /\ run \subseteq Pages
               /\ Stray(run) = {}
               /\ Taken(LastSuper, run) = 0
<1> USE Geometry
<1> DEFINE run == Run(r.start, r.n)
<1>1. PICK a \in Nat, b \in Nat :
         a = LastSuper * SuperPages /\ b = Supers * SuperPages /\ a <= b
  BY Product
<1>2. r.start \in Nat /\ r.n \in Nat /\ r.n > 0 /\ r.start + r.n <= a
  BY <1>1, MoreCoreAssumption DEF Placed
<1>3. run = (r.start)..(r.start + r.n - 1) BY DEF Run
<1> HIDE DEF run
<1>4. \A p \in run : p \in Nat /\ p < a BY <1>2, <1>3
<1>5. run \subseteq Pages
  <2>1. \A p \in run : p \in 0..(b - 1) BY <1>1, <1>4
  <2>2. QED BY <1>1, <2>1 DEF Pages
<1>6. Stray(run) = {}
  <2>1. (Groups - 1) * Bits \in Nat
    <3>1. Groups - 1 \in Nat OBVIOUS
    <3>2. QED BY <3>1, Product
  <2>2. PICK g \in Nat : g = a + (Groups - 1) * Bits /\ g >= a BY <2>1
  <2>3. LastGroup = g..(g + Bits - 1) BY <1>1, <2>2 DEF LastGroup, Run
  <2>4. \A p \in run : p \notin LastGroup BY <1>4, <2>2, <2>3
  <2>5. QED BY <2>4 DEF Stray
<1>7. Taken(LastSuper, run) = 0
  <2>1. run \subseteq Nat BY <1>4
  <2>2. QED BY <1>1, <1>4, <2>1, TakesNone
<1>8. QED BY <1>5, <1>6, <1>7 DEF run

\* The counts and the bits after a run has been marked, when the last word has room.
LEMMA MarkCounts ==
    ASSUME Exact, BootIsLeft, superpage_count[LastSuper] = 0, LastWordHasRoom',
           NEW r, Fresh(r), Placed(r),
           page_bitmap' = page_bitmap \cup Run(r.start, r.n),
           NEW full, full = {s \in 0..LastSuper : Filled(s, Run(r.start, r.n))},
           superpage_count' = PutBits(Less(Run(r.start, r.n)), full),
           superpage_bitmap' = superpage_bitmap \cup {s \in full : s < LastWord}
                                  \cup Stray(Run(r.start, r.n))
    PROVE  BootIsLeft' /\ Exact'
<1> USE Geometry
<1>1. PICK run : run = Run(r.start, r.n) OBVIOUS
<1>2. run \subseteq Nat /\ run \cap page_bitmap = {} /\ run = (r.start)..(r.start + r.n - 1)
      /\ r.start \in Nat /\ r.start >= BootSupers * SuperPages
  BY <1>1, FreshRun
<1>3. page_bitmap' = page_bitmap \cup run /\ Stray(run) = {} BY <1>1, PlacedRun
<1> DEFINE All(s) == Run(s * SuperPages, SuperPages)
           Left(s) == Cardinality(All(s) \ page_bitmap)
<1>4. ASSUME NEW s \in Nat
      PROVE  /\ Left(s) \in Nat /\ Taken(s, run) \in Nat /\ Taken(s, run) <= Left(s)
             /\ Cardinality(All(s) \ (page_bitmap \cup run)) = Left(s) - Taken(s, run)
             /\ Taken(s, run) = Left(s) <=> All(s) \subseteq page_bitmap \cup run
             /\ Left(s) = 0 <=> All(s) \subseteq page_bitmap
  <2>1. TakesOf(s, run) BY <1>2, TakesFree
  <2>2. QED BY <2>1 DEF TakesOf
<1>5. ASSUME NEW s \in BootSupers..(LastSuper - 1)
      PROVE  /\ superpage_count[s] = Left(s) /\ (SuperFull(s) <=> All(s) \subseteq page_bitmap)
             /\ s \in Nat /\ s \in 0..LastSuper
  BY DEF Exact
<1> HIDE DEF All, Left
<1>6. ASSUME NEW s \in BootSupers..(LastSuper - 1)
      PROVE  /\ Filled(s, run) <=> Left(s) > 0 /\ Taken(s, run) >= Left(s)
             /\ Filled(s, run) => All(s) \subseteq page_bitmap'
             /\ All(s) \subseteq page_bitmap' => Left(s) = 0 \/ Filled(s, run)
  <2>1. superpage_count[s] = Left(s) /\ s \in Nat BY <1>5
  <2>2. Filled(s, run) <=> Left(s) > 0 /\ Taken(s, run) >= Left(s) BY <2>1 DEF Filled
  <2>3. /\ Left(s) \in Nat /\ Taken(s, run) \in Nat /\ Taken(s, run) <= Left(s)
        /\ Taken(s, run) = Left(s) <=> All(s) \subseteq page_bitmap \cup run
        /\ Left(s) = 0 <=> All(s) \subseteq page_bitmap
    BY <1>4, <2>1
  <2>4. Filled(s, run) => All(s) \subseteq page_bitmap'
    <3>1. Taken(s, run) >= Left(s) => Taken(s, run) = Left(s) BY <2>3
    <3>2. QED BY <1>3, <2>2, <2>3, <3>1
  <2>5. All(s) \subseteq page_bitmap' => Left(s) = 0 \/ Filled(s, run)
    BY <1>3, <2>2, <2>3
  <2>6. QED BY <2>2, <2>4, <2>5
<1>7. \A s \in LastWord..LastSuper : s \notin full
  <2>1. SUFFICES ASSUME NEW s \in LastWord..LastSuper, Filled(s, run) PROVE FALSE BY <1>1
  <2>2. s # LastSuper BY <2>1 DEF Filled
  <2>3. s \in BootSupers..(LastSuper - 1) BY <2>2
  <2>4. All(s) \subseteq page_bitmap' BY <1>6, <2>1, <2>3
  <2>5. ~ (All(s) \subseteq page_bitmap') BY DEF LastWordHasRoom, All
  <2>6. QED BY <2>4, <2>5
<1>8. \A h \in {0, 1} : BitsOf(h, full) = {}
  <2>1. ASSUME NEW h \in {0, 1}, NEW b \in 0..(ShortBits - 1)
        PROVE  LastWord + h * ShortBits + b \in LastWord..LastSuper
    <3>1. ShortBits \in Nat /\ ShortBits + ShortBits = WordSupers BY Halves
    <3>2. LastSuper = LastWord + WordSupers - 1 OBVIOUS
    <3>3. h * ShortBits = 0 \/ h * ShortBits = ShortBits BY <3>1
    <3>4. QED BY <3>1, <3>2, <3>3
  <2>2. QED BY <1>7, <2>1 DEF BitsOf
<1>9. \A s \in 0..LastSuper : superpage_count'[s] = Short(superpage_count[s] - Taken(s, run))
  <2>1. TAKE s \in 0..LastSuper
  <2>2. Less(run)[s] = Short(superpage_count[s] - Taken(s, run)) BY DEF Less
  <2>3. superpage_count'[s]
           = IF s \in {0, 1} THEN WithBits(Less(run)[s], BitsOf(s, full)) ELSE Less(run)[s]
    BY <1>1 DEF PutBits
  <2>4. s \in {0, 1} => WithBits(Less(run)[s], BitsOf(s, full)) = Less(run)[s]
    BY <1>8, NothingPut
  <2>5. QED BY <2>2, <2>3, <2>4
<1>10. ASSUME NEW s \in 0..(BootSupers - 1) PROVE superpage_count'[s] = 0
  <2>1. s \in Nat /\ s \in 0..LastSuper /\ s + 1 \in Nat /\ s + 1 <= BootSupers OBVIOUS
  <2>2. superpage_count[s] = 0 BY DEF BootIsLeft
  <2>3. PICK a \in Nat, b \in Nat :
           a = (s + 1) * SuperPages /\ b = BootSupers * SuperPages /\ a <= b
    BY <2>1, Product
  <2>4. \A p \in run : p >= a BY <1>2, <2>3
  <2>5. Taken(s, run) = 0 BY <1>2, <2>1, <2>3, <2>4, TakesNone
  <2>6. superpage_count'[s] = Short(0) BY <1>9, <2>1, <2>2, <2>5
  <2>7. 0 \in 0..SuperPages OBVIOUS
  <2>8. QED BY <2>6, <2>7, ShortIs
<1>11. ASSUME NEW s \in BootSupers..(LastSuper - 1)
       PROVE  /\ superpage_count'[s] = Cardinality(All(s) \ page_bitmap')
              /\ SuperFull(s)' <=> All(s) \subseteq page_bitmap'
  <2>1. s \in Nat /\ s \in 0..LastSuper BY <1>5
  <2>2. /\ Left(s) \in Nat /\ Taken(s, run) \in Nat /\ Taken(s, run) <= Left(s)
        /\ Cardinality(All(s) \ (page_bitmap \cup run)) = Left(s) - Taken(s, run)
        /\ Left(s) = 0 <=> All(s) \subseteq page_bitmap
    BY <1>4, <2>1
  <2>3. Left(s) <= SuperPages
    <3>1. PICK a \in Nat : a = s * SuperPages BY <2>1, Product
    <3>2. All(s) = a..(a + SuperPages - 1) BY <3>1 DEF All, Run
    <3>3. IsFiniteSet(All(s)) /\ Cardinality(All(s)) = SuperPages
      <4>1. a \in Int /\ a + SuperPages - 1 \in Int /\ ~ (a > a + SuperPages - 1)
            /\ (a + SuperPages - 1) - a + 1 = SuperPages
        OBVIOUS
      <4>2. QED BY <3>2, <4>1, FS_Interval
    <3>4. All(s) \ page_bitmap \in SUBSET All(s) OBVIOUS
    <3>5. QED BY <3>3, <3>4, FS_Subset DEF Left
  <2>4. superpage_count'[s] = Left(s) - Taken(s, run)
    <3>1. superpage_count'[s] = Short(Left(s) - Taken(s, run)) BY <1>5, <1>9, <2>1
    <3>2. Left(s) - Taken(s, run) \in 0..SuperPages BY <2>2, <2>3
    <3>3. QED BY <3>1, <3>2, ShortIs
  <2>5. superpage_count'[s] = Cardinality(All(s) \ page_bitmap') BY <1>3, <2>2, <2>4
  <2>6. CASE s < LastWord
    <3>1. SuperFull(s) <=> s \in superpage_bitmap BY <2>6 DEF SuperFull
    <3>2. SuperFull(s)' <=> s \in superpage_bitmap' BY <2>6 DEF SuperFull
    <3>3. s \in superpage_bitmap' <=> s \in superpage_bitmap \/ Filled(s, run)
      BY <1>1, <1>3, <2>1, <2>6
    <3>4. All(s) \subseteq page_bitmap => All(s) \subseteq page_bitmap' BY <1>3
    <3>5. QED BY <1>5, <1>6, <2>2, <2>5, <3>1, <3>2, <3>3, <3>4
  <2>7. CASE ~ (s < LastWord)
    <3>1. ~ (All(s) \subseteq page_bitmap')
      <4>1. s \in LastWord..LastSuper BY <2>7
      <4>2. QED BY <4>1 DEF LastWordHasRoom, All
    <3>2. PICK i \in 0..(WordSupers - 1) : i = s - LastWord
      <4>1. s - LastWord \in 0..(WordSupers - 1) BY <2>7
      <4>2. QED BY <4>1
    <3>3. superpage_count'[i \div ShortBits] = 0
      <4>1. 0 \in 0..(BootSupers - 1) /\ 1 \in 0..(BootSupers - 1) OBVIOUS
      <4>2. superpage_count'[0] = 0 /\ superpage_count'[1] = 0 BY <1>10, <4>1
      <4>3. QED BY <4>2, Halves
    <3>4. ~ BitSet(0, i % ShortBits) BY NoBitOfZero
    <3>5. ~ SuperFull(s)' BY <2>7, <3>2, <3>3, <3>4 DEF SuperFull
    <3>6. QED BY <2>5, <3>1, <3>5
  <2>8. QED BY <2>6, <2>7
<1>12. QED BY <1>10, <1>11 DEF BootIsLeft, Exact, All

LEMMA MarkKeeps ==
    ASSUME OneCaller, MInv, NEW c \in Callers, Mark(c) PROVE MInv'
<1> USE Geometry
<1>1. Basic BY DEF MInv
<1>2. PICK r : r = found[c] OBVIOUS
<1>3. PICK run : run = Run(r.start, r.n) OBVIOUS
<1>4. PICK full : full = {s \in 0..LastSuper : Filled(s, run)} OBVIOUS
<1>5. /\ r # Idle /\ page_bitmap' = page_bitmap \cup run
      /\ superpage_count' = PutBits(Less(run), full)
      /\ superpage_bitmap' = superpage_bitmap \cup {s \in full : s < LastWord} \cup Stray(run)
      /\ given' = given \cup {r} /\ found' = [found EXCEPT ![c] = Idle] /\ calls' = calls
  BY <1>2, <1>3, <1>4 DEF Mark, Marked
<1>6. Placed(r) BY <1>1, <1>2, <1>5 DEF Basic
<1>7. run \subseteq Pages /\ Stray(run) = {} /\ Taken(LastSuper, run) = 0
  BY <1>3, <1>6, PlacedRun
<1>8. found' = [d \in Callers |-> Idle]
  <2>1. found = [d \in Callers |-> found[d]] BY <1>1 DEF Basic
  <2>2. \A d \in Callers : d = c BY DEF OneCaller
  <2>3. QED BY <1>5, <2>1, <2>2
<1>9. \A d \in Callers : found'[d] = Idle BY <1>8
<1>10. Basic'
  <2>1. TypeOK'
    <3>1. page_bitmap' \subseteq Pages BY <1>1, <1>5, <1>7 DEF Basic, TypeOK
    <3>2. superpage_bitmap' \subseteq 0..LastSuper
      BY <1>1, <1>4, <1>5, <1>7 DEF Basic, TypeOK
    <3>3. DOMAIN superpage_count' = 0..LastSuper BY <1>5 DEF PutBits
    <3>4. calls' \in 0..MaxCalls BY <1>1, <1>5 DEF Basic, TypeOK
    <3>5. QED BY <1>9, <3>1, <3>2, <3>3, <3>4, Zenon DEF TypeOK
  <2>2. superpage_count'[LastSuper] = 0
    <3>1. LastSuper \in 0..LastSuper /\ LastSuper \notin {0, 1} OBVIOUS
    <3>2. superpage_count'[LastSuper] = Less(run)[LastSuper] BY <1>5, <3>1 DEF PutBits
    <3>3. superpage_count[LastSuper] = 0 BY <1>1 DEF Basic
    <3>4. Less(run)[LastSuper] = Short(0) BY <1>7, <3>1, <3>3 DEF Less
    <3>5. 0 \in 0..SuperPages OBVIOUS
    <3>6. QED BY <3>2, <3>4, <3>5, ShortIs
  <2>3. found' = [d \in Callers |-> found'[d]] BY <1>8
  <2>4. \A a \in given' : a.start + a.n <= LastSuper * SuperPages
    BY <1>1, <1>5, <1>6 DEF Basic, Placed
  <2>5. QED BY <1>9, <2>1, <2>2, <2>3, <2>4, Zenon DEF Basic
<1>11. ASSUME Reliable' PROVE Strong'
  <2>1. Reliable BY <1>5, <1>11, StillReliable
  <2>2. Exact /\ BootIsLeft /\ Followers /\ InOrder /\ FoundIsFree /\ GivenIsMarked
        /\ GivenApart
    BY <2>1 DEF MInv, Strong
  <2>3. Fits(r.n) BY <1>5, <1>11 DEF Reliable, AllFit
  <2>4. Fresh(r)
    <3>1. r.start \in Starts /\ Free(r.start, r.start + r.n - 1)
      BY <1>2, <1>5, <2>2, <2>3 DEF FoundIsFree
    <3>2. r.n \in Nat /\ r.n > 0 BY <1>6, MoreCoreAssumption DEF Placed
    <3>3. r.start + r.n <= Supers * SuperPages BY <1>6, PlacedIn
    <3>4. QED BY <3>1, <3>2, <3>3 DEF Fresh
  <2>5. r.start \in run /\ run \cap page_bitmap = {} /\ r.start >= BootSupers * SuperPages
    BY <1>3, <2>4, FreshRun
  <2>6. Followers' BY <1>3, <1>5, <2>2, <2>4, MarkFollowers
  <2>7. InOrder' BY <1>3, <1>5, <2>2, <2>4, MarkInOrder
  <2>8. BootIsLeft' /\ Exact'
    <3>1. superpage_count[LastSuper] = 0 /\ LastWordHasRoom'
      BY <1>1, <1>11 DEF Basic, Reliable
    <3>2. QED BY <1>3, <1>4, <1>5, <1>6, <2>2, <2>4, <3>1, MarkCounts
  <2>9. FoundIsFree' BY <1>9 DEF FoundIsFree
  <2>10. GivenIsMarked'
    <3>1. ASSUME NEW a \in given'
          PROVE  Run(a.start, a.n) \subseteq page_bitmap' /\ a.start >= BootSupers * SuperPages
      <4>1. CASE a \in given BY <1>5, <2>2, <4>1 DEF GivenIsMarked
      <4>2. CASE a = r BY <1>3, <1>5, <2>5, <4>2
      <4>3. QED BY <1>5, <3>1, <4>1, <4>2
    <3>2. QED BY <3>1 DEF GivenIsMarked
  <2>11. GivenApart'
    <3>1. \A a \in given : Run(a.start, a.n) \cap run = {}
      BY <2>2, <2>5 DEF GivenIsMarked
    <3>2. ASSUME NEW a \in given', NEW b \in given', a # b
          PROVE  Run(a.start, a.n) \cap Run(b.start, b.n) = {}
      <4>1. CASE a \in given /\ b \in given BY <2>2, <3>2, <4>1 DEF GivenApart
      <4>2. CASE a \in given /\ b = r BY <1>3, <3>1, <4>2
      <4>3. CASE a = r /\ b \in given BY <1>3, <3>1, <4>3
      <4>4. QED BY <1>5, <3>2, <4>1, <4>2, <4>3
    <3>3. QED BY <3>2 DEF GivenApart
  <2>12. QED BY <2>6, <2>7, <2>8, <2>9, <2>10, <2>11 DEF Strong
<1>12. QED BY <1>10, <1>11 DEF MInv
-----------------------------------------------------------------------------
LEMMA StartsRight == ASSUME Init PROVE MInv
<1> USE Geometry
<1>1. /\ page_bitmap = {} /\ superpage_bitmap = 0..(BootSupers - 1)
      /\ superpage_count = [s \in 0..LastSuper |->
                               IF s \in BootSupers..(LastSuper - 1) THEN SuperPages ELSE 0]
      /\ found = [c \in Callers |-> Idle] /\ given = {} /\ calls = 0
  BY DEF Init
<1>2. TypeOK
  <2>1. page_bitmap \subseteq Pages /\ superpage_bitmap \subseteq 0..LastSuper
    BY <1>1, SMTT(30)
  <2>2. DOMAIN superpage_count = 0..LastSuper BY <1>1
  <2>3. \A c \in Callers : found[c] = Idle BY <1>1
  <2>4. calls \in 0..MaxCalls
    <3>1. MaxCalls \in Nat BY MoreCoreAssumption
    <3>2. QED BY <1>1, <3>1
  <2>5. QED BY <2>1, <2>2, <2>3, <2>4, Zenon DEF TypeOK
<1>3. Basic
  <2>1. LastSuper \in 0..LastSuper /\ LastSuper \notin BootSupers..(LastSuper - 1) OBVIOUS
  <2>2. superpage_count[LastSuper] = 0 BY <1>1, <2>1
  <2>3. found = [c \in Callers |-> found[c]] /\ \A c \in Callers : found[c] = Idle BY <1>1
  <2>4. given = {} BY <1>1
  <2>5. QED BY <1>2, <2>2, <2>3, <2>4, Zenon DEF Basic
<1>4. BootIsLeft
  <2>1. \A s \in 0..(BootSupers - 1) : s \in 0..LastSuper /\ s \notin BootSupers..(LastSuper - 1)
    OBVIOUS
  <2>2. QED BY <1>1, <2>1 DEF BootIsLeft
<1>5. ASSUME NEW s \in BootSupers..(LastSuper - 1)
      PROVE  /\ superpage_count[s]
                   = Cardinality(Run(s * SuperPages, SuperPages) \ page_bitmap)
             /\ SuperFull(s) <=> Run(s * SuperPages, SuperPages) \subseteq page_bitmap
  <2>1. s \in Nat /\ s \in 0..LastSuper /\ s \notin 0..(BootSupers - 1) OBVIOUS
  <2>2. superpage_count[s] = SuperPages BY <1>1, <2>1
  <2>3. PICK base \in Nat : base = s * SuperPages BY <2>1, Product
  <2>4. Run(s * SuperPages, SuperPages) = base..(base + SuperPages - 1) BY <2>3 DEF Run
  <2>5. base \in Int /\ base + SuperPages - 1 \in Int /\ ~ (base > base + SuperPages - 1)
        /\ (base + SuperPages - 1) - base + 1 = SuperPages
    OBVIOUS
  <2>6. Cardinality(base..(base + SuperPages - 1)) = SuperPages BY <2>5, FS_Interval
  <2>7. base \in base..(base + SuperPages - 1) BY <2>5
  <2>8. Run(s * SuperPages, SuperPages) \ page_bitmap = base..(base + SuperPages - 1)
    BY <1>1, <2>4
  <2>9. ~ SuperFull(s)
    <3>1. CASE s < LastWord BY <1>1, <2>1, <3>1 DEF SuperFull
    <3>2. CASE ~ (s < LastWord)
      <4>1. PICK i \in 0..(WordSupers - 1) : i = s - LastWord
        <5>1. s - LastWord \in 0..(WordSupers - 1) BY <3>2
        <5>2. QED BY <5>1
      <4>2. superpage_count[0] = 0 /\ superpage_count[1] = 0
        <5>1. 0 \in 0..(BootSupers - 1) /\ 1 \in 0..(BootSupers - 1) OBVIOUS
        <5>2. QED BY <1>4, <5>1 DEF BootIsLeft
      <4>3. superpage_count[i \div ShortBits] = 0 BY <4>2, Halves
      <4>4. ~ BitSet(0, i % ShortBits) BY NoBitOfZero
      <4>5. QED BY <3>2, <4>1, <4>3, <4>4 DEF SuperFull
    <3>3. QED BY <3>1, <3>2
  <2>10. QED BY <1>1, <2>2, <2>4, <2>6, <2>7, <2>8, <2>9
<1>6. Exact BY <1>5, Zenon DEF Exact
<1>7. Followers /\ InOrder BY <1>1 DEF Followers, InOrder, Untouched, Free
<1>8. FoundIsFree BY <1>1 DEF FoundIsFree
<1>9. GivenIsMarked /\ GivenApart BY <1>1 DEF GivenIsMarked, GivenApart
<1>10. QED BY <1>3, <1>4, <1>6, <1>7, <1>8, <1>9 DEF MInv, Strong

LEMMA Steps == ASSUME OneCaller, MInv, [Next]_vars PROVE MInv'
<1> USE Geometry
<1>1. CASE UNCHANGED vars
  <2>1. /\ page_bitmap' = page_bitmap /\ superpage_bitmap' = superpage_bitmap
        /\ superpage_count' = superpage_count /\ found' = found /\ given' = given
        /\ calls' = calls
    BY <1>1 DEF vars
  <2>2. Basic /\ (Reliable => Strong) BY DEF MInv
  <2>3. Basic' BY <2>1, <2>2 DEF Basic, TypeOK
  <2>4. ASSUME Reliable' PROVE Strong'
    <3>1. Reliable BY <2>1, <2>4, StillReliable
    <3>2. Exact /\ BootIsLeft /\ Followers /\ InOrder /\ FoundIsFree /\ GivenIsMarked
          /\ GivenApart
      BY <2>2, <3>1 DEF Strong
    <3>3. Followers' /\ InOrder' /\ Starts' = Starts BY <2>1, <3>2, SamePages
    <3>4. FoundIsFree' BY <2>1, <3>2, <3>3 DEF FoundIsFree, Free
    <3>5. Exact' BY <2>1, <3>2 DEF Exact, SuperFull
    <3>6. BootIsLeft' /\ GivenIsMarked' /\ GivenApart'
      BY <2>1, <3>2 DEF BootIsLeft, GivenIsMarked, GivenApart
    <3>7. QED BY <3>3, <3>4, <3>5, <3>6 DEF Strong
  <2>5. QED BY <2>3, <2>4 DEF MInv
<1>2. ASSUME NEW c \in Callers, NEW n \in KernelSizes, kmorecore(c, n) PROVE MInv'
  <2>1. Look(c, "kernel", n, 0, KernelWords) BY <1>2 DEF kmorecore
  <2>2. /\ 0 \in Nat /\ KernelWords \in Nat /\ 0 <= KernelWords
        /\ KernelWords * WordSupers <= Supers
    BY DEF Border
  <2>3. \A s \in (0 * WordSupers)..(KernelWords * WordSupers - 1) : First(s) = 0 * WordSupers
    <3>1. 0 * WordSupers = 0 OBVIOUS
    <3>2. PICK b \in Nat : b = KernelWords * WordSupers BY DEF Border
    <3>3. \A s \in 0..(b - 1) : s < b OBVIOUS
    <3>4. QED BY <3>1, <3>2, <3>3 DEF First, Border
  <2>4. QED BY <2>1, <2>2, <2>3, LookKeeps
<1>3. ASSUME NEW c \in Callers, NEW n \in UserSizes, morecore(c, n) PROVE MInv'
  <2>1. Look(c, "user", n, KernelWords, Words) BY <1>3 DEF morecore
  <2>2. /\ KernelWords \in Nat /\ Words \in Nat /\ KernelWords <= Words
        /\ Words * WordSupers <= Supers
    <3>1. Words * WordSupers = Supers /\ KernelWords <= Words
      BY MoreCoreAssumption DEF Supers
    <3>2. QED BY <3>1
  <2>3. \A s \in (KernelWords * WordSupers)..(Words * WordSupers - 1) :
           First(s) = KernelWords * WordSupers
    <3>1. PICK b \in Nat : b = KernelWords * WordSupers BY DEF Border
    <3>2. \A s \in b..(Words * WordSupers - 1) : ~ (s < b) OBVIOUS
    <3>3. QED BY <3>1, <3>2 DEF First, Border
  <2>4. QED BY <2>1, <2>2, <2>3, LookKeeps
<1>4. ASSUME NEW c \in Callers, Mark(c) PROVE MInv' BY <1>4, MarkKeeps
<1>5. QED BY <1>1, <1>2, <1>3, <1>4 DEF Next

(* Of one caller at a time: whatever it asks for, no run reaches the last        *)
(* superpage, and as long as the tables are right what the search finds is free; *)
(* the invariant holds after every call of kmorecore and morecore.               *)
THEOREM SearchIsRight == ASSUME OneCaller PROVE Spec => []MInv
<1>1. Init => MInv BY StartsRight
<1>2. MInv /\ [Next]_vars => MInv' BY Steps
<1>3. QED BY <1>1, <1>2, PTL DEF Spec

(* No page is part of two runs that kmorecore and morecore returned, nor is one    *)
(* of the kernel's image part of any (mm.c:135-160, kernel.c:91), until a request  *)
(* that does not fit is met or a superpage of the last word is full; and no run    *)
(* ever reaches the last superpage.                                                *)
THEOREM RunsStayApart == ASSUME OneCaller PROVE Spec => []RunsAreApart
<1>1. MInv => RunsAreApart
  BY DEF MInv, Basic, Strong, GivenIsMarked, GivenApart, RunsAreApart
<1>2. QED BY <1>1, SearchIsRight, PTL

(* The count of a superpage and its bit say what its page bits say (mm.h:8-9), of  *)
(* every superpage behind the kernel image but the last, until a request that does *)
(* not fit is met or a superpage of the last word is full.                         *)
THEOREM TablesStayExact == ASSUME OneCaller PROVE Spec => []TablesAgree
<1>1. MInv => TablesAgree BY DEF MInv, Basic, Strong, Exact, TablesAgree
<1>2. QED BY <1>1, SearchIsRight, PTL
=============================================================================
