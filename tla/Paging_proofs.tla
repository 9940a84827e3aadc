--------------------------- MODULE Paging_proofs ---------------------------
(* Demand paging (mm.c, exceptions.c, phys_mm.c): the uses of physical pages  *)
(* stay apart, and the pages present are those the handler mapped, for tables *)
(* of any size, any number of pages pushed and any pages touched.             *)
EXTENDS Paging, PageCallers, FiniteSetTheorems, TLAPS
-----------------------------------------------------------------------------
(* The inductive invariant of the physical pages.                             *)

StackHolds ==
    /\ base[0] \in Garbage
    /\ \A i \in 1 .. BootPages : (pc = "boot" => i <= posistion) => base[i] = i * Entries
    /\ pc = "boot" => posistion < BootPages
    /\ pc = "paging" => posistion = BootPages
    /\ pc \in {"boot", "paging"} => served = {}
    /\ Paged => posistion <= BootPages - 2

\* What was popped, the directory left out.
Used == {base[i] : i \in posistion .. (BootPages - 2)}

FramesApart ==
    Paged =>
      /\ cr3 = base[BootPages - 1] /\ mem[cr3][Window] = cr3
      /\ \A d \in Index \ {Window} : mem[cr3][d] # Absent => mem[cr3][d] \in Used
      /\ \A d1, d2 \in Index : mem[cr3][d1] = mem[cr3][d2] /\ mem[cr3][d1] # Absent => d1 = d2
      /\ \A s \in served : s[2] \in Used /\ \A d \in Index : mem[cr3][d] # s[2]
      /\ \A s, t \in served : s[2] = t[2] => s = t

FaultIsKnown == pc \in {"directory", "clear", "map"} => fault \in UserPages

FInv == TypeOK /\ StackHolds /\ FramesApart /\ FaultIsKnown

(* What holds of the mappings, on top of it.                                  *)

KernelIsMapped ==
    Paged => /\ \A d \in Index : mem[cr3][d] # Absent => mem[cr3][d] \in Tables
             /\ mem[cr3][0] # Absent
             /\ FirstTableIsAlone =>
                   \A e \in Index : mem[mem[cr3][0]][e] = (IF e = 1 THEN cr3 ELSE e)

\* Where the handler is, it has found, or put in, the table of the page, which is not
\* the first one while that maps all its pages.
TableIsThere == /\ pc = "directory" => TableOf(fault) = Absent
                /\ pc \in {"clear", "map"} => TableOf(fault) # Absent
                /\ \/ pc \in {"directory", "clear"}
                   \/ pc = "map" /\ FirstTableIsAlone
                   => Dir(fault) # 0

\* A table that is being cleared maps no page that was resolved before, and is the
\* only one that may hold something that was not put there.
Mappings ==
    Paged /\ OnlyFirstTables =>
       /\ MappingsSurvive
       /\ \A p \in UserPages :
             IsZeroed(p) /\ Present(p) =>
                <<p, Frame(p)>> \in served \/ (pc = "clear" /\ Dir(p) = Dir(fault))
       /\ pc = "clear" => \A s \in served : Dir(s[1]) # Dir(fault)
       /\ pc = "map" => \A s \in served : s[1] # fault

MInv == FInv /\ KernelIsMapped /\ TableIsThere /\ Mappings
-----------------------------------------------------------------------------
(* Numbers.                                                                   *)

LEMMA Between ==
    ASSUME NEW n \in Nat \ {0}, NEW x \in Int, NEW y \in Int, n * x < n * y PROVE x < y
OBVIOUS
LEMMA Parts ==
    ASSUME NEW p \in Nat, NEW n \in Nat \ {0}
    PROVE  \E q \in Nat, r \in 0 .. (n - 1) : q = p \div n /\ r = p % n /\ p = n * q + r
<1>1. p \div n \in Int /\ p % n \in 0 .. (n - 1)
  <2>1. p \div n \in Int OBVIOUS
  <2>2. p % n \in 0 .. (n - 1) OBVIOUS
  <2>3. QED BY <2>1, <2>2
<1>2. PICK q : q = p \div n OBVIOUS
<1>3. PICK r : r = p % n OBVIOUS
<1>4. p % n = p - n * (p \div n) OBVIOUS
<1>5. r = p - n * q BY <1>2, <1>3, <1>4, Zenon
<1>6. q \in Int /\ r \in 0 .. (n - 1) BY <1>1, <1>2, <1>3, Zenon
<1>7. p = n * q + r BY <1>5, <1>6
<1>8. q \in Nat
  <2>1. n * (-1) = -n /\ n * q \in Int /\ n * q > -n BY <1>6, <1>7
  <2>2. -1 < q BY <1>6, <2>1, Between
  <2>3. QED BY <1>6, <2>2
<1>9. QED BY <1>2, <1>3, <1>6, <1>7, <1>8, Zenon
LEMMA Unsplit ==
    ASSUME NEW n \in Nat \ {0}, NEW q \in Nat, NEW r \in 0 .. (n - 1)
    PROVE  (n * q + r) \div n = q /\ (n * q + r) % n = r
OBVIOUS

LEMMA Quarter == ASSUME NEW n \in Nat, n % 4 = 0 PROVE \E m \in Nat : n = 4 * m
<1>1. n = 4 * (n \div 4) /\ n \div 4 \in Nat OBVIOUS
<1>2. QED BY <1>1


LEMMA Sizes == /\ Entries \in Nat /\ Entries >= 2 /\ BootPages \in Nat /\ BootPages >= 3
               /\ BootPages <= StackWords /\ StackWords \in Nat
               /\ 0 \in Index /\ Window \in Index /\ 0 # Window /\ 1 \in Index
  BY PagingAssumption, StackAssumption DEF Index, Window

LEMMA PageSplits ==
    ASSUME NEW p \in UserPages
    PROVE  /\ p \in Nat /\ Dir(p) \in Index /\ Slot(p) \in Index
           /\ p = Entries * Dir(p) + Slot(p)
<1>1. p \in 0 .. (Entries * Entries - 1) /\ Entries \in Nat \ {0} BY PagingAssumption
<1>2. p \in Nat /\ p < Entries * Entries BY <1>1
<1>3. PICK q \in Nat, r \in 0 .. (Entries - 1) :
         q = p \div Entries /\ r = p % Entries /\ p = Entries * q + r
  BY <1>1, <1>2, Parts
<1>4. q < Entries
  <2>1. Entries * q \in Int /\ Entries * Entries \in Int BY <1>1
  <2>2. Entries * q < Entries * Entries BY <1>1, <1>2, <1>3, <2>1
  <2>3. QED BY <1>1, <2>2, Between
<1>5. q \in Index /\ r \in Index BY <1>1, <1>4 DEF Index
<1>6. QED BY <1>2, <1>3, <1>5, Zenon DEF Dir, Slot

LEMMA GroupOf ==
    ASSUME NEW p \in UserPages
    PROVE  /\ Dir(GroupBase(p)) \in Index \ {Window}
           /\ Dir(p) % 4 = 0 => Dir(GroupBase(p)) = Dir(p)
           /\ Dir(p) \notin 0 .. 3 => Dir(GroupBase(p)) \notin 0 .. 3
<1>1. Entries \in Nat \ {0} /\ Entries % 4 = 0 BY PagingAssumption
<1>2. PICK d \in 0 .. (Entries - 1), s \in 0 .. (Entries - 1) :
         d = Dir(p) /\ s = Slot(p) /\ p = Entries * d + s
  BY PageSplits DEF Index
<1>3. PICK k \in Nat, r \in 0 .. (4 * Entries - 1) :
         k = p \div (4 * Entries) /\ p = (4 * Entries) * k + r
  <2>1. p \in Nat /\ 4 * Entries \in Nat \ {0} BY <1>1, PageSplits
  <2>2. PICK n \in Nat \ {0} : n = 4 * Entries BY <2>1
  <2>3. \E q \in Nat, r \in 0 .. (n - 1) : q = p \div n /\ r = p % n /\ p = n * q + r
    BY <2>1, Parts
  <2>4. QED BY <2>2, <2>3, Zenon
<1>4. /\ k * (4 * Entries) = Entries * (4 * k) /\ (4 * Entries) * k = Entries * (4 * k)
      /\ Entries * (d + 1) = Entries * d + Entries
      /\ Entries * (4 * k + 4) = Entries * (4 * k) + 4 * Entries
      /\ Entries * d \in Int /\ Entries * (4 * k) \in Int
  <2>1. Entries \in Nat /\ d \in Nat /\ k \in Nat BY <1>1, <1>2, <1>3
  <2>2. \A n, x, y \in Nat : /\ y * (4 * n) = n * (4 * y) /\ (4 * n) * y = n * (4 * y)
                             /\ n * (x + 1) = n * x + n
                             /\ n * (4 * y + 4) = n * (4 * y) + 4 * n
                             /\ n * x \in Int /\ n * (4 * y) \in Int
    OBVIOUS
  <2>3. QED BY <2>1, <2>2, Zenon
<1>5. Entries * (4 * k) < Entries * (d + 1) /\ Entries * d < Entries * (4 * k + 4)
  BY <1>1, <1>2, <1>3, <1>4
<1>6. 4 * k < d + 1 /\ d < 4 * k + 4
  <2>1. 4 * k \in Int /\ 4 * k + 4 \in Int /\ d \in Int /\ d + 1 \in Int BY <1>2, <1>3
  <2>2. QED BY <1>1, <1>5, <2>1, Between
<1>7. Dir(GroupBase(p)) = 4 * k
  <2>1. GroupBase(p) = Entries * (4 * k) BY <1>3, <1>4, Zenon DEF GroupBase
  <2>2. 4 * k \in Nat /\ 0 \in 0 .. (Entries - 1) BY <1>1, <1>3
  <2>3. (Entries * (4 * k) + 0) \div Entries = 4 * k BY <1>1, <2>2, Unsplit
  <2>4. Entries * (4 * k) + 0 = Entries * (4 * k) BY <1>4
  <2>5. QED BY <2>1, <2>3, <2>4, Zenon DEF Dir
<1>8. 4 * k \in Index /\ 4 * k # Window
  <2>1. PICK m \in Nat : Entries = 4 * m BY <1>1, Quarter
  <2>2. k \in Nat /\ Entries - 1 = 4 * m - 1 BY <2>1
  <2>3. \A x, y \in Nat : 4 * x # 4 * y - 1 OBVIOUS
  <2>4. 4 * k # Entries - 1 BY <2>1, <2>2, <2>3
  <2>5. 4 * k \in 0 .. (Entries - 1) BY <1>6, Sizes
  <2>6. QED BY <2>4, <2>5 DEF Index, Window
<1>9. d % 4 = 0 => d = 4 * k
  <2>1. SUFFICES ASSUME d % 4 = 0 PROVE d = 4 * k OBVIOUS
  <2>2. d \in Nat BY <1>1
  <2>3. PICK m \in Nat : d = 4 * m BY <2>1, <2>2, Quarter
  <2>4. QED BY <1>6, <2>3
<1>10. d \notin 0 .. 3 => 4 * k \notin 0 .. 3 BY <1>1, <1>6
<1>11. QED BY <1>2, <1>7, <1>8, <1>9, <1>10

LEMMA KernelPages == ASSUME NEW p \in Index PROVE Dir(p) = 0 /\ Slot(p) = p
<1>1. Entries \in Nat \ {0} /\ 0 \in Nat /\ p \in 0 .. (Entries - 1)
  BY PagingAssumption DEF Index
<1>2. Entries * 0 + p = p BY <1>1
<1>3. QED BY <1>1, <1>2, Unsplit DEF Dir, Slot
-----------------------------------------------------------------------------
(* The stack.                                                                 *)

LEMMA WordsApart ==
    ASSUME WordIsPrivate, FInv, pc # "boot",
           NEW i \in 0 .. BootPages, NEW j \in 0 .. BootPages, base[i] = base[j]
    PROVE  i = j
<1>1. \A k \in 1 .. BootPages : base[k] = k * Entries /\ base[k] \in Boot
  BY DEF FInv, StackHolds, Boot
<1>2. base[0] \notin Boot BY DEF FInv, StackHolds, WordIsPrivate
<1>3. CASE i = 0 \/ j = 0
  <2>1. i = 0 \/ i \in 1 .. BootPages BY Sizes
  <2>2. j = 0 \/ j \in 1 .. BootPages BY Sizes
  <2>3. QED BY <1>1, <1>2, <1>3, <2>1, <2>2
<1>4. CASE i # 0 /\ j # 0
  <2>1. i \in 1 .. BootPages /\ j \in 1 .. BootPages BY <1>4, Sizes
  <2>2. i * Entries = j * Entries BY <1>1, <2>1
  <2>3. Entries * i = Entries * j BY <2>2, <2>1, Sizes
  <2>4. ~(i < j) /\ ~(j < i)
    <3>1. i \in Nat /\ j \in Nat /\ Entries \in Nat \ {0} BY <2>1, Sizes
    <3>2. \A n \in Nat \ {0} : \A x, y \in Nat : x < y => n * x < n * y
      <4>1. \A n \in Nat \ {0} : \A x, y \in Nat :
               x < y => n * (y - x) > 0 /\ n * (y - x) = n * y - n * x
        OBVIOUS
      <4>2. \A n, x, y \in Nat : n * x \in Int /\ n * y \in Int OBVIOUS
      <4>3. QED BY <4>1, <4>2
    <3>3. QED BY <2>3, <3>1, <3>2
  <2>5. QED BY <2>1, <2>4
<1>5. QED BY <1>3, <1>4

LEMMA DirectoryIsReal ==
    ASSUME FInv, Paged
    PROVE  /\ cr3 = base[BootPages - 1] /\ cr3 = (BootPages - 1) * Entries
           /\ cr3 \in Tables /\ cr3 \in Nat
<1>1. cr3 = base[BootPages - 1] BY DEF FInv, FramesApart
<1>2. BootPages - 1 \in 1 .. BootPages BY Sizes
<1>3. pc # "boot" BY DEF Paged
<1>4. base[BootPages - 1] = (BootPages - 1) * Entries BY <1>2, <1>3 DEF FInv, StackHolds
<1>5. cr3 \in Boot BY <1>1, <1>2, <1>4 DEF Boot
<1>6. cr3 \in Nat BY <1>1, <1>4, Sizes
<1>7. QED BY <1>1, <1>4, <1>5, <1>6 DEF Tables

LEMMA PopGives ==
    ASSUME WordIsPrivate, FInv, Paged, Pop, Popped # None
    PROVE  /\ base' = base /\ posistion' \in 0 .. (BootPages - 2) /\ posistion' < posistion
           /\ Popped \in Nat /\ Popped \in Tables /\ Popped # cr3
           /\ Popped \notin Used /\ Popped \in Used' /\ Used \subseteq Used'
<1>1. posistion \in 1 .. (BootPages - 2) /\ Popped = base[posistion - 1]
  BY Sizes DEF FInv, TypeOK, StackHolds, Popped, None
<1>2. base' = base /\ posistion' = posistion - 1 BY <1>1, Sizes DEF Pop
<1>3. posistion' \in 0 .. (BootPages - 2) /\ posistion' < posistion BY <1>1, <1>2, Sizes
<1>4. PICK n : n = posistion - 1 OBVIOUS
<1>5. n \in 0 .. BootPages /\ n \in 0 .. StackWords /\ Popped = base[n] BY <1>1, <1>4, Sizes
<1>6. pc # "boot" BY DEF Paged
<1>7. Popped \in Nat BY <1>5 DEF FInv, TypeOK
<1>8. Popped \in Tables
  <2>1. CASE n = 0 BY <1>5, <2>1 DEF FInv, StackHolds, Tables
  <2>2. CASE n # 0
    <3>1. n \in 1 .. BootPages BY <1>5, <2>2, Sizes
    <3>2. base[n] = n * Entries BY <1>6, <3>1 DEF FInv, StackHolds
    <3>3. QED BY <1>5, <3>1, <3>2 DEF Boot, Tables
  <2>3. QED BY <2>1, <2>2
<1>9. Popped \notin Used
  <2>1. SUFFICES ASSUME NEW i \in posistion .. (BootPages - 2), base[i] = Popped PROVE FALSE
    BY DEF Used
  <2>2. i \in 0 .. BootPages /\ i # n BY <1>1, <1>4, Sizes
  <2>3. QED BY <1>5, <1>6, <2>1, <2>2, WordsApart
<1>10. Popped # cr3
  <2>1. BootPages - 1 \in 0 .. BootPages /\ n # BootPages - 1 BY <1>1, <1>4, Sizes
  <2>2. QED BY <1>5, <1>6, <2>1, WordsApart, DirectoryIsReal
<1>11. Popped \in Used' /\ Used \subseteq Used'
  <2>1. n \in n .. (BootPages - 2) BY <1>1, <1>4, Sizes
  <2>2. Used' = {base[i] : i \in n .. (BootPages - 2)} BY <1>2, <1>4 DEF Used
  <2>3. \A i \in posistion .. (BootPages - 2) : i \in n .. (BootPages - 2)
    BY <1>1, <1>4, Sizes
  <2>4. QED BY <1>5, <2>1, <2>2, <2>3 DEF Used
<1>12. QED BY <1>2, <1>3, <1>7, <1>8, <1>9, <1>10, <1>11
-----------------------------------------------------------------------------
(* What the steps do to physical pages.                                       *)

LEMMA StackKept ==
    ASSUME FInv, Paged, base' = base, posistion' \in Nat, posistion' <= posistion,
           pc' \in {"run", "directory", "clear", "map", "halted"}
    PROVE  StackHolds'
<1>1. pc # "boot" /\ posistion <= BootPages - 2 /\ posistion \in Nat
  BY Sizes DEF Paged, FInv, StackHolds, TypeOK
<1>2. /\ base[0] \in Garbage
      /\ \A i \in 1 .. BootPages : base[i] = i * Entries
  BY <1>1 DEF FInv, StackHolds
<1>3. posistion' <= BootPages - 2 BY <1>1, Sizes
<1>4. QED BY <1>2, <1>3 DEF StackHolds, Paged

LEMMA FramesKept ==
    ASSUME FInv, Paged, base' = base, posistion' \in Nat, posistion' <= posistion,
           cr3' = cr3, served' = served, \A d \in Index : mem'[cr3][d] = mem[cr3][d]
    PROVE  FramesApart'
<1>1. posistion \in Nat BY DEF FInv, TypeOK
<1>2. \A i \in posistion .. (BootPages - 2) : i \in posistion' .. (BootPages - 2)
  BY <1>1, Sizes
<1>3. Used \subseteq Used' BY <1>2 DEF Used
<1>4. Window \in Index BY Sizes
<1>5. /\ cr3 = base[BootPages - 1] /\ mem[cr3][Window] = cr3
      /\ \A d \in Index \ {Window} : mem[cr3][d] # Absent => mem[cr3][d] \in Used
      /\ \A d1, d2 \in Index : mem[cr3][d1] = mem[cr3][d2] /\ mem[cr3][d1] # Absent => d1 = d2
      /\ \A s \in served : s[2] \in Used /\ \A d \in Index : mem[cr3][d] # s[2]
      /\ \A s, t \in served : s[2] = t[2] => s = t
  BY DEF FInv, FramesApart
<1>6. cr3' = base'[BootPages - 1] /\ mem'[cr3'][Window] = cr3' BY <1>4, <1>5
<1>7. \A d \in Index \ {Window} : mem'[cr3'][d] # Absent => mem'[cr3'][d] \in Used'
  BY <1>3, <1>5
<1>8. \A d1, d2 \in Index :
         mem'[cr3'][d1] = mem'[cr3'][d2] /\ mem'[cr3'][d1] # Absent => d1 = d2
  BY <1>5
<1>9. \A s \in served' : s[2] \in Used' /\ \A d \in Index : mem'[cr3'][d] # s[2]
  BY <1>3, <1>5
<1>10. QED BY <1>5, <1>6, <1>7, <1>8, <1>9 DEF FramesApart

\* No page that is popped is in the directory yet.
LEMMA PoppedIsNew ==
    ASSUME WordIsPrivate, FInv, Paged, Pop, Popped # None, NEW d \in Index
    PROVE  mem[cr3][d] # Popped
<1>1. Popped # cr3 /\ Popped \notin Used /\ Popped # Absent BY PopGives DEF Absent
<1>2. CASE d = Window BY <1>1, <1>2 DEF FInv, FramesApart
<1>3. CASE d # Window BY <1>1, <1>3 DEF FInv, FramesApart
<1>4. QED BY <1>2, <1>3

LEMMA TableAdded ==
    ASSUME WordIsPrivate, FInv, Paged, Pop, Popped # None, NEW d \in Index \ {Window},
           mem' = [mem EXCEPT ![cr3][d] = Popped], cr3' = cr3, served' = served
    PROVE  FramesApart' /\ mem' \in [Tables -> [Index -> Nat \cup {Absent}]]
<1>1. /\ base' = base /\ Popped \notin Used /\ Popped \in Used' /\ Used \subseteq Used'
      /\ Popped \in Nat
  BY PopGives
<1>2. cr3 \in Tables /\ mem \in [Tables -> [Index -> Nat \cup {Absent}]]
  BY DirectoryIsReal DEF FInv, TypeOK
<1>3. \A e \in Index : mem'[cr3][e] = IF e = d THEN Popped ELSE mem[cr3][e] BY <1>2
<1>4. \A e \in Index : mem[cr3][e] # Popped BY PoppedIsNew
<1>5. /\ cr3 = base[BootPages - 1] /\ mem[cr3][Window] = cr3
      /\ \A e \in Index \ {Window} : mem[cr3][e] # Absent => mem[cr3][e] \in Used
      /\ \A d1, d2 \in Index : mem[cr3][d1] = mem[cr3][d2] /\ mem[cr3][d1] # Absent => d1 = d2
      /\ \A s \in served : s[2] \in Used /\ \A e \in Index : mem[cr3][e] # s[2]
      /\ \A s, t \in served : s[2] = t[2] => s = t
  BY DEF FInv, FramesApart
<1>6. cr3' = base'[BootPages - 1] /\ mem'[cr3'][Window] = cr3' BY <1>1, <1>3, <1>5, Sizes
<1>7. \A e \in Index \ {Window} : mem'[cr3'][e] # Absent => mem'[cr3'][e] \in Used'
  BY <1>1, <1>3, <1>5
<1>8. \A d1, d2 \in Index :
         mem'[cr3'][d1] = mem'[cr3'][d2] /\ mem'[cr3'][d1] # Absent => d1 = d2
  BY <1>3, <1>4, <1>5
<1>9. \A s \in served' : s[2] \in Used' /\ \A e \in Index : mem'[cr3'][e] # s[2]
  BY <1>1, <1>3, <1>5
<1>10. FramesApart' BY <1>5, <1>6, <1>7, <1>8, <1>9 DEF FramesApart
<1>11. mem' \in [Tables -> [Index -> Nat \cup {Absent}]] BY <1>1, <1>2
<1>12. QED BY <1>10, <1>11

LEMMA TableIsNotDirectory ==
    ASSUME FInv, Paged, NEW d \in Index \ {Window} PROVE mem[cr3][d] # cr3
<1>1. cr3 # Absent /\ Window \in Index BY DirectoryIsReal, Sizes DEF Absent
<1>2. QED BY <1>1 DEF FInv, FramesApart

LEMMA PageMapped ==
    ASSUME WordIsPrivate, WindowIsLeft, FInv, Paged, Pop, Popped # None, fault \in UserPages,
           mem' = Store(fault, Popped), cr3' = cr3,
           served' = served \cup {<<fault, Popped>>}
    PROVE  FramesApart' /\ mem' \in [Tables -> [Index -> Nat \cup {Absent}]]
<1>1. /\ base' = base /\ Popped \notin Used /\ Popped \in Used' /\ Used \subseteq Used'
      /\ Popped \in Nat
  BY PopGives
<1>2. mem \in [Tables -> [Index -> Nat \cup {Absent}]] BY DEF FInv, TypeOK
<1>3. Dir(fault) \in Index \ {Window} /\ Slot(fault) \in Index
  BY PageSplits DEF WindowIsLeft
<1>4. TableOf(fault) # cr3 BY <1>3, TableIsNotDirectory DEF TableOf
<1>5. PICK t : t = TableOf(fault) OBVIOUS
<1>6. mem' = [mem EXCEPT ![t][Slot(fault)] = Popped] BY <1>5 DEF Store
<1>7. \A e \in Index : mem'[cr3][e] = mem[cr3][e] BY <1>4, <1>5, <1>6
<1>8. \A e \in Index : mem[cr3][e] # Popped BY PoppedIsNew
<1>9. /\ cr3 = base[BootPages - 1] /\ mem[cr3][Window] = cr3
      /\ \A e \in Index \ {Window} : mem[cr3][e] # Absent => mem[cr3][e] \in Used
      /\ \A d1, d2 \in Index : mem[cr3][d1] = mem[cr3][d2] /\ mem[cr3][d1] # Absent => d1 = d2
      /\ \A s \in served : s[2] \in Used /\ \A e \in Index : mem[cr3][e] # s[2]
      /\ \A s, u \in served : s[2] = u[2] => s = u
  BY DEF FInv, FramesApart
<1>10. cr3' = base'[BootPages - 1] /\ mem'[cr3'][Window] = cr3' BY <1>1, <1>7, <1>9, Sizes
<1>11. \A e \in Index \ {Window} : mem'[cr3'][e] # Absent => mem'[cr3'][e] \in Used'
  BY <1>1, <1>7, <1>9
<1>12. \A d1, d2 \in Index :
         mem'[cr3'][d1] = mem'[cr3'][d2] /\ mem'[cr3'][d1] # Absent => d1 = d2
  BY <1>7, <1>9
<1>13. PICK new : new = <<fault, Popped>> OBVIOUS
<1>14. new[2] = Popped /\ served' = served \cup {new} BY <1>13
<1>15. \A s \in served' : s[2] \in Used' /\ \A e \in Index : mem'[cr3'][e] # s[2]
  <2>1. ASSUME NEW s \in served
        PROVE  s[2] \in Used' /\ \A e \in Index : mem'[cr3'][e] # s[2]
    <3>1. s[2] \in Used' BY <1>1, <1>9
    <3>2. \A e \in Index : mem[cr3][e] # s[2] BY <1>9
    <3>3. QED BY <1>7, <3>1, <3>2
  <2>2. new[2] \in Used' /\ \A e \in Index : mem'[cr3'][e] # new[2]
    BY <1>1, <1>7, <1>8, <1>14
  <2>3. QED BY <1>14, <2>1, <2>2
<1>16. \A s, u \in served' : s[2] = u[2] => s = u
  <2>1. \A s \in served : s[2] # new[2] BY <1>1, <1>9, <1>14
  <2>2. QED BY <1>9, <1>14, <2>1
<1>17. FramesApart' BY <1>10, <1>11, <1>12, <1>15, <1>16 DEF FramesApart
<1>18. mem' \in [Tables -> [Index -> Nat \cup {Absent}]]
  <2>1. mem' = [mem EXCEPT ![t] = [mem[t] EXCEPT ![Slot(fault)] = Popped]] BY <1>6
  <2>2. t \in Tables => [mem[t] EXCEPT ![Slot(fault)] = Popped] \in [Index -> Nat \cup {Absent}]
    BY <1>1, <1>2, <1>3
  <2>3. QED BY <1>2, <2>1, <2>2
<1>19. QED BY <1>17, <1>18

LEMMA FBootPush == ASSUME FInv, BootPush PROVE FInv'
<1>1. /\ pc = "boot" /\ posistion' = posistion + 1
      /\ base' = [base EXCEPT ![posistion + 1] = (posistion + 1) * Entries]
      /\ pc' = IF posistion + 1 = BootPages THEN "paging" ELSE "boot"
      /\ UNCHANGED <<cr3, mem, fault, fresh, wanted, served>>
  BY DEF BootPush, Push
<1>2. posistion \in Nat /\ posistion < BootPages BY <1>1, Sizes DEF FInv, TypeOK, StackHolds
<1>3. posistion' \in 1 .. BootPages /\ posistion' \in 0 .. StackWords /\ posistion' # 0
  BY <1>1, <1>2, Sizes
<1>4. posistion' * Entries \in Nat
  <2>1. posistion' \in Nat /\ Entries \in Nat BY <1>3, Sizes
  <2>2. \A x, y \in Nat : x * y \in Nat OBVIOUS
  <2>3. QED BY <2>1, <2>2, Zenon
<1>5. base' = [base EXCEPT ![posistion'] = posistion' * Entries] BY <1>1
<1>6. TypeOK'
  <2>1. base' \in [0 .. StackWords -> Nat] BY <1>4, <1>5 DEF FInv, TypeOK
  <2>2. posistion' \in 0 .. BootPages /\ pc' \in {"boot", "paging"} BY <1>1, <1>3
  <2>3. QED BY <1>1, <2>1, <2>2 DEF FInv, TypeOK
<1>7. StackHolds'
  <2>1. DOMAIN base = 0 .. StackWords BY DEF FInv, TypeOK
  <2>2. 0 \in 0 .. StackWords BY Sizes
  <2>3. base'[0] = base[0] BY <1>3, <1>5, <2>1, <2>2
  <2>4. ASSUME NEW i \in 1 .. BootPages, pc' = "boot" => i <= posistion'
        PROVE  base'[i] = i * Entries
    <3>1. i <= posistion' BY <1>1, <2>4, Sizes
    <3>2. CASE i = posistion' BY <1>3, <1>5, <2>1, <3>2
    <3>3. CASE i # posistion'
      <4>1. i <= posistion /\ i \in 0 .. StackWords BY <1>1, <1>2, <3>1, <3>3, Sizes
      <4>2. base[i] = i * Entries BY <4>1 DEF FInv, StackHolds
      <4>3. QED BY <1>5, <2>1, <3>3, <4>1, <4>2
    <3>4. QED BY <3>2, <3>3
  <2>5. pc' = "boot" => posistion' < BootPages BY <1>1, <1>2, Sizes
  <2>6. pc' = "paging" => posistion' = BootPages BY <1>1
  <2>7. pc' \in {"boot", "paging"} /\ served' = {} BY <1>1 DEF FInv, StackHolds
  <2>8. ~Paged' BY <2>7 DEF Paged
  <2>9. base'[0] \in Garbage BY <2>3 DEF FInv, StackHolds
  <2>10. QED BY <2>4, <2>5, <2>6, <2>7, <2>8, <2>9 DEF StackHolds
<1>8. FramesApart' /\ FaultIsKnown' BY <1>1 DEF FramesApart, FaultIsKnown, Paged
<1>9. QED BY <1>6, <1>7, <1>8 DEF FInv

LEMMA FStartPaging == ASSUME WordIsPrivate, FInv, StartPaging PROVE FInv'
<1>1. /\ pc = "paging" /\ posistion = BootPages /\ served = {}
      /\ base' = base /\ posistion' = posistion - 2 /\ pc' = "run"
      /\ UNCHANGED <<fault, fresh, wanted, served>>
  BY DEF StartPaging, FInv, StackHolds
<1>2. PICK dir, first : dir = base[BootPages - 1] /\ first = base[BootPages - 2] OBVIOUS
<1>3. Popped = dir BY <1>1, <1>2, Sizes DEF Popped
<1>4. BootPages - 1 \in 1 .. BootPages /\ BootPages - 2 \in 0 .. StackWords
      /\ BootPages - 2 \in 0 .. BootPages /\ BootPages - 1 \in 0 .. BootPages
      /\ BootPages - 1 # BootPages - 2 /\ BootPages - 1 \in 0 .. StackWords
  BY Sizes
<1>5. dir \in Boot /\ dir \in Tables /\ dir \in Nat
  <2>1. base[BootPages - 1] = (BootPages - 1) * Entries BY <1>1, <1>4 DEF FInv, StackHolds
  <2>2. QED BY <1>2, <1>4, <2>1 DEF Boot, Tables, FInv, TypeOK
<1>6. first \in Nat /\ first # dir
  <2>1. first \in Nat BY <1>2, <1>4 DEF FInv, TypeOK
  <2>2. QED BY <1>1, <1>2, <1>4, <2>1, WordsApart
<1>7. /\ mem' = [mem EXCEPT
                  ![dir]   = [e \in Index |-> IF e = Window THEN dir
                                              ELSE IF e = 0 THEN first ELSE Absent],
                  ![first] = [e \in Index |-> IF e = 1 THEN dir ELSE e]]
      /\ cr3' = dir
  BY <1>1, <1>2, <1>3 DEF StartPaging
<1>8. mem \in [Tables -> [Index -> Nat \cup {Absent}]] BY DEF FInv, TypeOK
<1>9. mem' \in [Tables -> [Index -> Nat \cup {Absent}]]
  <2>1. [e \in Index |-> IF e = Window THEN dir ELSE IF e = 0 THEN first ELSE Absent]
           \in [Index -> Nat \cup {Absent}]
    BY <1>5, <1>6
  <2>2. Index \subseteq Nat BY Sizes DEF Index
  <2>3. [e \in Index |-> IF e = 1 THEN dir ELSE e] \in [Index -> Nat \cup {Absent}]
    BY <1>5, <2>2
  <2>4. QED BY <1>7, <1>8, <2>1, <2>3
<1>10. \A e \in Index : mem'[dir][e] = IF e = Window THEN dir
                                       ELSE IF e = 0 THEN first ELSE Absent
  BY <1>5, <1>6, <1>7, <1>8
<1>11. posistion' = BootPages - 2 /\ posistion' \in 0 .. BootPages BY <1>1, Sizes
<1>12. TypeOK' BY <1>1, <1>5, <1>7, <1>9, <1>11 DEF FInv, TypeOK
<1>13. StackHolds'
  <2>1. \A i \in 1 .. BootPages : base'[i] = i * Entries BY <1>1 DEF FInv, StackHolds
  <2>2. base'[0] \in Garbage BY <1>1 DEF FInv, StackHolds
  <2>3. posistion' <= BootPages - 2 BY <1>11, Sizes
  <2>4. QED BY <1>1, <2>1, <2>2, <2>3 DEF StackHolds
<1>14. FramesApart'
  <2>1. first \in Used'
    <3>1. BootPages - 2 \in (BootPages - 2) .. (BootPages - 2) BY Sizes
    <3>2. Used' = {base[i] : i \in (BootPages - 2) .. (BootPages - 2)} BY <1>1, <1>11 DEF Used
    <3>3. QED BY <1>2, <3>1, <3>2
  <2>2. 0 \in Index /\ Window \in Index /\ 0 # Window BY Sizes
  <2>3. dir # Absent /\ first # Absent BY <1>5, <1>6 DEF Absent
  <2>4. cr3' = base'[BootPages - 1] /\ mem'[cr3'][Window] = cr3' BY <1>1, <1>2, <1>7, <1>10, <2>2
  <2>5. \A d \in Index \ {Window} : mem'[cr3'][d] # Absent => mem'[cr3'][d] \in Used'
    BY <1>7, <1>10, <2>1
  <2>6. \A d1, d2 \in Index :
           mem'[cr3'][d1] = mem'[cr3'][d2] /\ mem'[cr3'][d1] # Absent => d1 = d2
    <3>1. SUFFICES ASSUME NEW d1 \in Index, NEW d2 \in Index,
                          mem'[dir][d1] = mem'[dir][d2], mem'[dir][d1] # Absent
                   PROVE  d1 = d2
      BY <1>7
    <3>2. d1 \in {0, Window} /\ d2 \in {0, Window} BY <1>10, <3>1
    <3>3. mem'[dir][Window] = dir /\ mem'[dir][0] = first BY <1>10, <2>2
    <3>4. QED BY <1>6, <3>1, <3>2, <3>3
  <2>7. served' = {} BY <1>1
  <2>8. QED BY <2>4, <2>5, <2>6, <2>7 DEF FramesApart
<1>15. FaultIsKnown' BY <1>1 DEF FaultIsKnown
<1>16. QED BY <1>12, <1>13, <1>14, <1>15 DEF FInv

LEMMA FHandler ==
    ASSUME WordIsPrivate, WindowIsLeft, FInv,
           Handler \/ \E p \in UserPages : Touch(p)
    PROVE  FInv'
<1>1. Paged BY DEF Handler, Touch, Access, Fault, AddTable, NestedFault, ClearTable, MapPage, Paged
<1>2. TypeOK /\ posistion \in Nat BY DEF FInv, TypeOK
<1>3. CASE \/ Access \/ Fault
           \/ \E p \in UserPages : Touch(p)
  <2>1. /\ UNCHANGED <<base, posistion, cr3, mem, served>>
        /\ pc' \in {"run", "directory", "map"} /\ fresh' \in BOOLEAN
        /\ wanted' \in UserPages \cup {Absent} /\ fault' \in UserPages \cup {Absent}
        /\ pc' # "run" => fault' \in UserPages
    BY <1>2, <1>3 DEF Access, Fault, Touch, TypeOK
  <2>2. TypeOK' BY <1>2, <2>1 DEF TypeOK
  <2>3. posistion' \in Nat /\ posistion' <= posistion /\ base' = base BY <1>2, <2>1
  <2>4. StackHolds' BY <1>1, <2>1, <2>3, StackKept
  <2>5. FramesApart' BY <1>1, <2>1, <2>3, FramesKept
  <2>6. QED BY <2>1, <2>2, <2>4, <2>5 DEF FInv, FaultIsKnown
<1>4. CASE Pop /\ Popped = None /\ Halt
  <2>1. /\ base' = base /\ posistion' \in 0 .. BootPages /\ posistion' <= posistion
        /\ pc' = "halted" /\ UNCHANGED <<cr3, mem, fault, fresh, wanted, served>>
    BY <1>2, <1>4, Sizes DEF Pop, Halt, TypeOK
  <2>2. TypeOK' BY <1>2, <2>1 DEF TypeOK
  <2>3. posistion' \in Nat BY <2>1
  <2>4. StackHolds' BY <1>1, <2>1, <2>3, StackKept
  <2>5. QED BY <2>1, <2>2, <2>4 DEF FInv, FramesApart, FaultIsKnown, Paged
<1>5. ASSUME AddTable \/ NestedFault, Popped # None PROVE FInv'
  <2>1. fault \in UserPages
    BY <1>5 DEF AddTable, NestedFault, FInv, FaultIsKnown
  <2>2. Dir(fault) \in Index \ {Window} /\ Dir(GroupBase(fault)) \in Index \ {Window}
    BY <2>1, PageSplits, GroupOf DEF WindowIsLeft
  <2>3. PICK d \in Index \ {Window} :
           /\ Pop /\ mem' = [mem EXCEPT ![cr3][d] = Popped]
           /\ UNCHANGED <<cr3, fault, wanted, served>>
           /\ fresh' \in BOOLEAN /\ pc' = "clear"
    BY <1>2, <1>5, <2>2 DEF AddTable, NestedFault, TypeOK
  <2>4. FramesApart' /\ mem' \in [Tables -> [Index -> Nat \cup {Absent}]]
    BY <1>1, <1>5, <2>3, TableAdded
  <2>5. base' = base /\ posistion' \in 0 .. (BootPages - 2) /\ posistion' < posistion
    BY <1>1, <1>5, <2>3, PopGives
  <2>6. posistion' \in Nat /\ posistion' <= posistion /\ posistion' \in 0 .. BootPages
    BY <1>2, <2>5, Sizes
  <2>7. TypeOK' BY <1>2, <2>3, <2>4, <2>5, <2>6 DEF TypeOK
  <2>8. StackHolds' BY <1>1, <2>3, <2>5, <2>6, StackKept
  <2>9. QED BY <2>1, <2>3, <2>4, <2>7, <2>8 DEF FInv, FaultIsKnown
<1>6. CASE ClearTable
  <2>1. fault \in UserPages BY <1>6 DEF ClearTable, FInv, FaultIsKnown
  <2>2. Dir(GroupBase(fault)) \in Index \ {Window} BY <2>1, GroupOf
  <2>3. PICK t : t = TableOf(GroupBase(fault)) OBVIOUS
  <2>4. t # cr3 BY <1>1, <2>2, <2>3, TableIsNotDirectory DEF TableOf
  <2>5. /\ mem' = [mem EXCEPT ![t] = Cleared(t)]
        /\ UNCHANGED <<base, posistion, cr3, fault, wanted, served>>
        /\ fresh' = FALSE /\ pc' = "map"
    BY <1>6, <2>3 DEF ClearTable
  <2>6. mem' \in [Tables -> [Index -> Nat \cup {Absent}]]
    <3>1. t \in Tables => Cleared(t) \in [Index -> Nat \cup {Absent}]
      BY <1>2 DEF Cleared, TypeOK
    <3>2. QED BY <1>2, <2>5, <3>1 DEF TypeOK
  <2>7. \A d \in Index : mem'[cr3][d] = mem[cr3][d] BY <2>4, <2>5
  <2>8. posistion' \in Nat /\ posistion' <= posistion /\ base' = base BY <1>2, <2>5
  <2>9. TypeOK' BY <1>2, <2>5, <2>6 DEF TypeOK
  <2>10. StackHolds' BY <1>1, <2>5, <2>8, StackKept
  <2>11. FramesApart' BY <1>1, <2>5, <2>7, <2>8, FramesKept
  <2>12. QED BY <2>1, <2>5, <2>9, <2>10, <2>11 DEF FInv, FaultIsKnown
<1>7. ASSUME MapPage, Popped # None PROVE FInv'
  <2>1. fault \in UserPages BY <1>7 DEF MapPage, FInv, FaultIsKnown
  <2>2. /\ Pop /\ mem' = Store(fault, Popped) /\ served' = served \cup {<<fault, Popped>>}
        /\ fault' = Absent /\ pc' = "run" /\ UNCHANGED <<cr3, fresh, wanted>>
    BY <1>7 DEF MapPage
  <2>3. FramesApart' /\ mem' \in [Tables -> [Index -> Nat \cup {Absent}]]
    BY <1>1, <1>7, <2>1, <2>2, PageMapped
  <2>4. /\ base' = base /\ posistion' \in 0 .. (BootPages - 2) /\ posistion' < posistion
        /\ Popped \in Nat
    BY <1>1, <1>7, <2>2, PopGives
  <2>5. posistion' \in Nat /\ posistion' <= posistion /\ posistion' \in 0 .. BootPages
    BY <1>2, <2>4, Sizes
  <2>6. \A s \in served' : s[1] \in UserPages /\ s[2] \in Nat
    <3>1. PICK new : new = <<fault, Popped>> OBVIOUS
    <3>2. new[1] = fault /\ new[2] = Popped BY <3>1
    <3>3. served' = served \cup {new} BY <2>2, <3>1
    <3>4. QED BY <1>2, <2>1, <2>4, <3>2, <3>3 DEF TypeOK
  <2>7. TypeOK' BY <1>2, <2>2, <2>3, <2>4, <2>5, <2>6 DEF TypeOK
  <2>8. StackHolds' BY <1>1, <2>2, <2>4, <2>5, StackKept
  <2>9. QED BY <2>2, <2>3, <2>7, <2>8 DEF FInv, FaultIsKnown
<1>8. QED BY <1>3, <1>4, <1>5, <1>6, <1>7 DEF Handler, AddTable, NestedFault, MapPage

LEMMA FInit == ASSUME Init PROVE FInv
<1>1. /\ posistion = 0 /\ pc = "boot" /\ cr3 = None /\ fault = Absent /\ wanted = Absent
      /\ fresh = FALSE /\ served = {}
  BY DEF Init, SetupStack
<1>2. PICK g \in Garbage : base = [i \in 0 .. StackWords |-> IF i = 0 THEN g ELSE None]
  BY DEF Init, SetupStack
<1>3. PICK v \in Fill : mem = [f \in Tables |-> [e \in Index |-> v]] BY DEF Init
<1>4. base \in [0 .. StackWords -> Nat] /\ base[0] \in Garbage
  <2>1. g \in Nat /\ None \in Nat BY StackAssumption DEF None
  <2>2. 0 \in 0 .. StackWords BY Sizes
  <2>3. QED BY <1>2, <2>1, <2>2
<1>5. mem \in [Tables -> [Index -> Nat \cup {Absent}]]
  BY <1>3, PagingAssumption DEF Absent
<1>6. TypeOK
  <2>1. posistion \in 0 .. BootPages BY <1>1, Sizes
  <2>2. \A s \in served : s[1] \in UserPages /\ s[2] \in Nat BY <1>1
  <2>3. QED BY <1>1, <1>4, <1>5, <2>1, <2>2 DEF TypeOK
<1>7. StackHolds
  <2>1. \A i \in 1 .. BootPages : ~(i <= posistion) BY <1>1
  <2>2. QED BY <1>1, <1>4, <2>1, Sizes DEF StackHolds, Paged
<1>8. QED BY <1>1, <1>6, <1>7 DEF FInv, FramesApart, FaultIsKnown, Paged

LEMMA FStep ==
    ASSUME WordIsPrivate, WindowIsLeft, FInv, [Next]_vars PROVE FInv'
<1>1. CASE UNCHANGED vars
  BY <1>1 DEF vars, FInv, TypeOK, StackHolds, FramesApart, FaultIsKnown, Used, Paged
<1>2. QED BY <1>1, FBootPush, FStartPaging, FHandler DEF Next

\* A page of memory is the directory, one table, one mapped page or free, and never two
\* of these, when the word under the stack is no page that was pushed and nothing
\* touches memory through the window.
THEOREM EachFrameHasOneUse ==
    ASSUME WordIsPrivate, WindowIsLeft PROVE Spec => []OneUsePerFrame
<1>1. Init => FInv BY FInit
<1>2. FInv /\ [Next]_vars => FInv' BY FStep
<1>3. FInv => OneUsePerFrame
  <2>1. SUFFICES ASSUME FInv, Paged PROVE OneUsePerFrame
    BY DEF FInv, OneUsePerFrame
  <2>2. LiveTables \subseteq Used /\ \A f \in LiveTables : \E d \in Index : mem[cr3][d] = f
    BY <2>1 DEF LiveTables, FInv, FramesApart
  <2>3. \A s \in served : s[2] \in Used /\ s[2] \notin LiveTables /\ s[2] # cr3
    BY <2>1, <2>2, Sizes DEF FInv, FramesApart
  <2>4. \A i \in StillToPop : base[i] \notin Used /\ base[i] # cr3
    <3>1. SUFFICES ASSUME NEW i \in StillToPop PROVE base[i] \notin Used /\ base[i] # cr3
      OBVIOUS
    <3>2. posistion \in Nat /\ posistion <= BootPages - 2 /\ pc # "boot"
      BY <2>1 DEF FInv, TypeOK, StackHolds, Paged
    <3>3. i \in 0 .. BootPages /\ i < posistion BY <3>1, <3>2, Sizes DEF StillToPop
    <3>4. \A j \in posistion .. (BootPages - 2) : base[j] # base[i]
      <4>1. SUFFICES ASSUME NEW j \in posistion .. (BootPages - 2), base[j] = base[i]
                     PROVE  FALSE
        OBVIOUS
      <4>2. j \in 0 .. BootPages /\ j # i BY <3>2, <3>3, Sizes
      <4>3. QED BY <2>1, <3>2, <3>3, <4>1, <4>2, WordsApart
    <3>5. base[i] # base[BootPages - 1]
      <4>1. BootPages - 1 \in 0 .. BootPages /\ i # BootPages - 1 BY <3>2, <3>3, Sizes
      <4>2. QED BY <2>1, <3>2, <3>3, <4>1, WordsApart
    <3>6. QED BY <2>1, <3>4, <3>5, DirectoryIsReal DEF Used
  <2>5. \A i \in StillToPop : base[i] \notin LiveTables \cup {cr3} \cup {s[2] : s \in served}
    BY <2>2, <2>3, <2>4
  <2>6. QED BY <2>1, <2>3, <2>5 DEF FInv, FramesApart, OneUsePerFrame
<1>4. QED BY <1>1, <1>2, <1>3, PTL DEF Spec
-----------------------------------------------------------------------------
(* What the steps do to the mappings.                                         *)

LEMMA SameTables == ASSUME MInv, Paged, cr3' = cr3, OnlyFirstTables',
                           \A d \in Index : mem[cr3][d] # Absent => mem'[cr3][d] # Absent
                    PROVE  OnlyFirstTables
BY DEF OnlyFirstTables

\* The entry of a page is read through the directory and then through its table.
LEMMA Untouched ==
    ASSUME NEW p, NEW t, cr3' = cr3, t = mem[cr3][Dir(p)], mem'[cr3][Dir(p)] = t,
           mem'[t][Slot(p)] = mem[t][Slot(p)]
    PROVE  (Present(p)' <=> Present(p)) /\ Frame(p)' = Frame(p)
<1>1. TableOf(p) = t /\ TableOf(p)' = t BY DEF TableOf
<1>2. Frame(p) = mem[t][Slot(p)] /\ Frame(p)' = mem'[t][Slot(p)] BY <1>1 DEF Frame
<1>3. Present(p) <=> t # Absent /\ mem[t][Slot(p)] # Absent BY <1>1 DEF Present
<1>4. Present(p)' <=> t # Absent /\ mem'[t][Slot(p)] # Absent BY <1>1 DEF Present
<1>5. QED BY <1>2, <1>3, <1>4

LEMMA UserTable ==
    ASSUME WindowIsLeft, MInv, Paged, NEW p \in UserPages, TableOf(p) # Absent
    PROVE  /\ TableOf(p) = mem[cr3][Dir(p)] /\ TableOf(p) \in Tables /\ TableOf(p) # cr3
           /\ \A d \in Index : d # Dir(p) => mem[cr3][d] # TableOf(p)
<1>1. Dir(p) \in Index \ {Window} BY PageSplits DEF WindowIsLeft
<1>2. TableOf(p) = mem[cr3][Dir(p)] BY DEF TableOf
<1>3. TableOf(p) # cr3 BY <1>1, <1>2, TableIsNotDirectory DEF MInv
<1>4. TableOf(p) \in Tables BY <1>1, <1>2 DEF MInv, KernelIsMapped
<1>5. \A d \in Index : d # Dir(p) => mem[cr3][d] # TableOf(p)
  BY <1>1, <1>2 DEF MInv, FInv, FramesApart
<1>6. QED BY <1>2, <1>3, <1>4, <1>5

\* A kernel table that is not written to, or not any more alone, under a directory
\* whose first entry stays.
LEMMA KernelKept ==
    ASSUME MInv, Paged, cr3' = cr3, mem'[cr3][0] = mem[cr3][0],
           FirstTableIsAlone' => /\ FirstTableIsAlone
                                 /\ mem'[mem[cr3][0]] = mem[mem[cr3][0]],
           \A d \in Index : mem'[cr3][d] # Absent => mem'[cr3][d] \in Tables
    PROVE  KernelIsMapped'
<1>1. PICK first : first = mem[cr3][0] OBVIOUS
<1>2. /\ first # Absent
      /\ FirstTableIsAlone => \A e \in Index : mem[first][e] = (IF e = 1 THEN cr3 ELSE e)
  BY <1>1 DEF MInv, KernelIsMapped
<1>3. mem'[cr3'][0] = first /\ (FirstTableIsAlone' => FirstTableIsAlone /\ mem'[first] = mem[first])
  BY <1>1
<1>4. QED BY <1>2, <1>3 DEF KernelIsMapped

\* Tables are only ever added to the directory.
LEMMA StaysAlone ==
    ASSUME cr3' = cr3, \A d \in Index : mem[cr3][d] # Absent => mem'[cr3][d] # Absent
    PROVE  FirstTableIsAlone' => FirstTableIsAlone
<1>1. (1 .. 3) \ {Window} \subseteq Index
  BY PagingAssumption DEF Index, Window
<1>2. QED BY <1>1 DEF FirstTableIsAlone

\* The pages of the first table are there while it is alone.
LEMMA FirstIsFull ==
    ASSUME MInv, Paged, FirstTableIsAlone, NEW p \in UserPages, Dir(p) = 0
    PROVE  Present(p)
<1>1. PICK first : first = mem[cr3][0] OBVIOUS
<1>2. PICK e \in Index : e = Slot(p) BY PageSplits
<1>3. first # Absent /\ mem[first][e] = (IF e = 1 THEN cr3 ELSE e)
  BY <1>1 DEF MInv, KernelIsMapped
<1>4. cr3 # Absent /\ e # Absent BY DirectoryIsReal, Sizes DEF MInv, Absent, Index
<1>5. TableOf(p) = first BY <1>1 DEF TableOf
<1>6. QED BY <1>2, <1>3, <1>4, <1>5 DEF Present

\* What is looked up when nothing of memory has changed.
LEMMA LookUp == ASSUME UNCHANGED <<cr3, mem>>
                PROVE  /\ OnlyFirstTables' <=> OnlyFirstTables
                       /\ FirstTableIsAlone' <=> FirstTableIsAlone
                       /\ \A p : (Present(p)' <=> Present(p)) /\ Frame(p)' = Frame(p)
                                 /\ TableOf(p)' = TableOf(p)
BY DEF OnlyFirstTables, FirstTableIsAlone, Present, Frame, TableOf

LEMMA MQuiet ==
    ASSUME MInv, FInv', \/ Access \/ Fault
                        \/ \E p \in UserPages : Touch(p)
    PROVE  MInv'
<1>1. /\ UNCHANGED <<base, posistion, cr3, mem, served>> /\ pc = "run"
      /\ pc' \in {"run", "directory", "map"}
      /\ pc' = "directory" => TableOf(fault') = Absent
      /\ pc' = "map" => TableOf(fault') # Absent /\ ~Present(fault')
  BY DEF Access, Fault, Touch
<1>2. Paged BY <1>1 DEF Paged
<1>3. KernelIsMapped' BY <1>1, <1>2, LookUp DEF MInv, KernelIsMapped
<1>4. PICK f : f = fault' OBVIOUS
<1>5. TableIsThere'
  <2>1. pc' = "directory" => Dir(f) # 0
    BY <1>1, <1>2, <1>4 DEF TableOf, MInv, KernelIsMapped
  <2>2. pc' = "map" /\ FirstTableIsAlone => Dir(f) # 0
    <3>1. pc' = "map" => f \in UserPages BY <1>4 DEF FInv, FaultIsKnown
    <3>2. QED BY <1>1, <1>2, <1>4, <3>1, FirstIsFull
  <2>3. QED BY <1>1, <1>4, <2>1, <2>2, LookUp DEF TableIsThere, TableOf
<1>6. ASSUME Paged', OnlyFirstTables'
      PROVE  /\ \A s \in served' : Present(s[1])' /\ Frame(s[1])' = s[2]
             /\ \A p \in UserPages : IsZeroed(p) /\ Present(p)' => <<p, Frame(p)'>> \in served'
             /\ pc' = "map" => \A s \in served' : s[1] # fault'
  <2>1. OnlyFirstTables BY <1>1, <1>6, LookUp
  <2>2. /\ \A s \in served : Present(s[1]) /\ Frame(s[1]) = s[2]
        /\ \A p \in UserPages : IsZeroed(p) /\ Present(p) => <<p, Frame(p)>> \in served
    BY <1>1, <1>2, <2>1 DEF MInv, Mappings, MappingsSurvive
  <2>3. pc' = "map" => \A s \in served : s[1] # f BY <1>1, <1>4, <2>2
  <2>4. QED BY <1>1, <1>4, <2>2, <2>3, LookUp
<1>7. Mappings' BY <1>1, <1>6 DEF Mappings, MappingsSurvive
<1>8. QED BY <1>3, <1>5, <1>7 DEF MInv

LEMMA MStops == ASSUME FInv', pc' \in {"boot", "paging", "halted"} PROVE MInv'
BY DEF MInv, KernelIsMapped, TableIsThere, Mappings, Paged

LEMMA MAddTable ==
    ASSUME WordIsPrivate, WindowIsLeft, MInv, FInv', AddTable, Popped # None
    PROVE  MInv'
<1>1. /\ pc = "directory" /\ Pop /\ pc' = "clear"
      /\ mem' = [mem EXCEPT ![cr3][Dir(fault)] = Popped]
      /\ UNCHANGED <<cr3, fault, wanted, served>>
  BY DEF AddTable
<1>2. Paged /\ FInv /\ fault \in UserPages BY <1>1 DEF Paged, MInv, FInv, FaultIsKnown
<1>3. PICK d \in Index : d = Dir(fault) BY <1>2, PageSplits
<1>4. d # Window /\ d # 0 /\ mem[cr3][d] = Absent
  BY <1>1, <1>2, <1>3 DEF WindowIsLeft, MInv, TableIsThere, TableOf
<1>5. Popped \in Nat /\ Popped \in Tables /\ Popped # Absent BY <1>1, <1>2, PopGives DEF Absent
<1>6. cr3 \in Tables /\ mem \in [Tables -> [Index -> Nat \cup {Absent}]]
  BY <1>2, DirectoryIsReal DEF FInv, TypeOK
<1>7. /\ \A e \in Index : mem'[cr3][e] = IF e = d THEN Popped ELSE mem[cr3][e]
      /\ \A t : t # cr3 => mem'[t] = mem[t]
  BY <1>1, <1>3, <1>6
<1>8. KernelIsMapped'
  <2>1. 0 \in Index /\ 0 # Window BY Sizes
  <2>2. mem[cr3][0] # cr3 BY <1>2, <2>1, TableIsNotDirectory
  <2>3. mem'[cr3][0] = mem[cr3][0] /\ mem'[mem[cr3][0]] = mem[mem[cr3][0]]
    BY <1>4, <1>7, <2>1, <2>2
  <2>4. \A e \in Index : mem'[cr3][e] # Absent => mem'[cr3][e] \in Tables
    BY <1>2, <1>5, <1>7 DEF MInv, KernelIsMapped
  <2>5. FirstTableIsAlone' => FirstTableIsAlone BY <1>1, <1>5, <1>7, StaysAlone
  <2>6. QED BY <1>1, <1>2, <2>3, <2>4, <2>5, KernelKept
<1>9. TableIsThere' BY <1>1, <1>3, <1>4, <1>5, <1>7 DEF TableIsThere, TableOf
<1>10. ASSUME NEW p \in UserPages, Dir(p) # d, mem[cr3][Dir(p)] # Absent
       PROVE  (Present(p)' <=> Present(p)) /\ Frame(p)' = Frame(p)
  <2>1. PICK t : t = mem[cr3][Dir(p)] OBVIOUS
  <2>2. t # cr3 BY <1>2, <1>10, <2>1, UserTable DEF TableOf
  <2>3. mem'[t] = mem[t] /\ mem'[cr3][Dir(p)] = t
    BY <1>7, <1>10, <2>1, <2>2, PageSplits
  <2>4. QED BY <1>1, <2>1, <2>3, Untouched
<1>11. ASSUME Paged', OnlyFirstTables'
       PROVE  /\ \A s \in served' : Present(s[1])' /\ Frame(s[1])' = s[2] /\ Dir(s[1]) # d
              /\ \A p \in UserPages : IsZeroed(p) /\ Present(p)'
                                        => <<p, Frame(p)'>> \in served' \/ Dir(p) = d
  <2>1. \A e \in Index : mem[cr3][e] # Absent => mem'[cr3][e] # Absent
    BY <1>5, <1>7
  <2>2. OnlyFirstTables BY <1>1, <1>2, <1>11, <2>1, SameTables
  <2>3. /\ \A s \in served : Present(s[1]) /\ Frame(s[1]) = s[2]
        /\ \A p \in UserPages : IsZeroed(p) /\ Present(p) => <<p, Frame(p)>> \in served
    BY <1>1, <1>2, <2>2 DEF MInv, Mappings, MappingsSurvive
  <2>4. ASSUME NEW s \in served
        PROVE  Present(s[1])' /\ Frame(s[1])' = s[2] /\ Dir(s[1]) # d
    <3>1. s[1] \in UserPages BY <1>2 DEF FInv, TypeOK
    <3>2. mem[cr3][Dir(s[1])] # Absent BY <2>3 DEF Present, TableOf
    <3>3. Dir(s[1]) # d BY <1>4, <3>2
    <3>4. QED BY <1>10, <2>3, <3>1, <3>2, <3>3
  <2>5. ASSUME NEW p \in UserPages, IsZeroed(p), Present(p)', Dir(p) # d
        PROVE  <<p, Frame(p)'>> \in served
    <3>1. mem'[cr3][Dir(p)] # Absent BY <1>1, <2>5 DEF Present, TableOf
    <3>2. mem[cr3][Dir(p)] # Absent BY <1>7, <2>5, <3>1, PageSplits
    <3>3. QED BY <1>10, <2>3, <2>5, <3>2
  <2>6. QED BY <1>1, <2>4, <2>5
<1>12. Mappings' BY <1>1, <1>3, <1>11 DEF Mappings, MappingsSurvive
<1>13. QED BY <1>8, <1>9, <1>12 DEF MInv

\* The table that is cleared, or was just added, is the first of its group as long as
\* all are.
LEMMA FirstOfItsGroup ==
    ASSUME WindowIsLeft, MInv, Paged, OnlyFirstTables, pc = "clear"
    PROVE  /\ fault \in UserPages /\ TableOf(fault) # Absent
           /\ Dir(fault) % 4 = 0 /\ TableOf(GroupBase(fault)) = TableOf(fault)
<1>1. fault \in UserPages /\ TableOf(fault) # Absent
  BY DEF MInv, FInv, FaultIsKnown, TableIsThere
<1>2. Dir(fault) \in Index \ {Window} BY <1>1, PageSplits DEF WindowIsLeft
<1>3. Dir(fault) % 4 = 0 BY <1>1, <1>2 DEF OnlyFirstTables, TableOf
<1>4. Dir(GroupBase(fault)) = Dir(fault) BY <1>1, <1>3, GroupOf
<1>5. QED BY <1>1, <1>3, <1>4 DEF TableOf

LEMMA MNestedFault ==
    ASSUME WordIsPrivate, WindowIsLeft, MInv, FInv', NestedFault, Popped # None
    PROVE  MInv'
<1>1. /\ pc = "clear" /\ TableOf(GroupBase(fault)) = Absent /\ Pop /\ pc' = "clear"
      /\ mem' = [mem EXCEPT ![cr3][Dir(GroupBase(fault))] = Popped]
      /\ UNCHANGED <<cr3, fault, wanted, served>>
  BY DEF NestedFault
<1>2. Paged /\ FInv /\ fault \in UserPages BY <1>1 DEF Paged, MInv, FInv, FaultIsKnown
<1>3. Dir(fault) # 0 BY <1>1 DEF MInv, TableIsThere
<1>4. PICK d \in Index : d = Dir(GroupBase(fault)) /\ d # Window
  BY <1>2, GroupOf
<1>5. d # 0 BY <1>1, <1>2, <1>4 DEF TableOf, MInv, KernelIsMapped
<1>6. Popped \in Nat /\ Popped \in Tables /\ Popped # Absent BY <1>1, <1>2, PopGives DEF Absent
<1>7. cr3 \in Tables /\ mem \in [Tables -> [Index -> Nat \cup {Absent}]]
  BY <1>2, DirectoryIsReal DEF FInv, TypeOK
<1>8. /\ \A e \in Index : mem'[cr3][e] = IF e = d THEN Popped ELSE mem[cr3][e]
      /\ \A t : t # cr3 => mem'[t] = mem[t]
  BY <1>1, <1>4, <1>7
<1>9. KernelIsMapped'
  <2>1. 0 \in Index /\ 0 # Window BY Sizes
  <2>2. mem[cr3][0] # cr3 BY <1>2, <2>1, TableIsNotDirectory
  <2>3. mem'[cr3][0] = mem[cr3][0] /\ mem'[mem[cr3][0]] = mem[mem[cr3][0]]
    BY <1>5, <1>8, <2>1, <2>2
  <2>4. \A e \in Index : mem'[cr3][e] # Absent => mem'[cr3][e] \in Tables
    BY <1>2, <1>6, <1>8 DEF MInv, KernelIsMapped
  <2>5. FirstTableIsAlone' => FirstTableIsAlone BY <1>1, <1>6, <1>8, StaysAlone
  <2>6. QED BY <1>1, <1>2, <2>3, <2>4, <2>5, KernelKept
<1>10. TableIsThere'
  <2>1. mem[cr3][Dir(fault)] # Absent BY <1>1 DEF MInv, TableIsThere, TableOf
  <2>2. mem'[cr3][Dir(fault)] # Absent BY <1>2, <1>6, <1>8, <2>1, PageSplits
  <2>3. QED BY <1>1, <1>3, <2>2 DEF TableIsThere, TableOf
<1>11. ~OnlyFirstTables'
  <2>1. \A e \in Index : mem[cr3][e] # Absent => mem'[cr3][e] # Absent BY <1>6, <1>8
  <2>2. QED BY <1>1, <1>2, <2>1, SameTables, FirstOfItsGroup
<1>12. Mappings' BY <1>11 DEF Mappings
<1>13. QED BY <1>9, <1>10, <1>12 DEF MInv

LEMMA MClearTable ==
    ASSUME WindowIsLeft, MInv, FInv', ClearTable PROVE MInv'
<1>1. PICK t : t = TableOf(GroupBase(fault)) OBVIOUS
<1>2. /\ pc = "clear" /\ t # Absent /\ mem' = [mem EXCEPT ![t] = Cleared(t)] /\ pc' = "map"
      /\ UNCHANGED <<base, posistion, cr3, fault, wanted, served>>
  BY <1>1 DEF ClearTable
<1>3. Paged /\ FInv /\ fault \in UserPages BY <1>2 DEF Paged, MInv, FInv, FaultIsKnown
<1>4. FirstTableIsAlone => Dir(fault) \notin 0 .. 3
  <2>1. mem[cr3][Dir(fault)] # Absent /\ Dir(fault) # 0 BY <1>2 DEF MInv, TableIsThere, TableOf
  <2>2. Dir(fault) \in Index /\ Dir(fault) # Window BY <1>3, PageSplits DEF WindowIsLeft
  <2>3. QED BY <2>1, <2>2 DEF FirstTableIsAlone
<1>5. PICK g \in Index : /\ g = Dir(GroupBase(fault)) /\ g # Window /\ t = mem[cr3][g]
                         /\ FirstTableIsAlone => g # 0
  BY <1>1, <1>3, <1>4, GroupOf DEF TableOf
<1>6. t # cr3 BY <1>3, <1>5, TableIsNotDirectory
<1>7. /\ \A u : u # t => mem'[u] = mem[u]
      /\ mem'[cr3] = mem[cr3]
  BY <1>2, <1>6
<1>8. KernelIsMapped'
  <2>1. 0 \in Index BY Sizes
  <2>2. FirstTableIsAlone => mem[cr3][0] # t BY <1>2, <1>3, <1>5, <2>1 DEF FInv, FramesApart
  <2>3. FirstTableIsAlone' => FirstTableIsAlone BY <1>2, <1>7, StaysAlone
  <2>4. QED BY <1>2, <1>3, <1>7, <2>2, <2>3, KernelKept DEF MInv, KernelIsMapped
<1>9. TableIsThere' BY <1>2, <1>7 DEF TableIsThere, TableOf, MInv
<1>10. ASSUME Paged', OnlyFirstTables'
       PROVE  /\ \A s \in served' : Present(s[1])' /\ Frame(s[1])' = s[2]
              /\ \A p \in UserPages : IsZeroed(p) /\ Present(p)' => <<p, Frame(p)'>> \in served'
              /\ \A s \in served' : s[1] # fault'
  <2>1. OnlyFirstTables BY <1>2, <1>3, <1>7, <1>10, SameTables
  <2>2. PICK d \in Index : d = Dir(fault) /\ d % 4 = 0 /\ t = TableOf(fault) /\ t = mem[cr3][d]
    BY <1>1, <1>2, <1>3, <2>1, FirstOfItsGroup, PageSplits DEF TableOf
  <2>3. t \in Tables /\ \A e \in Index : e # d => mem[cr3][e] # t
    BY <1>2, <1>3, <2>2, UserTable
  <2>4. mem'[t] = Cleared(t) BY <1>2, <2>3 DEF MInv, FInv, TypeOK
  <2>5. /\ \A s \in served : Present(s[1]) /\ Frame(s[1]) = s[2] /\ Dir(s[1]) # d
        /\ \A p \in UserPages : IsZeroed(p) /\ Present(p)
                                  => <<p, Frame(p)>> \in served \/ Dir(p) = d
    BY <1>2, <1>3, <2>1, <2>2 DEF MInv, Mappings, MappingsSurvive
  <2>6. ASSUME NEW p \in UserPages, Dir(p) # d
        PROVE  (Present(p)' <=> Present(p)) /\ Frame(p)' = Frame(p)
    <3>1. PICK u : u = mem[cr3][Dir(p)] OBVIOUS
    <3>2. u # t BY <2>3, <2>6, <3>1, PageSplits
    <3>3. mem'[u] = mem[u] /\ mem'[cr3][Dir(p)] = u BY <1>7, <3>1, <3>2
    <3>4. QED BY <1>2, <3>1, <3>3, Untouched
  <2>7. ASSUME NEW p \in UserPages, IsZeroed(p), Dir(p) = d PROVE ~Present(p)'
    <3>1. Slot(p) \in Index /\ Slot(p) # Entries - 1 BY <2>7, PageSplits DEF IsZeroed
    <3>2. Slot(p) < Entries - 1 BY <3>1, Sizes DEF Index
    <3>3. mem'[t][Slot(p)] = Absent BY <2>4, <3>1, <3>2 DEF Cleared
    <3>4. TableOf(p)' = t BY <1>2, <1>7, <2>2, <2>7 DEF TableOf
    <3>5. QED BY <3>3, <3>4 DEF Present
  <2>8. ASSUME NEW s \in served PROVE Present(s[1])' /\ Frame(s[1])' = s[2]
    <3>1. s[1] \in UserPages BY <1>3 DEF FInv, TypeOK
    <3>2. QED BY <2>5, <2>6, <3>1
  <2>9. ASSUME NEW p \in UserPages, IsZeroed(p), Present(p)'
        PROVE  <<p, Frame(p)'>> \in served
    BY <2>5, <2>6, <2>7, <2>9
  <2>10. \A s \in served : s[1] # fault BY <2>2, <2>5
  <2>11. QED BY <1>2, <2>8, <2>9, <2>10
<1>11. Mappings' BY <1>2, <1>10 DEF Mappings, MappingsSurvive
<1>12. QED BY <1>8, <1>9, <1>11 DEF MInv

LEMMA MMapPage ==
    ASSUME WordIsPrivate, WindowIsLeft, MInv, FInv', MapPage, Popped # None
    PROVE  MInv'
<1>1. /\ pc = "map" /\ Pop /\ mem' = Store(fault, Popped) /\ pc' = "run"
      /\ served' = served \cup {<<fault, Popped>>} /\ UNCHANGED <<cr3, fresh, wanted>>
  BY DEF MapPage
<1>2. PICK f \in UserPages : f = fault BY <1>1 DEF MInv, FInv, FaultIsKnown
<1>3. Paged /\ FInv BY <1>1 DEF Paged, MInv
<1>4. PICK t \in Tables : /\ t = TableOf(f) /\ t = mem[cr3][Dir(f)] /\ t # cr3
                          /\ \A d \in Index : d # Dir(f) => mem[cr3][d] # t
  <2>1. TableOf(f) # Absent BY <1>1, <1>2 DEF MInv, TableIsThere
  <2>2. QED BY <1>3, <2>1, UserTable DEF MInv
<1>5. PICK frame : frame = Popped OBVIOUS
<1>6. frame \in Nat /\ frame # Absent BY <1>1, <1>3, <1>5, PopGives DEF Absent
<1>7. mem' = [mem EXCEPT ![t][Slot(f)] = frame] BY <1>1, <1>2, <1>4, <1>5 DEF Store
<1>8. mem \in [Tables -> [Index -> Nat \cup {Absent}]] BY <1>3 DEF FInv, TypeOK
<1>9. /\ Dir(f) \in Index /\ Slot(f) \in Index
      /\ FirstTableIsAlone => Dir(f) # 0
  BY <1>1, <1>2, PageSplits DEF MInv, TableIsThere
<1>10. /\ \A u : u # t => mem'[u] = mem[u]
       /\ mem'[cr3] = mem[cr3]
       /\ \A e \in Index : mem'[t][e] = IF e = Slot(f) THEN frame ELSE mem[t][e]
  BY <1>4, <1>7, <1>8
<1>11. KernelIsMapped'
  <2>1. 0 \in Index BY Sizes
  <2>2. FirstTableIsAlone => mem[cr3][0] # t BY <1>4, <1>9, <2>1
  <2>3. FirstTableIsAlone' => FirstTableIsAlone BY <1>1, <1>10, StaysAlone
  <2>4. QED BY <1>1, <1>3, <1>10, <2>2, <2>3, KernelKept DEF MInv, KernelIsMapped
<1>12. TableIsThere' BY <1>1 DEF TableIsThere
<1>13. ASSUME NEW p \in UserPages, p # f
       PROVE  (Present(p)' <=> Present(p)) /\ Frame(p)' = Frame(p)
  <2>1. PICK u : u = mem[cr3][Dir(p)] OBVIOUS
  <2>2. Dir(p) \in Index /\ Slot(p) \in Index BY PageSplits
  <2>3. mem'[u][Slot(p)] = mem[u][Slot(p)]
    <3>1. CASE Dir(p) # Dir(f) BY <1>4, <1>10, <2>1, <2>2, <3>1
    <3>2. CASE Dir(p) = Dir(f)
      <4>1. u = t BY <1>4, <2>1, <3>2
      <4>2. Slot(p) # Slot(f)
        <5>1. p = Entries * Dir(p) + Slot(p) /\ f = Entries * Dir(f) + Slot(f) BY PageSplits
        <5>2. QED BY <1>13, <3>2, <5>1, Zenon
      <4>3. QED BY <1>10, <2>2, <4>1, <4>2
    <3>3. QED BY <3>1, <3>2
  <2>4. mem'[cr3][Dir(p)] = u BY <1>10, <2>1
  <2>5. QED BY <1>1, <2>1, <2>3, <2>4, Untouched
<1>14. Present(f)' /\ Frame(f)' = frame
  <2>1. TableOf(f)' = t /\ t # Absent BY <1>1, <1>2, <1>4, <1>10 DEF TableOf, MInv, TableIsThere
  <2>2. mem'[t][Slot(f)] = frame BY <1>9, <1>10
  <2>3. QED BY <1>6, <2>1, <2>2 DEF Present, Frame
<1>15. ASSUME Paged', OnlyFirstTables'
       PROVE  /\ \A s \in served' : Present(s[1])' /\ Frame(s[1])' = s[2]
              /\ \A p \in UserPages : IsZeroed(p) /\ Present(p)' => <<p, Frame(p)'>> \in served'
  <2>1. OnlyFirstTables BY <1>1, <1>3, <1>10, <1>15, SameTables
  <2>2. /\ \A s \in served : Present(s[1]) /\ Frame(s[1]) = s[2]
        /\ \A p \in UserPages : IsZeroed(p) /\ Present(p) => <<p, Frame(p)>> \in served
        /\ \A s \in served : s[1] # f
    BY <1>1, <1>2, <1>3, <2>1 DEF MInv, Mappings, MappingsSurvive
  <2>3. PICK new : new = <<f, frame>> OBVIOUS
  <2>4. new[1] = f /\ new[2] = frame /\ served' = served \cup {new} BY <1>1, <1>2, <1>5, <2>3
  <2>5. ASSUME NEW s \in served PROVE Present(s[1])' /\ Frame(s[1])' = s[2]
    <3>1. s[1] \in UserPages /\ s[1] # f BY <1>3, <2>2 DEF FInv, TypeOK
    <3>2. QED BY <1>13, <2>2, <3>1
  <2>6. ASSUME NEW p \in UserPages, IsZeroed(p), Present(p)'
        PROVE  <<p, Frame(p)'>> \in served'
    <3>1. CASE p = f BY <1>14, <2>3, <2>4, <3>1
    <3>2. CASE p # f BY <1>13, <2>2, <2>4, <2>6, <3>2
    <3>3. QED BY <3>1, <3>2
  <2>7. QED BY <1>14, <2>4, <2>5, <2>6
<1>16. Mappings' BY <1>1, <1>15 DEF Mappings, MappingsSurvive
<1>17. QED BY <1>11, <1>12, <1>16 DEF MInv

LEMMA MStartPaging ==
    ASSUME WordIsPrivate, WindowIsLeft, MInv, FInv', StartPaging PROVE MInv'
<1>1. /\ pc = "paging" /\ posistion = BootPages /\ served' = {} /\ pc' = "run" /\ FInv
  BY DEF StartPaging, MInv, FInv, StackHolds
<1>2. PICK dir, first : dir = base[BootPages - 1] /\ first = base[BootPages - 2] OBVIOUS
<1>3. BootPages - 1 \in 1 .. BootPages /\ BootPages - 2 \in 1 .. BootPages
      /\ BootPages - 1 \in 0 .. StackWords /\ BootPages - 2 \in 0 .. StackWords
      /\ BootPages - 1 \in 0 .. BootPages /\ BootPages - 2 \in 0 .. BootPages
      /\ BootPages - 1 # BootPages - 2
  BY Sizes
<1>4. dir \in Tables /\ first \in Tables /\ dir \in Nat /\ first \in Nat /\ dir # first
  <2>1. /\ base[BootPages - 1] = (BootPages - 1) * Entries
        /\ base[BootPages - 2] = (BootPages - 2) * Entries
    BY <1>1, <1>3 DEF FInv, StackHolds
  <2>2. dir \in Tables /\ first \in Tables BY <1>2, <1>3, <2>1 DEF Boot, Tables
  <2>3. dir \in Nat /\ first \in Nat BY <1>1, <1>2, <1>3 DEF FInv, TypeOK
  <2>4. QED BY <1>1, <1>2, <1>3, <2>2, <2>3, WordsApart
<1>5. Popped = dir BY <1>1, <1>2, Sizes DEF Popped
<1>6. /\ mem' = [mem EXCEPT
                  ![dir]   = [e \in Index |-> IF e = Window THEN dir
                                              ELSE IF e = 0 THEN first ELSE Absent],
                  ![first] = [e \in Index |-> IF e = 1 THEN dir ELSE e]]
      /\ cr3' = dir
  BY <1>1, <1>2, <1>5 DEF StartPaging
<1>7. DOMAIN mem = Tables BY <1>1 DEF FInv, TypeOK
<1>8. /\ \A e \in Index : mem'[dir][e] = IF e = Window THEN dir
                                         ELSE IF e = 0 THEN first ELSE Absent
      /\ \A e \in Index : mem'[first][e] = IF e = 1 THEN dir ELSE e
  BY <1>4, <1>6, <1>7
<1>9. KernelIsMapped'
  <2>1. 0 \in Index /\ 0 # Window BY Sizes
  <2>2. mem'[cr3'][0] = first /\ first # Absent
    <3>1. first # Absent BY <1>4 DEF Absent
    <3>2. cr3' = dir BY <1>6
    <3>3. mem'[dir][0] = first BY <1>8, <2>1
    <3>4. QED BY <3>1, <3>2, <3>3
  <2>3. \A d \in Index : mem'[cr3'][d] # Absent => mem'[cr3'][d] \in Tables
    BY <1>4, <1>6, <1>8
  <2>4. QED BY <1>6, <1>8, <2>2, <2>3 DEF KernelIsMapped
<1>10. \A p \in UserPages : IsZeroed(p) => ~Present(p)'
  <2>1. SUFFICES ASSUME NEW p \in UserPages, IsZeroed(p) PROVE ~Present(p)' OBVIOUS
  <2>2. Dir(p) \in Index /\ Dir(p) # Window /\ Dir(p) # 0
    BY <2>1, PageSplits DEF WindowIsLeft, IsZeroed
  <2>3. TableOf(p)' = Absent BY <1>6, <1>8, <2>2 DEF TableOf
  <2>4. QED BY <2>3 DEF Present
<1>11. TableIsThere' /\ Mappings'
  BY <1>1, <1>10 DEF TableIsThere, Mappings, MappingsSurvive
<1>12. QED BY <1>9, <1>11 DEF MInv

LEMMA MStep ==
    ASSUME WordIsPrivate, WindowIsLeft, MInv, [Next]_vars PROVE MInv'
<1>1. FInv' BY FStep DEF MInv
<1>2. CASE UNCHANGED vars
  <2>1. UNCHANGED <<cr3, mem, pc, fault, served>> BY <1>2 DEF vars
  <2>2. KernelIsMapped' BY <2>1, LookUp DEF MInv, KernelIsMapped, Paged
  <2>3. TableIsThere' BY <2>1, LookUp DEF MInv, TableIsThere, TableOf
  <2>4. Mappings'
    BY <2>1 DEF MInv, Mappings, MappingsSurvive, OnlyFirstTables, Paged, Present, Frame, TableOf
  <2>5. QED BY <1>1, <2>2, <2>3, <2>4 DEF MInv
<1>3. CASE BootPush \/ Halt
  <2>1. pc' \in {"boot", "paging", "halted"} BY <1>3 DEF BootPush, Halt
  <2>2. QED BY <1>1, <2>1, MStops
<1>4. CASE StartPaging BY <1>1, <1>4, MStartPaging
<1>5. CASE Access \/ Fault \/ \E p \in UserPages : Touch(p) BY <1>1, <1>5, MQuiet
<1>6. CASE AddTable BY <1>1, <1>3, <1>6, MAddTable DEF AddTable
<1>7. CASE NestedFault BY <1>1, <1>3, <1>7, MNestedFault DEF NestedFault
<1>8. CASE ClearTable BY <1>1, <1>8, MClearTable
<1>9. CASE MapPage BY <1>1, <1>3, <1>9, MMapPage DEF MapPage
<1>10. QED BY <1>2, <1>3, <1>4, <1>5, <1>6, <1>7, <1>8, <1>9 DEF Next, Handler

\* The kernel's pages stay mapped where they are until a table of the first one's group
\* is added; and, as long as every table added is the first of its group, the pages the
\* handler mapped keep their frames and no other page that clearing reaches is present
\* (exceptions.c:60-80).
THEOREM OnlyWhatWasMapped ==
    ASSUME WordIsPrivate, WindowIsLeft PROVE Spec => []MappedAndNoMore
<1>1. Init => MInv
  <2>1. SUFFICES ASSUME Init PROVE MInv OBVIOUS
  <2>2. FInv /\ pc = "boot" BY <2>1, FInit DEF Init
  <2>3. QED BY <2>2 DEF MInv, KernelIsMapped, TableIsThere, Mappings, Paged
<1>2. MInv /\ [Next]_vars => MInv' BY MStep
<1>3. MInv => MappedAndNoMore
  <2>1. SUFFICES ASSUME MInv, Paged PROVE MappedAndNoMore BY DEF MappedAndNoMore
  <2>2. ASSUME FirstTableIsAlone, NEW p \in Index PROVE Present(p) /\ (p # 1 => Frame(p) = p)
    <3>1. PICK first : first = mem[cr3][0] OBVIOUS
    <3>2. first # Absent /\ mem[first][p] = (IF p = 1 THEN cr3 ELSE p)
      BY <2>1, <2>2, <3>1 DEF MInv, KernelIsMapped
    <3>3. TableOf(p) = first /\ Slot(p) = p BY <3>1, KernelPages DEF TableOf
    <3>4. cr3 # Absent /\ p # Absent BY <2>1, DirectoryIsReal, Sizes DEF MInv, Absent, Index
    <3>5. QED BY <3>2, <3>3, <3>4 DEF Present, Frame
  <2>3. OnlyFirstTables =>
          /\ MappingsSurvive
          /\ pc = "run" => \A p \in UserPages : IsZeroed(p) /\ Present(p)
                                                     => <<p, Frame(p)>> \in served
    BY <2>1 DEF MInv, Mappings
  <2>4. QED BY <2>1, <2>2, <2>3 DEF MappedAndNoMore
<1>4. QED BY <1>1, <1>2, <1>3, PTL DEF Spec
-----------------------------------------------------------------------------
(* The stack of pages under callers of any kind.  When every push comes      *)
(* before the first pop and base[0] holds 0, as in k_main on cleared memory, *)
(* the stack never hands a page out twice, for any number of pages.  The     *)
(* property alone is not inductive: FramesInv says which words of the stack  *)
(* still hold free pages, and that they are all different.                   *)

BootDiscipline == BootOnly /\ Garbage = {Frames!None}

\* The words above base[0] hold different pages, and those below the top are free.
Above == 1..posistion
Held  == IF popping THEN 1..(posistion - 1) ELSE Above

FramesInv == /\ Frames!TypeOK
             /\ base[0] = Frames!None
             /\ posistion <= StackWords
             /\ \A i \in Above : base[i] \in Pages
             /\ \A i, j \in Above : base[i] = base[j] => i = j
             /\ \A i \in Held : base[i] \in free
             /\ popping \/ out = {}
             /\ free \cap out = {}
             /\ Frames!NoPageTwice

(* The number of pages is a natural number that the stack has room for.     *)
LEMMA Room ==
    ASSUME Frames!PagesAssumption
    PROVE  Frames!Cardinality(Pages) \in Nat /\ Frames!Cardinality(Pages) <= StackWords
<1>1. IsFiniteSet(Pages) /\ Frames!Cardinality(Pages) <= StackWords
  BY DEF Frames!PagesAssumption, Frames!IsFiniteSet, IsFiniteSet
<1>2. Frames!Cardinality(Pages) = Cardinality(Pages) BY DEF Frames!Cardinality, Cardinality
<1>3. QED BY <1>1, <1>2, FS_CardinalityType

(* The empty stack satisfies FramesInv.                                     *)
LEMMA InitFrames ==
    ASSUME Frames!PagesAssumption, BootDiscipline
    PROVE  Frames!Init => FramesInv
<1> SUFFICES ASSUME Frames!Init PROVE FramesInv
  OBVIOUS
<1>1. base = [i \in 0..StackWords |-> Frames!None] /\ posistion = 0
  BY DEF BootDiscipline, Frames!Init, Frames!SetupStack
<1>2. base \in [0..StackWords -> Pages \cup Garbage \cup {Frames!None}]
  BY <1>1
<1>3. base[0] = Frames!None
  BY <1>1, StackAssumption
<1>4. Frames!TypeOK
  <2>1. posistion \in 0..Frames!Cardinality(Pages)
    BY <1>1, Room
  <2>2. free \subseteq Pages /\ twice \subseteq out /\ popping \in BOOLEAN
    BY DEF Frames!Init
  <2>3. QED
    BY <1>2, <2>1, <2>2 DEF Frames!TypeOK
<1>5. QED
  BY <1>1, <1>3, <1>4, StackAssumption
     DEF Frames!Init, FramesInv, Above, Held, Frames!NoPageTwice

(* Every push and every pop keeps FramesInv.                                *)
LEMMA NextFrames ==
    ASSUME Frames!PagesAssumption, BootDiscipline
    PROVE  FramesInv /\ [Frames!Next]_Frames!vars => FramesInv'
<1> SUFFICES ASSUME FramesInv, [Frames!Next]_Frames!vars PROVE FramesInv'
  OBVIOUS
<1> USE Room, StackAssumption, Frames!PagesAssumption
<1> USE DEF BootDiscipline, FramesInv, Frames!TypeOK, Above, Held, Frames!NoPageTwice, Frames!None
<1>1. ASSUME NEW p \in Pages, Frames!PushPage(p) PROVE FramesInv'
  <2>1. /\ ~popping /\ ~popping' /\ p \notin free
        /\ posistion' = posistion + 1 /\ posistion' <= Frames!Cardinality(Pages)
        /\ base' = [base EXCEPT ![posistion + 1] = p]
        /\ free' = free \cup {p} /\ out' = {} /\ twice' = {}
    BY <1>1 DEF Frames!PushPage, Frames!Push
  <2>2. /\ posistion + 1 \in 0..StackWords
        /\ \A i \in 0..posistion : base'[i] = base[i]
        /\ base'[posistion + 1] = p
    BY <2>1
  <2>3. Frames!TypeOK'
    <3>1. base' \in [0..StackWords -> Pages \cup Garbage \cup {Frames!None}]
      BY <2>1
    <3>2. posistion' \in 0..Frames!Cardinality(Pages)
      BY <2>1
    <3>3. popping' \in BOOLEAN /\ free' \subseteq Pages /\ twice' \subseteq out'
      BY <2>1, <1>1 DEF Frames!PushPage
    <3>4. QED
      BY <3>1, <3>2, <3>3
  <2>4. QED
    BY <2>1, <2>2, <2>3
<1>2. CASE Frames!PopPage
  <2>1. /\ popping' /\ base' = base
        /\ posistion' = IF posistion >= 1 THEN posistion - 1 ELSE posistion
    BY <1>2 DEF Frames!PopPage, Frames!Pop
  <2>2. CASE Frames!Popped = Frames!None
    <3>1. UNCHANGED <<free, out, twice>>
      BY <1>2, <2>2 DEF Frames!PopPage
    <3>2. QED
      BY <2>1, <3>1
  <2>3. CASE Frames!Popped # Frames!None
    <3>1. /\ out' = out \cup {Frames!Popped} /\ free' = free \ {Frames!Popped}
          /\ twice' = IF Frames!Popped \in out THEN twice \cup {Frames!Popped} ELSE twice
      BY <1>2, <2>3 DEF Frames!PopPage
    <3>2. posistion >= 2 /\ Frames!Popped = base[posistion - 1] /\ Frames!Popped \in free
      BY <2>3 DEF Frames!Popped
    <3>3. \A i \in 1..(posistion - 2) : base[i] # Frames!Popped
      BY <3>2
    <3>4. Frames!TypeOK'
      <4>1. posistion' \in 0..Frames!Cardinality(Pages)
        BY <2>1
      <4>2. popping' \in BOOLEAN
        BY <1>2 DEF Frames!PopPage
      <4>3. free' \subseteq Pages /\ twice' \subseteq out'
        BY <3>1
      <4>4. QED
        BY <2>1, <4>1, <4>2, <4>3
    <3>5. \A i \in Held' : base'[i] \in free'
      BY <2>1, <3>1, <3>2, <3>3
    <3>6. /\ free' \cap out' = {} /\ twice' = {}
          /\ \A i, j \in Above' : base'[i] = base'[j] => i = j
          /\ \A i \in Above' : base'[i] \in Pages
      BY <2>1, <3>1, <3>2
    <3>7. QED
      BY <2>1, <3>1, <3>2, <3>4, <3>5, <3>6
  <2>4. QED
    BY <2>2, <2>3
<1>3. CASE UNCHANGED Frames!vars
  BY <1>3 DEF Frames!vars
<1>4. QED
  BY <1>1, <1>2, <1>3 DEF Frames!Next

(* FramesInv holds in every reachable state.                                *)
THEOREM FramesHold ==
    ASSUME BootDiscipline
    PROVE  Frames!Spec => []FramesInv
  BY PagesFit, InitFrames, NextFrames, PTL DEF Frames!Spec

(* The types of the stack and of its history are right.                     *)
THEOREM FramesTyped ==
    ASSUME BootDiscipline
    PROVE  Frames!Spec => []Frames!TypeOK
<1>1. FramesInv => Frames!TypeOK
  BY DEF FramesInv
<1>2. QED
  BY FramesHold, <1>1, PTL

(* No page is handed out while an earlier caller still has it.              *)
THEOREM NeverTwice ==
    ASSUME BootDiscipline
    PROVE  Frames!Spec => []NoPageTwice
<1>1. FramesInv => NoPageTwice
  BY DEF FramesInv, NoPageTwice
<1>2. QED
  BY FramesHold, <1>1, PTL

(* Every pop answers a free page, or 0.                                     *)
THEOREM PopsAreFree ==
    ASSUME BootDiscipline
    PROVE  Frames!Spec => PopAnswersAFreePage
<1>1. FramesInv => (Frames!PopPage => Frames!Popped \in free \cup {Frames!None})
  BY DEF FramesInv, Frames!TypeOK, Above, Held, Frames!Popped
<1>2. QED
  BY FramesHold, <1>1, PTL DEF PopAnswersAFreePage, Frames!PopAnswersAFreePage
=============================================================================
