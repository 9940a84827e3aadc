-------------------------- MODULE UdiServices_proofs --------------------------
(***************************************************************************)
(* The instance attributes of the UDI environment are read and written as  *)
(* if one request came after the other, its log keeps the order of what    *)
(* was traced, and its channels lose nothing while no race spoils one, for *)
(* any requests, names, values, threads, places, regions and channels.     *)
(***************************************************************************)
EXTENDS UdiServices, FiniteSetTheorems, SequenceTheorems, WellFoundedInduction, TLAPS

Folded == {I!Fold(m) : m \in AttrName}
Phases == {"idle", "asked", "tried", "reading", "read", "writing", "freed", "written",
           "answered"}
Values == AttrValue \cup {I!Nothing, "freed"}
Requests == [phase : Phases, op : {"get", "set"}, node : I!Node, name : AttrName, value : Values,
             copy : BOOLEAN]
Entries == [name : AttrName, value : Values]

AttrTyped == /\ attrs \in [I!Node -> Seq(Entries)]
             /\ count \in [I!Node -> Int]
             /\ locator \in [I!Node -> Values]
             /\ req \in [AttrRequest -> Requests]
             /\ truth \in [I!Node -> [Folded -> Values]]
             /\ mixed \in BOOLEAN /\ lost \in BOOLEAN /\ (lost => mixed)

\* What a request is at each of its steps.
Sane(r) == /\ r.phase \in I!Reading => r.op = "get"
           /\ r.phase \in {"tried", "answered"} \cup I!Writing => r.op = "set"
           /\ r.copy => r.op = "set" /\ r.name = I!Locator /\ r.phase # "idle"
           /\ r.op = "set" => r.value # "freed"

\* What I!Held finds, of any list.
Find(l, m) == {i \in DOMAIN l : I!Fold(l[i].name) = I!Fold(m)}
Got(l, m) == LET S == Find(l, m)
             IN  IF S = {} THEN I!Nothing ELSE l[CHOOSE i \in S : TRUE].value
Once(l) == \A i, j \in DOMAIN l : I!Fold(l[i].name) = I!Fold(l[j].name) => i = j

\* Only a write under way takes a value away, and it is of the name it writes.
ValuesAreThere(n) ==
    /\ \A i \in DOMAIN attrs[n] : attrs[n][i].value = "freed" =>
           \E q \in I!At({"freed"}, n) : I!Fold(attrs[n][i].name) = I!Fold(req[q].name)
    /\ \A q \in I!At({"freed"}, n) :
           \E i \in Find(attrs[n], req[q].name) : attrs[n][i].value = "freed"
\* The list says what was set, but for what a write under way has changed.
ListIsTrue(n) ==
    /\ \A m \in AttrName : (\A q \in I!At({"freed", "written"}, n) : I!Fold(req[q].name) # I!Fold(m))
           => Got(attrs[n], m) = truth[n][I!Fold(m)]
    /\ \A q \in I!At({"written"}, n) : Got(attrs[n], req[q].name) = req[q].value

\* Of the environment's sets of the locator one is under way, and the copy follows it.
LocatorSets(n) == {q \in I!Pending("set", n) : I!IsLocator(req[q].name)}
CopyFollows(n) ==
    /\ \A p, q \in LocatorSets(n) : p = q
    /\ \A q \in LocatorSets(n) :
           /\ ~req[q].copy => req[q].phase # "asked" /\ locator[n] = req[q].value
           /\ req[q].phase = "answered" => Got(attrs[n], I!Locator) = req[q].value
    /\ LocatorSets(n) = {} => Got(attrs[n], I!Locator) = locator[n]

\* I!CountIsExact, of one node.
Counts(n) ==
    LET readers == Cardinality(I!At(I!Reading, n)) IN
    \/ Cardinality(I!At(I!Writing, n)) = 1 /\ readers = 0 /\ count[n] = -1
    \/ I!At(I!Writing, n) = {} /\ count[n] \in {readers, -readers}

ListSound(n) == ValuesAreThere(n) /\ ListIsTrue(n)
Sound == (\A n \in I!Node : ListSound(n)) /\ I!AnswersAreTrue
\* The inductive invariant.
AttrInv == /\ AttrTyped /\ \A q \in AttrRequest : Sane(req[q])
           /\ \A n \in I!Node : Once(attrs[n])
           /\ \A n \in I!Node : Counts(n)
           /\ ~lost => Sound
           /\ ~mixed => \A n \in I!Node : CopyFollows(n)
-----------------------------------------------------------------------------
(* Lists of attributes.                                                      *)
LEMMA GotIs ==
    ASSUME NEW l \in Seq(Entries), Once(l), NEW m, NEW i \in Find(l, m)
    PROVE  Got(l, m) = l[i].value
<1>1. \A j \in Find(l, m) : j = i BY DEF Once, Find
<1>2. PICK S : S = Find(l, m) OBVIOUS
<1>3. (CHOOSE j \in S : TRUE) = i BY <1>1, <1>2
<1>4. S # {} BY <1>2
<1>5. QED BY <1>2, <1>3, <1>4 DEF Got

LEMMA GotNothing ==
    ASSUME NEW l, NEW m, Find(l, m) = {}
    PROVE  Got(l, m) = I!Nothing
BY DEF Got

LEMMA GotAlike ==
    ASSUME NEW l, NEW m, NEW k, I!Fold(m) = I!Fold(k)
    PROVE  Find(l, m) = Find(l, k) /\ Got(l, m) = Got(l, k)
<1>1. Find(l, m) = Find(l, k) BY DEF Find
<1>2. QED BY <1>1 DEF Got

LEMMA GotTyped ==
    ASSUME NEW l \in Seq(Entries), NEW m
    PROVE  Got(l, m) \in Values
<1>1. PICK S : S = Find(l, m) OBVIOUS
<1>2. CASE S = {} BY <1>1, <1>2, GotNothing DEF Values
<1>3. CASE S # {}
  <2>1. PICK i : i = (CHOOSE j \in S : TRUE) OBVIOUS
  <2>2. i \in S BY <1>3, <2>1
  <2>3. i \in DOMAIN l BY <1>1, <2>2 DEF Find
  <2>4. l[i] \in Entries BY <2>3
  <2>5. QED BY <1>1, <1>3, <2>1, <2>4 DEF Got, Entries
<1>4. QED BY <1>2, <1>3

\* An entry that is there before and after a change, alone of its name.
LEMMA Carried ==
    ASSUME NEW l \in Seq(Entries), NEW l2 \in Seq(Entries), Once(l), Once(l2), NEW m,
           \A i \in Find(l, m) : \E j \in Find(l2, m) : l2[j].value = l[i].value,
           \A j \in Find(l2, m) : Find(l, m) # {}
    PROVE  Got(l2, m) = Got(l, m)
<1>1. CASE Find(l, m) = {}
  <2>1. Find(l2, m) = {} BY <1>1
  <2>2. QED BY <1>1, <2>1, GotNothing
<1>2. CASE Find(l, m) # {}
  <2>1. PICK i : i \in Find(l, m) BY <1>2
  <2>2. PICK j \in Find(l2, m) : l2[j].value = l[i].value BY <2>1
  <2>3. QED BY <2>1, <2>2, GotIs
<1>3. QED BY <1>1, <1>2

Added(l, m, v) == Append(l, [name |-> m, value |-> v])
Removed(l, i) == SubSeq(l, 1, i - 1) \o SubSeq(l, i + 1, Len(l))
Revalued(l, i, v) == [l EXCEPT ![i].value = v]
Filled(l, v) == [i \in DOMAIN l |-> IF l[i].value = "freed" THEN [l[i] EXCEPT !.value = v]
                                    ELSE l[i]]

LEMMA AddedList ==
    ASSUME NEW l \in Seq(Entries), Once(l), NEW m \in AttrName, NEW v \in Values, Find(l, m) = {}
    PROVE  /\ Added(l, m, v) \in Seq(Entries) /\ Once(Added(l, m, v))
           /\ Got(Added(l, m, v), m) = v
           /\ \A k : I!Fold(k) # I!Fold(m) => Got(Added(l, m, v), k) = Got(l, k)
           /\ \A j \in DOMAIN Added(l, m, v) :
                 Added(l, m, v)[j].value = v \/ \E i \in DOMAIN l : Added(l, m, v)[j] = l[i]
<1>1. PICK n \in Nat : n = Len(l) OBVIOUS
<1>2. PICK e \in Entries : e = [name |-> m, value |-> v] BY DEF Entries
<1>3. PICK a : a = Added(l, m, v) OBVIOUS
<1>4. a = Append(l, e) BY <1>2, <1>3 DEF Added
<1>5. /\ a \in Seq(Entries) /\ DOMAIN a = 1..(n + 1) /\ a[n + 1] = e
      /\ \A i \in 1..n : a[i] = l[i]
  BY <1>1, <1>4
<1>6. DOMAIN l = 1..n BY <1>1
<1>7. e.name = m /\ e.value = v BY <1>2
<1>8. \A j \in DOMAIN a : j = n + 1 \/ j \in 1..n BY <1>5
<1>9. \A i \in 1..n : I!Fold(l[i].name) # I!Fold(m) BY <1>6 DEF Find
<1>10. Once(a)
  <2>1. SUFFICES ASSUME NEW i \in DOMAIN a, NEW j \in DOMAIN a,
                        I!Fold(a[i].name) = I!Fold(a[j].name)
                 PROVE  i = j
    BY DEF Once
  <2>2. CASE i \in 1..n /\ j \in 1..n BY <1>5, <1>6, <2>1, <2>2 DEF Once
  <2>3. CASE i = n + 1 /\ j \in 1..n BY <1>5, <1>7, <1>9, <2>1, <2>3
  <2>4. CASE i \in 1..n /\ j = n + 1 BY <1>5, <1>7, <1>9, <2>1, <2>4
  <2>5. QED BY <1>8, <2>2, <2>3, <2>4
<1>11. Got(a, m) = v
  <2>1. n + 1 \in Find(a, m) BY <1>5, <1>7 DEF Find
  <2>2. QED BY <1>5, <1>7, <1>10, <2>1, GotIs
<1>12. ASSUME NEW k, I!Fold(k) # I!Fold(m) PROVE Got(a, k) = Got(l, k)
  <2>1. ASSUME NEW i \in Find(l, k) PROVE i \in Find(a, k) /\ a[i].value = l[i].value
    <3>1. i \in 1..n /\ I!Fold(l[i].name) = I!Fold(k) BY <1>6, <2>1 DEF Find
    <3>2. i \in 1..(n + 1) BY <3>1
    <3>3. QED BY <1>5, <3>1, <3>2 DEF Find
  <2>2. ASSUME NEW j \in Find(a, k) PROVE j \in Find(l, k)
    <3>1. j \in DOMAIN a /\ I!Fold(a[j].name) = I!Fold(k) BY <2>2 DEF Find
    <3>2. j # n + 1 BY <1>5, <1>7, <1>12, <3>1
    <3>3. j \in 1..n BY <1>8, <3>1, <3>2
    <3>4. QED BY <1>5, <1>6, <3>1, <3>3 DEF Find
  <2>3. QED BY <1>5, <1>10, <2>1, <2>2, Carried
<1>13. \A j \in DOMAIN a : a[j].value = v \/ \E i \in DOMAIN l : a[j] = l[i]
  BY <1>5, <1>6, <1>7, <1>8
<1>14. QED BY <1>3, <1>5, <1>10, <1>11, <1>12, <1>13

LEMMA RemovedList ==
    ASSUME NEW l \in Seq(Entries), Once(l), NEW m, NEW at \in Find(l, m)
    PROVE  /\ Removed(l, at) \in Seq(Entries) /\ Once(Removed(l, at))
           /\ Got(Removed(l, at), m) = I!Nothing
           /\ \A k : I!Fold(k) # I!Fold(m) => Got(Removed(l, at), k) = Got(l, k)
           /\ \A j \in DOMAIN Removed(l, at) : \E i \in DOMAIN l : Removed(l, at)[j] = l[i]
<1>1. PICK n \in Nat : n = Len(l) OBVIOUS
<1>2. DOMAIN l = 1..n /\ at \in 1..n /\ I!Fold(l[at].name) = I!Fold(m) BY <1>1 DEF Find
<1>3. PICK a : a = SubSeq(l, 1, at - 1) OBVIOUS
<1>4. PICK b : b = SubSeq(l, at + 1, n) OBVIOUS
<1>5. /\ a \in Seq(Entries) /\ Len(a) = at - 1
      /\ \A i \in 1..(at - 1) : a[i] = l[i]
  <2>1. \A i \in 1..(at - 1) : l[i] \in Entries BY <1>2
  <2>2. /\ a \in Seq(Entries) /\ Len(a) = IF 1 <= at - 1 THEN ((at - 1) - 1) + 1 ELSE 0
        /\ \A i \in 1..(((at - 1) - 1) + 1) : a[i] = l[(1 + i) - 1]
    BY <1>2, <1>3, <2>1, SubSeqProperties
  <2>3. QED BY <1>2, <2>2
<1>6. /\ b \in Seq(Entries) /\ Len(b) = n - at
      /\ \A i \in 1..(n - at) : b[i] = l[at + i]
  <2>1. \A i \in (at + 1)..n : l[i] \in Entries BY <1>2
  <2>2. /\ b \in Seq(Entries) /\ Len(b) = IF at + 1 <= n THEN (n - (at + 1)) + 1 ELSE 0
        /\ \A i \in 1..((n - (at + 1)) + 1) : b[i] = l[((at + 1) + i) - 1]
    BY <1>2, <1>4, <2>1, SubSeqProperties
  <2>3. \A i \in 1..(n - at) : i \in 1..((n - (at + 1)) + 1) /\ ((at + 1) + i) - 1 = at + i
    BY <1>2
  <2>4. Len(b) = n - at BY <1>2, <2>2
  <2>5. QED BY <2>2, <2>3, <2>4
<1>7. PICK c : c = Removed(l, at) OBVIOUS
<1>8. c = a \o b BY <1>1, <1>3, <1>4, <1>7 DEF Removed
<1>9. /\ c \in Seq(Entries) /\ Len(c) = (at - 1) + (n - at)
      /\ \A i \in 1..((at - 1) + (n - at)) : c[i] = IF i <= at - 1 THEN a[i] ELSE b[i - (at - 1)]
  <2>1. /\ a \o b \in Seq(Entries) /\ Len(a \o b) = Len(a) + Len(b)
        /\ \A i \in 1..(Len(a) + Len(b)) :
              (a \o b)[i] = IF i <= Len(a) THEN a[i] ELSE b[i - Len(a)]
    BY <1>5, <1>6, ConcatProperties
  <2>2. QED BY <1>5, <1>6, <1>8, <2>1
<1>10. DOMAIN c = 1..(n - 1) BY <1>2, <1>9
<1>11. ASSUME NEW i \in 1..(n - 1)
       PROVE  /\ i < at => c[i] = l[i] /\ i \in 1..n
              /\ i >= at => c[i] = l[i + 1] /\ i + 1 \in 1..n
  <2>1. i \in 1..((at - 1) + (n - at)) BY <1>2
  <2>2. CASE i < at BY <1>2, <1>5, <1>9, <2>1, <2>2
  <2>3. CASE i >= at
    <3>1. c[i] = b[i - (at - 1)] BY <1>2, <1>9, <2>1, <2>3
    <3>2. i - (at - 1) \in 1..(n - at) /\ at + (i - (at - 1)) = i + 1 BY <1>2, <2>3
    <3>3. PICK j \in 1..(n - at) : j = i - (at - 1) BY <3>2
    <3>4. b[j] = l[at + j] /\ at + j = i + 1 BY <1>6, <3>2, <3>3
    <3>5. c[i] = l[i + 1] BY <3>1, <3>3, <3>4
    <3>6. i + 1 \in 1..n /\ ~ (i < at) BY <1>2, <2>3
    <3>7. QED BY <3>5, <3>6
  <2>4. QED BY <1>2, <2>2, <2>3
<1> DEFINE was(i) == IF i < at THEN i ELSE i + 1
<1>12. \A i \in 1..(n - 1) : was(i) \in 1..n /\ was(i) # at /\ c[i] = l[was(i)]
  BY <1>2, <1>11
<1>13. \A i, j \in 1..(n - 1) : was(i) = was(j) => i = j BY <1>2
<1>14. \A j \in 1..n : j # at => \E i \in 1..(n - 1) : was(i) = j
  <2>1. SUFFICES ASSUME NEW j \in 1..n, j # at PROVE \E i \in 1..(n - 1) : was(i) = j
    OBVIOUS
  <2>2. CASE j < at
    <3>1. j \in 1..(n - 1) /\ was(j) = j BY <1>2, <2>2
    <3>2. QED BY <3>1
  <2>3. CASE j > at
    <3>1. j - 1 \in 1..(n - 1) /\ was(j - 1) = j BY <1>2, <2>3
    <3>2. QED BY <3>1
  <2>4. QED BY <1>2, <2>1, <2>2, <2>3
<1> HIDE DEF was
<1>15. Once(c)
  <2>1. SUFFICES ASSUME NEW i \in 1..(n - 1), NEW j \in 1..(n - 1),
                        I!Fold(c[i].name) = I!Fold(c[j].name)
                 PROVE  i = j
    BY <1>10 DEF Once
  <2>2. was(i) = was(j) BY <1>2, <1>12, <2>1 DEF Once
  <2>3. QED BY <1>13, <2>2
<1>16. Got(c, m) = I!Nothing
  <2>1. Find(c, m) = {}
    <3>1. SUFFICES ASSUME NEW i \in Find(c, m) PROVE FALSE OBVIOUS
    <3>2. i \in 1..(n - 1) /\ I!Fold(c[i].name) = I!Fold(m) BY <1>10 DEF Find
    <3>3. was(i) = at BY <1>2, <1>12, <3>2 DEF Once
    <3>4. QED BY <1>12, <3>2, <3>3
  <2>2. QED BY <2>1, GotNothing
<1>17. ASSUME NEW k, I!Fold(k) # I!Fold(m) PROVE Got(c, k) = Got(l, k)
  <2>1. ASSUME NEW i \in Find(l, k) PROVE \E j \in Find(c, k) : c[j].value = l[i].value
    <3>1. i \in 1..n /\ I!Fold(l[i].name) = I!Fold(k) /\ i # at
      BY <1>2, <1>17, <2>1 DEF Find
    <3>2. PICK j \in 1..(n - 1) : was(j) = i BY <1>14, <3>1
    <3>3. QED BY <1>10, <1>12, <3>1, <3>2 DEF Find
  <2>2. ASSUME NEW j \in Find(c, k) PROVE Find(l, k) # {}
    <3>1. j \in 1..(n - 1) /\ I!Fold(c[j].name) = I!Fold(k) BY <1>10, <2>2 DEF Find
    <3>2. was(j) \in Find(l, k) BY <1>2, <1>12, <3>1 DEF Find
    <3>3. QED BY <3>2
  <2>3. QED BY <1>9, <1>15, <2>1, <2>2, Carried
<1>18. \A j \in DOMAIN c : \E i \in DOMAIN l : c[j] = l[i] BY <1>2, <1>10, <1>12
<1>19. QED BY <1>7, <1>9, <1>15, <1>16, <1>17, <1>18

\* A change of one value: the names stay.
LEMMA ChangedList ==
    ASSUME NEW l \in Seq(Entries), Once(l), NEW m, NEW at \in Find(l, m), NEW v \in Values,
           NEW l2, l2 = Revalued(l, at, v)
    PROVE  /\ l2 \in Seq(Entries) /\ DOMAIN l2 = DOMAIN l /\ at \in DOMAIN l
           /\ Once(l2) /\ Got(l2, m) = v /\ Find(l2, m) = Find(l, m)
           /\ \A k : I!Fold(k) # I!Fold(m) => Got(l2, k) = Got(l, k)
           /\ \A j \in DOMAIN l : /\ l2[j].name = l[j].name
                                  /\ l2[j].value = IF j = at THEN v ELSE l[j].value
<1>1. at \in DOMAIN l /\ I!Fold(l[at].name) = I!Fold(m) BY DEF Find
<1>2. l[at] \in Entries BY <1>1
<1>3. PICK e \in Entries : e = [l[at] EXCEPT !.value = v]
  BY <1>2 DEF Entries
<1>4. e.name = l[at].name /\ e.value = v BY <1>2, <1>3 DEF Entries
<1>5. l2 = [l EXCEPT ![at] = e] BY <1>3 DEF Revalued
<1>6. l2 \in Seq(Entries) /\ DOMAIN l2 = DOMAIN l BY <1>1, <1>5, ExceptSeq
<1>7. \A j \in DOMAIN l : /\ l2[j].name = l[j].name
                          /\ l2[j].value = IF j = at THEN v ELSE l[j].value
  BY <1>1, <1>4, <1>5
<1>8. Once(l2) BY <1>6, <1>7 DEF Once
<1>9. \A k : Find(l2, k) = Find(l, k) BY <1>6, <1>7 DEF Find
<1>10. Got(l2, m) = v
  <2>1. at \in Find(l2, m) BY <1>9
  <2>2. Got(l2, m) = l2[at].value BY <1>6, <1>8, <2>1, GotIs
  <2>3. QED BY <1>1, <1>7, <2>2
<1>11. ASSUME NEW k, I!Fold(k) # I!Fold(m) PROVE Got(l2, k) = Got(l, k)
  <2>1. \A j \in Find(l, k) : j \in DOMAIN l /\ j # at BY <1>1, <1>11 DEF Find
  <2>2. \A j \in Find(l, k) : j \in Find(l2, k) /\ l2[j].value = l[j].value
    BY <1>7, <1>9, <2>1
  <2>3. \A i \in Find(l, k) : \E j \in Find(l2, k) : l2[j].value = l[i].value BY <2>2
  <2>4. \A j \in Find(l2, k) : Find(l, k) # {} BY <1>9
  <2>5. QED BY <1>6, <1>8, <2>3, <2>4, Carried
<1>12. QED BY <1>1, <1>6, <1>7, <1>8, <1>9, <1>10, <1>11

\* Of one freed value the place is filled again, and nothing else changes.
LEMMA FilledList ==
    ASSUME NEW l \in Seq(Entries), NEW at \in DOMAIN l, NEW v,
           \A i \in DOMAIN l : l[i].value = "freed" <=> i = at
    PROVE  Filled(l, v) = Revalued(l, at, v)
<1>1. PICK a : a = [l EXCEPT ![at].value = v] OBVIOUS
<1>2. PICK b : b = Filled(l, v) OBVIOUS
<1>3. \A i \in DOMAIN l : a[i] = IF i = at THEN [l[at] EXCEPT !.value = v] ELSE l[i]
  BY <1>1
<1>4. \A i \in DOMAIN l : b[i] = IF i = at THEN [l[at] EXCEPT !.value = v] ELSE l[i]
  BY <1>2 DEF Filled
<1>5. a = [i \in DOMAIN l |-> a[i]] BY <1>1
<1>6. b = [i \in DOMAIN l |-> b[i]] BY <1>2 DEF Filled
<1>7. \A i \in DOMAIN l : a[i] = b[i] BY <1>3, <1>4, Zenon
<1>8. [i \in DOMAIN l |-> a[i]] = [i \in DOMAIN l |-> b[i]] BY <1>7, Zenon
<1>9. a = b BY <1>5, <1>6, <1>8, Zenon
<1>10. QED BY <1>1, <1>2, <1>9 DEF Revalued
-----------------------------------------------------------------------------
(* What the steps do to a request.                                           *)
Others(q) == \A p \in AttrRequest : p # q => req'[p] = req[p]
Same(q) == /\ req'[q].op = req[q].op /\ req'[q].node = req[q].node
           /\ req'[q].name = req[q].name

LEMMA Became ==
    ASSUME AttrTyped, NEW q \in AttrRequest, NEW r \in Requests, req' = [req EXCEPT ![q] = r]
    PROVE  req' \in [AttrRequest -> Requests] /\ req'[q] = r /\ Others(q)
BY DEF AttrTyped, Others

LEMMA Turned ==
    ASSUME AttrTyped, NEW q \in AttrRequest, NEW ph \in Phases, I!To(q, ph)
    PROVE  /\ req' \in [AttrRequest -> Requests] /\ Others(q) /\ Same(q)
           /\ req'[q].phase = ph /\ req'[q].value = req[q].value /\ req'[q].copy = req[q].copy
<1>1. req[q] \in Requests BY DEF AttrTyped
<1>2. PICK r \in Requests : r = [req[q] EXCEPT !.phase = ph] BY <1>1 DEF Requests
<1>3. req' = [req EXCEPT ![q] = r] BY <1>2 DEF I!To
<1>4. req'[q] = r /\ req' \in [AttrRequest -> Requests] /\ Others(q) BY <1>3, Became
<1>5. QED BY <1>1, <1>2, <1>4 DEF Requests, Same

LEMMA Idles == ASSUME I!ConstantsMakeSense PROVE I!Idle \in Requests /\ Sane(I!Idle)
BY DEF I!ConstantsMakeSense, I!Idle, Requests, Phases, I!Node, Values, I!Nothing, Sane,
   I!Reading, I!Writing

LEMMA Stored ==
    ASSUME AttrTyped, NEW n \in I!Node, NEW l \in Seq(Entries),
           attrs' = [attrs EXCEPT ![n] = l]
    PROVE  /\ attrs' \in [I!Node -> Seq(Entries)] /\ attrs'[n] = l
           /\ \A m \in I!Node : m # n => attrs'[m] = attrs[m]
BY DEF AttrTyped

\* What each step leaves behind: the request, and what it is about.
Effect(q, from, to) ==
    /\ req[q].phase \in from /\ req'[q].phase = to /\ Others(q)
    /\ req' \in [AttrRequest -> Requests]
Leaves == attrs' = attrs /\ truth' = truth

Asked(q, n, m, v, c, r) ==
    /\ Effect(q, {"idle"}, "asked") /\ Leaves /\ req'[q] = r
    /\ r.node = n /\ r.name = m
    /\ r = I!Getting(n, m) => r.op = "get" /\ r.copy = FALSE
    /\ r = I!Setting(n, m, v, c) => r.op = "set" /\ r.value = v /\ r.copy = c

LEMMA AskEffect ==
    ASSUME AttrTyped, I!ConstantsMakeSense, NEW q \in AttrRequest, NEW n \in I!Node, NEW m \in AttrName,
           NEW v \in AttrValue \cup {I!Nothing}, NEW c \in BOOLEAN, NEW r,
           r = I!Getting(n, m) \/ r = I!Setting(n, m, v, c),
           I!Ask(q, r)
    PROVE  Asked(q, n, m, v, c, r)
<1>1. I!Idle \in Requests BY Idles
<1>2. PICK g \in Requests : g = I!Getting(n, m)
  BY <1>1 DEF I!Getting, Requests, Phases
<1>3. /\ g.phase = "asked" /\ g.op = "get" /\ g.node = n /\ g.name = m /\ g.copy = FALSE
  BY <1>2 DEF I!Getting, I!Idle
<1>4. PICK t : t = I!Setting(n, m, v, c) OBVIOUS
<1>5. t = [g EXCEPT !.op = "set", !.value = v, !.copy = c] BY <1>2, <1>4 DEF I!Setting
<1>6. /\ t \in Requests /\ t.phase = "asked" /\ t.op = "set" /\ t.node = n /\ t.name = m
      /\ t.value = v /\ t.copy = c
  BY <1>2, <1>3, <1>5 DEF Requests, Values
<1>7. r \in Requests /\ r.phase = "asked" BY <1>2, <1>3, <1>4, <1>6
<1>8. req' = [req EXCEPT ![q] = r] BY DEF I!Ask
<1>9. req' \in [AttrRequest -> Requests] /\ req'[q] = r /\ Others(q) BY <1>7, <1>8, Became
<1>10. Effect(q, {"idle"}, "asked") /\ Leaves BY <1>7, <1>9 DEF I!Ask, Effect, Leaves
<1>11. QED BY <1>2, <1>3, <1>4, <1>6, <1>9, <1>10 DEF Asked

LEMMA IdleEffect ==
    ASSUME AttrTyped, I!ConstantsMakeSense, NEW q \in AttrRequest, req' = [req EXCEPT ![q] = I!Idle]
    PROVE  /\ req' \in [AttrRequest -> Requests] /\ req'[q] = I!Idle /\ Others(q)
           /\ req'[q].phase = "idle" /\ req'[q].copy = FALSE
<1>1. I!Idle \in Requests BY Idles
<1>2. I!Idle.phase = "idle" /\ I!Idle.copy = FALSE BY DEF I!Idle
<1>3. QED BY <1>1, <1>2, Became

LEMMA CopyEffect ==
    ASSUME AttrTyped, NEW q \in AttrRequest, I!CopyLocator(q)
    PROVE  /\ req' \in [AttrRequest -> Requests] /\ Others(q) /\ Same(q)
           /\ req'[q].phase = req[q].phase /\ req'[q].value = req[q].value
           /\ req'[q].copy = FALSE
<1>1. req[q] \in Requests BY DEF AttrTyped
<1>2. PICK r \in Requests : r = [req[q] EXCEPT !.copy = FALSE] BY <1>1 DEF Requests
<1>3. req' = [req EXCEPT ![q] = r] BY <1>2 DEF I!CopyLocator
<1>4. req'[q] = r /\ req' \in [AttrRequest -> Requests] /\ Others(q) BY <1>3, Became
<1>5. QED BY <1>1, <1>2, <1>4 DEF Requests, Same

LEMMA ReadEffect ==
    ASSUME AttrTyped, NEW q \in AttrRequest, I!Read(q)
    PROVE  /\ req' \in [AttrRequest -> Requests] /\ Others(q) /\ Same(q)
           /\ req'[q].phase = "read" /\ req'[q].copy = req[q].copy
           /\ req'[q].value = Got(attrs[req[q].node], req[q].name)
<1>1. req[q] \in Requests /\ req[q].node \in I!Node BY DEF AttrTyped, Requests
<1>2. PICK v \in Values : v = Got(attrs[req[q].node], req[q].name)
  BY <1>1, GotTyped DEF AttrTyped
<1>3. v = I!Held(req[q].node, req[q].name)
  BY <1>2 DEF I!Held, Got, I!_udi_node_attr_find_name, Find
<1>4. PICK r \in Requests : r = [req[q] EXCEPT !.phase = "read", !.value = v]
  BY <1>1 DEF Requests, Phases
<1>5. req' = [req EXCEPT ![q] = r] BY <1>3, <1>4 DEF I!Read
<1>6. req'[q] = r /\ req' \in [AttrRequest -> Requests] /\ Others(q) BY <1>5, Became
<1>7. QED BY <1>1, <1>2, <1>4, <1>6 DEF Requests, Same

LEMMA DoneEffect ==
    ASSUME AttrTyped, I!ConstantsMakeSense, NEW q \in AttrRequest, I!Done(q)
    PROVE  /\ req' \in [AttrRequest -> Requests] /\ Others(q)
           /\ \/ req[q].copy /\ req'[q].phase = "answered" /\ Same(q)
                 /\ req'[q].value = req[q].value /\ req'[q].copy
              \/ ~req[q].copy /\ req'[q] = I!Idle /\ req'[q].phase = "idle"
           /\ truth' \in [I!Node -> [Folded -> Values]]
           /\ truth'[req[q].node][I!Fold(req[q].name)] = req[q].value
           /\ \A n \in I!Node, f \in Folded :
                 ~ (n = req[q].node /\ f = I!Fold(req[q].name)) => truth'[n][f] = truth[n][f]
<1>1. PICK r \in Requests : r = req[q] BY DEF AttrTyped
<1>2. r.node \in I!Node /\ r.name \in AttrName /\ r.value \in Values /\ r.copy \in BOOLEAN
  BY DEF Requests
<1>3. I!Fold(r.name) \in Folded BY <1>2 DEF Folded
<1>4. /\ req' \in [AttrRequest -> Requests] /\ Others(q)
      /\ \/ r.copy /\ req'[q].phase = "answered" /\ Same(q)
            /\ req'[q].value = r.value /\ req'[q].copy
         \/ ~r.copy /\ req'[q] = I!Idle /\ req'[q].phase = "idle"
  <2>1. CASE r.copy
    <3>1. PICK s \in Requests : s = [r EXCEPT !.phase = "answered"]
      BY DEF Requests, Phases
    <3>2. s.phase = "answered" /\ s.op = r.op /\ s.node = r.node /\ s.name = r.name
          /\ s.value = r.value /\ s.copy = r.copy
      BY <3>1 DEF Requests
    <3>3. req' = [req EXCEPT ![q] = s] BY <1>1, <2>1, <3>1 DEF I!Done
    <3>4. req'[q] = s /\ req' \in [AttrRequest -> Requests] /\ Others(q) BY <3>3, Became
    <3>5. QED BY <1>1, <2>1, <3>2, <3>4 DEF Same
  <2>2. CASE ~r.copy
    <3>1. req' = [req EXCEPT ![q] = I!Idle] BY <1>1, <2>2 DEF I!Done
    <3>2. req'[q] = I!Idle /\ req'[q].phase = "idle" /\ req' \in [AttrRequest -> Requests] /\ Others(q)
      BY <3>1, IdleEffect
    <3>3. QED BY <2>2, <3>2
  <2>3. QED BY <2>1, <2>2
<1>6. PICK t : t = [truth[r.node] EXCEPT ![I!Fold(r.name)] = r.value] OBVIOUS
<1>7. truth' = [truth EXCEPT ![r.node] = t] BY <1>1, <1>6 DEF I!Done
<1>8. /\ t \in [Folded -> Values] /\ t[I!Fold(r.name)] = r.value
      /\ \A f \in Folded : f # I!Fold(r.name) => t[f] = truth[r.node][f]
  BY <1>2, <1>3, <1>6 DEF AttrTyped
<1>9. /\ truth' \in [I!Node -> [Folded -> Values]] /\ truth'[r.node] = t
      /\ \A n \in I!Node : n # r.node => truth'[n] = truth[n]
  BY <1>2, <1>7, <1>8 DEF AttrTyped
<1>10. QED BY <1>1, <1>4, <1>8, <1>9

LEMMA FilledTyped ==
    ASSUME NEW l \in Seq(Entries), Once(l), NEW v \in Values
    PROVE  Filled(l, v) \in Seq(Entries) /\ Once(Filled(l, v))
<1>1. PICK n \in Nat : n = Len(l) OBVIOUS
<1>2. DOMAIN l = 1..n BY <1>1
<1>3. PICK f : f = Filled(l, v) OBVIOUS
<1>4. \A i \in 1..n : /\ f[i] = IF l[i].value = "freed" THEN [l[i] EXCEPT !.value = v] ELSE l[i]
                      /\ l[i] \in Entries
  BY <1>2, <1>3 DEF Filled
<1>5. \A i \in 1..n : f[i] \in Entries /\ f[i].name = l[i].name BY <1>4 DEF Entries
<1>6. f \in [1..n -> Entries] BY <1>2, <1>3, <1>5 DEF Filled
<1>7. f \in Seq(Entries) /\ DOMAIN f = 1..n BY <1>6, IsASeq
<1>8. Once(f) BY <1>2, <1>5, <1>7 DEF Once
<1>9. QED BY <1>3, <1>7, <1>8

LEMMA RefillEffect ==
    ASSUME AttrTyped, NEW q \in AttrRequest, I!Refill(q), Once(attrs[req[q].node])
    PROVE  /\ attrs' \in [I!Node -> Seq(Entries)] /\ req[q].node \in I!Node
           /\ attrs'[req[q].node] = Filled(attrs[req[q].node], req[q].value)
           /\ Once(attrs'[req[q].node])
           /\ \A m \in I!Node : m # req[q].node => attrs'[m] = attrs[m]
<1>1. PICK n \in I!Node : n = req[q].node BY DEF AttrTyped, Requests
<1>2. PICK v \in Values : v = req[q].value BY DEF AttrTyped, Requests
<1>3. PICK l \in Seq(Entries) : l = attrs[n] BY DEF AttrTyped
<1>4. attrs' = [attrs EXCEPT ![n] = Filled(l, v)]
  BY <1>1, <1>2, <1>3 DEF I!Refill, Filled, AttrTyped
<1>5. Filled(l, v) \in Seq(Entries) /\ Once(Filled(l, v)) BY <1>1, <1>3, FilledTyped
<1>6. /\ attrs' \in [I!Node -> Seq(Entries)] /\ attrs'[n] = Filled(l, v)
      /\ \A m \in I!Node : m # n => attrs'[m] = attrs[m]
  BY <1>4, <1>5, Stored
<1>7. QED BY <1>1, <1>2, <1>3, <1>5, <1>6

\* The list after I!_udi_inst_attr_set: written, or with the old value freed.
Wrote(l, l2, m, v, to) ==
    /\ l2 \in Seq(Entries) /\ Once(l2)
    /\ \A k : I!Fold(k) # I!Fold(m) => Got(l2, k) = Got(l, k)
    /\ to = "written" => Got(l2, m) = v
    /\ to = "freed" => \E i \in Find(l2, m) : l2[i].value = "freed"
    /\ \A j \in DOMAIN l2 : l2[j].value = "freed" =>
          \/ to = "freed" /\ I!Fold(l2[j].name) = I!Fold(m)
          \/ \E i \in DOMAIN l : l[i].value = "freed" /\ l[i].name = l2[j].name

LEMMA SetEffect ==
    ASSUME AttrTyped, NEW q \in AttrRequest, I!_udi_inst_attr_set(q), Once(attrs[req[q].node]),
           req[q].value # "freed"
    PROVE  \E to \in {"written", "freed"} :
              /\ I!To(q, to) /\ req[q].node \in I!Node
              /\ Wrote(attrs[req[q].node], attrs'[req[q].node], req[q].name, req[q].value, to)
              /\ attrs' \in [I!Node -> Seq(Entries)]
              /\ \A m \in I!Node : m # req[q].node => attrs'[m] = attrs[m]
<1>1. PICK n \in I!Node : n = req[q].node BY DEF AttrTyped, Requests
<1>2. PICK v \in Values : v = req[q].value BY DEF AttrTyped, Requests
<1>3. PICK l \in Seq(Entries) : l = attrs[n] BY DEF AttrTyped
<1>4. PICK m \in AttrName : m = req[q].name BY DEF AttrTyped, Requests
<1>5. PICK S : S = Find(l, m) OBVIOUS
<1>6. S = I!_udi_node_attr_find_name(n, m)
  BY <1>3, <1>5 DEF Find, I!_udi_node_attr_find_name
<1>7. PICK at : at = (CHOOSE i \in S : TRUE) OBVIOUS
<1>8. SUFFICES \E to \in {"written", "freed"} : \E l2 :
                  /\ I!To(q, to) /\ Wrote(l, l2, m, v, to)
                  /\ attrs' = [attrs EXCEPT ![n] = l2]
  <2>1. PICK to \in {"written", "freed"} : \E l2 :
           I!To(q, to) /\ Wrote(l, l2, m, v, to) /\ attrs' = [attrs EXCEPT ![n] = l2]
    BY <1>8
  <2>5. PICK l2 :
           I!To(q, to) /\ Wrote(l, l2, m, v, to) /\ attrs' = [attrs EXCEPT ![n] = l2]
    BY <2>1
  <2>2. l2 \in Seq(Entries) BY <2>5 DEF Wrote
  <2>3. /\ attrs' \in [I!Node -> Seq(Entries)] /\ attrs'[n] = l2
        /\ \A k \in I!Node : k # n => attrs'[k] = attrs[k]
    BY <2>2, <2>5, Stored
  <2>4. QED BY <1>1, <1>2, <1>3, <1>4, <2>3, <2>5
<1>9. Once(l) /\ v # "freed" BY <1>1, <1>2, <1>3
<1>10. CASE S = {}
  <2>1. attrs' = [attrs EXCEPT ![n] = Added(l, m, v)] /\ I!To(q, "written")
    BY <1>1, <1>2, <1>3, <1>4, <1>6, <1>10 DEF I!_udi_inst_attr_set, Added
  <2>2. /\ Added(l, m, v) \in Seq(Entries) /\ Once(Added(l, m, v))
        /\ Got(Added(l, m, v), m) = v
        /\ \A k : I!Fold(k) # I!Fold(m) => Got(Added(l, m, v), k) = Got(l, k)
        /\ \A j \in DOMAIN Added(l, m, v) :
              Added(l, m, v)[j].value = v \/ \E i \in DOMAIN l : Added(l, m, v)[j] = l[i]
    BY <1>5, <1>9, <1>10, AddedList
  <2>3. PICK l2 : l2 = Added(l, m, v) OBVIOUS
  <2>4. Wrote(l, l2, m, v, "written") BY <1>9, <2>2, <2>3 DEF Wrote
  <2>5. QED BY <2>1, <2>3, <2>4
<1>11. CASE S # {}
  <2>1. at \in Find(l, m) BY <1>5, <1>7, <1>11
  <2>2. CASE v = I!Nothing
    <3>1. attrs' = [attrs EXCEPT ![n] = Removed(l, at)] /\ I!To(q, "written")
      BY <1>1, <1>2, <1>3, <1>4, <1>6, <1>7, <1>11, <2>2 DEF I!_udi_inst_attr_set, Removed
    <3>2. PICK l2 : l2 = Removed(l, at) OBVIOUS
    <3>3. /\ l2 \in Seq(Entries) /\ Once(l2) /\ Got(l2, m) = I!Nothing
          /\ \A k : I!Fold(k) # I!Fold(m) => Got(l2, k) = Got(l, k)
          /\ \A j \in DOMAIN l2 : \E i \in DOMAIN l : l2[j] = l[i]
      BY <1>9, <2>1, <3>2, RemovedList
    <3>4. Wrote(l, l2, m, v, "written") BY <2>2, <3>3 DEF Wrote
    <3>5. QED BY <3>1, <3>2, <3>4
  <2>3. CASE v # I!Nothing
    <3>1. attrs' = [attrs EXCEPT ![n][at].value = "freed"] /\ I!To(q, "freed")
      BY <1>1, <1>2, <1>3, <1>4, <1>6, <1>7, <1>11, <2>3 DEF I!_udi_inst_attr_set
    <3>2. PICK l2 : l2 = [l EXCEPT ![at].value = "freed"] OBVIOUS
    <3>3. attrs' = [attrs EXCEPT ![n] = l2] BY <1>3, <3>1, <3>2
    <3>4. "freed" \in Values BY DEF Values
    <3>11. PICK f \in Values : f = "freed" BY <3>4
    <3>12. l2 = Revalued(l, at, f) BY <3>2, <3>11 DEF Revalued
    <3>5. /\ l2 \in Seq(Entries) /\ DOMAIN l2 = DOMAIN l /\ at \in DOMAIN l
          /\ Once(l2) /\ Find(l2, m) = Find(l, m)
          /\ \A k : I!Fold(k) # I!Fold(m) => Got(l2, k) = Got(l, k)
          /\ \A j \in DOMAIN l : /\ l2[j].name = l[j].name
                                 /\ l2[j].value = IF j = at THEN f ELSE l[j].value
      BY <1>9, <2>1, <3>11, <3>12, ChangedList
    <3>6. I!Fold(l[at].name) = I!Fold(m) BY <2>1 DEF Find
    <3>7. \A j \in DOMAIN l2 : l2[j].value = "freed" =>
             \/ I!Fold(l2[j].name) = I!Fold(m)
             \/ \E i \in DOMAIN l : l[i].value = "freed" /\ l[i].name = l2[j].name
      BY <3>5, <3>6, <3>11
    <3>8. \E i \in Find(l2, m) : l2[i].value = "freed" BY <2>1, <3>5, <3>11
    <3>9. Wrote(l, l2, m, v, "freed") BY <3>5, <3>7, <3>8 DEF Wrote
    <3>10. "freed" \in {"written", "freed"} OBVIOUS
    <3>13. QED BY <3>1, <3>3, <3>9, <3>10
  <2>4. QED BY <2>2, <2>3
<1>12. QED BY <1>10, <1>11

\* A request is made: to read, or to set; only a set that is copied touches the copy.
Made(q, n, m, v, c, r) ==
    /\ I!Ask(q, r)
    /\ r = I!Getting(n, m) \/ (r = I!Setting(n, m, v, c) /\ (c => m = I!Locator))
    /\ mixed' \in BOOLEAN /\ (mixed => mixed')
    /\ r = I!Setting(n, m, v, c) /\ I!IsLocator(m) /\ ~mixed' => c /\ m = I!Locator /\ LocatorSets(n) = {}
Asks(q) == \E n \in I!Node, m \in AttrName, v \in AttrValue \cup {I!Nothing}, c \in BOOLEAN :
               \E r : Made(q, n, m, v, c, r)

LEMMA Asking ==
    ASSUME AttrTyped, I!ConstantsMakeSense, NEW q \in AttrRequest,
           \/ \E m \in AttrName : \/ I!udi_instance_attr_get(q, m)
                              \/ \E v \in AttrValue : I!udi_instance_attr_set(q, m, v)
           \/ I!_udi_instance_attr_get(q, "child", I!Locator)
           \/ \E m \in AttrName, v \in AttrValue : I!IsLocator(m) /\ I!_udi_instance_attr_set(q, "child", m, v)
    PROVE  Asks(q)
<1>1. mixed \in BOOLEAN /\ I!Locator \in AttrName /\ I!Nothing \in AttrValue \cup {I!Nothing}
      /\ FALSE \in BOOLEAN
  BY DEF AttrTyped, I!ConstantsMakeSense
<1>2. \A p : I!GetsFrom(p) \in I!Node /\ I!SetsAt(p) \in I!Node
  BY DEF I!GetsFrom, I!SetsAt, I!Node
<1>3. "child" \in I!Node BY DEF I!Node
<1>4. ASSUME NEW n \in I!Node, NEW m \in AttrName, I!Ask(q, I!Getting(n, m)), mixed' = mixed
      PROVE  Asks(q)
  <2>1. PICK r : r = I!Getting(n, m) OBVIOUS
  <2>2. I!Getting(n, m).op = "get" BY DEF I!Getting, I!Idle
  <2>3. \A v, c : I!Setting(n, m, v, c).op = "set" BY DEF I!Setting, I!Getting, I!Idle
  <2>4. r # I!Setting(n, m, I!Nothing, FALSE) BY <2>1, <2>2, <2>3
  <2>5. Made(q, n, m, I!Nothing, FALSE, r) BY <1>1, <1>4, <2>1, <2>4 DEF Made
  <2>6. QED BY <1>1, <2>5 DEF Asks
<1>5. ASSUME NEW m \in AttrName, I!udi_instance_attr_get(q, m) PROVE Asks(q)
  BY <1>2, <1>4, <1>5 DEF I!udi_instance_attr_get
<1>6. ASSUME I!_udi_instance_attr_get(q, "child", I!Locator) PROVE Asks(q)
  BY <1>1, <1>3, <1>4, <1>6 DEF I!_udi_instance_attr_get
<1>7. ASSUME NEW m \in AttrName, NEW v \in AttrValue, I!udi_instance_attr_set(q, m, v) PROVE Asks(q)
  <2>1. PICK r : r = I!Setting(I!SetsAt(m.prefix), m, v, FALSE) OBVIOUS
  <2>2. I!Ask(q, r) /\ mixed' = (mixed \/ I!IsLocator(m))
    BY <1>7, <2>1 DEF I!udi_instance_attr_set
  <2>3. mixed' \in BOOLEAN /\ (mixed => mixed') /\ (I!IsLocator(m) => mixed')
    BY <1>1, <2>2 DEF I!IsLocator
  <2>4. Made(q, I!SetsAt(m.prefix), m, v, FALSE, r) BY <2>1, <2>2, <2>3, Zenon DEF Made
  <2>5. QED BY <1>1, <1>2, <2>4 DEF Asks
<1>8. ASSUME NEW m \in AttrName, NEW v \in AttrValue, I!_udi_instance_attr_set(q, "child", m, v)
      PROVE  Asks(q)
  <2>1. PICK c \in BOOLEAN : c = (m = I!Locator) OBVIOUS
  <2>2. PICK r : r = I!Setting("child", m, v, c) OBVIOUS
  <2>3. I!Ask(q, r) BY <1>8, <2>1, <2>2 DEF I!_udi_instance_attr_set
  <2>4. mixed' = \/ mixed
                 \/ /\ I!IsLocator(m)
                    /\ m # I!Locator \/ \E p \in I!Pending("set", "child") : I!IsLocator(req[p].name)
    BY <1>8 DEF I!_udi_instance_attr_set
  <2>5. mixed' \in BOOLEAN /\ (mixed => mixed') BY <1>1, <2>4
  <2>6. I!IsLocator(m) /\ ~mixed' => m = I!Locator /\ LocatorSets("child") = {}
    BY <2>4 DEF LocatorSets
  <2>7. Made(q, "child", m, v, c, r) BY <2>1, <2>2, <2>3, <2>5, <2>6 DEF Made
  <2>8. QED BY <1>3, <2>7 DEF Asks
<1>9. QED BY <1>5, <1>6, <1>7, <1>8

Shape == AttrTyped /\ (\A q \in AttrRequest : Sane(req[q])) /\ \A n \in I!Node : Once(attrs[n])

\* One request moves, sanely, and nothing is stored.
LEMMA Shaped ==
    ASSUME Shape, NEW q \in AttrRequest, req' \in [AttrRequest -> Requests], Others(q), Sane(req'[q]),
           attrs' = attrs, count' \in [I!Node -> Int], locator' \in [I!Node -> Values],
           truth' \in [I!Node -> [Folded -> Values]], mixed' \in BOOLEAN, mixed => mixed',
           lost' = lost
    PROVE  Shape'
<1>1. AttrTyped' BY DEF Shape, AttrTyped
<1>2. \A p \in AttrRequest : Sane(req'[p]) BY DEF Shape, Others
<1>3. QED BY <1>1, <1>2 DEF Shape

LEMMA ShapeKept ==
    ASSUME Shape, I!ConstantsMakeSense, I!Next
    PROVE  Shape'
<1>1. AttrTyped BY DEF Shape
<1>2. /\ count \in [I!Node -> Int] /\ locator \in [I!Node -> Values]
      /\ truth \in [I!Node -> [Folded -> Values]]
      /\ mixed \in BOOLEAN /\ lost \in BOOLEAN /\ (lost => mixed)
  BY <1>1 DEF AttrTyped
<1>3. ASSUME NEW q \in AttrRequest PROVE req[q] \in Requests /\ Sane(req[q]) /\ req[q].node \in I!Node
  BY DEF Shape, AttrTyped, Requests
<1>4. Sane(I!Idle) BY Idles
<1>5. ASSUME NEW q \in AttrRequest, Asks(q) PROVE Shape'
  <2>1. PICK n \in I!Node, m \in AttrName, v \in AttrValue \cup {I!Nothing}, c \in BOOLEAN :
            \E r : Made(q, n, m, v, c, r)
    BY <1>5 DEF Asks
  <2>2. PICK r : Made(q, n, m, v, c, r) BY <2>1
  <2>3. /\ I!Ask(q, r) /\ (r = I!Getting(n, m) \/ (r = I!Setting(n, m, v, c) /\ (c => m = I!Locator)))
        /\ mixed' \in BOOLEAN /\ (mixed => mixed')
    BY <2>2 DEF Made
  <2>4. /\ Effect(q, {"idle"}, "asked") /\ Leaves /\ req'[q] = r /\ r.name = m
        /\ r = I!Getting(n, m) => r.op = "get" /\ r.copy = FALSE
        /\ r = I!Setting(n, m, v, c) => r.op = "set" /\ r.value = v /\ r.copy = c
    <3>1. r = I!Getting(n, m) \/ r = I!Setting(n, m, v, c) BY <2>3
    <3>2. I!Ask(q, r) BY <2>3
    <3>3. Asked(q, n, m, v, c, r) BY <1>1, <3>1, <3>2, AskEffect, Zenon
    <3>4. QED BY <3>3 DEF Asked
  <2>5. v # "freed" BY DEF I!ConstantsMakeSense, I!Nothing
  <2>6. r.phase = "asked" /\ (r.copy => r.op = "set" /\ r.name = I!Locator)
        /\ (r.op = "set" => r.value # "freed")
    BY <2>3, <2>4, <2>5 DEF Effect
  <2>7. Sane(r) BY <2>6 DEF Sane, I!Reading, I!Writing
  <2>8. QED BY <1>2, <2>3, <2>4, <2>7, Shaped DEF Effect, Leaves, I!Ask
<1>6. ASSUME NEW q \in AttrRequest, I!CopyLocator(q) PROVE Shape'
  <2>1. /\ req' \in [AttrRequest -> Requests] /\ Others(q) /\ Same(q)
        /\ req'[q].phase = req[q].phase /\ req'[q].value = req[q].value
        /\ req'[q].copy = FALSE
    BY <1>1, <1>6, CopyEffect
  <2>2. Sane(req'[q]) BY <1>3, <2>1 DEF Sane, Same
  <2>3. req[q].value \in Values BY <1>3 DEF Requests
  <2>4. locator' \in [I!Node -> Values] BY <1>2, <1>6, <2>3 DEF I!CopyLocator
  <2>5. QED BY <1>2, <1>6, <2>1, <2>2, <2>4, Shaped DEF I!CopyLocator
<1>7. ASSUME NEW q \in AttrRequest, I!GetFile(q) \/ I!Resume(q) \/ I!Leave(q) PROVE Shape'
  <2>1. req' = [req EXCEPT ![q] = I!Idle] BY <1>7 DEF I!GetFile, I!Resume, I!Leave
  <2>2. req' \in [AttrRequest -> Requests] /\ req'[q] = I!Idle /\ Others(q)
    BY <1>1, <2>1, IdleEffect
  <2>3. count' \in [I!Node -> Int]
    BY <1>2, <1>3, <1>7 DEF I!GetFile, I!Resume, I!Leave, I!Counted
  <2>4. QED BY <1>2, <1>4, <1>7, <2>2, <2>3, Shaped DEF I!GetFile, I!Resume, I!Leave
<1>8. ASSUME NEW q \in AttrRequest, I!Join(q) PROVE Shape'
  <2>1. I!To(q, "reading") /\ req[q].op = "get" /\ "reading" \in Phases
    BY <1>8 DEF I!Join, Phases
  <2>2. /\ req' \in [AttrRequest -> Requests] /\ Others(q) /\ Same(q) /\ req'[q].phase = "reading"
        /\ req'[q].copy = req[q].copy
    BY <1>1, <2>1, Turned
  <2>3. Sane(req'[q]) BY <1>3, <2>1, <2>2 DEF Sane, Same, I!Reading, I!Writing
  <2>4. count' \in [I!Node -> Int] BY <1>2, <1>3, <1>8 DEF I!Join, I!Counted
  <2>5. QED BY <1>2, <1>8, <2>2, <2>3, <2>4, Shaped DEF I!Join
<1>9. ASSUME NEW q \in AttrRequest, I!Read(q) PROVE Shape'
  <2>1. /\ req' \in [AttrRequest -> Requests] /\ Others(q) /\ Same(q)
        /\ req'[q].phase = "read" /\ req'[q].copy = req[q].copy
    BY <1>1, <1>9, ReadEffect
  <2>2. req[q].phase = "reading" BY <1>9 DEF I!Read
  <2>3. Sane(req'[q]) BY <1>3, <2>1, <2>2 DEF Sane, Same, I!Reading, I!Writing
  <2>4. QED BY <1>2, <1>9, <2>1, <2>3, Shaped DEF I!Read
<1>10. ASSUME NEW q \in AttrRequest, I!Enter(q) PROVE Shape'
  <2>1. PICK ph \in {"writing", "tried"} : I!To(q, ph) BY <1>10 DEF I!Enter
  <2>2. ph \in Phases BY DEF Phases
  <2>3. /\ req' \in [AttrRequest -> Requests] /\ Others(q) /\ Same(q) /\ req'[q].phase = ph
        /\ req'[q].copy = req[q].copy /\ req'[q].value = req[q].value
    BY <1>1, <2>1, <2>2, Turned
  <2>4. req[q].op = "set" BY <1>10 DEF I!Enter, I!Trying
  <2>5. Sane(req'[q]) BY <1>3, <2>3, <2>4 DEF Sane, Same, I!Reading, I!Writing
  <2>6. count' \in [I!Node -> Int] BY <1>2, <1>3, <1>10 DEF I!Enter, I!Counted
  <2>7. QED BY <1>2, <1>10, <2>3, <2>5, <2>6, Shaped DEF I!Enter
<1>11. ASSUME NEW q \in AttrRequest, I!Done(q) PROVE Shape'
  <2>1. /\ req' \in [AttrRequest -> Requests] /\ Others(q)
        /\ \/ req[q].copy /\ req'[q].phase = "answered" /\ Same(q)
              /\ req'[q].value = req[q].value /\ req'[q].copy
           \/ ~req[q].copy /\ req'[q] = I!Idle /\ req'[q].phase = "idle"
        /\ truth' \in [I!Node -> [Folded -> Values]]
    BY <1>1, <1>11, DoneEffect
  <2>2. Sane(req'[q])
    <3>1. CASE req'[q] = I!Idle BY <1>4, <3>1
    <3>2. CASE req[q].copy /\ req'[q].phase = "answered" /\ Same(q)
               /\ req'[q].value = req[q].value
      BY <1>3, <3>2 DEF Sane, Same, I!Reading, I!Writing
    <3>3. QED BY <2>1, <3>1, <3>2
  <2>3. count' \in [I!Node -> Int] BY <1>2, <1>3, <1>11 DEF I!Done, I!Counted
  <2>4. QED BY <1>2, <1>11, <2>1, <2>2, <2>3, Shaped DEF I!Done
<1>12. ASSUME NEW q \in AttrRequest, I!_udi_inst_attr_set(q) \/ I!Refill(q) PROVE Shape'
  <2>1. PICK n \in I!Node : n = req[q].node BY <1>3
  <2>2. req[q].phase \in {"writing", "freed"} BY <1>12 DEF I!_udi_inst_attr_set, I!Refill
  <2>3. req[q].op = "set" /\ req[q].value # "freed" BY <1>3, <2>2 DEF Sane, I!Writing
  <2>4. Once(attrs[n]) BY DEF Shape
  <2>5. \E to \in {"written", "freed"} : /\ I!To(q, to) /\ Once(attrs'[n])
                                         /\ attrs' \in [I!Node -> Seq(Entries)]
                                         /\ \A m \in I!Node : m # n => attrs'[m] = attrs[m]
    <3>1. CASE I!_udi_inst_attr_set(q)
      BY <1>1, <2>1, <2>3, <2>4, <3>1, SetEffect DEF Wrote
    <3>2. CASE I!Refill(q)
      <4>1. I!To(q, "written") BY <3>2 DEF I!Refill
      <4>2. /\ Once(attrs'[n]) /\ attrs' \in [I!Node -> Seq(Entries)]
            /\ \A m \in I!Node : m # n => attrs'[m] = attrs[m]
        BY <1>1, <2>1, <2>4, <3>2, RefillEffect
      <4>3. "written" \in {"written", "freed"} OBVIOUS
      <4>4. QED BY <4>1, <4>2, <4>3
    <3>3. QED BY <1>12, <3>1, <3>2
  <2>6. PICK to \in {"written", "freed"} :
               /\ I!To(q, to) /\ Once(attrs'[n]) /\ attrs' \in [I!Node -> Seq(Entries)]
               /\ \A m \in I!Node : m # n => attrs'[m] = attrs[m]
    BY <2>5
  <2>7. to \in Phases BY DEF Phases
  <2>8. /\ req' \in [AttrRequest -> Requests] /\ Others(q) /\ Same(q) /\ req'[q].phase = to
        /\ req'[q].copy = req[q].copy /\ req'[q].value = req[q].value
    BY <1>1, <2>6, <2>7, Turned
  <2>9. Sane(req'[q]) BY <1>3, <2>3, <2>8 DEF Sane, Same, I!Reading, I!Writing
  <2>10. \A p \in AttrRequest : Sane(req'[p]) BY <1>3, <2>8, <2>9 DEF Others
  <2>11. \A m \in I!Node : Once(attrs'[m]) BY <2>6 DEF Shape
  <2>14. UNCHANGED <<count, locator, truth, mixed, lost>>
    BY <1>12 DEF I!_udi_inst_attr_set, I!Refill
  <2>12. AttrTyped' BY <1>2, <2>6, <2>8, <2>14 DEF AttrTyped
  <2>13. QED BY <2>10, <2>11, <2>12 DEF Shape
<1>13. ASSUME NEW n \in I!Node, I!_udi_instance_attr_release(n) PROVE Shape'
  <2>1. <<>> \in Seq(Entries) /\ DOMAIN <<>> = {} OBVIOUS
  <2>2. attrs' = [attrs EXCEPT ![n] = <<>>] BY <1>13 DEF I!_udi_instance_attr_release
  <2>3. PICK none \in Seq(Entries) : none = <<>> BY <2>1
  <2>4. /\ attrs' \in [I!Node -> Seq(Entries)] /\ attrs'[n] = none
        /\ \A m \in I!Node : m # n => attrs'[m] = attrs[m]
    BY <1>1, <2>2, <2>3, Stored
  <2>5. Once(none) BY <2>1, <2>3 DEF Once
  <2>6. \A m \in I!Node : Once(attrs'[m]) BY <2>4, <2>5 DEF Shape
  <2>7. PICK t : t = [m \in DOMAIN truth[n] |-> I!Nothing] OBVIOUS
  <2>8. t \in [Folded -> Values] BY <1>2, <2>7 DEF Values
  <2>9. truth' = [truth EXCEPT ![n] = t] BY <1>13, <2>7 DEF I!_udi_instance_attr_release
  <2>10. truth' \in [I!Node -> [Folded -> Values]] BY <1>2, <2>8, <2>9
  <2>11. req' = req /\ count' = count /\ locator' = locator /\ mixed' = TRUE /\ lost' \in BOOLEAN
    BY <1>2, <1>13 DEF I!_udi_instance_attr_release
  <2>12. AttrTyped' BY <1>1, <2>4, <2>10, <2>11 DEF AttrTyped
  <2>13. QED BY <2>6, <2>11, <2>12 DEF Shape
<1>14. QED
  BY <1>1, <1>5, <1>6, <1>7, <1>8, <1>9, <1>10, <1>11, <1>12, <1>13, Asking DEF I!Next,
     I!Step
-----------------------------------------------------------------------------
(* The count.                                                                *)
In(q, P, n) == req[q].phase \in P /\ req[q].node = n

LEMMA AtSame ==
    ASSUME NEW q \in AttrRequest, Others(q), NEW P, NEW n,
           (req'[q].phase \in P /\ req'[q].node = n) <=> (req[q].phase \in P /\ req[q].node = n)
    PROVE  I!At(P, n)' = I!At(P, n)
BY DEF I!At, Others

LEMMA AtJoined ==
    ASSUME NEW q \in AttrRequest, Others(q), NEW P, NEW n, req'[q].phase \in P, req'[q].node = n
    PROVE  I!At(P, n)' = I!At(P, n) \cup {q}
BY DEF I!At, Others

LEMMA AtLeft ==
    ASSUME NEW q \in AttrRequest, Others(q), NEW P, NEW n,
           ~ (req'[q].phase \in P /\ req'[q].node = n)
    PROVE  I!At(P, n)' = I!At(P, n) \ {q}
BY DEF I!At, Others
\* The services' own words of FiniteSets are those of the library's theorems.
LEMMA FiniteIs == ASSUME NEW S PROVE I!IsFiniteSet(S) <=> IsFiniteSet(S)
BY DEF I!IsFiniteSet, IsFiniteSet
LEMMA CardinalityIs == ASSUME NEW S PROVE I!Cardinality(S) = Cardinality(S)
BY DEF I!Cardinality, Cardinality

LEMMA AtFinite ==
    ASSUME I!ConstantsMakeSense, NEW P, NEW n
    PROVE  IsFiniteSet(I!At(P, n)) /\ Cardinality(I!At(P, n)) \in Nat
<1>1. I!At(P, n) \subseteq AttrRequest /\ IsFiniteSet(AttrRequest)
  BY FiniteIs DEF I!At, I!ConstantsMakeSense
<1>2. IsFiniteSet(I!At(P, n)) BY <1>1, FS_Subset
<1>3. QED BY <1>2, FS_CardinalityType

LEMMA CountsSame ==
    ASSUME NEW q \in AttrRequest, Others(q), NEW n, Counts(n), count'[n] = count[n],
           (req'[q].phase \in I!Reading /\ req'[q].node = n)
               <=> (req[q].phase \in I!Reading /\ req[q].node = n),
           (req'[q].phase \in I!Writing /\ req'[q].node = n)
               <=> (req[q].phase \in I!Writing /\ req[q].node = n)
    PROVE  Counts(n)'
<1>1. I!At(I!Reading, n)' = I!At(I!Reading, n) BY AtSame
<1>2. I!At(I!Writing, n)' = I!At(I!Writing, n) BY AtSame
<1>3. PICK r : r = I!At(I!Reading, n) OBVIOUS
<1>4. PICK w : w = I!At(I!Writing, n) OBVIOUS
<1>5. \/ Cardinality(w) = 1 /\ Cardinality(r) = 0 /\ count[n] = -1
      \/ w = {} /\ count[n] \in {Cardinality(r), -Cardinality(r)}
  BY <1>3, <1>4 DEF Counts
<1>6. I!At(I!Reading, n)' = r /\ I!At(I!Writing, n)' = w BY <1>1, <1>2, <1>3, <1>4
<1>7. QED BY <1>5, <1>6 DEF Counts

\* Who reads and who writes when the count is what it is.
LEMMA WhoCounts ==
    ASSUME I!ConstantsMakeSense, NEW n, Counts(n)
    PROVE  \E k \in Nat :
              /\ k = Cardinality(I!At(I!Reading, n))
              /\ \/ Cardinality(I!At(I!Writing, n)) = 1 /\ k = 0 /\ count[n] = -1
                 \/ I!At(I!Writing, n) = {} /\ count[n] \in {k, -k}
<1>1. PICK k \in Nat : k = Cardinality(I!At(I!Reading, n)) BY AtFinite
<1>2. QED BY <1>1 DEF Counts

LEMMA CountsAre ==
    ASSUME NEW n, NEW k, k = Cardinality(I!At(I!Reading, n)'),
           \/ Cardinality(I!At(I!Writing, n)') = 1 /\ k = 0 /\ count'[n] = -1
           \/ I!At(I!Writing, n)' = {} /\ count'[n] \in {k, -k}
    PROVE  Counts(n)'
BY DEF Counts

LEMMA NoReader ==
    ASSUME I!ConstantsMakeSense, NEW n, NEW P, Cardinality(I!At(P, n)) = 0
    PROVE  I!At(P, n) = {}
BY AtFinite, FS_EmptySet

LEMMA OneWriter ==
    ASSUME I!ConstantsMakeSense, NEW n, NEW P, Cardinality(I!At(P, n)) = 1, NEW q \in I!At(P, n)
    PROVE  I!At(P, n) = {q}
<1>1. PICK S : S = I!At(P, n) OBVIOUS
<1>2. IsFiniteSet(S) BY <1>1, AtFinite
<1>3. \E x : S = {x} BY <1>1, <1>2, FS_Singleton
<1>4. QED BY <1>1, <1>3

\* A writer works alone.
LEMMA Alone ==
    ASSUME I!ConstantsMakeSense, NEW n, Counts(n), NEW q \in I!At(I!Writing, n)
    PROVE  I!At(I!Writing, n) = {q} /\ I!At(I!Reading, n) = {} /\ count[n] = -1
<1>1. /\ Cardinality(I!At(I!Writing, n)) = 1
      /\ Cardinality(I!At(I!Reading, n)) = 0
      /\ count[n] = -1
  BY WhoCounts
<1>2. QED BY <1>1, OneWriter, NoReader

LEMMA ReadsAlone ==
    ASSUME I!ConstantsMakeSense, NEW n, Counts(n), NEW q \in I!At(I!Reading, n)
    PROVE  I!At(I!Writing, n) = {}
<1>1. SUFFICES ASSUME NEW p \in I!At(I!Writing, n) PROVE FALSE OBVIOUS
<1>2. QED BY <1>1, Alone

LEMMA JoinCounts ==
    ASSUME Shape, I!ConstantsMakeSense, \A n \in I!Node : Counts(n), NEW q \in AttrRequest, I!Join(q)
    PROVE  \A n \in I!Node : Counts(n)'
<1>1. AttrTyped BY DEF Shape
<1>2. PICK m \in I!Node : m = req[q].node BY <1>1 DEF AttrTyped, Requests
<1>3. /\ req[q].phase = "asked" /\ count[m] >= 0 /\ I!To(q, "reading")
      /\ count' = [count EXCEPT ![m] = count[m] + 1]
  BY <1>2 DEF I!Join, I!Counted
<1>4. count \in [I!Node -> Int] BY <1>1 DEF AttrTyped
<1>5. /\ count'[m] = count[m] + 1
      /\ \A n \in I!Node : n # m => count'[n] = count[n]
  BY <1>3, <1>4
<1>6. "reading" \in Phases BY DEF Phases
<1>7. Others(q) /\ req'[q].phase = "reading" /\ req'[q].node = m
  BY <1>1, <1>2, <1>3, <1>6, Turned DEF Same
<1>8. "reading" \in I!Reading /\ "reading" \notin I!Writing /\ "asked" \notin I!Reading
      /\ "asked" \notin I!Writing
  BY DEF I!Reading, I!Writing
<1>9. ASSUME NEW n \in I!Node, n # m PROVE Counts(n)'
  <2>1. Counts(n) /\ count'[n] = count[n] BY <1>5, <1>9
  <2>2. req'[q].node # n /\ req[q].node # n BY <1>2, <1>7, <1>9
  <2>3. QED BY <1>7, <2>1, <2>2, CountsSame
<1>10. Counts(m)'
  <2>1. PICK k \in Nat :
              /\ k = Cardinality(I!At(I!Reading, m))
              /\ \/ Cardinality(I!At(I!Writing, m)) = 1 /\ k = 0 /\ count[m] = -1
                 \/ I!At(I!Writing, m) = {} /\ count[m] \in {k, -k}
    BY WhoCounts
  <2>2. I!At(I!Writing, m) = {} /\ count[m] = k BY <1>3, <2>1
  <2>3. I!At(I!Writing, m)' = I!At(I!Writing, m) BY <1>3, <1>7, <1>8, AtSame
  <2>4. PICK S : S = I!At(I!Reading, m) OBVIOUS
  <2>5. I!At(I!Reading, m)' = S \cup {q} BY <1>7, <1>8, <2>4, AtJoined
  <2>6. IsFiniteSet(S) /\ q \notin S
    BY <1>3, <1>8, <2>4, AtFinite DEF I!At
  <2>7. Cardinality(S \cup {q}) = Cardinality(S) + 1 BY <2>6, FS_AddElement
  <2>8. Cardinality(I!At(I!Reading, m)') = k + 1 BY <2>1, <2>4, <2>5, <2>7
  <2>9. QED BY <1>5, <2>2, <2>3, <2>8, CountsAre
<1>11. QED BY <1>9, <1>10

LEMMA LeaveCounts ==
    ASSUME Shape, I!ConstantsMakeSense, \A n \in I!Node : Counts(n), NEW q \in AttrRequest, I!Leave(q)
    PROVE  \A n \in I!Node : Counts(n)'
<1>1. AttrTyped BY DEF Shape
<1>2. PICK m \in I!Node : m = req[q].node BY <1>1 DEF AttrTyped, Requests
<1>3. /\ req[q].phase = "read" /\ req' = [req EXCEPT ![q] = I!Idle]
      /\ count' = [count EXCEPT ![m] = IF count[m] < 0 THEN count[m] + 1 ELSE count[m] - 1]
  BY <1>2 DEF I!Leave, I!Counted
<1>4. count \in [I!Node -> Int] BY <1>1 DEF AttrTyped
<1>5. /\ count'[m] = IF count[m] < 0 THEN count[m] + 1 ELSE count[m] - 1
      /\ \A n \in I!Node : n # m => count'[n] = count[n]
  BY <1>3, <1>4
<1>7. Others(q) /\ req'[q].phase = "idle" BY <1>1, <1>3, IdleEffect
<1>8. "idle" \notin I!Reading /\ "idle" \notin I!Writing /\ "read" \in I!Reading /\ "read" \notin I!Writing
  BY DEF I!Reading, I!Writing
<1>9. ASSUME NEW n \in I!Node, n # m PROVE Counts(n)'
  <2>1. Counts(n) /\ count'[n] = count[n] BY <1>5, <1>9
  <2>2. req[q].node # n BY <1>2, <1>9
  <2>3. QED BY <1>7, <1>8, <2>1, <2>2, CountsSame
<1>10. Counts(m)'
  <2>1. PICK k \in Nat :
              /\ k = Cardinality(I!At(I!Reading, m))
              /\ \/ Cardinality(I!At(I!Writing, m)) = 1 /\ k = 0 /\ count[m] = -1
                 \/ I!At(I!Writing, m) = {} /\ count[m] \in {k, -k}
    BY WhoCounts
  <2>2. PICK S : S = I!At(I!Reading, m) OBVIOUS
  <2>3. q \in S BY <1>2, <1>3, <1>8, <2>2 DEF I!At
  <2>4. I!At(I!Writing, m) = {} BY <2>2, <2>3, ReadsAlone
  <2>5. IsFiniteSet(S) BY <2>2, AtFinite
  <2>6. Cardinality(S \ {q}) = Cardinality(S) - 1 BY <2>3, <2>5, FS_RemoveElement
  <2>7. I!At(I!Reading, m)' = S \ {q} BY <1>7, <1>8, <2>2, AtLeft
  <2>8. I!At(I!Writing, m)' = I!At(I!Writing, m) BY <1>3, <1>7, <1>8, AtSame
  <2>9. Cardinality(S \ {q}) \in Nat
    BY <2>5, FS_RemoveElement, FS_CardinalityType
  <2>10. k - 1 \in Nat /\ Cardinality(I!At(I!Reading, m)') = k - 1
    BY <2>1, <2>2, <2>6, <2>7, <2>9
  <2>11. ~(Cardinality(I!At(I!Writing, m)) = 1)
    BY <2>4, FS_EmptySet
  <2>12. count[m] = k \/ count[m] = -k BY <2>1, <2>11
  <2>13. count'[m] \in {k - 1, -(k - 1)} BY <1>5, <2>10, <2>12
  <2>14. QED BY <2>4, <2>8, <2>10, <2>13, CountsAre
<1>11. QED BY <1>9, <1>10

LEMMA EnterCounts ==
    ASSUME Shape, I!ConstantsMakeSense, \A n \in I!Node : Counts(n), NEW q \in AttrRequest, I!Enter(q)
    PROVE  \A n \in I!Node : Counts(n)'
<1>1. AttrTyped BY DEF Shape
<1>2. PICK m \in I!Node : m = req[q].node BY <1>1 DEF AttrTyped, Requests
<1>3. PICK ph \in {"writing", "tried"}, c \in Int :
         /\ I!To(q, ph) /\ count' = [count EXCEPT ![m] = c]
         /\ \/ count[m] = 0 /\ c = -1 /\ ph = "writing"
            \/ count[m] > 0 /\ c = -count[m] /\ ph = "tried"
            \/ c = count[m] /\ ph = "tried"
  <2>1. count[m] \in Int /\ count \in [I!Node -> Int] BY <1>1 DEF AttrTyped
  <2>2. CASE count[m] = 0
    <3>1. I!To(q, "writing") /\ count' = [count EXCEPT ![m] = -1]
      BY <1>2, <2>2 DEF I!Enter, I!Counted
    <3>2. PICK d \in Int : d = -1 OBVIOUS
    <3>3. count' = [count EXCEPT ![m] = d] BY <3>1, <3>2
    <3>4. QED BY <2>2, <3>1, <3>2, <3>3
  <2>3. CASE count[m] > 0
    <3>1. count[m] # 0 BY <2>1, <2>3
    <3>2. I!To(q, "tried") /\ count' = [count EXCEPT ![m] = -count[m]]
      BY <1>2, <2>3, <3>1 DEF I!Enter, I!Counted
    <3>3. -count[m] \in Int BY <2>1
    <3>4. QED BY <2>3, <3>2, <3>3
  <2>4. CASE ~(count[m] > 0) /\ count[m] # 0
    <3>1. I!To(q, "tried") /\ count' = count BY <1>2, <2>4 DEF I!Enter
    <3>2. count' = [count EXCEPT ![m] = count[m]] BY <2>1, <3>1
    <3>3. QED BY <2>1, <3>1, <3>2
  <2>5. QED BY <2>2, <2>3, <2>4
<1>4. count \in [I!Node -> Int] BY <1>1 DEF AttrTyped
<1>5. count'[m] = c /\ \A n \in I!Node : n # m => count'[n] = count[n] BY <1>3, <1>4
<1>6. ph \in Phases BY DEF Phases
<1>7. Others(q) /\ req'[q].phase = ph /\ req'[q].node = m
  BY <1>1, <1>2, <1>3, <1>6, Turned DEF Same
<1>8. /\ req[q].phase \notin I!Reading /\ req[q].phase \notin I!Writing
      /\ ph \notin I!Reading /\ (ph \in I!Writing <=> ph = "writing")
  BY DEF I!Reading, I!Writing, I!Enter, I!Trying
<1>9. ASSUME NEW n \in I!Node, n # m PROVE Counts(n)'
  <2>1. Counts(n) /\ count'[n] = count[n] BY <1>5, <1>9
  <2>2. req'[q].node # n /\ req[q].node # n BY <1>2, <1>7, <1>9
  <2>3. QED BY <1>7, <2>1, <2>2, CountsSame
<1>10. Counts(m)'
  <2>1. PICK k \in Nat :
              /\ k = Cardinality(I!At(I!Reading, m))
              /\ \/ Cardinality(I!At(I!Writing, m)) = 1 /\ k = 0 /\ count[m] = -1
                 \/ I!At(I!Writing, m) = {} /\ count[m] \in {k, -k}
    BY WhoCounts
  <2>2. I!At(I!Reading, m)' = I!At(I!Reading, m) BY <1>7, <1>8, AtSame
  <2>3. CASE count[m] = 0 /\ c = -1 /\ ph = "writing"
    <3>1. I!At(I!Writing, m) = {} /\ k = 0 BY <2>1, <2>3
    <3>2. I!At(I!Writing, m)' = {q} BY <1>7, <1>8, <2>3, <3>1, AtJoined
    <3>3. Cardinality(I!At(I!Writing, m)') = 1 BY <3>2, FS_Singleton
    <3>4. QED BY <1>5, <2>1, <2>2, <2>3, <3>1, <3>3, CountsAre
  <2>4. CASE count[m] > 0 /\ c = -count[m] /\ ph = "tried"
    <3>1. I!At(I!Writing, m)' = I!At(I!Writing, m) BY <1>7, <1>8, <2>4, AtSame
    <3>2. I!At(I!Writing, m) = {} /\ c = -k BY <2>1, <2>4
    <3>3. QED BY <1>5, <2>1, <2>2, <3>1, <3>2, CountsAre
  <2>5. CASE c = count[m] /\ ph = "tried" BY <1>5, <1>7, <1>8, <2>5, CountsSame
  <2>6. QED BY <1>3, <2>3, <2>4, <2>5
<1>11. QED BY <1>9, <1>10

LEMMA DoneCounts ==
    ASSUME Shape, I!ConstantsMakeSense, \A n \in I!Node : Counts(n), NEW q \in AttrRequest, I!Done(q)
    PROVE  \A n \in I!Node : Counts(n)'
<1>1. AttrTyped BY DEF Shape
<1>2. PICK m \in I!Node : m = req[q].node BY <1>1 DEF AttrTyped, Requests
<1>3. req[q].phase = "written" /\ count' = [count EXCEPT ![m] = 0]
  BY <1>2 DEF I!Done, I!Counted
<1>4. count \in [I!Node -> Int] BY <1>1 DEF AttrTyped
<1>5. count'[m] = 0 /\ \A n \in I!Node : n # m => count'[n] = count[n] BY <1>3, <1>4
<1>6. Others(q) /\ req'[q].phase \in {"answered", "idle"}
  BY <1>1, DoneEffect
<1>7. /\ req'[q].phase \notin I!Reading /\ req'[q].phase \notin I!Writing
      /\ req[q].phase \in I!Writing /\ req[q].phase \notin I!Reading
  BY <1>3, <1>6 DEF I!Reading, I!Writing
<1>8. ASSUME NEW n \in I!Node, n # m PROVE Counts(n)'
  <2>1. Counts(n) /\ count'[n] = count[n] BY <1>5, <1>8
  <2>2. req[q].node # n BY <1>2, <1>8
  <2>3. QED BY <1>6, <1>7, <2>1, <2>2, CountsSame
<1>9. Counts(m)'
  <2>1. q \in I!At(I!Writing, m) BY <1>2, <1>7 DEF I!At
  <2>2. I!At(I!Writing, m) = {q} /\ I!At(I!Reading, m) = {} BY <2>1, Alone
  <2>3. I!At(I!Writing, m)' = {} BY <1>6, <1>7, <2>2, AtLeft
  <2>4. I!At(I!Reading, m)' = {} BY <1>6, <1>7, <2>2, AtSame
  <2>5. Cardinality(I!At(I!Reading, m)') = 0 BY <2>4, FS_EmptySet
  <2>6. QED BY <1>5, <2>3, <2>5, CountsAre
<1>10. QED BY <1>8, <1>9
-----------------------------------------------------------------------------
(* What is listed, answered and copied.                                      *)
Settling == {"freed", "written"}

LEMMA Lists ==
    ASSUME NEW q \in AttrRequest, Others(q), NEW n \in I!Node, ListSound(n),
           attrs'[n] = attrs[n], truth'[n] = truth[n],
           ~ (req[q].phase \in Settling /\ req[q].node = n),
           ~ (req'[q].phase \in Settling /\ req'[q].node = n)
    PROVE  ListSound(n)'
<1>1. I!At({"freed"}, n)' = I!At({"freed"}, n) BY AtSame DEF Settling
<1>2. I!At({"written"}, n)' = I!At({"written"}, n) BY AtSame DEF Settling
<1>3. I!At({"freed", "written"}, n)' = I!At({"freed", "written"}, n) BY AtSame DEF Settling
<1>4. /\ q \notin I!At({"freed"}, n) /\ q \notin I!At({"written"}, n)
      /\ q \notin I!At({"freed", "written"}, n)
  BY DEF I!At, Settling
<1>5. \A P : \A p \in I!At(P, n) : p # q => req'[p] = req[p] BY DEF I!At, Others
<1>6. ValuesAreThere(n)' BY <1>1, <1>4, <1>5 DEF ListSound, ValuesAreThere
<1>7. ListIsTrue(n)' BY <1>2, <1>3, <1>4, <1>5 DEF ListSound, ListIsTrue
<1>8. QED BY <1>6, <1>7 DEF ListSound

LEMMA Answers ==
    ASSUME NEW q \in AttrRequest, Others(q), I!AnswersAreTrue, truth' = truth, req'[q].phase # "read"
    PROVE  I!AnswersAreTrue'
BY DEF I!AnswersAreTrue, Others

\* A step of a request that writes nothing and sets nothing.
LEMMA Sounds ==
    ASSUME NEW q \in AttrRequest, Others(q), Sound, Leaves, req[q].phase \notin Settling,
           req'[q].phase \notin Settling, req'[q].phase # "read"
    PROVE  Sound'
<1>1. I!AnswersAreTrue' BY Answers DEF Sound, Leaves
<1>2. ASSUME NEW n \in I!Node PROVE ListSound(n)' BY Lists DEF Sound, Leaves
<1>3. QED BY <1>1, <1>2 DEF Sound

InSets(q, n) == req[q].phase # "idle" /\ req[q].op = "set" /\ req[q].node = n
                /\ I!IsLocator(req[q].name)

LEMMA SetsAre ==
    ASSUME NEW n
    PROVE  /\ \A q \in AttrRequest : q \in LocatorSets(n) <=> InSets(q, n)
           /\ LocatorSets(n) \subseteq AttrRequest
BY DEF LocatorSets, I!Pending, InSets

\* A step of a request that does not set the locator, or is on its way to set it.
LEMMA Follows ==
    ASSUME NEW q \in AttrRequest, Others(q), NEW n \in I!Node, CopyFollows(n), locator'[n] = locator[n],
           InSets(q, n)' <=> InSets(q, n),
           InSets(q, n) => /\ req'[q].copy = req[q].copy /\ req'[q].value = req[q].value
                           /\ req'[q].phase \notin {"asked", "answered"},
           InSets(q, n) \/ Got(attrs'[n], I!Locator) = Got(attrs[n], I!Locator)
    PROVE  CopyFollows(n)'
<1>1. /\ \A p \in AttrRequest : p \in LocatorSets(n) <=> InSets(p, n)
      /\ LocatorSets(n) \subseteq AttrRequest
  BY SetsAre
<1>2. /\ \A p \in AttrRequest : p \in LocatorSets(n)' <=> InSets(p, n)'
      /\ LocatorSets(n)' \subseteq AttrRequest
  BY DEF LocatorSets, I!Pending, InSets
<1>3. \A p \in AttrRequest : p # q => (InSets(p, n)' <=> InSets(p, n))
  BY DEF Others, InSets
<1>4. LocatorSets(n)' = LocatorSets(n) BY <1>1, <1>2, <1>3
<1>5. PICK L : L = LocatorSets(n) OBVIOUS
<1>6. L \subseteq AttrRequest /\ (q \in L <=> InSets(q, n)) BY <1>1, <1>5
<1>7. /\ \A x, y \in L : x = y
      /\ \A x \in L : /\ ~req[x].copy => req[x].phase # "asked" /\ locator[n] = req[x].value
                      /\ req[x].phase = "answered" => Got(attrs[n], I!Locator) = req[x].value
      /\ L = {} => Got(attrs[n], I!Locator) = locator[n]
  BY <1>5 DEF CopyFollows
<1>8. ASSUME NEW x \in L
      PROVE  /\ ~req'[x].copy => req'[x].phase # "asked" /\ locator'[n] = req'[x].value
             /\ req'[x].phase = "answered" => Got(attrs'[n], I!Locator) = req'[x].value
  <2>1. CASE x = q BY <1>6, <1>7, <1>8, <2>1
  <2>2. CASE x # q
    <3>1. req'[x] = req[x] BY <1>6, <1>8, <2>2 DEF Others
    <3>2. q \notin L BY <1>7, <1>8, <2>2
    <3>3. Got(attrs'[n], I!Locator) = Got(attrs[n], I!Locator) BY <1>6, <3>2
    <3>4. QED BY <1>7, <1>8, <3>1, <3>3
  <2>3. QED BY <2>1, <2>2
<1>9. L = {} => Got(attrs'[n], I!Locator) = locator'[n] BY <1>6, <1>7
<1>10. LocatorSets(n)' = L BY <1>4, <1>5
<1>11. QED BY <1>7, <1>8, <1>9, <1>10 DEF CopyFollows

\* The last set of the locator on its way: it comes, or it goes.
LEMMA FollowsOne ==
    ASSUME NEW q \in AttrRequest, Others(q), NEW n \in I!Node, LocatorSets(n) \subseteq {q},
           InSets(q, n)' => /\ ~req'[q].copy =>
                                 req'[q].phase # "asked" /\ locator'[n] = req'[q].value
                            /\ req'[q].phase = "answered" =>
                                 Got(attrs'[n], I!Locator) = req'[q].value,
           ~ InSets(q, n)' => Got(attrs'[n], I!Locator) = locator'[n]
    PROVE  CopyFollows(n)'
<1>1. /\ \A p \in AttrRequest : p \in LocatorSets(n) <=> InSets(p, n)
  BY SetsAre
<1>2. /\ \A p \in AttrRequest : p \in LocatorSets(n)' <=> InSets(p, n)'
      /\ LocatorSets(n)' \subseteq AttrRequest
  BY DEF LocatorSets, I!Pending, InSets
<1>3. \A p \in AttrRequest : p # q => ~ InSets(p, n)'
  <2>1. \A p \in AttrRequest : p # q => ~ InSets(p, n) BY <1>1
  <2>2. QED BY <2>1 DEF Others, InSets
<1>4. PICK L : L = LocatorSets(n)' OBVIOUS
<1>5. L \subseteq {q} BY <1>2, <1>3, <1>4
<1>6. q \in L <=> InSets(q, n)' BY <1>2, <1>4
<1>7. \A x \in L : /\ ~req'[x].copy => req'[x].phase # "asked" /\ locator'[n] = req'[x].value
                   /\ req'[x].phase = "answered" => Got(attrs'[n], I!Locator) = req'[x].value
  BY <1>5, <1>6
<1>8. L = {} => Got(attrs'[n], I!Locator) = locator'[n] BY <1>6
<1>9. QED BY <1>4, <1>5, <1>7, <1>8 DEF CopyFollows
-----------------------------------------------------------------------------
(* The steps.                                                                *)
Kept == /\ \A n \in I!Node : Counts(n)'
        /\ ~lost' => Sound'
        /\ ~mixed' => \A n \in I!Node : CopyFollows(n)'

LEMMA Parts ==
    ASSUME AttrInv
    PROVE  /\ Shape /\ AttrTyped /\ \A n \in I!Node : Counts(n)
           /\ \A q \in AttrRequest : req[q] \in Requests /\ Sane(req[q])
           /\ ~lost => Sound
           /\ ~mixed => ~lost /\ Sound /\ \A n \in I!Node : CopyFollows(n)
BY DEF AttrInv, Shape, AttrTyped

LEMMA AskKept ==
    ASSUME AttrInv, I!ConstantsMakeSense, NEW q \in AttrRequest, Asks(q)
    PROVE  Kept
<1>1. PICK n \in I!Node, m \in AttrName, v \in AttrValue \cup {I!Nothing}, c \in BOOLEAN :
          \E r : Made(q, n, m, v, c, r)
  BY DEF Asks
<1>2. PICK r : Made(q, n, m, v, c, r) BY <1>1
<1>3. I!Ask(q, r) /\ (r = I!Getting(n, m) \/ (r = I!Setting(n, m, v, c) /\ (c => m = I!Locator)))
  BY <1>2 DEF Made
<1>4. AttrTyped BY Parts
<1>5. Asked(q, n, m, v, c, r) BY <1>3, <1>4, AskEffect, Zenon
<1>6. /\ Others(q) /\ req[q].phase = "idle" /\ req'[q].phase = "asked" /\ Leaves /\ req'[q] = r
      /\ r.node = n /\ r.name = m
      /\ (r = I!Getting(n, m) /\ r.op = "get")
         \/ (r = I!Setting(n, m, v, c) /\ r.op = "set" /\ r.value = v /\ r.copy = c)
  BY <1>3, <1>5 DEF Asked, Effect
<1>7. count' = count /\ lost' = lost /\ attrs' = attrs /\ locator' = locator
  BY <1>3 DEF I!Ask
<1>8. /\ "idle" \notin I!Reading /\ "idle" \notin I!Writing /\ "idle" \notin Settling
      /\ "asked" \notin I!Reading /\ "asked" \notin I!Writing /\ "asked" \notin Settling
  BY DEF I!Reading, I!Writing, Settling
<1>9. \A k \in I!Node : Counts(k)' BY <1>6, <1>7, <1>8, CountsSame, Parts
<1>10. ASSUME ~lost' PROVE Sound'
  <2>1. Sound BY <1>7, <1>10, Parts
  <2>2. QED BY <1>6, <1>8, <2>1, Sounds
<1>11. ASSUME ~mixed', NEW k \in I!Node PROVE CopyFollows(k)'
  <2>1. ~mixed BY <1>2, <1>11 DEF Made
  <2>2. CopyFollows(k) BY <2>1, Parts
  <2>3. ~InSets(q, k) BY <1>6 DEF InSets
  <2>4. CASE ~InSets(q, k)' BY <1>6, <1>7, <2>2, <2>3, <2>4, Follows
  <2>5. CASE InSets(q, k)'
    <3>1. r.op = "set" /\ k = n /\ I!IsLocator(m) BY <1>6, <2>5 DEF InSets
    <3>2. r = I!Setting(n, m, v, c) /\ r.copy = c BY <1>6, <3>1
    <3>3. c /\ LocatorSets(n) = {} BY <1>2, <1>11, <3>1, <3>2 DEF Made
    <3>4. QED BY <1>6, <2>5, <3>1, <3>2, <3>3, FollowsOne
  <2>6. QED BY <2>4, <2>5
<1>12. QED BY <1>9, <1>10, <1>11 DEF Kept

LEMMA LocatorIs == I!Fold(I!Locator) = I!Locator /\ I!IsLocator(I!Locator)
<1>1. PICK r \in [prefix : {""}, base : {"physical_locator"}, upper : {FALSE}] : r = I!Locator
  BY DEF I!Locator
<1>2. [r EXCEPT !.upper = FALSE] = r OBVIOUS
<1>3. I!Fold(I!Locator) = I!Locator BY <1>1, <1>2 DEF I!Fold
<1>4. QED BY <1>3 DEF I!IsLocator

LEMMA CopyKept ==
    ASSUME AttrInv, I!ConstantsMakeSense, NEW q \in AttrRequest, I!CopyLocator(q)
    PROVE  Kept
<1>1. AttrTyped /\ req[q] \in Requests /\ Sane(req[q]) BY Parts
<1>2. /\ Others(q) /\ Same(q) /\ req'[q].phase = req[q].phase /\ req'[q].value = req[q].value
      /\ req'[q].copy = FALSE
  BY <1>1, CopyEffect
<1>3. PICK m \in I!Node : m = req[q].node BY <1>1 DEF Requests
<1>4. /\ req[q].copy /\ req[q].phase # "asked"
      /\ locator' = [locator EXCEPT ![m] = req[q].value]
      /\ UNCHANGED <<attrs, count, truth, mixed, lost>>
  BY <1>3 DEF I!CopyLocator
<1>5. req[q].op = "set" /\ req[q].name = I!Locator /\ req[q].phase # "idle"
  BY <1>1, <1>4 DEF Sane
<1>6. req[q].phase \notin I!Reading BY <1>1, <1>5 DEF Sane
<1>7. \A k \in I!Node : Counts(k)'
  BY <1>2, <1>4, CountsSame, Parts DEF Same
<1>8. ASSUME ~lost' PROVE Sound'
  <2>1. Sound BY <1>4, <1>8, Parts
  <2>2. I!AnswersAreTrue'
    BY <1>2, <1>4, <1>6, <2>1, Answers DEF Sound, I!Reading
  <2>3. ASSUME NEW n \in I!Node PROVE ListSound(n)'
    <3>1. ListSound(n) BY <2>1 DEF Sound
    <3>2. PICK A : A = I!At({"freed"}, n) OBVIOUS
    <3>3. PICK B : B = I!At({"written"}, n) OBVIOUS
    <3>4. PICK C : C = I!At({"freed", "written"}, n) OBVIOUS
    <3>5. /\ I!At({"freed"}, n)' = A /\ I!At({"written"}, n)' = B
          /\ I!At({"freed", "written"}, n)' = C
      BY <1>2, <3>2, <3>3, <3>4, AtSame DEF Same
    <3>6. A \subseteq AttrRequest /\ B \subseteq AttrRequest /\ C \subseteq AttrRequest
      BY <3>2, <3>3, <3>4 DEF I!At
    <3>7. \A p \in AttrRequest : req'[p].name = req[p].name /\ req'[p].value = req[p].value
      BY <1>2 DEF Others, Same
    <3>8. ValuesAreThere(n)'
      BY <1>4, <3>1, <3>2, <3>5, <3>6, <3>7 DEF ListSound, ValuesAreThere
    <3>9. ListIsTrue(n)'
      BY <1>4, <3>1, <3>3, <3>4, <3>5, <3>6, <3>7 DEF ListSound, ListIsTrue
    <3>10. QED BY <3>8, <3>9 DEF ListSound
  <2>4. QED BY <2>2, <2>3 DEF Sound
<1>9. ASSUME ~mixed', NEW k \in I!Node PROVE CopyFollows(k)'
  <2>1. CopyFollows(k) BY <1>4, <1>9, Parts
  <2>2. InSets(q, k)' <=> InSets(q, k) BY <1>2 DEF InSets, Same
  <2>3. I!IsLocator(req[q].name)
    BY <1>5, LocatorIs
  <2>4. CASE k = m
    <3>1. InSets(q, k) BY <1>3, <1>5, <2>3, <2>4 DEF InSets
    <3>2. LocatorSets(k) = {q} BY <2>1, <3>1, SetsAre DEF CopyFollows
    <3>3. req'[q].phase = "answered" => Got(attrs'[k], I!Locator) = req'[q].value
      BY <1>2, <1>4, <2>1, <3>2 DEF CopyFollows
    <3>4. locator'[k] = req'[q].value /\ req'[q].phase # "asked"
      BY <1>1, <1>2, <1>4, <2>4 DEF AttrTyped
    <3>5. QED BY <1>2, <2>2, <3>1, <3>2, <3>3, <3>4, FollowsOne
  <2>5. CASE k # m
    <3>1. ~InSets(q, k) BY <1>3, <2>5 DEF InSets
    <3>2. locator'[k] = locator[k] BY <1>1, <1>4, <2>5 DEF AttrTyped
    <3>3. QED BY <1>2, <1>4, <2>1, <2>2, <3>1, <3>2, Follows
  <2>6. QED BY <2>4, <2>5
<1>10. QED BY <1>7, <1>8, <1>9 DEF Kept

\* A request to read sets no locator.
LEMMA GetterFollows ==
    ASSUME AttrInv, NEW q \in AttrRequest, Others(q), req[q].op = "get",
           req'[q].op = "get" \/ req'[q].phase = "idle",
           attrs' = attrs, locator' = locator, mixed' = mixed
    PROVE  ~mixed' => \A n \in I!Node : CopyFollows(n)'
<1>1. SUFFICES ASSUME ~mixed, NEW n \in I!Node PROVE CopyFollows(n)' OBVIOUS
<1>2. CopyFollows(n) BY <1>1, Parts
<1>3. ~InSets(q, n) /\ ~InSets(q, n)' BY DEF InSets
<1>4. QED BY <1>2, <1>3, Follows

LEMMA GetKept ==
    ASSUME AttrInv, I!ConstantsMakeSense, NEW q \in AttrRequest, I!GetFile(q) \/ I!Leave(q)
    PROVE  Kept
<1>1. AttrTyped /\ Shape /\ Sane(req[q]) /\ \A n \in I!Node : Counts(n) BY Parts
<1>2. req' = [req EXCEPT ![q] = I!Idle] BY DEF I!GetFile, I!Leave
<1>3. Others(q) /\ req'[q].phase = "idle" BY <1>1, <1>2, IdleEffect
<1>4. UNCHANGED <<attrs, locator, truth, mixed, lost>> BY DEF I!GetFile, I!Leave
<1>5. req[q].op = "get" /\ req[q].phase \in {"asked", "read"}
  BY <1>1 DEF I!GetFile, I!Leave, Sane, I!Reading
<1>6. \A n \in I!Node : Counts(n)'
  <2>1. CASE I!GetFile(q)
    <3>1. /\ req[q].phase \notin I!Reading /\ req[q].phase \notin I!Writing
          /\ req'[q].phase \notin I!Reading /\ req'[q].phase \notin I!Writing /\ count' = count
      BY <1>3, <2>1 DEF I!GetFile, I!Reading, I!Writing
    <3>2. QED BY <1>1, <1>3, <3>1, CountsSame
  <2>2. CASE I!Leave(q) BY <1>1, <2>2, LeaveCounts
  <2>3. QED BY <2>1, <2>2
<1>7. ~lost' => Sound'
  <2>1. req[q].phase \notin Settling /\ req'[q].phase \notin Settling
    BY <1>3, <1>5 DEF Settling
  <2>2. QED BY <1>3, <1>4, <2>1, Sounds, Parts DEF Leaves
<1>8. ~mixed' => \A n \in I!Node : CopyFollows(n)' BY <1>3, <1>4, <1>5, GetterFollows
<1>9. QED BY <1>6, <1>7, <1>8 DEF Kept

LEMMA JoinKept ==
    ASSUME AttrInv, I!ConstantsMakeSense, NEW q \in AttrRequest, I!Join(q)
    PROVE  Kept
<1>1. AttrTyped /\ Shape /\ \A n \in I!Node : Counts(n) BY Parts
<1>2. /\ req[q].phase = "asked" /\ req[q].op = "get" /\ I!To(q, "reading")
      /\ UNCHANGED <<attrs, locator, truth, mixed, lost>>
  BY DEF I!Join
<1>3. "reading" \in Phases BY DEF Phases
<1>4. Others(q) /\ Same(q) /\ req'[q].phase = "reading" BY <1>1, <1>2, <1>3, Turned
<1>5. \A n \in I!Node : Counts(n)' BY <1>1, JoinCounts
<1>6. ~lost' => Sound'
  <2>1. req[q].phase \notin Settling /\ req'[q].phase \notin Settling
    BY <1>2, <1>4 DEF Settling
  <2>2. QED BY <1>2, <1>4, <2>1, Sounds, Parts DEF Leaves
<1>7. ~mixed' => \A n \in I!Node : CopyFollows(n)'
  BY <1>2, <1>4, GetterFollows DEF Same
<1>8. QED BY <1>5, <1>6, <1>7 DEF Kept

LEMMA ReadKept ==
    ASSUME AttrInv, I!ConstantsMakeSense, NEW q \in AttrRequest, I!Read(q)
    PROVE  Kept
<1>1. AttrTyped /\ req[q] \in Requests /\ Sane(req[q]) /\ \A n \in I!Node : Counts(n)
  BY Parts
<1>2. PICK n \in I!Node : n = req[q].node BY <1>1 DEF Requests
<1>3. PICK m \in AttrName : m = req[q].name BY <1>1 DEF Requests
<1>4. /\ Others(q) /\ Same(q) /\ req'[q].phase = "read"
      /\ req'[q].value = Got(attrs[n], m)
  BY <1>1, <1>2, <1>3, ReadEffect
<1>5. /\ req[q].phase = "reading" /\ UNCHANGED <<attrs, count, locator, truth, mixed, lost>>
  BY DEF I!Read
<1>6. req[q].op = "get" BY <1>1, <1>5 DEF Sane, I!Reading
<1>7. /\ req[q].phase \in I!Reading /\ req'[q].phase \in I!Reading
      /\ req[q].phase \notin I!Writing /\ req'[q].phase \notin I!Writing
      /\ req[q].phase \notin Settling /\ req'[q].phase \notin Settling
  BY <1>4, <1>5 DEF I!Reading, I!Writing, Settling
<1>8. \A k \in I!Node : Counts(k)' BY <1>1, <1>4, <1>5, <1>7, CountsSame DEF Same
<1>9. ASSUME ~lost' PROVE Sound'
  <2>1. Sound BY <1>5, <1>9, Parts
  <2>2. \A k \in I!Node : ListSound(k)' BY <1>4, <1>5, <1>7, <2>1, Lists DEF Sound
  <2>3. q \in I!At(I!Reading, n) BY <1>2, <1>7 DEF I!At
  <2>4. I!At(I!Writing, n) = {} BY <1>1, <2>3, ReadsAlone
  <2>5. I!At({"freed", "written"}, n) = {} BY <2>4 DEF I!At, I!Writing
  <2>6. Got(attrs[n], m) = truth[n][I!Fold(m)]
    BY <2>1, <2>5 DEF Sound, ListSound, ListIsTrue
  <2>7. req'[q].node = n /\ req'[q].name = m BY <1>2, <1>3, <1>4 DEF Same
  <2>8. I!AnswersAreTrue'
    <3>1. SUFFICES ASSUME NEW p \in AttrRequest, req'[p].phase = "read"
                   PROVE  req'[p].value = truth'[req'[p].node][I!Fold(req'[p].name)]
      BY DEF I!AnswersAreTrue
    <3>2. CASE p = q BY <1>4, <1>5, <2>6, <2>7, <3>2
    <3>3. CASE p # q
      BY <1>4, <1>5, <2>1, <3>1, <3>3 DEF Others, Sound, I!AnswersAreTrue
    <3>4. QED BY <3>2, <3>3
  <2>9. QED BY <2>2, <2>8 DEF Sound
<1>10. ~mixed' => \A k \in I!Node : CopyFollows(k)'
  BY <1>4, <1>5, <1>6, GetterFollows DEF Same
<1>11. QED BY <1>8, <1>9, <1>10 DEF Kept

LEMMA EnterKept ==
    ASSUME AttrInv, I!ConstantsMakeSense, NEW q \in AttrRequest, I!Enter(q)
    PROVE  Kept
<1>1. AttrTyped /\ Shape /\ \A n \in I!Node : Counts(n) BY Parts
<1>2. PICK ph \in {"writing", "tried"} : I!To(q, ph) BY DEF I!Enter
<1>3. ph \in Phases BY DEF Phases
<1>4. /\ Others(q) /\ Same(q) /\ req'[q].phase = ph
      /\ req'[q].copy = req[q].copy /\ req'[q].value = req[q].value
  BY <1>1, <1>2, <1>3, Turned
<1>5. /\ req[q].phase \in {"asked", "tried"} /\ req[q].op = "set"
      /\ UNCHANGED <<attrs, locator, truth, mixed, lost>>
  BY DEF I!Enter, I!Trying
<1>6. \A n \in I!Node : Counts(n)' BY <1>1, EnterCounts
<1>7. ~lost' => Sound'
  <2>1. req[q].phase \notin Settling /\ req'[q].phase \notin Settling
    BY <1>4, <1>5 DEF Settling
  <2>2. QED BY <1>4, <1>5, <2>1, Sounds, Parts DEF Leaves
<1>8. ASSUME ~mixed', NEW n \in I!Node PROVE CopyFollows(n)'
  <2>1. CopyFollows(n) BY <1>5, <1>8, Parts
  <2>2. InSets(q, n)' <=> InSets(q, n) BY <1>4, <1>5 DEF InSets, Same
  <2>3. req'[q].phase \notin {"asked", "answered"} BY <1>4
  <2>4. QED BY <1>4, <1>5, <2>1, <2>2, <2>3, Follows
<1>9. QED BY <1>6, <1>7, <1>8 DEF Kept

LEMMA ResumeKept ==
    ASSUME AttrInv, I!ConstantsMakeSense, NEW q \in AttrRequest, I!Resume(q)
    PROVE  Kept
<1>1. AttrTyped /\ \A n \in I!Node : Counts(n) BY Parts
<1>2. /\ req[q].phase = "answered" /\ ~req[q].copy /\ req' = [req EXCEPT ![q] = I!Idle]
      /\ UNCHANGED <<attrs, count, locator, truth, mixed, lost>>
  BY DEF I!Resume
<1>3. Others(q) /\ req'[q].phase = "idle" BY <1>1, <1>2, IdleEffect
<1>4. /\ req[q].phase \notin I!Reading /\ req'[q].phase \notin I!Reading
      /\ req[q].phase \notin I!Writing /\ req'[q].phase \notin I!Writing
      /\ req[q].phase \notin Settling /\ req'[q].phase \notin Settling
  BY <1>2, <1>3 DEF I!Reading, I!Writing, Settling
<1>5. \A n \in I!Node : Counts(n)' BY <1>1, <1>2, <1>3, <1>4, CountsSame
<1>6. ~lost' => Sound' BY <1>2, <1>3, <1>4, Sounds, Parts DEF Leaves
<1>7. ASSUME ~mixed', NEW n \in I!Node PROVE CopyFollows(n)'
  <2>1. CopyFollows(n) BY <1>2, <1>7, Parts
  <2>2. ~InSets(q, n)' BY <1>3 DEF InSets
  <2>3. CASE InSets(q, n)
    <3>1. LocatorSets(n) = {q} BY <2>1, <2>3, SetsAre DEF CopyFollows
    <3>2. Got(attrs[n], I!Locator) = locator[n] BY <1>2, <2>1, <3>1 DEF CopyFollows
    <3>3. QED BY <1>2, <1>3, <2>2, <3>1, <3>2, FollowsOne
  <2>4. CASE ~InSets(q, n) BY <1>2, <1>3, <2>1, <2>2, <2>4, Follows
  <2>5. QED BY <2>3, <2>4
<1>8. QED BY <1>5, <1>6, <1>7 DEF Kept

\* A write under way, its list before and after: what it needs of the others.
LEMMA WriterAlone ==
    ASSUME AttrInv, I!ConstantsMakeSense, NEW q \in AttrRequest, req[q].phase \in I!Writing
    PROVE  \E n \in I!Node, m \in AttrName, v \in Values :
              /\ n = req[q].node /\ m = req[q].name /\ v = req[q].value /\ v # "freed"
              /\ attrs[n] \in Seq(Entries) /\ Once(attrs[n])
              /\ I!At(I!Writing, n) = {q} /\ I!At(I!Reading, n) = {} /\ req[q].op = "set"
              /\ \A P \in {{"freed"}, {"written"}, {"freed", "written"}} :
                    I!At(P, n) = IF req[q].phase \in P THEN {q} ELSE {}
<1>1. AttrTyped /\ Shape /\ req[q] \in Requests /\ Sane(req[q]) /\ \A n \in I!Node : Counts(n)
  BY Parts
<1>2. PICK n \in I!Node, m \in AttrName, v \in Values :
          n = req[q].node /\ m = req[q].name /\ v = req[q].value
  BY <1>1 DEF Requests
<1>3. req[q].op = "set" /\ v # "freed" BY <1>1, <1>2 DEF Sane
<1>4. attrs[n] \in Seq(Entries) /\ Once(attrs[n]) BY <1>1 DEF AttrTyped, Shape
<1>5. q \in I!At(I!Writing, n) BY <1>2 DEF I!At
<1>6. I!At(I!Writing, n) = {q} /\ I!At(I!Reading, n) = {} BY <1>1, <1>5, Alone
<1>7. ASSUME NEW P \in {{"freed"}, {"written"}, {"freed", "written"}}
      PROVE  I!At(P, n) = IF req[q].phase \in P THEN {q} ELSE {}
  <2>1. I!At(P, n) \subseteq I!At(I!Writing, n) BY DEF I!At, I!Writing
  <2>2. I!At(P, n) \subseteq {q} BY <1>6, <2>1
  <2>3. q \in I!At(P, n) <=> req[q].phase \in P BY <1>2 DEF I!At
  <2>4. QED BY <2>2, <2>3
<1>8. QED BY <1>2, <1>3, <1>4, <1>6, <1>7

\* The same of the requests after a step that keeps the writer one.
LEMMA StaysAlone ==
    ASSUME NEW q \in AttrRequest, Others(q), Same(q), NEW n, n = req[q].node,
           I!At(I!Writing, n) = {q}, NEW P, P \subseteq I!Writing
    PROVE  I!At(P, n)' = IF req'[q].phase \in P THEN {q} ELSE {}
<1>1. I!At(P, n) \subseteq {q} BY DEF I!At
<1>2. CASE req'[q].phase \in P
  <2>1. I!At(P, n)' = I!At(P, n) \cup {q} BY <1>2, AtJoined DEF Same
  <2>2. QED BY <1>1, <1>2, <2>1
<1>3. CASE req'[q].phase \notin P
  <2>1. I!At(P, n)' = I!At(P, n) \ {q} BY <1>3, AtLeft
  <2>2. QED BY <1>1, <1>3, <2>1
<1>4. QED BY <1>2, <1>3

\* What both steps of a write have in common: the list it leaves is sound.
LEMMA WriteKept ==
    ASSUME AttrInv, I!ConstantsMakeSense, NEW q \in AttrRequest, req[q].phase \in {"writing", "freed"},
           NEW n \in I!Node, n = req[q].node, NEW to \in {"written", "freed"}, I!To(q, to),
           UNCHANGED <<count, locator, truth, mixed, lost>>,
           \A k \in I!Node : k # n => attrs'[k] = attrs[k],
           ~lost => /\ ListSound(n)'
                    /\ \A k : I!Fold(k) # I!Fold(req[q].name) => Got(attrs'[n], k) = Got(attrs[n], k)
    PROVE  Kept
<1>1. AttrTyped /\ req[q] \in Requests /\ Sane(req[q]) /\ \A k \in I!Node : Counts(k)
  BY Parts
<1>2. to \in Phases BY DEF Phases
<1>3. /\ Others(q) /\ Same(q) /\ req'[q].phase = to
      /\ req'[q].copy = req[q].copy /\ req'[q].value = req[q].value
  BY <1>1, <1>2, Turned
<1>4. /\ req[q].phase \in I!Writing /\ req'[q].phase \in I!Writing
      /\ req[q].phase \notin I!Reading /\ req'[q].phase \notin I!Reading
      /\ req'[q].phase # "read"
  BY <1>3 DEF I!Reading, I!Writing
<1>5. \A k \in I!Node : Counts(k)' BY <1>1, <1>3, <1>4, CountsSame DEF Same
<1>6. ASSUME ~lost' PROVE Sound'
  <2>1. Sound BY <1>6, Parts
  <2>2. I!AnswersAreTrue' BY <1>3, <1>4, <2>1, Answers DEF Sound
  <2>3. ASSUME NEW k \in I!Node, k # n PROVE ListSound(k)'
    <3>1. req[q].node # k /\ req'[q].node # k BY <1>3, <2>3 DEF Same
    <3>2. QED BY <1>3, <2>1, <2>3, <3>1, Lists DEF Sound
  <2>4. ListSound(n)' BY <1>6
  <2>5. QED BY <2>2, <2>3, <2>4 DEF Sound
<1>7. ASSUME ~mixed', NEW k \in I!Node PROVE CopyFollows(k)'
  <2>1. CopyFollows(k) BY <1>7, Parts
  <2>2. InSets(q, k)' <=> InSets(q, k) BY <1>3 DEF InSets, Same
  <2>3. req'[q].phase \notin {"asked", "answered"} BY <1>3
  <2>4. ASSUME ~InSets(q, k) PROVE Got(attrs'[k], I!Locator) = Got(attrs[k], I!Locator)
    <3>1. CASE k # n BY <3>1
    <3>2. CASE k = n
      <4>1. req[q].op = "set" /\ req[q].phase # "idle" BY <1>1, <1>4 DEF Sane, I!Writing
      <4>2. I!Fold(req[q].name) # I!Fold(I!Locator)
        BY <2>4, <3>2, <4>1, LocatorIs DEF InSets, I!IsLocator
      <4>3. ~lost BY <1>7, Parts
      <4>4. QED BY <3>2, <4>2, <4>3
    <3>3. QED BY <3>1, <3>2
  <2>5. QED BY <1>3, <2>1, <2>2, <2>3, <2>4, Follows
<1>8. QED BY <1>5, <1>6, <1>7 DEF Kept

LEMMA SetKept ==
    ASSUME AttrInv, I!ConstantsMakeSense, NEW q \in AttrRequest, I!_udi_inst_attr_set(q)
    PROVE  Kept
<1>1. AttrTyped BY Parts
<1>2. req[q].phase = "writing" /\ UNCHANGED <<count, locator, truth, mixed, lost>>
  BY DEF I!_udi_inst_attr_set
<1>3. req[q].phase \in I!Writing BY <1>2 DEF I!Writing
<1>4. PICK n \in I!Node, m \in AttrName, v \in Values :
              /\ n = req[q].node /\ m = req[q].name /\ v = req[q].value /\ v # "freed"
              /\ attrs[n] \in Seq(Entries) /\ Once(attrs[n])
              /\ I!At(I!Writing, n) = {q} /\ I!At(I!Reading, n) = {} /\ req[q].op = "set"
              /\ \A P \in {{"freed"}, {"written"}, {"freed", "written"}} :
                    I!At(P, n) = IF req[q].phase \in P THEN {q} ELSE {}
  BY <1>3, WriterAlone
<1>5. PICK to \in {"written", "freed"} :
              /\ I!To(q, to) /\ Wrote(attrs[n], attrs'[n], m, v, to)
              /\ \A k \in I!Node : k # n => attrs'[k] = attrs[k]
  BY <1>1, <1>4, SetEffect
<1>6. \A k : I!Fold(k) # I!Fold(m) => Got(attrs'[n], k) = Got(attrs[n], k)
  BY <1>5 DEF Wrote
<1>7. to \in Phases BY DEF Phases
<1>8. Others(q) /\ Same(q) /\ req'[q].phase = to /\ req'[q].value = v /\ req'[q].name = m
  BY <1>1, <1>4, <1>5, <1>7, Turned DEF Same
<1>9. {"freed"} \subseteq I!Writing /\ {"written"} \subseteq I!Writing
      /\ {"freed", "written"} \subseteq I!Writing
  BY DEF I!Writing
<1>10. /\ I!At({"freed"}, n)' = IF to \in {"freed"} THEN {q} ELSE {}
       /\ I!At({"written"}, n)' = IF to \in {"written"} THEN {q} ELSE {}
       /\ I!At({"freed", "written"}, n)' = IF to \in {"freed", "written"} THEN {q} ELSE {}
  BY <1>4, <1>8, <1>9, StaysAlone
<1>11. PICK l : l = attrs[n] OBVIOUS
<1>12. PICK l2 : l2 = attrs'[n] OBVIOUS
<1>13. ASSUME ~lost PROVE ListSound(n)'
  <2>1. ListSound(n) BY <1>13, Parts DEF Sound
  <2>2. \A i \in DOMAIN l : l[i].value # "freed"
    <3>1. I!At({"freed"}, n) = {} BY <1>2, <1>4
    <3>2. QED BY <1>11, <2>1, <3>1 DEF ListSound, ValuesAreThere
  <2>3. \A k \in AttrName : Got(l, k) = truth[n][I!Fold(k)]
    <3>1. I!At({"freed", "written"}, n) = {} BY <1>2, <1>4
    <3>2. QED BY <1>11, <2>1, <3>1 DEF ListSound, ListIsTrue
  <2>4. \A j \in DOMAIN l2 : l2[j].value = "freed" => to = "freed" /\ I!Fold(l2[j].name) = I!Fold(m)
    BY <1>5, <1>11, <1>12, <2>2 DEF Wrote
  <2>5. to = "freed" => \E i \in Find(l2, m) : l2[i].value = "freed"
    BY <1>5, <1>12 DEF Wrote
  <2>6. to = "written" => Got(l2, m) = v BY <1>5, <1>12 DEF Wrote
  <2>7. ValuesAreThere(n)'
    <3>1. ASSUME NEW i \in DOMAIN attrs'[n], attrs'[n][i].value = "freed"
          PROVE  \E p \in I!At({"freed"}, n)' : I!Fold(attrs'[n][i].name) = I!Fold(req'[p].name)
      BY <1>8, <1>10, <1>12, <2>4, <3>1
    <3>2. ASSUME NEW p \in I!At({"freed"}, n)'
          PROVE  \E i \in Find(attrs'[n], req'[p].name) : attrs'[n][i].value = "freed"
      <4>1. p = q /\ to = "freed" BY <1>10, <3>2
      <4>2. QED BY <1>8, <1>12, <2>5, <4>1
    <3>3. QED BY <3>1, <3>2 DEF ValuesAreThere
  <2>8. ListIsTrue(n)'
    <3>1. ASSUME NEW k \in AttrName,
                 \A p \in I!At({"freed", "written"}, n)' : I!Fold(req'[p].name) # I!Fold(k)
          PROVE  Got(attrs'[n], k) = truth'[n][I!Fold(k)]
      <4>1. I!Fold(k) # I!Fold(m) BY <1>8, <1>10, <3>1
      <4>2. QED BY <1>2, <1>6, <1>11, <2>3, <4>1
    <3>2. ASSUME NEW p \in I!At({"written"}, n)'
          PROVE  Got(attrs'[n], req'[p].name) = req'[p].value
      <4>1. p = q /\ to = "written" BY <1>10, <3>2
      <4>2. QED BY <1>8, <1>12, <2>6, <4>1
    <3>3. QED BY <3>1, <3>2 DEF ListIsTrue
  <2>9. QED BY <2>7, <2>8 DEF ListSound
<1>14. req[q].phase \in {"writing", "freed"} BY <1>2
<1>15. QED BY <1>2, <1>4, <1>5, <1>6, <1>13, <1>14, WriteKept

LEMMA RefillKept ==
    ASSUME AttrInv, I!ConstantsMakeSense, NEW q \in AttrRequest, I!Refill(q)
    PROVE  Kept
<1>1. AttrTyped BY Parts
<1>2. /\ req[q].phase = "freed" /\ I!To(q, "written")
      /\ UNCHANGED <<count, locator, truth, mixed, lost>>
  BY DEF I!Refill
<1>3. req[q].phase \in I!Writing BY <1>2 DEF I!Writing
<1>4. PICK n \in I!Node, m \in AttrName, v \in Values :
              /\ n = req[q].node /\ m = req[q].name /\ v = req[q].value /\ v # "freed"
              /\ attrs[n] \in Seq(Entries) /\ Once(attrs[n])
              /\ I!At(I!Writing, n) = {q} /\ I!At(I!Reading, n) = {} /\ req[q].op = "set"
              /\ \A P \in {{"freed"}, {"written"}, {"freed", "written"}} :
                    I!At(P, n) = IF req[q].phase \in P THEN {q} ELSE {}
  BY <1>3, WriterAlone
<1>5. /\ attrs'[n] = Filled(attrs[n], v)
      /\ \A k \in I!Node : k # n => attrs'[k] = attrs[k]
  BY <1>1, <1>4, RefillEffect
<1>6. "written" \in Phases BY DEF Phases
<1>7. Others(q) /\ Same(q) /\ req'[q].phase = "written" /\ req'[q].value = v /\ req'[q].name = m
  BY <1>1, <1>2, <1>4, <1>6, Turned DEF Same
<1>8. {"freed"} \subseteq I!Writing /\ {"written"} \subseteq I!Writing
      /\ {"freed", "written"} \subseteq I!Writing
  BY DEF I!Writing
<1>9. /\ I!At({"freed"}, n)' = {} /\ I!At({"written"}, n)' = {q}
      /\ I!At({"freed", "written"}, n)' = {q}
  BY <1>4, <1>7, <1>8, StaysAlone
<1>10. CASE lost
  <2>1. n = req[q].node /\ "written" \in {"written", "freed"} BY <1>4
  <2>2. QED BY <1>2, <1>5, <1>10, <2>1, WriteKept
<1> SUFFICES ASSUME ~lost PROVE Kept BY <1>10
<1>11. ListSound(n) BY Parts DEF Sound
<1>12. I!At({"freed"}, n) = {q} /\ I!At({"freed", "written"}, n) = {q} BY <1>2, <1>4
<1>13. PICK l \in Seq(Entries) : l = attrs[n] /\ Once(l) BY <1>4
<1>14. PICK l2 : l2 = attrs'[n] OBVIOUS
<1>15. PICK at \in Find(l, m) : l[at].value = "freed"
  BY <1>4, <1>11, <1>12, <1>13 DEF ListSound, ValuesAreThere
<1>16. at \in DOMAIN l /\ I!Fold(l[at].name) = I!Fold(m) BY <1>15 DEF Find
<1>17. \A i \in DOMAIN l : l[i].value = "freed" => I!Fold(l[i].name) = I!Fold(m)
  BY <1>4, <1>11, <1>12, <1>13 DEF ListSound, ValuesAreThere
<1>18. \A i \in DOMAIN l : l[i].value = "freed" <=> i = at
  BY <1>13, <1>15, <1>16, <1>17 DEF Once
<1>19. l2 = Revalued(l, at, v) BY <1>5, <1>13, <1>14, <1>16, <1>18, FilledList
<1>20. /\ DOMAIN l2 = DOMAIN l /\ Got(l2, m) = v
       /\ \A k : I!Fold(k) # I!Fold(m) => Got(l2, k) = Got(l, k)
       /\ \A j \in DOMAIN l : l2[j].value = IF j = at THEN v ELSE l[j].value
  BY <1>13, <1>15, <1>19, ChangedList
<1>21. \A j \in DOMAIN l2 : l2[j].value # "freed" BY <1>4, <1>18, <1>20
<1>22. ValuesAreThere(n)' BY <1>9, <1>14, <1>21 DEF ValuesAreThere
<1>23. ListIsTrue(n)'
  <2>1. ASSUME NEW k \in AttrName,
               \A p \in I!At({"freed", "written"}, n)' : I!Fold(req'[p].name) # I!Fold(k)
        PROVE  Got(attrs'[n], k) = truth'[n][I!Fold(k)]
    <3>1. I!Fold(k) # I!Fold(m) BY <1>7, <1>9, <2>1
    <3>2. Got(l, k) = truth[n][I!Fold(k)]
      BY <1>4, <1>11, <1>12, <1>13, <3>1 DEF ListSound, ListIsTrue
    <3>3. QED BY <1>2, <1>14, <1>20, <3>1, <3>2
  <2>2. ASSUME NEW p \in I!At({"written"}, n)'
        PROVE  Got(attrs'[n], req'[p].name) = req'[p].value
    BY <1>7, <1>9, <1>14, <1>20, <2>2
  <2>3. QED BY <2>1, <2>2 DEF ListIsTrue
<1>24. ListSound(n)' BY <1>22, <1>23 DEF ListSound
<1>25. \A k : I!Fold(k) # I!Fold(m) => Got(attrs'[n], k) = Got(attrs[n], k)
  BY <1>13, <1>14, <1>20
<1>26. "written" \in {"written", "freed"} /\ req[q].phase \in {"writing", "freed"} BY <1>2
<1>27. QED BY <1>2, <1>4, <1>5, <1>24, <1>25, <1>26, WriteKept

LEMMA DoneKept ==
    ASSUME AttrInv, I!ConstantsMakeSense, NEW q \in AttrRequest, I!Done(q)
    PROVE  Kept
<1>1. AttrTyped /\ Shape /\ \A k \in I!Node : Counts(k) BY Parts
<1>2. req[q].phase = "written" /\ UNCHANGED <<attrs, locator, mixed, lost>> BY DEF I!Done
<1>3. req[q].phase \in I!Writing BY <1>2 DEF I!Writing
<1>4. PICK n \in I!Node, m \in AttrName, v \in Values :
              /\ n = req[q].node /\ m = req[q].name /\ v = req[q].value /\ v # "freed"
              /\ attrs[n] \in Seq(Entries) /\ Once(attrs[n])
              /\ I!At(I!Writing, n) = {q} /\ I!At(I!Reading, n) = {} /\ req[q].op = "set"
              /\ \A P \in {{"freed"}, {"written"}, {"freed", "written"}} :
                    I!At(P, n) = IF req[q].phase \in P THEN {q} ELSE {}
  BY <1>3, WriterAlone
<1>5. /\ Others(q)
      /\ \/ req[q].copy /\ req'[q].phase = "answered" /\ Same(q)
            /\ req'[q].value = req[q].value /\ req'[q].copy
         \/ ~req[q].copy /\ req'[q].phase = "idle"
      /\ truth'[n][I!Fold(m)] = v
      /\ \A k \in I!Node, f \in Folded : ~ (k = n /\ f = I!Fold(m)) => truth'[k][f] = truth[k][f]
  BY <1>1, <1>4, DoneEffect
<1>6. truth \in [I!Node -> [Folded -> Values]] /\ truth' \in [I!Node -> [Folded -> Values]]
  BY <1>1, DoneEffect DEF AttrTyped
<1>7. \A k \in I!Node : k # n => truth'[k] = truth[k]
  <2>1. SUFFICES ASSUME NEW k \in I!Node, k # n PROVE truth'[k] = truth[k] OBVIOUS
  <2>2. PICK s \in [Folded -> Values], s2 \in [Folded -> Values] : s = truth[k] /\ s2 = truth'[k]
    BY <1>6
  <2>3. \A f \in Folded : s2[f] = s[f] BY <1>5, <2>1, <2>2
  <2>4. s = s2 BY <2>3
  <2>5. QED BY <2>2, <2>4
<1>8. \A k \in I!Node : Counts(k)' BY <1>1, DoneCounts
<1>9. /\ I!At({"freed"}, n) = {} /\ I!At({"written"}, n) = {q}
      /\ I!At({"freed", "written"}, n) = {q}
  BY <1>2, <1>4
<1>10. req'[q].phase \in {"answered", "idle"} BY <1>5
<1>11. /\ I!At({"freed"}, n)' = {} /\ I!At({"written"}, n)' = {}
       /\ I!At({"freed", "written"}, n)' = {}
  BY <1>5, <1>9, <1>10, AtLeft
<1>12. ASSUME ~lost
       PROVE  /\ \A k \in AttrName : Got(attrs[n], k) = truth'[n][I!Fold(k)]
              /\ Got(attrs[n], m) = v
              /\ \A i \in DOMAIN attrs[n] : attrs[n][i].value # "freed"
  <2>1. ListSound(n) BY <1>12, Parts DEF Sound
  <2>2. Got(attrs[n], m) = v BY <1>4, <1>9, <2>1 DEF ListSound, ListIsTrue
  <2>3. ASSUME NEW k \in AttrName PROVE Got(attrs[n], k) = truth'[n][I!Fold(k)]
    <3>1. CASE I!Fold(k) = I!Fold(m)
      <4>1. Got(attrs[n], k) = Got(attrs[n], m) BY <3>1, GotAlike
      <4>2. QED BY <1>5, <2>2, <3>1, <4>1
    <3>2. CASE I!Fold(k) # I!Fold(m)
      <4>1. Got(attrs[n], k) = truth[n][I!Fold(k)]
        BY <1>4, <1>9, <2>1, <3>2 DEF ListSound, ListIsTrue
      <4>2. I!Fold(k) \in Folded BY DEF Folded
      <4>3. QED BY <1>5, <3>2, <4>1, <4>2
    <3>3. QED BY <3>1, <3>2
  <2>4. \A i \in DOMAIN attrs[n] : attrs[n][i].value # "freed"
    BY <1>9, <2>1 DEF ListSound, ValuesAreThere
  <2>5. QED BY <2>2, <2>3, <2>4
<1>13. ASSUME ~lost' PROVE Sound'
  <2>1. ~lost /\ Sound BY <1>2, <1>13, Parts
  <2>2. ASSUME NEW k \in I!Node PROVE ListSound(k)'
    <3>1. CASE k = n
      <4>1. ValuesAreThere(n)' BY <1>2, <1>11, <1>12, <2>1 DEF ValuesAreThere
      <4>2. ListIsTrue(n)' BY <1>2, <1>11, <1>12, <2>1 DEF ListIsTrue
      <4>3. QED BY <3>1, <4>1, <4>2 DEF ListSound
    <3>2. CASE k # n
      <4>1. req[q].node # k BY <1>4, <3>2
      <4>2. req'[q].phase \notin Settling BY <1>10 DEF Settling
      <4>3. ListSound(k) BY <2>1 DEF Sound
      <4>4. QED BY <1>2, <1>5, <1>7, <3>2, <4>1, <4>2, <4>3, Lists
    <3>3. QED BY <3>1, <3>2
  <2>3. I!AnswersAreTrue'
    <3>1. SUFFICES ASSUME NEW p \in AttrRequest, req'[p].phase = "read"
                   PROVE  req'[p].value = truth'[req'[p].node][I!Fold(req'[p].name)]
      BY DEF I!AnswersAreTrue
    <3>2. p # q /\ req'[p] = req[p] BY <1>5, <1>10, <3>1 DEF Others
    <3>3. req[p].node # n
      <4>1. I!At(I!Reading, n) = {} BY <1>4
      <4>2. QED BY <3>1, <3>2, <4>1 DEF I!At, I!Reading
    <3>4. req[p].node \in I!Node BY <1>1 DEF AttrTyped, Requests
    <3>5. truth'[req[p].node] = truth[req[p].node] BY <1>7, <3>3, <3>4
    <3>6. req[p].value = truth[req[p].node][I!Fold(req[p].name)]
      BY <2>1, <3>1, <3>2 DEF Sound, I!AnswersAreTrue
    <3>7. QED BY <3>2, <3>5, <3>6
  <2>4. QED BY <2>2, <2>3 DEF Sound
<1>14. ASSUME ~mixed', NEW k \in I!Node PROVE CopyFollows(k)'
  <2>1. ~lost /\ CopyFollows(k) BY <1>2, <1>14, Parts
  <2>2. CASE InSets(q, k)
    <3>1. k = n /\ I!Fold(m) = I!Fold(I!Locator)
      BY <1>4, <2>2, LocatorIs DEF InSets, I!IsLocator
    <3>2. Got(attrs[n], I!Locator) = v BY <1>12, <2>1, <3>1, GotAlike
    <3>3. LocatorSets(k) = {q} BY <2>1, <2>2, SetsAre DEF CopyFollows
    <3>4. ~req[q].copy => locator[n] = v BY <1>4, <2>1, <3>1, <3>3 DEF CopyFollows
    <3>5. CASE req[q].copy
      <4>1. req'[q].copy /\ req'[q].phase = "answered" /\ Same(q) /\ req'[q].value = v
        BY <1>4, <1>5, <3>5
      <4>2. InSets(q, k)' BY <2>2, <4>1 DEF InSets, Same
      <4>3. QED BY <1>2, <1>5, <3>1, <3>2, <3>3, <4>1, <4>2, FollowsOne
    <3>6. CASE ~req[q].copy
      <4>1. ~InSets(q, k)' BY <1>5, <3>6 DEF InSets
      <4>2. Got(attrs'[k], I!Locator) = locator'[k] BY <1>2, <3>1, <3>2, <3>4, <3>6
      <4>3. QED BY <1>5, <3>3, <4>1, <4>2, FollowsOne
    <3>7. QED BY <3>5, <3>6
  <2>3. CASE ~InSets(q, k)
    <3>1. ~InSets(q, k)' BY <1>2, <1>5, <2>3 DEF InSets, Same
    <3>2. QED BY <1>2, <1>5, <2>1, <2>3, <3>1, Follows
  <2>4. QED BY <2>2, <2>3
<1>15. QED BY <1>8, <1>13, <1>14 DEF Kept

LEMMA ReleaseKept ==
    ASSUME AttrInv, I!ConstantsMakeSense, NEW n \in I!Node, I!_udi_instance_attr_release(n)
    PROVE  Kept
<1>1. AttrTyped /\ \A k \in I!Node : Counts(k) BY Parts
<1>2. /\ attrs' = [attrs EXCEPT ![n] = <<>>]
      /\ truth' = [truth EXCEPT ![n] = [m \in DOMAIN truth[n] |-> I!Nothing]]
      /\ lost' = (lost \/ I!Pending("get", n) \cup I!Pending("set", n) # {})
      /\ mixed' = TRUE /\ req' = req /\ count' = count /\ locator' = locator
  BY DEF I!_udi_instance_attr_release
<1>3. \A P, k : I!At(P, k)' = I!At(P, k) BY <1>2 DEF I!At
<1>4. \A k \in I!Node : Counts(k)' BY <1>1, <1>2, <1>3 DEF Counts
<1>5. ASSUME ~lost' PROVE Sound'
  <2>1. ~lost /\ I!Pending("get", n) = {} /\ I!Pending("set", n) = {} BY <1>2, <1>5
  <2>2. Sound BY <2>1, Parts
  <2>3. \A q \in AttrRequest : req[q].phase # "idle" => req[q].node # n
    <3>1. \A q \in AttrRequest : req[q].op \in {"get", "set"}
      BY <1>1 DEF AttrTyped, Requests
    <3>2. QED BY <2>1, <3>1 DEF I!Pending
  <2>4. /\ I!At({"freed"}, n) = {} /\ I!At({"written"}, n) = {}
        /\ I!At({"freed", "written"}, n) = {}
    BY <2>3 DEF I!At
  <2>5. attrs'[n] = <<>> /\ \A k \in I!Node : k # n => attrs'[k] = attrs[k]
    BY <1>1, <1>2 DEF AttrTyped
  <2>6. truth'[n] = [m \in Folded |-> I!Nothing] /\ \A k \in I!Node : k # n => truth'[k] = truth[k]
    BY <1>1, <1>2 DEF AttrTyped
  <2>7. DOMAIN attrs'[n] = {} BY <2>5
  <2>8. ASSUME NEW k \in I!Node PROVE ListSound(k)'
    <3>1. CASE k = n
      <4>1. \A m : Got(attrs'[n], m) = I!Nothing
        <5>1. \A m : Find(attrs'[n], m) = {} BY <2>7 DEF Find
        <5>2. QED BY <5>1, GotNothing
      <4>2. \A m \in AttrName : truth'[n][I!Fold(m)] = I!Nothing BY <2>6 DEF Folded
      <4>3. ValuesAreThere(n)' BY <1>3, <2>4, <2>7 DEF ValuesAreThere
      <4>4. ListIsTrue(n)' BY <1>3, <2>4, <4>1, <4>2 DEF ListIsTrue
      <4>5. QED BY <3>1, <4>3, <4>4 DEF ListSound
    <3>2. CASE k # n
      <4>1. ListSound(k) BY <2>2 DEF Sound
      <4>2. ValuesAreThere(k)'
        BY <1>2, <1>3, <2>5, <3>2, <4>1 DEF ListSound, ValuesAreThere
      <4>3. ListIsTrue(k)' BY <1>2, <1>3, <2>5, <2>6, <3>2, <4>1 DEF ListSound, ListIsTrue
      <4>4. QED BY <4>2, <4>3 DEF ListSound
    <3>3. QED BY <3>1, <3>2
  <2>9. I!AnswersAreTrue'
    <3>1. SUFFICES ASSUME NEW p \in AttrRequest, req[p].phase = "read"
                   PROVE  req[p].value = truth'[req[p].node][I!Fold(req[p].name)]
      BY <1>2 DEF I!AnswersAreTrue
    <3>2. req[p].node # n /\ req[p].node \in I!Node
      BY <1>1, <2>3, <3>1 DEF AttrTyped, Requests
    <3>3. QED BY <2>2, <2>6, <3>1, <3>2 DEF Sound, I!AnswersAreTrue
  <2>10. QED BY <2>8, <2>9 DEF Sound
<1>6. QED BY <1>2, <1>4, <1>5 DEF Kept

LEMMA AttrInit == ASSUME I!ConstantsMakeSense, I!Init PROVE AttrInv
<1>1. /\ attrs = [n \in I!Node |-> <<>>] /\ count = [n \in I!Node |-> 0]
      /\ locator = [n \in I!Node |-> I!Nothing] /\ req = [q \in AttrRequest |-> I!Idle]
      /\ truth = [n \in I!Node |-> [m \in Folded |-> I!Nothing]]
      /\ mixed = FALSE /\ lost = FALSE
  BY DEF I!Init, Folded
<1>2. I!Idle \in Requests /\ Sane(I!Idle) BY Idles
<1>3. I!Nothing \in Values /\ <<>> \in Seq(Entries) BY DEF Values
<1>4. AttrTyped
  <2>1. [m \in Folded |-> I!Nothing] \in [Folded -> Values] BY <1>3
  <2>2. PICK t \in [Folded -> Values] : t = [m \in Folded |-> I!Nothing] BY <2>1
  <2>3. truth \in [I!Node -> [Folded -> Values]] BY <1>1, <2>2
  <2>4. /\ attrs \in [I!Node -> Seq(Entries)] /\ count \in [I!Node -> Int]
        /\ locator \in [I!Node -> Values] /\ req \in [AttrRequest -> Requests]
    BY <1>1, <1>2, <1>3
  <2>5. QED BY <1>1, <2>3, <2>4 DEF AttrTyped
<1>5. I!Idle.phase = "idle" BY DEF I!Idle
<1>6. \A q \in AttrRequest : req[q].phase = "idle" BY <1>1, <1>5
<1>7. /\ "idle" \notin I!Reading /\ "idle" \notin I!Writing BY DEF I!Reading, I!Writing
<1>8. \A n : /\ I!At({"freed"}, n) = {} /\ I!At({"written"}, n) = {}
             /\ I!At({"freed", "written"}, n) = {} /\ I!At(I!Reading, n) = {} /\ I!At(I!Writing, n) = {}
  BY <1>6, <1>7 DEF I!At
<1>9. \A n \in I!Node : DOMAIN attrs[n] = {} /\ attrs[n] = <<>> BY <1>1
<1>10. \A n \in I!Node : Once(attrs[n]) BY <1>9 DEF Once
<1>11. \A n \in I!Node : Counts(n)
  <2>1. SUFFICES ASSUME NEW n \in I!Node PROVE Counts(n) OBVIOUS
  <2>2. Cardinality(I!At(I!Reading, n)) = 0 BY <1>8, FS_EmptySet
  <2>3. count[n] = 0 BY <1>1
  <2>4. QED BY <1>8, <2>2, <2>3 DEF Counts
<1>12. \A n \in I!Node : \A m : Got(attrs[n], m) = I!Nothing
  <2>1. \A n \in I!Node : \A m : Find(attrs[n], m) = {} BY <1>9 DEF Find
  <2>2. QED BY <2>1, GotNothing
<1>13. \A n \in I!Node : \A m \in AttrName : truth[n][I!Fold(m)] = I!Nothing
  BY <1>1 DEF Folded
<1>14. \A n \in I!Node : ListSound(n)
  BY <1>8, <1>9, <1>12, <1>13 DEF ListSound, ValuesAreThere, ListIsTrue
<1>15. I!AnswersAreTrue BY <1>6 DEF I!AnswersAreTrue
<1>16. \A n \in I!Node : LocatorSets(n) = {} BY <1>6 DEF LocatorSets, I!Pending
<1>17. \A n \in I!Node : CopyFollows(n) BY <1>1, <1>12, <1>16 DEF CopyFollows
<1>18. \A q \in AttrRequest : Sane(req[q]) BY <1>1, <1>2
<1>19. QED BY <1>4, <1>10, <1>11, <1>14, <1>15, <1>17, <1>18 DEF AttrInv, Sound

LEMMA AttrStep == ASSUME AttrInv, I!ConstantsMakeSense, [I!Next]_(I!vars) PROVE AttrInv'
<1>1. CASE I!Next
  <2>1. Shape' BY <1>1, ShapeKept, Parts
  <2>2. Kept
    BY <1>1, Parts, Asking, AskKept, CopyKept, GetKept, JoinKept, ReadKept, EnterKept,
       SetKept,
       RefillKept, DoneKept, ResumeKept, ReleaseKept, Zenon DEF I!Next, I!Step
  <2>3. QED BY <2>1, <2>2 DEF Kept, Shape, AttrInv
<1>2. CASE UNCHANGED I!vars
  <2>1. /\ attrs' = attrs /\ count' = count /\ locator' = locator /\ req' = req
        /\ truth' = truth /\ mixed' = mixed /\ lost' = lost
    BY <1>2 DEF I!vars
  <2>2. \A P, n : I!At(P, n)' = I!At(P, n) BY <2>1 DEF I!At
  <2>3. \A n : LocatorSets(n)' = LocatorSets(n) BY <2>1 DEF LocatorSets, I!Pending
  <2>4. AttrTyped' BY <2>1 DEF AttrInv, AttrTyped
  <2>5. \A n \in I!Node : Counts(n)' BY <2>1, <2>2 DEF AttrInv, Counts
  <2>6. ~lost' => Sound'
    BY <2>1, <2>2
    DEF AttrInv, Sound, ListSound, ValuesAreThere, ListIsTrue, I!AnswersAreTrue
  <2>7. ~mixed' => \A n \in I!Node : CopyFollows(n)' BY <2>1, <2>3 DEF AttrInv, CopyFollows
  <2>8. QED BY <2>1, <2>4, <2>5, <2>6, <2>7 DEF AttrInv
<1>3. QED BY <1>1, <1>2

LEMMA AttrImplies == ASSUME AttrInv PROVE I!AttributesAreSound
<1>1. AttrTyped /\ \A n \in I!Node : Counts(n) BY Parts
<1>2. \A n, m : I!Held(n, m) = Got(attrs[n], m)
  BY DEF I!Held, Got, I!_udi_node_attr_find_name, Find
<1>3. I!CountIsExact BY <1>1, CardinalityIs DEF I!CountIsExact, Counts
<1>4. I!ListedOnce BY DEF AttrInv, I!ListedOnce, Once
<1>5. I!LocatorIsCopied
  <2>1. SUFFICES ASSUME NEW n \in I!Node, ~mixed,
                        \A q \in I!Pending("set", n) : ~I!IsLocator(req[q].name)
                 PROVE  I!Held(n, I!Locator) = locator[n]
    BY DEF I!LocatorIsCopied
  <2>2. LocatorSets(n) = {} BY <2>1 DEF LocatorSets
  <2>3. Got(attrs[n], I!Locator) = locator[n] BY <2>1, <2>2, Parts DEF CopyFollows
  <2>4. QED BY <1>2, <2>3
<1>6. ~lost => I!AnswersAreTrue BY Parts DEF Sound
<1>7. QED BY <1>3, <1>4, <1>5, <1>6 DEF I!AttributesAreSound

\* Reads and writes of a node's attributes are answered as if one came after the other.
THEOREM AttributesKept == I!ConstantsMakeSense => (I!Spec => []AttributesAreSound)
<1>1. ASSUME I!ConstantsMakeSense PROVE I!Init => AttrInv BY <1>1, AttrInit
<1>2. ASSUME I!ConstantsMakeSense PROVE AttrInv /\ [I!Next]_(I!vars) => AttrInv'
  BY <1>2, AttrStep
<1>3. AttrInv => AttributesAreSound BY AttrImplies DEF AttributesAreSound
<1>4. I!ConstantsMakeSense => I!ConstantsMakeSense' BY DEF I!ConstantsMakeSense
<1>5. QED BY <1>1, <1>2, <1>3, <1>4, PTL DEF I!Spec
-----------------------------------------------------------------------------
(***************************************************************************)
(* The log: requests and traced events.                                    *)
(***************************************************************************)

Blocks == LogThread \cup LogPool
Places == 0 .. LogSize - 1
Steps == {"idle", "fill", "commit", "take", "unlink", "ask", "look", "format", "next", "print", "log",
          "final"}
Workers == [pc : Steps, slot : Places, event : Nat, cb : SUBSET Blocks, mine : Seq(Blocks)]
Slots == [done : BOOLEAN, text : Nat, by : SUBSET LogThread, event : Nat]

LogTyped == /\ logRing \in [Places -> Slots] /\ producer \in Places /\ consumer \in Places
            /\ logQueue \in Seq(Blocks) /\ pooled \in Seq(LogPool) /\ fmtbuf \in Nat
            /\ logAt \in [LogThread -> Workers]
            /\ logEvents \in Nat /\ logLast \in Nat
            /\ disturbed \in BOOLEAN

\* What a thread has in hand is what its step says.
InStep(t) == /\ logAt[t].pc = "ask" => \E c \in Blocks : logAt[t].cb = {c}
             /\ logAt[t].pc # "log" => logAt[t].mine = <<>>
             /\ logAt[t].pc = "log" => logAt[t].mine # <<>>
             /\ J!IsInjective(logAt[t].mine)
LogRequests == J!RequestsAreKept /\ \A t \in LogThread : InStep(t)

\* The ring, its places counted from the oldest event.
Behind(i) == IF consumer + i < LogSize THEN consumer + i ELSE consumer + i - LogSize
Count == IF producer >= consumer THEN producer - consumer ELSE producer - consumer + LogSize
Left == 0 .. Count - 1
Event(i) == logRing[Behind(i)].event
Hand == J!InHand # {}

Ordered == /\ logLast <= logEvents
           /\ \A i \in Left : logLast < Event(i) /\ Event(i) <= logEvents
           /\ \A i, j \in Left : i < j => Event(i) < Event(j)
           /\ Hand => logLast < fmtbuf /\ fmtbuf <= logEvents /\ \A i \in Left : fmtbuf < Event(i)
Accounted == \A e \in Nat : logLast < e /\ e <= logEvents =>
    e \in dropped \/ (Hand /\ e = fmtbuf) \/ \E i \in Left : e = Event(i)
GivenWay == \A e \in dropped : /\ e \in Nat /\ e <= logEvents /\ e # logLast
                               /\ ~ (Hand /\ e = fmtbuf) /\ \A i \in Left : e # Event(i)
Texts == \A i \in Places : logRing[i].done => logRing[i].text = logRing[i].event

Writing(t) == logAt[t].pc \in {"fill", "commit"}
Writers == /\ \A t \in LogThread : Writing(t) =>
                 /\ ~logRing[logAt[t].slot].done /\ logRing[logAt[t].slot].event = logAt[t].event
                 /\ logAt[t].pc = "commit" => logRing[logAt[t].slot].text = logRing[logAt[t].slot].event
           /\ \A t, u \in LogThread : Writing(t) /\ Writing(u) /\ logAt[t].slot = logAt[u].slot => t = u
AtEvent == \A t \in LogThread : logAt[t].pc \in {"format", "next"} =>
    /\ Count > 0 /\ logAt[t].slot = consumer /\ logRing[consumer].done
    /\ logAt[t].pc = "next" => fmtbuf = logRing[consumer].event
OneWorker == \A t, u \in LogThread : logAt[t].pc \in J!AtWork /\ logAt[u].pc \in J!AtWork => t = u

Eventful == Ordered /\ Accounted /\ GivenWay
RingSound == Eventful /\ Texts /\ Writers /\ AtEvent /\ OneWorker
LogInv == LogTyped /\ LogRequests /\ (~disturbed => RingSound)
-----------------------------------------------------------------------------
(* Sequences of blocks.                                                      *)
LEMMA EmptyRange == J!Range(<<>>) = {} /\ J!IsInjective(<<>>)
BY DEF J!Range, J!IsInjective

LEMMA AppendRange ==
    ASSUME NEW S, NEW s \in Seq(S), NEW c \in S
    PROVE  /\ Append(s, c) \in Seq(S) /\ J!Range(Append(s, c)) = J!Range(s) \cup {c}
           /\ J!IsInjective(s) /\ c \notin J!Range(s) => J!IsInjective(Append(s, c))
<1>1. PICK n \in Nat : n = Len(s) OBVIOUS
<1>2. PICK a : a = Append(s, c) OBVIOUS
<1>3. /\ a \in Seq(S) /\ DOMAIN a = 1..(n + 1) /\ a[n + 1] = c
      /\ \A i \in 1..n : a[i] = s[i]
  BY <1>1, <1>2
<1>4. DOMAIN s = 1..n BY <1>1
<1>5. \A i \in 1..(n + 1) : i = n + 1 \/ i \in 1..n OBVIOUS
<1>6. \A i \in 1..n : i \in 1..(n + 1) OBVIOUS
<1>7. n + 1 \in 1..(n + 1) OBVIOUS
<1>8. J!Range(a) = J!Range(s) \cup {c}
  <2>1. ASSUME NEW x \in J!Range(a) PROVE x \in J!Range(s) \cup {c}
    <3>1. PICK i \in 1..(n + 1) : x = a[i] BY <1>3, <2>1 DEF J!Range
    <3>2. QED BY <1>3, <1>4, <1>5, <3>1 DEF J!Range
  <2>2. ASSUME NEW x \in J!Range(s) PROVE x \in J!Range(a)
    <3>1. PICK i \in 1..n : x = s[i] BY <1>4, <2>2 DEF J!Range
    <3>2. QED BY <1>3, <1>6, <3>1 DEF J!Range
  <2>3. c \in J!Range(a) BY <1>3, <1>7 DEF J!Range
  <2>4. QED BY <2>1, <2>2, <2>3
<1>9. ASSUME J!IsInjective(s), c \notin J!Range(s) PROVE J!IsInjective(a)
  <2>1. SUFFICES ASSUME NEW i \in 1..(n + 1), NEW j \in 1..(n + 1), a[i] = a[j] PROVE i = j
    BY <1>3 DEF J!IsInjective
  <2>2. \A k \in 1..n : s[k] # c BY <1>4, <1>9 DEF J!Range
  <2>3. CASE i \in 1..n /\ j \in 1..n BY <1>3, <1>4, <1>9, <2>1, <2>3 DEF J!IsInjective
  <2>4. CASE i = n + 1 /\ j \in 1..n BY <1>3, <2>1, <2>2, <2>4
  <2>5. CASE i \in 1..n /\ j = n + 1 BY <1>3, <2>1, <2>2, <2>5
  <2>6. QED BY <1>5, <2>3, <2>4, <2>5
<1>10. QED BY <1>2, <1>3, <1>8, <1>9

LEMMA TailRange ==
    ASSUME NEW S, NEW s \in Seq(S), s # <<>>, J!IsInjective(s)
    PROVE  /\ Head(s) \in S /\ Head(s) \in J!Range(s) /\ Tail(s) \in Seq(S)
           /\ J!Range(Tail(s)) = J!Range(s) \ {Head(s)} /\ J!IsInjective(Tail(s))
<1>1. PICK n \in Nat : n = Len(s) OBVIOUS
<1>2. n >= 1 /\ DOMAIN s = 1..n BY <1>1
<1>3. PICK c : c = Head(s) OBVIOUS
<1>4. c = s[1] /\ 1 \in 1..n BY <1>2, <1>3
<1>5. PICK a : a = Tail(s) OBVIOUS
<1>6. /\ a \in Seq(S) /\ DOMAIN a = 1..(n - 1)
      /\ \A i \in 1..(n - 1) : a[i] = s[i + 1] /\ i + 1 \in 1..n /\ i + 1 # 1
  BY <1>1, <1>2, <1>5
<1>7. c \in S /\ c \in J!Range(s) BY <1>2, <1>4 DEF J!Range
<1>8. J!Range(a) = J!Range(s) \ {c}
  <2>1. ASSUME NEW x \in J!Range(a) PROVE x \in J!Range(s) \ {c}
    <3>1. PICK i \in 1..(n - 1) : x = a[i] BY <1>6, <2>1 DEF J!Range
    <3>2. PICK j \in 1..n : j = i + 1 BY <1>6
    <3>3. x = s[j] /\ j # 1 BY <1>6, <3>1, <3>2
    <3>4. s[j] # s[1] BY <1>2, <1>4, <3>3 DEF J!IsInjective
    <3>5. QED BY <1>2, <1>4, <3>3, <3>4 DEF J!Range
  <2>2. ASSUME NEW x \in J!Range(s), x # c PROVE x \in J!Range(a)
    <3>1. PICK j \in 1..n : x = s[j] BY <1>2, <2>2 DEF J!Range
    <3>2. j # 1 BY <1>4, <2>2, <3>1
    <3>3. PICK i \in 1..(n - 1) : i + 1 = j
      <4>1. j - 1 \in 1..(n - 1) /\ (j - 1) + 1 = j BY <3>2
      <4>2. QED BY <4>1
    <3>4. QED BY <1>6, <3>1, <3>3 DEF J!Range
  <2>3. QED BY <2>1, <2>2
<1>9. J!IsInjective(a)
  <2>1. SUFFICES ASSUME NEW i \in 1..(n - 1), NEW j \in 1..(n - 1), a[i] = a[j] PROVE i = j
    BY <1>6 DEF J!IsInjective
  <2>2. s[i + 1] = s[j + 1] /\ i + 1 \in 1..n /\ j + 1 \in 1..n BY <1>6, <2>1
  <2>3. i + 1 = j + 1 BY <1>2, <2>2 DEF J!IsInjective
  <2>4. QED BY <2>3
<1>10. QED BY <1>3, <1>5, <1>6, <1>7, <1>8, <1>9

LEMMA RemovedRange ==
    ASSUME NEW S, NEW s \in Seq(S), NEW i \in DOMAIN s, J!IsInjective(s)
    PROVE  /\ J!RemoveAt(s, i) \in Seq(S) /\ J!IsInjective(J!RemoveAt(s, i))
           /\ J!Range(J!RemoveAt(s, i)) = J!Range(s) \ {s[i]}
           /\ s[i] \in S /\ s[i] \in J!Range(s)
<1>1. PICK n \in Nat : n = Len(s) /\ DOMAIN s = 1..n OBVIOUS
<1>2. i \in 1..n /\ \A k \in 1..n : s[k] \in S BY <1>1
<1>3. PICK low : low = SubSeq(s, 1, i - 1) OBVIOUS
<1>4. PICK high : high = SubSeq(s, i + 1, n) OBVIOUS
<1>5. PICK a : a = J!RemoveAt(s, i) OBVIOUS
<1>6. a = low \o high BY <1>1, <1>3, <1>4, <1>5 DEF J!RemoveAt
<1>7. low \in Seq(S) /\ Len(low) = i - 1 /\ \A k \in 1..(i - 1) : low[k] = s[k]
  BY <1>1, <1>2, <1>3
<1>8. high \in Seq(S) /\ Len(high) = n - i /\ \A k \in 1..(n - i) : high[k] = s[k + i]
  BY <1>1, <1>2, <1>4
<1>9. a \in Seq(S) /\ Len(a) = n - 1 /\ DOMAIN a = 1..(n - 1)
  BY <1>1, <1>2, <1>6, <1>7, <1>8
<1>10. ASSUME NEW k \in 1..(n - 1) PROVE a[k] = IF k < i THEN s[k] ELSE s[k + 1]
  <2>1. CASE k < i
    <3>1. k \in 1..(i - 1) BY <1>2, <2>1
    <3>2. a[k] = low[k] BY <1>6, <1>7, <1>8, <3>1
    <3>3. QED BY <1>7, <2>1, <3>1, <3>2
  <2>2. CASE ~(k < i)
    <3>1. PICK j \in 1..(n - i) : j = k - (i - 1) /\ j + i = k + 1 /\ k = (i - 1) + j
      <4>1. /\ k - (i - 1) \in 1..(n - i) /\ (k - (i - 1)) + i = k + 1
            /\ k = (i - 1) + (k - (i - 1))
        BY <1>1, <1>2, <2>2
      <4>2. QED BY <4>1
    <3>2. a[k] = high[j]
      <4>1. Len(low) = i - 1 /\ Len(high) = n - i BY <1>7, <1>8
      <4>2. PICK l \in Nat, h \in Nat : l = i - 1 /\ h = n - i /\ l + h = n - 1
        <5>1. i - 1 \in Nat /\ n - i \in Nat /\ (i - 1) + (n - i) = n - 1 BY <1>1, <1>2
        <5>2. QED BY <5>1
      <4>3. /\ low \in Seq(S) /\ high \in Seq(S) /\ Len(low) = l /\ Len(high) = h
            /\ k \in 1..(l + h) /\ ~(k <= l) /\ k - l = j
        BY <1>7, <1>8, <2>2, <3>1, <4>1, <4>2
      <4>4. (low \o high)[k] = high[k - l] BY <4>3, ConcatProperties
      <4>5. QED BY <1>6, <4>3, <4>4
    <3>3. high[j] = s[k + 1] BY <1>8, <3>1
    <3>4. QED BY <2>2, <3>2, <3>3
  <2>3. QED BY <2>1, <2>2
<1>11. \A k \in 1..(n - 1) : /\ k < i => a[k] = s[k] /\ k \in 1..n /\ k # i
                             /\ ~(k < i) => a[k] = s[k + 1] /\ k + 1 \in 1..n /\ k + 1 # i
  BY <1>1, <1>2, <1>10
<1>12. J!Range(a) = J!Range(s) \ {s[i]}
  <2>1. ASSUME NEW x \in J!Range(a) PROVE x \in J!Range(s) \ {s[i]}
    <3>1. PICK k \in 1..(n - 1) : x = a[k] BY <1>9, <2>1 DEF J!Range
    <3>2. PICK j \in 1..n : x = s[j] /\ j # i BY <1>11, <3>1
    <3>3. s[j] # s[i] BY <1>1, <1>2, <3>2 DEF J!IsInjective
    <3>4. QED BY <1>1, <3>2, <3>3 DEF J!Range
  <2>2. ASSUME NEW x \in J!Range(s), x # s[i] PROVE x \in J!Range(a)
    <3>1. PICK j \in 1..n : x = s[j] BY <1>1, <2>2 DEF J!Range
    <3>2. j # i BY <2>2, <3>1
    <3>3. CASE j < i
      <4>1. j \in 1..(n - 1) BY <1>1, <1>2, <3>3
      <4>2. QED BY <1>9, <1>11, <3>1, <3>3, <4>1 DEF J!Range
    <3>4. CASE ~(j < i)
      <4>1. PICK k \in 1..(n - 1) : k + 1 = j /\ ~(k < i)
        <5>1. j - 1 \in 1..(n - 1) /\ (j - 1) + 1 = j /\ ~(j - 1 < i)
          BY <1>1, <1>2, <3>2, <3>4
        <5>2. QED BY <5>1
      <4>2. QED BY <1>9, <1>11, <3>1, <4>1 DEF J!Range
    <3>5. QED BY <3>3, <3>4
  <2>3. QED BY <2>1, <2>2
<1>13. J!IsInjective(a)
  <2>1. SUFFICES ASSUME NEW k \in 1..(n - 1), NEW l \in 1..(n - 1), a[k] = a[l] PROVE k = l
    BY <1>9 DEF J!IsInjective
  <2>2. \A x, y \in 1..n : s[x] = s[y] => x = y BY <1>1 DEF J!IsInjective
  <2>3. CASE k < i /\ l < i BY <1>11, <2>1, <2>2, <2>3
  <2>4. CASE k < i /\ ~(l < i)
    <3>1. k = l + 1 BY <1>11, <2>1, <2>2, <2>4
    <3>2. QED BY <1>2, <2>4, <3>1
  <2>5. CASE ~(k < i) /\ l < i
    <3>1. k + 1 = l BY <1>11, <2>1, <2>2, <2>5
    <3>2. QED BY <1>2, <2>5, <3>1
  <2>6. CASE ~(k < i) /\ ~(l < i)
    <3>1. k + 1 = l + 1 BY <1>11, <2>1, <2>2, <2>6
    <3>2. QED BY <3>1
  <2>7. QED BY <2>3, <2>4, <2>5, <2>6
<1>14. s[i] \in J!Range(s) BY DEF J!Range
<1>15. QED BY <1>1, <1>2, <1>5, <1>9, <1>12, <1>13, <1>14
-----------------------------------------------------------------------------
(* What a step makes of its thread.                                          *)
Rest(t) == \A u \in LogThread : u # t => logAt'[u] = logAt[u]
Now(t, pc, slot, event, cb, mine) ==
    /\ logAt' \in [LogThread -> Workers] /\ Rest(t)
    /\ logAt'[t].pc = pc /\ logAt'[t].slot = slot /\ logAt'[t].event = event
    /\ logAt'[t].cb = cb /\ logAt'[t].mine = mine

LEMMA LogTurned ==
    ASSUME logAt \in [LogThread -> Workers], NEW t \in LogThread, NEW w \in Workers,
           logAt' = [logAt EXCEPT ![t] = w]
    PROVE  Now(t, w.pc, w.slot, w.event, w.cb, w.mine)
BY DEF Now, Rest

LEMMA GoesTo ==
    ASSUME logAt \in [LogThread -> Workers], NEW t \in LogThread, NEW pc \in Steps, J!Goes(t, pc)
    PROVE  Now(t, pc, logAt[t].slot, logAt[t].event, logAt[t].cb, logAt[t].mine)
<1>1. logAt[t] \in Workers OBVIOUS
<1>2. PICK w \in Workers : w = [logAt[t] EXCEPT !.pc = pc] BY <1>1 DEF Workers
<1>3. /\ w.pc = pc /\ w.slot = logAt[t].slot /\ w.event = logAt[t].event
      /\ w.cb = logAt[t].cb /\ w.mine = logAt[t].mine
  BY <1>1, <1>2 DEF Workers
<1>4. logAt' = [logAt EXCEPT ![t] = w] BY <1>2 DEF J!Goes
<1>5. QED BY <1>3, <1>4, LogTurned

LEMMA TracesAt ==
    ASSUME LogTyped, J!ConstantsMakeSense, NEW t \in LogThread, J!udi_trace_write(t)
    PROVE  Now(t, "fill", producer, logEvents + 1, {}, <<>>)
<1>1. /\ producer \in Places /\ logEvents + 1 \in Nat /\ logAt \in [LogThread -> Workers]
      /\ <<>> \in Seq(Blocks) /\ {} \in SUBSET Blocks /\ "fill" \in Steps
  BY DEF LogTyped, Steps
<1>2. PICK w : w = [J!Idle EXCEPT !.pc = "fill", !.slot = producer, !.event = logEvents + 1]
  OBVIOUS
<1>3. w = [pc |-> "fill", slot |-> producer, event |-> logEvents + 1, cb |-> {}, mine |-> <<>>]
  BY <1>2 DEF J!Idle
<1>4. w \in Workers BY <1>1, <1>3 DEF Workers
<1>5. logAt' = [logAt EXCEPT ![t] = w] BY <1>2 DEF J!udi_trace_write
<1>6. QED BY <1>1, <1>3, <1>4, <1>5, LogTurned

LEMMA AsksAt ==
    ASSUME LogTyped, J!ConstantsMakeSense, NEW t \in LogThread, NEW c \in Blocks,
           NEW pc \in {"ask", "unlink"},
           logAt' = [logAt EXCEPT ![t] = [J!Idle EXCEPT !.pc = pc, !.cb = {c}]]
    PROVE  Now(t, pc, 0, 0, {c}, <<>>)
<1>1. /\ 0 \in Places /\ logAt \in [LogThread -> Workers]
      /\ <<>> \in Seq(Blocks) /\ {c} \in SUBSET Blocks /\ pc \in Steps
  BY DEF LogTyped, Steps, Places, J!ConstantsMakeSense
<1>2. PICK w : w = [J!Idle EXCEPT !.pc = pc, !.cb = {c}] OBVIOUS
<1>3. w = [pc |-> pc, slot |-> 0, event |-> 0, cb |-> {c}, mine |-> <<>>]
  BY <1>2 DEF J!Idle
<1>4. w \in Workers BY <1>1, <1>3 DEF Workers
<1>5. logAt' = [logAt EXCEPT ![t] = w] BY <1>2
<1>6. QED BY <1>1, <1>3, <1>4, <1>5, LogTurned

LEMMA QueuesAt ==
    ASSUME LogTyped, J!ConstantsMakeSense, NEW t \in LogThread, J!_udi_log_vwrite(t)
    PROVE  Now(t, "look", 0, 0, {}, <<>>)
<1>1. /\ 0 \in Places /\ logAt \in [LogThread -> Workers]
      /\ <<>> \in Seq(Blocks) /\ {} \in SUBSET Blocks /\ "look" \in Steps
  BY DEF LogTyped, Steps, Places, J!ConstantsMakeSense
<1>2. PICK w : w = [J!Idle EXCEPT !.pc = "look"] OBVIOUS
<1>3. w = [pc |-> "look", slot |-> 0, event |-> 0, cb |-> {}, mine |-> <<>>]
  BY <1>2 DEF J!Idle
<1>4. w \in Workers BY <1>1, <1>3 DEF Workers
<1>5. logAt' = [logAt EXCEPT ![t] = w] BY <1>2 DEF J!_udi_log_vwrite
<1>6. QED BY <1>1, <1>3, <1>4, <1>5, LogTurned

LEMMA LooksAt ==
    ASSUME LogTyped, NEW t \in LogThread, J!Look(t)
    PROVE  \/ /\ ~J!Nothing /\ logQueue' = logQueue
              /\ Now(t, "format", consumer, logAt[t].event, logAt[t].cb, logAt[t].mine)
           \/ /\ logQueue' = <<>>
              /\ \E pc \in {"final", "log"} :
                    /\ pc = "log" <=> logQueue # <<>>
                    /\ Now(t, pc, logAt[t].slot, logAt[t].event, logAt[t].cb, logQueue)
<1>1. logAt \in [LogThread -> Workers] /\ logAt[t] \in Workers /\ consumer \in Places
      /\ logQueue \in Seq(Blocks)
  BY DEF LogTyped
<1>2. CASE ~J!Nothing
  <2>1. logAt' = [logAt EXCEPT ![t].pc = "format", ![t].slot = consumer] /\ logQueue' = logQueue
    BY <1>2 DEF J!Look
  <2>2. PICK w : w = [logAt[t] EXCEPT !.pc = "format", !.slot = consumer] OBVIOUS
  <2>3. w \in Workers /\ w.pc = "format" /\ w.slot = consumer /\ w.event = logAt[t].event
        /\ w.cb = logAt[t].cb /\ w.mine = logAt[t].mine
    BY <1>1, <2>2 DEF Workers, Steps
  <2>4. logAt' = [logAt EXCEPT ![t] = w] BY <1>1, <2>1, <2>2
  <2>5. Now(t, "format", consumer, logAt[t].event, logAt[t].cb, logAt[t].mine)
    BY <1>1, <2>3, <2>4, LogTurned
  <2>6. QED BY <1>2, <2>1, <2>5
<1>3. CASE J!Nothing
  <2>1. PICK pc \in {"final", "log"} : pc = IF logQueue = <<>> THEN "final" ELSE "log"
    OBVIOUS
  <2>2. logAt' = [logAt EXCEPT ![t].pc = pc, ![t].mine = logQueue] /\ logQueue' = <<>>
    BY <1>3, <2>1 DEF J!Look
  <2>3. PICK w : w = [logAt[t] EXCEPT !.pc = pc, !.mine = logQueue] OBVIOUS
  <2>4. w \in Workers /\ w.pc = pc /\ w.slot = logAt[t].slot /\ w.event = logAt[t].event
        /\ w.cb = logAt[t].cb /\ w.mine = logQueue
    BY <1>1, <2>3 DEF Workers, Steps
  <2>5. logAt' = [logAt EXCEPT ![t] = w] BY <1>1, <2>2, <2>3
  <2>6. Now(t, pc, logAt[t].slot, logAt[t].event, logAt[t].cb, logQueue)
    BY <1>1, <2>4, <2>5, LogTurned
  <2>7. pc = "log" <=> logQueue # <<>> BY <2>1
  <2>8. QED BY <2>2, <2>6, <2>7
<1>4. QED BY <1>2, <1>3

LEMMA LogsAt ==
    ASSUME LogTyped, NEW t \in LogThread, J!Log(t), logAt[t].mine # <<>>
    PROVE  \E pc \in {"final", "log"} :
              /\ pc = "log" <=> Tail(logAt[t].mine) # <<>>
              /\ Now(t, pc, logAt[t].slot, logAt[t].event, logAt[t].cb, Tail(logAt[t].mine))
<1>1. logAt \in [LogThread -> Workers] /\ logAt[t] \in Workers BY DEF LogTyped
<1>2. logAt[t].mine \in Seq(Blocks) BY <1>1 DEF Workers
<1>3. PICK rest \in Seq(Blocks) : rest = Tail(logAt[t].mine)
  <2>1. PICK m \in Seq(Blocks) : m = logAt[t].mine BY <1>2
  <2>2. Tail(m) \in Seq(Blocks) BY <2>1
  <2>3. QED BY <2>1, <2>2
<1>4. PICK pc \in {"final", "log"} : pc = IF rest = <<>> THEN "final" ELSE "log" OBVIOUS
<1>5. logAt' = [logAt EXCEPT ![t].mine = rest, ![t].pc = pc] BY <1>3, <1>4 DEF J!Log
<1>6. PICK w : w = [logAt[t] EXCEPT !.mine = rest, !.pc = pc] OBVIOUS
<1>7. w \in Workers /\ w.pc = pc /\ w.slot = logAt[t].slot /\ w.event = logAt[t].event
      /\ w.cb = logAt[t].cb /\ w.mine = rest
  BY <1>1, <1>6 DEF Workers, Steps
<1>8. logAt' = [logAt EXCEPT ![t] = w] BY <1>1, <1>5, <1>6
<1>9. Now(t, pc, logAt[t].slot, logAt[t].event, logAt[t].cb, rest)
  BY <1>1, <1>7, <1>8, LogTurned
<1>10. QED BY <1>3, <1>4, <1>9
-----------------------------------------------------------------------------
(* What a step makes of the ring.                                            *)
RingNow(i, done, text, event) ==
    /\ logRing' \in [Places -> Slots]
    /\ logRing'[i].done = done /\ logRing'[i].text = text /\ logRing'[i].event = event
    /\ \A j \in Places : j # i => logRing'[j] = logRing[j]

LEMMA SlotNow ==
    ASSUME logRing \in [Places -> Slots], NEW i \in Places, NEW s \in Slots,
           logRing' = [logRing EXCEPT ![i] = s]
    PROVE  RingNow(i, s.done, s.text, s.event)
BY DEF RingNow

LEMMA AfterIs ==
    ASSUME J!ConstantsMakeSense, NEW i \in Places
    PROVE  J!After(i) \in Places /\ J!After(i) = IF i + 1 < LogSize THEN i + 1 ELSE 0
<1>1. LogSize \in Nat /\ LogSize > 1 /\ i \in 0 .. (LogSize - 1)
  BY DEF J!ConstantsMakeSense, Places
<1>2. CASE i + 1 < LogSize
  <2>1. i + 1 \in 0 .. (LogSize - 1) BY <1>1, <1>2
  <2>2. (i + 1) % LogSize = i + 1 BY <1>1, <2>1
  <2>3. QED BY <1>2, <2>1, <2>2 DEF J!After, Places
<1>3. CASE ~(i + 1 < LogSize)
  <2>1. i + 1 = LogSize BY <1>1, <1>3
  <2>2. LogSize % LogSize = 0 BY <1>1
  <2>3. QED BY <1>1, <1>3, <2>1, <2>2 DEF J!After, Places
<1>4. QED BY <1>2, <1>3

LEMMA TracesRing ==
    ASSUME LogTyped, NEW t \in LogThread, J!udi_trace_write(t)
    PROVE  RingNow(producer, FALSE, logRing[producer].text, logEvents + 1)
<1>1. logRing \in [Places -> Slots] /\ producer \in Places /\ logEvents + 1 \in Nat
  BY DEF LogTyped
<1>2. logRing[producer] \in Slots BY <1>1
<1>3. PICK s : s = [logRing[producer] EXCEPT !.done = FALSE, !.event = logEvents + 1]
  OBVIOUS
<1>4. s \in Slots /\ s.done = FALSE /\ s.text = logRing[producer].text /\ s.event = logEvents + 1
  BY <1>1, <1>2, <1>3 DEF Slots
<1>5. logRing' = [logRing EXCEPT ![producer].done = FALSE, ![producer].event = logEvents + 1]
  BY DEF J!udi_trace_write
<1>6. logRing' = [logRing EXCEPT ![producer] = s] BY <1>1, <1>3, <1>5
<1>7. QED BY <1>1, <1>4, <1>6, SlotNow

LEMMA FillsRing ==
    ASSUME LogTyped, NEW t \in LogThread, J!Fill(t)
    PROVE  /\ RingNow(logAt[t].slot, logRing[logAt[t].slot].done, logAt[t].event, logRing[logAt[t].slot].event)
           /\ logAt[t].slot \in Places
<1>1. logRing \in [Places -> Slots] /\ logAt[t] \in Workers BY DEF LogTyped
<1>2. PICK i \in Places, e \in Nat : i = logAt[t].slot /\ e = logAt[t].event
  BY <1>1 DEF Workers
<1>3. logRing[i] \in Slots BY <1>1
<1>4. PICK s : s = [logRing[i] EXCEPT !.text = e, !.by = {t}] OBVIOUS
<1>5. s \in Slots /\ s.done = logRing[i].done /\ s.text = e /\ s.event = logRing[i].event
  BY <1>3, <1>4 DEF Slots
<1>6. logRing' = [logRing EXCEPT ![i].text = e, ![i].by = {t}] BY <1>2 DEF J!Fill
<1>7. logRing' = [logRing EXCEPT ![i] = s] BY <1>1, <1>4, <1>6
<1>8. QED BY <1>1, <1>2, <1>5, <1>7, SlotNow

LEMMA CommitsRing ==
    ASSUME LogTyped, NEW t \in LogThread, J!Commit(t)
    PROVE  /\ RingNow(logAt[t].slot, TRUE, logRing[logAt[t].slot].text, logRing[logAt[t].slot].event)
           /\ logAt[t].slot \in Places
<1>1. logRing \in [Places -> Slots] /\ logAt[t] \in Workers BY DEF LogTyped
<1>2. PICK i \in Places : i = logAt[t].slot BY <1>1 DEF Workers
<1>3. logRing[i] \in Slots BY <1>1
<1>4. PICK s : s = [logRing[i] EXCEPT !.done = TRUE] OBVIOUS
<1>5. s \in Slots /\ s.done = TRUE /\ s.text = logRing[i].text /\ s.event = logRing[i].event
  BY <1>3, <1>4 DEF Slots
<1>6. logRing' = [logRing EXCEPT ![i].done = TRUE] BY <1>2 DEF J!Commit
<1>7. logRing' = [logRing EXCEPT ![i] = s] BY <1>1, <1>4, <1>6
<1>8. QED BY <1>1, <1>2, <1>5, <1>7, SlotNow
-----------------------------------------------------------------------------
(* Types.                                                                    *)
LEMMA TypesKept ==
    ASSUME LogTyped, LogRequests, J!ConstantsMakeSense, J!Next
    PROVE  LogTyped'
<1>1. /\ logRing \in [Places -> Slots] /\ producer \in Places /\ consumer \in Places
      /\ logQueue \in Seq(Blocks) /\ pooled \in Seq(LogPool) /\ fmtbuf \in Nat
      /\ logAt \in [LogThread -> Workers] /\ logEvents \in Nat /\ logLast \in Nat
      /\ disturbed \in BOOLEAN
  BY DEF LogTyped
<1>2. ASSUME NEW t \in LogThread PROVE logAt[t].slot \in Places /\ logAt[t].mine \in Seq(Blocks)
  BY <1>1 DEF Workers
<1>3. ASSUME NEW t \in LogThread, J!udi_trace_write(t) PROVE LogTyped'
  <2>1. logAt' \in [LogThread -> Workers] BY <1>3, TracesAt DEF Now
  <2>2. logRing' \in [Places -> Slots] BY <1>3, TracesRing DEF RingNow
  <2>3. producer' \in Places /\ consumer' \in Places /\ logEvents' \in Nat
    BY <1>1, <1>3, AfterIs DEF J!udi_trace_write, J!FirstLeft
  <2>4. disturbed' \in BOOLEAN BY <1>1, <1>3 DEF J!udi_trace_write
  <2>5. QED BY <1>1, <1>3, <2>1, <2>2, <2>3, <2>4 DEF J!udi_trace_write, LogTyped
<1>4. ASSUME NEW t \in LogThread, J!udi_log_write(t) PROVE LogTyped'
  <2>1. PICK c \in Blocks : c = t BY DEF Blocks
  <2>2. logAt' = [logAt EXCEPT ![t] = [J!Idle EXCEPT !.pc = "ask", !.cb = {c}]]
    BY <1>4, <2>1 DEF J!udi_log_write
  <2>3. logAt' \in [LogThread -> Workers] BY <2>2, AsksAt DEF Now
  <2>4. QED BY <1>1, <1>4, <2>3 DEF J!udi_log_write, J!Unring, LogTyped
<1>5. ASSUME NEW t \in LogThread, J!_udi_env_log_write(t) PROVE LogTyped'
  <2>1. "take" \in Steps BY DEF Steps
  <2>2. logAt' = logAt \/ J!Goes(t, "take") BY <1>5 DEF J!_udi_env_log_write
  <2>3. logAt' \in [LogThread -> Workers] BY <1>1, <2>1, <2>2, GoesTo DEF Now
  <2>4. QED BY <1>1, <1>5, <2>3 DEF J!_udi_env_log_write, J!Unring, LogTyped
<1>6. ASSUME NEW t \in LogThread, J!Take(t) PROVE LogTyped'
  <2>1. CASE pooled = <<>> BY <1>1, <1>6, <2>1 DEF J!Take, J!Unring, LogTyped
  <2>2. CASE pooled # <<>>
    <3>1. PICK c \in Blocks : c = Head(pooled) BY <1>1, <2>2 DEF Blocks
    <3>2. logAt' = [logAt EXCEPT ![t] = [J!Idle EXCEPT !.pc = "unlink", !.cb = {c}]]
      BY <1>6, <2>2, <3>1 DEF J!Take
    <3>3. logAt' \in [LogThread -> Workers] BY <3>2, AsksAt DEF Now
    <3>4. QED BY <1>1, <1>6, <3>3 DEF J!Take, J!Unring, LogTyped
  <2>3. QED BY <2>1, <2>2
<1>18. ASSUME NEW t \in LogThread, J!Unlink(t) PROVE LogTyped'
  <2>1. PICK c \in logAt[t].cb :
              \/ /\ \E i \in DOMAIN pooled : pooled[i] = c /\ pooled' = J!RemoveAt(pooled, i)
                 /\ logAt' = [logAt EXCEPT ![t] = [J!Idle EXCEPT !.pc = "ask", !.cb = {c}]]
              \/ logAt' = logAt /\ pooled' = pooled
    BY <1>18 DEF J!Unlink
  <2>2. c \in Blocks BY <1>1 DEF Workers
  <2>3. logAt' \in [LogThread -> Workers] BY <1>1, <2>1, <2>2, AsksAt DEF Now
  <2>4. J!IsInjective(pooled) BY DEF LogRequests, J!RequestsAreKept
  <2>5. pooled' \in Seq(LogPool) BY <1>1, <2>1, <2>4, RemovedRange
  <2>6. QED BY <1>1, <1>18, <2>3, <2>5 DEF J!Unlink, J!Unring, LogTyped
<1>7. ASSUME NEW t \in LogThread, J!_udi_log_vwrite(t) PROVE LogTyped'
  <2>1. logAt' \in [LogThread -> Workers] BY <1>7, QueuesAt DEF Now
  <2>2. PICK c \in logAt[t].cb : logQueue' = Append(logQueue, c)
    BY <1>7 DEF J!_udi_log_vwrite
  <2>3. c \in Blocks BY <1>1, <2>2 DEF Workers
  <2>4. logQueue' \in Seq(Blocks) BY <1>1, <2>2, <2>3
  <2>5. QED BY <1>1, <1>7, <2>1, <2>4 DEF J!_udi_log_vwrite, J!Unring, LogTyped
<1>8. ASSUME NEW t \in LogThread, J!Fill(t) PROVE LogTyped'
  <2>1. "commit" \in Steps /\ J!Goes(t, "commit") BY <1>8 DEF Steps, J!Fill
  <2>2. logAt' \in [LogThread -> Workers] BY <1>1, <2>1, GoesTo DEF Now
  <2>3. logRing' \in [Places -> Slots] BY <1>8, FillsRing DEF RingNow
  <2>4. QED BY <1>1, <1>8, <2>2, <2>3 DEF J!Fill, LogTyped
<1>9. ASSUME NEW t \in LogThread, J!Commit(t) PROVE LogTyped'
  <2>1. "look" \in Steps /\ J!Goes(t, "look") BY <1>9 DEF Steps, J!Commit
  <2>2. logAt' \in [LogThread -> Workers] BY <1>1, <2>1, GoesTo DEF Now
  <2>3. logRing' \in [Places -> Slots] BY <1>9, CommitsRing DEF RingNow
  <2>4. QED BY <1>1, <1>9, <2>2, <2>3 DEF J!Commit, LogTyped
<1>10. ASSUME NEW t \in LogThread, J!Look(t) PROVE LogTyped'
  <2>1. logAt' \in [LogThread -> Workers] BY <1>10, LooksAt DEF Now
  <2>2. <<>> \in Seq(Blocks) OBVIOUS
  <2>3. logQueue' \in Seq(Blocks) BY <1>1, <1>10, <2>2, LooksAt
  <2>4. disturbed' \in BOOLEAN BY <1>1, <1>10 DEF J!Look
  <2>5. QED BY <1>1, <1>10, <2>1, <2>3, <2>4 DEF J!Look, J!Unring, LogTyped
<1>11. ASSUME NEW t \in LogThread, J!_udi_trlog_fmt(t) PROVE LogTyped'
  <2>1. "next" \in Steps /\ J!Goes(t, "next") BY <1>11 DEF Steps, J!_udi_trlog_fmt
  <2>2. logAt' \in [LogThread -> Workers] BY <1>1, <2>1, GoesTo DEF Now
  <2>3. logRing[logAt[t].slot].text \in Nat BY <1>1, <1>2 DEF Slots
  <2>4. QED BY <1>1, <1>11, <2>2, <2>3 DEF J!_udi_trlog_fmt, J!Unring, LogTyped
<1>12. ASSUME NEW t \in LogThread, J!Consume(t) PROVE LogTyped'
  <2>1. "print" \in Steps /\ J!Goes(t, "print") BY <1>12 DEF Steps, J!Consume
  <2>2. logAt' \in [LogThread -> Workers] BY <1>1, <2>1, GoesTo DEF Now
  <2>3. consumer' \in Places BY <1>1, <1>12, AfterIs DEF J!Consume
  <2>4. QED BY <1>1, <1>12, <2>2, <2>3 DEF J!Consume, LogTyped
<1>13. ASSUME NEW t \in LogThread, J!Output(t) PROVE LogTyped'
  <2>1. "look" \in Steps /\ J!Goes(t, "look") BY <1>13 DEF Steps, J!Output
  <2>2. logAt' \in [LogThread -> Workers] BY <1>1, <2>1, GoesTo DEF Now
  <2>3. logLast' \in Nat BY <1>1, <1>13 DEF J!Output
  <2>4. QED BY <1>1, <1>13, <2>2, <2>3 DEF J!Output, LogTyped
<1>14. ASSUME NEW t \in LogThread, J!Log(t) PROVE LogTyped'
  <2>1. logAt[t].mine # <<>> BY <1>14 DEF J!Log, J!IsAt, LogRequests, InStep
  <2>2. logAt' \in [LogThread -> Workers] BY <1>14, <2>1, LogsAt DEF Now
  <2>3. QED BY <1>1, <1>14, <2>2 DEF J!Log, J!Unring, LogTyped
<1>15. ASSUME NEW t \in LogThread, J!Leave(t) PROVE LogTyped'
  <2>1. PICK pc \in {"idle", "look"} : pc = IF J!Nothing THEN "idle" ELSE "look" OBVIOUS
  <2>2. pc \in Steps /\ J!Goes(t, pc) BY <1>15, <2>1 DEF Steps, J!Leave
  <2>3. logAt' \in [LogThread -> Workers] BY <1>1, <2>2, GoesTo DEF Now
  <2>4. QED BY <1>1, <1>15, <2>3 DEF J!Leave, J!Unring, LogTyped
<1>16. ASSUME NEW c \in called, J!Callback(c) PROVE LogTyped'
  <2>1. pooled' \in Seq(LogPool) BY <1>1, <1>16 DEF J!Callback
  <2>2. QED BY <1>1, <1>16, <2>1 DEF J!Callback, J!Unring, LogTyped
<1>17. ASSUME NEW t \in LogThread, J!_udi_region_destroy(t) PROVE LogTyped'
  BY <1>1, <1>17 DEF J!_udi_region_destroy, J!Unring, LogTyped
<1>19. QED
  BY <1>3, <1>4, <1>5, <1>6, <1>7, <1>8, <1>9, <1>10, <1>11, <1>12, <1>13, <1>14, <1>15,
     <1>16, <1>17, <1>18 DEF J!Next, J!Runs, J!_udi_trlog_daemon_work
-----------------------------------------------------------------------------
(* Requests to log: each is in one place.                                    *)
LEMMA StepsKept ==
    ASSUME NEW t \in LogThread, Rest(t), \A u \in LogThread : InStep(u), InStep(t)'
    PROVE  \A u \in LogThread : InStep(u)'
<1>1. ASSUME NEW u \in LogThread, u # t PROVE InStep(u)' BY <1>1 DEF Rest, InStep
<1>2. QED BY <1>1

LEMMA TakenRest == ASSUME NEW t, Rest(t) PROVE \A u \in LogThread : u # t => J!Taken(u)' = J!Taken(u)
BY DEF Rest, J!Taken

LEMMA TakenNow ==
    ASSUME NEW t, NEW pc, NEW slot, NEW event, NEW cb, NEW mine, Now(t, pc, slot, event, cb, mine)
    PROVE  J!Taken(t)' = J!Range(mine) \cup (IF pc = "ask" THEN cb ELSE {})
BY DEF Now, J!Taken

\* A thread that neither asks nor logs has no request.
LEMMA TakenIdle ==
    ASSUME NEW t, InStep(t), logAt[t].pc \notin {"ask", "log"}
    PROVE  J!Taken(t) = {} /\ logAt[t].mine = <<>>
BY EmptyRange DEF InStep, J!Taken

\* RequestsAreKept, block by block.
OnePlace(c) ==
    /\ c \in logAsked <=> (\E t \in LogThread : c \in J!Taken(t)) \/ c \in J!Range(logQueue) \/ c \in called
    /\ \A t, u \in LogThread : c \in J!Taken(t) /\ c \in J!Taken(u) => t = u
    /\ \A t \in LogThread : c \in J!Taken(t) => c \notin J!Range(logQueue) /\ c \notin called
    /\ c \in J!Range(logQueue) => c \notin called
    /\ c \in logAsked => c \notin J!Range(pooled)
    /\ c \in LogPool => c \in logAsked \/ c \in J!Range(pooled)
InPlaces == (\A c : OnePlace(c)) /\ J!IsInjective(logQueue) /\ J!IsInjective(pooled)

LEMMA KeptIs == J!RequestsAreKept <=> InPlaces
<1> DEFINE All == UNION {J!Taken(t) : t \in LogThread}
<1>1. PICK T : T = All OBVIOUS
<1>2. \A c : c \in T <=> \E t \in LogThread : c \in J!Taken(t) BY <1>1
<1>6. J!RequestsAreKept <=>
        /\ logAsked = All \cup J!Range(logQueue) \cup called
        /\ \A t, u \in LogThread : t # u => J!Taken(t) \cap J!Taken(u) = {}
        /\ \A t \in LogThread : J!Taken(t) \cap (J!Range(logQueue) \cup called) = {}
        /\ J!Range(logQueue) \cap called = {} /\ J!IsInjective(logQueue)
        /\ logAsked \cap J!Range(pooled) = {} /\ J!IsInjective(pooled)
        /\ LogPool \subseteq logAsked \cup J!Range(pooled)
  BY DEF J!RequestsAreKept
<1> HIDE DEF All
<1>3. ASSUME J!RequestsAreKept PROVE InPlaces
  <2>1. /\ logAsked = T \cup J!Range(logQueue) \cup called
        /\ \A t, u \in LogThread : t # u => J!Taken(t) \cap J!Taken(u) = {}
        /\ \A t \in LogThread : J!Taken(t) \cap (J!Range(logQueue) \cup called) = {}
        /\ J!Range(logQueue) \cap called = {} /\ J!IsInjective(logQueue)
        /\ logAsked \cap J!Range(pooled) = {} /\ J!IsInjective(pooled)
        /\ LogPool \subseteq logAsked \cup J!Range(pooled)
    BY <1>1, <1>3, <1>6
  <2>2. ASSUME NEW c PROVE OnePlace(c) BY <1>2, <2>1 DEF OnePlace
  <2>3. QED BY <2>1, <2>2 DEF InPlaces
<1>4. ASSUME InPlaces PROVE J!RequestsAreKept
  <2>1. /\ \A c : c \in logAsked <=> c \in T \/ c \in J!Range(logQueue) \/ c \in called
        /\ \A c : \A t, u \in LogThread : c \in J!Taken(t) /\ c \in J!Taken(u) => t = u
        /\ \A c : \A t \in LogThread : c \in J!Taken(t) => c \notin J!Range(logQueue) /\ c \notin called
        /\ \A c : c \in J!Range(logQueue) => c \notin called
        /\ \A c : c \in logAsked => c \notin J!Range(pooled)
        /\ \A c : c \in LogPool => c \in logAsked \/ c \in J!Range(pooled)
        /\ J!IsInjective(logQueue) /\ J!IsInjective(pooled)
    BY <1>2, <1>4 DEF InPlaces, OnePlace
  <2>2. logAsked = T \cup J!Range(logQueue) \cup called BY <2>1
  <2>3. \A t, u \in LogThread : t # u => J!Taken(t) \cap J!Taken(u) = {} BY <2>1
  <2>4. \A t \in LogThread : J!Taken(t) \cap (J!Range(logQueue) \cup called) = {} BY <2>1
  <2>5. J!Range(logQueue) \cap called = {} /\ logAsked \cap J!Range(pooled) = {}
        /\ LogPool \subseteq logAsked \cup J!Range(pooled)
    BY <2>1
  <2>6. QED BY <1>1, <2>1, <2>2, <2>3, <2>4, <2>5, <1>6
<1>5. QED BY <1>3, <1>4
LEMMA KeptIsNext == J!RequestsAreKept' <=> InPlaces' BY KeptIs, PTL

\* The requests stay where they are.
Unmoved == /\ logAsked' = logAsked /\ logQueue' = logQueue /\ called' = called /\ pooled' = pooled

LEMMA NothingMoves ==
    ASSUME LogRequests, NEW t \in LogThread, Rest(t), Unmoved, InStep(t)', J!Taken(t)' = J!Taken(t)
    PROVE  LogRequests'
<1>1. \A u \in LogThread : J!Taken(u)' = J!Taken(u) BY TakenRest
<1>2. ASSUME NEW c PROVE OnePlace(c)'
  <2>1. OnePlace(c) BY KeptIs DEF LogRequests, InPlaces
  <2>2. QED BY <1>1, <2>1 DEF OnePlace, Unmoved
<1>3. InPlaces' BY <1>2, KeptIs DEF InPlaces, LogRequests, Unmoved
<1>4. QED BY <1>3, StepsKept, KeptIsNext DEF LogRequests

\* One request goes from one place to another, or all in the queue to a worker.
LEMMA RequestAsked ==
    ASSUME LogRequests, NEW t \in LogThread, Rest(t), InStep(t)', J!Taken(t) = {}, NEW c,
           c \notin logAsked, J!Taken(t)' = {c}, logAsked' = logAsked \cup {c},
           logQueue' = logQueue, called' = called, J!IsInjective(pooled'),
           J!Range(pooled') = J!Range(pooled) \ {c}
    PROVE  LogRequests'
<1>1. \A u \in LogThread : u # t => J!Taken(u)' = J!Taken(u) BY TakenRest
<1>2. ASSUME NEW d PROVE OnePlace(d)'
  <2>1. OnePlace(d) BY KeptIs DEF LogRequests, InPlaces
  <2>2. CASE d = c
    <3>1. /\ \A u \in LogThread : d \notin J!Taken(u)
          /\ d \notin J!Range(logQueue) /\ d \notin called
      BY <2>1, <2>2 DEF OnePlace
    <3>2. d \in J!Taken(t)' /\ \A u \in LogThread : u # t => d \notin J!Taken(u)'
      BY <1>1, <2>2, <3>1
    <3>3. QED BY <2>2, <3>1, <3>2 DEF OnePlace
  <2>3. CASE d # c
    <3>1. \A u \in LogThread : d \in J!Taken(u)' <=> d \in J!Taken(u) BY <1>1, <2>3
    <3>2. d \in logAsked' <=> d \in logAsked BY <2>3
    <3>3. d \in J!Range(pooled') <=> d \in J!Range(pooled) BY <2>3
    <3>4. QED BY <2>1, <3>1, <3>2, <3>3 DEF OnePlace
  <2>4. QED BY <2>2, <2>3
<1>3. InPlaces' BY <1>2, KeptIs DEF InPlaces, LogRequests
<1>4. QED BY <1>3, StepsKept, KeptIsNext DEF LogRequests

LEMMA RequestQueued ==
    ASSUME LogRequests, NEW t \in LogThread, Rest(t), InStep(t)', NEW c, J!Taken(t) = {c},
           J!Taken(t)' = {}, logAsked' = logAsked, called' = called, pooled' = pooled,
           J!IsInjective(logQueue'), J!Range(logQueue') = J!Range(logQueue) \cup {c}
    PROVE  LogRequests'
<1>1. \A u \in LogThread : u # t => J!Taken(u)' = J!Taken(u) BY TakenRest
<1>2. ASSUME NEW d PROVE OnePlace(d)'
  <2>1. OnePlace(d) BY KeptIs DEF LogRequests, InPlaces
  <2>2. CASE d = c
    <3>1. d \in J!Taken(t) BY <2>2
    <3>2. /\ d \in logAsked /\ d \notin called
          /\ \A u \in LogThread : d \in J!Taken(u) => u = t
      BY <2>1, <3>1 DEF OnePlace
    <3>3. \A u \in LogThread : d \notin J!Taken(u)' BY <1>1, <3>2
    <3>4. d \in J!Range(logQueue') BY <2>2
    <3>5. QED BY <2>1, <3>2, <3>3, <3>4 DEF OnePlace
  <2>3. CASE d # c
    <3>1. \A u \in LogThread : d \in J!Taken(u)' <=> d \in J!Taken(u) BY <1>1, <2>3
    <3>2. d \in J!Range(logQueue') <=> d \in J!Range(logQueue) BY <2>3
    <3>3. QED BY <2>1, <3>1, <3>2 DEF OnePlace
  <2>4. QED BY <2>2, <2>3
<1>3. InPlaces' BY <1>2, KeptIs DEF InPlaces, LogRequests
<1>4. QED BY <1>3, StepsKept, KeptIsNext DEF LogRequests

LEMMA QueueFetched ==
    ASSUME LogRequests, NEW t \in LogThread, Rest(t), InStep(t)', J!Taken(t) = {},
           J!Taken(t)' = J!Range(logQueue), logQueue' = <<>>,
           logAsked' = logAsked, called' = called, pooled' = pooled
    PROVE  LogRequests'
<1>1. \A u \in LogThread : u # t => J!Taken(u)' = J!Taken(u) BY TakenRest
<1>2. J!Range(logQueue') = {} /\ J!IsInjective(logQueue') BY EmptyRange
<1>3. ASSUME NEW d PROVE OnePlace(d)'
  <2>1. OnePlace(d) BY KeptIs DEF LogRequests, InPlaces
  <2>2. CASE d \in J!Range(logQueue)
    <3>1. /\ d \in logAsked /\ d \notin called
          /\ \A u \in LogThread : d \notin J!Taken(u)
      BY <2>1, <2>2 DEF OnePlace
    <3>2. d \in J!Taken(t)' /\ \A u \in LogThread : u # t => d \notin J!Taken(u)'
      BY <1>1, <2>2, <3>1
    <3>3. QED BY <1>2, <2>1, <3>1, <3>2 DEF OnePlace
  <2>3. CASE d \notin J!Range(logQueue)
    <3>1. \A u \in LogThread : d \in J!Taken(u)' <=> d \in J!Taken(u) BY <1>1, <2>3
    <3>2. d \notin J!Range(logQueue') BY <1>2
    <3>3. QED BY <2>1, <2>3, <3>1, <3>2 DEF OnePlace
  <2>4. QED BY <2>2, <2>3
<1>4. InPlaces' BY <1>2, <1>3, KeptIs DEF InPlaces, LogRequests
<1>5. QED BY <1>4, StepsKept, KeptIsNext DEF LogRequests

LEMMA RequestCalled ==
    ASSUME LogRequests, NEW t \in LogThread, Rest(t), InStep(t)', NEW c \in J!Taken(t),
           J!Taken(t)' = J!Taken(t) \ {c}, called' = called \cup {c},
           logAsked' = logAsked, logQueue' = logQueue, pooled' = pooled
    PROVE  LogRequests'
<1>1. \A u \in LogThread : u # t => J!Taken(u)' = J!Taken(u) BY TakenRest
<1>2. ASSUME NEW d PROVE OnePlace(d)'
  <2>1. OnePlace(d) BY KeptIs DEF LogRequests, InPlaces
  <2>2. CASE d = c
    <3>1. d \in J!Taken(t) BY <2>2
    <3>2. /\ d \in logAsked /\ d \notin J!Range(logQueue)
          /\ \A u \in LogThread : d \in J!Taken(u) => u = t
      BY <2>1, <3>1 DEF OnePlace
    <3>3. \A u \in LogThread : d \notin J!Taken(u)' BY <1>1, <2>2, <3>2
    <3>4. d \in called' BY <2>2
    <3>5. QED BY <2>1, <3>2, <3>3, <3>4 DEF OnePlace
  <2>3. CASE d # c
    <3>1. \A u \in LogThread : d \in J!Taken(u)' <=> d \in J!Taken(u) BY <1>1, <2>3
    <3>2. d \in called' <=> d \in called BY <2>3
    <3>3. QED BY <2>1, <3>1, <3>2 DEF OnePlace
  <2>4. QED BY <2>2, <2>3
<1>3. InPlaces' BY <1>2, KeptIs DEF InPlaces, LogRequests
<1>4. QED BY <1>3, StepsKept, KeptIsNext DEF LogRequests

LEMMA CallbackKeeps ==
    ASSUME LogTyped, LogRequests, NEW c \in called, J!Callback(c)
    PROVE  LogRequests'
<1>1. \A d : OnePlace(d) BY KeptIs DEF LogRequests, InPlaces
<1>2. /\ c \in logAsked /\ c \notin J!Range(logQueue) /\ c \notin J!Range(pooled)
      /\ \A u \in LogThread : c \notin J!Taken(u)
  BY <1>1 DEF OnePlace
<1>3. /\ logAsked' = logAsked \ {c} /\ called' = called \ {c} /\ logQueue' = logQueue /\ logAt' = logAt
      /\ pooled' = IF c \in LogPool THEN Append(pooled, c) ELSE pooled
  BY DEF J!Callback
<1>4. \A u \in LogThread : J!Taken(u)' = J!Taken(u) BY <1>3 DEF J!Taken
<1>5. J!IsInjective(pooled) /\ J!IsInjective(logQueue) BY KeptIs DEF LogRequests, InPlaces
<1>6. /\ J!Range(pooled') = IF c \in LogPool THEN J!Range(pooled) \cup {c} ELSE J!Range(pooled)
      /\ J!IsInjective(pooled')
  <2>1. pooled \in Seq(LogPool) BY DEF LogTyped
  <2>2. CASE c \in LogPool
    <3>1. /\ J!Range(Append(pooled, c)) = J!Range(pooled) \cup {c}
          /\ J!IsInjective(Append(pooled, c))
      BY <1>2, <1>5, <2>1, <2>2, AppendRange
    <3>2. QED BY <1>3, <2>2, <3>1
  <2>3. CASE c \notin LogPool BY <1>3, <1>5, <2>3
  <2>4. QED BY <2>2, <2>3
<1>7. ASSUME NEW d PROVE OnePlace(d)'
  <2>1. OnePlace(d) BY <1>1
  <2>2. CASE d = c
    <3>1. d \notin logAsked' /\ d \notin called' BY <1>3, <2>2
    <3>2. d \notin J!Range(logQueue') /\ \A u \in LogThread : d \notin J!Taken(u)'
      BY <1>2, <1>3, <1>4, <2>2
    <3>3. d \in LogPool => d \in J!Range(pooled') BY <1>6, <2>2
    <3>4. QED BY <3>1, <3>2, <3>3 DEF OnePlace
  <2>3. CASE d # c
    <3>1. d \in logAsked' <=> d \in logAsked BY <1>3, <2>3
    <3>2. d \in called' <=> d \in called BY <1>3, <2>3
    <3>3. d \in J!Range(pooled') <=> d \in J!Range(pooled) BY <1>6, <2>3
    <3>4. QED BY <1>3, <1>4, <2>1, <3>1, <3>2, <3>3 DEF OnePlace
  <2>4. QED BY <2>2, <2>3
<1>8. InPlaces' BY <1>3, <1>5, <1>6, <1>7 DEF InPlaces
<1>9. \A u \in LogThread : InStep(u)' BY <1>3 DEF LogRequests, InStep
<1>10. QED BY <1>8, <1>9, KeptIsNext DEF LogRequests
-----------------------------------------------------------------------------
LEMMA InStepNow ==
    ASSUME NEW t, NEW pc, NEW slot, NEW event, NEW cb, NEW mine, Now(t, pc, slot, event, cb, mine),
           pc = "ask" => \E c \in Blocks : cb = {c},
           pc = "log" <=> mine # <<>>, J!IsInjective(mine)
    PROVE  InStep(t)'
BY DEF Now, InStep

\* Steps that take no request and give none away.
LEMMA GoesOn ==
    ASSUME LogRequests, NEW t \in LogThread, NEW pc, NEW slot, NEW event, NEW cb, Unmoved,
           \/ Now(t, pc, slot, event, cb, logAt[t].mine)
           \/ Now(t, pc, slot, event, cb, <<>>),
           pc \notin {"ask", "log"}, logAt[t].pc \notin {"ask", "log"}
    PROVE  LogRequests'
<1>1. InStep(t) BY DEF LogRequests
<1>2. J!Taken(t) = {} /\ logAt[t].mine = <<>> BY <1>1, TakenIdle
<1>3. Now(t, pc, slot, event, cb, <<>>) BY <1>2
<1>4. InStep(t)' BY <1>3, EmptyRange, InStepNow
<1>5. J!Taken(t)' = {} BY <1>3, EmptyRange, TakenNow
<1>6. Rest(t) BY <1>3 DEF Now
<1>7. QED BY <1>2, <1>4, <1>5, <1>6, NothingMoves

LEMMA StaysPut ==
    ASSUME LogRequests, Unmoved, logAt' = logAt
    PROVE  LogRequests'
<1>1. \A u \in LogThread : InStep(u)' BY DEF LogRequests, InStep
<1>2. ASSUME NEW c PROVE OnePlace(c)'
  <2>1. OnePlace(c) BY KeptIs DEF LogRequests, InPlaces
  <2>2. \A u \in LogThread : J!Taken(u)' = J!Taken(u) BY DEF J!Taken
  <2>3. QED BY <2>1, <2>2 DEF OnePlace, Unmoved
<1>3. InPlaces' BY <1>2, KeptIs DEF InPlaces, LogRequests, Unmoved
<1>4. QED BY <1>1, <1>3, KeptIsNext DEF LogRequests

LEMMA PooledRange == ASSUME NEW S, NEW s \in Seq(S) PROVE J!Range(s) \subseteq S
<1>1. DOMAIN s = 1 .. Len(s) /\ \A i \in 1 .. Len(s) : s[i] \in S OBVIOUS
<1>2. QED BY <1>1 DEF J!Range

LEMMA RequestsKept ==
    ASSUME LogTyped, LogRequests, J!ConstantsMakeSense, J!Next
    PROVE  LogRequests'
<1>1. logAt \in [LogThread -> Workers] /\ logQueue \in Seq(Blocks) /\ pooled \in Seq(LogPool)
  BY DEF LogTyped
<1>2. J!IsInjective(logQueue) /\ J!IsInjective(pooled) /\ logAsked \cap J!Range(pooled) = {}
  BY DEF LogRequests, J!RequestsAreKept
<1>3. ASSUME NEW t \in LogThread, J!udi_trace_write(t) PROVE LogRequests'
  <2>1. Now(t, "fill", producer, logEvents + 1, {}, <<>>) BY <1>3, TracesAt
  <2>2. Unmoved /\ logAt[t].pc = "idle"
    BY <1>3 DEF J!udi_trace_write, J!Writes, J!IsAt, Unmoved
  <2>3. QED BY <2>1, <2>2, GoesOn
<1>4. ASSUME NEW t \in LogThread, J!udi_log_write(t) PROVE LogRequests'
  <2>1. PICK c \in Blocks : c = t BY DEF Blocks
  <2>2. /\ logAt' = [logAt EXCEPT ![t] = [J!Idle EXCEPT !.pc = "ask", !.cb = {c}]]
        /\ logAt[t].pc = "idle" /\ c \notin logAsked /\ logAsked' = logAsked \cup {c}
        /\ logQueue' = logQueue /\ called' = called /\ pooled' = pooled
    BY <1>4, <2>1 DEF J!udi_log_write, J!Writes, J!IsAt
  <2>3. Now(t, "ask", 0, 0, {c}, <<>>) BY <2>2, AsksAt
  <2>4. J!Taken(t)' = {c} BY <2>3, EmptyRange, TakenNow
  <2>5. InStep(t)' BY <2>3, EmptyRange, InStepNow
  <2>6. J!Taken(t) = {} BY <2>2, TakenIdle DEF LogRequests
  <2>7. Rest(t) BY <2>3 DEF Now
  <2>8. c \notin LogPool BY <2>1 DEF J!ConstantsMakeSense
  <2>9. J!Range(pooled) = J!Range(pooled) \ {c}
    <3>1. J!Range(pooled) \subseteq LogPool BY <1>1, PooledRange
    <3>2. QED BY <2>8, <3>1
  <2>10. QED BY <1>2, <2>2, <2>4, <2>5, <2>6, <2>7, <2>9, RequestAsked
<1>5. ASSUME NEW t \in LogThread, J!_udi_env_log_write(t) PROVE LogRequests'
  <2>1. Unmoved /\ logAt[t].pc = "idle"
    BY <1>5 DEF J!_udi_env_log_write, J!Writes, J!IsAt, Unmoved
  <2>2. CASE J!Goes(t, "take")
    <3>1. PICK pc : pc = "take" OBVIOUS
    <3>2. Now(t, pc, logAt[t].slot, logAt[t].event, logAt[t].cb, logAt[t].mine)
      BY <1>1, <2>2, <3>1, GoesTo DEF Steps
    <3>3. pc \notin {"ask", "log"} /\ logAt[t].pc \notin {"ask", "log"} BY <2>1, <3>1
    <3>4. QED BY <2>1, <3>2, <3>3, GoesOn
  <2>3. CASE logAt' = logAt BY <2>1, <2>3, StaysPut
  <2>4. QED BY <1>5, <2>2, <2>3 DEF J!_udi_env_log_write
<1>6. ASSUME NEW t \in LogThread, J!Take(t) PROVE LogRequests'
  <2>1. Unmoved /\ logAt[t].pc = "take" BY <1>6 DEF J!Take, J!IsAt, Unmoved
  <2>2. CASE pooled = <<>>
    <3>1. logAt' = logAt BY <1>6, <2>2 DEF J!Take
    <3>2. QED BY <2>1, <3>1, StaysPut
  <2>3. CASE pooled # <<>>
    <3>1. Head(pooled) \in LogPool BY <1>1, <2>3
    <3>2. PICK c \in Blocks : c = Head(pooled) BY <3>1 DEF Blocks
    <3>3. PICK pc \in {"ask", "unlink"} : pc = "unlink" OBVIOUS
    <3>4. logAt' = [logAt EXCEPT ![t] = [J!Idle EXCEPT !.pc = pc, !.cb = {c}]]
      BY <1>6, <2>3, <3>2, <3>3 DEF J!Take
    <3>5. Now(t, pc, 0, 0, {c}, <<>>) BY <3>4, AsksAt
    <3>6. pc \notin {"ask", "log"} /\ logAt[t].pc \notin {"ask", "log"} BY <2>1, <3>3
    <3>7. QED BY <2>1, <3>5, <3>6, GoesOn
  <2>4. QED BY <2>2, <2>3
<1>13. ASSUME NEW t \in LogThread, J!Unlink(t) PROVE LogRequests'
  <2>1. /\ logAt[t].pc = "unlink" /\ logQueue' = logQueue /\ called' = called
        /\ logAt[t].cb \in SUBSET Blocks
    BY <1>1, <1>13 DEF J!Unlink, J!IsAt, Workers
  <2>2. CASE Unmoved /\ logAt' = logAt BY <2>2, StaysPut
  <2>3. ASSUME NEW c \in logAt[t].cb, NEW i \in DOMAIN pooled, pooled[i] = c,
               pooled' = J!RemoveAt(pooled, i), logAsked' = logAsked \cup {c},
               logAt' = [logAt EXCEPT ![t] = [J!Idle EXCEPT !.pc = "ask", !.cb = {c}]]
        PROVE  LogRequests'
    <3>1. /\ c \in J!Range(pooled) /\ J!Range(pooled') = J!Range(pooled) \ {c}
          /\ J!IsInjective(pooled')
      BY <1>1, <1>2, <2>3, RemovedRange
    <3>2. c \in Blocks BY <2>1
    <3>3. Now(t, "ask", 0, 0, {c}, <<>>) BY <2>3, <3>2, AsksAt
    <3>4. J!Taken(t)' = {c} BY <3>3, EmptyRange, TakenNow
    <3>5. InStep(t)' BY <3>2, <3>3, EmptyRange, InStepNow
    <3>6. J!Taken(t) = {} BY <2>1, TakenIdle DEF LogRequests
    <3>7. Rest(t) BY <3>3 DEF Now
    <3>8. c \notin logAsked BY <1>2, <3>1
    <3>9. QED BY <2>1, <2>3, <3>1, <3>4, <3>5, <3>6, <3>7, <3>8, RequestAsked
  <2>4. QED BY <1>13, <2>1, <2>2, <2>3 DEF J!Unlink, Unmoved
<1>7. ASSUME NEW t \in LogThread, J!_udi_log_vwrite(t) PROVE LogRequests'
  <2>1. logAt[t].pc = "ask" /\ InStep(t) BY <1>7 DEF J!_udi_log_vwrite, J!IsAt, LogRequests
  <2>2. PICK c \in Blocks : logAt[t].cb = {c} BY <2>1 DEF InStep
  <2>3. /\ logQueue' = Append(logQueue, c) /\ logAsked' = logAsked /\ called' = called
        /\ pooled' = pooled
    BY <1>7, <2>2 DEF J!_udi_log_vwrite
  <2>4. J!Taken(t) = {c} BY <2>1, <2>2, EmptyRange DEF J!Taken, InStep
  <2>5. Now(t, "look", 0, 0, {}, <<>>) BY <1>7, QueuesAt
  <2>6. J!Taken(t)' = {} BY <2>5, EmptyRange, TakenNow
  <2>7. InStep(t)' BY <2>5, EmptyRange, InStepNow
  <2>8. c \notin J!Range(logQueue) BY <2>4 DEF LogRequests, J!RequestsAreKept
  <2>9. J!IsInjective(logQueue') /\ J!Range(logQueue') = J!Range(logQueue) \cup {c}
    BY <1>1, <1>2, <2>3, <2>8, AppendRange
  <2>10. Rest(t) BY <2>5 DEF Now
  <2>11. QED BY <2>3, <2>4, <2>6, <2>7, <2>9, <2>10, RequestQueued
<1>8. ASSUME NEW t \in LogThread, J!Fill(t) \/ J!Commit(t) \/ J!Consume(t) \/ J!Output(t) PROVE LogRequests'
  <2>1. Unmoved BY <1>8 DEF J!Fill, J!Commit, J!Consume, J!Output, Unmoved
  <2>2. logAt[t].pc \notin {"ask", "log"}
    BY <1>8 DEF J!Fill, J!Commit, J!Consume, J!Output, J!IsAt
  <2>3. PICK pc \in {"commit", "look", "print"} : J!Goes(t, pc)
    BY <1>8 DEF J!Fill, J!Commit, J!Consume, J!Output
  <2>4. Now(t, pc, logAt[t].slot, logAt[t].event, logAt[t].cb, logAt[t].mine)
    BY <1>1, <2>3, GoesTo DEF Steps
  <2>5. QED BY <2>1, <2>2, <2>4, GoesOn
<1>9. ASSUME NEW t \in LogThread, J!_udi_trlog_fmt(t) \/ J!Leave(t) PROVE LogRequests'
  <2>1. Unmoved BY <1>9 DEF J!_udi_trlog_fmt, J!Leave, Unmoved
  <2>2. logAt[t].pc \notin {"ask", "log"} BY <1>9 DEF J!_udi_trlog_fmt, J!Leave, J!IsAt
  <2>3. PICK pc \in {"next", "look", "idle"} : J!Goes(t, pc)
    BY <1>9, Zenon DEF J!_udi_trlog_fmt, J!Leave
  <2>4. Now(t, pc, logAt[t].slot, logAt[t].event, logAt[t].cb, logAt[t].mine)
    BY <1>1, <2>3, GoesTo DEF Steps
  <2>5. QED BY <2>1, <2>2, <2>4, GoesOn
<1>10. ASSUME NEW t \in LogThread, J!Look(t) PROVE LogRequests'
  <2>1. /\ logAsked' = logAsked /\ called' = called /\ pooled' = pooled /\ logAt[t].pc = "look"
    BY <1>10 DEF J!Look, J!IsAt
  <2>2. CASE /\ ~J!Nothing /\ logQueue' = logQueue
             /\ Now(t, "format", consumer, logAt[t].event, logAt[t].cb, logAt[t].mine)
    <3>1. Unmoved BY <2>1, <2>2 DEF Unmoved
    <3>2. PICK pc : pc = "format" OBVIOUS
    <3>3. Now(t, pc, consumer, logAt[t].event, logAt[t].cb, logAt[t].mine) BY <2>2, <3>2
    <3>4. pc \notin {"ask", "log"} /\ logAt[t].pc \notin {"ask", "log"} BY <2>1, <3>2
    <3>5. QED BY <3>1, <3>3, <3>4, GoesOn
  <2>3. ASSUME logQueue' = <<>>, NEW pc \in {"final", "log"}, pc = "log" <=> logQueue # <<>>,
               Now(t, pc, logAt[t].slot, logAt[t].event, logAt[t].cb, logQueue)
        PROVE  LogRequests'
    <3>1. J!Taken(t)' = J!Range(logQueue)
      <4>1. J!Taken(t)' = J!Range(logQueue) \cup (IF pc = "ask" THEN logAt[t].cb ELSE {})
        BY <2>3, TakenNow
      <4>2. QED BY <2>3, <4>1
    <3>2. InStep(t)' BY <1>2, <2>3, InStepNow
    <3>3. J!Taken(t) = {} BY <2>1, TakenIdle DEF LogRequests
    <3>4. Rest(t) BY <2>3 DEF Now
    <3>5. QED BY <2>1, <2>3, <3>1, <3>2, <3>3, <3>4, QueueFetched
  <2>4. QED BY <1>10, <2>2, <2>3, LooksAt
<1>11. ASSUME NEW t \in LogThread, J!Log(t) PROVE LogRequests'
  <2>1. logAt[t].pc = "log" /\ InStep(t) BY <1>11 DEF J!Log, J!IsAt, LogRequests
  <2>2. logAt[t].mine # <<>> /\ J!IsInjective(logAt[t].mine) /\ J!Taken(t) = J!Range(logAt[t].mine)
    BY <2>1 DEF InStep, J!Taken
  <2>3. PICK m \in Seq(Blocks) : m = logAt[t].mine BY <1>1 DEF Workers
  <2>4. /\ Head(m) \in J!Range(m) /\ J!Range(Tail(m)) = J!Range(m) \ {Head(m)}
        /\ J!IsInjective(Tail(m))
    BY <2>2, <2>3, TailRange
  <2>5. PICK pc \in {"final", "log"} :
              /\ pc = "log" <=> Tail(m) # <<>>
              /\ Now(t, pc, logAt[t].slot, logAt[t].event, logAt[t].cb, Tail(m))
    BY <1>11, <2>2, <2>3, LogsAt
  <2>6. J!Taken(t)' = J!Range(Tail(m))
    <3>1. J!Taken(t)' = J!Range(Tail(m)) \cup (IF pc = "ask" THEN logAt[t].cb ELSE {})
      BY <2>5, TakenNow
    <3>2. QED BY <2>5, <3>1
  <2>7. InStep(t)' BY <2>4, <2>5, InStepNow
  <2>8. Rest(t) BY <2>5 DEF Now
  <2>9. /\ called' = called \cup {Head(m)} /\ logAsked' = logAsked /\ logQueue' = logQueue
        /\ pooled' = pooled
    BY <1>11, <2>3 DEF J!Log
  <2>10. PICK c : c = Head(m) OBVIOUS
  <2>11. c \in J!Taken(t) /\ J!Taken(t)' = J!Taken(t) \ {c} BY <2>2, <2>3, <2>4, <2>6, <2>10
  <2>12. QED BY <2>7, <2>8, <2>9, <2>10, <2>11, RequestCalled
<1>12. ASSUME NEW t \in LogThread, J!_udi_region_destroy(t) PROVE LogRequests'
  <2>1. Unmoved /\ logAt' = logAt BY <1>12 DEF J!_udi_region_destroy, Unmoved
  <2>2. QED BY <2>1, StaysPut
<1>14. QED
  BY <1>3, <1>4, <1>5, <1>6, <1>7, <1>8, <1>9, <1>10, <1>11, <1>12, <1>13,
     CallbackKeeps
  DEF J!Next, J!Runs, J!_udi_trlog_daemon_work
-----------------------------------------------------------------------------
(* The ring.                                                                 *)
LEMMA RingIs ==
    ASSUME J!ConstantsMakeSense, consumer \in Places, producer \in Places
    PROVE  /\ Count \in 0 .. LogSize - 1 /\ (Count = 0 <=> consumer = producer)
           /\ LogSize - 1 \in Nat /\ LogSize - 1 > 0
           /\ Behind(0) = consumer /\ Behind(Count) = producer
           /\ \A i \in 0 .. LogSize - 1 : Behind(i) \in Places
           /\ \A i \in Left : i \in 0 .. LogSize - 1 /\ i < Count /\ Behind(i) # producer
           /\ \A i \in Nat : i < Count => i \in Left
BY DEF J!ConstantsMakeSense, Places, Count, Behind, Left

\* The oldest event leaves.
LEMMA RingConsumed ==
    ASSUME J!ConstantsMakeSense, consumer \in Places, producer \in Places,
           consumer' = J!After(consumer), producer' = producer, consumer # producer
    PROVE  /\ consumer' \in Places
           /\ Count' = Count - 1
           /\ \A i \in 0 .. LogSize - 2 : Behind(i)' = Behind(i + 1)
<1>1. consumer' \in Places /\ consumer' = IF consumer + 1 < LogSize THEN consumer + 1 ELSE 0
  BY AfterIs
<1>2. Count' = Count - 1 BY <1>1 DEF J!ConstantsMakeSense, Places, Count
<1>3. \A i \in 0 .. LogSize - 2 : Behind(i)' = Behind(i + 1)
  BY <1>1 DEF J!ConstantsMakeSense, Places, Behind
<1>4. QED BY <1>1, <1>2, <1>3

\* A place is taken behind the last event.
LEMMA RingProduced ==
    ASSUME J!ConstantsMakeSense, consumer \in Places, producer \in Places,
           consumer' = consumer, producer' = J!After(producer), J!After(producer) # consumer
    PROVE  /\ Count' = Count + 1
           /\ \A i \in 0 .. LogSize - 1 : Behind(i)' = Behind(i)
<1>1. producer' \in Places /\ producer' = IF producer + 1 < LogSize THEN producer + 1 ELSE 0
  BY AfterIs
<1>2. producer' # consumer OBVIOUS
<1>3. Count' = Count + 1 BY <1>1, <1>2 DEF J!ConstantsMakeSense, Places, Count
<1>4. \A i \in 0 .. LogSize - 1 : Behind(i)' = Behind(i) BY DEF Behind
<1>5. QED BY <1>3, <1>4

\* In a full ring, both.
LEMMA RingTurned ==
    ASSUME J!ConstantsMakeSense, consumer \in Places, producer \in Places,
           consumer' = J!After(consumer), producer' = J!After(producer), J!After(producer) = consumer
    PROVE  /\ Count = LogSize - 1 /\ Count' = Count
           /\ \A i \in 0 .. LogSize - 2 : Behind(i)' = Behind(i + 1)
<1>1. consumer' \in Places /\ consumer' = IF consumer + 1 < LogSize THEN consumer + 1 ELSE 0
  BY AfterIs
<1>2. producer' = consumer /\ consumer = IF producer + 1 < LogSize THEN producer + 1 ELSE 0
  BY AfterIs
<1>3. Count = LogSize - 1 BY <1>2 DEF J!ConstantsMakeSense, Places, Count
<1>4. Count' = LogSize - 1 BY <1>1, <1>2 DEF J!ConstantsMakeSense, Places, Count
<1>5. \A i \in 0 .. LogSize - 2 : Behind(i)' = Behind(i + 1)
  BY <1>1 DEF J!ConstantsMakeSense, Places, Behind
<1>6. QED BY <1>3, <1>4, <1>5

\* When none of the events changes.
LEMMA EventsStay ==
    ASSUME Eventful, logEvents' = logEvents, logLast' = logLast, dropped' = dropped,
           Left' = Left, \A i \in Left : Event(i)' = Event(i),
           Hand' = Hand, Hand => fmtbuf' = fmtbuf
    PROVE  Eventful'
<1>1. Ordered' BY DEF Eventful, Ordered
<1>2. Accounted' BY DEF Eventful, Accounted
<1>3. GivenWay' BY DEF Eventful, GivenWay
<1>4. QED BY <1>1, <1>2, <1>3 DEF Eventful

LEMMA EventsLie ==
    ASSUME Eventful, J!Unring, Hand' = Hand, Hand => fmtbuf' = fmtbuf
    PROVE  Eventful'
<1>1. Left' = Left BY DEF Left, Count, J!Unring
<1>2. \A i \in Left : Event(i)' = Event(i) BY DEF Event, Behind, J!Unring
<1>3. QED BY <1>1, <1>2, EventsStay DEF J!Unring

\* What is written out was the oldest.
LEMMA EventOut ==
    ASSUME LogTyped, Eventful, Hand, ~Hand', logEvents' = logEvents, logLast' = fmtbuf, dropped' = dropped,
           Left' = Left, \A i \in Left : Event(i)' = Event(i)
    PROVE  Eventful'
<1>1. logEvents \in Nat /\ logLast \in Nat /\ fmtbuf \in Nat BY DEF LogTyped
<1>2. /\ logLast < fmtbuf /\ fmtbuf <= logEvents
      /\ \A i \in Left : fmtbuf < Event(i) /\ logLast < Event(i) /\ Event(i) <= logEvents
      /\ \A i, j \in Left : i < j => Event(i) < Event(j)
  BY DEF Eventful, Ordered
<1>3. Ordered' BY <1>1, <1>2 DEF Ordered
<1>4. Accounted'
  <2>1. SUFFICES ASSUME NEW e \in Nat, fmtbuf < e, e <= logEvents
                 PROVE  e \in dropped \/ \E i \in Left : e = Event(i)
    BY DEF Accounted
  <2>2. logLast < e /\ e # fmtbuf BY <1>1, <1>2, <2>1
  <2>3. QED BY <2>1, <2>2 DEF Eventful, Accounted
<1>5. GivenWay' BY DEF Eventful, GivenWay
<1>6. QED BY <1>3, <1>4, <1>5 DEF Eventful

\* The oldest event is taken in hand.
LEMMA EventConsumed ==
    ASSUME LogTyped, Eventful, ~Hand, Hand', logEvents' = logEvents, logLast' = logLast, dropped' = dropped,
           fmtbuf' = fmtbuf, NEW n \in Nat, n > 0, Left = 0 .. n - 1, Left' = 0 .. n - 2,
           fmtbuf = Event(0), \A i \in 0 .. n - 2 : Event(i)' = Event(i + 1)
    PROVE  Eventful'
<1>1. logEvents \in Nat /\ logLast \in Nat /\ fmtbuf \in Nat BY DEF LogTyped
<1>2. /\ logLast <= logEvents
      /\ \A i \in Left : logLast < Event(i) /\ Event(i) <= logEvents
      /\ \A i, j \in Left : i < j => Event(i) < Event(j)
  BY DEF Eventful, Ordered
<1>3. /\ 0 \in Left
      /\ \A i \in 0 .. n - 2 : i + 1 \in Left /\ 0 < i + 1
      /\ \A i \in Left : i = 0 \/ (i - 1 \in 0 .. n - 2 /\ (i - 1) + 1 = i)
  OBVIOUS
<1>4. Ordered'
  <2>1. \A i \in Left' : logLast < Event(i)' /\ Event(i)' <= logEvents BY <1>2, <1>3
  <2>2. ASSUME NEW i \in Left', NEW j \in Left', i < j PROVE Event(i)' < Event(j)'
    <3>1. i + 1 < j + 1 /\ i + 1 \in Left /\ j + 1 \in Left BY <1>3, <2>2
    <3>2. Event(i + 1) < Event(j + 1) BY <1>2, <3>1
    <3>3. QED BY <3>2
  <2>3. logLast < fmtbuf /\ fmtbuf <= logEvents BY <1>2, <1>3
  <2>4. \A i \in Left' : fmtbuf < Event(i)' BY <1>2, <1>3
  <2>5. QED BY <1>2, <2>1, <2>2, <2>3, <2>4 DEF Ordered
<1>5. Accounted'
  <2>1. SUFFICES ASSUME NEW e \in Nat, logLast < e, e <= logEvents
                 PROVE  e \in dropped \/ e = fmtbuf \/ \E i \in Left' : e = Event(i)'
    BY DEF Accounted
  <2>2. e \in dropped \/ \E i \in Left : e = Event(i) BY <2>1 DEF Eventful, Accounted
  <2>3. ASSUME NEW i \in Left, e = Event(i), i # 0 PROVE \E j \in Left' : e = Event(j)'
    <3>1. PICK j \in 0 .. n - 2 : j + 1 = i BY <1>3, <2>3
    <3>2. Event(j)' = Event(i) BY <3>1
    <3>3. QED BY <2>3, <3>2
  <2>4. QED BY <2>2, <2>3
<1>6. GivenWay' BY <1>3 DEF Eventful, GivenWay
<1>7. QED BY <1>4, <1>5, <1>6 DEF Eventful

\* A new event comes last.
LEMMA EventAdded ==
    ASSUME LogTyped, Eventful, Hand' = Hand, logEvents' = logEvents + 1, logLast' = logLast,
           dropped' = dropped, fmtbuf' = fmtbuf,
           NEW n \in Nat, Left = 0 .. n - 1, Left' = 0 .. n,
           \A i \in 0 .. n - 1 : Event(i)' = Event(i), Event(n)' = logEvents + 1,
           \A i \in Left : Event(i) \in Nat
    PROVE  Eventful'
<1>1. logEvents \in Nat /\ logLast \in Nat /\ fmtbuf \in Nat BY DEF LogTyped
<1>2. PICK m \in Nat : m = logEvents + 1 /\ logEvents < m BY <1>1
<1>3. /\ logLast <= logEvents
      /\ \A i \in Left : logLast < Event(i) /\ Event(i) <= logEvents
      /\ \A i, j \in Left : i < j => Event(i) < Event(j)
      /\ Hand => logLast < fmtbuf /\ fmtbuf <= logEvents /\ \A i \in Left : fmtbuf < Event(i)
  BY DEF Eventful, Ordered
<1>4. \A i \in Left' : i = n \/ i \in Left OBVIOUS
<1>5. n \in Left' /\ \A i \in Left : i \in Left' /\ Event(i)' = Event(i) OBVIOUS
<1>6. logEvents' = m /\ Event(n)' = m BY <1>2
<1>7. Ordered'
  <2>1. \A i \in Left' : logLast < Event(i)' /\ Event(i)' <= m
    <3>1. ASSUME NEW i \in Left PROVE logLast < Event(i) /\ Event(i) <= m
      BY <1>1, <1>2, <1>3
    <3>2. logLast < m BY <1>1, <1>2, <1>3
    <3>3. QED BY <1>1, <1>2, <1>4, <1>5, <1>6, <3>1, <3>2
  <2>2. ASSUME NEW i \in Left', NEW j \in Left', i < j PROVE Event(i)' < Event(j)'
    <3>1. i \in Left BY <1>4, <2>2
    <3>2. CASE j \in Left BY <1>3, <1>5, <2>2, <3>1, <3>2
    <3>3. CASE j = n
      <4>1. Event(i) <= logEvents /\ Event(i) \in Nat BY <1>3, <3>1
      <4>2. Event(i) < m BY <1>1, <1>2, <4>1
      <4>3. QED BY <1>5, <1>6, <3>1, <3>3, <4>2
    <3>4. QED BY <1>4, <2>2, <3>2, <3>3
  <2>3. ASSUME Hand PROVE logLast < fmtbuf /\ fmtbuf <= m /\ \A i \in Left' : fmtbuf < Event(i)'
    <3>1. logLast < fmtbuf /\ fmtbuf <= m /\ fmtbuf < m BY <1>1, <1>2, <1>3, <2>3
    <3>2. \A i \in Left : fmtbuf < Event(i) BY <1>3, <2>3
    <3>3. QED BY <1>4, <1>5, <1>6, <3>1, <3>2
  <2>4. logLast <= m BY <1>1, <1>2, <1>3
  <2>5. QED BY <1>6, <2>1, <2>2, <2>3, <2>4 DEF Ordered
<1>8. Accounted'
  <2>1. SUFFICES ASSUME NEW e \in Nat, logLast < e, e <= m
                 PROVE  e \in dropped \/ (Hand /\ e = fmtbuf) \/ \E i \in Left' : e = Event(i)'
    BY <1>6 DEF Accounted
  <2>2. e <= logEvents \/ e = m BY <1>1, <1>2, <2>1
  <2>3. CASE e = m BY <1>5, <1>6, <2>3
  <2>4. CASE e <= logEvents
    <3>1. e \in dropped \/ (Hand /\ e = fmtbuf) \/ \E i \in Left : e = Event(i)
      BY <2>1, <2>4 DEF Eventful, Accounted
    <3>2. QED BY <1>5, <3>1
  <2>5. QED BY <2>2, <2>3, <2>4
<1>9. GivenWay'
  <2>1. SUFFICES ASSUME NEW e \in dropped
                 PROVE  /\ e \in Nat /\ e <= m /\ e # logLast
                        /\ ~ (Hand /\ e = fmtbuf) /\ \A i \in Left' : e # Event(i)'
    BY <1>6 DEF GivenWay
  <2>2. /\ e \in Nat /\ e <= logEvents /\ e # logLast
        /\ ~ (Hand /\ e = fmtbuf) /\ \A i \in Left : e # Event(i)
    BY DEF Eventful, GivenWay
  <2>3. e <= m /\ e # m BY <1>1, <1>2, <2>2
  <2>4. QED BY <1>4, <1>5, <1>6, <2>2, <2>3
<1>10. QED BY <1>7, <1>8, <1>9 DEF Eventful

\* The oldest event gives way.
LEMMA EventDropped ==
    ASSUME LogTyped, Eventful, Hand' = Hand, logEvents' = logEvents + 1, logLast' = logLast,
           dropped' = dropped \cup {Event(0)}, fmtbuf' = fmtbuf,
           NEW n \in Nat, n > 0, Left = 0 .. n - 1, Left' = 0 .. n - 1,
           \A i \in 0 .. n - 2 : Event(i)' = Event(i + 1), Event(n - 1)' = logEvents + 1,
           \A i \in Left : Event(i) \in Nat
    PROVE  Eventful'
<1>1. logEvents \in Nat /\ logLast \in Nat /\ fmtbuf \in Nat BY DEF LogTyped
<1>2. PICK m \in Nat : m = logEvents + 1 /\ logEvents < m BY <1>1
<1>3. PICK z \in Left : z = n - 1 OBVIOUS
<1>4. /\ logLast <= logEvents
      /\ \A i \in Left : logLast < Event(i) /\ Event(i) <= logEvents
      /\ \A i, j \in Left : i < j => Event(i) < Event(j)
      /\ Hand => logLast < fmtbuf /\ fmtbuf <= logEvents /\ \A i \in Left : fmtbuf < Event(i)
  BY DEF Eventful, Ordered
<1>5. \A i \in Left' : i = z \/ (i \in 0 .. n - 2 /\ i + 1 \in Left /\ 0 < i + 1) BY <1>3
<1>6. logEvents' = m /\ Event(z)' = m /\ 0 \in Left BY <1>2, <1>3
<1>7. \A i \in Left' : Event(i)' = m \/ (i # z /\ i + 1 \in Left /\ 0 < i + 1 /\ Event(i)' = Event(i + 1))
  <2>1. \A i \in 0 .. n - 2 : i # z BY <1>3
  <2>2. QED BY <1>5, <1>6, <2>1
<1>8. ASSUME NEW i \in Left, i # 0 PROVE \E j \in Left' : Event(j)' = Event(i)
  <2>1. PICK j \in 0 .. n - 2 : j + 1 = i
    <3>1. i - 1 \in 0 .. n - 2 /\ (i - 1) + 1 = i BY <1>8
    <3>2. QED BY <3>1
  <2>2. Event(j)' = Event(i) /\ j \in Left' BY <2>1
  <2>3. QED BY <2>2
<1>9. Ordered'
  <2>1. \A i \in Left' : logLast < Event(i)' /\ Event(i)' <= m
    <3>1. ASSUME NEW i \in Left PROVE logLast < Event(i) /\ Event(i) <= m
      BY <1>1, <1>2, <1>4
    <3>2. logLast < m BY <1>1, <1>2, <1>4
    <3>3. TAKE i \in Left'
    <3>4. CASE Event(i)' = m
      <4>1. m <= m BY <1>2
      <4>2. QED BY <3>2, <3>4, <4>1
    <3>5. CASE i + 1 \in Left /\ Event(i)' = Event(i + 1)
      <4>1. PICK k \in Left : k = i + 1 BY <3>5
      <4>2. QED BY <3>1, <3>5, <4>1
    <3>6. QED BY <1>7, <3>4, <3>5
  <2>2. ASSUME NEW i \in Left', NEW j \in Left', i < j PROVE Event(i)' < Event(j)'
    <3>1. i # z BY <1>3, <2>2
    <3>2. i + 1 \in Left /\ Event(i)' = Event(i + 1) BY <1>5, <3>1
    <3>3. CASE j = z
      <4>1. Event(i + 1) <= logEvents /\ Event(i + 1) \in Nat BY <1>4, <3>2
      <4>2. Event(i + 1) < m BY <1>1, <1>2, <4>1
      <4>3. QED BY <1>6, <3>2, <3>3, <4>2
    <3>4. CASE j # z
      <4>1. j + 1 \in Left /\ Event(j)' = Event(j + 1) BY <1>5, <3>4
      <4>2. i + 1 < j + 1 BY <2>2
      <4>3. Event(i + 1) < Event(j + 1) BY <1>4, <3>2, <4>1, <4>2
      <4>4. QED BY <3>2, <4>1, <4>3
    <3>5. QED BY <3>3, <3>4
  <2>3. ASSUME Hand PROVE logLast < fmtbuf /\ fmtbuf <= m /\ \A i \in Left' : fmtbuf < Event(i)'
    <3>1. logLast < fmtbuf /\ fmtbuf <= m /\ fmtbuf < m BY <1>1, <1>2, <1>4, <2>3
    <3>2. \A i \in Left : fmtbuf < Event(i) BY <1>4, <2>3
    <3>3. QED BY <1>7, <3>1, <3>2
  <2>4. logLast <= m BY <1>1, <1>2, <1>4
  <2>5. QED BY <1>6, <2>1, <2>2, <2>3, <2>4 DEF Ordered
<1>10. Accounted'
  <2>1. SUFFICES ASSUME NEW e \in Nat, logLast < e, e <= m
                 PROVE  \/ e \in dropped \/ e = Event(0) \/ (Hand /\ e = fmtbuf)
                        \/ \E i \in Left' : e = Event(i)'
    BY <1>6 DEF Accounted
  <2>2. e <= logEvents \/ e = m BY <1>1, <1>2, <2>1
  <2>3. CASE e = m BY <1>3, <1>6, <2>3
  <2>4. CASE e <= logEvents
    <3>1. e \in dropped \/ (Hand /\ e = fmtbuf) \/ \E i \in Left : e = Event(i)
      BY <2>1, <2>4 DEF Eventful, Accounted
    <3>2. QED BY <1>8, <3>1
  <2>5. QED BY <2>2, <2>3, <2>4
<1>11. GivenWay'
  <2>1. SUFFICES ASSUME NEW e, e \in dropped \/ e = Event(0)
                 PROVE  /\ e \in Nat /\ e <= m /\ e # logLast
                        /\ ~ (Hand /\ e = fmtbuf) /\ \A i \in Left' : e # Event(i)'
    BY <1>6 DEF GivenWay
  <2>2. CASE e \in dropped
    <3>1. /\ e \in Nat /\ e <= logEvents /\ e # logLast
          /\ ~ (Hand /\ e = fmtbuf) /\ \A i \in Left : e # Event(i)
      BY <2>2 DEF Eventful, GivenWay
    <3>2. e <= m /\ e # m BY <1>1, <1>2, <3>1
    <3>3. QED BY <1>7, <3>1, <3>2
  <2>3. CASE e = Event(0)
    <3>1. /\ e \in Nat /\ logLast < e /\ e <= logEvents BY <1>4, <1>6, <2>3
    <3>2. Hand => fmtbuf < e BY <1>4, <1>6, <2>3
    <3>3. e <= m /\ e # m /\ e # logLast /\ ~(Hand /\ e = fmtbuf) BY <1>1, <1>2, <3>1, <3>2
    <3>4. ASSUME NEW i \in Left, 0 < i PROVE e # Event(i)
      <4>1. Event(0) < Event(i) /\ Event(i) \in Nat BY <1>4, <1>6, <3>4
      <4>2. QED BY <2>3, <3>1, <4>1
    <3>5. QED BY <1>7, <3>1, <3>3, <3>4
  <2>4. QED BY <2>1, <2>2, <2>3
<1>12. QED BY <1>9, <1>10, <1>11 DEF Eventful
-----------------------------------------------------------------------------
(* Who is where.                                                             *)
Busy == {"fill", "commit"} \cup J!AtWork
LogAlone(t) == \A u \in LogThread : u # t => logAt[u].pc \notin J!AtWork

LEMMA AloneIs ==
    ASSUME OneWorker, NEW t \in LogThread, logAt[t].pc \in J!AtWork
    PROVE  LogAlone(t)
BY DEF OneWorker, LogAlone

LEMMA AloneNow ==
    ASSUME NEW t \in LogThread, LogAlone(t), Rest(t)
    PROVE  /\ OneWorker' /\ (Hand <=> logAt[t].pc = "print") /\ (Hand' <=> logAt'[t].pc = "print")
           /\ \A u \in LogThread : logAt'[u].pc \in J!AtWork => u = t
<1>1. \A u \in LogThread : logAt'[u].pc \in J!AtWork => u = t BY DEF LogAlone, Rest
<1>2. OneWorker' BY <1>1 DEF OneWorker
<1>3. "print" \in J!AtWork BY DEF J!AtWork
<1>4. Hand <=> logAt[t].pc = "print" BY <1>3 DEF Hand, J!InHand, LogAlone
<1>5. Hand' <=> logAt'[t].pc = "print" BY <1>1, <1>3 DEF Hand, J!InHand
<1>6. QED BY <1>1, <1>2, <1>4, <1>5

LEMMA HandStays ==
    ASSUME NEW t \in LogThread, Rest(t), logAt[t].pc # "print", logAt'[t].pc # "print"
    PROVE  Hand' = Hand
<1>1. \A u \in LogThread : logAt'[u].pc = "print" <=> logAt[u].pc = "print" BY DEF Rest
<1>2. J!InHand' = J!InHand BY <1>1 DEF J!InHand
<1>3. QED BY <1>2 DEF Hand

LEMMA WorkerStays ==
    ASSUME OneWorker, NEW t \in LogThread, Rest(t), logAt'[t].pc \notin J!AtWork
    PROVE  OneWorker'
<1>1. \A u \in LogThread : logAt'[u].pc \in J!AtWork => logAt[u].pc \in J!AtWork BY DEF Rest
<1>2. QED BY <1>1 DEF OneWorker

LEMMA WritersStay ==
    ASSUME Writers, NEW t \in LogThread, Rest(t), logAt'[t].pc \notin {"fill", "commit"}, logRing' = logRing
    PROVE  Writers'
<1>1. \A u \in LogThread : Writing(u)' => Writing(u) /\ logAt'[u] = logAt[u]
  BY DEF Rest, Writing
<1>2. \A u \in LogThread : Writing(u) =>
            /\ ~logRing[logAt[u].slot].done /\ logRing[logAt[u].slot].event = logAt[u].event
            /\ logAt[u].pc = "commit" => logRing[logAt[u].slot].text = logRing[logAt[u].slot].event
  BY DEF Writers
<1>3. \A u, v \in LogThread : Writing(u) /\ Writing(v) /\ logAt[u].slot = logAt[v].slot => u = v
  BY DEF Writers
<1>4. QED BY <1>1, <1>2, <1>3 DEF Writers

\* Of an event that nobody takes away.
LEMMA EventStays ==
    ASSUME AtEvent, NEW t \in LogThread, Rest(t), logAt'[t].pc \notin {"format", "next"},
           Count' > 0, consumer' = consumer, fmtbuf' = fmtbuf,
           logRing'[consumer].event = logRing[consumer].event,
           logRing[consumer].done => logRing'[consumer].done
    PROVE  AtEvent'
<1>1. \A u \in LogThread : logAt'[u].pc \in {"format", "next"} => logAt'[u] = logAt[u]
  BY DEF Rest
<1>2. QED BY <1>1 DEF AtEvent

LEMMA EventLies ==
    ASSUME AtEvent, NEW t \in LogThread, Rest(t), logAt'[t].pc \notin {"format", "next"},
           consumer' = consumer, producer' = producer, fmtbuf' = fmtbuf, logRing' = logRing
    PROVE  AtEvent'
<1>1. \A u \in LogThread : logAt'[u].pc \in {"format", "next"} => logAt'[u] = logAt[u]
  BY DEF Rest
<1>2. Count' = Count BY DEF Count
<1>3. QED BY <1>1, <1>2 DEF AtEvent

\* Steps that are nothing to the ring.
LEMMA RingLies ==
    ASSUME RingSound, NEW t \in LogThread, Rest(t), logAt[t].pc \notin Busy, logAt'[t].pc \notin Busy,
           J!Unring, fmtbuf' = fmtbuf
    PROVE  RingSound'
<1>1. /\ logAt[t].pc # "print" /\ logAt'[t].pc # "print" /\ logAt'[t].pc \notin J!AtWork
      /\ logAt'[t].pc \notin {"fill", "commit"} /\ logAt'[t].pc \notin {"format", "next"}
  BY DEF Busy, J!AtWork
<1>2. Hand' = Hand BY <1>1, HandStays
<1>3. Eventful' BY <1>2, EventsLie DEF RingSound
<1>4. Texts' BY DEF RingSound, Texts, J!Unring
<1>5. Writers' BY <1>1, WritersStay DEF RingSound, J!Unring
<1>6. AtEvent' BY <1>1, EventLies DEF RingSound, J!Unring
<1>7. OneWorker' BY <1>1, WorkerStays DEF RingSound
<1>8. QED BY <1>3, <1>4, <1>5, <1>6, <1>7 DEF RingSound
LEMMA RingUntouched ==
    ASSUME RingSound, logAt' = logAt, J!Unring, fmtbuf' = fmtbuf
    PROVE  RingSound'
<1>1. Hand' = Hand /\ Count' = Count BY DEF Hand, J!InHand, Count, J!Unring
<1>2. Eventful' BY <1>1, EventsLie DEF RingSound
<1>3. Texts' BY DEF RingSound, Texts, J!Unring
<1>4. Writers' BY DEF RingSound, Writers, Writing, J!Unring
<1>5. AtEvent' BY <1>1 DEF RingSound, AtEvent, J!Unring
<1>6. OneWorker' BY DEF RingSound, OneWorker
<1>7. QED BY <1>2, <1>3, <1>4, <1>5, <1>6 DEF RingSound

LEMMA LookKeeps ==
    ASSUME LogTyped, J!ConstantsMakeSense, RingSound, NEW t \in LogThread, J!Look(t), ~disturbed'
    PROVE  RingSound'
<1>1. /\ J!Unring /\ fmtbuf' = fmtbuf /\ logAt[t].pc = "look"
      /\ logAt'[t].pc \in J!AtWork => ~J!Others(t, J!AtWork)
  BY DEF J!Look, J!IsAt
<1>2. logAt[t].pc \notin Busy /\ logAt[t].pc # "print" BY <1>1 DEF Busy, J!AtWork
<1>3. ASSUME NEW pc \in {"format", "log"}, logAt'[t].pc = pc, Rest(t),
             pc = "format" => ~J!Nothing /\ logAt'[t].slot = consumer
      PROVE  RingSound'
  <2>1. /\ pc \in J!AtWork /\ pc \notin {"fill", "commit"} /\ pc # "print"
    BY <1>3 DEF J!AtWork
  <2>2. LogAlone(t) BY <1>1, <1>3, <2>1 DEF J!Others, LogAlone
  <2>3. Hand' = Hand BY <1>2, <1>3, <2>1, HandStays
  <2>4. OneWorker' /\ \A u \in LogThread : logAt'[u].pc \in J!AtWork => u = t
    BY <1>3, <2>2, AloneNow
  <2>5. Eventful' BY <1>1, <2>3, EventsLie DEF RingSound
  <2>6. Texts' BY <1>1 DEF RingSound, Texts, J!Unring
  <2>7. Writers' BY <1>1, <1>3, <2>1, WritersStay DEF RingSound, J!Unring
  <2>8. AtEvent'
    <3>1. \A u \in LogThread : logAt'[u].pc \in {"format", "next"} => u = t
      BY <2>4 DEF J!AtWork
    <3>2. Count' = Count /\ consumer' = consumer /\ logRing' = logRing
      BY <1>1 DEF Count, J!Unring
    <3>3. pc = "format" => Count > 0 /\ logRing[consumer].done /\ logAt'[t].slot = consumer
      <4>1. Count \in Nat /\ (Count = 0 <=> consumer = producer) BY RingIs DEF LogTyped
      <4>2. QED BY <1>3, <4>1 DEF J!Nothing
    <3>4. pc # "next" OBVIOUS
    <3>5. QED BY <1>3, <3>1, <3>2, <3>3, <3>4 DEF AtEvent
  <2>9. QED BY <2>4, <2>5, <2>6, <2>7, <2>8 DEF RingSound
<1>4. CASE ~J!Nothing /\ Now(t, "format", consumer, logAt[t].event, logAt[t].cb, logAt[t].mine)
  <2>1. Rest(t) /\ logAt'[t].pc = "format" /\ logAt'[t].slot = consumer BY <1>4 DEF Now
  <2>2. QED BY <1>3, <1>4, <2>1
<1>5. ASSUME NEW pc \in {"final", "log"}, Now(t, pc, logAt[t].slot, logAt[t].event, logAt[t].cb, logQueue)
      PROVE  RingSound'
  <2>1. Rest(t) /\ logAt'[t].pc = pc BY <1>5 DEF Now
  <2>2. CASE pc = "log"
    <3>1. pc \in {"format", "log"} /\ pc # "format" BY <2>2
    <3>2. QED BY <1>3, <2>1, <3>1
  <2>3. CASE pc = "final"
    <3>1. logAt'[t].pc \notin Busy BY <2>1, <2>3 DEF Busy, J!AtWork
    <3>2. QED BY <1>1, <1>2, <2>1, <3>1, RingLies
  <2>4. QED BY <2>2, <2>3
<1>6. QED BY <1>4, <1>5, LooksAt

\* A worker formats the event and then writes it out.
LEMMA FormatKeeps ==
    ASSUME LogTyped, RingSound, NEW t \in LogThread, J!_udi_trlog_fmt(t)
    PROVE  RingSound'
<1>1. /\ J!Unring /\ fmtbuf' = logRing[logAt[t].slot].text /\ logAt[t].pc = "format" /\ J!Goes(t, "next")
  BY DEF J!_udi_trlog_fmt, J!IsAt
<1>2. logAt[t].pc \in J!AtWork BY <1>1 DEF J!AtWork
<1>3. LogAlone(t) BY <1>2, AloneIs DEF RingSound
<1>4. logAt'[t].pc = "next" /\ logAt'[t].slot = logAt[t].slot /\ Rest(t)
  BY <1>1, GoesTo DEF LogTyped, Now, Steps
<1>5. /\ OneWorker' /\ ~Hand /\ ~Hand' /\ \A u \in LogThread : logAt'[u].pc \in J!AtWork => u = t
  BY <1>1, <1>3, <1>4, AloneNow
<1>6. Eventful'
  <2>1. Hand' = Hand BY <1>5 DEF Hand
  <2>2. QED BY <1>1, <1>5, <2>1, EventsLie DEF RingSound
<1>7. Texts' BY <1>1 DEF RingSound, Texts, J!Unring
<1>8. Writers' BY <1>1, <1>4, WritersStay DEF RingSound, J!Unring
<1>9. AtEvent'
  <2>1. Count > 0 /\ logAt[t].slot = consumer /\ logRing[consumer].done
    BY <1>1 DEF RingSound, AtEvent
  <2>2. Count' = Count /\ consumer' = consumer /\ logRing' = logRing
    BY <1>1 DEF Count, J!Unring
  <2>3. fmtbuf' = logRing[consumer].event BY <1>1, <2>1 DEF RingSound, Texts, LogTyped
  <2>4. \A u \in LogThread : logAt'[u].pc \in {"format", "next"} => u = t
    BY <1>5 DEF J!AtWork
  <2>5. QED BY <1>4, <2>1, <2>2, <2>3, <2>4 DEF AtEvent
<1>10. QED BY <1>5, <1>6, <1>7, <1>8, <1>9 DEF RingSound

LEMMA ConsumeKeeps ==
    ASSUME LogTyped, J!ConstantsMakeSense, RingSound, NEW t \in LogThread, J!Consume(t)
    PROVE  RingSound'
<1>1. /\ logRing' = logRing /\ producer' = producer /\ consumer' = J!After(consumer)
      /\ logEvents' = logEvents /\ logLast' = logLast /\ dropped' = dropped /\ fmtbuf' = fmtbuf
      /\ logAt[t].pc = "next" /\ J!Goes(t, "print")
  BY DEF J!Consume, J!IsAt
<1>2. logAt[t].pc \in J!AtWork BY <1>1 DEF J!AtWork
<1>3. LogAlone(t) BY <1>2, AloneIs DEF RingSound
<1>4. logAt'[t].pc = "print" /\ Rest(t) BY <1>1, GoesTo DEF LogTyped, Now, Steps
<1>5. /\ OneWorker' /\ ~Hand /\ Hand' /\ \A u \in LogThread : logAt'[u].pc \in J!AtWork => u = t
  BY <1>1, <1>3, <1>4, AloneNow
<1>6. consumer \in Places /\ producer \in Places BY DEF LogTyped
<1>7. Count > 0 /\ fmtbuf = logRing[consumer].event BY <1>1 DEF RingSound, AtEvent
<1>8. PICK n \in Nat : n = Count /\ n <= LogSize - 1 /\ LogSize - 1 \in Nat BY <1>6, RingIs
<1>9. consumer # producer /\ Behind(0) = consumer BY <1>6, <1>7, RingIs
<1>10. Count' = n - 1 /\ \A i \in 0 .. LogSize - 2 : Behind(i)' = Behind(i + 1)
  BY <1>1, <1>6, <1>8, <1>9, RingConsumed
<1>11. Left = 0 .. n - 1 /\ Left' = 0 .. n - 2 /\ n > 0 BY <1>7, <1>8, <1>10 DEF Left
<1>12. \A i \in 0 .. n - 2 : i \in 0 .. LogSize - 2 BY <1>8 DEF J!ConstantsMakeSense
<1>13. \A i \in 0 .. n - 2 : Event(i)' = Event(i + 1) BY <1>1, <1>10, <1>12 DEF Event
<1>14. fmtbuf = Event(0) BY <1>7, <1>9 DEF Event
<1>15. Eventful' BY <1>1, <1>5, <1>11, <1>13, <1>14, EventConsumed DEF RingSound
<1>16. Texts' BY <1>1 DEF RingSound, Texts
<1>17. Writers' BY <1>1, <1>4, WritersStay DEF RingSound
<1>18. AtEvent' BY <1>4, <1>5 DEF AtEvent, J!AtWork
<1>19. QED BY <1>5, <1>15, <1>16, <1>17, <1>18 DEF RingSound

LEMMA OutputKeeps ==
    ASSUME LogTyped, RingSound, NEW t \in LogThread, J!Output(t), ~disturbed
    PROVE  RingSound'
<1>1. /\ logRing' = logRing /\ producer' = producer /\ consumer' = consumer
      /\ logEvents' = logEvents /\ logLast' = fmtbuf /\ dropped' = dropped /\ fmtbuf' = fmtbuf
      /\ logAt[t].pc = "print" /\ J!Goes(t, "look")
  BY DEF J!Output, J!IsAt
<1>2. logAt[t].pc \in J!AtWork BY <1>1 DEF J!AtWork
<1>3. LogAlone(t) BY <1>2, AloneIs DEF RingSound
<1>4. logAt'[t].pc = "look" /\ Rest(t) BY <1>1, GoesTo DEF LogTyped, Now, Steps
<1>5. OneWorker' /\ Hand /\ ~Hand' BY <1>1, <1>3, <1>4, AloneNow
<1>6. Left' = Left /\ \A i \in Left : Event(i)' = Event(i)
  BY <1>1 DEF Left, Count, Event, Behind
<1>7. Eventful' BY <1>1, <1>5, <1>6, EventOut DEF RingSound
<1>8. Texts' BY <1>1 DEF RingSound, Texts
<1>9. Writers' BY <1>1, <1>4, WritersStay DEF RingSound
<1>10. AtEvent' BY <1>1, <1>4, EventLies DEF RingSound
<1>11. QED BY <1>5, <1>7, <1>8, <1>9, <1>10 DEF RingSound

LEMMA LogKeeps ==
    ASSUME LogTyped, LogRequests, RingSound, NEW t \in LogThread, J!Log(t)
    PROVE  RingSound'
<1>1. J!Unring /\ logAt[t].pc = "log" /\ logAt[t].mine # <<>>
  BY DEF J!Log, J!IsAt, LogRequests, InStep
<1>2. logAt[t].pc \in J!AtWork BY <1>1 DEF J!AtWork
<1>3. LogAlone(t) BY <1>2, AloneIs DEF RingSound
<1>4. PICK pc \in {"final", "log"} : logAt'[t].pc = pc /\ Rest(t) BY <1>1, LogsAt DEF Now
<1>5. /\ OneWorker' /\ ~Hand /\ ~Hand' /\ \A u \in LogThread : logAt'[u].pc \in J!AtWork => u = t
  BY <1>1, <1>3, <1>4, AloneNow
<1>6. Eventful'
  <2>1. Hand' = Hand BY <1>5 DEF Hand
  <2>2. QED BY <1>1, <1>5, <2>1, EventsLie DEF RingSound
<1>7. Texts' BY <1>1 DEF RingSound, Texts, J!Unring
<1>8. Writers'
  <2>1. logAt'[t].pc \notin {"fill", "commit"} BY <1>4
  <2>2. QED BY <1>1, <1>4, <2>1, WritersStay DEF RingSound, J!Unring
<1>9. AtEvent'
  <2>1. \A u \in LogThread : logAt'[u].pc \in {"format", "next"} => u = t
    BY <1>5 DEF J!AtWork
  <2>2. QED BY <1>4, <2>1 DEF AtEvent
<1>10. QED BY <1>5, <1>6, <1>7, <1>8, <1>9 DEF RingSound
-----------------------------------------------------------------------------
(* Writers of events.                                                        *)
LEMMA RingPlaces ==
    ASSUME J!ConstantsMakeSense, consumer \in Places, producer \in Places, NEW i \in Left
    PROVE  (IF consumer + i < LogSize THEN consumer + i ELSE consumer + i - LogSize) \in Places
BY DEF J!ConstantsMakeSense, Left, Count, Places

LEMMA FillKeeps ==
    ASSUME LogTyped, J!ConstantsMakeSense, RingSound, NEW t \in LogThread, J!Fill(t)
    PROVE  RingSound'
<1>1. /\ producer' = producer /\ consumer' = consumer
      /\ logEvents' = logEvents /\ logLast' = logLast /\ dropped' = dropped /\ fmtbuf' = fmtbuf
      /\ logAt[t].pc = "fill" /\ J!Goes(t, "commit")
  BY DEF J!Fill, J!IsAt
<1>2. /\ logAt'[t].pc = "commit" /\ logAt'[t].slot = logAt[t].slot /\ logAt'[t].event = logAt[t].event
      /\ Rest(t)
  BY <1>1, GoesTo DEF LogTyped, Now, Steps
<1>3. PICK s \in Places : s = logAt[t].slot BY FillsRing
<1>4. /\ logRing'[s].done = logRing[s].done /\ logRing'[s].text = logAt[t].event
      /\ logRing'[s].event = logRing[s].event
      /\ \A j \in Places : j # s => logRing'[j] = logRing[j]
  BY <1>3, FillsRing DEF RingNow
<1>5. Writing(t) BY <1>1 DEF Writing
<1>6. ~logRing[s].done /\ logRing[s].event = logAt[t].event
  BY <1>3, <1>5 DEF RingSound, Writers
<1>7. \A j \in Places : logRing'[j].event = logRing[j].event /\ logRing'[j].done = logRing[j].done
  BY <1>4
<1>8. Hand' = Hand BY <1>1, <1>2, HandStays
<1>9. Left' = Left /\ \A i \in Left : Event(i)' = Event(i)
  BY <1>1, <1>7, RingPlaces DEF Left, Count, Event, Behind, LogTyped
<1>10. Eventful' BY <1>1, <1>8, <1>9, EventsStay DEF RingSound
<1>11. Texts' BY <1>4, <1>6 DEF RingSound, Texts
<1>12. Writers'
  <2>1. \A u \in LogThread : Writing(u)' <=> Writing(u)
    BY <1>1, <1>2, <1>5 DEF Writing, Rest
  <2>2. \A u \in LogThread : logAt'[u].slot = logAt[u].slot BY <1>2 DEF Rest
  <2>3. \A u, v \in LogThread : Writing(u) /\ Writing(v) /\ logAt[u].slot = logAt[v].slot => u = v
    BY DEF RingSound, Writers
  <2>4. ASSUME NEW u \in LogThread, Writing(u), u # t
        PROVE  /\ ~logRing'[logAt'[u].slot].done /\ logRing'[logAt'[u].slot].event = logAt'[u].event
               /\ logAt'[u].pc = "commit" => logRing'[logAt'[u].slot].text = logRing'[logAt'[u].slot].event
    <3>1. logAt[u].slot # s /\ logAt[u].slot \in Places
      BY <1>3, <1>5, <2>3, <2>4 DEF LogTyped, Workers
    <3>2. logRing'[logAt[u].slot] = logRing[logAt[u].slot] /\ logAt'[u] = logAt[u]
      BY <1>2, <1>4, <2>4, <3>1 DEF Rest
    <3>3. QED BY <2>4, <3>2 DEF RingSound, Writers
  <2>5. /\ ~logRing'[logAt'[t].slot].done /\ logRing'[logAt'[t].slot].event = logAt'[t].event
        /\ logRing'[logAt'[t].slot].text = logRing'[logAt'[t].slot].event
    BY <1>2, <1>3, <1>4, <1>6
  <2>6. QED BY <2>1, <2>2, <2>3, <2>4, <2>5 DEF Writers
<1>13. AtEvent'
  <2>1. consumer \in Places BY DEF LogTyped
  <2>2. logRing'[consumer].event = logRing[consumer].event /\ logRing'[consumer].done = logRing[consumer].done
    BY <1>7, <2>1
  <2>3. Count' = Count BY <1>1 DEF Count
  <2>4. \A u \in LogThread : logAt'[u].pc \in {"format", "next"} => logAt'[u] = logAt[u]
    BY <1>2 DEF Rest
  <2>5. QED BY <1>1, <2>2, <2>3, <2>4 DEF RingSound, AtEvent
<1>14. OneWorker'
  <2>1. logAt'[t].pc \notin J!AtWork BY <1>2 DEF J!AtWork
  <2>2. QED BY <1>2, <2>1, WorkerStays DEF RingSound
<1>15. QED BY <1>10, <1>11, <1>12, <1>13, <1>14 DEF RingSound

LEMMA CommitKeeps ==
    ASSUME LogTyped, J!ConstantsMakeSense, RingSound, NEW t \in LogThread, J!Commit(t)
    PROVE  RingSound'
<1>1. /\ producer' = producer /\ consumer' = consumer
      /\ logEvents' = logEvents /\ logLast' = logLast /\ dropped' = dropped /\ fmtbuf' = fmtbuf
      /\ logAt[t].pc = "commit" /\ J!Goes(t, "look")
  BY DEF J!Commit, J!IsAt
<1>2. logAt'[t].pc = "look" /\ Rest(t) BY <1>1, GoesTo DEF LogTyped, Now, Steps
<1>3. PICK s \in Places : s = logAt[t].slot BY CommitsRing
<1>4. /\ logRing'[s].done = TRUE /\ logRing'[s].text = logRing[s].text
      /\ logRing'[s].event = logRing[s].event
      /\ \A j \in Places : j # s => logRing'[j] = logRing[j]
  BY <1>3, CommitsRing DEF RingNow
<1>5. Writing(t) BY <1>1 DEF Writing
<1>6. logRing[s].text = logRing[s].event BY <1>1, <1>3, <1>5 DEF RingSound, Writers
<1>7. \A j \in Places : logRing'[j].event = logRing[j].event /\ (logRing[j].done => logRing'[j].done)
  BY <1>4
<1>8. Hand' = Hand BY <1>1, <1>2, HandStays
<1>9. Left' = Left /\ \A i \in Left : Event(i)' = Event(i)
  BY <1>1, <1>7, RingPlaces DEF Left, Count, Event, Behind, LogTyped
<1>10. Eventful' BY <1>1, <1>8, <1>9, EventsStay DEF RingSound
<1>11. Texts' BY <1>4, <1>6 DEF RingSound, Texts
<1>12. Writers'
  <2>1. \A u \in LogThread : Writing(u)' => Writing(u) /\ u # t /\ logAt'[u] = logAt[u]
    BY <1>2 DEF Writing, Rest
  <2>2. \A u, v \in LogThread : Writing(u) /\ Writing(v) /\ logAt[u].slot = logAt[v].slot => u = v
    BY DEF RingSound, Writers
  <2>3. ASSUME NEW u \in LogThread, Writing(u)'
        PROVE  /\ ~logRing'[logAt'[u].slot].done /\ logRing'[logAt'[u].slot].event = logAt'[u].event
               /\ logAt'[u].pc = "commit" => logRing'[logAt'[u].slot].text = logRing'[logAt'[u].slot].event
    <3>1. Writing(u) /\ u # t /\ logAt'[u] = logAt[u] BY <2>1, <2>3
    <3>2. logAt[u].slot # s /\ logAt[u].slot \in Places
      BY <1>3, <1>5, <2>2, <3>1 DEF LogTyped, Workers
    <3>3. logRing'[logAt[u].slot] = logRing[logAt[u].slot] BY <1>4, <3>2
    <3>4. QED BY <3>1, <3>3 DEF RingSound, Writers
  <2>4. \A u, v \in LogThread : Writing(u)' /\ Writing(v)' /\ logAt'[u].slot = logAt'[v].slot => u = v
    BY <2>1, <2>2
  <2>5. QED BY <2>3, <2>4 DEF Writers
<1>13. AtEvent'
  <2>1. consumer \in Places BY DEF LogTyped
  <2>2. logRing'[consumer].event = logRing[consumer].event /\ (logRing[consumer].done => logRing'[consumer].done)
    BY <1>7, <2>1
  <2>3. Count' = Count BY <1>1 DEF Count
  <2>4. \A u \in LogThread : logAt'[u].pc \in {"format", "next"} => logAt'[u] = logAt[u]
    BY <1>2 DEF Rest
  <2>5. QED BY <1>1, <2>2, <2>3, <2>4 DEF RingSound, AtEvent
<1>14. OneWorker'
  <2>1. logAt'[t].pc \notin J!AtWork BY <1>2 DEF J!AtWork
  <2>2. QED BY <1>2, <2>1, WorkerStays DEF RingSound
<1>15. QED BY <1>10, <1>11, <1>12, <1>13, <1>14 DEF RingSound

LEMMA TraceKeeps ==
    ASSUME LogTyped, J!ConstantsMakeSense, RingSound, NEW t \in LogThread, J!udi_trace_write(t),
           ~disturbed'
    PROVE  RingSound'
<1>1. /\ consumer \in Places /\ producer \in Places /\ logEvents \in Nat
      /\ logRing \in [Places -> Slots] /\ logAt \in [LogThread -> Workers]
  BY DEF LogTyped
<1> DEFINE full == J!After(producer) = consumer
<1>2. /\ producer' = J!After(producer)
      /\ consumer' = (IF full THEN J!After(consumer) ELSE consumer)
      /\ dropped' = (IF full THEN dropped \cup {logRing[consumer].event} ELSE dropped)
      /\ logEvents' = logEvents + 1 /\ logLast' = logLast /\ fmtbuf' = fmtbuf /\ logAt[t].pc = "idle"
  BY DEF J!udi_trace_write, J!FirstLeft, J!Writes, J!IsAt
<1>3. /\ \A u \in LogThread : ~(Writing(u) /\ logAt[u].slot = producer)
      /\ full => ~J!Others(t, {"format", "next"})
  BY DEF J!udi_trace_write, Writing
<1>4. /\ logAt'[t].pc = "fill" /\ logAt'[t].slot = producer /\ logAt'[t].event = logEvents + 1
      /\ Rest(t)
  BY TracesAt DEF Now
<1>5. /\ logRing'[producer].done = FALSE /\ logRing'[producer].event = logEvents + 1
      /\ \A j \in Places : j # producer => logRing'[j] = logRing[j]
  BY TracesRing DEF RingNow
<1>6. PICK n \in Nat : n = Count /\ n <= LogSize - 1 /\ LogSize - 1 \in Nat /\ LogSize - 1 > 0
  BY <1>1, RingIs
<1>7. Hand' = Hand BY <1>2, <1>4, HandStays
<1>8. /\ Left = 0 .. n - 1
      /\ \A i \in Left : i \in 0 .. LogSize - 1 /\ Behind(i) # producer /\ Behind(i) \in Places
  BY <1>1, <1>6, RingIs DEF Left
<1>9. \A i \in Left : Event(i) \in Nat BY <1>1, <1>8 DEF Event, Slots
<1>10. \A i \in Left : logRing'[Behind(i)].event = Event(i) BY <1>5, <1>8 DEF Event
<1>11. Behind(n) = producer /\ Behind(0) = consumer BY <1>1, <1>6, RingIs
<1>12. ASSUME ~full PROVE Eventful' /\ AtEvent'
  <2>1. consumer' = consumer /\ dropped' = dropped BY <1>2, <1>12
  <2>2. Count' = n + 1 /\ \A i \in 0 .. LogSize - 1 : Behind(i)' = Behind(i)
    BY <1>1, <1>2, <1>6, <1>12, <2>1, RingProduced
  <2>3. Left' = 0 .. n BY <2>2 DEF Left
  <2>4. \A i \in 0 .. n - 1 : Event(i)' = Event(i) BY <1>8, <1>10, <2>2 DEF Event
  <2>5. Event(n)' = logEvents + 1
    <3>1. n \in 0 .. LogSize - 1 BY <1>6
    <3>2. Behind(n)' = producer BY <1>11, <2>2, <3>1
    <3>3. QED BY <1>5, <3>2 DEF Event
  <2>6. Eventful'
    BY <1>2, <1>7, <1>8, <1>9, <2>1, <2>3, <2>4, <2>5, EventAdded DEF RingSound
  <2>7. AtEvent'
    <3>1. ASSUME NEW u \in LogThread, logAt'[u].pc \in {"format", "next"}
          PROVE  /\ Count' > 0 /\ logAt'[u].slot = consumer' /\ logRing'[consumer'].done
                 /\ logAt'[u].pc = "next" => fmtbuf' = logRing'[consumer'].event
      <4>1. logAt'[u] = logAt[u] BY <1>4, <3>1 DEF Rest
      <4>2. /\ Count > 0 /\ logAt[u].slot = consumer /\ logRing[consumer].done
            /\ logAt[u].pc = "next" => fmtbuf = logRing[consumer].event
        BY <3>1, <4>1 DEF RingSound, AtEvent
      <4>3. consumer # producer BY <1>1, <4>2, RingIs
      <4>4. logRing'[consumer] = logRing[consumer] BY <1>1, <1>5, <4>3
      <4>5. Count' > 0 BY <1>6, <2>2
      <4>6. QED BY <1>2, <2>1, <4>1, <4>2, <4>4, <4>5
    <3>2. QED BY <3>1 DEF AtEvent
  <2>8. QED BY <2>6, <2>7
<1>13. ASSUME full PROVE Eventful' /\ AtEvent'
  <2>1. consumer' = J!After(consumer) /\ dropped' = dropped \cup {logRing[consumer].event}
    BY <1>2, <1>13
  <2>2. /\ n = LogSize - 1 /\ Count' = n
        /\ \A i \in 0 .. LogSize - 2 : Behind(i)' = Behind(i + 1)
    BY <1>1, <1>2, <1>6, <1>13, <2>1, RingTurned
  <2>3. Left' = 0 .. n - 1 /\ n > 0 BY <1>6, <2>2 DEF Left
  <2>4. \A i \in 0 .. n - 2 : i + 1 \in Left /\ i \in 0 .. LogSize - 2
    BY <1>8, <2>2 DEF J!ConstantsMakeSense
  <2>5. \A i \in 0 .. n - 2 : Event(i)' = Event(i + 1) BY <1>10, <2>2, <2>4 DEF Event
  <2>6. Event(n - 1)' = logEvents + 1
    <3>1. n - 1 \in 0 .. LogSize - 2 /\ (n - 1) + 1 = n
      BY <2>2, <2>3 DEF J!ConstantsMakeSense
    <3>2. Behind(n - 1)' = producer BY <1>11, <2>2, <3>1
    <3>3. QED BY <1>5, <3>2 DEF Event
  <2>7. dropped' = dropped \cup {Event(0)} BY <1>11, <2>1 DEF Event
  <2>8. Eventful'
    BY <1>2, <1>7, <1>8, <1>9, <2>3, <2>5, <2>6, <2>7, EventDropped DEF RingSound
  <2>9. \A u \in LogThread : logAt'[u].pc \notin {"format", "next"}
    BY <1>3, <1>4, <1>13 DEF J!Others, Rest
  <2>10. AtEvent' BY <2>9 DEF AtEvent
  <2>11. QED BY <2>8, <2>10
<1>14. Eventful' /\ AtEvent' BY <1>12, <1>13
<1>15. Texts' BY <1>5 DEF RingSound, Texts
<1>16. Writers'
  <2>1. ASSUME NEW u \in LogThread, u # t, Writing(u)'
        PROVE  /\ Writing(u) /\ logAt'[u] = logAt[u] /\ logAt[u].slot # producer
               /\ logRing'[logAt[u].slot] = logRing[logAt[u].slot]
    <3>1. logAt'[u] = logAt[u] /\ Writing(u) BY <1>4, <2>1 DEF Rest, Writing
    <3>2. logAt[u].slot \in Places /\ logAt[u].slot # producer
      BY <1>1, <1>3, <3>1 DEF Workers
    <3>3. QED BY <1>5, <3>1, <3>2
  <2>2. ASSUME NEW u \in LogThread, Writing(u)'
        PROVE  /\ ~logRing'[logAt'[u].slot].done /\ logRing'[logAt'[u].slot].event = logAt'[u].event
               /\ logAt'[u].pc = "commit" => logRing'[logAt'[u].slot].text = logRing'[logAt'[u].slot].event
    <3>1. CASE u = t BY <1>4, <1>5, <3>1
    <3>2. CASE u # t
      <4>1. /\ Writing(u) /\ logAt'[u] = logAt[u] /\ logRing'[logAt[u].slot] = logRing[logAt[u].slot]
        BY <2>1, <2>2, <3>2
      <4>2. QED BY <4>1 DEF RingSound, Writers
    <3>3. QED BY <3>1, <3>2
  <2>3. ASSUME NEW u \in LogThread, NEW v \in LogThread, Writing(u)', Writing(v)',
               logAt'[u].slot = logAt'[v].slot
        PROVE  u = v
    <3>1. CASE u = t /\ v # t BY <1>4, <2>1, <2>3, <3>1
    <3>2. CASE v = t /\ u # t BY <1>4, <2>1, <2>3, <3>2
    <3>3. CASE u # t /\ v # t
      <4>1. Writing(u) /\ Writing(v) /\ logAt[u].slot = logAt[v].slot BY <2>1, <2>3, <3>3
      <4>2. QED BY <4>1 DEF RingSound, Writers
    <3>4. QED BY <3>1, <3>2, <3>3
  <2>4. QED BY <2>2, <2>3 DEF Writers
<1>17. OneWorker'
  <2>1. logAt'[t].pc \notin J!AtWork BY <1>4 DEF J!AtWork
  <2>2. QED BY <1>4, <2>1, WorkerStays DEF RingSound
<1>18. QED BY <1>14, <1>15, <1>16, <1>17 DEF RingSound

\* While no two threads meet, the ring is sound.
LEMMA RingKept ==
    ASSUME LogTyped, LogRequests, J!ConstantsMakeSense, ~disturbed => RingSound, J!Next, ~disturbed'
    PROVE  RingSound'
<1>1. logAt \in [LogThread -> Workers] BY DEF LogTyped
<1>2. ~disturbed
  BY Zenon DEF J!Next, J!Runs, J!_udi_trlog_daemon_work, J!udi_trace_write, J!udi_log_write,
     J!_udi_env_log_write, J!Fill, J!Commit, J!Take, J!Unlink, J!_udi_log_vwrite, J!Look,
     J!_udi_trlog_fmt, J!Consume,
     J!Output, J!Log, J!Leave, J!Callback, J!_udi_region_destroy
<1>3. RingSound BY <1>2
<1>4. ASSUME NEW t \in LogThread, J!udi_log_write(t) PROVE RingSound'
  <2>1. PICK c \in Blocks : c = t BY DEF Blocks
  <2>2. logAt' = [logAt EXCEPT ![t] = [J!Idle EXCEPT !.pc = "ask", !.cb = {c}]]
    BY <1>4, <2>1 DEF J!udi_log_write
  <2>3. Rest(t) /\ logAt'[t].pc = "ask" BY <2>2, AsksAt DEF Now
  <2>4. J!Unring /\ fmtbuf' = fmtbuf /\ logAt[t].pc = "idle"
    BY <1>4 DEF J!udi_log_write, J!Writes, J!IsAt
  <2>5. QED BY <1>3, <2>3, <2>4, RingLies DEF Busy, J!AtWork
<1>5. ASSUME NEW t \in LogThread, J!_udi_env_log_write(t) PROVE RingSound'
  <2>1. J!Unring /\ fmtbuf' = fmtbuf /\ logAt[t].pc = "idle"
    BY <1>5 DEF J!_udi_env_log_write, J!Writes, J!IsAt
  <2>2. CASE J!Goes(t, "take")
    <3>1. Rest(t) /\ logAt'[t].pc = "take" BY <1>1, <2>2, GoesTo DEF Now, Steps
    <3>2. QED BY <1>3, <2>1, <3>1, RingLies DEF Busy, J!AtWork
  <2>3. CASE logAt' = logAt BY <1>3, <2>1, <2>3, RingUntouched
  <2>4. QED BY <1>5, <2>2, <2>3 DEF J!_udi_env_log_write
<1>6. ASSUME NEW t \in LogThread, J!Take(t) PROVE RingSound'
  <2>1. J!Unring /\ fmtbuf' = fmtbuf /\ logAt[t].pc = "take" BY <1>6 DEF J!Take, J!IsAt
  <2>2. CASE pooled = <<>>
    <3>1. logAt' = logAt BY <1>6, <2>2 DEF J!Take
    <3>2. QED BY <1>3, <2>1, <3>1, RingUntouched
  <2>3. CASE pooled # <<>>
    <3>1. Head(pooled) \in LogPool BY <2>3 DEF LogTyped
    <3>2. PICK c \in Blocks : c = Head(pooled) BY <3>1 DEF Blocks
    <3>3. logAt' = [logAt EXCEPT ![t] = [J!Idle EXCEPT !.pc = "unlink", !.cb = {c}]]
      BY <1>6, <2>3, <3>2 DEF J!Take
    <3>4. Rest(t) /\ logAt'[t].pc = "unlink" BY <3>3, AsksAt DEF Now
    <3>5. QED BY <1>3, <2>1, <3>4, RingLies DEF Busy, J!AtWork
  <2>4. QED BY <2>2, <2>3
<1>11. ASSUME NEW t \in LogThread, J!Unlink(t) PROVE RingSound'
  <2>1. J!Unring /\ fmtbuf' = fmtbuf /\ logAt[t].pc = "unlink" BY <1>11 DEF J!Unlink, J!IsAt
  <2>2. PICK c \in logAt[t].cb :
              \/ logAt' = logAt
              \/ logAt' = [logAt EXCEPT ![t] = [J!Idle EXCEPT !.pc = "ask", !.cb = {c}]]
    BY <1>11 DEF J!Unlink
  <2>3. c \in Blocks BY <1>1 DEF Workers
  <2>4. CASE logAt' = logAt BY <1>3, <2>1, <2>4, RingUntouched
  <2>5. CASE logAt' = [logAt EXCEPT ![t] = [J!Idle EXCEPT !.pc = "ask", !.cb = {c}]]
    <3>1. Rest(t) /\ logAt'[t].pc = "ask" BY <2>3, <2>5, AsksAt DEF Now
    <3>2. QED BY <1>3, <2>1, <3>1, RingLies DEF Busy, J!AtWork
  <2>6. QED BY <2>2, <2>4, <2>5
<1>7. ASSUME NEW t \in LogThread, J!_udi_log_vwrite(t) PROVE RingSound'
  <2>1. J!Unring /\ fmtbuf' = fmtbuf /\ logAt[t].pc = "ask"
    BY <1>7 DEF J!_udi_log_vwrite, J!IsAt
  <2>2. Rest(t) /\ logAt'[t].pc = "look" BY <1>7, QueuesAt DEF Now
  <2>3. QED BY <1>3, <2>1, <2>2, RingLies DEF Busy, J!AtWork
<1>8. ASSUME NEW t \in LogThread, J!Leave(t) PROVE RingSound'
  <2>1. J!Unring /\ fmtbuf' = fmtbuf /\ logAt[t].pc = "final" BY <1>8 DEF J!Leave, J!IsAt
  <2>2. PICK pc \in {"idle", "look"} : J!Goes(t, pc) BY <1>8, Zenon DEF J!Leave
  <2>3. Rest(t) /\ logAt'[t].pc = pc BY <1>1, <2>2, GoesTo DEF Now, Steps
  <2>4. QED BY <1>3, <2>1, <2>3, RingLies DEF Busy, J!AtWork
<1>9. ASSUME NEW c \in called, J!Callback(c) PROVE RingSound'
  BY <1>3, <1>9, RingUntouched DEF J!Callback
<1>10. ASSUME NEW t \in LogThread, J!_udi_region_destroy(t) PROVE RingSound'
  BY <1>3, <1>10, RingUntouched DEF J!_udi_region_destroy
<1>12. QED
  BY <1>2, <1>3, <1>4, <1>5, <1>6, <1>7, <1>8, <1>9, <1>10, <1>11, TraceKeeps, FillKeeps,
     CommitKeeps,
     LookKeeps, FormatKeeps, ConsumeKeeps, OutputKeeps, LogKeeps
  DEF J!Next, J!Runs, J!_udi_trlog_daemon_work
-----------------------------------------------------------------------------
(* What the invariant is for.                                                *)
LEMMA ConcatRange ==
    ASSUME NEW s \in Seq(Nat), NEW u \in Seq(Nat)
    PROVE  /\ s \o u \in Seq(Nat) /\ J!Range(s \o u) = J!Range(s) \cup J!Range(u)
           /\ (J!Increases(s) /\ J!Increases(u) /\ \A x \in J!Range(s), y \in J!Range(u) : x < y)
                 => J!Increases(s \o u)
<1>1. PICK m \in Nat, n \in Nat : m = Len(s) /\ n = Len(u) OBVIOUS
<1>2. PICK a \in Seq(Nat) : a = s \o u
  <2>1. s \o u \in Seq(Nat) OBVIOUS
  <2>2. QED BY <2>1
<1>3. /\ DOMAIN s = 1 .. m /\ DOMAIN u = 1 .. n /\ DOMAIN a = 1 .. (m + n)
      /\ \A i \in 1 .. m : a[i] = s[i] /\ i \in 1 .. (m + n)
      /\ \A i \in 1 .. n : a[m + i] = u[i] /\ m + i \in 1 .. (m + n)
      /\ \A i \in 1 .. m : s[i] \in Nat
      /\ \A i \in 1 .. n : u[i] \in Nat
  BY <1>1, <1>2
<1>4. \A i \in 1 .. (m + n) : i \in 1 .. m \/ \E j \in 1 .. n : i = m + j
  <2>1. SUFFICES ASSUME NEW i \in 1 .. (m + n), i \notin 1 .. m
                 PROVE  \E j \in 1 .. n : i = m + j
    OBVIOUS
  <2>2. i - m \in 1 .. n /\ i = m + (i - m) BY <2>1
  <2>3. QED BY <2>2
<1>5. J!Range(a) = J!Range(s) \cup J!Range(u)
  <2>1. ASSUME NEW x \in J!Range(a) PROVE x \in J!Range(s) \cup J!Range(u)
    <3>1. PICK i \in 1 .. (m + n) : x = a[i] BY <1>3, <2>1 DEF J!Range
    <3>2. QED BY <1>3, <1>4, <3>1 DEF J!Range
  <2>2. ASSUME NEW x \in J!Range(s) PROVE x \in J!Range(a)
    <3>1. PICK i \in 1 .. m : x = s[i] BY <1>3, <2>2 DEF J!Range
    <3>2. QED BY <1>3, <3>1 DEF J!Range
  <2>3. ASSUME NEW x \in J!Range(u) PROVE x \in J!Range(a)
    <3>1. PICK i \in 1 .. n : x = u[i] BY <1>3, <2>3 DEF J!Range
    <3>2. QED BY <1>3, <3>1 DEF J!Range
  <2>4. QED BY <2>1, <2>2, <2>3
<1>6. ASSUME J!Increases(s), J!Increases(u), \A x \in J!Range(s), y \in J!Range(u) : x < y
      PROVE  J!Increases(a)
  <2>1. SUFFICES ASSUME NEW i \in 1 .. (m + n), NEW j \in 1 .. (m + n), i < j
                 PROVE  a[i] < a[j]
    BY <1>3 DEF J!Increases
  <2>2. CASE i \in 1 .. m /\ j \in 1 .. m
    <3>1. s[i] < s[j] BY <1>3, <1>6, <2>1, <2>2 DEF J!Increases
    <3>2. QED BY <1>3, <2>2, <3>1
  <2>3. ASSUME i \in 1 .. m, NEW k \in 1 .. n, j = m + k PROVE a[i] < a[j]
    <3>1. s[i] \in J!Range(s) /\ u[k] \in J!Range(u) BY <1>3, <2>3 DEF J!Range
    <3>2. s[i] < u[k] BY <1>6, <3>1
    <3>3. QED BY <1>3, <2>3, <3>2
  <2>4. ASSUME NEW h \in 1 .. n, i = m + h, NEW k \in 1 .. n, j = m + k PROVE a[i] < a[j]
    <3>1. h < k BY <2>1, <2>4
    <3>2. u[h] < u[k] BY <1>3, <1>6, <3>1 DEF J!Increases
    <3>3. QED BY <1>3, <2>4, <3>2
  <2>5. ASSUME NEW h \in 1 .. n, i = m + h, j \in 1 .. m PROVE FALSE BY <2>1, <2>5
  <2>6. QED BY <1>4, <2>2, <2>3, <2>4, <2>5
<1>7. QED BY <1>2, <1>5, <1>6

LEMMA OneRange ==
    ASSUME NEW x \in Nat
    PROVE  <<x>> \in Seq(Nat) /\ J!Range(<<x>>) = {x} /\ J!Increases(<<x>>)
BY DEF J!Range, J!Increases

LEMMA WaitingIs ==
    ASSUME LogTyped, J!ConstantsMakeSense
    PROVE  /\ J!Waiting \in Seq(Nat)
           /\ J!Range(J!Waiting) = {Event(i) : i \in Left}
           /\ Ordered => J!Increases(J!Waiting)
<1>1. /\ consumer \in 0 .. LogSize - 1 /\ producer \in 0 .. LogSize - 1 /\ LogSize \in Nat /\ LogSize > 1
      /\ logRing \in [Places -> Slots]
  BY DEF LogTyped, Places, J!ConstantsMakeSense
<1>2. Count = (producer - consumer + LogSize) % LogSize
  <2>1. CASE producer >= consumer
    <3>1. producer - consumer \in 0 .. LogSize - 1 BY <1>1, <2>1
    <3>2. PICK d \in 0 .. LogSize - 1 : d = producer - consumer BY <3>1
    <3>3. (d + LogSize) % LogSize = d BY <1>1
    <3>4. QED BY <2>1, <3>2, <3>3 DEF Count
  <2>2. CASE ~(producer >= consumer)
    <3>1. producer - consumer + LogSize \in 0 .. LogSize - 1 BY <1>1, <2>2
    <3>2. PICK d \in 0 .. LogSize - 1 : d = producer - consumer + LogSize BY <3>1
    <3>3. d % LogSize = d BY <1>1
    <3>4. QED BY <2>2, <3>2, <3>3 DEF Count
  <2>3. QED BY <2>1, <2>2
<1>3. PICK n \in Nat : n = Count /\ n <= LogSize - 1 BY <1>1, RingIs DEF Places
<1>4. ASSUME NEW i \in 1 .. n PROVE (consumer + i - 1) % LogSize = Behind(i - 1)
  <2>1. PICK c \in Nat : c = consumer + i - 1 /\ c < LogSize + LogSize BY <1>1, <1>3
  <2>2. CASE c < LogSize
    <3>1. c % LogSize = c BY <1>1, <2>1, <2>2
    <3>2. c = consumer + (i - 1) BY <1>1, <2>1
    <3>3. QED BY <2>1, <2>2, <3>1, <3>2 DEF Behind
  <2>3. CASE ~(c < LogSize)
    <3>1. PICK d \in 0 .. LogSize - 1 : c = d + LogSize
      <4>1. c - LogSize \in 0 .. LogSize - 1 /\ c = (c - LogSize) + LogSize
        BY <1>1, <2>1, <2>3
      <4>2. QED BY <4>1
    <3>2. (d + LogSize) % LogSize = d BY <1>1
    <3>3. c = consumer + (i - 1) BY <1>1, <2>1
    <3>4. c - LogSize = d BY <1>1, <3>1
    <3>5. Behind(i - 1) = d BY <1>1, <2>1, <2>3, <3>1, <3>3, <3>4 DEF Behind
    <3>6. (consumer + i - 1) % LogSize = d BY <2>1, <3>1, <3>2
    <3>7. QED BY <3>5, <3>6
  <2>4. QED BY <2>2, <2>3
<1>5. PICK w : w = J!Waiting OBVIOUS
<1>6. DOMAIN w = 1 .. n /\ \A i \in 1 .. n : w[i] = Event(i - 1)
  BY <1>2, <1>3, <1>4, <1>5 DEF J!Waiting, Event
<1>7. Left = 0 .. n - 1 /\ \A i \in Left : Event(i) \in Nat
  <2>1. Left = 0 .. n - 1 BY <1>3 DEF Left
  <2>2. \A i \in Left : Behind(i) \in Places
    BY <1>1, RingIs DEF Places
  <2>3. QED BY <1>1, <2>1, <2>2 DEF Event, Slots
<1>8. \A i \in 1 .. n : i - 1 \in Left BY <1>7
<1>9. \A j \in Left : j + 1 \in 1 .. n /\ (j + 1) - 1 = j BY <1>7
<1>10. \A i \in 1 .. n : w[i] \in Nat BY <1>6, <1>7, <1>8
<1>11. w \in Seq(Nat)
  <2>1. w = [i \in 1 .. n |-> w[i]] BY <1>2, <1>3, <1>5, <1>6 DEF J!Waiting
  <2>2. w \in [1 .. n -> Nat] BY <1>10, <2>1
  <2>3. QED BY <2>2
<1>12. J!Range(w) = {Event(i) : i \in Left} BY <1>6, <1>8, <1>9 DEF J!Range
<1>13. ASSUME Ordered PROVE J!Increases(w)
  <2>1. SUFFICES ASSUME NEW i \in 1 .. n, NEW j \in 1 .. n, i < j PROVE w[i] < w[j]
    BY <1>6 DEF J!Increases
  <2>2. i - 1 \in Left /\ j - 1 \in Left /\ i - 1 < j - 1 BY <1>8, <2>1
  <2>3. Event(i - 1) < Event(j - 1) BY <1>13, <2>2 DEF Ordered
  <2>4. QED BY <1>6, <2>3
<1>14. QED BY <1>5, <1>11, <1>12, <1>13

LEMMA KeepsEvents ==
    ASSUME LogTyped, J!ConstantsMakeSense, Eventful
    PROVE  LET all == <<logLast>> \o (IF J!InHand = {} THEN <<>> ELSE <<fmtbuf>>) \o J!Waiting IN
           /\ J!Increases(all)
           /\ logLast + 1 .. logEvents \subseteq J!Range(all) \cup dropped
           /\ J!Range(all) \cap dropped = {}
<1>1. logEvents \in Nat /\ logLast \in Nat /\ fmtbuf \in Nat BY DEF LogTyped
<1>2. PICK h \in Seq(Nat) : h = IF J!InHand = {} THEN <<>> ELSE <<fmtbuf>>
  <2>1. <<>> \in Seq(Nat) /\ <<fmtbuf>> \in Seq(Nat) BY <1>1
  <2>2. QED BY <2>1
<1>3. J!Range(h) = (IF Hand THEN {fmtbuf} ELSE {}) /\ J!Increases(h)
  <2>1. CASE Hand
    <3>1. h = <<fmtbuf>> BY <1>2, <2>1 DEF Hand
    <3>2. QED BY <1>1, <2>1, <3>1, OneRange
  <2>2. CASE ~Hand
    <3>1. h = <<>> BY <1>2, <2>2 DEF Hand
    <3>2. J!Increases(<<>>) BY DEF J!Increases
    <3>3. QED BY <2>2, <3>1, <3>2, EmptyRange
  <2>3. QED BY <2>1, <2>2
<1>4. PICK w \in Seq(Nat) : w = J!Waiting BY WaitingIs
<1>5. J!Range(w) = {Event(i) : i \in Left} /\ J!Increases(w) BY <1>4, WaitingIs DEF Eventful
<1>6. PICK l \in Seq(Nat) : l = <<logLast>>
  <2>1. <<logLast>> \in Seq(Nat) BY <1>1
  <2>2. QED BY <2>1
<1>7. J!Range(l) = {logLast} /\ J!Increases(l) BY <1>1, <1>6, OneRange
<1>8. /\ \A i \in Left : logLast < Event(i)
      /\ Hand => logLast < fmtbuf /\ \A i \in Left : fmtbuf < Event(i)
  BY DEF Eventful, Ordered
<1>9. PICK g \in Seq(Nat) : g = l \o h
  <2>1. l \o h \in Seq(Nat) OBVIOUS
  <2>2. QED BY <2>1
<1>10. J!Range(g) = {logLast} \cup J!Range(h) /\ J!Increases(g)
  <2>1. \A x \in J!Range(l), y \in J!Range(h) : x < y BY <1>3, <1>7, <1>8
  <2>2. QED BY <1>3, <1>7, <1>9, <2>1, ConcatRange
<1>11. PICK all \in Seq(Nat) : all = g \o w
  <2>1. g \o w \in Seq(Nat) OBVIOUS
  <2>2. QED BY <2>1
<1>12. J!Range(all) = J!Range(g) \cup J!Range(w) /\ J!Increases(all)
  <2>1. \A x \in J!Range(g), y \in J!Range(w) : x < y BY <1>3, <1>5, <1>8, <1>10
  <2>2. QED BY <1>5, <1>10, <1>11, <2>1, ConcatRange
<1>13. all = <<logLast>> \o (IF J!InHand = {} THEN <<>> ELSE <<fmtbuf>>) \o J!Waiting
  BY <1>2, <1>4, <1>6, <1>9, <1>11
<1>14. logLast + 1 .. logEvents \subseteq J!Range(all) \cup dropped
  <2>1. SUFFICES ASSUME NEW e \in logLast + 1 .. logEvents, e \notin dropped PROVE e \in J!Range(all)
    OBVIOUS
  <2>2. e \in Nat /\ logLast < e /\ e <= logEvents BY <1>1, <2>1
  <2>3. (Hand /\ e = fmtbuf) \/ \E i \in Left : e = Event(i)
    BY <2>1, <2>2 DEF Eventful, Accounted
  <2>4. QED BY <1>3, <1>5, <1>10, <1>12, <2>3
<1>15. J!Range(all) \cap dropped = {}
  <2>1. SUFFICES ASSUME NEW e \in dropped PROVE e \notin J!Range(all) OBVIOUS
  <2>2. e # logLast /\ ~(Hand /\ e = fmtbuf) /\ \A i \in Left : e # Event(i)
    BY <2>1 DEF Eventful, GivenWay
  <2>3. QED BY <1>3, <1>5, <1>10, <1>12, <2>2
<1>16. QED BY <1>12, <1>13, <1>14, <1>15

LEMMA LogImplies ==
    ASSUME LogInv, J!ConstantsMakeSense
    PROVE  J!LogIsSound
<1>1. J!RequestsAreKept BY DEF LogInv, LogRequests
<1>2. J!EventsAreKept
  <2>1. CASE disturbed BY <2>1 DEF J!EventsAreKept
  <2>2. CASE ~disturbed
    <3>1. LogTyped /\ Eventful BY <2>2 DEF LogInv, RingSound
    <3>2. QED BY <3>1, KeepsEvents DEF J!EventsAreKept
  <2>3. QED BY <2>1, <2>2
<1>3. QED BY <1>1, <1>2 DEF J!LogIsSound
-----------------------------------------------------------------------------
(* The beginning.                                                            *)
LEMMA InjectiveIs == ASSUME NEW f PROVE J!IsInjective(f) <=> IsInjective(f)
BY DEF J!IsInjective, IsInjective
LEMMA NumberIs == ASSUME NEW S PROVE J!Cardinality(S) = Cardinality(S)
BY DEF J!Cardinality, Cardinality
LEMMA PoolIsFinite == J!ConstantsMakeSense => IsFiniteSet(LogPool)
BY DEF J!ConstantsMakeSense, J!IsFiniteSet, IsFiniteSet
LEMMA PoolInRow ==
    ASSUME NEW S, IsFiniteSet(S)
    PROVE  /\ J!SetToSeq(S) \in Seq(S) /\ J!IsInjective(J!SetToSeq(S))
           /\ J!Range(J!SetToSeq(S)) = S
<1>1. PICK n \in Nat : n = Cardinality(S) /\ ExistsBijection(1 .. n, S)
  BY FS_CardinalityType
<1>2. PICK f \in [1 .. n -> S] : J!IsInjective(f)
  BY <1>1, InjectiveIs DEF ExistsBijection, Bijection, Injection
<1>3. PICK g : g = J!SetToSeq(S) OBVIOUS
<1>4. g \in [1 .. n -> S] /\ J!IsInjective(g) BY <1>1, <1>2, <1>3, NumberIs DEF J!SetToSeq
<1>5. g \in Injection(1 .. n, S) BY <1>4, InjectiveIs DEF Injection
<1>6. Cardinality(1 .. n) = n
  <2>1. IsFiniteSet(1 .. n) /\ Cardinality(1 .. n) = IF 1 > n THEN 0 ELSE n - 1 + 1
    BY FS_Interval
  <2>2. QED BY <2>1
<1>7. g \in Surjection(1 .. n, S) BY <1>1, <1>5, <1>6, FS_Injection
<1>8. J!Range(g) = S BY <1>4, <1>7 DEF Surjection, J!Range
<1>9. g \in Seq(S) BY <1>4
<1>10. QED BY <1>3, <1>4, <1>8, <1>9

LEMMA LogBegins ==
    ASSUME J!Init, J!ConstantsMakeSense
    PROVE  LogInv
<1>1. /\ logRing = [i \in 0 .. LogSize - 1 |-> [done |-> FALSE, text |-> 0, by |-> {}, event |-> 0]]
      /\ producer = 0 /\ consumer = 0 /\ logQueue = <<>> /\ pooled = J!SetToSeq(LogPool) /\ fmtbuf = 0
      /\ logAt = [t \in LogThread |-> J!Idle] /\ logAsked = {} /\ called = {}
      /\ logEvents = 0 /\ logLast = 0 /\ dropped = {} /\ disturbed = FALSE
  BY DEF J!Init
<1>2. 0 \in Places BY DEF J!ConstantsMakeSense, Places
<1>3. /\ pooled \in Seq(LogPool) /\ J!IsInjective(pooled) /\ J!Range(pooled) = LogPool
  BY <1>1, PoolInRow, PoolIsFinite DEF J!ConstantsMakeSense
<1>4. PICK s : s = [done |-> FALSE, text |-> 0, by |-> {}, event |-> 0] OBVIOUS
<1>5. s \in Slots /\ s.done = FALSE BY <1>4 DEF Slots
<1>6. logRing \in [Places -> Slots] /\ \A i \in Places : logRing[i] = s
  BY <1>1, <1>4, <1>5 DEF Places
<1>7. PICK w : w = J!Idle OBVIOUS
<1>8. /\ w \in Workers /\ w.pc = "idle" /\ w.cb = {} /\ w.mine = <<>>
  BY <1>2, <1>7 DEF J!Idle, Workers, Steps
<1>9. logAt \in [LogThread -> Workers] /\ \A t \in LogThread : logAt[t] = w
  BY <1>1, <1>7, <1>8
<1>10. LogTyped
  <2>1. <<>> \in Seq(Blocks) /\ 0 \in Nat /\ FALSE \in BOOLEAN OBVIOUS
  <2>2. QED BY <1>1, <1>2, <1>3, <1>6, <1>9, <2>1, Zenon DEF LogTyped
<1>11. \A t \in LogThread : InStep(t) BY <1>8, <1>9, EmptyRange DEF InStep
<1>12. \A t \in LogThread : J!Taken(t) = {} BY <1>8, <1>9, EmptyRange DEF J!Taken
<1>13. ASSUME NEW c PROVE OnePlace(c)
  BY <1>1, <1>3, <1>12, EmptyRange DEF OnePlace
<1>14. LogRequests BY <1>1, <1>3, <1>11, <1>13, EmptyRange, KeptIs DEF InPlaces, LogRequests
<1>15. RingSound
  <2>1. Left = {} /\ Count = 0 BY <1>1 DEF Left, Count
  <2>2. ~Hand BY <1>8, <1>9 DEF Hand, J!InHand
  <2>3. Ordered BY <1>1, <2>1, <2>2 DEF Ordered
  <2>4. Accounted BY <1>1 DEF Accounted
  <2>5. GivenWay BY <1>1 DEF GivenWay
  <2>6. Texts BY <1>5, <1>6 DEF Texts
  <2>7. Writers BY <1>8, <1>9 DEF Writers, Writing
  <2>8. AtEvent BY <1>8, <1>9 DEF AtEvent
  <2>9. OneWorker BY <1>8, <1>9 DEF OneWorker, J!AtWork
  <2>10. QED BY <2>3, <2>4, <2>5, <2>6, <2>7, <2>8, <2>9 DEF RingSound, Eventful
<1>16. QED BY <1>10, <1>14, <1>15 DEF LogInv

LEMMA LogStutter ==
    ASSUME LogInv, UNCHANGED J!vars
    PROVE  LogInv'
<1>1. /\ logRing' = logRing /\ producer' = producer /\ consumer' = consumer /\ logQueue' = logQueue
      /\ pooled' = pooled /\ fmtbuf' = fmtbuf /\ logAt' = logAt /\ logAsked' = logAsked
      /\ called' = called /\ logEvents' = logEvents /\ logLast' = logLast /\ dropped' = dropped
      /\ disturbed' = disturbed
  BY DEF J!vars
<1>2. LogTyped' BY <1>1 DEF LogInv, LogTyped
<1>3. LogRequests' BY <1>1, StaysPut DEF LogInv, Unmoved
<1>4. ~disturbed => RingSound' BY <1>1, RingUntouched DEF LogInv, J!Unring
<1>5. QED BY <1>1, <1>2, <1>3, <1>4 DEF LogInv

\* Whatever the threads, the blocks and the size of the ring: a request to log is in one
\* place until its callback, and what is written out is what was traced, in order and once,
\* but for what gave way, as long as no two threads meet in a place or at an event.
THEOREM LogKept == J!ConstantsMakeSense => (J!Spec => []LogIsSound)
<1>1. ASSUME J!ConstantsMakeSense PROVE J!Init => LogInv BY <1>1, LogBegins
<1>2. ASSUME J!ConstantsMakeSense PROVE LogInv /\ [J!Next]_(J!vars) => LogInv'
  <2>1. CASE LogInv /\ J!Next
    <3>1. LogTyped /\ LogRequests /\ (~disturbed => RingSound) BY <2>1 DEF LogInv
    <3>2. LogTyped' BY <1>2, <2>1, <3>1, TypesKept
    <3>3. LogRequests' BY <1>2, <2>1, <3>1, RequestsKept
    <3>4. ~disturbed' => RingSound' BY <1>2, <2>1, <3>1, RingKept
    <3>5. LogInv' BY <3>2, <3>3, <3>4 DEF LogInv
    <3>6. QED BY <3>5
  <2>2. CASE LogInv /\ UNCHANGED J!vars BY <2>2, LogStutter
  <2>3. QED BY <2>1, <2>2
<1>3. J!ConstantsMakeSense /\ LogInv => LogIsSound BY LogImplies DEF LogIsSound
<1>4. J!ConstantsMakeSense => J!ConstantsMakeSense' BY DEF J!ConstantsMakeSense
<1>5. QED BY <1>1, <1>2, <1>3, <1>4, PTL DEF J!Spec
-----------------------------------------------------------------------------
(***************************************************************************)
(* The channels: what holds of their ends while nothing has gone wrong.    *)
(***************************************************************************)

Regions == ChanRegion \cup {H!None}
Statuses == {"none", "loose", "spawning", "anchored", "closed", "freed"}
Items == [end : H!Ends, kind : {"event", "op"}]
Doings == [what : {"nothing", "close", "send"}, end : H!Ends, to : Regions]

ChanTyped == /\ chanStatus \in [H!Ends -> Statuses]
             /\ region \in [H!Ends -> Regions] /\ holder \in [H!Ends -> Regions]
             /\ spawns \subseteq [on : Chan, idx : SpawnIdx, by : ChanRegion, chan : Chan]
             /\ \A q \in chanAsked : q.rgn \in ChanRegion /\ q.end \in H!Ends /\ q.idx \in SpawnIdx
             /\ marking \subseteq [chan : Chan, rgn : ChanRegion]
             /\ calling \in [ChanRegion -> Doings]
             /\ chanQueue \in [ChanRegion -> Seq(Items)] /\ events \in Seq(H!Ends)
             /\ chanWild \in BOOLEAN

Pools == [free : Nat, out : Int, back : Int]
PoolHas == /\ pool \in Pools
           /\ pool.free + pool.out + pool.back > 0
           /\ events # <<>> => pool.free = 0

Living(e) == chanStatus[e] \notin {"none", "freed"}
Closes(r, e) == calling[r].what = "close" /\ calling[r].end = e
Closing(e) == \E r \in ChanRegion : Closes(r, e)
Marked(k) == \E m \in marking : m.chan = k

\* Both ends are made together and go together.
Pairs == \A e \in H!Ends : /\ chanStatus[e] = "none" <=> chanStatus[H!OtherEnd(e)] = "none"
                           /\ H!Gone(e) <=> H!Gone(H!OtherEnd(e))
Handled == /\ \A e \in H!Ends : chanStatus[e] \in {"none", "freed", "closed"} => holder[e] = H!None
           /\ \A e \in H!Ends : chanStatus[e] \in {"loose", "anchored", "spawning"} =>
                 \/ holder[e] # H!None
                 \/ e[2] = 1 /\ Marked(e[1])
                 \/ e[2] = 2 /\ \E p \in spawns : p.chan = e[1]
           /\ \A e \in H!Ends : chanStatus[e] = "anchored" => region[e] # H!None
           /\ \A e \in H!Ends : chanStatus[e] = "spawning" => e[2] = 2
           /\ \A e \in H!Ends : chanStatus[e] = "closed" /\ chanStatus[H!OtherEnd(e)] = "closed" =>
                 Closing(e) \/ Closing(H!OtherEnd(e))
           /\ \A k \in Chan : holder[<<k, 1>>] # H!None /\ holder[<<k, 2>>] # H!None =>
                 holder[<<k, 1>>] # holder[<<k, 2>>]
Marks == /\ \A m, n \in marking : m = n
         /\ \A m \in marking :
               /\ holder[<<m.chan, 1>>] = H!None /\ chanStatus[<<m.chan, 1>>] \in {"loose", "anchored"}
               /\ holder[<<m.chan, 2>>] # m.rgn
Spawns == /\ \A p \in spawns :
                /\ Living(<<p.on, 1>>) /\ Living(<<p.chan, 1>>) /\ holder[<<p.chan, 2>>] = H!None
                /\ holder[<<p.chan, 1>>] \in {H!None, p.by}
                /\ chanStatus[<<p.chan, 1>>] = "closed" => Closing(<<p.chan, 1>>)
                /\ chanStatus[<<p.chan, 2>>] = IF Marked(p.chan) THEN "loose" ELSE "spawning"
                /\ \A m \in marking : m.chan = p.chan => m.rgn = p.by
          /\ \A p, q \in spawns : p.chan = q.chan => p = q
AskedFor == /\ \A q \in chanAsked : /\ Living(q.end) /\ region[<<q.end[1], 1>>] # H!None
                                    /\ \A p \in spawns : p.on = q.end[1] /\ p.idx = q.idx => p.by # q.rgn
            /\ \A q, u \in chanAsked : q.rgn = u.rgn => q = u
Calls == \A r \in ChanRegion :
            /\ calling[r].what = "nothing" => calling[r] = H!Still
            /\ calling[r].what = "close" => chanStatus[calling[r].end] = "closed"
            /\ calling[r].what = "send" => Living(calling[r].end) /\ calling[r].to \in ChanRegion
\* What waits for a region, and the events that wait for a control block.
Queued(r, it) == \E j \in DOMAIN chanQueue[r] : chanQueue[r][j] = it
Pends(e) == \E j \in DOMAIN events : events[j] = e
Waits == /\ \A r \in ChanRegion, it \in Items : Queued(r, it) => Living(it.end)
         /\ \A e \in H!Ends : Pends(e) => Living(e)
\* The event for an end that waits, or is about to.
Notice(e) == [end |-> H!OtherEnd(e), kind |-> "event"]
Announced(e) == \/ H!OtherEnd(e) \in chanTold \/ Pends(e)
                \/ \E r \in ChanRegion : Closes(r, e) \/ Queued(r, Notice(e))
Tells == \A e \in H!Ends : chanStatus[e] = "closed" /\ chanStatus[H!OtherEnd(e)] = "anchored" => Announced(e)

ChanCalm == Pairs /\ Handled /\ Marks /\ Spawns /\ AskedFor /\ Calls /\ Waits /\ Tells
ChanInv == ChanTyped /\ PoolHas /\ H!WildForCause /\ (H!Calm => ChanCalm)
-----------------------------------------------------------------------------
LEMMA Climb ==
    ASSUME NEW b \in Nat, NEW P, 0 \in P,
           \A n \in 1..b : n - 1 \in P => n \in P
    PROVE  \A n \in 0..b : n \in P
<1> DEFINE Bad == {n \in 0..b : n \notin P}
           less == {ss \in Nat \X Nat : ss[1] < ss[2]}
<1>1. IsWellFoundedOn(less, Nat) BY NatLessThanWellFounded, Zenon DEF OpToRel
<1>2. \A k, m \in Nat : k < m => <<k, m>> \in less OBVIOUS
<1>3. ASSUME NEW m \in Bad, \A k \in Bad : ~ (<<k, m>> \in less) PROVE FALSE
  <2>1. m \in 1..b /\ m \notin P /\ m - 1 \in 0..b /\ m - 1 < m /\ m \in Nat /\ m - 1 \in Nat
    OBVIOUS
  <2>2. <<m - 1, m>> \in less BY <2>1
  <2>3. m - 1 \notin Bad
    <3> HIDE DEF Bad, less
    <3>1. QED BY <1>3, <2>2
  <2>4. QED BY <2>1, <2>3
<1>4. Bad \subseteq Nat OBVIOUS
<1> HIDE DEF Bad, less
<1>5. Bad = {} BY <1>1, <1>3, <1>4, WFMin
<1>6. QED BY <1>5 DEF Bad

LEMMA EndsAre ==
    /\ \A e \in H!Ends : /\ e = <<e[1], e[2]>> /\ e[1] \in Chan /\ e[2] \in {1, 2}
                         /\ H!OtherEnd(e) \in H!Ends /\ H!OtherEnd(H!OtherEnd(e)) = e /\ H!OtherEnd(e) # e
                         /\ H!OtherEnd(e)[1] = e[1] /\ H!OtherEnd(e)[2] = 3 - e[2]
                         /\ H!Of(e[1]) = {e, H!OtherEnd(e)}
                         /\ e[2] = 1 => e = <<e[1], 1>> /\ H!OtherEnd(e) = <<e[1], 2>>
                         /\ e[2] = 2 => e = <<e[1], 2>> /\ H!OtherEnd(e) = <<e[1], 1>>
    /\ \A k \in Chan : /\ <<k, 1>> \in H!Ends /\ <<k, 2>> \in H!Ends /\ <<k, 1>> # <<k, 2>>
                       /\ H!OtherEnd(<<k, 1>>) = <<k, 2>> /\ H!OtherEnd(<<k, 2>>) = <<k, 1>>
                       /\ \A e \in H!Ends : e \in H!Of(k) <=> e[1] = k
BY DEF H!Ends, H!OtherEnd, H!Of

\* What a channel that is discarded leaves of a queue.
LEMMA WithoutIs ==
    ASSUME NEW q \in Seq(Items), NEW k
    PROVE  LET w == H!Without(q, k) IN
           /\ w \in Seq(Items)
           /\ \A j \in DOMAIN w : w[j].end[1] # k /\ \E i \in DOMAIN q : w[j] = q[i]
           /\ \A i \in DOMAIN q : q[i].end[1] # k => \E j \in DOMAIN w : w[j] = q[i]
<1> DEFINE Body(f, n) == IF n = 0 THEN <<>> ELSE IF q[n].end[1] = k THEN f[n - 1]
                                                 ELSE Append(f[n - 1], q[n])
           Good(w, n) == /\ w \in Seq(Items)
                         /\ \A j \in DOMAIN w : w[j].end[1] # k /\ \E i \in 1 .. n : w[j] = q[i]
                         /\ \A i \in 1 .. n : q[i].end[1] # k => \E j \in DOMAIN w : w[j] = q[i]
           Upto(m) == \E f : /\ f = [n \in 0 .. m |-> Body(f, n)]
                             /\ \A n \in 0 .. m : Good(f[n], n)
           P == {m \in 0 .. Len(q) : Upto(m)}
<1>1. Len(q) \in Nat /\ DOMAIN q = 1 .. Len(q) OBVIOUS
<1>2. 0 \in P
  <2> DEFINE f == [n \in 0 .. 0 |-> <<>>]
  <2>1. f[0] = <<>> OBVIOUS
  <2>2. f = [n \in 0 .. 0 |-> Body(f, n)] OBVIOUS
  <2>3. Good(<<>>, 0) OBVIOUS
  <2> HIDE DEF Body, Good, f
  <2>4. \A n \in 0 .. 0 : n = 0 OBVIOUS
  <2>5. \A n \in 0 .. 0 : Good(f[n], n) BY <2>1, <2>3, <2>4
  <2>6. QED BY <1>1, <2>2, <2>5
<1>3. ASSUME NEW m \in 1 .. Len(q), m - 1 \in P PROVE m \in P
  <2>1. PICK f : /\ f = [n \in 0 .. (m - 1) |-> Body(f, n)]
                 /\ \A n \in 0 .. (m - 1) : Good(f[n], n)
    BY <1>3
  <2> DEFINE v == IF q[m].end[1] = k THEN f[m - 1] ELSE Append(f[m - 1], q[m])
             g == [n \in 0 .. m |-> IF n = m THEN v ELSE f[n]]
  <2>2. m - 1 \in 0 .. (m - 1) /\ m # 0 /\ m \in 0 .. Len(q) /\ m \in 1 .. m /\ m \in DOMAIN q
    BY <1>1
  <2>3. Good(f[m - 1], m - 1) BY <2>1, <2>2, Zenon
  <2>4. q[m] \in Items BY <2>2
  <2>5. Good(v, m)
    <3>1. PICK w : w = f[m - 1] OBVIOUS
    <3>2. /\ w \in Seq(Items)
          /\ \A j \in DOMAIN w : w[j].end[1] # k /\ \E i \in 1 .. (m - 1) : w[j] = q[i]
          /\ \A i \in 1 .. (m - 1) : q[i].end[1] # k => \E j \in DOMAIN w : w[j] = q[i]
      BY <2>3, <3>1
    <3>3. \A i \in 1 .. m : i = m \/ i \in 1 .. (m - 1) OBVIOUS
    <3>4. \A i \in 1 .. (m - 1) : i \in 1 .. m OBVIOUS
    <3>5. CASE q[m].end[1] = k
      <4>1. v = w BY <3>1, <3>5
      <4>2. Good(w, m) BY <3>2, <3>3, <3>4, <3>5
      <4>3. QED BY <4>1, <4>2
    <3>6. CASE q[m].end[1] # k
      <4>1. v = Append(w, q[m]) BY <3>1, <3>6
      <4>2. PICK a : a = Append(w, q[m]) OBVIOUS
      <4>3. /\ a \in Seq(Items) /\ DOMAIN a = 1 .. (Len(w) + 1) /\ a[Len(w) + 1] = q[m]
            /\ Len(w) \in Nat /\ DOMAIN w = 1 .. Len(w)
            /\ \A j \in 1 .. Len(w) : a[j] = w[j]
        BY <2>4, <3>2, <4>2
      <4>4. \A j \in DOMAIN a : j \in DOMAIN w \/ j = Len(w) + 1 BY <4>3
      <4>5. \A j \in DOMAIN w : j \in DOMAIN a BY <4>3
      <4>6. Len(w) + 1 \in DOMAIN a BY <4>3
      <4>7. ASSUME NEW j \in DOMAIN a PROVE a[j].end[1] # k /\ \E i \in 1 .. m : a[j] = q[i]
        <5>1. CASE j \in DOMAIN w
          <6>1. a[j] = w[j] BY <4>3, <5>1
          <6>2. PICK i \in 1 .. (m - 1) : w[j] = q[i] BY <3>2, <5>1
          <6>3. w[j].end[1] # k BY <3>2, <5>1
          <6>4. QED BY <3>4, <6>1, <6>2, <6>3
        <5>2. CASE j = Len(w) + 1
          <6>1. a[j] = q[m] BY <4>3, <5>2
          <6>2. QED BY <2>2, <3>6, <6>1
        <5>3. QED BY <4>4, <5>1, <5>2
      <4>8. ASSUME NEW i \in 1 .. m, q[i].end[1] # k PROVE \E j \in DOMAIN a : a[j] = q[i]
        <5>1. CASE i = m BY <4>3, <4>6, <5>1
        <5>2. CASE i # m
          <6>1. PICK j \in DOMAIN w : w[j] = q[i] BY <3>2, <3>3, <4>8, <5>2
          <6>2. a[j] = w[j] /\ j \in DOMAIN a BY <4>3, <4>5, <6>1
          <6>3. QED BY <6>1, <6>2
        <5>3. QED BY <5>1, <5>2
      <4>9. a \in Seq(Items) BY <4>3
      <4> HIDE DEF v
      <4>10. Good(a, m) BY <4>7, <4>8, <4>9
      <4>11. QED BY <4>1, <4>2, <4>10
    <3>7. QED BY <3>5, <3>6
  <2> HIDE DEF Good, v
  <2>6. g[m] = v /\ \A n \in 0 .. (m - 1) : g[n] = f[n] OBVIOUS
  <2>7. g = [n \in 0 .. m |-> Body(g, n)]
    <3> HIDE DEF g
    <3>1. ASSUME NEW n \in 0 .. m PROVE g[n] = Body(g, n)
      <4>1. CASE n = m BY <2>2, <2>6, <4>1 DEF v
      <4>2. CASE n # m
        <5>1. n \in 0 .. (m - 1) /\ (n # 0 => n - 1 \in 0 .. (m - 1)) BY <4>2
        <5>2. f[n] = Body(f, n) BY <2>1, <5>1
        <5>3. QED BY <2>6, <5>1, <5>2
      <4>3. QED BY <4>1, <4>2
    <3>2. g = [n \in 0 .. m |-> g[n]] BY DEF g
    <3> HIDE DEF Body
    <3>3. QED BY <3>1, <3>2
  <2>8. \A n \in 0 .. m : Good(g[n], n)
    <3> HIDE DEF g
    <3>1. \A n \in 0 .. m : n = m \/ n \in 0 .. (m - 1) OBVIOUS
    <3>2. QED BY <2>1, <2>5, <2>6, <3>1, Zenon
  <2> HIDE DEF g, Body
  <2>9. Upto(m) BY <2>7, <2>8
  <2>10. QED BY <2>2, <2>9
<1> HIDE DEF Upto
<1>4. Upto(Len(q))
  <2> HIDE DEF P
  <2>1. \A n \in 0 .. Len(q) : n \in P BY <1>1, <1>2, <1>3, Climb
  <2>2. Len(q) \in P BY <1>1, <2>1
  <2>3. QED BY <2>2 DEF P
<1> DEFINE h == CHOOSE f : f = [n \in 0 .. Len(q) |-> Body(f, n)]
<1>5. H!Without(q, k) = h[Len(q)] BY Zenon DEF H!Without
<1>6. PICK f : f = [n \in 0 .. Len(q) |-> Body(f, n)] /\ \A n \in 0 .. Len(q) : Good(f[n], n)
  BY <1>4 DEF Upto
<1>7. h = [n \in 0 .. Len(q) |-> Body(h, n)] BY <1>6, Zenon
<1> HIDE DEF h
<1>8. h[Len(q)] = f[Len(q)]
  <2> DEFINE Q == {n \in 0 .. Len(q) : h[n] = f[n]}
  <2>1. 0 \in Q
    <3>1. 0 \in 0 .. Len(q) BY <1>1
    <3>2. h[0] = Body(h, 0) BY <1>7, <3>1
    <3>3. f[0] = Body(f, 0) BY <1>6, <3>1
    <3>4. QED BY <3>1, <3>2, <3>3
  <2>2. ASSUME NEW n \in 1 .. Len(q), n - 1 \in Q PROVE n \in Q
    <3>1. n \in 0 .. Len(q) /\ n # 0 /\ h[n - 1] = f[n - 1] BY <1>1, <2>2
    <3>2. h[n] = Body(h, n) BY <1>7, <3>1
    <3>3. f[n] = Body(f, n) BY <1>6, <3>1
    <3>4. QED BY <3>1, <3>2, <3>3
  <2> HIDE DEF Q
  <2>3. \A n \in 0 .. Len(q) : n \in Q BY <1>1, <2>1, <2>2, Climb
  <2>4. Len(q) \in Q BY <1>1, <2>3
  <2>5. QED BY <2>4 DEF Q
<1>9. Good(H!Without(q, k), Len(q))
  <2> HIDE DEF Good
  <2>1. Len(q) \in 0 .. Len(q) BY <1>1
  <2>2. QED BY <1>5, <1>6, <1>8, <2>1
<1>10. QED BY <1>1, <1>9

LEMMA EventsWaitIs == ASSUME NEW q \in Seq(Items), NEW k PROVE H!Waiting(q, k) \in Nat
<1> DEFINE S == {j \in DOMAIN q : q[j].end[1] = k /\ q[j].kind = "event"}
<1>1. PICK n \in Nat : n = Len(q) OBVIOUS
<1>2. DOMAIN q = 1 .. n BY <1>1
<1>3. IsFiniteSet(1 .. n) BY <1>1, FS_Interval
<1>4. S \subseteq 1 .. n BY <1>2
<1> HIDE DEF S
<1>5. IsFiniteSet(S) BY <1>3, <1>4, FS_Subset
<1>6. Cardinality(S) \in Nat BY <1>5, FS_CardinalityType
<1>7. H!Waiting(q, k) = Cardinality(S) BY DEF H!Waiting, H!Cardinality, Cardinality, S
<1>8. QED BY <1>6, <1>7
-----------------------------------------------------------------------------
(* Types, and the agent's pool, which no race disturbs.                        *)
ChanKept == ChanTyped' /\ PoolHas' /\ blame \subseteq blame' /\ (chanWild => chanWild')

LEMMA SentTyped ==
    ASSUME ChanTyped, NEW e \in H!Ends, NEW to \in Regions
    PROVE  H!Sent(e, to) \in [ChanRegion -> Seq(Items)]
<1>1. H!OtherEnd(e) \in H!Ends BY EndsAre
<1>2. [end |-> H!OtherEnd(e), kind |-> "event"] \in Items BY <1>1 DEF Items
<1>3. CASE to = H!None BY <1>3 DEF H!Sent, ChanTyped
<1>4. CASE to # H!None
  <2>1. to \in ChanRegion BY <1>4 DEF Regions
  <2>2. chanQueue[to] \in Seq(Items) BY <2>1 DEF ChanTyped
  <2>3. Append(chanQueue[to], [end |-> H!OtherEnd(e), kind |-> "event"]) \in Seq(Items)
    BY <1>2, <2>2
  <2>4. QED BY <1>4, <2>1, <2>3 DEF H!Sent, ChanTyped
<1>5. QED BY <1>3, <1>4

LEMMA TargetTyped == ASSUME ChanTyped, NEW e \in H!Ends PROVE H!Target(e) \in Regions
<1>1. H!OtherEnd(e) \in H!Ends BY EndsAre
<1>2. QED BY <1>1 DEF H!Target, ChanTyped, Regions

LEMMA SpentIs ==
    ASSUME NEW p \in Pools, NEW to
    PROVE  LET q == H!Spent(p, to) IN
           q \in Pools /\ q.free = p.free /\ q.out + q.back = p.out + p.back + 1
BY DEF Pools, H!Spent

LEMMA SendKept ==
    ASSUME ChanTyped, PoolHas, NEW e \in H!Ends, NEW to \in Regions, H!_udi_MA_send_op(e, to)
    PROVE  /\ chanQueue' \in [ChanRegion -> Seq(Items)] /\ events' \in Seq(H!Ends)
           /\ PoolHas'
<1>1. /\ pool.free \in Nat /\ pool.out \in Int /\ pool.back \in Int
      /\ pool.free + pool.out + pool.back > 0 /\ (events # <<>> => pool.free = 0)
      /\ pool \in Pools
  BY DEF PoolHas, Pools
<1>2. CASE pool.free > 0 /\ pool' = H!Spent([pool EXCEPT !.free = @ - 1], to)
           /\ chanQueue' = H!Sent(e, to) /\ UNCHANGED events
  <2>1. events = <<>> BY <1>1, <1>2
  <2> DEFINE p == [pool EXCEPT !.free = @ - 1]
  <2>4. p \in Pools /\ p.free = pool.free - 1 /\ p.out = pool.out /\ p.back = pool.back
    <3>1. pool.free - 1 \in Nat BY <1>1, <1>2
    <3>2. QED BY <1>1, <3>1 DEF Pools
  <2> HIDE DEF p
  <2>5. /\ pool' \in Pools /\ pool'.free = p.free
        /\ pool'.out + pool'.back = p.out + p.back + 1
    BY <1>2, <2>4, SpentIs DEF p
  <2>6. pool'.free + pool'.out + pool'.back > 0 BY <1>1, <2>4, <2>5 DEF Pools
  <2>7. QED BY <1>2, <2>1, <2>5, <2>6, SentTyped DEF PoolHas, ChanTyped
<1>3. CASE pool.free = 0 /\ pool' = H!Spent(pool, to) /\ chanQueue' = H!Sent(e, to) /\ UNCHANGED events
  <2>1. /\ pool' \in Pools /\ pool'.free = 0
        /\ pool'.free + pool'.out + pool'.back > 0
    BY <1>1, <1>3, SpentIs DEF Pools
  <2>2. QED BY <1>3, <2>1, SentTyped DEF PoolHas, ChanTyped
<1>4. CASE pool.free = 0 /\ events' = Append(events, e) /\ UNCHANGED <<pool, chanQueue>>
  BY <1>1, <1>4 DEF PoolHas, ChanTyped
<1>5. QED BY <1>2, <1>3, <1>4 DEF H!_udi_MA_send_op

LEMMA ReturnTyped == ASSUME ChanTyped, PoolHas, H!_udi_MA_return_cb PROVE ChanKept
<1>1. /\ pool.free \in Nat /\ pool.out \in Int /\ pool.back \in Int
      /\ pool.free + pool.out + pool.back > 0 /\ (events # <<>> => pool.free = 0)
      /\ pool \in Pools
  BY DEF PoolHas, Pools
<1> DEFINE back == [pool EXCEPT !.back = @ - 1]
<1>2. CASE events = <<>>
  <2>1. pool' = [back EXCEPT !.free = @ + 1] /\ UNCHANGED <<chanQueue, events, chanWild>>
    BY <1>2 DEF H!_udi_MA_return_cb
  <2>2. pool' \in Pools /\ pool'.free + pool'.out + pool'.back > 0
    <3>1. /\ back \in Pools /\ back.free = pool.free /\ back.out = pool.out
          /\ back.back = pool.back - 1
      BY <1>1 DEF Pools
    <3> HIDE DEF back
    <3>2. /\ pool' \in Pools /\ pool'.free = back.free + 1 /\ pool'.out = back.out
          /\ pool'.back = back.back
      BY <2>1, <3>1 DEF Pools
    <3>3. QED BY <1>1, <3>1, <3>2
  <2>3. PoolHas' BY <1>2, <2>1, <2>2 DEF PoolHas
  <2>4. ChanTyped' BY <2>1 DEF H!_udi_MA_return_cb, ChanTyped
  <2>5. QED BY <2>1, <2>3, <2>4 DEF ChanKept, H!_udi_MA_return_cb
<1>3. CASE events # <<>>
  <2> DEFINE e == Head(events)
  <2>1. /\ events' = Tail(events) /\ chanWild' = H!Gone(e) /\ pool' = H!Spent(back, H!Target(e))
        /\ chanQueue' = H!Sent(e, H!Target(e)) /\ ~chanWild
    BY <1>3 DEF H!_udi_MA_return_cb
  <2>2. events \in Seq(H!Ends) BY DEF ChanTyped
  <2>3. e \in H!Ends /\ Tail(events) \in Seq(H!Ends) BY <1>3, <2>2
  <2> HIDE DEF e
  <2>4. H!Target(e) \in Regions BY <2>3, TargetTyped
  <2>5. chanQueue' \in [ChanRegion -> Seq(Items)] BY <2>1, <2>3, <2>4, SentTyped
  <2>11. back \in Pools /\ back.free = 0 /\ back.out + back.back = pool.out + pool.back - 1
    BY <1>1, <1>3 DEF Pools
  <2>6. /\ pool' \in Pools /\ pool'.free = 0
        /\ pool'.free + pool'.out + pool'.back > 0
    <3> HIDE DEF back
    <3>1. /\ pool' \in Pools /\ pool'.free = 0
          /\ pool'.out + pool'.back = back.out + back.back + 1
      BY <2>1, <2>11, SpentIs
    <3>2. QED BY <1>1, <1>3, <2>11, <3>1 DEF Pools
  <2>7. PoolHas' BY <2>6 DEF PoolHas
  <2>8. chanWild' \in BOOLEAN BY <2>1 DEF H!Gone
  <2>9. ChanTyped' BY <2>1, <2>3, <2>5, <2>8 DEF H!_udi_MA_return_cb, ChanTyped
  <2>10. QED BY <2>1, <2>7, <2>9 DEF ChanKept, H!_udi_MA_return_cb
<1>4. QED BY <1>2, <1>3

\* What spawning does: the first of two to ask finds nothing, the second what was left.
Meeting(p, r) ==
    LET new == <<p.chan, 2>> IN
    /\ p \in spawns
    /\ spawns' = spawns \ {p}
    /\ holder' = [holder EXCEPT ![new] = r]
    /\ \/ H!Gone(new) /\ chanWild' = TRUE /\ UNCHANGED <<chanStatus, region>>
       \/ ~H!Gone(new) /\ UNCHANGED <<chanWild, chanStatus, region>>
       \/ ~H!Gone(new) /\ UNCHANGED chanWild /\ H!Anchor(new, r)
    /\ UNCHANGED blame
Met(r, e, i) == \E p \in spawns : p.on = e[1] /\ p.idx = i /\ Meeting(p, r)
LEMMA MeetsIs ==
    ASSUME NEW r, NEW e, NEW i, NEW anchor, H!Meets(r, e, i, anchor)
    PROVE  Met(r, e, i)
BY Zenon DEF H!Meets, Meeting, Met, H!Pending

NoneWaits(e, i) == \A p \in spawns : p.on = e[1] /\ p.idx = i => FALSE
SpawnsAt(r, e, i) ==
    /\ H!Ready(r) /\ holder[e] = r /\ chanStatus[e] = "anchored"
    /\ \A q \in chanAsked : q.rgn # r
    /\ \A p \in spawns : p.on = e[1] /\ p.idx = i => p.by # r
    /\ \/ /\ chanWild' = TRUE /\ blame' = blame \cup {"no region"}
          /\ UNCHANGED <<chanStatus, region, holder, spawns, chanAsked>>
       \/ Met(r, e, i) /\ UNCHANGED chanAsked
       \/ /\ NoneWaits(e, i) /\ ~H!NoLock(e[1])
          /\ \E q : q.rgn = r /\ q.end = e /\ q.idx = i /\ chanAsked' = chanAsked \cup {q}
          /\ UNCHANGED <<chanStatus, region, holder, spawns, blame, chanWild>>
    /\ UNCHANGED <<marking, calling, chanQueue, events, pool, chanTold>>
LEMMA SpawnIs ==
    ASSUME NEW r, H!udi_channel_spawn(r)
    PROVE  \E e \in H!Ends, i \in SpawnIdx : SpawnsAt(r, e, i)
<1>1. PICK e \in H!Ends, i \in SpawnIdx, anchor \in BOOLEAN :
         /\ H!Call(r) /\ holder[e] = r /\ chanStatus[e] = "anchored"
         /\ ~\E q \in chanAsked : q.rgn = r
         /\ \A p \in H!Pending(e[1], i) : p.by # r
         /\ IF H!NoLock(e[1])
            THEN /\ chanWild' = TRUE /\ blame' = blame \cup {"no region"}
                 /\ UNCHANGED <<chanStatus, region, holder, spawns, chanAsked>>
            ELSE \/ H!Meets(r, e, i, anchor) /\ UNCHANGED chanAsked
                 \/ /\ H!Pending(e[1], i) = {}
                    /\ chanAsked' = chanAsked \cup {[rgn |-> r, end |-> e, idx |-> i, anchor |-> anchor]}
                    /\ UNCHANGED <<chanStatus, region, holder, spawns, blame, chanWild>>
         /\ UNCHANGED <<marking, calling, chanQueue, events, pool, chanTold>>
  BY Zenon DEF H!udi_channel_spawn
<1>2. H!Pending(e[1], i) = {} => NoneWaits(e, i) BY DEF H!Pending, NoneWaits
<1>3. \A p \in spawns : p.on = e[1] /\ p.idx = i => p.by # r BY <1>1, Zenon DEF H!Pending
<1>4. PICK q : q = [rgn |-> r, end |-> e, idx |-> i, anchor |-> anchor] OBVIOUS
<1>5. q.rgn = r /\ q.end = e /\ q.idx = i BY <1>4
<1>6. H!Meets(r, e, i, anchor) => Met(r, e, i)
  <2>1. ASSUME H!Meets(r, e, i, anchor) PROVE Met(r, e, i)
    BY <2>1, Zenon DEF H!Meets, Meeting, Met, H!Pending
  <2>2. QED BY <2>1
<1>7. H!Ready(r) BY <1>1, Zenon DEF H!Call
<1>8. QED BY <1>1, <1>2, <1>3, <1>4, <1>5, <1>6, <1>7, Zenon DEF SpawnsAt

\* The daemon makes channel k for a request q.
Making(q, k, v) ==
    /\ chanStatus[<<k, 1>>] = "none" /\ chanStatus[<<k, 2>>] = "none"
    /\ v \in {"loose", "anchored"}
    /\ chanStatus' = [chanStatus EXCEPT ![<<k, 2>>] = "loose", ![<<k, 1>>] = v]
    /\ region' = [region EXCEPT ![<<k, 1>>] = IF v = "anchored" THEN q.rgn ELSE H!None]
    /\ spawns' = spawns \cup {[on |-> q.end[1], idx |-> q.idx, by |-> q.rgn, chan |-> k]}
    /\ marking' = {[chan |-> k, rgn |-> q.rgn]}
    /\ UNCHANGED <<holder, blame, chanWild>>
CompletesFor(q) ==
    /\ marking = {} /\ ~chanWild /\ chanAsked' = chanAsked \ {q}
    /\ \/ H!NoLock(q.end[1]) /\ chanWild' = TRUE
          /\ UNCHANGED <<chanStatus, region, holder, spawns, marking, blame>>
       \/ Met(q.rgn, q.end, q.idx) /\ UNCHANGED marking
       \/ NoneWaits(q.end, q.idx) /\ \E k \in Chan : \E v : Making(q, k, v)
    /\ UNCHANGED <<calling, chanQueue, events, pool, chanTold>>
LEMMA CompleteIs == ASSUME H!_udi_channel_spawn_complete PROVE \E q \in chanAsked : CompletesFor(q)
<1>1. PICK q \in chanAsked :
         /\ marking = {} /\ ~chanWild /\ chanAsked' = chanAsked \ {q}
         /\ IF H!NoLock(q.end[1])
            THEN chanWild' = TRUE /\ UNCHANGED <<chanStatus, region, holder, spawns, marking,
                                                 blame>>
            ELSE \/ H!Meets(q.rgn, q.end, q.idx, q.anchor) /\ UNCHANGED marking
                 \/ /\ H!Pending(q.end[1], q.idx) = {}
                    /\ \E k \in Chan :
                         /\ \A e \in H!Of(k) : chanStatus[e] = "none"
                         /\ chanStatus' = [chanStatus EXCEPT ![<<k, 2>>] = "loose", ![<<k, 1>>] =
                                         IF q.anchor THEN "anchored" ELSE "loose"]
                         /\ region' = [region EXCEPT ![<<k, 1>>] = IF q.anchor THEN q.rgn ELSE H!None]
                         /\ spawns' = spawns \cup {[on |-> q.end[1], idx |-> q.idx, by |-> q.rgn, chan |-> k]}
                         /\ marking' = {[chan |-> k, rgn |-> q.rgn]}
                    /\ UNCHANGED <<holder, blame, chanWild>>
         /\ UNCHANGED <<calling, chanQueue, events, pool, chanCalls, chanTold>>
  BY Zenon DEF H!_udi_channel_spawn_complete
<1>2. H!Pending(q.end[1], q.idx) = {} => NoneWaits(q.end, q.idx) BY DEF H!Pending, NoneWaits
<1>3. H!Meets(q.rgn, q.end, q.idx, q.anchor) => Met(q.rgn, q.end, q.idx)
  BY MeetsIs
<1>4. ASSUME NEW k \in Chan, UNCHANGED <<holder, blame, chanWild>>,
             /\ \A e \in H!Of(k) : chanStatus[e] = "none"
             /\ chanStatus' = [chanStatus EXCEPT ![<<k, 2>>] = "loose", ![<<k, 1>>] =
                             IF q.anchor THEN "anchored" ELSE "loose"]
             /\ region' = [region EXCEPT ![<<k, 1>>] = IF q.anchor THEN q.rgn ELSE H!None]
             /\ spawns' = spawns \cup {[on |-> q.end[1], idx |-> q.idx, by |-> q.rgn, chan |-> k]}
             /\ marking' = {[chan |-> k, rgn |-> q.rgn]}
      PROVE  \E v : Making(q, k, v)
  <2>1. <<k, 1>> \in H!Of(k) /\ <<k, 2>> \in H!Of(k) BY DEF H!Of
  <2>2. CASE q.anchor
    <3>1. Making(q, k, "anchored") BY <1>4, <2>1, <2>2 DEF Making
    <3>2. QED BY <3>1
  <2>3. CASE ~q.anchor
    <3>1. Making(q, k, "loose") BY <1>4, <2>1, <2>3 DEF Making
    <3>2. QED BY <3>1
  <2>4. QED BY <2>2, <2>3
<1>5. QED BY <1>1, <1>2, <1>3, <1>4, Zenon DEF CompletesFor

LEMMA MeetingTyped ==
    ASSUME ChanTyped, NEW r \in ChanRegion, NEW p, Meeting(p, r)
    PROVE  /\ chanStatus' \in [H!Ends -> Statuses]
           /\ region' \in [H!Ends -> Regions] /\ holder' \in [H!Ends -> Regions]
           /\ spawns' \subseteq spawns /\ blame' = blame /\ chanWild' \in BOOLEAN /\ (chanWild => chanWild')
<1>1. r \in Regions BY DEF Regions
<1>2. holder' \in [H!Ends -> Regions] /\ spawns' \subseteq spawns /\ blame' = blame
  BY <1>1 DEF Meeting, ChanTyped
<1>3. chanWild' \in BOOLEAN /\ (chanWild => chanWild')
  <2>1. chanWild \in BOOLEAN BY DEF ChanTyped
  <2>2. chanWild' = TRUE \/ chanWild' = chanWild BY Zenon DEF Meeting
  <2>3. QED BY <2>1, <2>2, Zenon
<1>4. CASE UNCHANGED <<chanStatus, region>> BY <1>2, <1>3, <1>4 DEF ChanTyped
<1>5. CASE H!Anchor(<<p.chan, 2>>, r)
  <2>1. chanStatus' \in [H!Ends -> Statuses] /\ region' \in [H!Ends -> Regions]
    BY <1>1, <1>5 DEF H!Anchor, ChanTyped, Statuses
  <2>2. QED BY <1>2, <1>3, <2>1
<1>6. QED BY <1>4, <1>5 DEF Meeting

LEMMA SpawnTyped ==
    ASSUME ChanTyped, PoolHas, NEW r \in ChanRegion, H!udi_channel_spawn(r)
    PROVE  ChanKept
<1>1. PICK e \in H!Ends, i \in SpawnIdx : SpawnsAt(r, e, i) BY SpawnIs
<1> USE <1>1 DEF SpawnsAt
<1>2. PoolHas' BY <1>1 DEF PoolHas
<1>3. CASE chanWild' = TRUE /\ blame' = blame \cup {"no region"} /\ UNCHANGED <<chanStatus,
                                                                                region, holder, spawns, chanAsked>>
  BY <1>1, <1>2, <1>3 DEF ChanTyped, ChanKept
<1>4. CASE Met(r, e, i) /\ UNCHANGED chanAsked
  <2>1. PICK p : Meeting(p, r) BY <1>4 DEF Met
  <2>2. QED BY <1>1, <1>2, <1>4, <2>1, MeetingTyped DEF ChanTyped, ChanKept
<1>5. CASE /\ \E q : q.rgn = r /\ q.end = e /\ q.idx = i /\ chanAsked' = chanAsked \cup {q}
           /\ UNCHANGED <<chanStatus, region, holder, spawns, blame, chanWild>>
  BY <1>1, <1>2, <1>5 DEF ChanTyped, ChanKept
<1>6. QED BY <1>1, <1>3, <1>4, <1>5

LEMMA CompleteTyped == ASSUME ChanTyped, PoolHas, H!_udi_channel_spawn_complete PROVE ChanKept
<1>1. PICK q \in chanAsked : CompletesFor(q) BY CompleteIs
<1> USE <1>1 DEF CompletesFor
<1>2. /\ q.rgn \in ChanRegion /\ q.end \in H!Ends /\ q.idx \in SpawnIdx
      /\ q.end[1] \in Chan /\ q.rgn \in Regions
  BY EndsAre DEF ChanTyped, Regions
<1>3. PoolHas' BY <1>1 DEF PoolHas
<1>4. chanAsked' \subseteq chanAsked BY <1>1
<1>5. CASE chanWild' = TRUE /\ UNCHANGED <<chanStatus, region, holder, spawns, marking, blame>>
  BY <1>1, <1>3, <1>4, <1>5 DEF ChanTyped, ChanKept
<1>6. CASE Met(q.rgn, q.end, q.idx) /\ UNCHANGED marking
  <2>1. PICK p : Meeting(p, q.rgn) BY <1>6 DEF Met
  <2>2. QED BY <1>1, <1>2, <1>3, <1>4, <1>6, <2>1, MeetingTyped DEF ChanTyped, ChanKept
<1>7. ASSUME NEW k \in Chan, NEW v, Making(q, k, v) PROVE ChanKept
  <2>1. chanStatus' \in [H!Ends -> Statuses] BY <1>7 DEF Making, ChanTyped, Statuses
  <2>2. region' \in [H!Ends -> Regions] BY <1>2, <1>7 DEF Making, ChanTyped, Regions
  <2>3. spawns' \subseteq [on : Chan, idx : SpawnIdx, by : ChanRegion, chan : Chan]
    BY <1>2, <1>7 DEF Making, ChanTyped
  <2>4. marking' \subseteq [chan : Chan, rgn : ChanRegion] BY <1>2, <1>7 DEF Making
  <2>5. QED BY <1>1, <1>3, <1>4, <1>7, <2>1, <2>2, <2>3, <2>4 DEF Making, ChanTyped, ChanKept
<1>8. QED BY <1>1, <1>5, <1>6, <1>7

LEMMA MarkTyped == ASSUME ChanTyped, PoolHas, H!Mark PROVE ChanKept
<1>1. PICK m \in marking :
         /\ chanWild' = H!Gone(<<m.chan, 2>>)
         /\ chanStatus' = [chanStatus EXCEPT ![<<m.chan, 2>>] = IF H!Gone(<<m.chan, 2>>) THEN @ ELSE "spawning"]
         /\ blame' = IF chanStatus[<<m.chan, 2>>] # "loose" THEN blame \cup {"race"} ELSE blame
         /\ holder' = [holder EXCEPT ![<<m.chan, 1>>] = m.rgn]
  BY DEF H!Mark
<1>2. m.chan \in Chan /\ m.rgn \in Regions BY DEF ChanTyped, Regions
<1>3. <<m.chan, 2>> \in H!Ends BY <1>2, EndsAre
<1>4. chanStatus' \in [H!Ends -> Statuses] BY <1>1, <1>3 DEF ChanTyped, Statuses
<1>5. /\ ~chanWild /\ marking' = {}
      /\ UNCHANGED <<region, spawns, chanAsked, calling, chanQueue, events, pool, chanCalls,
                     chanTold>>
  BY DEF H!Mark
<1>6. chanWild' \in BOOLEAN BY <1>1 DEF H!Gone
<1>7. ChanTyped' BY <1>1, <1>2, <1>4, <1>5, <1>6 DEF ChanTyped
<1>8. QED BY <1>1, <1>5, <1>7 DEF ChanKept, PoolHas

LEMMA AnchorTyped ==
    ASSUME ChanTyped, PoolHas, NEW r \in ChanRegion, H!udi_channel_anchor(r)
    PROVE  ChanKept
<1>1. PICK e \in H!Ends :
         /\ H!Call(r)
         /\ IF H!Gone(e)
            THEN /\ chanWild' = TRUE
                 /\ UNCHANGED <<chanStatus, region, chanQueue, events, pool>>
            ELSE /\ H!Anchor(e, r)
                 /\ UNCHANGED chanWild
                 /\ IF chanStatus[H!OtherEnd(e)] = "closed" THEN H!_udi_MA_send_op(H!OtherEnd(e), r)
                    ELSE UNCHANGED <<chanQueue, events, pool>>
         /\ UNCHANGED <<holder, spawns, chanAsked, marking, calling, blame, chanTold>>
  BY DEF H!udi_channel_anchor
<1>2. r \in Regions /\ H!OtherEnd(e) \in H!Ends BY EndsAre DEF Regions
<1>3. chanStatus' \in [H!Ends -> Statuses] /\ region' \in [H!Ends -> Regions]
  BY <1>1, <1>2 DEF ChanTyped, H!Anchor, Statuses
<1>4. chanQueue' \in [ChanRegion -> Seq(Items)] /\ events' \in Seq(H!Ends) /\ PoolHas'
  <2>1. CASE UNCHANGED <<chanQueue, events, pool>> BY <2>1 DEF ChanTyped, PoolHas
  <2>2. CASE H!_udi_MA_send_op(H!OtherEnd(e), r) BY <1>2, <2>2, SendKept
  <2>3. QED BY <1>1, <2>1, <2>2
<1>5. chanWild' \in BOOLEAN /\ (chanWild => chanWild') BY <1>1 DEF ChanTyped
<1>6. QED BY <1>1, <1>3, <1>4, <1>5 DEF ChanKept, ChanTyped

LEMMA CloseTyped ==
    ASSUME ChanTyped, PoolHas, NEW r \in ChanRegion, H!udi_channel_close(r)
    PROVE  ChanKept
<1>1. PICK e \in H!Ends :
         /\ IF H!Gone(e)
            THEN chanWild' = TRUE /\ UNCHANGED <<chanStatus, holder, calling>>
            ELSE /\ chanStatus' = [chanStatus EXCEPT ![e] = "closed"]
                 /\ holder' = [holder EXCEPT ![e] = H!None]
                 /\ calling' = [calling EXCEPT ![r] = [what |-> "close", end |-> e, to |-> H!None]]
                 /\ UNCHANGED chanWild
         /\ UNCHANGED <<region, spawns, chanAsked, marking, chanQueue, events, pool, blame,
                        chanTold>>
  BY DEF H!udi_channel_close
<1>2. [what |-> "close", end |-> e, to |-> H!None] \in Doings BY DEF Doings, Regions
<1>3. chanStatus' \in [H!Ends -> Statuses] /\ holder' \in [H!Ends -> Regions] /\ calling' \in [ChanRegion -> Doings]
  BY <1>1, <1>2 DEF ChanTyped, Statuses, Regions
<1>4. chanWild' \in BOOLEAN /\ (chanWild => chanWild') BY <1>1 DEF ChanTyped
<1>5. QED BY <1>1, <1>3, <1>4 DEF ChanKept, ChanTyped, PoolHas

LEMMA LookTyped ==
    ASSUME H!ConstantsMakeSense, ChanTyped, PoolHas, NEW r \in ChanRegion, H!LookAtOther(r)
    PROVE  ChanKept
<1> DEFINE e == calling[r].end
           o == chanStatus[H!OtherEnd(e)]
<1>1. e \in H!Ends /\ H!OtherEnd(e) \in H!Ends /\ e[1] \in Chan /\ H!Target(e) \in Regions
  BY EndsAre, TargetTyped DEF ChanTyped, Doings
<1>2. ~chanWild /\ calling' = [calling EXCEPT ![r] = H!Still]
      /\ UNCHANGED <<holder, chanAsked, marking, chanCalls, chanTold>>
  BY DEF H!LookAtOther
<1>3. \/ /\ chanWild' = TRUE /\ UNCHANGED <<chanStatus, region, spawns, chanQueue, events,
                                            pool, blame>>
      \/ /\ H!_udi_MA_send_op(e, H!Target(e)) /\ UNCHANGED <<chanStatus, region, spawns, blame,
                                                             chanWild>>
      \/ UNCHANGED <<chanStatus, region, spawns, chanQueue, events, pool, blame, chanWild>>
      \/ /\ H!Discard(e[1])
         /\ chanQueue' = [x \in ChanRegion |-> H!Without(chanQueue[x], e[1])]
         /\ pool' = [pool EXCEPT !.out = @ - H!Waiting(chanQueue[r], e[1]),
                                 !.back = @ + H!Waiting(chanQueue[r], e[1])]
         /\ blame' = blame \cup H!Causes(r, e[1])
         /\ UNCHANGED <<events, chanWild>>
  BY Zenon DEF H!LookAtOther
<1>4. calling' \in [ChanRegion -> Doings]
  <2>1. H!Still \in Doings
    <3>1. FirstChan \in Chan BY DEF H!ConstantsMakeSense
    <3>2. <<FirstChan, 1>> \in H!Ends BY <3>1, EndsAre
    <3>3. QED BY <3>2 DEF H!Still, Doings, Regions
  <2>2. QED BY <1>2, <2>1 DEF ChanTyped
<1> HIDE DEF e, o
<1>5. CASE chanWild' = TRUE /\ UNCHANGED <<chanStatus, region, spawns, chanQueue, events, pool,
                                           blame>>
  BY <1>2, <1>4, <1>5 DEF ChanTyped, PoolHas, ChanKept
<1>6. CASE H!_udi_MA_send_op(e, H!Target(e)) /\ UNCHANGED <<chanStatus, region, spawns, blame,
                                                            chanWild>>
  <2>1. chanQueue' \in [ChanRegion -> Seq(Items)] /\ events' \in Seq(H!Ends) /\ PoolHas'
    BY <1>1, <1>6, SendKept
  <2>2. QED BY <1>2, <1>4, <1>6, <2>1 DEF ChanTyped, ChanKept
<1>7. CASE UNCHANGED <<chanStatus, region, spawns, chanQueue, events, pool, blame, chanWild>>
  BY <1>2, <1>4, <1>7 DEF ChanTyped, PoolHas, ChanKept
<1>8. CASE /\ H!Discard(e[1])
           /\ chanQueue' = [x \in ChanRegion |-> H!Without(chanQueue[x], e[1])]
           /\ pool' = [pool EXCEPT !.out = @ - H!Waiting(chanQueue[r], e[1]),
                                   !.back = @ + H!Waiting(chanQueue[r], e[1])]
           /\ blame' = blame \cup H!Causes(r, e[1])
           /\ UNCHANGED <<events, chanWild>>
  <2>1. PICK n : n = H!Waiting(chanQueue[r], e[1]) OBVIOUS
  <2>2. n \in Nat
    <3>1. chanQueue[r] \in Seq(Items) BY DEF ChanTyped
    <3>2. QED BY <2>1, <3>1, EventsWaitIs
  <2>3. PoolHas'
    <3>1. /\ pool.free \in Nat /\ pool.out \in Int /\ pool.back \in Int /\ pool \in Pools
          /\ pool.free + pool.out + pool.back > 0 /\ (events # <<>> => pool.free = 0)
      BY DEF PoolHas, Pools
    <3>2. pool' = [pool EXCEPT !.out = pool.out - n, !.back = pool.back + n] BY <1>8, <2>1
    <3>3. /\ pool' \in Pools /\ pool'.free = pool.free
          /\ pool'.out = pool.out - n /\ pool'.back = pool.back + n
      <4>1. PICK a \in Int, b \in Int : a = pool.out - n /\ b = pool.back + n BY <2>2, <3>1
      <4>2. pool' = [pool EXCEPT !.out = a, !.back = b] BY <3>2, <4>1
      <4>3. pool' \in Pools /\ pool'.free = pool.free /\ pool'.out = a /\ pool'.back = b
        BY <3>1, <4>2 DEF Pools
      <4>4. QED BY <4>1, <4>3
    <3>4. pool'.free + pool'.out + pool'.back > 0 BY <2>2, <3>1, <3>3
    <3>5. QED BY <1>8, <3>1, <3>3, <3>4 DEF PoolHas
  <2>4. \A x \in ChanRegion : H!Without(chanQueue[x], e[1]) \in Seq(Items)
    BY WithoutIs DEF ChanTyped
  <2>5. chanQueue' \in [ChanRegion -> Seq(Items)] BY <1>8, <2>4
  <2>6. chanStatus' \in [H!Ends -> Statuses] /\ region' \in [H!Ends -> Regions]
        /\ spawns' \subseteq [on : Chan, idx : SpawnIdx, by : ChanRegion, chan : Chan]
    BY <1>8 DEF H!Discard, ChanTyped, Statuses, Regions
  <2>7. QED BY <1>2, <1>4, <1>8, <2>3, <2>5, <2>6 DEF ChanTyped, ChanKept
<1>9. QED BY <1>3, <1>5, <1>6, <1>7, <1>8

LEMMA CallTyped == ASSUME ChanTyped, PoolHas, NEW r \in ChanRegion, H!udi_mei_call(r) PROVE ChanKept
<1>1. PICK e \in H!Ends :
        /\ \/ chanWild' = TRUE /\ UNCHANGED calling
           \/ /\ calling' = [calling EXCEPT ![r] =
                               [what |-> "send", end |-> H!OtherEnd(e), to |-> region[H!OtherEnd(e)]]]
              /\ UNCHANGED chanWild
        /\ UNCHANGED <<chanStatus, region, holder, spawns, chanAsked, marking, chanQueue,
                       events, pool, blame, chanTold>>
  BY DEF H!udi_mei_call
<1>2. [what |-> "send", end |-> H!OtherEnd(e), to |-> region[H!OtherEnd(e)]] \in Doings
  BY EndsAre DEF Doings, ChanTyped
<1>3. calling' \in [ChanRegion -> Doings] BY <1>1, <1>2 DEF ChanTyped
<1>4. chanWild' \in BOOLEAN /\ (chanWild => chanWild') BY <1>1 DEF ChanTyped
<1>5. QED BY <1>1, <1>3, <1>4 DEF ChanKept, ChanTyped, PoolHas

LEMMA EnqueueTyped ==
    ASSUME H!ConstantsMakeSense, ChanTyped, PoolHas, NEW r \in ChanRegion, H!Enqueue(r)
    PROVE  ChanKept
<1>1. /\ chanQueue' = [chanQueue EXCEPT ![calling[r].to] = Append(@, [end |-> calling[r].end, kind |-> "op"])]
      /\ calling' = [calling EXCEPT ![r] = H!Still]
      /\ UNCHANGED <<chanStatus, region, holder, spawns, chanAsked, marking, events, pool,
                     blame, chanWild, chanCalls, chanTold>>
  BY DEF H!Enqueue
<1>2. [end |-> calling[r].end, kind |-> "op"] \in Items BY DEF ChanTyped, Doings, Items
<1>3. chanQueue' \in [ChanRegion -> Seq(Items)]
  <2>1. \A x \in ChanRegion : Append(chanQueue[x], [end |-> calling[r].end, kind |-> "op"]) \in Seq(Items)
    BY <1>2 DEF ChanTyped
  <2>2. QED BY <1>1, <2>1 DEF ChanTyped
<1>4. FirstChan \in Chan BY DEF H!ConstantsMakeSense
<1>5. H!Still \in Doings BY <1>4, EndsAre DEF H!Still, Doings, Regions
<1>6. calling' \in [ChanRegion -> Doings] BY <1>1, <1>5 DEF ChanTyped
<1>7. QED BY <1>1, <1>3, <1>6 DEF ChanKept, ChanTyped, PoolHas

LEMMA RunTyped == ASSUME ChanTyped, PoolHas, NEW r \in ChanRegion, H!RunQueue(r) PROVE ChanKept
<1>1. /\ H!Ready(r) /\ chanQueue[r] # <<>>
      /\ chanWild' = H!Gone(Head(chanQueue[r]).end)
      /\ \/ pool' = [pool EXCEPT !.out = @ - 1, !.back = @ + 1]
         \/ pool' = pool
      /\ chanQueue' = [chanQueue EXCEPT ![r] = Tail(@)]
      /\ UNCHANGED <<chanStatus, region, holder, spawns, chanAsked, marking, calling, events,
                     blame, chanCalls>>
  BY DEF H!RunQueue
<1>2. Tail(chanQueue[r]) \in Seq(Items)
  <2>1. chanQueue[r] \in Seq(Items) BY DEF ChanTyped
  <2>2. QED BY <1>1, <2>1
<1>3. chanQueue' \in [ChanRegion -> Seq(Items)] BY <1>1, <1>2 DEF ChanTyped
<1>4. PoolHas'
  <2>1. /\ pool.free \in Nat /\ pool.out \in Int /\ pool.back \in Int /\ pool \in Pools
        /\ pool.free + pool.out + pool.back > 0 /\ (events # <<>> => pool.free = 0)
    BY DEF PoolHas, Pools
  <2>2. /\ pool' \in Pools /\ pool'.free = pool.free
        /\ pool'.out + pool'.back = pool.out + pool.back
    <3>1. CASE pool' = [pool EXCEPT !.out = @ - 1, !.back = @ + 1]
      <4>1. /\ pool' \in Pools /\ pool'.free = pool.free
            /\ pool'.out = pool.out - 1 /\ pool'.back = pool.back + 1
        <5>1. PICK a \in Int, b \in Int : a = pool.out - 1 /\ b = pool.back + 1 BY <2>1
        <5>2. pool' = [pool EXCEPT !.out = a, !.back = b] BY <3>1, <5>1
        <5>3. pool' \in Pools /\ pool'.free = pool.free /\ pool'.out = a /\ pool'.back = b
          BY <2>1, <5>2 DEF Pools
        <5>4. QED BY <5>1, <5>3
      <4>2. QED BY <2>1, <4>1
    <3>2. QED BY <1>1, <2>1, <3>1
  <2>3. QED BY <1>1, <2>1, <2>2 DEF PoolHas, Pools
<1>5. chanWild' \in BOOLEAN /\ (chanWild => chanWild') BY <1>1 DEF H!Gone, H!Ready
<1>6. QED BY <1>1, <1>3, <1>4, <1>5 DEF ChanKept, ChanTyped
-----------------------------------------------------------------------------
(* What a step does while nothing has gone wrong.                              *)
Structure == Pairs /\ Handled /\ Marks /\ Spawns /\ AskedFor

\* Where neither an end, nor a request, nor what closes is touched.
LEMMA Undisturbed ==
    ASSUME ChanTyped, Structure, UNCHANGED <<chanStatus, region, holder, spawns, chanAsked,
                                             marking>>,
           \A x \in ChanRegion, f \in H!Ends : Closes(x, f) => Closes(x, f)'
    PROVE  Structure'
<1>1. Pairs' BY DEF Structure, Pairs, H!Gone
<1>2. \A f \in H!Ends : Closing(f) => Closing(f)' BY DEF Closing
<1>3. \A k : Marked(k)' <=> Marked(k) BY DEF Marked
<1>4. Handled' BY <1>2, <1>3, EndsAre DEF Structure, Handled
<1>5. Marks' BY DEF Structure, Marks
<1>6. Spawns'
  <2>1. \A p \in spawns : p.chan \in Chan BY DEF ChanTyped
  <2>2. \A p \in spawns : <<p.chan, 1>> \in H!Ends BY <2>1, EndsAre
  <2>3. \A p \in spawns : Closing(<<p.chan, 1>>) => Closing(<<p.chan, 1>>)' BY <1>2, <2>2
  <2>4. QED BY <1>3, <2>3 DEF Structure, Spawns, Living
<1>7. AskedFor' BY DEF Structure, AskedFor, Living
<1>8. QED BY <1>1, <1>4, <1>5, <1>6, <1>7 DEF Structure

\* An item put at the end of a queue.
LEMMA PutIs ==
    ASSUME ChanTyped, NEW to \in ChanRegion, NEW it \in Items,
           chanQueue' = [chanQueue EXCEPT ![to] = Append(@, it)]
    PROVE  /\ \A x \in ChanRegion : \A u : Queued(x, u)' => Queued(x, u) \/ u = it
           /\ \A x \in ChanRegion : \A u : Queued(x, u) => Queued(x, u)'
           /\ Queued(to, it)'
<1>1. \A x \in ChanRegion : x # to => chanQueue'[x] = chanQueue[x] BY DEF ChanTyped
<1>2. PICK q : q = chanQueue[to] OBVIOUS
<1>3. PICK w : w = Append(q, it) OBVIOUS
<1>4. chanQueue'[to] = w BY <1>2, <1>3 DEF ChanTyped
<1>5. q \in Seq(Items) BY <1>2 DEF ChanTyped
<1>6. /\ Len(q) \in Nat /\ DOMAIN q = 1 .. Len(q) /\ DOMAIN w = 1 .. (Len(q) + 1)
      /\ w[Len(q) + 1] = it /\ \A j \in 1 .. Len(q) : w[j] = q[j]
  BY <1>3, <1>5
<1>7. \A j \in DOMAIN w : j \in DOMAIN q \/ j = Len(q) + 1 BY <1>6
<1>8. \A j \in DOMAIN q : j \in DOMAIN w BY <1>6
<1>9. Len(q) + 1 \in DOMAIN w BY <1>6
<1>10. ASSUME NEW x \in ChanRegion, NEW u, Queued(x, u)' PROVE Queued(x, u) \/ u = it
  <2>1. CASE x = to BY <1>2, <1>4, <1>6, <1>7, <1>10, <2>1 DEF Queued
  <2>2. CASE x # to BY <1>1, <1>10, <2>2 DEF Queued
  <2>3. QED BY <2>1, <2>2
<1>11. ASSUME NEW x \in ChanRegion, NEW u, Queued(x, u) PROVE Queued(x, u)'
  <2>1. CASE x = to BY <1>2, <1>4, <1>6, <1>8, <1>11, <2>1 DEF Queued
  <2>2. CASE x # to BY <1>1, <1>11, <2>2 DEF Queued
  <2>3. QED BY <2>1, <2>2
<1>12. Queued(to, it)' BY <1>4, <1>6, <1>9 DEF Queued
<1>13. QED BY <1>10, <1>11, <1>12

\* The first of a sequence taken off it.
LEMMA HeadAndTail ==
    ASSUME NEW S, NEW q \in Seq(S), q # <<>>
    PROVE  /\ Head(q) \in S /\ \E j \in DOMAIN q : q[j] = Head(q)
           /\ \A j \in DOMAIN Tail(q) : \E i \in DOMAIN q : q[i] = Tail(q)[j]
           /\ \A i \in DOMAIN q : \/ q[i] = Head(q)
                                  \/ \E j \in DOMAIN Tail(q) : q[i] = Tail(q)[j]
<1>1. /\ Len(q) \in Nat /\ Len(q) > 0 /\ DOMAIN q = 1 .. Len(q) /\ Head(q) = q[1]
      /\ DOMAIN Tail(q) = 1 .. (Len(q) - 1) /\ \A j \in 1 .. (Len(q) - 1) : Tail(q)[j] = q[j + 1]
  OBVIOUS
<1>2. 1 \in DOMAIN q /\ q[1] \in S BY <1>1
<1>3. \A j \in 1 .. (Len(q) - 1) : j + 1 \in DOMAIN q BY <1>1
<1>4. ASSUME NEW i \in DOMAIN q, i # 1 PROVE \E j \in DOMAIN Tail(q) : q[i] = Tail(q)[j]
  <2>1. i - 1 \in 1 .. (Len(q) - 1) /\ (i - 1) + 1 = i BY <1>1, <1>4
  <2>2. Tail(q)[i - 1] = q[i] BY <1>1, <2>1
  <2>3. QED BY <1>1, <2>1, <2>2
<1>5. QED BY <1>1, <1>2, <1>3, <1>4

LEMMA EnqueueCalm ==
    ASSUME H!ConstantsMakeSense, ChanTyped, ChanCalm, NEW r \in ChanRegion, H!Enqueue(r)
    PROVE  chanWild' = chanWild /\ ChanCalm'
<1> DEFINE to == calling[r].to
           it == [end |-> calling[r].end, kind |-> "op"]
<1>1. /\ calling[r].what = "send" /\ calling[r].to \in ChanRegion /\ Living(calling[r].end)
      /\ chanQueue' = [chanQueue EXCEPT ![to] = Append(@, it)]
      /\ calling' = [calling EXCEPT ![r] = H!Still]
      /\ UNCHANGED <<chanStatus, region, holder, spawns, chanAsked, marking, events, pool,
                     blame, chanWild, chanCalls, chanTold>>
  BY DEF H!Enqueue, ChanCalm, Calls
<1>2. it \in Items BY DEF ChanTyped, Doings, Items
<1>3. \A x \in ChanRegion, f \in H!Ends : Closes(x, f)' <=> Closes(x, f)
  BY <1>1 DEF Closes, H!Still, ChanTyped
<1>4. Structure' BY <1>1, <1>3, Undisturbed DEF Structure, ChanCalm
<1>5. /\ \A x \in ChanRegion : \A u : Queued(x, u)' => Queued(x, u) \/ u = it
      /\ \A x \in ChanRegion : \A u : Queued(x, u) => Queued(x, u)'
  <2> HIDE DEF it
  <2>1. QED BY <1>1, <1>2, PutIs
<1>6. \A f : (Living(f)' <=> Living(f)) /\ (Pends(f)' <=> Pends(f)) BY <1>1 DEF Living, Pends
<1>7. Calls' BY <1>1, <1>6 DEF ChanCalm, Calls, ChanTyped, H!Still
<1>8. Waits' BY <1>1, <1>5, <1>6 DEF ChanCalm, Waits
<1>9. \A f \in H!Ends : Announced(f) => Announced(f)' BY <1>1, <1>3, <1>5, <1>6 DEF Announced
<1>10. Tells' BY <1>1, <1>9 DEF ChanCalm, Tells
<1>11. QED BY <1>1, <1>4, <1>7, <1>8, <1>10 DEF ChanCalm, Structure

LEMMA CallCalm ==
    ASSUME H!ConstantsMakeSense, ChanTyped, ChanCalm, NEW r \in ChanRegion, H!udi_mei_call(r)
    PROVE  chanWild' = chanWild /\ ChanCalm'
<1>1. PICK e \in H!Ends :
        /\ H!Call(r) /\ holder[e] = r
        /\ \/ H!Gone(e)
           \/ /\ chanStatus[H!OtherEnd(e)] = "anchored"
              /\ calling' = [calling EXCEPT ![r] =
                               [what |-> "send", end |-> H!OtherEnd(e), to |-> region[H!OtherEnd(e)]]]
              /\ UNCHANGED chanWild
        /\ UNCHANGED <<chanStatus, region, holder, spawns, chanAsked, marking, chanQueue,
                       events, pool, blame, chanTold>>
  BY DEF H!udi_mei_call
<1>2. r # H!None BY DEF H!ConstantsMakeSense, H!None
<1>3. ~H!Gone(e) BY <1>1, <1>2 DEF ChanCalm, Handled, H!Gone
<1>4. H!OtherEnd(e) \in H!Ends BY EndsAre
<1>5. region[H!OtherEnd(e)] \in ChanRegion
  BY <1>1, <1>3, <1>4 DEF ChanCalm, Handled, ChanTyped, Regions
<1>6. calling[r] = H!Still BY <1>1 DEF H!Call, H!Ready
<1>7. \A x \in ChanRegion, f \in H!Ends : Closes(x, f)' <=> Closes(x, f)
  BY <1>1, <1>3, <1>6 DEF Closes, H!Still, ChanTyped
<1>8. Structure' BY <1>1, <1>7, Undisturbed DEF Structure, ChanCalm
<1>9. \A f : Living(f)' <=> Living(f) BY <1>1 DEF Living
<1>10. \A x \in ChanRegion : calling'[x] = IF x = r THEN [what |-> "send", end |-> H!OtherEnd(e), to |-> region[H!OtherEnd(e)]] ELSE calling[x]
  BY <1>1, <1>3 DEF ChanTyped
<1>11. Living(H!OtherEnd(e)) BY <1>1, <1>3 DEF Living
<1>12. Calls'
  <2>1. ASSUME NEW x \in ChanRegion
        PROVE  /\ calling'[x].what = "nothing" => calling'[x] = H!Still
               /\ calling'[x].what = "close" => chanStatus[calling'[x].end] = "closed"
               /\ calling'[x].what = "send" => Living(calling'[x].end) /\ calling'[x].to \in ChanRegion
    <3>1. CASE x = r BY <1>5, <1>10, <1>11, <3>1
    <3>2. CASE x # r BY <1>10, <3>2 DEF ChanCalm, Calls
    <3>3. QED BY <3>1, <3>2
  <2>2. QED BY <1>1, <1>9, <2>1 DEF Calls
<1>13. Waits' BY <1>1, <1>9 DEF ChanCalm, Waits, Queued, Pends
<1>14. \A f \in H!Ends : Announced(f) => Announced(f)' BY <1>1, <1>7 DEF Announced, Queued, Pends
<1>15. Tells' BY <1>1, <1>14 DEF ChanCalm, Tells
<1>16. QED BY <1>1, <1>3, <1>8, <1>12, <1>13, <1>15 DEF ChanCalm, Structure

LEMMA RunCalm ==
    ASSUME ChanTyped, ChanCalm, H!Calm, NEW r \in ChanRegion, H!RunQueue(r)
    PROVE  chanWild' = chanWild /\ ChanCalm'
<1> DEFINE it == Head(chanQueue[r])
<1>1. /\ chanQueue[r] # <<>> /\ chanWild' = H!Gone(it.end)
      /\ chanQueue' = [chanQueue EXCEPT ![r] = Tail(@)]
      /\ chanTold' = IF it.kind = "event" THEN chanTold \cup {it.end} ELSE chanTold
      /\ UNCHANGED <<chanStatus, region, holder, spawns, chanAsked, marking, calling, events,
                     blame, chanCalls>>
  BY DEF H!RunQueue
<1>2. PICK q : q = chanQueue[r] OBVIOUS
<1>3. q \in Seq(Items) /\ q # <<>> BY <1>1, <1>2 DEF ChanTyped
<1> DEFINE t == Tail(q)
<1>4. /\ it \in Items /\ \E j \in DOMAIN q : q[j] = it
      /\ \A j \in DOMAIN t : \E i \in DOMAIN q : q[i] = t[j]
      /\ \A i \in DOMAIN q : q[i] = it \/ \E j \in DOMAIN t : q[i] = t[j]
  BY <1>2, <1>3, HeadAndTail
<1>5. chanQueue'[r] = t /\ \A x \in ChanRegion : x # r => chanQueue'[x] = chanQueue[x]
  BY <1>1, <1>2 DEF ChanTyped
<1> HIDE DEF it, t
<1>6. Queued(r, it) BY <1>2, <1>4 DEF Queued
<1>7. ASSUME NEW x \in ChanRegion, NEW u, Queued(x, u)' PROVE Queued(x, u)
  <2>1. CASE x = r BY <1>2, <1>4, <1>5, <1>7, <2>1 DEF Queued
  <2>2. CASE x # r BY <1>5, <1>7, <2>2 DEF Queued
  <2>3. QED BY <2>1, <2>2
<1>8. ASSUME NEW x \in ChanRegion, NEW u, Queued(x, u) PROVE Queued(x, u)' \/ u = it
  <2>1. CASE x = r BY <1>2, <1>4, <1>5, <1>8, <2>1 DEF Queued
  <2>2. CASE x # r BY <1>5, <1>8, <2>2 DEF Queued
  <2>3. QED BY <2>1, <2>2
<1>9. Living(it.end) BY <1>4, <1>6 DEF ChanCalm, Waits
<1>10. chanWild' = chanWild
  <2>1. chanWild = FALSE BY DEF H!Calm, ChanTyped
  <2>2. chanWild' = FALSE BY <1>1, <1>9 DEF Living, H!Gone
  <2>3. QED BY <2>1, <2>2
<1>11. \A x \in ChanRegion, f \in H!Ends : Closes(x, f)' <=> Closes(x, f) BY <1>1 DEF Closes
<1>12. Structure' BY <1>1, <1>11, Undisturbed DEF Structure, ChanCalm
<1>13. \A f : (Living(f)' <=> Living(f)) /\ (Pends(f)' <=> Pends(f)) BY <1>1 DEF Living, Pends
<1>14. Calls' BY <1>1, <1>13 DEF ChanCalm, Calls
<1>15. Waits' BY <1>7, <1>13 DEF ChanCalm, Waits
<1>16. ASSUME NEW f \in H!Ends, Announced(f) PROVE Announced(f)'
  <2>1. CASE Notice(f) = it
    <3>1. it.end = H!OtherEnd(f) /\ it.kind = "event" BY <2>1 DEF Notice
    <3>2. H!OtherEnd(f) \in chanTold' BY <1>1, <3>1
    <3>3. QED BY <3>2 DEF Announced
  <2>2. CASE Notice(f) # it
    <3>1. chanTold \subseteq chanTold' BY <1>1
    <3>2. Notice(f)' = Notice(f) BY DEF Notice
    <3>3. QED BY <1>8, <1>11, <1>13, <1>16, <2>2, <3>1, <3>2 DEF Announced
  <2>3. QED BY <2>1, <2>2
<1>17. Tells' BY <1>1, <1>16 DEF ChanCalm, Tells
<1>18. QED BY <1>10, <1>12, <1>14, <1>15, <1>17 DEF ChanCalm, Structure

\* An event that is sent waits at the region it is for, and leaves the rest waiting.
LEMMA SentIs ==
    ASSUME ChanTyped, NEW e \in H!Ends, NEW to \in Regions, chanQueue' = H!Sent(e, to)
    PROVE  /\ \A x \in ChanRegion : \A u : Queued(x, u)' => Queued(x, u) \/ u = Notice(e)
           /\ \A x \in ChanRegion : \A u : Queued(x, u) => Queued(x, u)'
           /\ to # H!None => to \in ChanRegion /\ Queued(to, Notice(e))'
<1>1. CASE to = H!None BY <1>1 DEF H!Sent, Queued
<1>2. CASE to # H!None
  <2>1. to \in ChanRegion BY <1>2 DEF Regions
  <2>2. Notice(e) \in Items BY EndsAre DEF Notice, Items
  <2>3. chanQueue' = [chanQueue EXCEPT ![to] = Append(@, Notice(e))] BY <1>2 DEF H!Sent, Notice
  <2> DEFINE it == Notice(e)
  <2> HIDE DEF it
  <2>4. /\ it \in Items /\ chanQueue' = [chanQueue EXCEPT ![to] = Append(@, it)]
    BY <2>2, <2>3 DEF it
  <2>5. /\ \A x \in ChanRegion : \A u : Queued(x, u)' => Queued(x, u) \/ u = it
        /\ \A x \in ChanRegion : \A u : Queued(x, u) => Queued(x, u)'
        /\ Queued(to, it)'
    BY <2>1, <2>4, PutIs
  <2>6. QED BY <2>1, <2>5 DEF it
<1>3. QED BY <1>1, <1>2

LEMMA SendIs ==
    ASSUME ChanTyped, NEW e \in H!Ends, NEW to \in Regions, H!_udi_MA_send_op(e, to)
    PROVE  /\ \A x \in ChanRegion : \A u : Queued(x, u)' => Queued(x, u) \/ u = Notice(e)
           /\ \A x \in ChanRegion : \A u : Queued(x, u) => Queued(x, u)'
           /\ \A f : Pends(f)' => Pends(f) \/ f = e
           /\ \A f : Pends(f) => Pends(f)'
           /\ to # H!None => Pends(e)' \/ \E x \in ChanRegion : Queued(x, Notice(e))'
<1>1. CASE chanQueue' = H!Sent(e, to) /\ UNCHANGED events
  <2>1. \A f : Pends(f)' <=> Pends(f) BY <1>1 DEF Pends
  <2>2. QED BY <1>1, <2>1, SentIs
<1>2. CASE events' = Append(events, e) /\ UNCHANGED chanQueue
  <2>1. PICK w : w = Append(events, e) OBVIOUS
  <2>2. /\ Len(events) \in Nat /\ DOMAIN events = 1 .. Len(events)
        /\ DOMAIN w = 1 .. (Len(events) + 1) /\ w[Len(events) + 1] = e
        /\ \A j \in 1 .. Len(events) : w[j] = events[j]
    BY <2>1 DEF ChanTyped
  <2>3. /\ \A j \in DOMAIN w : j \in DOMAIN events \/ j = Len(events) + 1
        /\ \A j \in DOMAIN events : j \in DOMAIN w
        /\ Len(events) + 1 \in DOMAIN w
    BY <2>2
  <2>4. events' = w BY <1>2, <2>1
  <2>5. \A f : Pends(f)' <=> Pends(f) \/ f = e
    <3>1. ASSUME NEW f PROVE (\E j \in DOMAIN w : w[j] = f) <=> (\E j \in DOMAIN events : events[j] = f) \/ f = e
      BY <2>2, <2>3
    <3>2. QED BY <2>4, <3>1 DEF Pends
  <2>6. \A x \in ChanRegion : \A u : Queued(x, u)' <=> Queued(x, u) BY <1>2 DEF Queued
  <2>7. QED BY <2>5, <2>6
<1>3. QED BY <1>1, <1>2 DEF H!_udi_MA_send_op

LEMMA ReturnCalm ==
    ASSUME ChanTyped, ChanCalm, H!Calm, H!_udi_MA_return_cb
    PROVE  chanWild' = chanWild /\ ChanCalm'
<1>1. UNCHANGED <<chanStatus, region, holder, spawns, chanAsked, marking, calling, chanTold,
                  blame, chanCalls>>
  BY DEF H!_udi_MA_return_cb
<1>2. \A x \in ChanRegion, f \in H!Ends : Closes(x, f)' <=> Closes(x, f) BY <1>1 DEF Closes
<1>3. Structure' BY <1>1, <1>2, Undisturbed DEF Structure, ChanCalm
<1>4. \A f : Living(f)' <=> Living(f) BY <1>1 DEF Living
<1>5. Calls' BY <1>1, <1>4 DEF ChanCalm, Calls
<1>6. CASE events = <<>>
  <2>1. UNCHANGED <<chanQueue, events, chanWild>> BY <1>6 DEF H!_udi_MA_return_cb
  <2>2. \A x, u : Queued(x, u)' <=> Queued(x, u) BY <2>1 DEF Queued
  <2>3. \A f : Pends(f)' <=> Pends(f) BY <2>1 DEF Pends
  <2>4. Waits' BY <1>4, <2>2, <2>3 DEF ChanCalm, Waits
  <2>5. \A f : Notice(f)' = Notice(f) BY DEF Notice
  <2>6. \A f \in H!Ends : Announced(f) => Announced(f)'
    BY <1>1, <1>2, <2>2, <2>3, <2>5 DEF Announced
  <2>7. Tells' BY <1>1, <2>6 DEF ChanCalm, Tells
  <2>8. QED BY <1>3, <1>5, <2>1, <2>4, <2>7 DEF ChanCalm, Structure
<1>7. CASE events # <<>>
  <2> DEFINE e == Head(events)
             t == Tail(events)
  <2>1. /\ events' = t /\ chanWild' = H!Gone(e) /\ chanQueue' = H!Sent(e, H!Target(e))
    BY <1>7 DEF H!_udi_MA_return_cb
  <2>2. events \in Seq(H!Ends) BY DEF ChanTyped
  <2>3. /\ e \in H!Ends /\ \E j \in DOMAIN events : events[j] = e
        /\ \A j \in DOMAIN t : \E i \in DOMAIN events : events[i] = t[j]
        /\ \A i \in DOMAIN events : events[i] = e \/ \E j \in DOMAIN t : events[i] = t[j]
    BY <1>7, <2>2, HeadAndTail
  <2> HIDE DEF e, t
  <2>4. H!Target(e) \in Regions BY <2>3, TargetTyped
  <2>14. PICK to : to = H!Target(e) OBVIOUS
  <2>15. PICK d : d = e OBVIOUS
  <2>16. d \in H!Ends /\ to \in Regions /\ chanQueue' = H!Sent(d, to)
    BY <2>1, <2>3, <2>4, <2>14, <2>15
  <2>5. /\ \A x \in ChanRegion : \A u : Queued(x, u)' => Queued(x, u) \/ u = Notice(d)
        /\ \A x \in ChanRegion : \A u : Queued(x, u) => Queued(x, u)'
        /\ to # H!None => to \in ChanRegion /\ Queued(to, Notice(d))'
    BY <2>16, SentIs
  <2>6. /\ Pends(e) /\ \A f : Pends(f)' => Pends(f)
        /\ \A f : Pends(f) => Pends(f)' \/ f = e
    BY <2>1, <2>3 DEF Pends
  <2>7. Living(e) /\ H!OtherEnd(e) \in H!Ends BY <2>3, <2>6, EndsAre DEF ChanCalm, Waits
  <2>8. chanWild' = chanWild
    <3>1. chanWild = FALSE BY DEF H!Calm, ChanTyped
    <3>2. chanWild' = FALSE BY <2>1, <2>7 DEF Living, H!Gone
    <3>3. QED BY <3>1, <3>2
  <2>9. Living(H!OtherEnd(e)) BY <2>3, <2>7 DEF ChanCalm, Pairs, Living, H!Gone
  <2>10. Waits'
    <3>1. Notice(e).end = H!OtherEnd(e) BY DEF Notice
    <3>2. QED BY <1>4, <2>5, <2>6, <2>9, <2>15, <3>1 DEF ChanCalm, Waits
  <2>11. ASSUME NEW f \in H!Ends, Announced(f), chanStatus[f] = "closed", chanStatus[H!OtherEnd(f)] = "anchored"
         PROVE  Announced(f)'
    <3>1. Notice(f)' = Notice(f) BY DEF Notice
    <3>2. CASE Pends(f) /\ f = e
      <4>1. H!Target(e) # H!None
        <5>1. region[H!OtherEnd(f)] # H!None BY <2>7, <2>11, <3>2 DEF ChanCalm, Handled
        <5>2. QED BY <2>11, <3>2, <5>1 DEF H!Target
      <4>2. to \in ChanRegion /\ Queued(to, Notice(f))' BY <2>5, <2>14, <2>15, <3>2, <4>1
      <4>3. QED BY <3>1, <4>2 DEF Announced
    <3>3. CASE ~(Pends(f) /\ f = e)
      BY <1>1, <1>2, <2>5, <2>6, <2>11, <3>1, <3>3 DEF Announced
    <3>4. QED BY <3>2, <3>3
  <2>12. Tells' BY <1>1, <2>11 DEF ChanCalm, Tells
  <2>13. QED BY <1>3, <1>5, <2>8, <2>10, <2>12 DEF ChanCalm, Structure
<1>8. QED BY <1>6, <1>7

LEMMA CloseCalm ==
    ASSUME H!ConstantsMakeSense, ChanTyped, ChanCalm, H!Calm, NEW r \in ChanRegion,
           H!udi_channel_close(r)
    PROVE  chanWild' = chanWild /\ ChanCalm'
<1>1. PICK e \in H!Ends :
         /\ H!Call(r) /\ holder[e] = r /\ chanStatus[e] \notin {"none", "closed"}
         /\ ~H!Gone(e) => /\ chanStatus' = [chanStatus EXCEPT ![e] = "closed"]
                          /\ holder' = [holder EXCEPT ![e] = H!None]
                          /\ calling' = [calling EXCEPT ![r] = [what |-> "close", end |-> e, to |-> H!None]]
                          /\ UNCHANGED chanWild
         /\ UNCHANGED <<region, spawns, chanAsked, marking, chanQueue, events, pool, blame,
                        chanTold>>
  BY DEF H!udi_channel_close
<1>2. r # H!None BY DEF H!ConstantsMakeSense, H!None
<1>3. ~H!Gone(e) /\ Living(e) /\ chanWild' = chanWild
  BY <1>1, <1>2 DEF ChanCalm, Handled, H!Gone, Living
<1>4. calling[r] = H!Still BY <1>1 DEF H!Call, H!Ready
<1>5. /\ \A f \in H!Ends : chanStatus'[f] = IF f = e THEN "closed" ELSE chanStatus[f]
      /\ \A f \in H!Ends : holder'[f] = IF f = e THEN H!None ELSE holder[f]
      /\ calling'[r].what = "close" /\ calling'[r].end = e
      /\ \A x \in ChanRegion : x # r => calling'[x] = calling[x]
  BY <1>1, <1>3 DEF ChanTyped
<1>6. \A x \in ChanRegion, f \in H!Ends : Closes(x, f) => Closes(x, f)'
  BY <1>4, <1>5 DEF Closes, H!Still
<1>7. Closing(e)' /\ \A f \in H!Ends : Closing(f) => Closing(f)' BY <1>5, <1>6 DEF Closing, Closes
<1>8. \A f \in H!Ends : Living(f)' <=> Living(f) BY <1>3, <1>5 DEF Living
<1>9. Pairs' BY <1>3, <1>5, EndsAre DEF ChanCalm, Pairs, H!Gone, Living
<1>10. \A k : Marked(k)' <=> Marked(k) BY <1>1 DEF Marked
<1>11. Handled'
  <2>1. \A k \in Chan : <<k, 1>> \in H!Ends /\ <<k, 2>> \in H!Ends BY EndsAre
  <2>2. \A f \in H!Ends : H!OtherEnd(f) \in H!Ends BY EndsAre
  <2>3. ASSUME NEW f \in H!Ends
        PROVE  /\ chanStatus'[f] \in {"none", "freed", "closed"} => holder'[f] = H!None
               /\ chanStatus'[f] \in {"loose", "anchored", "spawning"} =>
                     \/ holder'[f] # H!None
                     \/ f[2] = 1 /\ Marked(f[1])
                     \/ f[2] = 2 /\ \E p \in spawns : p.chan = f[1]
               /\ chanStatus'[f] = "anchored" => region[f] # H!None
               /\ chanStatus'[f] = "spawning" => f[2] = 2
    BY <1>5 DEF ChanCalm, Handled
  <2>4. ASSUME NEW f \in H!Ends, chanStatus'[f] = "closed", chanStatus'[H!OtherEnd(f)] = "closed"
        PROVE  Closing(f)' \/ Closing(H!OtherEnd(f))'
    <3>1. CASE f = e BY <1>7, <3>1
    <3>2. CASE H!OtherEnd(f) = e BY <1>7, <3>2
    <3>3. CASE f # e /\ H!OtherEnd(f) # e
      <4>1. Closing(f) \/ Closing(H!OtherEnd(f)) BY <1>5, <2>2, <2>4, <3>3 DEF ChanCalm, Handled
      <4>2. QED BY <1>7, <2>2, <4>1
    <3>4. QED BY <3>1, <3>2, <3>3
  <2>5. \A k \in Chan : holder'[<<k, 1>>] # H!None /\ holder'[<<k, 2>>] # H!None =>
                         holder'[<<k, 1>>] # holder'[<<k, 2>>]
    BY <1>5, <2>1 DEF ChanCalm, Handled
  <2>6. QED BY <1>1, <1>10, <2>3, <2>4, <2>5 DEF Handled
<1>12. Marks'
  <2>1. ASSUME NEW m \in marking
        PROVE  /\ holder'[<<m.chan, 1>>] = H!None /\ chanStatus'[<<m.chan, 1>>] \in {"loose", "anchored"}
               /\ holder'[<<m.chan, 2>>] # m.rgn
    <3>1. m.chan \in Chan /\ m.rgn # H!None BY DEF ChanTyped, H!ConstantsMakeSense, H!None
    <3>2. <<m.chan, 1>> \in H!Ends /\ <<m.chan, 2>> \in H!Ends BY <3>1, EndsAre
    <3>3. <<m.chan, 1>> # e BY <1>1, <1>2 DEF ChanCalm, Marks
    <3>4. QED BY <1>5, <3>1, <3>2, <3>3 DEF ChanCalm, Marks
  <2>2. QED BY <1>1, <2>1 DEF ChanCalm, Marks
<1>13. Spawns'
  <2>1. ASSUME NEW p \in spawns
        PROVE  /\ Living(<<p.on, 1>>)' /\ Living(<<p.chan, 1>>)' /\ holder'[<<p.chan, 2>>] = H!None
               /\ holder'[<<p.chan, 1>>] \in {H!None, p.by}
               /\ chanStatus'[<<p.chan, 1>>] = "closed" => Closing(<<p.chan, 1>>)'
               /\ chanStatus'[<<p.chan, 2>>] = IF Marked(p.chan) THEN "loose" ELSE "spawning"
    <3>1. p.chan \in Chan /\ p.on \in Chan BY DEF ChanTyped
    <3>2. <<p.chan, 1>> \in H!Ends /\ <<p.chan, 2>> \in H!Ends /\ <<p.on, 1>> \in H!Ends
      BY <3>1, EndsAre
    <3>3. <<p.chan, 2>> # e BY <1>1, <1>2 DEF ChanCalm, Spawns
    <3>4. Living(<<p.on, 1>>)' /\ Living(<<p.chan, 1>>)' BY <1>8, <3>2 DEF ChanCalm, Spawns
    <3>5. chanStatus'[<<p.chan, 1>>] = "closed" => Closing(<<p.chan, 1>>)'
      <4>1. CASE <<p.chan, 1>> = e BY <1>7, <4>1
      <4>2. CASE <<p.chan, 1>> # e BY <1>5, <1>7, <3>2, <4>2 DEF ChanCalm, Spawns
      <4>3. QED BY <4>1, <4>2
    <3>6. QED BY <1>5, <3>2, <3>3, <3>4, <3>5 DEF ChanCalm, Spawns
  <2>2. QED BY <1>1, <1>10, <2>1 DEF ChanCalm, Spawns
<1>14. AskedFor' BY <1>1, <1>8 DEF ChanCalm, AskedFor, ChanTyped
<1>15. Calls'
  <2>1. ASSUME NEW x \in ChanRegion
        PROVE  /\ calling'[x].what = "nothing" => calling'[x] = H!Still
               /\ calling'[x].what = "close" => chanStatus'[calling'[x].end] = "closed"
               /\ calling'[x].what = "send" => Living(calling[x].end)' /\ calling'[x].to \in ChanRegion
    <3>1. CASE x = r BY <1>5, <3>1
    <3>2. CASE x # r
      <4>1. calling[x].end \in H!Ends BY DEF ChanTyped, Doings
      <4>2. PICK f \in H!Ends : f = calling[x].end BY <4>1
      <4>3. calling'[x].end = f BY <1>5, <3>2, <4>2
      <4>4. Living(calling[x].end)' <=> Living(f)' BY <4>3 DEF Living
      <4>5. QED BY <1>5, <1>8, <3>2, <4>2, <4>3, <4>4 DEF ChanCalm, Calls
    <3>3. QED BY <3>1, <3>2
  <2>2. QED BY <2>1 DEF Calls
<1>16. /\ \A x, u : Queued(x, u)' <=> Queued(x, u)
       /\ \A f : (Pends(f)' <=> Pends(f)) /\ Notice(f)' = Notice(f)
  BY <1>1 DEF Queued, Pends, Notice
<1>17. Waits' BY <1>8, <1>16 DEF ChanCalm, Waits, Items
<1>18. ASSUME NEW f \in H!Ends, chanStatus'[f] = "closed", chanStatus'[H!OtherEnd(f)] = "anchored"
       PROVE  Announced(f)'
  <2>1. CASE f = e BY <1>5, <2>1 DEF Announced, Closes
  <2>2. CASE f # e
    <3>1. H!OtherEnd(f) \in H!Ends BY EndsAre
    <3>2. Announced(f) BY <1>5, <1>18, <2>2, <3>1 DEF ChanCalm, Tells
    <3>3. QED BY <1>1, <1>6, <1>16, <3>2 DEF Announced
  <2>3. QED BY <2>1, <2>2
<1>19. Tells' BY <1>18 DEF Tells
<1>20. QED BY <1>3, <1>9, <1>11, <1>12, <1>13, <1>14, <1>15, <1>17, <1>19 DEF ChanCalm

\* Calls, Waits and Tells ask of an end only whether it lives or has closed.
LEMMA StillCalled ==
    ASSUME ChanTyped, Calls, UNCHANGED calling,
           \A f \in H!Ends : /\ Living(f) => Living(f)'
                             /\ chanStatus[f] = "closed" => chanStatus'[f] = "closed"
    PROVE  Calls'
<1>1. ASSUME NEW x \in ChanRegion
      PROVE  /\ calling[x].what = "nothing" => calling[x] = H!Still
             /\ calling[x].what = "close" => chanStatus'[calling[x].end] = "closed"
             /\ calling[x].what = "send" => /\ chanStatus'[calling[x].end] \notin {"none", "freed"}
                                            /\ calling[x].to \in ChanRegion
  <2>1. PICK f \in H!Ends : f = calling[x].end BY DEF ChanTyped, Doings
  <2>2. /\ calling[x].what = "nothing" => calling[x] = H!Still
        /\ calling[x].what = "close" => chanStatus[f] = "closed"
        /\ calling[x].what = "send" => Living(f) /\ calling[x].to \in ChanRegion
    BY <2>1 DEF Calls
  <2>3. Living(f)' <=> chanStatus'[f] \notin {"none", "freed"} BY DEF Living
  <2>4. QED BY <2>1, <2>2, <2>3
<1>2. QED BY <1>1 DEF Calls, Living

LEMMA MarkCalm ==
    ASSUME H!ConstantsMakeSense, ChanTyped, ChanCalm, H!Calm, H!Mark, blame' = {}
    PROVE  chanWild' = chanWild /\ ChanCalm'
<1>1. PICK m \in marking :
         /\ chanWild' = H!Gone(<<m.chan, 2>>)
         /\ chanStatus' = [chanStatus EXCEPT ![<<m.chan, 2>>] = IF H!Gone(<<m.chan, 2>>) THEN @ ELSE "spawning"]
         /\ blame' = IF chanStatus[<<m.chan, 2>>] # "loose" THEN blame \cup {"race"} ELSE blame
         /\ holder' = [holder EXCEPT ![<<m.chan, 1>>] = m.rgn]
         /\ marking' = {}
         /\ UNCHANGED <<region, spawns, chanAsked, calling, chanQueue, events, pool, chanCalls,
                        chanTold>>
  BY DEF H!Mark
<1> DEFINE a == <<m.chan, 1>>
           b == <<m.chan, 2>>
<1>2. m.chan \in Chan /\ m.rgn \in ChanRegion /\ m.rgn # H!None
  BY DEF ChanTyped, H!ConstantsMakeSense, H!None
<1>3. a \in H!Ends /\ b \in H!Ends /\ a # b /\ H!OtherEnd(a) = b /\ H!OtherEnd(b) = a /\ a[2] = 1 /\ b[2] = 2
      /\ a[1] = m.chan /\ b[1] = m.chan
  BY <1>2, EndsAre
<1>4. chanStatus[b] = "loose" BY <1>1
<1>5. chanWild' = chanWild /\ ~H!Gone(b)
  <2>1. chanWild = FALSE BY DEF H!Calm, ChanTyped
  <2>2. QED BY <1>1, <1>4, <2>1 DEF H!Gone
<1> HIDE DEF a, b
<1>6. /\ \A f \in H!Ends : chanStatus'[f] = IF f = b THEN "spawning" ELSE chanStatus[f]
      /\ \A f \in H!Ends : holder'[f] = IF f = a THEN m.rgn ELSE holder[f]
  BY <1>1, <1>3, <1>5 DEF ChanTyped, a, b
<1>7. holder[a] = H!None /\ chanStatus[a] \in {"loose", "anchored"} /\ holder[b] # m.rgn
  BY <1>1 DEF ChanCalm, Marks, a, b
<1>8. /\ \A f \in H!Ends : Living(f)' <=> Living(f)
      /\ \A f \in H!Ends : chanStatus'[f] = "closed" <=> chanStatus[f] = "closed"
      /\ \A f \in H!Ends : chanStatus'[f] = "anchored" => chanStatus[f] = "anchored"
  BY <1>4, <1>6 DEF Living
<1>9. /\ \A x \in ChanRegion : \A f : Closes(x, f)' <=> Closes(x, f)
      /\ \A f : Closing(f)' <=> Closing(f)
  BY <1>1 DEF Closes, Closing
<1>10. Pairs'
  <2>1. \A f \in H!Ends : /\ H!Gone(f)' <=> H!Gone(f)
                          /\ chanStatus'[f] = "none" <=> chanStatus[f] = "none"
    BY <1>4, <1>6 DEF H!Gone
  <2>2. QED BY <2>1, EndsAre DEF ChanCalm, Pairs
<1>11. (\A k : ~Marked(k)') /\ \A f \in H!Ends : Marked(f[1]) => f \in {a, b}
  <2>1. \A k : ~Marked(k)' BY <1>1 DEF Marked
  <2>2. \A f \in H!Ends : Marked(f[1]) => f[1] = m.chan BY DEF Marked, ChanCalm, Marks
  <2>3. \A f \in H!Ends : f[1] = m.chan => f \in {a, b} BY EndsAre DEF a, b
  <2>4. QED BY <2>1, <2>2, <2>3
<1>12. Handled'
  <2>1. ASSUME NEW f \in H!Ends
        PROVE  /\ chanStatus'[f] \in {"none", "freed", "closed"} => holder'[f] = H!None
               /\ chanStatus'[f] \in {"loose", "anchored", "spawning"} =>
                     \/ holder'[f] # H!None
                     \/ f[2] = 1 /\ Marked(f[1])'
                     \/ f[2] = 2 /\ \E p \in spawns : p.chan = f[1]
               /\ chanStatus'[f] = "anchored" => region[f] # H!None
               /\ chanStatus'[f] = "spawning" => f[2] = 2
    <3>1. CASE f = a BY <1>2, <1>3, <1>6, <1>7, <3>1 DEF ChanCalm, Handled
    <3>2. CASE f = b BY <1>3, <1>4, <1>6, <3>2 DEF ChanCalm, Handled
    <3>3. CASE f # a /\ f # b BY <1>6, <1>11, <3>3 DEF ChanCalm, Handled
    <3>4. QED BY <3>1, <3>2, <3>3
  <2>2. \A f \in H!Ends : H!OtherEnd(f) \in H!Ends BY EndsAre
  <2>3. \A f \in H!Ends : chanStatus'[f] = "closed" /\ chanStatus'[H!OtherEnd(f)] = "closed" =>
                           Closing(f)' \/ Closing(H!OtherEnd(f))'
    BY <1>8, <1>9, <2>2 DEF ChanCalm, Handled
  <2>4. ASSUME NEW k \in Chan, holder'[<<k, 1>>] # H!None, holder'[<<k, 2>>] # H!None
        PROVE  holder'[<<k, 1>>] # holder'[<<k, 2>>]
    <3>1. <<k, 1>> \in H!Ends /\ <<k, 2>> \in H!Ends /\ <<k, 2>> # a /\ (<<k, 1>> = a => <<k, 2>> = b)
      BY EndsAre DEF a, b
    <3>2. QED BY <1>6, <1>7, <2>4, <3>1 DEF ChanCalm, Handled
  <2>5. QED BY <1>1, <2>1, <2>3, <2>4 DEF Handled
<1>13. Marks' BY <1>1 DEF Marks
<1>14. Spawns'
  <2>1. ASSUME NEW p \in spawns
        PROVE  /\ Living(<<p.on, 1>>)' /\ Living(<<p.chan, 1>>)' /\ holder'[<<p.chan, 2>>] = H!None
               /\ holder'[<<p.chan, 1>>] \in {H!None, p.by}
               /\ chanStatus'[<<p.chan, 1>>] = "closed" => Closing(<<p.chan, 1>>)'
               /\ chanStatus'[<<p.chan, 2>>] = "spawning"
    <3>1. p.chan \in Chan /\ p.on \in Chan BY DEF ChanTyped
    <3>2. /\ <<p.chan, 1>> \in H!Ends /\ <<p.chan, 2>> \in H!Ends /\ <<p.on, 1>> \in H!Ends
          /\ <<p.chan, 2>> # a /\ (<<p.chan, 1>> = a <=> p.chan = m.chan)
          /\ (<<p.chan, 2>> = b <=> p.chan = m.chan)
      BY <3>1, EndsAre DEF a, b
    <3>3. Living(<<p.on, 1>>)' /\ Living(<<p.chan, 1>>)' BY <1>8, <3>2 DEF ChanCalm, Spawns
    <3>4. p.chan = m.chan => m.rgn = p.by BY DEF ChanCalm, Spawns
    <3>5. holder'[<<p.chan, 1>>] \in {H!None, p.by} BY <1>6, <3>2, <3>4 DEF ChanCalm, Spawns
    <3>6. chanStatus'[<<p.chan, 2>>] = "spawning"
      <4>1. CASE p.chan = m.chan BY <1>6, <3>2, <4>1
      <4>2. CASE p.chan # m.chan
        <5>1. ~Marked(p.chan) BY <4>2 DEF Marked, ChanCalm, Marks
        <5>2. QED BY <1>6, <3>2, <4>2, <5>1 DEF ChanCalm, Spawns
      <4>3. QED BY <4>1, <4>2
    <3>7. chanStatus'[<<p.chan, 1>>] = "closed" => Closing(<<p.chan, 1>>)'
      BY <1>8, <1>9, <3>2 DEF ChanCalm, Spawns
    <3>8. QED BY <1>6, <3>2, <3>3, <3>5, <3>6, <3>7 DEF ChanCalm, Spawns
  <2>2. QED BY <1>1, <1>11, <2>1 DEF ChanCalm, Spawns
<1>15. AskedFor' BY <1>1, <1>8 DEF ChanCalm, AskedFor, ChanTyped
<1>16. Calls' BY <1>1, <1>8, StillCalled DEF ChanCalm
<1>17. /\ \A x, u : Queued(x, u)' <=> Queued(x, u)
       /\ \A f : (Pends(f)' <=> Pends(f)) /\ Notice(f)' = Notice(f)
  BY <1>1 DEF Queued, Pends, Notice
<1>18. Waits' BY <1>8, <1>17 DEF ChanCalm, Waits, Items
<1>19. Tells'
  <2>1. \A f \in H!Ends : Announced(f) => Announced(f)' BY <1>1, <1>9, <1>17 DEF Announced
  <2>2. \A f \in H!Ends : H!OtherEnd(f) \in H!Ends BY EndsAre
  <2>3. QED BY <1>8, <2>1, <2>2 DEF ChanCalm, Tells
<1>20. QED BY <1>5, <1>10, <1>12, <1>13, <1>14, <1>15, <1>16, <1>18, <1>19 DEF ChanCalm

LEMMA AnchorCalm ==
    ASSUME H!ConstantsMakeSense, ChanTyped, ChanCalm, H!Calm, NEW r \in ChanRegion,
           H!udi_channel_anchor(r)
    PROVE  chanWild' = chanWild /\ ChanCalm'
<1>1. PICK e \in H!Ends :
         /\ holder[e] = r /\ chanStatus[e] \in {"loose", "spawning", "freed"}
         /\ ~H!Gone(e) => /\ H!Anchor(e, r) /\ UNCHANGED chanWild
                          /\ IF chanStatus[H!OtherEnd(e)] = "closed" THEN H!_udi_MA_send_op(H!OtherEnd(e), r)
                             ELSE UNCHANGED <<chanQueue, events, pool>>
         /\ UNCHANGED <<holder, spawns, chanAsked, marking, calling, blame, chanTold>>
  BY DEF H!udi_channel_anchor
<1>2. r # H!None /\ r \in Regions BY DEF H!ConstantsMakeSense, H!None, Regions
<1>3. ~H!Gone(e) /\ chanWild' = chanWild BY <1>1, <1>2 DEF ChanCalm, Handled, H!Gone
<1>4. chanStatus[e] \in {"loose", "spawning"} BY <1>1, <1>3 DEF H!Gone
<1>5. /\ \A f \in H!Ends : chanStatus'[f] = IF f = e THEN "anchored" ELSE chanStatus[f]
      /\ \A f \in H!Ends : region'[f] = IF f = e THEN r ELSE region[f]
  BY <1>1, <1>3 DEF ChanTyped, H!Anchor
<1>6. \A f \in H!Ends : /\ Living(f)' <=> Living(f)
                        /\ chanStatus'[f] = "closed" <=> chanStatus[f] = "closed"
                        /\ chanStatus'[f] = "none" <=> chanStatus[f] = "none"
                        /\ H!Gone(f)' <=> H!Gone(f)
  BY <1>4, <1>5 DEF Living, H!Gone
<1>7. \A f \in H!Ends : H!OtherEnd(f) \in H!Ends BY EndsAre
<1>8. /\ \A x \in ChanRegion : \A f : Closes(x, f)' <=> Closes(x, f)
      /\ \A f : Closing(f)' <=> Closing(f)
      /\ \A k : Marked(k)' <=> Marked(k)
  BY <1>1 DEF Closes, Closing, Marked
<1>9. Pairs' BY <1>6, <1>7 DEF ChanCalm, Pairs
<1>10. Handled'
  <2>1. ASSUME NEW f \in H!Ends
        PROVE  /\ chanStatus'[f] \in {"none", "freed", "closed"} => holder[f] = H!None
               /\ chanStatus'[f] \in {"loose", "anchored", "spawning"} =>
                     \/ holder[f] # H!None
                     \/ f[2] = 1 /\ Marked(f[1])
                     \/ f[2] = 2 /\ \E p \in spawns : p.chan = f[1]
               /\ chanStatus'[f] = "anchored" => region'[f] # H!None
               /\ chanStatus'[f] = "spawning" => f[2] = 2
    <3>1. CASE f = e BY <1>1, <1>2, <1>5, <3>1
    <3>2. CASE f # e BY <1>5, <3>2 DEF ChanCalm, Handled
    <3>3. QED BY <3>1, <3>2
  <2>2. \A f \in H!Ends : chanStatus'[f] = "closed" /\ chanStatus'[H!OtherEnd(f)] = "closed" =>
                           Closing(f)' \/ Closing(H!OtherEnd(f))'
    BY <1>6, <1>7, <1>8 DEF ChanCalm, Handled
  <2>3. QED BY <1>1, <1>8, <2>1, <2>2 DEF ChanCalm, Handled
<1>11. Marks'
  <2>1. ASSUME NEW m \in marking PROVE chanStatus'[<<m.chan, 1>>] \in {"loose", "anchored"}
    <3>1. m.chan \in Chan BY DEF ChanTyped
    <3>2. <<m.chan, 1>> \in H!Ends BY <3>1, EndsAre
    <3>3. QED BY <1>5, <3>2 DEF ChanCalm, Marks
  <2>2. QED BY <1>1, <2>1 DEF ChanCalm, Marks
<1>12. Spawns'
  <2>1. ASSUME NEW p \in spawns
        PROVE  /\ Living(<<p.on, 1>>)' /\ Living(<<p.chan, 1>>)'
               /\ chanStatus'[<<p.chan, 1>>] = "closed" => Closing(<<p.chan, 1>>)'
               /\ chanStatus'[<<p.chan, 2>>] = chanStatus[<<p.chan, 2>>]
    <3>1. p.chan \in Chan /\ p.on \in Chan BY DEF ChanTyped
    <3>2. <<p.chan, 1>> \in H!Ends /\ <<p.chan, 2>> \in H!Ends /\ <<p.on, 1>> \in H!Ends
      BY <3>1, EndsAre
    <3>3. <<p.chan, 2>> # e BY <1>1, <1>2 DEF ChanCalm, Spawns
    <3>4. QED BY <1>5, <1>6, <1>8, <3>2, <3>3 DEF ChanCalm, Spawns
  <2>2. QED BY <1>1, <1>8, <2>1 DEF ChanCalm, Spawns
<1>13. AskedFor'
  <2>1. ASSUME NEW q \in chanAsked PROVE Living(q.end)' /\ region'[<<q.end[1], 1>>] # H!None
    <3>1. q.end \in H!Ends BY DEF ChanTyped
    <3>2. <<q.end[1], 1>> \in H!Ends BY <3>1, EndsAre
    <3>3. Living(q.end) /\ region[<<q.end[1], 1>>] # H!None BY DEF ChanCalm, AskedFor
    <3>4. PICK f \in H!Ends : f = q.end BY <3>1
    <3>5. Living(f)' BY <1>6, <3>3, <3>4
    <3>6. QED BY <1>2, <1>5, <3>2, <3>3, <3>4, <3>5
  <2>2. QED BY <1>1, <2>1 DEF ChanCalm, AskedFor
<1>14. Calls' BY <1>1, <1>6, StillCalled DEF ChanCalm
<1>15. /\ \A x \in ChanRegion : \A u : Queued(x, u)' => Queued(x, u) \/ u = Notice(H!OtherEnd(e))
       /\ \A x \in ChanRegion : \A u : Queued(x, u) => Queued(x, u)'
       /\ \A f : Pends(f)' => Pends(f) \/ f = H!OtherEnd(e)
       /\ \A f : Pends(f) => Pends(f)'
       /\ chanStatus[H!OtherEnd(e)] = "closed" =>
             Pends(H!OtherEnd(e))' \/ \E x \in ChanRegion : Queued(x, Notice(H!OtherEnd(e)))'
  <2>1. CASE chanStatus[H!OtherEnd(e)] = "closed"
    <3>1. H!_udi_MA_send_op(H!OtherEnd(e), r) BY <1>1, <1>3, <2>1
    <3>2. QED BY <1>2, <1>7, <3>1, SendIs
  <2>2. CASE chanStatus[H!OtherEnd(e)] # "closed"
    <3>1. UNCHANGED <<chanQueue, events>> BY <1>1, <1>3, <2>2
    <3>2. QED BY <2>2, <3>1 DEF Queued, Pends
  <2>3. QED BY <2>1, <2>2
<1>16. Waits'
  <2>1. Living(e) /\ Living(H!OtherEnd(e)) BY <1>4, <1>7 DEF ChanCalm, Pairs, Living, H!Gone
  <2>2. Notice(H!OtherEnd(e)).end = e BY EndsAre DEF Notice
  <2>3. QED BY <1>6, <1>15, <2>1, <2>2 DEF ChanCalm, Waits, Items
<1>17. ASSUME NEW f \in H!Ends, chanStatus'[f] = "closed", chanStatus'[H!OtherEnd(f)] = "anchored"
       PROVE  Announced(f)'
  <2>1. Notice(f)' = Notice(f) BY DEF Notice
  <2>2. CASE H!OtherEnd(f) = e
    <3>1. f = H!OtherEnd(e) BY <2>2, EndsAre
    <3>2. chanStatus[H!OtherEnd(e)] = "closed" BY <1>6, <1>17, <3>1
    <3>3. PICK g : g = H!OtherEnd(e) OBVIOUS
    <3>4. Pends(f)' \/ \E x \in ChanRegion : Queued(x, Notice(f))'
      BY <1>15, <3>1, <3>2
    <3>5. QED BY <2>1, <3>4 DEF Announced
  <2>3. CASE H!OtherEnd(f) # e
    <3>1. Announced(f) BY <1>5, <1>6, <1>7, <1>17, <2>3 DEF ChanCalm, Tells
    <3>2. QED BY <1>1, <1>8, <1>15, <2>1, <3>1 DEF Announced
  <2>4. QED BY <2>2, <2>3
<1>18. Tells' BY <1>17 DEF Tells
<1>19. QED BY <1>3, <1>9, <1>10, <1>11, <1>12, <1>13, <1>14, <1>16, <1>18 DEF ChanCalm

\* The second of two that ask takes the end that the first one left.
LEMMA MeetingCalm ==
    ASSUME H!ConstantsMakeSense, ChanTyped, ChanCalm, H!Calm, NEW r \in ChanRegion, NEW p,
           Meeting(p, r),
           p.by # r, chanAsked' \subseteq chanAsked, UNCHANGED <<marking, calling, chanQueue,
                                                                 events, chanTold>>
    PROVE  chanWild' = chanWild /\ ChanCalm'
<1> DEFINE a == <<p.chan, 1>>
           b == <<p.chan, 2>>
<1>1. /\ p \in spawns /\ spawns' = spawns \ {p}
      /\ holder' = [holder EXCEPT ![b] = r]
      /\ \/ H!Gone(b) /\ chanWild' = TRUE /\ UNCHANGED <<chanStatus, region>>
         \/ ~H!Gone(b) /\ UNCHANGED <<chanWild, chanStatus, region>>
         \/ ~H!Gone(b) /\ UNCHANGED chanWild /\ H!Anchor(b, r)
  BY DEF Meeting
<1>2. p.chan \in Chan BY <1>1 DEF ChanTyped
<1>3. a \in H!Ends /\ b \in H!Ends /\ a # b /\ H!OtherEnd(a) = b /\ H!OtherEnd(b) = a /\ b[1] = p.chan /\ b[2] = 2
  BY <1>2, EndsAre
<1> HIDE DEF a, b
<1>4. /\ Living(a) /\ holder[b] = H!None /\ holder[a] \in {H!None, p.by}
      /\ chanStatus[a] = "closed" => Closing(a)
      /\ chanStatus[b] \in {"loose", "spawning"}
      /\ \A m \in marking : m.chan = p.chan => m.rgn = p.by
  BY <1>1 DEF ChanCalm, Spawns, a, b
<1>5. r # H!None /\ r \in Regions BY DEF H!ConstantsMakeSense, H!None, Regions
<1>6. /\ chanWild' = chanWild
      /\ \/ UNCHANGED <<chanStatus, region>>
         \/ H!Anchor(b, r)
  BY <1>1, <1>4 DEF H!Gone
<1>7. \A f \in H!Ends : holder'[f] = IF f = b THEN r ELSE holder[f] BY <1>1, <1>3 DEF ChanTyped
<1>8. /\ \A f \in H!Ends : f # b => chanStatus'[f] = chanStatus[f] /\ region'[f] = region[f]
      /\ \/ chanStatus'[b] = chanStatus[b] /\ region'[b] = region[b]
         \/ chanStatus'[b] = "anchored" /\ region'[b] = r
  <2>1. CASE UNCHANGED <<chanStatus, region>> BY <2>1
  <2>2. CASE H!Anchor(b, r) BY <1>3, <2>2 DEF ChanTyped, H!Anchor
  <2>3. QED BY <1>6, <2>1, <2>2
<1>9. \A f \in H!Ends : /\ Living(f)' <=> Living(f)
                        /\ chanStatus'[f] = "closed" <=> chanStatus[f] = "closed"
                        /\ chanStatus'[f] = "none" <=> chanStatus[f] = "none"
                        /\ H!Gone(f)' <=> H!Gone(f)
  BY <1>3, <1>4, <1>8 DEF Living, H!Gone
<1>10. \A f \in H!Ends : H!OtherEnd(f) \in H!Ends BY EndsAre
<1>11. /\ \A x \in ChanRegion : \A f : Closes(x, f)' <=> Closes(x, f)
       /\ \A f : Closing(f)' <=> Closing(f)
       /\ \A k : Marked(k)' <=> Marked(k)
  BY DEF Closes, Closing, Marked
<1>12. Pairs' BY <1>9, <1>10 DEF ChanCalm, Pairs
<1>13. Handled'
  <2>1. ASSUME NEW f \in H!Ends
        PROVE  /\ chanStatus'[f] \in {"none", "freed", "closed"} => holder'[f] = H!None
               /\ chanStatus'[f] \in {"loose", "anchored", "spawning"} =>
                     \/ holder'[f] # H!None
                     \/ f[2] = 1 /\ Marked(f[1])
                     \/ f[2] = 2 /\ \E q \in spawns' : q.chan = f[1]
               /\ chanStatus'[f] = "anchored" => region'[f] # H!None
               /\ chanStatus'[f] = "spawning" => f[2] = 2
    <3>1. CASE f = b BY <1>3, <1>4, <1>5, <1>7, <1>8, <3>1 DEF ChanCalm, Handled
    <3>2. CASE f # b
      <4>1. f[2] = 2 => f[1] # p.chan BY <3>2, EndsAre DEF b
      <4>2. (f[2] = 2 /\ \E q \in spawns : q.chan = f[1]) => \E q \in spawns' : q.chan = f[1]
        BY <1>1, <4>1
      <4>3. QED BY <1>7, <1>8, <3>2, <4>2 DEF ChanCalm, Handled
    <3>3. QED BY <3>1, <3>2
  <2>2. \A f \in H!Ends : chanStatus'[f] = "closed" /\ chanStatus'[H!OtherEnd(f)] = "closed" =>
                           Closing(f)' \/ Closing(H!OtherEnd(f))'
    BY <1>9, <1>10, <1>11 DEF ChanCalm, Handled
  <2>3. ASSUME NEW k \in Chan, holder'[<<k, 1>>] # H!None, holder'[<<k, 2>>] # H!None
        PROVE  holder'[<<k, 1>>] # holder'[<<k, 2>>]
    <3>1. <<k, 1>> \in H!Ends /\ <<k, 2>> \in H!Ends /\ <<k, 1>> # b /\ (<<k, 2>> = b => <<k, 1>> = a)
      BY EndsAre DEF a, b
    <3>2. QED BY <1>4, <1>7, <2>3, <3>1 DEF ChanCalm, Handled
  <2>4. QED BY <1>11, <2>1, <2>2, <2>3 DEF Handled
<1>14. Marks'
  <2>1. ASSUME NEW m \in marking
        PROVE  /\ holder'[<<m.chan, 1>>] = H!None /\ chanStatus'[<<m.chan, 1>>] \in {"loose", "anchored"}
               /\ holder'[<<m.chan, 2>>] # m.rgn
    <3>1. m.chan \in Chan BY DEF ChanTyped
    <3>2. /\ <<m.chan, 1>> \in H!Ends /\ <<m.chan, 2>> \in H!Ends /\ <<m.chan, 1>> # b
          /\ <<m.chan, 2>> = b => m.chan = p.chan
      BY <3>1, EndsAre DEF b
    <3>3. m.chan = p.chan => m.rgn # r BY <1>4
    <3>4. QED BY <1>7, <1>8, <3>2, <3>3 DEF ChanCalm, Marks
  <2>2. QED BY <2>1 DEF ChanCalm, Marks
<1>15. Spawns'
  <2>1. ASSUME NEW q \in spawns'
        PROVE  /\ Living(<<q.on, 1>>)' /\ Living(<<q.chan, 1>>)' /\ holder'[<<q.chan, 2>>] = H!None
               /\ holder'[<<q.chan, 1>>] \in {H!None, q.by}
               /\ chanStatus'[<<q.chan, 1>>] = "closed" => Closing(<<q.chan, 1>>)'
               /\ chanStatus'[<<q.chan, 2>>] = chanStatus[<<q.chan, 2>>]
               /\ q \in spawns
    <3>1. q \in spawns /\ q # p BY <1>1
    <3>2. q.chan # p.chan BY <1>1, <3>1 DEF ChanCalm, Spawns
    <3>3. q.chan \in Chan /\ q.on \in Chan BY <3>1 DEF ChanTyped
    <3>4. /\ <<q.chan, 1>> \in H!Ends /\ <<q.chan, 2>> \in H!Ends /\ <<q.on, 1>> \in H!Ends
          /\ <<q.chan, 1>> # b /\ <<q.chan, 2>> # b
      BY <3>2, <3>3, EndsAre DEF b
    <3>5. QED BY <1>7, <1>8, <1>9, <1>11, <3>1, <3>4 DEF ChanCalm, Spawns
  <2>2. QED BY <1>11, <2>1 DEF ChanCalm, Spawns
<1>16. AskedFor'
  <2>1. ASSUME NEW q \in chanAsked PROVE Living(q.end)' /\ region'[<<q.end[1], 1>>] # H!None
    <3>1. q.end \in H!Ends BY DEF ChanTyped
    <3>2. <<q.end[1], 1>> \in H!Ends /\ <<q.end[1], 1>> # b BY <3>1, EndsAre DEF b
    <3>3. Living(q.end) /\ region[<<q.end[1], 1>>] # H!None BY DEF ChanCalm, AskedFor
    <3>4. PICK f \in H!Ends : f = q.end BY <3>1
    <3>5. Living(f)' BY <1>9, <3>3, <3>4
    <3>6. QED BY <1>8, <3>2, <3>3, <3>4, <3>5
  <2>2. QED BY <1>1, <2>1 DEF ChanCalm, AskedFor
<1>17. Calls' BY <1>9, StillCalled DEF ChanCalm
<1>18. /\ \A x, u : Queued(x, u)' <=> Queued(x, u)
       /\ \A f : (Pends(f)' <=> Pends(f)) /\ Notice(f)' = Notice(f)
  BY DEF Queued, Pends, Notice
<1>19. Waits' BY <1>9, <1>18 DEF ChanCalm, Waits, Items
<1>20. ASSUME NEW f \in H!Ends, chanStatus'[f] = "closed", chanStatus'[H!OtherEnd(f)] = "anchored"
       PROVE  Announced(f)'
  <2>1. CASE H!OtherEnd(f) = b
    <3>1. f = a BY <1>3, <2>1, EndsAre
    <3>2. Closing(f) BY <1>4, <1>9, <1>20, <3>1
    <3>3. QED BY <1>11, <3>2 DEF Announced, Closing
  <2>2. CASE H!OtherEnd(f) # b
    <3>1. Announced(f) BY <1>8, <1>9, <1>10, <1>20, <2>2 DEF ChanCalm, Tells
    <3>2. QED BY <1>11, <1>18, <3>1 DEF Announced
  <2>3. QED BY <2>1, <2>2
<1>21. Tells' BY <1>20 DEF Tells
<1>22. QED BY <1>6, <1>12, <1>13, <1>14, <1>15, <1>16, <1>17, <1>19, <1>21 DEF ChanCalm

LEMMA SpawnCalm ==
    ASSUME H!ConstantsMakeSense, ChanTyped, ChanCalm, H!Calm, NEW r \in ChanRegion,
           H!udi_channel_spawn(r),
           blame' = {}
    PROVE  chanWild' = chanWild /\ ChanCalm'
<1>1. PICK e \in H!Ends, i \in SpawnIdx : SpawnsAt(r, e, i) BY SpawnIs
<1>2. /\ holder[e] = r /\ chanStatus[e] = "anchored"
      /\ \A q \in chanAsked : q.rgn # r
      /\ \A p \in spawns : p.on = e[1] /\ p.idx = i => p.by # r
      /\ UNCHANGED <<marking, calling, chanQueue, events, pool, chanTold>>
  BY <1>1 DEF SpawnsAt
<1>3. \/ Met(r, e, i) /\ UNCHANGED chanAsked
      \/ /\ NoneWaits(e, i) /\ ~H!NoLock(e[1])
         /\ \E q : q.rgn = r /\ q.end = e /\ q.idx = i /\ chanAsked' = chanAsked \cup {q}
         /\ UNCHANGED <<chanStatus, region, holder, spawns, blame, chanWild>>
  BY <1>1 DEF SpawnsAt
<1>4. CASE Met(r, e, i) /\ UNCHANGED chanAsked
  <2>1. PICK p \in spawns : p.on = e[1] /\ p.idx = i /\ Meeting(p, r) BY <1>4 DEF Met
  <2>2. p.by # r BY <1>2, <2>1
  <2>3. QED BY <1>2, <1>4, <2>1, <2>2, MeetingCalm
<1>5. CASE /\ NoneWaits(e, i) /\ ~H!NoLock(e[1])
           /\ \E q : q.rgn = r /\ q.end = e /\ q.idx = i /\ chanAsked' = chanAsked \cup {q}
           /\ UNCHANGED <<chanStatus, region, holder, spawns, blame, chanWild>>
  <2>1. PICK q : q.rgn = r /\ q.end = e /\ q.idx = i /\ chanAsked' = chanAsked \cup {q} BY <1>5
  <2>2. /\ \A x \in ChanRegion : \A f : Closes(x, f)' <=> Closes(x, f)
        /\ \A f : Closing(f)' <=> Closing(f)
        /\ \A k : Marked(k)' <=> Marked(k)
        /\ \A f : Living(f)' <=> Living(f)
        /\ \A x, u : Queued(x, u)' <=> Queued(x, u)
        /\ \A f : (Pends(f)' <=> Pends(f)) /\ Notice(f)' = Notice(f)
    BY <1>2, <1>5 DEF Closes, Closing, Marked, Living, Queued, Pends, Notice
  <2>3. Pairs' BY <1>5 DEF ChanCalm, Pairs, H!Gone
  <2>4. Handled' BY <1>5, <2>2, EndsAre DEF ChanCalm, Handled
  <2>5. Marks' BY <1>2, <1>5 DEF ChanCalm, Marks
  <2>6. Spawns' BY <1>2, <1>5, <2>2 DEF ChanCalm, Spawns
  <2>7. AskedFor'
    <3>1. Living(e) /\ region[<<e[1], 1>>] # H!None BY <1>2, <1>5 DEF Living, H!NoLock
    <3>2. \A p \in spawns : ~(p.on = q.end[1] /\ p.idx = q.idx) BY <1>5, <2>1 DEF NoneWaits
    <3>3. ASSUME NEW u \in chanAsked'
          PROVE  /\ Living(u.end) /\ region[<<u.end[1], 1>>] # H!None
                 /\ \A p \in spawns : p.on = u.end[1] /\ p.idx = u.idx => p.by # u.rgn
      <4>1. CASE u = q BY <2>1, <3>1, <3>2, <4>1
      <4>2. CASE u \in chanAsked BY <4>2 DEF ChanCalm, AskedFor
      <4>3. QED BY <2>1, <4>1, <4>2
    <3>4. \A u, v \in chanAsked' : u.rgn = v.rgn => u = v BY <1>2, <2>1 DEF ChanCalm, AskedFor
    <3>5. QED BY <1>5, <2>2, <3>3, <3>4 DEF AskedFor
  <2>8. Calls' BY <1>2, <1>5, <2>2, StillCalled DEF ChanCalm
  <2>9. Waits' BY <2>2 DEF ChanCalm, Waits
  <2>10. \A f \in H!Ends : Announced(f) => Announced(f)' BY <1>2, <2>2 DEF Announced
  <2>11. Tells' BY <1>5, <2>10 DEF ChanCalm, Tells
  <2>12. QED BY <1>5, <2>3, <2>4, <2>5, <2>6, <2>7, <2>8, <2>9, <2>11 DEF ChanCalm
<1>6. QED BY <1>3, <1>4, <1>5

LEMMA MakingCalm ==
    ASSUME H!ConstantsMakeSense, ChanTyped, ChanCalm, H!Calm, NEW q \in chanAsked,
           NEW k \in Chan, NEW v,
           Making(q, k, v), marking = {}, chanAsked' = chanAsked \ {q},
           UNCHANGED <<calling, chanQueue, events, chanTold>>
    PROVE  chanWild' = chanWild /\ ChanCalm'
<1> DEFINE a == <<k, 1>>
           b == <<k, 2>>
           s == [on |-> q.end[1], idx |-> q.idx, by |-> q.rgn, chan |-> k]
           m == [chan |-> k, rgn |-> q.rgn]
<1>1. /\ a \in H!Ends /\ b \in H!Ends /\ a # b /\ H!OtherEnd(a) = b /\ H!OtherEnd(b) = a
      /\ a[1] = k /\ b[1] = k /\ a[2] = 1 /\ b[2] = 2
      /\ \A f \in H!Ends : (f = a \/ f = b) <=> f[1] = k
  BY EndsAre
<1>2. /\ chanStatus[a] = "none" /\ chanStatus[b] = "none" /\ v \in {"loose", "anchored"}
      /\ chanStatus' = [chanStatus EXCEPT ![b] = "loose", ![a] = v]
      /\ region' = [region EXCEPT ![a] = IF v = "anchored" THEN q.rgn ELSE H!None]
      /\ spawns' = spawns \cup {s} /\ marking' = {m}
      /\ UNCHANGED <<holder, blame, chanWild>>
  BY DEF Making
<1>3. /\ s.on = q.end[1] /\ s.idx = q.idx /\ s.by = q.rgn /\ s.chan = k
      /\ m.chan = k /\ m.rgn = q.rgn
  OBVIOUS
<1>4. q.rgn \in ChanRegion /\ q.rgn # H!None /\ q.end \in H!Ends /\ q.end[1] \in Chan
  BY EndsAre DEF ChanTyped, H!ConstantsMakeSense, H!None
<1> HIDE DEF a, b, s, m
<1>5. /\ chanStatus'[a] = v /\ chanStatus'[b] = "loose"
      /\ \A f \in H!Ends : f # a /\ f # b => chanStatus'[f] = chanStatus[f]
      /\ \A f \in H!Ends : f # a => region'[f] = region[f]
      /\ v = "anchored" => region'[a] = q.rgn
  BY <1>1, <1>2 DEF ChanTyped
<1>6. /\ \A f \in H!Ends : Living(f) => Living(f)' /\ f # a /\ f # b
      /\ \A f \in H!Ends : chanStatus'[f] = "closed" => chanStatus[f] = "closed"
      /\ \A f \in H!Ends : chanStatus[f] = "closed" => chanStatus'[f] = "closed" /\ f # a /\ f # b
      /\ Living(a)'
  BY <1>1, <1>2, <1>5 DEF Living
<1>7. \A f \in H!Ends : H!OtherEnd(f) \in H!Ends BY EndsAre
<1>8. /\ \A x \in ChanRegion : \A f : Closes(x, f)' <=> Closes(x, f)
      /\ \A f : Closing(f)' <=> Closing(f)
      /\ \A x, u : Queued(x, u)' <=> Queued(x, u)
      /\ \A f : (Pends(f)' <=> Pends(f)) /\ Notice(f)' = Notice(f)
  BY DEF Closes, Closing, Queued, Pends, Notice
<1>9. /\ \A h : Marked(h)' <=> (h = k)
      /\ \A h : ~Marked(h)
  BY <1>2, <1>3 DEF Marked
<1>10. Pairs'
  <2>1. ASSUME NEW f \in H!Ends
        PROVE  /\ chanStatus'[f] = "none" <=> chanStatus'[H!OtherEnd(f)] = "none"
               /\ chanStatus'[f] = "freed" <=> chanStatus'[H!OtherEnd(f)] = "freed"
    <3>1. CASE f = a BY <1>1, <1>2, <1>5, <3>1
    <3>2. CASE f = b BY <1>1, <1>2, <1>5, <3>2
    <3>3. CASE f # a /\ f # b
      <4>1. H!OtherEnd(f) # a /\ H!OtherEnd(f) # b BY <1>1, <3>3, EndsAre
      <4>2. QED BY <1>5, <1>7, <3>3, <4>1 DEF ChanCalm, Pairs, H!Gone
    <3>4. QED BY <3>1, <3>2, <3>3
  <2>2. QED BY <2>1 DEF Pairs, H!Gone
<1>11. holder[a] = H!None /\ holder[b] = H!None BY <1>1, <1>2 DEF ChanCalm, Handled
<1>12. Handled'
  <2>1. ASSUME NEW f \in H!Ends
        PROVE  /\ chanStatus'[f] \in {"none", "freed", "closed"} => holder[f] = H!None
               /\ chanStatus'[f] \in {"loose", "anchored", "spawning"} =>
                     \/ holder[f] # H!None
                     \/ f[2] = 1 /\ Marked(f[1])'
                     \/ f[2] = 2 /\ \E p \in spawns' : p.chan = f[1]
               /\ chanStatus'[f] = "anchored" => region'[f] # H!None
               /\ chanStatus'[f] = "spawning" => f[2] = 2
    <3>1. CASE f = a BY <1>1, <1>2, <1>4, <1>5, <1>9, <3>1
    <3>2. CASE f = b BY <1>1, <1>2, <1>3, <1>5, <3>2
    <3>3. CASE f # a /\ f # b BY <1>2, <1>5, <1>9, <3>3 DEF ChanCalm, Handled
    <3>4. QED BY <3>1, <3>2, <3>3
  <2>2. \A f \in H!Ends : chanStatus'[f] = "closed" /\ chanStatus'[H!OtherEnd(f)] = "closed" =>
                           Closing(f)' \/ Closing(H!OtherEnd(f))'
    BY <1>6, <1>7, <1>8 DEF ChanCalm, Handled
  <2>3. QED BY <1>2, <2>1, <2>2 DEF ChanCalm, Handled
<1>13. Marks'
  <2>1. chanStatus'[a] \in {"loose", "anchored"} BY <1>1, <1>2, <1>5
  <2>2. QED BY <1>2, <1>3, <1>4, <1>11, <2>1 DEF Marks, a, b
<1>14. Living(<<q.end[1], 1>>)
  <2>1. Living(q.end) BY DEF ChanCalm, AskedFor
  <2>2. <<q.end[1], 1>> = q.end \/ <<q.end[1], 1>> = H!OtherEnd(q.end) BY <1>4, EndsAre
  <2>3. QED BY <1>4, <2>1, <2>2 DEF ChanCalm, Pairs, Living, H!Gone
<1>15. \A p \in spawns : p.chan # k BY <1>1, <1>6 DEF ChanCalm, Spawns, a
<1>16. Spawns'
  <2>1. ASSUME NEW p \in spawns'
        PROVE  /\ Living(<<p.on, 1>>)' /\ Living(<<p.chan, 1>>)' /\ holder[<<p.chan, 2>>] = H!None
               /\ holder[<<p.chan, 1>>] \in {H!None, p.by}
               /\ chanStatus'[<<p.chan, 1>>] = "closed" => Closing(<<p.chan, 1>>)'
               /\ chanStatus'[<<p.chan, 2>>] = IF p.chan = k THEN "loose" ELSE "spawning"
               /\ p.chan = k => p.by = q.rgn
    <3>1. CASE p = s
      <4>1. p.on = q.end[1] /\ p.by = q.rgn /\ p.chan = k BY <1>3, <3>1
      <4>2. Living(<<p.on, 1>>)'
        <5>1. PICK f \in H!Ends : f = <<q.end[1], 1>> BY <1>4, EndsAre
        <5>2. Living(f)' BY <1>6, <1>14, <5>1
        <5>3. QED BY <4>1, <5>1, <5>2
      <4>3. chanStatus'[a] # "closed" /\ chanStatus'[b] = "loose" BY <1>1, <1>2, <1>5
      <4>4. QED BY <1>6, <1>11, <4>1, <4>2, <4>3 DEF a, b
    <3>2. CASE p \in spawns
      <4>1. p.chan \in Chan /\ p.on \in Chan BY <3>2 DEF ChanTyped
      <4>2. p.chan # k BY <1>15, <3>2
      <4>3. /\ <<p.chan, 1>> \in H!Ends /\ <<p.chan, 2>> \in H!Ends /\ <<p.on, 1>> \in H!Ends
            /\ <<p.chan, 2>> # a /\ <<p.chan, 2>> # b
        BY <4>1, <4>2, EndsAre DEF a, b
      <4>4. chanStatus'[<<p.chan, 2>>] = "spawning" BY <1>5, <1>9, <3>2, <4>3 DEF ChanCalm, Spawns
      <4>5. QED BY <1>6, <1>8, <3>2, <4>2, <4>3, <4>4 DEF ChanCalm, Spawns
    <3>3. QED BY <1>2, <3>1, <3>2
  <2>2. \A p, u \in spawns' : p.chan = u.chan => p = u
    BY <1>2, <1>3, <1>15 DEF ChanCalm, Spawns
  <2>3. \A p \in spawns' : /\ Marked(p.chan)' <=> (p.chan = k)
                           /\ \A n \in marking' : n.chan = p.chan => n.rgn = p.by
    <3>1. ASSUME NEW p \in spawns', NEW n \in marking', n.chan = p.chan PROVE n.rgn = p.by
      <4>1. n = m BY <1>2
      <4>2. p.chan = k /\ n.rgn = q.rgn BY <1>3, <3>1, <4>1
      <4>3. QED BY <2>1, <4>2
    <3>2. QED BY <1>9, <3>1
  <2>4. holder' = holder BY <1>2
  <2>5. QED BY <2>1, <2>2, <2>3, <2>4 DEF Spawns
<1>17. AskedFor'
  <2>1. ASSUME NEW u \in chanAsked'
        PROVE  /\ Living(u.end)' /\ region'[<<u.end[1], 1>>] # H!None
               /\ \A p \in spawns' : p.on = u.end[1] /\ p.idx = u.idx => p.by # u.rgn
    <3>1. u \in chanAsked /\ u # q OBVIOUS
    <3>2. u.end \in H!Ends BY <3>1 DEF ChanTyped
    <3>3. PICK f \in H!Ends : f = u.end BY <3>2
    <3>4. Living(f) /\ region[<<f[1], 1>>] # H!None BY <3>1, <3>3 DEF ChanCalm, AskedFor
    <3>5. Living(f)' /\ f # a /\ f # b BY <1>6, <3>4
    <3>6. <<f[1], 1>> \in H!Ends /\ <<f[1], 1>> # a BY <1>1, <3>5, EndsAre
    <3>7. region'[<<f[1], 1>>] # H!None BY <1>5, <3>4, <3>6
    <3>8. q.rgn # u.rgn BY <3>1 DEF ChanCalm, AskedFor
    <3>9. \A p \in spawns' : p.on = u.end[1] /\ p.idx = u.idx => p.by # u.rgn
      BY <1>2, <1>3, <3>1, <3>8 DEF ChanCalm, AskedFor
    <3>10. QED BY <3>3, <3>5, <3>7, <3>9
  <2>2. \A u, w \in chanAsked' : u.rgn = w.rgn => u = w BY DEF ChanCalm, AskedFor
  <2>3. QED BY <2>1, <2>2 DEF AskedFor
<1>18. Calls' BY <1>6, StillCalled DEF ChanCalm
<1>19. Waits' BY <1>6, <1>8 DEF ChanCalm, Waits, Items
<1>20. Tells'
  <2>1. ASSUME NEW f \in H!Ends, chanStatus'[f] = "closed", chanStatus'[H!OtherEnd(f)] = "anchored"
        PROVE  Announced(f)'
    <3>1. chanStatus[f] = "closed" /\ f # a /\ f # b BY <1>6, <2>1
    <3>2. H!OtherEnd(f) # a /\ H!OtherEnd(f) # b BY <1>1, <3>1, EndsAre
    <3>3. Announced(f) BY <1>5, <1>7, <2>1, <3>1, <3>2 DEF ChanCalm, Tells
    <3>4. QED BY <1>8, <3>3 DEF Announced
  <2>2. QED BY <2>1 DEF Tells
<1>21. QED BY <1>2, <1>10, <1>12, <1>13, <1>16, <1>17, <1>18, <1>19, <1>20 DEF ChanCalm

LEMMA CompleteCalm ==
    ASSUME H!ConstantsMakeSense, ChanTyped, ChanCalm, H!Calm, H!_udi_channel_spawn_complete
    PROVE  chanWild' = chanWild /\ ChanCalm'
<1>1. PICK q \in chanAsked : CompletesFor(q) BY CompleteIs
<1>2. /\ marking = {} /\ chanAsked' = chanAsked \ {q}
      /\ \/ H!NoLock(q.end[1])
         \/ Met(q.rgn, q.end, q.idx) /\ UNCHANGED marking
         \/ \E k \in Chan : \E v : Making(q, k, v)
      /\ UNCHANGED <<calling, chanQueue, events, pool, chanTold>>
  BY <1>1 DEF CompletesFor
<1>3. ~H!NoLock(q.end[1]) BY DEF ChanCalm, AskedFor, H!NoLock
<1>4. q.rgn \in ChanRegion BY DEF ChanTyped
<1>5. CASE Met(q.rgn, q.end, q.idx) /\ UNCHANGED marking
  <2>1. PICK p \in spawns : p.on = q.end[1] /\ p.idx = q.idx /\ Meeting(p, q.rgn)
    BY <1>5 DEF Met
  <2>2. p.by # q.rgn BY <2>1 DEF ChanCalm, AskedFor
  <2>3. QED BY <1>2, <1>4, <1>5, <2>1, <2>2, MeetingCalm
<1>6. CASE \E k \in Chan : \E v : Making(q, k, v) BY <1>2, <1>6, MakingCalm
<1>7. QED BY <1>2, <1>3, <1>5, <1>6

\* The other end is there still: it is told, or the agent keeps the event.
LEMMA LookLeaves ==
    ASSUME H!ConstantsMakeSense, ChanTyped, ChanCalm, H!Calm, NEW r \in ChanRegion,
           NEW e \in H!Ends,
           calling[r].what = "close", calling[r].end = e,
           calling' = [calling EXCEPT ![r] = H!Still],
           UNCHANGED <<chanStatus, region, holder, spawns, chanAsked, marking, chanTold, chanWild>>,
           \/ chanStatus[H!OtherEnd(e)] = "loose" /\ UNCHANGED <<chanQueue, events>>
           \/ chanStatus[H!OtherEnd(e)] = "anchored" /\ H!_udi_MA_send_op(e, H!Target(e))
    PROVE  ChanCalm'
<1>1. /\ calling'[r] = H!Still /\ \A x \in ChanRegion : x # r => calling'[x] = calling[x]
      /\ H!Still.what = "nothing"
  BY DEF ChanTyped, H!Still
<1>2. H!OtherEnd(e) \in H!Ends /\ H!OtherEnd(H!OtherEnd(e)) = e /\ chanStatus[e] = "closed"
  BY EndsAre DEF ChanCalm, Calls
<1>3. \A x \in ChanRegion : \A f : Closes(x, f)' <=> Closes(x, f) /\ x # r
  BY <1>1 DEF Closes
<1>4. \A f : Closing(f) /\ f # e => Closing(f)' BY <1>3 DEF Closing, Closes
<1>5. /\ \A k : Marked(k)' <=> Marked(k)
      /\ \A f : Living(f)' <=> Living(f)
  BY DEF Marked, Living
<1>6. \A f \in H!Ends : H!OtherEnd(f) \in H!Ends /\ H!OtherEnd(H!OtherEnd(f)) = f BY EndsAre
<1>7. Pairs' BY DEF ChanCalm, Pairs, H!Gone
<1>8. Handled'
  <2>1. \A f \in H!Ends : chanStatus[f] = "closed" /\ chanStatus[H!OtherEnd(f)] = "closed" =>
                           Closing(f)' \/ Closing(H!OtherEnd(f))'
    BY <1>2, <1>4, <1>6 DEF ChanCalm, Handled
  <2>2. QED BY <1>5, <2>1 DEF ChanCalm, Handled
<1>9. Marks' BY DEF ChanCalm, Marks
<1>10. Spawns'
  <2>1. ASSUME NEW p \in spawns, chanStatus[<<p.chan, 1>>] = "closed" PROVE Closing(<<p.chan, 1>>)'
    <3>1. Closing(<<p.chan, 1>>) BY <2>1 DEF ChanCalm, Spawns
    <3>2. <<p.chan, 1>> # e
      <4>1. SUFFICES ASSUME <<p.chan, 1>> = e PROVE FALSE OBVIOUS
      <4>2. p.chan \in Chan BY DEF ChanTyped
      <4>3. H!OtherEnd(e) = <<p.chan, 2>> BY <4>1, <4>2, EndsAre
      <4>4. Marked(p.chan) BY <4>3 DEF ChanCalm, Spawns
      <4>5. chanStatus[e] # "closed" BY <4>1, <4>4 DEF ChanCalm, Marks, Marked
      <4>6. QED BY <1>2, <4>5
    <3>3. QED BY <1>4, <3>1, <3>2
  <2>2. QED BY <1>5, <2>1 DEF ChanCalm, Spawns
<1>11. AskedFor' BY <1>5 DEF ChanCalm, AskedFor
<1>12. Calls'
  <2>1. ASSUME NEW x \in ChanRegion
        PROVE  /\ calling'[x].what = "nothing" => calling'[x] = H!Still
               /\ calling'[x].what = "close" => chanStatus[calling'[x].end] = "closed"
               /\ calling'[x].what = "send" => /\ chanStatus[calling'[x].end] \notin {"none", "freed"}
                                               /\ calling'[x].to \in ChanRegion
    <3>1. CASE x = r BY <1>1, <3>1
    <3>2. CASE x # r
      <4>1. calling'[x] = calling[x] BY <1>1, <3>2
      <4>2. QED BY <4>1 DEF ChanCalm, Calls, Living
    <3>3. QED BY <3>1, <3>2
  <2>2. QED BY <2>1 DEF Calls, Living
<1>13. /\ \A x \in ChanRegion : \A u : Queued(x, u)' => Queued(x, u) \/ u = Notice(e)
       /\ \A x \in ChanRegion : \A u : Queued(x, u) => Queued(x, u)'
       /\ \A f : Pends(f)' => Pends(f) \/ f = e
       /\ \A f : Pends(f) => Pends(f)'
       /\ chanStatus[H!OtherEnd(e)] = "anchored" =>
             Pends(e)' \/ \E x \in ChanRegion : Queued(x, Notice(e))'
  <2>1. CASE UNCHANGED <<chanQueue, events>> /\ chanStatus[H!OtherEnd(e)] = "loose"
    BY <2>1 DEF Queued, Pends
  <2>2. CASE chanStatus[H!OtherEnd(e)] = "anchored" /\ H!_udi_MA_send_op(e, H!Target(e))
    <3>1. PICK to : to = H!Target(e) OBVIOUS
    <3>2. to \in Regions /\ H!_udi_MA_send_op(e, to) BY <2>2, <3>1, TargetTyped
    <3>3. to # H!None BY <1>2, <2>2, <3>1 DEF H!Target, ChanCalm, Handled
    <3>4. QED BY <3>2, <3>3, SendIs
  <2>3. QED BY <2>1, <2>2
<1>14. Waits'
  <2>1. Living(e) /\ Living(H!OtherEnd(e)) BY <1>2 DEF ChanCalm, Pairs, Living, H!Gone
  <2>2. Notice(e).end = H!OtherEnd(e) BY DEF Notice
  <2>3. QED BY <1>5, <1>13, <2>1, <2>2 DEF ChanCalm, Waits
<1>15. ASSUME NEW f \in H!Ends, chanStatus[f] = "closed", chanStatus[H!OtherEnd(f)] = "anchored"
       PROVE  Announced(f)'
  <2>1. Notice(f)' = Notice(f) BY DEF Notice
  <2>2. CASE f = e
    <3>1. Pends(f)' \/ \E x \in ChanRegion : Queued(x, Notice(f))' BY <1>13, <1>15, <2>2
    <3>2. QED BY <2>1, <3>1 DEF Announced
  <2>3. CASE f # e
    <3>1. Announced(f) BY <1>15 DEF ChanCalm, Tells
    <3>2. ASSUME NEW x \in ChanRegion, Closes(x, f) PROVE Closes(x, f)'
      <4>1. x # r BY <2>3, <3>2 DEF Closes
      <4>2. QED BY <1>3, <3>2, <4>1
    <3>3. QED BY <1>13, <2>1, <3>1, <3>2 DEF Announced
  <2>4. QED BY <2>2, <2>3
<1>16. Tells' BY <1>15 DEF Tells
<1>17. QED BY <1>7, <1>8, <1>9, <1>10, <1>11, <1>12, <1>14, <1>16 DEF ChanCalm

\* What it is to find nothing that a channel is still part of.
LEMMA NoCauses ==
    ASSUME NEW r \in ChanRegion, NEW k, H!Causes(r, k) = {}
    PROVE  /\ \A p \in spawns : p.on # k /\ p.chan # k
           /\ \A q \in chanAsked : q.end[1] # k
           /\ \A e \in H!Of(k) : ~(chanStatus[e] = "spawning" /\ holder[e] # H!None)
           /\ \A j \in DOMAIN events : events[j][1] # k
           /\ \A x \in ChanRegion \ {r} : calling[x] = H!Still \/ calling[x].end[1] # k
BY DEF H!Causes

LEMMA DiscardCalm ==
    ASSUME H!ConstantsMakeSense, ChanTyped, ChanCalm, H!Calm, NEW r \in ChanRegion,
           NEW e \in H!Ends,
           calling[r].what = "close", calling[r].end = e,
           calling' = [calling EXCEPT ![r] = H!Still],
           UNCHANGED <<holder, chanAsked, marking, chanTold, events, chanWild>>,
           chanStatus[H!OtherEnd(e)] \notin {"anchored", "loose"},
           H!Causes(r, e[1]) = {}, H!Discard(e[1]),
           chanQueue' = [x \in ChanRegion |-> H!Without(chanQueue[x], e[1])]
    PROVE  ChanCalm'
<1> DEFINE d == H!OtherEnd(e)
           k == e[1]
<1>1. /\ d \in H!Ends /\ d # e /\ k \in Chan /\ H!Of(k) = {d, e} /\ H!OtherEnd(d) = e
      /\ \A f \in H!Ends : (f = d \/ f = e) <=> f[1] = k
      /\ \A f \in H!Ends : H!OtherEnd(f) \in H!Ends /\ H!OtherEnd(H!OtherEnd(f)) = f /\ H!OtherEnd(f)[1] = f[1]
  BY EndsAre
<1>2. /\ calling'[r] = H!Still /\ \A x \in ChanRegion : x # r => calling'[x] = calling[x]
      /\ H!Still.what = "nothing"
  BY DEF ChanTyped, H!Still
<1>3. /\ \A p \in spawns : p.on # k /\ p.chan # k
      /\ \A q \in chanAsked : q.end[1] # k
      /\ ~(chanStatus[d] = "spawning" /\ holder[d] # H!None)
      /\ \A j \in DOMAIN events : events[j][1] # k
      /\ \A x \in ChanRegion \ {r} : calling[x] = H!Still \/ calling[x].end[1] # k
  BY <1>1, NoCauses
<1> HIDE DEF d, k
<1>4. chanStatus[e] = "closed" BY DEF ChanCalm, Calls
<1>5. chanStatus[d] = "closed"
  <2>1. chanStatus[d] \notin {"none", "freed", "anchored", "loose"}
    BY <1>1, <1>4 DEF ChanCalm, Pairs, H!Gone, d
  <2>2. chanStatus[d] # "spawning"
    <3>1. SUFFICES ASSUME chanStatus[d] = "spawning" PROVE FALSE OBVIOUS
    <3>2. d[2] = 2 /\ holder[d] = H!None BY <1>1, <1>3, <3>1 DEF ChanCalm, Handled
    <3>3. \E p \in spawns : p.chan = k BY <1>1, <3>1, <3>2 DEF ChanCalm, Handled
    <3>4. QED BY <1>3, <3>3
  <2>3. chanStatus[d] \in Statuses BY <1>1 DEF ChanTyped
  <2>4. QED BY <2>1, <2>2, <2>3 DEF Statuses
<1>6. /\ \A f \in H!Ends : f[1] # k => chanStatus'[f] = chanStatus[f] /\ region'[f] = region[f]
      /\ chanStatus'[d] = "freed" /\ chanStatus'[e] = "freed"
      /\ spawns' = spawns
  BY <1>1, <1>3 DEF H!Discard, k
<1>7. /\ \A f \in H!Ends : f[1] # k => (Living(f)' <=> Living(f))
      /\ \A f \in H!Ends : f[1] = k => H!Gone(f)' /\ chanStatus[f] = "closed"
  BY <1>1, <1>4, <1>5, <1>6 DEF Living, H!Gone
<1>8. /\ \A x \in ChanRegion : \A f : Closes(x, f) /\ f # e => Closes(x, f)'
      /\ \A f : Closing(f) /\ f # e => Closing(f)'
      /\ \A h : Marked(h)' <=> Marked(h)
  <2>1. \A x \in ChanRegion : \A f : Closes(x, f) /\ f # e => Closes(x, f)'
    BY <1>2 DEF Closes
  <2>2. QED BY <2>1 DEF Closing, Marked
<1>9. Pairs'
  <2>1. ASSUME NEW f \in H!Ends
        PROVE  /\ chanStatus'[f] = "none" <=> chanStatus'[H!OtherEnd(f)] = "none"
               /\ chanStatus'[f] = "freed" <=> chanStatus'[H!OtherEnd(f)] = "freed"
    <3>1. CASE f[1] = k BY <1>1, <1>6, <1>7, <3>1 DEF H!Gone
    <3>2. CASE f[1] # k BY <1>1, <1>6, <3>2 DEF ChanCalm, Pairs, H!Gone
    <3>3. QED BY <3>1, <3>2
  <2>2. QED BY <2>1 DEF Pairs, H!Gone
<1>10. Handled'
  <2>1. ASSUME NEW f \in H!Ends
        PROVE  /\ chanStatus'[f] \in {"none", "freed", "closed"} => holder[f] = H!None
               /\ chanStatus'[f] \in {"loose", "anchored", "spawning"} =>
                     \/ holder[f] # H!None
                     \/ f[2] = 1 /\ Marked(f[1])
                     \/ f[2] = 2 /\ \E p \in spawns : p.chan = f[1]
               /\ chanStatus'[f] = "anchored" => region'[f] # H!None
               /\ chanStatus'[f] = "spawning" => f[2] = 2
    <3>1. CASE f[1] = k BY <1>7, <3>1 DEF ChanCalm, Handled, H!Gone
    <3>2. CASE f[1] # k BY <1>6, <3>2 DEF ChanCalm, Handled
    <3>3. QED BY <3>1, <3>2
  <2>2. ASSUME NEW f \in H!Ends, chanStatus'[f] = "closed", chanStatus'[H!OtherEnd(f)] = "closed"
        PROVE  Closing(f)' \/ Closing(H!OtherEnd(f))'
    <3>1. f[1] # k /\ f # e /\ H!OtherEnd(f) # e BY <1>1, <1>7, <2>2 DEF H!Gone
    <3>2. chanStatus[f] = "closed" /\ chanStatus[H!OtherEnd(f)] = "closed" BY <1>1, <1>6, <2>2, <3>1
    <3>3. Closing(f) \/ Closing(H!OtherEnd(f)) BY <3>2 DEF ChanCalm, Handled
    <3>4. QED BY <1>8, <3>1, <3>3
  <2>3. QED BY <1>6, <1>8, <2>1, <2>2 DEF ChanCalm, Handled
<1>11. Marks'
  <2>1. ASSUME NEW m \in marking PROVE chanStatus'[<<m.chan, 1>>] \in {"loose", "anchored"}
    <3>1. m.chan \in Chan BY DEF ChanTyped
    <3>2. <<m.chan, 1>> \in H!Ends /\ <<m.chan, 1>>[1] = m.chan BY <3>1, EndsAre
    <3>3. PICK f \in H!Ends : f = <<m.chan, 1>> BY <3>2
    <3>4. chanStatus[f] \in {"loose", "anchored"} BY <3>3 DEF ChanCalm, Marks
    <3>5. f[1] # k BY <1>7, <3>4
    <3>6. QED BY <1>6, <3>3, <3>4, <3>5
  <2>2. QED BY <2>1 DEF ChanCalm, Marks
<1>12. Spawns'
  <2>1. ASSUME NEW p \in spawns
        PROVE  /\ Living(<<p.on, 1>>)' /\ Living(<<p.chan, 1>>)'
               /\ chanStatus'[<<p.chan, 1>>] = "closed" => Closing(<<p.chan, 1>>)'
               /\ chanStatus'[<<p.chan, 2>>] = chanStatus[<<p.chan, 2>>]
    <3>1. p.chan \in Chan /\ p.on \in Chan /\ p.chan # k /\ p.on # k BY <1>3 DEF ChanTyped
    <3>2. /\ <<p.chan, 1>> \in H!Ends /\ <<p.chan, 2>> \in H!Ends /\ <<p.on, 1>> \in H!Ends
          /\ <<p.chan, 1>>[1] # k /\ <<p.chan, 2>>[1] # k /\ <<p.on, 1>>[1] # k
          /\ <<p.chan, 1>> # e
      <4>1. <<p.chan, 1>> \in H!Ends /\ <<p.chan, 2>> \in H!Ends /\ <<p.on, 1>> \in H!Ends
        BY <3>1, EndsAre
      <4>2. <<p.chan, 1>>[1] # k /\ <<p.chan, 2>>[1] # k /\ <<p.on, 1>>[1] # k BY <3>1
      <4>3. QED BY <1>1, <4>1, <4>2
    <3>3. Living(<<p.on, 1>>)' /\ Living(<<p.chan, 1>>)' BY <1>7, <3>2 DEF ChanCalm, Spawns
    <3>4. QED BY <1>6, <1>8, <3>2, <3>3 DEF ChanCalm, Spawns
  <2>2. QED BY <1>6, <1>8, <2>1 DEF ChanCalm, Spawns
<1>13. AskedFor'
  <2>1. ASSUME NEW q \in chanAsked PROVE Living(q.end)' /\ region'[<<q.end[1], 1>>] # H!None
    <3>1. q.end \in H!Ends BY DEF ChanTyped
    <3>2. PICK f \in H!Ends : f = q.end BY <3>1
    <3>3. f[1] # k /\ Living(f) /\ region[<<f[1], 1>>] # H!None BY <1>3, <3>2 DEF ChanCalm, AskedFor
    <3>4. <<f[1], 1>> \in H!Ends /\ <<f[1], 1>>[1] # k BY <3>3, EndsAre
    <3>5. QED BY <1>6, <1>7, <3>2, <3>3, <3>4
  <2>2. QED BY <1>6, <2>1 DEF ChanCalm, AskedFor
<1>14. Calls'
  <2>1. ASSUME NEW x \in ChanRegion
        PROVE  /\ calling'[x].what = "nothing" => calling'[x] = H!Still
               /\ calling'[x].what = "close" => chanStatus'[calling'[x].end] = "closed"
               /\ calling'[x].what = "send" => /\ chanStatus'[calling'[x].end] \notin {"none", "freed"}
                                               /\ calling'[x].to \in ChanRegion
    <3>1. CASE calling'[x] = H!Still BY <1>2, <3>1
    <3>2. CASE calling'[x] # H!Still
      <4>1. x # r /\ calling'[x] = calling[x] BY <1>2, <3>2
      <4>2. PICK f \in H!Ends : f = calling[x].end BY DEF ChanTyped, Doings
      <4>3. f[1] # k BY <1>3, <3>2, <4>1, <4>2
      <4>4. /\ calling[x].what = "nothing" => calling[x] = H!Still
            /\ calling[x].what = "close" => chanStatus[f] = "closed"
            /\ calling[x].what = "send" => Living(f) /\ calling[x].to \in ChanRegion
        BY <4>2 DEF ChanCalm, Calls
      <4>5. chanStatus'[f] = chanStatus[f] BY <1>6, <4>3
      <4>6. QED BY <4>1, <4>2, <4>4, <4>5 DEF Living
    <3>3. QED BY <3>1, <3>2
  <2>2. QED BY <2>1 DEF Calls, Living
<1>15. /\ \A x \in ChanRegion : \A u : Queued(x, u)' => Queued(x, u) /\ u.end[1] # k
       /\ \A x \in ChanRegion : \A u : Queued(x, u) /\ u.end[1] # k => Queued(x, u)'
  <2>1. ASSUME NEW x \in ChanRegion
        PROVE  /\ \A u : Queued(x, u)' => Queued(x, u) /\ u.end[1] # k
               /\ \A u : Queued(x, u) /\ u.end[1] # k => Queued(x, u)'
    <3>1. PICK q : q = chanQueue[x] OBVIOUS
    <3>2. PICK w : w = H!Without(q, k) OBVIOUS
    <3>3. chanQueue'[x] = w BY <3>1, <3>2 DEF k
    <3>4. q \in Seq(Items) BY <3>1 DEF ChanTyped
    <3>5. /\ \A j \in DOMAIN w : w[j].end[1] # k /\ \E i \in DOMAIN q : w[j] = q[i]
          /\ \A i \in DOMAIN q : q[i].end[1] # k => \E j \in DOMAIN w : w[j] = q[i]
      BY <3>2, <3>4, WithoutIs
    <3>6. QED BY <3>1, <3>3, <3>5 DEF Queued
  <2>2. QED BY <2>1
<1>16. \A f : (Pends(f)' <=> Pends(f)) /\ (Pends(f) => f[1] # k)
  BY <1>3 DEF Pends
<1>17. Waits'
  <2>1. \A it \in Items : it.end \in H!Ends BY DEF Items
  <2>2. QED BY <1>7, <1>15, <1>16, <2>1 DEF ChanCalm, Waits
<1>18. ASSUME NEW f \in H!Ends, chanStatus'[f] = "closed", chanStatus'[H!OtherEnd(f)] = "anchored"
       PROVE  Announced(f)'
  <2>1. f[1] # k /\ f # e BY <1>1, <1>7, <1>18 DEF H!Gone
  <2>2. chanStatus[f] = "closed" /\ chanStatus[H!OtherEnd(f)] = "anchored"
    BY <1>1, <1>6, <1>18, <2>1
  <2>3. Announced(f) BY <2>2 DEF ChanCalm, Tells
  <2>4. Notice(f)' = Notice(f) /\ Notice(f).end[1] # k BY <1>1, <2>1 DEF Notice
  <2>5. QED BY <1>8, <1>15, <1>16, <2>1, <2>3, <2>4 DEF Announced
<1>19. Tells' BY <1>18 DEF Tells
<1>20. QED BY <1>9, <1>10, <1>11, <1>12, <1>13, <1>14, <1>17, <1>19 DEF ChanCalm

LEMMA LookCalm ==
    ASSUME H!ConstantsMakeSense, ChanTyped, ChanCalm, H!Calm, NEW r \in ChanRegion,
           H!LookAtOther(r), blame' = {}
    PROVE  chanWild' = chanWild /\ ChanCalm'
<1> DEFINE e == calling[r].end
           o == chanStatus[H!OtherEnd(e)]
<1>1. /\ calling[r].what = "close" /\ calling' = [calling EXCEPT ![r] = H!Still]
      /\ UNCHANGED <<holder, chanAsked, marking, chanCalls, chanTold>>
  BY DEF H!LookAtOther
<1>2. e \in H!Ends /\ ~H!Gone(e) BY <1>1 DEF ChanTyped, Doings, ChanCalm, Calls, H!Gone
<1>3. \/ /\ o = "anchored" /\ H!_udi_MA_send_op(e, H!Target(e))
         /\ UNCHANGED <<chanStatus, region, spawns, blame, chanWild>>
      \/ o = "loose" /\ UNCHANGED <<chanStatus, region, spawns, chanQueue, events, pool, blame,
                                    chanWild>>
      \/ /\ o \notin {"anchored", "loose"} /\ H!Discard(e[1])
         /\ chanQueue' = [x \in ChanRegion |-> H!Without(chanQueue[x], e[1])]
         /\ blame' = blame \cup H!Causes(r, e[1])
         /\ UNCHANGED <<events, chanWild>>
  BY <1>2, Zenon DEF H!LookAtOther
<1> HIDE DEF e, o
<1>4. calling[r].end = e /\ o = chanStatus[H!OtherEnd(e)] BY DEF e, o
<1>5. CASE \/ /\ o = "anchored" /\ H!_udi_MA_send_op(e, H!Target(e))
              /\ UNCHANGED <<chanStatus, region, spawns, blame, chanWild>>
           \/ o = "loose" /\ UNCHANGED <<chanStatus, region, spawns, chanQueue, events, pool,
                                         blame, chanWild>>
  <2>1. \/ chanStatus[H!OtherEnd(e)] = "loose" /\ UNCHANGED <<chanQueue, events>>
        \/ chanStatus[H!OtherEnd(e)] = "anchored" /\ H!_udi_MA_send_op(e, H!Target(e))
    BY <1>4, <1>5
  <2>2. UNCHANGED <<chanStatus, region, holder, spawns, chanAsked, marking, chanTold, chanWild>>
    BY <1>1, <1>5
  <2>3. ChanCalm' BY <1>1, <1>2, <1>4, <2>1, <2>2, LookLeaves
  <2>4. QED BY <2>2, <2>3
<1>6. CASE /\ o \notin {"anchored", "loose"} /\ H!Discard(e[1])
           /\ chanQueue' = [x \in ChanRegion |-> H!Without(chanQueue[x], e[1])]
           /\ blame' = blame \cup H!Causes(r, e[1])
           /\ UNCHANGED <<events, chanWild>>
  <2>1. H!Causes(r, e[1]) = {} BY <1>6
  <2>2. ChanCalm' BY <1>1, <1>2, <1>4, <1>6, <2>1, DiscardCalm
  <2>3. QED BY <1>6, <2>2
<1>7. QED BY <1>3, <1>5, <1>6
-----------------------------------------------------------------------------
LEMMA ChanStart == ASSUME H!ConstantsMakeSense, H!Init PROVE ChanInv
<1>1. FirstChan \in Chan /\ H!None \notin ChanRegion BY DEF H!ConstantsMakeSense, H!None
<1>2. PICK f \in [{1, 2} -> ChanRegion] :
         /\ f[1] # f[2] /\ region = [e \in H!Ends |-> IF e[1] = FirstChan THEN f[e[2]] ELSE H!None]
         /\ holder = region
  BY DEF H!Init
<1>3. /\ chanStatus = [e \in H!Ends |-> IF e[1] = FirstChan THEN "anchored" ELSE "none"]
      /\ spawns = {} /\ chanAsked = {} /\ marking = {}
      /\ calling = [r \in ChanRegion |-> H!Still]
      /\ chanQueue = [r \in ChanRegion |-> <<>>]
      /\ events = <<>> /\ pool = [free |-> 1, out |-> 0, back |-> 0]
      /\ chanTold = {} /\ blame = {} /\ chanWild = FALSE
  BY DEF H!Init
<1>4. H!Still \in Doings /\ H!Still.what = "nothing" BY <1>1, EndsAre DEF H!Still, Doings, Regions
<1>5. \A e \in H!Ends : /\ e[1] = FirstChan => region[e] = f[e[2]] /\ region[e] \in ChanRegion /\ chanStatus[e] = "anchored"
                        /\ e[1] # FirstChan => region[e] = H!None /\ chanStatus[e] = "none"
  BY <1>2, <1>3, EndsAre
<1>6. region \in [H!Ends -> Regions]
  <2>1. region = [e \in H!Ends |-> region[e]] BY <1>2
  <2>2. \A e \in H!Ends : region[e] \in Regions BY <1>5 DEF Regions
  <2>3. QED BY <2>1, <2>2
<1>7. ChanTyped
  <2>1. chanStatus \in [H!Ends -> Statuses] /\ holder \in [H!Ends -> Regions]
    BY <1>2, <1>3, <1>6 DEF Statuses
  <2>2. calling \in [ChanRegion -> Doings] BY <1>3, <1>4
  <2>3. chanQueue \in [ChanRegion -> Seq(Items)] /\ events \in Seq(H!Ends) /\ chanWild \in BOOLEAN
    <3>1. <<>> \in Seq(Items) /\ <<>> \in Seq(H!Ends) OBVIOUS
    <3>2. chanQueue \in [ChanRegion -> Seq(Items)] BY <1>3, <3>1
    <3>3. events \in Seq(H!Ends) /\ chanWild \in BOOLEAN BY <1>3, <3>1
    <3>4. QED BY <3>2, <3>3
  <2>4. QED BY <1>3, <1>6, <2>1, <2>2, <2>3 DEF ChanTyped
<1>8. PoolHas BY <1>3 DEF PoolHas, Pools
<1>9. Pairs BY <1>5, EndsAre DEF Pairs, H!Gone
<1>10. Handled
  <2>1. \A k \in Chan : holder[<<k, 1>>] # H!None => holder[<<k, 1>>] # holder[<<k, 2>>]
    <3>1. ASSUME NEW k \in Chan, holder[<<k, 1>>] # H!None PROVE holder[<<k, 1>>] # holder[<<k, 2>>]
      <4>1. <<k, 1>> \in H!Ends /\ <<k, 2>> \in H!Ends BY EndsAre
      <4>2. k = FirstChan BY <1>2, <1>5, <3>1, <4>1
      <4>3. QED BY <1>2, <1>5, <4>1, <4>2
    <3>2. QED BY <3>1
  <2>2. \A e \in H!Ends : /\ chanStatus[e] \in {"anchored", "none"}
                          /\ chanStatus[e] = "anchored" => holder[e] # H!None /\ region[e] # H!None
                          /\ chanStatus[e] = "none" => holder[e] = H!None
    BY <1>1, <1>2, <1>5
  <2>3. QED BY <2>1, <2>2 DEF Handled
<1>11. Marks /\ Spawns /\ AskedFor BY <1>3 DEF Marks, Spawns, AskedFor
<1>12. Calls BY <1>3, <1>4 DEF Calls
<1>13. Waits BY <1>3 DEF Waits, Queued, Pends
<1>14. Tells BY <1>5 DEF Tells
<1>15. QED BY <1>3, <1>7, <1>8, <1>9, <1>10, <1>11, <1>12, <1>13, <1>14
          DEF ChanInv, ChanCalm, H!WildForCause

LEMMA ChanStep == ASSUME H!ConstantsMakeSense, ChanInv, [H!Next]_(H!vars) PROVE ChanInv'
<1>1. CASE UNCHANGED H!vars
  <2>1. UNCHANGED <<chanStatus, region, holder, spawns, chanAsked, marking, calling, chanQueue,
                    events,
                    pool, chanTold, blame, chanWild>>
    BY <1>1 DEF H!vars
  <2>2. ChanTyped' /\ PoolHas' /\ H!WildForCause'
    BY <2>1 DEF ChanInv, ChanTyped, PoolHas, H!WildForCause
  <2>3. H!Calm' <=> H!Calm BY <2>1 DEF H!Calm
  <2>4. /\ \A x, f : Closes(x, f)' <=> Closes(x, f)
        /\ \A f : Closing(f)' <=> Closing(f)
        /\ \A k : Marked(k)' <=> Marked(k)
        /\ \A f : Living(f)' <=> Living(f)
        /\ \A x, u : Queued(x, u)' <=> Queued(x, u)
        /\ \A f : (Pends(f)' <=> Pends(f)) /\ Notice(f)' = Notice(f)
    BY <2>1 DEF Closes, Closing, Marked, Living, Queued, Pends, Notice
  <2>5. ASSUME ChanCalm PROVE ChanCalm'
    <3>1. Structure' BY <2>1, <2>4, <2>5, Undisturbed DEF Structure, ChanCalm, ChanInv
    <3>2. Calls' BY <2>1, <2>4, <2>5 DEF ChanCalm, Calls
    <3>3. Waits' BY <2>4, <2>5 DEF ChanCalm, Waits
    <3>4. \A f : Announced(f) => Announced(f)' BY <2>1, <2>4 DEF Announced
    <3>5. Tells' BY <2>1, <2>5, <3>4 DEF ChanCalm, Tells
    <3>6. QED BY <3>1, <3>2, <3>3, <3>5 DEF ChanCalm, Structure
  <2>6. QED BY <2>2, <2>3, <2>5 DEF ChanInv
<1>2. CASE H!Next
  <2>1. \/ \E r \in ChanRegion : \/ H!udi_channel_spawn(r) \/ H!udi_channel_anchor(r)
                            \/ H!udi_channel_close(r) \/ H!LookAtOther(r)
                            \/ H!udi_mei_call(r) \/ H!Enqueue(r) \/ H!RunQueue(r)
        \/ H!_udi_channel_spawn_complete \/ H!Mark \/ H!_udi_MA_return_cb
    BY <1>2 DEF H!Next
  <2>2. ChanTyped /\ PoolHas BY DEF ChanInv
  <2>3. ChanKept
    BY <2>1, <2>2, SpawnTyped, AnchorTyped, CloseTyped, LookTyped, CallTyped, EnqueueTyped,
       RunTyped, CompleteTyped, MarkTyped, ReturnTyped
  <2>4. ASSUME H!Calm, ChanCalm, blame' = {} PROVE chanWild' = chanWild /\ ChanCalm'
    BY <2>1, <2>2, <2>4, SpawnCalm, AnchorCalm, CloseCalm, LookCalm, CallCalm, EnqueueCalm,
       RunCalm, CompleteCalm, MarkCalm, ReturnCalm
  <2>5. H!Calm \/ blame' # {} BY <2>3 DEF ChanInv, H!WildForCause, H!Calm, ChanKept
  <2>6. blame' = {} => chanWild' = chanWild /\ ChanCalm' BY <2>4, <2>5 DEF ChanInv
  <2>7. H!WildForCause' BY <2>5, <2>6 DEF H!WildForCause, H!Calm
  <2>8. H!Calm' => ChanCalm' BY <2>6 DEF H!Calm
  <2>9. QED BY <2>3, <2>7, <2>8 DEF ChanKept, ChanInv
<1>3. QED BY <1>1, <1>2

LEMMA ChanShows == ASSUME H!ConstantsMakeSense, ChanInv PROVE H!ChannelsAreSound
<1>1. ChanTyped /\ PoolHas /\ H!WildForCause BY DEF ChanInv
<1>2. H!MeetOnce BY DEF H!MeetOnce, ChanInv, ChanCalm, Handled
<1>3. H!NoneLost
  <2>1. SUFFICES ASSUME H!Calm, NEW k \in Chan
        PROVE  \/ \A e \in H!Of(k) : chanStatus[e] \in {"none", "freed"}
               \/ \E e \in H!Of(k) : holder[e] # H!None
               \/ \E p \in spawns : p.chan = k
               \/ \E m \in marking : m.chan = k
               \/ \E r \in ChanRegion : calling[r].what = "close" /\ calling[r].end[1] = k
    BY DEF H!NoneLost
  <2>2. PICK a, b : a = <<k, 1>> /\ b = <<k, 2>> OBVIOUS
  <2>3. /\ a \in H!Ends /\ b \in H!Ends /\ H!Of(k) = {a, b} /\ H!OtherEnd(a) = b /\ H!OtherEnd(b) = a
        /\ a[1] = k /\ b[1] = k
    BY <2>2, EndsAre DEF H!Of
  <2>4. ChanCalm BY <2>1 DEF ChanInv
  <2>5. chanStatus[a] \in Statuses /\ chanStatus[b] \in Statuses BY <1>1, <2>3 DEF ChanTyped
  <2>6. CASE chanStatus[a] \in {"none", "freed"}
    BY <2>3, <2>4, <2>6 DEF ChanCalm, Pairs, H!Gone
  <2>7. CASE chanStatus[a] \in {"loose", "anchored", "spawning"}
    <3>1. holder[a] # H!None \/ Marked(k) \/ \E p \in spawns : p.chan = k
      BY <2>3, <2>4, <2>7 DEF ChanCalm, Handled
    <3>2. QED BY <2>3, <3>1 DEF Marked
  <2>8. CASE chanStatus[b] \in {"loose", "anchored", "spawning"}
    <3>1. holder[b] # H!None \/ Marked(k) \/ \E p \in spawns : p.chan = k
      BY <2>3, <2>4, <2>8 DEF ChanCalm, Handled
    <3>2. QED BY <2>3, <3>1 DEF Marked
  <2>9. CASE chanStatus[a] = "closed" /\ chanStatus[b] = "closed"
    <3>1. Closing(a) \/ Closing(b) BY <2>3, <2>4, <2>9 DEF ChanCalm, Handled
    <3>2. QED BY <2>3, <3>1 DEF Closing, Closes
  <2>10. chanStatus[b] \in {"none", "freed"} => chanStatus[a] \in {"none", "freed"}
    BY <2>3, <2>4 DEF ChanCalm, Pairs, H!Gone
  <2>11. QED BY <2>5, <2>6, <2>7, <2>8, <2>9, <2>10 DEF Statuses
<1>4. H!QueuedForLive
  <2>1. SUFFICES ASSUME H!Calm, NEW r \in ChanRegion, NEW j \in DOMAIN chanQueue[r] PROVE ~H!Gone(chanQueue[r][j].end)
    BY DEF H!QueuedForLive
  <2>2. chanQueue[r] \in Seq(Items) BY <1>1 DEF ChanTyped
  <2>3. chanQueue[r][j] \in Items BY <2>2
  <2>4. Queued(r, chanQueue[r][j]) BY DEF Queued
  <2>5. QED BY <2>1, <2>3, <2>4 DEF ChanInv, ChanCalm, Waits, Living, H!Gone
<1>5. H!NoEventStranded BY <1>1 DEF H!NoEventStranded, PoolHas, Pools
<1>6. H!ClosedIsTold
  <2>1. SUFFICES ASSUME H!Calm, NEW e \in H!Ends, chanStatus[e] = "closed", chanStatus[H!OtherEnd(e)] = "anchored"
        PROVE  \/ H!OtherEnd(e) \in chanTold
               \/ e \in {events[j] : j \in DOMAIN events}
               \/ \E r \in ChanRegion : \/ calling[r].what = "close" /\ calling[r].end = e
                                        \/ \E j \in DOMAIN chanQueue[r] :
                                             chanQueue[r][j] = [end |-> H!OtherEnd(e), kind |-> "event"]
    BY DEF H!ClosedIsTold
  <2>2. Announced(e) BY <2>1 DEF ChanInv, ChanCalm, Tells
  <2>3. QED BY <2>2 DEF Announced, Pends, Closes, Queued, Notice
<1>7. QED BY <1>1, <1>2, <1>3, <1>4, <1>5, <1>6 DEF H!ChannelsAreSound

\* The channels of the UDI environment: while no race, late event or early close has spoilt
\* one, its ends are held by the two regions that met, no channel is lost, what waits for a
\* region waits at one that is there, and an end whose other has closed is told; and use of
\* freed memory has such a cause (udi_imc.c, udi_mei.c, the pool of udi_MA_util.c).
THEOREM ChannelsKept == H!ConstantsMakeSense => (H!Spec => []ChannelsAreSound)
<1>1. ASSUME H!ConstantsMakeSense PROVE H!Init => ChanInv BY <1>1, ChanStart
<1>2. ASSUME H!ConstantsMakeSense PROVE ChanInv /\ [H!Next]_(H!vars) => ChanInv'
  BY <1>2, ChanStep
<1>3. H!ConstantsMakeSense /\ ChanInv => ChannelsAreSound BY ChanShows DEF ChannelsAreSound
<1>4. H!ConstantsMakeSense => H!ConstantsMakeSense' BY DEF H!ConstantsMakeSense, H!None
<1>5. QED BY <1>1, <1>2, <1>3, <1>4, PTL DEF H!Spec
=============================================================================
