-------------------------- MODULE UdiRegion_proofs ---------------------------
(* One thread is in a region at a time, a control block is in one place, and
   work never waits at a region nobody will run, for any regions, control
   blocks and threads and any bound on callbacks nested in a region; and what a
   region keeps for DMA agrees, for any constraints, paths, handles and buffers.  *)
EXTENDS UdiRegion, UdiResources, FiniteSetTheorems, SequenceTheorems,
        WellFoundedInduction, TLAPS
-----------------------------------------------------------------------------
(* Queues.                                                                     *)
Distinct(s) == \A j, k \in DOMAIN s : s[j] = s[k] => j = k

LEMMA EmptyQueue ==
    ASSUME NEW S, NEW s \in Seq(S)
    PROVE  /\ s = <<>> <=> Range(s) = {}
           /\ Range(s) \subseteq S
           /\ Range(<<>>) = {} /\ <<>> \in Seq(S) /\ Distinct(<<>>)
<1>1. DOMAIN s = 1 .. Len(s) /\ Len(s) \in Nat OBVIOUS
<1>2. s # <<>> => 1 \in DOMAIN s BY <1>1, EmptySeq
<1>3. \A k \in DOMAIN s : s[k] \in S BY ElementOfSeq, <1>1
<1>4. QED BY <1>2, <1>3 DEF Range, Distinct

LEMMA AppendedQueue ==
    ASSUME NEW S, NEW s \in Seq(S), NEW c \in S
    PROVE  /\ Append(s, c) \in Seq(S) /\ Append(s, c) # <<>>
           /\ Range(Append(s, c)) = Range(s) \cup {c}
           /\ Distinct(s) /\ c \notin Range(s) => Distinct(Append(s, c))
           /\ Head(Append(s, c)) = IF s = <<>> THEN c ELSE Head(s)
<1> DEFINE q == Append(s, c)
<1>1. /\ q \in Seq(S) /\ Len(q) = Len(s) + 1 /\ q # <<>>
      /\ \A i \in 1 .. Len(s) : q[i] = s[i]
      /\ q[Len(s) + 1] = c
      /\ DOMAIN s = 1 .. Len(s) /\ DOMAIN q = 1 .. (Len(s) + 1) /\ Len(s) \in Nat
  BY AppendProperties
<1> HIDE DEF q
<1>2. Range(q) = Range(s) \cup {c}
  <2>1. \A x \in Range(q) : x \in Range(s) \cup {c}
    BY <1>1 DEF Range
  <2>2. \A x \in Range(s) : x \in Range(q) BY <1>1 DEF Range
  <2>3. c \in Range(q) BY <1>1 DEF Range
  <2>4. QED BY <2>1, <2>2, <2>3
<1>3. Distinct(s) /\ c \notin Range(s) => Distinct(q)
  BY <1>1 DEF Distinct, Range
<1>4. Head(q) = q[1] BY <1>1
<1>5. s # <<>> => Head(s) = s[1] /\ 1 \in 1 .. Len(s) BY EmptySeq
<1>6. s = <<>> => Len(s) = 0 OBVIOUS
<1>7. Head(q) = IF s = <<>> THEN c ELSE Head(s) BY <1>1, <1>4, <1>5, <1>6
<1>8. QED BY <1>1, <1>2, <1>3, <1>7 DEF q

LEMMA TailOfQueue ==
    ASSUME NEW S, NEW s \in Seq(S), s # <<>>, Distinct(s)
    PROVE  /\ Head(s) \in Range(s) /\ Head(s) \in S
           /\ Tail(s) \in Seq(S) /\ Distinct(Tail(s))
           /\ Range(Tail(s)) = Range(s) \ {Head(s)}
<1>1. /\ Head(s) \in S /\ Tail(s) \in Seq(S) /\ Len(Tail(s)) = Len(s) - 1
      /\ \A i \in 1 .. Len(Tail(s)) : Tail(s)[i] = s[i + 1]
      /\ DOMAIN s = 1 .. Len(s) /\ DOMAIN Tail(s) = 1 .. (Len(s) - 1)
      /\ Len(s) \in Nat /\ Len(s) > 0 /\ Head(s) = s[1]
  BY HeadTailProperties, EmptySeq
<1> DEFINE q == Tail(s)
<1> HIDE DEF q
<1>2. \A x \in Range(q) : x \in Range(s) /\ x # s[1]
  BY <1>1 DEF Range, Distinct, q
<1>3. \A x \in Range(s) : x # s[1] => x \in Range(q)
  <2>1. ASSUME NEW k \in DOMAIN s, s[k] # s[1] PROVE s[k] \in Range(q)
    <3>1. k - 1 \in DOMAIN q /\ q[k - 1] = s[k] BY <1>1, <2>1 DEF q
    <3>2. QED BY <3>1 DEF Range
  <2>2. QED BY <2>1 DEF Range
<1>4. Distinct(q) BY <1>1 DEF Distinct, q
<1>5. Head(s) \in Range(s) BY <1>1 DEF Range
<1>6. QED BY <1>1, <1>2, <1>3, <1>4, <1>5 DEF q

LEMMA UnlinkedQueue ==
    ASSUME NEW S, NEW s \in Seq(S), NEW c, Distinct(s)
    PROVE  /\ Unlinked(s, c) \in Seq(S) /\ Distinct(Unlinked(s, c))
           /\ Range(Unlinked(s, c)) = Range(s) \ {c}
<1>1. CASE c \notin Range(s) BY <1>1 DEF Unlinked
<1>2. CASE c \in Range(s)
  <2> DEFINE i == CHOOSE k \in DOMAIN s : s[k] = c
             q == RemoveAt(s, i)
             n == Len(s)
  <2>1. DOMAIN s = 1 .. n /\ n \in Nat OBVIOUS
  <2>2. i \in 1 .. n /\ s[i] = c
    <3>1. \E k \in DOMAIN s : s[k] = c BY <1>2 DEF Range
    <3>2. QED BY <2>1, <3>1
  <2> HIDE DEF i
  <2>3. \A k \in 1 .. n : s[k] \in S BY <2>1, ElementOfSeq
  <2> DEFINE low == SubSeq(s, 1, i - 1)
             high == SubSeq(s, i + 1, n)
  <2>4. /\ low \in Seq(S) /\ Len(low) = i - 1
        /\ \A k \in 1 .. (i - 1) : low[k] = s[k]
    BY <2>1, <2>2, <2>3, SubSeqProperties
  <2>5. /\ high \in Seq(S) /\ Len(high) = n - i
        /\ \A k \in 1 .. (n - i) : high[k] = s[k + i]
    <3>1. \A k \in (i + 1) .. n : s[k] \in S BY <2>1, <2>2, <2>3
    <3>2. /\ high \in Seq(S) /\ Len(high) = IF i + 1 <= n THEN n - (i + 1) + 1 ELSE 0
          /\ \A k \in 1 .. (n - (i + 1) + 1) : high[k] = s[(i + 1) + k - 1]
      BY <2>1, <2>2, <3>1, SubSeqProperties
    <3>3. i \in Int /\ n \in Int /\ i <= n BY <2>1, <2>2
    <3> HIDE DEF high, n
    <3>4. Len(high) = n - i BY <3>2, <3>3
    <3>5. ASSUME NEW k \in 1 .. (n - i) PROVE high[k] = s[k + i]
      <4>1. k \in 1 .. (n - (i + 1) + 1) /\ (i + 1) + k - 1 = k + i BY <3>3
      <4>2. QED BY <3>2, <4>1
    <3>6. QED BY <3>2, <3>4, <3>5
  <2>6. q = low \o high BY DEF RemoveAt
  <2> HIDE DEF low, high, q, n
  <2>7. /\ q \in Seq(S) /\ Len(q) = n - 1 /\ DOMAIN q = 1 .. (n - 1)
        /\ \A k \in 1 .. (n - 1) : q[k] = IF k < i THEN s[k] ELSE s[k + 1]
    <3>1. /\ q \in Seq(S) /\ Len(q) = (i - 1) + (n - i)
          /\ \A k \in 1 .. ((i - 1) + (n - i)) :
                q[k] = IF k <= i - 1 THEN low[k] ELSE high[k - (i - 1)]
      BY <2>4, <2>5, <2>6, ConcatProperties
    <3>2. Len(q) = n - 1 BY <2>1, <2>2, <3>1
    <3>3. DOMAIN q = 1 .. (n - 1) BY <3>1, <3>2, LenProperties
    <3>4. ASSUME NEW k \in 1 .. (n - 1)
          PROVE  q[k] = IF k < i THEN s[k] ELSE s[k + 1]
      <4>1. q[k] = IF k <= i - 1 THEN low[k] ELSE high[k - (i - 1)]
        BY <2>1, <2>2, <3>1
      <4>2. CASE k < i BY <2>1, <2>2, <2>4, <4>1, <4>2
      <4>3. CASE k >= i
        <5>1. k - (i - 1) \in 1 .. (n - i) /\ (k - (i - 1)) + i = k + 1
          BY <2>1, <2>2, <4>3
        <5>2. high[k - (i - 1)] = s[(k - (i - 1)) + i] BY <2>5, <5>1
        <5>3. q[k] = high[k - (i - 1)] BY <2>1, <2>2, <4>1, <4>3
        <5>4. ~(k < i) BY <2>1, <2>2, <4>3
        <5>5. QED BY <5>1, <5>2, <5>3, <5>4, Zenon
      <4>4. QED BY <2>1, <2>2, <4>2, <4>3
    <3>5. QED BY <3>1, <3>2, <3>3, <3>4
  <2>8. Distinct(q) /\ \A x \in Range(q) : x \in Range(s) /\ x # c
    <3> DEFINE at(k) == IF k < i THEN k ELSE k + 1
    <3>1. \A k \in DOMAIN q : at(k) \in DOMAIN s /\ at(k) # i /\ q[k] = s[at(k)]
      BY <2>1, <2>2, <2>7
    <3>2. \A j, k \in DOMAIN q : at(j) = at(k) => j = k BY <2>1, <2>2, <2>7
    <3>3. i \in DOMAIN s BY <2>1, <2>2
    <3> HIDE DEF at
    <3>4. QED BY <2>2, <3>1, <3>2, <3>3 DEF Distinct, Range
  <2>9. ASSUME NEW k \in DOMAIN s, s[k] # c PROVE s[k] \in Range(q)
    <3>1. CASE k < i
      <4>1. k \in DOMAIN q /\ q[k] = s[k] BY <2>1, <2>2, <2>7, <3>1
      <4>2. QED BY <4>1 DEF Range
    <3>2. CASE k > i
      <4>1. k - 1 \in DOMAIN q /\ q[k - 1] = s[k] BY <2>1, <2>2, <2>7, <3>2
      <4>2. QED BY <4>1 DEF Range
    <3>3. k # i /\ k \in Nat /\ i \in Nat BY <2>1, <2>2, <2>9
    <3>4. QED BY <3>1, <3>2, <3>3
  <2>10. Range(q) = Range(s) \ {c} BY <2>8, <2>9 DEF Range
  <2>11. QED BY <1>2, <2>7, <2>8, <2>10 DEF Unlinked, q, i
<1>3. QED BY <1>1, <1>2

LEMMA PoppedStack ==
    ASSUME NEW S, NEW s \in Seq(S), s # <<>>
    PROVE  /\ Front(s) \in Seq(S) /\ Len(s) \in Nat /\ Len(s) > 0
           /\ DOMAIN s = 1 .. Len(s) /\ DOMAIN Front(s) = 1 .. (Len(s) - 1)
           /\ \A k \in 1 .. (Len(s) - 1) : Front(s)[k] = s[k]
           /\ Last(s) = s[Len(s)] /\ Last(s) \in S
<1>1. Len(s) \in Nat /\ Len(s) > 0 BY EmptySeq
<1>2. QED BY <1>1, ElementOfSeq DEF Front, Last
-----------------------------------------------------------------------------
(* Who is in a region.                                                         *)
Frame == [rgn : Region, by : {"mei", "callback", "daemon"}]

StackType ==
    /\ active \in [Region -> BOOLEAN] /\ depth \in [Region -> Nat]
    /\ life \in [Region -> {"up", "dying", "leaked", "gone"}]
    /\ stack \in [Actor -> Seq(Frame)]

\* A frame that took the region, not a callback nested in one that did.
Took(t, k) == k \in DOMAIN stack[t] /\ stack[t][k].by # "callback"

\* A callback is nested in a frame of its region.
CallbacksAreNested ==
    \A t \in Actor : \A k \in DOMAIN stack[t] :
       \E j \in 1 .. k : Took(t, j) /\ stack[t][j].rgn = stack[t][k].rgn
TakenOnce ==
    \A t, u \in Actor : \A j \in DOMAIN stack[t], k \in DOMAIN stack[u] :
       Took(t, j) /\ Took(u, k) /\ stack[t][j].rgn = stack[u][k].rgn => t = u /\ j = k
\* A region taken is marked so, and one marked so (or torn down while somebody
\* was in it) is taken.
TakenIsActive ==
    \A t \in Actor : \A k \in DOMAIN stack[t] :
       Took(t, k) => active[stack[t][k].rgn] /\ life[stack[t][k].rgn] \in {"up", "dying"}
ActiveIsTaken ==
    \A r \in Region : (life[r] = "up" /\ active[r]) \/ life[r] = "dying" =>
       \E t \in Actor : \E k \in DOMAIN stack[t] : Took(t, k) /\ stack[t][k].rgn = r

Counted == \A r \in Region : IsFiniteSet(Callbacks(r)) /\ depth[r] = Cardinality(Callbacks(r))
                             /\ depth[r] <= CallbackLimit

StackOK == /\ StackType /\ CallbacksAreNested /\ TakenOnce
           /\ TakenIsActive /\ ActiveIsTaken /\ Counted

LEMMA FramesHaveRegions ==
    ASSUME StackType PROVE \A t \in Actor : \A k \in DOMAIN stack[t] :
                              k \in Nat /\ stack[t][k] \in Frame /\ stack[t][k].rgn \in Region
<1>1. ASSUME NEW t \in Actor, NEW k \in DOMAIN stack[t] PROVE k \in Nat /\ stack[t][k] \in Frame
  <2>1. stack[t] \in Seq(Frame) BY DEF StackType
  <2>2. DOMAIN stack[t] = 1 .. Len(stack[t]) BY <2>1
  <2>3. QED BY <2>1, <2>2, ElementOfSeq
<1>2. QED BY <1>1 DEF Frame

\* Whoever runs in a region has it.
LEMMA InIsActive ==
    ASSUME StackOK, NEW t \in Actor, NEW r, In(t, r)
    PROVE  /\ r \in Region /\ active[r] /\ life[r] \in {"up", "dying"}
           /\ \E k \in DOMAIN stack[t] : Took(t, k) /\ stack[t][k].rgn = r
<1> DEFINE n == Len(stack[t])
<1>1. stack[t] \in Seq(Frame) /\ stack[t] # <<>> BY DEF StackOK, StackType, In
<1>2. n \in DOMAIN stack[t] /\ stack[t][n] \in Frame /\ stack[t][n].rgn = r
  <2>1. /\ Last(stack[t]) = stack[t][n] /\ Last(stack[t]) \in Frame
        /\ n \in Nat /\ n > 0 /\ DOMAIN stack[t] = 1 .. n
    BY <1>1, PoppedStack, Zenon
  <2>2. n \in DOMAIN stack[t] BY <2>1
  <2>3. QED BY <2>1, <2>2 DEF In
<1>3. PICK j \in 1 .. n : Took(t, j) /\ stack[t][j].rgn = r
  BY <1>2 DEF StackOK, CallbacksAreNested
<1>4. j \in DOMAIN stack[t] BY <1>3 DEF Took
<1>5. r \in Region BY <1>2 DEF Frame
<1>6. active[r] /\ life[r] \in {"up", "dying"}
  BY <1>3, <1>4 DEF StackOK, TakenIsActive
<1>7. QED BY <1>3, <1>4, <1>5, <1>6

\* The stack of an actor that pushes a frame.
LEMMA PushedStack ==
    ASSUME StackType, NEW t \in Actor, NEW f \in Frame, Push(t, f)
    PROVE  /\ stack' \in [Actor -> Seq(Frame)]
           /\ \A u \in Actor : u # t => stack'[u] = stack[u]
           /\ Len(stack[t]) \in Nat /\ DOMAIN stack[t] = 1 .. Len(stack[t])
           /\ DOMAIN stack'[t] = 1 .. (Len(stack[t]) + 1)
           /\ \A k \in DOMAIN stack[t] : stack'[t][k] = stack[t][k]
           /\ stack'[t][Len(stack[t]) + 1] = f
<1>1. stack[t] \in Seq(Frame) BY DEF StackType
<1>2. stack'[t] = Append(stack[t], f) /\ \A u \in Actor : u # t => stack'[u] = stack[u]
  BY DEF StackType, Push
<1>3. stack' \in [Actor -> Seq(Frame)]
  BY <1>1, AppendProperties DEF StackType, Push
<1>4. QED BY <1>1, <1>2, <1>3, AppendProperties

\* Frames that come and go without being callbacks leave the callbacks alone.
LEMMA SameCallbacks ==
    ASSUME StackType, StackType', NEW t \in Actor, NEW r \in Region,
           \A u \in Actor : u # t => stack'[u] = stack[u],
           \A k \in DOMAIN stack[t] \cap DOMAIN stack'[t] : stack'[t][k] = stack[t][k],
           \A k \in DOMAIN stack[t] \ DOMAIN stack'[t] :
              stack[t][k] # [rgn |-> r, by |-> "callback"],
           \A k \in DOMAIN stack'[t] \ DOMAIN stack[t] :
              stack'[t][k] # [rgn |-> r, by |-> "callback"]
    PROVE  Callbacks(r)' = Callbacks(r)
<1> DEFINE f == [rgn |-> r, by |-> "callback"]
<1> HIDE DEF f
<1>1. \A u \in Actor : {j \in DOMAIN stack'[u] : stack'[u][j] = f}
                       = {j \in DOMAIN stack[u] : stack[u][j] = f}
  BY DEF f
<1>2. QED BY <1>1 DEF Callbacks, f

LEMMA TakeKeeps ==
    ASSUME ConstantsMakeSense, StackOK, NEW t \in Actor, NEW r \in Region,
           NEW by \in {"mei", "daemon"}, ~active[r], life[r] = "up",
           active' = [active EXCEPT ![r] = TRUE], Push(t, [rgn |-> r, by |-> by]),
           UNCHANGED <<depth, life>>
    PROVE  StackOK'
<1> DEFINE f == [rgn |-> r, by |-> by]
<1>0. PICK n : n = Len(stack[t]) + 1 OBVIOUS
<1>1. f \in Frame /\ f.rgn = r /\ f.by # "callback" BY DEF Frame
<1> HIDE DEF f
<1>2. /\ stack' \in [Actor -> Seq(Frame)]
      /\ \A u \in Actor : u # t => stack'[u] = stack[u]
      /\ Len(stack[t]) \in Nat /\ DOMAIN stack[t] = 1 .. Len(stack[t])
      /\ DOMAIN stack'[t] = 1 .. n
      /\ \A k \in DOMAIN stack[t] : stack'[t][k] = stack[t][k]
      /\ stack'[t][n] = f
  BY <1>0, <1>1, PushedStack DEF StackOK, f
<1>3. n \in DOMAIN stack'[t] /\ n \notin DOMAIN stack[t]
      /\ DOMAIN stack'[t] = DOMAIN stack[t] \cup {n}
  BY <1>0, <1>2
<1>4. \A s \in Region : active'[s] = IF s = r THEN TRUE ELSE active[s]
  BY DEF StackOK, StackType
<1>5. StackType' BY <1>2 DEF StackOK, StackType
<1>6. /\ Took(t, n)' /\ ~Took(t, n)
      /\ \A u \in Actor, k \in Nat : u # t \/ k # n => (Took(u, k)' <=> Took(u, k))
      /\ \A u \in Actor : \A k \in DOMAIN stack[u] : k \in DOMAIN stack'[u]
            /\ stack'[u][k] = stack[u][k]
      /\ \A u \in Actor : \A k \in DOMAIN stack'[u] :
            k \in Nat /\ (k \in DOMAIN stack[u] \/ (u = t /\ k = n))
  <2>1. \A u \in Actor : DOMAIN stack'[u] \subseteq Nat BY <1>2
  <2>2. Took(t, n)' /\ ~Took(t, n) BY <1>1, <1>2, <1>3 DEF Took
  <2>3. \A u \in Actor, k \in Nat : u # t \/ k # n => (Took(u, k)' <=> Took(u, k))
    BY <1>2, <1>3 DEF Took
  <2>4. \A u \in Actor : \A k \in DOMAIN stack[u] : k \in DOMAIN stack'[u]
            /\ stack'[u][k] = stack[u][k]
    BY <1>2, <1>3
  <2>5. \A u \in Actor : \A k \in DOMAIN stack'[u] :
            k \in DOMAIN stack[u] \/ (u = t /\ k = n)
    BY <1>2, <1>3
  <2>6. QED BY <2>1, <2>2, <2>3, <2>4, <2>5
<1>7. \A u \in Actor : \A k \in DOMAIN stack[u] : Took(u, k) => stack[u][k].rgn # r
  BY DEF StackOK, TakenIsActive
<1>8. CallbacksAreNested'
  <2>1. ASSUME NEW u \in Actor, NEW k \in DOMAIN stack'[u]
        PROVE  \E j \in 1 .. k : Took(u, j)' /\ stack'[u][j].rgn = stack'[u][k].rgn
    <3>1. CASE k \in DOMAIN stack[u]
      <4>1. PICK j \in 1 .. k : Took(u, j) /\ stack[u][j].rgn = stack[u][k].rgn
        BY <3>1 DEF StackOK, CallbacksAreNested
      <4>2. j \in DOMAIN stack[u] BY <4>1 DEF Took
      <4>3. k \in Nat /\ stack'[u][k] = stack[u][k] /\ stack'[u][j] = stack[u][j] /\ j \in Nat
        BY <1>6, <3>1, <4>1, <4>2
      <4>4. Took(u, j)' BY <1>3, <1>6, <4>1, <4>2, <4>3
      <4>5. QED BY <4>1, <4>3, <4>4
    <3>2. CASE u = t /\ k = n
      <4>1. n \in 1 .. n BY <1>0, <1>2
      <4>2. QED BY <1>6, <3>2, <4>1
    <3>3. QED BY <1>6, <3>1, <3>2
  <2>2. QED BY <2>1 DEF CallbacksAreNested
<1>9. TakenOnce'
  <2>1. ASSUME NEW u \in Actor, NEW v \in Actor, NEW j \in DOMAIN stack'[u],
               NEW k \in DOMAIN stack'[v], Took(u, j)', Took(v, k)',
               stack'[u][j].rgn = stack'[v][k].rgn
        PROVE  u = v /\ j = k
    <3>1. (j \in DOMAIN stack[u] \/ (u = t /\ j = n)) /\ (k \in DOMAIN stack[v] \/ (v = t /\ k = n))
      BY <1>6
    <3>2. CASE j \in DOMAIN stack[u] /\ k \in DOMAIN stack[v]
      BY <1>3, <1>6, <2>1, <3>2 DEF StackOK, TakenOnce
    <3>3. CASE j \in DOMAIN stack[u] /\ v = t /\ k = n
      BY <1>1, <1>2, <1>3, <1>6, <1>7, <2>1, <3>3
    <3>4. CASE u = t /\ j = n /\ k \in DOMAIN stack[v]
      BY <1>1, <1>2, <1>3, <1>6, <1>7, <2>1, <3>4
    <3>5. QED BY <3>1, <3>2, <3>3, <3>4
  <2>2. QED BY <2>1 DEF TakenOnce
<1>10. TakenIsActive'
  <2>1. ASSUME NEW u \in Actor, NEW k \in DOMAIN stack'[u], Took(u, k)'
        PROVE  active'[stack'[u][k].rgn] /\ life'[stack'[u][k].rgn] \in {"up", "dying"}
    <3>1. CASE k \in DOMAIN stack[u] /\ ~(u = t /\ k = n)
      <4>1. Took(u, k) /\ stack'[u][k] = stack[u][k] BY <1>6, <2>1, <3>1
      <4>2. stack[u][k].rgn \in Region BY <3>1, FramesHaveRegions DEF StackOK
      <4>3. QED BY <1>4, <3>1, <4>1, <4>2 DEF StackOK, TakenIsActive
    <3>2. CASE u = t /\ k = n BY <1>1, <1>2, <1>4, <3>2
    <3>3. QED BY <1>6, <3>1, <3>2
  <2>2. QED BY <2>1 DEF TakenIsActive
<1>11. ActiveIsTaken' BY <1>1, <1>2, <1>3, <1>4, <1>6 DEF StackOK, ActiveIsTaken
<1>12. \A s \in Region : Callbacks(s)' = Callbacks(s)
  <2>1. TAKE s \in Region
  <2>2. f # [rgn |-> s, by |-> "callback"] BY <1>1
  <2>3. /\ \A k \in DOMAIN stack[t] \cap DOMAIN stack'[t] : stack'[t][k] = stack[t][k]
        /\ DOMAIN stack[t] \ DOMAIN stack'[t] = {}
        /\ DOMAIN stack'[t] \ DOMAIN stack[t] = {n}
    BY <1>2, <1>3
  <2>4. /\ \A k \in DOMAIN stack[t] \ DOMAIN stack'[t] :
              stack[t][k] # [rgn |-> s, by |-> "callback"]
        /\ \A k \in DOMAIN stack'[t] \ DOMAIN stack[t] :
              stack'[t][k] # [rgn |-> s, by |-> "callback"]
    BY <1>2, <2>2, <2>3
  <2>5. StackType BY DEF StackOK
  <2>6. QED BY <1>2, <1>5, <2>3, <2>4, <2>5, SameCallbacks
<1>13. Counted' BY <1>12 DEF StackOK, Counted
<1>14. QED BY <1>5, <1>8, <1>9, <1>10, <1>11, <1>13 DEF StackOK

LEMMA NestKeeps ==
    ASSUME ConstantsMakeSense, StackOK, NEW t \in Actor, NEW r, In(t, r),
           depth[r] < CallbackLimit, depth' = [depth EXCEPT ![r] = @ + 1],
           Push(t, [rgn |-> r, by |-> "callback"]), UNCHANGED <<active, life>>
    PROVE  StackOK'
<1> DEFINE f == [rgn |-> r, by |-> "callback"]
<1>0. PICK n : n = Len(stack[t]) + 1 OBVIOUS
<1>1. r \in Region BY InIsActive
<1>2. f \in Frame /\ f.rgn = r /\ f.by = "callback" BY <1>1 DEF Frame
<1>3. PICK e \in DOMAIN stack[t] : Took(t, e) /\ stack[t][e].rgn = r BY InIsActive
<1> HIDE DEF f
<1>4. /\ stack' \in [Actor -> Seq(Frame)]
      /\ \A u \in Actor : u # t => stack'[u] = stack[u]
      /\ Len(stack[t]) \in Nat /\ DOMAIN stack[t] = 1 .. Len(stack[t])
      /\ DOMAIN stack'[t] = 1 .. n
      /\ \A k \in DOMAIN stack[t] : stack'[t][k] = stack[t][k]
      /\ stack'[t][n] = f
  BY <1>0, <1>2, PushedStack DEF StackOK, f
<1>5. /\ n \in DOMAIN stack'[t] /\ n \notin DOMAIN stack[t] /\ n \in Nat
      /\ DOMAIN stack'[t] = DOMAIN stack[t] \cup {n}
  BY <1>0, <1>4
<1>6. StackType' BY <1>1, <1>4 DEF StackOK, StackType
<1>7. /\ \A u \in Actor : \A k \in DOMAIN stack[u] : k \in DOMAIN stack'[u]
            /\ stack'[u][k] = stack[u][k]
      /\ \A u \in Actor : \A k \in DOMAIN stack'[u] :
            k \in DOMAIN stack[u] \/ (u = t /\ k = n)
  BY <1>4, <1>5
<1>8. \A u \in Actor, k \in Nat : Took(u, k)' <=> Took(u, k)
  BY <1>2, <1>4, <1>5 DEF Took
<1>9. \A u \in Actor : \A k \in DOMAIN stack[u] : k \in Nat BY FramesHaveRegions DEF StackOK
<1>10. CallbacksAreNested'
  <2>1. ASSUME NEW u \in Actor, NEW k \in DOMAIN stack'[u]
        PROVE  \E j \in 1 .. k : Took(u, j)' /\ stack'[u][j].rgn = stack'[u][k].rgn
    <3>1. CASE k \in DOMAIN stack[u]
      <4>1. PICK j \in 1 .. k : Took(u, j) /\ stack[u][j].rgn = stack[u][k].rgn
        BY <3>1 DEF StackOK, CallbacksAreNested
      <4>2. j \in DOMAIN stack[u] BY <4>1 DEF Took
      <4>3. QED BY <1>7, <1>8, <1>9, <3>1, <4>1, <4>2
    <3>2. CASE u = t /\ k = n
      <4>1. e \in 1 .. n BY <1>0, <1>4
      <4>2. Took(t, e)' /\ stack'[t][e].rgn = r BY <1>3, <1>7, <1>8, <1>9
      <4>3. QED BY <1>2, <1>4, <3>2, <4>1, <4>2
    <3>3. QED BY <1>7, <3>1, <3>2
  <2>2. QED BY <2>1 DEF CallbacksAreNested
<1>11. \A u \in Actor, k \in Nat : Took(u, k)' => k \in DOMAIN stack[u]
  BY <1>8 DEF Took
<1>12. \A u \in Actor : \A k \in DOMAIN stack'[u] : k \in Nat BY <1>5, <1>7, <1>9
<1>13. TakenOnce' BY <1>7, <1>8, <1>11, <1>12 DEF StackOK, TakenOnce
<1>14. TakenIsActive' BY <1>7, <1>8, <1>11, <1>12 DEF StackOK, TakenIsActive
<1>15. ActiveIsTaken' BY <1>7, <1>8, <1>9 DEF StackOK, ActiveIsTaken
<1>16. Counted'
  <2>1. ASSUME NEW s \in Region, s # r
        PROVE  Callbacks(s)' = Callbacks(s) /\ depth'[s] = depth[s]
    <3>1. f # [rgn |-> s, by |-> "callback"] BY <1>2, <2>1
    <3>2. /\ \A k \in DOMAIN stack[t] \cap DOMAIN stack'[t] : stack'[t][k] = stack[t][k]
          /\ DOMAIN stack[t] \ DOMAIN stack'[t] = {}
          /\ DOMAIN stack'[t] \ DOMAIN stack[t] = {n}
      BY <1>4, <1>5
    <3>3. Callbacks(s)' = Callbacks(s)
      <4>1. /\ \A k \in DOMAIN stack[t] \ DOMAIN stack'[t] :
                  stack[t][k] # [rgn |-> s, by |-> "callback"]
            /\ \A k \in DOMAIN stack'[t] \ DOMAIN stack[t] :
                  stack'[t][k] # [rgn |-> s, by |-> "callback"]
        BY <1>4, <3>1, <3>2
      <4>2. StackType BY DEF StackOK
      <4>3. QED BY <1>4, <1>6, <3>2, <4>1, <4>2, SameCallbacks
    <3>4. QED BY <1>1, <2>1, <3>3 DEF StackOK, StackType
  <2>2. Callbacks(r)' = Callbacks(r) \cup {<<t, n>>} /\ <<t, n>> \notin Callbacks(r)
    <3>1. \A u \in Actor : u # t => {j \in DOMAIN stack'[u] : stack'[u][j] = f}
                                    = {j \in DOMAIN stack[u] : stack[u][j] = f}
      BY <1>4
    <3>2. {j \in DOMAIN stack'[t] : stack'[t][j] = f}
          = {j \in DOMAIN stack[t] : stack[t][j] = f} \cup {n}
      BY <1>4, <1>5
    <3>3. \A u, k : <<u, k>> \in Callbacks(r) <=> u \in Actor /\ k \in DOMAIN stack[u] /\ stack[u][k] = f
      BY DEF Callbacks, f
    <3>4. \A u, k : <<u, k>> \in Callbacks(r)' <=> u \in Actor /\ k \in DOMAIN stack'[u] /\ stack'[u][k] = f
      BY DEF Callbacks, f
    <3>5. /\ \A x \in Callbacks(r) : \E u, k : x = <<u, k>>
          /\ \A x \in Callbacks(r)' : \E u, k : x = <<u, k>>
      BY DEF Callbacks
    <3>6. \A u, k : <<u, k>> \in Callbacks(r)' <=> <<u, k>> \in Callbacks(r) \/ (u = t /\ k = n)
      <4>1. \A u \in Actor : \A k :
               (k \in DOMAIN stack'[u] /\ stack'[u][k] = f) <=>
               (k \in DOMAIN stack[u] /\ stack[u][k] = f) \/ (u = t /\ k = n)
        BY <3>1, <3>2
      <4>2. QED BY <3>3, <3>4, <4>1, Zenon
    <3>7. <<t, n>> \notin Callbacks(r) BY <1>5, <3>3
    <3>8. QED BY <3>5, <3>6, <3>7
  <2>3. IsFiniteSet(Callbacks(r)) /\ depth[r] = Cardinality(Callbacks(r)) /\ depth[r] \in Nat
    BY <1>1 DEF StackOK, Counted, StackType
  <2>4. IsFiniteSet(Callbacks(r)') /\ Cardinality(Callbacks(r)') = depth[r] + 1
    <3>1. /\ IsFiniteSet(Callbacks(r) \cup {<<t, n>>})
          /\ Cardinality(Callbacks(r) \cup {<<t, n>>}) = Cardinality(Callbacks(r)) + 1
      BY <2>2, <2>3, FS_AddElement
    <3>2. QED BY <2>2, <2>3, <3>1
  <2>5. depth'[r] = depth[r] + 1 /\ depth'[r] <= CallbackLimit
    BY <1>1, <2>3 DEF StackOK, StackType, ConstantsMakeSense
  <2>6. QED BY <2>1, <2>4, <2>5 DEF StackOK, Counted
<1>17. QED BY <1>6, <1>10, <1>13, <1>14, <1>15, <1>16 DEF StackOK

\* The stack of an actor that drops its last frame, the n-th.
Dropped(t, n) ==
    /\ n = Len(stack[t]) /\ Last(stack[t]) = stack[t][n] /\ n \in DOMAIN stack[t]
    /\ n \notin DOMAIN stack'[t] /\ DOMAIN stack[t] = DOMAIN stack'[t] \cup {n}
    /\ stack' \in [Actor -> Seq(Frame)]
    /\ \A u \in Actor : u # t => stack'[u] = stack[u]
    /\ \A u \in Actor : \A k \in DOMAIN stack'[u] :
          /\ k \in DOMAIN stack[u] /\ stack'[u][k] = stack[u][k]
          /\ u = t => k < n
    /\ \A u \in Actor : \A k \in DOMAIN stack[u] :
          k \in DOMAIN stack'[u] \/ (u = t /\ k = n)

LEMMA DroppedStack ==
    ASSUME StackType, NEW t \in Actor, stack[t] # <<>>, stack' = [stack EXCEPT ![t] = Front(@)]
    PROVE  \E n \in Nat \ {0} : Dropped(t, n)
<1>1. stack[t] \in Seq(Frame) BY DEF StackType
<1>2. PICK n : n = Len(stack[t]) OBVIOUS
<1>3. /\ Front(stack[t]) \in Seq(Frame) /\ n \in Nat /\ n > 0
      /\ DOMAIN stack[t] = 1 .. n /\ DOMAIN Front(stack[t]) = 1 .. (n - 1)
      /\ \A k \in 1 .. (n - 1) : Front(stack[t])[k] = stack[t][k]
      /\ Last(stack[t]) = stack[t][n]
  BY <1>1, <1>2, PoppedStack, Zenon
<1>4. stack'[t] = Front(stack[t]) /\ \A u \in Actor : u # t => stack'[u] = stack[u]
  BY DEF StackType
<1>5. stack' \in [Actor -> Seq(Frame)] BY <1>3 DEF StackType
<1>6. n \in 1 .. n /\ n \notin 1 .. (n - 1) /\ 1 .. n = 1 .. (n - 1) \cup {n} BY <1>3
<1>7. \A u \in Actor : \A k \in DOMAIN stack'[u] :
         /\ k \in DOMAIN stack[u] /\ stack'[u][k] = stack[u][k]
         /\ u = t => k < n
  BY <1>3, <1>4
<1>8. \A u \in Actor : \A k \in DOMAIN stack[u] :
         k \in DOMAIN stack'[u] \/ (u = t /\ k = n)
  BY <1>3, <1>4, <1>6
<1>9. Dropped(t, n)
  BY <1>2, <1>3, <1>4, <1>5, <1>6, <1>7, <1>8 DEF Dropped
<1>10. QED BY <1>3, <1>9

\* What was nested in a frame of its region still is when a frame is dropped.
LEMMA DroppedNesting ==
    ASSUME StackOK, NEW t \in Actor, stack[t] # <<>>, stack' = [stack EXCEPT ![t] = Front(@)]
    PROVE  /\ \A u \in Actor : \A k \in DOMAIN stack'[u] : Took(u, k)' <=> Took(u, k)
           /\ CallbacksAreNested' /\ TakenOnce'
<1>0. PICK n \in Nat \ {0} : Dropped(t, n) BY DroppedStack DEF StackOK
<1>1. /\ \A u \in Actor : \A k \in DOMAIN stack'[u] :
            /\ k \in DOMAIN stack[u] /\ stack'[u][k] = stack[u][k]
            /\ u = t => k < n
      /\ \A u \in Actor : \A k \in DOMAIN stack[u] :
            k \in DOMAIN stack'[u] \/ (u = t /\ k = n)
  BY <1>0 DEF Dropped
<1>2. \A u \in Actor : \A k \in DOMAIN stack'[u] : (Took(u, k)' <=> Took(u, k)) /\ k \in Nat
  BY <1>1, FramesHaveRegions DEF Took, StackOK
<1>3. CallbacksAreNested'
  <2>1. ASSUME NEW u \in Actor, NEW k \in DOMAIN stack'[u]
        PROVE  \E j \in 1 .. k : Took(u, j)' /\ stack'[u][j].rgn = stack'[u][k].rgn
    <3>1. PICK j \in 1 .. k : Took(u, j) /\ stack[u][j].rgn = stack[u][k].rgn
      BY <1>1 DEF StackOK, CallbacksAreNested
    <3>2. j \in DOMAIN stack[u] /\ (u = t => j # n) BY <1>1, <1>2, <3>1 DEF Took
    <3>3. j \in DOMAIN stack'[u] BY <1>1, <3>2
    <3>4. QED BY <1>1, <1>2, <3>1, <3>3
  <2>2. QED BY <2>1 DEF CallbacksAreNested
<1>4. TakenOnce' BY <1>1, <1>2 DEF StackOK, TakenOnce
<1>5. QED BY <1>2, <1>3, <1>4

LEMMA UnnestKeeps ==
    ASSUME ConstantsMakeSense, StackOK, NEW t \in Actor, stack[t] # <<>>,
           NEW r, Last(stack[t]).rgn = r, Last(stack[t]).by = "callback", depth' = [depth EXCEPT ![r] = @ - 1],
           stack' = [stack EXCEPT ![t] = Front(@)], UNCHANGED <<active, life>>
    PROVE  StackOK'
<1> DEFINE f == [rgn |-> r, by |-> "callback"]
<1>0. PICK n \in Nat \ {0} : Dropped(t, n) BY DroppedStack DEF StackOK
<1>1. /\ Last(stack[t]) = stack[t][n] /\ n \in DOMAIN stack[t]
      /\ n \notin DOMAIN stack'[t] /\ DOMAIN stack[t] = DOMAIN stack'[t] \cup {n}
      /\ stack' \in [Actor -> Seq(Frame)]
      /\ \A u \in Actor : u # t => stack'[u] = stack[u]
      /\ \A u \in Actor : \A k \in DOMAIN stack'[u] :
            /\ k \in DOMAIN stack[u] /\ stack'[u][k] = stack[u][k]
      /\ \A u \in Actor : \A k \in DOMAIN stack[u] :
            k \in DOMAIN stack'[u] \/ (u = t /\ k = n)
  BY <1>0 DEF Dropped
<1>2. stack[t][n] \in Frame /\ r \in Region BY <1>1, FramesHaveRegions DEF StackOK
<1>3. stack[t][n] = f BY <1>1, <1>2 DEF Frame
<1> HIDE DEF f
<1>4. /\ \A u \in Actor : \A k \in DOMAIN stack'[u] : Took(u, k)' <=> Took(u, k)
      /\ CallbacksAreNested' /\ TakenOnce'
  BY DroppedNesting
<1>5. <<t, n>> \in Callbacks(r) BY <1>1, <1>3 DEF Callbacks, f
<1>6. /\ IsFiniteSet(Callbacks(r)) /\ depth[r] = Cardinality(Callbacks(r))
      /\ depth[r] \in Nat /\ depth[r] <= CallbackLimit
  BY <1>2 DEF StackOK, Counted, StackType
<1>7. Callbacks(r)' = Callbacks(r) \ {<<t, n>>}
  <2>1. \A u, k : <<u, k>> \in Callbacks(r) <=> u \in Actor /\ k \in DOMAIN stack[u] /\ stack[u][k] = f
    BY DEF Callbacks, f
  <2>2. \A u, k : <<u, k>> \in Callbacks(r)' <=> u \in Actor /\ k \in DOMAIN stack'[u] /\ stack'[u][k] = f
    BY DEF Callbacks, f
  <2>3. /\ \A x \in Callbacks(r) : \E u, k : x = <<u, k>>
        /\ \A x \in Callbacks(r)' : \E u, k : x = <<u, k>>
    BY DEF Callbacks
  <2>4. \A u \in Actor : \A k :
           (k \in DOMAIN stack'[u] /\ stack'[u][k] = f) <=>
           (k \in DOMAIN stack[u] /\ stack[u][k] = f) /\ ~(u = t /\ k = n)
    <3>1. SUFFICES ASSUME NEW u \in Actor, NEW k
                   PROVE  (k \in DOMAIN stack'[u] /\ stack'[u][k] = f) <=>
                          (k \in DOMAIN stack[u] /\ stack[u][k] = f) /\ ~(u = t /\ k = n)
      OBVIOUS
    <3>2. CASE k \in DOMAIN stack'[u]
      <4>1. k \in DOMAIN stack[u] /\ stack'[u][k] = stack[u][k] BY <1>1, <3>2
      <4>2. ~(u = t /\ k = n) BY <1>1, <3>2
      <4>3. QED BY <3>2, <4>1, <4>2
    <3>3. CASE k \notin DOMAIN stack'[u] BY <1>1, <3>3
    <3>4. QED BY <3>2, <3>3
  <2>5. \A u, k : <<u, k>> \in Callbacks(r)' <=> <<u, k>> \in Callbacks(r) /\ ~(u = t /\ k = n)
    BY <2>1, <2>2, <2>4
  <2>6. QED BY <2>3, <2>5
<1>8. /\ IsFiniteSet(Callbacks(r)') /\ Cardinality(Callbacks(r)') = depth[r] - 1
      /\ depth[r] - 1 \in Nat
  <2>1. /\ IsFiniteSet(Callbacks(r) \ {<<t, n>>})
        /\ Cardinality(Callbacks(r) \ {<<t, n>>}) = Cardinality(Callbacks(r)) - 1
    BY <1>5, <1>6, FS_RemoveElement
  <2>2. Cardinality(Callbacks(r) \ {<<t, n>>}) \in Nat BY <2>1, FS_CardinalityType
  <2>3. QED BY <1>6, <1>7, <2>1, <2>2
<1>9. StackType' BY <1>1, <1>2, <1>8 DEF StackOK, StackType
<1>10. TakenIsActive' BY <1>1, <1>4 DEF StackOK, TakenIsActive
<1>11. ActiveIsTaken'
  <2>1. ~Took(t, n) BY <1>3 DEF Took, f
  <2>2. QED BY <1>1, <1>4, <2>1 DEF StackOK, ActiveIsTaken
<1>12. Counted'
  <2>1. ASSUME NEW s \in Region, s # r
        PROVE  Callbacks(s)' = Callbacks(s) /\ depth'[s] = depth[s]
    <3>1. f # [rgn |-> s, by |-> "callback"] BY <2>1 DEF f
    <3>2. /\ \A k \in DOMAIN stack[t] \cap DOMAIN stack'[t] : stack'[t][k] = stack[t][k]
          /\ DOMAIN stack[t] \ DOMAIN stack'[t] = {n}
          /\ DOMAIN stack'[t] \ DOMAIN stack[t] = {}
      BY <1>1
    <3>3. Callbacks(s)' = Callbacks(s)
      <4>1. /\ \A k \in DOMAIN stack[t] \ DOMAIN stack'[t] :
                  stack[t][k] # [rgn |-> s, by |-> "callback"]
            /\ \A k \in DOMAIN stack'[t] \ DOMAIN stack[t] :
                  stack'[t][k] # [rgn |-> s, by |-> "callback"]
        BY <1>3, <3>1, <3>2
      <4>2. StackType BY DEF StackOK
      <4>3. QED BY <1>1, <1>9, <3>2, <4>1, <4>2, SameCallbacks
    <3>4. QED BY <1>2, <2>1, <3>3 DEF StackOK, StackType
  <2>2. depth'[r] = depth[r] - 1 /\ depth'[r] <= CallbackLimit
    BY <1>2, <1>6 DEF StackOK, StackType, ConstantsMakeSense
  <2>3. ASSUME NEW s \in Region
        PROVE  /\ IsFiniteSet(Callbacks(s)') /\ depth'[s] = Cardinality(Callbacks(s)')
               /\ depth'[s] <= CallbackLimit
    <3>1. CASE s = r BY <1>8, <2>2, <3>1
    <3>2. CASE s # r BY <2>1, <3>2 DEF StackOK, Counted
    <3>3. QED BY <3>1, <3>2
  <2>4. QED BY <2>3 DEF Counted
<1>13. QED BY <1>4, <1>9, <1>10, <1>11, <1>12 DEF StackOK

LEMMA LeaveKeeps ==
    ASSUME StackOK, NEW t \in Actor, stack[t] # <<>>, NEW r, Last(stack[t]).rgn = r,
           Last(stack[t]).by # "callback", active' = [active EXCEPT ![r] = FALSE],
           NEW end \in {"gone", "leaked"},
           life' = [life EXCEPT ![r] = IF @ # "dying" THEN @ ELSE end],
           stack' = [stack EXCEPT ![t] = Front(@)], UNCHANGED depth
    PROVE  StackOK'
<1>0. PICK n \in Nat \ {0} : Dropped(t, n) BY DroppedStack DEF StackOK
<1>1. /\ Last(stack[t]) = stack[t][n] /\ n \in DOMAIN stack[t]
      /\ n \notin DOMAIN stack'[t] /\ DOMAIN stack[t] = DOMAIN stack'[t] \cup {n}
      /\ stack' \in [Actor -> Seq(Frame)]
      /\ \A u \in Actor : u # t => stack'[u] = stack[u]
      /\ \A u \in Actor : \A k \in DOMAIN stack'[u] :
            /\ k \in DOMAIN stack[u] /\ stack'[u][k] = stack[u][k]
            /\ u = t => k < n
      /\ \A u \in Actor : \A k \in DOMAIN stack[u] :
            k \in DOMAIN stack'[u] \/ (u = t /\ k = n)
  BY <1>0 DEF Dropped
<1>2. r \in Region /\ stack[t][n].rgn = r /\ Took(t, n)
  BY <1>1, FramesHaveRegions DEF StackOK, Took
<1>3. /\ \A u \in Actor : \A k \in DOMAIN stack'[u] : Took(u, k)' <=> Took(u, k)
      /\ CallbacksAreNested' /\ TakenOnce'
  BY DroppedNesting
<1>4. \A s \in Region : /\ active'[s] = IF s = r THEN FALSE ELSE active[s]
                        /\ life'[s] = IF s = r /\ life[s] = "dying" THEN end ELSE life[s]
  BY DEF StackOK, StackType
<1>5. StackType' BY <1>1, <1>2, <1>4 DEF StackOK, StackType
<1>6. \A u \in Actor : \A k \in DOMAIN stack'[u] :
         Took(u, k) => stack[u][k].rgn # r /\ stack[u][k].rgn \in Region
  BY <1>1, <1>2, FramesHaveRegions DEF StackOK, TakenOnce
<1>7. TakenIsActive' BY <1>1, <1>3, <1>4, <1>6 DEF StackOK, TakenIsActive
<1>8. ActiveIsTaken'
  <2>1. ASSUME NEW s \in Region, (life'[s] = "up" /\ active'[s]) \/ life'[s] = "dying"
        PROVE  \E u \in Actor : \E k \in DOMAIN stack'[u] : Took(u, k)' /\ stack'[u][k].rgn = s
    <3>1. s # r /\ life'[s] = life[s] /\ active'[s] = active[s]
      <4>1. life'[r] # "dying" /\ active'[r] = FALSE BY <1>2, <1>4
      <4>2. s # r BY <2>1, <4>1
      <4>3. QED BY <1>4, <4>2
    <3>2. PICK u \in Actor : \E k \in DOMAIN stack[u] : Took(u, k) /\ stack[u][k].rgn = s
      BY <2>1, <3>1 DEF StackOK, ActiveIsTaken
    <3>3. PICK k \in DOMAIN stack[u] : Took(u, k) /\ stack[u][k].rgn = s BY <3>2
    <3>4. k \in DOMAIN stack'[u] BY <1>1, <1>2, <3>1, <3>3
    <3>5. QED BY <1>1, <1>3, <3>3, <3>4
  <2>2. QED BY <2>1 DEF ActiveIsTaken
<1>9. \A s \in Region : Callbacks(s)' = Callbacks(s)
  <2>1. TAKE s \in Region
  <2>2. stack[t][n] # [rgn |-> s, by |-> "callback"] BY <1>2 DEF Took
  <2>3. /\ \A k \in DOMAIN stack[t] \cap DOMAIN stack'[t] : stack'[t][k] = stack[t][k]
        /\ DOMAIN stack[t] \ DOMAIN stack'[t] = {n}
        /\ DOMAIN stack'[t] \ DOMAIN stack[t] = {}
    BY <1>1
  <2>4. QED BY <1>1, <1>5, <2>2, <2>3, SameCallbacks DEF StackOK
<1>10. Counted' BY <1>9 DEF StackOK, Counted
<1>11. QED BY <1>3, <1>5, <1>7, <1>8, <1>10 DEF StackOK

LEMMA TornDownKeeps ==
    ASSUME StackOK, NEW r \in Region, life[r] = "up",
           life' = [life EXCEPT ![r] = IF active[r] THEN "dying" ELSE "gone"],
           active' = [active EXCEPT ![r] = TRUE], UNCHANGED <<stack, depth>>
    PROVE  StackOK'
<1>1. \A s \in Region :
         /\ active'[s] = IF s = r THEN TRUE ELSE active[s]
         /\ life'[s] = IF s = r THEN IF active[r] THEN "dying" ELSE "gone" ELSE life[s]
  BY DEF StackOK, StackType
<1>2. StackType' BY <1>1 DEF StackOK, StackType
<1>3. \A u \in Actor, k \in Nat : Took(u, k)' <=> Took(u, k) BY DEF Took
<1>4. CallbacksAreNested' /\ TakenOnce'
  BY DEF StackOK, CallbacksAreNested, TakenOnce, Took
<1>5. TakenIsActive'
  BY <1>1, <1>3, FramesHaveRegions DEF StackOK, TakenIsActive
<1>6. ActiveIsTaken'
  <2>1. \A s \in Region : (life'[s] = "up" /\ active'[s]) \/ life'[s] = "dying" =>
                              (life[s] = "up" /\ active[s]) \/ life[s] = "dying"
    <3>1. CASE active[r] BY <1>1, <3>1
    <3>2. CASE ~active[r]
      <4>1. life'[r] = "gone" BY <1>1, <3>2
      <4>2. \A s \in Region \ {r} : active'[s] = active[s] /\ life'[s] = life[s] BY <1>1
      <4>3. QED BY <4>1, <4>2
    <3>3. QED BY <3>1, <3>2
  <2>2. QED BY <2>1 DEF StackOK, ActiveIsTaken, Took
<1>7. Counted' BY DEF StackOK, Counted, Callbacks
<1>8. QED BY <1>2, <1>4, <1>5, <1>6, <1>7 DEF StackOK

LEMMA SameStacks ==
    ASSUME StackOK, UNCHANGED <<stack, active, depth, life>> PROVE StackOK'
<1>1. StackType' BY DEF StackOK, StackType
<1>2. CallbacksAreNested' /\ TakenOnce' BY DEF StackOK, CallbacksAreNested, TakenOnce, Took
<1>3. TakenIsActive' BY DEF StackOK, TakenIsActive, Took
<1>4. ActiveIsTaken' BY DEF StackOK, ActiveIsTaken, Took
<1>5. Counted' BY DEF StackOK, Counted, Callbacks
<1>6. QED BY <1>1, <1>2, <1>3, <1>4, <1>5 DEF StackOK
-----------------------------------------------------------------------------
(* Where a control block is.                                                   *)
Done == {"done", "immed_done", "timer_done"}
UnderWay == {"pending", "busy", "timer"}
State == {"idle", "failed", "freed"} \cup UnderWay \cup Done
Block == [rgn : Region \cup {Env}, from : Region \cup {Env}, state : State, call : BOOLEAN]

BlockType == /\ queue \in [Region -> Seq(Cb)] /\ list \in Seq(Cb) /\ cb \in [Cb -> Block]
             /\ daemon \in Cb \cup {"clear", "work", "wait"}
             /\ due \in Region \cup {Nothing}

\* The queues and the list a control block is on agree with its marks, and a region
\* torn down has only freed ones.
BlockOK(c) ==
    /\ \A r \in Region : c \in Range(queue[r]) =>
          /\ cb[c].rgn = r /\ life[r] = "up"
          /\ cb[c].call => cb[c].state \in Done
          /\ ~cb[c].call => cb[c].state = "idle"
    /\ cb[c].state \in Done =>
          cb[c].rgn \in Region /\ cb[c].call /\ c \in Range(queue[cb[c].rgn])
    /\ cb[c].state \in UnderWay =>
          cb[c].rgn \in Region /\ cb[c].call /\ life[cb[c].rgn] = "up"
    /\ cb[c].state = "idle" => ~cb[c].call
    /\ cb[c].rgn \in Region /\ life[cb[c].rgn] # "up" => cb[c].state = "freed"
    /\ cb[c].state = "pending" <=> c \in Range(list)
    /\ daemon = c <=> cb[c].state = "busy"

BlocksOK == /\ BlockType
            /\ \A r \in Region : Distinct(queue[r])
            /\ Distinct(list)
            /\ \A c \in Cb : BlockOK(c)

\* A control block that a step leaves where it is.
LEMMA Untouched ==
    ASSUME NEW c \in Cb, BlockOK(c), cb'[c] = cb[c],
           \A r \in Region : life'[r] = "up" <=> life[r] = "up",
           \A r \in Region : c \in Range(queue'[r]) <=> c \in Range(queue[r]),
           c \in Range(list') <=> c \in Range(list),
           daemon' = c <=> daemon = c
    PROVE  BlockOK(c)'
BY DEF BlockOK

LEMMA SameBlocks ==
    ASSUME BlocksOK, UNCHANGED <<queue, cb, list, daemon>>,
           due' \in Region \cup {Nothing},
           \A r \in Region : life'[r] = "up" <=> life[r] = "up"
    PROVE  BlocksOK'
<1>1. \A c \in Cb : BlockOK(c)' BY Untouched DEF BlocksOK
<1>2. BlockType' BY DEF BlocksOK, BlockType
<1>3. QED BY <1>1, <1>2 DEF BlocksOK

\* A control block is marked, its call under way or not.
LEMMA Marked ==
    ASSUME cb \in [Cb -> Block], NEW c \in Cb, NEW s \in State, NEW m \in BOOLEAN,
           cb' = [cb EXCEPT ![c].state = s, ![c].call = m]
    PROVE  /\ cb' \in [Cb -> Block] /\ cb'[c].rgn = cb[c].rgn /\ cb'[c].state = s
           /\ cb'[c].call = m /\ \A d \in Cb : d # c => cb'[d] = cb[d]
<1>1. cb[c] \in Block OBVIOUS
<1>2. DEFINE b == [cb[c] EXCEPT !.state = s, !.call = m]
<1>3. b \in Block /\ b.rgn = cb[c].rgn /\ b.state = s /\ b.call = m BY <1>1 DEF Block, State
<1>4. cb' = [cb EXCEPT ![c] = b] OBVIOUS
<1> HIDE DEF b
<1>5. cb' \in [Cb -> Block] BY <1>3, <1>4
<1>6. cb'[c] = b /\ \A d \in Cb : d # c => cb'[d] = cb[d] BY <1>4
<1>7. QED BY <1>3, <1>5, <1>6, Zenon

LEMMA KeptAs ==
    ASSUME cb \in [Cb -> Block], NEW c \in Cb, NEW s \in State, Kept(c, s)
    PROVE  /\ cb' \in [Cb -> Block] /\ cb'[c].rgn = cb[c].rgn /\ cb'[c].state = s
           /\ cb'[c].call = cb[c].call /\ \A d \in Cb : d # c => cb'[d] = cb[d]
<1>1. cb[c] \in Block OBVIOUS
<1>2. DEFINE b == [cb[c] EXCEPT !.state = s]
<1>3. b \in Block /\ b.rgn = cb[c].rgn /\ b.state = s /\ b.call = cb[c].call
  BY <1>1 DEF Block, State
<1>4. cb' = [cb EXCEPT ![c] = b] BY DEF Kept
<1> HIDE DEF b
<1>5. QED BY <1>3, <1>4

\* Something is put on the queue of a region.
LEMMA Enqueued ==
    ASSUME queue \in [Region -> Seq(Cb)], \A s \in Region : Distinct(queue[s]),
           NEW r \in Region, NEW c \in Cb, c \notin Range(queue[r]),
           queue' = [queue EXCEPT ![r] = Append(@, c)]
    PROVE  /\ queue' \in [Region -> Seq(Cb)] /\ \A s \in Region : Distinct(queue'[s])
           /\ Range(queue'[r]) = Range(queue[r]) \cup {c} /\ queue'[r] # <<>>
           /\ \A s \in Region : s # r => queue'[s] = queue[s]
<1>1. queue[r] \in Seq(Cb) OBVIOUS
<1>2. /\ Append(queue[r], c) \in Seq(Cb) /\ Append(queue[r], c) # <<>>
      /\ Range(Append(queue[r], c)) = Range(queue[r]) \cup {c}
      /\ Distinct(Append(queue[r], c))
  <2>1. Distinct(queue[r]) OBVIOUS
  <2>2. QED BY <1>1, <2>1, AppendedQueue
<1>3. QED BY <1>2

\* The head of a queue runs.
LEMMA RunsHead ==
    ASSUME BlocksOK, NEW r \in Region, queue[r] # <<>>, _udi_run_next_on_region_queue(r),
           UNCHANGED <<life, list, daemon>>, due' \in Region \cup {Nothing}
    PROVE  /\ BlocksOK' /\ \A s \in Region : s # r => queue'[s] = queue[s]
           /\ \A d \in Cb : d # Head(queue[r]) => cb'[d] = cb[d]
           /\ life[r] = "up"
<1>0. PICK c : c = Head(queue[r]) OBVIOUS
<1>1. /\ c \in Range(queue[r]) /\ c \in Cb
      /\ Tail(queue[r]) \in Seq(Cb) /\ Distinct(Tail(queue[r]))
      /\ Range(Tail(queue[r])) = Range(queue[r]) \ {c}
  <2>1. queue[r] \in Seq(Cb) /\ Distinct(queue[r]) BY DEF BlocksOK, BlockType
  <2>2. QED BY <1>0, <2>1, TailOfQueue, Zenon
<1>2. /\ queue' \in [Region -> Seq(Cb)] /\ \A s \in Region : Distinct(queue'[s])
      /\ Range(queue'[r]) = Range(queue[r]) \ {c}
      /\ \A s \in Region : s # r => queue'[s] = queue[s]
  BY <1>0, <1>1 DEF _udi_run_next_on_region_queue, BlocksOK, BlockType
<1>3. /\ cb' \in [Cb -> Block] /\ cb'[c].rgn = cb[c].rgn /\ cb'[c].state = "idle"
      /\ cb'[c].call = FALSE /\ \A d \in Cb : d # c => cb'[d] = cb[d]
  <2>1. cb' = [cb EXCEPT ![c].state = "idle", ![c].call = FALSE]
    BY <1>0 DEF _udi_run_next_on_region_queue, Taken
  <2>2. "idle" \in State /\ FALSE \in BOOLEAN BY DEF State
  <2>3. cb \in [Cb -> Block] BY DEF BlocksOK, BlockType
  <2>4. QED BY <1>1, <2>1, <2>2, <2>3, Marked, Zenon
<1>4. BlockOK(c) BY <1>1 DEF BlocksOK
<1>5. cb[c].rgn = r /\ life[r] = "up" /\ cb[c].state \in Done \cup {"idle"}
  <2>1. cb[c].call \/ ~cb[c].call OBVIOUS
  <2>2. QED BY <1>1, <1>4, <2>1 DEF BlockOK
<1>6. BlockOK(c)'
  <2>1. c \notin Range(queue'[r]) BY <1>2
  <2>2. \A s \in Region : c \notin Range(queue'[s])
    BY <1>2, <1>4, <1>5, <2>1 DEF BlockOK
  <2>3. c \notin Range(list) /\ daemon # c BY <1>4, <1>5 DEF BlockOK, Done
  <2>4. QED BY <1>3, <1>5, <2>2, <2>3 DEF BlockOK, Done, UnderWay
<1>7. ASSUME NEW d \in Cb, d # c PROVE BlockOK(d)'
  BY <1>2, <1>3, <1>7, Untouched DEF BlocksOK
<1>8. BlockType' BY <1>2, <1>3 DEF BlocksOK, BlockType
<1>9. BlocksOK' BY <1>2, <1>6, <1>7, <1>8 DEF BlocksOK
<1>10. QED BY <1>0, <1>2, <1>3, <1>5, <1>9

\* A control block that was nowhere is put on the queue of its region.
LEMMA Queues ==
    ASSUME BlocksOK, NEW c \in Cb, NEW r \in Region, life[r] = "up",
           \A s \in Region : c \notin Range(queue[s]), c \notin Range(list'),
           queue' = [queue EXCEPT ![r] = Append(@, c)],
           cb' \in [Cb -> Block], cb'[c].rgn = r, daemon' # c,
           \/ cb'[c].state \in Done /\ cb'[c].call
           \/ cb'[c].state = "idle" /\ ~cb'[c].call,
           \A d \in Cb : d # c => cb'[d] = cb[d],
           \A d \in Cb : d # c => (d \in Range(list') <=> d \in Range(list)),
           \A d \in Cb : d # c => (daemon' = d <=> daemon = d),
           list' \in Seq(Cb), Distinct(list'), UNCHANGED life,
           daemon' \in Cb \cup {"clear", "work", "wait"}, due' \in Region \cup {Nothing}
    PROVE  /\ BlocksOK' /\ \A s \in Region : s # r => queue'[s] = queue[s]
           /\ Range(queue'[r]) = Range(queue[r]) \cup {c}
<1>1. /\ queue' \in [Region -> Seq(Cb)] /\ \A s \in Region : Distinct(queue'[s])
      /\ Range(queue'[r]) = Range(queue[r]) \cup {c}
      /\ \A s \in Region : s # r => queue'[s] = queue[s]
  BY Enqueued DEF BlocksOK, BlockType
<1>3. \A s \in Region : c \in Range(queue'[s]) <=> s = r BY <1>1
<1>4. BlockOK(c)'
  BY <1>3 DEF BlockOK, Done, UnderWay
<1>5. ASSUME NEW d \in Cb, d # c PROVE BlockOK(d)'
  BY <1>1, <1>5, Untouched DEF BlocksOK
<1>6. BlockType' BY <1>1 DEF BlocksOK, BlockType
<1>7. QED BY <1>1, <1>4, <1>5, <1>6 DEF BlocksOK

\* One control block changes places.
LEMMA OneMoved ==
    ASSUME BlocksOK, NEW c \in Cb, BlockType', BlockOK(c)',
           \A s \in Region : Distinct(queue'[s]), Distinct(list'),
           \A d \in Cb : d # c => cb'[d] = cb[d],
           \A d \in Cb : d # c =>
              \A s \in Region : d \in Range(queue'[s]) <=> d \in Range(queue[s]),
           \A d \in Cb : d # c => (d \in Range(list') <=> d \in Range(list)),
           \A d \in Cb : d # c => (daemon' = d <=> daemon = d),
           \A s \in Region : life'[s] = "up" <=> life[s] = "up"
    PROVE  BlocksOK'
<1>1. ASSUME NEW d \in Cb, d # c PROVE BlockOK(d)'
  BY <1>1, Untouched DEF BlocksOK
<1>2. QED BY <1>1 DEF BlocksOK

\* A control block changes that is on no queue, and stays on none.
LEMMA OneChanged ==
    ASSUME BlocksOK, NEW c \in Cb, \A s \in Region : c \notin Range(queue[s]),
           cb' \in [Cb -> Block], \A d \in Cb : d # c => cb'[d] = cb[d],
           list' \in Seq(Cb), Distinct(list'),
           \A d \in Cb : d # c => (d \in Range(list') <=> d \in Range(list)),
           daemon' \in Cb \cup {"clear", "work", "wait"},
           \A d \in Cb : d # c => (daemon' = d <=> daemon = d),
           cb'[c].state \notin Done,
           cb'[c].state \in UnderWay => cb'[c].rgn \in Region /\ cb'[c].call
                                        /\ life[cb'[c].rgn] = "up",
           cb'[c].state = "idle" => ~cb'[c].call,
           cb'[c].rgn \in Region => cb'[c].state = "freed" \/ life[cb'[c].rgn] = "up",
           cb'[c].state = "pending" <=> c \in Range(list'),
           daemon' = c <=> cb'[c].state = "busy",
           UNCHANGED <<queue, life, due>>
    PROVE  BlocksOK'
<1>1. BlockType' BY DEF BlocksOK, BlockType
<1>2. BlockOK(c)' BY DEF BlockOK
<1>3. \A s \in Region : Distinct(queue'[s]) BY DEF BlocksOK
<1>4. QED BY <1>1, <1>2, <1>3, OneMoved

LEMMA StillAlone ==
    ASSUME NothingWaitsAlone, UNCHANGED due,
           \A r \in Region \ Interrupt :
              \/ active'[r] \/ life'[r] # "up" \/ queue'[r] = <<>>
              \/ /\ queue'[r] = queue[r] /\ active'[r] = active[r] /\ life[r] = "up"
                 /\ \A d \in Range(queue[r]) : cb'[d].state = cb[d].state
    PROVE  NothingWaitsAlone'
<1>1. ASSUME NEW r \in Region \ Interrupt, life'[r] = "up", ~active'[r], queue'[r] # <<>>
      PROVE  due = r /\ \A d \in Range(queue'[r]) : cb'[d].state = "timer_done"
  <2>1. /\ queue'[r] = queue[r] /\ ~active[r] /\ life[r] = "up"
        /\ \A d \in Range(queue[r]) : cb'[d].state = cb[d].state
    BY <1>1
  <2>2. QED BY <1>1, <2>1 DEF NothingWaitsAlone
<1>2. QED BY <1>1 DEF NothingWaitsAlone

\* What is idle is on no queue and no list, and nobody has it.
LEMMA IdleIsNowhere ==
    ASSUME BlocksOK, NEW c \in Cb, Idle(c)
    PROVE  /\ \A s \in Region : c \notin Range(queue[s])
           /\ c \notin Range(list) /\ daemon # c
           /\ cb[c] \in Block /\ cb[c].state = "idle" /\ cb[c].call = FALSE
           /\ cb[c].rgn \in Region => life[cb[c].rgn] = "up"
<1>1. \A s \in Region : c \notin Range(queue[s]) /\ cb[c].state = "idle" BY DEF Idle, Queued
<1>2. BlockOK(c) /\ cb[c] \in Block BY DEF BlocksOK, BlockType
<1>3. c \notin Range(list) /\ daemon # c /\ ~cb[c].call
      /\ (cb[c].rgn \in Region => life[cb[c].rgn] = "up")
  BY <1>2 DEF BlockOK, Idle
<1>4. cb[c].call = FALSE BY <1>2, <1>3 DEF Block
<1>5. QED BY <1>1, <1>2, <1>3, <1>4 DEF Idle

\* What is queued waits for the region that is in the control block.
LEMMA QueuedIsWaiting ==
    ASSUME BlocksOK, NEW r \in Region, NEW d \in Range(queue[r])
    PROVE  /\ d \in Cb /\ cb[d].rgn = r /\ life[r] = "up" /\ cb[d].state \in Done \cup {"idle"}
<1>1. d \in Cb
  <2>1. queue[r] \in Seq(Cb) BY DEF BlocksOK, BlockType
  <2>2. Range(queue[r]) \subseteq Cb BY <2>1, EmptyQueue
  <2>3. QED BY <2>2
<1>2. BlockOK(d) BY <1>1 DEF BlocksOK
<1>3. cb[d].call \/ ~cb[d].call OBVIOUS
<1>4. QED BY <1>1, <1>2, <1>3 DEF BlockOK

IInv == StackOK /\ BlocksOK /\ NothingWaitsAlone
-----------------------------------------------------------------------------
(* Channel operations.                                                         *)
LEMMA OperationKeeps ==
    ASSUME ConstantsMakeSense, IInv, NEW t \in Actor, udi_mei_call(t) PROVE IInv'
<1>1. PICK c \in Cb, to \in Region \cup {Env} :
         /\ Idle(c) /\ Deliver(t, c, to, cb[c].rgn)
         /\ UNCHANGED <<depth, life, list, event, daemon, due, refused, wild>>
  BY DEF udi_mei_call
<1>2. StackOK /\ BlocksOK /\ NothingWaitsAlone BY DEF IInv
<1>3. /\ \A s \in Region : c \notin Range(queue[s])
      /\ c \notin Range(list) /\ daemon # c
      /\ cb[c] \in Block /\ cb[c].state = "idle" /\ cb[c].call = FALSE
      /\ cb[c].rgn \in Region => life[cb[c].rgn] = "up"
  BY <1>1, <1>2, IdleIsNowhere
<1>4. BlockType /\ \A s \in Region : Distinct(queue[s]) BY <1>2 DEF BlocksOK
<1> DEFINE moved == [cb EXCEPT ![c].rgn = to, ![c].from = cb[c].rgn]
<1>5. /\ moved \in [Cb -> Block] /\ moved[c].rgn = to
      /\ moved[c].state = "idle" /\ moved[c].call = FALSE
      /\ \A d \in Cb : d # c => moved[d] = cb[d]
  <2>1. DEFINE b == [cb[c] EXCEPT !.rgn = to, !.from = cb[c].rgn]
  <2>2. b \in Block /\ b.rgn = to /\ b.state = "idle" /\ b.call = FALSE
    BY <1>3 DEF Block
  <2>3. moved = [cb EXCEPT ![c] = b] BY <1>4 DEF BlockType
  <2> HIDE DEF b, moved
  <2>4. QED BY <1>4, <2>2, <2>3 DEF BlockType
<1> HIDE DEF moved
<1>6. CASE to = Env /\ cb' = moved /\ UNCHANGED <<queue, active, stack>>
  <2>1. StackOK' BY <1>1, <1>2, <1>6, SameStacks
  <2>2. BlocksOK'
    <3>1. to \notin Region BY <1>6 DEF ConstantsMakeSense
    <3>2. list \in Seq(Cb) /\ Distinct(list) /\ daemon \in Cb \cup {"clear", "work", "wait"}
      BY <1>2 DEF BlocksOK, BlockType
    <3>3. cb'[c].state = "idle" /\ cb'[c].rgn \notin Region /\ ~cb'[c].call
      BY <1>5, <1>6, <3>1
    <3>4. QED BY <1>1, <1>2, <1>3, <1>5, <1>6, <3>2, <3>3, OneChanged DEF Done, UnderWay
  <2>3. NothingWaitsAlone'
    <3>1. \A r \in Region : \A d \in Range(queue[r]) : cb'[d].state = cb[d].state
      BY <1>2, <1>3, <1>5, <1>6, QueuedIsWaiting
    <3>2. QED BY <1>1, <1>2, <1>6, <3>1, StillAlone
  <2>4. QED BY <2>1, <2>2, <2>3 DEF IInv
<1>7. CASE /\ to \in Region /\ life[to] # "up"
           /\ cb' = [cb EXCEPT ![c].state = "freed"] /\ UNCHANGED <<queue, active, stack>>
  <2>0. /\ cb' \in [Cb -> Block] /\ cb'[c].rgn = cb[c].rgn /\ cb'[c].state = "freed"
        /\ \A d \in Cb : d # c => cb'[d] = cb[d]
    <3>1. Kept(c, "freed") /\ "freed" \in State BY <1>7 DEF Kept, State
    <3>2. cb \in [Cb -> Block] BY <1>4 DEF BlockType
    <3>3. QED BY <3>1, <3>2, KeptAs, Zenon
  <2>1. StackOK' BY <1>1, <1>2, <1>7, SameStacks
  <2>2. BlocksOK'
    <3>2. list \in Seq(Cb) /\ Distinct(list) /\ daemon \in Cb \cup {"clear", "work", "wait"}
      BY <1>2 DEF BlocksOK, BlockType
    <3>4. QED BY <1>1, <1>2, <1>3, <1>7, <2>0, <3>2, OneChanged DEF Done, UnderWay
  <2>3. NothingWaitsAlone'
    <3>1. \A r \in Region : \A d \in Range(queue[r]) : cb'[d].state = cb[d].state
      BY <1>2, <1>3, <2>0, QueuedIsWaiting
    <3>2. QED BY <1>1, <1>2, <1>7, <3>1, StillAlone
  <2>4. QED BY <2>1, <2>2, <2>3 DEF IInv
<1>8. CASE /\ to \in Region /\ life[to] = "up" /\ active[to] /\ cb' = moved
           /\ queue' = [queue EXCEPT ![to] = Append(@, c)] /\ UNCHANGED <<active, stack>>
  <2>1. StackOK' BY <1>1, <1>2, <1>8, SameStacks
  <2>2. BlocksOK' /\ \A s \in Region : s # to => queue'[s] = queue[s]
    <3>1. /\ list' \in Seq(Cb) /\ Distinct(list')
          /\ daemon' \in Cb \cup {"clear", "work", "wait"} /\ due' \in Region \cup {Nothing}
      BY <1>1, <1>2 DEF BlocksOK, BlockType
    <3>2. /\ cb' \in [Cb -> Block] /\ cb'[c].rgn = to /\ cb'[c].state = "idle" /\ ~cb'[c].call
          /\ \A d \in Cb : d # c => cb'[d] = cb[d]
      BY <1>5, <1>8
    <3>3. /\ \A d \in Cb : d # c => (d \in Range(list') <=> d \in Range(list))
          /\ \A d \in Cb : d # c => (daemon' = d <=> daemon = d)
          /\ c \notin Range(list') /\ daemon' # c /\ UNCHANGED life
      BY <1>1, <1>3
    <3>4. /\ to \in Region /\ life[to] = "up" /\ queue' = [queue EXCEPT ![to] = Append(@, c)]
          /\ BlocksOK /\ \A s \in Region : c \notin Range(queue[s])
      BY <1>2, <1>3, <1>8
    <3>5. QED BY <3>1, <3>2, <3>3, <3>4, Queues
  <2>3. NothingWaitsAlone'
    <3>1. \A r \in Region : \A d \in Range(queue[r]) : cb'[d].state = cb[d].state
      BY <1>2, <1>3, <1>5, <1>8, QueuedIsWaiting
    <3>2. ASSUME NEW r \in Region \ Interrupt
          PROVE  \/ active'[r] \/ life'[r] # "up"
                 \/ queue'[r] = queue[r] /\ active'[r] = active[r] /\ life[r] = "up"
      BY <1>1, <1>8, <2>2
    <3>3. QED BY <1>1, <1>2, <3>1, <3>2, StillAlone
  <2>4. QED BY <2>1, <2>2, <2>3 DEF IInv
<1>9. CASE /\ to \in Region /\ life[to] = "up" /\ ~active[to] /\ cb' = moved
           /\ active' = [active EXCEPT ![to] = TRUE]
           /\ Push(t, [rgn |-> to, by |-> "mei"]) /\ UNCHANGED queue
  <2>1. StackOK' BY <1>1, <1>2, <1>9, TakeKeeps
  <2>2. BlocksOK'
    <3>2. list \in Seq(Cb) /\ Distinct(list) /\ daemon \in Cb \cup {"clear", "work", "wait"}
      BY <1>2 DEF BlocksOK, BlockType
    <3>3. cb'[c].state = "idle" /\ cb'[c].rgn = to /\ ~cb'[c].call
      BY <1>5, <1>9
    <3>4. QED BY <1>1, <1>2, <1>3, <1>5, <1>9, <3>2, <3>3, OneChanged DEF Done, UnderWay
  <2>3. NothingWaitsAlone'
    <3>1. \A r \in Region : \A d \in Range(queue[r]) : cb'[d].state = cb[d].state
      BY <1>2, <1>3, <1>5, <1>9, QueuedIsWaiting
    <3>2. \A r \in Region : active'[r] \/ active'[r] = active[r]
      BY <1>2, <1>9 DEF StackOK, StackType
    <3>3. ASSUME NEW r \in Region \ Interrupt
          PROVE  \/ active'[r] \/ life'[r] # "up"
                 \/ queue'[r] = queue[r] /\ active'[r] = active[r] /\ life[r] = "up"
      BY <1>1, <1>9, <3>2
    <3>4. QED BY <1>1, <1>2, <3>1, <3>3, StillAlone
  <2>4. QED BY <2>1, <2>2, <2>3 DEF IInv
<1>10. QED
  <2>1. to = Env \/ to \in Region OBVIOUS
  <2>2. to = Env => to \notin Region BY DEF ConstantsMakeSense
  <2>3. to = Env => /\ cb' = moved /\ UNCHANGED <<queue, active, stack>>
    BY <1>1 DEF Deliver, moved
  <2>4. to # Env /\ life[to] # "up" =>
           cb' = [cb EXCEPT ![c].state = "freed"] /\ UNCHANGED <<queue, active, stack>>
    BY <1>1 DEF Deliver
  <2>5. to # Env /\ life[to] = "up" /\ active[to] =>
           /\ cb' = moved /\ queue' = [queue EXCEPT ![to] = Append(@, c)]
           /\ UNCHANGED <<active, stack>>
    BY <1>1 DEF Deliver, Defers, moved
  <2>6. to # Env /\ life[to] = "up" /\ ~active[to] =>
           /\ cb' = moved /\ active' = [active EXCEPT ![to] = TRUE]
           /\ Push(t, [rgn |-> to, by |-> "mei"]) /\ UNCHANGED queue
    BY <1>1 DEF Deliver, Defers, moved
  <2>7. QED BY <1>6, <1>7, <1>8, <1>9, <2>1, <2>2, <2>3, <2>4, <2>5, <2>6
-----------------------------------------------------------------------------
(* The queue of a region.                                                      *)
\* The next element runs in a region that somebody keeps.
LEMMA NextKeeps ==
    ASSUME IInv, NEW r \in Region, active[r], queue[r] # <<>>,
           _udi_run_next_on_region_queue(r),
           UNCHANGED <<active, depth, life, stack, list, daemon, due>>
    PROVE  IInv'
<1>1. StackOK /\ BlocksOK /\ NothingWaitsAlone BY DEF IInv
<1>2. due' \in Region \cup {Nothing} BY <1>1 DEF BlocksOK, BlockType
<1>3. /\ BlocksOK' /\ \A s \in Region : s # r => queue'[s] = queue[s]
      /\ \A d \in Cb : d # Head(queue[r]) => cb'[d] = cb[d]
  BY <1>1, <1>2, RunsHead
<1>4. StackOK' BY <1>1, SameStacks
<1>5. Head(queue[r]) \in Range(queue[r])
  <2>1. queue[r] \in Seq(Cb) /\ Distinct(queue[r]) BY <1>1 DEF BlocksOK, BlockType
  <2>2. QED BY <2>1, TailOfQueue, Zenon
<1>6. ASSUME NEW s \in Region \ Interrupt
      PROVE  \/ active'[s] \/ life'[s] # "up"
             \/ /\ queue'[s] = queue[s] /\ active'[s] = active[s] /\ life[s] = "up"
                /\ \A d \in Range(queue[s]) : cb'[d].state = cb[d].state
  <2>1. CASE s = r BY <2>1
  <2>2. CASE s # r
    <3>1. cb[Head(queue[r])].rgn = r BY <1>1, <1>5, QueuedIsWaiting
    <3>2. \A d \in Range(queue[s]) : d \in Cb /\ cb[d].rgn = s BY <1>1, QueuedIsWaiting
    <3>3. \A d \in Range(queue[s]) : cb'[d] = cb[d] BY <1>3, <2>2, <3>1, <3>2
    <3>4. QED BY <1>3, <2>2, <3>3
  <2>3. QED BY <2>1, <2>2
<1>7. NothingWaitsAlone' BY <1>1, <1>6, StillAlone
<1>8. QED BY <1>3, <1>4, <1>7 DEF IInv

\* Somebody who has put an element on the queue of a region runs it if nobody is there.
LEMMA EnterKeeps ==
    ASSUME ConstantsMakeSense, IInv, NEW t \in Actor, NEW r \in Region,
           NEW by \in {"mei", "daemon"}, ~active[r], queue[r] # <<>>,
           active' = [active EXCEPT ![r] = TRUE],
           _udi_run_next_on_region_queue(r), Push(t, [rgn |-> r, by |-> by]),
           due' = Nothing, due = r \/ due = Nothing,
           UNCHANGED <<depth, life, list, daemon>>
    PROVE  IInv'
<1>1. StackOK /\ BlocksOK /\ NothingWaitsAlone BY DEF IInv
<1>3. /\ BlocksOK' /\ \A s \in Region : s # r => queue'[s] = queue[s] /\ life[r] = "up"
      /\ \A d \in Cb : d # Head(queue[r]) => cb'[d] = cb[d]
  BY <1>1, RunsHead
<1>4. StackOK' 
  <2>1. life[r] = "up" BY <1>1, RunsHead
  <2>2. QED BY <1>1, <2>1, TakeKeeps
<1>5. ASSUME NEW s \in Region \ Interrupt, life'[s] = "up", ~active'[s], queue'[s] # <<>>
      PROVE  FALSE
  <2>1. s # r BY <1>1, <1>5 DEF StackOK, StackType
  <2>2. queue[s] # <<>> /\ ~active[s] /\ life[s] = "up" BY <1>1, <1>3, <1>5, <2>1 DEF StackOK, StackType
  <2>3. due = s BY <1>1, <2>2 DEF NothingWaitsAlone
  <2>4. QED BY <2>1, <2>3 DEF ConstantsMakeSense
<1>6. NothingWaitsAlone' BY <1>5 DEF NothingWaitsAlone
<1>7. QED BY <1>3, <1>4, <1>6 DEF IInv

LEMMA ReturnKeeps ==
    ASSUME ConstantsMakeSense, IInv, NEW t \in Actor, Return(t) PROVE IInv'
<1>1. StackOK /\ BlocksOK /\ NothingWaitsAlone BY DEF IInv
<1>2. stack[t] # <<>> /\ UNCHANGED <<list, event, daemon, due, refused, wild, calls>>
  BY DEF Return
<1>3. PICK f : f = Last(stack[t]) OBVIOUS
<1>4. PICK r : r = f.rgn OBVIOUS
<1>5. In(t, r) /\ Last(stack[t]).rgn = r BY <1>2, <1>3, <1>4 DEF In
<1>6. r \in Region /\ active[r] BY <1>1, <1>5, InIsActive
<1>7. due' \in Region \cup {Nothing} BY <1>1, <1>2 DEF BlocksOK, BlockType
<1>8. CASE f.by = "callback"
  <2>1. /\ depth' = [depth EXCEPT ![r] = @ - 1] /\ stack' = [stack EXCEPT ![t] = Front(@)]
        /\ UNCHANGED <<queue, active, life, cb>>
    BY <1>3, <1>4, <1>8 DEF Return
  <2>2. Last(stack[t]).by = "callback" /\ StackOK BY <1>1, <1>3, <1>8
  <2>3. StackOK' BY <1>2, <1>5, <2>1, <2>2, UnnestKeeps
  <2>4. BlocksOK' BY <1>1, <1>2, <1>7, <2>1, SameBlocks
  <2>5. NothingWaitsAlone' BY <1>1, <1>2, <2>1 DEF NothingWaitsAlone
  <2>6. QED BY <2>3, <2>4, <2>5 DEF IInv
<1>9. CASE f.by # "callback" /\ Runs(r)
  <2>1. _udi_run_next_on_region_queue(r) /\ UNCHANGED <<active, depth, life, stack>>
    BY <1>3, <1>4, <1>9 DEF Return
  <2>2. queue[r] # <<>> BY <1>9 DEF Runs
  <2>3. QED BY <1>2, <1>6, <2>1, <2>2, NextKeeps
<1>10. CASE f.by # "callback" /\ ~Runs(r)
  <2>1. PICK end \in {"gone", "leaked"} : end = IF f.by = "mei" THEN "gone" ELSE "leaked"
    OBVIOUS
  <2>2. /\ active' = [active EXCEPT ![r] = FALSE]
        /\ life' = [life EXCEPT ![r] = IF @ # "dying" THEN @ ELSE end]
        /\ stack' = [stack EXCEPT ![t] = Front(@)]
        /\ UNCHANGED <<queue, depth, cb>>
    BY <1>3, <1>4, <1>10, <2>1 DEF Return
  <2>3. Last(stack[t]).by # "callback" /\ StackOK BY <1>1, <1>3, <1>10
  <2>4. StackOK' BY <1>2, <1>5, <2>2, <2>3, LeaveKeeps
  <2>5. \A s \in Region : life'[s] = "up" <=> life[s] = "up"
    BY <1>1, <2>2 DEF StackOK, StackType
  <2>6. BlocksOK' BY <1>1, <1>2, <1>7, <2>2, <2>5, SameBlocks
  <2>7. NothingWaitsAlone'
    <3>1. ASSUME NEW s \in Region \ Interrupt
          PROVE  \/ active'[s] \/ life'[s] # "up" \/ queue'[s] = <<>>
                 \/ queue'[s] = queue[s] /\ active'[s] = active[s] /\ life[s] = "up"
      <4>1. CASE s = r BY <1>10, <2>2, <4>1 DEF Runs
      <4>2. CASE s # r BY <1>1, <2>2, <2>5, <4>2 DEF StackOK, StackType
      <4>3. QED BY <4>1, <4>2
    <3>2. QED BY <1>1, <1>2, <2>2, <3>1, StillAlone
  <2>8. QED BY <2>4, <2>6, <2>7 DEF IInv
<1>11. QED BY <1>8, <1>9, <1>10
-----------------------------------------------------------------------------
(* Asynchronous services.                                                      *)
LEMMA DriverIsIn ==
    ASSUME IInv, NEW t \in Actor, NEW c \in Cb, DriverCalls(t, c)
    PROVE  /\ In(t, cb[c].rgn) /\ cb[c].rgn \in Region
           /\ life[cb[c].rgn] = "up" /\ active[cb[c].rgn]
BY InIsActive DEF DriverCalls, IInv

\* What is done in a region that is kept concerns nobody's waiting.
LEMMA InsideWaits ==
    ASSUME IInv, NEW r \in Region, active[r], UNCHANGED <<active, life, due>>,
           \A s \in Region : s # r => queue'[s] = queue[s],
           \A s \in Region : s # r => \A d \in Range(queue[s]) : cb'[d].state = cb[d].state
    PROVE  NothingWaitsAlone'
<1>1. NothingWaitsAlone BY DEF IInv
<1>2. ASSUME NEW s \in Region \ Interrupt
      PROVE  \/ active'[s] \/ life'[s] # "up" \/ queue'[s] = <<>>
             \/ /\ queue'[s] = queue[s] /\ active'[s] = active[s] /\ life[s] = "up"
                /\ \A d \in Range(queue[s]) : cb'[d].state = cb[d].state
  <2>1. CASE s = r BY <2>1
  <2>2. CASE s # r BY <2>2
  <2>3. QED BY <2>1, <2>2
<1>3. QED BY <1>1, <1>2, StillAlone

\* A control block of another region is on no queue of this one.
LEMMA OthersStay ==
    ASSUME BlocksOK, NEW c \in Cb, \A d \in Cb : d # c => cb'[d] = cb[d]
    PROVE  \A s \in Region : s # cb[c].rgn =>
              \A d \in Range(queue[s]) : cb'[d].state = cb[d].state
BY QueuedIsWaiting

LEMMA ServedKeeps ==
    ASSUME ConstantsMakeSense, IInv, NEW t \in Actor, Served(t) PROVE IInv'
<1>1. PICK c \in Cb : /\ DriverCalls(t, c) /\ Idle(c) /\ ImmediateCallback(t, c)
                      /\ UNCHANGED <<active, life, list, event, daemon, due, refused, wild>>
  BY DEF Served
<1>2. StackOK /\ BlocksOK BY DEF IInv
<1>3. PICK r : r = cb[c].rgn OBVIOUS
<1>4. In(t, r) /\ r \in Region /\ life[r] = "up" /\ active[r] BY <1>1, <1>3, DriverIsIn
<1>5. /\ \A s \in Region : c \notin Range(queue[s])
      /\ c \notin Range(list) /\ daemon # c /\ cb[c].state = "idle" /\ cb[c].call = FALSE
  BY <1>1, <1>2, IdleIsNowhere
<1>6. cb \in [Cb -> Block] BY <1>2 DEF BlocksOK, BlockType
<1>7. CASE depth[r] < CallbackLimit
  <2>1. /\ depth' = [depth EXCEPT ![r] = @ + 1]
        /\ Push(t, [rgn |-> r, by |-> "callback"]) /\ Kept(c, "idle") /\ UNCHANGED queue
    BY <1>1, <1>3, <1>7 DEF ImmediateCallback
  <2>2. StackOK' BY <1>1, <1>2, <1>4, <1>7, <2>1, NestKeeps
  <2>3. cb' = cb
    <3>1. [cb[c] EXCEPT !.state = "idle"] = cb[c] BY <1>5, <1>6 DEF Block
    <3>2. cb' = [cb EXCEPT ![c] = cb[c]] BY <2>1, <3>1 DEF Kept
    <3>3. QED BY <1>6, <3>2
  <2>4. due' \in Region \cup {Nothing} BY <1>1, <1>2 DEF BlocksOK, BlockType
  <2>5. BlocksOK' BY <1>1, <1>2, <2>1, <2>3, <2>4, SameBlocks
  <2>6. NothingWaitsAlone' BY <1>1, <1>4, <2>1, <2>3, InsideWaits
  <2>7. QED BY <2>2, <2>5, <2>6 DEF IInv
<1>8. CASE ~(depth[r] < CallbackLimit)
  <2>1. /\ cb' = [cb EXCEPT ![c].state = "immed_done", ![c].call = TRUE]
        /\ queue' = [queue EXCEPT ![r] = Append(@, c)] /\ UNCHANGED <<depth, stack>>
    BY <1>1, <1>3, <1>8 DEF ImmediateCallback
  <2>2. /\ cb' \in [Cb -> Block] /\ cb'[c].rgn = r /\ cb'[c].state = "immed_done"
        /\ cb'[c].call = TRUE /\ \A d \in Cb : d # c => cb'[d] = cb[d]
    <3>1. "immed_done" \in State /\ TRUE \in BOOLEAN BY DEF State, Done
    <3>2. QED BY <1>3, <1>6, <2>1, <3>1, Marked, Zenon
  <2>3. StackOK' BY <1>1, <1>2, <2>1, SameStacks
  <2>4. BlocksOK' /\ \A s \in Region : s # r => queue'[s] = queue[s]
    <3>1. /\ list' \in Seq(Cb) /\ Distinct(list')
          /\ daemon' \in Cb \cup {"clear", "work", "wait"} /\ due' \in Region \cup {Nothing}
      BY <1>1, <1>2 DEF BlocksOK, BlockType
    <3>2. cb'[c].state \in Done /\ cb'[c].call BY <2>2 DEF Done
    <3>3. c \notin Range(list') /\ daemon' # c /\ UNCHANGED <<list, daemon, life>>
      BY <1>1, <1>5
    <3>4. queue' = [queue EXCEPT ![r] = Append(@, c)] BY <2>1
    <3>5. /\ \A d \in Cb : d # c => (d \in Range(list') <=> d \in Range(list))
          /\ \A d \in Cb : d # c => (daemon' = d <=> daemon = d)
      BY <3>3
    <3>6. QED BY <1>2, <1>4, <1>5, <2>2, <3>1, <3>2, <3>3, <3>4, <3>5, Queues
  <2>5. NothingWaitsAlone' BY <1>1, <1>2, <1>3, <1>4, <2>2, <2>4, InsideWaits, OthersStay
  <2>6. QED BY <2>3, <2>4, <2>5 DEF IInv
<1>9. QED BY <1>7, <1>8

LEMMA AskedKeeps ==
    ASSUME IInv, NEW t \in Actor, _udi_alloc_queue(t) PROVE IInv'
<1>1. PICK c \in Cb :
         /\ DriverCalls(t, c) /\ Idle(c)
         /\ cb' = [cb EXCEPT ![c].state = "pending", ![c].call = TRUE]
         /\ list' = Append(list, c)
         /\ UNCHANGED <<queue, active, depth, life, stack, daemon, due, refused, wild>>
  BY DEF _udi_alloc_queue
<1>2. StackOK /\ BlocksOK BY DEF IInv
<1>3. PICK r : r = cb[c].rgn OBVIOUS
<1>4. r \in Region /\ life[r] = "up" /\ active[r] BY <1>1, <1>3, DriverIsIn
<1>5. /\ \A s \in Region : c \notin Range(queue[s])
      /\ c \notin Range(list) /\ daemon # c
  BY <1>1, <1>2, IdleIsNowhere
<1>6. cb \in [Cb -> Block] /\ list \in Seq(Cb) /\ Distinct(list)
      /\ daemon \in Cb \cup {"clear", "work", "wait"}
  BY <1>2 DEF BlocksOK, BlockType
<1>7. /\ cb' \in [Cb -> Block] /\ cb'[c].rgn = r /\ cb'[c].state = "pending"
      /\ cb'[c].call = TRUE /\ \A d \in Cb : d # c => cb'[d] = cb[d]
  <2>1. "pending" \in State /\ TRUE \in BOOLEAN BY DEF State, UnderWay
  <2>2. QED BY <1>1, <1>3, <1>6, <2>1, Marked, Zenon
<1>8. list' \in Seq(Cb) /\ Distinct(list') /\ Range(list') = Range(list) \cup {c}
  BY <1>1, <1>5, <1>6, AppendedQueue
<1>9. StackOK' BY <1>1, <1>2, SameStacks
<1>10. BlocksOK'
  <2>1. /\ daemon' \in Cb \cup {"clear", "work", "wait"} /\ daemon' # c
        /\ \A d \in Cb : d # c => (daemon' = d <=> daemon = d)
        /\ \A d \in Cb : d # c => (d \in Range(list') <=> d \in Range(list))
        /\ c \in Range(list')
    BY <1>1, <1>5, <1>6, <1>8
  <2>2. UNCHANGED <<queue, life, due>> BY <1>1
  <2>3. cb'[c].state \notin Done BY <1>7 DEF Done
  <2>4. QED BY <1>2, <1>4, <1>5, <1>7, <1>8, <2>1, <2>2, <2>3, OneChanged
<1>11. NothingWaitsAlone'
  <2>1. UNCHANGED <<active, life, due>> /\ queue' = queue BY <1>1
  <2>2. \A s \in Region : s # r => \A d \in Range(queue[s]) : cb'[d].state = cb[d].state
    BY <1>2, <1>3, <1>7, OthersStay
  <2>3. QED BY <1>4, <2>1, <2>2, InsideWaits
<1>12. QED BY <1>9, <1>10, <1>11 DEF IInv

LEMMA CancelKeeps ==
    ASSUME ConstantsMakeSense, IInv, NEW t \in Actor, udi_cancel(t) PROVE IInv'
<1>1. PICK c \in Cb :
         /\ DriverCalls(t, c)
         /\ IF cb[c].state = "pending"
            THEN /\ list' = Unlinked(list, c)
                 /\ IF depth[cb[c].rgn] < CallbackLimit
                    THEN /\ depth' = [depth EXCEPT ![cb[c].rgn] = @ + 1]
                         /\ Push(t, [rgn |-> cb[c].rgn, by |-> "callback"])
                         /\ Taken(c)
                         /\ UNCHANGED queue
                    ELSE /\ cb' = [cb EXCEPT ![c].state = "immed_done"]
                         /\ queue' = [queue EXCEPT ![cb[c].rgn] = Append(@, c)]
                         /\ UNCHANGED <<depth, stack>>
            ELSE UNCHANGED <<list, refused, depth, stack, cb, queue>>
         /\ UNCHANGED <<active, life, event, daemon, due>>
  BY DEF udi_cancel
<1>2. StackOK /\ BlocksOK /\ NothingWaitsAlone BY DEF IInv
<1>3. PICK r : r = cb[c].rgn OBVIOUS
<1>4. In(t, r) /\ r \in Region /\ life[r] = "up" /\ active[r] BY <1>1, <1>3, DriverIsIn
<1>5. cb \in [Cb -> Block] /\ list \in Seq(Cb) /\ Distinct(list)
      /\ daemon \in Cb \cup {"clear", "work", "wait"} /\ due \in Region \cup {Nothing}
  BY <1>2 DEF BlocksOK, BlockType
<1>6. CASE cb[c].state # "pending"
  <2>1. UNCHANGED <<list, refused, depth, stack, cb, queue>> BY <1>1, <1>6
  <2>2. StackOK' BY <1>1, <1>2, <2>1, SameStacks
  <2>3. BlocksOK' BY <1>1, <1>2, <1>5, <2>1, SameBlocks
  <2>4. NothingWaitsAlone' BY <1>1, <1>2, <2>1 DEF NothingWaitsAlone
  <2>5. QED BY <2>2, <2>3, <2>4 DEF IInv
<1>7. CASE cb[c].state = "pending"
  <2>1. BlockOK(c) BY <1>2 DEF BlocksOK
  <2>2. /\ \A s \in Region : c \notin Range(queue[s])
        /\ daemon # c /\ cb[c].call
    <3>1. cb[c].call /\ cb[c].state \notin Done /\ cb[c].state # "busy"
      BY <1>7, <2>1 DEF BlockOK, UnderWay, Done
    <3>2. QED BY <2>1, <3>1 DEF BlockOK
  <2>3. /\ list' \in Seq(Cb) /\ Distinct(list') /\ Range(list') = Range(list) \ {c}
    BY <1>1, <1>5, <1>7, UnlinkedQueue
  <2>4. CASE depth[r] < CallbackLimit
    <3>1. /\ depth' = [depth EXCEPT ![r] = @ + 1]
          /\ Push(t, [rgn |-> r, by |-> "callback"]) /\ Taken(c) /\ UNCHANGED queue
      BY <1>1, <1>3, <1>7, <2>4
    <3>2. StackOK' BY <1>1, <1>2, <1>4, <2>4, <3>1, NestKeeps
    <3>3. /\ cb' \in [Cb -> Block] /\ cb'[c].rgn = r /\ cb'[c].state = "idle"
          /\ cb'[c].call = FALSE /\ \A d \in Cb : d # c => cb'[d] = cb[d]
      <4>1. "idle" \in State /\ FALSE \in BOOLEAN BY DEF State
      <4>2. cb' = [cb EXCEPT ![c].state = "idle", ![c].call = FALSE] BY <3>1 DEF Taken
      <4>3. QED BY <1>3, <1>5, <4>1, <4>2, Marked, Zenon
    <3>4. BlocksOK'
      BY <1>1, <1>2, <1>4, <1>5, <2>2, <2>3, <3>1, <3>3, OneChanged DEF Done, UnderWay
    <3>5. NothingWaitsAlone'
      BY <1>1, <1>2, <1>3, <1>4, <3>1, <3>3, InsideWaits, OthersStay
    <3>6. QED BY <3>2, <3>4, <3>5 DEF IInv
  <2>5. CASE ~(depth[r] < CallbackLimit)
    <3>1. /\ Kept(c, "immed_done")
          /\ queue' = [queue EXCEPT ![r] = Append(@, c)] /\ UNCHANGED <<depth, stack>>
      BY <1>1, <1>3, <1>7, <2>5 DEF Kept
    <3>2. /\ cb' \in [Cb -> Block] /\ cb'[c].rgn = r /\ cb'[c].state = "immed_done"
          /\ cb'[c].call = cb[c].call /\ \A d \in Cb : d # c => cb'[d] = cb[d]
      <4>1. "immed_done" \in State BY DEF State, Done
      <4>2. QED BY <1>3, <1>5, <3>1, <4>1, KeptAs, Zenon
    <3>3. StackOK' BY <1>1, <1>2, <3>1, SameStacks
    <3>4. BlocksOK' /\ \A s \in Region : s # r => queue'[s] = queue[s]
      <4>1. /\ daemon' \in Cb \cup {"clear", "work", "wait"} /\ due' \in Region \cup {Nothing}
            /\ c \notin Range(list') /\ daemon' # c /\ UNCHANGED life
        BY <1>1, <1>5, <2>2, <2>3
      <4>2. /\ \A d \in Cb : d # c => (d \in Range(list') <=> d \in Range(list))
            /\ \A d \in Cb : d # c => (daemon' = d <=> daemon = d)
        BY <1>1, <2>3
      <4>3. cb'[c].state \in Done /\ cb'[c].call BY <2>2, <3>2 DEF Done
      <4>4. queue' = [queue EXCEPT ![r] = Append(@, c)] BY <3>1
      <4>5. QED BY <1>2, <1>4, <2>2, <2>3, <3>2, <4>1, <4>2, <4>3, <4>4, Queues
    <3>5. NothingWaitsAlone'
      BY <1>1, <1>2, <1>3, <1>4, <3>2, <3>4, InsideWaits, OthersStay
    <3>6. QED BY <3>3, <3>4, <3>5 DEF IInv
  <2>6. QED BY <2>4, <2>5
<1>8. QED BY <1>6, <1>7
-----------------------------------------------------------------------------
(* The daemon that gets memory.                                                *)
\* What the daemon has is busy, and on no queue.
LEMMA BusyIsNowhere ==
    ASSUME BlocksOK, NEW c \in Cb, daemon = c
    PROVE  /\ \A s \in Region : c \notin Range(queue[s])
           /\ c \notin Range(list) /\ cb[c].state = "busy" /\ cb[c].call
           /\ cb[c].rgn \in Region /\ life[cb[c].rgn] = "up"
<1>1. BlockOK(c) BY DEF BlocksOK
<1>2. cb[c].state = "busy" /\ c \notin Range(list) BY <1>1 DEF BlockOK
<1>3. cb[c].call /\ cb[c].rgn \in Region /\ life[cb[c].rgn] = "up"
  BY <1>1, <1>2 DEF BlockOK, UnderWay
<1>4. QED BY <1>1, <1>2, <1>3 DEF BlockOK, Done

\* The daemon changes a control block that is on no queue.
LEMMA DaemonWaits ==
    ASSUME IInv, NEW c \in Cb, \A s \in Region : c \notin Range(queue[s]),
           \A d \in Cb : d # c => cb'[d] = cb[d],
           UNCHANGED <<queue, active, depth, life, stack, due>>, BlocksOK'
    PROVE  IInv'
<1>1. StackOK /\ BlocksOK /\ NothingWaitsAlone BY DEF IInv
<1>2. StackOK' BY <1>1, SameStacks
<1>3. \A r \in Region : \A d \in Range(queue[r]) : cb'[d].state = cb[d].state
  BY <1>1, QueuedIsWaiting
<1>4. NothingWaitsAlone'
  <2>1. ASSUME NEW r \in Region \ Interrupt
        PROVE  \/ active'[r] \/ life'[r] # "up"
               \/ queue'[r] = queue[r] /\ active'[r] = active[r] /\ life[r] = "up"
    OBVIOUS
  <2>2. QED BY <1>1, <1>3, <2>1, StillAlone
<1>5. QED BY <1>2, <1>4 DEF IInv

LEMMA WorkKeeps ==
    ASSUME ConstantsMakeSense, IInv, _udi_alloc_daemon_work PROVE IInv'
<1>1. PICK c : c = Head(list) OBVIOUS
<1>2. /\ daemon = "work" /\ list # <<>> /\ Kept(c, "busy") /\ daemon' = c /\ list' = Tail(list)
      /\ UNCHANGED <<queue, active, depth, life, stack, due>>
  BY <1>1 DEF _udi_alloc_daemon_work
<1>3. BlocksOK BY DEF IInv
<1>4. cb \in [Cb -> Block] /\ list \in Seq(Cb) /\ Distinct(list) BY <1>3 DEF BlocksOK, BlockType
<1>5. /\ c \in Range(list) /\ c \in Cb /\ list' \in Seq(Cb) /\ Distinct(list')
      /\ Range(list') = Range(list) \ {c}
  BY <1>1, <1>2, <1>4, TailOfQueue, Zenon
<1>6. BlockOK(c) BY <1>3, <1>5 DEF BlocksOK
<1>7. /\ cb[c].state = "pending" /\ cb[c].call /\ cb[c].rgn \in Region
      /\ life[cb[c].rgn] = "up"
  BY <1>5, <1>6 DEF BlockOK, UnderWay
<1>8. \A s \in Region : c \notin Range(queue[s]) BY <1>6, <1>7 DEF BlockOK, Done
<1>9. /\ cb' \in [Cb -> Block] /\ cb'[c].rgn = cb[c].rgn /\ cb'[c].state = "busy"
      /\ cb'[c].call = cb[c].call /\ \A d \in Cb : d # c => cb'[d] = cb[d]
  <2>1. "busy" \in State BY DEF State, UnderWay
  <2>2. QED BY <1>2, <1>4, <1>5, <2>1, KeptAs, Zenon
<1>10. \A d \in Cb : d # c => (daemon' = d <=> daemon = d)
  BY <1>2 DEF ConstantsMakeSense
<1>11. BlocksOK'
  BY <1>2, <1>3, <1>5, <1>7, <1>8, <1>9, <1>10, OneChanged DEF Done
<1>12. QED BY <1>2, <1>5, <1>8, <1>9, <1>11, DaemonWaits

LEMMA RequeueKeeps ==
    ASSUME ConstantsMakeSense, IInv, Requeue PROVE IInv'
<1>1. PICK c \in Cb : c = daemon BY DEF Requeue
<1>2. /\ Kept(c, "pending") /\ list' = Append(list, c) /\ daemon' \in {"wait", "clear"}
      /\ UNCHANGED <<queue, active, depth, life, stack, due>>
  BY <1>1 DEF Requeue
<1>3. BlocksOK BY DEF IInv
<1>4. cb \in [Cb -> Block] /\ list \in Seq(Cb) /\ Distinct(list) BY <1>3 DEF BlocksOK, BlockType
<1>5. /\ \A s \in Region : c \notin Range(queue[s])
      /\ c \notin Range(list) /\ cb[c].call /\ cb[c].rgn \in Region /\ life[cb[c].rgn] = "up"
  BY <1>1, <1>3, BusyIsNowhere
<1>6. list' \in Seq(Cb) /\ Distinct(list') /\ Range(list') = Range(list) \cup {c}
  BY <1>2, <1>4, <1>5, AppendedQueue
<1>7. /\ cb' \in [Cb -> Block] /\ cb'[c].rgn = cb[c].rgn /\ cb'[c].state = "pending"
      /\ cb'[c].call = cb[c].call /\ \A d \in Cb : d # c => cb'[d] = cb[d]
  <2>1. "pending" \in State BY DEF State, UnderWay
  <2>2. QED BY <1>2, <1>4, <2>1, KeptAs, Zenon
<1>8. /\ \A d \in Cb : d # c => (daemon' = d <=> daemon = d)
      /\ daemon' # c /\ daemon' \in Cb \cup {"clear", "work", "wait"}
  BY <1>1, <1>2 DEF ConstantsMakeSense
<1>9. BlocksOK'
  BY <1>2, <1>3, <1>5, <1>6, <1>7, <1>8, OneChanged DEF Done
<1>10. QED BY <1>2, <1>5, <1>7, <1>9, DaemonWaits

LEMMA FailKeeps ==
    ASSUME ConstantsMakeSense, IInv, FailForGood PROVE IInv'
<1>1. PICK c \in Cb : c = daemon BY DEF FailForGood
<1>2. /\ Kept(c, "failed") /\ daemon' = "clear"
      /\ UNCHANGED <<list, queue, active, depth, life, stack, due>>
  BY <1>1 DEF FailForGood
<1>3. BlocksOK BY DEF IInv
<1>4. cb \in [Cb -> Block] /\ list \in Seq(Cb) /\ Distinct(list) BY <1>3 DEF BlocksOK, BlockType
<1>5. /\ \A s \in Region : c \notin Range(queue[s])
      /\ c \notin Range(list) /\ cb[c].call /\ cb[c].rgn \in Region /\ life[cb[c].rgn] = "up"
  BY <1>1, <1>3, BusyIsNowhere
<1>7. /\ cb' \in [Cb -> Block] /\ cb'[c].rgn = cb[c].rgn /\ cb'[c].state = "failed"
      /\ \A d \in Cb : d # c => cb'[d] = cb[d]
  <2>1. "failed" \in State BY DEF State
  <2>2. QED BY <1>2, <1>4, <2>1, KeptAs, Zenon
<1>8. /\ \A d \in Cb : d # c => (daemon' = d <=> daemon = d)
      /\ daemon' # c /\ daemon' \in Cb \cup {"clear", "work", "wait"}
  BY <1>1, <1>2 DEF ConstantsMakeSense
<1>9. BlocksOK'
  BY <1>2, <1>3, <1>4, <1>5, <1>7, <1>8, OneChanged DEF Done, UnderWay
<1>10. QED BY <1>2, <1>5, <1>7, <1>9, DaemonWaits

LEMMA EventKeeps ==
    ASSUME ConstantsMakeSense, IInv, _udi_alloc_daemon PROVE IInv'
<1>1. /\ daemon \in {"clear", "work", "wait"} /\ daemon' \in {"clear", "work", "wait"}
      /\ UNCHANGED <<queue, active, depth, life, cb, list, stack, due>>
  BY DEF _udi_alloc_daemon
<1>2. StackOK /\ BlocksOK /\ NothingWaitsAlone BY DEF IInv
<1>3. \A d \in Cb : daemon' = d <=> daemon = d BY <1>1 DEF ConstantsMakeSense
<1>4. BlocksOK'
  <2>1. \A d \in Cb : BlockOK(d)' BY <1>1, <1>2, <1>3, Untouched DEF BlocksOK
  <2>2. BlockType' BY <1>1, <1>2 DEF BlocksOK, BlockType
  <2>3. QED BY <1>1, <1>2, <2>1, <2>2 DEF BlocksOK
<1>5. StackOK' BY <1>1, <1>2, SameStacks
<1>6. NothingWaitsAlone' BY <1>1, <1>2 DEF NothingWaitsAlone
<1>7. QED BY <1>4, <1>5, <1>6 DEF IInv

LEMMA CompleteKeeps ==
    ASSUME ConstantsMakeSense, IInv, Complete PROVE IInv'
<1>1. PICK d \in Cb : d = daemon BY Zenon DEF Complete
<1>2. PICK r : r = cb[d].rgn OBVIOUS
<1>3. PICK full : full = Append(queue[r], d) OBVIOUS
<1>4. PICK c : c = Head(full) OBVIOUS
<1>5. /\ daemon' = "clear" /\ UNCHANGED <<depth, life, list, due>>
      /\ \/ /\ active[r] \/ r \in Interrupt
            /\ Kept(d, "done") /\ queue' = [queue EXCEPT ![r] = full] /\ UNCHANGED <<active, stack>>
         \/ /\ ~active[r] /\ r \notin Interrupt
            /\ queue' = [queue EXCEPT ![r] = Tail(full)]
            /\ cb' = [[cb EXCEPT ![d].state = "done"] EXCEPT ![c].state = "idle", ![c].call = FALSE]
            /\ active' = [active EXCEPT ![r] = TRUE]
            /\ Push(Daemon, [rgn |-> r, by |-> "daemon"])
  BY <1>1, <1>2, <1>3, <1>4, Zenon DEF Complete
<1>6. StackOK /\ BlocksOK /\ NothingWaitsAlone BY DEF IInv
<1>7. /\ \A s \in Region : d \notin Range(queue[s])
      /\ d \notin Range(list) /\ cb[d].state = "busy" /\ cb[d].call
      /\ r \in Region /\ life[r] = "up"
  BY <1>1, <1>2, <1>6, BusyIsNowhere
<1>8. /\ cb \in [Cb -> Block] /\ queue \in [Region -> Seq(Cb)] /\ list \in Seq(Cb) /\ Distinct(list)
      /\ due \in Region \cup {Nothing} /\ \A s \in Region : Distinct(queue[s])
  BY <1>6 DEF BlocksOK, BlockType
<1>9. \A e \in Cb : daemon' # e /\ (e # d => daemon # e)
  BY <1>1, <1>5 DEF ConstantsMakeSense
<1>10. CASE /\ active[r] \/ r \in Interrupt
            /\ Kept(d, "done") /\ queue' = [queue EXCEPT ![r] = full] /\ UNCHANGED <<active, stack>>
  <2>1. /\ cb' \in [Cb -> Block] /\ cb'[d].rgn = r /\ cb'[d].state = "done"
        /\ cb'[d].call = cb[d].call /\ \A e \in Cb : e # d => cb'[e] = cb[e]
    <3>1. "done" \in State BY DEF State, Done
    <3>2. QED BY <1>2, <1>8, <1>10, <3>1, KeptAs, Zenon
  <2>2. BlocksOK' /\ \A s \in Region : s # r => queue'[s] = queue[s]
    <3>1. /\ list' \in Seq(Cb) /\ Distinct(list') /\ d \notin Range(list') /\ daemon' # d
          /\ daemon' \in Cb \cup {"clear", "work", "wait"} /\ due' \in Region \cup {Nothing}
      BY <1>5, <1>7, <1>8, <1>9
    <3>2. /\ \A e \in Cb : e # d => (e \in Range(list') <=> e \in Range(list))
          /\ \A e \in Cb : e # d => (daemon' = e <=> daemon = e)
      BY <1>5, <1>9
    <3>3. cb'[d].state \in Done /\ cb'[d].call /\ UNCHANGED life BY <1>5, <1>7, <2>1 DEF Done
    <3>4. queue' = [queue EXCEPT ![r] = Append(@, d)] BY <1>3, <1>10
    <3>5. QED BY <1>6, <1>7, <2>1, <3>1, <3>2, <3>3, <3>4, Queues
  <2>3. StackOK' BY <1>5, <1>6, <1>10, SameStacks
  <2>4. NothingWaitsAlone'
    <3>1. \A s \in Region : s # r => \A e \in Range(queue[s]) : cb'[e].state = cb[e].state
      BY <1>2, <1>6, <2>1, OthersStay
    <3>2. CASE active[r] BY <1>5, <1>7, <1>10, <2>2, <3>1, <3>2, InsideWaits
    <3>3. CASE r \in Interrupt
      <4>1. ASSUME NEW s \in Region \ Interrupt
            PROVE  \/ life'[s] # "up"
                   \/ /\ queue'[s] = queue[s] /\ active'[s] = active[s] /\ life[s] = "up"
                      /\ \A e \in Range(queue[s]) : cb'[e].state = cb[e].state
        BY <1>5, <1>10, <2>2, <3>1, <3>3
      <4>2. QED BY <1>5, <1>6, <4>1, StillAlone
    <3>4. QED BY <1>10, <3>2, <3>3
  <2>5. QED BY <2>2, <2>3, <2>4 DEF IInv
<1>11. CASE /\ ~active[r] /\ r \notin Interrupt
            /\ queue' = [queue EXCEPT ![r] = Tail(full)]
            /\ cb' = [[cb EXCEPT ![d].state = "done"] EXCEPT ![c].state = "idle", ![c].call = FALSE]
            /\ active' = [active EXCEPT ![r] = TRUE]
            /\ Push(Daemon, [rgn |-> r, by |-> "daemon"])
  <2>1. /\ full \in Seq(Cb) /\ full # <<>> /\ Distinct(full)
        /\ Range(full) = Range(queue[r]) \cup {d}
    <3>1. queue[r] \in Seq(Cb) /\ Distinct(queue[r]) /\ d \notin Range(queue[r]) BY <1>7, <1>8
    <3>2. QED BY <1>3, <3>1, AppendedQueue
  <2>2. /\ c \in Range(full) /\ c \in Cb /\ Tail(full) \in Seq(Cb) /\ Distinct(Tail(full))
        /\ Range(Tail(full)) = Range(full) \ {c}
    BY <1>4, <2>1, TailOfQueue, Zenon
  <2>3. /\ queue' \in [Region -> Seq(Cb)] /\ \A s \in Region : Distinct(queue'[s])
        /\ Range(queue'[r]) = (Range(queue[r]) \cup {d}) \ {c}
        /\ \A s \in Region : s # r => queue'[s] = queue[s]
    BY <1>7, <1>8, <1>11, <2>1, <2>2
  <2> DEFINE mid == [cb EXCEPT ![d].state = "done"]
             b == [mid[c] EXCEPT !.state = "idle", !.call = FALSE]
  <2>4. /\ mid \in [Cb -> Block] /\ mid[d].rgn = r /\ mid[d].state = "done" /\ mid[d].call
        /\ \A e \in Cb : e # d => mid[e] = cb[e]
    <3>1. DEFINE m == [cb[d] EXCEPT !.state = "done"]
    <3>2. m \in Block /\ m.rgn = cb[d].rgn /\ m.state = "done" /\ m.call = cb[d].call
      BY <1>8 DEF Block, State, Done
    <3>3. mid = [cb EXCEPT ![d] = m] OBVIOUS
    <3> HIDE DEF m, mid
    <3>4. QED BY <1>2, <1>7, <1>8, <3>2, <3>3
  <2>5. b \in Block /\ b.rgn = mid[c].rgn /\ b.state = "idle" /\ b.call = FALSE
    <3> HIDE DEF mid
    <3>1. mid[c] \in Block BY <2>2, <2>4
    <3>2. QED BY <3>1 DEF Block, State
  <2>6. cb' = [mid EXCEPT ![c] = b] BY <1>11
  <2> HIDE DEF b, mid
  <2>7. /\ cb' \in [Cb -> Block] /\ cb'[c].rgn = mid[c].rgn /\ cb'[c].state = "idle"
        /\ cb'[c].call = FALSE /\ \A e \in Cb : e # c => cb'[e] = mid[e]
    BY <2>2, <2>4, <2>5, <2>6
  <2>8. /\ mid[c].rgn = r /\ c \notin Range(list) /\ \A s \in Region : s # r => c \notin Range(queue[s])
    <3>1. CASE c = d BY <1>7, <2>4, <3>1
    <3>2. CASE c # d
      <4>1. c \in Range(queue[r]) BY <2>1, <2>2, <3>2
      <4>2. cb[c].rgn = r /\ cb[c].state \in Done \cup {"idle"} BY <1>6, <1>7, <4>1, QueuedIsWaiting
      <4>3. BlockOK(c) BY <1>6, <2>2 DEF BlocksOK
      <4>4. c \notin Range(list) BY <4>2, <4>3 DEF BlockOK, Done
      <4>5. \A s \in Region : s # r => c \notin Range(queue[s]) BY <4>2, <4>3 DEF BlockOK
      <4>6. QED BY <2>2, <2>4, <3>2, <4>2, <4>4, <4>5
    <3>3. QED BY <3>1, <3>2
  <2>9. BlockOK(c)'
    <3>1. \A s \in Region : c \notin Range(queue'[s]) BY <2>3, <2>8
    <3>2. c \notin Range(list') /\ daemon' # c /\ life'[r] = "up" BY <1>5, <1>7, <1>9, <2>2, <2>8
    <3>3. QED BY <2>7, <2>8, <3>1, <3>2 DEF BlockOK, Done, UnderWay
  <2>10. ASSUME d # c PROVE BlockOK(d)'
    <3>1. \A s \in Region : d \in Range(queue'[s]) <=> s = r BY <1>7, <2>3, <2>10
    <3>2. cb'[d].rgn = r /\ cb'[d].state = "done" /\ cb'[d].call BY <2>4, <2>7, <2>10
    <3>3. d \notin Range(list') /\ daemon' # d /\ life'[r] = "up" BY <1>5, <1>7, <1>9
    <3>4. QED BY <1>7, <3>1, <3>2, <3>3 DEF BlockOK, Done, UnderWay
  <2>11. ASSUME NEW e \in Cb, e # c, e # d PROVE BlockOK(e)'
    <3>1. BlockOK(e) /\ cb'[e] = cb[e] BY <1>6, <2>4, <2>7, <2>11 DEF BlocksOK
    <3>2. \A s \in Region : e \in Range(queue'[s]) <=> e \in Range(queue[s]) BY <2>3, <2>11
    <3>3. e \in Range(list') <=> e \in Range(list) BY <1>5
    <3>4. daemon' = e <=> daemon = e BY <1>9, <2>11
    <3>5. \A s \in Region : life'[s] = "up" <=> life[s] = "up" BY <1>5
    <3>6. QED BY <3>1, <3>2, <3>3, <3>4, <3>5, Untouched
  <2>12. BlocksOK'
    <3>1. BlockType' BY <1>5, <1>8, <2>3, <2>7 DEF BlockType
    <3>2. Distinct(list') BY <1>5, <1>8
    <3>3. \A e \in Cb : BlockOK(e)' BY <2>9, <2>10, <2>11
    <3>4. QED BY <2>3, <3>1, <3>2, <3>3 DEF BlocksOK
  <2>13. StackOK'
    <3>1. Daemon \in Actor BY DEF Actor
    <3>2. QED BY <1>5, <1>6, <1>7, <1>11, <3>1, TakeKeeps
  <2>14. NothingWaitsAlone'
    <3>1. ASSUME NEW s \in Region \ Interrupt
          PROVE  \/ active'[s] \/ life'[s] # "up"
                 \/ /\ queue'[s] = queue[s] /\ active'[s] = active[s] /\ life[s] = "up"
                    /\ \A e \in Range(queue[s]) : cb'[e].state = cb[e].state
      <4>1. CASE s = r BY <1>6, <1>11, <4>1 DEF StackOK, StackType
      <4>2. CASE s # r
        <5>1. active'[s] = active[s] BY <1>6, <1>11, <4>2 DEF StackOK, StackType
        <5>2. \A e \in Range(queue[s]) : e \in Cb /\ e # c /\ e # d
          BY <1>6, <1>7, <2>8, <4>2, QueuedIsWaiting
        <5>3. \A e \in Range(queue[s]) : cb'[e] = cb[e] BY <2>4, <2>7, <5>2
        <5>4. QED BY <1>5, <2>3, <4>2, <5>1, <5>3
      <4>3. QED BY <4>1, <4>2
    <3>2. QED BY <1>5, <1>6, <3>1, StillAlone
  <2>15. QED BY <2>12, <2>13, <2>14 DEF IInv
<1>12. QED BY <1>5, <1>10, <1>11, Zenon
-----------------------------------------------------------------------------
(* Timers, and the end of a region.                                            *)
LEMMA TimerStartKeeps ==
    ASSUME IInv, NEW t \in Actor, udi_timer_start(t) PROVE IInv'
<1>1. PICK c \in Cb :
         /\ DriverCalls(t, c) /\ Idle(c)
         /\ cb' = [cb EXCEPT ![c].state = "timer", ![c].call = TRUE]
         /\ UNCHANGED <<queue, active, depth, life, list, stack, daemon, due>>
  BY DEF udi_timer_start
<1>2. StackOK /\ BlocksOK BY DEF IInv
<1>3. PICK r : r = cb[c].rgn OBVIOUS
<1>4. r \in Region /\ life[r] = "up" /\ active[r] BY <1>1, <1>3, DriverIsIn
<1>5. /\ \A s \in Region : c \notin Range(queue[s])
      /\ c \notin Range(list) /\ daemon # c
  BY <1>1, <1>2, IdleIsNowhere
<1>6. cb \in [Cb -> Block] /\ list \in Seq(Cb) /\ Distinct(list)
      /\ daemon \in Cb \cup {"clear", "work", "wait"}
  BY <1>2 DEF BlocksOK, BlockType
<1>7. /\ cb' \in [Cb -> Block] /\ cb'[c].rgn = r /\ cb'[c].state = "timer"
      /\ cb'[c].call = TRUE /\ \A d \in Cb : d # c => cb'[d] = cb[d]
  <2>1. "timer" \in State /\ TRUE \in BOOLEAN BY DEF State, UnderWay
  <2>2. QED BY <1>1, <1>3, <1>6, <2>1, Marked, Zenon
<1>8. BlocksOK' BY <1>1, <1>2, <1>4, <1>5, <1>6, <1>7, OneChanged DEF Done, UnderWay
<1>9. QED BY <1>1, <1>5, <1>7, <1>8, DaemonWaits

LEMMA TimerCancelKeeps ==
    ASSUME IInv, NEW t \in Actor, udi_timer_cancel(t) PROVE IInv'
<1>1. PICK c \in Cb :
         /\ DriverCalls(t, c) /\ cb[c].state \in {"timer", "timer_done"}
         /\ queue' = [queue EXCEPT ![cb[c].rgn] = Unlinked(@, c)]
         /\ Taken(c)
         /\ UNCHANGED <<active, depth, life, list, stack, daemon, due>>
  BY DEF udi_timer_cancel
<1>2. StackOK /\ BlocksOK BY DEF IInv
<1>3. PICK r : r = cb[c].rgn OBVIOUS
<1>4. r \in Region /\ life[r] = "up" /\ active[r] BY <1>1, <1>3, DriverIsIn
<1>5. BlockOK(c) /\ BlockType /\ Distinct(list) /\ \A s \in Region : Distinct(queue[s])
  BY <1>2 DEF BlocksOK
<1>6. /\ \A s \in Region : s # r => c \notin Range(queue[s])
      /\ c \notin Range(list) /\ daemon # c
  BY <1>1, <1>3, <1>5 DEF BlockOK
<1>7. /\ queue' \in [Region -> Seq(Cb)] /\ \A s \in Region : Distinct(queue'[s])
      /\ Range(queue'[r]) = Range(queue[r]) \ {c}
      /\ \A s \in Region : s # r => queue'[s] = queue[s]
  <2>1. queue[r] \in Seq(Cb) /\ Distinct(queue[r]) BY <1>4, <1>5 DEF BlockType
  <2>2. /\ Unlinked(queue[r], c) \in Seq(Cb) /\ Distinct(Unlinked(queue[r], c))
        /\ Range(Unlinked(queue[r], c)) = Range(queue[r]) \ {c}
    BY <2>1, UnlinkedQueue, Zenon
  <2>3. queue' = [queue EXCEPT ![r] = Unlinked(queue[r], c)] BY <1>1, <1>3
  <2>4. QED BY <1>4, <1>5, <2>2, <2>3 DEF BlockType
<1>8. /\ cb' \in [Cb -> Block] /\ cb'[c].rgn = r /\ cb'[c].state = "idle"
      /\ cb'[c].call = FALSE /\ \A d \in Cb : d # c => cb'[d] = cb[d]
  <2>1. "idle" \in State /\ FALSE \in BOOLEAN BY DEF State
  <2>2. cb' = [cb EXCEPT ![c].state = "idle", ![c].call = FALSE] BY <1>1 DEF Taken
  <2>3. cb \in [Cb -> Block] BY <1>5 DEF BlockType
  <2>4. QED BY <1>3, <2>1, <2>2, <2>3, Marked, Zenon
<1>9. BlocksOK'
  <2>1. BlockType' BY <1>1, <1>5, <1>7, <1>8 DEF BlockType
  <2>2. BlockOK(c)'
    <3>1. \A s \in Region : c \notin Range(queue'[s]) BY <1>6, <1>7
    <3>2. c \notin Range(list') /\ daemon' # c /\ life'[r] = "up" BY <1>1, <1>4, <1>6
    <3>3. QED BY <1>8, <3>1, <3>2 DEF BlockOK, Done, UnderWay
  <2>3. \A d \in Cb : d # c =>
           \A s \in Region : d \in Range(queue'[s]) <=> d \in Range(queue[s])
    BY <1>7
  <2>4. Distinct(list') BY <1>1, <1>5
  <2>5. QED BY <1>1, <1>2, <1>7, <1>8, <2>1, <2>2, <2>3, <2>4, OneMoved
<1>10. StackOK' BY <1>1, <1>2, SameStacks
<1>11. NothingWaitsAlone' BY <1>1, <1>2, <1>3, <1>4, <1>7, <1>8, InsideWaits, OthersStay
<1>12. QED BY <1>9, <1>10, <1>11 DEF IInv

LEMMA HeartbeatKeeps ==
    ASSUME ConstantsMakeSense, IInv, _udi_timer_heartbeat PROVE IInv'
<1>1. StackOK /\ BlocksOK /\ NothingWaitsAlone BY DEF IInv
<1>2. BlockType /\ Distinct(list) BY <1>1 DEF BlocksOK
<1>3. ASSUME NEW c \in Cb, cb[c].state = "timer", due = Nothing, Kept(c, "timer_done"),
             queue' = [queue EXCEPT ![cb[c].rgn] = Append(@, c)], due' = cb[c].rgn,
             UNCHANGED <<active, depth, life, list, stack, daemon>>
      PROVE  IInv'
  <2>1. PICK r : r = cb[c].rgn OBVIOUS
  <2>2. BlockOK(c) BY <1>1 DEF BlocksOK
  <2>3. r \in Region /\ life[r] = "up" /\ cb[c].call BY <1>3, <2>1, <2>2 DEF BlockOK, UnderWay
  <2>4. /\ \A s \in Region : c \notin Range(queue[s])
        /\ c \notin Range(list) /\ daemon # c
    BY <1>3, <2>2, <2>3 DEF BlockOK, Done
  <2>5. /\ cb' \in [Cb -> Block] /\ cb'[c].rgn = r /\ cb'[c].state = "timer_done"
        /\ cb'[c].call = cb[c].call /\ \A d \in Cb : d # c => cb'[d] = cb[d]
    <3>1. "timer_done" \in State BY DEF State, Done
    <3>2. cb \in [Cb -> Block] BY <1>2 DEF BlockType
    <3>3. QED BY <1>3, <2>1, <3>1, <3>2, KeptAs, Zenon
  <2>6. /\ BlocksOK' /\ \A s \in Region : s # r => queue'[s] = queue[s]
        /\ Range(queue'[r]) = Range(queue[r]) \cup {c}
    <3>1. /\ list' \in Seq(Cb) /\ Distinct(list') /\ c \notin Range(list') /\ daemon' # c
          /\ daemon' \in Cb \cup {"clear", "work", "wait"} /\ due' \in Region \cup {Nothing}
      BY <1>2, <1>3, <2>1, <2>3, <2>4 DEF BlockType
    <3>2. /\ \A d \in Cb : d # c => (d \in Range(list') <=> d \in Range(list))
          /\ \A d \in Cb : d # c => (daemon' = d <=> daemon = d)
      BY <1>3
    <3>3. cb'[c].state \in Done /\ cb'[c].call /\ UNCHANGED life BY <1>3, <2>3, <2>5 DEF Done
    <3>4. queue' = [queue EXCEPT ![r] = Append(@, c)] BY <1>3, <2>1
    <3>5. QED BY <1>1, <2>3, <2>4, <2>5, <3>1, <3>2, <3>3, <3>4, Queues
  <2>7. StackOK' BY <1>1, <1>3, SameStacks
  <2>8. ASSUME NEW s \in Region \ Interrupt, life[s] = "up", ~active[s] PROVE queue[s] = <<>>
    BY <1>1, <1>3, <2>8 DEF NothingWaitsAlone, ConstantsMakeSense
  <2>9. NothingWaitsAlone'
    <3>1. ASSUME NEW s \in Region \ Interrupt, life'[s] = "up", ~active'[s], queue'[s] # <<>>
          PROVE  due' = s /\ \A d \in Range(queue'[s]) : cb'[d].state = "timer_done"
      <4>1. queue[s] = <<>> BY <1>3, <2>8, <3>1
      <4>2. s = r BY <2>6, <3>1, <4>1
      <4>3. Range(queue[s]) = {} BY <4>1, EmptyQueue DEF Range
      <4>4. QED BY <1>3, <2>1, <2>5, <2>6, <4>2, <4>3
    <3>2. QED BY <3>1 DEF NothingWaitsAlone
  <2>10. QED BY <2>6, <2>7, <2>9 DEF IInv
<1>4. ASSUME due # Nothing, due' = Nothing, EnterQueue(Heartbeat, due, "mei"),
             UNCHANGED <<depth, life, list, daemon>>
      PROVE  IInv'
  <2>1. PICK r \in Region : r = due BY <1>2, <1>4 DEF BlockType
  <2>2. CASE active[r] \/ ~Runs(r)
    <3>1. UNCHANGED <<queue, active, cb, stack>> BY <1>4, <2>1, <2>2 DEF EnterQueue
    <3>2. StackOK' BY <1>1, <1>4, <3>1, SameStacks
    <3>3. BlocksOK' BY <1>1, <1>4, <3>1, SameBlocks
    <3>4. NothingWaitsAlone'
      <4>1. ASSUME NEW s \in Region \ Interrupt, life'[s] = "up", ~active'[s], queue'[s] # <<>>
            PROVE  FALSE
        <5>1. due = s BY <1>1, <1>4, <3>1, <4>1 DEF NothingWaitsAlone
        <5>2. QED BY <2>1, <2>2, <3>1, <4>1, <5>1 DEF Runs
      <4>2. QED BY <4>1 DEF NothingWaitsAlone
    <3>5. QED BY <3>2, <3>3, <3>4 DEF IInv
  <2>3. CASE ~active[r] /\ Runs(r)
    <3>1. /\ active' = [active EXCEPT ![r] = TRUE]
          /\ _udi_run_next_on_region_queue(r) /\ Push(Heartbeat, [rgn |-> r, by |-> "mei"])
      BY <1>4, <2>1, <2>3 DEF EnterQueue
    <3>2. queue[r] # <<>> /\ Heartbeat \in Actor BY <2>3 DEF Runs, Actor
    <3>3. QED BY <1>4, <2>1, <2>3, <3>1, <3>2, EnterKeeps
  <2>4. QED BY <2>2, <2>3
<1>5. QED BY <1>3, <1>4 DEF _udi_timer_heartbeat

LEMMA DestroyKeeps ==
    ASSUME ConstantsMakeSense, IInv, NEW t \in Actor, _udi_region_destroy(t) PROVE IInv'
<1>1. PICK r \in Region :
         /\ life[r] = "up" /\ Quiet(r)
         /\ life' = [life EXCEPT ![r] = IF active[r] THEN "dying" ELSE "gone"]
         /\ active' = [active EXCEPT ![r] = TRUE]
         /\ cb' = [c \in Cb |-> IF cb[c].rgn = r THEN [cb[c] EXCEPT !.state = "freed"] ELSE cb[c]]
         /\ UNCHANGED <<queue, depth, list, stack, daemon, due>>
  BY DEF _udi_region_destroy
<1>2. StackOK /\ BlocksOK /\ NothingWaitsAlone BY DEF IInv
<1>3. BlockType /\ Distinct(list) /\ \A s \in Region : Distinct(queue[s]) BY <1>2 DEF BlocksOK
<1>4. StackOK' BY <1>1, <1>2, TornDownKeeps
<1>5. \A s \in Region : s # r => life'[s] = life[s] /\ active'[s] = active[s]
  BY <1>1, <1>2 DEF StackOK, StackType
<1>6. ASSUME NEW c \in Cb
      PROVE  /\ cb'[c] \in Block /\ cb'[c].rgn = cb[c].rgn
             /\ cb[c].rgn # r => cb'[c] = cb[c]
             /\ cb[c].rgn = r => cb'[c].state = "freed"
  <2>1. cb[c] \in Block BY <1>3 DEF BlockType
  <2>2. [cb[c] EXCEPT !.state = "freed"] \in Block BY <2>1 DEF Block, State
  <2>3. QED BY <1>1, <2>1, <2>2 DEF Block
<1>7. cb' \in [Cb -> Block] BY <1>1, <1>6
<1>8. Range(queue[r]) = {} BY <1>1 DEF Quiet, Range
<1>9. ASSUME NEW c \in Cb PROVE BlockOK(c)'
  <2>1. BlockOK(c) BY <1>2 DEF BlocksOK
  <2>2. CASE cb[c].rgn # r
    <3>1. cb'[c] = cb[c] BY <1>6, <2>2
    <3>2. \A s \in Region : c \in Range(queue[s]) => life'[s] = "up"
      BY <1>5, <2>1, <2>2 DEF BlockOK
    <3>3. cb[c].rgn \in Region => life'[cb[c].rgn] = life[cb[c].rgn] BY <1>5, <2>2
    <3>4. QED BY <1>1, <2>1, <3>1, <3>2, <3>3 DEF BlockOK
  <2>3. CASE cb[c].rgn = r
    <3>1. \A s \in Region : c \notin Range(queue[s]) BY <1>8, <2>1, <2>3 DEF BlockOK
    <3>2. cb[c].state \in {"idle", "freed", "timer"} BY <1>1, <2>3 DEF Quiet
    <3>3. c \notin Range(list) /\ daemon # c BY <2>1, <3>2 DEF BlockOK
    <3>4. cb'[c].state = "freed" BY <1>6, <2>3
    <3>5. QED BY <1>1, <3>1, <3>3, <3>4 DEF BlockOK, Done, UnderWay
  <2>4. QED BY <2>2, <2>3
<1>10. BlocksOK'
  <2>1. BlockType' BY <1>1, <1>3, <1>7 DEF BlockType
  <2>2. (\A s \in Region : Distinct(queue'[s])) /\ Distinct(list') BY <1>1, <1>3
  <2>3. QED BY <1>9, <2>1, <2>2 DEF BlocksOK
<1>11. NothingWaitsAlone'
  <2>1. ASSUME NEW s \in Region \ Interrupt
        PROVE  \/ active'[s] \/ life'[s] # "up"
               \/ /\ queue'[s] = queue[s] /\ active'[s] = active[s] /\ life[s] = "up"
                  /\ \A d \in Range(queue[s]) : cb'[d].state = cb[d].state
    <3>1. CASE s = r BY <1>1, <1>2, <3>1 DEF StackOK, StackType
    <3>2. CASE s # r
      <4>1. \A d \in Range(queue[s]) : d \in Cb /\ cb[d].rgn = s BY <1>2, QueuedIsWaiting
      <4>2. QED BY <1>1, <1>5, <1>6, <3>2, <4>1
    <3>3. QED BY <3>1, <3>2
  <2>2. QED BY <1>1, <1>2, <2>1, StillAlone
<1>12. QED BY <1>4, <1>10, <1>11 DEF IInv
-----------------------------------------------------------------------------
(* The invariant, and what it says.                                            *)
LEMMA Beginning == ASSUME ConstantsMakeSense, Init PROVE IInv
<1>1. \A S : <<>> \in Seq(S) /\ Range(<<>>) = {} /\ DOMAIN <<>> = {}
  BY EmptyQueue DEF Range
<1>2. StackType
  <2>1. stack \in [Actor -> Seq(Frame)] BY <1>1 DEF Init
  <2>2. QED BY <2>1 DEF Init, StackType
<1>3. \A t \in Actor : DOMAIN stack[t] = {} BY <1>1 DEF Init
<1>4. CallbacksAreNested /\ TakenOnce /\ TakenIsActive
  BY <1>3 DEF CallbacksAreNested, TakenOnce, TakenIsActive
<1>5. ActiveIsTaken BY DEF Init, ActiveIsTaken
<1>6. Counted
  <2>1. ASSUME NEW r \in Region PROVE Callbacks(r) = {} BY <1>3 DEF Callbacks
  <2>2. IsFiniteSet({}) /\ Cardinality({}) = 0 BY FS_EmptySet
  <2>3. \A r \in Region : depth[r] = 0 /\ 0 <= CallbackLimit BY DEF Init, ConstantsMakeSense
  <2>4. QED BY <2>1, <2>2, <2>3 DEF Counted
<1>7. BlockType
  <2>1. cb \in [Cb -> Block] BY DEF Init, Block, State
  <2>2. queue \in [Region -> Seq(Cb)] /\ list \in Seq(Cb) BY <1>1 DEF Init
  <2>3. QED BY <2>1, <2>2 DEF Init, BlockType
<1>8. (\A r \in Region : queue[r] = <<>>) /\ list = <<>> BY DEF Init
<1>9. (\A r \in Region : Distinct(queue[r])) /\ Distinct(list) BY <1>1, <1>8 DEF Distinct
<1>10. ASSUME NEW c \in Cb PROVE BlockOK(c)
  <2>1. (\A r \in Region : Range(queue[r]) = {}) /\ Range(list) = {} BY <1>1, <1>8
  <2>2. cb[c].state = "idle" /\ ~cb[c].call /\ cb[c].rgn \notin Region /\ daemon # c
    BY DEF Init, ConstantsMakeSense
  <2>3. QED BY <2>1, <2>2 DEF BlockOK, Done, UnderWay
<1>11. NothingWaitsAlone BY <1>8 DEF NothingWaitsAlone
<1>12. QED
  BY <1>2, <1>4, <1>5, <1>6, <1>7, <1>9, <1>10, <1>11 DEF IInv, StackOK, BlocksOK

LEMMA Step == ASSUME ConstantsMakeSense, IInv, [Next]_vars PROVE IInv'
<1>1. ASSUME NEW t \in Actor, udi_mei_call(t) PROVE IInv' BY <1>1, OperationKeeps
<1>2. ASSUME NEW t \in Actor, Return(t) PROVE IInv' BY <1>2, ReturnKeeps
<1>3. ASSUME NEW t \in Actor, Served(t) PROVE IInv' BY <1>3, ServedKeeps
<1>4. ASSUME NEW t \in Actor, _udi_alloc_queue(t) PROVE IInv' BY <1>4, AskedKeeps
<1>5. ASSUME NEW t \in Actor, udi_cancel(t) PROVE IInv' BY <1>5, CancelKeeps
<1>6. ASSUME NEW t \in Actor, udi_timer_start(t) PROVE IInv' BY <1>6, TimerStartKeeps
<1>7. ASSUME NEW t \in Actor, udi_timer_cancel(t) PROVE IInv' BY <1>7, TimerCancelKeeps
<1>8. ASSUME NEW t \in Actor, _udi_region_destroy(t) PROVE IInv' BY <1>8, DestroyKeeps
<1>9. CASE DaemonStep
  BY <1>9, WorkKeeps, RequeueKeeps, CompleteKeeps, FailKeeps, EventKeeps DEF DaemonStep
<1>10. CASE _udi_timer_heartbeat BY <1>10, HeartbeatKeeps
<1>11. CASE UNCHANGED vars
  <2>1. /\ UNCHANGED <<queue, active, depth, life, cb, list, stack, daemon, due>>
    BY <1>11 DEF vars
  <2>2. StackOK' BY <2>1, SameStacks DEF IInv
  <2>3. due' \in Region \cup {Nothing} BY <2>1 DEF IInv, BlocksOK, BlockType
  <2>4. BlocksOK' BY <2>1, <2>3, SameBlocks DEF IInv
  <2>5. NothingWaitsAlone' BY <2>1 DEF IInv, NothingWaitsAlone
  <2>6. QED BY <2>2, <2>4, <2>5 DEF IInv
<1>12. QED BY <1>1, <1>2, <1>3, <1>4, <1>5, <1>6, <1>7, <1>8, <1>9, <1>10, <1>11 DEF Next

LEMMA OneThread == ASSUME StackOK PROVE OneThreadInARegion
<1> SUFFICES ASSUME NEW r \in Region
    PROVE  /\ Cardinality(Inside(r)) <= 1
           /\ life[r] = "up" => (active[r] <=> Inside(r) # {})
           /\ life[r] = "dying" => Inside(r) # {}
           /\ life[r] = "gone" => Inside(r) = {}
    BY DEF OneThreadInARegion
<1>1. ASSUME NEW t \in Inside(r)
      PROVE  t \in Actor /\ \E j \in DOMAIN stack[t] : Took(t, j) /\ stack[t][j].rgn = r
  <2>1. PICK k \in DOMAIN stack[t] : stack[t][k].rgn = r BY <1>1 DEF Inside
  <2>2. PICK j \in 1 .. k : Took(t, j) /\ stack[t][j].rgn = r
    BY <1>1, <2>1 DEF StackOK, CallbacksAreNested, Inside
  <2>3. QED BY <1>1, <2>2 DEF Took, Inside
<1>2. \A t, u \in Inside(r) : t = u BY <1>1 DEF StackOK, TakenOnce
<1>3. Cardinality(Inside(r)) <= 1
  <2>1. CASE Inside(r) = {} BY <2>1, FS_EmptySet
  <2>2. CASE Inside(r) # {}
    <3>1. PICK t : t \in Inside(r) BY <2>2
    <3>2. Inside(r) = {t} BY <1>2, <3>1
    <3>3. Cardinality({t}) = 1 BY FS_Singleton
    <3>4. QED BY <3>2, <3>3
  <2>3. QED BY <2>1, <2>2
<1>4. Inside(r) # {} => active[r] /\ life[r] \in {"up", "dying"}
  BY <1>1 DEF StackOK, TakenIsActive
<1>5. (life[r] = "up" /\ active[r]) \/ life[r] = "dying" => Inside(r) # {}
  BY DEF StackOK, ActiveIsTaken, Inside
<1>6. active[r] \in BOOLEAN BY DEF StackOK, StackType
<1>7. /\ life[r] = "up" => (active[r] <=> Inside(r) # {})
      /\ life[r] = "dying" => Inside(r) # {}
      /\ life[r] = "gone" => Inside(r) = {}
  BY <1>4, <1>5, <1>6
<1>8. QED BY <1>3, <1>7

\* A sequence without repetitions has what is in it at one place.
LEMMA OnePlace ==
    ASSUME NEW S, NEW s \in Seq(S), Distinct(s), NEW c
    PROVE  /\ c \in Range(s) => \E k \in DOMAIN s : {j \in DOMAIN s : s[j] = c} = {k}
           /\ c \notin Range(s) => {j \in DOMAIN s : s[j] = c} = {}
<1>1. ASSUME c \in Range(s) PROVE \E k \in DOMAIN s : {j \in DOMAIN s : s[j] = c} = {k}
  <2>1. PICK k \in DOMAIN s : s[k] = c BY <1>1 DEF Range
  <2>2. {j \in DOMAIN s : s[j] = c} = {k} BY <2>1 DEF Distinct
  <2>3. QED BY <2>2
<1>2. ASSUME c \notin Range(s) PROVE {j \in DOMAIN s : s[j] = c} = {} BY <1>2 DEF Range
<1>3. QED BY <1>1, <1>2

LEMMA CbOnce == ASSUME BlocksOK PROVE CbInOnePlace
<1> SUFFICES ASSUME NEW c \in Cb
    PROVE  /\ Cardinality(Places(c)) + Cardinality({k \in DOMAIN list : list[k] = c}) <= 1
           /\ {k \in DOMAIN list : list[k] = c} # {} <=> cb[c].state = "pending"
           /\ (\E p \in Places(c) : cb[c].call) <=> cb[c].state \in {"done", "immed_done", "timer_done"}
           /\ \A p \in Places(c) : p[1] = cb[c].rgn
           /\ (daemon = c) <=> cb[c].state = "busy"
    BY DEF CbInOnePlace
<1> DEFINE listed == {k \in DOMAIN list : list[k] = c}
           at(r) == {j \in DOMAIN queue[r] : queue[r][j] = c}
<1>1. BlockOK(c) /\ BlockType /\ (\A r \in Region : Distinct(queue[r])) /\ Distinct(list)
  BY DEF BlocksOK
<1>2. ASSUME NEW r \in Region
      PROVE  /\ c \in Range(queue[r]) => \E k \in DOMAIN queue[r] : at(r) = {k}
             /\ c \notin Range(queue[r]) => at(r) = {}
  <2>1. queue[r] \in Seq(Cb) /\ Distinct(queue[r]) BY <1>1 DEF BlockType
  <2>2. QED BY <2>1, OnePlace, Zenon
<1>3. /\ c \in Range(list) => \E k \in DOMAIN list : listed = {k}
      /\ c \notin Range(list) => listed = {}
  <2>1. list \in Seq(Cb) /\ Distinct(list) BY <1>1 DEF BlockType
  <2>2. QED BY <2>1, OnePlace, Zenon
<1>4. Places(c) = UNION {{<<r, k>> : k \in at(r)} : r \in Region} BY DEF Places
<1> HIDE DEF listed, at
<1>5. CASE \E r \in Region : c \in Range(queue[r])
  <2>1. PICK r \in Region : c \in Range(queue[r]) BY <1>5
  <2>2. cb[c].rgn = r /\ \A s \in Region : s # r => c \notin Range(queue[s])
    BY <1>1, <2>1 DEF BlockOK
  <2>3. PICK k : at(r) = {k} BY <1>2, <2>1
  <2>4. \A s \in Region : s # r => at(s) = {} BY <1>2, <2>2
  <2>5. Places(c) = {<<r, k>>} BY <1>4, <2>3, <2>4
  <2>6. cb[c].state \in Done \cup {"idle"} /\ (cb[c].call <=> cb[c].state \in Done)
    <3>1. cb[c].call \/ ~cb[c].call OBVIOUS
    <3>2. QED BY <1>1, <2>1, <3>1 DEF BlockOK, Done
  <2>7. cb[c].state # "pending" BY <2>6 DEF Done
  <2>8. listed = {} BY <1>1, <1>3, <2>7 DEF BlockOK
  <2>9. Cardinality(Places(c)) = 1 /\ Cardinality(listed) = 0
    BY <2>5, <2>8, FS_Singleton, FS_EmptySet
  <2>10. Cardinality(Places(c)) + Cardinality(listed) <= 1 BY <2>9
  <2>11. \A p \in Places(c) : p[1] = cb[c].rgn BY <2>2, <2>5
  <2>12. (\E p \in Places(c) : cb[c].call) <=> cb[c].state \in Done BY <2>5, <2>6
  <2>13. (daemon = c) <=> cb[c].state = "busy" BY <1>1 DEF BlockOK
  <2>14. QED BY <2>7, <2>8, <2>10, <2>11, <2>12, <2>13 DEF listed, Done
<1>6. CASE \A r \in Region : c \notin Range(queue[r])
  <2>1. Places(c) = {} BY <1>2, <1>4, <1>6
  <2>2. cb[c].state \notin Done BY <1>1, <1>6 DEF BlockOK
  <2>3. (daemon = c <=> cb[c].state = "busy") /\ (cb[c].state = "pending" <=> c \in Range(list))
    BY <1>1 DEF BlockOK
  <2>4. listed # {} <=> cb[c].state = "pending" BY <1>3, <2>3
  <2>5. Cardinality(Places(c)) = 0 BY <2>1, FS_EmptySet
  <2>6. Cardinality(listed) \in {0, 1} BY <1>3, FS_Singleton, FS_EmptySet
  <2>7. Cardinality(Places(c)) + Cardinality(listed) <= 1 BY <2>5, <2>6
  <2>8. QED BY <2>1, <2>2, <2>3, <2>4, <2>7 DEF listed, Done
<1>7. QED BY <1>5, <1>6

\* Whatever the regions, the control blocks and the threads: one thread is in a region
\* and the mark says so, nothing waits at a region nobody is in, a control block is in
\* one place and its marks say which, and the callbacks nested are those counted.
THEOREM RegionsSound == Spec => []RegionsAreSound
<1>1. Init => IInv BY Beginning, RegionConstants
<1>2. IInv /\ [Next]_vars => IInv' BY Step, RegionConstants
<1>3. IInv => RegionsAreSound
  <2>1. IInv => OneThreadInARegion BY OneThread DEF IInv
  <2>2. IInv => CbInOnePlace BY CbOnce DEF IInv
  <2>3. IInv => DepthIsCounted BY DEF IInv, StackOK, Counted, DepthIsCounted
  <2>4. QED BY <2>1, <2>2, <2>3 DEF IInv, RegionsAreSound
<1>4. QED BY <1>1, <1>2, <1>3, PTL DEF Spec
-----------------------------------------------------------------------------
(* What a region keeps for DMA.                                              *)
\* What holds of 0, and of n if of n - 1, holds up to a bound.
LEMMA Climbing ==
    ASSUME NEW b \in Nat, NEW P, 0 \in P,
           \A n \in 1..b : n - 1 \in P => n \in P
    PROVE  \A n \in 0..b : n \in P
<1> DEFINE Bad == {n \in 0..b : n \notin P}
           less == {ss \in Nat \X Nat : ss[1] < ss[2]}
<1>1. IsWellFoundedOn(less, Nat) BY NatLessThanWellFounded, Zenon DEF OpToRel
<1>2. \A k, m \in Nat : k < m => <<k, m>> \in less OBVIOUS
<1>3. ASSUME NEW m \in Bad, \A k \in Bad : ~ (<<k, m>> \in less) PROVE FALSE
  <2>1. m \in 1..b /\ m \notin P /\ m - 1 \in 0..b /\ m - 1 < m /\ m \in Nat /\ m - 1 \in Nat
    OBVIOUS
  <2>2. <<m - 1, m>> \in less BY <2>1
  <2>3. m - 1 \notin Bad
    <3> HIDE DEF Bad, less
    <3>1. QED BY <1>3, <2>2
  <2>4. QED BY <2>1, <2>3
<1>4. Bad \subseteq Nat OBVIOUS
<1> HIDE DEF Bad, less
<1>5. Bad = {} BY <1>1, <1>3, <1>4, WFMin
<1>6. QED BY <1>5 DEF Bad

HandleStates == {"none", "prepare", "ready", "alloc", "memory", "map", "mapped", "lent", "pool"}
DmaByte == {"x", "y", "0", "?", "d", "e", "f", "g"}
FlagSets == SUBSET {"in", "out"}
HandleRec == [state : HandleStates, cons : DmaConstraint \cup {NoObject},
              flags : FlagSets, buf : DmaBuf \cup {NoObject}, base : 0 .. 2,
              now : FlagSets, len : 0 .. 2, mem : Seq(DmaByte)]
ConsRec == [vals : [D!Attr -> Nat], paths : SUBSET DmaPath]
BufRec == [path : DmaPath \cup {NoObject}, data : Seq(DmaByte), size : Nat,
           holds : DmaHandle \cup {NoObject, "copy"}]
DmaTypes ==
    /\ \A k \in DmaConstraint : cons[k] \in ConsRec \cup {D!NoCons}
    /\ DOMAIN cons = DmaConstraint
    /\ path \in [DmaPath -> [up : BOOLEAN, on : DmaConstraint \cup {NoObject}]]
    /\ hand \in [DmaHandle -> HandleRec]
    /\ dmaBufs \in [DmaBuf -> BufRec]
    /\ ring \in Seq(DmaHandle)
    /\ dmaAsked \in [DmaConstraint -> [D!Attr -> SUBSET Nat]]
    /\ whole \in [DmaBuf -> Seq(DmaByte) \cup {D!Nothing}]
    /\ dying \in BOOLEAN /\ (dying => DmaTracker)

\* Paths and constraints know of one another; a buffer's path is there.
PathsOK ==
    /\ D!PathsAgree
    /\ \A p \in DmaPath : ~path[p].up => path[p].on = NoObject
    /\ ~dying => \A b \in DmaBuf : dmaBufs[b].path # NoObject => path[dmaBufs[b].path].up

\* A mapping has a buffer, and the buffer one mapping.
Working(h) == hand[h].state \in {"map", "mapped"}
Memory(h) == hand[h].state \in {"memory", "lent", "pool"}
HandlesOK ==
    /\ \A h \in DmaHandle :
         /\ Working(h) <=> hand[h].buf # NoObject
         /\ Working(h) => hand[h].now \in D!Flags /\ dmaBufs[hand[h].buf].path # NoObject
         /\ hand[h].state = "mapped" \/ Memory(h) => Len(hand[h].mem) = hand[h].len
         /\ hand[h].state \in {"memory", "alloc"} => hand[h].base <= hand[h].len
    /\ \A g, h \in DmaHandle : hand[g].buf = hand[h].buf /\ hand[g].buf # NoObject => g = h
    /\ \A b \in DmaBuf : dmaBufs[b].path = NoObject => dmaBufs[b] = D!NoBuf
    /\ dying => \A h \in DmaHandle : ~Working(h) /\ hand[h].state \notin {"prepare", "alloc"}

\* Memory that is lent is in one buffer, memory in the pool once on the ring.
PlacesOK == ~dying =>
    /\ \A b \in DmaBuf : dmaBufs[b].holds \in DmaHandle => hand[dmaBufs[b].holds].state = "lent"
    /\ \A h \in DmaHandle : hand[h].state = "lent" => \E b \in DmaBuf : dmaBufs[b].holds = h
    /\ \A b, c \in DmaBuf : dmaBufs[b].holds = dmaBufs[c].holds /\ dmaBufs[b].holds \in DmaHandle
                            => b = c
    /\ Distinct(ring)
    /\ \A h \in DmaHandle : h \in Range(ring) <=> hand[h].state = "pool"

\* What a whole mapping will read or write is what the buffer is to hold.
Transfer(h) ==
    LET r == hand[h]  b == dmaBufs[hand[h].buf]  w == whole[hand[h].buf] IN
    /\ r.base = 0 /\ r.len = b.size /\ Len(w) = r.len
    /\ w = IF r.state = "mapped" THEN r.mem
           ELSE IF "out" \in r.now THEN D!Stretch(b.data, 0, r.len)
           ELSE D!Stretch(<<>>, 0, r.len)
TransfersOK ==
    /\ D!TransfersAreExact
    /\ D!DeviceSeesTheBuffer
    /\ \A h \in DmaHandle : Working(h) /\ whole[hand[h].buf] # D!Nothing => Transfer(h)

\* The tracker lists what is there.
There(x) == \/ x \in DmaConstraint /\ D!Live(x)
            \/ x \in DmaPath /\ path[x].up
            \/ x \in DmaHandle /\ Memory(x)
            \/ x \in DmaBuf /\ dmaBufs[x] # D!NoBuf /\ ~D!IsExternal(x)
TrackedOK == DmaTracker => /\ tracked \subseteq DmaConstraint \cup DmaPath \cup DmaHandle \cup DmaBuf
                           /\ \A x \in DmaConstraint \cup DmaPath \cup DmaHandle \cup DmaBuf :
                                x \in tracked <=> There(x)
ResourcesInvOK == DmaTypes /\ PathsOK /\ D!Restricts /\ HandlesOK /\ PlacesOK /\ TransfersOK
                  /\ TrackedOK
\* A request that waits is one that was made.
SettingOK == setting \subseteq [src : DmaConstraint \cup {NoObject}, list : DmaSpecs]
ResourcesInv == SettingOK /\ (~dmaWild => ResourcesInvOK)
-----------------------------------------------------------------------------
LEMMA Apart ==
    ASSUME D!ConstantsMakeSense
    PROVE  /\ NoObject \notin DmaConstraint /\ NoObject \notin DmaPath
           /\ NoObject \notin DmaHandle /\ NoObject \notin DmaBuf
           /\ "copy" \notin DmaHandle /\ NoObject # "copy"
           /\ \A x \in DmaConstraint : x \notin DmaPath /\ x \notin DmaHandle /\ x \notin DmaBuf
           /\ \A x \in DmaPath : x \notin DmaConstraint /\ x \notin DmaHandle /\ x \notin DmaBuf
           /\ \A x \in DmaHandle : x \notin DmaConstraint /\ x \notin DmaPath /\ x \notin DmaBuf
           /\ \A x \in DmaBuf : x \notin DmaConstraint /\ x \notin DmaHandle /\ x \notin DmaPath
           /\ D!NoCons \notin ConsRec
           /\ DmaConstraint # {} /\ DmaPath # {} /\ DmaHandle # {} /\ DmaBuf # {}
<1>1. \A S \in {DmaConstraint, DmaPath, DmaHandle, DmaBuf} : S # {} /\ NoObject \notin S /\ "copy" \notin S
  BY DEF D!ConstantsMakeSense
<1>2. NoObject # "copy" BY DEF D!ConstantsMakeSense
<1>3. D!NoCons \notin ConsRec
  <2>1. D!NoCons.paths = {NoObject} BY DEF D!NoCons
  <2>2. \A r \in ConsRec : r.paths \subseteq DmaPath BY DEF ConsRec
  <2>3. QED BY <1>1, <2>1, <2>2
<1>4. /\ DmaConstraint \cap DmaPath = {} /\ DmaConstraint \cap DmaHandle = {} /\ DmaConstraint \cap DmaBuf = {}
      /\ DmaPath \cap DmaHandle = {} /\ DmaPath \cap DmaBuf = {} /\ DmaHandle \cap DmaBuf = {}
  BY DEF D!ConstantsMakeSense
<1>5. QED BY <1>1, <1>2, <1>3, <1>4

LEMMA FirstIs == ASSUME NEW S, S # {} PROVE D!First(S) \in S
BY DEF D!First

LEMMA FreshIs == ASSUME NEW S, NEW x \in D!Fresh(S) PROVE x \in S
BY FirstIs DEF D!Fresh

\* Constraints that are there have values and paths.
LEMMA LiveIs ==
    ASSUME D!ConstantsMakeSense, DmaTypes, NEW k \in DmaConstraint
    PROVE  /\ D!Live(k) <=> cons[k] \in ConsRec
           /\ D!Live(k) => /\ cons[k].vals \in [D!Attr -> Nat] /\ cons[k].paths \subseteq DmaPath
                           /\ D!Paths(k) = cons[k].paths
           /\ ~D!Live(k) => D!Paths(k) = {} /\ cons[k] = D!NoCons
BY Apart DEF DmaTypes, D!Live, D!Paths, ConsRec

LEMMA NoFlags == {} \in FlagSets /\ \A f \in D!Flags : f \in FlagSets
BY DEF FlagSets, D!Flags
-----------------------------------------------------------------------------
(* Values.                                                                    *)
Restricting(v, s) == \A a \in D!Attr : /\ v[a] \in s[a] \cup {D!Default[a]}
                                       /\ \A w \in s[a] : D!Tighter(a, v[a], w)
Valued == [D!Attr -> Nat]
Asking == [D!Attr -> SUBSET Nat]

LEMMA AttrsAre == D!Attr = {"element_align", "scgth_align", "data_bits", "barrier", "format"}
BY DEF D!Attr, D!Kind

LEMMA SetOneIs ==
    ASSUME NEW v \in Valued, NEW s \in Asking, Restricting(v, s),
           NEW x \in (D!Attr \cup {"align"}) \X Nat, x \notin DmaUnsupported
    PROVE  /\ D!SetOne(v, x) \in Valued /\ D!Noted(s, x) \in Asking
           /\ Restricting(D!SetOne(v, x), D!Noted(s, x))
<1> DEFINE u == D!SetOne(v, x)
           t == D!Noted(s, x)
<1>1. /\ u = [a \in D!Attr |-> IF a \in D!Compound(x[1]) THEN D!Merged(a, v[a], x[2]) ELSE v[a]]
      /\ t = [a \in D!Attr |-> IF a \in D!Compound(x[1]) THEN D!Kept(a, s[a], x[2]) ELSE s[a]]
      /\ x[2] \in Nat
  BY DEF D!SetOne, D!Noted
<1> HIDE DEF u, t
<1>2. ASSUME NEW a \in D!Attr
      PROVE  /\ D!Merged(a, v[a], x[2]) \in Nat /\ D!Kept(a, s[a], x[2]) \in SUBSET Nat
             /\ D!Merged(a, v[a], x[2]) \in D!Kept(a, s[a], x[2]) \cup {D!Default[a]}
             /\ \A w \in D!Kept(a, s[a], x[2]) : D!Tighter(a, D!Merged(a, v[a], x[2]), w)
  <2> DEFINE o == v[a]
             n == x[2]
             p == s[a]
             d == D!Default[a]
  <2>1. /\ o \in Nat /\ n \in Nat /\ p \in SUBSET Nat /\ o \in p \cup {d}
        /\ \A w \in p : D!Tighter(a, o, w)
    BY <1>1 DEF Valued, Asking, Restricting
  <2>2. /\ a \in {"element_align", "scgth_align"} => D!Kind[a] = "ascend" /\ d = 0
        /\ a = "data_bits" => D!Kind[a] = "descend" /\ d = 0
        /\ a = "barrier" => D!Kind[a] = "zero_most" /\ d = 1
        /\ a = "format" => D!Kind[a] = "none" /\ d = 0
    BY DEF D!Kind, D!Default
  <2> HIDE DEF o, n, p, d
  <2>3. CASE D!Kind[a] = "ascend" /\ d = 0
    <3>1. D!Merged(a, o, n) = IF o < n THEN n ELSE o BY <2>3 DEF D!Merged
    <3>2. D!Kept(a, p, n) = p \cup {n} BY <2>3 DEF D!Kept
    <3>3. \A y, w : D!Tighter(a, y, w) <=> y >= w BY <2>3 DEF D!Tighter
    <3>4. QED BY <2>1, <2>3, <3>1, <3>2, <3>3 DEF o, n, p, d
  <2>4. CASE D!Kind[a] = "descend" /\ d = 0
    <3>1. D!Merged(a, o, n) = IF o = 0 \/ (n # 0 /\ o > n) THEN n ELSE o BY <2>4 DEF D!Merged
    <3>2. D!Kept(a, p, n) = p \cup {n} BY <2>4 DEF D!Kept
    <3>3. \A y, w : D!Tighter(a, y, w) <=> w = 0 \/ (y # 0 /\ y <= w) BY <2>4 DEF D!Tighter
    <3>4. QED BY <2>1, <2>4, <3>1, <3>2, <3>3 DEF o, n, p, d
  <2>5. CASE D!Kind[a] = "zero_most" /\ d = 1
    <3>1. D!Merged(a, o, n) = IF o < n \/ n = 0 THEN n ELSE o BY <2>5 DEF D!Merged
    <3>2. D!Kept(a, p, n) = IF n = 0 THEN {n} ELSE p \cup {n} BY <2>5 DEF D!Kept
    <3>3. \A y, w : D!Tighter(a, y, w) <=> y >= w BY <2>5 DEF D!Tighter
    <3>4. QED BY <2>1, <2>5, <3>1, <3>2, <3>3 DEF o, n, p, d
  <2>6. CASE D!Kind[a] = "none" /\ d = 0
    <3>1. D!Merged(a, o, n) = n BY <2>6 DEF D!Merged
    <3>2. D!Kept(a, p, n) = {n} BY <2>6 DEF D!Kept
    <3>3. \A y, w : D!Tighter(a, y, w) <=> y = w BY <2>6 DEF D!Tighter
    <3>4. QED BY <2>1, <2>6, <3>1, <3>2, <3>3 DEF o, n, p, d
  <2>7. QED BY <2>2, <2>3, <2>4, <2>5, <2>6, AttrsAre
<1>3. \A a \in D!Attr : /\ u[a] \in Nat /\ t[a] \in SUBSET Nat
                        /\ u[a] \in t[a] \cup {D!Default[a]}
                        /\ \A w \in t[a] : D!Tighter(a, u[a], w)
  <2>1. ASSUME NEW a \in D!Attr
        PROVE  /\ u[a] \in Nat /\ t[a] \in SUBSET Nat /\ u[a] \in t[a] \cup {D!Default[a]}
               /\ \A w \in t[a] : D!Tighter(a, u[a], w)
    <3>1. CASE a \in D!Compound(x[1])
      <4>1. u[a] = D!Merged(a, v[a], x[2]) /\ t[a] = D!Kept(a, s[a], x[2]) BY <1>1, <3>1
      <4>2. QED BY <1>2, <4>1
    <3>2. CASE a \notin D!Compound(x[1])
      <4>1. u[a] = v[a] /\ t[a] = s[a] BY <1>1, <3>2
      <4>2. QED BY <4>1 DEF Valued, Asking, Restricting
    <3>3. QED BY <3>1, <3>2
  <2>2. QED BY <2>1
<1>4. u \in Valued BY <1>1, <1>3 DEF Valued
<1>5. t \in Asking BY <1>1, <1>3 DEF Asking
<1>6. Restricting(u, t) BY <1>3 DEF Restricting
<1>7. QED BY <1>4, <1>5, <1>6 DEF u, t

\* What SetAll goes through.
AfterBody(f, v, s, q, n) == IF n = 0 THEN <<v, s>>
                            ELSE <<D!SetOne(f[n - 1][1], q[n]), D!Noted(f[n - 1][2], q[n])>>
LEMMA AfterExists ==
    ASSUME NEW v \in Valued, NEW s \in Asking, NEW q \in Seq((D!Attr \cup {"align"}) \X Nat)
    PROVE  \E f : f = [n \in 0 .. Len(q) |-> AfterBody(f, v, s, q, n)]
<1> DEFINE Upto(m) == \E f : f = [n \in 0 .. m |-> AfterBody(f, v, s, q, n)]
           P == {m \in 0 .. Len(q) : Upto(m)}
<1>1. Len(q) \in Nat OBVIOUS
<1>2. 0 \in P
  <2> DEFINE f == [n \in 0 .. 0 |-> <<v, s>>]
  <2>1. \A n \in 0 .. 0 : n = 0 OBVIOUS
  <2>2. f = [n \in 0 .. 0 |-> AfterBody(f, v, s, q, n)] BY <2>1 DEF AfterBody
  <2> HIDE DEF f
  <2>3. QED BY <1>1, <2>2
<1>3. ASSUME NEW m \in 1 .. Len(q), m - 1 \in P PROVE m \in P
  <2>1. PICK f : f = [n \in 0 .. (m - 1) |-> AfterBody(f, v, s, q, n)] BY <1>3
  <2> DEFINE g == [n \in 0 .. m |-> IF n = m THEN AfterBody(f, v, s, q, m) ELSE f[n]]
  <2>2. \A n \in 0 .. (m - 1) : f[n] = AfterBody(f, v, s, q, n) BY <2>1, Zenon
  <2>3. \A n \in 0 .. m : n # 0 => n - 1 \in 0 .. (m - 1) /\ n - 1 \in 0 .. m /\ n - 1 # m OBVIOUS
  <2>4. \A n \in 0 .. m : n # 0 => g[n - 1] = f[n - 1] BY <2>3, Zenon
  <2>5. \A n \in 0 .. m : AfterBody(g, v, s, q, n) = AfterBody(f, v, s, q, n)
    <3> HIDE DEF g
    <3>1. QED BY <2>4 DEF AfterBody
  <2>6. \A n \in 0 .. m : n # m => n \in 0 .. (m - 1) OBVIOUS
  <2>7. \A n \in 0 .. m : (IF n = m THEN AfterBody(f, v, s, q, m) ELSE f[n]) = AfterBody(g, v, s, q, n)
    <3> HIDE DEF g
    <3>1. QED BY <2>2, <2>5, <2>6
  <2>8. g = [n \in 0 .. m |-> AfterBody(g, v, s, q, n)]
    <3>1. g = [n \in 0 .. m |-> IF n = m THEN AfterBody(f, v, s, q, m) ELSE f[n]] OBVIOUS
    <3> HIDE DEF g
    <3>2. QED BY <2>7, <3>1
  <2> HIDE DEF g
  <2>9. Upto(m) BY <2>8
  <2>10. m \in 0 .. Len(q) OBVIOUS
  <2>11. QED BY <2>9, <2>10
<1> HIDE DEF P
<1>4. \A n \in 0 .. Len(q) : n \in P BY <1>1, <1>2, <1>3, Climbing
<1>5. Len(q) \in P BY <1>1, <1>4
<1>6. QED BY <1>5 DEF P

\* Values that restrict as was asked still do when a list has been set.
LEMMA SetAllIs ==
    ASSUME NEW v \in Valued, NEW s \in Asking, Restricting(v, s),
           NEW q \in Seq((D!Attr \cup {"align"}) \X Nat), \A i \in DOMAIN q : q[i] \notin DmaUnsupported
    PROVE  /\ D!SetAll(v, s, q)[1] \in Valued /\ D!SetAll(v, s, q)[2] \in Asking
           /\ Restricting(D!SetAll(v, s, q)[1], D!SetAll(v, s, q)[2])
<1> DEFINE f == CHOOSE f : f = [n \in 0 .. Len(q) |-> AfterBody(f, v, s, q, n)]
<1>0. Len(q) \in Nat OBVIOUS
<1>1. f = [n \in 0 .. Len(q) |-> AfterBody(f, v, s, q, n)]
  <2>1. \E g : g = [n \in 0 .. Len(q) |-> AfterBody(g, v, s, q, n)]
    <3> HIDE DEF f
    <3>1. QED BY <1>0, AfterExists
  <2>2. QED BY <2>1, Zenon
<1>2. D!SetAll(v, s, q) = f[Len(q)] BY Zenon DEF D!SetAll, AfterBody
<1> HIDE DEF f
<1>3. \A n \in 0 .. Len(q) : f[n] = AfterBody(f, v, s, q, n) BY <1>1, Zenon
<1> DEFINE P == {n \in 0 .. Len(q) : /\ f[n][1] \in Valued /\ f[n][2] \in Asking
                                     /\ Restricting(f[n][1], f[n][2])}
<1>5. 0 \in P
  <2>1. 0 \in 0 .. Len(q) BY <1>0
  <2>2. f[0] = <<v, s>> BY <1>3, <2>1 DEF AfterBody
  <2>3. f[0][1] = v /\ f[0][2] = s BY <2>2
  <2>4. QED BY <2>1, <2>3
<1>6. ASSUME NEW n \in 1 .. Len(q), n - 1 \in P PROVE n \in P
  <2>1. /\ n \in 0 .. Len(q) /\ n # 0 /\ q[n] \in (D!Attr \cup {"align"}) \X Nat
        /\ q[n] \notin DmaUnsupported
    BY <1>0
  <2> DEFINE g == f[n - 1]
  <2>2. g[1] \in Valued /\ g[2] \in Asking /\ Restricting(g[1], g[2]) BY <1>6
  <2>3. f[n] = <<D!SetOne(g[1], q[n]), D!Noted(g[2], q[n])>> BY <1>3, <2>1 DEF AfterBody
  <2> HIDE DEF g
  <2>4. f[n][1] = D!SetOne(g[1], q[n]) /\ f[n][2] = D!Noted(g[2], q[n]) BY <2>3
  <2>5. QED BY <2>1, <2>2, <2>4, SetOneIs
<1> HIDE DEF P
<1>7. \A n \in 0 .. Len(q) : n \in P BY <1>0, <1>5, <1>6, Climbing
<1>8. Len(q) \in P BY <1>0, <1>7
<1>9. QED BY <1>2, <1>8 DEF P
-----------------------------------------------------------------------------
(* The beginning.                                                             *)
LEMMA DmaBegins == ASSUME D!ConstantsMakeSense, D!Init PROVE ResourcesInvOK
<1> DEFINE k == D!First(DmaConstraint)
           p == D!First(DmaPath)
           b == D!First(DmaBuf)
           m == D!First(DmaHandle)
<1>1. k \in DmaConstraint /\ p \in DmaPath /\ b \in DmaBuf /\ m \in DmaHandle
  BY FirstIs, Apart
<1> HIDE DEF k, p, b, m
<1>2. /\ cons = [x \in DmaConstraint |-> IF x = k THEN [vals |-> D!Default, paths |-> {}] ELSE D!NoCons]
      /\ path = [x \in DmaPath |-> [up |-> x = p, on |-> NoObject]]
      /\ hand = [h \in DmaHandle |-> IF h = m THEN [D!NoHand EXCEPT !.state = "memory", !.cons = k,
                                               !.base = 1, !.len = 1, !.mem = <<"0">>]
                                ELSE D!NoHand]
      /\ dmaBufs = [x \in DmaBuf |-> IF x = b THEN [D!NoBuf EXCEPT !.path = p, !.data = D!Bytes, !.size = 2]
                             ELSE D!NoBuf]
      /\ whole = [x \in DmaBuf |-> IF x = b THEN D!Bytes ELSE D!Nothing]
      /\ tracked = IF DmaTracker THEN {k, p, b, m} ELSE {}
      /\ ring = <<>> /\ dying = FALSE /\ dmaWild = FALSE
      /\ dmaAsked = [x \in DmaConstraint |-> [a \in D!Attr |-> {}]]
  BY DEF D!Init, k, p, b, m
<1>3. PICK r : r = [D!NoHand EXCEPT !.state = "memory", !.cons = k, !.base = 1, !.len = 1, !.mem = <<"0">>]
  OBVIOUS
<1>4. /\ r.state = "memory" /\ r.cons = k /\ r.flags = {} /\ r.buf = NoObject /\ r.base = 1
      /\ r.now = {} /\ r.len = 1 /\ r.mem = <<"0">> /\ (r.cons \in {k} => r \in [state : {"memory"}, cons : {k},
            flags : {{}}, buf : {NoObject}, base : {1}, now : {{}}, len : {1}, mem : {<<"0">>}])
  BY <1>3 DEF D!NoHand
<1>5. PICK t : t = [D!NoBuf EXCEPT !.path = p, !.data = D!Bytes, !.size = 2] OBVIOUS
<1>6. t.path = p /\ t.data = D!Bytes /\ t.size = 2 /\ t.holds = NoObject
      /\ t \in [path : {p}, data : {D!Bytes}, size : {2}, holds : {NoObject}]
  BY <1>5 DEF D!NoBuf
<1>7. /\ \A x \in DmaConstraint : cons[x] = IF x = k THEN [vals |-> D!Default, paths |-> {}] ELSE D!NoCons
      /\ \A x \in DmaPath : (path[x].up <=> x = p) /\ path[x].on = NoObject
      /\ \A h \in DmaHandle : hand[h] = IF h = m THEN r ELSE D!NoHand
      /\ \A x \in DmaBuf : dmaBufs[x] = IF x = b THEN t ELSE D!NoBuf
      /\ \A x \in DmaBuf : whole[x] = IF x = b THEN D!Bytes ELSE D!Nothing
      /\ \A x \in DmaConstraint : dmaAsked[x] = [a \in D!Attr |-> {}]
  <2>1. \A x \in DmaPath : path[x] = [up |-> x = p, on |-> NoObject] BY <1>2, Zenon
  <2>2. \A x \in DmaPath : (path[x].up <=> x = p) /\ path[x].on = NoObject
    <3>1. ASSUME NEW x \in DmaPath PROVE (path[x].up <=> x = p) /\ path[x].on = NoObject
      <4>1. path[x] = [up |-> x = p, on |-> NoObject] BY <2>1, Zenon
      <4>2. CASE x = p
        <5>1. path[x] = [up |-> TRUE, on |-> NoObject] BY <4>1, <4>2, Zenon
        <5>2. QED BY <5>1, <4>2
      <4>3. CASE x # p
        <5>1. path[x] = [up |-> FALSE, on |-> NoObject] BY <4>1, <4>3, Zenon
        <5>2. QED BY <5>1, <4>3
      <4>4. QED BY <4>2, <4>3
    <3>2. QED BY <3>1, Zenon
  <2>3. QED BY <1>2, <1>3, <1>5, <2>2
<1>8. /\ D!Bytes \in Seq(DmaByte) /\ Len(D!Bytes) = 2 /\ D!Bytes # D!Nothing
      /\ D!Default \in Valued /\ <<"0">> \in Seq(DmaByte) /\ Len(<<"0">>) = 1
      /\ <<>> \in Seq(DmaByte)
  BY AttrsAre DEF D!Bytes, DmaByte, D!Nothing, D!Default, Valued
<1>9. DmaTypes
  <2>1. [vals |-> D!Default, paths |-> {}] \in ConsRec BY <1>8 DEF ConsRec, Valued
  <2>2. r \in HandleRec /\ D!NoHand \in HandleRec
    BY <1>1, <1>4, <1>8 DEF FlagSets, HandleRec, HandleStates, D!NoHand
  <2>3. t \in BufRec /\ D!NoBuf \in BufRec BY <1>1, <1>6, <1>8 DEF BufRec, D!NoBuf
  <2>4. ring \in Seq(DmaHandle) BY <1>2
  <2>5. cons \in [DmaConstraint -> ConsRec \cup {D!NoCons}] BY <1>2, <2>1
  <2>6. path \in [DmaPath -> [up : BOOLEAN, on : DmaConstraint \cup {NoObject}]] BY <1>2
  <2>7. hand \in [DmaHandle -> HandleRec] BY <1>2, <1>3, <2>2
  <2>8. dmaBufs \in [DmaBuf -> BufRec] BY <1>2, <1>5, <2>3
  <2>9. dmaAsked \in [DmaConstraint -> [D!Attr -> SUBSET Nat]] BY <1>2
  <2>10. whole \in [DmaBuf -> Seq(DmaByte) \cup {D!Nothing}] BY <1>2, <1>8
  <2>11. dying \in BOOLEAN /\ ~dying BY <1>2
  <2>12. QED BY <2>4, <2>5, <2>6, <2>7, <2>8, <2>9, <2>10, <2>11 DEF DmaTypes
<1>10. \A x \in DmaConstraint : D!Live(x) <=> x = k
  <2>1. [vals |-> D!Default, paths |-> {}] # D!NoCons BY DEF D!NoCons
  <2>2. QED BY <1>1, <1>7, <2>1 DEF D!Live
<1>11. PathsOK
  <2>1. \A x \in DmaConstraint : D!Paths(x) = {} BY <1>7, <1>10 DEF D!Paths
  <2>2. \A q \in DmaPath : path[q].on = NoObject BY <1>7
  <2>3. NoObject \notin DmaConstraint /\ NoObject \notin DmaPath BY Apart
  <2>4. D!PathsAgree BY <2>1, <2>2, <2>3 DEF D!PathsAgree
  <2>5. \A x \in DmaBuf : dmaBufs[x].path # NoObject => dmaBufs[x].path = p
    BY <1>6, <1>7 DEF D!NoBuf
  <2>6. path[p].up BY <1>1, <1>7
  <2>7. QED BY <2>2, <2>4, <2>5, <2>6 DEF PathsOK
<1>12. D!Restricts
  <2>1. cons[k].vals = D!Default BY <1>1, <1>7
  <2>2. QED BY <1>7, <1>10, <2>1 DEF D!Restricts
<1>13. HandlesOK
  <2>1. \A h \in DmaHandle : /\ hand[h].state \in {"memory", "none"} /\ hand[h].buf = NoObject
                             /\ hand[h].state = "memory" => h = m
    BY <1>4, <1>7 DEF D!NoHand
  <2>a. Len(r.mem) = 1 BY <1>4, <1>8, Zenon
  <2>b. hand[m] = r BY <1>1, <1>7, Zenon
  <2>c. r.state = "memory" /\ r.base = 1 /\ r.len = 1 BY <1>4, Zenon
  <2>2. hand[m].state = "memory" /\ Len(hand[m].mem) = hand[m].len /\ hand[m].base <= hand[m].len
    BY <2>a, <2>b, <2>c
  <2>3. \A x \in DmaBuf : dmaBufs[x].path = NoObject => dmaBufs[x] = D!NoBuf
    BY <1>1, <1>6, <1>7, Apart
  <2>4. QED BY <1>2, <2>1, <2>2, <2>3 DEF HandlesOK, Working, Memory
<1>14. PlacesOK
  <2>1. \A x \in DmaBuf : dmaBufs[x].holds = NoObject BY <1>6, <1>7 DEF D!NoBuf
  <2>2. \A h \in DmaHandle : hand[h].state \in {"memory", "none"} BY <1>4, <1>7 DEF D!NoHand
  <2>3. Range(ring) = {} /\ Distinct(ring) BY <1>2 DEF Range, Distinct
  <2>4. NoObject \notin DmaHandle BY Apart
  <2>5. QED BY <2>1, <2>2, <2>3, <2>4 DEF PlacesOK
<1>15. TransfersOK
  <2>1. \A h \in DmaHandle : hand[h].state \in {"memory", "none"} BY <1>4, <1>7 DEF D!NoHand
  <2>2. D!DeviceSeesTheBuffer BY <2>1 DEF D!DeviceSeesTheBuffer
  <2>3. D!TransfersAreExact
    <3>1. dmaBufs[b].size = 2 /\ dmaBufs[b].data = D!Bytes /\ whole[b] = D!Bytes
      BY <1>1, <1>6, <1>7
    <3>2. D!Stretch(D!Bytes, 0, 2) = D!Bytes BY DEF D!Stretch, D!Bytes
    <3>3. QED BY <1>7, <1>8, <3>1, <3>2 DEF D!TransfersAreExact
  <2>4. QED BY <2>1, <2>2, <2>3 DEF TransfersOK, Working
<1>16. TrackedOK
  <2>1. \A h \in DmaHandle : Memory(h) <=> h = m BY <1>1, <1>4, <1>7 DEF Memory, D!NoHand
  <2>2. \A q \in DmaPath : path[q].up <=> q = p BY <1>7
  <2>3. \A x \in DmaBuf : (dmaBufs[x] # D!NoBuf <=> x = b) /\ ~D!IsExternal(x)
    <3>1. t # D!NoBuf BY <1>6 DEF D!NoBuf
    <3>2. QED BY <1>1, <1>6, <1>7, <3>1 DEF D!NoBuf, D!IsExternal
  <2>4. QED BY <1>1, <1>2, <1>10, <2>1, <2>2, <2>3, Apart DEF TrackedOK, There
<1>17. QED BY <1>9, <1>11, <1>12, <1>13, <1>14, <1>15, <1>16 DEF ResourcesInvOK
-----------------------------------------------------------------------------
(* Constraints and paths.                                                     *)
LEMMA LiveIsNext ==
    ASSUME D!ConstantsMakeSense, DmaTypes', NEW k \in DmaConstraint
    PROVE  /\ D!Live(k)' <=> cons'[k] \in ConsRec
           /\ D!Live(k)' => /\ cons'[k].vals \in [D!Attr -> Nat] /\ cons'[k].paths \subseteq DmaPath
                            /\ D!Paths(k)' = cons'[k].paths
           /\ ~D!Live(k)' => D!Paths(k)' = {} /\ cons'[k] = D!NoCons
BY Apart DEF DmaTypes, D!Live, D!Paths, ConsRec

LEMMA SameObjects ==
    ASSUME HandlesOK, PlacesOK, TransfersOK, UNCHANGED <<hand, dmaBufs, ring, whole, dying>>
    PROVE  HandlesOK' /\ PlacesOK' /\ TransfersOK'
<1>1. HandlesOK' BY DEF HandlesOK, Working, Memory
<1>2. PlacesOK' BY DEF PlacesOK
<1>3. TransfersOK'
  <2>1. (D!TransfersAreExact)'
    BY DEF TransfersOK, D!TransfersAreExact, D!Mapping
  <2>2. (D!DeviceSeesTheBuffer)' BY DEF TransfersOK, D!DeviceSeesTheBuffer
  <2>3. QED BY <2>1, <2>2 DEF TransfersOK, Working, Transfer
<1>4. QED BY <1>1, <1>2, <1>3

\* Attributes are set, in place or of new constraints.
LEMMA SetKeeps ==
    ASSUME D!ConstantsMakeSense, ResourcesInvOK, NEW src \in DmaConstraint \cup {NoObject},
           NEW specs \in DmaSpecs, NEW copy \in BOOLEAN, src # NoObject => D!Live(src),
           D!_udi_constraints_attr_set_complete(src, specs, copy \/ src = NoObject),
           UNCHANGED <<path, hand, dmaBufs, ring, dying, whole>>
    PROVE  ResourcesInvOK'
<1> DEFINE fail == \E i \in DOMAIN specs : specs[i] \in DmaUnsupported
           set == IF src = NoObject THEN D!SetAll(D!Default, [a \in D!Attr |-> {}], specs)
                  ELSE D!SetAll(cons[src].vals, dmaAsked[src], specs)
           Now(k, paths) == /\ cons' = [cons EXCEPT ![k] = [vals |-> set[1], paths |-> paths]]
                            /\ dmaAsked' = [dmaAsked EXCEPT ![k] = set[2]]
<1>1. /\ src # NoObject => D!Live(src)
      /\ IF fail THEN UNCHANGED <<cons, dmaAsked, tracked>>
         ELSE IF copy \/ src = NoObject
         THEN \E k \in D!Fresh({k \in DmaConstraint : ~D!Live(k)}) : Now(k, {}) /\ D!Add({k})
         ELSE Now(src, cons[src].paths) /\ UNCHANGED tracked
      /\ UNCHANGED <<path, hand, dmaBufs, ring, dying, whole>>
  BY Zenon DEF D!_udi_constraints_attr_set_complete, D!Refuses
<1>2. ~fail => set[1] \in Valued /\ set[2] \in Asking /\ Restricting(set[1], set[2])
  <2>1. specs \in Seq((D!Attr \cup {"align"}) \X Nat) BY DEF D!ConstantsMakeSense
  <2>2. CASE src = NoObject
    <3> DEFINE s == [a \in D!Attr |-> {}]
    <3>1. D!Default \in Valued BY AttrsAre DEF D!Default, Valued
    <3>2. s \in Asking BY DEF Asking
    <3>3. Restricting(D!Default, s) BY DEF Restricting
    <3>4. set = D!SetAll(D!Default, s, specs) BY <2>2
    <3> HIDE DEF s, set
    <3>5. QED BY <2>1, <3>1, <3>2, <3>3, <3>4, SetAllIs
  <2>3. CASE src # NoObject
    <3> DEFINE v == cons[src].vals
               s == dmaAsked[src]
    <3>1. src \in DmaConstraint /\ D!Live(src) BY <1>1, <2>3
    <3>2. v \in Valued /\ s \in Asking
      BY <3>1, LiveIs DEF ResourcesInvOK, DmaTypes, Valued, Asking
    <3>3. Restricting(v, s) BY <3>1 DEF ResourcesInvOK, D!Restricts, Restricting
    <3>4. set = D!SetAll(v, s, specs) BY <2>3
    <3> HIDE DEF s, v, set
    <3>5. QED BY <2>1, <3>2, <3>3, <3>4, SetAllIs
  <2>4. QED BY <2>2, <2>3
<1> HIDE DEF fail, set
<1>3. ASSUME fail PROVE ResourcesInvOK'
  <2>1. UNCHANGED <<cons, dmaAsked, tracked, path, hand, dmaBufs, ring, dying, whole>> BY <1>1, <1>3
  <2>2. HandlesOK' /\ PlacesOK' /\ TransfersOK' BY <2>1, SameObjects DEF ResourcesInvOK
  <2>3. DmaTypes' BY <2>1 DEF ResourcesInvOK, DmaTypes
  <2>4. PathsOK' BY <2>1 DEF ResourcesInvOK, PathsOK, D!PathsAgree, D!Paths, D!Live
  <2>5. (D!Restricts)' BY <2>1 DEF ResourcesInvOK, D!Restricts, D!Live
  <2>6. TrackedOK' BY <2>1 DEF ResourcesInvOK, TrackedOK, There, D!Live, Memory, D!IsExternal
  <2>7. QED BY <2>2, <2>3, <2>4, <2>5, <2>6 DEF ResourcesInvOK
<1>4. ASSUME ~fail, NEW k \in DmaConstraint, NEW paths \in SUBSET DmaPath, paths = D!Paths(k),
             Now(k, paths), D!Live(k) \/ D!Add({k}), D!Live(k) => UNCHANGED tracked
      PROVE  ResourcesInvOK'
  <2>1. PICK c : c = [vals |-> set[1], paths |-> paths] OBVIOUS
  <2>2. c.vals = set[1] /\ c.paths = paths BY <2>1
  <2>3. c \in ConsRec BY <1>2, <1>4, <2>1 DEF ConsRec, Valued
  <2>4. /\ cons' = [cons EXCEPT ![k] = c] /\ dmaAsked' = [dmaAsked EXCEPT ![k] = set[2]]
        /\ UNCHANGED <<path, hand, dmaBufs, ring, dying, whole>>
    BY <1>1, <1>4, <2>1
  <2>5. /\ cons'[k] = c /\ \A j \in DmaConstraint : j # k => cons'[j] = cons[j]
        /\ dmaAsked'[k] = set[2] /\ \A j \in DmaConstraint : j # k => dmaAsked'[j] = dmaAsked[j]
        /\ DOMAIN cons' = DmaConstraint
        /\ dmaAsked' \in [DmaConstraint -> [D!Attr -> SUBSET Nat]]
    BY <1>2, <1>4, <2>4 DEF ResourcesInvOK, DmaTypes, Asking
  <2>6. DmaTypes' BY <2>3, <2>4, <2>5 DEF ResourcesInvOK, DmaTypes
  <2>7. \A j \in DmaConstraint : /\ D!Live(j)' <=> j = k \/ D!Live(j)
                                 /\ D!Paths(j)' = D!Paths(j)
    <3>1. D!Live(k)' /\ D!Paths(k)' = paths BY <2>2, <2>3, <2>5, <2>6, LiveIsNext
    <3>2. \A j \in DmaConstraint : j # k => (D!Live(j)' <=> D!Live(j)) /\ D!Paths(j)' = D!Paths(j)
      BY <2>5 DEF D!Live, D!Paths
    <3>3. QED BY <1>4, <3>1, <3>2
  <2>8. PathsOK' BY <2>4, <2>7 DEF ResourcesInvOK, PathsOK, D!PathsAgree
  <2>9. (D!Restricts)'
    <3>1. ASSUME NEW j \in DmaConstraint, D!Live(j)' PROVE Restricting(cons'[j].vals, dmaAsked'[j])
      <4>1. CASE j = k BY <1>2, <1>4, <2>2, <2>5, <4>1
      <4>2. CASE j # k BY <2>5, <2>7, <3>1, <4>2 DEF ResourcesInvOK, D!Restricts, Restricting
      <4>3. QED BY <4>1, <4>2
    <3>2. QED BY <3>1 DEF D!Restricts, Restricting
  <2>10. HandlesOK' /\ PlacesOK' /\ TransfersOK' BY <2>4, SameObjects DEF ResourcesInvOK
  <2>11. TrackedOK'
    <3>1. DmaTracker => tracked' = tracked \cup {k}
      <4>1. D!Live(k) => k \in tracked \/ ~DmaTracker BY <1>4 DEF ResourcesInvOK, TrackedOK, There
      <4>2. QED BY <1>4, <4>1 DEF D!Add
    <3>2. \A x : There(x)' <=> There(x) \/ x = k
      BY <1>4, <2>4, <2>7 DEF There, Memory, D!IsExternal
    <3>3. QED BY <1>4, <3>1, <3>2 DEF ResourcesInvOK, TrackedOK
  <2>12. QED BY <2>6, <2>8, <2>9, <2>10, <2>11 DEF ResourcesInvOK
<1>5. CASE ~fail /\ (copy \/ src = NoObject)
  <2>1. PICK k \in D!Fresh({k \in DmaConstraint : ~D!Live(k)}) : Now(k, {}) /\ D!Add({k}) BY <1>1, <1>5
  <2>2. k \in DmaConstraint /\ ~D!Live(k) BY <2>1, FreshIs
  <2>3. {} = D!Paths(k) /\ {} \in SUBSET DmaPath BY <2>2 DEF D!Paths
  <2>4. QED BY <1>4, <1>5, <2>1, <2>2, <2>3
<1>6. CASE ~fail /\ ~(copy \/ src = NoObject)
  <2>1. src \in DmaConstraint /\ D!Live(src) BY <1>1, <1>6
  <2>2. cons[src].paths = D!Paths(src) /\ cons[src].paths \in SUBSET DmaPath
    BY <2>1, LiveIs DEF ResourcesInvOK
  <2>3. Now(src, cons[src].paths) /\ UNCHANGED tracked BY <1>1, <1>6
  <2>4. QED BY <1>4, <1>6, <2>1, <2>2, <2>3
<1>7. QED BY <1>3, <1>5, <1>6

\* An attribute has its default again.
LEMMA ResetKeeps ==
    ASSUME D!ConstantsMakeSense, ResourcesInvOK, NEW k \in DmaConstraint, NEW a \in D!Attr,
           D!udi_dma_constraints_attr_reset(k, a)
    PROVE  ResourcesInvOK'
<1>1. /\ D!Live(k) /\ cons' = [cons EXCEPT ![k].vals[a] = D!Default[a]]
      /\ dmaAsked' = [dmaAsked EXCEPT ![k][a] = {}]
      /\ UNCHANGED <<path, hand, dmaBufs, ring, tracked, dying, whole>>
  BY DEF D!udi_dma_constraints_attr_reset
<1>2. PICK c : c = [cons[k] EXCEPT !.vals[a] = D!Default[a]] OBVIOUS
<1>3. D!Default \in Valued BY AttrsAre DEF D!Default, Valued
<1>4. cons[k] \in ConsRec BY <1>1, LiveIs DEF ResourcesInvOK
<1>5. /\ c \in ConsRec /\ c.paths = cons[k].paths /\ c.vals = [cons[k].vals EXCEPT ![a] = D!Default[a]]
  BY <1>2, <1>3, <1>4 DEF ConsRec, Valued
<1>6. /\ cons'[k] = c /\ \A j \in DmaConstraint : j # k => cons'[j] = cons[j]
      /\ dmaAsked'[k] = [dmaAsked[k] EXCEPT ![a] = {}]
      /\ \A j \in DmaConstraint : j # k => dmaAsked'[j] = dmaAsked[j]
      /\ DOMAIN cons' = DmaConstraint
      /\ dmaAsked' \in [DmaConstraint -> [D!Attr -> SUBSET Nat]]
  BY <1>1, <1>2 DEF ResourcesInvOK, DmaTypes
<1>7. DmaTypes' BY <1>1, <1>5, <1>6 DEF ResourcesInvOK, DmaTypes
<1>8. \A j \in DmaConstraint : (D!Live(j)' <=> D!Live(j)) /\ D!Paths(j)' = D!Paths(j)
  <2>1. D!Live(k)' /\ D!Paths(k)' = D!Paths(k)
    BY <1>1, <1>5, <1>6, <1>7, LiveIs, LiveIsNext DEF ResourcesInvOK
  <2>2. \A j \in DmaConstraint : j # k => (D!Live(j)' <=> D!Live(j)) /\ D!Paths(j)' = D!Paths(j)
    BY <1>6 DEF D!Live, D!Paths
  <2>3. QED BY <1>1, <2>1, <2>2
<1>9. PathsOK' BY <1>1, <1>8 DEF ResourcesInvOK, PathsOK, D!PathsAgree
<1>10. (D!Restricts)'
  <2>1. ASSUME NEW j \in DmaConstraint, D!Live(j)' PROVE Restricting(cons'[j].vals, dmaAsked'[j])
    <3>1. Restricting(cons[j].vals, dmaAsked[j])
      BY <1>8, <2>1 DEF ResourcesInvOK, D!Restricts, Restricting
    <3>2. CASE j = k
      <4>1. cons[k].vals \in Valued /\ dmaAsked[k] \in Asking
        BY <1>4 DEF ResourcesInvOK, DmaTypes, ConsRec, Valued, Asking
      <4>2. \A e \in D!Attr : /\ cons'[k].vals[e] = IF e = a THEN D!Default[a] ELSE cons[k].vals[e]
                              /\ dmaAsked'[k][e] = IF e = a THEN {} ELSE dmaAsked[k][e]
        BY <1>5, <1>6, <4>1 DEF Valued, Asking
      <4>3. QED BY <3>1, <3>2, <4>2 DEF Restricting
    <3>3. CASE j # k BY <1>6, <3>1, <3>3
    <3>4. QED BY <3>2, <3>3
  <2>2. QED BY <2>1 DEF D!Restricts, Restricting
<1>11. HandlesOK' /\ PlacesOK' /\ TransfersOK' BY <1>1, SameObjects DEF ResourcesInvOK
<1>12. TrackedOK'
  <2>1. \A x : There(x)' <=> There(x) BY <1>1, <1>8 DEF There, Memory, D!IsExternal
  <2>2. QED BY <1>1, <2>1 DEF ResourcesInvOK, TrackedOK
<1>13. QED BY <1>7, <1>9, <1>10, <1>11, <1>12 DEF ResourcesInvOK

\* The paths of some constraints are untied from them.
LEMMA Untied ==
    ASSUME D!ConstantsMakeSense, DmaTypes, D!PathsAgree, NEW k, D!Dissociate(k)
    PROVE  /\ path' \in [DmaPath -> [up : BOOLEAN, on : DmaConstraint \cup {NoObject}]]
           /\ \A p \in DmaPath : /\ path'[p].up <=> path[p].up
                                 /\ path'[p].on = IF p \in D!Paths(k) THEN NoObject ELSE path[p].on
<1>1. path \in [DmaPath -> [up : BOOLEAN, on : DmaConstraint \cup {NoObject}]] BY DEF DmaTypes
<1>2. path' = [p \in DmaPath |-> IF p \in D!Paths(k) THEN [path[p] EXCEPT !.on = NoObject] ELSE path[p]]
  BY DEF D!Dissociate
<1>3. QED BY <1>1, <1>2

\* Constraints are freed, by the driver or for it.
LEMMA FreeConsKeeps ==
    ASSUME D!ConstantsMakeSense, ResourcesInvOK, NEW k \in DmaConstraint, D!Live(k), D!FreeCons(k),
           UNCHANGED <<dying, dmaAsked, whole>>
    PROVE  ResourcesInvOK'
<1>1. /\ cons' = [cons EXCEPT ![k] = D!NoCons] /\ D!Dissociate(k)
      /\ tracked' = tracked \ {k} /\ UNCHANGED <<hand, dmaBufs, ring>>
  BY DEF D!FreeCons, D!Remove
<1>2. /\ path' \in [DmaPath -> [up : BOOLEAN, on : DmaConstraint \cup {NoObject}]]
      /\ \A p \in DmaPath : /\ path'[p].up <=> path[p].up
                            /\ path'[p].on = IF p \in D!Paths(k) THEN NoObject ELSE path[p].on
  BY <1>1, Untied DEF ResourcesInvOK, PathsOK
<1>3. /\ cons'[k] = D!NoCons /\ \A j \in DmaConstraint : j # k => cons'[j] = cons[j]
      /\ DOMAIN cons' = DmaConstraint
  BY <1>1 DEF ResourcesInvOK, DmaTypes
<1>4. DmaTypes' BY <1>1, <1>2, <1>3 DEF ResourcesInvOK, DmaTypes
<1>5. \A j \in DmaConstraint : /\ D!Live(j)' <=> j # k /\ D!Live(j)
                               /\ D!Paths(j)' = IF j = k THEN {} ELSE D!Paths(j)
  BY <1>3 DEF D!Live, D!Paths
<1>6. PathsOK'
  <2>1. (D!PathsAgree)'
    <3>1. ASSUME NEW j \in DmaConstraint, NEW p \in DmaPath
          PROVE  p \in D!Paths(j)' <=> (path'[p].up /\ path'[p].on = j)
      <4>1. p \in D!Paths(j) <=> (path[p].up /\ path[p].on = j)
        BY DEF ResourcesInvOK, PathsOK, D!PathsAgree
      <4>2. p \in D!Paths(k) <=> (path[p].up /\ path[p].on = k)
        BY DEF ResourcesInvOK, PathsOK, D!PathsAgree
      <4>3. j # NoObject BY Apart
      <4>4. QED BY <1>2, <1>5, <4>1, <4>2, <4>3
    <3>2. QED BY <3>1 DEF D!PathsAgree
  <2>2. QED BY <1>1, <1>2, <2>1 DEF ResourcesInvOK, PathsOK, DmaTypes, BufRec
<1>7. (D!Restricts)' BY <1>3, <1>5 DEF ResourcesInvOK, D!Restricts
<1>8. HandlesOK' /\ PlacesOK' /\ TransfersOK' BY <1>1, SameObjects DEF ResourcesInvOK
<1>9. TrackedOK'
  <2>1. \A x : There(x)' <=> There(x) /\ x # k
    BY <1>1, <1>2, <1>5, Apart DEF There, Memory, D!IsExternal
  <2>2. QED BY <1>1, <2>1 DEF ResourcesInvOK, TrackedOK
<1>10. QED BY <1>4, <1>6, <1>7, <1>8, <1>9 DEF ResourcesInvOK

\* A path is made, and freed.
LEMMA PathAllocKeeps ==
    ASSUME D!ConstantsMakeSense, ResourcesInvOK, D!udi_buf_path_alloc PROVE ResourcesInvOK'
<1>1. PICK q \in D!Fresh({p \in DmaPath : ~path[p].up}) :
         path' = [path EXCEPT ![q].up = TRUE] /\ D!Add({q})
  BY DEF D!udi_buf_path_alloc
<1>2. q \in DmaPath /\ ~path[q].up BY <1>1, FreshIs
<1>3. UNCHANGED <<cons, hand, dmaBufs, ring, dying, dmaAsked, whole>>
  BY DEF D!udi_buf_path_alloc
<1>4. /\ path' \in [DmaPath -> [up : BOOLEAN, on : DmaConstraint \cup {NoObject}]]
      /\ \A p \in DmaPath : /\ path'[p].up <=> path[p].up \/ p = q
                            /\ path'[p].on = path[p].on
  <2>1. path \in [DmaPath -> [up : BOOLEAN, on : DmaConstraint \cup {NoObject}]]
    BY DEF ResourcesInvOK, DmaTypes
  <2>2. QED BY <1>1, <1>2, <2>1
<1>5. DmaTypes' BY <1>3, <1>4 DEF ResourcesInvOK, DmaTypes
<1>6. \A j \in DmaConstraint : (D!Live(j)' <=> D!Live(j)) /\ D!Paths(j)' = D!Paths(j)
  BY <1>3 DEF D!Live, D!Paths
<1>7. PathsOK'
  <2>1. path[q].on = NoObject BY <1>2 DEF ResourcesInvOK, PathsOK
  <2>2. (D!PathsAgree)'
    BY <1>2, <1>4, <1>6, <2>1, Apart DEF ResourcesInvOK, PathsOK, D!PathsAgree
  <2>3. QED BY <1>2, <1>3, <1>4, <2>2 DEF ResourcesInvOK, PathsOK, DmaTypes, BufRec
<1>8. (D!Restricts)' BY <1>3, <1>6 DEF ResourcesInvOK, D!Restricts
<1>9. HandlesOK' /\ PlacesOK' /\ TransfersOK' BY <1>3, SameObjects DEF ResourcesInvOK
<1>10. TrackedOK'
  <2>1. \A x : There(x)' <=> There(x) \/ x = q
    BY <1>2, <1>3, <1>4, <1>6 DEF There, Memory, D!IsExternal
  <2>2. DmaTracker => tracked' = tracked \cup {q} BY <1>1 DEF D!Add
  <2>3. QED BY <1>2, <2>1, <2>2 DEF ResourcesInvOK, TrackedOK
<1>11. QED BY <1>5, <1>7, <1>8, <1>9, <1>10 DEF ResourcesInvOK

LEMMA FreePathKeeps ==
    ASSUME D!ConstantsMakeSense, ResourcesInvOK, NEW q \in DmaPath, path[q].up,
           ~dying => \A b \in DmaBuf : dmaBufs[b].path # q,
           D!FreePath(q), UNCHANGED <<dying, dmaAsked, whole>>
    PROVE  ResourcesInvOK'
<1>1. /\ path' = [path EXCEPT ![q] = [up |-> FALSE, on |-> NoObject]]
      /\ cons' = [k \in DmaConstraint |-> IF D!Live(k) THEN [cons[k] EXCEPT !.paths = @ \ {q}]
                                    ELSE cons[k]]
      /\ tracked' = tracked \ {q} /\ UNCHANGED <<hand, dmaBufs, ring>>
  BY DEF D!FreePath, D!Remove
<1>2. /\ path' \in [DmaPath -> [up : BOOLEAN, on : DmaConstraint \cup {NoObject}]]
      /\ \A p \in DmaPath : /\ path'[p].up <=> path[p].up /\ p # q
                            /\ path'[p].on = IF p = q THEN NoObject ELSE path[p].on
  <2>1. path \in [DmaPath -> [up : BOOLEAN, on : DmaConstraint \cup {NoObject}]]
    BY DEF ResourcesInvOK, DmaTypes
  <2>2. QED BY <1>1, <2>1
<1>3. ASSUME NEW k \in DmaConstraint
      PROVE  /\ D!Live(k) => /\ cons'[k] \in ConsRec /\ cons'[k].vals = cons[k].vals
                             /\ cons'[k].paths = cons[k].paths \ {q}
             /\ ~D!Live(k) => cons'[k] = cons[k]
  <2>1. cons'[k] = IF D!Live(k) THEN [cons[k] EXCEPT !.paths = @ \ {q}] ELSE cons[k] BY <1>1
  <2>2. D!Live(k) => cons[k] \in ConsRec BY LiveIs DEF ResourcesInvOK
  <2>3. QED BY <2>1, <2>2 DEF ConsRec
<1>4. DmaTypes'
  <2>1. DOMAIN cons' = DmaConstraint BY <1>1
  <2>2. \A k \in DmaConstraint : cons'[k] \in ConsRec \cup {D!NoCons}
    BY <1>3, LiveIs DEF ResourcesInvOK
  <2>3. QED BY <1>1, <1>2, <2>1, <2>2 DEF ResourcesInvOK, DmaTypes
<1>5. \A j \in DmaConstraint : /\ D!Live(j)' <=> D!Live(j)
                               /\ D!Paths(j)' = D!Paths(j) \ {q}
  <2>1. ASSUME NEW j \in DmaConstraint
        PROVE  (D!Live(j)' <=> D!Live(j)) /\ D!Paths(j)' = D!Paths(j) \ {q}
    <3>1. CASE D!Live(j) BY <1>3, <1>4, <3>1, LiveIs, LiveIsNext DEF ResourcesInvOK
    <3>2. CASE ~D!Live(j)
      <4>1. cons'[j] = cons[j] BY <1>3, <3>2
      <4>2. QED BY <3>2, <4>1 DEF D!Live, D!Paths
    <3>3. QED BY <3>1, <3>2
  <2>2. QED BY <2>1
<1>6. PathsOK'
  <2>1. (D!PathsAgree)'
    BY <1>2, <1>5, Apart DEF ResourcesInvOK, PathsOK, D!PathsAgree
  <2>2. QED BY <1>1, <1>2, <2>1 DEF ResourcesInvOK, PathsOK, DmaTypes, BufRec
<1>7. (D!Restricts)' BY <1>3, <1>5 DEF ResourcesInvOK, D!Restricts
<1>8. HandlesOK' /\ PlacesOK' /\ TransfersOK' BY <1>1, SameObjects DEF ResourcesInvOK
<1>9. TrackedOK'
  <2>1. \A x : There(x)' <=> There(x) /\ x # q
    BY <1>1, <1>2, <1>5, Apart DEF There, Memory, D!IsExternal
  <2>2. QED BY <1>1, <2>1 DEF ResourcesInvOK, TrackedOK
<1>10. QED BY <1>4, <1>6, <1>7, <1>8, <1>9 DEF ResourcesInvOK
-----------------------------------------------------------------------------
(* Handles.                                                                   *)
LEMMA SameConstraints ==
    ASSUME PathsOK, D!Restricts, UNCHANGED <<cons, path, dmaAsked, dying>>,
           \A b \in DmaBuf : dmaBufs'[b].path # NoObject =>
              dmaBufs'[b].path = dmaBufs[b].path \/ path[dmaBufs'[b].path].up
    PROVE  PathsOK' /\ (D!Restricts)' /\ \A k : D!Live(k)' <=> D!Live(k)
<1>1. \A k : (D!Live(k)' <=> D!Live(k)) /\ D!Paths(k)' = D!Paths(k) BY DEF D!Live, D!Paths
<1>2. (D!PathsAgree)' BY <1>1 DEF PathsOK, D!PathsAgree
<1>3. QED BY <1>1, <1>2 DEF PathsOK, D!Restricts

\* A handle changes that no mapping has, nor after the change.
LEMMA PlainChange ==
    ASSUME D!ConstantsMakeSense, ResourcesInvOK, NEW h \in DmaHandle, NEW r \in HandleRec,
           hand' = [hand EXCEPT ![h] = r], UNCHANGED <<cons, path, dmaBufs, dying, dmaAsked, whole>>,
           r.state \notin {"map", "mapped"}, r.buf = NoObject,
           ~Working(h), PlacesOK', ring' \in Seq(DmaHandle),
           r.state \in {"memory", "lent", "pool"} => Len(r.mem) = r.len,
           r.state \in {"memory", "alloc"} => r.base <= r.len,
           dying => r.state \notin {"prepare", "alloc"},
           DmaTracker => /\ \A x : x # h => (x \in tracked' <=> x \in tracked)
                         /\ h \in tracked' <=> r.state \in {"memory", "lent", "pool"}
    PROVE  ResourcesInvOK'
<1>1. hand'[h] = r /\ \A g \in DmaHandle : g # h => hand'[g] = hand[g]
  BY DEF ResourcesInvOK, DmaTypes
<1>2. DmaTypes' BY DEF ResourcesInvOK, DmaTypes
<1>3. PathsOK' /\ (D!Restricts)' /\ \A k : D!Live(k)' <=> D!Live(k)
  BY SameConstraints DEF ResourcesInvOK
<1>4. /\ \A g \in DmaHandle : Working(g)' <=> Working(g)
      /\ \A g \in DmaHandle : Working(g) => g # h
      /\ hand[h].buf = NoObject
  BY <1>1 DEF ResourcesInvOK, HandlesOK, Working
<1>5. HandlesOK'
  <2>1. \A g \in DmaHandle :
         /\ Working(g)' <=> hand'[g].buf # NoObject
         /\ Working(g)' => hand'[g].now \in D!Flags /\ dmaBufs'[hand'[g].buf].path # NoObject
         /\ hand'[g].state = "mapped" \/ Memory(g)' => Len(hand'[g].mem) = hand'[g].len
         /\ hand'[g].state \in {"memory", "alloc"} => hand'[g].base <= hand'[g].len
    <3>1. \A g \in DmaHandle : g # h =>
         /\ Working(g)' <=> hand'[g].buf # NoObject
         /\ Working(g)' => hand'[g].now \in D!Flags /\ dmaBufs'[hand'[g].buf].path # NoObject
         /\ hand'[g].state = "mapped" \/ Memory(g)' => Len(hand'[g].mem) = hand'[g].len
         /\ hand'[g].state \in {"memory", "alloc"} => hand'[g].base <= hand'[g].len
      BY <1>1 DEF ResourcesInvOK, HandlesOK, Working, Memory
    <3>2. QED BY <1>1, <3>1 DEF Working, Memory
  <2>2. \A f, g \in DmaHandle : hand'[f].buf = hand'[g].buf /\ hand'[f].buf # NoObject => f = g
    BY <1>1, <1>4 DEF ResourcesInvOK, HandlesOK
  <2>3. dying' => \A g \in DmaHandle : ~Working(g)' /\ hand'[g].state \notin {"prepare", "alloc"}
    BY <1>1, <1>4 DEF ResourcesInvOK, HandlesOK
  <2>4. \A b \in DmaBuf : dmaBufs'[b].path = NoObject => dmaBufs'[b] = D!NoBuf
    BY DEF ResourcesInvOK, HandlesOK
  <2>5. QED BY <2>1, <2>2, <2>3, <2>4 DEF HandlesOK
<1>7. TransfersOK'
  <2>1. \A b \in DmaBuf : D!Mapping(b)' <=> D!Mapping(b)
    BY <1>1, <1>4, Apart DEF D!Mapping
  <2>2. (D!TransfersAreExact)' BY <2>1 DEF ResourcesInvOK, TransfersOK, D!TransfersAreExact
  <2>3. (D!DeviceSeesTheBuffer)'
    BY <1>1 DEF ResourcesInvOK, TransfersOK, D!DeviceSeesTheBuffer
  <2>4. \A g \in DmaHandle : Working(g)' /\ whole'[hand'[g].buf] # D!Nothing => Transfer(g)'
    BY <1>1, <1>4 DEF ResourcesInvOK, TransfersOK, Transfer
  <2>5. QED BY <2>2, <2>3, <2>4 DEF TransfersOK
<1>8. TrackedOK'
  <2>1. \A x \in DmaHandle : Memory(x)' <=> IF x = h THEN r.state \in {"memory", "lent", "pool"} ELSE Memory(x)
    BY <1>1 DEF Memory
  <2>2. \A x : x # h => (There(x)' <=> There(x))
    BY <1>3, <2>1 DEF There, D!IsExternal
  <2>3. There(h)' <=> r.state \in {"memory", "lent", "pool"} BY <2>1, Apart DEF There
  <2>4. QED BY <2>2, <2>3 DEF ResourcesInvOK, TrackedOK
<1>9. QED BY <1>2, <1>3, <1>5, <1>7, <1>8 DEF ResourcesInvOK

\* The handle is in no buffer or pool either.
LEMMA PlainKeeps ==
    ASSUME D!ConstantsMakeSense, ResourcesInvOK, NEW h \in DmaHandle, NEW r \in HandleRec,
           hand' = [hand EXCEPT ![h] = r], UNCHANGED <<cons, path, dmaBufs, ring, dying, dmaAsked, whole>>,
           r.state \in {"none", "prepare", "ready", "alloc", "memory"}, r.buf = NoObject,
           ~Working(h), ~dying => hand[h].state \notin {"lent", "pool"},
           r.state = "memory" => Len(r.mem) = r.len,
           r.state \in {"memory", "alloc"} => r.base <= r.len,
           dying => r.state \notin {"prepare", "alloc"},
           DmaTracker => /\ \A x : x # h => (x \in tracked' <=> x \in tracked)
                         /\ h \in tracked' <=> r.state = "memory"
    PROVE  ResourcesInvOK'
<1>1. hand'[h] = r /\ \A g \in DmaHandle : g # h => hand'[g] = hand[g]
  BY DEF ResourcesInvOK, DmaTypes
<1>2. PlacesOK' BY <1>1 DEF ResourcesInvOK, PlacesOK
<1>3. ring' \in Seq(DmaHandle) BY DEF ResourcesInvOK, DmaTypes
<1>4. QED BY <1>2, <1>3, PlainChange

\* What the records of a handle are.
LEMMA HandleIs ==
    ASSUME ResourcesInvOK, NEW h \in DmaHandle
    PROVE  /\ hand \in [DmaHandle -> HandleRec] /\ hand[h] \in HandleRec
           /\ hand[h].state \in HandleStates /\ hand[h].base \in 0 .. 2 /\ hand[h].len \in 0 .. 2
           /\ hand[h].mem \in Seq(DmaByte)
           /\ ~Working(h) => hand[h].buf = NoObject
           /\ hand[h].state = "mapped" \/ Memory(h) => Len(hand[h].mem) = hand[h].len
           /\ DmaTracker => (h \in tracked <=> Memory(h) \/ There(h))
BY DEF ResourcesInvOK, DmaTypes, HandleRec, HandlesOK, TrackedOK, There

LEMMA HandleTracked ==
    ASSUME D!ConstantsMakeSense, ResourcesInvOK, NEW h \in DmaHandle, DmaTracker
    PROVE  h \in tracked <=> Memory(h)
BY Apart DEF ResourcesInvOK, TrackedOK, There

LEMMA NoHandleIs == D!NoHand \in HandleRec /\ D!NoHand.state = "none" /\ D!NoHand.buf = NoObject
<1>1. <<>> \in Seq(DmaByte) OBVIOUS
<1>2. QED BY <1>1 DEF D!NoHand, HandleRec, HandleStates, FlagSets

\* A handle is prepared.
LEMMA PrepareKeeps ==
    ASSUME D!ConstantsMakeSense, ResourcesInvOK, NEW k \in DmaConstraint, NEW f \in D!Flags,
           D!udi_dma_prepare(k, f)
    PROVE  ResourcesInvOK'
<1>1. PICK h \in D!Fresh({h \in DmaHandle : D!Gone(h)}) :
        hand' = [hand EXCEPT ![h] = [D!NoHand EXCEPT !.state = "prepare", !.cons = k, !.flags = f]]
  BY DEF D!udi_dma_prepare
<1>2. h \in DmaHandle /\ hand[h].state = "none" BY <1>1, FreshIs DEF D!Gone
<1>3. ~dying /\ UNCHANGED <<cons, path, dmaBufs, ring, tracked, dying, dmaAsked, whole>>
  BY DEF D!udi_dma_prepare, D!Call
<1>4. PICK r : r = [D!NoHand EXCEPT !.state = "prepare", !.cons = k, !.flags = f] OBVIOUS
<1>5. r \in HandleRec /\ r.state = "prepare" /\ r.buf = NoObject
  <2>1. f \in FlagSets BY NoFlags
  <2>2. <<>> \in Seq(DmaByte) OBVIOUS
  <2>3. r.flags \in FlagSets /\ r.now \in FlagSets /\ r.mem \in Seq(DmaByte)
    BY <1>4, <2>1, <2>2 DEF D!NoHand, FlagSets
  <2>4. /\ r.state = "prepare" /\ r.buf = NoObject /\ r.base = 0 /\ r.len = 0 /\ r.cons = k
        /\ DOMAIN r = {"state", "cons", "flags", "buf", "base", "now", "len", "mem"}
    BY <1>4 DEF D!NoHand
  <2>5. r = [state |-> r.state, cons |-> r.cons, flags |-> r.flags, buf |-> r.buf, base |-> r.base,
             now |-> r.now, len |-> r.len, mem |-> r.mem]
    BY <1>4 DEF D!NoHand
  <2>6. QED BY <2>3, <2>4, <2>5 DEF HandleRec, HandleStates
<1>6. hand' = [hand EXCEPT ![h] = r] BY <1>1, <1>4
<1>7. DmaTracker => h \notin tracked BY <1>2, HandleTracked DEF Memory
<1>8. QED BY <1>2, <1>3, <1>5, <1>6, <1>7, PlainKeeps DEF Working

\* What is said of a handle of memory when one is made, or filled by its driver.
LEMMA FilledIs ==
    ASSUME NEW n \in 0 .. 2
    PROVE  /\ [i \in 1 .. n |-> "0"] \in Seq(DmaByte) /\ Len([i \in 1 .. n |-> "0"]) = n
           /\ LET t == [i \in 1 .. n |-> <<"d", "e">>[i]] IN t \in Seq(DmaByte) /\ Len(t) = n
<1>1. n \in Nat /\ \A i \in 1 .. n : i \in {1, 2} OBVIOUS
<1>2. \A i \in {1, 2} : <<"d", "e">>[i] \in DmaByte BY DEF DmaByte
<1>3. "0" \in DmaByte BY DEF DmaByte
<1>4. \A t \in [1 .. n -> DmaByte] : t \in Seq(DmaByte) /\ Len(t) = n BY <1>1
<1>5. [i \in 1 .. n |-> "0"] \in [1 .. n -> DmaByte] BY <1>3
<1>6. [i \in 1 .. n |-> <<"d", "e">>[i]] \in [1 .. n -> DmaByte] BY <1>1, <1>2
<1>7. QED BY <1>4, <1>5, <1>6

Overwritten(s, n, m) == [i \in 1 .. n |-> IF i <= m THEN <<"f", "g">>[i] ELSE s[i]]

LEMMA OverwrittenIs ==
    ASSUME NEW s \in Seq(DmaByte), NEW n \in 0 .. 2, n = Len(s), NEW m \in 0 .. 2
    PROVE  Overwritten(s, n, m) \in Seq(DmaByte) /\ Len(Overwritten(s, n, m)) = n
<1>1. n \in Nat /\ \A i \in 1 .. n : i \in {1, 2} OBVIOUS
<1>2. \A i \in {1, 2} : <<"f", "g">>[i] \in DmaByte BY DEF DmaByte
<1>3. \A i \in 1 .. n : s[i] \in DmaByte BY ElementOfSeq
<1>4. Overwritten(s, n, m) \in [1 .. n -> DmaByte] BY <1>1, <1>2, <1>3 DEF Overwritten
<1>5. \A t \in [1 .. n -> DmaByte] : t \in Seq(DmaByte) /\ Len(t) = n BY <1>1
<1>6. QED BY <1>4, <1>5

\* Memory is asked for, from the pool or anew.
LEMMA NewMemoryKeeps ==
    ASSUME D!ConstantsMakeSense, ResourcesInvOK, NEW k \in DmaConstraint, NEW n \in 1 .. 2,
           D!udi_dma_mem_alloc(k, n), D!Pooled(k, n) = {}
    PROVE  ResourcesInvOK'
<1>1. PICK h \in D!Fresh({h \in DmaHandle : D!Gone(h)}) :
        hand' = [hand EXCEPT ![h] = [D!NoHand EXCEPT !.state = "alloc", !.cons = k, !.len = n, !.base = n]]
  BY DEF D!udi_dma_mem_alloc
<1>2. h \in DmaHandle /\ hand[h].state = "none" BY <1>1, FreshIs DEF D!Gone
<1>3. ~dying /\ UNCHANGED <<cons, path, dmaBufs, ring, tracked, dying, dmaAsked, whole>>
  BY DEF D!udi_dma_mem_alloc, D!Call
<1>4. PICK r : r = [D!NoHand EXCEPT !.state = "alloc", !.cons = k, !.len = n, !.base = n] OBVIOUS
<1>5. r \in HandleRec /\ r.state = "alloc" /\ r.buf = NoObject /\ r.base <= r.len
  <2>1. <<>> \in Seq(DmaByte) /\ n \in 0 .. 2 OBVIOUS
  <2>2. r \in HandleRec BY <1>4, <2>1 DEF D!NoHand, HandleRec, HandleStates, FlagSets
  <2>3. r.state = "alloc" /\ r.buf = NoObject /\ r.base = n /\ r.len = n BY <1>4 DEF D!NoHand
  <2>4. QED BY <2>2, <2>3
<1>6. hand' = [hand EXCEPT ![h] = r] BY <1>1, <1>4
<1>7. DmaTracker => h \notin tracked BY <1>2, HandleTracked DEF Memory
<1>8. QED BY <1>2, <1>3, <1>5, <1>6, <1>7, PlainKeeps DEF Working

\* The daemon completes a preparation or an allocation.
LEMMA CompletePrepareKeeps ==
    ASSUME D!ConstantsMakeSense, ResourcesInvOK, NEW h \in DmaHandle, D!CompletePrepare(h),
           UNCHANGED <<cons, path, dmaBufs, ring, dying, dmaAsked, whole>>
    PROVE  ResourcesInvOK'
<1>1. PICK r : r = [hand[h] EXCEPT !.state = "ready"] OBVIOUS
<1>2. /\ hand[h].state = "prepare" /\ hand' = [hand EXCEPT ![h] = r] /\ UNCHANGED tracked
  BY <1>1 DEF D!CompletePrepare
<1>3. hand[h] \in HandleRec /\ hand[h].buf = NoObject BY <1>2, HandleIs DEF Working
<1>4. r \in HandleRec /\ r.state = "ready" /\ r.buf = NoObject
  BY <1>1, <1>3 DEF HandleRec, HandleStates
<1>5. ~dying BY <1>2 DEF ResourcesInvOK, HandlesOK
<1>6. DmaTracker => h \notin tracked BY <1>2, HandleTracked DEF Memory
<1>7. QED BY <1>2, <1>4, <1>5, <1>6, PlainKeeps DEF Working

LEMMA CompleteAllocKeeps ==
    ASSUME D!ConstantsMakeSense, ResourcesInvOK, NEW h \in DmaHandle, D!CompleteAlloc(h),
           UNCHANGED <<cons, path, dmaBufs, ring, dying, dmaAsked, whole>>
    PROVE  ResourcesInvOK'
<1>1. PICK m : m = [i \in 1 .. hand[h].len |-> "0"] OBVIOUS
<1>2. PICK r : r = [hand[h] EXCEPT !.state = "memory", !.mem = m] OBVIOUS
<1>3. /\ hand[h].state = "alloc" /\ hand' = [hand EXCEPT ![h] = r] /\ D!Add({h})
  <2>1. hand[h].state = "alloc" /\ D!Add({h}) BY DEF D!CompleteAlloc
  <2>2. hand' = [hand EXCEPT ![h].state = "memory", ![h].mem = m] BY <1>1 DEF D!CompleteAlloc
  <2>3. hand \in [DmaHandle -> HandleRec] BY HandleIs
  <2>4. QED BY <1>2, <2>1, <2>2, <2>3
<1>4. hand[h] \in HandleRec /\ hand[h].buf = NoObject /\ hand[h].len \in 0 .. 2
  BY <1>3, HandleIs DEF Working
<1>5. m \in Seq(DmaByte) /\ Len(m) = hand[h].len
  <2>1. <<>> \in Seq(DmaByte) OBVIOUS
  <2>2. QED BY <1>1, <1>4, <2>1, FilledIs
<1>6. hand[h].base <= hand[h].len BY <1>3 DEF ResourcesInvOK, HandlesOK
<1>7. r \in HandleRec /\ r.state = "memory" /\ r.buf = NoObject /\ Len(r.mem) = r.len /\ r.base <= r.len
  BY <1>2, <1>4, <1>5, <1>6 DEF HandleRec, HandleStates
<1>8. ~dying BY <1>3 DEF ResourcesInvOK, HandlesOK
<1>9. DmaTracker => tracked' = tracked \cup {h} BY <1>3 DEF D!Add
<1>10. QED BY <1>3, <1>7, <1>8, <1>9, PlainKeeps DEF Working

\* A request is given up before it was completed, in time.
LEMMA CancelDmaKeeps ==
    ASSUME D!ConstantsMakeSense, ResourcesInvOK, NEW h \in DmaHandle, D!udi_cancel(h), ~dmaWild'
    PROVE  ResourcesInvOK'
<1>1. /\ hand[h].state \in {"prepare", "alloc"} /\ ~dying
      /\ hand' = [hand EXCEPT ![h] = D!NoHand]
      /\ UNCHANGED <<cons, path, dmaBufs, ring, tracked, dying, dmaAsked, whole>>
  BY DEF D!udi_cancel, D!Call
<1>2. DmaTracker => h \notin tracked BY <1>1, HandleTracked DEF Memory
<1>3. QED BY <1>1, <1>2, NoHandleIs, PlainKeeps DEF Working

\* The driver writes to memory of its own.
LEMMA DriverKeeps ==
    ASSUME D!ConstantsMakeSense, ResourcesInvOK, NEW h \in DmaHandle, D!Driver(h)
    PROVE  ResourcesInvOK'
<1>1. PICK m : m = [i \in 1 .. hand[h].len |-> IF i <= hand[h].base THEN <<"f", "g">>[i] ELSE hand[h].mem[i]]
  OBVIOUS
<1>2. PICK r : r = [hand[h] EXCEPT !.mem = m] OBVIOUS
<1>3. /\ hand[h].state = "memory"
      /\ UNCHANGED <<cons, path, dmaBufs, ring, tracked, dying, dmaAsked, whole>>
  BY DEF D!Driver
<1>4. hand' = [hand EXCEPT ![h] = r]
  <2>1. hand' = [hand EXCEPT ![h].mem = [i \in 1 .. hand[h].len |->
                                            IF i <= hand[h].base THEN <<"f", "g">>[i] ELSE @[i]]]
    BY DEF D!Driver
  <2>2. QED BY <1>1, <1>2, <2>1
<1>5. /\ hand[h] \in HandleRec /\ hand[h].buf = NoObject /\ Len(hand[h].mem) = hand[h].len
      /\ hand[h].len \in 0 .. 2 /\ hand[h].base \in 0 .. 2 /\ hand[h].mem \in Seq(DmaByte)
      /\ hand[h].base <= hand[h].len
  BY <1>3, HandleIs DEF Working, Memory, ResourcesInvOK, HandlesOK
<1>6. m \in Seq(DmaByte) /\ Len(m) = hand[h].len
  <2>1. PICK s \in Seq(DmaByte) : s = hand[h].mem BY <1>5
  <2>2. PICK n \in 0 .. 2 : n = hand[h].len BY <1>5
  <2>3. PICK k \in 0 .. 2 : k = hand[h].base BY <1>5
  <2>4. m = Overwritten(s, n, k) BY <1>1, <2>1, <2>2, <2>3, Zenon DEF Overwritten
  <2>5. n = Len(s) BY <1>5, <2>1, <2>2, Zenon
  <2>6. m \in Seq(DmaByte) /\ Len(m) = n BY <2>4, <2>5, OverwrittenIs
  <2>7. QED BY <2>2, <2>6, Zenon
<1>7. r \in HandleRec /\ r.state = "memory" /\ r.buf = NoObject /\ Len(r.mem) = r.len /\ r.base <= r.len
  BY <1>2, <1>3, <1>5, <1>6 DEF HandleRec
<1>8. DmaTracker => h \in tracked BY <1>3, HandleTracked DEF Memory
<1>9. QED BY <1>3, <1>4, <1>7, <1>8, PlainKeeps DEF Working

\* A handle is freed, by the driver or for it.
LEMMA FreeHandKeeps ==
    ASSUME D!ConstantsMakeSense, ResourcesInvOK, NEW h \in DmaHandle, D!FreeHand(h),
           UNCHANGED <<dying, dmaAsked, whole>>, ~Working(h),
           ~dying => hand[h].state \in {"ready", "memory"}
    PROVE  ResourcesInvOK'
<1>1. /\ hand' = [hand EXCEPT ![h] = D!NoHand]
      /\ IF hand[h].state = "ready" THEN UNCHANGED tracked ELSE tracked' = tracked \ {h}
      /\ UNCHANGED <<cons, path, dmaBufs, ring>>
  BY DEF D!FreeHand, D!Remove
<1>2. DmaTracker /\ hand[h].state = "ready" => h \notin tracked BY HandleTracked DEF Memory
<1>3. QED BY <1>1, <1>2, NoHandleIs, PlainKeeps DEF Working
\* A sequence without the element at a place.
LEMMA RemovedAt ==
    ASSUME NEW S, NEW q \in Seq(S), NEW i \in DOMAIN q, Distinct(q),
           NEW r, r = SubSeq(q, 1, i - 1) \o SubSeq(q, i + 1, Len(q))
    PROVE  r \in Seq(S) /\ Distinct(r) /\ Range(r) = Range(q) \ {q[i]}
<1>1. q[i] \in Range(q) BY DEF Range
<1>2. (CHOOSE k \in DOMAIN q : q[k] = q[i]) = i BY DEF Distinct
<1>3. Unlinked(q, q[i]) = r BY <1>1, <1>2 DEF Unlinked, RemoveAt
<1>4. PICK c : c = q[i] OBVIOUS
<1>5. Unlinked(q, c) \in Seq(S) /\ Distinct(Unlinked(q, c)) /\ Range(Unlinked(q, c)) = Range(q) \ {c}
  BY UnlinkedQueue
<1>6. QED BY <1>3, <1>4, <1>5

\* A set of numbers has a least.
LEMMA LeastIs ==
    ASSUME NEW S \in SUBSET Nat, S # {}
    PROVE  \E j \in S : \A m \in S : j <= m
<1> DEFINE less == {ss \in Nat \X Nat : ss[1] < ss[2]}
<1>1. IsWellFoundedOn(less, Nat) BY NatLessThanWellFounded, Zenon DEF OpToRel
<1>2. \A k, m \in Nat : k < m => <<k, m>> \in less OBVIOUS
<1> HIDE DEF less
<1>3. PICK j \in S : \A k \in S : ~ (<<k, j>> \in less) BY <1>1, WFMin
<1>4. \A m \in S : j <= m
  <2>1. ASSUME NEW m \in S PROVE j <= m
    <3>1. ~(m < j) BY <1>2, <1>3
    <3>2. QED BY <3>1
  <2>2. QED BY <2>1
<1>5. QED BY <1>4

\* Memory comes back from the pool.
LEMMA PooledMemoryKeeps ==
    ASSUME D!ConstantsMakeSense, ResourcesInvOK, NEW k \in DmaConstraint, NEW n \in 1 .. 2,
           D!udi_dma_mem_alloc(k, n), D!Pooled(k, n) # {}
    PROVE  ResourcesInvOK'
<1>1. PICK i : i = CHOOSE p \in D!Pooled(k, n) : \A j \in D!Pooled(k, n) : p <= j OBVIOUS
<1>2. i \in D!Pooled(k, n)
  <2>1. D!Pooled(k, n) \subseteq 1 .. Len(ring) /\ Len(ring) \in Nat
    BY DEF D!Pooled, ResourcesInvOK, DmaTypes
  <2>2. D!Pooled(k, n) \subseteq Nat BY <2>1
  <2>3. \E j \in D!Pooled(k, n) : \A m \in D!Pooled(k, n) : j <= m
    BY <2>2, LeastIs
  <2>4. QED BY <1>1, <2>3
<1>3. PICK h : h = ring[i] OBVIOUS
<1>4. i \in DOMAIN ring /\ h \in DmaHandle /\ hand[h].len >= n /\ h \in Range(ring)
  <2>1. i \in DOMAIN ring /\ D!Fits(ring[i], k, n) BY <1>2 DEF D!Pooled
  <2>2. ring \in Seq(DmaHandle) BY DEF ResourcesInvOK, DmaTypes
  <2>3. QED BY <1>3, <2>1, <2>2 DEF D!Fits, Range
<1>5. /\ ~dying /\ UNCHANGED <<cons, path, dmaBufs, tracked, dying, dmaAsked, whole>>
      /\ ring' = SubSeq(ring, 1, i - 1) \o SubSeq(ring, i + 1, Len(ring))
      /\ hand' = [hand EXCEPT ![h].state = "memory", ![h].base = n]
  BY <1>1, <1>3 DEF D!udi_dma_mem_alloc, D!Call
<1>6. hand[h].state = "pool" /\ Distinct(ring) BY <1>4, <1>5 DEF ResourcesInvOK, PlacesOK
<1>7. ring' \in Seq(DmaHandle) /\ Distinct(ring') /\ Range(ring') = Range(ring) \ {h}
  <2>1. ring \in Seq(DmaHandle) BY DEF ResourcesInvOK, DmaTypes
  <2>2. /\ ring' \in Seq(DmaHandle) /\ Distinct(ring') /\ Range(ring') = Range(ring) \ {ring[i]}
    BY <1>4, <1>5, <1>6, <2>1, RemovedAt
  <2>3. QED BY <1>3, <2>2
<1>8. PICK r : r = [hand[h] EXCEPT !.state = "memory", !.base = n] OBVIOUS
<1>9. hand' = [hand EXCEPT ![h] = r] BY <1>4, <1>5, <1>8, HandleIs
<1>10. r \in HandleRec /\ r.state = "memory" /\ r.buf = NoObject /\ Len(r.mem) = r.len /\ r.base <= r.len
  <2>1. /\ hand[h] \in HandleRec /\ hand[h].buf = NoObject /\ Len(hand[h].mem) = hand[h].len
    BY <1>4, <1>6, HandleIs DEF Working, Memory
  <2>2. r.state = "memory" /\ r.buf = hand[h].buf /\ r.mem = hand[h].mem /\ r.len = hand[h].len /\ r.base = n
    BY <1>8, <2>1 DEF HandleRec
  <2>3. r \in HandleRec
    <3>1. n \in 0 .. 2 OBVIOUS
    <3>2. QED BY <1>8, <2>1, <3>1 DEF HandleRec, HandleStates
  <2>4. QED BY <1>4, <2>1, <2>2, <2>3
<1>11. DmaTracker => h \in tracked BY <1>4, <1>6, HandleTracked DEF Memory
<1>12. /\ hand'[h] = r /\ \A g \in DmaHandle : g # h => hand'[g] = hand[g]
  BY <1>4, <1>9, HandleIs
<1>13. PlacesOK'
  <2>1. /\ \A b \in DmaBuf : dmaBufs[b].holds \in DmaHandle => hand[dmaBufs[b].holds].state = "lent"
        /\ \A g \in DmaHandle : hand[g].state = "lent" => \E b \in DmaBuf : dmaBufs[b].holds = g
        /\ \A b, c \in DmaBuf : dmaBufs[b].holds = dmaBufs[c].holds /\ dmaBufs[b].holds \in DmaHandle
                               => b = c
        /\ \A g \in DmaHandle : g \in Range(ring) <=> hand[g].state = "pool"
    BY <1>5 DEF ResourcesInvOK, PlacesOK
  <2>2. /\ \A b \in DmaBuf : dmaBufs'[b].holds \in DmaHandle => hand'[dmaBufs'[b].holds].state = "lent"
        /\ \A g \in DmaHandle : hand'[g].state = "lent" => \E b \in DmaBuf : dmaBufs'[b].holds = g
    <3>1. \A g \in DmaHandle : hand'[g].state = "lent" <=> hand[g].state = "lent"
      BY <1>4, <1>6, <1>10, <1>12
    <3>2. QED BY <1>5, <2>1, <3>1
  <2>3. \A g \in DmaHandle : g \in Range(ring') <=> hand'[g].state = "pool"
    BY <1>4, <1>7, <1>10, <1>12, <2>1
  <2>4. QED BY <1>5, <1>7, <2>1, <2>2, <2>3 DEF PlacesOK
<1>14. ~Working(h) /\ (DmaTracker => \A x : x # h => (x \in tracked' <=> x \in tracked))
       /\ (DmaTracker => (h \in tracked' <=> r.state \in {"memory", "lent", "pool"}))
  BY <1>5, <1>6, <1>10, <1>11 DEF Working
<1>15. QED BY <1>4, <1>5, <1>7, <1>9, <1>10, <1>13, <1>14, PlainChange
-----------------------------------------------------------------------------
(* Buffers.                                                                   *)
LEMMA StretchIs ==
    ASSUME NEW s \in Seq(DmaByte), NEW off \in Nat, NEW n \in Nat
    PROVE  /\ D!Stretch(s, off, n) \in Seq(DmaByte) /\ Len(D!Stretch(s, off, n)) = n
           /\ \A i \in 1 .. n : D!Stretch(s, off, n)[i] = IF off + i <= Len(s) THEN s[off + i] ELSE "?"
<1>1. PICK t : t = D!Stretch(s, off, n) OBVIOUS
<1>2. t = [i \in 1 .. n |-> IF off + i <= Len(s) THEN s[off + i] ELSE "?"] BY <1>1 DEF D!Stretch
<1>3. \A i \in 1 .. n : t[i] \in DmaByte
  <2>1. ASSUME NEW i \in 1 .. n PROVE t[i] \in DmaByte
    <3>1. Len(s) \in Nat /\ \A j \in 1 .. Len(s) : s[j] \in DmaByte BY ElementOfSeq
    <3>2. "?" \in DmaByte BY DEF DmaByte
    <3>3. off + i <= Len(s) => off + i \in 1 .. Len(s) BY <3>1
    <3>4. QED BY <1>2, <3>1, <3>2, <3>3
  <2>2. QED BY <2>1
<1>4. t \in [1 .. n -> DmaByte] BY <1>2, <1>3
<1>5. t \in Seq(DmaByte) /\ Len(t) = n BY <1>4
<1>6. QED BY <1>1, <1>2, <1>5

\* Two sequences of bytes that agree everywhere.
LEMMA SameBytes ==
    ASSUME NEW s \in Seq(DmaByte), NEW t \in Seq(DmaByte), Len(s) = Len(t),
           \A i \in 1 .. Len(s) : s[i] = t[i]
    PROVE  s = t
OBVIOUS

\* What a whole buffer holds: its first bytes.
LEMMA ReadsAs ==
    ASSUME NEW s \in Seq(DmaByte), NEW n \in Nat, NEW w \in Seq(DmaByte), Len(w) = n,
           \A i \in 1 .. n : i <= Len(s) /\ s[i] = w[i]
    PROVE  D!Stretch(s, 0, n) = w
<1>1. D!Stretch(s, 0, n) = [i \in 1 .. n |-> IF 0 + i <= Len(s) THEN s[0 + i] ELSE "?"]
  BY Zenon DEF D!Stretch
<1>2. \A i \in 1 .. n : (IF 0 + i <= Len(s) THEN s[0 + i] ELSE "?") = w[i] OBVIOUS
<1>3. D!Stretch(s, 0, n) = [i \in 1 .. n |-> w[i]] BY <1>1, <1>2, Zenon
<1>4. w = [i \in 1 .. n |-> w[i]] OBVIOUS
<1>5. QED BY <1>3, <1>4, Zenon

\* What the records of a buffer are.
LEMMA BufIs ==
    ASSUME ResourcesInvOK, NEW b \in DmaBuf
    PROVE  /\ dmaBufs \in [DmaBuf -> BufRec] /\ dmaBufs[b] \in BufRec
           /\ whole \in [DmaBuf -> Seq(DmaByte) \cup {D!Nothing}]
           /\ dmaBufs[b].data \in Seq(DmaByte) /\ dmaBufs[b].size \in Nat
           /\ dmaBufs[b].holds \in DmaHandle \cup {NoObject, "copy"}
           /\ dmaBufs[b].path \in DmaPath \cup {NoObject}
           /\ dmaBufs[b].path = NoObject <=> dmaBufs[b] = D!NoBuf
BY DEF ResourcesInvOK, DmaTypes, BufRec, HandlesOK, D!NoBuf

\* A buffer changes that no mapping has; memory goes into it or to the pool.
Moved(h) == \/ hand'[h] = hand[h]
            \/ /\ Memory(h) /\ hand'[h].state \in {"lent", "pool"}
               /\ hand'[h].buf = hand[h].buf /\ hand'[h].mem = hand[h].mem
               /\ hand'[h].len = hand[h].len
LEMMA BufferChange ==
    ASSUME D!ConstantsMakeSense, ResourcesInvOK, NEW b \in DmaBuf, ~D!Mapping(b),
           NEW v \in BufRec, NEW w \in Seq(DmaByte) \cup {D!Nothing},
           dmaBufs' = [dmaBufs EXCEPT ![b] = v], whole' = [whole EXCEPT ![b] = w],
           UNCHANGED <<cons, path, dying, dmaAsked>>,
           hand' \in [DmaHandle -> HandleRec], \A h \in DmaHandle : Moved(h),
           ring' \in Seq(DmaHandle), PlacesOK',
           v.path # NoObject => v.path = dmaBufs[b].path \/ path[v.path].up,
           v.path = NoObject => v = D!NoBuf,
           v # D!NoBuf /\ w # D!Nothing => v.size = Len(w) /\ D!Stretch(v.data, 0, v.size) = w,
           DmaTracker => /\ \A x : x # b => (x \in tracked' <=> x \in tracked)
                         /\ b \in tracked' <=> v # D!NoBuf /\ v.holds = NoObject
    PROVE  ResourcesInvOK'
<1>1. /\ dmaBufs'[b] = v /\ \A c \in DmaBuf : c # b => dmaBufs'[c] = dmaBufs[c]
      /\ whole'[b] = w /\ \A c \in DmaBuf : c # b => whole'[c] = whole[c]
      /\ dmaBufs' \in [DmaBuf -> BufRec]
      /\ whole' \in [DmaBuf -> Seq(DmaByte) \cup {D!Nothing}]
  BY DEF ResourcesInvOK, DmaTypes
<1>2. DmaTypes' BY <1>1 DEF ResourcesInvOK, DmaTypes
<1>3. PathsOK' /\ (D!Restricts)' /\ \A k : D!Live(k)' <=> D!Live(k)
  BY <1>1, SameConstraints DEF ResourcesInvOK
<1>4. \A h \in DmaHandle : /\ Working(h)' <=> Working(h)
                           /\ Memory(h)' <=> Memory(h)
                           /\ hand'[h].buf = hand[h].buf /\ hand[h].buf # b
                           /\ Working(h) => hand'[h] = hand[h]
  BY DEF Moved, Working, Memory, D!Mapping
<1>5. HandlesOK'
  <2>1. ASSUME NEW h \in DmaHandle
        PROVE  /\ Working(h)' <=> hand'[h].buf # NoObject
               /\ Working(h)' => hand'[h].now \in D!Flags /\ dmaBufs'[hand'[h].buf].path # NoObject
               /\ hand'[h].state = "mapped" \/ Memory(h)' => Len(hand'[h].mem) = hand'[h].len
               /\ hand'[h].state \in {"memory", "alloc"} => hand'[h].base <= hand'[h].len
               /\ dying => ~Working(h)' /\ hand'[h].state \notin {"prepare", "alloc"}
    <3>1. /\ Working(h) <=> hand[h].buf # NoObject
          /\ Working(h) => hand[h].now \in D!Flags /\ dmaBufs[hand[h].buf].path # NoObject
          /\ hand[h].state = "mapped" \/ Memory(h) => Len(hand[h].mem) = hand[h].len
          /\ hand[h].state \in {"memory", "alloc"} => hand[h].base <= hand[h].len
          /\ dying => ~Working(h) /\ hand[h].state \notin {"prepare", "alloc"}
      BY DEF ResourcesInvOK, HandlesOK
    <3>2. hand[h].buf \in DmaBuf \cup {NoObject} BY HandleIs DEF HandleRec
    <3>3. Working(h)' => hand'[h].now \in D!Flags /\ dmaBufs'[hand'[h].buf].path # NoObject
      BY <1>1, <1>4, <3>1, <3>2
    <3>4. CASE hand'[h] = hand[h] BY <1>4, <3>1, <3>3, <3>4
    <3>5. CASE hand'[h] # hand[h]
      <4>1. /\ Memory(h) /\ hand'[h].state \in {"lent", "pool"} /\ hand'[h].mem = hand[h].mem
            /\ hand'[h].len = hand[h].len
        BY <3>5 DEF Moved
      <4>2. QED BY <1>4, <3>1, <3>3, <4>1
    <3>6. QED BY <3>4, <3>5
  <2>2. \A f, g \in DmaHandle : hand'[f].buf = hand'[g].buf /\ hand'[f].buf # NoObject => f = g
    BY <1>4 DEF ResourcesInvOK, HandlesOK
  <2>3. \A c \in DmaBuf : dmaBufs'[c].path = NoObject => dmaBufs'[c] = D!NoBuf
    BY <1>1 DEF ResourcesInvOK, HandlesOK
  <2>4. QED BY <2>1, <2>2, <2>3 DEF HandlesOK
<1>6. TransfersOK'
  <2>1. \A c \in DmaBuf : D!Mapping(c)' <=> D!Mapping(c) BY <1>4 DEF D!Mapping
  <2>2. (D!TransfersAreExact)'
    BY <1>1, <2>1 DEF ResourcesInvOK, TransfersOK, D!TransfersAreExact
  <2>3. ASSUME NEW h \in DmaHandle, Working(h)
        PROVE  /\ hand'[h] = hand[h] /\ dmaBufs'[hand[h].buf] = dmaBufs[hand[h].buf]
               /\ whole'[hand[h].buf] = whole[hand[h].buf]
    <3>1. hand[h].buf \in DmaBuf
      BY <2>3, HandleIs DEF HandleRec, ResourcesInvOK, HandlesOK
    <3>2. QED BY <1>1, <1>4, <2>3, <3>1
  <2>4. (D!DeviceSeesTheBuffer)'
    BY <1>4, <2>3 DEF ResourcesInvOK, TransfersOK, D!DeviceSeesTheBuffer, Working
  <2>5. \A h \in DmaHandle : Working(h)' /\ whole'[hand'[h].buf] # D!Nothing => Transfer(h)'
    BY <1>4, <2>3 DEF ResourcesInvOK, TransfersOK, Transfer
  <2>6. QED BY <2>2, <2>4, <2>5 DEF TransfersOK
<1>7. TrackedOK'
  <2>1. \A x : x # b => (There(x)' <=> There(x))
    BY <1>1, <1>3, <1>4 DEF There, D!IsExternal
  <2>2. There(b)' <=> v # D!NoBuf /\ v.holds = NoObject
    BY <1>1, Apart DEF There, D!IsExternal
  <2>3. QED BY <2>1, <2>2 DEF ResourcesInvOK, TrackedOK
<1>8. QED BY <1>2, <1>3, <1>5, <1>6, <1>7 DEF ResourcesInvOK

\* A driver writes a new buffer.
LEMMA WriteKeeps ==
    ASSUME D!ConstantsMakeSense, ResourcesInvOK, NEW p \in DmaPath, D!udi_buf_write(p)
    PROVE  ResourcesInvOK'
<1>1. PICK b \in D!Fresh({b \in DmaBuf : dmaBufs[b] = D!NoBuf}) :
          /\ dmaBufs' = [dmaBufs EXCEPT ![b] = [D!NoBuf EXCEPT !.path = p, !.data = D!Bytes, !.size = 2]]
          /\ whole' = [whole EXCEPT ![b] = D!Bytes]
          /\ D!Add({b})
  BY DEF D!udi_buf_write
<1>2. b \in DmaBuf /\ dmaBufs[b] = D!NoBuf BY <1>1, FreshIs
<1>3. ~dying /\ path[p].up /\ UNCHANGED <<cons, path, hand, ring, dying, dmaAsked>>
  BY DEF D!udi_buf_write, D!Call
<1>4. PICK v : v = [D!NoBuf EXCEPT !.path = p, !.data = D!Bytes, !.size = 2] OBVIOUS
<1>5. D!Bytes \in Seq(DmaByte) /\ Len(D!Bytes) = 2 BY DEF D!Bytes, DmaByte
<1>6. /\ v \in BufRec /\ v.path = p /\ v.data = D!Bytes /\ v.size = 2 /\ v.holds = NoObject
      /\ v # D!NoBuf
  <2>1. /\ v.path = p /\ v.data = D!Bytes /\ v.size = 2 /\ v.holds = NoObject
    BY <1>4 DEF D!NoBuf
  <2>2. v = [path |-> p, data |-> D!Bytes, size |-> 2, holds |-> NoObject] BY <1>4 DEF D!NoBuf
  <2>3. v \in BufRec BY <1>5, <2>2 DEF BufRec
  <2>4. p # NoObject BY Apart
  <2>5. QED BY <2>1, <2>3, <2>4 DEF D!NoBuf
<1>7. D!Stretch(v.data, 0, v.size) = D!Bytes
  <2>1. PICK w \in Seq(DmaByte) : w = D!Bytes /\ Len(w) = 2 BY <1>5
  <2>2. \A i \in 1 .. 2 : i <= Len(w) /\ w[i] = w[i] BY <2>1
  <2>3. 2 \in Nat /\ D!Stretch(w, 0, 2) = w BY <2>1, <2>2, ReadsAs
  <2>4. QED BY <1>6, <2>1, <2>3
<1>8. ~D!Mapping(b)
  <2>1. ASSUME NEW h \in DmaHandle, hand[h].buf = b PROVE FALSE
    <3>1. b # NoObject BY <1>2, Apart
    <3>2. dmaBufs[b].path # NoObject BY <2>1, <3>1 DEF ResourcesInvOK, HandlesOK
    <3>3. QED BY <1>2, <3>2 DEF D!NoBuf
  <2>2. QED BY <2>1 DEF D!Mapping
<1>9. PlacesOK'
  <2>1. \A c \in DmaBuf : dmaBufs'[c].holds = dmaBufs[c].holds
    BY <1>1, <1>2, <1>4, <1>6, BufIs DEF D!NoBuf
  <2>2. QED BY <1>3, <2>1 DEF ResourcesInvOK, PlacesOK
<1>10. hand' \in [DmaHandle -> HandleRec] /\ ring' \in Seq(DmaHandle) /\ \A h \in DmaHandle : Moved(h)
  BY <1>3 DEF ResourcesInvOK, DmaTypes, Moved
<1>11. DmaTracker => tracked' = tracked \cup {b} BY <1>1 DEF D!Add
<1>12. dmaBufs' = [dmaBufs EXCEPT ![b] = v] /\ whole' = [whole EXCEPT ![b] = D!Bytes] BY <1>1, <1>4
<1>13. PICK w \in Seq(DmaByte) \cup {D!Nothing} : w = D!Bytes BY <1>5
<1>14. v # D!NoBuf /\ w # D!Nothing => v.size = Len(w) /\ D!Stretch(v.data, 0, v.size) = w
  BY <1>5, <1>6, <1>7, <1>13
<1>15. whole' = [whole EXCEPT ![b] = w] BY <1>12, <1>13
<1>16. v.path # NoObject BY <1>6, Apart
<1>17. DmaTracker => /\ \A x : x # b => (x \in tracked' <=> x \in tracked)
                     /\ b \in tracked' <=> v # D!NoBuf /\ v.holds = NoObject
  BY <1>6, <1>11
<1>18. v.path # NoObject => v.path = dmaBufs[b].path \/ path[v.path].up BY <1>3, <1>6
<1>19. QED BY <1>2, <1>3, <1>6, <1>8, <1>9, <1>10, <1>12, <1>14, <1>15, <1>16, <1>17, <1>18, BufferChange

\* A handle that a buffer held goes to the pool.
LEMMA PoolKeeps ==
    ASSUME D!ConstantsMakeSense, ResourcesInvOK, NEW b \in DmaBuf, NEW v \in BufRec,
           dmaBufs' = [dmaBufs EXCEPT ![b] = v], UNCHANGED dying,
           D!ToPool(dmaBufs[b].holds), ~dmaWild', v.holds \notin DmaHandle
    PROVE  /\ hand' \in [DmaHandle -> HandleRec] /\ \A h \in DmaHandle : Moved(h)
           /\ ring' \in Seq(DmaHandle) /\ PlacesOK'
<1> DEFINE old == dmaBufs[b].holds
<1>1. /\ hand \in [DmaHandle -> HandleRec] /\ ring \in Seq(DmaHandle)
      /\ dmaBufs'[b] = v /\ \A c \in DmaBuf : c # b => dmaBufs'[c] = dmaBufs[c]
  BY DEF ResourcesInvOK, DmaTypes
<1>2. CASE old \notin DmaHandle
  <2>1. UNCHANGED <<hand, ring>> BY <1>2 DEF D!ToPool
  <2>2. \A c \in DmaBuf : dmaBufs'[c].holds \in DmaHandle \/ dmaBufs[c].holds \in DmaHandle =>
                          dmaBufs'[c].holds = dmaBufs[c].holds
    BY <1>1, <1>2
  <2>3. PlacesOK' BY <2>1, <2>2 DEF ResourcesInvOK, PlacesOK
  <2>4. QED BY <1>1, <2>1, <2>3 DEF Moved
<1>3. CASE old \in DmaHandle
  <2>1. PICK h \in DmaHandle : h = old BY <1>3
  <2>2. /\ ~dying /\ ~D!Gone(h) /\ ring' = Append(ring, h)
        /\ hand' = [hand EXCEPT ![h].state = "pool"]
    BY <2>1 DEF D!ToPool
  <2>3. /\ hand[h].state = "lent" /\ h \notin Range(ring) /\ Distinct(ring)
        /\ \A c \in DmaBuf : dmaBufs[c].holds = h => c = b
    BY <2>1, <2>2 DEF ResourcesInvOK, PlacesOK
  <2>4. ring' \in Seq(DmaHandle) /\ Range(ring') = Range(ring) \cup {h} /\ Distinct(ring')
    BY <1>1, <2>2, <2>3, AppendedQueue
  <2>5. PICK r : r = [hand[h] EXCEPT !.state = "pool"] OBVIOUS
  <2>6. /\ r \in HandleRec /\ r.state = "pool" /\ r.buf = hand[h].buf /\ r.mem = hand[h].mem
        /\ r.len = hand[h].len
    <3>1. hand[h] \in HandleRec BY <1>1
    <3>2. QED BY <2>5, <3>1 DEF HandleRec, HandleStates
  <2>7. hand' = [hand EXCEPT ![h] = r] BY <1>1, <2>2, <2>5
  <2>8. hand'[h] = r /\ \A g \in DmaHandle : g # h => hand'[g] = hand[g] BY <1>1, <2>7
  <2>9. hand' \in [DmaHandle -> HandleRec] BY <1>1, <2>6, <2>7
  <2>10. \A g \in DmaHandle : Moved(g) BY <2>3, <2>6, <2>8 DEF Moved, Memory
  <2>11. PlacesOK'
    <3>1. /\ \A c \in DmaBuf : dmaBufs[c].holds \in DmaHandle => hand[dmaBufs[c].holds].state = "lent"
          /\ \A g \in DmaHandle : hand[g].state = "lent" => \E c \in DmaBuf : dmaBufs[c].holds = g
          /\ \A c, e \in DmaBuf : dmaBufs[c].holds = dmaBufs[e].holds /\ dmaBufs[c].holds \in DmaHandle
                               => c = e
          /\ \A g \in DmaHandle : g \in Range(ring) <=> hand[g].state = "pool"
      BY <2>2 DEF ResourcesInvOK, PlacesOK
    <3>2. \A c \in DmaBuf : dmaBufs'[c].holds \in DmaHandle => c # b /\ dmaBufs'[c] = dmaBufs[c]
      BY <1>1
    <3>3. \A c \in DmaBuf : dmaBufs'[c].holds \in DmaHandle => hand'[dmaBufs'[c].holds].state = "lent"
      BY <2>3, <2>8, <3>1, <3>2
    <3>4. ASSUME NEW g \in DmaHandle, hand'[g].state = "lent" PROVE \E c \in DmaBuf : dmaBufs'[c].holds = g
      <4>1. g # h /\ hand[g].state = "lent" BY <2>6, <2>8, <3>4
      <4>2. PICK c \in DmaBuf : dmaBufs[c].holds = g BY <3>1, <4>1
      <4>3. c # b BY <2>1, <4>1, <4>2
      <4>4. QED BY <1>1, <4>2, <4>3
    <3>5. \A c, e \in DmaBuf : dmaBufs'[c].holds = dmaBufs'[e].holds /\ dmaBufs'[c].holds \in DmaHandle
                            => c = e
      BY <3>1, <3>2
    <3>6. \A g \in DmaHandle : g \in Range(ring') <=> hand'[g].state = "pool"
      BY <2>4, <2>6, <2>8, <3>1
    <3>7. QED BY <2>4, <3>3, <3>4, <3>5, <3>6 DEF PlacesOK
  <2>12. QED BY <2>4, <2>9, <2>10, <2>11
<1>4. QED BY <1>2, <1>3

\* A buffer is freed, by whoever has it or for the driver that has gone.
LEMMA FreeBufKeeps ==
    ASSUME D!ConstantsMakeSense, ResourcesInvOK, NEW b \in DmaBuf, ~D!Mapping(b), D!FreeBuf(b),
           whole' = [whole EXCEPT ![b] = D!Nothing], UNCHANGED <<dying, dmaAsked>>, ~dmaWild'
    PROVE  ResourcesInvOK'
<1>1. /\ dmaBufs' = [dmaBufs EXCEPT ![b] = D!NoBuf] /\ D!ToPool(dmaBufs[b].holds)
      /\ IF D!IsExternal(b) THEN UNCHANGED tracked ELSE tracked' = tracked \ {b}
      /\ UNCHANGED <<cons, path>>
  BY DEF D!FreeBuf, D!Remove
<1>2. D!NoBuf \in BufRec /\ D!NoBuf.path = NoObject /\ D!NoBuf.holds = NoObject
  <2>1. <<>> \in Seq(DmaByte) OBVIOUS
  <2>2. QED BY <2>1 DEF D!NoBuf, BufRec
<1>3. NoObject \notin DmaHandle BY Apart
<1>4. /\ hand' \in [DmaHandle -> HandleRec] /\ \A h \in DmaHandle : Moved(h)
      /\ ring' \in Seq(DmaHandle) /\ PlacesOK'
  <2>1. PICK v \in BufRec : v = D!NoBuf /\ v.holds \notin DmaHandle BY <1>2, <1>3
  <2>2. QED BY <1>1, <2>1, PoolKeeps
<1>5. DmaTracker => b \notin tracked'
  <2>1. D!IsExternal(b) /\ DmaTracker => b \notin tracked
    BY Apart DEF ResourcesInvOK, TrackedOK, There
  <2>2. QED BY <1>1, <2>1
<1>6. DmaTracker => \A x : x # b => (x \in tracked' <=> x \in tracked) BY <1>1
<1>7. QED BY <1>1, <1>2, <1>4, <1>5, <1>6, BufferChange

\* What a buffer is once memory was attached to it, or copied into it.
AttachedAs(v, b, m, off, n, x) ==
    /\ v \in BufRec /\ v.path = dmaBufs[b].path /\ v.size = n
    /\ v.holds = IF D!Copied(b, n) THEN dmaBufs[b].holds ELSE x
    /\ Len(v.data) >= n
    /\ \A i \in 1 .. n : v.data[i] = IF off + i <= Len(m) THEN m[off + i] ELSE "?"
LEMMA AttachedIs ==
    ASSUME ResourcesInvOK, NEW b \in DmaBuf, NEW m \in Seq(DmaByte), NEW off \in Nat, NEW n \in Nat,
           NEW x \in DmaHandle \cup {NoObject, "copy"}, NEW v, v = D!Attached(b, m, off, n, x)
    PROVE  AttachedAs(v, b, m, off, n, x)
<1>1. PICK new \in Seq(DmaByte) :
        /\ new = D!Stretch(m, off, n) /\ Len(new) = n
        /\ \A i \in 1 .. n : new[i] = IF off + i <= Len(m) THEN m[off + i] ELSE "?"
  BY StretchIs
<1>2. PICK d : d = dmaBufs[b].data OBVIOUS
<1>3. dmaBufs[b] \in BufRec /\ d \in Seq(DmaByte) BY <1>2, BufIs
<1>4. CASE D!Copied(b, n)
  <2>1. PICK c : c = [i \in DOMAIN d |-> IF i <= n THEN new[i] ELSE d[i]] OBVIOUS
  <2>2. v = [dmaBufs[b] EXCEPT !.size = n, !.data = c]
    <3>1. v = [dmaBufs[b] EXCEPT !.size = n, !.data = [i \in DOMAIN @ |-> IF i <= n THEN new[i] ELSE @[i]]]
      BY <1>1, <1>4 DEF D!Attached
    <3>2. QED BY <1>2, <1>3, <2>1, <3>1 DEF BufRec
  <2>3. n <= Len(d) /\ Len(d) \in Nat /\ DOMAIN d = 1 .. Len(d) BY <1>2, <1>3, <1>4 DEF D!Copied
  <2>4. \A i \in DOMAIN d : c[i] \in DmaByte
    <3>1. \A i \in DOMAIN d : d[i] \in DmaByte BY <1>3, <2>3, ElementOfSeq
    <3>2. \A i \in 1 .. n : new[i] \in DmaByte BY <1>1, ElementOfSeq
    <3>3. QED BY <2>1, <2>3, <3>1, <3>2
  <2>5. c \in [1 .. Len(d) -> DmaByte] BY <2>1, <2>3, <2>4
  <2>6. c \in Seq(DmaByte) /\ Len(c) = Len(d) BY <2>3, <2>5
  <2>7. \A i \in 1 .. n : c[i] = new[i] BY <2>1, <2>3
  <2>8. /\ v \in BufRec /\ v.path = dmaBufs[b].path /\ v.size = n /\ v.holds = dmaBufs[b].holds
        /\ v.data = c
    BY <1>3, <2>2, <2>6 DEF BufRec
  <2>9. QED BY <1>1, <1>4, <2>3, <2>6, <2>7, <2>8 DEF AttachedAs
<1>5. CASE ~D!Copied(b, n)
  <2>1. v = [dmaBufs[b] EXCEPT !.size = n, !.data = new, !.holds = x]
    BY <1>1, <1>5 DEF D!Attached
  <2>2. v \in BufRec /\ v.path = dmaBufs[b].path /\ v.size = n /\ v.holds = x /\ v.data = new
    BY <1>3, <2>1 DEF BufRec
  <2>3. QED BY <1>1, <1>5, <2>2 DEF AttachedAs
<1>6. QED BY <1>4, <1>5

\* Memory goes to a buffer, to stay there or to be copied.
LEMMA MemToBufKeeps ==
    ASSUME D!ConstantsMakeSense, ResourcesInvOK, NEW h \in DmaHandle, NEW b \in DmaBuf,
           NEW off \in 0 .. 1, NEW n \in 1 .. 2, D!udi_dma_mem_to_buf(h, b, off, n), ~dmaWild'
    PROVE  ResourcesInvOK'
<1> DEFINE old == dmaBufs[b].holds
<1>1. PICK back : back = IF D!Copied(b, n) THEN h ELSE old OBVIOUS
<1>2. /\ ~dying /\ hand[h].state = "memory" /\ dmaBufs[b] # D!NoBuf /\ ~D!Mapping(b)
      /\ off + n <= hand[h].base
      /\ dmaBufs' = [dmaBufs EXCEPT ![b] = D!Attached(b, hand[h].mem, off, n, h)]
      /\ whole' = [whole EXCEPT ![b] = SubSeq(hand[h].mem, off + 1, off + n)]
      /\ tracked' = IF D!IsExternal(b) THEN tracked ELSE tracked \ {b}
      /\ UNCHANGED <<cons, path, dying, dmaAsked>>
  BY Zenon DEF D!udi_dma_mem_to_buf, D!Call
<1>3. IF back \in DmaHandle
      THEN /\ ring' = Append(ring, back)
           /\ hand' = [[hand EXCEPT ![h].state = "lent"] EXCEPT ![back].state = "pool"]
      ELSE hand' = [hand EXCEPT ![h].state = "lent"] /\ UNCHANGED ring
  BY <1>1 DEF D!udi_dma_mem_to_buf
<1>4. PICK m : m = hand[h].mem OBVIOUS
<1>5. /\ m \in Seq(DmaByte) /\ off + n <= Len(m) /\ hand \in [DmaHandle -> HandleRec]
      /\ ring \in Seq(DmaHandle)
  <2>1. Len(m) = hand[h].len /\ hand[h].base <= hand[h].len /\ hand[h].len \in 0 .. 2 /\ hand[h].base \in 0 .. 2
    BY <1>2, <1>4, HandleIs DEF Memory, ResourcesInvOK, HandlesOK
  <2>2. QED BY <1>2, <1>4, <2>1, HandleIs DEF ResourcesInvOK, DmaTypes
<1>6. PICK v : v = D!Attached(b, m, off, n, h) OBVIOUS
<1>7. /\ v \in BufRec /\ v.path = dmaBufs[b].path /\ v.size = n
      /\ v.holds = IF D!Copied(b, n) THEN old ELSE h
      /\ Len(v.data) >= n
      /\ \A i \in 1 .. n : v.data[i] = IF off + i <= Len(m) THEN m[off + i] ELSE "?"
  <2>1. off \in Nat /\ n \in Nat /\ h \in DmaHandle \cup {NoObject, "copy"} OBVIOUS
  <2>2. AttachedAs(v, b, m, off, n, h) BY <1>5, <1>6, <2>1, AttachedIs
  <2>3. QED BY <2>2 DEF AttachedAs
<1>8. PICK w : w = SubSeq(m, off + 1, off + n) OBVIOUS
<1>9. /\ w \in Seq(DmaByte) /\ Len(w) = n /\ \A i \in 1 .. n : w[i] = m[off + i]
  <2>1. \A i \in (off + 1) .. (off + n) : m[i] \in DmaByte BY <1>5
  <2>2. /\ w \in Seq(DmaByte)
        /\ Len(w) = IF off + 1 <= off + n THEN off + n - (off + 1) + 1 ELSE 0
        /\ \A i \in 1 .. (off + n - (off + 1) + 1) : w[i] = m[off + 1 + i - 1]
    BY <1>8, <2>1, SubSeqProperties
  <2>3. off \in 0 .. 1 /\ n \in 1 .. 2 /\ off + n - (off + 1) + 1 = n OBVIOUS
  <2>4. ASSUME NEW i \in 1 .. n PROVE w[i] = m[off + i]
    <3>1. off + 1 + i - 1 = off + i BY <2>3
    <3>2. QED BY <2>2, <2>3, <3>1
  <2>5. QED BY <2>2, <2>3, <2>4
<1>10. D!Stretch(v.data, 0, v.size) = w
  <2>1. PICK s \in Seq(DmaByte) : s = v.data BY <1>7 DEF BufRec
  <2>2. n \in Nat /\ \A i \in 1 .. n : i <= Len(s) /\ s[i] = w[i]
    <3>1. ASSUME NEW i \in 1 .. n PROVE i <= Len(s) /\ s[i] = w[i]
      <4>1. off + i <= Len(m) /\ i <= Len(s) BY <1>5, <1>7, <2>1
      <4>2. QED BY <1>7, <1>9, <2>1, <4>1
    <3>2. QED BY <3>1
  <2>3. D!Stretch(s, 0, n) = w BY <1>9, <2>2, ReadsAs
  <2>4. QED BY <1>7, <2>1, <2>3
\* The handles.
<1>11. /\ old \in DmaHandle => hand[old].state = "lent"
       /\ \A g \in DmaHandle : hand[g].state = "lent" => \E c \in DmaBuf : dmaBufs[c].holds = g
       /\ \A c, e \in DmaBuf : dmaBufs[c].holds = dmaBufs[e].holds /\ dmaBufs[c].holds \in DmaHandle
                               => c = e
       /\ \A c \in DmaBuf : dmaBufs[c].holds \in DmaHandle => hand[dmaBufs[c].holds].state = "lent"
       /\ Distinct(ring)
       /\ \A g \in DmaHandle : g \in Range(ring) <=> hand[g].state = "pool"
  BY <1>2 DEF ResourcesInvOK, PlacesOK
<1>12. PICK l : l = [hand[h] EXCEPT !.state = "lent"] OBVIOUS
<1>13. /\ l \in HandleRec /\ l.state = "lent" /\ l.buf = hand[h].buf /\ l.mem = hand[h].mem
       /\ l.len = hand[h].len
  <2>1. hand[h] \in HandleRec BY <1>5
  <2>2. QED BY <1>12, <2>1 DEF HandleRec, HandleStates
<1>14. PICK mid : mid = [hand EXCEPT ![h] = l] OBVIOUS
<1>15. /\ mid \in [DmaHandle -> HandleRec] /\ mid[h] = l
       /\ \A g \in DmaHandle : g # h => mid[g] = hand[g]
       /\ mid = [hand EXCEPT ![h].state = "lent"]
  BY <1>5, <1>12, <1>13, <1>14
<1>16. /\ hand' \in [DmaHandle -> HandleRec] /\ ring' \in Seq(DmaHandle) /\ Distinct(ring')
       /\ \A g \in DmaHandle : hand'[g].state = IF g = back THEN "pool" ELSE IF g = h THEN "lent"
                                                ELSE hand[g].state
       /\ \A g \in DmaHandle : /\ g # back /\ g # h => hand'[g] = hand[g]
                               /\ hand'[g].buf = hand[g].buf /\ hand'[g].mem = hand[g].mem
                               /\ hand'[g].len = hand[g].len
       /\ \A g \in DmaHandle : g \in Range(ring') <=> g \in Range(ring) \/ g = back
  <2>1. CASE back \notin DmaHandle
    <3>1. hand' = mid /\ ring' = ring BY <1>3, <1>15, <2>1
    <3>2. QED BY <1>5, <1>11, <1>13, <1>15, <2>1, <3>1
  <2>2. CASE back \in DmaHandle
    <3>1. ring' = Append(ring, back) /\ hand' = [mid EXCEPT ![back].state = "pool"]
      BY <1>3, <1>15, <2>2
    <3>2. back \notin Range(ring)
      <4>1. hand[back].state # "pool" BY <1>1, <1>2, <1>11, <2>2
      <4>2. QED BY <1>11, <2>2, <4>1
    <3>3. ring' \in Seq(DmaHandle) /\ Range(ring') = Range(ring) \cup {back} /\ Distinct(ring')
      BY <1>5, <1>11, <2>2, <3>1, <3>2, AppendedQueue
    <3>4. PICK r : r = [mid[back] EXCEPT !.state = "pool"] OBVIOUS
    <3>5. /\ r \in HandleRec /\ r.state = "pool" /\ r.buf = mid[back].buf /\ r.mem = mid[back].mem
          /\ r.len = mid[back].len
      <4>1. mid[back] \in HandleRec BY <1>15, <2>2
      <4>2. QED BY <3>4, <4>1 DEF HandleRec, HandleStates
    <3>6. hand' = [mid EXCEPT ![back] = r] BY <1>15, <2>2, <3>1, <3>4
    <3>7. /\ hand' \in [DmaHandle -> HandleRec] /\ hand'[back] = r
          /\ \A g \in DmaHandle : g # back => hand'[g] = mid[g]
      BY <1>15, <2>2, <3>5, <3>6
    <3>8. ASSUME NEW g \in DmaHandle
          PROVE  /\ hand'[g].state = IF g = back THEN "pool" ELSE IF g = h THEN "lent"
                                     ELSE hand[g].state
                 /\ g # back /\ g # h => hand'[g] = hand[g]
                 /\ hand'[g].buf = hand[g].buf /\ hand'[g].mem = hand[g].mem
                 /\ hand'[g].len = hand[g].len
      <4>1. CASE g = back
        <5>1. mid[g].buf = hand[g].buf /\ mid[g].mem = hand[g].mem /\ mid[g].len = hand[g].len
          BY <1>13, <1>15
        <5>2. QED BY <3>5, <3>7, <4>1, <5>1
      <4>2. CASE g # back BY <1>13, <1>15, <3>7, <4>2
      <4>3. QED BY <4>1, <4>2
    <3>9. \A g \in DmaHandle : g \in Range(ring') <=> g \in Range(ring) \/ g = back BY <3>3
    <3>10. QED BY <3>3, <3>7, <3>8, <3>9
  <2>3. QED BY <2>1, <2>2
<1>17. \A g \in DmaHandle : Moved(g)
  <2>1. ASSUME NEW g \in DmaHandle PROVE Moved(g)
    <3>1. CASE g = back
      <4>1. Memory(g) BY <1>1, <1>2, <1>11, <3>1 DEF Memory
      <4>2. QED BY <1>16, <3>1, <4>1 DEF Moved
    <3>2. CASE g = h
      <4>1. Memory(g) BY <1>2, <3>2 DEF Memory
      <4>2. QED BY <1>16, <3>2, <4>1 DEF Moved
    <3>3. CASE g # back /\ g # h BY <1>16, <3>3 DEF Moved
    <3>4. QED BY <3>1, <3>2, <3>3
  <2>2. QED BY <2>1
<1>18. /\ dmaBufs' = [dmaBufs EXCEPT ![b] = v] /\ whole' = [whole EXCEPT ![b] = w]
       /\ dmaBufs'[b] = v /\ \A c \in DmaBuf : c # b => dmaBufs'[c] = dmaBufs[c]
  BY <1>2, <1>4, <1>6, <1>8 DEF ResourcesInvOK, DmaTypes
<1>19. PlacesOK'
  <2>1. h # old \/ old \notin DmaHandle BY <1>2, <1>11
  <2>2. D!Copied(b, n) => old # NoObject BY DEF D!Copied, D!IsExternal
  <2>3. \A c \in DmaBuf : dmaBufs[c].holds # h BY <1>2, <1>11
  <2>4. CASE D!Copied(b, n)
    <3>1. back = h /\ v.holds = old BY <1>1, <1>7, <2>4
    <3>2. \A c \in DmaBuf : dmaBufs'[c].holds = dmaBufs[c].holds BY <1>18, <3>1
    <3>3. \A g \in DmaHandle : hand'[g].state = "lent" <=> hand[g].state = "lent"
      BY <1>2, <1>16, <3>1
    <3>4. \A g \in DmaHandle : g \in Range(ring') <=> hand'[g].state = "pool"
      BY <1>11, <1>16, <3>1
    <3>5. \A c \in DmaBuf : dmaBufs'[c].holds \in DmaHandle => hand'[dmaBufs'[c].holds].state = "lent"
      BY <1>11, <3>2, <3>3
    <3>6. QED BY <1>11, <1>16, <3>2, <3>3, <3>4, <3>5 DEF PlacesOK
  <2>5. CASE ~D!Copied(b, n)
    <3>1. back = old /\ v.holds = h BY <1>1, <1>7, <2>5
    <3>2. \A c \in DmaBuf : dmaBufs'[c].holds = IF c = b THEN h ELSE dmaBufs[c].holds BY <1>18, <3>1
    <3>3. \A g \in DmaHandle : g # h => (hand'[g].state = "lent" <=> hand[g].state = "lent" /\ g # old)
      BY <1>16, <3>1
    <3>4. hand'[h].state = "lent" BY <1>16, <2>1, <3>1
    <3>5. \A g \in DmaHandle : g \in Range(ring') <=> hand'[g].state = "pool"
      BY <1>2, <1>11, <1>16, <3>1
    <3>6. ASSUME NEW c \in DmaBuf, dmaBufs'[c].holds \in DmaHandle
          PROVE  hand'[dmaBufs'[c].holds].state = "lent"
      <4>1. CASE c = b BY <3>2, <3>4, <4>1
      <4>2. CASE c # b
        <5>1. dmaBufs'[c].holds = dmaBufs[c].holds BY <3>2, <4>2
        <5>2. dmaBufs[c].holds # old /\ dmaBufs[c].holds # h BY <1>11, <2>3, <3>6, <4>2, <5>1
        <5>3. QED BY <1>11, <3>3, <3>6, <5>1, <5>2
      <4>3. QED BY <4>1, <4>2
    <3>7. ASSUME NEW g \in DmaHandle, hand'[g].state = "lent" PROVE \E c \in DmaBuf : dmaBufs'[c].holds = g
      <4>1. CASE g = h BY <3>2, <4>1
      <4>2. CASE g # h
        <5>1. hand[g].state = "lent" /\ g # old BY <3>3, <3>7, <4>2
        <5>2. PICK c \in DmaBuf : dmaBufs[c].holds = g BY <1>11, <5>1
        <5>3. QED BY <3>2, <5>1, <5>2
      <4>3. QED BY <4>1, <4>2
    <3>8. \A c, e \in DmaBuf : dmaBufs'[c].holds = dmaBufs'[e].holds /\ dmaBufs'[c].holds \in DmaHandle
                               => c = e
      BY <1>11, <2>3, <3>2
    <3>9. QED BY <1>16, <3>5, <3>6, <3>7, <3>8 DEF PlacesOK
  <2>6. QED BY <2>4, <2>5
\* The tracker.
<1>20. v.holds # NoObject
  <2>1. h # NoObject BY Apart
  <2>2. QED BY <1>7, <2>1 DEF D!Copied, D!IsExternal
<1>21. DmaTracker => /\ \A x : x # b => (x \in tracked' <=> x \in tracked)
                     /\ b \notin tracked'
  <2>1. DmaTracker /\ D!IsExternal(b) => b \notin tracked
    BY Apart DEF ResourcesInvOK, TrackedOK, There
  <2>2. QED BY <1>2, <2>1
<1>22. v.path # NoObject BY <1>2, <1>7, BufIs
<1>23. PICK ww \in Seq(DmaByte) \cup {D!Nothing} : ww = w BY <1>9
<1>24. v # D!NoBuf /\ ww # D!Nothing => v.size = Len(ww) /\ D!Stretch(v.data, 0, v.size) = ww
  BY <1>7, <1>9, <1>10, <1>23
<1>25. whole' = [whole EXCEPT ![b] = ww] BY <1>18, <1>23
<1>26. DmaTracker => /\ \A x : x # b => (x \in tracked' <=> x \in tracked)
                     /\ b \in tracked' <=> v # D!NoBuf /\ v.holds = NoObject
  BY <1>20, <1>21
<1>27. v.path # NoObject => v.path = dmaBufs[b].path \/ path[v.path].up BY <1>7
<1>28. v.path = NoObject => v = D!NoBuf BY <1>22
<1>29. /\ v \in BufRec /\ ~D!Mapping(b) /\ dmaBufs' = [dmaBufs EXCEPT ![b] = v]
       /\ UNCHANGED <<cons, path, dying, dmaAsked>>
       /\ hand' \in [DmaHandle -> HandleRec] /\ ring' \in Seq(DmaHandle)
  BY <1>2, <1>7, <1>16, <1>18
<1>30. QED BY <1>17, <1>19, <1>24, <1>25, <1>26, <1>27, <1>28, <1>29, BufferChange
-----------------------------------------------------------------------------
(* Mappings.                                                                  *)
ConsTypes ==
    /\ \A k \in DmaConstraint : cons[k] \in ConsRec \cup {D!NoCons}
    /\ DOMAIN cons = DmaConstraint
    /\ path \in [DmaPath -> [up : BOOLEAN, on : DmaConstraint \cup {NoObject}]]

\* The paths of constraints change, and what these say of them.
LEMMA PathsChange ==
    ASSUME D!ConstantsMakeSense, ResourcesInvOK, NEW k \in DmaConstraint, D!Live(k),
           NEW S \in SUBSET DmaPath, NEW c \in ConsRec, c.paths = S, c.vals = cons[k].vals,
           cons' = [cons EXCEPT ![k] = c], UNCHANGED <<dying, dmaAsked>>,
           path' \in [DmaPath -> [up : BOOLEAN, on : DmaConstraint \cup {NoObject}]],
           \A p \in DmaPath : path'[p].up <=> path[p].up,
           \A p \in DmaPath : ~path[p].up => path'[p].on = NoObject,
           \A p \in DmaPath : p \in S <=> path'[p].up /\ path'[p].on = k,
           \A p \in DmaPath : \/ path'[p].on = path[p].on
                              \/ path[p].on \in {NoObject, k} /\ path'[p].on \in {NoObject, k},
           \A b \in DmaBuf : dmaBufs'[b].path = dmaBufs[b].path
    PROVE  /\ ConsTypes' /\ PathsOK' /\ (D!Restricts)'
           /\ \A j : D!Live(j)' <=> D!Live(j)
<1>2. c \in ConsRec /\ c.paths = S /\ c.vals = cons[k].vals OBVIOUS
<1>3. /\ cons'[k] = c /\ \A j : j # k => cons'[j] = cons[j]
      /\ DOMAIN cons' = DmaConstraint
  BY DEF ResourcesInvOK, DmaTypes
<1>4. ConsTypes' BY <1>2, <1>3 DEF ConsTypes, ResourcesInvOK, DmaTypes
<1>5. c # D!NoCons BY <1>2, Apart
<1>6. /\ \A j : D!Live(j)' <=> D!Live(j)
      /\ \A j \in DmaConstraint : D!Paths(j)' = IF j = k THEN S ELSE D!Paths(j)
  BY <1>2, <1>3, <1>5 DEF D!Live, D!Paths
<1>7. (D!PathsAgree)'
  <2>1. ASSUME NEW j \in DmaConstraint, NEW p \in DmaPath
        PROVE  p \in D!Paths(j)' <=> (path'[p].up /\ path'[p].on = j)
    <3>1. CASE j = k BY <1>6, <3>1
    <3>2. CASE j # k
      <4>1. p \in D!Paths(j) <=> (path[p].up /\ path[p].on = j)
        BY DEF ResourcesInvOK, PathsOK, D!PathsAgree
      <4>2. j # NoObject BY Apart
      <4>3. path'[p].on = j <=> path[p].on = j BY <3>2, <4>2
      <4>4. QED BY <1>6, <3>2, <4>1, <4>3
    <3>3. QED BY <3>1, <3>2
  <2>2. QED BY <2>1 DEF D!PathsAgree
<1>8. PathsOK' BY <1>7 DEF ResourcesInvOK, PathsOK, DmaTypes, BufRec
<1>9. (D!Restricts)' BY <1>2, <1>3, <1>6 DEF ResourcesInvOK, D!Restricts
<1>10. QED BY <1>4, <1>6, <1>8, <1>9

\* A handle with the record r is a mapping of a buffer with the record v.
MappingOf(h, b, r, v, w) ==
    /\ ~dying /\ (Working(h) \/ hand[h].state = "ready")
    /\ Working(h) => hand[h].buf = b
    /\ \A g \in DmaHandle : g # h => hand[g].buf # b
    /\ r.state \in {"map", "mapped"} /\ r.buf = b /\ r.now \in D!Flags
    /\ r.state = "mapped" => Len(r.mem) = r.len
    /\ v.path = dmaBufs[b].path /\ v.path # NoObject /\ v.holds = dmaBufs[b].holds
    /\ v.data = dmaBufs[b].data
    /\ r.state = "mapped" /\ r.now = {"out"} => r.mem = D!Stretch(v.data, r.base, r.len)
    /\ w # D!Nothing => /\ r.base = 0 /\ r.len = v.size /\ Len(w) = r.len
                        /\ w = IF r.state = "mapped" THEN r.mem
                               ELSE IF "out" \in r.now THEN D!Stretch(v.data, 0, r.len)
                               ELSE D!Stretch(<<>>, 0, r.len)

\* A handle and its buffer change, as a mapping.
LEMMA MappingChange ==
    ASSUME D!ConstantsMakeSense, ResourcesInvOK, NEW h \in DmaHandle, NEW b \in DmaBuf,
           NEW r \in HandleRec, NEW v \in BufRec, NEW w \in Seq(DmaByte) \cup {D!Nothing},
           hand' = [hand EXCEPT ![h] = r], dmaBufs' = [dmaBufs EXCEPT ![b] = v],
           whole' = [whole EXCEPT ![b] = w], UNCHANGED <<ring, dying, dmaAsked, tracked>>,
           ConsTypes', PathsOK', (D!Restricts)', \A j : D!Live(j)' <=> D!Live(j),
           \A p \in DmaPath : path'[p].up <=> path[p].up,
           MappingOf(h, b, r, v, w)
    PROVE  ResourcesInvOK'
<1>1. /\ hand'[h] = r /\ \A g \in DmaHandle : g # h => hand'[g] = hand[g]
      /\ hand' \in [DmaHandle -> HandleRec]
      /\ dmaBufs'[b] = v /\ \A c \in DmaBuf : c # b => dmaBufs'[c] = dmaBufs[c]
      /\ dmaBufs' \in [DmaBuf -> BufRec]
      /\ whole'[b] = w /\ \A c \in DmaBuf : c # b => whole'[c] = whole[c]
      /\ whole' \in [DmaBuf -> Seq(DmaByte) \cup {D!Nothing}]
  BY DEF ResourcesInvOK, DmaTypes
<1>0. /\ ~dying /\ (Working(h) \/ hand[h].state = "ready")
      /\ Working(h) => hand[h].buf = b
      /\ \A g \in DmaHandle : g # h => hand[g].buf # b
      /\ r.state \in {"map", "mapped"} /\ r.buf = b /\ r.now \in D!Flags
      /\ r.state = "mapped" => Len(r.mem) = r.len
      /\ v.path = dmaBufs[b].path /\ v.path # NoObject /\ v.holds = dmaBufs[b].holds
      /\ v.data = dmaBufs[b].data
      /\ r.state = "mapped" /\ r.now = {"out"} => r.mem = D!Stretch(v.data, r.base, r.len)
      /\ w # D!Nothing => /\ r.base = 0 /\ r.len = v.size /\ Len(w) = r.len
                          /\ w = IF r.state = "mapped" THEN r.mem
                                 ELSE IF "out" \in r.now THEN D!Stretch(v.data, 0, r.len)
                                 ELSE D!Stretch(<<>>, 0, r.len)
  BY DEF MappingOf
<1>2. DmaTypes' BY <1>0, <1>1 DEF ResourcesInvOK, DmaTypes, ConsTypes
<1>3. b # NoObject /\ dmaBufs[b] # D!NoBuf /\ v # D!NoBuf BY <1>0, Apart, BufIs DEF D!NoBuf
<1>4. HandlesOK'
  <2>1. ASSUME NEW g \in DmaHandle
        PROVE  /\ Working(g)' <=> hand'[g].buf # NoObject
               /\ Working(g)' => hand'[g].now \in D!Flags /\ dmaBufs'[hand'[g].buf].path # NoObject
               /\ hand'[g].state = "mapped" \/ Memory(g)' => Len(hand'[g].mem) = hand'[g].len
               /\ hand'[g].state \in {"memory", "alloc"} => hand'[g].base <= hand'[g].len
    <3>1. CASE g = h BY <1>0, <1>1, <1>3, <3>1 DEF Working, Memory
    <3>2. CASE g # h
      <4>1. /\ Working(g) <=> hand[g].buf # NoObject
            /\ Working(g) => hand[g].now \in D!Flags /\ dmaBufs[hand[g].buf].path # NoObject
            /\ hand[g].state = "mapped" \/ Memory(g) => Len(hand[g].mem) = hand[g].len
            /\ hand[g].state \in {"memory", "alloc"} => hand[g].base <= hand[g].len
        BY DEF ResourcesInvOK, HandlesOK
      <4>2. hand'[g] = hand[g] /\ hand[g].buf \in DmaBuf \cup {NoObject} /\ hand[g].buf # b
        BY <1>0, <1>1, <3>2, HandleIs DEF HandleRec
      <4>3. QED BY <1>0, <1>1, <4>1, <4>2 DEF Working, Memory
    <3>3. QED BY <1>0, <3>1, <3>2
  <2>2. \A f, g \in DmaHandle : hand'[f].buf = hand'[g].buf /\ hand'[f].buf # NoObject => f = g
    BY <1>0, <1>1 DEF ResourcesInvOK, HandlesOK
  <2>3. \A c \in DmaBuf : dmaBufs'[c].path = NoObject => dmaBufs'[c] = D!NoBuf
    BY <1>0, <1>1 DEF ResourcesInvOK, HandlesOK
  <2>4. QED BY <1>0, <2>1, <2>2, <2>3 DEF HandlesOK
<1>5. \A c \in DmaBuf : dmaBufs'[c].holds = dmaBufs[c].holds BY <1>0, <1>1
<1>6. hand[h].state \notin {"lent", "pool"} BY <1>0 DEF Working
<1>7. PlacesOK' BY <1>0, <1>1, <1>5, <1>6 DEF ResourcesInvOK, PlacesOK
<1>8. TransfersOK'
  <2>1. D!Mapping(b)' /\ \A c \in DmaBuf : c # b => (D!Mapping(c)' <=> D!Mapping(c))
    <3>1. \A c \in DmaBuf : c # b => hand[h].buf # c BY <1>0, HandleIs, Apart
    <3>2. QED BY <1>0, <1>1, <3>1 DEF D!Mapping
  <2>2. (D!TransfersAreExact)'
    BY <1>0, <1>1, <2>1 DEF ResourcesInvOK, TransfersOK, D!TransfersAreExact
  <2>3. ASSUME NEW g \in DmaHandle, g # h, Working(g)
        PROVE  /\ hand'[g] = hand[g] /\ hand[g].buf \in DmaBuf /\ hand[g].buf # b
               /\ dmaBufs'[hand[g].buf] = dmaBufs[hand[g].buf]
               /\ whole'[hand[g].buf] = whole[hand[g].buf]
    <3>1. hand[g].buf \in DmaBuf /\ hand[g].buf # b
      BY <1>0, <2>3, HandleIs DEF HandleRec, ResourcesInvOK, HandlesOK
    <3>2. QED BY <1>0, <1>1, <2>3, <3>1
  <2>4. (D!DeviceSeesTheBuffer)'
    <3>1. ASSUME NEW g \in DmaHandle, hand'[g].state = "mapped", hand'[g].now = {"out"}
          PROVE  hand'[g].mem = D!Stretch(dmaBufs'[hand'[g].buf].data, hand'[g].base, hand'[g].len)
      <4>1. CASE g = h BY <1>0, <1>1, <3>1, <4>1
      <4>2. CASE g # h
        <5>1. hand'[g] = hand[g] BY <1>0, <1>1, <4>2
        <5>2. Working(g) BY <1>0, <3>1, <5>1 DEF Working
        <5>3. QED
          BY <1>0, <2>3, <3>1, <4>2, <5>1, <5>2 DEF ResourcesInvOK, TransfersOK, D!DeviceSeesTheBuffer
      <4>3. QED BY <1>0, <4>1, <4>2
    <3>2. QED BY <1>0, <3>1 DEF D!DeviceSeesTheBuffer
  <2>5. ASSUME NEW g \in DmaHandle, Working(g)', whole'[hand'[g].buf] # D!Nothing PROVE Transfer(g)'
    <3>1. CASE g = h BY <1>0, <1>1, <2>5, <3>1 DEF Transfer
    <3>2. CASE g # h
      <4>1. hand'[g] = hand[g] BY <1>0, <1>1, <3>2
      <4>2. Working(g) BY <1>0, <2>5, <4>1 DEF Working
      <4>3. QED BY <1>0, <2>3, <2>5, <3>2, <4>1, <4>2 DEF ResourcesInvOK, TransfersOK, Transfer
    <3>3. QED BY <1>0, <3>1, <3>2
  <2>6. QED BY <1>0, <2>2, <2>4, <2>5 DEF TransfersOK
<1>9. TrackedOK'
  <2>1. \A g \in DmaHandle : Memory(g)' <=> Memory(g) BY <1>0, <1>1, <1>6 DEF Memory, Working
  <2>2. \A c \in DmaBuf : /\ D!IsExternal(c)' <=> D!IsExternal(c)
                          /\ dmaBufs'[c] = D!NoBuf <=> dmaBufs[c] = D!NoBuf
    BY <1>0, <1>1, <1>3, <1>5 DEF D!IsExternal
  <2>3. \A x : There(x)' <=> There(x) BY <1>0, <2>1, <2>2 DEF There
  <2>4. QED BY <1>0, <2>3 DEF ResourcesInvOK, TrackedOK
<1>10. QED BY <1>2, <1>4, <1>7, <1>8, <1>9 DEF ResourcesInvOK

\* A driver asks for a mapping of a buffer.
LEMMA MapKeeps ==
    ASSUME D!ConstantsMakeSense, ResourcesInvOK, NEW h \in DmaHandle, NEW b \in DmaBuf,
           NEW off \in 0 .. 1, NEW n \in 1 .. 2, NEW f \in D!Flags,
           D!udi_dma_buf_map(h, b, off, n, f), ~dmaWild'
    PROVE  ResourcesInvOK'
<1>1. PICK p, k : p = dmaBufs[b].path /\ k = hand[h].cons OBVIOUS
<1>2. /\ ~dying /\ hand[h].state = "ready" /\ dmaBufs[b] # D!NoBuf /\ ~D!Mapping(b)
      /\ p # NoObject /\ path[p].on \in {NoObject, k}
      /\ IF path[p].on # NoObject THEN UNCHANGED <<path, cons, dmaWild>>
         ELSE /\ dmaWild' = ~D!Known(k)
              /\ path' = [path EXCEPT ![p].on = k]
              /\ cons' = IF dmaWild' THEN cons ELSE [cons EXCEPT ![k].paths = @ \cup {p}]
      /\ UNCHANGED <<ring, tracked, dying, dmaAsked>>
  BY <1>1 DEF D!udi_dma_buf_map, D!Call
<1>3. /\ hand' = [hand EXCEPT ![h].state = "map", ![h].buf = b, ![h].base = off, ![h].len = n,
                              ![h].now = f]
      /\ dmaBufs' = [dmaBufs EXCEPT ![b].size = IF off + n > @ THEN off + n ELSE @]
      /\ whole' = [whole EXCEPT ![b] = IF off # 0 \/ n # dmaBufs[b].size THEN D!Nothing
                                    ELSE IF @ = D!Nothing \/ "out" \in f THEN @
                                    ELSE [i \in DOMAIN @ |-> "?"]]
  BY DEF D!udi_dma_buf_map
<1>4. /\ hand \in [DmaHandle -> HandleRec] /\ hand[h] \in HandleRec
      /\ dmaBufs \in [DmaBuf -> BufRec] /\ dmaBufs[b] \in BufRec
      /\ whole \in [DmaBuf -> Seq(DmaByte) \cup {D!Nothing}]
  BY HandleIs, BufIs
<1>5. PICK r : r = [hand[h] EXCEPT !.state = "map", !.buf = b, !.base = off, !.len = n, !.now = f]
  OBVIOUS
<1>6. /\ r \in HandleRec /\ r.state = "map" /\ r.buf = b /\ r.base = off /\ r.len = n /\ r.now = f
  <2>1. f \in FlagSets /\ off \in 0 .. 2 /\ n \in 0 .. 2 BY NoFlags
  <2>2. QED BY <1>4, <1>5, <2>1 DEF HandleRec, HandleStates
<1>7. hand' = [hand EXCEPT ![h] = r] BY <1>3, <1>4, <1>5
<1>8. PICK s : s = IF off + n > dmaBufs[b].size THEN off + n ELSE dmaBufs[b].size OBVIOUS
<1>9. PICK v : v = [dmaBufs[b] EXCEPT !.size = s] OBVIOUS
<1>10. /\ v \in BufRec /\ v.path = dmaBufs[b].path /\ v.holds = dmaBufs[b].holds
       /\ v.data = dmaBufs[b].data /\ v.size = s
  <2>1. s \in Nat BY <1>4, <1>8 DEF BufRec
  <2>2. QED BY <1>4, <1>9, <2>1 DEF BufRec
<1>11. dmaBufs' = [dmaBufs EXCEPT ![b] = v] BY <1>3, <1>4, <1>8, <1>9
<1>12. PICK w : w = IF off # 0 \/ n # dmaBufs[b].size THEN D!Nothing
                    ELSE IF whole[b] = D!Nothing \/ "out" \in f THEN whole[b]
                    ELSE [i \in DOMAIN whole[b] |-> "?"]
  OBVIOUS
<1>13. whole' = [whole EXCEPT ![b] = w] BY <1>3, <1>4, <1>12
<1>14. w # D!Nothing => /\ off = 0 /\ n = dmaBufs[b].size /\ whole[b] # D!Nothing
                        /\ whole[b] \in Seq(DmaByte)
                        /\ w = IF "out" \in f THEN whole[b] ELSE [i \in DOMAIN whole[b] |-> "?"]
                        /\ Len(whole[b]) = n /\ D!Stretch(dmaBufs[b].data, 0, n) = whole[b]
  <2>1. ASSUME w # D!Nothing PROVE off = 0 /\ n = dmaBufs[b].size /\ whole[b] # D!Nothing
    <3>1. ~(off # 0 \/ n # dmaBufs[b].size) BY <1>12, <2>1
    <3>2. w = IF whole[b] = D!Nothing \/ "out" \in f THEN whole[b]
              ELSE [i \in DOMAIN whole[b] |-> "?"]
      BY <1>12, <3>1
    <3>3. QED BY <2>1, <3>1, <3>2
  <2>2. whole[b] # D!Nothing => dmaBufs[b].size = Len(whole[b])
                                /\ D!Stretch(dmaBufs[b].data, 0, dmaBufs[b].size) = whole[b]
    BY <1>2 DEF ResourcesInvOK, TransfersOK, D!TransfersAreExact
  <2>3. QED BY <1>4, <1>12, <2>1, <2>2
<1>15. w # D!Nothing /\ "out" \notin f =>
          w \in Seq(DmaByte) /\ Len(w) = n /\ w = D!Stretch(<<>>, 0, n)
  <2>1. ASSUME w # D!Nothing, "out" \notin f
        PROVE  w \in Seq(DmaByte) /\ Len(w) = n /\ w = D!Stretch(<<>>, 0, n)
    <3>1. w = [i \in 1 .. n |-> "?"] BY <1>14, <2>1
    <3>2. D!Stretch(<<>>, 0, n) = [i \in 1 .. n |-> "?"]
      <4>1. \A i \in 1 .. n : ~(0 + i <= Len(<<>>)) OBVIOUS
      <4>2. QED BY <4>1, Zenon DEF D!Stretch
    <3>3. [i \in 1 .. n |-> "?"] \in [1 .. n -> DmaByte] BY DEF DmaByte
    <3>4. QED BY <3>1, <3>2, <3>3
  <2>2. QED BY <2>1
<1>16. w \in Seq(DmaByte) \cup {D!Nothing} BY <1>14, <1>15
<1>17. w # D!Nothing => s = n
  <2>1. w # D!Nothing => off = 0 /\ n = dmaBufs[b].size BY <1>14
  <2>2. QED BY <1>8, <2>1
<1>18. /\ p \in DmaPath /\ path[p].up
       /\ path \in [DmaPath -> [up : BOOLEAN, on : DmaConstraint \cup {NoObject}]]
  BY <1>1, <1>2, BufIs DEF ResourcesInvOK, DmaTypes, PathsOK
<1>19. \A c \in DmaBuf : dmaBufs'[c].path = dmaBufs[c].path BY <1>4, <1>10, <1>11
<1>20. /\ ConsTypes' /\ PathsOK' /\ (D!Restricts)' /\ \A j : D!Live(j)' <=> D!Live(j)
       /\ \A q \in DmaPath : path'[q].up <=> path[q].up
  <2>1. CASE path[p].on # NoObject
    <3>1. UNCHANGED <<path, cons>> BY <1>2, <2>1
    <3>2. PathsOK' /\ (D!Restricts)' /\ \A j : D!Live(j)' <=> D!Live(j)
      BY <1>2, <1>19, <3>1, SameConstraints DEF ResourcesInvOK
    <3>3. QED BY <3>1, <3>2 DEF ConsTypes, ResourcesInvOK, DmaTypes
  <2>2. CASE path[p].on = NoObject
    <3>1. /\ k \in DmaConstraint /\ D!Live(k) /\ path' = [path EXCEPT ![p].on = k]
          /\ cons' = [cons EXCEPT ![k].paths = @ \cup {p}]
      BY <1>2, <2>2 DEF D!Known
    <3>2. PICK S : S = cons[k].paths \cup {p} OBVIOUS
    <3>3. PICK c : c = [cons[k] EXCEPT !.paths = S] OBVIOUS
    <3>4. /\ D!Paths(k) = cons[k].paths /\ cons[k].paths \subseteq DmaPath /\ cons[k] \in ConsRec
      BY <3>1, LiveIs DEF ResourcesInvOK
    <3>5. cons' = [cons EXCEPT ![k] = c] BY <3>1, <3>2, <3>3 DEF ResourcesInvOK, DmaTypes
    <3>6. /\ path' \in [DmaPath -> [up : BOOLEAN, on : DmaConstraint \cup {NoObject}]]
          /\ \A q \in DmaPath : /\ path'[q].up <=> path[q].up
                                /\ path'[q].on = IF q = p THEN k ELSE path[q].on
      BY <1>18, <3>1
    <3>7. \A q \in DmaPath : ~path[q].up => path'[q].on = NoObject
      BY <1>18, <3>6 DEF ResourcesInvOK, PathsOK
    <3>8. \A q \in DmaPath : q \in S <=> path'[q].up /\ path'[q].on = k
      <4>1. \A q \in DmaPath : q \in cons[k].paths <=> path[q].up /\ path[q].on = k
        BY <3>1, <3>4 DEF ResourcesInvOK, PathsOK, D!PathsAgree
      <4>2. QED BY <1>18, <3>2, <3>6, <4>1
    <3>9. \A q \in DmaPath : \/ path'[q].on = path[q].on
                             \/ path[q].on \in {NoObject, k} /\ path'[q].on \in {NoObject, k}
      BY <2>2, <3>6
    <3>10. S \in SUBSET DmaPath BY <1>18, <3>2, <3>4
    <3>11. UNCHANGED <<dying, dmaAsked>> BY <1>2
    <3>12. c \in ConsRec /\ c.paths = S /\ c.vals = cons[k].vals BY <3>3, <3>4, <3>10 DEF ConsRec
    <3>13. k \in DmaConstraint /\ D!Live(k) BY <3>1
    <3>14. QED
      BY <1>19, <3>5, <3>6, <3>7, <3>8, <3>9, <3>10, <3>11, <3>12, <3>13, PathsChange
  <2>3. QED BY <2>1, <2>2
<1>21. \A g \in DmaHandle : g # h => hand[g].buf # b BY <1>2 DEF D!Mapping
<1>22. ~Working(h) /\ r.state # "mapped" BY <1>2, <1>6 DEF Working
<1>23. w # D!Nothing =>
          /\ r.base = 0 /\ r.len = v.size /\ Len(w) = r.len
          /\ w = IF r.state = "mapped" THEN r.mem
                 ELSE IF "out" \in r.now THEN D!Stretch(v.data, 0, r.len)
                 ELSE D!Stretch(<<>>, 0, r.len)
  BY <1>6, <1>10, <1>14, <1>15, <1>17, <1>22
<1>24. /\ v.path # NoObject /\ UNCHANGED <<ring, dying, dmaAsked, tracked>> BY <1>1, <1>2, <1>10
<1>25. MappingOf(h, b, r, v, w)
  BY <1>2, <1>6, <1>10, <1>21, <1>22, <1>23, <1>24 DEF MappingOf
<1>26. QED
  BY <1>6, <1>7, <1>10, <1>11, <1>13, <1>16, <1>20, <1>24, <1>25, MappingChange

LEMMA NoBytes == <<>> \in Seq(DmaByte)
OBVIOUS

\* A mapping that works on its own, without the constraints.
LEMMA MappingAlone ==
    ASSUME D!ConstantsMakeSense, ResourcesInvOK, NEW h \in DmaHandle, Working(h),
           NEW r \in HandleRec, NEW w \in Seq(DmaByte) \cup {D!Nothing},
           hand' = [hand EXCEPT ![h] = r], whole' = [whole EXCEPT ![hand[h].buf] = w],
           UNCHANGED <<cons, path, dmaBufs, ring, dying, dmaAsked, tracked>>,
           r.state = "mapped", r.buf = hand[h].buf, r.now = hand[h].now,
           r.base = hand[h].base, r.len = hand[h].len, Len(r.mem) = r.len,
           r.now = {"out"} => r.mem = D!Stretch(dmaBufs[hand[h].buf].data, r.base, r.len),
           w # D!Nothing => whole[hand[h].buf] # D!Nothing /\ w = r.mem
    PROVE  ResourcesInvOK'
<1>1. PICK b : b = hand[h].buf OBVIOUS
<1>2. /\ b \in DmaBuf /\ dmaBufs[b].path # NoObject /\ hand[h].now \in D!Flags /\ ~dying
      /\ \A g \in DmaHandle : g # h => hand[g].buf # b
  <2>1. b \in DmaBuf \cup {NoObject} BY <1>1, HandleIs DEF HandleRec
  <2>2. QED BY <1>1, <2>1 DEF ResourcesInvOK, HandlesOK
<1>3. PICK v : v = dmaBufs[b] OBVIOUS
<1>4. v \in BufRec /\ dmaBufs' = [dmaBufs EXCEPT ![b] = v] BY <1>2, <1>3, BufIs
<1>5. ConsTypes' BY DEF ConsTypes, ResourcesInvOK, DmaTypes
<1>6. PathsOK' /\ (D!Restricts)' /\ \A j : D!Live(j)' <=> D!Live(j)
  BY SameConstraints DEF ResourcesInvOK
<1>7. w # D!Nothing => /\ r.base = 0 /\ r.len = v.size /\ Len(w) = r.len /\ w = r.mem
  BY <1>1, <1>3 DEF ResourcesInvOK, TransfersOK, Transfer
<1>8. r.now = {"out"} => r.mem = D!Stretch(v.data, r.base, r.len) BY <1>1, <1>3
<1>9. v.path = dmaBufs[b].path /\ v.path # NoObject /\ v.holds = dmaBufs[b].holds /\ v.data = dmaBufs[b].data
  BY <1>2, <1>3
<1>10. \A p \in DmaPath : path'[p].up <=> path[p].up OBVIOUS
<1>11. hand[h].buf = b /\ r.buf = b /\ r.now \in D!Flags /\ whole' = [whole EXCEPT ![b] = w]
  BY <1>1, <1>2
<1>12. UNCHANGED <<ring, dying, dmaAsked, tracked>> OBVIOUS
<1>13. w # D!Nothing =>
          /\ r.base = 0 /\ r.len = v.size /\ Len(w) = r.len
          /\ w = IF r.state = "mapped" THEN r.mem
                 ELSE IF "out" \in r.now THEN D!Stretch(v.data, 0, r.len)
                 ELSE D!Stretch(<<>>, 0, r.len)
  BY <1>7
<1>14. /\ Working(h) \/ hand[h].state = "ready"
       /\ Working(h) => hand[h].buf = b
       /\ r.state \in {"map", "mapped"} /\ (r.state = "mapped" => Len(r.mem) = r.len)
  BY <1>11
<1>15. r.state = "mapped" /\ r.now = {"out"} => r.mem = D!Stretch(v.data, r.base, r.len) BY <1>8
<1>16. /\ v \in BufRec /\ b \in DmaBuf /\ r.buf = b /\ r.now \in D!Flags /\ ~dying
       /\ \A g \in DmaHandle : g # h => hand[g].buf # b
  BY <1>2, <1>4, <1>11
<1>17. /\ hand' = [hand EXCEPT ![h] = r] /\ dmaBufs' = [dmaBufs EXCEPT ![b] = v]
       /\ whole' = [whole EXCEPT ![b] = w]
  BY <1>4, <1>11
<1>18. MappingOf(h, b, r, v, w) BY <1>9, <1>13, <1>14, <1>15, <1>16 DEF MappingOf
<1>19. QED BY <1>5, <1>6, <1>10, <1>12, <1>16, <1>17, <1>18, MappingChange

\* The daemon makes a mapping.
LEMMA CompleteMapKeeps ==
    ASSUME D!ConstantsMakeSense, ResourcesInvOK, NEW h \in DmaHandle, D!CompleteMap(h),
           UNCHANGED <<cons, path, dmaBufs, ring, dying, dmaAsked, whole>>
    PROVE  ResourcesInvOK'
<1>1. PICK m : m = IF "out" \in hand[h].now
                   THEN D!Stretch(dmaBufs[hand[h].buf].data, hand[h].base, hand[h].len)
                   ELSE D!Stretch(<<>>, 0, hand[h].len)
  OBVIOUS
<1>2. PICK r : r = [hand[h] EXCEPT !.state = "mapped", !.mem = m] OBVIOUS
<1>3. /\ hand[h].state = "map" /\ UNCHANGED tracked
      /\ hand' = [hand EXCEPT ![h].state = "mapped", ![h].mem = m]
  BY <1>1 DEF D!CompleteMap
<1>4. /\ hand \in [DmaHandle -> HandleRec] /\ hand[h] \in HandleRec
      /\ hand[h].len \in 0 .. 2 /\ hand[h].base \in 0 .. 2
  BY HandleIs
<1>5. PICK b \in DmaBuf : b = hand[h].buf
  BY <1>3, <1>4 DEF HandleRec, ResourcesInvOK, HandlesOK, Working
<1>6. m \in Seq(DmaByte) /\ Len(m) = hand[h].len
  <2>1. PICK base \in Nat, n \in Nat : base = hand[h].base /\ n = hand[h].len BY <1>4
  <2>2. PICK s \in Seq(DmaByte) : s = dmaBufs[b].data BY BufIs
  <2>3. D!Stretch(s, base, n) \in Seq(DmaByte) /\ Len(D!Stretch(s, base, n)) = n BY StretchIs
  <2>4. PICK z \in Nat : z = 0 OBVIOUS
  <2>5. PICK e \in Seq(DmaByte) : e = <<>> BY NoBytes
  <2>6. D!Stretch(e, z, n) \in Seq(DmaByte) /\ Len(D!Stretch(e, z, n)) = n BY StretchIs
  <2>7. m = D!Stretch(s, base, n) \/ m = D!Stretch(e, z, n)
    BY <1>1, <1>5, <2>1, <2>2, <2>4, <2>5
  <2>8. QED BY <2>1, <2>3, <2>6, <2>7
<1>7. hand' = [hand EXCEPT ![h] = r] BY <1>2, <1>3, <1>4
<1>8. /\ r \in HandleRec /\ r.state = "mapped" /\ r.buf = hand[h].buf /\ r.now = hand[h].now
      /\ r.base = hand[h].base /\ r.len = hand[h].len /\ r.mem = m
  BY <1>2, <1>4, <1>6 DEF HandleRec, HandleStates
<1>9. PICK w : w = whole[b] OBVIOUS
<1>10. w \in Seq(DmaByte) \cup {D!Nothing} /\ whole' = [whole EXCEPT ![b] = w] BY <1>9, BufIs
<1>11. w # D!Nothing => w = m
  <2>1. w # D!Nothing => Transfer(h) BY <1>3, <1>5, <1>9 DEF ResourcesInvOK, TransfersOK, Working
  <2>2. QED BY <1>1, <1>3, <1>5, <1>9, <2>1 DEF Transfer
<1>12. r.now = {"out"} => r.mem = D!Stretch(dmaBufs[hand[h].buf].data, r.base, r.len) BY <1>1, <1>8
<1>13. Working(h) BY <1>3 DEF Working
<1>14. /\ whole' = [whole EXCEPT ![hand[h].buf] = w] /\ Len(r.mem) = r.len
       /\ w # D!Nothing => whole[hand[h].buf] # D!Nothing /\ w = r.mem
  BY <1>5, <1>6, <1>8, <1>9, <1>10, <1>11
<1>15. UNCHANGED <<cons, path, dmaBufs, ring, dying, dmaAsked, tracked>> BY <1>3
<1>16. w \in Seq(DmaByte) \cup {D!Nothing} BY <1>10
<1>17. QED BY <1>7, <1>8, <1>12, <1>13, <1>14, <1>15, <1>16, MappingAlone

\* The device writes.
LEMMA DeviceKeeps ==
    ASSUME D!ConstantsMakeSense, ResourcesInvOK, NEW h \in DmaHandle, D!Device(h)
    PROVE  ResourcesInvOK'
<1>1. PICK m : m = [i \in 1 .. hand[h].len |-> <<"d", "e">>[i]] OBVIOUS
<1>2. PICK r : r = [hand[h] EXCEPT !.mem = m] OBVIOUS
<1>3. PICK b : b = hand[h].buf OBVIOUS
<1>4. PICK w : w = IF whole[b] = D!Nothing THEN whole[b] ELSE m OBVIOUS
<1>5. /\ hand[h].state = "mapped" /\ "in" \in hand[h].now
      /\ hand' = [hand EXCEPT ![h].mem = m]
      /\ UNCHANGED <<cons, path, dmaBufs, ring, tracked, dying, dmaAsked>>
  BY <1>1 DEF D!Device
<1>6. whole' = [whole EXCEPT ![b] = IF @ = D!Nothing THEN @ ELSE hand'[h].mem]
  BY <1>3 DEF D!Device
<1>7. hand \in [DmaHandle -> HandleRec] /\ hand[h] \in HandleRec /\ hand[h].len \in 0 .. 2 BY HandleIs
<1>8. b \in DmaBuf
  BY <1>3, <1>5, <1>7 DEF HandleRec, ResourcesInvOK, HandlesOK, Working
<1>9. m \in Seq(DmaByte) /\ Len(m) = hand[h].len
  <2>1. PICK n \in 0 .. 2, z \in 0 .. 2 : n = hand[h].len /\ z = 0 BY <1>7
  <2>2. PICK e \in Seq(DmaByte) : e = <<>> BY NoBytes
  <2>3. LET t == [i \in 1 .. n |-> <<"d", "e">>[i]] IN t \in Seq(DmaByte) /\ Len(t) = n
    BY <2>1, <2>2, FilledIs
  <2>4. QED BY <1>1, <2>1, <2>3
<1>10. /\ r \in HandleRec /\ r.state = "mapped" /\ r.buf = hand[h].buf /\ r.now = hand[h].now
       /\ r.base = hand[h].base /\ r.len = hand[h].len /\ r.mem = m
  BY <1>2, <1>5, <1>7, <1>9 DEF HandleRec
<1>11. hand' = [hand EXCEPT ![h] = r] /\ hand'[h].mem = m BY <1>2, <1>5, <1>7, <1>10
<1>12. /\ whole \in [DmaBuf -> Seq(DmaByte) \cup {D!Nothing}] BY <1>8, BufIs
<1>13. whole' = [whole EXCEPT ![b] = w]
  <2>1. PICK c : c = hand'[h].mem /\ c = m BY <1>11
  <2>2. whole' = [whole EXCEPT ![b] = IF @ = D!Nothing THEN @ ELSE c] BY <1>6, <2>1, Zenon
  <2>3. QED BY <1>4, <1>8, <1>12, <2>1, <2>2
<1>14. w \in Seq(DmaByte) \cup {D!Nothing} /\ (w # D!Nothing => whole[b] # D!Nothing /\ w = m)
  BY <1>4, <1>8, <1>9, <1>12
<1>15. r.now # {"out"} BY <1>5, <1>10
<1>16. Working(h) BY <1>5 DEF Working
<1>17. /\ whole' = [whole EXCEPT ![hand[h].buf] = w] /\ Len(r.mem) = r.len
       /\ w # D!Nothing => whole[hand[h].buf] # D!Nothing /\ w = r.mem
  BY <1>3, <1>9, <1>10, <1>13, <1>14
<1>18. UNCHANGED <<cons, path, dmaBufs, ring, dying, dmaAsked, tracked>> BY <1>5
<1>19. w \in Seq(DmaByte) \cup {D!Nothing} BY <1>14
<1>20. QED BY <1>10, <1>11, <1>15, <1>16, <1>17, <1>18, <1>19, MappingAlone

\* A mapping is taken back, with what its device wrote.
LEMMA UnmapKeeps ==
    ASSUME D!ConstantsMakeSense, ResourcesInvOK, NEW h \in DmaHandle, NEW n \in 1 .. 2,
           D!udi_dma_buf_unmap(h, n), ~dmaWild'
    PROVE  ResourcesInvOK'
<1> DEFINE in == "in" \in hand[h].now
<1>1. PICK b, k : b = hand[h].buf /\ k = hand[h].cons OBVIOUS
<1>2. PICK old : old = dmaBufs[b].holds OBVIOUS
<1> DEFINE loses == in /\ ~D!Copied(b, hand[h].len)
<1>3. PICK v0 : v0 = IF in THEN D!UnmapIn(h) ELSE dmaBufs[b] OBVIOUS
<1>4. PICK v : v = [v0 EXCEPT !.size = n] OBVIOUS
<1>5. PICK r : r = [hand[h] EXCEPT !.state = "ready", !.buf = NoObject, !.mem = <<>>, !.now = {}]
  OBVIOUS
<1>6. PICK mid : mid = [hand EXCEPT ![h] = r] OBVIOUS
<1>7. PICK w : w = IF whole[b] = D!Nothing THEN whole[b] ELSE SubSeq(whole[b], 1, n) OBVIOUS
<1>8. /\ D!Known(k) /\ ~dying /\ hand[h].state = "mapped" /\ n <= hand[h].len
      /\ dmaBufs' = [dmaBufs EXCEPT ![b] = [(IF in THEN D!UnmapIn(h) ELSE @) EXCEPT !.size = n]]
      /\ D!Dissociate(k)
      /\ cons' = IF D!Known(k) THEN [cons EXCEPT ![k].paths = {}] ELSE cons
      /\ IF loses /\ old \in DmaHandle
         THEN /\ ring' = Append(ring, old)
              /\ hand' = [mid EXCEPT ![old].state = "pool"]
         ELSE hand' = mid /\ UNCHANGED ring
      /\ tracked' = IF loses /\ ~D!IsExternal(b) THEN tracked \ {b} ELSE tracked
      /\ whole' = [whole EXCEPT ![b] = IF @ = D!Nothing THEN @ ELSE SubSeq(@, 1, n)]
      /\ UNCHANGED <<dying, dmaAsked>>
  <2>1. /\ ~dying /\ hand[h].state = "mapped" /\ n <= hand[h].len
        /\ dmaBufs' = [dmaBufs EXCEPT ![hand[h].buf] = [(IF in THEN D!UnmapIn(h) ELSE @) EXCEPT !.size = n]]
        /\ D!Dissociate(hand[h].cons)
        /\ cons' = IF D!Known(hand[h].cons) THEN [cons EXCEPT ![hand[h].cons].paths = {}] ELSE cons
        /\ whole' = [whole EXCEPT ![hand[h].buf] = IF @ = D!Nothing THEN @ ELSE SubSeq(@, 1, n)]
        /\ UNCHANGED <<dying, dmaAsked>>
    BY Zenon DEF D!udi_dma_buf_unmap, D!Call
  <2>2. tracked' = IF (in /\ ~D!Copied(hand[h].buf, hand[h].len)) /\ ~D!IsExternal(hand[h].buf)
                   THEN tracked \ {hand[h].buf} ELSE tracked
    BY Zenon DEF D!udi_dma_buf_unmap
  <2>3. LET done == [hand EXCEPT ![h] = [hand[h] EXCEPT !.state = "ready", !.buf = NoObject,
                                                       !.mem = <<>>, !.now = {}]]
            was == dmaBufs[hand[h].buf].holds IN
        IF (in /\ ~D!Copied(hand[h].buf, hand[h].len)) /\ was \in DmaHandle
        THEN /\ ring' = Append(ring, was)
             /\ hand' = [done EXCEPT ![was].state = "pool"]
        ELSE hand' = done /\ UNCHANGED ring
    BY Zenon DEF D!udi_dma_buf_unmap
  <2>4. IF loses /\ old \in DmaHandle
        THEN /\ ring' = Append(ring, old)
             /\ hand' = [mid EXCEPT ![old].state = "pool"]
        ELSE hand' = mid /\ UNCHANGED ring
    BY <1>1, <1>2, <1>5, <1>6, <2>3, Zenon
  <2>5. D!Known(hand[h].cons) BY Zenon DEF D!udi_dma_buf_unmap
  <2>6. QED BY <1>1, <2>1, <2>2, <2>4, <2>5, Zenon
<1>9. /\ hand \in [DmaHandle -> HandleRec] /\ hand[h] \in HandleRec
      /\ hand[h].len \in 0 .. 2 /\ hand[h].base \in 0 .. 2 /\ hand[h].mem \in Seq(DmaByte)
      /\ Len(hand[h].mem) = hand[h].len
  BY <1>8, HandleIs
<1>10. /\ b \in DmaBuf /\ b # NoObject /\ hand[h].now \in D!Flags /\ dmaBufs[b].path # NoObject
       /\ \A g \in DmaHandle : g # h => hand[g].buf # b
  <2>1. b \in DmaBuf \cup {NoObject} BY <1>1, <1>9 DEF HandleRec
  <2>2. QED BY <1>1, <1>8, <2>1 DEF ResourcesInvOK, HandlesOK, Working
<1>11. /\ dmaBufs \in [DmaBuf -> BufRec] /\ dmaBufs[b] \in BufRec
       /\ whole \in [DmaBuf -> Seq(DmaByte) \cup {D!Nothing}]
  BY <1>10, BufIs
<1> HIDE DEF in
<1>12. in => AttachedAs(v0, b, hand[h].mem, hand[h].base, hand[h].len, "copy")
  <2>1. PICK m \in Seq(DmaByte), o \in Nat, l \in Nat, x \in DmaHandle \cup {NoObject, "copy"} :
          m = hand[h].mem /\ o = hand[h].base /\ l = hand[h].len /\ x = "copy"
    BY <1>9
  <2>2. in => v0 = D!Attached(b, m, o, l, x) BY <1>1, <1>3, <2>1 DEF D!UnmapIn
  <2>3. in => AttachedAs(v0, b, m, o, l, x) BY <1>10, <2>2, AttachedIs
  <2>4. QED BY <2>1, <2>3
<1>13. /\ v0 \in BufRec /\ v0.path = dmaBufs[b].path
       /\ v0.holds = IF loses THEN "copy" ELSE old
  <2>1. CASE in
    <3>1. /\ v0 \in BufRec /\ v0.path = dmaBufs[b].path
          /\ v0.holds = IF D!Copied(b, hand[h].len) THEN dmaBufs[b].holds ELSE "copy"
      BY <1>12, <2>1 DEF AttachedAs
    <3>2. QED BY <1>2, <2>1, <3>1
  <2>2. CASE ~in BY <1>2, <1>3, <1>11, <2>2
  <2>3. QED BY <2>1, <2>2
<1> HIDE DEF loses
<1>14. /\ v \in BufRec /\ v.path = dmaBufs[b].path /\ v.holds = v0.holds /\ v.data = v0.data
       /\ v.size = n
  BY <1>4, <1>13 DEF BufRec
<1>15. /\ dmaBufs' = [dmaBufs EXCEPT ![b] = v]
       /\ dmaBufs'[b] = v /\ \A c \in DmaBuf : c # b => dmaBufs'[c] = dmaBufs[c]
       /\ dmaBufs' \in [DmaBuf -> BufRec]
  <2>1. dmaBufs' = [dmaBufs EXCEPT ![b] = v] BY <1>3, <1>4, <1>8, <1>10, <1>11
  <2>2. QED BY <1>10, <1>11, <1>14, <2>1
<1>16. /\ whole'[b] = w /\ \A c \in DmaBuf : c # b => whole'[c] = whole[c]
       /\ DOMAIN whole' = DmaBuf
  BY <1>7, <1>8, <1>10, <1>11
\* What the buffer reads.
<1>17. w # D!Nothing =>
          /\ w \in Seq(DmaByte) /\ Len(w) = n /\ D!Stretch(v.data, 0, n) = w
  <2>1. ASSUME w # D!Nothing
        PROVE  w \in Seq(DmaByte) /\ Len(w) = n /\ D!Stretch(v.data, 0, n) = w
    <3>1. PICK m \in Seq(DmaByte) : m = hand[h].mem BY <1>9
    <3>2. whole[b] # D!Nothing /\ w = SubSeq(whole[b], 1, n) BY <1>7, <2>1
    <3>3. Transfer(h) BY <1>1, <1>8, <3>2 DEF ResourcesInvOK, TransfersOK, Working
    <3>4. hand[h].base = 0 /\ whole[b] = m BY <1>1, <1>8, <3>1, <3>3 DEF Transfer
    <3>5. n <= Len(m) /\ Len(m) = hand[h].len BY <1>8, <1>9, <3>1
    <3>6. w \in Seq(DmaByte) /\ Len(w) = n /\ \A i \in 1 .. n : w[i] = m[i]
      BY <3>2, <3>4, <3>5
    <3>7. PICK s \in Seq(DmaByte) : s = v.data BY <1>14 DEF BufRec
    <3>8. CASE in
      <4>1. /\ Len(v0.data) >= hand[h].len
            /\ \A i \in 1 .. hand[h].len :
                 v0.data[i] = IF hand[h].base + i <= Len(hand[h].mem) THEN hand[h].mem[hand[h].base + i]
                              ELSE "?"
        BY <1>12, <3>8 DEF AttachedAs
      <4>2. \A i \in 1 .. n : i <= Len(s) /\ s[i] = w[i]
        <5>1. ASSUME NEW i \in 1 .. n PROVE i <= Len(s) /\ s[i] = w[i]
          <6>1. /\ i \in 1 .. hand[h].len /\ hand[h].base + i = i /\ i <= Len(m)
                /\ i <= Len(s)
            BY <1>9, <1>14, <3>4, <3>5, <3>7, <4>1
          <6>2. QED BY <1>14, <3>1, <3>6, <3>7, <4>1, <6>1
        <5>2. QED BY <5>1
      <4>3. D!Stretch(s, 0, n) = w BY <3>6, <4>2, ReadsAs
      <4>4. QED BY <3>6, <3>7, <4>3
    <3>9. CASE ~in
      <4>1. hand[h].now = {"out"} BY <1>10, <3>9 DEF D!Flags, in
      <4>2. m = D!Stretch(dmaBufs[b].data, hand[h].base, hand[h].len)
        BY <1>1, <1>8, <3>1, <4>1 DEF ResourcesInvOK, TransfersOK, D!DeviceSeesTheBuffer
      <4>3. s = dmaBufs[b].data BY <1>3, <1>14, <3>7, <3>9
      <4>4. PICK l \in Nat : l = hand[h].len BY <1>9
      <4>5. m = D!Stretch(s, 0, l) BY <3>4, <4>2, <4>3, <4>4
      <4>6. \A i \in 1 .. n : m[i] = IF 0 + i <= Len(s) THEN s[0 + i] ELSE "?"
        BY <3>5, <4>4, <4>5 DEF D!Stretch
      <4>7. D!Stretch(s, 0, n) = [i \in 1 .. n |-> IF 0 + i <= Len(s) THEN s[0 + i] ELSE "?"]
        BY Zenon DEF D!Stretch
      <4>8. D!Stretch(s, 0, n) = [i \in 1 .. n |-> w[i]] BY <3>6, <4>6, <4>7
      <4>9. w = [i \in 1 .. n |-> w[i]] BY <3>6
      <4>10. QED BY <3>6, <3>7, <4>8, <4>9, Zenon
    <3>10. QED BY <3>8, <3>9
  <2>2. QED BY <2>1
\* The handles.
<1>18. D!Known(k) /\ k \in DmaConstraint /\ D!Live(k)
  <2>1. D!Known(k) BY <1>8
  <2>2. QED BY <2>1 DEF D!Known
<1>19. /\ old \in DmaHandle => hand[old].state = "lent" /\ old # h
       /\ \A g \in DmaHandle : hand[g].state = "lent" => \E c \in DmaBuf : dmaBufs[c].holds = g
       /\ \A c, e \in DmaBuf : dmaBufs[c].holds = dmaBufs[e].holds /\ dmaBufs[c].holds \in DmaHandle
                               => c = e
       /\ \A c \in DmaBuf : dmaBufs[c].holds \in DmaHandle => hand[dmaBufs[c].holds].state = "lent"
       /\ Distinct(ring) /\ ring \in Seq(DmaHandle)
       /\ \A g \in DmaHandle : g \in Range(ring) <=> hand[g].state = "pool"
  <2>1. old \in DmaHandle => hand[old].state = "lent"
    BY <1>2, <1>8, <1>10 DEF ResourcesInvOK, PlacesOK
  <2>2. old \in DmaHandle => old # h BY <1>8, <2>1
  <2>3. QED BY <1>8, <2>1, <2>2 DEF ResourcesInvOK, PlacesOK, DmaTypes
<1>20. /\ r \in HandleRec /\ r.state = "ready" /\ r.buf = NoObject
  <2>1. r \in HandleRec BY <1>5, <1>9, NoBytes DEF HandleRec, HandleStates, FlagSets
  <2>2. QED BY <1>5, <1>9, <2>1 DEF HandleRec
<1>21. /\ mid \in [DmaHandle -> HandleRec] /\ mid[h] = r
       /\ \A g \in DmaHandle : g # h => mid[g] = hand[g]
  BY <1>6, <1>9, <1>20
<1>22. PICK back : back = IF loses THEN old ELSE NoObject OBVIOUS
<1>23. back \in DmaHandle => back = old /\ loses
  <2>1. NoObject \notin DmaHandle BY Apart
  <2>2. QED BY <1>22, <2>1
<1>24. /\ hand' \in [DmaHandle -> HandleRec] /\ ring' \in Seq(DmaHandle) /\ Distinct(ring')
       /\ hand'[h] = r
       /\ \A g \in DmaHandle : g # h /\ g # back => hand'[g] = hand[g]
       /\ back \in DmaHandle => /\ hand'[back].state = "pool"
                                /\ hand'[back].buf = hand[back].buf /\ hand'[back].mem = hand[back].mem
                                /\ hand'[back].len = hand[back].len
       /\ \A g \in DmaHandle : g \in Range(ring') <=> g \in Range(ring) \/ g = back
  <2>1. CASE back \notin DmaHandle
    <3>1. ~(loses /\ old \in DmaHandle) BY <1>22, <2>1
    <3>2. hand' = mid /\ ring' = ring BY <1>8, <3>1
    <3>3. QED BY <1>19, <1>21, <2>1, <3>2
  <2>2. CASE back \in DmaHandle
    <3>1. /\ ring' = Append(ring, back) /\ hand' = [mid EXCEPT ![back].state = "pool"]
          /\ back # h /\ hand[back].state = "lent"
      BY <1>8, <1>19, <1>23, <2>2
    <3>2. back \notin Range(ring) BY <1>19, <2>2, <3>1
    <3>3. ring' \in Seq(DmaHandle) /\ Range(ring') = Range(ring) \cup {back} /\ Distinct(ring')
      BY <1>19, <2>2, <3>1, <3>2, AppendedQueue
    <3>4. PICK q : q = [mid[back] EXCEPT !.state = "pool"] OBVIOUS
    <3>5. mid[back] = hand[back] /\ mid[back] \in HandleRec BY <1>21, <2>2, <3>1
    <3>6. /\ q \in HandleRec /\ q.state = "pool" /\ q.buf = hand[back].buf /\ q.mem = hand[back].mem
          /\ q.len = hand[back].len
      BY <3>4, <3>5 DEF HandleRec, HandleStates
    <3>7. hand' = [mid EXCEPT ![back] = q] BY <1>21, <2>2, <3>1, <3>4
    <3>8. /\ hand' \in [DmaHandle -> HandleRec] /\ hand'[back] = q
          /\ \A g \in DmaHandle : g # back => hand'[g] = mid[g]
      BY <1>21, <2>2, <3>6, <3>7
    <3>9. QED BY <1>21, <2>2, <3>1, <3>3, <3>6, <3>8
  <2>3. QED BY <2>1, <2>2
<1>25. \A g \in DmaHandle : g # h => /\ Working(g)' <=> Working(g)
                                     /\ Memory(g)' <=> Memory(g)
                                     /\ hand'[g].buf = hand[g].buf
                                     /\ hand'[g].mem = hand[g].mem /\ hand'[g].len = hand[g].len
                                     /\ Working(g) => hand'[g] = hand[g]
  <2>1. ASSUME NEW g \in DmaHandle, g # h
        PROVE  /\ Working(g)' <=> Working(g)
               /\ Memory(g)' <=> Memory(g)
               /\ hand'[g].buf = hand[g].buf
               /\ hand'[g].mem = hand[g].mem /\ hand'[g].len = hand[g].len
               /\ Working(g) => hand'[g] = hand[g]
    <3>1. CASE g # back BY <1>24, <2>1, <3>1 DEF Working, Memory
    <3>2. CASE g = back
      <4>1. hand[g].state = "lent" /\ hand'[g].state = "pool" BY <1>19, <1>23, <1>24, <3>2
      <4>2. QED BY <1>24, <3>2, <4>1 DEF Working, Memory
    <3>3. QED BY <3>1, <3>2
  <2>2. QED BY <2>1
<1>26. ~Working(h)' /\ ~Memory(h)' /\ Working(h) /\ ~Memory(h)
  BY <1>8, <1>20, <1>24 DEF Working, Memory
\* Paths, types and the rest.
<1>27. /\ ConsTypes' /\ PathsOK' /\ (D!Restricts)' /\ \A j : D!Live(j)' <=> D!Live(j)
       /\ \A p \in DmaPath : path'[p].up <=> path[p].up
  <2>1. /\ path' \in [DmaPath -> [up : BOOLEAN, on : DmaConstraint \cup {NoObject}]]
        /\ \A p \in DmaPath : /\ path'[p].up <=> path[p].up
                              /\ path'[p].on = IF p \in D!Paths(k) THEN NoObject ELSE path[p].on
    BY <1>8, Untied DEF ResourcesInvOK, PathsOK
  <2>2. PICK c : c = [cons[k] EXCEPT !.paths = {}] OBVIOUS
  <2>3. cons[k] \in ConsRec BY <1>18, LiveIs DEF ResourcesInvOK
  <2>4. c \in ConsRec /\ c.paths = {} /\ c.vals = cons[k].vals BY <2>2, <2>3 DEF ConsRec
  <2>5. cons' = [cons EXCEPT ![k] = c] BY <1>8, <1>18, <2>2 DEF ResourcesInvOK, DmaTypes
  <2>6. \A p \in DmaPath : /\ p \in D!Paths(k) <=> (path[p].up /\ path[p].on = k)
                           /\ ~path[p].up => path[p].on = NoObject
    BY <1>18 DEF ResourcesInvOK, PathsOK, D!PathsAgree
  <2>7. k # NoObject BY <1>18, Apart
  <2>8. /\ \A p \in DmaPath : ~path[p].up => path'[p].on = NoObject
        /\ \A p \in DmaPath : ~(path'[p].up /\ path'[p].on = k)
        /\ \A p \in DmaPath : \/ path'[p].on = path[p].on
                              \/ path[p].on \in {NoObject, k} /\ path'[p].on \in {NoObject, k}
    <3>1. ASSUME NEW p \in DmaPath
          PROVE  /\ ~path[p].up => path'[p].on = NoObject
                 /\ ~(path'[p].up /\ path'[p].on = k)
                 /\ \/ path'[p].on = path[p].on
                    \/ path[p].on \in {NoObject, k} /\ path'[p].on \in {NoObject, k}
      <4>1. CASE p \in D!Paths(k)
        <5>1. path'[p].on = NoObject /\ path[p].on = k BY <2>1, <2>6, <4>1, Zenon
        <5>2. QED BY <2>7, <5>1
      <4>2. CASE p \notin D!Paths(k)
        <5>1. path'[p].on = path[p].on BY <2>1, <4>2, Zenon
        <5>2. (path'[p].up <=> path[p].up) /\ ~(path[p].up /\ path[p].on = k)
          BY <2>1, <2>6, <4>2, Zenon
        <5>3. ~path[p].up => path[p].on = NoObject BY <2>6, Zenon
        <5>4. QED BY <5>1, <5>2, <5>3
      <4>3. QED BY <4>1, <4>2
    <3>2. QED BY <3>1
  <2>9. \A d \in DmaBuf : dmaBufs'[d].path = dmaBufs[d].path BY <1>13, <1>14, <1>15
  <2>10. UNCHANGED <<dying, dmaAsked>> BY <1>8
  <2>11. PICK S \in SUBSET DmaPath : S = {} OBVIOUS
  <2>12. c.paths = S /\ \A p \in DmaPath : p \in S <=> path'[p].up /\ path'[p].on = k
    BY <2>4, <2>8, <2>11
  <2>13. ConsTypes' /\ PathsOK' /\ (D!Restricts)' /\ \A j : D!Live(j)' <=> D!Live(j)
    BY <1>18, <2>1, <2>4, <2>5, <2>8, <2>9, <2>10, <2>12, PathsChange
  <2>14. QED BY <2>1, <2>13
<1>28. whole' \in [DmaBuf -> Seq(DmaByte) \cup {D!Nothing}]
  <2>1. w \in Seq(DmaByte) \cup {D!Nothing} BY <1>17
  <2>2. whole' = [whole EXCEPT ![b] = w] BY <1>7, <1>8, <1>10, <1>11
  <2>3. QED BY <1>11, <2>1, <2>2
<1>29. DmaTypes' BY <1>8, <1>15, <1>24, <1>27, <1>28 DEF ResourcesInvOK, DmaTypes, ConsTypes
<1>30. HandlesOK'
  <2>1. ASSUME NEW g \in DmaHandle
        PROVE  /\ Working(g)' <=> hand'[g].buf # NoObject
               /\ Working(g)' => hand'[g].now \in D!Flags /\ dmaBufs'[hand'[g].buf].path # NoObject
               /\ hand'[g].state = "mapped" \/ Memory(g)' => Len(hand'[g].mem) = hand'[g].len
               /\ hand'[g].state \in {"memory", "alloc"} => hand'[g].base <= hand'[g].len
    <3>1. CASE g = h BY <1>20, <1>24, <1>26, <3>1 DEF Working
    <3>2. CASE g # h
      <4>1. /\ Working(g) <=> hand[g].buf # NoObject
            /\ Working(g) => hand[g].now \in D!Flags /\ dmaBufs[hand[g].buf].path # NoObject
            /\ hand[g].state = "mapped" \/ Memory(g) => Len(hand[g].mem) = hand[g].len
            /\ hand[g].state \in {"memory", "alloc"} => hand[g].base <= hand[g].len
            /\ hand[g].buf \in DmaBuf \cup {NoObject} /\ hand[g].buf # b
        BY <1>10, <3>2, HandleIs DEF HandleRec, ResourcesInvOK, HandlesOK
      <4>2. Working(g)' => hand'[g].now \in D!Flags /\ dmaBufs'[hand'[g].buf].path # NoObject
        BY <1>15, <1>25, <3>2, <4>1
      <4>3. hand'[g].state \in {"memory", "alloc"} => hand'[g] = hand[g]
        BY <1>24, <3>2
      <4>4. hand'[g].state = "mapped" => hand'[g] = hand[g] BY <1>24, <3>2
      <4>5. QED BY <1>25, <3>2, <4>1, <4>2, <4>3, <4>4
    <3>3. QED BY <3>1, <3>2
  <2>2. \A f, g \in DmaHandle : hand'[f].buf = hand'[g].buf /\ hand'[f].buf # NoObject => f = g
    <3>1. \A f, g \in DmaHandle : hand[f].buf = hand[g].buf /\ hand[f].buf # NoObject => f = g
      BY DEF ResourcesInvOK, HandlesOK
    <3>2. hand'[h].buf = NoObject BY <1>20, <1>24
    <3>3. QED BY <1>25, <3>1, <3>2
  <2>3. \A c \in DmaBuf : dmaBufs'[c].path = NoObject => dmaBufs'[c] = D!NoBuf
    BY <1>10, <1>13, <1>14, <1>15 DEF ResourcesInvOK, HandlesOK
  <2>4. ~dying' BY <1>8
  <2>5. QED BY <2>1, <2>2, <2>3, <2>4 DEF HandlesOK
<1>31. v.holds = IF loses THEN "copy" ELSE old BY <1>13, <1>14
<1>32. PlacesOK'
  <2>1. "copy" \notin DmaHandle BY Apart
  <2>2. \A c \in DmaBuf : dmaBufs'[c].holds \in DmaHandle =>
           dmaBufs'[c].holds = dmaBufs[c].holds /\ dmaBufs'[c].holds # back
    <3>1. ASSUME NEW c \in DmaBuf, dmaBufs'[c].holds \in DmaHandle
          PROVE  dmaBufs'[c].holds = dmaBufs[c].holds /\ dmaBufs'[c].holds # back
      <4>1. CASE c = b
        <5>1. ~loses /\ dmaBufs'[c].holds = old BY <1>15, <1>31, <2>1, <3>1, <4>1
        <5>2. back = NoObject /\ NoObject \notin DmaHandle BY <1>22, <5>1, Apart
        <5>3. QED BY <1>2, <3>1, <4>1, <5>1, <5>2
      <4>2. CASE c # b
        <5>1. dmaBufs'[c].holds = dmaBufs[c].holds BY <1>15, <4>2
        <5>2. dmaBufs[c].holds # back BY <1>2, <1>10, <1>19, <1>23, <3>1, <4>2, <5>1
        <5>3. QED BY <5>1, <5>2
      <4>3. QED BY <4>1, <4>2
    <3>2. QED BY <3>1
  <2>3. \A g \in DmaHandle : hand'[g].state = "lent" <=> hand[g].state = "lent" /\ g # back
    <3>1. hand'[h].state # "lent" /\ hand[h].state # "lent" BY <1>8, <1>20, <1>24
    <3>2. QED BY <1>24, <3>1
  <2>4. \A c \in DmaBuf : dmaBufs'[c].holds \in DmaHandle => hand'[dmaBufs'[c].holds].state = "lent"
    BY <1>19, <2>2, <2>3
  <2>5. ASSUME NEW g \in DmaHandle, hand'[g].state = "lent" PROVE \E c \in DmaBuf : dmaBufs'[c].holds = g
    <3>1. hand[g].state = "lent" /\ g # back BY <2>3, <2>5
    <3>2. PICK c \in DmaBuf : dmaBufs[c].holds = g BY <1>19, <3>1
    <3>3. CASE c # b BY <1>15, <3>2, <3>3
    <3>4. CASE c = b
      <4>1. g = old BY <1>2, <3>2, <3>4
      <4>2. ~loses BY <1>22, <3>1, <4>1
      <4>3. QED BY <1>10, <1>15, <1>31, <4>1, <4>2
    <3>5. QED BY <3>3, <3>4
  <2>6. \A c, e \in DmaBuf : dmaBufs'[c].holds = dmaBufs'[e].holds /\ dmaBufs'[c].holds \in DmaHandle
                            => c = e
    BY <1>19, <2>2
  <2>7. \A g \in DmaHandle : g \in Range(ring') <=> hand'[g].state = "pool"
    <3>1. hand'[h].state # "pool" /\ hand[h].state # "pool" /\ h # back
      BY <1>8, <1>19, <1>20, <1>23, <1>24
    <3>2. QED BY <1>19, <1>24, <3>1
  <2>8. QED BY <1>24, <2>4, <2>5, <2>6, <2>7 DEF PlacesOK
<1>33. TransfersOK'
  <2>1. ~D!Mapping(b)' /\ \A c \in DmaBuf : c # b => (D!Mapping(c)' <=> D!Mapping(c))
    <3>1. hand'[h].buf \notin DmaBuf BY <1>20, <1>24, Apart
    <3>2. \A g \in DmaHandle : g # h => hand'[g].buf = hand[g].buf BY <1>25
    <3>3. QED BY <1>1, <1>10, <3>1, <3>2 DEF D!Mapping
  <2>2. (D!TransfersAreExact)'
    <3>1. ASSUME NEW c \in DmaBuf, dmaBufs'[c] # D!NoBuf, whole'[c] # D!Nothing, ~D!Mapping(c)'
          PROVE  /\ dmaBufs'[c].size = Len(whole'[c])
                 /\ D!Stretch(dmaBufs'[c].data, 0, dmaBufs'[c].size) = whole'[c]
      <4>1. CASE c = b BY <1>14, <1>15, <1>16, <1>17, <3>1, <4>1
      <4>2. CASE c # b
        <5>1. dmaBufs'[c] = dmaBufs[c] /\ whole'[c] = whole[c] /\ ~D!Mapping(c)
          BY <1>15, <1>16, <2>1, <3>1, <4>2
        <5>2. QED BY <3>1, <5>1 DEF ResourcesInvOK, TransfersOK, D!TransfersAreExact
      <4>3. QED BY <4>1, <4>2
    <3>2. QED BY <3>1 DEF D!TransfersAreExact
  <2>3. ASSUME NEW g \in DmaHandle, Working(g)'
        PROVE  /\ hand'[g] = hand[g] /\ Working(g) /\ hand[g].buf \in DmaBuf /\ hand[g].buf # b
               /\ dmaBufs'[hand[g].buf] = dmaBufs[hand[g].buf]
               /\ whole'[hand[g].buf] = whole[hand[g].buf]
    <3>1. g # h BY <1>26, <2>3
    <3>2. hand'[g] = hand[g] /\ Working(g) BY <1>25, <2>3, <3>1
    <3>3. hand[g].buf \in DmaBuf /\ hand[g].buf # b
      BY <1>10, <3>1, <3>2, HandleIs DEF HandleRec, ResourcesInvOK, HandlesOK
    <3>4. QED BY <1>15, <1>16, <3>2, <3>3
  <2>4. (D!DeviceSeesTheBuffer)'
    BY <2>3 DEF ResourcesInvOK, TransfersOK, D!DeviceSeesTheBuffer, Working
  <2>5. \A g \in DmaHandle : Working(g)' /\ whole'[hand'[g].buf] # D!Nothing => Transfer(g)'
    BY <2>3 DEF ResourcesInvOK, TransfersOK, Transfer
  <2>6. QED BY <2>2, <2>4, <2>5 DEF TransfersOK
<1>34. TrackedOK'
  <2>1. \A g \in DmaHandle : Memory(g)' <=> Memory(g) BY <1>25, <1>26
  <2>2. v # D!NoBuf /\ dmaBufs[b] # D!NoBuf BY <1>10, <1>13, <1>14 DEF D!NoBuf
  <2>3. \A x : x # b => (There(x)' <=> There(x))
    BY <1>15, <1>27, <2>1 DEF There, D!IsExternal
  <2>4. There(b) <=> old = NoObject BY <1>2, <1>10, <2>2, Apart DEF There, D!IsExternal
  <2>5. There(b)' <=> v.holds = NoObject BY <1>10, <1>15, <2>2, Apart DEF There, D!IsExternal
  <2>6. "copy" # NoObject BY Apart
  <2>7. There(b)' <=> There(b) /\ ~loses BY <1>31, <2>4, <2>5, <2>6
  <2>8. D!IsExternal(b) <=> old # NoObject BY <1>2 DEF D!IsExternal
  <2>9. DmaTracker => tracked' = IF loses /\ There(b) THEN tracked \ {b} ELSE tracked
    BY <1>8, <2>4, <2>8
  <2>10. QED BY <1>10, <2>3, <2>7, <2>9 DEF ResourcesInvOK, TrackedOK
<1>35. QED BY <1>27, <1>29, <1>30, <1>32, <1>33, <1>34 DEF ResourcesInvOK
-----------------------------------------------------------------------------
(* The end of the region, and all the steps.                                  *)
LEMMA ReapKeeps ==
    ASSUME D!ConstantsMakeSense, ResourcesInvOK, D!_udi_reap_region_resources
    PROVE  ResourcesInvOK'
<1>1. /\ D!Quiet /\ dying' = TRUE
      /\ UNCHANGED <<cons, path, hand, dmaBufs, ring, tracked, dmaAsked, whole>>
  BY DEF D!_udi_reap_region_resources
<1>2. DmaTypes' BY <1>1 DEF ResourcesInvOK, DmaTypes, D!_udi_reap_region_resources
<1>3. PathsOK' BY <1>1 DEF ResourcesInvOK, PathsOK, D!PathsAgree, D!Paths, D!Live
<1>4. (D!Restricts)' BY <1>1 DEF ResourcesInvOK, D!Restricts, D!Live
<1>5. HandlesOK'
  <2>1. \A h \in DmaHandle : ~Working(h)' /\ hand'[h].state \notin {"prepare", "alloc"}
    BY <1>1 DEF D!Quiet, Working
  <2>2. \A h \in DmaHandle : Working(h)' <=> Working(h) BY <1>1 DEF Working
  <2>3. \A h \in DmaHandle : Memory(h)' <=> Memory(h) BY <1>1 DEF Memory
  <2>4. QED BY <1>1, <2>1, <2>2, <2>3 DEF ResourcesInvOK, HandlesOK
<1>6. PlacesOK' BY <1>1 DEF PlacesOK
<1>7. TransfersOK'
  <2>1. (D!TransfersAreExact)' BY <1>1 DEF ResourcesInvOK, TransfersOK, D!TransfersAreExact, D!Mapping
  <2>2. (D!DeviceSeesTheBuffer)' BY <1>1 DEF ResourcesInvOK, TransfersOK, D!DeviceSeesTheBuffer
  <2>3. QED BY <1>1, <2>1, <2>2 DEF ResourcesInvOK, TransfersOK, Working, Transfer
<1>8. TrackedOK'
  <2>1. \A x : There(x)' <=> There(x) BY <1>1 DEF There, D!Live, Memory, D!IsExternal
  <2>2. QED BY <1>1, <2>1 DEF ResourcesInvOK, TrackedOK
<1>9. QED BY <1>2, <1>3, <1>4, <1>5, <1>6, <1>7, <1>8 DEF ResourcesInvOK

LEMMA OrphanKeeps ==
    ASSUME D!ConstantsMakeSense, ResourcesInvOK, NEW x \in tracked, D!_udi_dealloc_orphan(x), ~dmaWild'
    PROVE  ResourcesInvOK'
<1>1. /\ dying /\ UNCHANGED <<dying, dmaAsked>>
      /\ \/ x \in DmaConstraint /\ D!FreeCons(x) /\ UNCHANGED whole
         \/ x \in DmaPath /\ D!FreePath(x) /\ UNCHANGED whole
         \/ x \in DmaHandle /\ D!FreeHand(x) /\ UNCHANGED whole
         \/ x \in DmaBuf /\ D!FreeBuf(x) /\ whole' = [whole EXCEPT ![x] = D!Nothing]
  BY DEF D!_udi_dealloc_orphan
<1>2. There(x) BY <1>1 DEF ResourcesInvOK, DmaTypes, TrackedOK
<1>3. \A h \in DmaHandle : ~Working(h) /\ hand[h].buf = NoObject
  BY <1>1 DEF ResourcesInvOK, HandlesOK
<1>4. CASE x \in DmaConstraint /\ D!FreeCons(x) /\ UNCHANGED whole
  <2>1. D!Live(x) BY <1>2, <1>4, Apart DEF There
  <2>2. QED BY <1>1, <1>4, <2>1, FreeConsKeeps
<1>5. CASE x \in DmaPath /\ D!FreePath(x) /\ UNCHANGED whole
  <2>1. path[x].up BY <1>2, <1>5, Apart DEF There
  <2>2. QED BY <1>1, <1>5, <2>1, FreePathKeeps
<1>6. CASE x \in DmaHandle /\ D!FreeHand(x) /\ UNCHANGED whole
  BY <1>1, <1>3, <1>6, FreeHandKeeps
<1>7. CASE x \in DmaBuf /\ D!FreeBuf(x) /\ whole' = [whole EXCEPT ![x] = D!Nothing]
  <2>1. ~D!Mapping(x) BY <1>3, <1>7, Apart DEF D!Mapping
  <2>2. QED BY <1>1, <1>7, <2>1, FreeBufKeeps
<1>8. QED BY <1>1, <1>4, <1>5, <1>6, <1>7

LEMMA DmaSame ==
    ASSUME ResourcesInvOK,
           UNCHANGED <<cons, path, hand, dmaBufs, ring, tracked, dying, dmaAsked, whole>>
    PROVE  ResourcesInvOK'
<1>1. DmaTypes' BY DEF ResourcesInvOK, DmaTypes
<1>2. HandlesOK' /\ PlacesOK' /\ TransfersOK' BY SameObjects DEF ResourcesInvOK
<1>3. PathsOK' /\ (D!Restricts)' /\ \A k : D!Live(k)' <=> D!Live(k)
  BY SameConstraints DEF ResourcesInvOK
<1>4. TrackedOK'
  <2>1. \A x : There(x)' <=> There(x) BY DEF There, D!Live, Memory, D!IsExternal
  <2>2. QED BY <2>1 DEF ResourcesInvOK, TrackedOK
<1>5. QED BY <1>1, <1>2, <1>3, <1>4 DEF ResourcesInvOK

\* Only a call that finds no memory leaves a request.
LEMMA RequestKept == ASSUME SettingOK, [D!Next]_(D!vars) PROVE SettingOK'
<1>1. CASE UNCHANGED setting BY <1>1 DEF SettingOK
<1>2. ASSUME NEW src \in DmaConstraint \cup {NoObject}, NEW specs \in DmaSpecs, NEW copy \in BOOLEAN,
             D!udi_dma_constraints_attr_set(src, specs, copy)
      PROVE  SettingOK'
  <2>1. \/ UNCHANGED setting
        \/ setting' = {[src |-> src, list |-> specs]}
    BY <1>2, Zenon DEF D!udi_dma_constraints_attr_set
  <2>2. [src |-> src, list |-> specs] \in [src : DmaConstraint \cup {NoObject}, list : DmaSpecs]
    OBVIOUS
  <2>3. QED BY <1>1, <2>1, <2>2 DEF SettingOK
<1>3. CASE D!CompleteSet \/ D!CancelSet
  <2>1. setting' = {} BY <1>3 DEF D!CompleteSet, D!CancelSet
  <2>2. QED BY <2>1 DEF SettingOK
<1>4. \/ UNCHANGED setting
      \/ \E src \in DmaConstraint \cup {NoObject}, specs \in DmaSpecs, copy \in BOOLEAN :
            D!udi_dma_constraints_attr_set(src, specs, copy)
      \/ D!CompleteSet \/ D!CancelSet
  BY Zenon DEF D!Next, D!vars
<1>5. QED BY <1>1, <1>2, <1>3, <1>4

LEMMA DmaStep ==
    ASSUME D!ConstantsMakeSense, ResourcesInv, D!Next
    PROVE  ResourcesInv'
<1>0. SettingOK' BY RequestKept DEF ResourcesInv
<1> SUFFICES ASSUME ~dmaWild' PROVE ResourcesInvOK' BY <1>0 DEF ResourcesInv
<1> USE DEF ResourcesInv
<1>1. ASSUME NEW src \in DmaConstraint \cup {NoObject}, NEW specs \in DmaSpecs, NEW copy \in BOOLEAN,
             D!udi_dma_constraints_attr_set(src, specs, copy)
      PROVE  ResourcesInvOK'
  <2>1. /\ ~dmaWild /\ (src # NoObject => D!Live(src))
        /\ UNCHANGED <<path, hand, dmaBufs, ring, dying, whole>>
        /\ \/ D!_udi_constraints_attr_set_complete(src, specs, copy \/ src = NoObject)
           \/ UNCHANGED <<cons, dmaAsked, tracked>>
    BY <1>1, Zenon DEF D!udi_dma_constraints_attr_set, D!Call
  <2>2. CASE D!_udi_constraints_attr_set_complete(src, specs, copy \/ src = NoObject)
    BY <2>1, <2>2, SetKeeps
  <2>3. CASE UNCHANGED <<cons, dmaAsked, tracked>> BY <2>1, <2>3, DmaSame
  <2>4. QED BY <2>1, <2>2, <2>3
<1>2. ASSUME NEW k \in DmaConstraint, NEW a \in D!Attr, D!udi_dma_constraints_attr_reset(k, a)
      PROVE  ResourcesInvOK'
  <2>1. ~dmaWild BY <1>2 DEF D!udi_dma_constraints_attr_reset, D!Call
  <2>2. QED BY <1>2, <2>1, ResetKeeps
<1>3. ASSUME NEW k \in DmaConstraint, D!udi_dma_constraints_free(k) PROVE ResourcesInvOK'
  <2>1. ~dmaWild /\ D!Live(k) /\ D!FreeCons(k) /\ UNCHANGED <<dying, dmaAsked, whole>>
    BY <1>3 DEF D!udi_dma_constraints_free, D!Call
  <2>2. QED BY <2>1, FreeConsKeeps
<1>4. ASSUME NEW k \in DmaConstraint, NEW f \in D!Flags, D!udi_dma_prepare(k, f) PROVE ResourcesInvOK'
  <2>1. ~dmaWild BY <1>4 DEF D!udi_dma_prepare, D!Call
  <2>2. QED BY <1>4, <2>1, PrepareKeeps
<1>5. ASSUME NEW k \in DmaConstraint, NEW n \in 1 .. 2, D!udi_dma_mem_alloc(k, n) PROVE ResourcesInvOK'
  <2>1. ~dmaWild BY <1>5 DEF D!udi_dma_mem_alloc, D!Call
  <2>2. QED BY <1>5, <2>1, NewMemoryKeeps, PooledMemoryKeeps
<1>6. ASSUME D!udi_buf_path_alloc PROVE ResourcesInvOK'
  <2>1. ~dmaWild BY <1>6 DEF D!udi_buf_path_alloc, D!Call
  <2>2. QED BY <1>6, <2>1, PathAllocKeeps
<1>7. ASSUME NEW p \in DmaPath, D!udi_buf_path_free(p) PROVE ResourcesInvOK'
  <2>1. /\ ~dmaWild /\ path[p].up /\ \A b \in DmaBuf : dmaBufs[b].path # p
        /\ D!FreePath(p) /\ UNCHANGED <<dying, dmaAsked, whole>>
    BY <1>7 DEF D!udi_buf_path_free, D!Call
  <2>2. QED BY <2>1, FreePathKeeps
<1>8. ASSUME NEW p \in DmaPath, D!udi_buf_write(p) PROVE ResourcesInvOK'
  <2>1. ~dmaWild BY <1>8 DEF D!udi_buf_write, D!Call
  <2>2. QED BY <1>8, <2>1, WriteKeeps
<1>9. ASSUME NEW b \in DmaBuf, D!udi_buf_free(b) PROVE ResourcesInvOK'
  <2>1. /\ ~dmaWild /\ ~D!Mapping(b) /\ D!FreeBuf(b) /\ whole' = [whole EXCEPT ![b] = D!Nothing]
        /\ UNCHANGED <<dying, dmaAsked>>
    BY <1>9 DEF D!udi_buf_free
  <2>2. QED BY <2>1, FreeBufKeeps
<1>10. ASSUME NEW h \in DmaHandle, NEW b \in DmaBuf, NEW off \in 0 .. 1, NEW n \in 1 .. 2,
              NEW f \in D!Flags, D!udi_dma_buf_map(h, b, off, n, f)
       PROVE  ResourcesInvOK'
  <2>1. ~dmaWild BY <1>10 DEF D!udi_dma_buf_map, D!Call
  <2>2. QED BY <1>10, <2>1, MapKeeps
<1>11. ASSUME NEW h \in DmaHandle, NEW b \in DmaBuf, NEW off \in 0 .. 1, NEW n \in 1 .. 2,
              D!udi_dma_mem_to_buf(h, b, off, n)
       PROVE  ResourcesInvOK'
  <2>1. ~dmaWild BY <1>11 DEF D!udi_dma_mem_to_buf, D!Call
  <2>2. QED BY <1>11, <2>1, MemToBufKeeps
<1>12. ASSUME NEW h \in DmaHandle, D!Complete(h) PROVE ResourcesInvOK'
  <2>1. D!CompleteMap(h) \/ D!CompletePrepare(h) \/ D!CompleteAlloc(h)
    BY <1>12 DEF D!Complete
  <2>2. ~dmaWild /\ UNCHANGED <<cons, path, dmaBufs, ring, dying, dmaAsked, whole>>
    BY <1>12 DEF D!Complete
  <2>3. QED BY <2>1, <2>2, CompleteMapKeeps, CompletePrepareKeeps, CompleteAllocKeeps
<1>13. ASSUME NEW h \in DmaHandle, D!udi_cancel(h) PROVE ResourcesInvOK'
  <2>1. ~dmaWild BY <1>13 DEF D!udi_cancel, D!Call
  <2>2. QED BY <1>13, <2>1, CancelDmaKeeps
<1>14. ASSUME NEW h \in DmaHandle, D!Device(h) PROVE ResourcesInvOK'
  <2>1. ~dmaWild BY <1>14 DEF D!Device
  <2>2. QED BY <1>14, <2>1, DeviceKeeps
<1>15. ASSUME NEW h \in DmaHandle, D!Driver(h) PROVE ResourcesInvOK'
  <2>1. ~dmaWild BY <1>15 DEF D!Driver
  <2>2. QED BY <1>15, <2>1, DriverKeeps
<1>16. ASSUME NEW h \in DmaHandle, NEW n \in 1 .. 2, D!udi_dma_buf_unmap(h, n) PROVE ResourcesInvOK'
  <2>1. ~dmaWild BY <1>16, Zenon DEF D!udi_dma_buf_unmap, D!Call
  <2>2. QED BY <1>16, <2>1, UnmapKeeps
<1>17. ASSUME NEW h \in DmaHandle, D!udi_dma_free(h) PROVE ResourcesInvOK'
  <2>1. /\ ~dmaWild /\ hand[h].state \in {"ready", "memory"} /\ D!FreeHand(h)
        /\ UNCHANGED <<dying, dmaAsked, whole>>
    BY <1>17 DEF D!udi_dma_free, D!Call
  <2>2. ~Working(h) BY <2>1 DEF Working
  <2>3. QED BY <2>1, <2>2, FreeHandKeeps
<1>18. ASSUME D!_udi_reap_region_resources PROVE ResourcesInvOK'
  <2>1. ~dmaWild BY <1>18 DEF D!_udi_reap_region_resources
  <2>2. QED BY <1>18, <2>1, ReapKeeps
<1>19. ASSUME NEW x \in tracked, D!_udi_dealloc_orphan(x) PROVE ResourcesInvOK'
  <2>1. ~dmaWild BY <1>19 DEF D!_udi_dealloc_orphan
  <2>2. QED BY <1>19, <2>1, OrphanKeeps
<1>20. ASSUME D!CompleteSet PROVE ResourcesInvOK'
  <2>1. /\ ~dmaWild /\ UNCHANGED <<path, hand, dmaBufs, ring, dying, whole>>
        /\ \E r \in setting :
             /\ r.src = NoObject \/ D!Live(r.src)
             /\ D!_udi_constraints_attr_set_complete(r.src, r.list, TRUE)
    BY <1>20, Zenon DEF D!CompleteSet
  <2>2. PICK r \in setting : /\ r.src = NoObject \/ D!Live(r.src)
                             /\ D!_udi_constraints_attr_set_complete(r.src, r.list, TRUE)
    BY <2>1
  <2>3. r.src \in DmaConstraint \cup {NoObject} /\ r.list \in DmaSpecs BY <2>2 DEF SettingOK
  <2>4. PICK src, specs : src = r.src /\ specs = r.list OBVIOUS
  <2>5. D!_udi_constraints_attr_set_complete(src, specs, TRUE \/ src = NoObject)
    <3>1. (TRUE \/ src = NoObject) = TRUE OBVIOUS
    <3>2. QED BY <2>2, <2>4, <3>1
  <2>6. QED BY <2>1, <2>2, <2>3, <2>4, <2>5, SetKeeps
<1>21. ASSUME D!CancelSet PROVE ResourcesInvOK'
  <2>1. ~dmaWild BY <1>21 DEF D!CancelSet, D!Call
  <2>2. UNCHANGED <<cons, path, hand, dmaBufs, ring, tracked, dying, dmaAsked, whole>>
    BY <1>21 DEF D!CancelSet
  <2>3. QED BY <2>1, <2>2, DmaSame
<1>22. QED
  BY <1>1, <1>2, <1>3, <1>4, <1>5, <1>6, <1>7, <1>8, <1>9, <1>10, <1>11, <1>12, <1>13, <1>14, <1>15,
     <1>16, <1>17, <1>18, <1>19, <1>20, <1>21 DEF D!Next

LEMMA DmaStutters == ASSUME ResourcesInv, UNCHANGED D!vars PROVE ResourcesInv'
<1>1. SettingOK' BY RequestKept DEF ResourcesInv
<1>2. UNCHANGED <<cons, path, hand, dmaBufs, ring, tracked, dying, dmaAsked, whole, dmaWild>>
  BY DEF D!vars
<1>3. QED BY <1>1, <1>2, DmaSame DEF ResourcesInv

\* What the invariant says of places and of the tracker, as the model puts it.
LEMMA DmaShows ==
    ASSUME D!ConstantsMakeSense, ResourcesInvOK
    PROVE  D!MemoryHasOnePlace /\ D!TrackerIsExact
<1>1. ASSUME NEW h \in DmaHandle
      PROVE  LET in == {b \in DmaBuf : dmaBufs[b].holds = h}
                 at == {i \in DOMAIN ring : ring[i] = h} IN
             /\ ~dying => Cardinality(in) = (IF hand[h].state = "lent" THEN 1 ELSE 0)
             /\ ~dying => Cardinality(at) = (IF hand[h].state = "pool" THEN 1 ELSE 0)
             /\ hand[h].state = "memory" => Len(hand[h].mem) >= hand[h].base
  <2> DEFINE in == {b \in DmaBuf : dmaBufs[b].holds = h}
             at == {i \in DOMAIN ring : ring[i] = h}
  <2>1. ~dying => Cardinality(in) = (IF hand[h].state = "lent" THEN 1 ELSE 0)
    <3>1. CASE dying BY <3>1
    <3>2. CASE ~dying /\ hand[h].state = "lent"
      <4>1. PICK b \in DmaBuf : dmaBufs[b].holds = h BY <3>2 DEF ResourcesInvOK, PlacesOK
      <4>2. in = {b} BY <3>2, <4>1 DEF ResourcesInvOK, PlacesOK
      <4>3. QED BY <3>2, <4>2, FS_Singleton
    <3>3. CASE ~dying /\ hand[h].state # "lent"
      <4>1. in = {} BY <3>3 DEF ResourcesInvOK, PlacesOK
      <4>2. QED BY <3>3, <4>1, FS_EmptySet
    <3>4. QED BY <3>1, <3>2, <3>3
  <2>2. ~dying => Cardinality(at) = (IF hand[h].state = "pool" THEN 1 ELSE 0)
    <3>1. CASE dying BY <3>1
    <3>2. CASE ~dying /\ hand[h].state = "pool"
      <4>1. h \in Range(ring) /\ Distinct(ring) BY <3>2 DEF ResourcesInvOK, PlacesOK
      <4>2. PICK i \in DOMAIN ring : ring[i] = h BY <4>1 DEF Range
      <4>3. at = {i} BY <4>1, <4>2 DEF Distinct
      <4>4. QED BY <3>2, <4>3, FS_Singleton
    <3>3. CASE ~dying /\ hand[h].state # "pool"
      <4>1. h \notin Range(ring) BY <3>3 DEF ResourcesInvOK, PlacesOK
      <4>2. at = {} BY <4>1 DEF Range
      <4>3. QED BY <3>3, <4>2, FS_EmptySet
    <3>4. QED BY <3>1, <3>2, <3>3
  <2>3. hand[h].state = "memory" => Len(hand[h].mem) >= hand[h].base
    <3>1. hand[h].state = "memory" => Len(hand[h].mem) = hand[h].len /\ hand[h].base <= hand[h].len
      BY DEF Memory, ResourcesInvOK, HandlesOK
    <3>2. hand[h].base \in 0 .. 2 /\ hand[h].len \in 0 .. 2 BY HandleIs
    <3>3. QED BY <3>1, <3>2
  <2>4. QED BY <2>1, <2>2, <2>3
<1>2. D!MemoryHasOnePlace
  <2>1. \A S : D!Cardinality(S) = Cardinality(S) BY Zenon DEF D!Cardinality, Cardinality
  <2>2. QED BY <1>1, <2>1 DEF D!MemoryHasOnePlace
<1>3. ASSUME DmaTracker
      PROVE  tracked = {k \in DmaConstraint : D!Live(k)} \cup {p \in DmaPath : path[p].up} \cup
                       {h \in DmaHandle : hand[h].state \in {"memory", "lent", "pool"}} \cup
                       {b \in DmaBuf : dmaBufs[b] # D!NoBuf /\ ~D!IsExternal(b)}
  <2>1. tracked \subseteq DmaConstraint \cup DmaPath \cup DmaHandle \cup DmaBuf
        /\ \A x \in DmaConstraint \cup DmaPath \cup DmaHandle \cup DmaBuf : x \in tracked <=> There(x)
    BY <1>3 DEF ResourcesInvOK, TrackedOK
  <2>2. \A x \in tracked : There(x) BY <2>1
  <2>3. \A x : There(x) => x \in tracked BY <2>1 DEF There
  <2>4. \A x : There(x) <=>
           x \in {k \in DmaConstraint : D!Live(k)} \cup {p \in DmaPath : path[p].up} \cup
                 {h \in DmaHandle : hand[h].state \in {"memory", "lent", "pool"}} \cup
                 {b \in DmaBuf : dmaBufs[b] # D!NoBuf /\ ~D!IsExternal(b)}
    BY DEF There, Memory
  <2>5. QED BY <2>2, <2>3, <2>4
<1>4. D!TrackerIsExact BY <1>3, Zenon DEF D!TrackerIsExact
<1>5. QED BY <1>2, <1>4

\* Whatever a region has of constraints, paths, handles and buffers, and whatever attributes it
\* sets of them: until the environment uses what it freed, or an allocation or a mapping is
\* cancelled too late, paths and constraints refer to one another, constraints restrict as much
\* as was asked, a buffer reads what a device or a driver wrote, memory has one place, and the
\* tracker lists what there is, when the region goes too (udi_dma.c, udi_constraints.c).
THEOREM ResourcesKept == D!ConstantsMakeSense => (D!Spec => []ResourcesAreSound)
<1>1. ASSUME D!ConstantsMakeSense PROVE D!Init => ResourcesInv
  <2>1. D!Init => SettingOK BY DEF D!Init, SettingOK
  <2>2. QED BY <1>1, <2>1, DmaBegins DEF ResourcesInv
<1>2. ASSUME D!ConstantsMakeSense PROVE ResourcesInv /\ [D!Next]_(D!vars) => ResourcesInv'
  BY <1>2, DmaStep, DmaStutters
<1>3. D!ConstantsMakeSense /\ ResourcesInv => ResourcesAreSound
  <2>1. ASSUME D!ConstantsMakeSense, ResourcesInvOK
        PROVE  /\ D!PathsAgree /\ D!Restricts /\ D!TransfersAreExact /\ D!DeviceSeesTheBuffer
               /\ D!MemoryHasOnePlace /\ D!TrackerIsExact
    BY <2>1, DmaShows DEF ResourcesInvOK, PathsOK, TransfersOK
  <2>2. QED BY <2>1 DEF ResourcesInv, ResourcesAreSound, D!ResourcesAreSound
<1>4. D!ConstantsMakeSense => D!ConstantsMakeSense'
  BY DEF D!ConstantsMakeSense
<1>5. QED BY <1>1, <1>2, <1>3, <1>4, PTL DEF D!Spec
=============================================================================
