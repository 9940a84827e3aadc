--------------------------- MODULE Console_proofs ---------------------------
(***************************************************************************)
(* The screen shows the end of what was printed, for any size of screen    *)
(* and any text, when one thread prints at a time.                         *)
(***************************************************************************)
EXTENDS Console, ConsoleLock, SequenceTheorems, WellFoundedInduction, TLAPS
-----------------------------------------------------------------------------
(* The text as lines.                                                        *)
Grown(lines, k) == [lines EXCEPT ![Len(lines)] = Append(lines[Len(lines)], k)]
NextLines(lines, k) ==
    IF k \notin Letters THEN Append(lines, <<>>)
    ELSE IF Len(lines[Len(lines)]) + 1 = Cols THEN Append(Grown(lines, k), <<>>)
    ELSE Grown(lines, k)

Texts == {lines \in Seq(Seq(Letters)) : Len(lines) > 0 /\ Len(lines[Len(lines)]) < Cols}

LEMMA GrownLine ==
    ASSUME NEW lines \in Texts, NEW k \in Letters
    PROVE  LET last == Len(lines) IN
           /\ last \in Nat /\ last > 0 /\ DOMAIN lines = 1..last
           /\ lines[last] \in Seq(Letters) /\ Len(lines[last]) \in Nat
           /\ Grown(lines, k) \in Seq(Seq(Letters)) /\ Len(Grown(lines, k)) = last
           /\ DOMAIN Grown(lines, k) = 1..last
           /\ \A i \in 1..(last - 1) : Grown(lines, k)[i] = lines[i]
           /\ Grown(lines, k)[last] = Append(lines[last], k)
           /\ Len(Grown(lines, k)[last]) = Len(lines[last]) + 1
<1> DEFINE last == Len(lines)
           g == Grown(lines, k)
<1>1. /\ last \in Nat /\ last > 0 /\ DOMAIN lines = 1..last /\ last \in 1..last
      /\ lines \in Seq(Seq(Letters))
  BY DEF Texts
<1>2. lines[last] \in Seq(Letters) /\ Len(lines[last]) \in Nat BY <1>1
<1>3. /\ Append(lines[last], k) \in Seq(Letters)
      /\ Len(Append(lines[last], k)) = Len(lines[last]) + 1
  BY <1>2
<1>4. g \in [1..last -> Seq(Letters)] BY <1>1, <1>3 DEF Grown
<1>5. g \in Seq(Seq(Letters)) /\ Len(g) = last /\ DOMAIN g = 1..last
  <2> HIDE DEF g
  <2>1. PICK n \in Nat : n = last BY <1>1
  <2>2. g \in [1..n -> Seq(Letters)] BY <1>4, <2>1
  <2>3. g \in Seq(Seq(Letters)) /\ DOMAIN g = 1..n BY <2>2, IsASeq
  <2>4. Len(g) = n BY <2>1, <2>3, LenProperties
  <2>5. QED BY <2>1, <2>3, <2>4
<1>6. /\ \A i \in 1..(last - 1) : g[i] = lines[i]
      /\ g[last] = Append(lines[last], k)
  <2>1. PICK n \in Nat : n = last BY <1>1
  <2>2. DOMAIN lines = 1..n /\ n > 0 BY <1>1, <2>1
  <2>3. \A i \in 1..(n - 1) : i \in 1..n /\ i # n OBVIOUS
  <2>4. \A i \in 1..(n - 1) : i \in DOMAIN lines /\ i # n BY <2>2, <2>3
  <2>5. n \in DOMAIN lines BY <2>2
  <2>6. Grown(lines, k) = [lines EXCEPT ![n] = Append(lines[n], k)] BY <2>1 DEF Grown
  <2> HIDE DEF last
  <2>7. /\ \A i \in 1..(n - 1) : g[i] = lines[i]
        /\ g[n] = Append(lines[n], k)
    BY <2>4, <2>5, <2>6
  <2>8. QED BY <2>1, <2>7
<1>7. QED BY <1>1, <1>2, <1>3, <1>5, <1>6

LEMMA NextTexts ==
    ASSUME NEW lines \in Texts, NEW k
    PROVE  NextLines(lines, k) \in Texts
<1>1. lines \in Seq(Seq(Letters)) /\ Len(lines) \in Nat /\ Len(lines) > 0 BY DEF Texts
<1>2. <<>> \in Seq(Letters) /\ Len(<<>>) = 0 /\ 0 < Cols BY ConsoleAssumption
<1>3. ASSUME NEW l \in Seq(Seq(Letters)) PROVE Append(l, <<>>) \in Texts
  <2>1. /\ Append(l, <<>>) \in Seq(Seq(Letters)) /\ Len(Append(l, <<>>)) = Len(l) + 1
        /\ Append(l, <<>>)[Len(l) + 1] = <<>> /\ Len(l) \in Nat
    BY <1>2
  <2>2. PICK m \in Seq(Seq(Letters)) : m = Append(l, <<>>) BY <2>1
  <2>3. Len(m) = Len(l) + 1 /\ m[Len(m)] = <<>> BY <2>1, <2>2
  <2>4. Len(m) > 0 /\ Len(m[Len(m)]) < Cols BY <1>2, <2>1, <2>3
  <2>5. QED BY <2>2, <2>4 DEF Texts
<1>4. CASE k \notin Letters BY <1>1, <1>3, <1>4 DEF NextLines
<1>5. CASE k \in Letters
  <2>1. /\ Grown(lines, k) \in Seq(Seq(Letters)) /\ Len(Grown(lines, k)) = Len(lines)
        /\ Len(Grown(lines, k)[Len(lines)]) = Len(lines[Len(lines)]) + 1
        /\ Len(lines[Len(lines)]) \in Nat
    BY <1>5, GrownLine
  <2>2. Len(lines[Len(lines)]) < Cols BY DEF Texts
  <2>3. Len(lines[Len(lines)]) + 1 # Cols => Grown(lines, k) \in Texts
    BY <1>1, <2>1, <2>2, ConsoleAssumption DEF Texts
  <2>4. QED BY <1>3, <1>5, <2>1, <2>3 DEF NextLines
<1>6. QED BY <1>4, <1>5

LEMMA Climb ==
    ASSUME NEW b \in Nat, NEW P, 0 \in P,
           \A n \in 1..b : n - 1 \in P => n \in P
    PROVE  \A n \in 0..b : n \in P
<1> DEFINE Bad == {n \in 0..b : n \notin P}
           less == {ss \in Nat \X Nat : ss[1] < ss[2]}
<1>1. IsWellFoundedOn(less, Nat) BY NatLessThanWellFounded, Zenon DEF OpToRel
<1>2. \A k, m \in Nat : k < m => <<k, m>> \in less OBVIOUS
<1>3. ASSUME NEW m \in Bad, \A k \in Bad : ~ (<<k, m>> \in less) PROVE FALSE
  <2>1. m \in 1..b /\ m \notin P /\ m - 1 \in 0..b /\ m - 1 < m /\ m \in Nat /\ m - 1 \in Nat
    OBVIOUS
  <2>2. <<m - 1, m>> \in less BY <2>1
  <2>3. m - 1 \notin Bad
    <3> HIDE DEF Bad, less
    <3>1. QED BY <1>3, <2>2
  <2>4. QED BY <2>1, <2>3
<1>4. Bad \subseteq Nat OBVIOUS
<1> HIDE DEF Bad, less
<1>5. Bad = {} BY <1>1, <1>3, <1>4, WFMin
<1>6. QED BY <1>5 DEF Bad

\* LinesAfter is what its definition says.
Unfolded == /\ \A n \in 0..MaxText : LinesAfter[n] \in Texts
            /\ LinesAfter[0] = << <<>> >>
            /\ \A n \in 1..MaxText : LinesAfter[n] = NextLines(LinesAfter[n - 1], text[n])

LEMMA Unfolds == Unfolded
<1> DEFINE Body(f, n) == IF n = 0 THEN << <<>> >> ELSE NextLines(f[n - 1], text[n])
           Upto(m) == \E f : f \in [0..m -> Texts] /\ f = [n \in 0..m |-> Body(f, n)]
           P == {m \in 0..MaxText : Upto(m)}
<1>1. << <<>> >> \in Texts
  <2>1. <<>> \in Seq(Letters) /\ Len(<<>>) = 0 /\ 0 < Cols BY ConsoleAssumption
  <2>2. << <<>> >> \in Seq(Seq(Letters)) /\ Len(<< <<>> >>) = 1 /\ << <<>> >>[1] = <<>>
    BY <2>1
  <2>3. QED BY <2>1, <2>2 DEF Texts
<1>2. MaxText \in Nat BY ConsoleAssumption
<1>3. 0 \in P
  <2> DEFINE f == [n \in 0..0 |-> << <<>> >>]
  <2>1. f \in [0..0 -> Texts] /\ f = [n \in 0..0 |-> Body(f, n)] BY <1>1
  <2>2. Upto(0) BY <2>1
  <2>3. QED BY <1>2, <2>2
<1>4. ASSUME NEW m \in 1..MaxText, m - 1 \in P PROVE m \in P
  <2>1. PICK f : f \in [0..(m - 1) -> Texts] /\ f = [n \in 0..(m - 1) |-> Body(f, n)]
    BY <1>4
  <2> DEFINE g == [n \in 0..m |-> IF n = m THEN NextLines(f[m - 1], text[m]) ELSE f[n]]
  <2>2. m - 1 \in 0..(m - 1) /\ m # 0 /\ m \in 0..MaxText BY <1>2
  <2>3. NextLines(f[m - 1], text[m]) \in Texts BY <2>1, <2>2, NextTexts
  <2>4. \A n \in 0..m : n # m => n \in 0..(m - 1) BY <1>2
  <2>5. g \in [0..m -> Texts] BY <2>1, <2>3, <2>4
  <2>6. ASSUME NEW n \in 0..m PROVE g[n] = Body(g, n)
    <3>1. CASE n = m
      <4>1. m - 1 \in 0..m /\ m - 1 # m BY <2>2
      <4>2. g[m - 1] = f[m - 1] /\ g[m] = NextLines(f[m - 1], text[m]) BY <4>1
      <4>3. QED BY <2>2, <3>1, <4>2
    <3>2. CASE n # m /\ n # 0
      <4>1. n \in 0..(m - 1) /\ n - 1 \in 0..m /\ n - 1 # m BY <2>4, <3>2
      <4>2. f[n] = Body(f, n) BY <2>1, <4>1
      <4>3. g[n] = f[n] /\ g[n - 1] = f[n - 1] BY <3>2, <4>1
      <4>4. QED BY <3>2, <4>2, <4>3
    <3>3. CASE n = 0
      <4>1. 0 \in 0..(m - 1) /\ 0 # m BY <2>2
      <4>2. f[0] = Body(f, 0) BY <2>1, <4>1
      <4>3. QED BY <3>3, <4>1, <4>2
    <3>4. QED BY <3>1, <3>2, <3>3
  <2>7. g = [n \in 0..m |-> Body(g, n)] BY <2>6
  <2> HIDE DEF g
  <2>8. Upto(m) BY <2>5, <2>7
  <2>9. QED BY <2>2, <2>8
<1>5. MaxText \in P
  <2> HIDE DEF P
  <2>1. \A n \in 0..MaxText : n \in P BY <1>2, <1>3, <1>4, Climb
  <2>2. QED BY <1>2, <2>1
<1>6. PICK f : f \in [0..MaxText -> Texts] /\ f = [n \in 0..MaxText |-> Body(f, n)]
  BY <1>5
<1>7. LinesAfter = [n \in 0..MaxText |-> Body(LinesAfter, n)]
  BY <1>6, Zenon DEF LinesAfter, NextLines, Grown
<1>8. LinesAfter \in [0..MaxText -> Texts]
  <2>1. f = [n \in 0..MaxText |-> Body(f, n)] BY <1>6
  <2> DEFINE Q == {n \in 0..MaxText : LinesAfter[n] = f[n]}
  <2>2. 0 \in Q BY <1>2, <1>7, <2>1
  <2>3. ASSUME NEW n \in 1..MaxText, n - 1 \in Q PROVE n \in Q
    <3>1. n \in 0..MaxText /\ n # 0 /\ LinesAfter[n - 1] = f[n - 1] BY <1>2, <2>3
    <3>2. LinesAfter[n] = NextLines(LinesAfter[n - 1], text[n]) BY <1>7, <3>1
    <3>3. f[n] = NextLines(f[n - 1], text[n]) BY <2>1, <3>1
    <3>4. QED BY <3>1, <3>2, <3>3
  <2> HIDE DEF Q
  <2>4. \A n \in 0..MaxText : n \in Q BY <1>2, <2>2, <2>3, Climb
  <2>5. \A n \in 0..MaxText : LinesAfter[n] \in Texts
    BY <1>6, <2>4 DEF Q
  <2>6. QED BY <1>7, <2>5
<1>9. \A n \in 1..MaxText : n \in 0..MaxText /\ n # 0 BY <1>2
<1>10. \A n \in 1..MaxText : LinesAfter[n] = NextLines(LinesAfter[n - 1], text[n])
  BY <1>7, <1>9
<1>11. LinesAfter[0] = << <<>> >> BY <1>2, <1>7
<1>12. QED BY <1>8, <1>10, <1>11 DEF Unfolded

-----------------------------------------------------------------------------
(* The lines of the text, and those before the character being printed.      *)
Lines == LinesAfter[Len(text)]
Old   == LinesAfter[Len(text) - 1]
Plain == \A i \in 1..Len(text) : text[i] # "bs"

Col(lines) == Len(lines[Len(lines)])
Top(lines) == IF Len(lines) > Rows THEN Len(lines) - Rows ELSE 0
Row(lines) == (Len(lines) - Top(lines)) - 1

\* The lines with k on the last of them, and whether a new one is begun.
Base(lines, k) == IF k \in Letters THEN Grown(lines, k) ELSE lines
Breaks(lines, k) == k \notin Letters \/ Col(lines) + 1 = Cols

\* What cell i shows when the lines after the first top ones are displayed.
Glyph(lines, top, i) ==
    LET row == top + (i \div Cols) + 1
    IN IF row \in DOMAIN lines /\ (i % Cols) + 1 \in DOMAIN lines[row]
       THEN lines[row][(i % Cols) + 1] ELSE Blank
Displays(lines, top) == \A i \in Cells : screen[i] = Glyph(lines, top, i)

At(lines, col, row) == col = Col(lines) /\ row = Row(lines)

Resting == /\ csr_x < Cols /\ csr_y < Rows /\ cursor = csr_y * Cols + csr_x
           /\ Plain => Displays(Lines, Top(Lines)) /\ At(Lines, csr_x, csr_y)

Drawing(c) == /\ ch[c] \in Letters
              /\ x[c] = csr_x /\ csr_x < Cols /\ y[c] = csr_y /\ csr_y < Rows
              /\ Plain => Displays(Old, Top(Old)) /\ At(Old, csr_x, csr_y)
Stepping(c) == /\ csr_x < Cols /\ y[c] = csr_y /\ csr_y < Rows
               /\ Plain => /\ At(Old, csr_x, csr_y)
                           /\ Displays(Base(Old, ch[c]), Top(Old))
Wrapping(c) == /\ x[c] = csr_x /\ y[c] = csr_y /\ csr_y < Rows
               /\ csr_x <= Cols \/ csr_x = 2 ^ 30
               /\ Plain => /\ ch[c] \in Letters /\ At(Old, csr_x - 1, csr_y)
                           /\ Displays(Grown(Old, ch[c]), Top(Old))
Scrolling(c) == /\ csr_x < Cols /\ y[c] = csr_y /\ csr_y <= Rows
                /\ Plain => /\ Displays(Lines, Top(Old)) /\ csr_x = Col(Lines)
                            /\ csr_y = (Len(Lines) - Top(Old)) - 1
                            /\ csr_y = Rows => csr_x = 0
Showing(c) == /\ csr_x < Cols /\ y[c] = csr_y /\ csr_y < Rows
              /\ Plain => Displays(Lines, Top(Lines)) /\ At(Lines, csr_x, csr_y)

InCall(c) == /\ pc[c] # "out" => text # <<>> /\ ch[c] = text[Len(text)]
             /\ pc[c] = "draw" => Drawing(c)
             /\ pc[c] = "step" => Stepping(c)
             /\ pc[c] = "wrap" => Wrapping(c)
             /\ pc[c] = "scroll" => Scrolling(c)
             /\ pc[c] = "show" => Showing(c)

IInv == /\ TypeOK /\ ch \in [Callers -> Letters \cup Controls \cup {Blank}]
        /\ AtRest => Resting
        /\ \A c \in Callers : InCall(c)

-----------------------------------------------------------------------------
(* Cells and what they show.                                                 *)
LEMMA Sizes == /\ Rows \in Nat /\ Rows > 0 /\ Cols \in Nat /\ Cols > 1 /\ MaxText \in Nat
               /\ Cols <= 2 ^ 30 /\ 2 ^ 30 \in Nat
               /\ Rows * Cols \in Nat
<1>1. 2 ^ 30 \in Nat OBVIOUS
<1>2. Rows \in Nat /\ Rows > 0 /\ Cols \in Nat /\ Cols > 1 /\ MaxText \in Nat /\ Cols <= 2 ^ 30
  BY <1>1, ConsoleAssumption
<1>3. Rows * Cols \in Nat BY <1>2
<1>4. QED BY <1>1, <1>2, <1>3

LEMMA Parts ==
    ASSUME NEW i \in Nat
    PROVE  /\ i \div Cols \in Nat /\ i % Cols \in 0..(Cols - 1)
           /\ i = (i \div Cols) * Cols + (i % Cols)
           /\ (i + Cols) \div Cols = (i \div Cols) + 1 /\ (i + Cols) % Cols = i % Cols
<1>1. PICK C \in Nat \ {0} : C = Cols BY Sizes
<1>2. /\ i \div C \in Nat /\ i % C \in 0..(C - 1) /\ i = (i \div C) * C + (i % C)
  OBVIOUS
<1>3. (i + C) \div C = (i \div C) + 1 /\ (i + C) % C = i % C
  <2>1. PICK r \in Nat : r = i \div C BY <1>2
  <2>2. PICK q \in 0..(C - 1) : q = i % C BY <1>2
  <2>3. i + C = (r + 1) * C + q BY <1>2, <2>1, <2>2
  <2>4. PICK s \in Nat : s = r + 1 OBVIOUS
  <2>5. (s * C + q) \div C = s /\ (s * C + q) % C = q OBVIOUS
  <2>6. QED BY <2>1, <2>2, <2>3, <2>4, <2>5
<1>4. QED BY <1>1, <1>2, <1>3

LEMMA Joined ==
    ASSUME NEW r \in Nat, NEW q \in 0..(Cols - 1)
    PROVE  (r * Cols + q) \div Cols = r /\ (r * Cols + q) % Cols = q
<1>1. PICK C \in Nat \ {0} : C = Cols BY Sizes
<1>2. q \in 0..(C - 1) BY <1>1
<1>3. (r * C + q) \div C = r /\ (r * C + q) % C = q BY <1>2
<1>4. QED BY <1>1, <1>3

\* A row and a column make a cell exactly when the row is one of the screen.
LEMMA Within ==
    ASSUME NEW r \in Nat, NEW q \in 0..(Cols - 1)
    PROVE  r * Cols + q \in Cells <=> r < Rows
<1>1. PICK C \in Nat, R \in Nat : C = Cols /\ R = Rows /\ C > 0 /\ R > 0 BY Sizes
<1>2. r < R => r * C + q \in 0..(R * C - 1)
  <2>1. SUFFICES ASSUME r < R PROVE r * C + q \in 0..(R * C - 1) OBVIOUS
  <2>2. PICK d \in Nat : R = (r + 1) + d BY <2>1
  <2>3. PICK a \in Nat : a = r * C OBVIOUS
  <2>4. PICK e \in Nat : e = d * C OBVIOUS
  <2>5. R * C = (a + C) + e BY <2>2, <2>3, <2>4
  <2>6. a + q \in 0..(((a + C) + e) - 1) BY <1>1
  <2>7. QED BY <2>3, <2>5, <2>6
<1>3. r >= R => ~ (r * C + q \in 0..(R * C - 1))
  <2>1. SUFFICES ASSUME r >= R PROVE ~ (r * C + q \in 0..(R * C - 1)) OBVIOUS
  <2>2. PICK d \in Nat : r = R + d BY <2>1
  <2>3. PICK a \in Nat : a = R * C OBVIOUS
  <2>4. PICK e \in Nat : e = d * C OBVIOUS
  <2>5. r * C = a + e BY <2>2, <2>3, <2>4
  <2>6. ~ ((a + e) + q \in 0..(a - 1)) BY <1>1
  <2>7. QED BY <2>3, <2>5, <2>6
<1>4. QED BY <1>1, <1>2, <1>3 DEF Cells

LEMMA CellParts ==
    ASSUME NEW i \in Cells
    PROVE  i \in Nat /\ i \div Cols \in 0..(Rows - 1) /\ i % Cols \in 0..(Cols - 1)
<1>1. i \in Nat BY Sizes DEF Cells
<1>2. PICK r \in Nat : r = i \div Cols BY <1>1, Parts
<1>3. PICK q \in 0..(Cols - 1) : q = i % Cols BY <1>1, Parts
<1>4. r * Cols + q \in Cells BY <1>1, <1>2, <1>3, Parts
<1>5. r < Rows BY <1>4, Within
<1>6. QED BY <1>1, <1>2, <1>3, <1>5, Sizes

LEMMA GlyphGrown ==
    ASSUME NEW lines \in Texts, NEW k \in Letters, NEW top \in Nat, NEW i \in Cells,
           top < Len(lines)
    PROVE  Glyph(Grown(lines, k), top, i) =
               IF i \div Cols = (Len(lines) - top) - 1 /\ i % Cols = Col(lines) THEN k
               ELSE Glyph(lines, top, i)
<1> DEFINE g == Grown(lines, k)
<1>1. PICK n \in Nat : n = Len(lines) BY GrownLine
<1>2. /\ n > 0 /\ DOMAIN lines = 1..n /\ DOMAIN g = 1..n
      /\ lines[n] \in Seq(Letters) /\ Len(lines[n]) \in Nat
      /\ \A r \in 1..(n - 1) : g[r] = lines[r]
      /\ g[n] = Append(lines[n], k)
  BY <1>1, GrownLine, Zenon
<1>3. PICK d \in Nat, q \in Nat : d = i \div Cols /\ q = i % Cols BY CellParts
<1>4. PICK m \in Nat : m = Len(lines[n]) BY <1>2
<1>5. DOMAIN lines[n] = 1..m BY <1>2, <1>4
<1>6. /\ DOMAIN g[n] = 1..(m + 1) /\ g[n][m + 1] = k
      /\ \A j \in 1..m : g[n][j] = lines[n][j]
  <2>1. PICK l \in Seq(Letters) : l = lines[n] BY <1>2
  <2>2. Len(l) = m /\ Append(l, k) \in Seq(Letters) BY <1>4, <2>1
  <2>3. Len(Append(l, k)) = m + 1 BY <2>2
  <2>4. DOMAIN Append(l, k) = 1..(m + 1) /\ Append(l, k)[m + 1] = k
        /\ \A j \in 1..m : Append(l, k)[j] = l[j]
    BY <2>2, <2>3
  <2>5. QED BY <1>2, <2>1, <2>4
<1>7. Col(lines) = m BY <1>1, <1>4 DEF Col
<1>8. CASE (top + d) + 1 = n
  <2>1. d = (n - top) - 1 /\ (top + d) + 1 \in 1..n BY <1>2, <1>8
  <2>2. CASE q = m
    <3>1. q + 1 \in 1..(m + 1) BY <2>2
    <3>2. Glyph(g, top, i) = k BY <1>2, <1>3, <1>6, <1>8, <2>1, <2>2, <3>1 DEF Glyph
    <3>3. i \div Cols = (Len(lines) - top) - 1 /\ i % Cols = Col(lines)
      BY <1>1, <1>3, <1>7, <2>1, <2>2
    <3>4. QED BY <3>2, <3>3, Zenon
  <2>3. CASE q # m
    <3>1. q + 1 \in 1..(m + 1) <=> q + 1 \in 1..m BY <2>3
    <3>2. Glyph(g, top, i) = IF q + 1 \in 1..(m + 1) THEN g[n][q + 1] ELSE Blank
      BY <1>2, <1>3, <1>6, <1>8, <2>1 DEF Glyph
    <3>3. Glyph(lines, top, i) = IF q + 1 \in 1..m THEN lines[n][q + 1] ELSE Blank
      BY <1>2, <1>3, <1>5, <1>8, <2>1 DEF Glyph
    <3>4. q + 1 \in 1..m => g[n][q + 1] = lines[n][q + 1] BY <1>6, Zenon
    <3>5. Glyph(g, top, i) = Glyph(lines, top, i)
      <4>1. PICK u : u = lines[n][q + 1] OBVIOUS
      <4>2. CASE q + 1 \in 1..m
        <5>1. Glyph(g, top, i) = u BY <3>1, <3>2, <3>4, <4>1, <4>2, Zenon
        <5>2. Glyph(lines, top, i) = u BY <3>3, <4>1, <4>2, Zenon
        <5>3. QED BY <5>1, <5>2, Zenon
      <4>3. CASE q + 1 \notin 1..m
        <5>1. Glyph(g, top, i) = Blank BY <3>1, <3>2, <4>3, Zenon
        <5>2. Glyph(lines, top, i) = Blank BY <3>3, <4>3, Zenon
        <5>3. QED BY <5>1, <5>2, Zenon
      <4>4. QED BY <4>2, <4>3
    <3>6. i % Cols # Col(lines) BY <1>3, <1>7, <2>3
    <3>7. QED BY <3>5, <3>6, Zenon
  <2>4. QED BY <2>2, <2>3
<1>9. CASE (top + d) + 1 # n
  <2>1. d # (n - top) - 1 BY <1>9
  <2>2. (top + d) + 1 \in 1..n => (top + d) + 1 \in 1..(n - 1) BY <1>9
  <2>3. PICK row \in Nat : row = (top + d) + 1 OBVIOUS
  <2>4. row \in 1..n => g[row] = lines[row] BY <1>2, <2>2, <2>3
  <2>5. Glyph(g, top, i) = Glyph(lines, top, i)
    BY <1>2, <1>3, <2>3, <2>4 DEF Glyph
  <2>6. i \div Cols # (Len(lines) - top) - 1 BY <1>1, <1>3, <2>1
  <2>7. QED BY <2>5, <2>6, Zenon
<1>10. QED BY <1>8, <1>9

LEMMA GlyphAppend ==
    ASSUME NEW lines \in Seq(Seq(Letters)), NEW top \in Nat, NEW i \in Cells
    PROVE  Glyph(Append(lines, <<>>), top, i) = Glyph(lines, top, i)
<1>1. PICK n \in Nat : n = Len(lines) OBVIOUS
<1>2. PICK row \in Nat : row = top + (i \div Cols) + 1 BY CellParts
<1>3. PICK q \in Nat : q = (i % Cols) + 1 BY CellParts
<1>4. DOMAIN lines = 1..n BY <1>1
<1>5. PICK more : more = Append(lines, <<>>) OBVIOUS
<1>6. /\ DOMAIN more = 1..(n + 1) /\ more[n + 1] = <<>>
      /\ \A r \in 1..n : more[r] = lines[r]
  <2>1. <<>> \in Seq(Letters) OBVIOUS
  <2>2. PICK none \in Seq(Letters) : none = <<>> BY <2>1
  <2>3. Append(lines, none) \in Seq(Seq(Letters)) /\ Len(Append(lines, none)) = n + 1
    BY <1>1, <2>2
  <2>4. DOMAIN Append(lines, none) = 1..(n + 1) /\ Append(lines, none)[n + 1] = none
        /\ \A r \in 1..n : Append(lines, none)[r] = lines[r]
    BY <1>1, <2>3
  <2>5. QED BY <1>5, <2>2, <2>4
<1>7. DOMAIN <<>> = {} OBVIOUS
<1>8. Glyph(lines, top, i) = IF row \in 1..n /\ q \in DOMAIN lines[row] THEN lines[row][q] ELSE Blank
  BY <1>2, <1>3, <1>4, Zenon DEF Glyph
<1>9. Glyph(more, top, i) = IF row \in 1..(n + 1) /\ q \in DOMAIN more[row] THEN more[row][q] ELSE Blank
  BY <1>2, <1>3, <1>6, Zenon DEF Glyph
<1>10. CASE row \in 1..n BY <1>5, <1>6, <1>8, <1>9, <1>10
<1>11. CASE row = n + 1
  <2>1. row \notin 1..n /\ more[row] = <<>> BY <1>6, <1>11
  <2>2. q \notin DOMAIN more[row] BY <1>7, <2>1
  <2>3. QED BY <1>5, <1>8, <1>9, <2>1, <2>2, Zenon
<1>12. CASE row \notin 1..(n + 1)
  <2>1. row \notin 1..n BY <1>12
  <2>2. QED BY <1>5, <1>8, <1>9, <1>12, <2>1, Zenon
<1>13. QED BY <1>10, <1>11, <1>12

LEMMA GlyphUp ==
    ASSUME NEW lines, NEW top \in Nat, NEW i \in Nat
    PROVE  Glyph(lines, top + 1, i) = Glyph(lines, top, i + Cols)
<1>1. PICK d \in Nat, q \in Nat : d = i \div Cols /\ q = i % Cols BY Parts
<1>2. (i + Cols) \div Cols = d + 1 /\ (i + Cols) % Cols = q BY <1>1, Parts
<1>3. (top + 1) + d + 1 = top + (d + 1) + 1 OBVIOUS
<1>4. Glyph(lines, top + 1, i) =
        IF (top + 1) + d + 1 \in DOMAIN lines /\ q + 1 \in DOMAIN lines[(top + 1) + d + 1]
        THEN lines[(top + 1) + d + 1][q + 1] ELSE Blank
  BY <1>1, Zenon DEF Glyph
<1>5. Glyph(lines, top, i + Cols) =
        IF top + (d + 1) + 1 \in DOMAIN lines /\ q + 1 \in DOMAIN lines[top + (d + 1) + 1]
        THEN lines[top + (d + 1) + 1][q + 1] ELSE Blank
  BY <1>2, Zenon DEF Glyph
<1>6. PICK row \in Nat : row = (top + 1) + d + 1 OBVIOUS
<1>7. row = top + (d + 1) + 1 BY <1>3, <1>6
<1>8. PICK v : v = IF row \in DOMAIN lines /\ q + 1 \in DOMAIN lines[row]
                   THEN lines[row][q + 1] ELSE Blank
  OBVIOUS
<1>9. Glyph(lines, top + 1, i) = v BY <1>4, <1>6, <1>8
<1>10. Glyph(lines, top, i + Cols) = v BY <1>5, <1>7, <1>8
<1>11. QED BY <1>9, <1>10, Zenon

\* Behind the text there is nothing, nor on a line just begun.
LEMMA GlyphBlank ==
    ASSUME NEW lines \in Texts, NEW top \in Nat, NEW i \in Cells,
           \/ top + (i \div Cols) + 1 > Len(lines)
           \/ top + (i \div Cols) + 1 = Len(lines) /\ Col(lines) = 0
    PROVE  Glyph(lines, top, i) = Blank
<1>1. PICK n \in Nat : n = Len(lines) BY DEF Texts
<1>2. PICK row \in Nat : row = top + (i \div Cols) + 1 BY CellParts
<1>3. PICK q \in Nat : q = i % Cols BY CellParts
<1>4. DOMAIN lines = 1..n /\ (n > 0 => lines[n] \in Seq(Letters)) BY <1>1 DEF Texts
<1>5. Glyph(lines, top, i) = IF row \in 1..n /\ q + 1 \in DOMAIN lines[row] THEN lines[row][q + 1] ELSE Blank
  BY <1>2, <1>3, <1>4, Zenon DEF Glyph
<1>6. CASE row > n
  <2>1. row \notin 1..n BY <1>6
  <2>2. QED BY <1>5, <2>1, Zenon
<1>7. CASE row = n /\ Col(lines) = 0
  <2>1. Len(lines[n]) = 0 BY <1>1, <1>7 DEF Col
  <2>2. n > 0 => q + 1 \notin DOMAIN lines[n] BY <1>3, <1>4, <2>1
  <2>3. row \notin 1..n \/ q + 1 \notin DOMAIN lines[row] BY <1>7, <2>2
  <2>4. QED BY <1>5, <2>3, Zenon
<1>8. QED BY <1>1, <1>2, <1>6, <1>7

-----------------------------------------------------------------------------
(* The next lines of a text: what they show, how many they are.              *)
LEMMA NextShape ==
    ASSUME NEW lines \in Texts, NEW k
    PROVE  /\ \A top \in Nat : \A i \in Cells :
                  Glyph(NextLines(lines, k), top, i) = Glyph(Base(lines, k), top, i)
           /\ Breaks(lines, k) => /\ Len(NextLines(lines, k)) = Len(lines) + 1
                                  /\ Col(NextLines(lines, k)) = 0
           /\ ~ Breaks(lines, k) => /\ NextLines(lines, k) = Grown(lines, k)
                                    /\ Len(NextLines(lines, k)) = Len(lines)
                                    /\ Col(NextLines(lines, k)) = Col(lines) + 1
<1>1. k \in Letters => Grown(lines, k) \in Seq(Seq(Letters)) BY GrownLine
<1>2. Base(lines, k) \in Seq(Seq(Letters)) BY <1>1 DEF Base, Texts
<1>3. k \in Letters => Len(Grown(lines, k)) = Len(lines) BY GrownLine
<1>4. Len(Base(lines, k)) = Len(lines) BY <1>3 DEF Base
<1>5. Breaks(lines, k) => NextLines(lines, k) = Append(Base(lines, k), <<>>)
  BY Zenon DEF NextLines, Base, Breaks, Col
<1>6. ~ Breaks(lines, k) => NextLines(lines, k) = Base(lines, k) /\ k \in Letters
  BY Zenon DEF NextLines, Base, Breaks, Col
<1>7. \A top \in Nat : \A i \in Cells :
          Glyph(NextLines(lines, k), top, i) = Glyph(Base(lines, k), top, i)
  BY <1>2, <1>5, <1>6, GlyphAppend
<1>8. ASSUME Breaks(lines, k)
      PROVE  Len(NextLines(lines, k)) = Len(lines) + 1 /\ Col(NextLines(lines, k)) = 0
  <2>1. PICK b \in Seq(Seq(Letters)) : b = Base(lines, k) BY <1>2
  <2>2. <<>> \in Seq(Letters) /\ Len(<<>>) = 0 OBVIOUS
  <2>3. Len(Append(b, <<>>)) = Len(b) + 1 /\ Append(b, <<>>)[Len(b) + 1] = <<>>
    BY <2>2
  <2>4. PICK m : m = NextLines(lines, k) OBVIOUS
  <2>5. m = Append(b, <<>>) BY <1>5, <1>8, <2>1, <2>4
  <2>6. Len(m) = Len(lines) + 1 /\ m[Len(m)] = <<>> BY <1>4, <2>1, <2>3, <2>5
  <2>7. Len(m[Len(m)]) = 0 BY <2>2, <2>6, Zenon
  <2>8. QED BY <2>4, <2>6, <2>7 DEF Col
<1>9. ASSUME ~ Breaks(lines, k)
      PROVE  /\ NextLines(lines, k) = Grown(lines, k)
             /\ Len(NextLines(lines, k)) = Len(lines)
             /\ Col(NextLines(lines, k)) = Col(lines) + 1
  <2>1. k \in Letters /\ NextLines(lines, k) = Grown(lines, k)
    BY <1>6, <1>9, Zenon DEF Base
  <2>2. /\ Len(Grown(lines, k)) = Len(lines)
        /\ Len(Grown(lines, k)[Len(lines)]) = Len(lines[Len(lines)]) + 1
    BY <2>1, GrownLine
  <2>3. QED BY <2>1, <2>2 DEF Col
<1>10. QED BY <1>7, <1>8, <1>9

\* A text ends on the screen.
LEMMA Ends ==
    ASSUME NEW lines \in Texts
    PROVE  /\ Len(lines) \in Nat /\ Len(lines) > 0 /\ Col(lines) \in 0..(Cols - 1)
           /\ Top(lines) \in Nat /\ Row(lines) \in 0..(Rows - 1)
           /\ Len(lines) = (Top(lines) + Row(lines)) + 1 /\ Top(lines) < Len(lines)
<1>1. PICK n \in Nat : n = Len(lines) /\ n > 0 BY DEF Texts
<1>2. lines[n] \in Seq(Letters) BY <1>1 DEF Texts
<1>3. Len(lines[n]) \in Nat BY <1>2
<1>4. Col(lines) \in 0..(Cols - 1) BY <1>1, <1>3, Sizes DEF Texts, Col
<1>5. /\ Top(lines) \in Nat /\ Row(lines) \in 0..(Rows - 1)
      /\ n = (Top(lines) + Row(lines)) + 1 /\ Top(lines) < n
  BY <1>1, Sizes DEF Top, Row
<1>6. QED BY <1>1, <1>4, <1>5

\* A line more: the screen moves up if and only if the text left it.
LEMMA Advance ==
    ASSUME NEW old \in Texts, NEW new \in Texts,
           Len(new) = Len(old) \/ Len(new) = Len(old) + 1
    PROVE  LET row == (Len(new) - Top(old)) - 1 IN
           /\ row \in 0..Rows
           /\ row < Rows => Top(new) = Top(old) /\ Row(new) = row
           /\ row = Rows => Top(new) = Top(old) + 1 /\ Row(new) = Rows - 1
                            /\ Len(new) = Len(old) + 1
<1>1. PICK n \in Nat : n = Len(old) /\ n > 0 BY Ends
<1>2. PICK m \in Nat : m = Len(new) /\ m > 0 BY Ends
<1>3. PICK R \in Nat : R = Rows /\ R > 0 BY Sizes
<1>4. PICK t \in Nat : t = Top(old) BY Ends
<1>5. t = IF n > R THEN n - R ELSE 0 BY <1>1, <1>3, <1>4 DEF Top
<1>6. PICK s \in Nat : s = Top(new) BY Ends
<1>7. s = IF m > R THEN m - R ELSE 0 BY <1>2, <1>3, <1>6 DEF Top
<1>8. Row(new) = (m - s) - 1 BY <1>2, <1>6 DEF Row
<1>9. m = n \/ m = n + 1 BY <1>1, <1>2
<1>10. /\ (m - t) - 1 \in 0..R
       /\ (m - t) - 1 < R => s = t
       /\ (m - t) - 1 = R => s = t + 1 /\ m = n + 1 /\ (m - s) - 1 = R - 1
  <2>1. CASE n > R
    <3>1. t = n - R /\ s = m - R BY <1>1, <1>2, <1>3, <1>5, <1>7, <1>9, <2>1
    <3>2. QED BY <1>1, <1>2, <1>3, <1>9, <2>1, <3>1
  <2>2. CASE n <= R
    <3>1. t = 0 BY <1>1, <1>3, <1>5, <2>2
    <3>2. s = IF m = R + 1 THEN 1 ELSE 0 BY <1>1, <1>2, <1>3, <1>7, <1>9, <2>2
    <3>3. QED BY <1>1, <1>2, <1>3, <1>9, <2>2, <3>1, <3>2
  <2>3. QED BY <1>1, <1>3, <2>1, <2>2
<1>11. QED BY <1>1, <1>2, <1>3, <1>4, <1>6, <1>8, <1>10
-----------------------------------------------------------------------------
(* What has been printed.                                                    *)
LEMMA Said ==
    ASSUME TypeOK
    PROVE  /\ Lines \in Texts
           /\ text = <<>> => Lines = << <<>> >>
           /\ text # <<>> => Old \in Texts /\ Lines = NextLines(Old, text[Len(text)])
<1>1. PICK n \in Nat : n = Len(text) /\ n <= MaxText /\ n \in 0..MaxText
  BY Sizes DEF TypeOK
<1>2. text # <<>> => n > 0 BY <1>1 DEF TypeOK
<1>3. text = <<>> => n = 0 BY <1>1
<1>4. Unfolded BY Unfolds
<1>5. Lines \in Texts BY <1>1, <1>4 DEF Unfolded, Lines
<1>6. text = <<>> => Lines = << <<>> >> BY <1>1, <1>3, <1>4 DEF Unfolded, Lines
<1>7. ASSUME text # <<>> PROVE Old \in Texts /\ Lines = NextLines(Old, text[Len(text)])
  <2>1. n \in 1..MaxText /\ n - 1 \in 0..MaxText BY <1>1, <1>2, <1>7, Sizes
  <2>2. QED BY <1>1, <1>4, <2>1 DEF Unfolded, Lines, Old
<1>8. QED BY <1>5, <1>6, <1>7

LEMMA Silent ==
    ASSUME text' = text
    PROVE  Lines' = Lines /\ Old' = Old /\ Plain' = Plain
<1>1. LinesAfter' = LinesAfter BY DEF LinesAfter
<1>2. QED BY <1>1 DEF Lines, Old, Plain

LEMMA Typed ==
    ASSUME TypeOK, NEW k, Len(text) < MaxText, text' = Append(text, k), TypeOK'
    PROVE  /\ Old' = Lines /\ text' # <<>> /\ text'[Len(text')] = k
           /\ Plain' => Plain /\ k # "bs"
<1>1. PICK n \in Nat : n = Len(text) /\ n < MaxText BY DEF TypeOK
<1>2. PICK old : old = text BY Zenon
<1>3. PICK new : new = text' BY Zenon
<1>4. /\ new \in Seq(Letters \cup Controls) /\ old \in Seq(Letters \cup Controls)
      /\ new = Append(old, k) /\ Len(old) = n
  BY <1>1, <1>2, <1>3 DEF TypeOK
<1>5. Len(new) = n + 1 /\ new[n + 1] = k /\ \A i \in 1..n : new[i] = old[i]
  BY <1>4
<1>6. Unfolded BY Unfolds
<1>7. Unfolded' BY Unfolds, PTL
<1> DEFINE P == {i \in 0..n : LinesAfter'[i] = LinesAfter[i]}
<1>8. 0 \in P BY <1>6, <1>7 DEF Unfolded
<1>9. ASSUME NEW i \in 1..n, i - 1 \in P PROVE i \in P
  <2>1. i \in 1..MaxText /\ i \in 0..n BY <1>1, Sizes
  <2>2. text'[i] = text[i] BY <1>2, <1>3, <1>5
  <2>3. LinesAfter[i] = NextLines(LinesAfter[i - 1], text[i]) BY <1>6, <2>1 DEF Unfolded
  <2>4. LinesAfter'[i] = NextLines(LinesAfter'[i - 1], text'[i]) BY <1>7, <2>1 DEF Unfolded
  <2>5. QED BY <1>9, <2>1, <2>2, <2>3, <2>4
<1> HIDE DEF P
<1>10. \A i \in 0..n : i \in P BY <1>8, <1>9, Climb
<1>11. LinesAfter'[n] = LinesAfter[n] BY <1>10 DEF P
<1>12. Len(text') - 1 = n BY <1>3, <1>5
<1>13. Old' = Lines
  <2>1. Old' = LinesAfter'[Len(text') - 1] BY Zenon DEF Old
  <2>2. QED BY <1>1, <1>11, <1>12, <2>1 DEF Lines
<1>14. text' # <<>> /\ text'[Len(text')] = k
  <2>1. new # <<>> BY <1>4, <1>5
  <2>2. new[Len(new)] = k BY <1>5
  <2>3. QED BY <1>3, <2>1, <2>2
<1>15. Plain' => Plain /\ k # "bs"
  <2>1. SUFFICES ASSUME \A i \in 1..(n + 1) : new[i] # "bs"
                 PROVE  (\A i \in 1..n : old[i] # "bs") /\ k # "bs"
    BY <1>1, <1>2, <1>3, <1>5 DEF Plain
  <2>2. \A i \in 1..n : i \in 1..(n + 1) OBVIOUS
  <2>3. n + 1 \in 1..(n + 1) OBVIOUS
  <2>4. QED BY <1>5, <2>1, <2>2, <2>3
<1>16. QED BY <1>13, <1>14, <1>15

-----------------------------------------------------------------------------
(* The invariant, step by step.                                              *)
Typing == TypeOK /\ ch \in [Callers -> Letters \cup Controls \cup {Blank}]

LEMMA Alone ==
    ASSUME OneCaller, NEW c \in Callers, Typing', InCall(c)', pc'[c] = "out" => Resting'
    PROVE  IInv'
<1>1. \A d \in Callers : d = c BY DEF OneCaller
<1>2. (AtRest => Resting)' BY <1>1 DEF AtRest
<1>3. (\A d \in Callers : InCall(d))' BY <1>1
<1>4. QED BY <1>2, <1>3 DEF IInv, Typing

LEMMA Begin ==
    ASSUME Init
    PROVE  IInv
<1>1. Typing
  <2>1. <<>> \in Seq(Letters \cup Controls) /\ Len(<<>>) = 0 OBVIOUS
  <2>2. QED BY <2>1, Sizes DEF Init, Typing, TypeOK
<1>2. text = <<>> /\ TypeOK BY <1>1 DEF Init, Typing
<1>3. Lines = << <<>> >> /\ Lines \in Texts BY <1>2, Said
<1>4. Len(<< <<>> >>) = 1 /\ << <<>> >>[1] = <<>> /\ Len(<<>>) = 0 OBVIOUS
<1>5. Len(Lines) = 1 /\ Col(Lines) = 0 BY <1>3, <1>4 DEF Col
<1>6. Top(Lines) = 0 /\ Row(Lines) = 0
  <2>1. Rows \in Nat /\ Rows > 0 BY Sizes
  <2>2. Top(Lines) = 0 BY <1>5, <2>1 DEF Top
  <2>3. QED BY <1>5, <2>2 DEF Row
<1>7. Displays(Lines, 0)
  <2>1. SUFFICES ASSUME NEW i \in Cells PROVE screen[i] = Glyph(Lines, 0, i) BY DEF Displays
  <2>2. PICK d \in Nat : d = i \div Cols BY CellParts
  <2>3. \/ 0 + d + 1 > Len(Lines)
        \/ 0 + d + 1 = Len(Lines) /\ Col(Lines) = 0
    BY <1>5
  <2>4. Glyph(Lines, 0, i) = Blank BY <1>3, <2>2, <2>3, GlyphBlank
  <2>5. QED BY <2>4 DEF Init
<1>8. Resting
  <2>1. 0 * Cols + 0 = 0 BY Sizes
  <2>2. QED BY <1>5, <1>6, <1>7, <2>1, Sizes DEF Resting, At, Init
<1>9. \A c \in Callers : InCall(c) BY DEF Init, InCall
<1>10. QED BY <1>1, <1>8, <1>9 DEF IInv, Typing

LEMMA EnterKeeps ==
    ASSUME OneCaller, IInv, NEW c \in Callers, NEW k \in Letters \cup Controls, Enter(c, k)
    PROVE  IInv'
<1>1. Typing /\ TypeOK BY DEF IInv, Typing
<1>2. Typing'
  <2>1. text' \in Seq(Letters \cup Controls) /\ Len(text') <= MaxText
    BY <1>1, Sizes DEF Enter, TypeOK
  <2>2. QED BY <1>1, <2>1 DEF Enter, Goto, Typing, TypeOK
<1>3. Resting BY DEF IInv, AtRest, OneCaller, Enter
<1>4. /\ Old' = Lines /\ text' # <<>> /\ text'[Len(text')] = k
      /\ Plain' => Plain /\ k # "bs"
  BY <1>1, <1>2, Typed DEF Enter, Typing
<1>5. /\ ch'[c] = k /\ x'[c] = csr_x /\ y'[c] = csr_y
      /\ csr_x' = csr_x /\ csr_y' = csr_y /\ screen' = screen
      /\ pc'[c] = IF k \in Letters THEN "draw" ELSE "step"
  BY <1>1 DEF Enter, Goto, Typing, TypeOK
<1>6. Plain' => Displays(Old, Top(Old))' /\ At(Old, csr_x, csr_y)'
  BY <1>3, <1>4, <1>5 DEF Resting, Displays, At
<1>7. k \in Letters => Drawing(c)' BY <1>3, <1>5, <1>6 DEF Drawing, Resting
<1>8. k \notin Letters => Stepping(c)'
  BY <1>3, <1>5, <1>6, Zenon DEF Stepping, Resting, Base
<1>9. InCall(c)' BY <1>4, <1>5, <1>7, <1>8 DEF InCall
<1>10. pc'[c] # "out" BY <1>5
<1>11. QED BY <1>2, <1>9, <1>10, Alone

LEMMA DrawKeeps ==
    ASSUME OneCaller, IInv, NEW c \in Callers, Draw(c)
    PROVE  IInv'
<1>1. Typing /\ TypeOK BY DEF IInv, Typing
<1>2. /\ Drawing(c) /\ text # <<>> /\ ch[c] = text[Len(text)]
  BY DEF IInv, InCall, Draw
<1>3. PICK k \in Letters : k = ch[c] BY <1>2 DEF Drawing
<1>4. /\ x[c] = csr_x /\ y[c] = csr_y /\ csr_x \in 0..(Cols - 1) /\ csr_y \in Nat
      /\ csr_y < Rows /\ csr_x < Cols
  BY <1>1, <1>2, Sizes DEF Drawing, TypeOK
<1>5. csr_y * Cols + csr_x \in Cells BY <1>4, Within
<1>6. screen' = [screen EXCEPT ![csr_y * Cols + csr_x] = k]
  BY <1>3, <1>4, <1>5 DEF Draw
<1>7. /\ pc'[c] = "step" /\ csr_x' = csr_x /\ csr_y' = csr_y /\ ch' = ch
      /\ x' = x /\ y' = y /\ text' = text
  BY <1>1 DEF Draw, Goto, TypeOK
<1>8. Typing'
  <2>1. screen' \in [Cells -> Letters \cup {Blank}] BY <1>1, <1>6 DEF TypeOK
  <2>2. QED BY <1>1, <2>1 DEF Draw, Goto, Typing, TypeOK
<1>9. Lines' = Lines /\ Old' = Old /\ Plain' = Plain BY <1>7, Silent
<1>10. ASSUME Plain PROVE Displays(Base(Old, k), Top(Old))' /\ At(Old, csr_x, csr_y)
  <2>1. Displays(Old, Top(Old)) /\ At(Old, csr_x, csr_y) BY <1>2, <1>10 DEF Drawing
  <2>2. Old \in Texts BY <1>1, <1>2, Said
  <2>3. SUFFICES ASSUME NEW i \in Cells
                 PROVE  screen'[i] = Glyph(Grown(Old, k), Top(Old), i)
    BY <1>9, <2>1 DEF Displays, Base
  <2>4. Top(Old) \in Nat /\ Top(Old) < Len(Old) BY <2>2, Ends
  <2>5. Glyph(Grown(Old, k), Top(Old), i) =
            IF i \div Cols = Row(Old) /\ i % Cols = Col(Old) THEN k
            ELSE Glyph(Old, Top(Old), i)
    BY <2>2, <2>4, GlyphGrown DEF Row
  <2>6. csr_x = Col(Old) /\ csr_y = Row(Old) BY <2>1 DEF At
  <2>7. i = csr_y * Cols + csr_x <=> i \div Cols = csr_y /\ i % Cols = csr_x
    <3>1. i \in Nat BY CellParts
    <3>2. i = (i \div Cols) * Cols + (i % Cols) BY <3>1, Parts
    <3>3. (csr_y * Cols + csr_x) \div Cols = csr_y /\ (csr_y * Cols + csr_x) % Cols = csr_x
      BY <1>4, Joined
    <3>4. ASSUME i = csr_y * Cols + csr_x PROVE i \div Cols = csr_y /\ i % Cols = csr_x
      BY <3>3, <3>4, Zenon
    <3>5. ASSUME i \div Cols = csr_y, i % Cols = csr_x PROVE i = csr_y * Cols + csr_x
      BY <3>2, <3>5, Zenon
    <3>6. QED BY <3>4, <3>5, Zenon
  <2>8. CASE i = csr_y * Cols + csr_x
    <3>1. screen'[i] = k BY <1>1, <1>6, <2>8 DEF TypeOK
    <3>2. QED BY <2>5, <2>6, <2>7, <2>8, <3>1, Zenon
  <2>9. CASE i # csr_y * Cols + csr_x
    <3>1. screen'[i] = screen[i] BY <1>1, <1>6, <2>9 DEF TypeOK
    <3>2. screen[i] = Glyph(Old, Top(Old), i) BY <2>1 DEF Displays
    <3>3. QED BY <2>5, <2>6, <2>7, <2>9, <3>1, <3>2, Zenon
  <2>10. QED BY <2>8, <2>9
<1>11. Plain' => Displays(Base(Old, ch[c]), Top(Old))' /\ At(Old, csr_x, csr_y)'
  BY <1>3, <1>7, <1>9, <1>10 DEF At, Displays
<1>12. Stepping(c)' BY <1>4, <1>7, <1>11 DEF Stepping
<1>13. InCall(c)' BY <1>2, <1>7, <1>12 DEF InCall
<1>14. QED BY <1>7, <1>8, <1>13, Alone

\* The character on the screen, the text goes on as NextLines says.
LEMMA Printed ==
    ASSUME Typing, text # <<>>, NEW k, k = text[Len(text)]
    PROVE  /\ Old \in Texts /\ Lines \in Texts
           /\ Displays(Base(Old, k), Top(Old)) => Displays(Lines, Top(Old))
           /\ Breaks(Old, k) => Len(Lines) = Len(Old) + 1 /\ Col(Lines) = 0
           /\ ~ Breaks(Old, k) => Len(Lines) = Len(Old) /\ Col(Lines) = Col(Old) + 1
<1>1. Old \in Texts /\ Lines \in Texts /\ Lines = NextLines(Old, k) BY Said DEF Typing
<1>2. Top(Old) \in Nat BY <1>1, Ends
<1>3. \A i \in Cells : Glyph(Lines, Top(Old), i) = Glyph(Base(Old, k), Top(Old), i)
  BY <1>1, <1>2, NextShape
<1>4. /\ Breaks(Old, k) => Len(Lines) = Len(Old) + 1 /\ Col(Lines) = 0
      /\ ~ Breaks(Old, k) => Len(Lines) = Len(Old) /\ Col(Lines) = Col(Old) + 1
  BY <1>1, NextShape
<1>5. QED BY <1>1, <1>3, <1>4 DEF Displays

LEMMA StepKeeps ==
    ASSUME OneCaller, IInv, NEW c \in Callers, Step(c)
    PROVE  IInv'
<1>1. Typing /\ TypeOK BY DEF IInv, Typing
<1>2. Stepping(c) /\ text # <<>> /\ ch[c] = text[Len(text)] BY DEF IInv, InCall, Step
<1>3. PICK k : k = ch[c] OBVIOUS
<1>4. /\ csr_x \in Nat /\ csr_y \in Nat /\ csr_x < Cols /\ csr_y < Rows /\ y[c] = csr_y
  BY <1>1, <1>2 DEF Stepping, TypeOK
<1>5. screen' = screen /\ ch' = ch /\ text' = text /\ cursor' = cursor BY DEF Step
<1>6. Lines' = Lines /\ Old' = Old /\ Plain' = Plain BY <1>5, Silent
<1>7. /\ Old \in Texts /\ Lines \in Texts
      /\ Displays(Base(Old, k), Top(Old)) => Displays(Lines, Top(Old))
      /\ Breaks(Old, k) => Len(Lines) = Len(Old) + 1 /\ Col(Lines) = 0
  BY <1>1, <1>2, <1>3, Printed
<1>8. Plain => At(Old, csr_x, csr_y) /\ Displays(Base(Old, k), Top(Old))
  BY <1>2, <1>3 DEF Stepping
<1>9. "nl" \notin Letters /\ "cr" \notin Letters /\ "bs" \notin Letters
  BY ConsoleAssumption
<1>10. CASE k \in {"nl", "cr"}
  <2>1. /\ csr_x' = 0 /\ csr_y' = csr_y + 1 /\ y'[c] = csr_y + 1
        /\ pc'[c] = "scroll"
        /\ x' = [x EXCEPT ![c] = 0] /\ y' = [y EXCEPT ![c] = csr_y + 1]
        /\ pc' = [pc EXCEPT ![c] = "scroll"]
    BY <1>1, <1>3, <1>4, <1>9, <1>10 DEF Step, Goto, TypeOK
  <2>2. Typing' BY <1>1, <1>4, <1>5, <2>1 DEF Typing, TypeOK
  <2>3. Breaks(Old, k) BY <1>9, <1>10 DEF Breaks
  <2>4. ASSUME Plain
        PROVE  Displays(Lines, Top(Old)) /\ csr_y + 1 = (Len(Lines) - Top(Old)) - 1
    <3>1. csr_y = Row(Old) /\ Displays(Lines, Top(Old)) BY <1>7, <1>8, <2>4 DEF At
    <3>2. Len(Lines) = Len(Old) + 1 BY <1>7, <2>3
    <3>3. /\ Top(Old) \in Nat /\ Row(Old) \in 0..(Rows - 1)
          /\ Len(Old) = (Top(Old) + Row(Old)) + 1
      BY <1>7, Ends
    <3>4. PICK h \in Nat : h = Top(Old) BY <3>3
    <3>5. PICK r \in Nat : r = Row(Old) BY <3>3, Sizes
    <3>6. ((((h + r) + 1) + 1) - h) - 1 = r + 1 OBVIOUS
    <3>7. Len(Lines) = ((h + r) + 1) + 1 BY <3>2, <3>3, <3>4, <3>5
    <3>8. csr_y + 1 = (Len(Lines) - Top(Old)) - 1 BY <3>1, <3>4, <3>5, <3>6, <3>7
    <3>9. QED BY <3>1, <3>8
  <2>5. csr_y + 1 <= Rows BY <1>4, Sizes
  <2>6. Plain' => Displays(Lines, Top(Old))' /\ csr_y' = ((Len(Lines) - Top(Old)) - 1)'
    BY <1>5, <1>6, <2>1, <2>4 DEF Displays
  <2>7. (csr_x = Col(Lines))' BY <1>6, <1>7, <2>1, <2>3
  <2>8. csr_x' < Cols /\ csr_y' <= Rows BY <2>1, <2>5, Sizes
  <2>9. Scrolling(c)' BY <2>1, <2>6, <2>7, <2>8 DEF Scrolling
  <2>10. InCall(c)' BY <1>2, <1>5, <2>1, <2>9 DEF InCall
  <2>11. QED BY <2>1, <2>2, <2>10, Alone
<1>11. CASE k = "bs"
  <2>1. PICK m : m = Wrap32(csr_x - 1) OBVIOUS
  <2>2. m \in Nat /\ (m <= Cols \/ m = 2 ^ 30) BY <1>4, <2>1, Sizes DEF Wrap32
  <2>3. /\ csr_x' = m /\ csr_y' = csr_y /\ x'[c] = m /\ y' = y
        /\ pc'[c] = "wrap"
        /\ x' = [x EXCEPT ![c] = m] /\ pc' = [pc EXCEPT ![c] = "wrap"]
    BY <1>1, <1>3, <1>9, <1>11, <2>1 DEF Step, Goto, TypeOK
  <2>4. Typing' BY <1>1, <1>5, <2>2, <2>3 DEF Typing, TypeOK
  <2>5. ~ Plain
    <3>1. Len(text) \in 1..Len(text) BY <1>1, <1>2 DEF TypeOK
    <3>2. QED BY <1>2, <1>3, <1>11, <3>1 DEF Plain
  <2>6. ~ Plain' BY <1>6, <2>5
  <2>7. Wrapping(c)' BY <1>4, <2>2, <2>3, <2>6 DEF Wrapping
  <2>8. InCall(c)' BY <1>2, <1>5, <2>3, <2>7 DEF InCall
  <2>9. QED BY <2>3, <2>4, <2>8, Alone
<1>12. CASE k \in Letters
  <2>1. /\ csr_x' = csr_x + 1 /\ csr_y' = csr_y /\ x'[c] = csr_x + 1 /\ y'[c] = csr_y
        /\ pc'[c] = "wrap"
        /\ x' = [x EXCEPT ![c] = csr_x + 1] /\ y' = [y EXCEPT ![c] = csr_y]
        /\ pc' = [pc EXCEPT ![c] = "wrap"]
    BY <1>1, <1>3, <1>9, <1>12 DEF Step, Goto, TypeOK
  <2>2. Typing' BY <1>1, <1>4, <1>5, <2>1 DEF Typing, TypeOK
  <2>3. Plain => Displays(Grown(Old, k), Top(Old)) /\ At(Old, csr_x, csr_y)
    BY <1>8, <1>12 DEF Base
  <2>4. (csr_x + 1) - 1 = csr_x /\ csr_x + 1 <= Cols BY <1>4, Sizes
  <2>5. Plain' => Displays(Grown(Old, ch[c]), Top(Old))' /\ At(Old, csr_x - 1, csr_y)'
    BY <1>3, <1>5, <1>6, <2>1, <2>3, <2>4 DEF Displays, At
  <2>6. ch'[c] \in Letters BY <1>3, <1>5, <1>12
  <2>7. x'[c] = csr_x' /\ y'[c] = csr_y' /\ csr_y' < Rows
        /\ (csr_x' <= Cols \/ csr_x' = 2 ^ 30)
    BY <1>4, <2>1, <2>4
  <2>8. Wrapping(c)' BY <2>5, <2>6, <2>7, Zenon DEF Wrapping
  <2>9. InCall(c)' BY <1>2, <1>5, <2>1, <2>8 DEF InCall
  <2>10. QED BY <2>1, <2>2, <2>9, Alone
<1>13. QED BY <1>3, <1>10, <1>11, <1>12 DEF Step

LEMMA WrapKeeps ==
    ASSUME OneCaller, IInv, NEW c \in Callers, Wrap(c)
    PROVE  IInv'
<1>1. Typing /\ TypeOK BY DEF IInv, Typing
<1>2. Wrapping(c) /\ text # <<>> /\ ch[c] = text[Len(text)] BY DEF IInv, InCall, Wrap
<1>3. PICK k : k = ch[c] OBVIOUS
<1>4. /\ csr_x \in Nat /\ csr_y \in Nat /\ csr_y < Rows /\ y[c] = csr_y /\ x[c] = csr_x
      /\ csr_x <= Cols \/ csr_x = 2 ^ 30
  BY <1>1, <1>2 DEF Wrapping, TypeOK
<1>5. /\ screen' = screen /\ ch' = ch /\ text' = text /\ x' = x /\ cursor' = cursor
      /\ pc' = [pc EXCEPT ![c] = "scroll"] /\ pc'[c] = "scroll"
  BY <1>1 DEF Wrap, Goto, TypeOK
<1>6. Lines' = Lines /\ Old' = Old /\ Plain' = Plain BY <1>5, Silent
<1>7. /\ Old \in Texts /\ Lines \in Texts
      /\ Displays(Base(Old, k), Top(Old)) => Displays(Lines, Top(Old))
      /\ Breaks(Old, k) => Len(Lines) = Len(Old) + 1 /\ Col(Lines) = 0
      /\ ~ Breaks(Old, k) => Len(Lines) = Len(Old) /\ Col(Lines) = Col(Old) + 1
  BY <1>1, <1>2, <1>3, Printed
<1>8. ASSUME Plain
      PROVE  /\ Displays(Lines, Top(Old)) /\ csr_x = Col(Old) + 1 /\ csr_y = Row(Old)
             /\ Breaks(Old, k) <=> csr_x = Cols
             /\ csr_x <= Cols
  <2>1. k \in Letters /\ At(Old, csr_x - 1, csr_y) /\ Displays(Grown(Old, k), Top(Old))
    BY <1>2, <1>3, <1>8 DEF Wrapping
  <2>2. Displays(Lines, Top(Old)) BY <1>7, <2>1 DEF Base
  <2>3. Col(Old) \in 0..(Cols - 1) BY <1>7, Ends
  <2>4. csr_x = Col(Old) + 1 /\ csr_y = Row(Old) BY <1>4, <2>1, <2>3 DEF At
  <2>5. Breaks(Old, k) <=> csr_x = Cols BY <2>1, <2>4 DEF Breaks
  <2>6. csr_x <= Cols BY <2>3, <2>4, Sizes
  <2>7. QED BY <2>2, <2>4, <2>5, <2>6
<1>9. Len(Old) \in Nat /\ Top(Old) \in Nat /\ Len(Old) = (Top(Old) + Row(Old)) + 1
  BY <1>7, Ends
<1>10. CASE csr_x > Cols - 1
  <2>1. /\ csr_x' = 0 /\ csr_y' = csr_y + 1 /\ y' = [y EXCEPT ![c] = csr_y + 1]
        /\ y'[c] = csr_y + 1
    BY <1>1, <1>4, <1>10 DEF Wrap, TypeOK
  <2>2. Typing' BY <1>1, <1>4, <1>5, <2>1 DEF Typing, TypeOK
  <2>3. ASSUME Plain
        PROVE  /\ Displays(Lines, Top(Old)) /\ Col(Lines) = 0
               /\ csr_y + 1 = (Len(Lines) - Top(Old)) - 1
    <3>1. csr_x = Cols BY <1>4, <1>8, <1>10, <2>3, Sizes
    <3>2. Len(Lines) = Len(Old) + 1 /\ Col(Lines) = 0 BY <1>7, <1>8, <2>3, <3>1
    <3>3. csr_y = Row(Old) BY <1>8, <2>3
    <3>4. PICK h \in Nat : h = Top(Old) BY <1>9
    <3>5. Len(Lines) = ((h + csr_y) + 1) + 1 BY <1>9, <3>2, <3>3, <3>4
    <3>6. csr_y + 1 = (Len(Lines) - Top(Old)) - 1 BY <1>4, <3>4, <3>5
    <3>7. QED BY <1>8, <2>3, <3>2, <3>6
  <2>4. Plain' => /\ Displays(Lines, Top(Old))' /\ (csr_x = Col(Lines))'
                  /\ csr_y' = ((Len(Lines) - Top(Old)) - 1)'
    BY <1>5, <1>6, <2>1, <2>3 DEF Displays
  <2>5. csr_x' < Cols /\ csr_y' <= Rows BY <1>4, <2>1, Sizes
  <2>6. Scrolling(c)' BY <2>1, <2>4, <2>5 DEF Scrolling
  <2>7. InCall(c)' BY <1>2, <1>5, <2>6 DEF InCall
  <2>8. QED BY <1>5, <2>2, <2>7, Alone
<1>11. CASE ~ (csr_x > Cols - 1)
  <2>1. csr_x' = csr_x /\ csr_y' = csr_y /\ y' = y BY <1>4, <1>11 DEF Wrap
  <2>2. Typing' BY <1>1, <1>4, <1>5, <2>1 DEF Typing, TypeOK
  <2>3. ASSUME Plain
        PROVE  /\ Displays(Lines, Top(Old)) /\ csr_x = Col(Lines)
               /\ csr_y = (Len(Lines) - Top(Old)) - 1
    <3>1. csr_x # Cols BY <1>4, <1>11, Sizes
    <3>2. Len(Lines) = Len(Old) /\ Col(Lines) = Col(Old) + 1 BY <1>7, <1>8, <2>3, <3>1
    <3>3. csr_y = Row(Old) BY <1>8, <2>3
    <3>4. PICK h \in Nat : h = Top(Old) BY <1>9
    <3>5. Len(Lines) = (h + csr_y) + 1 BY <1>9, <3>2, <3>3, <3>4
    <3>6. csr_y = (Len(Lines) - Top(Old)) - 1 BY <1>4, <3>4, <3>5
    <3>7. QED BY <1>8, <2>3, <3>2, <3>6
  <2>4. Plain' => /\ Displays(Lines, Top(Old))' /\ (csr_x = Col(Lines))'
                  /\ csr_y' = ((Len(Lines) - Top(Old)) - 1)'
    BY <1>5, <1>6, <2>1, <2>3 DEF Displays
  <2>5. csr_x' < Cols /\ csr_y' < Rows BY <1>4, <1>11, <2>1, Sizes
  <2>6. csr_y' <= Rows /\ csr_y' # Rows BY <1>4, <2>1, <2>5, Sizes
  <2>7. Scrolling(c)' BY <1>4, <2>1, <2>4, <2>5, <2>6 DEF Scrolling
  <2>8. InCall(c)' BY <1>2, <1>5, <2>7 DEF InCall
  <2>9. QED BY <1>5, <2>2, <2>8, Alone
<1>12. QED BY <1>10, <1>11

LEMMA ScrollKeeps ==
    ASSUME OneCaller, IInv, NEW c \in Callers, Scroll(c)
    PROVE  IInv'
<1>1. Typing /\ TypeOK BY DEF IInv, Typing
<1>2. Scrolling(c) /\ text # <<>> /\ ch[c] = text[Len(text)] BY DEF IInv, InCall, Scroll
<1>3. PICK k : k = ch[c] OBVIOUS
<1>4. csr_x \in Nat /\ csr_y \in Nat /\ csr_x < Cols /\ csr_y <= Rows /\ y[c] = csr_y
  BY <1>1, <1>2 DEF Scrolling, TypeOK
<1>5. /\ csr_x' = csr_x /\ ch' = ch /\ text' = text /\ x' = x /\ cursor' = cursor
      /\ pc' = [pc EXCEPT ![c] = "show"] /\ pc'[c] = "show"
  BY <1>1 DEF Scroll, Goto, TypeOK
<1>6. Lines' = Lines /\ Old' = Old /\ Plain' = Plain BY <1>5, Silent
<1>7. /\ Old \in Texts /\ Lines \in Texts
      /\ Len(Lines) = Len(Old) \/ Len(Lines) = Len(Old) + 1
  BY <1>1, <1>2, <1>3, Printed
<1>8. Plain => /\ Displays(Lines, Top(Old)) /\ csr_x = Col(Lines)
               /\ csr_y = (Len(Lines) - Top(Old)) - 1
               /\ csr_y = Rows => csr_x = 0
  BY <1>2 DEF Scrolling
<1>9. Top(Old) \in Nat BY <1>7, Ends
<1>10. CASE csr_y > LastLine
  <2>1. csr_y = Rows BY <1>4, <1>10, Sizes DEF LastLine
  <2>2. /\ screen' = MovedUp /\ csr_y' = Rows - 1 /\ y' = [y EXCEPT ![c] = Rows - 1]
        /\ y'[c] = Rows - 1
    BY <1>1, <1>4, <1>10 DEF Scroll, TypeOK, LastLine
  <2>3. Rows - 1 \in Nat /\ Rows - 1 < Rows BY Sizes
  <2>4. Typing'
    <3>1. MovedUp \in [Cells -> Letters \cup {Blank}] BY <1>1 DEF MovedUp, TypeOK
    <3>2. QED BY <1>1, <1>5, <2>2, <2>3, <3>1 DEF Typing, TypeOK
  <2>5. ASSUME Plain
        PROVE  /\ \A i \in Cells : MovedUp[i] = Glyph(Lines, Top(Lines), i)
               /\ At(Lines, csr_x, Rows - 1)
    <3>1. Top(Lines) = Top(Old) + 1 /\ Row(Lines) = Rows - 1
      BY <1>7, <1>8, <2>1, <2>5, Advance
    <3>2. Len(Lines) = (Top(Old) + Rows) + 1 /\ Col(Lines) = 0
      <4>1. Len(Lines) = (Top(Lines) + Row(Lines)) + 1 BY <1>7, Ends
      <4>2. QED BY <1>8, <1>9, <2>1, <2>5, <3>1, <4>1, Sizes
    <3>3. ASSUME NEW i \in Cells PROVE MovedUp[i] = Glyph(Lines, Top(Old) + 1, i)
      <4>1. i \in Nat /\ i + Cols \in Nat BY CellParts, Sizes
      <4>2. CASE i + Cols \in Cells
        <5>1. MovedUp[i] = screen[i + Cols] BY <4>2 DEF MovedUp
        <5>2. screen[i + Cols] = Glyph(Lines, Top(Old), i + Cols)
          BY <1>8, <2>5, <4>2 DEF Displays
        <5>3. QED BY <1>9, <4>1, <5>1, <5>2, GlyphUp
      <4>3. CASE i + Cols \notin Cells
        <5>1. MovedUp[i] = Blank BY <4>3 DEF MovedUp
        <5>2. PICK d \in 0..(Rows - 1) : d = i \div Cols BY CellParts
        <5>3. PICK q \in 0..(Cols - 1) : q = i % Cols BY CellParts
        <5>4. (i + Cols) \div Cols = d + 1 /\ (i + Cols) % Cols = q
          BY <4>1, <5>2, <5>3, Parts
        <5>5. i + Cols = (d + 1) * Cols + q BY <4>1, <5>4, Parts
        <5>6. d \in Nat /\ d + 1 \in Nat BY <5>2, Sizes
        <5>7. ~ (d + 1 < Rows) BY <4>3, <5>5, <5>6, Within
        <5>8. d = Rows - 1 BY <5>2, <5>6, <5>7, Sizes
        <5>9. (Top(Old) + 1) + d + 1 = Len(Lines) BY <1>9, <3>2, <5>8, Sizes
        <5>10. PICK t \in Nat : t = Top(Old) + 1 BY <1>9
        <5>11. Glyph(Lines, t, i) = Blank
          BY <1>7, <3>2, <5>2, <5>9, <5>10, GlyphBlank
        <5>12. QED BY <5>1, <5>10, <5>11
      <4>4. QED BY <4>2, <4>3
    <3>4. At(Lines, csr_x, Rows - 1) BY <1>8, <2>5, <3>1 DEF At
    <3>5. QED BY <3>1, <3>3, <3>4
  <2>6. Plain' => Displays(Lines, Top(Lines))' /\ At(Lines, csr_x, csr_y)'
    BY <1>5, <1>6, <2>2, <2>5 DEF Displays, At
  <2>7. Showing(c)' BY <1>4, <1>5, <2>2, <2>3, <2>6 DEF Showing
  <2>8. InCall(c)' BY <1>2, <1>5, <2>7 DEF InCall
  <2>9. QED BY <1>5, <2>4, <2>8, Alone
<1>11. CASE ~ (csr_y > LastLine)
  <2>1. csr_y < Rows BY <1>4, <1>11, Sizes DEF LastLine
  <2>2. screen' = screen /\ csr_y' = csr_y /\ y' = y BY <1>4, <1>11 DEF Scroll
  <2>3. Typing' BY <1>1, <1>5, <2>2 DEF Typing, TypeOK
  <2>4. Plain => Displays(Lines, Top(Lines)) /\ At(Lines, csr_x, csr_y)
    <3>1. SUFFICES ASSUME Plain
                   PROVE  Displays(Lines, Top(Lines)) /\ At(Lines, csr_x, csr_y)
      OBVIOUS
    <3>2. Top(Lines) = Top(Old) /\ Row(Lines) = csr_y BY <1>7, <1>8, <2>1, <3>1, Advance
    <3>3. QED BY <1>8, <3>1, <3>2 DEF At
  <2>5. Plain' => Displays(Lines, Top(Lines))' /\ At(Lines, csr_x, csr_y)'
    BY <1>5, <1>6, <2>2, <2>4 DEF Displays, At
  <2>6. Showing(c)' BY <1>4, <1>5, <2>1, <2>2, <2>5 DEF Showing
  <2>7. InCall(c)' BY <1>2, <1>5, <2>6 DEF InCall
  <2>8. QED BY <1>5, <2>3, <2>7, Alone
<1>12. QED BY <1>10, <1>11

LEMMA ShowKeeps ==
    ASSUME OneCaller, IInv, NEW c \in Callers, Show(c)
    PROVE  IInv'
<1>1. Typing /\ TypeOK BY DEF IInv, Typing
<1>2. Showing(c) BY DEF IInv, InCall, Show
<1>3. csr_x \in Nat /\ csr_y \in Nat /\ csr_x < Cols /\ csr_y < Rows /\ y[c] = csr_y
  BY <1>1, <1>2 DEF Showing, TypeOK
<1>4. /\ cursor' = csr_y * Cols + csr_x /\ csr_x' = csr_x /\ csr_y' = csr_y
      /\ screen' = screen /\ ch' = ch /\ text' = text /\ x' = x /\ y' = y
      /\ pc' = [pc EXCEPT ![c] = "out"] /\ pc'[c] = "out"
  BY <1>1, <1>3 DEF Show, Goto, TypeOK
<1>5. Lines' = Lines /\ Old' = Old /\ Plain' = Plain BY <1>4, Silent
<1>6. csr_y * Cols + csr_x \in Nat BY <1>3, Sizes
<1>7. Typing' BY <1>1, <1>4, <1>6 DEF Typing, TypeOK
<1>8. Plain' => Displays(Lines, Top(Lines))' /\ At(Lines, csr_x, csr_y)'
  BY <1>2, <1>4, <1>5 DEF Showing, Displays, At
<1>9. cursor' = csr_y' * Cols + csr_x' /\ csr_x' < Cols /\ csr_y' < Rows
  BY <1>3, <1>4
<1>10. Resting' BY <1>8, <1>9 DEF Resting
<1>11. InCall(c)' BY <1>4 DEF InCall
<1>12. QED BY <1>7, <1>10, <1>11, Alone

\* The invariant is inductive.
THEOREM ConsoleInvariant == OneCaller => (Spec => []IInv)
<1> SUFFICES ASSUME OneCaller PROVE Spec => []IInv OBVIOUS
<1>1. Init => IInv BY Begin
<1>2. ASSUME IInv, [Next]_vars PROVE IInv'
  <2>1. ASSUME NEW c \in Callers, NEW k \in Letters \cup Controls, Enter(c, k) PROVE IInv'
    BY <1>2, <2>1, EnterKeeps
  <2>2. ASSUME NEW c \in Callers, Draw(c) PROVE IInv' BY <1>2, <2>2, DrawKeeps
  <2>3. ASSUME NEW c \in Callers, Step(c) PROVE IInv' BY <1>2, <2>3, StepKeeps
  <2>4. ASSUME NEW c \in Callers, Wrap(c) PROVE IInv' BY <1>2, <2>4, WrapKeeps
  <2>5. ASSUME NEW c \in Callers, Scroll(c) PROVE IInv' BY <1>2, <2>5, ScrollKeeps
  <2>6. ASSUME NEW c \in Callers, Show(c) PROVE IInv' BY <1>2, <2>6, ShowKeeps
  <2>7. CASE UNCHANGED vars
    <3>1. Lines' = Lines /\ Old' = Old /\ Plain' = Plain BY <2>7, Silent DEF vars
    <3>2. Typing' /\ (AtRest => Resting)'
      BY <1>2, <2>7, <3>1 DEF IInv, Typing, TypeOK, AtRest, Resting, Displays, At, vars
    <3>3. ASSUME NEW c \in Callers PROVE InCall(c)'
      BY <1>2, <2>7, <3>1 DEF IInv, InCall, Drawing, Stepping, Wrapping, Scrolling,
                              Showing, Displays, At, vars
    <3>4. QED BY <3>2, <3>3 DEF IInv, Typing
  <2>8. QED BY <1>2, <2>1, <2>2, <2>3, <2>4, <2>5, <2>6, <2>7 DEF Next
<1>3. QED BY <1>1, <1>2, PTL DEF Spec

(* With one thread in putc at a time, between two calls the cursor is where  *)
(* the next character goes, also after a backspace in the first column, and  *)
(* the screen shows the last lines of all that was printed, for a screen of  *)
(* any size (putchar.c:19-84).                                               *)
THEOREM ConsoleShowsTheTail == OneCaller => (Spec => []ScreenShowsTheTail)
<1> SUFFICES ASSUME OneCaller PROVE Spec => []ScreenShowsTheTail OBVIOUS
<1>1. ASSUME IInv PROVE ScreenShowsTheTail
  <2>1. Typing /\ TypeOK BY <1>1 DEF IInv, Typing
  <2>2. AtRest => cursor = csr_y * Cols + csr_x /\ cursor \in Cells
    <3>1. SUFFICES ASSUME AtRest PROVE cursor = csr_y * Cols + csr_x /\ cursor \in Cells
      OBVIOUS
    <3>2. Resting BY <1>1, <3>1 DEF IInv
    <3>3. csr_y \in Nat /\ csr_y < Rows /\ csr_x \in 0..(Cols - 1)
      BY <2>1, <3>2, Sizes DEF TypeOK, Resting
    <3>4. csr_y * Cols + csr_x \in Cells BY <3>3, Within
    <3>5. QED BY <3>2, <3>4 DEF Resting
  <2>3. ASSUME AtRest, \A i \in 1..Len(text) : text[i] # "bs"
        PROVE  /\ \A i \in Cells : screen[i] = Glyph(Lines, Top(Lines), i)
               /\ cursor = Row(Lines) * Cols + Col(Lines)
    <3>1. Plain /\ Resting BY <1>1, <2>3 DEF IInv, Plain
    <3>2. QED BY <3>1 DEF Resting, Displays, At
  <2>4. ASSUME AtRest, \A i \in 1..Len(text) : text[i] # "bs"
        PROVE  LET lines == LinesAfter[Len(text)]
                   above == IF Len(lines) > Rows THEN Len(lines) - Rows ELSE 0
                   Shown(i) == LET row == above + (i \div Cols) + 1
                               IN IF row \in DOMAIN lines /\ (i % Cols) + 1 \in DOMAIN lines[row]
                                  THEN lines[row][(i % Cols) + 1] ELSE Blank
               IN /\ \A i \in Cells : screen[i] = Shown(i)
                  /\ cursor = (Len(lines) - above - 1) * Cols + Len(lines[Len(lines)])
    BY <2>3, <2>4, Zenon DEF Lines, Top, Row, Col, Glyph
  <2>5. QED BY <2>1, <2>2, <2>4, Zenon DEF ScreenShowsTheTail
<1>2. Spec => []IInv BY ConsoleInvariant
<1>3. QED BY <1>1, <1>2, PTL
-----------------------------------------------------------------------------
(* The lock that putc does not take (mutex.c) excludes, for any set of       *)
(* threads.  MutualExclusion is not inductive: an exchange that reads 0      *)
(* makes its thread the holder before the thread has looked.  HolderInv      *)
(* speaks of holders instead.                                                *)

(* At most one thread holds the lock, and the byte says whether one does.   *)
OneHolder == \A t, u \in Threads : Lock!Holds(t) /\ Lock!Holds(u) => t = u
HolderInv == Lock!TypeOK /\ OneHolder /\ Lock!LockedByAHolder

(* The initial state has no holder.                                         *)
LEMMA InitHolder == Lock!Init => HolderInv
  BY DEF Lock!Init, HolderInv, Lock!TypeOK, OneHolder, Lock!LockedByAHolder, Lock!Holds

(* Every step keeps HolderInv.                                              *)
LEMMA NextHolder == HolderInv /\ [Lock!Next]_Lock!vars => HolderInv'
<1> SUFFICES ASSUME HolderInv, [Lock!Next]_Lock!vars PROVE HolderInv'
  OBVIOUS
<1> USE DEF HolderInv, Lock!TypeOK, Lock!Goto
<1>1. CASE UNCHANGED Lock!vars
  BY <1>1 DEF Lock!vars, OneHolder, Lock!LockedByAHolder, Lock!Holds
<1>2. CASE Lock!Next
  <2> PICK t \in Threads : Lock!CallBlock(t) \/ Lock!CallTry(t) \/ Lock!Run(t)
    BY <1>2 DEF Lock!Next
  <2> USE DEF OneHolder, Lock!LockedByAHolder, Lock!Holds
  <2>1. CASE Lock!CallBlock(t)
    BY <2>1 DEF Lock!CallBlock
  <2>2. CASE Lock!CallTry(t)
    BY <2>2 DEF Lock!CallTry
  <2>3. CASE Lock!BlockXchg(t)
    BY <2>3 DEF Lock!BlockXchg, Lock!Exchange
  <2>4. CASE Lock!BlockAgain(t)
    BY <2>4 DEF Lock!BlockAgain
  <2>5. CASE Lock!BlockDone(t)
    BY <2>5 DEF Lock!BlockDone
  <2>6. CASE Lock!TryXchg(t)
    BY <2>6 DEF Lock!TryXchg, Lock!Exchange
  <2>7. CASE Lock!TryFailed(t)
    BY <2>7 DEF Lock!TryFailed
  <2>8. CASE Lock!TryGotIt(t)
    BY <2>8 DEF Lock!TryGotIt
  <2>9. CASE Lock!Leave(t)
    BY <2>9 DEF Lock!Leave
  <2>10. CASE Lock!Unlock(t)
    BY <2>10 DEF Lock!Unlock
  <2>11. QED
    BY <2>1, <2>2, <2>3, <2>4, <2>5, <2>6, <2>7, <2>8, <2>9, <2>10 DEF Lock!Run
<1>3. QED
  BY <1>1, <1>2

(* HolderInv holds in every reachable state.                                *)
THEOREM HoldersAgree == Lock!Spec => []HolderInv
  BY InitHolder, NextHolder, PTL DEF Lock!Spec

(* Two threads are never between lock and unlock together.                  *)
THEOREM Exclusion == Lock!Spec => []MutualExclusion
<1>1. HolderInv => MutualExclusion
  BY DEF HolderInv, OneHolder, MutualExclusion, Lock!MutualExclusion, Lock!Holds
<1>2. QED
  BY HoldersAgree, <1>1, PTL

(* The byte is 1 exactly while a thread holds the lock.                     *)
THEOREM ByteAgrees == Lock!Spec => []LockedByAHolder
<1>1. HolderInv => LockedByAHolder
  BY DEF HolderInv, LockedByAHolder
<1>2. QED
  BY HoldersAgree, <1>1, PTL
=============================================================================
