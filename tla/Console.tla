------------------------------ MODULE Console ------------------------------
(***************************************************************************)
(* putc and the text screen (putchar.c, update_cursor of kernel.c), scaled *)
(* to Rows lines of Cols cells.  A caller may be preempted between any two *)
(* accesses to _csr_x, _csr_y or the screen: the mutex around the body is  *)
(* commented out.  The accesses are those gcc -O2 makes: _csr_y is read    *)
(* once on entry and again after a character was drawn, and what was read  *)
(* is what decides whether to wrap and to scroll.  The two stores of a     *)
(* line break count as one step, and so does moving the screen up.         *)
(***************************************************************************)
EXTENDS Integers, Sequences

CONSTANTS Rows, Cols,    \* 25 and 80 on the machine
          Callers,       \* the threads that print
          Letters,       \* ordinary characters
          Controls,      \* the control characters printed, of "nl", "cr", "bs"
          MaxText        \* bound on the characters printed

ASSUME ConsoleAssumption == /\ Rows \in Nat \ {0} /\ Cols \in 2..(2 ^ 30)
                            /\ Controls \subseteq {"nl", "cr", "bs"}
                            /\ {"nl", "cr", "bs"} \cap Letters = {} /\ MaxText \in Nat

\* What the run and the proof take for granted: nobody else is in putc.
OneCaller == \A c, d \in Callers : c = d

VARIABLES csr_x, csr_y,  \* where the next character goes
          screen,        \* the cells of video memory that are displayed
          cursor,        \* the cell of the hardware cursor
          pc, ch, x, y,  \* per caller: next step, its character, its registers
          text           \* history: the characters, as their putc calls began

vars == <<csr_x, csr_y, screen, cursor, pc, ch, x, y, text>>

Blank == " "
Cells == 0..(Rows * Cols - 1)
Wrap32(n) == IF n < 0 THEN 2 ^ 30 ELSE n     \* unsigned: past any column

TypeOK == /\ csr_x \in Nat /\ csr_y \in Nat
          /\ screen \in [Cells -> Letters \cup {Blank}]
          /\ cursor \in Nat
          /\ pc \in [Callers -> {"out", "draw", "step", "wrap", "scroll", "show"}]
          /\ x \in [Callers -> Nat] /\ y \in [Callers -> Nat]
          /\ text \in Seq(Letters \cup Controls) /\ Len(text) <= MaxText

Init == /\ csr_x = 0 /\ csr_y = 0 /\ cursor = 0
        /\ screen = [i \in Cells |-> Blank]
        /\ pc = [c \in Callers |-> "out"] /\ ch = [c \in Callers |-> Blank]
        /\ x = [c \in Callers |-> 0] /\ y = [c \in Callers |-> 0]
        /\ text = <<>>

Goto(c, where) == pc' = [pc EXCEPT ![c] = where]

(* Enter putc: read the line and column.                                    *)
Enter(c, k) == /\ pc[c] = "out" /\ Len(text) < MaxText
               /\ text' = Append(text, k)
               /\ ch' = [ch EXCEPT ![c] = k]
               /\ x' = [x EXCEPT ![c] = csr_x]
               /\ y' = [y EXCEPT ![c] = csr_y]
               /\ Goto(c, IF k \in Letters THEN "draw" ELSE "step")
               /\ UNCHANGED <<csr_x, csr_y, screen, cursor>>

Draw(c) == /\ pc[c] = "draw"
           /\ LET spot == y[c] * Cols + x[c]
              IN IF spot \in Cells
                 THEN screen' = [screen EXCEPT ![spot] = ch[c]]
                 ELSE UNCHANGED screen        \* into the memory behind it
           /\ Goto(c, "step")
           /\ UNCHANGED <<csr_x, csr_y, cursor, ch, x, y, text>>

(* Move the column: read it again, and the line too after a letter.         *)
Step(c) == /\ pc[c] = "step"
           /\ \/ /\ ch[c] \in {"nl", "cr"}
                 /\ csr_x' = 0 /\ csr_y' = y[c] + 1
                 /\ x' = [x EXCEPT ![c] = 0]
                 /\ y' = [y EXCEPT ![c] = y[c] + 1]
                 /\ Goto(c, "scroll")
              \/ /\ ch[c] = "bs"
                 /\ csr_x' = Wrap32(csr_x - 1)
                 /\ x' = [x EXCEPT ![c] = Wrap32(csr_x - 1)]
                 /\ UNCHANGED <<csr_y, y>>
                 /\ Goto(c, "wrap")
              \/ /\ ch[c] \in Letters
                 /\ csr_x' = csr_x + 1
                 /\ x' = [x EXCEPT ![c] = csr_x + 1]
                 /\ y' = [y EXCEPT ![c] = csr_y]
                 /\ UNCHANGED csr_y
                 /\ Goto(c, "wrap")
           /\ UNCHANGED <<screen, cursor, ch, text>>

(* Past the last column: first column of the next line.                     *)
Wrap(c) == /\ pc[c] = "wrap"
           /\ IF x[c] > Cols - 1
              THEN /\ csr_x' = 0 /\ csr_y' = y[c] + 1
                   /\ y' = [y EXCEPT ![c] = y[c] + 1]
              ELSE UNCHANGED <<csr_x, csr_y, y>>
           /\ Goto(c, "scroll")
           /\ UNCHANGED <<screen, cursor, ch, x, text>>

LastLine == Rows - 1

\* _memcpy of all lines but the first to the top, _memsetw of the last.
MovedUpOnly == [i \in Cells |-> IF i + Cols \in Cells THEN screen[i + Cols]
                               ELSE screen[i]]       \* slip: no _memsetw
MovedUp == [i \in Cells |-> IF i + Cols \in Cells THEN screen[i + Cols] ELSE Blank]

(* Past the last line: move the screen up and stay on the last line.        *)
Scroll(c) == /\ pc[c] = "scroll"
             /\ IF y[c] > LastLine
                THEN /\ screen' = MovedUp
                     /\ csr_y' = LastLine
                     /\ y' = [y EXCEPT ![c] = LastLine]
                ELSE UNCHANGED <<screen, csr_y, y>>
             /\ Goto(c, "show")
             /\ UNCHANGED <<csr_x, cursor, ch, x, text>>

(* update_cursor, and return.                                               *)
Show(c) == /\ pc[c] = "show"
           /\ cursor' = y[c] * Cols + csr_x
           /\ Goto(c, "out")
           /\ UNCHANGED <<csr_x, csr_y, screen, ch, x, y, text>>

Next == \E c \in Callers : \/ \E k \in Letters \cup Controls : Enter(c, k)
                           \/ Draw(c) \/ Step(c) \/ Wrap(c) \/ Scroll(c) \/ Show(c)

Spec == Init /\ [][Next]_vars

-----------------------------------------------------------------------------
AtRest == \A c \in Callers : pc[c] = "out"

\* The text as lines: a line ends at a line break or when it is full.
LinesAfter[n \in 0..MaxText] ==
    IF n = 0 THEN << <<>> >>
    ELSE LET lines == LinesAfter[n - 1]
             last  == lines[Len(lines)]
             k     == text[n]
         IN IF k \notin Letters THEN Append(lines, <<>>)
            ELSE LET grown == [lines EXCEPT ![Len(lines)] = Append(last, k)]
                 IN IF Len(last) + 1 = Cols THEN Append(grown, <<>>) ELSE grown

(* Between two calls the cursor shown is where the next character goes,     *)
(* also after a backspace in the first column, and the screen shows the     *)
(* last Rows lines of what was printed, the cursor where the text ends      *)
(* (putchar.c:47-59), until something is erased.                            *)
ScreenShowsTheTail ==
    /\ TypeOK
    /\ AtRest => cursor = csr_y * Cols + csr_x /\ cursor \in Cells
    /\ AtRest /\ (\A i \in 1..Len(text) : text[i] # "bs") =>
        LET lines == LinesAfter[Len(text)]
            above == IF Len(lines) > Rows THEN Len(lines) - Rows ELSE 0
            Shown(i) == LET row == above + (i \div Cols) + 1
                        IN IF row \in DOMAIN lines /\ (i % Cols) + 1 \in DOMAIN lines[row]
                           THEN lines[row][(i % Cols) + 1] ELSE Blank
        IN /\ \A i \in Cells : screen[i] = Shown(i)
           /\ cursor = (Len(lines) - above - 1) * Cols + Len(lines[Len(lines)])
=============================================================================
