------------------------------- MODULE UdiPio -------------------------------
(* Lists of PIO operations as udi_piotrans.c runs them: the pass over a list when it
   is mapped (udi_pio.c), its labels and branches, and the operations on registers
   of one or two words, the driver's memory and the device, beside a machine on
   numbers that does what the operations are named for.  A unit stands for the two
   bytes of an operand; a word has two units, a register two words.              *)
EXTENDS Integers, Sequences, SequencesExt, FiniteSetsExt, Bitwise

CONSTANTS UnitBits,     \* 16 in the code
          Contents,     \* what the registers hold when a list is run first
          Lists,        \* the lists that are mapped
          Operations,   \* what an operation "any" of a list stands for
          RepDirect,    \* whether the mode bits of a repeated transfer's opcode read as direct
          MaxTrans

VARIABLES trans,        \* the mapped list
          scan,         \* what the pass over it found, or Unmapped
          pc,           \* the operation to run next, 0 for none
          regs, mem, dev, result,
          truth,        \* [pc, regs, mem, dev, result] of the machine on numbers
          flawed,       \* an operation has run where the code is known to differ
          count
vars == <<trans, scan, pc, regs, mem, dev, result, truth, flawed, count>>

Reg == {0, 1, 2}
Address == 0 .. 3
Bits == 2 * UnitBits                            \* of a word
Base == 2 ^ UnitBits
W == 2 ^ Bits
Modulus(n) == Base ^ n                          \* what n units hold
Mask(n) == IF n = 1 THEN Base ELSE W            \* _udi_pio_mask_table
Signed(w) == IF w >= W \div 2 THEN w - W ELSE w
SignedUnit(k) == IF k >= Base \div 2 THEN k - Base ELSE k
Slot(op, r, o, n, k) == [op |-> op, r |-> r, o |-> o, n |-> n, k |-> k]
Wide(s) == s.n > 2

(* The pass over the list: labels are kept in order, and a branch is resolved to
   what is behind its label.                                                     *)
AddLabelLast(p, list, i) == Append(list, i)     \* slip: behind the others
AddLabel(p, list, i) ==                         \* _udi_pio_add_label
    LET above == {j \in DOMAIN list : p[list[j]].k > p[i].k} IN
    InsertAt(list, IF above = {} THEN Len(list) + 1 ELSE Min(above), i)
Labels(p) ==
    LET upto[n \in 0 .. Len(p)] == IF n = 0 THEN <<>>
                                   ELSE IF p[n].op = "label" THEN AddLabel(p, upto[n - 1], n)
                                   ELSE upto[n - 1]
    IN  upto[Len(p)]
_udi_pio_find_label(p, k) ==                    \* the search ends at a greater label
    LET list == Labels(p)
        from == {j \in DOMAIN list : p[list[j]].k >= k} IN
    IF from # {} /\ p[list[Min(from)]].k = k THEN list[Min(from)] + 1 ELSE 0
_udi_pio_trans_prescan(p) ==
    [target |-> [i \in DOMAIN p |-> IF p[i].op = "branch" THEN _udi_pio_find_label(p, p[i].k)
                                    ELSE 0],
     entry |-> [k \in 0 .. 7 |->
        IF k = 0 THEN 1
        ELSE LET at == {i \in DOMAIN p : p[i].op = "label" /\ p[i].k = k} IN
             IF at = {} THEN 0 ELSE Max(at)]]
Unmapped == [target |-> <<>>, entry |-> [k \in 0 .. 7 |-> 0]]

\* A list ends in an end or a branch, has each label once and those it branches to.
Legal(p) == /\ Last(p).op \in {"end", "end_imm", "branch"}
            /\ \A i, j \in DOMAIN p : /\ p[i].op = "label" /\ p[j] = p[i] => i = j
                                      /\ p[i].op = "branch" =>
                                           \E l \in DOMAIN p : p[l].op = "label" /\ p[l].k = p[i].k

(* What the operations are named for.                                             *)
Operation(op, a, b, m) ==
    (CASE op = "and" -> a & b
       [] op = "or" -> a | b
       [] op = "xor" -> a ^^ b
       [] op = "add" -> a + b
       [] op = "sub" -> a - b
       [] op = "shl" -> a * 2 ^ b
       [] op = "shr" -> (a % m) \div 2 ^ b) % m
Binary == {"and", "or", "xor", "add", "sub"}
Named == [and_imm |-> "and", or_imm |-> "or", add_imm |-> "add", shl |-> "shl", shr |-> "shr"]
Immediate(s) == IF s.op = "add_imm" THEN SignedUnit(s.k) ELSE s.k
Alu == Binary \cup DOMAIN Named
Read(space, a, n) == LET upto[i \in 0 .. n] ==
                           IF i = 0 THEN 0 ELSE upto[i - 1] + space[a + i - 1] * Base ^ (i - 1)
                     IN  upto[n]
Written(space, a, n, v) == [x \in Address |-> IF x \in a .. a + n - 1
                                              THEN (v \div Base ^ (x - a)) % Base ELSE space[x]]

\* A repeated transfer: n units from or to a + i * step, for each i below the count.
Stride(n, e) == IF e = 0 THEN 0 ELSE n * 2 ^ (e - 1)
Repeated(s, from, to, f, t, turns) ==
    LET step(e) == Stride(s.n, e)
        Of(x) == {i \in 0 .. turns - 1 : x \in t + i * step(s.k.to) .. t + i * step(s.k.to) + s.n - 1} IN
    [x \in Address |-> IF Of(x) = {} THEN to[x]
        ELSE LET i == Max(Of(x)) IN from[f + i * step(s.k.from) + x - (t + i * step(s.k.to))]]

\* The machine on numbers.
TrueResult(s, t) ==
    IF s.op \in Binary THEN Operation(s.op, t.regs[s.r], t.regs[s.o], Modulus(s.n))
    ELSE Operation(Named[s.op], t.regs[s.r], Immediate(s), Modulus(s.n))
TrueData(s, t) ==
    LET a == t.regs[s.r]
        b == t.regs[s.o]
        m == Modulus(s.n) IN
    CASE s.op \in Alu -> [t EXCEPT !.regs[s.r] = TrueResult(s, t)]
      [] s.op \in {"load_imm", "in_direct"} ->
            [t EXCEPT !.regs[s.r] = IF s.op = "load_imm" THEN s.k ELSE Read(t.dev, s.k, s.n)]
      [] s.op = "load_dir" -> [t EXCEPT !.regs[s.o] = a % m]
      [] s.op = "store_dir" -> [t EXCEPT !.regs[s.r] = b % m]
      [] s.op = "load" -> [t EXCEPT !.regs[s.o] = Read(t.mem, a, s.n)]
      [] s.op = "store" -> [t EXCEPT !.mem = Written(@, a, s.n, b)]
      [] s.op = "in" -> [t EXCEPT !.mem = Written(@, a, s.n, Read(t.dev, s.k, s.n))]
      [] s.op = "out" -> [t EXCEPT !.dev = Written(@, s.k, s.n, Read(t.mem, a, s.n))]
      [] s.op = "out_direct" -> [t EXCEPT !.dev = Written(@, s.k, s.n, a)]
      [] s.op = "in_ind" -> [t EXCEPT !.regs[s.r] = Read(t.dev, b, s.n)]
      [] s.op = "out_ind" -> [t EXCEPT !.dev = Written(@, b, s.n, a)]
      [] s.op = "rep_out" -> [t EXCEPT !.dev = Repeated(s, t.mem, t.dev, a, b, t.regs[s.k.count])]
      [] s.op = "rep_in" -> [t EXCEPT !.mem = Repeated(s, t.dev, t.mem, b, a, t.regs[s.k.count])]
TrueTest(s, a) == LET low == a % Modulus(s.n) IN
    CASE s.k = "z" -> low = 0
      [] s.k = "nz" -> low # 0
      [] s.k = "neg" -> low >= Modulus(s.n) \div 2
      [] s.k = "nneg" -> low < Modulus(s.n) \div 2
\* An operation that loads a constant takes a slot for each unit of it.
Slots(s) == IF s.op = "load_imm" THEN s.n ELSE 1
After(p, i) == IF i + Slots(p[i]) > Len(p) THEN 0 ELSE i + Slots(p[i])

(* The machine of words.  valid says how many units of a register count; the words
   above keep what was there.                                                     *)
Number(g) == IF g.valid > 2 THEN g.w[1] + W * g.w[2] ELSE g.w[1]
Extended(g) == [i \in 1 .. 2 |-> IF g.valid <= 2 * (i - 1) THEN 0 ELSE g.w[i]]
Put(g, v, n) == [g EXCEPT !.w[1] = v, !.valid = n]

Narrow(s, p, o) ==
    LET b == IF s.op \in Binary THEN o.w[1] ELSE Immediate(s)
        op == IF s.op \in Binary THEN s.op ELSE Named[s.op] IN
    Put(p, IF op = "shr" THEN (p.w[1] % Mask(s.n)) \div 2 ^ b ELSE Operation(op, p.w[1], b, Mask(s.n)),
        s.n)

CarrySigned(digit, o, c) == Signed(digit) < Signed((c + o) % W)
Sum(p, o) ==                    \* the carry is found by a signed comparison
    LET low == (o[1] + p[1]) % W
        c == IF CarrySigned(low, o[1], 0) THEN 1 ELSE 0 IN
    <<low, (o[2] + p[2] + c) % W>>
Difference(p, o) ==             \* "this underflow detection is wrong"
    [i \in 1 .. 2 |-> LET digit == (p[i] - o[i]) % W IN
                      (digit - (IF Signed(digit) > Signed(o[i]) THEN 1 ELSE 0)) % W]
Constant16(s) == LET k == SignedUnit(s.k) IN <<k % W, IF k < 0 THEN W - 1 ELSE 0>>
LeftWide(p, k) ==               \* what the low word loses is shifted as a signed word
    LET w == IF p.valid < 2 THEN <<0, 0>> ELSE p.w
        top == w[1] \div 2 ^ (Bits - k)
        digit == IF w[1] >= W \div 2 THEN W - 2 ^ k + top ELSE top IN
    <<(w[1] * 2 ^ k) % W, ((w[2] * 2 ^ k) % W) | digit>>
RightWide(p, k) ==
    <<(p.w[1] \div 2 ^ k) | ((p.w[2] % 2 ^ k) * 2 ^ (Bits - k)), p.w[2] \div 2 ^ k>>
\* By a word; of an operation of less than a word the loop runs past the register.
LeftWord(s, p) == <<0, IF ~Wide(s) THEN p.w[2] ELSE IF p.valid < 2 THEN 0 ELSE p.w[1]>>
RightWord(s, p) == IF Wide(s) THEN <<p.w[2], IF p.w[2] >= W \div 2 THEN W - 1 ELSE 0>>
                   ELSE <<0, p.w[2]>>
Shifted(s, p) == IF s.op = "shl" THEN LeftWord(s, p) ELSE RightWord(s, p)
Bitwise2(s, p, o) == LET b == IF o.valid < s.n THEN <<0, 0>> ELSE o.w IN
    [i \in 1 .. 2 |-> Operation(s.op, p.w[i], b[i], W)]
WideWords(s, p, o) ==
    CASE s.op \in {"and", "or", "xor"} -> Bitwise2(s, p, o)
      [] s.op \in {"and_imm", "or_imm"} -> <<Operation(Named[s.op], p.w[1], s.k, W), 0>>
      [] s.op = "add" -> Sum(Extended(p), Extended(o))
      [] s.op = "add_imm" -> Sum(Extended(p), Constant16(s))
      [] s.op = "sub" -> Difference(Extended(p), Extended(o))
      [] s.op = "shl" -> LeftWide(p, s.k)
      [] s.op = "shr" -> RightWide(p, s.k)
\* The other register loses its words, or gets those it lacks.
OtherWords(s, o) ==
    CASE s.op \in {"and", "or", "xor"} /\ o.valid < s.n -> <<0, 0>>
      [] s.op \in {"add", "sub"} -> Extended(o)
      [] OTHER -> o.w
ByWord(s) == s.op \in {"shl", "shr"} /\ s.k = Bits
Computed(s, g) ==
    LET p == g[s.r]  o == g[s.o] IN
    IF ByWord(s) THEN [g EXCEPT ![s.r] = [w |-> Shifted(s, p), valid |-> s.n]]
    ELSE IF ~Wide(s) THEN [g EXCEPT ![s.r] = Narrow(s, p, o)]
    ELSE [[g EXCEPT ![s.o].w = OtherWords(s, o)] EXCEPT
              ![s.r] = [w |-> WideWords(s, p, o), valid |-> s.n]]

\* A source that is too narrow is extended where it is; one of less than a word is lost.
Grown(g, n) == IF g.valid >= n THEN g
               ELSE IF g.valid < 2 THEN [w |-> <<0, 0>>, valid |-> IF g.valid = 0 THEN 4 ELSE 5]
               ELSE [w |-> <<g.w[1], 0>>, valid |-> 4]
Moved(s, g, from, to) ==
    IF ~Wide(s) THEN [g EXCEPT ![to] = Put(@, g[from].w[1] % Mask(s.n), s.n)]
    ELSE LET h == [g EXCEPT ![from] = Grown(@, s.n)] IN [h EXCEPT ![to].w = h[from].w]
WordsAt(a) == <<Read(mem, a, 2), Read(mem, a + 2, 2)>>

\* What an operation leaves in the registers, the memory and the device.
Left(r, m, d) == [regs |-> r, mem |-> m, dev |-> d]
Loaded(s) ==
    Left([regs EXCEPT ![s.r] = IF Wide(s) THEN [w |-> <<s.k % W, s.k \div W>>, valid |-> s.n]
                               ELSE Put(@, s.k, s.n)], mem, dev)
Indirect(s) ==
    LET at == regs[s.o].w[1] IN
    IF s.op = "in_ind" THEN Left([regs EXCEPT ![s.r] = Put(@, Read(dev, at, s.n), s.n)], mem, dev)
    ELSE Left(regs, mem, Written(dev, at, s.n, regs[s.r].w[1]))
Device(s) ==
    LET at == regs[s.r].w[1]
        sent == Read(dev, s.k, s.n) IN
    CASE s.op = "in_direct" -> Left([regs EXCEPT ![s.r] = Put(@, sent, s.n)], mem, dev)
      [] s.op = "in" -> Left([regs EXCEPT ![s.r] = Put(@, at % Mask(s.n), s.n)],
                             Written(mem, at, s.n, sent), dev)
      [] s.op = "out_direct" -> Left(regs, mem, Written(dev, s.k, s.n, at))
      [] s.op = "out" -> Left(regs, mem, Written(dev, s.k, s.n, Read(mem, at, s.n)))
Turns(s, from, to, f, t) ==     \* the loop over the count
    LET after[i \in 0 .. regs[s.k.count].w[1]] ==
            IF i = 0 THEN to
            ELSE Written(after[i - 1], t + (i - 1) * Stride(s.n, s.k.to), s.n,
                         Read(from, f + (i - 1) * Stride(s.n, s.k.from), s.n))
    IN  after[regs[s.k.count].w[1]]
Rep(s) ==
    LET c == [s EXCEPT !.k = IF ~RepDirect THEN @
                             ELSE IF s.op = "rep_out" THEN [@ EXCEPT !.from = 0]
                             ELSE [@ EXCEPT !.to = 0]] IN
    IF s.op = "rep_out" THEN Left(regs, mem, Turns(c, mem, dev, regs[s.r].w[1], regs[s.o].w[1]))
    ELSE Left(regs, Turns(c, dev, mem, regs[s.o].w[1], regs[s.r].w[1]), dev)
Load(s) ==
    LET at == regs[s.r].w[1] IN
    Left([regs EXCEPT ![s.o] = IF Wide(s) THEN [w |-> WordsAt(at), valid |-> s.n]
                               ELSE Put(@, Read(mem, at, s.n), s.n)], mem, dev)
Store(s) ==
    LET h == IF Wide(s) THEN [regs EXCEPT ![s.o] = Grown(@, s.n)] ELSE regs
        v == IF Wide(s) THEN h[s.o].w[1] + W * h[s.o].w[2] ELSE h[s.o].w[1] IN
    Left(h, Written(mem, regs[s.r].w[1], s.n, v), dev)
Data(s) ==
    CASE s.op \in Alu -> Left(Computed(s, regs), mem, dev)
      [] s.op = "load_imm" -> Loaded(s)
      [] s.op \in {"in_ind", "out_ind"} -> Indirect(s)
      [] s.op \in {"in_direct", "in", "out_direct", "out"} -> Device(s)
      [] s.op = "load_dir" -> Left(Moved(s, regs, s.r, s.o), mem, dev)
      [] s.op = "store_dir" -> Left(Moved(s, regs, s.o, s.r), mem, dev)
      [] s.op = "load" -> Load(s)
      [] s.op = "store" -> Store(s)
      [] s.op \in {"rep_in", "rep_out"} -> Rep(s)

(* Where the code is known to do something else.                                  *)
Flawed(s) ==
    LET p == regs[s.r]  o == regs[s.o]
        x == Extended(p)  y == IF s.op = "add_imm" THEN Constant16(s) ELSE Extended(o) IN
    \/ s.op = "in" /\ Number(p) >= Modulus(s.n)         \* the address is cut to the size
    \/ s.op \in {"rep_in", "rep_out"} /\ RepDirect
    \/ ByWord(s) /\ (s.n = 1 \/ (Wide(s) /\ s.op = "shl" /\ p.valid < 2))
    \/ /\ Wide(s)
       /\ \/ s.op \in {"and", "or", "xor"} /\ (p.valid < s.n \/ o.valid < s.n)
          \/ s.op = "or_imm" /\ Number(p) >= W           \* the upper words are cleared
          \/ s.op \in {"add", "add_imm"} /\ CarrySigned((x[1] + y[1]) % W, y[1], 0) # (x[1] + y[1] >= W)
          \/ s.op = "sub" /\ \E i \in 1 .. 2 : x[i] < y[i] \/ Signed(x[i] - y[i]) > Signed(y[i])
          \/ s.op \in {"shl", "shr"} /\ p.valid < s.n /\ (s.op = "shr" \/ ~ByWord(s))
          \/ s.op = "shl" /\ ~ByWord(s) /\ p.w[1] >= W \div 2
          \/ s.op = "shr" /\ ByWord(s) /\ p.w[2] >= W \div 2
          \/ s.op = "load_dir" /\ (p.valid = 1 \/ o.valid # s.n)
          \/ s.op = "store_dir" /\ (o.valid = 1 \/ p.valid # s.n)
          \/ s.op = "store" /\ o.valid = 1

\* A driver addresses what it has.
Reach(s) ==
    LET last == s.n - 1 IN
    CASE s.op \in {"load", "store", "in", "out"} ->
            Number(regs[s.r]) + last \in Address /\ (s.op \in {"in", "out"} => s.k + last \in Address)
      [] s.op \in {"in_direct", "out_direct"} -> s.k + last \in Address
      [] s.op \in {"in_ind", "out_ind"} -> Number(regs[s.o]) + last \in Address
      [] s.op \in {"rep_in", "rep_out"} ->
            LET more == Number(regs[s.k.count]) - 1 IN
            /\ Number(regs[s.r]) + more * Stride(s.n, Max({s.k.from, s.k.to})) + last \in Address
            /\ Number(regs[s.o]) + more * Stride(s.n, Max({s.k.from, s.k.to})) + last \in Address
      [] OTHER -> TRUE
------------------------------------------------------------------------------
Init == /\ regs \in Contents
        /\ mem = [a \in Address |-> IF a = 1 THEN Base - 1 ELSE 0]
        /\ dev = [a \in Address |-> IF a = 0 THEN 1 ELSE Base - 1]
        /\ trans = <<>> /\ scan = Unmapped /\ pc = 0 /\ result = "none"
        /\ truth = [pc |-> 0, regs |-> [r \in Reg |-> Number(regs[r])], mem |-> mem, dev |-> dev,
                    result |-> "none"]
        /\ flawed = FALSE /\ count = 0

udi_pio_map(p) ==
    /\ scan = Unmapped
    /\ trans' = p
    /\ scan' = _udi_pio_trans_prescan(p)
    /\ UNCHANGED <<pc, regs, mem, dev, result, truth, flawed, count>>
udi_pio_unmap ==
    /\ scan # Unmapped /\ pc = 0
    /\ trans' = <<>> /\ scan' = Unmapped
    /\ UNCHANGED <<pc, regs, mem, dev, result, truth, flawed, count>>

\* At an entry that is no label nothing runs, and the result is whatever there was.
udi_pio_trans(k) ==
    /\ scan # Unmapped /\ pc = 0 /\ count < MaxTrans /\ ~flawed
    /\ LET at == IF k = 0 THEN 1
                 ELSE LET l == {i \in DOMAIN trans : trans[i].op = "label" /\ trans[i].k = k} IN
                      IF l = {} THEN 0 ELSE Min(l) IN
       truth' = [truth EXCEPT !.pc = at, !.result = IF at = 0 THEN "junk" ELSE "none"]
    /\ pc' = scan.entry[k]
    /\ result' = IF pc' = 0 THEN "junk" ELSE "none"
    /\ count' = count + 1
    /\ UNCHANGED <<trans, scan, regs, mem, dev, flawed>>

Next1(i) == IF i < Len(trans) THEN i + 1 ELSE 0         \* next_trans
Ends(i) == IF i = 0 THEN "junk" ELSE "none"
TrueLabel(k) == CHOOSE i \in DOMAIN trans : trans[i].op = "label" /\ trans[i].k = k
Control(s) ==
    /\ CASE s.op = "branch" ->
                /\ pc' = scan.target[pc] /\ result' = Ends(pc')
                /\ truth' = [truth EXCEPT !.pc = TrueLabel(s.k) + 1]
         [] s.op = "label" ->
                /\ pc' = Next1(pc) /\ result' = Ends(pc')
                /\ truth' = [truth EXCEPT !.pc = pc', !.result = Ends(pc')]
         [] s.op = "cskip" ->
                LET p == regs[s.r]
                    v == IF Wide(s) THEN Extended(p) ELSE <<p.w[1] % Mask(s.n), 0>>
                    low == IF s.n = 1 THEN SignedUnit(p.w[1] % Base) ELSE Signed(p.w[1])
                    take == CASE s.k = "z" -> v = <<0, 0>>
                              [] s.k = "nz" -> v # <<0, 0>>
                              [] s.k = "neg" -> low < 0
                              [] s.k = "nneg" -> low >= 0
                    to == IF TrueTest(s, truth.regs[s.r]) THEN After(trans, pc + 1) ELSE pc + 1 IN
                /\ pc' = IF take THEN Next1(pc + 1) ELSE pc + 1
                /\ result' = Ends(pc')
                /\ truth' = [truth EXCEPT !.pc = to, !.result = Ends(to)]
         [] s.op \in {"end", "end_imm"} ->
                /\ pc' = 0
                /\ result' = IF s.op = "end" THEN regs[s.o].w[1] % Base ELSE s.k
                /\ truth' = [truth EXCEPT !.pc = 0,
                       !.result = IF s.op = "end" THEN truth.regs[s.o] % Base ELSE s.k]
    /\ regs' = IF s.op = "cskip" /\ Wide(s) /\ s.k \in {"z", "nz"}
               THEN [regs EXCEPT ![s.r].w = IF Extended(regs[s.r])[1] = 0 THEN Extended(regs[s.r]) ELSE @]
               ELSE regs
    /\ flawed' = /\ s.op = "cskip"
                  /\ \/ Slots(trans[pc + 1]) > 1
                     \/ Wide(s) /\ s.k \in {"neg", "nneg"}
    /\ UNCHANGED <<mem, dev>>
Controls == {"branch", "label", "cskip", "end", "end_imm"}

Operate(s, i) ==                \* i: the last slot of the operation
    /\ Reach(s)
    /\ LET d == Data(s) IN regs' = d.regs /\ mem' = d.mem /\ dev' = d.dev
    /\ pc' = Next1(i) /\ result' = Ends(pc')
    /\ truth' = [TrueData(s, truth) EXCEPT !.pc = Next1(i), !.result = Ends(Next1(i))]
    /\ flawed' = Flawed(s)
Constant(i, n) == Read([j \in 0 .. n - 1 |-> trans[i + j].k], 0, n)
_udi_execute_translist ==
    /\ pc # 0 /\ ~flawed
    /\ LET s == trans[pc] IN
       \/ s.op \in Controls /\ Control(s)
       \/ s.op = "load_imm" /\ Operate([s EXCEPT !.k = Constant(pc, s.n)], pc + s.n - 1)
       \/ s.op = "any" /\ \E t \in Operations : Operate(t, pc)
       \/ s.op \notin Controls \cup {"load_imm", "any"} /\ Operate(s, pc)
    /\ UNCHANGED <<trans, scan, count>>

Next == \/ \E p \in Lists : udi_pio_map(p)
        \/ udi_pio_unmap
        \/ \E k \in 0 .. 2 : udi_pio_trans(k)
        \/ _udi_execute_translist
Spec == Init /\ [][Next]_vars
------------------------------------------------------------------------------
\* A list runs as written: every branch goes behind its label, and registers, memory,
\* device and result are those of a machine on numbers of any width, unless an
\* operation ran where the code is known to differ (udi_piotrans.c: narrower
\* registers in wide operations, carries, skipped constants).
ListsRunAsWritten ==
    /\ \A i \in DOMAIN trans : trans[i].op = "branch" => scan.target[i] # 0
    /\ ~flawed => truth = [pc |-> pc, regs |-> [r \in Reg |-> Number(regs[r])], mem |-> mem,
                           dev |-> dev, result |-> result]
=============================================================================
