------------------------------- MODULE UdiCb -------------------------------
(* Control blocks between two drivers: the sizes worked out when a driver is loaded
   (udi_mei.c, udi_init.c), single blocks and batches (udi_cb.c), and the blocks that
   grow on their way through a channel (udi_mei_call, _udi_cb_realloc), with the copy
   that is kept while an operation can still be aborted.  Memory is in units of the
   natural alignment; a block is a sequence of units.                            *)
EXTENDS Integers, Sequences, SequencesExt, FiniteSets, FiniteSetsExt

CONSTANTS Block, None,
          Ops,          \* side -> the operations it receives:
                        \*   [group, visible, marshal, chained, completion], the last the
                        \*   operation that ends one that can be aborted, or 0
          Drivers,      \* what drivers declare: side -> sequence of
                        \*   [group, scratch, inline, bufs, link, selected]
          Wrap,         \* an index has Wrap values (256)
          MaxCalls

VARIABLES props,        \* the two drivers that are loaded
          block, held, sent, request, open,
          lost,         \* blocks nothing refers to any more
          cbWild,       \* memory has been used in a way the code does not survive
          cbCalls
vars == <<props, block, held, sent, request, open, lost, cbWild, cbCalls>>

Side == {"a", "b"}
Other(s) == IF s = "a" THEN "b" ELSE "a"
Header == 1

(* What is worked out for a driver.                                               *)
\* The operations of all vectors of the metalanguage, its own or not.
OfGroup(g) == {o \in UNION {Range(Ops[s]) : s \in Side} : o.group = g}
_udi_mei_cb_init(c) == [group |-> c.group, scratch |-> c.scratch, inline |-> c.inline]
ScratchAsked(c) == c.scratch                            \* slip: parameters do not count
Scratch(c) == Max({_udi_mei_cb_init(c).scratch} \cup {o.marshal : o \in OfGroup(c.group)})
Visible(c) == Max({1} \cup {o.visible : o \in OfGroup(c.group)})
\* A template: where the inline data start, and the whole size.
_udi_post_init(c) == [at |-> Header + Visible(c), inline |-> _udi_mei_cb_init(c).inline,
                      scratch |-> Scratch(c), size |-> Header + Visible(c) + c.inline + Scratch(c)]
\* Before the operations of a vector comes the event indication.
_udi_mei_ops_init(s) == <<[group |-> 0, visible |-> 0, marshal |-> 0, chained |-> FALSE,
                           completion |-> 0]>> \o Ops[s]
Op(s, k) == _udi_mei_ops_init(s)[k + 1]
\* The scratch that side s needs for operation k: a selected template's, or the most.
Candidates(s, k) == {i \in DOMAIN props[s] : props[s][i].group = Op(s, k).group}
Chosen(s, k) == LET selected == {i \in Candidates(s, k) : props[s][i].selected} IN
                IF selected = {} THEN Candidates(s, k) ELSE {Min(selected)}
OpScratch(s, k) == IF k = 0 THEN 0 ELSE Max({0} \cup {Scratch(props[s][i]) : i \in Chosen(s, k)})

(* Blocks.                                                                        *)
Free == [size |-> 0]
Live(b) == block[b] # Free
NewBlock(s, i, b) ==                                    \* _udi_alloc_cb_complete
    LET c == props[s][i]
        t == _udi_post_init(c) IN
    [size |-> t.size, scratch |-> t.scratch, cb |-> <<s, i>>, inline |-> <<b, t.at>>,
     text |-> [n \in 1 .. t.size |-> IF n <= t.at THEN "visible"
                                     ELSE IF n <= t.at + t.inline THEN "inline" ELSE "scratch"],
     new |-> b, old |-> None, known |-> None, completion |-> 0, chain |-> None, bufs |-> 0,
     entered |-> None]
Spare(mem) == {b \in Block : mem[b] = Free}
Fresh(mem) == CHOOSE b \in Spare(mem) : TRUE            \* which memory it is does not matter
RECURSIVE Chain(_, _)
Chain(mem, b) == IF b = None THEN <<>> ELSE <<b>> \o Chain(mem, mem[b].chain)

\* The block in new memory: all but scratch is copied, the old memory stays as new's old.
Pointed(r, b) == [r EXCEPT !.inline = <<b, @[2]>>]
Copy(r, b, n) ==
    Pointed([r EXCEPT !.size = r.size - r.scratch + n, !.scratch = n, !.new = b,
                      !.text = SubSeq(@, 1, r.size - r.scratch) \o [i \in 1 .. n |-> "scratch"]], b)
_udi_cb_realloc(mem, c, b, n) ==
    LET freed == IF mem[c].old = None THEN mem ELSE [mem EXCEPT ![mem[c].old] = Free] IN
    [freed EXCEPT ![b] = [Copy(mem[c], b, n) EXCEPT !.old = c], ![c].new = b]
DropOld(mem, b) ==
    IF mem[b].old = None THEN mem
    ELSE [mem EXCEPT ![mem[b].old] = Free, ![b].old = None]

\* Old memory is dropped at once unless the operation can be aborted.
KeepOld(mem, b) == IF mem[b].known # None THEN mem ELSE DropOld(mem, b)
Grown(mem, c, k, t, b) == KeepOld(_udi_cb_realloc(mem, c, b, OpScratch(t, k)), b)
Grows(mem, c, k, t) == OpScratch(t, k) > mem[c].scratch

\* udi_mei_call's loop over a chain: what is before the block, the chain, the memory.
RECURSIVE Enter(_, _, _, _, _)
Enter(mem, c, prev, k, t) ==
    LET b == IF Grows(mem, c, k, t) THEN Fresh(mem) ELSE c
        grown == IF b = c THEN mem ELSE Grown(mem, c, k, t, b)
        linked == IF b = c \/ prev = None THEN grown ELSE [grown EXCEPT ![prev].chain = b]
        here == [linked EXCEPT ![b].entered = <<t, k>>]
        rest == here[b].chain IN
    IF ~Op(t, k).chained \/ rest = None THEN [mem |-> here, first |-> b]
    ELSE [mem |-> Enter(here, rest, b, k, t).mem, first |-> b]
\* An operation's sender may still abort it, under the block it knows.
Abortable(r, b, k, t) ==
    LET ended == IF r.known # None /\ r.completion = k THEN [r EXCEPT !.known = None] ELSE r IN
    IF Op(t, k).completion = 0 THEN ended
    ELSE [ended EXCEPT !.known = b, !.completion = Op(t, k).completion]
Linked(b) == Range(Chain(block, b))
Can(b, k, t) == /\ \A c \in Linked(b) : props[block[c].cb[1]][block[c].cb[2]].group = Op(t, k).group
                /\ Cardinality({c \in Linked(b) : Grows(block, c, k, t)}) <= Cardinality(Spare(block))
                /\ ~Op(t, k).chained => block[b].chain = None
\* Not survived: memory that its sender knows, or that a block calls its old one, goes.
Twice(b, k, t) == /\ Grows(block, b, k, t) /\ block[b].old # None
                  /\ Abortable(block[b], b, k, t).known # None
------------------------------------------------------------------------------
Init == /\ props \in Drivers
        /\ block = [b \in Block |-> Free]
        /\ held = [s \in Side |-> {}] /\ sent = [s \in Side |-> <<>>]
        /\ request = [s \in Side |-> None] /\ open = [s \in Side |-> TRUE]
        /\ lost = {} /\ cbWild = FALSE /\ cbCalls = 0
Called == ~cbWild /\ cbCalls < MaxCalls /\ cbCalls' = cbCalls + 1
Unasked == UNCHANGED <<props, open, lost, cbWild>>

Asked(s, r) == request' = [request EXCEPT ![s] = r]
Granted(s, i) ==
    /\ Spare(block) # {}
    /\ LET b == Fresh(block) IN /\ block' = [block EXCEPT ![b] = NewBlock(s, i, b)]
                                /\ held' = [held EXCEPT ![s] = @ \cup {b}]
udi_cb_alloc(s, i) ==           \* at once, or when there is memory
    /\ Called /\ request[s] = None
    /\ \/ Granted(s, i) /\ UNCHANGED request
       \/ /\ Spare(block) = {}
          /\ Asked(s, [kind |-> "one", cb |-> i]) /\ UNCHANGED <<block, held>>
    /\ Unasked /\ UNCHANGED sent
Complete(s) ==
    /\ ~cbWild /\ request[s] # None /\ request[s].kind = "one"
    /\ Granted(s, request[s].cb)
    /\ Asked(s, None) /\ Unasked /\ UNCHANGED <<sent, cbCalls>>

\* A batch: the first block, its buffer, the next; blocks hang by their first's chain.
udi_cb_alloc_batch(s, i, n, buf) ==
    /\ Called /\ request[s] = None
    /\ Asked(s, [kind |-> "batch", cb |-> i, count |-> n, wanted |-> n, buf |-> buf,
                 first |-> None, last |-> None, step |-> "block"])
    /\ Unasked /\ UNCHANGED <<block, held, sent>>
CountDown(n) == (n - 1) % Wrap
_udi_cb_alloc_batch2(s) ==      \* and 2a, for those after the first
    LET r == request[s]
        c == props[s][r.cb] IN
    /\ ~cbWild /\ r # None /\ r.kind = "batch" /\ r.step = "block"
    /\ Spare(block) # {}
    /\ LET b == Fresh(block)
           hung == IF r.last = None THEN block ELSE [block EXCEPT ![r.last].chain = b] IN
          /\ block' = [hung EXCEPT ![b] = NewBlock(s, r.cb, b)]
          /\ Asked(s, [r EXCEPT !.first = IF @ = None THEN b ELSE @, !.last = b,
                                !.count = CountDown(@),
                                !.step = IF ~r.buf THEN "next"
                                         ELSE IF c.bufs = "none" THEN "stuck" ELSE "buffer"])
    \* a chain pointer in the inline data is written beside the pointer to them
    /\ cbWild' = (c.link = "inline" /\ r.last # None)
    /\ UNCHANGED <<props, open, lost, held, sent, cbCalls>>
_udi_cb_alloc_batch4(s) ==
    LET r == request[s] IN
    /\ ~cbWild /\ r # None /\ r.kind = "batch" /\ r.step = "buffer"
    /\ block' = [block EXCEPT ![r.last].bufs = @ + 1]
    /\ Asked(s, [r EXCEPT !.step = "next"])
    /\ cbWild' = (props[s][r.cb].bufs = "both")         \* as is the buffer of the inline data
    /\ UNCHANGED <<props, open, lost, held, sent, cbCalls>>
_udi_cb_alloc_batch5(s) ==
    LET r == request[s] IN
    /\ ~cbWild /\ r # None /\ r.kind = "batch" /\ r.step = "next"
    /\ IF r.count # 0 THEN Asked(s, [r EXCEPT !.step = "block"]) /\ UNCHANGED held
       ELSE Asked(s, None) /\ held' = [held EXCEPT ![s] = @ \cup {r.first}]
    /\ Unasked /\ UNCHANGED <<block, sent, cbCalls>>

\* A driver takes a chain apart and puts another together.
Link(s, b, c) ==
    /\ Called /\ b # c /\ block[b].chain = None /\ block[c].chain = None
    /\ block[b].known = None /\ block[c].known = None
    /\ props[block[b].cb[1]][block[b].cb[2]].group = props[block[c].cb[1]][block[c].cb[2]].group
    /\ block' = [block EXCEPT ![b].chain = c]
    /\ held' = [held EXCEPT ![s] = @ \ {c}]
    /\ Unasked /\ UNCHANGED <<sent, request>>
Unlink(s, b) ==
    /\ Called /\ block[b].chain # None
    /\ block' = [block EXCEPT ![b].chain = None]
    /\ held' = [held EXCEPT ![s] = @ \cup {block[b].chain}]
    /\ Unasked /\ UNCHANGED <<sent, request>>

Freed(b) == [DropOld(block, b) EXCEPT ![b] = Free]
udi_cb_free(s, b) ==
    /\ Called /\ block[b].chain = None
    /\ block' = Freed(b)
    /\ held' = [held EXCEPT ![s] = @ \ {b}]
    /\ Unasked /\ UNCHANGED <<sent, request>>

\* At a closed end the first block of a chain is freed; the rest is lost.
udi_mei_call(s, b, k) ==
    LET t == Other(s)
        known == [block EXCEPT ![b] = Abortable(@, b, k, t)]
        in == Enter(known, b, None, k, t) IN
    /\ Called /\ Can(b, k, t)
    /\ IF ~open[t]
       THEN /\ block' = Freed(b) /\ lost' = lost \cup (Linked(b) \ {b})
            /\ held' = [held EXCEPT ![s] = @ \ {b}]
            /\ UNCHANGED <<sent, cbWild>>
       ELSE /\ block' = in.mem
            /\ cbWild' = Twice(b, k, t)
            /\ \/ /\ sent[t] = <<>>
                  /\ held' = [held EXCEPT ![s] = @ \ {b}, ![t] = @ \cup {in.first}]
                  /\ UNCHANGED sent
               \/ /\ sent' = [sent EXCEPT ![t] = Append(@, in.first)]
                  /\ held' = [held EXCEPT ![s] = @ \ {b}]
            /\ UNCHANGED lost
    /\ UNCHANGED <<props, open, request>>
_udi_run_next_on_region_queue(t) ==
    /\ ~cbWild /\ sent[t] # <<>>
    /\ block' = KeepOld(block, Head(sent[t]))
    /\ held' = [held EXCEPT ![t] = @ \cup {Head(sent[t])}]
    /\ sent' = [sent EXCEPT ![t] = Tail(@)]
    /\ Unasked /\ UNCHANGED <<request, cbCalls>>
udi_channel_close(s) == /\ Called /\ open[s]
                        /\ open' = [open EXCEPT ![s] = FALSE]
                        /\ UNCHANGED <<props, block, held, sent, request, lost, cbWild>>

Next == \E s \in Side :
          \/ \E i \in DOMAIN props[s] :
                \/ udi_cb_alloc(s, i)
                \/ \E n \in 1 .. 2, buf \in BOOLEAN : udi_cb_alloc_batch(s, i, n, buf)
          \/ Complete(s) \/ _udi_cb_alloc_batch2(s) \/ _udi_cb_alloc_batch4(s)
          \/ _udi_cb_alloc_batch5(s)
          \/ \E b \in held[s] : \/ \E c \in held[s] : Link(s, b, c)
                                \/ Unlink(s, b) \/ udi_cb_free(s, b)
                                \/ \E k \in DOMAIN Ops[Other(s)] : udi_mei_call(s, b, k)
          \/ _udi_run_next_on_region_queue(s) \/ udi_channel_close(s)
Spec == Init /\ [][Next]_vars
------------------------------------------------------------------------------
\* Heads of chains: held by a driver, under way, or of a batch in the making.
Heads == UNION {held[s] \cup Range(sent[s]) : s \in Side}
         \cup {request[s].first : s \in {t \in Side : request[t] # None /\ request[t].kind = "batch"}}
InUse == UNION {Linked(b) : b \in Heads \ {None}}

\* Until memory goes that is still known, no block is freed twice or forgotten: those
\* in use, the old memory of operations that can be aborted and what a closed end lost
\* are all there is, each in one place.
NoneForgotten ==
    LET in == InUse
        old == {block[b].old : b \in {c \in in : block[c].old # None}} IN
    /\ \A b \in in \cup old : Live(b)
    /\ {b \in Block : Live(b)} = in \cup old \cup UNION {Linked(b) : b \in lost} \cup
                                 {block[b].old : b \in {c \in lost : block[c].old # None}}
    /\ in \cap old = {}
\* What a block holds follows it as it grows: its inline data are where its pointer
\* says, its scratch is behind them, large enough for the parameters on their way and
\* for what the driver it entered asked for.
HoldsItsData ==
    \A b \in InUse :
        LET r == block[b]
            inline == props[r.cb[1]][r.cb[2]].inline IN
        /\ r.inline[1] = b /\ r.new = b
        /\ \A n \in 1 .. inline : r.text[r.inline[2] + n] = "inline"
        /\ r.inline[2] + inline + r.scratch = r.size /\ Len(r.text) = r.size
        /\ r.entered # None =>
              LET s == r.entered[1]  k == r.entered[2] IN
              /\ r.scratch >= Op(s, k).marshal
              /\ \A i \in Chosen(s, k) :
                    r.scratch >= props[s][i].scratch
\* An operation that can be aborted is found from the block its sender knows.
FoundByItsSender == \A b \in InUse : block[b].known # None =>
                        Live(block[b].known) /\ block[block[b].known].new = b
\* A batch in the making has the blocks it counted, and a buffer in each that is done.
BatchCounts ==
    \A s \in Side : request[s] # None /\ request[s].kind = "batch" =>
        LET r == request[s]
            made == Chain(block, r.first) IN
        /\ Len(made) + r.count = r.wanted
        /\ \A n \in DOMAIN made : block[made[n]].bufs =
              IF r.buf /\ (n < Len(made) \/ r.step \in {"next", "block"}) THEN 1 ELSE 0
ControlBlocksAreSound ==
    ~cbWild => NoneForgotten /\ HoldsItsData /\ FoundByItsSender /\ BatchCounts
=============================================================================
