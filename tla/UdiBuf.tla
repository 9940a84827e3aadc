------------------------------- MODULE UdiBuf -------------------------------
(* Buffers of the UDI environment (udi/common/udi_buf.c): a list of segments
   over reference-counted memory blocks, with a size the driver sees and a
   smaller amount that memory stands behind.  A segment is its bytes, the block
   they are in, and the container it came in: C1 (a segment alone), C2 (with
   its block), C3 (with the header).  "wild" is set where the code follows a
   null pointer or leaves a segment; what happens then is not modelled.        *)
EXTENDS Integers, SequencesExt

CONSTANTS Buf, MaxCalls, MaxSize,
          Payloads,         \* numbers of bytes a call may bring
          Tags              \* tags a driver may set: [type, off, len, value]

Fill == 202                 \* _UDI_BF_CHAR
Junk == 255                 \* a byte of new memory nobody has written
Unset == -1                  \* in text: a byte the driver has not given
NoBuf == [none |-> TRUE]
Idle  == [op |-> "idle"]

VARIABLES bufs,             \* [Buf -> a buffer or NoBuf]
          blocks,           \* block -> [refs, external]
          asked,            \* the request waiting for the allocation daemon
          wild,
          text, plain,      \* what the driver put in; FALSE: Mishandled since
          calls

vars == <<bufs, blocks, asked, wild, text, plain, calls>>

Flat(segs) == FlattenSeq([i \in DOMAIN segs |-> segs[i].data])
Before(segs, i) == Len(Flat(SubSeq(segs, 1, i - 1)))
Size(s) == Len(s.data)
FirstIn(S, else) == IF S = {} THEN else ELSE Min(S)
Repeat(c, n) == [i \in 1 .. n |-> c]
Fresh == Min(1 .. Cardinality(DOMAIN blocks) + 1 \ DOMAIN blocks)

\* The loops that look for a position: the segment that reaches it, the one
\* that goes past it, and the first that starts at or after it (Len + 1: none).
Reaching(segs, off) ==
    FirstIn({i \in DOMAIN segs : Before(segs, i + 1) >= off}, Len(segs) + 1)
Passing(segs, off) ==
    FirstIn({i \in DOMAIN segs : Before(segs, i + 1) > off}, Len(segs) + 1)
Starting(segs, off) ==
    FirstIn({i \in 1 .. Len(segs) + 1 : Before(segs, i) >= off}, Len(segs) + 1)

-----------------------------------------------------------------------------
(* How much memory a request needs, and the sizes it leaves: plan.cont, the
   containers; plan.mem, the bytes; plan.phy and plan.vir, the two sizes.      *)
Plan(cont, mem, phy, vir, dlen) ==
    [cont |-> cont, mem |-> mem, phy |-> Min({phy, vir}), vir |-> vir, dlen |-> dlen]

PlanInit(q) == LET mem == IF q.src = "null" THEN 0 ELSE q.slen
               IN  Plan({"C3"}, mem, mem, q.slen, 0)

PlanDelete(b, q) ==
    LET i == Reaching(b.segs, q.off)
        into == q.off - Before(b.segs, i)
        middle == i <= Len(b.segs) /\ into # 0 /\ Size(b.segs[i]) > into + q.dlen
        vir == b.size - q.dlen
        phy == IF b.size = b.tot THEN vir
               ELSE IF b.tot >= q.off + q.dlen THEN b.tot - q.dlen
               ELSE IF b.tot > q.off THEN b.tot - q.off
               ELSE b.tot
    IN  Plan(IF middle THEN {"C1"} ELSE {}, 0, phy, vir, q.dlen)

\* New memory for q.slen bytes at q.off of which "over" lie on old ones.
PlanInsert(b, q) ==
    LET i == Starting(b.segs, q.off)
        at == Before(b.segs, i)
        beyond == at < q.off \/ (at = 0 /\ b.size = 0 /\ at # q.off)
        mem == IF beyond THEN q.off + q.slen - at ELSE q.slen
    IN  Plan(IF at = q.off \/ beyond THEN {"C2"} ELSE {"C1", "C2"},
             mem, b.tot + mem, b.size + q.slen, 0)

PlanReplace(b, q) ==
    LET dlen == IF q.off + q.dlen > b.tot THEN Max({b.tot - q.off, 0}) ELSE q.dlen
        i == Starting(b.segs, q.off)
        at == Before(b.segs, i)
        grow == CASE at = q.off /\ i > Len(b.segs) -> q.slen
                  [] at < q.off -> q.off + q.slen - at
                  [] OTHER -> q.slen - dlen
        \* the loop that looks for the segment does not add up what it passed
        j == FirstIn({k \in DOMAIN b.segs : Size(b.segs[k]) >= q.off}, Len(b.segs) + 1)
        middle == /\ j <= Len(b.segs) /\ q.off # 0
                  /\ Size(b.segs[j]) < q.off + dlen - q.slen
    IN  CASE q.slen > dlen ->
               Plan(IF at > q.off THEN {"C1", "C2"} ELSE {"C2"}, grow,
                    b.tot + grow, Max({b.size, q.off + q.slen}), dlen)
          [] q.slen < dlen ->
               Plan(IF middle THEN {"C1"} ELSE {}, 0, b.tot, b.size - dlen + q.slen, dlen)
          [] OTHER -> Plan({}, 0, b.tot, b.size, dlen)

PlanOf(q) == LET b == bufs[q.dst] IN
             CASE b = NoBuf -> PlanInit(q)
               [] q.src = "null" -> PlanDelete(b, q)
               [] q.dlen # 0 -> PlanReplace(b, q)
               [] OTHER -> PlanInsert(b, q)
-----------------------------------------------------------------------------
(* Moving bytes.                                                               *)
\* _udi_buf_copy_buf: n bytes for the destination dst from its position (di, do),
\* out of src from (si, so).  When a piece ends both segments, the source stays
\* where it was; past the end of the source it is the backfill character.
RECURSIVE Pour(_, _, _, _, _, _, _)
Pour(dst, di, do, src, si, so, n) ==
    CASE n = 0 -> <<>>
      [] n > 0 /\ si > Len(src) -> Repeat(Fill, n)
      [] n > 0 /\ si <= Len(src) /\ Size(dst[di]) = 0 ->
           Pour(dst, di + 1, do, src, si, so, n)
      [] n > 0 /\ si <= Len(src) /\ Size(dst[di]) # 0 /\ Size(src[si]) = 0 ->
           Pour(dst, di, do, src, si + 1, so, n)
      [] OTHER ->
           LET srem == Min({Size(src[si]) - so, n})
               drem == Min({Size(dst[di]) - do, n})
               piece == SubSeq(src[si].data, so + 1, so + Min({srem, drem}))
           IN  piece \o
               CASE srem > drem -> Pour(dst, di + 1, 0, src, si, so + drem, n - drem)
                 [] srem < drem -> Pour(dst, di, do + srem, src, si + 1, 0, n - srem)
                 [] OTHER -> IF n = srem THEN <<>>
                             ELSE Pour(dst, di + 1, 0, src, si, so, n - srem)

Poured(dst, off, src, soff, n) ==
    LET di == Passing(dst, off)
        si == Passing(src, soff)
    IN  Pour(dst, di, off - Before(dst, di), src, si, soff - Before(src, si), n)

\* _udi_mem_overwrite_buf, and where the copy above puts its bytes.
Overwritten(segs, off, new) ==
    [i \in DOMAIN segs |->
       LET at == Before(segs, i) IN
       [segs[i] EXCEPT !.data =
          [k \in DOMAIN @ |-> IF at + k \in off + 1 .. off + Len(new)
                              THEN new[at + k - off] ELSE @[k]]]]

\* A slip of the deletion: the bytes cut from the first segment are not counted.
WithoutSlip(segs, off, n) ==
    LET i == Reaching(segs, off)
        keep == off - Before(segs, i)
        rest == IF keep = 0 THEN i ELSE i + 1
        Drop(k) == Max({n - (Before(segs, k) - Before(segs, rest)), 0})
    IN  [k \in DOMAIN segs |->
           [segs[k] EXCEPT !.data =
              IF k < i THEN @
              ELSE IF k < rest THEN SubSeq(@, 1, keep)
              ELSE SubSeq(@, Drop(k) + 1, Len(@))]]

\* The loop of both deletions: n bytes from q.off on, except that a segment that
\* is cut keeps nothing behind the cut, and a count below zero never ends.
Without(segs, off, n) ==
    LET i == Reaching(segs, off)
        keep == off - Before(segs, i)
        left == IF keep = 0 THEN n ELSE n - (Size(segs[i]) - keep)
        rest == IF keep = 0 THEN i ELSE i + 1
        Drop(k) == IF left < 0 THEN Size(segs[k])
                   ELSE Max({left - (Before(segs, k) - Before(segs, rest)), 0})
    IN  [k \in DOMAIN segs |->
           [segs[k] EXCEPT !.data =
              IF k < i THEN @
              ELSE IF k < rest THEN SubSeq(@, 1, keep)
              ELSE SubSeq(@, Drop(k) + 1, Len(@))]]

\* A segment cut in two, the second part in a container of its own (C1).
Split(segs, i, first, second) ==
    SubSeq(segs, 1, i - 1)
    \o <<[segs[i] EXCEPT !.data = first], [segs[i] EXCEPT !.data = second, !.kind = "C1"]>>
    \o SubSeq(segs, i + 1, Len(segs))
-----------------------------------------------------------------------------
(* _udi_buf_wrcp_complete: the request with its memory.  Each operator yields
   the buffer's segments, the blocks and whether the code went astray.         *)
Outcome(segs, bl, bad) == [segs |-> segs, blocks |-> bl, wild |-> bad]
NewBlock(ext) == Fresh :> [refs |-> 1, external |-> ext]
NewSegment(data, kind) == [data |-> data, block |-> Fresh, kind |-> kind]
Held(bl, i) == [bl EXCEPT ![i].refs = @ + 1]

\* The new segment goes in front of the one at the position, between the two
\* parts of the one around it, or to the end.
Placed(segs, q, p) ==
    LET i == Passing(segs, q.off)
        into == q.off - Before(segs, i)
        new == NewSegment(Repeat(Junk, p.mem), "C2")
        bl == blocks @@ NewBlock(FALSE)
    IN  IF "C1" \in p.cont
        THEN LET cut == Split(segs, i, SubSeq(segs[i].data, 1, into),
                              SubSeq(segs[i].data, into + 1, Size(segs[i])))
             IN  Outcome(InsertAt(cut, i + 1, new), Held(bl, segs[i].block), FALSE)
        ELSE Outcome(InsertAt(segs, i, new), bl, i <= Len(segs) /\ into # 0)

Source(q, segs) == IF q.op = "write" THEN q.data
                   ELSE Poured(segs, q.off, bufs[q.from].segs, q.soff, q.slen)
\* A copy looks for its first source byte in the segments, without an end.
SourceMissing(q) == /\ q.op = "copy"
                    /\ Passing(bufs[q.from].segs, q.soff) > Len(bufs[q.from].segs)

Stored(o, q) ==
    IF o.wild \/ SourceMissing(q) \/ Len(Flat(o.segs)) < q.off + q.slen
    THEN [o EXCEPT !.wild = TRUE]
    ELSE [o EXCEPT !.segs = Overwritten(@, q.off, Source(q, @))]

CompleteInit(q, p) ==
    LET room == <<NewSegment(Repeat(Junk, p.mem), "C3")>> IN
    IF p.mem = 0 THEN Outcome(room, blocks @@ NewBlock(FALSE), FALSE)
    ELSE Stored(Outcome(room, blocks @@ NewBlock(FALSE), FALSE), q)

CompleteDelete(q, p) ==
    LET segs == bufs[q.dst].segs
        i == Reaching(segs, q.off)
        into == q.off - Before(segs, i)
    IN  IF "C1" \in p.cont
        THEN Outcome(Split(segs, i, SubSeq(segs[i].data, 1, into),
                           SubSeq(segs[i].data, into + q.dlen + 1, Size(segs[i]))),
                     Held(blocks, segs[i].block), FALSE)
        ELSE IF i > Len(segs) THEN Outcome(segs, blocks, FALSE)
        ELSE Outcome(Without(segs, q.off, q.dlen), blocks, FALSE)

\* Replacing by fewer bytes: the count taken out is p.dlen, all of them, and the
\* cut of a segment's middle loses the byte before it.
CompleteShrink(q, p) ==
    LET segs == bufs[q.dst].segs
        i == Reaching(segs, q.off)
        to == q.off + p.dlen - q.slen - Before(segs, i)
    IN  IF "C1" \in p.cont
        THEN IF i > Len(segs) \/ to > Size(segs[i]) \/ to < 1
             THEN Outcome(segs, blocks, TRUE)
             ELSE Stored(Outcome(Split(segs, i, SubSeq(segs[i].data, 1, to - 1),
                                       SubSeq(segs[i].data, to + 1, Size(segs[i]))),
                                 Held(blocks, segs[i].block), FALSE), q)
        ELSE Stored(Outcome(Without(segs, q.off, p.dlen), blocks, FALSE), q)

Completed(q, p) ==
    LET b == bufs[q.dst] IN
    CASE b = NoBuf -> CompleteInit(q, p)
      [] q.src = "null" -> CompleteDelete(q, p)
      [] p.mem # 0 -> Stored(Placed(b.segs, q, p), q)
      [] q.slen < p.dlen -> CompleteShrink(q, p)
      [] OTHER -> Stored(Outcome(b.segs, blocks, FALSE), q)

\* Tags whose bytes are gone go too; the code unlinks through the last tag it
\* kept, so a first tag that must go is unlinked through a null pointer.
TagFits(t, size) == /\ t.type = "set" => t.value + 2 <= size
                    /\ t.type # "driver" => t.off + t.len <= size
TagsLost(tags, size) == tags # <<>> /\ ~TagFits(tags[1], size)
TagsLeft(tags, size) == SelectSeq(tags, LAMBDA t : TagFits(t, size))

Settled(q, p, o) ==
    LET old == bufs[q.dst]
        tags == IF old = NoBuf THEN <<>> ELSE old.tags
        shrunk == old # NoBuf /\ old.size > p.vir
    IN  /\ wild' = (o.wild \/ (shrunk /\ TagsLost(tags, p.vir)))
        /\ bufs' = [bufs EXCEPT ![q.dst] =
             [size |-> p.vir, tot |-> p.phy, segs |-> o.segs,
              tags |-> IF shrunk THEN TagsLeft(tags, p.vir) ELSE tags]]
        /\ blocks' = o.blocks
-----------------------------------------------------------------------------
(* The calls.  text is what the driver is entitled to read.                    *)
Given(q) == CASE q.op = "write" -> IF q.src = "null" THEN Repeat(Unset, q.slen) ELSE q.data
              [] OTHER -> SubSeq(text[q.from], q.soff + 1, q.soff + q.slen)

Meant(q) == SubSeq(text[q.dst], 1, q.off) \o Given(q)
            \o SubSeq(text[q.dst], q.off + q.dlen + 1, Len(text[q.dst]))

\* The requests the code gets wrong: a stretch replaced by one of another length,
\* a deletion across the end of the memory, a copy out of bytes without memory or
\* over more than one segment, any request on a buffer spoilt before.
Mishandled(q) ==
    LET b == bufs[q.dst] IN
    \/ q.op = "copy" /\ (SourceMissing(q) \/ ~plain[q.from])
    \/ /\ b # NoBuf
       /\ \/ ~plain[q.dst]
          \/ q.src # "null" /\ q.dlen # 0 /\ q.dlen # q.slen
          \/ q.src = "null" /\ b.tot # b.size /\ q.off < b.tot /\ b.tot < q.off + q.dlen
          \/ q.op = "copy" /\ q.dlen # 0 /\ Len(b.segs) > 1

Busy(b) == asked # Idle /\ (b = asked.q.dst \/ (asked.q.op = "copy" /\ b = asked.q.from))

Finish(q, p) == /\ Settled(q, p, Completed(q, p))
                /\ text' = [text EXCEPT ![q.dst] = IF Mishandled(q) THEN <<>> ELSE Meant(q)]
                /\ plain' = [plain EXCEPT ![q.dst] = ~Mishandled(q)]

\* The memory is there at once, or the request waits for the daemon.
Request(q) ==
    /\ calls < MaxCalls /\ ~wild /\ ~Busy(q.dst)
    /\ calls' = calls + 1
    /\ \/ asked' = asked /\ Finish(q, PlanOf(q))
       \/ /\ asked = Idle /\ (PlanOf(q).cont # {} \/ PlanOf(q).mem # 0)
          /\ asked' = [op |-> "wrcp", q |-> q, p |-> PlanOf(q)]
          /\ UNCHANGED <<bufs, blocks, wild, text, plain>>

Letters(n) == [i \in 1 .. n |-> 10 * (calls + 1) + i]

udi_buf_write ==
    \E b \in Buf, src \in {"null", "mem"}, slen \in Payloads, off, dlen \in 0 .. MaxSize :
       LET size == IF bufs[b] = NoBuf THEN 0 ELSE bufs[b].size IN
       /\ off <= size /\ off + dlen <= size /\ size - dlen + slen <= MaxSize
       /\ src = "mem" => slen > 0
       /\ bufs[b] # NoBuf => (src = "null" <=> slen = 0) /\ slen + dlen > 0
       /\ Request([op |-> "write", dst |-> b, off |-> off, dlen |-> dlen, slen |-> slen,
                   src |-> src, data |-> Letters(slen)])

udi_buf_copy ==
    \E b, from \in Buf, slen \in Payloads \ {0}, soff, off, dlen \in 0 .. MaxSize :
       LET size == IF bufs[b] = NoBuf THEN 0 ELSE bufs[b].size IN
       /\ from # b /\ bufs[from] # NoBuf /\ ~Busy(from)
       /\ soff + slen <= bufs[from].size
       /\ off <= size /\ off + dlen <= size /\ size - dlen + slen <= MaxSize
       /\ Request([op |-> "copy", dst |-> b, off |-> off, dlen |-> dlen, slen |-> slen,
                   src |-> "buf", from |-> from, soff |-> soff])

\* The daemon has the memory, or the driver cancels the request before.
Grant == /\ asked # Idle /\ asked.op = "wrcp" /\ ~wild
         /\ Finish(asked.q, asked.p)
         /\ asked' = Idle
         /\ UNCHANGED calls

Cancel == /\ asked # Idle
          /\ asked' = Idle
          /\ UNCHANGED <<bufs, blocks, wild, text, plain, calls>>

Known(b) == bufs[b] # NoBuf /\ ~Busy(b)
Call == calls < MaxCalls /\ ~wild /\ calls' = calls + 1

\* A block goes with the last segment that holds it.
Released(bl, segs) ==
    LET Holders(i) == Cardinality({k \in DOMAIN segs : segs[k].block = i})
        left == [i \in DOMAIN bl |-> [bl[i] EXCEPT !.refs = @ - Holders(i)]]
    IN  [i \in {j \in DOMAIN left : left[j].refs > 0} |-> left[i]]

udi_buf_free ==
    \E b \in Buf :
       /\ Call /\ Known(b)
       /\ blocks' = Released(blocks, bufs[b].segs)
       /\ bufs' = [bufs EXCEPT ![b] = NoBuf]
       /\ text' = [text EXCEPT ![b] = <<>>]
       /\ plain' = [plain EXCEPT ![b] = TRUE]
       /\ UNCHANGED <<asked, wild>>

\* What udi_buf_read puts into n bytes of the caller's memory.
Reading(b, off, n) ==
    LET mem == Flat(b.segs)
        own == IF b.tot > off THEN SubSeq(mem, off + 1, Min({off + n, Len(mem)})) ELSE <<>>
        ext == Min({Max({b.size - b.tot, 0}), n - Len(own)})
    IN  own \o Repeat(Fill, ext) \o Repeat(Junk, n - Len(own) - ext)

\* Memory of somebody else's made a buffer, or added to the end of one.
Attach(b, data, kind) ==
    LET seg == NewSegment(data, kind)
        old == bufs[b]
    IN  /\ blocks' = blocks @@ NewBlock(TRUE)
        /\ bufs' = [bufs EXCEPT ![b] =
             IF kind = "C3"
             THEN [size |-> Len(data), tot |-> Len(data), segs |-> <<seg>>, tags |-> <<>>]
             ELSE [@ EXCEPT !.size = @ + Len(data), !.tot = @ + Len(data),
                            !.segs = Append(@, seg)]]
        /\ text' = [text EXCEPT ![b] = @ \o data]
        /\ plain' = [plain EXCEPT ![b] = @ /\ (old = NoBuf \/ old.size = Len(Flat(old.segs)))]
        /\ UNCHANGED <<asked, wild>>

_udi_buf_extern_init == \E b \in Buf, n \in Payloads \ {0} :
    /\ Call /\ bufs[b] = NoBuf /\ ~Busy(b)
    /\ Attach(b, Letters(n), "C3")

_udi_buf_extern_add == \E b \in Buf, n \in Payloads \ {0} :
    /\ Call /\ Known(b) /\ bufs[b].size + n <= MaxSize
    /\ Attach(b, Letters(n), "C2")

\* The PIO code's one-segment copy of a buffer, which takes the place of the old
\* one; the new header keeps the old tags, which go with the old buffer.
NeedsCompacting(b) == b.size # 0 /\ (b.size # b.tot \/ Len(b.segs) > 1)

_udi_buf_compact ==
    \E b \in Buf :
       /\ Call /\ Known(b) /\ NeedsCompacting(bufs[b])
       /\ LET old == bufs[b]
              mem == Flat(old.segs)
              data == SubSeq(mem, 1, Min({old.size, Len(mem)}))
                      \o Repeat(Fill, Max({old.size - Len(mem), 0}))
          IN  /\ bufs' = [bufs EXCEPT ![b] =
                    [@ EXCEPT !.tot = old.size, !.segs = <<NewSegment(data, "C3")>>]]
              /\ blocks' = Released(blocks, old.segs) @@ NewBlock(FALSE)
              /\ wild' = (old.tags # <<>>)
       /\ UNCHANGED <<asked, text, plain>>

\* Memory filled by DMA becomes the buffer's, or is copied into external memory
\* that is large enough; the old segments are freed with the first one's block
\* held, so that the header, which the last segment of kind C3 keeps, stays.
_udi_buf_write_sync ==
    \E b \in Buf, n \in Payloads \ {0} :
       LET old == bufs[b]
           segs == old.segs
           full == SelectSeq(segs, LAMBDA x : x.data # <<>>)
           header == {i \in DOMAIN segs : segs[i].kind = "C3"}
           keep == segs[1].block
           mine == IF header = {} THEN 0 ELSE segs[Min(header)].block
           data == Letters(n)
       IN
       /\ Call /\ Known(b) /\ segs # <<>>
       /\ IF n <= old.tot /\ full # <<>> /\ blocks[full[1].block].external
          THEN /\ bufs' = [bufs EXCEPT ![b].size = n, ![b].segs = Overwritten(segs, 0, data)]
               /\ UNCHANGED blocks
               /\ wild' = (Len(Flat(segs)) < n)
               /\ UNCHANGED plain
          ELSE /\ bufs' = [bufs EXCEPT ![b] =
                     [size |-> n, tot |-> n, tags |-> <<>>,
                      segs |-> <<[data |-> data, block |-> mine, kind |-> "C3"]>>]]
               /\ blocks' = mine :> [refs |-> 1, external |-> TRUE] @@ Released(blocks, segs)
               /\ wild' = (keep # mine)
               /\ plain' = [plain EXCEPT ![b] = TRUE]
       /\ text' = [text EXCEPT ![b] = data]
       /\ UNCHANGED asked
-----------------------------------------------------------------------------
(* Tags.  A tag set for a type, offset and length that is there replaces its
   value; the search for the second tag of a call goes on where the first ended. *)
Same(t, u) == t.type = u.type /\ t.off = u.off /\ t.len = u.len
Match(tags, cur, t) == {k \in cur .. Len(tags) : Same(tags[k], t)}
SetOne(acc, t) ==
    LET hit == Match(acc.tags, acc.cur, t) IN
    IF hit # {} THEN [tags |-> [acc.tags EXCEPT ![Min(hit)].value = t.value], cur |-> Min(hit)]
    ELSE [tags |-> <<t>> \o acc.tags, cur |-> Len(acc.tags) + 2]
SetAfresh(acc, t) == SetOne([acc EXCEPT !.cur = 1], t)
TagLegal(t, size) == /\ t.off + t.len <= size
                     /\ t.type = "set" => t.value < size

udi_buf_tag_set ==
    \E b \in Buf, ts \in SeqOf(Tags, 2) \ {<<>>} :
       /\ Call /\ Known(b)
       /\ \A i \in DOMAIN ts : TagLegal(ts[i], bufs[b].size)
       /\ \E got \in 0 .. Len(ts) :
            LET done == FoldLeft(SetOne, [tags |-> bufs[b].tags, cur |-> 1], SubSeq(ts, 1, got))
            IN  /\ bufs' = [bufs EXCEPT ![b].tags = done.tags]
                /\ IF got = Len(ts) THEN asked' = asked
                   ELSE /\ asked = Idle /\ Match(done.tags, done.cur, ts[got + 1]) = {}
                        /\ asked' = [op |-> "tags", q |-> [op |-> "tags", dst |-> b],
                                     rest |-> SubSeq(ts, got + 1, Len(ts))]
       /\ UNCHANGED <<blocks, wild, text, plain>>

\* The daemon's part: the first tag has its memory, the others look from the top.
GrantTags ==
    /\ asked # Idle /\ asked.op = "tags" /\ ~wild
    /\ LET b == asked.q.dst IN
       bufs' = [bufs EXCEPT ![b].tags =
                  FoldLeft(SetAfresh, [tags |-> <<asked.rest[1]>> \o @, cur |-> 1],
                           Tail(asked.rest)).tags]
    /\ asked' = Idle
    /\ UNCHANGED <<blocks, wild, text, plain, calls>>

\* udi_buf_tag_get: how many tags of the types, and those from start on that
\* the caller has room for.
TagGet(b, types, room, start) ==
    LET all == SelectSeq(b.tags, LAMBDA t : t.type \in types)
    IN  [count |-> Len(all), tags |-> SubSeq(all, start + 1, Min({start + room, Len(all)}))]

\* The one's complement sum over the pieces of a range.  A byte left over opens
\* the next piece; a piece of one byte that completes it leaves it left over.
AddTo(sum, v) == IF sum + v > 65535 THEN sum + v - 65535 ELSE sum + v
SumPairs(sum, s) == FoldLeft(LAMBDA acc, k : AddTo(acc, 256 * s[2 * k - 1] + s[2 * k]),
                             sum, [k \in 1 .. Len(s) \div 2 |-> k])
_udi_tag_compute(acc, piece) ==
    LET s == acc.over \o piece IN
    IF Len(piece) = 1 /\ acc.over # <<>> THEN [acc EXCEPT !.sum = SumPairs(@, s)]
    ELSE [sum |-> SumPairs(acc.sum, s), over |-> IF Len(s) % 2 = 1 THEN <<Last(s)>> ELSE <<>>]

FirstPiece(b, off) == FirstIn({i \in DOMAIN b.segs : Size(b.segs[i]) # 0 \/ off = 0}, Len(b.segs) + 1)
\* The first segment with bytes is taken to hold the offset.
PiecesMissing(b, off) == \/ FirstPiece(b, off) > Len(b.segs)
                         \/ Size(b.segs[FirstPiece(b, off)]) < off
Pieces(b, off, n) ==
    LET i == FirstPiece(b, off)
        at == Before(b.segs, i)
        End(k) == Min({Before(b.segs, k + 1) - at, off + n})
        own == [k \in i .. Len(b.segs) |->
                  SubSeq(b.segs[k].data, IF k = i THEN off + 1 ELSE 1,
                         End(k) - (Before(b.segs, k) - at))]
        short == off + n - End(Len(b.segs))
        ext == Min({Max({b.size - b.tot, 0}), short})
    IN  [k \in 1 .. Len(b.segs) - i + 1 |-> own[k + i - 1]]
        \o (IF ext > 0 THEN <<Repeat(Fill, ext)>> ELSE <<>>)

_udi_buf_tag_compute(b, off, n) ==
    LET r == FoldLeft(_udi_tag_compute, [sum |-> 0, over |-> <<>>], Pieces(b, off, n))
    IN  65535 - (IF r.over = <<>> THEN r.sum ELSE AddTo(r.sum, 256 * r.over[1]))

\* udi_buf_tag_apply: memory for the sums that lie beyond the buffer's memory.
\* The completion always adds what it is given, so without need it adds through
\* a null pointer, and with memory at once it adds it again with a stale length.
Need(b) == Max({0} \cup {b.tags[i].value + 2 - b.tot :
                         i \in {k \in DOMAIN b.tags : b.tags[k].type = "set"}})

udi_buf_tag_apply ==
    \E b \in Buf :
       /\ Call /\ Known(b)
       /\ \/ wild' = TRUE /\ asked' = asked
          \/ /\ asked = Idle /\ Need(bufs[b]) > 0
             /\ asked' = [op |-> "apply", q |-> [op |-> "apply", dst |-> b],
                          need |-> Need(bufs[b])]
             /\ UNCHANGED wild
       /\ UNCHANGED <<bufs, blocks, text, plain>>

\* Each sum is stored, low byte first, at the tag's offset.
ApplyOne(acc, t) ==
    IF t.type # "set" \/ acc.wild THEN acc
    ELSE LET segs == acc.b.segs
             i == Min({Reaching(segs, t.off), Len(segs)})
             v == _udi_buf_tag_compute(acc.b, t.off, t.len)
         IN  IF PiecesMissing(acc.b, t.off) \/ Before(segs, i + 1) < t.off + 2
             THEN [acc EXCEPT !.wild = TRUE]
             ELSE [acc EXCEPT !.b.segs = Overwritten(@, t.off, <<v % 256, v \div 256>>)]

GrantApply ==
    /\ asked # Idle /\ asked.op = "apply" /\ ~wild
    /\ LET b == asked.q.dst
           grown == [bufs[b] EXCEPT !.segs = Append(@, NewSegment(Repeat(Junk, asked.need), "C2")),
                                    !.tot = @ + asked.need]
           done == FoldLeft(ApplyOne, [b |-> grown, wild |-> FALSE], grown.tags)
       IN  /\ bufs' = [bufs EXCEPT ![b] = done.b]
           /\ wild' = done.wild
           /\ plain' = [plain EXCEPT ![b] = FALSE]
    /\ blocks' = blocks @@ NewBlock(FALSE)
    /\ asked' = Idle
    /\ UNCHANGED <<text, calls>>

Init == /\ bufs = [b \in Buf |-> NoBuf]
        /\ blocks = <<>>
        /\ asked = Idle
        /\ wild = FALSE
        /\ text = [b \in Buf |-> <<>>]
        /\ plain = [b \in Buf |-> TRUE]
        /\ calls = 0

Next == \/ udi_buf_write \/ udi_buf_copy \/ udi_buf_free
        \/ _udi_buf_extern_init \/ _udi_buf_extern_add
        \/ _udi_buf_compact \/ _udi_buf_write_sync
        \/ udi_buf_tag_set \/ udi_buf_tag_apply
        \/ Grant \/ GrantTags \/ GrantApply \/ Cancel

Spec == Init /\ [][Next]_vars
-----------------------------------------------------------------------------
Live == {b \in Buf : bufs[b] # NoBuf}

\* While no request on it was Mishandled, a read of any stretch of a buffer gives
\* what the driver put there (udi_buf_read against every other call).
ReadsAreExact ==
    ~wild => \A b \in Live : plain[b] =>
      /\ bufs[b].size = Len(text[b])
      /\ \A off \in 0 .. bufs[b].size, n \in 1 .. MaxSize : off + n <= bufs[b].size =>
           \A k \in 1 .. n : \/ text[b][off + k] = Unset
                             \/ Reading(bufs[b], off, n)[k] = text[b][off + k]

\* A block is kept as long as segments lie in it: its count is theirs.
BlocksAreCounted ==
    ~wild => \A i \in DOMAIN blocks :
      blocks[i].refs = Cardinality({x \in Live \X (1 .. 2 * MaxCalls + 1) :
                         x[2] <= Len(bufs[x[1]].segs) /\ bufs[x[1]].segs[x[2]].block = i})

\* No tag speaks of bytes the buffer no longer has (a DMA transfer into external
\* memory leaves the memory, and the tags, when it makes the size smaller), and a
\* search in parts finds the tags a search at once finds.
TagsAreInside ==
    ~wild => \A b \in Live : plain[b] =>
      /\ \A t \in Range(bufs[b].tags) : t.type # "driver" => 
           t.off + t.len <= Max({bufs[b].size, Len(Flat(bufs[b].segs))})
      /\ LET all == TagGet(bufs[b], {"set"}, Len(bufs[b].tags), 0).tags IN
         \A n \in DOMAIN all : TagGet(bufs[b], {"set"}, 1, n - 1).tags = <<all[n]>>

\* The sum of a stretch that begins in the first segment is the sum of its bytes,
\* unless a later piece is one byte.
SumsAreExact ==
    ~wild => \A b \in Live : plain[b] =>
      \A off, n \in 1 .. MaxSize :
        (off + n <= bufs[b].size /\ ~PiecesMissing(bufs[b], off)) =>
          LET ps == Pieces(bufs[b], off, n)
              s == Reading(bufs[b], off, n)
          IN  (\A k \in 2 .. Len(ps) : Len(ps[k]) # 1) =>
                _udi_buf_tag_compute(bufs[b], off, n) =
                  65535 - SumPairs(0, IF n % 2 = 1 THEN Append(s, 0) ELSE s)

BuffersAreSound == ReadsAreExact /\ BlocksAreCounted /\ TagsAreInside /\ SumsAreExact
=============================================================================
