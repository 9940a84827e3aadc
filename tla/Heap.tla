------------------------------- MODULE Heap -------------------------------
(***************************************************************************)
(* The kernel's heap (malloc.c): chunks with boundary tags, fast bins,     *)
(* sorted bins, the top chunk, and memory in pages from MORECORE, which    *)
(* malloc.c takes to be noncontiguous.  A call is one step, since nothing  *)
(* else touches the state while one caller uses it.                        *)
(*                                                                         *)
(* Addresses and sizes are bytes, as in the code.  A chunk is its address; *)
(* head holds the size words that mean something (those of whole chunks    *)
(* and of fenceposts), foot the prev_size words behind free chunks: every  *)
(* other word belongs to a user, so reading it is an error of the model.   *)
(***************************************************************************)
EXTENDS Integers, SequencesExt

CONSTANTS Page,            \* malloc_getpagesize
          MinLarge,        \* MIN_LARGE_SIZE
          DefaultFast,     \* DEFAULT_MXFAST
          Threshold,       \* FASTBIN_CONSOLIDATION_THRESHOLD
          WordSize,        \* 2^32: sizes wrap here
          ZeroAnswers,     \* whether MORECORE(0) answers the end of the memory it gave, or -1
          Memory,          \* bound on the address space MORECORE gives
          Gaps,            \* bytes others may have taken since the last call
          Requests,        \* bytes asked of malloc and realloc
          Groups,          \* sequences of sizes asked of independent_comalloc
          Alignments,      \* alignments asked of memalign
          FastLimits,      \* values given to mallopt(M_MXFAST)
          MaxBlocks,       \* bound on blocks in use
          MaxCalls         \* bound on calls

ASSUME HeapAssumption ==
    /\ {Page, MinLarge, Threshold, WordSize, Memory} \subseteq Nat \ {0}
    /\ Page % 8 = 0 /\ MinLarge % 8 = 0 /\ DefaultFast \in Nat \ {0}
    /\ ZeroAnswers \subseteq BOOLEAN
    /\ Gaps \subseteq Nat /\ Requests \subseteq Nat /\ FastLimits \subseteq Nat
    /\ Alignments \subseteq Nat \ {0} /\ {MaxBlocks, MaxCalls} \subseteq Nat

VARIABLES heap,     \* the malloc_state and the tags in memory
          live,     \* history: the blocks users hold, with the bytes they asked for
          refused,  \* history: the last call was refused with memory to be had
          calls     \* calls made

vars == <<heap, live, refused, calls>>

Failure    == -1
Null       == 0          \* also initial_top, the dummy with size 0
SizeSz     == 4
Alignment  == 8
MinSize    == 16
RoundUp(n, unit) == ((n + unit - 1) \div unit) * unit
Chunk2Mem(p) == p + 2 * SizeSz
Mem2Chunk(m) == m - 2 * SizeSz

OutOfRange(req)   == req >= WordSize - 2 * MinSize
Request2Size(req) == IF req + SizeSz + Alignment - 1 < MinSize THEN MinSize
                     ELSE RoundUp(req + SizeSz, Alignment)

-----------------------------------------------------------------------------
(* Tags.                                                                   *)
Size(h, p)  == IF p = Null THEN 0 ELSE h.head[p].size
NextChunk(h, p)  == p + Size(h, p)
InUse(h, p) == h.head[NextChunk(h, p)].pinuse
SetHead(h, p, s, b)  == [h EXCEPT !.head = (p :> [size |-> s, pinuse |-> b]) @@ @]
SetHeadSize(h, p, s) == SetHead(h, p, s, h.head[p].pinuse)
SetInUse(h, p)       == [h EXCEPT !.head[p].pinuse = TRUE]
SetFoot(h, p, s)     == [h EXCEPT !.foot = (p + s :> s) @@ @]

\* The words of what is now inside a chunk or a user's block say nothing more.
ForgetHead(h, p) == [h EXCEPT !.head = Restrict(@, DOMAIN @ \ {p})]
ForgetFoot(h, p) == [h EXCEPT !.foot = Restrict(@, DOMAIN @ \ {p})]

(* Bins.  A list is the sequence from first to last; bin 1 is unsorted.     *)
NSmallBins == MinLarge \div Alignment
Small(s)   == s < MinLarge
Log2(x)    == CHOOSE m \in 0..x : 2^m <= x /\ x < 2^(m + 1)
LargeBinIndex(s) == LET m == Log2(s \div MinLarge)
                    IN NSmallBins + 4 * m + (((4 * s) \div (MinLarge * 2^m)) % 4)
BinIndex(s)  == IF Small(s) THEN s \div Alignment ELSE LargeBinIndex(s)
FastIndex(s) == (s \div 8) - 2
NBins        == LargeBinIndex(Memory)
Unlink(h, p) == [h EXCEPT !.bins = [i \in DOMAIN @ |-> SelectSeq(@[i], LAMBDA q : q # p)]]
PushUnsorted(h, p) == [h EXCEPT !.bins[1] = <<p>> \o @]

(* malloc_init_state, and the zeroed static before it.                      *)
Zeroed == [head |-> <<>>, foot |-> <<>>, fast |-> [i \in 0..FastIndex(Request2Size(80)) |-> <<>>],
           bins |-> [i \in 1..NBins |-> <<>>], binmap |-> {}, top |-> Null,
           last_remainder |-> Null, anychunks |-> FALSE, fastchunks |-> FALSE,
           max_fast |-> 0, sbrked_mem |-> 0, wild |-> FALSE,
           brk |-> Page, owned |-> {}, zero_answers |-> TRUE]
SetMaxFast(h, s) == [h EXCEPT !.max_fast = IF s = 0 THEN Alignment ELSE Request2Size(s)]
InitState(h)     == SetMaxFast(h, DefaultFast)

-----------------------------------------------------------------------------
(* free: a chunk becomes one with its free neighbours, or with top.         *)
MergeBack(h, p) ==
    IF h.head[p].pinuse THEN [h |-> h, p |-> p, size |-> Size(h, p)]
    ELSE LET q == p - h.foot[p]
         IN [h |-> ForgetFoot(ForgetHead(Unlink(h, q), p), p),
             p |-> q, size |-> Size(h, p) + h.foot[p]]

\* Slip: only top is joined, never a free chunk behind.
MergeTopOnly(m, next) ==
    IF next = m.h.top
    THEN [size |-> m.size + Size(m.h, next),
          h |-> [SetHead(ForgetHead(m.h, next), m.p, m.size + Size(m.h, next), TRUE) EXCEPT !.top = m.p]]
    ELSE [size |-> m.size,
          h |-> PushUnsorted(SetFoot(SetHead(SetHead(m.h, next, Size(m.h, next), FALSE),
                                             m.p, m.size, TRUE), m.p, m.size), m.p)]

\* The result holds the size too, which free compares with the threshold.
MergeForward(m, next) ==
    LET all == m.size + Size(m.h, next)
    IN IF next = m.h.top
       THEN [size |-> all,
             h |-> [SetHead(ForgetHead(m.h, next), m.p, all, TRUE) EXCEPT !.top = m.p]]
       ELSE IF InUse(m.h, next)
       THEN [size |-> m.size,
             h |-> PushUnsorted(SetFoot(SetHead(SetHead(m.h, next, Size(m.h, next), FALSE),
                                                m.p, m.size, TRUE), m.p, m.size), m.p)]
       ELSE [size |-> all,
             h |-> PushUnsorted(SetFoot(SetHead(ForgetHead(Unlink(m.h, next), next),
                                                m.p, all, TRUE), m.p, all), m.p)]
Coalesce(h, p) == MergeForward(MergeBack(h, p), NextChunk(h, p))

\* Every chunk of every fast bin up to max_fast.  With max_fast at 8 the last
\* index is -1, and the loop, which stops at equality, runs out of the array.
Consolidate(h) ==
    IF h.max_fast = 0 THEN InitState(h)
    ELSE LET last  == FastIndex(h.max_fast)
             clear == [h EXCEPT !.fastchunks = FALSE, !.wild = @ \/ last < 0,
                                !.fast = [i \in DOMAIN @ |-> IF i <= last THEN <<>> ELSE @[i]]]
         IN FoldLeft(LAMBDA g, p : Coalesce(g, p).h, clear,
                     FlattenSeq([i \in 1..(last + 1) |-> h.fast[i - 1]]))

FreeFast(h, p) == [h EXCEPT !.fast[FastIndex(Size(h, p))] = <<p>> \o @,
                            !.fastchunks = TRUE, !.anychunks = TRUE]
AfterLarge(c) == IF c.size >= Threshold /\ c.h.fastchunks THEN Consolidate(c.h) ELSE c.h
FreeChunk(h, p) ==
    IF Size(h, p) <= h.max_fast THEN FreeFast(h, p)
    ELSE AfterLarge(Coalesce([h EXCEPT !.anychunks = TRUE], p))

-----------------------------------------------------------------------------
(* malloc.  A result is [h, p], p = Null while nothing was found; each place *)
(* is searched when those before it had nothing.                            *)
Found(h, p) == [h |-> h, p |-> p]
Miss(r)     == r.p = Null

\* A free chunk taken whole, and one split with the rest alone in bin 1.
TakeWhole(h, p) == Found(ForgetFoot(SetInUse(h, NextChunk(h, p)), NextChunk(h, p)), p)
Split(h, p, nb) ==
    LET rest == Size(h, p) - nb
    IN Found(SetFoot(SetHead(SetHead([h EXCEPT !.bins[1] = <<p + nb>>], p + nb, rest, TRUE),
                             p, nb, TRUE), p + nb, rest), p)
TakeFrom(h, p, nb) == IF Size(h, p) - nb < MinSize THEN TakeWhole(Unlink(h, p), p)
                      ELSE Split(Unlink(h, p), p, nb)

FromFast(h, nb) ==
    LET i == FastIndex(nb)
    IN IF nb <= h.max_fast /\ h.fast[i] # <<>>
       THEN Found([h EXCEPT !.fast[i] = Tail(@)], Head(h.fast[i])) ELSE Found(h, Null)

\* A small request looks in its own bin; a large one first empties the fast bins.
FromSmall(r, nb) ==
    IF ~Miss(r) THEN r
    ELSE IF ~Small(nb) THEN Found(IF r.h.fastchunks THEN Consolidate(r.h) ELSE r.h, Null)
    ELSE IF r.h.bins[BinIndex(nb)] = <<>> THEN r
    ELSE LET p == Last(r.h.bins[BinIndex(nb)]) IN TakeWhole(Unlink(r.h, p), p)

\* Small bins and empty ones take a chunk in front; large ones stay sorted, and a
\* chunk no larger than the last goes behind it.
Placed(h, bin, p) ==
    LET s == Size(h, p)
    IN IF bin = <<>> \/ Small(s) THEN <<p>> \o bin
       ELSE IF s <= Size(h, Last(bin)) THEN Append(bin, p)
       ELSE InsertAt(bin, Min({i \in DOMAIN bin : Size(h, bin[i]) <= s}), p)
Bin(h, p) ==
    LET i == BinIndex(Size(h, p)) IN [h EXCEPT !.bins[i] = Placed(h, @, p), !.binmap = @ \cup {i}]

\* One pass of the loop over bin 1, from its last chunk.
Sort(h, p, nb) ==
    IF /\ Small(nb) /\ h.bins[1] = <<p>> /\ p = h.last_remainder
       /\ Size(h, p) > nb + MinSize
    THEN Split([h EXCEPT !.last_remainder = p + nb], p, nb)
    ELSE IF Size(h, p) = nb THEN TakeWhole(Unlink(h, p), p)
    ELSE Found(Bin([h EXCEPT !.bins[1] = Front(@)], p), Null)
FromUnsorted(r, nb) == FoldLeft(LAMBDA acc, p : IF Miss(acc) THEN Sort(acc.h, p, nb) ELSE acc,
                                r, Reverse(r.h.bins[1]))

\* A large request's own bin, from the smallest chunk.
FromLarge(r, nb) ==
    LET bin == r.h.bins[BinIndex(nb)]
        fit == {i \in DOMAIN bin : Size(r.h, bin[i]) >= nb}
    IN IF ~Miss(r) \/ Small(nb) \/ fit = {} THEN r ELSE TakeFrom(r.h, bin[Max(fit)], nb)

\* The larger bins, by the binmap; the bits of empty bins met are cleared.
Remainder(t, nb, left) == IF Small(nb) /\ left >= MinSize
                          THEN [t EXCEPT !.h.last_remainder = t.p + nb] ELSE t
FromBins(r, nb) ==
    LET h      == r.h
        marked == {i \in h.binmap : i > BinIndex(nb)}
        hits   == {i \in marked : h.bins[i] # <<>>}
        best   == IF hits = {} THEN 0 ELSE Min(hits)
        p      == Last(h.bins[best])
    IN IF ~Miss(r) THEN r
       ELSE IF best = 0 THEN Found([h EXCEPT !.binmap = @ \ marked], Null)
       ELSE Remainder(TakeFrom([h EXCEPT !.binmap = @ \ {j \in marked : j < best}], p, nb),
                      nb, Size(h, p) - nb)

FromTop(r, nb) ==
    LET h == r.h
    IN IF ~Miss(r) \/ Size(h, h.top) < nb + MinSize THEN r
       ELSE Found(SetHead(SetHead([h EXCEPT !.top = @ + nb], h.top + nb, Size(h, h.top) - nb, TRUE),
                          h.top, nb, TRUE), h.top)

\* What the heap holds already; before the first free that is top.
FromHeap(h, nb) ==
    IF ~h.anychunks THEN FromTop(Found(IF h.max_fast = 0 THEN Consolidate(h) ELSE h, Null), nb)
    ELSE FromTop(FromBins(FromLarge(FromUnsorted(FromSmall(FromFast(h, nb), nb), nb), nb), nb), nb)

-----------------------------------------------------------------------------
(* sYSMALLOc.  MORECORE is external: what follows the last pages, or past a *)
(* gap that others took, while there is room.                               *)
MoreCore(h, gap, size) == IF h.brk + gap + size <= Memory THEN h.brk + gap ELSE Failure
MoreCoreEnd(h) == IF h.zero_answers THEN h.brk ELSE Failure

\* The end of the old top becomes two fenceposts; what is left of it is freed.
Fence(h, old) ==
    LET rest   == ((Size(h, old) - 3 * SizeSz) \div Alignment) * Alignment
        fenced == SetHead(SetHead(SetHead(h, old, rest, TRUE), old + rest, SizeSz, TRUE),
                          old + rest + SizeSz, SizeSz, TRUE)
    IN IF rest >= MinSize THEN FreeChunk(fenced, old) ELSE fenced

\* Pages that do not follow the old top become the top, if MORECORE(0) can tell their end.
MoveTop(h, brk, end) == SetHead([h EXCEPT !.top = brk], brk, end - brk, TRUE)
NewTop(h, brk, size) ==
    LET end   == MoreCoreEnd(h)
        found == [h EXCEPT !.sbrked_mem = @ + (end - brk - size)]
    IN IF end = Failure THEN found
       ELSE IF h.top = Null THEN MoveTop(found, brk, end)
       ELSE Fence(MoveTop(found, brk, end), h.top)
ExtendBlind(h, brk, size) ==             \* slip: takes the pages to be contiguous
    IF h.top # Null THEN SetHead(h, h.top, size + Size(h, h.top), TRUE) ELSE NewTop(h, brk, size)
Extend(h, brk, size) ==
    IF brk = NextChunk(h, h.top) THEN SetHead(h, h.top, size + Size(h, h.top), TRUE)
    ELSE NewTop(h, brk, size)

Asked(nb) == RoundUp(nb + MinSize, Page)

SysMalloc(r, nb, gap) ==
    LET size == Asked(nb)
        brk  == MoreCore(r.h, gap, size)
        got  == [r.h EXCEPT !.brk = brk + size, !.sbrked_mem = @ + size,
                            !.owned = @ \cup {a \in brk..(brk + size - 1) : a % Alignment = 0}]
    IN IF ~Miss(r) \/ brk = Failure THEN r
       ELSE FromTop(Found(Extend(got, brk, size), Null), nb)

\* Before memory is asked for, the fast bins are emptied and the heap is searched again.
Search(h, nb) == FoldLeft(LAMBDA r, again :
                             IF again /\ ~(Miss(r) /\ r.h.fastchunks) THEN r
                             ELSE FromHeap(IF again THEN Consolidate(r.h) ELSE r.h, nb),
                          Found(h, Null), <<FALSE, TRUE>>)
Malloc(h, bytes, gap) ==
    LET nb == Request2Size(bytes)
    IN IF OutOfRange(bytes) THEN Found(h, Null) ELSE SysMalloc(Search(h, nb), nb, gap)

-----------------------------------------------------------------------------
(* realloc.  The block has grown or is big enough: give back what is over.  *)
Trim(h, p, size, nb) ==
    IF size - nb < MinSize
    THEN Found(SetInUse(SetHeadSize(h, p, size), p + size), p)
    ELSE Found(FreeChunk(SetInUse(SetHead(SetHeadSize(h, p, nb), p + nb, size - nb, TRUE),
                                  p + size), p + nb), p)

\* Space found elsewhere: the block moves there, or grows into it if it lies behind.
Moved(h, p, nb, m) ==
    IF Miss(m) THEN m
    ELSE IF m.p = NextChunk(h, p)
    THEN Trim(ForgetHead(m.h, m.p), p, Size(h, p) + Size(m.h, m.p), nb)
    ELSE Found(FreeChunk(m.h, p), m.p)

Realloc(h, p, bytes, gap) ==
    LET nb   == Request2Size(bytes)
        next == NextChunk(h, p)
        both == Size(h, p) + Size(h, next)
    IN IF OutOfRange(bytes) THEN Found(h, Null)
       ELSE IF Size(h, p) >= nb THEN Trim(h, p, Size(h, p), nb)
       ELSE IF next = h.top /\ both >= nb + MinSize
       THEN Found(SetHead(SetHeadSize([ForgetHead(h, next) EXCEPT !.top = p + nb], p, nb),
                          p + nb, both - nb, TRUE), p)
       ELSE IF next # h.top /\ ~InUse(h, next) /\ both >= nb
       THEN Trim(ForgetFoot(ForgetHead(Unlink(h, next), next), p + both), p, both, nb)
       ELSE Moved(h, p, nb, Malloc(h, nb - (Alignment - 1), gap))

(* memalign: from a larger block, the part in front of the aligned address  *)
(* and the part behind are given back.                                      *)
Aligned(h, p, alignment) ==
    LET first == Mem2Chunk(RoundUp(Chunk2Mem(p), alignment))
        newp  == IF first - p < MinSize THEN first + alignment ELSE first
        size  == Size(h, p) - (newp - p)
    IN IF Chunk2Mem(p) % alignment = 0 THEN Found(h, p)
       ELSE Found(FreeChunk(SetHeadSize(SetInUse(SetHead(h, newp, size, TRUE), newp + size),
                                        p, newp - p), p), newp)
PowerOf2(a) == Min({x \in {2^k : k \in 3..12} : x >= a})
GiveBackRest(r, nb) ==
    IF Size(r.h, r.p) <= nb + MinSize THEN r
    ELSE Found(FreeChunk(SetHeadSize(SetHead(r.h, r.p + nb, Size(r.h, r.p) - nb, TRUE), r.p, nb),
                         r.p + nb), r.p)
Memalign(h, alignment, bytes, gap) ==
    LET al == PowerOf2(Max({alignment, MinSize}))
        nb == Request2Size(bytes)
        m  == Malloc(h, IF alignment <= Alignment THEN bytes ELSE (nb + al + MinSize) % WordSize, gap)
    IN IF alignment <= Alignment THEN m
       ELSE IF OutOfRange(bytes) \/ Miss(m) THEN Found(m.h, Null)
       ELSE GiveBackRest(Aligned(m.h, m.p, al), nb)

(* independent_comalloc: one block cut into the elements and, as the last,  *)
(* the array of pointers to them, which takes the rest.                     *)
Starts(p, sizes) == [i \in 1..(Len(sizes) + 1) |->
                       p + FoldLeft(LAMBDA sum, s : sum + Request2Size(s), 0, SubSeq(sizes, 1, i - 1))]
ComAlloc(h, sizes, gap) ==
    LET array == Request2Size(4 * Len(sizes))
        n     == Len(sizes)
        total == Last(Starts(0, sizes)) + array
        m     == Malloc(h, total - (Alignment - 1), gap)
        at    == Starts(m.p, sizes)
        cut   == [m.h EXCEPT !.head =
                    [q \in Range(at) |-> [size |-> (IF q = at[n + 1] THEN NextChunk(m.h, m.p)
                                                    ELSE Min({b \in Range(at) : b > q})) - q,
                                          pinuse |-> TRUE]] @@ @]
    IN IF m.p = Null THEN [h |-> m.h, ps |-> <<>>] ELSE [h |-> cut, ps |-> at]

(* calloc multiplies in 32 bits and clears what it got; valloc and pvalloc  *)
(* align to a page, the second with whole pages; malloc_trim gives nothing  *)
(* back to MORECORE but empties the fast bins.                              *)
Calloc(h, n, each, gap) == Malloc(h, (n * each) % WordSize, gap)
Ready(h)                == IF h.max_fast = 0 THEN Consolidate(h) ELSE h
Valloc(h, bytes, gap)   == Memalign(Ready(h), Page, bytes, gap)
Pvalloc(h, bytes, gap)  == Memalign(Ready(h), Page, RoundUp(bytes, Page), gap)

UsableSize(h, p) == IF InUse(h, p) THEN Size(h, p) - SizeSz ELSE 0

-----------------------------------------------------------------------------
(* The calls.  A refusal is wrong while MORECORE has memory for the request.*)
Init == /\ heap \in {[Zeroed EXCEPT !.zero_answers = z] : z \in ZeroAnswers}
        /\ live = <<>> /\ refused = FALSE /\ calls = 0

Held == DOMAIN live
Count == calls < MaxCalls /\ calls' = calls + 1
\* The caller has asked for bytes, and the heap for room in all.
Give(r, bytes, room, kept, gap) ==
    /\ Count
    /\ heap' = r.h
    /\ live' = IF Miss(r) THEN live ELSE (Chunk2Mem(r.p) :> bytes) @@ Restrict(live, kept)
    /\ refused' = (Miss(r) /\ ~OutOfRange(bytes)
                   /\ MoreCore(heap, gap, Asked(Request2Size(room))) # Failure)
    /\ Cardinality(DOMAIN live') <= MaxBlocks

CallMalloc  == \E b \in Requests, gap \in Gaps : Give(Malloc(heap, b, gap), b, b, Held, gap)
CallRealloc == \E m \in Held, b \in Requests, gap \in Gaps :
                  Give(Realloc(heap, Mem2Chunk(m), b, gap), b, b, Held \ {m}, gap)
CallCalloc  == \E n \in {1, 3}, each \in Requests, gap \in Gaps :
                  Give(Calloc(heap, n, each, gap), n * each, n * each, Held, gap)
AlignedRoom(a, b) == IF a <= Alignment THEN b ELSE b + 2 * a + MinSize
CallMemalign == \E a \in Alignments, b \in Requests, gap \in Gaps :
                  Give(Memalign(heap, a, b, gap), b, AlignedRoom(a, b), Held, gap)
CallValloc == \E b \in Requests, gap \in Gaps :
                  \/ Give(Valloc(heap, b, gap), b, AlignedRoom(Page, b), Held, gap)
                  \/ Give(Pvalloc(heap, b, gap), RoundUp(b, Page), AlignedRoom(Page, RoundUp(b, Page)), Held, gap)
CallComAlloc == \E sizes \in Groups, gap \in Gaps :
                  LET r == ComAlloc(heap, sizes, gap)
                  IN /\ Count /\ heap' = r.h
                     /\ live' = [m \in {Chunk2Mem(r.ps[i]) : i \in DOMAIN r.ps} |->
                                   LET i == CHOOSE j \in DOMAIN r.ps : Chunk2Mem(r.ps[j]) = m
                                   IN IF i > Len(sizes) THEN 4 * Len(sizes) ELSE sizes[i]] @@ live
                     /\ refused' = FALSE
                     /\ Cardinality(DOMAIN live') <= MaxBlocks
CallFree  == \E m \in Held : /\ Count /\ heap' = FreeChunk(heap, Mem2Chunk(m))
                             /\ live' = Restrict(live, Held \ {m})
                             /\ refused' = FALSE
CallTrim  == Count /\ heap' = Consolidate(heap) /\ refused' = FALSE /\ UNCHANGED live
CallMallopt == \E v \in FastLimits : /\ Count /\ heap' = SetMaxFast(Consolidate(heap), v)
                                     /\ refused' = FALSE /\ UNCHANGED live

Next == \/ CallMalloc \/ CallRealloc \/ CallCalloc \/ CallMemalign \/ CallValloc \/ CallComAlloc
        \/ CallFree \/ CallTrim \/ CallMallopt
Spec == Init /\ [][Next]_vars

-----------------------------------------------------------------------------
(* The structure that the debugging routines of malloc.c assert, and that a *)
(* build without DEBUG never looks at.                                      *)
Binned(h) == UNION {Range(h.bins[i]) : i \in DOMAIN h.bins}
Fasts(h)  == UNION {Range(h.fast[i]) : i \in DOMAIN h.fast}

CheckChunk(h, p) == p = h.top => Size(h, p) >= MinSize /\ h.head[p].pinuse
CheckFree(h, p) ==
    /\ CheckChunk(h, p) /\ ~InUse(h, p)
    /\ Size(h, p) >= MinSize /\ Size(h, p) % Alignment = 0 /\ Chunk2Mem(p) % Alignment = 0
    /\ NextChunk(h, p) \in DOMAIN h.foot /\ h.foot[NextChunk(h, p)] = Size(h, p)
    /\ h.head[p].pinuse
    /\ NextChunk(h, p) = h.top \/ InUse(h, NextChunk(h, p))
CheckInUse(h, p) ==
    /\ CheckChunk(h, p) /\ InUse(h, p)
    /\ ~h.head[p].pinuse =>
          LET q == p - h.foot[p] IN NextChunk(h, q) = p /\ CheckFree(h, q)
    /\ IF NextChunk(h, p) = h.top THEN CheckChunk(h, h.top)
       ELSE ~InUse(h, NextChunk(h, p)) => CheckFree(h, NextChunk(h, p))
CheckState(h) ==
    h.top # Null =>
      /\ h.max_fast <= Request2Size(80)
      /\ \A i \in DOMAIN h.fast : \A p \in Range(h.fast[i]) :
            i <= FastIndex(h.max_fast) /\ CheckInUse(h, p) /\ FastIndex(Size(h, p)) = i
      /\ Fasts(h) # {} => h.fastchunks
      /\ \A i \in 2..NBins : h.bins[i] # <<>> => i \in h.binmap
      /\ \A i \in DOMAIN h.bins : \A j \in DOMAIN h.bins[i] :
            LET p == h.bins[i][j]
            IN /\ CheckFree(h, p)
               /\ i >= 2 => BinIndex(Size(h, p)) = i
               /\ i >= 2 /\ j > 1 => Size(h, h.bins[i][j - 1]) >= Size(h, p)
      /\ CheckChunk(h, h.top)

(* mallinfo: free bytes, in top, fast bins and bins, and the others.        *)
SizeSum(h, chunks) == MapThenSumSet(LAMBDA p : Size(h, p), chunks)
MallInfo(h) == LET avail == Size(h, h.top) + SizeSum(h, Fasts(h)) + SizeSum(h, Binned(h))
               IN [fordblks |-> avail, uordblks |-> h.sbrked_mem - avail,
                   ordblks |-> 1 + Cardinality(Binned(h))]

\* No byte is lost or counted twice: what mallinfo calls in use is the blocks users
\* hold and, for each region left behind, its fenceposts with the odd words at its end.
EveryByteIsAccounted ==
    LET posts == {p \in DOMAIN heap.head : Size(heap, p) < MinSize}
    IN MallInfo(heap).uordblks = SizeSum(heap, {Mem2Chunk(m) : m \in Held})
                                 + 8 * Cardinality(posts)

\* malloc answers null only when the request is out of range or "no space is available"
\* (malloc.c:895).  With kmorecore, whose answer to 0 is -1 (mm.c:67-70), sYSMALLOc takes
\* pages it can never use, at its first request already.
RefusedOnlyWhenFull == ~refused

\* After every call the heap is as do_check_malloc_state wants it: tags agree with
\* each other, no two free chunks are neighbours, every bin holds its sizes in
\* order and is marked, what is binned is free and what is not is in use; a block holds
\* the bytes asked for; the loop over the fast bins has not left them (malloc.c:2720-2866).
\* Over a MORECORE that answers 0 with the end of its memory (malloc.c:4813-4834)
\* every byte is accounted for, and nothing is refused that could be had.
HeapIsSound ==
    /\ CheckState(heap) /\ ~heap.wild
    /\ \A m \in Held : CheckInUse(heap, Mem2Chunk(m)) /\ UsableSize(heap, Mem2Chunk(m)) >= live[m]
    /\ heap.zero_answers => EveryByteIsAccounted /\ RefusedOnlyWhenFull

\* The blocks in use as an allocator's client sees them.
Blocks == [m \in Held |-> UsableSize(heap, Mem2Chunk(m))]
Abstract == INSTANCE Allocator WITH blocks <- Blocks, owned <- heap.owned, Unit <- Alignment
\* Whatever is asked of it, the heap is an allocator: a new or moved block is
\* apart from every other and inside memory that was obtained, and no call touches the blocks
\* it was not given.
ImplementsAllocator == Abstract!Spec
=============================================================================
