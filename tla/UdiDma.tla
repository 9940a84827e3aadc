------------------------------- MODULE UdiDma -------------------------------
(* What a UDI region keeps for DMA: constraints (udi_constraints.c), the paths of
   its buffers, the handles and the memory of udi_dma.c on the copies that
   udi/ripple/udi_osdep_dma.c makes, and the tracker that takes back what a driver
   left behind (udi_alloc.c).  An object's name is its address: it may come again. *)
EXTENDS Integers, Sequences, FiniteSets, Functions

CONSTANTS Constraint, Path, Handle, Buf,      \* sets of addresses
          Specs,        \* the attribute lists that drivers pass
          Unsupported,  \* <<attribute, value>> the system refuses; none in this port
          Tracker,      \* a build that tracks
          None, MaxCalls

VARIABLES cons,         \* [Constraint -> NoCons or [vals, paths]]
          path,         \* [Path -> [up, on]]
          hand,         \* [Handle -> ...]
          bufs,         \* [Buf -> ...]
          ring,         \* dma_mem_handle_q
          tracked,      \* what the tracker lists
          dying,        \* the region is torn down
          setting,      \* the request to set attributes that waits for memory, if any
          asked,        \* [Constraint -> [attribute -> what was set of it]]
          whole,        \* [Buf -> what the buffer holds while all its mappings were whole]
          wild,         \* the environment has used what it freed, or never set up
          calls
vars == <<cons, path, hand, bufs, ring, tracked, dying, setting, asked, whole, wild, calls>>

(* Constraints.  A kind of attribute says which of two values restricts more.     *)
Kind == [element_align |-> "ascend", scgth_align |-> "ascend", data_bits |-> "descend",
         barrier |-> "zero_most", format |-> "none"]
Attr == DOMAIN Kind
Default == [element_align |-> 0, scgth_align |-> 0, data_bits |-> 0, barrier |-> 1,
            format |-> 0]
Compound(a) == IF a = "align" THEN {"element_align", "scgth_align"} ELSE {a}

ConstantsMakeSense ==           \* no address is of two kinds of objects
    /\ \A S \in {Constraint, Path, Handle, Buf} : S # {} /\ None \notin S /\ "copy" \notin S
    /\ Constraint \cap Path = {} /\ Constraint \cap Handle = {} /\ Constraint \cap Buf = {}
    /\ Path \cap Handle = {} /\ Path \cap Buf = {} /\ Handle \cap Buf = {}
    /\ None # "copy" /\ MaxCalls \in Nat
    /\ Specs \subseteq Seq((Attr \cup {"align"}) \X Nat)

Merged(a, old, new) ==                  \* _udi_merge_one_constraints_attribute
    CASE Kind[a] = "ascend" -> IF old < new THEN new ELSE old
      [] Kind[a] = "zero_most" -> IF old < new \/ new = 0 THEN new ELSE old
      [] Kind[a] = "descend" -> IF old = 0 \/ (new # 0 /\ old > new) THEN new ELSE old
      [] OTHER -> new
SetOne(vals, s) ==
    IF s \in Unsupported THEN vals
    ELSE [a \in Attr |-> IF a \in Compound(s[1]) THEN Merged(a, vals[a], s[2]) ELSE vals[a]]
Kept(a, seen, v) ==             \* the last, those since the last 0, or all
    IF Kind[a] = "none" \/ (Kind[a] = "zero_most" /\ v = 0) THEN {v} ELSE seen \cup {v}
Noted(seen, s) ==
    [a \in Attr |-> IF a \in Compound(s[1]) THEN Kept(a, seen[a], s[2]) ELSE seen[a]]
SetAll(vals, seen, list) ==     \* the values, and what was set of each attribute
    LET after[n \in 0 .. Len(list)] ==
          IF n = 0 THEN <<vals, seen>>
          ELSE <<SetOne(after[n - 1][1], list[n]), Noted(after[n - 1][2], list[n])>>
    IN  after[Len(list)]

NoCons == [vals |-> Default, paths |-> {None}]
NoHand == [state |-> "none", cons |-> None, flags |-> {}, buf |-> None, base |-> 0,
           now |-> {}, len |-> 0, mem |-> <<>>]
NoBuf == [path |-> None, data |-> <<>>, size |-> 0, holds |-> None]
Nothing == <<"nothing">>
Live(k) == cons[k] # NoCons
Paths(k) == IF k \in Constraint /\ Live(k) THEN cons[k].paths ELSE {}

\* Of a driver that has made constraints, a path, a buffer and memory of one byte.
First(S) == CHOOSE x \in S : TRUE
Bytes == <<"x", "y">>
Init == LET k == First(Constraint)  p == First(Path)  b == First(Buf)  m == First(Handle) IN
    /\ cons = [x \in Constraint |-> IF x = k THEN [vals |-> Default, paths |-> {}] ELSE NoCons]
    /\ path = [x \in Path |-> [up |-> x = p, on |-> None]]
    /\ hand = [h \in Handle |-> IF h = m THEN [NoHand EXCEPT !.state = "memory", !.cons = k,
                                               !.base = 1, !.len = 1, !.mem = <<"0">>]
                                ELSE NoHand]
    /\ bufs = [x \in Buf |-> IF x = b THEN [NoBuf EXCEPT !.path = p, !.data = Bytes, !.size = 2]
                             ELSE NoBuf]
    /\ whole = [x \in Buf |-> IF x = b THEN Bytes ELSE Nothing]
    /\ tracked = IF Tracker THEN {k, p, b, m} ELSE {}
    /\ ring = <<>> /\ dying = FALSE /\ setting = {} /\ wild = FALSE /\ calls = 0
    /\ asked = [x \in Constraint |-> [a \in Attr |-> {}]]

Call == ~dying /\ ~wild /\ calls < MaxCalls /\ calls' = calls + 1
Fresh(S) == IF S = {} THEN {} ELSE {First(S)}  \* one address for the next
Add(S) == tracked' = IF Tracker THEN tracked \cup S ELSE tracked
Remove(S) == tracked' = tracked \ S

\* In place, or in new memory for a copy or for constraints of their own.
Refuses(list) == \E i \in DOMAIN list : list[i] \in Unsupported
_udi_constraints_attr_set_complete(src, list, new) ==
    LET set == IF src = None THEN SetAll(Default, [a \in Attr |-> {}], list)
               ELSE SetAll(cons[src].vals, asked[src], list)
        Now(k, paths) == /\ cons' = [cons EXCEPT ![k] = [vals |-> set[1], paths |-> paths]]
                         /\ asked' = [asked EXCEPT ![k] = set[2]]
    IN
    IF Refuses(list) THEN UNCHANGED <<cons, asked, tracked>>
    ELSE IF new
    THEN \E k \in Fresh({k \in Constraint : ~Live(k)}) : Now(k, {}) /\ Add({k})
    ELSE Now(src, cons[src].paths) /\ UNCHANGED tracked

udi_dma_constraints_attr_set(src, list, copy) ==
    LET new == copy \/ src = None IN
    /\ Call /\ (src # None => Live(src))
    /\ \/ _udi_constraints_attr_set_complete(src, list, new) /\ UNCHANGED setting
       \/ /\ new /\ setting = {}                \* no memory at once
          /\ setting' = {[src |-> src, list |-> list]}
          /\ UNCHANGED <<cons, asked, tracked>>
    /\ UNCHANGED <<path, hand, bufs, ring, dying, whole, wild>>

\* By the daemon, from the source as it is by then.
CompleteSet ==
    /\ ~wild /\ setting' = {}
    /\ \E r \in setting :
          IF r.src = None \/ Live(r.src)
          THEN _udi_constraints_attr_set_complete(r.src, r.list, TRUE) /\ UNCHANGED wild
          ELSE wild' = TRUE /\ UNCHANGED <<cons, asked, tracked>>
    /\ UNCHANGED <<path, hand, bufs, ring, dying, whole, calls>>

\* Before the daemon came to it, which frees the source; or before the callback ran,
\* which frees what was made.  The tracker still lists either.
CancelSet ==
    /\ Call /\ setting' = {}
    /\ \E r \in setting : \/ wild' = (r.src # None)
                          \/ wild' = \/ r.src # None /\ ~Live(r.src)
                                     \/ Tracker /\ ~Refuses(r.list)
    /\ UNCHANGED <<cons, path, hand, bufs, ring, tracked, dying, asked, whole>>

udi_dma_constraints_attr_reset(k, a) ==
    /\ Call /\ Live(k)
    /\ cons' = [cons EXCEPT ![k].vals[a] = Default[a]]
    /\ asked' = [asked EXCEPT ![k][a] = {}]
    /\ UNCHANGED <<path, hand, bufs, ring, tracked, dying, whole, wild>>

\* The paths that refer to constraints forget them.
Dissociate(k) == path' = [p \in Path |-> IF p \in Paths(k) THEN [path[p] EXCEPT !.on = None]
                                         ELSE path[p]]
FreeCons(k) == /\ cons' = [cons EXCEPT ![k] = NoCons]
               /\ Dissociate(k)
               /\ Remove({k})
               /\ UNCHANGED <<hand, bufs, ring, wild>>
udi_dma_constraints_free(k) == Call /\ Live(k) /\ FreeCons(k) /\ UNCHANGED <<dying, asked, whole>>

udi_buf_path_alloc ==
    /\ Call
    /\ \E p \in Fresh({p \in Path : ~path[p].up}) :
          path' = [path EXCEPT ![p].up = TRUE] /\ Add({p})
    /\ UNCHANGED <<cons, hand, bufs, ring, dying, asked, whole, wild>>
FreePath(p) == /\ path' = [path EXCEPT ![p] = [up |-> FALSE, on |-> None]]
               /\ cons' = [k \in Constraint |-> IF Live(k) THEN [cons[k] EXCEPT !.paths = @ \ {p}]
                                          ELSE cons[k]]
               /\ Remove({p})
               /\ UNCHANGED <<hand, bufs, ring, wild>>
\* A driver keeps the path of a buffer it has.
udi_buf_path_free(p) == /\ Call /\ path[p].up /\ \A b \in Buf : bufs[b].path # p
                        /\ FreePath(p) /\ UNCHANGED <<dying, asked, whole>>

(* Buffers, of one segment here.  One that holds a handle's memory gives the handle
   to the region's pool when it goes.                                              *)
udi_buf_write(p) ==
    /\ Call /\ path[p].up
    /\ \E b \in Fresh({b \in Buf : bufs[b] = NoBuf}) :
          /\ bufs' = [bufs EXCEPT ![b] = [NoBuf EXCEPT !.path = p, !.data = Bytes, !.size = 2]]
          /\ whole' = [whole EXCEPT ![b] = Bytes]
          /\ Add({b})
    /\ UNCHANGED <<cons, path, hand, ring, dying, asked, wild>>

Mapping(b) == \E h \in Handle : hand[h].buf = b
IsExternal(b) == bufs[b].holds # None
Gone(h) == hand[h].state = "none"
\* _udi_dma_m2buf_free puts a handle behind the others, all of which must be there.
ToPool(h) == IF h \notin Handle THEN UNCHANGED <<hand, ring, wild>>
             ELSE /\ wild' = (dying \/ \E g \in {h} \cup Range(ring) : Gone(g))
                  /\ ring' = Append(ring, h)
                  /\ hand' = IF Gone(h) THEN hand ELSE [hand EXCEPT ![h].state = "pool"]
FreeBuf(b) == /\ bufs' = [bufs EXCEPT ![b] = NoBuf]
              /\ ToPool(bufs[b].holds)
              /\ IF IsExternal(b) THEN UNCHANGED tracked ELSE Remove({b})
              /\ UNCHANGED <<cons, path>>
\* By whoever has it: the buffer may be with another driver's region by now.
udi_buf_free(b) == /\ ~wild /\ bufs[b] # NoBuf /\ ~Mapping(b) /\ calls < MaxCalls
                   /\ calls' = calls + 1
                   /\ FreeBuf(b)
                   /\ whole' = [whole EXCEPT ![b] = Nothing]
                   /\ UNCHANGED <<dying, asked>>

(* Handles.  All but the reuse of pooled memory is for the daemon to complete.      *)
Known(k) == k \in Constraint /\ Live(k)
udi_dma_prepare(k, flags) ==
    /\ Call /\ Live(k)
    /\ \E h \in Fresh({h \in Handle : Gone(h)}) :
          hand' = [hand EXCEPT ![h] = [NoHand EXCEPT !.state = "prepare", !.cons = k,
                                                     !.flags = flags]]
    /\ UNCHANGED <<cons, path, bufs, ring, tracked, dying, asked, whole, wild>>

FitsAny(h, k, n) == hand[h].cons = k                    \* slip: whatever its size
Fits(h, k, n) == hand[h].cons = k /\ hand[h].len >= n
Pooled(k, n) == {i \in DOMAIN ring : Fits(ring[i], k, n)}
udi_dma_mem_alloc(k, n) ==
    /\ Call /\ Live(k)
    /\ IF Pooled(k, n) # {}
       THEN LET i == CHOOSE i \in Pooled(k, n) : \A j \in Pooled(k, n) : i <= j IN
            /\ ring' = SubSeq(ring, 1, i - 1) \o SubSeq(ring, i + 1, Len(ring))
            /\ hand' = [hand EXCEPT ![ring[i]].state = "memory", ![ring[i]].base = n]
       ELSE /\ \E h \in Fresh({h \in Handle : Gone(h)}) :
                 hand' = [hand EXCEPT ![h] = [NoHand EXCEPT !.state = "alloc", !.cons = k,
                                                            !.len = n, !.base = n]]
            /\ UNCHANGED ring
    /\ UNCHANGED <<cons, path, bufs, tracked, dying, asked, whole, wild>>

\* The buffer's path must not be of other constraints, nor another mapping's buffer.
udi_dma_buf_map(h, b, off, n, flags) ==
    LET p == bufs[b].path IN
    /\ Call /\ hand[h].state = "ready" /\ flags \subseteq hand[h].flags
    /\ bufs[b] # NoBuf /\ ~Mapping(b) /\ p # None /\ path[p].on \in {None, hand[h].cons}
    /\ IF path[p].on # None THEN UNCHANGED <<path, cons, wild>>
       ELSE /\ wild' = ~Known(hand[h].cons)
            /\ path' = [path EXCEPT ![p].on = hand[h].cons]
            /\ cons' = IF wild' THEN cons
                       ELSE [cons EXCEPT ![hand[h].cons].paths = @ \cup {p}]
    /\ hand' = [hand EXCEPT ![h].state = "map", ![h].buf = b, ![h].base = off, ![h].len = n,
                            ![h].now = flags]
    /\ bufs' = [bufs EXCEPT ![b].size = IF off + n > @ THEN off + n ELSE @]
    /\ whole' = [whole EXCEPT ![b] = IF off # 0 \/ n # bufs[b].size THEN Nothing
                                    ELSE IF @ = Nothing \/ "out" \in flags THEN @
                                    ELSE [i \in DOMAIN @ |-> "?"]]
    /\ UNCHANGED <<ring, tracked, dying, asked>>

Stretch(s, off, n) == [i \in 1 .. n |-> IF off + i <= Len(s) THEN s[off + i] ELSE "?"]
CompleteMap(h) ==
    LET r == hand[h] IN
    /\ r.state = "map"
    /\ hand' = [hand EXCEPT ![h].state = "mapped",
           ![h].mem = IF "out" \in r.now THEN Stretch(bufs[r.buf].data, r.base, r.len)
                      ELSE Stretch(<<>>, 0, r.len)]
    /\ UNCHANGED tracked
CompletePrepare(h) ==
    /\ hand[h].state = "prepare"
    /\ hand' = [hand EXCEPT ![h].state = "ready"]
    /\ UNCHANGED tracked
CompleteAlloc(h) ==
    /\ hand[h].state = "alloc"
    /\ hand' = [hand EXCEPT ![h].state = "memory", ![h].mem = [i \in 1 .. hand[h].len |-> "0"]]
    /\ Add({h})
Complete(h) == /\ ~wild /\ (CompleteMap(h) \/ CompletePrepare(h) \/ CompleteAlloc(h))
               /\ wild' = (hand[h].state # "map" /\ ~Known(hand[h].cons))
               /\ UNCHANGED <<cons, path, bufs, ring, dying, asked, whole, calls>>

\* Cancelled before the daemon came to it: a mapping is then discarded as if it were
\* made.  Cancelled while it did, an allocation stays on the tracker's list.
udi_cancel(h) ==
    /\ Call /\ hand[h].state \in {"prepare", "alloc", "map"}
    /\ \/ wild' = (hand[h].state = "map")
       \/ hand[h].state # "map" /\ wild' = (hand[h].state = "alloc" /\ Tracker)
    /\ hand' = [hand EXCEPT ![h] = NoHand]
    /\ UNCHANGED <<cons, path, bufs, ring, tracked, dying, asked, whole>>

\* The device, and the driver in its own memory.
Device(h) == /\ hand[h].state = "mapped" /\ "in" \in hand[h].now /\ ~wild
             /\ hand[h].mem # [i \in 1 .. hand[h].len |-> <<"d", "e">>[i]]
             /\ hand' = [hand EXCEPT ![h].mem = [i \in 1 .. hand[h].len |-> <<"d", "e">>[i]]]
             /\ whole' = [whole EXCEPT ![hand[h].buf] =
                            IF @ = Nothing THEN @ ELSE hand'[h].mem]
             /\ UNCHANGED <<cons, path, bufs, ring, tracked, dying, asked, wild, calls>>
Driver(h) == /\ hand[h].state = "memory" /\ ~wild /\ hand[h].mem[1] # "f"
             /\ hand' = [hand EXCEPT ![h].mem = [i \in 1 .. hand[h].len |->
                                                   IF i <= hand[h].base THEN <<"f", "g">>[i] ELSE @[i]]]
             /\ UNCHANGED <<cons, path, bufs, ring, tracked, dying, asked, whole, wild, calls>>

\* _udi_buf_write_sync: into memory that is not the environment's own the bytes are
\* copied, to its start; else the buffer takes the new memory for its own.
Copied(b, n) == IsExternal(b) /\ n <= Len(bufs[b].data)
Attached(b, mem, off, n, holds) ==
    LET new == Stretch(mem, off, n) IN
    IF Copied(b, n)
    THEN [bufs[b] EXCEPT !.size = n, !.data = [i \in DOMAIN @ |-> IF i <= n THEN new[i] ELSE @[i]]]
    ELSE [bufs[b] EXCEPT !.size = n, !.data = new, !.holds = holds]

UnmapIn(h) == LET r == hand[h] IN Attached(r.buf, r.mem, r.base, r.len, "copy")
\* It also unties the constraints from every path, the paths of other mappings too.
udi_dma_buf_unmap(h, n) ==
    LET r == hand[h]
        in == "in" \in r.now
        loses == in /\ ~Copied(r.buf, r.len) IN
    /\ Call /\ r.state = "mapped" /\ n <= r.len
    /\ bufs' = [bufs EXCEPT ![r.buf] = [(IF in THEN UnmapIn(h) ELSE @) EXCEPT !.size = n]]
    /\ Dissociate(r.cons)
    /\ cons' = IF Known(r.cons) THEN [cons EXCEPT ![r.cons].paths = {}] ELSE cons
    /\ LET done == [hand EXCEPT ![h] = [r EXCEPT !.state = "ready", !.buf = None, !.mem = <<>>,
                                                 !.now = {}]]
           old == bufs[r.buf].holds IN
       IF loses /\ old \in Handle
       THEN /\ ring' = Append(ring, old)
            /\ hand' = [done EXCEPT ![old].state = "pool"]
            /\ wild' = (~Known(r.cons) \/ \E g \in {old} \cup Range(ring) : Gone(g))
       ELSE hand' = done /\ wild' = ~Known(r.cons) /\ UNCHANGED ring
    /\ tracked' = IF loses /\ ~IsExternal(r.buf) THEN tracked \ {r.buf} ELSE tracked
    /\ whole' = [whole EXCEPT ![r.buf] = IF @ = Nothing THEN @ ELSE SubSeq(@, 1, n)]
    /\ UNCHANGED <<dying, asked>>

\* Into a buffer the driver has; the handle comes back through the pool.
udi_dma_mem_to_buf(h, b, off, n) ==
    LET old == bufs[b].holds
        back == IF Copied(b, n) THEN h ELSE old IN
    /\ Call /\ hand[h].state = "memory" /\ bufs[b] # NoBuf /\ ~Mapping(b)
    /\ off + n <= hand[h].base
    /\ bufs' = [bufs EXCEPT ![b] = Attached(b, hand[h].mem, off, n, h)]
    /\ whole' = [whole EXCEPT ![b] = SubSeq(hand[h].mem, off + 1, off + n)]
    /\ LET lent == [hand EXCEPT ![h].state = "lent"] IN
       IF back \in Handle
       THEN /\ ring' = Append(ring, back)
            /\ hand' = [lent EXCEPT ![back].state = "pool"]
            /\ wild' = \E g \in {back} \cup Range(ring) : Gone(g)
       ELSE hand' = lent /\ UNCHANGED <<ring, wild>>
    /\ tracked' = IF IsExternal(b) THEN tracked ELSE tracked \ {b}
    /\ UNCHANGED <<cons, path, dying, asked>>

FreeHand(h) == /\ hand' = [hand EXCEPT ![h] = NoHand]
               /\ IF hand[h].state = "ready" THEN UNCHANGED tracked ELSE Remove({h})
               /\ UNCHANGED <<cons, path, bufs, ring, wild>>
udi_dma_free(h) == /\ Call /\ hand[h].state \in {"ready", "memory"} /\ FreeHand(h)
                   /\ UNCHANGED <<dying, asked, whole>>

(* The end: when the region has no request under way, the tracker's list is gone
   through (_udi_reap_region_resources), in the order of addresses.               *)
Quiet == /\ \A h \in Handle : hand[h].state \notin {"prepare", "alloc", "map", "mapped"}
         /\ setting = {}
_udi_reap_region_resources ==
    /\ ~dying /\ ~wild /\ Quiet /\ Tracker
    /\ dying' = TRUE
    /\ UNCHANGED <<cons, path, hand, bufs, ring, tracked, asked, whole, wild, calls>>
_udi_dealloc_orphan(x) ==
    /\ dying /\ ~wild /\ x \in tracked
    /\ \/ x \in Constraint /\ FreeCons(x) /\ UNCHANGED whole
       \/ x \in Path /\ FreePath(x) /\ UNCHANGED whole
       \/ x \in Handle /\ FreeHand(x) /\ UNCHANGED whole
       \/ x \in Buf /\ FreeBuf(x) /\ whole' = [whole EXCEPT ![x] = Nothing]
    /\ UNCHANGED <<dying, asked, calls>>

Flags == {{"in"}, {"out"}, {"in", "out"}}
Next ==
    \/ \E src \in Constraint \cup {None}, list \in Specs, copy \in BOOLEAN :
          udi_dma_constraints_attr_set(src, list, copy)
    \/ CompleteSet \/ CancelSet
    \/ /\ UNCHANGED setting
       /\ \/ \E k \in Constraint : \/ \E a \in Attr : udi_dma_constraints_attr_reset(k, a)
                                   \/ udi_dma_constraints_free(k)
                                   \/ \E f \in Flags : udi_dma_prepare(k, f)
                                   \/ \E n \in 1 .. 2 : udi_dma_mem_alloc(k, n)
          \/ udi_buf_path_alloc
          \/ \E p \in Path : udi_buf_path_free(p) \/ udi_buf_write(p)
          \/ \E b \in Buf : udi_buf_free(b)
          \/ \E h \in Handle :
               \/ \E b \in Buf, off \in 0 .. 1, n \in 1 .. 2 :
                    \/ \E f \in Flags : udi_dma_buf_map(h, b, off, n, f)
                    \/ udi_dma_mem_to_buf(h, b, off, n)
               \/ Complete(h) \/ udi_cancel(h) \/ Device(h) \/ Driver(h)
               \/ \E n \in 1 .. 2 : udi_dma_buf_unmap(h, n)
               \/ udi_dma_free(h)
          \/ _udi_reap_region_resources
          \/ \E x \in tracked : _udi_dealloc_orphan(x)
Spec == Init /\ [][Next]_vars
------------------------------------------------------------------------------
\* A path is on the list of the constraints it refers to, and on no other.
PathsAgree == \A k \in Constraint, p \in Path :
    p \in Paths(k) <=> (path[p].up /\ path[p].on = k)

\* Constraints are the most restrictive of what was set of them since they were made
\* or reset; of an attribute where 0 restricts most, since it was last set to 0
\* (udi_constraints.c says 0 is "most restrictive", and a value above replaces it).
Tighter(a, u, v) == CASE Kind[a] = "ascend" -> u >= v
                      [] Kind[a] = "descend" -> v = 0 \/ (u # 0 /\ u <= v)
                      [] Kind[a] = "zero_most" -> u >= v
                      [] OTHER -> u = v
Restricts == \A k \in Constraint : Live(k) => \A a \in Attr :
    /\ cons[k].vals[a] \in asked[k][a] \cup {Default[a]}
    /\ \A v \in asked[k][a] : Tighter(a, cons[k].vals[a], v)

\* What the device wrote, or the driver's memory had, is what the buffer reads; a
\* mapping takes part only if it is of the whole buffer.
TransfersAreExact == \A b \in Buf : bufs[b] # NoBuf /\ whole[b] # Nothing /\ ~Mapping(b) =>
    /\ bufs[b].size = Len(whole[b])
    /\ Stretch(bufs[b].data, 0, bufs[b].size) = whole[b]
\* The device sees the bytes of the buffer, until it writes them.
DeviceSeesTheBuffer == \A h \in Handle : hand[h].state = "mapped" /\ hand[h].now = {"out"} =>
    hand[h].mem = Stretch(bufs[hand[h].buf].data, hand[h].base, hand[h].len)

\* Memory is with the driver, in one buffer, or once in the pool, and is as long as asked.
MemoryHasOnePlace == \A h \in Handle :
    LET in == {b \in Buf : bufs[b].holds = h}
        at == {i \in DOMAIN ring : ring[i] = h} IN
    /\ ~dying => Cardinality(in) = (IF hand[h].state = "lent" THEN 1 ELSE 0)
    /\ ~dying => Cardinality(at) = (IF hand[h].state = "pool" THEN 1 ELSE 0)
    /\ hand[h].state = "memory" => Len(hand[h].mem) >= hand[h].base

\* The tracker lists what is there: all but prepared handles and buffers that took
\* other memory, which a driver that goes without freeing them leaves for ever.
TrackerIsExact == Tracker => tracked =
    {k \in Constraint : Live(k)} \cup {p \in Path : path[p].up} \cup
    {h \in Handle : hand[h].state \in {"memory", "lent", "pool"}} \cup
    {b \in Buf : bufs[b] # NoBuf /\ ~IsExternal(b)}

\* Constraints, paths, handles, buffers and memory agree through any calls, their
\* completions and the end of the region (udi_dma.c, udi_constraints.c), unless freed
\* constraints were used, a queued mapping or copy of constraints was cancelled, or an
\* allocation while it was made (wild).
ResourcesAreSound == ~wild =>
    /\ PathsAgree /\ Restricts /\ TransfersAreExact /\ DeviceSeesTheBuffer
    /\ MemoryHasOnePlace /\ TrackerIsExact
=============================================================================
