------------------------------- MODULE MCUdi -------------------------------
(* The services of the UDI environment, each on an instance of its own; a
   behaviour is one of one service, for none of them reads the state that
   another keeps.  The names without a prefix are those of the regions.    *)
EXTENDS UdiRegion, UdiServices, UdiResources

CONSTANTS nil, b1, b2, r1, r2, i1, c1, c2, t1, t2, m1, k0, k1, k2,
          n1, n2, n3, bridge, disk, d1, d2

VARIABLES bufs, blocks, bufAsked, bufWild, text, plain, bufCalls,
          timer, running, last, elapsed, beat, again, now, shown, starts, panicked,
          layout, members,
          node, kids, insts, drivers, unbound, bind, enum, unbinds, releases, maStatus,
          maTold, loader, woken, metas, stale, polite, maWild, maCalls,
          trans, scan, pc, regs, mem, dev, result, pioTruth, flawed, pioRuns,
          props, block, held, sent, request, open, cbLost, cbWild, cbCalls

bufVars == <<bufs, blocks, bufAsked, bufWild, text, plain, bufCalls>>
timerVars == <<timer, running, last, elapsed, beat, again, now, shown, starts, panicked>>
chanVars == <<chanStatus, region, holder, spawns, chanAsked, marking, calling, chanQueue,
              events, pool, chanTold, blame, chanWild, chanCalls>>
layoutVars == <<layout, members>>
maVars == <<node, kids, insts, drivers, unbound, bind, enum, unbinds, releases, maStatus,
            maTold, loader, woken, metas, stale, polite, maWild, maCalls>>
attrVars == <<attrs, count, locator, req, truth, mixed, lost, attrCalls>>
dmaVars == <<cons, path, hand, dmaBufs, ring, tracked, dying, setting, dmaAsked, whole,
             dmaWild, dmaCalls>>
pioVars == <<trans, scan, pc, regs, mem, dev, result, pioTruth, flawed, pioRuns>>
cbVars == <<props, block, held, sent, request, open, cbLost, cbWild, cbCalls>>
logVars == <<logRing, producer, consumer, logQueue, pooled, fmtbuf, logAt, logAsked, called,
             gone, logEvents, logLast, dropped, disturbed, logWild, writes>>
udiVars == <<service, bufVars, vars, timerVars, chanVars, layoutVars, maVars, attrVars,
          dmaVars, pioVars, cbVars, logVars>>

Tag(t, o, n, v) == [type |-> t, off |-> o, len |-> n, value |-> v]

B == INSTANCE UdiBuf WITH
       Buf <- {b1, b2}, MaxCalls <- 3, MaxSize <- 4, Payloads <- {0, 1, 3},
       Tags <- {Tag("set", 0, 2, 2), Tag("sum", 1, 2, 0), Tag("driver", 0, 1, 0)},
       asked <- bufAsked, wild <- bufWild, calls <- bufCalls

T == INSTANCE UdiTimer WITH
       Timer <- {m1}, Interval <- {0, 2, 5, 34}, Wrap <- 64, Short <- 1, Long <- 3,
       MaxLate <- 1, MaxTime <- 18, MaxStarts <- 3, Boot <- {58}

L == INSTANCE UdiLayout WITH
       Codes <- {"u8", "u16", "u32", "buf", "cb", "inline"}, Counts <- {"one", "three"},
       Arguments <- {<<"u8", "u8", "u8">>, <<"u8", "end", "end">>}, MaxMembers <- 3

A == INSTANCE UdiMA WITH
       Driver <- {bridge, disk}, Orphans <- {bridge}, Id <- {1, 2}, Node <- {n1, n2, n3},
       Weight <- [x \in {bridge, disk} \X {bridge, disk} \X {1, 2} |->
                    IF x[2] = bridge /\ x[1] = disk THEN 1 ELSE 0],
       Secondary <- [d \in {bridge, disk} |-> IF d = bridge THEN 1 ELSE 0],
       None <- nil, MaxCalls <- 5,
       status <- maStatus, told <- maTold, wild <- maWild, calls <- maCalls

\* Two names for the locator and one that the storage keeps.
Spelt(p, b, u) == [prefix |-> p, base |-> b, upper |-> u]
Names == {Spelt("", "physical_locator", FALSE), Spelt("", "physical_locator", TRUE),
          Spelt("$", "file:", FALSE)}

\* Lists of attributes: a kind that restricts each way, the same one twice, and one that
\* is refused after another was set.
AttributeLists == {<<<<"align", 2>>, <<"data_bits", 1>>, <<"barrier", 0>>>>,
                   <<<<"align", 1>>, <<"data_bits", 2>>, <<"barrier", 3>>, <<"barrier", 2>>>>,
                   <<<<"data_bits", 0>>, <<"format", 9>>>>}
Refused == {<<"format", 9>>}

ASSUME InstanceMakesSense == /\ H!ConstantsMakeSense /\ I!ConstantsMakeSense
                             /\ J!ConstantsMakeSense /\ D!ConstantsMakeSense

\* Data operations one at a time, constants behind a test or none, and loops over two
\* labels in either order.
Slot(op, r, o, n, k) == [op |-> op, r |-> r, o |-> o, n |-> n, k |-> k]
Slots(ops, o, ns, ks) == {Slot(op, 0, o, n, k) : op \in ops, n \in ns, k \in ks}
Held(low, high, n) == [w |-> <<low, high>>, valid |-> n]
End == Slot("end", 0, 0, 1, 0)
Loaded == {[i \in 1 .. n |-> Slot("load_imm", 0, 0, n, 3 - (i % 2))] : n \in {1, 2, 4}}
Loop(a, b, to, test) == <<Slot("label", 0, 0, 1, a), Slot("add_imm", 0, 0, 2, 5),
                          Slot("label", 0, 0, 1, b), test, Slot("branch", 0, 0, 1, to), End>>
P == INSTANCE UdiPio WITH
       UnitBits <- 2, RepDirect <- FALSE, MaxTrans <- 1,
       Contents <- {[r \in 0 .. 2 |-> IF r = 2 THEN Held(2, 0, 2) ELSE f[r]] :
                     f \in [{0, 1} -> {Held(3, 15, 1), Held(1, 2, 2), Held(14, 5, 4), Held(2, 0, 4)}]},
       Lists <- {<<Slot("any", 0, 0, 1, 0), End>>} \cup {l \o <<End>> : l \in Loaded}
                \cup {<<Slot("cskip", 0, 0, 1, "z")>> \o l \o <<End>> : l \in Loaded}
                \cup {Loop(a, 3 - a, to, test) : a, to \in {1, 2},
                        test \in Slots({"cskip"}, 0, {2}, {"z", "nz", "neg", "nneg"})
                                 \cup Slots({"cskip"}, 0, {1}, {"neg"})
                                 \cup Slots({"cskip"}, 0, {4}, {"nz"})},
       Operations <- Slots({"and", "or", "xor", "add", "sub"}, 0, {1, 2, 4}, {0})
                     \cup Slots({"and", "or", "xor", "add", "sub"}, 1, {1, 2, 4}, {0})
                     \cup Slots({"and_imm", "or_imm", "add_imm"}, 0, {1, 2, 4}, {1, 3})
                     \cup Slots({"shl", "shr"}, 0, {2, 4}, {1, 3, 4})
                     \cup Slots({"shl", "shr"}, 0, {1}, {1})
                     \cup Slots({"load_dir", "store_dir", "load", "store"}, 1, {1, 2, 4}, {0})
                     \cup Slots({"in", "out", "in_direct", "out_direct"}, 0, {1, 2}, {1})
                     \cup Slots({"in_ind", "out_ind"}, 1, {1, 2}, {0})
                     \cup Slots({"rep_in", "rep_out"}, 1, {1},
                                {[from |-> f, to |-> 1, count |-> 2] : f \in {0, 1}}),
       truth <- pioTruth, count <- pioRuns

\* Side b receives an operation that can be aborted and one on chains; its parameters
\* need more scratch than the senders have.
Operation(v, m, chain, end) ==
    [group |-> 1, visible |-> v, marshal |-> m, chained |-> chain, completion |-> end]
Template(s, i, b, l, chosen) ==
    [group |-> 1, scratch |-> s, inline |-> i, bufs |-> b, link |-> l, selected |-> chosen]
K == INSTANCE UdiCb WITH
       Block <- {n1, n2, n3}, None <- nil, Wrap <- 4, MaxCalls <- 4,
       Ops <- [a |-> <<Operation(1, 0, FALSE, 0), Operation(2, 1, FALSE, 0)>>,
               b |-> <<Operation(1, 2, FALSE, 1), Operation(1, 0, TRUE, 0)>>],
       Drivers <- {[a |-> <<Template(0, 1, "none", "context", FALSE)>>,
                    b |-> <<Template(3, 0, "one", "context", FALSE)>>],
                   [a |-> <<Template(1, 2, "one", "context", FALSE),
                            Template(4, 0, "one", "context", FALSE)>>, b |-> <<>>],
                   [a |-> <<Template(1, 2, "both", "inline", FALSE)>>,
                    b |-> <<Template(3, 0, "one", "context", TRUE),
                            Template(5, 0, "none", "inline", FALSE)>>]},
       lost <- cbLost

UdiInit ==
        /\ service \in {"buffers", "regions", "timers", "channels", "layouts", "agent",
                      "attributes", "dma", "pio", "blocks", "log"}
        /\ B!Init /\ Init /\ T!Init /\ H!Init /\ L!Init /\ A!Init /\ I!Init /\ D!Init /\ P!Init
        /\ K!Init /\ J!Init
        /\ service # "channels" => region[<<k0, 1>>] = r1
        /\ service # "agent" => polite
        /\ service # "blocks" => Len(props["a"]) = 2
        /\ service # "pio" => \A r \in 0 .. 2 : regs[r].valid = 2

Only(s) == service = s /\ UNCHANGED service
UdiNext ==
        \/ /\ Only("buffers") /\ B!Next
           /\ UNCHANGED <<vars, timerVars, chanVars, layoutVars, maVars, attrVars, dmaVars, pioVars, cbVars, logVars>>
        \/ /\ Only("regions") /\ Next
           /\ UNCHANGED <<bufVars, timerVars, chanVars, layoutVars, maVars, attrVars, dmaVars, pioVars, cbVars, logVars>>
        \/ /\ Only("timers") /\ T!Next
           /\ UNCHANGED <<bufVars, vars, chanVars, layoutVars, maVars, attrVars, dmaVars, pioVars, cbVars, logVars>>
        \/ /\ Only("channels") /\ H!Next
           /\ UNCHANGED <<bufVars, vars, timerVars, layoutVars, maVars, attrVars, dmaVars, pioVars, cbVars, logVars>>
        \/ /\ Only("layouts") /\ L!Next
           /\ UNCHANGED <<bufVars, vars, timerVars, chanVars, maVars, attrVars, dmaVars, pioVars, cbVars, logVars>>
        \/ /\ Only("agent") /\ A!Next
           /\ UNCHANGED <<bufVars, vars, timerVars, chanVars, layoutVars, attrVars, dmaVars, pioVars, cbVars, logVars>>
        \/ /\ Only("attributes") /\ I!Next
           /\ UNCHANGED <<bufVars, vars, timerVars, chanVars, layoutVars, maVars, dmaVars, pioVars, cbVars, logVars>>
        \/ /\ Only("dma") /\ D!Next
           /\ UNCHANGED <<bufVars, vars, timerVars, chanVars, layoutVars, maVars, attrVars, pioVars, cbVars, logVars>>
        \/ /\ Only("pio") /\ P!Next
           /\ UNCHANGED <<bufVars, vars, timerVars, chanVars, layoutVars, maVars, attrVars, dmaVars, cbVars, logVars>>
        \/ /\ Only("blocks") /\ K!Next
           /\ UNCHANGED <<bufVars, vars, timerVars, chanVars, layoutVars, maVars, attrVars, dmaVars, pioVars, logVars>>
        \/ /\ Only("log") /\ J!Next
           /\ UNCHANGED <<bufVars, vars, timerVars, chanVars, layoutVars, maVars, attrVars, dmaVars, pioVars, cbVars>>

\* In the initial states nothing of these is enabled: the fairness of one leaves
\* the behaviours of the other services alone.
UdiFairness == Fairness /\ I!Fairness /\ J!Fairness
UdiSpec == UdiInit /\ [][UdiNext]_udiVars /\ UdiFairness

\* Of the service that is chosen, what its module promises: buffers read back what was
\* written (udi_buf.c), a timer fires when it is due (udi_timer.c), and so on.  What the
\* regions promise, RegionsAreSound, is checked of every service: theirs do not move there.
BuffersAreSound == service = "buffers" => B!BuffersAreSound
TimersAreOnTime == service = "timers" => T!TimersAreOnTime
LayoutsAreRead == service = "layouts" => L!LayoutsAreRead
AgentIsSound == service = "agent" => A!AgentIsSound
ListsRunAsWritten == service = "pio" => P!ListsRunAsWritten
ControlBlocksAreSound == service = "blocks" => K!ControlBlocksAreSound
\* Work that was queued, requests for attributes and messages to log come to their end
\* (udi_alloc.c, udi_inst_attr.c, udi_trlog.c).
AllWorkIsDone == WorkIsDone /\ I!RequestsAreAnswered /\ J!EverythingIsLogged
=============================================================================
