----------------------------- MODULE UdiServices -----------------------------
(* Channels, instance attributes and the log, three of the services of the UDI
   environment, beside one another, each with a state of its own.               *)
EXTENDS Integers, Sequences, FiniteSets

CONSTANTS ChanRegion, Chan, FirstChan, SpawnIdx, PoolSize, ChanCalls,
          AttrRequest, AttrName, AttrValue, AttrCalls,
          LogThread, LogPool, LogSize, LogWrites

VARIABLES service,      \* the one that a behaviour is of
          chanStatus, region, holder, spawns, chanAsked, marking, calling, chanQueue,
          events, pool, chanTold, blame, chanWild, chanCalls,
          attrs, count, locator, req, truth, mixed, lost, attrCalls,
          logRing, producer, consumer, logQueue, pooled, fmtbuf, logAt, logAsked, called, gone,
          logEvents, logLast, dropped, disturbed, logWild, writes

H == INSTANCE UdiChannel WITH
       Region <- ChanRegion, First <- FirstChan, MaxCalls <- ChanCalls,
       status <- chanStatus, asked <- chanAsked, queue <- chanQueue, told <- chanTold,
       wild <- chanWild, calls <- chanCalls

I == INSTANCE UdiAttr WITH
       Request <- AttrRequest, Name <- AttrName, Value <- AttrValue, MaxCalls <- AttrCalls,
       calls <- attrCalls

J == INSTANCE UdiTrlog WITH
       Thread <- LogThread, Pool <- LogPool, Size <- LogSize, MaxWrites <- LogWrites,
       ring <- logRing, queue <- logQueue, asked <- logAsked, events <- logEvents,
       last <- logLast, wild <- logWild, at <- logAt

\* While nothing has gone wrong with a channel its ends are held by the two that met, it is
\* not lost, and closing is told; it goes wrong for a cause (udi_imc.c, udi_MA_util.c).
ChannelsAreSound == service = "channels" => H!ChannelsAreSound

\* Reads and writes of a node's attributes are answered as if one came after the other
\* (udi_inst_attr.c).
AttributesAreSound == service = "attributes" => I!AttributesAreSound

\* A request to log is in one place until its callback, and what is written out is what
\* was traced, in order (udi_trlog.c).
LogIsSound == service = "log" => J!LogIsSound
=============================================================================
