----------------------------- MODULE UdiChannel -----------------------------
(* Channels of the UDI environment (udi/common/udi_imc.c, udi_mei.c): two ends in
   one piece of memory, each anchored in a region; spawning, where the two regions
   of a channel meet over an index and get an end each of a new one, made by the
   daemon if it is not there; and closing, with the management agent's event for
   the other end, sent from a pool of control blocks (udi_MA_util.c).  No lock
   covers a channel: what a call reads and what it then does are steps of their
   own where the code lets others in between.  "wild" is set where freed memory
   is used, or the lock of a channel without a region; what follows then is not
   modelled, "blame" says how it came to that.                                 *)
EXTENDS Integers, FiniteSets, Sequences

CONSTANTS Region, Chan, First,  \* the regions, channels, the one there at first
          SpawnIdx,
          PoolSize,             \* control blocks the agent's pool may grow to
          MaxCalls              \* bound on the drivers' calls
\* What the proofs need.
ConstantsMakeSense == First \in Chan /\ "none" \notin Region

None == "none"
Ends == Chan \X {1, 2}          \* CHAN_FIRST_END is 1
OtherEnd(e) == <<e[1], 3 - e[2]>>
Still == [what |-> "nothing", end |-> <<First, 1>>, to |-> None]
Of(k) == {<<k, 1>>, <<k, 2>>}

VARIABLES status, region,   \* [Ends -> status, chan_region]; "none": not made
          holder,           \* [Ends -> the region that has the handle]
          spawns,           \* chan_spawns of all first ends: [on, idx, by, chan]
          asked,            \* the daemon's requests: [rgn, end, idx, anchor]
          marking,          \* the daemon's place: {[chan, rgn]} or nothing
          calling,          \* [Region -> what its driver is in the midst of]
          queue,            \* [Region -> sequence of [end, kind]]
          events,           \* the agent's op_q: ends that closed
          pool,             \* control blocks: [free, out, back]
          told,             \* ends whose region has had the event
          blame, wild, calls
vars == <<status, region, holder, spawns, asked, marking, calling, queue, events,
          pool, told, blame, wild, calls>>

Gone(e) == status[e] = "freed"
Ready(r) == calling[r] = Still /\ ~wild
Call(r) == Ready(r) /\ calls < MaxCalls /\ calls' = calls + 1

\* _udi_channel_anchor.
Anchor(e, r) == status' = [status EXCEPT ![e] = "anchored"] /\ region' = [region EXCEPT ![e] = r]
WithoutNone(q, k) == q           \* slip: leaves what waits for the channel
Without(q, k) ==
    LET kept[i \in 0 .. Len(q)] == IF i = 0 THEN <<>>
                                   ELSE IF q[i].end[1] = k THEN kept[i - 1]
                                   ELSE Append(kept[i - 1], q[i])
    IN  kept[Len(q)]
\* The control blocks of the agent's that wait at a channel.
Waiting(q, k) == Cardinality({j \in DOMAIN q : q[j].end[1] = k /\ q[j].kind = "event"})

\* What a channel that region r discards is still part of.
Causes(r, k) ==
    (IF \E p \in spawns : p.on = k THEN {"parent closed"} ELSE {})
    \cup (IF \E q \in asked : q.end[1] = k THEN {"parent closed"} ELSE {})
    \cup (IF \E p \in spawns : p.chan = k THEN {"closed early"} ELSE {})
    \cup (IF \E e \in Of(k) : status[e] = "spawning" /\ holder[e] # None THEN {"taken loose"} ELSE {})
    \cup (IF \E j \in DOMAIN events : events[j][1] = k THEN {"late event"} ELSE {})
    \cup (IF \E x \in Region \ {r} : calling[x] # Still /\ calling[x].end[1] = k THEN {"race"} ELSE {})

\* _udi_channel_detach of both ends, with what waits for them, and _udi_channel_destroy.
Discard(k) == /\ status' = [e \in Ends |-> IF e \in Of(k) THEN "freed" ELSE status[e]]
              /\ region' = [e \in Ends |-> IF e \in Of(k) THEN None ELSE region[e]]
              /\ spawns' = {p \in spawns : p.on # k}
-----------------------------------------------------------------------------
(* The agent's pool.  An operation goes out with a control block of the pool, or
   one more if there is memory, or waits for one to come back.                 *)
\* udi_mei_call of the event: the target may have closed as well.
Target(e) == IF status[OtherEnd(e)] = "anchored" THEN region[OtherEnd(e)] ELSE None
Sent(e, to) == IF to = None THEN queue
               ELSE [queue EXCEPT ![to] = Append(@, [end |-> OtherEnd(e), kind |-> "event"])]
\* The control block is away until the event is complete, or at once back.
Spent(p, to) == IF to = None THEN [p EXCEPT !.back = @ + 1] ELSE [p EXCEPT !.out = @ + 1]

_udi_MA_send_op(e, to) ==
    \/ /\ pool.free > 0
       /\ pool' = Spent([pool EXCEPT !.free = @ - 1], to) /\ queue' = Sent(e, to)
       /\ UNCHANGED events
    \/ /\ pool.free = 0 /\ pool.out + pool.back < PoolSize
       /\ pool' = Spent(pool, to) /\ queue' = Sent(e, to)
       /\ UNCHANGED events
    \/ /\ pool.free = 0                             \* no memory without blocking
       /\ events' = Append(events, e)
       /\ UNCHANGED <<pool, queue>>

_udi_MA_return_cb ==
    /\ pool.back > 0 /\ ~wild
    /\ LET back == [pool EXCEPT !.back = @ - 1] IN
       IF events = <<>>
       THEN /\ pool' = [back EXCEPT !.free = @ + 1]
            /\ UNCHANGED <<queue, events, wild>>
       ELSE LET e == Head(events) IN
            /\ events' = Tail(events)
            /\ wild' = Gone(e)
            /\ pool' = Spent(back, Target(e))
            /\ queue' = Sent(e, Target(e))
    /\ UNCHANGED <<status, region, holder, spawns, asked, marking, calling, told, blame, calls>>
-----------------------------------------------------------------------------
(* Spawning.                                                                   *)
Pending(k, i) == {p \in spawns : p.on = k /\ p.idx = i}
\* What _udi_spawn_rendezvous finds: the end the other region has left for us.
Meets(r, e, i, anchor) == \E p \in Pending(e[1], i) :
    LET new == <<p.chan, 2>> IN
    /\ spawns' = spawns \ {p}
    /\ holder' = [holder EXCEPT ![new] = r]
    /\ IF Gone(new) THEN wild' = TRUE /\ UNCHANGED <<status, region>>
       ELSE /\ UNCHANGED wild
            /\ IF anchor THEN Anchor(new, r) ELSE UNCHANGED <<status, region>>
    /\ UNCHANGED blame

\* The list's lock is that of the first end's region.
NoLock(k) == region[<<k, 1>>] = None

udi_channel_spawn(r) == \E e \in Ends, i \in SpawnIdx, anchor \in BOOLEAN :
    /\ Call(r) /\ holder[e] = r /\ status[e] = "anchored"
    /\ ~\E q \in asked : q.rgn = r
    /\ \A p \in Pending(e[1], i) : p.by # r       \* once for each end
    /\ IF NoLock(e[1])
       THEN /\ wild' = TRUE /\ blame' = blame \cup {"no region"}
            /\ UNCHANGED <<status, region, holder, spawns, asked>>
       ELSE \/ Meets(r, e, i, anchor) /\ UNCHANGED asked
            \/ /\ Pending(e[1], i) = {}
               /\ asked' = asked \cup {[rgn |-> r, end |-> e, idx |-> i, anchor |-> anchor]}
               /\ UNCHANGED <<status, region, holder, spawns, blame, wild>>
    /\ UNCHANGED <<marking, calling, queue, events, pool, told>>

\* The daemon makes a channel, and discards it if the other region was first.
_udi_channel_spawn_complete == \E q \in asked :
    /\ marking = {} /\ ~wild
    /\ asked' = asked \ {q}
    /\ IF NoLock(q.end[1])
       THEN /\ wild' = TRUE
            /\ UNCHANGED <<status, region, holder, spawns, marking, blame>>
       ELSE \/ Meets(q.rgn, q.end, q.idx, q.anchor) /\ UNCHANGED marking
            \/ /\ Pending(q.end[1], q.idx) = {}
               /\ \E k \in Chan :
                    /\ \A e \in Of(k) : status[e] = "none"
                    /\ status' = [status EXCEPT ![<<k, 2>>] = "loose", ![<<k, 1>>] =
                                    IF q.anchor THEN "anchored" ELSE "loose"]
                    /\ region' = [region EXCEPT ![<<k, 1>>] = IF q.anchor THEN q.rgn ELSE None]
                    /\ spawns' = spawns \cup {[on |-> q.end[1], idx |-> q.idx, by |-> q.rgn, chan |-> k]}
                    /\ marking' = {[chan |-> k, rgn |-> q.rgn]}
               /\ UNCHANGED <<holder, blame, wild>>
    /\ UNCHANGED <<calling, queue, events, pool, calls, told>>

\* With the lock let go of, whatever the other end is by now.
Mark ==
    /\ marking # {} /\ ~wild
    /\ \E m \in marking : LET e == <<m.chan, 2>> IN
       /\ wild' = Gone(e)
       /\ status' = [status EXCEPT ![e] = IF Gone(e) THEN @ ELSE "spawning"]
       /\ blame' = IF status[e] # "loose" THEN blame \cup {"race"} ELSE blame
       /\ holder' = [holder EXCEPT ![<<m.chan, 1>>] = m.rgn]
    /\ marking' = {}
    /\ UNCHANGED <<region, spawns, asked, calling, queue, events, pool, calls, told>>

\* Of an end taken loose: if the other has closed by now, this one is told.
udi_channel_anchor(r) == \E e \in Ends :
    /\ Call(r) /\ holder[e] = r /\ status[e] \in {"loose", "spawning", "freed"}
    /\ IF Gone(e)
       THEN /\ wild' = TRUE
            /\ UNCHANGED <<status, region, queue, events, pool>>
       ELSE /\ Anchor(e, r)
            /\ UNCHANGED wild
            /\ IF status[OtherEnd(e)] = "closed" THEN _udi_MA_send_op(OtherEnd(e), r)
               ELSE UNCHANGED <<queue, events, pool>>
    /\ UNCHANGED <<holder, spawns, asked, marking, calling, blame, told>>
-----------------------------------------------------------------------------
(* Closing: the end is marked, then the other is looked at.                    *)
udi_channel_close(r) == \E e \in Ends :
    /\ Call(r) /\ holder[e] = r /\ status[e] \notin {"none", "closed"}
    /\ IF Gone(e)
       THEN wild' = TRUE /\ UNCHANGED <<status, holder, calling>>
       ELSE /\ status' = [status EXCEPT ![e] = "closed"]
            /\ holder' = [holder EXCEPT ![e] = None]
            /\ calling' = [calling EXCEPT ![r] = [what |-> "close", end |-> e, to |-> None]]
            /\ UNCHANGED wild
    /\ UNCHANGED <<region, spawns, asked, marking, queue, events, pool, blame, told>>

LookAtOther(r) ==
    /\ calling[r].what = "close" /\ ~wild
    /\ calling' = [calling EXCEPT ![r] = Still]
    /\ LET e == calling[r].end
           o == status[OtherEnd(e)]
       IN  CASE Gone(e) ->
                  /\ wild' = TRUE
                  /\ UNCHANGED <<status, region, spawns, queue, events, pool, blame>>
             [] o = "anchored" ->
                  /\ _udi_MA_send_op(e, Target(e))
                  /\ UNCHANGED <<status, region, spawns, blame, wild>>
             [] o = "loose" ->
                  UNCHANGED <<status, region, spawns, queue, events, pool, blame, wild>>
             [] OTHER ->
                  /\ Discard(e[1])
                  /\ queue' = [x \in Region |-> Without(queue[x], e[1])]
                  /\ pool' = LET n == Waiting(queue[r], e[1])
                             IN  [pool EXCEPT !.out = @ - n, !.back = @ + n]
                  /\ blame' = blame \cup Causes(r, e[1])
                  /\ UNCHANGED <<events, wild>>
    /\ UNCHANGED <<holder, asked, marking, calls, told>>
-----------------------------------------------------------------------------
(* Channel operations.                                                         *)
udi_mei_call(r) == \E e \in Ends :
    /\ Call(r) /\ holder[e] = r /\ status[e] \in {"anchored", "freed"}
    /\ \/ /\ Gone(e)
          /\ wild' = TRUE /\ UNCHANGED calling
       \/ /\ status[OtherEnd(e)] = "anchored"
          /\ calling' = [calling EXCEPT ![r] =
                           [what |-> "send", end |-> OtherEnd(e), to |-> region[OtherEnd(e)]]]
          /\ UNCHANGED wild
    /\ UNCHANGED <<status, region, holder, spawns, asked, marking, queue, events, pool, blame, told>>

Enqueue(r) ==
    /\ calling[r].what = "send" /\ ~wild
    /\ queue' = [queue EXCEPT ![calling[r].to] = Append(@, [end |-> calling[r].end, kind |-> "op"])]
    /\ calling' = [calling EXCEPT ![r] = Still]
    /\ UNCHANGED <<status, region, holder, spawns, asked, marking, events, pool, blame, wild, calls, told>>

\* The region runs what waits; an event's control block goes back.
RunQueue(r) ==
    /\ Ready(r) /\ queue[r] # <<>>
    /\ wild' = Gone(Head(queue[r]).end)
    /\ pool' = IF Head(queue[r]).kind = "event" THEN [pool EXCEPT !.out = @ - 1, !.back = @ + 1]
               ELSE pool
    /\ queue' = [queue EXCEPT ![r] = Tail(@)]
    /\ told' = IF Head(queue[r]).kind = "event" THEN told \cup {Head(queue[r]).end} ELSE told
    /\ UNCHANGED <<status, region, holder, spawns, asked, marking, calling, events, blame, calls>>

Init == /\ status = [e \in Ends |-> IF e[1] = First THEN "anchored" ELSE "none"]
        /\ \E f \in {g \in [{1, 2} -> Region] : g[1] # g[2]} :
             /\ region = [e \in Ends |-> IF e[1] = First THEN f[e[2]] ELSE None]
             /\ holder = region
        /\ spawns = {} /\ asked = {} /\ marking = {}
        /\ calling = [r \in Region |-> Still]
        /\ queue = [r \in Region |-> <<>>]
        /\ events = <<>> /\ pool = [free |-> 1, out |-> 0, back |-> 0]
        /\ told = {} /\ blame = {} /\ wild = FALSE /\ calls = 0

Next == \/ \E r \in Region : \/ udi_channel_spawn(r) \/ udi_channel_anchor(r)
                             \/ udi_channel_close(r) \/ LookAtOther(r)
                             \/ udi_mei_call(r) \/ Enqueue(r) \/ RunQueue(r)
        \/ _udi_channel_spawn_complete \/ Mark \/ _udi_MA_return_cb
Spec == Init /\ [][Next]_vars
-----------------------------------------------------------------------------
\* Where the memory of a channel is used after it is gone, two regions or the
\* daemon were at it at once, or an event came late, or one of the two ways that
\* need no race: a spawned end closed before the other was taken, and a channel
\* closed with a spawn under way.
WildForCause == wild => blame # {}
Calm == ~wild /\ blame = {}

\* The two ends of a channel are held by the two regions that met, not one.
MeetOnce == Calm => \A k \in Chan :
    holder[<<k, 1>>] # None /\ holder[<<k, 2>>] # None => holder[<<k, 1>>] # holder[<<k, 2>>]

\* No channel is lost: each is held, or on the list for the other region, or about to be.
NoneLost == Calm => \A k \in Chan :
    \/ \A e \in Of(k) : status[e] \in {"none", "freed"}
    \/ \E e \in Of(k) : holder[e] # None
    \/ \E p \in spawns : p.chan = k
    \/ \E m \in marking : m.chan = k
    \/ \E r \in Region : calling[r].what = "close" /\ calling[r].end[1] = k
    
\* What waits for a region waits at a channel that is there.
QueuedForLive == Calm => \A r \in Region : \A j \in DOMAIN queue[r] : ~Gone(queue[r][j].end)

\* An event waits for a control block only while some are out, to come back.
NoEventStranded == events # <<>> => pool.out + pool.back > 0

\* Whose other end has closed is told, once it is anchored.
ClosedIsTold == Calm => \A e \in Ends :
    status[e] = "closed" /\ status[OtherEnd(e)] = "anchored" =>
      \/ OtherEnd(e) \in told
      \/ e \in {events[j] : j \in DOMAIN events}
      \/ \E r \in Region : \/ calling[r].what = "close" /\ calling[r].end = e
                           \/ \E j \in DOMAIN queue[r] :
                                queue[r][j] = [end |-> OtherEnd(e), kind |-> "event"]

ChannelsAreSound == WildForCause /\ MeetOnce /\ NoneLost /\ QueuedForLive
                    /\ NoEventStranded /\ ClosedIsTold
=============================================================================
