------------------------------ MODULE UdiRegion ------------------------------
(* Regions of the UDI environment: a driver runs in regions that one thread
   enters at a time (udi/common/udi_mei.c, udi_imc.c, udi_env.h); asynchronous
   services, with the daemon that gets memory for them (udi_alloc.c, udi_alloc.h,
   ripple/udi_osdep.c), and timers that have come due (udi_timer.c) reach it
   through its queue.  A thread is a stack of frames, one for each region it is
   in; a step is what happens under one taking of a region's lock.  "wild" is set
   where the code panics, unlinks a list's head, keeps its locks or touches a
   freed region; what follows then is not modelled.                            *)
EXTENDS Naturals, SequencesExt

CONSTANTS Region, Interrupt,    \* the regions, those with reg_is_interrupt
          Cb, Thread,
          CallbackLimit,        \* _OSDEP_CALLBACK_LIMIT
          MemoryFails,          \* may a blocking request for memory be refused?
          MaxCalls              \* bound on what drivers and threads call

Env == "env"                    \* outside the regions: the MA, mappers
Daemon == "daemon"
Heartbeat == "heartbeat"
Actor == Thread \cup {Daemon, Heartbeat}
Nothing == "nothing"

\* The names of places and of regions mean one thing each.
ConstantsMakeSense ==
    /\ Env \notin Region /\ Nothing \notin Region
    /\ Cb \cap {"clear", "work", "wait"} = {}
    /\ CallbackLimit \in Nat /\ MemoryFails \in BOOLEAN

ASSUME RegionConstants == ConstantsMakeSense

VARIABLES queue, active, depth, \* of each region: reg_queue, reg_active,
          life,                 \* reg_callback_depth; "up", "dying" (torn down,
                                \* reg_self_destruct), "leaked" or "gone"
          cb,                   \* [Cb -> [rgn, from, state, call]]
          list, event,          \* _udi_alloc_list, _udi_alloc_event
          stack,                \* of each actor: frames [rgn, by]
          daemon, due,          \* the daemon's and the heartbeat's place
          refused, wild, calls

vars == <<queue, active, depth, life, cb, list, event, stack, daemon, due,
          refused, wild, calls>>

Queued(c) == \E r \in Region : c \in Range(queue[r])
Idle(c) == cb[c].state = "idle" /\ ~Queued(c)
In(t, r) == stack[t] # <<>> /\ Last(stack[t]).rgn = r
Inside(r) == {t \in Actor : \E k \in DOMAIN stack[t] : stack[t][k].rgn = r}
Unlinked(s, c) == IF c \in Range(s) THEN RemoveAt(s, CHOOSE k \in DOMAIN s : s[k] = c) ELSE s
Push(t, f) == stack' = [stack EXCEPT ![t] = Append(@, f)]

Call == calls < MaxCalls /\ ~wild /\ calls' = calls + 1
\* Driver code of a region in which thread t is.
DriverCalls(t, c) == Call /\ In(t, cb[c].rgn) /\ life[cb[c].rgn] = "up"
Kept(c, s) == cb' = [cb EXCEPT ![c].state = s]

\* The next element of the region's queue runs, or nobody is in the region.  A
\* callback leaves its marks behind when it is taken.
Taken(c) == cb' = [cb EXCEPT ![c].state = "idle", ![c].call = FALSE]
_udi_run_next_on_region_queue(r) == /\ Taken(Head(queue[r]))
                                    /\ queue' = [queue EXCEPT ![r] = Tail(@)]
\* _OSDEP_CONT_RUN_THIS_REGION: an interrupt region is left with its queue.
Runs(r) == r \notin Interrupt /\ queue[r] # <<>>
-----------------------------------------------------------------------------
(* Channel operations.                                                         *)
DefersNested(r) == depth[r] > 0     \* slip: tells by the callbacks under way
Defers(r) == active[r]              \* _OSDEP_DEFER_MEI_CALL

Deliver(t, c, to, from) ==
    LET moved == [cb EXCEPT ![c].rgn = to, ![c].from = from] IN
    CASE to = Env ->
           cb' = moved /\ UNCHANGED <<queue, active, stack>>
      [] to # Env /\ life[to] # "up" ->               \* the channel is closed
           cb' = [cb EXCEPT ![c].state = "freed"] /\ UNCHANGED <<queue, active, stack>>
      [] to # Env /\ life[to] = "up" /\ Defers(to) ->
           /\ cb' = moved
           /\ queue' = [queue EXCEPT ![to] = Append(@, c)]
           /\ UNCHANGED <<active, stack>>
      [] OTHER ->
           /\ cb' = moved
           /\ active' = [active EXCEPT ![to] = TRUE]
           /\ Push(t, [rgn |-> to, by |-> "mei"])
           /\ UNCHANGED queue

udi_mei_call(t) ==
    \E c \in Cb, to \in Region \cup {Env} :
       /\ Idle(c)
       /\ \/ DriverCalls(t, c)
          \/ Call /\ t \in Thread /\ stack[t] = <<>> /\ cb[c].rgn = Env /\ to # Env
       /\ Deliver(t, c, to, cb[c].rgn)
       /\ UNCHANGED <<depth, life, list, event, daemon, due, refused, wild>>

\* Driver code returns: out of an immediate callback, or on to the next element
\* of the queue, or out of the region.  Only those who entered by a channel
\* operation, or to fire timers, look for reg_self_destruct.
Return(t) ==
    /\ stack[t] # <<>> /\ ~wild
    /\ LET f == Last(stack[t])
           r == f.rgn
           Leave == stack' = [stack EXCEPT ![t] = Front(@)]
       IN  CASE f.by = "callback" ->
                  /\ depth' = [depth EXCEPT ![r] = @ - 1]
                  /\ Leave
                  /\ UNCHANGED <<queue, active, life, cb>>
             [] f.by # "callback" /\ Runs(r) ->
                  /\ _udi_run_next_on_region_queue(r)
                  /\ UNCHANGED <<active, depth, life, stack>>
             [] OTHER ->
                  /\ active' = [active EXCEPT ![r] = FALSE]
                  /\ life' = [life EXCEPT ![r] = IF @ # "dying" THEN @
                                                 ELSE IF f.by = "mei" THEN "gone" ELSE "leaked"]
                  /\ Leave
                  /\ UNCHANGED <<queue, depth, cb>>
    /\ UNCHANGED <<list, event, daemon, due, refused, wild, calls>>

\* _udi_run_inactive_region, _udi_queue_callback_l: somebody who has put an element
\* on the queue runs it if nobody is in the region.
EnterQueue(t, r, by) ==
    IF active[r] \/ ~Runs(r) THEN UNCHANGED <<queue, active, cb, stack>>
    ELSE /\ active' = [active EXCEPT ![r] = TRUE]
         /\ _udi_run_next_on_region_queue(r)
         /\ Push(t, [rgn |-> r, by |-> by])
-----------------------------------------------------------------------------
(* Asynchronous services.                                                      *)
\* _UDI_IMMED_CALLBACK, with the control block idle.
ImmediateCallback(t, c) ==
    LET r == cb[c].rgn IN
    IF depth[r] < CallbackLimit
    THEN /\ depth' = [depth EXCEPT ![r] = @ + 1]
         /\ Push(t, [rgn |-> r, by |-> "callback"])
         /\ Kept(c, "idle")
         /\ UNCHANGED queue
    ELSE /\ cb' = [cb EXCEPT ![c].state = "immed_done", ![c].call = TRUE]
         /\ queue' = [queue EXCEPT ![r] = Append(@, c)]
         /\ UNCHANGED <<depth, stack>>

\* A service that has what it needs, or _UDI_ALLOC_QUEUE.
Served(t) == \E c \in Cb :
    /\ DriverCalls(t, c) /\ Idle(c)
    /\ ImmediateCallback(t, c)
    /\ UNCHANGED <<active, life, list, event, daemon, due, refused, wild>>

RaiseNot == UNCHANGED event         \* slip: does not wake the daemon
Raise == event' = TRUE

_udi_alloc_queue(t) == \E c \in Cb :
    /\ DriverCalls(t, c) /\ Idle(c)
    /\ cb' = [cb EXCEPT ![c].state = "pending", ![c].call = TRUE]
    /\ list' = Append(list, c)
    /\ Raise
    /\ UNCHANGED <<queue, active, depth, life, stack, daemon, due, refused, wild>>

\* The control block of a service under way.  A busy one panics: the case meant
\* for it tests _UDI_ALLOC_CANCEL.  For a queued callback the queue's head is
\* unlinked instead; a failed one goes on with both locks held.
udi_cancel(t) == \E c \in Cb :
    /\ DriverCalls(t, c) /\ cb[c].state \in {"pending", "busy", "done", "immed_done", "failed"}
    /\ IF cb[c].state = "pending"
       THEN /\ list' = Unlinked(list, c)
            /\ refused' = refused \ {c}
            /\ IF depth[cb[c].rgn] < CallbackLimit
               THEN /\ depth' = [depth EXCEPT ![cb[c].rgn] = @ + 1]
                    /\ Push(t, [rgn |-> cb[c].rgn, by |-> "callback"])
                    /\ Taken(c)
                    /\ UNCHANGED queue
               ELSE /\ cb' = [cb EXCEPT ![c].state = "immed_done"]
                    /\ queue' = [queue EXCEPT ![cb[c].rgn] = Append(@, c)]
                    /\ UNCHANGED <<depth, stack>>
            /\ UNCHANGED wild
       ELSE /\ wild' = TRUE
            /\ UNCHANGED <<list, refused, depth, stack, cb, queue>>
    /\ UNCHANGED <<active, life, event, daemon, due>>

\* The daemon: the head of the list is busy while memory is got, which is then
\* the callback's, or refused, or (a DMA map) refused for good.  The event is
\* cleared after each piece of work, not when it is waited for.
_udi_alloc_daemon_work ==
    /\ daemon = "work" /\ stack[Daemon] = <<>> /\ list # <<>> /\ ~wild
    /\ Kept(Head(list), "busy")
    /\ daemon' = Head(list)
    /\ list' = Tail(list)
    /\ UNCHANGED <<queue, active, depth, life, event, stack, due, refused, wild, calls>>

Requeue ==
    /\ MemoryFails /\ daemon \in Cb /\ stack[Daemon] = <<>> /\ ~wild
    /\ Kept(daemon, "pending")
    /\ list' = Append(list, daemon)
    /\ refused' = refused \cup {daemon}
    /\ daemon' = IF list = <<>> THEN "wait" ELSE "clear"
    /\ UNCHANGED <<queue, active, depth, life, event, stack, due, wild, calls>>

\* _udi_queue_callback_l in the daemon, which runs the region if nobody is in it.
Complete ==
    /\ daemon \in Cb /\ stack[Daemon] = <<>> /\ ~wild
    /\ daemon' = "clear"
    /\ refused' = refused \ {daemon}
    /\ LET r == cb[daemon].rgn
           full == Append(queue[r], daemon)
           c == Head(full)
       IN  IF active[r] \/ r \in Interrupt
           THEN /\ Kept(daemon, "done")
                /\ queue' = [queue EXCEPT ![r] = full]
                /\ UNCHANGED <<active, stack>>
           ELSE /\ queue' = [queue EXCEPT ![r] = Tail(full)]
                /\ cb' = [[cb EXCEPT ![daemon].state = "done"]
                             EXCEPT ![c].state = "idle", ![c].call = FALSE]
                /\ active' = [active EXCEPT ![r] = TRUE]
                /\ Push(Daemon, [rgn |-> r, by |-> "daemon"])
    /\ UNCHANGED <<depth, life, list, event, due, wild, calls>>

FailForGood ==
    /\ MemoryFails /\ daemon \in Cb /\ stack[Daemon] = <<>> /\ ~wild
    /\ Kept(daemon, "failed")
    /\ daemon' = "clear"
    /\ UNCHANGED <<queue, active, depth, life, list, event, stack, due, refused, wild, calls>>

\* _udi_alloc_daemon of the kernel's port, around the work.
_udi_alloc_daemon ==
    /\ stack[Daemon] = <<>> /\ ~wild
    /\ \/ daemon = "clear" /\ event' = FALSE /\ daemon' = "work"
       \/ daemon = "work" /\ list = <<>> /\ daemon' = "wait" /\ UNCHANGED event
       \/ daemon = "wait" /\ event /\ daemon' = "work" /\ UNCHANGED event
    /\ UNCHANGED <<queue, active, depth, life, cb, list, stack, due, refused, wild, calls>>
-----------------------------------------------------------------------------
(* Timers, their time left to UdiTimer: the heartbeat queues what has come due
   and enters the region when it has let go of its own lock.                   *)
udi_timer_start(t) == \E c \in Cb :
    /\ DriverCalls(t, c) /\ Idle(c)
    /\ cb' = [cb EXCEPT ![c].state = "timer", ![c].call = TRUE]
    /\ UNCHANGED <<queue, active, depth, life, list, event, stack, daemon, due, refused, wild>>

udi_timer_cancel(t) == \E c \in Cb :
    /\ DriverCalls(t, c) /\ cb[c].state \in {"timer", "timer_done"}
    /\ queue' = [queue EXCEPT ![cb[c].rgn] = Unlinked(@, c)]
    /\ Taken(c)
    /\ UNCHANGED <<active, depth, life, list, event, stack, daemon, due, refused, wild>>

_udi_timer_heartbeat ==
    \/ \E c \in Cb :
       /\ cb[c].state = "timer" /\ due = Nothing /\ stack[Heartbeat] = <<>> /\ ~wild
       /\ Kept(c, "timer_done")
       /\ queue' = [queue EXCEPT ![cb[c].rgn] = Append(@, c)]
       /\ due' = cb[c].rgn
       /\ UNCHANGED <<active, depth, life, list, event, stack, daemon, refused, wild, calls>>
    \/ /\ due # Nothing /\ ~wild
       /\ due' = Nothing
       /\ wild' = (life[due] = "gone")
       /\ EnterQueue(Heartbeat, due, "mei")
       /\ UNCHANGED <<depth, life, list, event, daemon, refused, calls>>
-----------------------------------------------------------------------------
\* The MA tears a region down when its driver has nothing under way: from outside,
\* or from within the region, whose last frame then frees it.
Quiet(r) == queue[r] = <<>> /\ \A c \in Cb : cb[c].rgn = r => cb[c].state \in {"idle", "freed", "timer"}

_udi_region_destroy(t) == \E r \in Region :
    /\ Call /\ life[r] = "up" /\ Quiet(r)
    /\ (stack[t] = <<>> /\ t \in Thread) \/ In(t, r)
    /\ life' = [life EXCEPT ![r] = IF active[r] THEN "dying" ELSE "gone"]
    /\ active' = [active EXCEPT ![r] = TRUE]
    /\ cb' = [c \in Cb |-> IF cb[c].rgn = r THEN [cb[c] EXCEPT !.state = "freed"] ELSE cb[c]]
    /\ UNCHANGED <<queue, depth, list, event, stack, daemon, due, refused, wild>>

Init == /\ queue = [r \in Region |-> <<>>]
        /\ active = [r \in Region |-> FALSE]
        /\ depth = [r \in Region |-> 0]
        /\ life = [r \in Region |-> "up"]
        /\ cb = [c \in Cb |-> [rgn |-> Env, from |-> Env, state |-> "idle", call |-> FALSE]]
        /\ list = <<>> /\ event = FALSE
        /\ stack = [t \in Actor |-> <<>>]
        /\ daemon = "work" /\ due = Nothing
        /\ refused = {} /\ wild = FALSE /\ calls = 0

DaemonStep == \/ _udi_alloc_daemon_work \/ Requeue \/ Complete \/ FailForGood
              \/ _udi_alloc_daemon

Next == \/ \E t \in Actor : \/ udi_mei_call(t) \/ Return(t)
                            \/ Served(t) \/ _udi_alloc_queue(t) \/ udi_cancel(t)
                            \/ udi_timer_start(t) \/ udi_timer_cancel(t)
                            \/ _udi_region_destroy(t)
        \/ DaemonStep \/ _udi_timer_heartbeat

\* Driver code returns, the daemon is scheduled, memory comes in the end, and the
\* clock goes on.
Fairness == /\ \A t \in Actor : WF_vars(Return(t))
            /\ WF_vars(DaemonStep) /\ SF_vars(Complete)
            /\ WF_vars(_udi_timer_heartbeat)

Spec == Init /\ [][Next]_vars /\ Fairness
-----------------------------------------------------------------------------
\* One thread is in a region, and it is marked so exactly then (or torn down).
OneThreadInARegion ==
    \A r \in Region : /\ Cardinality(Inside(r)) <= 1
                      /\ life[r] = "up" => (active[r] <=> Inside(r) # {})
                      /\ life[r] = "dying" => Inside(r) # {}
                      /\ life[r] = "gone" => Inside(r) = {}

\* Work waits at a region nobody is in only for the heartbeat that has just put a
\* timer there: an operation never overtakes an earlier one.  (At an interrupt
\* region it waits for ever, and is overtaken.)
NothingWaitsAlone ==
    \A r \in Region \ Interrupt :
       life[r] = "up" /\ ~active[r] /\ queue[r] # <<>> =>
         due = r /\ \A c \in Range(queue[r]) : cb[c].state = "timer_done"

\* A control block is in one place, and its marks say which.
Places(c) == UNION {{<<r, k>> : k \in {j \in DOMAIN queue[r] : queue[r][j] = c}} : r \in Region}

CbInOnePlace ==
    ~wild => \A c \in Cb :
      LET places == Places(c)
          listed == {k \in DOMAIN list : list[k] = c}
      IN  /\ Cardinality(places) + Cardinality(listed) <= 1
          /\ listed # {} <=> cb[c].state = "pending"
          /\ (\E p \in places : cb[c].call) <=> cb[c].state \in {"done", "immed_done", "timer_done"}
          /\ \A p \in places : p[1] = cb[c].rgn
          /\ (daemon = c) <=> cb[c].state = "busy"

\* The callbacks nested in a region are those counted.
Callbacks(r) ==
    UNION {{<<t, k>> : k \in {j \in DOMAIN stack[t] :
                               stack[t][j] = [rgn |-> r, by |-> "callback"]}} : t \in Actor}

DepthIsCounted ==
    \A r \in Region : depth[r] <= CallbackLimit /\ depth[r] = Cardinality(Callbacks(r))

RegionsAreSound == OneThreadInARegion /\ NothingWaitsAlone /\ CbInOnePlace /\ DepthIsCounted

\* When drivers stop asking (MaxCalls), what was queued has run and what was asked of
\* the daemon has ended, unless the daemon sleeps on requests that were refused memory:
\* nothing wakes it for them.
Asleep == /\ daemon = "wait" /\ ~event /\ list # <<>> /\ Range(list) \subseteq refused
Waiting(c) == Idle(c) = FALSE /\ cb[c].state \notin {"timer", "failed", "freed"}
              /\ cb[c].rgn \notin Interrupt
WorkIsDone == []<>(wild \/ Asleep \/ \A c \in Cb : ~Waiting(c))
=============================================================================
