------------------------------ MODULE UdiTrlog ------------------------------
(* Tracing and logging (udi_trlog.c).  Traced events go through a ring whose places
   are filled outside the lock; requests to log go through a queue.  This port has no
   daemon: whoever writes an event does the daemon's work.  A thread is one driver's
   region; the agent's blocks, for messages of the environment, lie in a pool.      *)
EXTENDS Integers, Sequences, SequencesExt, FiniteSets

CONSTANTS Thread, Pool,
          Size,         \* places of the ring (_OSDEP_TRLOG_SIZE)
          MaxWrites
\* What the proofs need: a ring of more than one place, and blocks of the pool that are
\* no driver's own.
ConstantsMakeSense == Size \in Nat /\ Size > 1 /\ IsFiniteSet(Pool) /\ Thread \cap Pool = {}

VARIABLES ring, producer, consumer,
          queue,        \* _udi_trlog_q
          pooled,       \* _udi_MA_logcbQ
          fmtbuf,
          at,           \* where each thread is
          asked, called,  \* blocks to be logged; those whose callback is queued
          gone,         \* regions destroyed
          events, last, dropped,  \* history: events so far, the last that was written
                                  \* out, those that gave way
          disturbed,    \* two threads have been at one event, place or buffer
          wild, writes
vars == <<ring, producer, consumer, queue, pooled, fmtbuf, at, asked, called,
          gone, events, last, dropped, disturbed, wild, writes>>

After(i) == (i + 1) % Size
Idle == [pc |-> "idle", slot |-> 0, event |-> 0, cb |-> {}, mine |-> <<>>]
Others(t, pcs) == \E u \in Thread \ {t} : at[u].pc \in pcs
Goes(t, pc) == at' = [at EXCEPT ![t].pc = pc]
IsAt(t, pc) == ~wild /\ at[t].pc = pc
\* Between looking and looking again a worker holds no lock.
AtWork == {"format", "next", "print", "log"}

Init == /\ ring = [i \in 0 .. Size - 1 |-> [done |-> FALSE, text |-> 0, by |-> {}, event |-> 0]]
        /\ producer = 0 /\ consumer = 0
        /\ queue = <<>> /\ pooled = SetToSeq(Pool)
        /\ fmtbuf = 0
        /\ at = [t \in Thread |-> Idle]
        /\ asked = {} /\ called = {} /\ gone = {}
        /\ events = 0 /\ last = 0 /\ dropped = {}
        /\ disturbed = FALSE /\ wild = FALSE /\ writes = 0
------------------------------------------------------------------------------
Writes(t) == /\ IsAt(t, "idle") /\ t \notin gone
             /\ writes < MaxWrites /\ writes' = writes + 1
\* A place is taken under the lock; in a full ring the oldest event gives way.
FirstLeftOver(full) == consumer         \* slip: a full ring becomes an empty one
FirstLeft(full) == IF full THEN After(consumer) ELSE consumer
udi_trace_write(t) ==
    LET full == After(producer) = consumer IN
    /\ Writes(t)
    /\ ring' = [ring EXCEPT ![producer].done = FALSE, ![producer].event = events + 1]
    /\ producer' = After(producer)
    /\ consumer' = FirstLeft(full)
    /\ dropped' = IF full THEN dropped \cup {ring[consumer].event} ELSE dropped
    /\ events' = events + 1
    /\ at' = [at EXCEPT ![t] = [Idle EXCEPT !.pc = "fill", !.slot = producer, !.event = events + 1]]
    /\ disturbed' = \/ disturbed
                    \/ \E u \in Thread : at[u].pc \in {"fill", "commit"} /\ at[u].slot = producer
                    \/ full /\ Others(t, {"format", "next"})
    /\ UNCHANGED <<queue, pooled, fmtbuf, asked, called, gone, last, wild>>
Fill(t) ==
    /\ IsAt(t, "fill")
    /\ ring' = [ring EXCEPT ![at[t].slot].text = at[t].event, ![at[t].slot].by = {t}]
    /\ Goes(t, "commit")
    /\ UNCHANGED <<producer, consumer, queue, pooled, fmtbuf, asked, called, gone,
                   events, last, dropped, disturbed, wild, writes>>
Commit(t) ==
    /\ IsAt(t, "commit")
    /\ ring' = [ring EXCEPT ![at[t].slot].done = TRUE]
    /\ Goes(t, "look")
    /\ UNCHANGED <<producer, consumer, queue, pooled, fmtbuf, asked, called, gone,
                   events, last, dropped, disturbed, wild, writes>>

Unring == UNCHANGED <<ring, producer, consumer, events, last, dropped>>
udi_log_write(t) ==                     \* with a block of the driver's own
    /\ Writes(t) /\ t \notin asked
    /\ at' = [at EXCEPT ![t] = [Idle EXCEPT !.pc = "ask", !.cb = {t}]]
    /\ asked' = asked \cup {t}
    /\ Unring
    /\ UNCHANGED <<queue, pooled, fmtbuf, called, gone, disturbed, wild>>
_udi_env_log_write(t) ==                \* without a block nothing is logged
    /\ Writes(t)
    /\ IF pooled = <<>> THEN UNCHANGED at ELSE Goes(t, "take")
    /\ Unring
    /\ UNCHANGED <<queue, pooled, fmtbuf, asked, called, gone, disturbed, wild>>
\* The pool has no lock: it may be empty by now, and what is first may be first to others
\* too. A block that has left the pool meanwhile has two threads.
Take(t) ==
    /\ IsAt(t, "take")
    /\ IF pooled = <<>> THEN wild' = TRUE /\ UNCHANGED at
       ELSE /\ at' = [at EXCEPT ![t] = [Idle EXCEPT !.pc = "unlink", !.cb = {Head(pooled)}]]
            /\ UNCHANGED wild
    /\ Unring
    /\ UNCHANGED <<queue, pooled, fmtbuf, asked, called, gone, disturbed, writes>>
Unlink(t) ==
    /\ IsAt(t, "unlink")
    /\ \E c \in at[t].cb :
          \/ /\ \E i \in DOMAIN pooled : pooled[i] = c /\ pooled' = RemoveAt(pooled, i)
             /\ asked' = asked \cup {c}
             /\ at' = [at EXCEPT ![t] = [Idle EXCEPT !.pc = "ask", !.cb = {c}]]
             /\ UNCHANGED wild
          \/ /\ c \notin Range(pooled) /\ wild' = TRUE
             /\ UNCHANGED <<at, pooled, asked>>
    /\ Unring
    /\ UNCHANGED <<queue, fmtbuf, called, gone, disturbed, writes>>
_udi_log_vwrite(t) ==
    /\ IsAt(t, "ask")
    /\ \E c \in at[t].cb : queue' = Append(queue, c)
    /\ at' = [at EXCEPT ![t] = [Idle EXCEPT !.pc = "look"]]
    /\ Unring
    /\ UNCHANGED <<pooled, fmtbuf, asked, called, gone, disturbed, wild, writes>>

(* The daemon's work.                                                              *)
Nothing == consumer = producer \/ ~ring[consumer].done
Look(t) ==
    /\ IsAt(t, "look")
    /\ IF ~Nothing
       THEN at' = [at EXCEPT ![t].pc = "format", ![t].slot = consumer] /\ UNCHANGED queue
       ELSE /\ at' = [at EXCEPT ![t].pc = IF queue = <<>> THEN "final" ELSE "log",
                                ![t].mine = queue]
            /\ queue' = <<>>
    /\ disturbed' = \/ disturbed
                    \/ at'[t].pc \in AtWork /\ Others(t, AtWork)
    /\ Unring
    /\ UNCHANGED <<pooled, fmtbuf, asked, called, gone, wild, writes>>
\* One buffer serves every worker; the event's region may be gone.
_udi_trlog_fmt(t) ==
    /\ IsAt(t, "format")
    /\ fmtbuf' = ring[at[t].slot].text
    /\ wild' = (ring[at[t].slot].by \cap gone # {})
    /\ Goes(t, "next")
    /\ Unring
    /\ UNCHANGED <<queue, pooled, asked, called, gone, disturbed, writes>>
Consume(t) ==
    /\ IsAt(t, "next")
    /\ consumer' = After(consumer)
    /\ Goes(t, "print")
    /\ UNCHANGED <<ring, producer, queue, pooled, fmtbuf, asked, called, gone,
                   events, last, dropped, disturbed, wild, writes>>
Output(t) ==                            \* _OSDEP_TRACE_DATA
    /\ IsAt(t, "print")
    /\ last' = IF disturbed THEN last ELSE fmtbuf
    /\ Goes(t, "look")
    /\ UNCHANGED <<ring, producer, consumer, queue, pooled, fmtbuf, asked, called,
                   gone, events, dropped, disturbed, wild, writes>>
\* The entry's number is its own affair; the callback is queued (_udi_queue_callback).
Log(t) ==
    LET rest == Tail(at[t].mine) IN
    /\ IsAt(t, "log")
    /\ fmtbuf' = 0
    /\ called' = called \cup {Head(at[t].mine)}
    /\ at' = [at EXCEPT ![t].mine = rest, ![t].pc = IF rest = <<>> THEN "final" ELSE "log"]
    /\ Unring
    /\ UNCHANGED <<queue, pooled, asked, gone, disturbed, wild, writes>>
Leave(t) ==
    /\ IsAt(t, "final")
    /\ Goes(t, IF Nothing THEN "idle" ELSE "look")
    /\ Unring
    /\ UNCHANGED <<queue, pooled, fmtbuf, asked, called, gone, disturbed, wild,
                   writes>>

\* The callback: the driver has its block again, or the pool (_udi_env_log_written);
\* links written while another thread is at the pool may come out torn.
AtThePool == \E t \in Thread : at[t].pc \in {"take", "unlink"}
Callback(c) ==
    /\ ~wild /\ c \in called
    /\ wild' \in IF c \in Pool /\ AtThePool THEN BOOLEAN ELSE {FALSE}
    /\ called' = called \ {c} /\ asked' = asked \ {c}
    /\ pooled' = IF c \in Pool THEN Append(pooled, c) ELSE pooled
    /\ Unring
    /\ UNCHANGED <<queue, fmtbuf, at, gone, disturbed, writes>>
_udi_region_destroy(t) ==
    /\ IsAt(t, "idle") /\ t \notin gone \cup asked
    /\ gone' = gone \cup {t}
    /\ Unring
    /\ UNCHANGED <<queue, pooled, fmtbuf, at, asked, called, disturbed, wild, writes>>

_udi_trlog_daemon_work(t) == \/ Look(t) \/ _udi_trlog_fmt(t) \/ Consume(t) \/ Output(t)
                             \/ Log(t) \/ Leave(t)
Runs(t) == \/ Fill(t) \/ Commit(t) \/ Take(t) \/ Unlink(t) \/ _udi_log_vwrite(t)
           \/ _udi_trlog_daemon_work(t)
Next == \/ \E t \in Thread : \/ udi_trace_write(t) \/ udi_log_write(t) \/ _udi_env_log_write(t)
                             \/ Runs(t) \/ _udi_region_destroy(t)
        \/ \E c \in called : Callback(c)
Fairness == \A t \in Thread : WF_vars(Runs(t))
Spec == Init /\ [][Next]_vars /\ Fairness
------------------------------------------------------------------------------
Taken(t) == Range(at[t].mine) \cup (IF at[t].pc = "ask" THEN at[t].cb ELSE {})

\* A request to log is in one place only until its callback: with its writer, in the
\* queue, with one worker, or called back; whatever the workers do to each other.
RequestsAreKept ==
    /\ asked = (UNION {Taken(t) : t \in Thread}) \cup Range(queue) \cup called
    /\ \A t, u \in Thread : t # u => Taken(t) \cap Taken(u) = {}
    /\ \A t \in Thread : Taken(t) \cap (Range(queue) \cup called) = {}
    /\ Range(queue) \cap called = {} /\ IsInjective(queue)
    /\ asked \cap Range(pooled) = {} /\ IsInjective(pooled)
    /\ Pool \subseteq asked \cup Range(pooled)

\* As long as nobody meets another in a place, at an event or in the buffer, what is
\* written out is what was traced, in order, once each; only what gave way is missing.
InHand == {t \in Thread : at[t].pc = "print"}
Waiting == [i \in 1 .. ((producer - consumer + Size) % Size) |->
               ring[(consumer + i - 1) % Size].event]
Increases(s) == \A i, j \in DOMAIN s : i < j => s[i] < s[j]
EventsAreKept ==
    LET all == <<last>> \o (IF InHand = {} THEN <<>> ELSE <<fmtbuf>>) \o Waiting IN
    ~disturbed => /\ Increases(all)
                  /\ last + 1 .. events \subseteq Range(all) \cup dropped
                  /\ Range(all) \cap dropped = {}
LogIsSound == ~wild => RequestsAreKept /\ EventsAreKept

\* When drivers stop writing (MaxWrites), every request has been called back and every
\* event written out or given way; unless two workers met: they may chase each other
\* round the ring for ever.
EverythingIsLogged ==
    []<>(wild \/ disturbed \/ (asked \subseteq called /\ 1 .. events \subseteq 0 .. last \cup dropped))
=============================================================================
