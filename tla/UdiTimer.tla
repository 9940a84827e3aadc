------------------------------ MODULE UdiTimer ------------------------------
(* Timers of the UDI environment (udi/common/udi_timer.c): two lists under one
   lock, a heartbeat that the kernel's clock calls every few ticks while there are
   timers and that looks at the long list less often, and the restart of a
   repeating timer just before its callback (udi_imc.c).  The order of a list is
   left out; the region that takes what has come due is in UdiRegion.  "now" is
   the true time; the code sees it modulo Wrap, and holds the ticks left in a
   signed word.                                                                *)
EXTENDS Integers, FiniteSets

CONSTANTS Timer, Interval,
          Wrap,                 \* 2 to the width of a word of ticks
          Short, Long,          \* _OSDEP_SHORT_TIMER_THRESHOLD, _LONG_
          MaxLate,              \* bound on how late the kernel calls back
          MaxTime, MaxStarts,   \* bounds
          Boot                  \* what the clock may show at the start

Never == -1
Idle == [on |-> "none", left |-> 0, start |-> 0, interval |-> 0, repeats |-> FALSE,
         at |-> 0, asked |-> 0, ticks |-> 0]

VARIABLES timer,        \* [Timer -> the control block's part and, with it, the
                        \* true time it was started, what was asked and the
                        \* intervals told of]
          running, last, elapsed,       \* heartbeat_running, last_time_run,
                                        \* long_elapsed
          beat,         \* when the kernel is asked to call, or Never
          again,        \* the heartbeat has let go of the lock, and will ask
          now, shown, starts, panicked
vars == <<timer, running, last, elapsed, beat, again, now, shown, starts, panicked>>

Signed(x) == LET w == x % Wrap IN IF 2 * w >= Wrap THEN w - Wrap ELSE w
Clock == (shown + now) % Wrap
On(lists) == {c \in Timer : timer[c].on \in lists}

\* _udi_timer_start, with the lock held: the heartbeat counts from when it last
\* ran, and the long list from when it was last looked at.
AdjustedNot(ticks) == ticks % Wrap      \* slip: counts from now
Adjusted(ticks) == (ticks + IF running THEN Clock - last ELSE 0) % Wrap
Enlisted(t, ticks) ==
    LET a == Adjusted(ticks)
    IN  IF a > Long THEN [t EXCEPT !.on = "long", !.left = Signed(a + elapsed)]
                    ELSE [t EXCEPT !.on = "short", !.left = Signed(a)]
Beating == IF running THEN UNCHANGED <<running, last, elapsed, beat>>
           ELSE /\ running' = TRUE /\ last' = Clock /\ elapsed' = 0
                /\ beat' = now + Short

Asked(c, i, rep) == [Idle EXCEPT !.start = Clock, !.interval = i, !.repeats = rep,
                                 !.at = now, !.asked = i]
Start(c, t, ticks) == /\ timer[c].on = "none" /\ starts < MaxStarts /\ ~panicked
                      /\ timer' = [timer EXCEPT ![c] = Enlisted(t, ticks)]
                      /\ starts' = starts + 1
                      /\ Beating
                      /\ UNCHANGED <<again, now, shown>>

udi_timer_start == \E c \in Timer, i \in Interval :
    /\ Start(c, Asked(c, i, FALSE), i)
    /\ UNCHANGED panicked

\* An interval below one tick is none, which repeating timers must not have.
udi_timer_start_repeating == \E c \in Timer, i \in Interval :
    /\ Start(c, Asked(c, i, TRUE), i)
    /\ panicked' = (i = 0)

udi_timer_cancel == \E c \in On({"short", "long", "done"}) :
    /\ ~panicked
    /\ timer' = [timer EXCEPT ![c] = Idle]
    /\ UNCHANGED <<running, last, elapsed, beat, again, now, shown, starts, panicked>>

\* Of a region that is torn down: what has come due was taken already.
_udi_timer_cancel_for_rgn == \E S \in SUBSET Timer :
    /\ S \cap On({"short", "long"}) # {} /\ S \cap On({"done"}) = {} /\ ~panicked
    /\ timer' = [c \in Timer |-> IF c \in S THEN Idle ELSE timer[c]]
    /\ UNCHANGED <<running, last, elapsed, beat, again, now, shown, starts, panicked>>

\* The next interval, and those that went by unnoticed.
Recalc(t) ==
    LET begun == (t.start + t.interval) % Wrap
        beyond == Signed(Clock - begun)
        missed == IF beyond <= t.interval THEN 0
                  ELSE CHOOSE k \in 1 .. Wrap :
                         /\ beyond - k * t.interval <= t.interval
                         /\ beyond - (k - 1) * t.interval > t.interval
    IN  [start |-> (begun + missed * t.interval) % Wrap,
         beyond |-> beyond, missed |-> missed,
         left |-> t.interval - (beyond - missed * t.interval)]

\* The region takes a timer that has come due: it is over, or back on a list
\* before the callback is told what it missed.
_udi_do_callback == \E c \in On({"done"}) :
    /\ ~panicked
    /\ LET t == timer[c]
           r == Recalc(t)
       IN  IF ~t.repeats
           THEN /\ timer' = [timer EXCEPT ![c] = Idle]
                /\ UNCHANGED <<running, last, elapsed, beat, panicked>>
           ELSE /\ panicked' = (r.beyond < 0)
                /\ timer' = [timer EXCEPT ![c] =
                               Enlisted([t EXCEPT !.start = r.start, !.ticks = @ + 1 + r.missed],
                                        r.left)]
                /\ Beating
    /\ UNCHANGED <<again, now, shown, starts>>

(* The heartbeat: first the short list, then, when it is time, the long one,
   whose timers move over; it goes on while there are any.                     *)
CountedLong(t, passed) ==
    IF t.on # "long" \/ elapsed + passed < Long THEN t
    ELSE LET left == Signed(t.left - (elapsed + passed))
         IN  [t EXCEPT !.left = left, !.on = IF left <= Long THEN "short" ELSE @]
CountedShort(t, passed) ==
    IF t.on # "short" THEN t
    ELSE LET left == Signed(t.left - passed)
         IN  [t EXCEPT !.left = left, !.on = IF left <= 0 THEN "done" ELSE @]

_udi_timer_heartbeat ==
    /\ beat # Never /\ now >= beat /\ ~again /\ ~panicked
    /\ LET passed == Signed(Clock - last)
           after == [c \in Timer |-> IF timer[c].on = "short"
                                     THEN CountedShort(timer[c], passed)
                                     ELSE CountedLong(timer[c], passed)]
           more == \E c \in Timer : after[c].on \in {"short", "long"}
       IN  /\ timer' = after
           /\ last' = Clock
           /\ again' = more
           /\ running' = more
           /\ elapsed' = IF elapsed + passed >= Long \/ ~more THEN 0 ELSE elapsed + passed
           /\ panicked' = (passed < 0)
    /\ beat' = Never
    /\ UNCHANGED <<now, shown, starts>>

\* Its regions have been run: it asks the kernel's clock to call again.
Reschedule ==
    /\ again /\ ~panicked
    /\ again' = FALSE /\ beat' = now + Short
    /\ UNCHANGED <<timer, running, last, elapsed, now, shown, starts, panicked>>

Tick == /\ now < MaxTime /\ ~panicked
        /\ beat # Never => now < beat + MaxLate
        /\ again => Signed(Clock - last) < MaxLate
        /\ now' = now + 1
        /\ UNCHANGED <<timer, running, last, elapsed, beat, again, shown, starts, panicked>>

Init == /\ timer = [c \in Timer |-> Idle]
        /\ running = FALSE /\ last = 0 /\ elapsed = 0
        /\ beat = Never /\ again = FALSE
        /\ now = 0 /\ shown \in Boot /\ starts = 0 /\ panicked = FALSE

Next == \/ udi_timer_start \/ udi_timer_start_repeating \/ udi_timer_cancel
        \/ _udi_timer_cancel_for_rgn \/ _udi_do_callback
        \/ _udi_timer_heartbeat \/ Reschedule \/ Tick
Spec == Init /\ [][Next]_vars
-----------------------------------------------------------------------------
\* An interval whose ticks, put forward to the last heartbeats, fit a signed word.
Fits(i) == 2 * (i + Long + Short + 2 * MaxLate) < Wrap
Gap == Short + 2 * MaxLate              \* between two heartbeats

\* No timer comes due before its time,
NeverEarly == \A c \in Timer :
    LET t == timer[c] IN
    t.on = "done" /\ Fits(t.asked) => now >= t.at + t.asked * (t.ticks + 1)

\* nor more than two heartbeats after: one that comes over from the long list has
\* still to be seen on the short one.
NeverForgotten == \A c \in Timer :
    LET t == timer[c] IN
    t.on \in {"short", "long"} /\ Fits(t.asked) => now <= t.at + t.asked * (t.ticks + 1) + 2 * Gap - 2

\* A repeating timer's interval starts on a whole number of intervals, those told
\* of to the driver: none is told twice or lost.
TicksAddUp == \A c \in Timer :
    LET t == timer[c] IN
    t.repeats /\ t.on # "none" => t.start = (shown + t.at + t.asked * t.ticks) % Wrap

\* There is a heartbeat when there are timers, and one only.
OneHeartbeat == /\ On({"short", "long"}) # {} => running
                /\ ~panicked => (running <=> beat # Never \/ again)
                /\ ~(beat # Never /\ again)

\* The code's assertions fail for an interval of nothing, or one too long, only.
PanicsForCause == panicked => \E c \in Timer : /\ timer[c].repeats
                                               /\ timer[c].asked = 0 \/ ~Fits(timer[c].asked)

TimersAreOnTime == /\ NeverEarly /\ NeverForgotten /\ TicksAddUp /\ OneHeartbeat
                   /\ PanicsForCause
=============================================================================
