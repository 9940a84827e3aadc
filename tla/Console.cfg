\* One thread, two letters, a line break and the backspace; the longest text
\* wraps and scrolls several times.  Beside it, three threads at the lock.
SPECIFICATION PartSpec
CONSTANTS
  main = main
  t1 = t1
  t2 = t2
  t3 = t3
  Rows = 2
  Cols = 3
  Callers = {main}
  Letters = {"a", "b"}
  Controls = {"nl", "bs"}
  MaxText = 8
  Threads = {t1, t2, t3}
INVARIANTS ScreenShowsTheTail MutualExclusion LockedByAHolder
PROPERTIES SomeoneGetsIn
CHECK_DEADLOCK FALSE
