\* Two threads made at boot, as make_threads does, and a third one made by a
\* running thread with interrupts off.
SPECIFICATION FairSpec
CONSTANTS
    MaxThreads = 3
    BootThreads = 2
    LateCreate = "cli"
INVARIANTS RingWhole ResumesWhereInterrupted
PROPERTIES EveryThreadRuns
