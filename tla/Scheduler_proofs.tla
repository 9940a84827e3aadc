-------------------------- MODULE Scheduler_proofs ---------------------------
(* The ring of thread blocks is whole whenever the timer may come in, and a
   context runs on with the registers it was interrupted with, for any number
   of threads, as long as no thread calls create_thread with interrupts on
   (LateCreate # "open"; no code of the kernel does).                          *)
EXTENDS Scheduler, FiniteSetTheorems, SequenceTheorems,
        WellFoundedInduction, TLAPS

Disciplined == LateCreate # "open"
-----------------------------------------------------------------------------
(* The inductive invariant.                                                    *)
\* Where the running context is in create_thread; nobody else is in it.
At == making[cpu].at
\* The threads with a frame to be resumed from are 0..(Framed - 1), those that
\* are on the ring 0..(Linked - 1).
Framed == IF At = "no" THEN structs ELSE structs - 1
Linked == IF At \in {"enter", "link"} THEN structs - 1 ELSE structs
Successor(b) == IF b + 1 < blocks THEN b + 1 ELSE 0

MakingType ==
    making \in [Contexts -> [at : {"no", "enter", "link", "frame"},
                             new : Int, old : Int]]
StackType == stack = [c \in Contexts |-> stack[c]]
ViewType ==
    /\ view = [c \in Contexts |-> view[c]]
    /\ \A c \in Contexts : /\ view[c] = [r \in Registers |-> view[c][r]]
                           /\ view[c]["eflags"] \in BOOLEAN

\* One context at a time is in create_thread, and with interrupts off.
OneCreator ==
    /\ \A c \in Contexts : making[c].at # "no" => c = cpu
    /\ At # "no" => ~IfSet

BootFirst == ~ticking => cpu = Boot /\ ~IfSet /\ structs <= BootThreads

Counts ==
    /\ structs = blocks /\ total = Linked
    /\ blocks = 0 => At = "no"
    /\ At = "enter" => blocks > 1 /\ making[cpu].old = 0
    /\ At # "no" => making[cpu].new = structs - 1
    /\ tail = IF At = "enter" THEN blocks - 2 ELSE blocks - 1
    /\ ticking => BootThreads <= Framed

\* Each block leads to the next and the last one to the first; the block being
\* entered has nothing in it yet.
Ring == \A b \in 0..(blocks - 1) :
           (At = "enter" => b # blocks - 1) => next[b] = Successor(b)
OnRing == \A b \in 0..(Linked - 1) : ptrToThread[b] = b /\ id[b] = b

Current == ticking => tib \in 0..(Framed - 1) /\ thread = tib

\* The threads that wait to be resumed: their esp points into a stack of their
\* own, which holds the registers of the context they stand for and no more.
Waits(t) == t < Framed /\ (ticking => t # thread)
Entered == (0..(Framed - 1)) \cup {Boot}
Saved(v) == [i \in 1..Len(PopOrder) |-> v[PopOrder[i]]]
Running == cpu \in Entered /\ stack[cpu] = <<>>
Frames ==
    \A t \in Threads : Waits(t) =>
       /\ esp[t] \in Entered /\ esp[t] # cpu
       /\ stack[esp[t]] = Saved(view[esp[t]])
OwnStacks ==
    \A t, u \in Threads : Waits(t) /\ Waits(u) /\ esp[t] = esp[u] => t = u

IInv == /\ TypeOK /\ MakingType /\ StackType /\ ViewType
        /\ OneCreator /\ BootFirst /\ Counts /\ Ring /\ OnRing
        /\ Current /\ Running /\ Frames /\ OwnStacks
        /\ ResumesWhereInterrupted
-----------------------------------------------------------------------------
(* The words of a frame.                                                       *)
LEMMA RegisterNames ==
    Registers = {"gs", "fs", "ds", "es", "esi", "edi", "ebp", "edx", "ecx",
                 "ebx", "eax", "eip", "cs", "eflags"}
<1>1. Len(PopOrder) = 14 BY DEF PopOrder
<1>2. QED BY <1>1 DEF Registers, PopOrder

\* What the processor and irq0 push is what irq0 pops, in the opposite order.
LEMMA PushedIsSaved == Pushed = Saved(regs)
<1> DEFINE order == Reverse(PushOrder) \o <<"eip", "cs", "eflags">>
           Names == {"gs", "fs", "ds", "es", "esi", "edi", "ebp", "edx", "ecx",
                     "ebx", "eax", "eip", "cs", "eflags"}
<1>1. Len(PushOrder) = 11 /\ Len(PopOrder) = 14 BY DEF PushOrder, PopOrder
<1>2. Reverse(PushOrder) = [i \in 1..11 |-> PushOrder[12 - i]]
  BY <1>1 DEF Reverse
<1>3. \A i \in 1..11 : PushOrder[i] \in Names BY DEF PushOrder
<1>4. Reverse(PushOrder) \in Seq(Names) /\ Len(Reverse(PushOrder)) = 11
  BY <1>2, <1>3
<1>5. <<"eip", "cs", "eflags">> \in Seq(Names) /\ Len(<<"eip", "cs", "eflags">>) = 3
  OBVIOUS
<1>6. \A i \in 1..14 : order[i] = IF i <= 11 THEN PushOrder[12 - i]
                                  ELSE <<"eip", "cs", "eflags">>[i - 11]
  BY <1>2, <1>4, <1>5, ConcatProperties
<1> HIDE DEF order
<1>7. /\ \A i \in 1..11 : PushOrder[12 - i] = PopOrder[i]
      /\ \A i \in 12..14 : <<"eip", "cs", "eflags">>[i - 11] = PopOrder[i]
  BY DEF PushOrder, PopOrder
<1>8. \A i \in 1..14 : order[i] = PopOrder[i]
  BY <1>6, <1>7
<1>9. QED BY <1>1, <1>8 DEF order, Pushed, Saved

\* A frame popped gives the registers saved in it.
LEMMA PoppedOfSaved ==
    ASSUME NEW v, v = [r \in Registers |-> v[r]]
    PROVE  Popped(Saved(v)) = v
<1>1. ASSUME NEW r \in Registers
      PROVE  Saved(v)[CHOOSE i \in 1..Len(PopOrder) : PopOrder[i] = r] = v[r]
  <2>1. \E i \in 1..Len(PopOrder) : PopOrder[i] = r BY DEF Registers
  <2>2. QED BY <2>1 DEF Saved
<1>2. QED BY <1>1 DEF Popped

\* A frame is fourteen words.
LEMMA SavedIsASequence ==
    ASSUME NEW v
    PROVE  /\ Saved(v) \in Seq({v[r] : r \in Registers})
           /\ Len(Saved(v)) = Len(PopOrder)
           /\ Saved(v) \o <<>> = Saved(v)
           /\ SubSeq(Saved(v), Len(PopOrder) + 1, Len(Saved(v))) = <<>>
<1>1. Len(PopOrder) = 14 BY DEF PopOrder
<1>2. \A i \in 1..14 : PopOrder[i] \in Registers BY <1>1 DEF Registers
<1>3. Saved(v) \in Seq({v[r] : r \in Registers}) /\ Len(Saved(v)) = 14
  BY <1>1, <1>2 DEF Saved
<1>4. QED BY <1>1, <1>3

\* The frame create_thread builds holds the registers its caller asked for.
LEMMA FirstFrameIsSaved == ASSUME NEW t PROVE FirstFrame(t) = Saved(Entry(t))
<1>1. Len(PopOrder) = 14 BY DEF PopOrder
<1>2. \A i \in 1..14 : PopOrder[i] \in Registers BY <1>1 DEF Registers
<1>3. \A i \in 1..14 : Saved(Entry(t))[i] = Entry(t)[PopOrder[i]]
  BY <1>1 DEF Saved
<1>4. \A i \in 1..14 : Entry(t)[PopOrder[i]] = FirstFrame(t)[i]
  <2>1. /\ \A r \in {"gs", "fs"} : Entry(t)[r] = <<t, "null">>
        /\ \A r \in {"ds", "es"} : Entry(t)[r] = <<t, "data">>
        /\ \A r \in {"eax", "ebx", "ecx", "edx", "ebp", "edi", "esi"} :
              Entry(t)[r] = <<t, "mark">>
        /\ Entry(t)["eip"] = <<t, "entry">> /\ Entry(t)["cs"] = <<t, "code">>
        /\ Entry(t)["eflags"] = TRUE
    BY RegisterNames DEF Entry
  <2>2. /\ \A i \in 1..2 : PopOrder[i] \in {"gs", "fs"} /\ FirstFrame(t)[i] = <<t, "null">>
        /\ \A i \in 3..4 : PopOrder[i] \in {"ds", "es"} /\ FirstFrame(t)[i] = <<t, "data">>
        /\ \A i \in 5..11 :
              /\ PopOrder[i] \in {"eax", "ebx", "ecx", "edx", "ebp", "edi", "esi"}
              /\ FirstFrame(t)[i] = <<t, "mark">>
        /\ PopOrder[12] = "eip" /\ FirstFrame(t)[12] = <<t, "entry">>
        /\ PopOrder[13] = "cs" /\ FirstFrame(t)[13] = <<t, "code">>
        /\ PopOrder[14] = "eflags" /\ FirstFrame(t)[14] = TRUE
    BY DEF FirstFrame, PopOrder
  <2>3. /\ \A i \in 1..2 : Entry(t)[PopOrder[i]] = FirstFrame(t)[i]
        /\ \A i \in 3..4 : Entry(t)[PopOrder[i]] = FirstFrame(t)[i]
        /\ \A i \in 5..11 : Entry(t)[PopOrder[i]] = FirstFrame(t)[i]
    BY <2>1, <2>2
  <2>4. /\ Entry(t)[PopOrder[12]] = FirstFrame(t)[12]
        /\ Entry(t)[PopOrder[13]] = FirstFrame(t)[13]
        /\ Entry(t)[PopOrder[14]] = FirstFrame(t)[14]
    BY <2>1, <2>2
  <2>5. QED BY <2>3, <2>4
<1>5. FirstFrame(t) = [i \in 1..14 |-> FirstFrame(t)[i]] BY DEF FirstFrame
<1>6. QED BY <1>1, <1>3, <1>4, <1>5 DEF Saved
-----------------------------------------------------------------------------
(* The invariant holds at the start and is kept by every action.               *)
LEMMA InitInvariant == ASSUME Init PROVE IInv
<1> USE SchedulerAssumption DEF Threads, Blocks, Boot, Contexts, Wild, Idle
<1>1. /\ regs = [r \in Registers |-> regs[r]] /\ DOMAIN regs = Registers
      /\ regs["eflags"] = FALSE /\ IfSet = FALSE
  BY RegisterNames DEF Init, Values, IfSet
<1>2. Boot \in Contexts OBVIOUS
<1>3. /\ At = "no" /\ Framed = 0 /\ Linked = 0
      /\ \A c \in Contexts : making[c].at = "no"
  BY <1>2 DEF Init, At, Framed, Linked
<1>4. TypeOK
  <2>1. DOMAIN stack = Contexts /\ DOMAIN view = Contexts /\ cpu \in Contexts
    BY <1>2 DEF Init
  <2>2. /\ next \in [Blocks -> Pointers(Blocks)] /\ prev \in [Blocks -> Pointers(Blocks)]
        /\ ptrToThread \in [Blocks -> Pointers(Threads)]
        /\ id \in [Threads -> Pointers(Nat)] /\ esp \in [Threads -> Pointers(Contexts)]
    BY DEF Init, Pointers
  <2>3. /\ blocks = 0 /\ structs = 0 /\ total = 0
        /\ tail \in Pointers(Blocks) /\ tib \in Pointers(Blocks)
        /\ thread \in Pointers(Threads) /\ ticking = FALSE /\ crashed = FALSE
    BY DEF Init, Pointers
  <2>4. DOMAIN regs = Registers /\ IfSet \in BOOLEAN BY <1>1
  <2>5. 0 \in 0..MaxThreads OBVIOUS
  <2>6. QED BY <1>3, <2>1, <2>2, <2>3, <2>4, <2>5 DEF TypeOK
<1>5. MakingType /\ StackType BY DEF Init, MakingType, StackType
<1>6. ViewType
  <2>1. \A c \in Contexts : view[c] = regs BY DEF Init
  <2>2. view = [c \in Contexts |-> view[c]] BY DEF Init
  <2>3. QED BY <1>1, <2>1, <2>2, Zenon DEF ViewType
<1>7. OneCreator BY <1>1, <1>3 DEF OneCreator
<1>8. BootFirst BY <1>1, <1>2 DEF Init, BootFirst
<1>9. Counts BY <1>3 DEF Init, Counts
<1>10. Ring /\ OnRing /\ Current BY <1>3 DEF Init, Ring, OnRing, Current
<1>11. Running BY <1>2 DEF Init, Running, Entered
<1>12. Frames /\ OwnStacks
  <2>1. \A t \in Threads : ~ Waits(t) BY <1>3 DEF Waits
  <2>2. QED BY <2>1 DEF Frames, OwnStacks
<1>13. ResumesWhereInterrupted BY <1>2 DEF Init, ResumesWhereInterrupted
<1>14. QED BY <1>4, <1>5, <1>6, <1>7, <1>8, <1>9, <1>10, <1>11, <1>12, <1>13 DEF IInv

\* Each step of create_thread.
LEMMA CreateFirstKeeps ==
    ASSUME IInv, Disciplined, NEW c \in Contexts, CreateFirst(c) PROVE IInv'
<1> USE SchedulerAssumption DEF Threads, Blocks, Boot, Contexts, Wild, Idle,
        CreateFirst, Step, switchVars
<1>1. At = "no" /\ cpu = c /\ blocks = 0 /\ structs = 0 /\ ~ticking
  BY DEF IInv, At, Counts, Linked, TypeOK, Current, Framed
<1>2. making'[c] = [at |-> "link", new |-> 0, old |-> 0] /\ MakingType'
  BY <1>1 DEF IInv, MakingType
<1>3. At' = "link" /\ Framed' = 0 /\ Framed = 0 /\ Linked' = 0
  BY <1>1, <1>2 DEF At, Framed, Linked
<1>4. TypeOK' BY <1>1, <1>2, <1>3 DEF IInv, TypeOK, Pointers, MakingType, IfSet
<1>5. StackType' /\ ViewType' BY DEF IInv, StackType, ViewType
<1>6. OneCreator' BY <1>1, <1>3 DEF IInv, OneCreator, BootFirst, IfSet, At
<1>7. BootFirst' BY <1>1 DEF IInv, BootFirst, IfSet
<1>8. Counts' BY <1>1, <1>2, <1>3 DEF IInv, Counts
<1>9. Ring' BY <1>1 DEF IInv, Ring, Successor, TypeOK
<1>10. OnRing' /\ Current' BY <1>1, <1>3 DEF IInv, OnRing, Current
<1>11. Running' BY <1>3 DEF IInv, Running, Entered
<1>12. Frames' /\ OwnStacks' BY <1>3 DEF Frames, OwnStacks, Waits
<1>13. ResumesWhereInterrupted' BY DEF IInv, ResumesWhereInterrupted
<1>14. QED BY <1>2, <1>4, <1>5, <1>6, <1>7, <1>8, <1>9, <1>10, <1>11, <1>12, <1>13
           DEF IInv

LEMMA ViewsKeep ==
    ASSUME ViewType, DOMAIN view = Contexts, NEW d \in Contexts, NEW v,
           v = [r \in Registers |-> v[r]], v["eflags"] \in BOOLEAN,
           view' = [view EXCEPT ![d] = v]
    PROVE  ViewType'
<1>1. \A c \in Contexts : view'[c] = IF c = d THEN v ELSE view[c] OBVIOUS
<1>2. view' = [c \in Contexts |-> view'[c]] OBVIOUS
<1>3. ASSUME NEW c \in Contexts
      PROVE  view'[c] = [r \in Registers |-> view'[c][r]] /\ view'[c]["eflags"] \in BOOLEAN
  <2>1. CASE c = d
    <3>1. view'[c] = v BY <1>1, <2>1
    <3>2. QED BY <3>1
  <2>2. CASE c # d
    <3>1. view'[c] = view[c] BY <1>1, <2>2
    <3>2. view[c] = [r \in Registers |-> view[c][r]] /\ view[c]["eflags"] \in BOOLEAN
      BY DEF ViewType
    <3>3. QED BY <3>1, <3>2
  <2>3. QED BY <2>1, <2>2
<1>4. QED BY <1>2, <1>3 DEF ViewType

\* create_thread leaves the registers and the stacks of the contexts alone.
LEMMA CreatorTypes ==
    ASSUME TypeOK, MakingType', UNCHANGED <<switchVars, ticking, crashed>>,
           next' \in [Blocks -> Pointers(Blocks)], prev' \in [Blocks -> Pointers(Blocks)],
           ptrToThread' \in [Blocks -> Pointers(Threads)], id' \in [Threads -> Pointers(Nat)],
           blocks' \in 0..MaxThreads, structs' \in 0..MaxThreads,
           total' \in 0..MaxThreads, tail' \in Pointers(Blocks)
    PROVE  TypeOK'
<1>1. \A c \in Contexts : making'[c].at \in {"no", "enter", "link", "frame"}
  BY DEF MakingType
<1>2. /\ esp' \in [Threads -> Pointers(Contexts)]
      /\ DOMAIN stack' = Contexts /\ DOMAIN view' = Contexts
      /\ tib' \in Pointers(Blocks) /\ thread' \in Pointers(Threads)
      /\ ticking' \in BOOLEAN /\ crashed' \in BOOLEAN /\ cpu' \in Contexts
      /\ DOMAIN regs' = Registers /\ IfSet' \in BOOLEAN
  BY DEF TypeOK, switchVars, IfSet
<1>3. QED BY <1>1, <1>2 DEF TypeOK

LEMMA CreateAppendKeeps ==
    ASSUME IInv, Disciplined, NEW c \in Contexts, CreateAppend(c) PROVE IInv'
<1> USE SchedulerAssumption DEF Threads, Blocks, Boot, Contexts, Wild, Idle,
        CreateAppend, Step, switchVars
<1>1. /\ At = "no" /\ cpu = c /\ blocks \in 1..(MaxThreads - 1)
      /\ structs = blocks /\ total = blocks /\ tail = blocks - 1 /\ next[tail] = 0
  BY DEF IInv, At, Counts, Linked, TypeOK, Ring, Successor
<1>2. making'[c] = [at |-> "enter", new |-> structs, old |-> 0] /\ MakingType'
  BY <1>1, SMTT(30) DEF IInv, MakingType, TypeOK
<1>3. At' = "enter" /\ Framed' = Framed /\ Linked' = Linked
  BY <1>1, <1>2 DEF At, Framed, Linked
<1>4. ~IfSet /\ (~ticking => structs < BootThreads)
  BY <1>1 DEF MayCreate, Disciplined, IInv, BootFirst
<1>5. TypeOK'
  <2>1. blocks' = blocks + 1 /\ structs' = structs + 1 /\ tail' = tail /\ total' = total
    OBVIOUS
  <2>2. blocks' \in 0..MaxThreads /\ structs' \in 0..MaxThreads BY <1>1, <2>1
  <2>3. blocks \in Pointers(Blocks) /\ tail \in Blocks BY <1>1 DEF Pointers
  <2>4. next' \in [Blocks -> Pointers(Blocks)] BY <2>3 DEF IInv, TypeOK
  <2>5. UNCHANGED <<prev, ptrToThread, id, switchVars, ticking, crashed>> OBVIOUS
  <2>6. TypeOK BY DEF IInv
  <2>7. QED BY <1>2, <2>1, <2>2, <2>4, <2>5, <2>6, CreatorTypes DEF TypeOK
<1>6. StackType' /\ ViewType' BY DEF IInv, StackType, ViewType
<1>7. OneCreator' BY <1>1, <1>3, <1>4 DEF IInv, OneCreator, IfSet, At, MakingType
<1>8. BootFirst' BY <1>1, <1>4 DEF IInv, BootFirst, IfSet
<1>9. Counts' BY <1>1, <1>2, <1>3 DEF IInv, Counts, Linked
<1>10. Ring'
  <2>1. next' = [next EXCEPT ![blocks - 1] = blocks] /\ blocks' = blocks + 1
    BY <1>1
  <2>2. \A b \in 0..(blocks - 2) : next'[b] = b + 1
    BY <1>1, <2>1 DEF IInv, Ring, Successor, TypeOK
  <2>3. next'[blocks - 1] = blocks BY <1>1, <2>1 DEF IInv, TypeOK
  <2>4. QED BY <1>1, <1>3, <2>1, <2>2, <2>3 DEF Ring, Successor
<1>11. OnRing' /\ Current' BY <1>1, <1>3 DEF IInv, OnRing, Current
<1>12. Running' BY <1>3 DEF IInv, Running, Entered
<1>13. Frames' /\ OwnStacks' BY <1>3 DEF IInv, Frames, OwnStacks, Waits, Entered
<1>14. ResumesWhereInterrupted' BY DEF IInv, ResumesWhereInterrupted
<1>15. QED BY <1>2, <1>5, <1>6, <1>7, <1>8, <1>9, <1>10, <1>11, <1>12, <1>13, <1>14
           DEF IInv

LEMMA EnterBlockKeeps ==
    ASSUME IInv, NEW c \in Contexts, EnterBlock(c) PROVE IInv'
<1> USE SchedulerAssumption DEF Threads, Blocks, Boot, Contexts, Wild, Idle,
        EnterBlock, Step, switchVars
<1>1. /\ At = "enter" /\ cpu = c /\ blocks \in 2..MaxThreads
      /\ structs = blocks /\ total = blocks - 1 /\ tail = blocks - 2
      /\ next[tail] = blocks - 1 /\ making[c].old = 0 /\ making[c].new = blocks - 1
  BY SMTT(30) DEF IInv, At, Counts, Linked, TypeOK, Ring, Successor
<1>2. making'[c] = [at |-> "link", new |-> blocks - 1, old |-> 0] /\ MakingType'
  <2>1. making' = [making EXCEPT ![c] = [making[c] EXCEPT !.at = "link"]] OBVIOUS
  <2>2. making \in [Contexts -> [at : {"no", "enter", "link", "frame"}, new : Int, old : Int]]
    BY DEF IInv, MakingType
  <2>3. making[c] = [at |-> making[c].at, new |-> blocks - 1, old |-> 0] BY <1>1, <2>2
  <2>4. [making[c] EXCEPT !.at = "link"] = [at |-> "link", new |-> blocks - 1, old |-> 0]
    BY <2>3
  <2>5. blocks - 1 \in Int BY <1>1
  <2>6. QED BY <2>1, <2>2, <2>4, <2>5 DEF MakingType
<1>3. At' = "link" /\ Framed' = Framed /\ Linked' = Linked /\ tail' = blocks - 1
  BY <1>1, <1>2 DEF At, Framed, Linked
<1>4. TypeOK'
  <2>1. tail' \in Blocks /\ tail \in Blocks BY <1>1, <1>3
  <2>2. next' \in [Blocks -> Pointers(Blocks)] /\ prev' \in [Blocks -> Pointers(Blocks)]
    BY <1>1, <2>1 DEF IInv, TypeOK, Pointers
  <2>3. tail' \in Pointers(Blocks) BY <2>1 DEF Pointers
  <2>4. UNCHANGED <<ptrToThread, blocks, total, structs, id, switchVars, ticking, crashed>>
    OBVIOUS
  <2>5. TypeOK BY DEF IInv
  <2>6. QED BY <1>2, <2>2, <2>3, <2>4, <2>5, CreatorTypes DEF TypeOK
<1>5. StackType' /\ ViewType' BY DEF IInv, StackType, ViewType
<1>6. OneCreator' BY <1>1, <1>3 DEF IInv, OneCreator, IfSet, At, MakingType
<1>7. BootFirst' BY <1>1 DEF IInv, BootFirst, IfSet
<1>8. Counts' BY <1>1, <1>2, <1>3 DEF IInv, Counts, Linked
<1>9. Ring' BY <1>1, <1>3 DEF IInv, Ring, Successor, TypeOK
<1>10. OnRing' /\ Current' BY <1>1, <1>3 DEF IInv, OnRing, Current
<1>11. Running' BY <1>3 DEF IInv, Running, Entered
<1>12. Frames' /\ OwnStacks' BY <1>3 DEF IInv, Frames, OwnStacks, Waits, Entered
<1>13. ResumesWhereInterrupted' BY DEF IInv, ResumesWhereInterrupted
<1>14. QED BY <1>2, <1>4, <1>5, <1>6, <1>7, <1>8, <1>9, <1>10, <1>11, <1>12, <1>13
           DEF IInv

LEMMA LinkThreadKeeps ==
    ASSUME IInv, NEW c \in Contexts, LinkThread(c) PROVE IInv'
<1> USE SchedulerAssumption DEF Threads, Blocks, Boot, Contexts, Wild, Idle,
        LinkThread, Step, switchVars
<1>1. /\ At = "link" /\ cpu = c /\ blocks \in 1..MaxThreads
      /\ structs = blocks /\ total = blocks - 1 /\ tail = blocks - 1
      /\ making[c].new = blocks - 1
  BY DEF IInv, At, Counts, Linked, TypeOK
<1>2. making'[c] = [at |-> "frame", new |-> blocks - 1, old |-> making[c].old]
      /\ MakingType'
  BY <1>1 DEF IInv, MakingType, TypeOK
<1>3. At' = "frame" /\ Framed' = Framed /\ Linked' = Linked + 1 /\ Linked = blocks - 1
  BY <1>1, <1>2 DEF At, Framed, Linked
<1>4. TypeOK'
  <2>1. /\ blocks' = blocks /\ structs' = structs /\ tail' = tail /\ total' = total + 1
        /\ ptrToThread' = [ptrToThread EXCEPT ![tail] = making[c].new]
        /\ id' = [id EXCEPT ![making[c].new] = total]
        /\ UNCHANGED <<next, prev, switchVars, ticking, crashed>>
    OBVIOUS
  <2>2. total' \in 0..MaxThreads /\ total \in Pointers(Nat) BY <1>1, <2>1 DEF Pointers
  <2>3. making[c].new \in Pointers(Threads) BY <1>1 DEF Pointers
  <2>4. ptrToThread' \in [Blocks -> Pointers(Threads)] BY <2>1, <2>3 DEF IInv, TypeOK
  <2>5. id' \in [Threads -> Pointers(Nat)] BY <2>1, <2>2 DEF IInv, TypeOK
  <2>6. TypeOK BY DEF IInv
  <2>7. QED BY <1>2, <2>1, <2>2, <2>4, <2>5, <2>6, CreatorTypes DEF TypeOK
<1>5. StackType' /\ ViewType' BY DEF IInv, StackType, ViewType
<1>6. OneCreator' BY <1>1, <1>3 DEF IInv, OneCreator, IfSet, At, MakingType
<1>7. BootFirst' BY <1>1 DEF IInv, BootFirst, IfSet
<1>8. Counts' BY <1>1, <1>2, <1>3 DEF IInv, Counts, Linked
<1>9. Ring' BY <1>1, <1>3 DEF IInv, Ring, Successor
<1>10. OnRing' BY <1>1, <1>3 DEF IInv, OnRing, TypeOK
<1>11. Current' BY <1>1, <1>3 DEF IInv, Current
<1>12. Running' BY <1>3 DEF IInv, Running, Entered
<1>13. Frames' /\ OwnStacks' BY <1>3 DEF IInv, Frames, OwnStacks, Waits, Entered
<1>14. ResumesWhereInterrupted' BY DEF IInv, ResumesWhereInterrupted
<1>15. QED BY <1>2, <1>4, <1>5, <1>6, <1>7, <1>8, <1>9, <1>10, <1>11, <1>12, <1>13,
              <1>14 DEF IInv

LEMMA BuildFrameKeeps ==
    ASSUME IInv, NEW c \in Contexts, BuildFrame(c) PROVE IInv'
<1> USE SchedulerAssumption DEF Threads, Blocks, Boot, Contexts, Wild,
        BuildFrame, Step, ringVars
<1> DEFINE t == making[c].new
<1>1. /\ At = "frame" /\ cpu = c /\ blocks \in 1..MaxThreads
      /\ structs = blocks /\ total = blocks /\ tail = blocks - 1 /\ t = blocks - 1
  BY DEF IInv, At, Counts, Linked, TypeOK
<1>2. making'[c] = Idle /\ MakingType'
  BY <1>1 DEF IInv, MakingType, Idle
<1>3. At' = "no" /\ Framed = t /\ Framed' = t + 1 /\ Linked' = Linked
  BY <1>1, <1>2 DEF At, Framed, Linked, Idle
<1>4. Entry(t) = [r \in Registers |-> Entry(t)[r]] /\ Entry(t)["eflags"] = TRUE
  BY RegisterNames DEF Entry
<1>5. t \in Threads /\ t \in Contexts BY <1>1
<1>6. /\ esp' = [esp EXCEPT ![t] = t]
      /\ stack' = [stack EXCEPT ![t] = Saved(Entry(t))]
      /\ view' = [view EXCEPT ![t] = Entry(t)]
  BY FirstFrameIsSaved
<1> HIDE DEF t
<1>7. TypeOK'
  <2>0. esp \in [Threads -> Pointers(Contexts)] /\ t \in Pointers(Contexts)
    BY <1>5 DEF IInv, TypeOK, Pointers
  <2>1. esp' \in [Threads -> Pointers(Contexts)] BY <1>6, <2>0
  <2>2. DOMAIN stack' = Contexts /\ DOMAIN view' = Contexts
    BY <1>6 DEF IInv, TypeOK
  <2>3. \A d \in Contexts : making'[d].at \in {"no", "enter", "link", "frame"}
    BY <1>2 DEF MakingType
  <2>4. QED BY <2>1, <2>2, <2>3 DEF IInv, TypeOK, Pointers, IfSet
<1>8. StackType' BY <1>6 DEF IInv, TypeOK, StackType
<1>9. ViewType'
  <2>1. t \in Contexts /\ DOMAIN view = Contexts /\ ViewType BY <1>5 DEF IInv, TypeOK
  <2>2. QED BY <1>4, <1>6, <2>1, ViewsKeep
<1>10. OneCreator' BY <1>1, <1>2, <1>3 DEF IInv, OneCreator, IfSet, At, MakingType, Idle
<1>11. BootFirst' BY <1>1 DEF IInv, BootFirst, IfSet
<1>12. Counts' BY <1>1, <1>2, <1>3 DEF IInv, Counts, Linked
<1>13. Ring' BY <1>1, <1>3 DEF IInv, Ring, Successor
<1>14. OnRing' /\ Current' BY <1>1, <1>3 DEF IInv, OnRing, Current
<1>15. cpu # t /\ \A u \in Threads : Waits(u) => u # t /\ esp[u] # t /\ esp[u] \in Contexts
  BY <1>1, <1>3, <1>5 DEF IInv, Running, Frames, Entered, Waits
<1>16. \A d \in Contexts : /\ d # t => stack'[d] = stack[d] /\ view'[d] = view[d]
                           /\ d = t => stack'[d] = Saved(view'[d])
  BY <1>6 DEF IInv, TypeOK
<1>17. Running'
  <2>1. stack'[cpu] = <<>> BY <1>15, <1>16 DEF IInv, Running, TypeOK
  <2>2. cpu \in Entered' BY <1>3, <1>5 DEF IInv, Running, Entered
  <2>3. QED BY <2>1, <2>2 DEF Running
<1>18. /\ esp'[t] = t
       /\ \A u \in Threads : u # t => esp'[u] = esp[u]
       /\ \A u \in Threads : Waits(u)' => u = t \/ (u # t /\ Waits(u))
  BY <1>1, <1>3, <1>5, <1>6 DEF IInv, TypeOK, Waits
<1>19. t \in Entered' /\ Entered \subseteq Entered' BY <1>1, <1>3, <1>5 DEF Entered
<1>20. Frames'
  BY <1>5, <1>15, <1>16, <1>18, <1>19 DEF IInv, Frames
<1>21. OwnStacks' BY <1>15, <1>18 DEF IInv, OwnStacks
<1>22. ResumesWhereInterrupted'
  BY <1>15, <1>16 DEF IInv, ResumesWhereInterrupted, TypeOK
<1>23. QED BY <1>2, <1>7, <1>8, <1>9, <1>10, <1>11, <1>12, <1>13, <1>14, <1>17, <1>20,
              <1>21, <1>22 DEF IInv

\* k_main enters cool_down_thread: thread 0 is the running one.
LEMMA CoolDownView ==
    ASSUME IInv, CoolDown, regs' = [r \in Registers |-> regs'[r]], regs'["eflags"] \in BOOLEAN
    PROVE  ViewType'
<1>1. view' = [view EXCEPT ![Boot] = regs'] BY DEF CoolDown
<1>2. DOMAIN view = Contexts /\ ViewType /\ Boot \in Contexts BY DEF IInv, TypeOK, Contexts
<1>3. QED BY <1>1, <1>2, ViewsKeep

LEMMA CoolDownKeeps == ASSUME IInv, CoolDown PROVE IInv'
<1> USE SchedulerAssumption DEF Threads, Blocks, Boot, Contexts, Wild, CoolDown, ringVars
<1>1. cpu = Boot /\ ~IfSet /\ At = "no" /\ At' = "no" /\ Boot \in Contexts
  BY DEF IInv, BootFirst, At
<1>2. /\ Framed = structs /\ Framed' = structs /\ Linked' = Linked
      /\ structs \in 1..MaxThreads /\ structs = blocks /\ total = Linked
  BY <1>1 DEF IInv, TypeOK, Counts, Framed, Linked
<1>3. ptrToThread[0] = 0 /\ tib' = 0 /\ thread' = 0
  BY <1>1, <1>2 DEF IInv, OnRing, Linked
<1>4. /\ regs' = [r \in Registers |-> regs'[r]] /\ DOMAIN regs' = Registers
      /\ regs'["eflags"] = TRUE /\ IfSet' = TRUE /\ regs'["eflags"] \in BOOLEAN
  BY RegisterNames DEF IInv, TypeOK, ResumesWhereInterrupted, ViewType, IfSet
<1>5. TypeOK'
  <2>1. DOMAIN stack' = Contexts /\ DOMAIN view' = Contexts BY DEF IInv, TypeOK
  <2>2. tib' \in Pointers(Blocks) /\ thread' \in Pointers(Threads)
    BY <1>2, <1>3 DEF Pointers
  <2>3. DOMAIN regs' = Registers /\ IfSet' \in BOOLEAN BY <1>4
  <2>4. QED BY <2>1, <2>2, <2>3 DEF IInv, TypeOK, Pointers
<1>6. MakingType' /\ StackType' BY DEF IInv, MakingType, StackType
<1>7. ViewType' BY <1>4, CoolDownView, Zenon
<1>8. OneCreator' BY <1>1 DEF IInv, OneCreator, At
<1>9. BootFirst' BY DEF BootFirst
<1>10. Counts' BY <1>1, <1>2 DEF IInv, Counts
<1>11. Ring' /\ OnRing' BY <1>1, <1>2 DEF IInv, Ring, OnRing, Successor
<1>12. Current' BY <1>2, <1>3 DEF Current
<1>13. Running' BY <1>2 DEF IInv, Running, Entered
<1>14. \A t \in Threads : Waits(t)' => Waits(t) /\ esp[t] # Boot
  BY <1>1, <1>2 DEF IInv, Waits, Frames
<1>15. \A c \in Contexts : c # Boot => view'[c] = view[c] BY DEF IInv, TypeOK
<1>16. Frames' BY <1>2, <1>14, <1>15 DEF IInv, Frames, Entered
<1>17. OwnStacks' BY <1>14 DEF IInv, OwnStacks
<1>18. ResumesWhereInterrupted'
  BY <1>1 DEF IInv, ResumesWhereInterrupted, TypeOK
<1>19. QED BY <1>5, <1>6, <1>7, <1>8, <1>9, <1>10, <1>11, <1>12, <1>13, <1>16, <1>17,
              <1>18 DEF IInv

\* The running context changes its registers, never a frame that waits.
LEMMA WorkKeeps == ASSUME IInv, Work PROVE IInv'
<1> USE SchedulerAssumption DEF Threads, Blocks, Boot, Contexts, Wild, ringVars
<1>1. PICK n \in {0, 1}, flag \in BOOLEAN :
         (making[cpu].at # "no" => flag = IfSet) /\ regs' = Values(cpu, n, flag)
  BY DEF Work
<1>2. /\ ticking /\ view' = [view EXCEPT ![cpu] = regs']
      /\ UNCHANGED <<ringVars, esp, stack, tib, thread, cpu, ticking, making, crashed>>
  BY DEF Work
<1>3. /\ regs' = [r \in Registers |-> regs'[r]] /\ DOMAIN regs' = Registers
      /\ regs'["eflags"] = flag /\ IfSet' = flag
  BY <1>1, RegisterNames DEF Values, IfSet
<1>4. At' = At /\ Framed' = Framed /\ Linked' = Linked /\ cpu \in Contexts
  BY <1>2 DEF IInv, TypeOK, At, Framed, Linked
<1>5. TypeOK'
  <2>1. DOMAIN stack' = Contexts /\ DOMAIN view' = Contexts BY <1>2 DEF IInv, TypeOK
  <2>2. DOMAIN regs' = Registers /\ IfSet' \in BOOLEAN BY <1>3
  <2>3. QED BY <1>2, <2>1, <2>2 DEF IInv, TypeOK, Pointers
<1>6. MakingType' /\ StackType' BY <1>2 DEF IInv, MakingType, StackType
<1>7. \A c \in Contexts : view'[c] = IF c = cpu THEN regs' ELSE view[c]
  BY <1>2 DEF IInv, TypeOK
<1>8. ViewType'
  <2>1. view' = [c \in Contexts |-> view'[c]] BY <1>2 DEF IInv, TypeOK
  <2>2. ASSUME NEW c \in Contexts
        PROVE  view'[c] = [r \in Registers |-> view'[c][r]] /\ view'[c]["eflags"] \in BOOLEAN
    <3>1. CASE c = cpu BY <1>3, <1>7, <3>1
    <3>2. CASE c # cpu BY <1>7, <3>2 DEF IInv, ViewType
    <3>3. QED BY <3>1, <3>2
  <2>3. QED BY <2>1, <2>2 DEF ViewType
<1>9. OneCreator' BY <1>1, <1>2, <1>3, <1>4 DEF IInv, OneCreator, At
<1>10. BootFirst' BY <1>2 DEF BootFirst
<1>11. Counts' BY <1>2, <1>4 DEF IInv, Counts
<1>12. Ring' /\ OnRing' BY <1>2, <1>4 DEF IInv, Ring, OnRing, Successor
<1>13. Current' BY <1>2, <1>4 DEF IInv, Current
<1>14. Running' BY <1>2, <1>4 DEF IInv, Running, Entered
<1>15. Frames' BY <1>2, <1>4, <1>7 DEF IInv, Frames, Waits, Entered
<1>16. OwnStacks' BY <1>2, <1>4 DEF IInv, OwnStacks, Waits
<1>17. ResumesWhereInterrupted'
  BY <1>2, <1>4, <1>7 DEF IInv, ResumesWhereInterrupted
<1>18. QED BY <1>5, <1>6, <1>8, <1>9, <1>10, <1>11, <1>12, <1>13, <1>14, <1>15, <1>16,
              <1>17 DEF IInv

\* The switch: the interrupted context's registers go onto its stack, and those
\* of the next thread's come off the stack its esp points into.
LEMMA irq0Keeps == ASSUME IInv, irq0 PROVE IInv'
<1> USE SchedulerAssumption DEF Threads, Blocks, Boot, Contexts, Wild
<1> DEFINE n == next[tib]
           t == ptrToThread[n]
           esps == [esp EXCEPT ![thread] = cpu]
           saved == [stack EXCEPT ![cpu] = Pushed \o @]
           c == esps[t]
<1>1. ticking /\ IfSet /\ At = "no" BY DEF irq0, IInv, OneCreator
<1>2. /\ Framed = structs /\ Linked = structs /\ structs = blocks
      /\ structs \in 1..MaxThreads
  BY <1>1 DEF IInv, TypeOK, Counts, Framed, Linked
<1>3. tib \in 0..(structs - 1) /\ thread = tib /\ thread \in Threads
  BY <1>1, <1>2 DEF IInv, Current
<1>4. n = Successor(tib) /\ n \in 0..(structs - 1)
  BY <1>1, <1>2, <1>3 DEF IInv, Ring, Successor
<1>5. t = n /\ t \in Threads /\ t < Framed BY <1>2, <1>4 DEF IInv, OnRing
<1> HIDE DEF n, t
<1>6. t # thread => Waits(t) BY <1>5 DEF Waits
<1>7. \A u \in Threads : esps[u] = IF u = thread THEN cpu ELSE esp[u]
  BY DEF IInv, TypeOK
<1>8. cpu \in Contexts /\ Entered \subseteq Contexts /\ Wild \notin Entered
  BY <1>2 DEF IInv, TypeOK, Entered
<1>9. c \in Entered /\ (t = thread => c = cpu) /\ (t # thread => c = esp[t] /\ c # cpu)
  BY <1>3, <1>5, <1>6, <1>7 DEF IInv, Frames, Running
<1> HIDE DEF c, esps
<1>10. /\ esp' = esps /\ tib' = n /\ thread' = t /\ cpu' = c
       /\ regs' = Popped(saved[c])
       /\ stack' = [saved EXCEPT ![c] = SubSeq(@, Len(PopOrder) + 1, Len(@))]
       /\ UNCHANGED <<view, crashed, ringVars, ticking, making>>
  <2>1. n # Wild /\ t # Wild /\ c # Wild BY <1>2, <1>4, <1>5, <1>8, <1>9
  <2>2. QED BY <2>1 DEF irq0, the_scheduler, current_thread, n, t, c, esps
<1>11. Pushed \o stack[cpu] = Saved(view[cpu])
  BY PushedIsSaved, SavedIsASequence DEF IInv, Running, ResumesWhereInterrupted
<1>12. /\ DOMAIN saved = Contexts
       /\ \A d \in Contexts : saved[d] = IF d = cpu THEN Saved(view[cpu]) ELSE stack[d]
  BY <1>11 DEF IInv, TypeOK
<1>13. saved[c] = Saved(view[c])
  BY <1>5, <1>6, <1>8, <1>9, <1>12 DEF IInv, Frames
<1>14. regs' = view[c]
  BY <1>8, <1>9, <1>10, <1>13, PoppedOfSaved DEF IInv, ViewType
<1> HIDE DEF saved
<1>15. /\ stack' = [d \in Contexts |-> stack'[d]] /\ DOMAIN stack' = Contexts
       /\ stack'[c] = <<>>
       /\ \A d \in Contexts : d # c =>
             stack'[d] = IF d = cpu THEN Saved(view[cpu]) ELSE stack[d]
  BY <1>8, <1>9, <1>10, <1>12, <1>13, SavedIsASequence
<1>16. making[c].at = "no" /\ At' = "no" /\ Framed' = Framed /\ Linked' = Linked
  <2>1. making[c].at = "no" BY <1>1, <1>8, <1>9 DEF IInv, OneCreator, At
  <2>2. QED BY <1>1, <1>10, <2>1 DEF ringVars, At, Framed, Linked
<1>17. TypeOK'
  <2>1. esp' \in [Threads -> Pointers(Contexts)]
    BY <1>3, <1>8, <1>10 DEF IInv, TypeOK, Pointers, esps
  <2>2. tib' \in Pointers(Blocks) /\ thread' \in Pointers(Threads) /\ cpu' \in Contexts
    BY <1>2, <1>4, <1>5, <1>8, <1>9, <1>10 DEF Pointers
  <2>3. DOMAIN regs' = Registers /\ IfSet' \in BOOLEAN
    BY <1>8, <1>9, <1>14 DEF IInv, ViewType, IfSet
  <2>4. QED BY <1>10, <1>15, <2>1, <2>2, <2>3 DEF IInv, TypeOK, Pointers, ringVars
<1>18. MakingType' /\ StackType' /\ ViewType'
  BY <1>10, <1>15 DEF IInv, MakingType, StackType, ViewType
<1>19. OneCreator' BY <1>1, <1>10, <1>16 DEF IInv, OneCreator, At
<1>20. BootFirst' BY <1>1, <1>10 DEF BootFirst
<1>21. Counts' BY <1>1, <1>10, <1>16 DEF IInv, Counts, ringVars
<1>22. Ring' /\ OnRing' BY <1>1, <1>10, <1>16 DEF IInv, Ring, OnRing, Successor, ringVars
<1>23. Current' BY <1>2, <1>4, <1>5, <1>10, <1>16 DEF Current
<1>24. Running' BY <1>9, <1>10, <1>15, <1>16 DEF Running, Entered
<1>25. \A u \in Threads : Waits(u)' <=> u < Framed /\ u # t
  BY <1>1, <1>10, <1>16 DEF Waits
<1>26. \A u \in Threads : Waits(u)' /\ u # thread =>
          /\ Waits(u) /\ esp'[u] = esp[u] /\ esp[u] \in Entered
          /\ esp[u] # cpu /\ esp[u] # c
  BY <1>5, <1>6, <1>7, <1>9, <1>10, <1>25 DEF IInv, Waits, Frames, OwnStacks
<1>27. \A u \in Threads : Waits(u)' /\ u = thread => esp'[u] = cpu /\ c # cpu
  BY <1>3, <1>7, <1>9, <1>10, <1>25
<1>28. Frames'
  <2>1. ASSUME NEW u \in Threads, Waits(u)'
        PROVE  /\ esp'[u] \in Entered' /\ esp'[u] # cpu'
               /\ stack'[esp'[u]] = Saved(view'[esp'[u]])
    <3>1. Entered' = Entered BY <1>16 DEF Entered
    <3>2. CASE u = thread
      <4>1. esp'[u] = cpu /\ c # cpu BY <1>27, <2>1, <3>2
      <4>2. stack'[cpu] = Saved(view[cpu]) BY <1>8, <1>15, <4>1
      <4>3. cpu \in Entered BY DEF IInv, Running
      <4>4. QED BY <1>10, <3>1, <4>1, <4>2, <4>3
    <3>3. CASE u # thread
      BY <1>8, <1>10, <1>15, <1>26, <2>1, <3>1, <3>3 DEF IInv, Frames
    <3>4. QED BY <3>2, <3>3
  <2>2. QED BY <2>1 DEF Frames
<1>29. OwnStacks'
  <2>1. ASSUME NEW u \in Threads, NEW v \in Threads, Waits(u)', Waits(v)',
               esp'[u] = esp'[v]
        PROVE  u = v
    <3>1. CASE u # thread /\ v # thread
      BY <1>26, <2>1, <3>1 DEF IInv, OwnStacks
    <3>2. CASE u = thread /\ v # thread BY <1>26, <1>27, <2>1, <3>2
    <3>3. CASE u # thread /\ v = thread BY <1>26, <1>27, <2>1, <3>3
    <3>4. QED BY <3>1, <3>2, <3>3
  <2>2. QED BY <2>1 DEF OwnStacks
<1>30. ResumesWhereInterrupted' BY <1>10, <1>14 DEF IInv, ResumesWhereInterrupted
<1>31. QED BY <1>17, <1>18, <1>19, <1>20, <1>21, <1>22, <1>23, <1>24, <1>28, <1>29,
              <1>30 DEF IInv

LEMMA StutterKeeps == ASSUME IInv, UNCHANGED vars PROVE IInv'
<1> USE DEF vars, ringVars, switchVars
<1>1. UNCHANGED <<At, Framed, Linked, IfSet>> BY DEF At, Framed, Linked, IfSet
<1>2. TypeOK' /\ MakingType' /\ StackType' /\ ViewType'
  BY <1>1 DEF IInv, TypeOK, MakingType, StackType, ViewType
<1>3. OneCreator' /\ BootFirst' /\ Counts'
  BY <1>1 DEF IInv, OneCreator, BootFirst, Counts, At
<1>4. Ring' /\ OnRing' /\ Current' /\ ResumesWhereInterrupted'
  BY <1>1 DEF IInv, Ring, OnRing, Successor, Current, ResumesWhereInterrupted
<1>5. Running' /\ Frames' /\ OwnStacks'
  BY <1>1 DEF IInv, Running, Frames, OwnStacks, Waits, Entered
<1>6. QED BY <1>2, <1>3, <1>4, <1>5 DEF IInv

LEMMA StepKeeps == ASSUME IInv, Disciplined, [Next]_vars PROVE IInv'
<1>1. ASSUME NEW c \in Contexts, CreateThread(c) PROVE IInv'
  BY <1>1, CreateFirstKeeps, CreateAppendKeeps, EnterBlockKeeps, LinkThreadKeeps,
     BuildFrameKeeps DEF CreateThread
<1>2. QED BY <1>1, CoolDownKeeps, WorkKeeps, irq0Keeps, StutterKeeps DEF Next
-----------------------------------------------------------------------------
(* The walk along the list.                                                    *)
LEMMA LeastOf ==
    ASSUME NEW S, S \subseteq Nat, S # {}
    PROVE  \E m \in S : \A k \in S : m <= k
<1> DEFINE less == {ss \in Nat \X Nat : ss[1] < ss[2]}
<1>1. IsWellFoundedOn(less, Nat) BY NatLessThanWellFounded, Zenon DEF OpToRel
<1>2. \A k, m \in Nat : k < m => <<k, m>> \in less OBVIOUS
<1> HIDE DEF less
<1>3. PICK m \in S : \A k \in S : ~ (<<k, m>> \in less) BY <1>1, WFMin
<1>4. \A k \in S : ~ (k < m) BY <1>2, <1>3
<1>5. \A k \in S : k \in Nat /\ m \in Nat OBVIOUS
<1>6. \A k \in S : m <= k BY <1>4, <1>5
<1>7. QED BY <1>6

\* Where the k-th step of a walk along the list nxt is, f being the walk so far.
Follow(nxt, f, k) ==
    IF k = 0 THEN 0 ELSE IF f[k - 1] = Wild THEN Wild ELSE nxt[f[k - 1]]

\* Such a walk exists, however long: the least length without one would be one
\* more than a length with one.
LEMMA WalkExists ==
    ASSUME NEW nxt, NEW N \in Nat
    PROVE  \E f : f = [k \in 0..N |-> Follow(nxt, f, k)]
<1> DEFINE G(n) == \E f : f = [k \in 0..n |-> Follow(nxt, f, k)]
           Bad == {n \in 0..N : ~ G(n)}
<1>1. ASSUME NEW m \in Bad, \A k \in Bad : m <= k PROVE FALSE
  <2>1. m \in 0..N /\ ~ G(m) OBVIOUS
  <2>2. CASE m = 0
    <3> DEFINE g == [k \in 0..0 |-> 0]
    <3>1. g = [k \in 0..0 |-> Follow(nxt, g, k)] BY DEF Follow
    <3>2. G(0) BY <3>1
    <3>3. QED BY <2>1, <2>2, <3>2
  <2>3. CASE m # 0
    <3>1. m - 1 \in 0..N BY <2>1, <2>3
    <3>2. m - 1 \notin Bad BY <1>1, <2>1, <3>1
    <3>3. G(m - 1) BY <3>1, <3>2
    <3>4. PICK f : f = [k \in 0..(m - 1) |-> Follow(nxt, f, k)] BY <3>3
    <3> DEFINE g == [k \in 0..m |-> Follow(nxt, f, k)]
    <3>5. \A k \in 0..(m - 1) : g[k] = f[k] BY <3>1, <3>4
    <3>6. \A k \in 0..m : Follow(nxt, g, k) = Follow(nxt, f, k)
      <4>1. TAKE k \in 0..m
      <4>2. k # 0 => k - 1 \in 0..(m - 1) BY <2>1
      <4> HIDE DEF g
      <4>3. QED BY <3>5, <4>2 DEF Follow
    <3>7. g = [k \in 0..m |-> Follow(nxt, g, k)] BY <3>6
    <3>8. QED BY <2>1, <3>7
  <2>4. QED BY <2>2, <2>3
<1>2. Bad \subseteq Nat OBVIOUS
<1> HIDE DEF Bad
<1>3. Bad = {}
  <2>1. SUFFICES ASSUME Bad # {} PROVE FALSE OBVIOUS
  <2>2. PICK m \in Bad : \A k \in Bad : m <= k BY <1>2, <2>1, LeastOf
  <2>3. QED BY <1>1, <2>2
<1>4. G(N) BY <1>3 DEF Bad
<1>5. QED BY <1>4

LEMMA WalkIsTheWalk == Walk = [k \in 0..MaxThreads |-> Follow(next, Walk, k)]
<1>1. MaxThreads \in Nat BY SchedulerAssumption
<1>2. \E f : f = [k \in 0..MaxThreads |-> Follow(next, f, k)] BY <1>1, WalkExists
<1>3. QED BY <1>2 DEF Walk, Follow

\* On a ring in the order of the blocks the walk visits them in that order.
LEMMA WalkVisits ==
    ASSUME blocks \in 1..MaxThreads, \A b \in 0..(blocks - 1) : next[b] = Successor(b)
    PROVE  (\A k \in 0..(blocks - 1) : Walk[k] = k) /\ Walk[blocks] = 0
<1> USE SchedulerAssumption
<1>1. /\ Walk[0] = 0
      /\ \A k \in 1..blocks : Walk[k] = IF Walk[k - 1] = Wild THEN Wild ELSE next[Walk[k - 1]]
  BY WalkIsTheWalk DEF Follow
<1> DEFINE Bad == {k \in 0..(blocks - 1) : Walk[k] # k}
<1>2. ASSUME NEW m \in Bad, \A k \in Bad : m <= k PROVE FALSE
  <2>1. m \in 1..(blocks - 1) /\ Walk[m] # m BY <1>1
  <2>2. m - 1 \notin Bad /\ m - 1 \in 0..(blocks - 1) BY <1>2, <2>1
  <2>3. Walk[m - 1] = m - 1 BY <2>2
  <2>4. Walk[m] = m BY <1>1, <2>1, <2>3 DEF Successor, Wild
  <2>5. QED BY <2>1, <2>4
<1>3. Bad \subseteq Nat OBVIOUS
<1> HIDE DEF Bad
<1>4. Bad = {} BY <1>2, <1>3, LeastOf
<1>5. \A k \in 0..(blocks - 1) : Walk[k] = k BY <1>4 DEF Bad
<1>6. Walk[blocks] = 0 BY <1>1, <1>5 DEF Successor, Wild
<1>7. QED BY <1>5, <1>6

LEMMA InvariantIsEnough == ASSUME IInv PROVE RingWhole
<1> USE SchedulerAssumption
<1>1. SUFFICES ASSUME ticking, IfSet
               PROVE  /\ {Walk[k] : k \in 0..(blocks - 1)} = 0..(blocks - 1)
                      /\ Walk[blocks] = 0
                      /\ {ptrToThread[b] : b \in 0..(blocks - 1)} = 0..(structs - 1)
                      /\ \A t, u \in 0..(structs - 1) : id[t] = id[u] => t = u
  BY DEF IInv, RingWhole
<1>2. At = "no" BY <1>1 DEF IInv, OneCreator
<1>3. blocks \in 1..MaxThreads /\ structs = blocks /\ Linked = blocks
  BY <1>1, <1>2 DEF IInv, TypeOK, Counts, Framed, Linked
<1>4. \A b \in 0..(blocks - 1) : next[b] = Successor(b)
  BY <1>2 DEF IInv, Ring
<1>5. (\A k \in 0..(blocks - 1) : Walk[k] = k) /\ Walk[blocks] = 0
  BY <1>3, <1>4, WalkVisits
<1>6. \A b \in 0..(blocks - 1) : ptrToThread[b] = b /\ id[b] = b
  BY <1>3 DEF IInv, OnRing
<1>7. {Walk[k] : k \in 0..(blocks - 1)} = 0..(blocks - 1) BY <1>5
<1>8. {ptrToThread[b] : b \in 0..(blocks - 1)} = 0..(structs - 1) BY <1>3, <1>6
<1>9. \A t, u \in 0..(structs - 1) : id[t] = id[u] => t = u BY <1>3, <1>6
<1>10. QED BY <1>5, <1>7, <1>8, <1>9
-----------------------------------------------------------------------------
(* The theorems.                                                               *)
\* The inductive invariant holds in every state.
THEOREM Invariance == ASSUME Disciplined PROVE Spec => []IInv
<1>1. Init => IInv BY InitInvariant
<1>2. IInv /\ [Next]_vars => IInv' BY StepKeeps
<1>3. QED BY <1>1, <1>2, PTL DEF Spec

\* "circular linked list" (threads.h:21): for any number of threads, at boot or
\* made later with interrupts off, whenever the timer may come in the list is
\* one ring of all the blocks and each thread is on it once (create_thread).
THEOREM RingStaysWhole == ASSUME Disciplined PROVE Spec => []RingWhole
<1>1. IInv => RingWhole BY InvariantIsEnough
<1>2. QED BY <1>1, Invariance, PTL

\* irq0 never follows an uninitialised pointer, and what it pops is what the
\* context it resumes was interrupted with, or what create_thread was asked for:
\* no two contexts that wait share a stack, and a stack holds one frame.
THEOREM ContextsResume == ASSUME Disciplined PROVE Spec => []ResumesWhereInterrupted
<1>1. IInv => ResumesWhereInterrupted BY DEF IInv
<1>2. QED BY <1>1, Invariance, PTL
=============================================================================
