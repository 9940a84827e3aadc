------------------------------ MODULE Scheduler ------------------------------
(***************************************************************************)
(* RippleKernel's threads and its scheduler: create_thread and the ring of *)
(* thread_info_blocks (threads.c), the_scheduler (scheduler.c) and the     *)
(* context switch of irq0 (scheduler_utils.asm).                           *)
(*                                                                         *)
(* A context is a stack with the code running on it: the boot stack, on    *)
(* which k_main enters cool_down_thread, and one stack per thread_struct.  *)
(* Contexts differ from threads because cool_down_thread never returns to  *)
(* k_main: the boot context is saved into, and resumed from, the           *)
(* thread_struct of the first thread.                                      *)
(***************************************************************************)
EXTENDS Integers, Sequences, SequencesExt, FiniteSets

CONSTANTS
    MaxThreads,   \* bound: thread_structs and thread_info_blocks ever made
    BootThreads,  \* how many make_threads creates (2 in scheduler.c:20-29)
    LateCreate    \* do running threads call create_thread: "never", "cli"
                  \* (with interrupts off) or "open" (with interrupts on)

ASSUME SchedulerAssumption ==
    /\ MaxThreads \in Nat /\ BootThreads \in 1..MaxThreads
    /\ LateCreate \in {"never", "cli", "open"}

Threads == 0..(MaxThreads - 1)   \* thread_structs, in the order of malloc
Blocks == 0..(MaxThreads - 1)    \* 0 is __start_of_thread_info_list
Boot == MaxThreads               \* the boot context
Contexts == Threads \cup {Boot}
Wild == -1                       \* what an uninitialised word points to

PushOrder == <<"eax", "ebx", "ecx", "edx", "ebp", "edi", "esi",
               "es", "ds", "fs", "gs">>
\* Slip: two pops swapped.
PopSwapped == <<"fs", "gs", "ds", "es", "esi", "edi", "ebp",
                "edx", "ecx", "ebx", "eax", "eip", "cs", "eflags">>
PopOrder == <<"gs", "fs", "ds", "es", "esi", "edi", "ebp",
              "edx", "ecx", "ebx", "eax", "eip", "cs", "eflags">>
Registers == {PopOrder[i] : i \in 1..Len(PopOrder)}

VARIABLES
    next, prev, ptrToThread,  \* the blocks: [Blocks -> ...]
    blocks,                   \* how many blocks are in use
    tail,                     \* __current_thread_info_block
    total,                    \* __total_num_threads
    structs,                  \* how many thread_structs were malloced
    id,                       \* [Threads -> thread_struct.id]
    esp,                      \* [Threads -> the context whose stack it points into]
    stack,                    \* [Contexts -> words on the stack, top first]
    tib, thread,              \* __current_tib, __current_thread
    ticking,                  \* IRQ 0 is unmasked
    cpu,                      \* the context the CPU executes
    regs,                     \* the register file
    view,                     \* [Contexts -> the registers it had when it last ran]
    making,                   \* [Contexts -> where it is in create_thread]
    crashed                   \* the CPU followed an uninitialised pointer

ringVars == <<next, prev, ptrToThread, blocks, tail, total, structs, id>>
switchVars == <<esp, stack, tib, thread, cpu, regs, view>>
vars == <<ringVars, switchVars, ticking, making, crashed>>

Idle == [at |-> "no", new |-> Wild, old |-> Wild]
IfSet == regs["eflags"]

-----------------------------------------------------------------------------
\* A register file of context c at its n-th step; each value is distinct.
Values(c, n, flag) ==
    [r \in Registers |-> IF r = "eflags" THEN flag ELSE <<c, r, n>>]

Init ==
    /\ next = [b \in Blocks |-> Wild] /\ prev = [b \in Blocks |-> Wild]
    /\ ptrToThread = [b \in Blocks |-> Wild]
    /\ blocks = 0 /\ tail = Wild /\ total = 0 /\ structs = 0
    /\ id = [t \in Threads |-> Wild]
    /\ esp = [t \in Threads |-> Wild]
    /\ stack = [c \in Contexts |-> <<>>]
    /\ tib = Wild /\ thread = Wild
    /\ ticking = FALSE
    /\ cpu = Boot
    /\ regs = Values(Boot, 0, FALSE)
    /\ view = [c \in Contexts |-> regs]
    /\ making = [c \in Contexts |-> Idle]
    /\ crashed = FALSE

MayCreate(c) ==
    /\ structs < MaxThreads
    /\ IF ticking
       THEN LateCreate = "open" \/ (LateCreate = "cli" /\ ~IfSet)
       ELSE c = Boot /\ structs < BootThreads

Step(c, here, then) ==
    /\ ~crashed /\ cpu = c
    /\ making[c].at = here
    /\ making' = [making EXCEPT ![c] = then]

\* malloc(sizeof(thread_struct)) and the test of line 22.
CreateFirst(c) ==
    /\ MayCreate(c) /\ total = 0
    /\ Step(c, "no", [at |-> "link", new |-> structs, old |-> 0])
    /\ structs' = structs + 1
    /\ blocks' = 1 /\ tail' = 0
    /\ next' = [next EXCEPT ![0] = 0] /\ prev' = [prev EXCEPT ![0] = 0]
    /\ UNCHANGED <<ptrToThread, total, id, switchVars, ticking, crashed>>

\* Lines 29-32: `old` is the successor of the tail; the tail's next is a
\* block fresh from malloc, with nothing in it.
CreateAppend(c) ==
    /\ MayCreate(c) /\ total # 0 /\ blocks < MaxThreads
    /\ Step(c, "no", [at |-> "enter", new |-> structs, old |-> next[tail]])
    /\ structs' = structs + 1
    /\ blocks' = blocks + 1
    /\ next' = [next EXCEPT ![tail] = blocks]
    /\ UNCHANGED <<prev, ptrToThread, tail, total, id, switchVars, ticking,
                   crashed>>

\* Slip: the new block is not linked to its successor.
EnterUnlinked(c) ==
    /\ Step(c, "enter", [making[c] EXCEPT !.at = "link"])
    /\ tail' = next[tail]
    /\ prev' = [prev EXCEPT ![tail'] = tail]
    /\ UNCHANGED <<next, ptrToThread, blocks, total, structs, id, switchVars,
                   ticking, crashed>>

\* Lines 33-36.  Nothing sets the prev of `old` to the new block.
EnterBlock(c) ==
    /\ Step(c, "enter", [making[c] EXCEPT !.at = "link"])
    /\ tail' = next[tail]
    /\ next' = [next EXCEPT ![tail'] = making[c].old]
    /\ prev' = [prev EXCEPT ![tail'] = tail]
    /\ UNCHANGED <<ptrToThread, blocks, total, structs, id, switchVars,
                   ticking, crashed>>

\* Lines 39-43.
LinkThread(c) ==
    LET t == making[c].new IN
    /\ Step(c, "link", [making[c] EXCEPT !.at = "frame"])
    /\ ptrToThread' = [ptrToThread EXCEPT ![tail] = t]
    /\ id' = [id EXCEPT ![t] = total]
    /\ total' = total + 1
    /\ UNCHANGED <<next, prev, blocks, tail, structs, switchVars, ticking,
                   crashed>>

\* The frame of lines 48-63, stack[240] first: what irq0 will pop.
FirstFrame(t) ==
    <<<<t, "null">>, <<t, "null">>, <<t, "data">>, <<t, "data">>,
      <<t, "mark">>, <<t, "mark">>, <<t, "mark">>, <<t, "mark">>,
      <<t, "mark">>, <<t, "mark">>, <<t, "mark">>,
      <<t, "entry">>, <<t, "code">>, TRUE>>

\* What create_thread's caller asked for: the registers the thread starts in.
Entry(t) ==
    [r \in Registers |->
        CASE r = "eip" -> <<t, "entry">>
          [] r = "cs" -> <<t, "code">>
          [] r \in {"ds", "es"} -> <<t, "data">>
          [] r \in {"fs", "gs"} -> <<t, "null">>
          [] r = "eflags" -> TRUE
          [] OTHER -> <<t, "mark">>]

\* Lines 45-68, and the return.  (The word at stack[255] is written too, one
\* past the array; nothing reads it.)
BuildFrame(c) ==
    LET t == making[c].new IN
    /\ Step(c, "frame", Idle)
    /\ stack' = [stack EXCEPT ![t] = FirstFrame(t)]
    /\ esp' = [esp EXCEPT ![t] = t]
    /\ view' = [view EXCEPT ![t] = Entry(t)]
    /\ UNCHANGED <<ringVars, tib, thread, cpu, regs, ticking, crashed>>

CreateThread(c) ==
    \/ CreateFirst(c) \/ CreateAppend(c)
    \/ EnterBlock(c) \/ LinkThread(c) \/ BuildFrame(c)

-----------------------------------------------------------------------------
\* cool_down_thread, called by k_main after make_threads.
CoolDown ==
    /\ ~ticking /\ structs = BootThreads
    /\ making[Boot].at = "no"
    /\ tib' = 0 /\ thread' = ptrToThread[0]
    /\ ticking' = TRUE
    /\ regs' = [regs EXCEPT !["eflags"] = TRUE]
    /\ view' = [view EXCEPT ![Boot] = regs']
    /\ UNCHANGED <<ringVars, esp, stack, cpu, making, crashed>>

\* The code of the running context changes registers, or its IF flag.
Work ==
    /\ ticking /\ ~crashed
    /\ \E n \in {0, 1}, flag \in BOOLEAN :
         /\ making[cpu].at # "no" => flag = IfSet
         /\ regs' = Values(cpu, n, flag)
    /\ view' = [view EXCEPT ![cpu] = regs']
    /\ UNCHANGED <<ringVars, esp, stack, tib, thread, cpu, ticking, making,
                   crashed>>

-----------------------------------------------------------------------------
(* irq0.  The CPU pushes eflags, cs and eip, and irq0 PushOrder; esp goes  *)
(* to __current_thread->esp; the_scheduler moves to the next block and     *)
(* gives the esp of its thread; PopOrder is popped from there.             *)
Pushed == [i \in 1..Len(PopOrder) |->
             regs[(Reverse(PushOrder) \o <<"eip", "cs", "eflags">>)[i]]]

Popped(words) ==
    [r \in Registers |->
        words[CHOOSE i \in 1..Len(PopOrder) : PopOrder[i] = r]]

\* Slip: the list is walked backwards.
PrevBlock == prev[tib]

\* The thread_struct that gets the interrupted esp, and the block the_scheduler
\* moves to.
current_thread == thread
the_scheduler == next[tib]

irq0 ==
    LET saved == [stack EXCEPT ![cpu] = Pushed \o @]
        esps == [esp EXCEPT ![current_thread] = cpu]
        n == the_scheduler
        t == IF n = Wild THEN Wild ELSE ptrToThread[n]
        c == IF t = Wild THEN Wild ELSE esps[t]
    IN  /\ ticking /\ IfSet /\ ~crashed
        /\ IF c = Wild
           THEN /\ crashed' = TRUE
                /\ UNCHANGED switchVars
           ELSE /\ esp' = esps
                /\ tib' = n /\ thread' = t
                /\ cpu' = c
                /\ regs' = Popped(saved[c])
                /\ stack' = [saved EXCEPT ![c] = SubSeq(@, Len(PopOrder) + 1, Len(@))]
                /\ UNCHANGED <<view, crashed>>
        /\ UNCHANGED <<ringVars, ticking, making>>

Next ==
    \/ \E c \in Contexts : CreateThread(c)
    \/ CoolDown \/ Work \/ irq0

Spec == Init /\ [][Next]_vars

\* k_main goes on, the timer keeps ticking, a thread inside create_thread
\* goes on when it runs, and nobody keeps interrupts off for ever.
Fairness ==
    /\ \A c \in Contexts :
         SF_vars(EnterBlock(c) \/ LinkThread(c) \/ BuildFrame(c))
    /\ WF_vars(CreateThread(Boot)) /\ WF_vars(CoolDown)
    /\ SF_vars(irq0) /\ WF_vars(Work /\ regs'["eflags"])

FairSpec == Spec /\ Fairness

-----------------------------------------------------------------------------
(* What is checked.                                                        *)
Pointers(S) == S \cup {Wild}

TypeOK ==
    /\ next \in [Blocks -> Pointers(Blocks)]
    /\ prev \in [Blocks -> Pointers(Blocks)]
    /\ ptrToThread \in [Blocks -> Pointers(Threads)]
    /\ blocks \in 0..MaxThreads /\ structs \in 0..MaxThreads
    /\ tail \in Pointers(Blocks) /\ total \in 0..MaxThreads
    /\ id \in [Threads -> Pointers(Nat)]
    /\ esp \in [Threads -> Pointers(Contexts)]
    /\ DOMAIN stack = Contexts /\ DOMAIN view = Contexts
    /\ tib \in Pointers(Blocks) /\ thread \in Pointers(Threads)
    /\ ticking \in BOOLEAN /\ crashed \in BOOLEAN
    /\ cpu \in Contexts
    /\ DOMAIN regs = Registers /\ IfSet \in BOOLEAN
    /\ \A c \in Contexts :
         making[c].at \in {"no", "enter", "link", "frame"}

\* The k-th block on the way from the start of the list.
Walk[k \in 0..MaxThreads] ==
    IF k = 0 THEN 0
    ELSE IF Walk[k - 1] = Wild THEN Wild ELSE next[Walk[k - 1]]

\* "circular linked list" (threads.h:21): whenever the timer may come in,
\* the list is one ring of all the blocks, and each thread is on it once.
RingWhole ==
    /\ TypeOK
    /\ ticking /\ IfSet =>
        /\ {Walk[k] : k \in 0..(blocks - 1)} = 0..(blocks - 1)
        /\ Walk[blocks] = 0
        /\ {ptrToThread[b] : b \in 0..(blocks - 1)} = 0..(structs - 1)
        /\ \A t, u \in 0..(structs - 1) : id[t] = id[u] => t = u

\* The switch never follows an uninitialised pointer, and a context runs on
\* with the registers it was interrupted with, a new thread with those
\* create_thread's caller asked for (scheduler_utils.asm:21-53).
ResumesWhereInterrupted == ~crashed /\ regs = view[cpu]

\* Every thread on the list gets the CPU, again and again.
EveryThreadRuns ==
    \A t \in Threads : [](esp[t] # Wild => <>(thread = t))
=============================================================================
