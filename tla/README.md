# RippleKernel in TLA+

RippleKernel (2002-2003) is a small kernel for one x86 processor: it takes
over from GRUB, installs its interrupt table, gives out physical pages, turns
paging on, creates threads, and switches between them on the timer interrupt.
Drivers are kernel threads that *watch* an IRQ line. There is no user mode and
no second processor, so all concurrency is of two kinds: the timer preempts a
thread wherever the interrupt flag is set, and device interrupts come in at the
same places. There is no persistence.

At this commit `k_main` stops after filling the physical page stack
(`kernel.c:81`, `cli; hlt`), and the set-up of the allocator, the threads and
`cool_down_thread` is commented out behind it (`kernel.c:89-102`). The modules
describe the code past that line, as it is written: paging as `k_main` calls
it, the rest as the commented calls do.

Beside the kernel proper the repository has its heap (`malloc.c`, dlmalloc as
configured here) and a port of the UDI driver environment (`udi/common`,
`udi/ripple`): regions that one thread enters at a time, with asynchronous
services, a memory daemon and timers around them. Nothing in the kernel starts it
at this commit (the Makefile builds only a stub, `udi/blah.c`); its services are
modelled one by one, as they behave once started.

Contents: [inventory](#inventory), [modules](#modules-and-how-they-correspond-to-the-code),
[runs](#runs), [disagreements](#where-code-and-comments-disagree),
[fairness](#fairness), [proofs](#proofs), [limits](#what-is-not-modelled),
[plan](#plan).

## Inventory

| component | source | state | operations | interacts with |
|---|---|---|---|---|
| IRQ ownership | `irqs.c`, `idt.c`, `irqs_utils.asm` | `irq_keys`, `irq_watching`, the soft mask `irqs`, the masks in two 8259s, present bits of IDT gates | `watch_irq`, `release_irq`, `mask_irq`, `unmask_irq`, the watcher stubs | called by drivers (threads); interrupted by devices; the caller keeps a pointer to the counter |
| threads, scheduler | `threads.c`, `scheduler.c`, `scheduler_utils.asm` | ring of `thread_info_block`s, `thread_struct`s with their stacks, `__current_tib`, `__current_thread` | `create_thread`, `cool_down_thread`, `_irq0` with `the_scheduler` | preempts everything below |
| keyboard | `keyboard.c` | the counter of IRQ 1 (through the pointer), progress of set-up | `setup_keyboard` and the commands it sends | 8042 and keyboard by ports; `watch_irq`; `irq_watcher_helper` |
| second keyboard driver | `c_keyboard.c`, `c_scanset2.c` | `keyboard_inbuf`, `keys_pressed`, `keyboard_led_map`, `keyboard_mutex` | `keyboard_main`, `keyboard_decode_inbuf`, `keyboard_get_ascii`, `set_keyboard_leds` | keyboard by bytes; the spin lock. Not linked by the Makefile |
| physical pages | `phys_mm.c` | an array and a position at 0x200000 | push, pop | `k_main`, `virt_mem_inti`, `page_fault` |
| paging | `mm.c:12-41`, `exceptions.c` | page directory (mapped into itself), page tables | `virt_mem_inti`, `page_fault` | page stack; faults nest |
| address space | `mm.c:43-281` | `page_bitmap`, `superpage_bitmap`, `superpage_count` at 0x300000 | `kmorecore`, `morecore` | called by malloc, from any thread |
| console | `putchar.c`, `kernel.c:137-146` | `_csr_x`, `_csr_y`, video memory, cursor registers | `putc`, `update_cursor` | every thread prints, through `k_printf` |
| spin lock | `mutex.c` | one byte per lock | lock (block, noblock), unlock | meant for the console, the page stack, the keyboard; every call is commented out |
| heap | `malloc.c` | chunks with boundary tags, fast bins, sorted bins, top, `last_remainder` | `malloc`, `free`, `realloc`, `memalign`, `independent_comalloc`, `mallopt`... | `morecore` below it; everything above |
| UDI buffers | `udi_buf.c` | segments over counted blocks, tags | write, copy, free, read, tags, checksums | memory daemon, DMA |
| UDI regions, daemon | `udi_imc.c`, `udi_mei.c`, `udi_alloc.c` | a region's lock, queue and flags; the daemon's list; a control block's state | calls, callbacks, requests, cancel, destroy | every service below |
| UDI timers | `udi_timer.c` | two lists, one heartbeat | start, start repeating, cancel, the beat | kernel's clock, regions |
| UDI channels | `udi_imc.c`, `udi_MA_util.c` | two ends with a status, spawn lists, the agent's pool | spawn, anchor, close, call | regions, agent |
| UDI control blocks | `udi_cb.c`, `udi_mei.c`, `udi_init.c` | blocks with scratch, inline memory and old memory | alloc, batch, free, a call with its growth | channels |
| UDI layouts | `udi_layout.c` | none | size, offsets, search, marshalling | control blocks, calls |
| UDI management agent | `udi_MA.c`, `udi_MA_util.c` | the node tree, drivers, unbound list, contexts of binds, enumerations, unbinds | install, match, bind, enumerate, unbind, destroy, release | all drivers |
| UDI attributes | `udi_inst_attr.c` | a list and a reader count per node | get, set, release | timers for the retries |
| UDI DMA, constraints | `udi_dma.c`, `udi_constraints.c`, `udi_osdep_dma.c` | constraints, paths, handles, pool, tracker | allocate, map, unmap, memory to buffer, free, reap | buffers, regions |
| UDI PIO | `udi_piotrans.c`, `udi_pio.c` | a mapped list, registers, memory | map, run a list | device |
| UDI tracing, logging | `udi_trlog.c` | a ring with two positions, a queue, a pool | trace, log, the daemon's work | every region |
| boot | `kernel.c`, `boiler.asm` | - | `k_main` | everything, once, in order |
| not modelled | see [below](#what-is-not-modelled) | | | |

What makes each correct, and why it is hard:

* **IRQ ownership** - one watcher per line; a line is open only while its gate
  is present (the alternative is a fault and a halt); key, gate, soft mask and
  PIC agree; a watched line counts. Hard: every call is a sequence of loads,
  stores and port writes on words that other threads use, and a request can
  come in between any two of them.
* **Scheduler** - whenever a tick may come the ring is one cycle of all blocks
  with a thread each; a context resumes with the registers it was interrupted
  with; no two threads are saved on one stack; every thread comes round. Hard:
  assembly pushes and pops must mirror each other, the boot stack is silently
  adopted by the first thread, and `create_thread` edits the ring in place.
* **Keyboard** - a keyboard that answers is set to set 2; each byte is read
  once and in order; the counter is exact; no key is waited for after its
  interrupt has gone. Hard: answers, keys and timeouts are ordered by the
  device, and the counter is shared with the interrupt.
* **Second keyboard driver** - what is decoded and printed is what was typed;
  it knows which keys are down and which locks are set, and the lamps say so; a
  command ends. Hard: codes of one to eight bytes with false shifts in them,
  and answers to commands that arrive between keys.
* **Physical pages and paging** - a page has one use; a mapped page stays
  mapped; a new table is empty; the kernel's own pages stay where they are; an
  access ends. Hard: the handler faults on its own writes, works through a
  self-mapped directory, and shares the stack of pages with boot.
* **Address space** - runs given out are disjoint and never the kernel's;
  counts and full bits follow the page bits. Hard: three redundant tables, each
  one element short so that the last of one is the first of the next, a scan that
  carries its state across superpages, no lock.
* **Console** - the screen shows the tail of the text, nothing is drawn outside
  it. Hard: wrap and scroll together at the last cell; many callers.
* **Spin lock** - mutual exclusion, and a failed attempt, which writes the byte
  too, locks nothing.

* **Heap** - tags, bins and counts agree after every call; blocks are apart and
  keep their bytes; nothing is refused that could be had. Hard: every free merges
  with both neighbours, memory comes in pieces that do not follow each other, and
  a remainder is remembered across calls that may merge it away.
* **UDI buffers** - a read gives what was written, whatever segments lie under
  it; blocks are counted; tags stay inside. Hard: a write is one of four plans
  over segments of three kinds, and may stop half way for memory.
* **UDI regions** - one thread inside; nothing waits at an idle region; a block
  is in one place. Hard: deferral, callbacks nested up to a limit, a daemon that
  works without the region's lock, cancel at any moment, a region destroyed from
  inside a call of its own.
* **UDI timers** - never early, never forgotten, ticks of a repeating timer add
  up, one heartbeat. Hard: times kept as differences against two lists' last beats.
* **UDI channels** - two halves of a spawn meet once; closing is told. Hard: no
  lock covers a channel.
* **UDI control blocks** - data follow a block as it grows; none is freed twice
  or forgotten; sizes suffice for every operation. Hard: the sender, an abort and
  the copy know different memory.
* **UDI management agent** - the tree and the drivers' lists agree, no node is
  forgotten, no context lost. Hard: every operation is a chain of answers by
  drivers while a loader changes the same lists.
* **UDI attributes, DMA, PIO, layouts, logging** - see their properties below.

`PROJECT.json` lists each hazard at its line with the properties that cover it.

## Modules and how they correspond to the code

| module | models | built on |
|---|---|---|
| `IrqWatch` | `irqs.c`, present bits of `idt.c`, the stubs | - |
| `IrqTable` | what `watch_irq`/`release_irq` promise: an owner and a count per line | - |
| `IrqWatchRefines` | the refinement mapping from `IrqWatch` to `IrqTable` | both |
| `Scheduler` | `threads.c`, `scheduler.c`, `_irq0` | - |
| `Keyboard` | `keyboard.c` with an external keyboard and 8042 | - |
| `KeyDecoder` | `c_keyboard.c`, `c_scanset2.c` with an external keyboard in set 2 | - |
| `SecondKeyboard` | the second keyboard driver, in variables beside those of `Keyboard` | instance of `KeyDecoder` |
| `PhysStack` | `phys_mm.c`, as operators on the stack's two variables | - |
| `PageFrames` | the stack under callers that push and pop as they like | `PhysStack` |
| `PageCallers` | the same, in variables beside those of `Paging` | instance of `PageFrames` |
| `Paging` | boot pushes, `virt_mem_inti`, `page_fault` | `PhysStack` |
| `MCPaging` | the kernel's paging, or the page stack under any callers: one of the two | extends `Paging` and `PageCallers` |
| `MoreCore` | `kmorecore`, `morecore` | - |
| `Console` | `putc`, `update_cursor` | - |
| `Mutex` | `mutex.c` | - |
| `ConsoleLock` | the lock putc would take, in variables beside those of `Console` | instance of `Mutex` |
| `MCConsole` | the console, or the lock: one of the two | extends `Console` and `ConsoleLock` |
| `Heap` | `malloc.c` | implements `Allocator` |
| `Allocator` | what an allocator promises its callers | - |
| `UdiBuf` | `udi_buf.c`, writes of external memory by DMA | - |
| `UdiRegion` | calls and callbacks of `udi_mei.c`, `udi_imc.c`, `udi_env.h`; `udi_alloc.c` with the daemon of `udi_osdep.c` | - |
| `UdiTimer` | `udi_timer.c` | - |
| `UdiChannel` | channels of `udi_imc.c`, the event pool of `udi_MA_util.c` | - |
| `UdiLayout` | `udi_layout.c` | - |
| `UdiMA` | `udi_MA.c`, `udi_MA_util.c` | - |
| `UdiAttr` | `udi_inst_attr.c` | - |
| `UdiDma` | `udi_dma.c`, `udi_constraints.c`, paths of `udi_buf.c`, the tracker of `udi_alloc.c`, `udi_osdep_dma.c` | - |
| `UdiPio` | `udi_piotrans.c`, `udi_pio.c` | - |
| `UdiCb` | `udi_cb.c`, block sizes of `udi_init.c`, growth in `udi_mei.c` | - |
| `UdiTrlog` | `udi_trlog.c` | - |
| `UdiServices` | channels, attributes and the log beside one another, so that theorems and runs speak of the same properties | instances of `UdiChannel`, `UdiAttr` and `UdiTrlog` |
| `UdiResources` | what `UdiDma` describes, in variables beside those of the other services, for the same reason | instance of `UdiDma` |
| `MCUdi` | one of the UDI services at a time: the regions' names are its own, the others' carry a prefix | extends `UdiRegion`, `UdiServices` and `UdiResources`, instances of the others |
| `MC...` | constants for TLC | the module named |
| `..._proofs` | theorems; those of `Mutex` are in `Console_proofs`, those of `KeyDecoder` in `Keyboard_proofs`, those of `PageFrames` in `Paging_proofs`, those of `UdiChannel`, `UdiAttr` and `UdiTrlog` in `UdiServices_proofs`, those of `UdiDma` in `UdiRegion_proofs` | the module named |

**IrqWatch.** A driver is a thread; `at[d]` is the place in a call. Variables
have the code's names; `imr`, `irr`, `intOn`, `gate` are the hardware.
`watch_irq` is CallWatch (the test, line 81), Claim (83-84), EnableGate (85),
UnmaskLoad, UnmaskStore, UnmaskOut (86, and 142-152); `release_irq` is
CallRelease, MaskLoad, MaskStore, MaskOut, DisableGate, DropKey. Between any two
of them the timer may give the CPU to another driver (Tick) and a request may be
delivered (Deliver), if IF is set. The compiler may increment the key in memory
or from the register of the test; Claim allows both. Delivery through a gate
that is not present is a #NP exception, whose handler halts. `UsesCli` are the
drivers that do what `setup_keyboard` does, `cli` around the call; in the runs
all of them do. A driver releases a line that it holds: `release_irq` itself looks
only at the key, and nothing in this repository calls it.

**Scheduler.** `next`, `prev` and `ptrToThread` are the blocks, `Wild` is what
an uninitialised word points to. `create_thread` is four steps (up to line 32,
33-36, 39-46, 48-68). A context is a stack with code on it: the boot context
is one of them, because `cool_down_thread` is entered by a call and never
returns, and the first tick saves it into the first thread's `esp`. irq0 pushes
`PushOrder`, saves, moves on, and pops `PopOrder`. Work lets the running code
change its registers and its IF; the history variable `view` remembers what a
context had when it last ran. If the tick meets `Wild`, `crashed` is set.
`LateCreate` says whether running threads call `create_thread`, and with IF set
or clear.

**Keyboard.** One thread and its devices. Each polling loop is one step, what it
waited for or its timeout. The external part has the 8042's two one-byte buffers
and a keyboard with a queue of answers and one of keys. Which world a behaviour
is in is chosen at the start: the kind of keyboard; `slow`, a timeout may come
although an answer is on its way (from `Patience`); `early`, keys are pressed
before the driver polls (from `Fingers`); `decrement`, whether the build
decrements the volatile counter in one instruction or two (from `Decrements`).
Properties that hold only in some worlds name them in their hypothesis.

**KeyDecoder.** One step of `keyboard_main` reads a byte, decodes what it
completes and acts on it, all in one because nothing else touches the driver's
state; `set_keyboard_leds` with `keyboard_command_byte` is a step for each byte
sent or read, because the keyboard goes on sending. The keyboard is external:
its make and break codes with the false shifts of the middle keys, its repeat,
and an answer to a command byte that may be "send again" or an error. At this
commit `keyboard_byte_in` calls a stub that returns 0 and its port read is
commented out; the model gives it the keyboard's bytes. History: `meant`, what
the user typed; `odd`, a lone false shift was sent; `lost`, a command has
ignored bytes; `failed`, the last command failed. The run and the theorems speak
of it through `SecondKeyboard`.

**PhysStack, PageFrames, Paging.** `Push` and `Pop` keep the code's index
arithmetic, off by one in both directions, and the word under the stack that
nothing writes (`Garbage`). PageFrames drives them freely. Paging is scaled to
`Entries` = 16 per table where the machine has 1024 and keeps what matters of
the arithmetic: a page number splits into a directory and a table index, the
last directory entry maps the directory, and the mask 0xFFFFF000 on a page
number selects a group of four tables. The handler is Fault, AddTable,
NestedFault, ClearTable, MapPage; NestedFault is the page fault the handler's
own write takes, run to its end. `Fill` is what memory holds before it is
written.

**MoreCore.** A call is two steps, the search (Look, with Search as a recursive
function that follows the three loops, their bounds and their early exits) and
the marks (Mark), so that two callers interleave where no lock is taken. A
search is one step because no mark of another caller between two of its reads
adds an outcome the hazards need; the marks are one step for the same reason.
Pages are numbers, the bitmaps are sets. Each array of `mm_t` is one element short
(`mm.h:7-9`), and the model has the consequences. The word of `superpage_bitmap`
for the last 32 superpages is `superpage_count[0]` and `[1]`, two 16-bit numbers:
a superpage of the last word that fills puts its bit into them (`PutBits`, with the
numbers wrapped by `Short`), and whether it is full is read out of them
(`SuperFull`). Those two counts are zero from boot on, which alone keeps the kernel
image's superpages from being searched. The word behind the end of `page_bitmap` is
the first of `superpage_bitmap`; it would hold the last group of the last superpage,
where the search never looks (k stops at 31) and no run comes (`Stray` says what a
mark there would do). The last superpage is never given: `k_main` leaves its
count unset (`kernel.c:92` stops at 1022), it is past the end of the array, and
with a count of zero a superpage is searched only for requests of whole superpages.
The memory at 0x300000 is taken to be clear at boot; nothing in the code clears it.

**Console.** The step of a caller is one access of the cursor variables or the
screen, in the order `gcc -O2` makes them; the registers `x`, `y` are what was
read. The two stores of a line break, and the two calls that scroll, are one
step each.

**Mutex.** The exchange is one step, the test of its result another.

**Heap, Allocator.** A call of malloc.c is one step of `Heap`; `head` and `foot`
are the size words that mean something, so a read of any other word is an error
of evaluation. The bins are sequences in the code's order, `Consolidate`, `MergeForward`,
`SysMalloc` and the rest have its names. MORECORE answers pages with any of
`Gaps` between them and the last ones (others took them). A world has one of the
`ZeroAnswers`: MORECORE(0) answers with the end of what it gave, as malloc.c wants,
or with a failure, as `kmorecore` does. Addresses are small:
page, word and size classes are constants. `Allocator` knows only blocks and the
memory owned: a call may touch no block but the one it was given.

**UdiBuf.** Segments, blocks with counts, tags; a request that needs memory is
"asked" and completed later, or runs at once. `text` is what the driver put into
a buffer and `plain` whether all requests on it were of the kind that the code
gets right (see the list of differences); the properties compare reads with
`text`.

**UdiRegion.** A thread is a stack of frames, one per region it is in; a step is
what happens under one taking of a region's lock. The daemon and the heartbeat
are actors of their own. An interrupt region takes calls and never drains.

**UdiTimer.** The two lists as sets; `now` is the true time and the code sees it
modulo `Wrap`; the kernel may call the beat up to `MaxLate` late.

**UdiChannel.** What a call reads of a channel and what it then does are steps of
their own, with the other region in between. `blame` records which race led to
the use of freed memory; the properties hold as long as there is none (`Calm`),
and `WildForCause` says that there is no other way to it.

**UdiLayout.** A layout grows by one member at a time beside the C structure the
compiler would make; the code's scans are read against it. The byte that ends a
layout is 0, and 0 is also a value that an argument of `UDI_DL_BUF` may have
(`Arguments`): the scans skip a nested layout up to its first 0 (`Behind`), the
argument's if there is one. Layouts that nest a 0 in this way (`HasZero`) are in the
run, the scans go wrong on them as the code does, and the property claims only
what still holds (`ParametersFit`); no layout in the repository has one.

**UdiMA.** Nodes, drivers and the contexts of binds, enumerations and unbinds; a
driver answers whenever it likes. The loader thread and the agent's region share
the lists. `polite` is a world in which loading, unloading and plugging take
turns.

**UdiAttr.** Three nodes, requests step by step with the readers' count and the
retry by a timer; `truth` is what was last set. `lost`: a node was released under
a request; `mixed`: the copy of the locator was by-passed.

**UdiDma.** Objects are addresses that may come again; `tracked` is the tracker's
list, `ring` the pool of handles with memory, `whole` what a buffer ought to hold.
`asked` is what was set of each attribute, as far as it still counts (`Kept`): all
of it, of one that any value may replace the last, and of the barrier what came
since the last 0, because the next value replaces a 0. A request to set attributes
that finds no memory waits in `setting` (one at a time) and is completed by the daemon from the
source as it is by then; a cancel frees the source, or what was made.

**UdiPio.** The interpreter with words of two units (a unit is 16 bits in the
code) beside a machine on numbers; an operation that the code is known to get
wrong sets `flawed`.

**UdiCb.** Two drivers whose templates and operations are constants; a block is a
sequence of units of memory, `known` is what a sender of an operation that can be
aborted still knows.

**UdiTrlog.** Every writer is a worker, because this port leaves `_OSDEP_TRLOG_NEW`
as it is (`udi_env_trlog.h:102`): a place of the ring is taken (lock), filled (no
lock), committed; a worker looks (lock), formats (no lock), moves the consumer
(lock), puts out. `disturbed` says that two of them have met in a place, at an
event or in the one buffer. The pool of the agent's blocks has no lock: looking at
its first block (Take) and taking it out (Unlink) are steps of their own, so that
two threads may take one block, and a block put back while another is at the pool
may tear the queue; from either on nothing is claimed (`wild`). The put-back itself
is one step.

The UDI modules' `wild` (in `UdiCb` `cbWild`) is set where the code uses freed
memory or follows a pointer it never set; what follows then is not modelled, and
the properties are about what comes before.

Names ending a comment with "slip" are wrong variants of a definition, used
to show that a property depends on it; no specification uses them.

## Runs

Each passing run explores its instance completely.

| run | shows | instance and why it is enough |
|---|---|---|
| `irq_watch` | exclusive watch, gate before line, the four records agree, refinement of `IrqTable`, a request whose path is open is delivered | 2 drivers with `cli`, the timer, the cascade and a line of each PIC: the drivers contend for lines and for both mask words, and the counter wraps |
| `scheduler` | the ring is whole, contexts resume as interrupted, every thread runs | 2 threads made at boot as `make_threads` does, a third made by a running one with interrupts off: the first insertion into a ring of two |
| `keyboard` | no byte read twice, exact count, set 2, every key read | 4 kinds of keyboard, 3 initial sets, 2 keys (they fill the buffer and the queue behind it), and all eight worlds |
| `key_decoder` | held keys, locks and lamps are known, the print is what was typed, commands end | 4 movements of 9 keys, one at least of each encoding, and 2 bad answers, so that the tries of a byte run out |
| `paging` | one use per frame (`OneUsePerFrame`); kernel mapped, and while faults stay in first tables mappings survive and new tables are empty (`MappedAndNoMore`); an access ends; for callers of any kind, a pop answers a free page or 0 (`PopAnswersAFreePage`), and none twice (`NoPageTwice`) | 16 entries a table, faults in two tables of one group, up to the last entry, and in another group, memory clear or dirty; 7 pages at boot, so that they run out. Or 4 pages, pushes before pops, word under the stack 0 |
| `morecore` | runs apart and the image's pages kept (`RunsAreApart`), counts and full bits exact (`TablesAgree`) | superpages of 4 groups of 4 pages, 12 to a word, 3 words, both heaps, 6 calls for a page, a superpage (which does not fit), a superpage and a page, or eight superpages and a page, which fill superpages and come to the last word; one caller |
| `morecore_image` | a violation: the kernel image is given out | the same with requests that all fit |
| `console` | screen and cursor show the text's tail; of the lock, exclusion, byte agrees, somebody gets in | 2 rows of 3, 8 characters with line breaks and backspaces: wrap and scroll several times, together too; one caller. Or 3 threads at the lock: a holder, a spinner and a failed attempt |
| `heap` | `HeapIsSound`: what `do_check_malloc_state` asserts and, over a MORECORE that answers 0 with its end, every byte accounted for and nothing refused that could be had; `ImplementsAllocator` | 4 pages of 64 bytes with gaps of none or one page, 3 blocks, 6 calls of every kind, a small and a large size, both answers to 0: fast, small and large bins, merges on both sides, fenceposts, a new top; 38,357 states |
| `heap_refuses` | a violation: malloc refuses although memory can be had | the same with the answer of `kmorecore` |
| `udi` | one invariant for each service, and `AllWorkIsDone` for the three that promise an end | below; 571,835 states |

The services of the UDI environment share no state in these models, so one run
takes them one at a time: `service` is chosen at the start and only its
variables move. Their instances in `MCUdi`:

| service | property | instance | larger instances explored without a violation |
|---|---|---|---|
| buffers | `BuffersAreSound`: reads are exact, blocks counted, tags inside, sums exact | 2 buffers, 3 calls of 0, 1 or 3 bytes, sizes to 4 | 4 calls of 0 to 2 bytes, 1.23 million states; 5 calls on one buffer, 1.19 million |
| regions | `RegionsAreSound`: one thread inside, nothing waits alone, a block in one place, depth counted | a region and an interrupt region, 2 blocks, 2 threads, 4 calls, a nesting limit of 1 | 6 calls, 719,456 |
| timers | `TimersAreOnTime` | 1 timer, intervals 0 to 34 on a clock that wraps at 64 and soon | 2 timers to time 11, 440,970 |
| channels | `ChannelsAreSound` | 2 regions, 3 channels, a pool of 1, 4 calls | 5 calls, 433,098 |
| layouts | `LayoutsAreRead` | every layout of 3 members of 6 codes and 2 array counts, arguments without and with a 0 | 4 members of arguments without a 0, 471,327 |
| agent | `AgentIsSound` | a bridge and a disk driver, 3 nodes, 2 child ids, 5 calls | 6 calls, 374,677; polite only 7 calls, 30,803 |
| attributes | `AttributesAreSound`, `RequestsAreAnswered` | 2 requests on 3 nodes, 3 names, 3 calls | 3 requests, 319,866 |
| dma | `ResourcesAreSound` | 2 constraints, a path, 2 handles, a buffer, 3 calls | 4 calls, 222,304; 5 calls with two of each, 1.9 million |
| pio | `ListsRunAsWritten` | words of 4 bits, each operation alone, constants behind a test, loops over two labels | three operations in a row, 1.23 million |
| blocks | `ControlBlocksAreSound` | 3 blocks, 3 pairs of drivers, an index of 4 values, 4 calls | more calls, 629,177 |
| log | `LogIsSound`, `EverythingIsLogged` | 2 threads, a pool of 2, a ring of 3 places, 3 writes: the ring overflows while its oldest place is being filled, and while a worker formats it | 4 writes with a pool of 1, 743,896 |

`irq_slave`, `morecore_image` and `heap_refuses` expect a violation and are the
findings of the next section.

Deadlock is not checked (`CHECK_DEADLOCK FALSE`) where the system may stop:
`keyboard` and `key_decoder` (a driver that halted or gave up, a user who
stopped typing), `paging` (a kernel that halted, an access done), `morecore` (no
room left under the bound on calls), `console` (a text at its bound), `heap` and
`udi` (calls at their bound, or memory used in a way that is not followed).

Bounds: `MaxTyped` (keys; `MaxMoves` of `SecondKeyboard`), `MaxTrouble` (bad answers), `Tries` (500 in the
code), `MaxThreads` (blocks ever made), `MaxCalls` (allocations), `MaxText`
(characters), `CountWidth` (2^16 in the code), `StackWords`, `BootPages`, and
the scaled geometry `Entries`, `Bits`, `Groups`, `WordSupers`, `Words`, `Rows`,
`Cols`, with `ShortTop` for the sign bit of a 16-bit count. In the heap `Memory`, `MaxBlocks`, `MaxCalls`; in the UDI modules
`MaxCalls`, `MaxSize`, `MaxStarts`, `MaxTime`, `MaxMembers`, `MaxTrans`,
`MaxWrites`, the sets of objects, and scaled words: `Wrap` (2^32 ticks; 256
values of an index), `UnitBits`.

## Where code and comments disagree

Three runs have a property that TLC violates, and are findings of `PROJECT.json`:

* `irq_slave` - lines 8 to 15 never fire, because nothing unmasks input 2 of the
  first PIC.
* `morecore_image` - a superpage of the last word that fills (its 32 are 992 to
  1023) writes its full bit into the counts of the kernel image's superpages; a
  count above zero lets the search in, the image's page bits are clear, and the
  image is given out (mm.c:274, mm.h:8, kernel.c:91).
* `heap_refuses` - `kmorecore(0)` answers -1 (mm.c:67) where malloc.c:4832 wants the
  end of memory and takes it for a failure: the pages it was given are thrown away
  and every request that needs new memory is refused, the first one too. What is
  said of a heap that works is therefore said of the answer malloc.c asks for, the
  clauses `EveryByteIsAccounted` and `RefusedOnlyWhenFull` of that one only;
  tags, bins, counts and `ImplementsAllocator` hold with either.

Other behaviour met while modelling, which no run keeps. The models show it when
a constant is changed as in the second column.

| what | how |
|---|---|
| two drivers without `cli` are granted one line | `IrqWatch.cfg`, `UsesCli = {}`: `ExclusiveWatch` fails; with one such driver the gate order and the refinement still hold |
| a tick inside `create_thread` meets a block fresh from malloc | `Scheduler.cfg`, `LateCreate = "open"`: `RingWhole` fails |
| an interrupt between load and store of the decrement is lost (keyboard.c:127) | `Keyboard.cfg`, invariant `CountIsExact` with `Decrements = {"two"}` |
| a key typed during identification halts the kernel with a good keyboard (keyboard.c:181); a failed command leaves another set unnoticed (107) | `Fingers` or `Patience` `{TRUE}`, without the hypothesis `Orderly` |
| a release among the bytes a lamp command ignores leaves its key pressed (c_keyboard.c:242); a cursor key released under shift leaves E0 12 behind, which swallows the next keys (342) | `KeyDecoder.cfg`, `KnowsTheKeyboard` without `~lost` or without `~odd` |
| a push after a pop gives a page out twice; a dirty word under the stack is answered as a page | `Paging.cfg`, `BootOnly = FALSE`: `NoPageTwice`; another word in `Garbage`: `PopAnswersAFreePage` |
| the last entry of a new table is not cleared (exceptions.c:69) | `Paging.cfg`: `MappedAndNoMore` without `IsZeroed` |
| a fault between 4MB and 16MB clears the kernel's own table | page 16 among `UserPages`: `MappedAndNoMore` without `FirstTableIsAlone` |
| a request of whole superpages, which leaves 0 modulo a superpage, is let into superpages whose count is 0 and takes the kernel image's pages (mm.c:82); a request for more than a group and two pages beyond them may be given pages that are taken (mm.c:85: the loops end one short) | `MoreCore_image.cfg`, `KernelSizes = {16}`: `KernelImageIsKept`; `MoreCore.cfg`, `RunsAreApart` without `AllFit` |
| two callers get the same pages (mm.c:72) | two `Callers`: `RunsAreApart` |
| the first table of a group is cleared in place of the new one (exceptions.c:68) | `Paging.cfg`, invariant `MappingsSurvive` |
| two callers draw over each other and below the last line (putchar.c:19) | `Console.cfg`, two `Callers`: `ScreenShowsTheTail` |

Three more are read off the code: `create_thread` leaves the back pointer of the
new block's successor stale (threads.c:36), which nothing follows; the first
frame's last word lies outside `stack[255]` (threads.c:66 and
`include/threads.h:13`); `kbd_curr_scancode_set` returns the acknowledge and not
the set (keyboard.c:232), and its result is only printed.

The UDI modules follow the code where it does something else than one would
expect, or mark it (`wild`, `flawed`, `disturbed`, `plain`, `lost`) and stop there:

* **heap** - `mallopt(M_MXFAST, 0)` gives the fast bin index -1 (malloc.c:3934);
  products and sums of sizes wrap (4265, 4343).
* **buffers** - replacing a stretch by one of another length is wrong in both
  directions (udi_buf.c:380, 424, 964); a delete across the end sets the memory's
  size wrongly (296); unlinking the first of the invalid tags follows a null pointer
  (156); setting tags again makes duplicates (2732); `tag_apply` adds memory twice
  (2613, 2975); a one-byte piece leaves the sum's left-over flag (2416).
* **regions** - cancel tests "cancelled" where "busy" is meant (udi_alloc.c:565),
  and takes the head of the region's queue for a block that is done; a request
  refused memory and put back is not woken (289); queues of interrupt regions are
  never drained; the daemon does not look at a region's end.
* **timers** - intervals of half a word or more fire early or fail an assertion; a
  repeating interval below one tick panics.
* **channels** - the spawned end is marked after the lock is released
  (udi_imc.c:750); a spawned end closed before the other is taken leaves its spawn
  record dangling; both ends closing at once free the channel twice; a deferred
  close event uses a freed channel.
* **layouts** - the search omits the padding before what it finds; arrays are
  aligned to their whole size by a mask; a nested layout is skipped to its first 0
  (udi_layout.c:201, 224, 239, 372, 391, 509, 527, 537), which may be an argument.
* **agent** - a failed bind of a driver without parent frees a node still listed;
  a rescan takes children without driver off the list; the status of a failing
  internal bind is overwritten; unloading a driver during a bind by hot plugging
  frees it in use; a child removed twice is freed twice.
* **attributes** - a value of length 0 for a new name adds an empty entry; the
  tracing copy of the locator is stale after the driver's own set or another
  spelling; a release under a request leaves it a freed node.
* **DMA** - the alignment attribute is read by a compound code and never applied;
  a read mapping replaces the buffer and is exact only for the whole of it;
  external memory long enough is overwritten at its start; freed constraints stay
  known to handles; a cancelled mapping is discarded as if it had been made; a
  cancelled request to set attributes frees the driver's source
  (udi_constraints.c:511), or what the tracker still lists (502); a
  barrier of 0, which `udi_constraints.c:77` says is most restrictive, gives way to
  any value set after it (`udi_constraints.c:318`).
* **PIO** - carries of wide additions and subtractions compare with a sign; wide
  AND, OR, XOR clear or keep words wrongly, shifts extend or loop past the
  register; a test before a wide constant skips only its first part. In this port
  `_UDI_PHYSIO_SUPPORTED` is 0 (udi_osdep.h:60), so the code is not compiled.
* **control blocks** - a second growth while an operation can be aborted frees
  memory its sender knows; a closed end frees only the first block of a chain; a
  batch with buffers whose blocks have none never calls back; a count of 0 wraps.
* **logging** - with two workers an event is printed twice and the next one
  skipped, the consumer may pass the producer, and the two may chase each other
  round the ring for ever; in a full ring the oldest place is given away even while
  it is filled or formatted; an event of a destroyed region is formatted through
  the freed region; the pool of the agent's blocks has no lock (381, 420).

The passing runs of the same components are the part of the state space the
code handles: drivers with `cli`, pushes before pops, one printing thread. Where a
run does come to what the code gets wrong, a hypothesis of its property leaves
it out from there on, and a note on the hazard in `PROJECT.json` says so.

## Fairness

* `IrqWatch`: for each driver, the steps of a call it is in (strong, because it
  runs only in turns), setting IF again after it (a thread does not halt with
  interrupts off) and, for each driver, being given the CPU again and again: the
  round robin of `Scheduler`, checked there as `EveryThreadRuns`. A request that
  can be delivered again and again is delivered: an instruction boundary with IF
  set takes it. Nothing obliges a driver to call or to release.
* `Scheduler`: the timer keeps ticking (strong: IF comes and goes); a thread in
  `create_thread` goes on when it runs; boot goes on; nobody keeps interrupts
  off for ever (the code has no such path but the halts).
* `Keyboard`: weak fairness of the driver thread, the 8042 and the interrupt.
  Nothing obliges anyone to type. The polling loop itself is no step of the
  model while the counter is 0.
* `KeyDecoder`: weak fairness of the driver thread; nobody has to type.
* `Paging`: the processor executes its next step.
* `MCUdi`: weak fairness of the actors of three services. `UdiRegion`: threads in
  a call, the daemon and the heartbeat go on (the scheduler runs them). `UdiAttr`:
  each request's next step, its retry by a timer included (`TimersAreOnTime`).
  `UdiTrlog`: a thread goes on in what it writes. Nothing obliges a driver to ask.
  Nothing of these is enabled in the initial states of a service that is not
  chosen, so the fairness may be stated for all of them together. Two ways not to
  end are excepted in the properties and are the code's: the daemon asleep on
  requests that were refused memory, and workers that met at the ring.
* `Mutex`: weak fairness of each thread in a lock call or a section, which the
  scheduler gives, and which says a holder releases. Under it somebody always
  gets in; a given waiter need not, and the model has runs where it does not.

## Proofs

TLAPS checks these for every value of the constants allowed by the assumptions.

**IrqWatch** (`IrqWatch_proofs`), for drivers that all hold interrupts off
around their calls (`UsesCli = Drivers`): `TypesHold`, `OneWatcher`,
`OpenLinesHaveGates`, `StateAgrees`. None of the safety properties is inductive:
that nobody else is granted a line depends on the key, and that the key is right
in the middle of another call depends on there being no second call. The
inductive invariant (`DisciplinedIsSafe`) has four parts: types; at most one
driver is inside a call, and then it is the running one and IF is clear; for
each step of a call, what of key, gate, soft mask, PIC and register has already
changed; and for lines not in a call, that all of these say what `holds` says.
`Refinement` uses it to show that every step is one of
`IrqTable`'s or a stutter: Claim is Acquire, DropKey is Release, Deliver is Fire.
Assumptions: those named in `IrqWatch`, of which `KeysApart` says that a key plus
one is not itself a key that is offered; both tables of `irqs.c` satisfy it.

**Mutex** (in `Console_proofs`, of the instance `Lock`): `Exclusion` and `ByteAgrees` for any set of threads.
Exclusion is not inductive, because a thread that has read 0 and not yet tested
it is as good as inside; `HoldersAgree` is stated over `Holds`, which counts it.

**PageFrames** (in `Paging_proofs`, of the instance `Frames`): under the boot discipline (pushes before
pops, zero under the stack) `FramesTyped`, `NeverTwice` and `PopsAreFree` for any
finite set of pages. The invariant `FramesHold` says that the words of the stack
are different pages and that those a pop may still answer are free.

**Scheduler** (`Scheduler_proofs`), as long as no running thread calls
`create_thread` with interrupts on (`Disciplined`, `LateCreate # "open"`; the
code's only calls are those of `make_threads` at boot, scheduler.c:24 and 26):
`RingStaysWhole` and `ContextsResume`, for any number of threads and any
registers. Neither property is inductive, because what a tick restores was written
by another tick long before. The invariant says of every block and stack, the
suspended ones too, what the next tick will need: each block leads to the next one
and the last to the first (`Ring`), except for a block that is just being
entered; `Counts` ties `total`, `tail` and the step `create_thread` has reached to
the number of blocks; each thread that waits has an `esp` into a stack of its own
(`OwnStacks`) that holds exactly the registers of the context's `view`, in the
order they will be popped (`Frames`); the running context's stack is as empty as
it was when it was resumed (`Running`). `RingWhole` speaks of what `Walk` reaches,
a recursive function; that a walk of k steps arrives at block k is proved with the
least k for which it would not (`LeastOf`, from the well-foundedness of the
naturals), and so needs no induction theorem.

**Keyboard** (`Keyboard_proofs`), for any number of keys, all keyboards, both
builds, and timeouts and keys at any moment: `EachByteOnce` and, in the worlds
named in the property, `PolledInSet2`. A read takes the buffer's byte whether it is
full or not, so that no byte is read twice depends on the counter of interrupts,
which the driver and the interrupt both write: `Counted` says for each place of
the loop how high the counter may be and that its last unit stands for a byte
still in the buffer. `Answered` bounds what the keyboard may still have to say by
where the driver is, one answer less for each byte it recognised; type correctness
needs it. `Handshake` describes, for a keyboard that answers in time, both ends of
each command: asked and not yet taken, or taken and its answers in the pipe.

**KeyDecoder** (`Keyboard_proofs`, of the instance in `SecondKeyboard`), for any
keys of the table, any number of movements and tries, and commands answered well
or badly: `DecoderKnows` and `DecoderPrints`. The properties speak of the moment
when all is read, or of what is printed so far; what makes them true is on the
wire. The invariant, `DecInv`, therefore follows the bytes not read yet: `After` is
what the driver knows after one byte more (its buffer, keys, locks and text),
`Leads` says that reading the wire takes it from one such state to another without
taking back text, and `WillAgree` says that the wire leads from what the driver
knows `Now` to the truth (`Agrees`: nothing half decoded, the keys held, the locks
set, the text meant). Reading shortens the path at its front (`LeadsFirst`); a key
adds its whole code at the end (`MakeLeads`, `BreakLeads`, from `DecodesTo`, what
every code and every part of one decodes to, and `FrameLeads`), and `AsciiIsMeant`
compares the character the table gives with the one the user means. While a
command waits for its answer, the bytes before the answer will be ignored, and of
them only the text printed so far is still true. `OneAnswer`: a command that waits
has one answer on the wire, and otherwise there is none, so that no answer is
taken for a key. `LampsLit`: the lamps show the locks in between, or once a good
answer is read. A code with a lone false shift, or a byte ignored, ends the claim
about keys and text (`Regular`), as the properties say, but not the one about the
lamps. The one assumption is the kinds of the constants (`DecoderFits`).

**Paging** (`Paging_proofs`): `EachFrameHasOneUse` and `OnlyWhatWasMapped`, for
tables of any size that is a multiple of four, any number of pages pushed and any
pages touched. The first rests on `FInv`: the stack holds the pages boot pushed,
each once (`StackHolds`), and whatever the directory names, and whatever was
given to a page, are different words popped from it (`FramesApart`). Here the
reason is that nothing is pushed after boot, so that a page is used when and only
when its word lies above the pointer. The second adds what the tables hold
(`MInv`): the kernel's table is still what boot made it, every page present was
resolved by the handler or lies in the table that is being cleared, and the
handler goes on to map only where there is a table. The hypotheses are
named in `Paging` and hold of the instance TLC runs, which `MCPaging` assumes:
`WordIsPrivate`, the word under the stack names no page; `WindowIsLeft`, nothing
touches the directory's window by itself. Faults may be anywhere else, in the
kernel's group of tables and at the last entry of a table too; what those spoil is
left out of the property by conditions on the state: that the kernel's own pages
are mapped is claimed as long as its table is the only one of its group
(`FirstTableIsAlone`), mappings and new tables while only first tables of a group were
added (`OnlyFirstTables`), and the contents of a new table only of the entries the
loop clears (`IsZeroed`). What a processor does once its own code is no longer mapped
is not modelled: the handler goes on. TLC's instance does not touch the
kernel's group; the theorem covers it.

**UdiRegion** (`UdiRegion_proofs`): `RegionsSound`, for any regions, blocks and
threads and any limit on nesting (`RegionConstants`): at most one thread is in a
region, work does not wait at a region that nobody is in or will be told of, a
block is in one queue or with one thread and its marks say which, and the depth
counts the callbacks. The invariant has a part about the stacks of
frames (`StackOK`: a region is in one frame of one stack, exactly when it
is marked active), one about the blocks (`BlocksOK`: where each is, queues
without repetition) and one about what waits (`NothingWaitsAlone`). It does not
except the behaviours in which memory was used wrongly (`wild`), which TLC's
invariant did at first.

**MoreCore** (`MoreCore_proofs`): `RunsStayApart` and `TablesStayExact`, for any
numbers of pages in a group, groups in a superpage, superpages in a word and words,
any two heaps, any sizes asked for and any number of calls, with one caller
(`OneCaller`, which `MCMoreCore` assumes of the instance TLC runs: the search and the
marks are not one step). What goes wrong in the code ends what is claimed and is
not assumed away: the properties hold up to the first run given whose size does not
fit (`AllFit`; what `Fits` leaves beyond whole superpages is between one page and a
group and two pages more, of the machine's 1024 and 32: 1 to 34) or the first
superpage of the last word that is full (`LastWordHasRoom`). The rows on `mm.c:82`
and `mm.c:85` and the run `morecore_image` show that neither can be left out. That
no run reaches the last superpage is claimed without a condition: to be let into
it, past a count of zero, the pages missing would have to be a multiple of a
superpage, and a run that ends in it would not yet be long enough. Why the search is
right is the invariant `MInv`. The loops never look at the last page of a group nor
at the last group of a superpage, and still count a run through them as free; this
is sound because such a page is never marked before the page below it (`Followers`):
a run starts only where the search looks and takes pages upwards. A run that goes on
into the next superpage must not be broken there, nor that superpage be passed over,
or it would be counted shorter than it is; `InOrder` says that the superpage behind
one with room at its end is untouched. It stays so because a superpage with room at
its end has a group and two pages free, so that a request that fits is never refused
by its count. Each loop is unfolded as a function on numbers
(`Iteration`, `Climb`) and its invariant (`Carries` for pages and groups, `Reaches`
for a superpage, `Comes` for a heap) carried from each number to the next;
`SearchFinds` is the result. Then `MarkFollowers`, `MarkInOrder` and `MarkCounts`
show what the marks keep.

**Console** (`Console_proofs`): `ConsoleShowsTheTail`, for a screen of any size and
any text, if one thread prints at a time (`OneCaller`, assumed of the instance TLC
runs; the row on `putchar.c:19` above shows what two do). The property speaks of
the moments between two calls; the invariant (`ConsoleInvariant`) has a part for
each access inside one: `Drawing`, `Stepping`, `Wrapping`, `Scrolling`, `Showing`
say which cells are already those of the text with the new character and which
still those without it, and that the registers hold what the variables will get.
That the text's lines at each length are the ones before it with one character
more is carried along the recursive function `LinesAfter` by its least
counterexample (`Climb`). After a backspace nothing is claimed of the cells, as in
the property; that the cursor stays on the screen is. Two assumptions on
constants: letters are not the control characters, and a line has at least two
and at most 2^30 columns, so that a step back from the first one, which wraps
round in the `unsigned` of the code, is seen to be out of the line.

**UDI attributes** (in `UdiServices_proofs`): `AttributesKept`, for any finite set of
requests and any names and values. The count of a node is right (`CountIsExact`)
only together with where each request stands, retries included: `Counts` says
that a writer works alone with the count at -1, or that the count is the number
of readers, negated once a writer has asked to be let in. `Sane` bounds what a
request holds at each step. `ListIsTrue` relates the list to what was last set,
except for the one name that a writer at work has taken apart and not put
together again, and `CopyFollows` the copy of the locator to its entry. Hypotheses
(`ConstantsMakeSense` of `UdiAttr`): finitely many requests; the locator is one of
the names; no value looks like a freed one.

**UDI tracing and logging** (in `UdiServices_proofs`): `LogKept`, for any threads,
any pool and any ring of two places or more. Its two halves rest on different
grounds. A request to log is in one place, whatever the workers do to each other,
because every step moves whole blocks between places that are disjoint
(`LogRequests`, proved place by place), until a thread takes out of the unlocked
pool a block that another has taken, or a block is put back while one is at the
pool (`wild`, which ends what the property claims): Take only looks, and what it saw
need no longer be there at Unlink. The order of what is written holds while no
two threads have met (`~disturbed`): `RingSound` counts the places from the
consumer (`Behind`), so that wrapping is in one lemma, and says that the
events in them ascend (`Ordered`), that every event not yet out is in the ring, in
the worker's hand or among the dropped (`Accounted`, `GivenWay`), that a place
marked done holds the text of its event (`Texts`), that writers have places of
their own, not yet done (`Writers`), and that the one worker stands at the
consumer (`AtEvent`, `OneWorker`). Hypotheses (`ConstantsMakeSense` of `UdiTrlog`):
more than one place, which the full ring needs, a finite pool, and no block of the
pool that is a region's own. The run assumes the `ConstantsMakeSense` of each of these instances.

**UDI channels** (in `UdiServices_proofs`): `ChannelsKept`, for any regions, channels,
spawn indices, size of the agent's pool and number of calls. Two parts of the
invariant (`ChanInv`) hold whatever the races do: the pool (`PoolHas`: its control
blocks are never all lost, and an event waits only when none is free) and
`WildForCause`. The rest (`ChanCalm`) holds while no race, late event or early close
has spoilt a channel (`Calm`). What a property says of two ends is not inductive: an
end with no holder is one that a spawn is still to give away, so where each half
of a spawn stands must be known too. `Spawns` says what is true of a channel that
waits in a spawn list, and that it waits in one; `Marks` that of the thread
between the unlock and the mark; `AskedFor` that whoever has still to be given its
half is not the one that waits; `Handled` that both ends are closed only while one
of the two closers is still at work, so that the channel is discarded once. `Waits`
and `Calls` say that what waits for a region, or is about to be sent, is for an end
that lives, and `Tells` that the notice of a close is with the closer, in the
pool's queue, in the region's queue or delivered. A step either adds to `blame`, or
it keeps all of these and touches no freed channel (`ChanStep`). `WithoutIs` says
what discarding a channel leaves of a queue. Hypotheses (`ConstantsMakeSense` of
`UdiChannel`): the channel made at binding is one of the channels, and no region is
called "none".

**UDI DMA and constraints** (in `UdiRegion_proofs`): `ResourcesKept`, for any
addresses of constraints, paths, handles and buffers, any lists of attributes, any
of them refused, and any number of calls, in a build that tracks or one that does
not. The invariant (`ResourcesInv`) has the properties' parts and what makes each of
them inductive. `PathsOK`: a path that is not up refers to nothing, and the path of a
buffer is up until the region dies. `HandlesOK`: a handle has a buffer exactly
while it maps it or is about to, a buffer has one such handle, and memory is at
least as long as what was asked of it. `PlacesOK`: memory that is lent is in one
buffer, memory in the pool once on the ring (queues without repetition, of the
regions' proof, serve here too); in a region that is torn down this ends, as in the
property. `TransfersOK`: `TransfersAreExact` speaks of a buffer once its mapping is
over; `Transfer` says it of one that is being mapped, from the side that holds the
bytes just then, the buffer before the copy and the handle's memory after it.
`TrackedOK` is `TrackerIsExact`, object by object. A request to set attributes that
waits for memory needs nothing but its type (`SettingOK`): the daemon starts from the source as
it finds it. That constraints restrict as was
asked (`Restricts`) is proved of one attribute (`SetOneIs`) and of a list of them
(`SetAllIs`), carried along the recursive function of `SetAll`. The attempt showed
that `Restricts`, as first stated, was false of lists that TLC did not have: the
history kept only the last barrier, and a barrier of 3 stays when 2 is set after it.
`Kept` now says which values still count, and one of the run's lists sets the
barrier to 3 and then to 2. Hypotheses (`ConstantsMakeSense`
of `UdiDma`): no address is of two kinds of objects, and there is one of each kind.

Model-checked only, and why:

* all liveness (`EveryThreadRuns`, `AllWorkIsDone` and the rest): ENABLED and
  fairness are out of the proof system's reach;
* `Heap`: its bins and trees are folds with operator parameters, which the
  provers cannot instantiate; that it keeps blocks apart is its refinement of
  `Allocator`, whose calls are required to;
* `UdiLayout`, `UdiBuf`, `UdiCb` have recursive operators, `UdiLayout` and `UdiPio`
  operations on the bits of words, both closed to the provers; what they compute
  for every input would be induction over data;
* `UdiTimer`: differences of times modulo the clock's width, in products that
  the arithmetic of the provers does not decide;
* `UdiMA`: not attempted. Nothing in its form forbids it.

The induction theorems of the library take an operator as a parameter, which no
installed prover instantiates; a function on numbers can still be reasoned
about by its least counterexample, as `Walk` of `Scheduler`, `Search` of `MoreCore`,
`LinesAfter` of `Console`, `Without` of `UdiChannel`, `SetAll` of `UdiDma` and `Shown`
of `KeyDecoder` are.

## What is not modelled

* In `c_keyboard.c`: `identify_keyboard` and `set_keyboard_scancode_set`, which
  nobody calls, scroll lock and the keys that are coded like the ones modelled.
* `real_time_clock.c`, `rtc.asm`: the handler is not installed. Planned.
* `k_printf.c`: formatting into fixed buffers. Planned as a function.
* `lib/malloc.c` (an older copy that is not built) and the rest of `lib/`.
* UDI: static properties and formatting (`udi_std_sprops.c`, `udi_snprintf.c`:
  functions of a driver's table and of strings); `op_abort`; scatter-gather lists
  and syncs of DMA; wide device transfers, delays and abort sequences of PIO; the
  escape codes of attributes; loading a driver's properties; the flush at the end
  of logging, correlation numbers and trace masks; the TCP and UDP variants of the
  checksum. A service is modelled with the ones it calls reduced to their answers
  (a request is completed later, a callback comes), not composed with them.
* In the heap: `independent_calloc`, trimming and mmap, which the configuration
  leaves out, and two threads in it at once (no lock is compiled in,
  malloc.c:495).
* `floppy.c`, `DMA.c`: fragments nobody calls. `tasks.c`, `TSS.c`,
  `descriptor.c`, `processes.c`: straight-line set-up of processor tables.
  `cpu.c`, `mp.c`, `rwRegs.asm`: probing. `vga*.c`, `vbe3.c`: output only.
  `string.c`, `rand.c`, `io.c`, `ports.c`: helpers without state.
* Inside the modelled parts: the PIC's in-service register and EOIs (so the
  stray EOI of `exceptions.c:95`), parity errors on the keyboard line, a malloc
  that fails, a thread function that returns, IRQ 15 (past the end of the
  tables), memory that `base` aliases.

## Plan

Done in this order: IRQ ownership with its refinement and proof; scheduler;
keyboard; physical pages and paging; address space; console and lock; proofs of
lock and page stack; second keyboard driver; heap with its refinement; the services
of the UDI environment; proofs
of the address space, the UDI regions, the console, channels, attributes, the log,
the second keyboard driver and the resources of DMA.

Next, most important first:

1. An abstract round robin (a cyclic order of threads, one running) that
   `Scheduler` implements; `Scheduler_proofs` has the facts it needs.
2. A composition of `Keyboard` with `IrqWatch` in place of its one-step Watch.
3. `Clock`: the tick counter against `sleep()` and its wrap.
4. Boot as a composition: page stack, paging and allocator in one state.
5. Proofs of `UdiMA`'s tree.
6. The UDI services composed: `UdiRegion` under `UdiBuf`'s and `UdiDma`'s
   requests, `UdiTimer` under `UdiAttr`'s retries.
7. Console with the lock its comments show, implementing a console whose
   calls are atomic.
