------------------------------ MODULE Keyboard ------------------------------
(***************************************************************************)
(* The keyboard driver (keyboard.c): setup_keyboard identifies the         *)
(* keyboard, selects scancode set 2, watches IRQ 1 and then prints each    *)
(* byte of port 0x60 whenever the counter of IRQ 1 is not zero, while      *)
(* irq_watcher_helper increments that counter from the interrupt.          *)
(*                                                                         *)
(* External to src/, modelled from how keyboard.c uses them: the keyboard, *)
(* the 8042 with its one-byte buffers in each direction, and the PIC input *)
(* of IRQ 1, whose request stands while the output buffer is full.         *)
(***************************************************************************)
EXTENDS Integers, Sequences

CONSTANTS
    MaxTyped,     \* bound: keystrokes
    Patience,     \* may the keyboard outlast the driver's timeouts: values of slow
    Fingers,      \* may keys be pressed before the driver polls: values of early
    Decrements    \* how builds compile `*keyboard_isr_fired -= 1`: "one"
                  \* instruction, or "two" (load, store: gcc -O2)

ASSUME KeyboardAssumption ==
    /\ MaxTyped \in Nat
    /\ Patience \subseteq BOOLEAN /\ Fingers \subseteq BOOLEAN
    /\ Decrements \subseteq {"one", "two"}

\* Bytes the keyboard sends, and the ones it is sent.
Ack == <<"FA", 0>>
Resend == <<"FE", 0>>        \* to a byte it does not understand
MF2a == <<"AB", 0>>
MF2b == <<"41", 0>>
OtherId == <<"other", 0>>
Zero == <<"00", 0>>          \* what read_kbd returns on a timeout
NoByte == <<"none", 0>>
Key(i) == <<"key", i>>
SetByte(s) == <<"set", s>>

VARIABLES
    attached,    \* the keyboard: "MF2", "AT", "other" or "none"
    granted,     \* the outcome of watch_irq (false with DEVELOPER_EDITION)
    slow, early, \* the user and the keyboard of this run
    decrement,   \* the build of this run
    fifo,        \* answers the keyboard still has to send
    typed,       \* how many keys were pressed
    keys,        \* the keys not sent yet
    set,         \* the keyboard's scancode set
    param,       \* the keyboard waits for the parameter of 0xF0
    inb,         \* the 8042's input buffer: <<>> or one <<port, byte>>
    cfg,         \* the 8042 takes the next byte as its command byte
    ob, obf,     \* the 8042's output buffer and whether it is full
    irr,         \* IRQ 1 is requested
    open,        \* IRQ 1 is unmasked and its gate present
    intOn,       \* IF
    fired,       \* irq_watching[1]
    at,          \* where setup_keyboard is
    reg,         \* the register of the decrement
    arrived,     \* all bytes that entered the output buffer
    read,        \* all bytes the driver read, printed included
    delivered, handled  \* interrupts taken; bytes printed with their decrement

world == <<attached, granted, slow, early, decrement>>
device == <<fifo, typed, keys, set, param>>
port == <<inb, cfg, ob, obf, irr>>
log == <<arrived, read, delivered, handled>>
vars == <<world, device, port, open, intOn, fired, at, reg, log>>

Init ==
    /\ attached \in {"MF2", "AT", "other", "none"}
    /\ granted \in BOOLEAN
    /\ slow \in Patience /\ early \in Fingers /\ decrement \in Decrements
    /\ fifo = <<>> /\ typed = 0 /\ keys = <<>> /\ set \in {1, 2, 3}
    /\ param = FALSE
    /\ inb = <<>> /\ cfg = FALSE /\ ob = NoByte /\ obf = FALSE /\ irr = FALSE
    /\ open = FALSE /\ intOn = TRUE
    /\ fired = 0 /\ at = "id" /\ reg = 0
    /\ arrived = <<>> /\ read = <<>> /\ delivered = 0 /\ handled = 0

Polling == at \in {"poll", "in", "dec", "store"}

-----------------------------------------------------------------------------
(* The keyboard and the 8042.                                              *)
driver == <<open, intOn, fired, at, reg>>
still == <<world, driver, read, delivered, handled>>

Type ==
    /\ typed < MaxTyped /\ attached # "none"
    /\ early \/ Polling
    /\ typed' = typed + 1
    /\ keys' = Append(keys, Key(typed'))
    /\ UNCHANGED <<still, fifo, set, param, port, arrived>>

\* Answers go before keys, and keys wait for a command to be completed.
Send ==
    /\ ~obf /\ attached # "none"
    /\ \/ /\ fifo # <<>>
          /\ ob' = Head(fifo) /\ fifo' = Tail(fifo) /\ UNCHANGED keys
       \/ /\ fifo = <<>> /\ ~param /\ inb = <<>> /\ keys # <<>>
          /\ ob' = Head(keys) /\ keys' = Tail(keys) /\ UNCHANGED fifo
    /\ obf' = TRUE /\ irr' = TRUE
    /\ arrived' = Append(arrived, ob')
    /\ UNCHANGED <<still, typed, set, param, inb, cfg>>

Answer(bytes) == fifo' = IF attached = "none" THEN fifo ELSE fifo \o bytes

Identity ==
    CASE attached = "MF2" -> <<Ack, MF2a, MF2b>>
      [] attached = "AT" -> <<Ack>>
      [] attached = "other" -> <<Ack, OtherId>>
      [] attached = "none" -> <<>>

\* The 8042 takes the byte written, for itself or for the keyboard.
Take ==
    /\ inb # <<>>
    /\ LET where == inb[1][1]  byte == inb[1][2] IN
       \/ /\ where = "64"
          /\ cfg' = TRUE
          /\ UNCHANGED <<fifo, set, param>>
       \/ /\ where = "60" /\ cfg
          /\ cfg' = FALSE
          /\ UNCHANGED <<fifo, set, param>>
       \/ /\ where = "60" /\ ~cfg /\ byte = "F2"
          /\ Answer(Identity)
          /\ UNCHANGED <<set, param, cfg>>
       \/ /\ where = "60" /\ ~cfg /\ byte = "F0"
          /\ Answer(<<Ack>>) /\ param' = (attached # "none")
          /\ UNCHANGED <<set, cfg>>
       \/ /\ where = "60" /\ ~cfg /\ byte \in {"set_0", "set_2"}
          /\ IF param
             THEN /\ Answer(IF byte = "set_0" THEN <<Ack, SetByte(set)>>
                                              ELSE <<Ack>>)
                  /\ set' = IF byte = "set_2" THEN 2 ELSE set
             ELSE UNCHANGED <<fifo, set>>
          /\ param' = FALSE
          /\ UNCHANGED cfg
       \/ /\ where = "60" /\ ~cfg /\ byte = "07"
          /\ Answer(<<Resend>>)
          /\ param' = FALSE
          /\ UNCHANGED <<set, cfg>>
    /\ inb' = <<>>
    /\ UNCHANGED <<still, typed, keys, ob, obf, irr, arrived>>

\* The watcher stub of IRQ 1 and irq_watcher_helper (irqs.c:114-118).
Interrupt ==
    /\ irr /\ open /\ intOn
    /\ irr' = FALSE
    /\ fired' = fired + 1
    /\ delivered' = delivered + 1
    /\ UNCHANGED <<world, device, inb, cfg, ob, obf, open, intOn, at, reg,
                   arrived, read, handled>>

-----------------------------------------------------------------------------
(* setup_keyboard.  A polling loop is one step: what it waited for, or its *)
(* timeout, which a keyboard that is not slow leaves to bytes that never   *)
(* come.                                                                   *)
Coming == inb # <<>> \/ fifo # <<>>
Goto(here, there) == at = here /\ at' = there
quiet == <<world, device, arrived, delivered>>

\* inportb(0x60): the byte in the buffer, full or not; the request drops.
In ==
    /\ read' = Append(read, ob)
    /\ obf' = FALSE /\ irr' = FALSE

Out(where, byte) == inb' = <<<<where, byte>>>>

\* write_kbd
Write(here, there, where, byte) ==
    /\ Goto(here, there)
    /\ \/ inb = <<>> /\ Out(where, byte)
       \/ inb # <<>> /\ slow /\ UNCHANGED inb
    /\ UNCHANGED <<quiet, cfg, ob, obf, irr, open, intOn, fired, reg,
                   read, handled>>

\* read_kbd, which gives Zero when it times out; the byte decides where to go.
Read(here, wanted, yes, no) ==
    /\ at = here
    /\ \E byte \in {ob, Zero} :
         /\ at' = IF byte \in wanted THEN yes ELSE no
         /\ \/ obf /\ byte = ob /\ In
            \/ /\ ~obf /\ (slow \/ ~Coming) /\ byte = Zero
               /\ UNCHANGED <<read, obf, irr>>
    /\ UNCHANGED <<quiet, inb, cfg, ob, open, intOn, fired, reg, handled>>

\* The byte does not matter.
ReadAny(here, there) == Read(here, {}, there, there)

\* kbd_get_id, and the switch on its code: 2 goes on, the others halt.
GetId ==
    \/ /\ Goto("id", "id_ack")
       /\ Out("60", "F2")
       /\ UNCHANGED <<quiet, cfg, ob, obf, irr, open, intOn, fired, reg,
                      read, handled>>
    \/ Read("id_ack", {Ack}, "id_1", "halted")
    \/ Read("id_1", {MF2a}, "id_2", "halted")
    \/ Read("id_2", {MF2b}, "cli", "halted")

Flag(here, there, flag) ==
    /\ Goto(here, there)
    /\ intOn' = flag
    /\ UNCHANGED <<quiet, port, open, fired, reg, read, handled>>

\* Slip: the parameter is sent before the command is acknowledged.
SetUnanswered ==
    \/ Write("set", "set_done", "60", "set_2")
    \/ ReadAny("set_done", "curr")

\* kbd_set_scancode_set(2); its result is not looked at.
SetScancodeSet ==
    \/ Write("set", "set_ack", "60", "F0")
    \/ Read("set_ack", {Ack}, "set_to", "curr")
    \/ Write("set_to", "set_done", "60", "set_2")
    \/ ReadAny("set_done", "curr")

\* kbd_curr_scancode_set: one byte is read after the parameter 0, the
\* acknowledge; the set stays behind in the buffer.
CurrScancodeSet ==
    \/ Write("curr", "curr_ack", "60", "F0")
    \/ ReadAny("curr_ack", "curr_of")
    \/ Write("curr_of", "curr_done", "60", "set_0")
    \/ ReadAny("curr_done", "mode")

\* The 8042 command byte 0x07: interrupts on, no translation.
CommandByte ==
    \/ Write("mode", "mode_byte", "64", "60")
    \/ Write("mode_byte", "watch", "60", "07")

\* Slip: the line stays masked.
WatchMasked ==
    /\ Goto("watch", IF granted THEN "sti" ELSE "fail")
    /\ fired' = 0
    /\ UNCHANGED <<quiet, port, open, intOn, reg, read, handled>>

\* watch_irq(1, 0x12984C00) and line 118, interrupts being off (IrqWatch).
Watch ==
    /\ Goto("watch", IF granted THEN "sti" ELSE "fail")
    /\ open' = granted
    /\ fired' = 0
    /\ UNCHANGED <<quiet, port, intOn, reg, read, handled>>

\* The loop of lines 121-129.
Poll ==
    /\ fired >= 1
    /\ Goto("poll", "in")
    /\ UNCHANGED <<quiet, port, open, intOn, fired, reg, read, handled>>

PrintByte ==
    /\ Goto("in", "dec")
    /\ In
    /\ UNCHANGED <<quiet, inb, cfg, ob, open, intOn, fired, reg, handled>>

\* Slip: the counter is not decremented.
NoDecrement ==
    /\ at = "dec"
    /\ \/ /\ decrement = "one"
          /\ handled' = handled + 1
          /\ at' = "poll" /\ UNCHANGED <<reg, fired>>
       \/ /\ decrement = "two"
          /\ reg' = fired
          /\ at' = "store" /\ UNCHANGED <<fired, handled>>
    /\ UNCHANGED <<quiet, port, open, intOn, read>>

Decrement ==
    /\ at = "dec"
    /\ \/ /\ decrement = "one"
          /\ fired' = fired - 1 /\ handled' = handled + 1
          /\ at' = "poll" /\ UNCHANGED reg
       \/ /\ decrement = "two"
          /\ reg' = fired - 1
          /\ at' = "store" /\ UNCHANGED <<fired, handled>>
    /\ UNCHANGED <<quiet, port, open, intOn, read>>

StoreCount ==
    /\ Goto("store", "poll")
    /\ fired' = reg /\ reg' = 0
    /\ handled' = handled + 1
    /\ UNCHANGED <<quiet, port, open, intOn, read>>

setup_keyboard ==
    \/ GetId \/ Flag("cli", "set", FALSE)
    \/ SetScancodeSet \/ CurrScancodeSet \/ CommandByte \/ Watch
    \/ Flag("sti", "poll", TRUE) \/ Flag("fail", "returned", TRUE)
    \/ Poll \/ PrintByte \/ Decrement \/ StoreCount

Hardware == Send \/ Take \/ Interrupt

Next == setup_keyboard \/ Hardware \/ Type

Spec == Init /\ [][Next]_vars

\* The thread is scheduled (Scheduler), the 8042 passes bytes on, and a
\* request that stands while IF is set is taken.
FairSpec ==
    /\ Spec
    /\ WF_vars(setup_keyboard) /\ WF_vars(Send) /\ WF_vars(Take)
    /\ WF_vars(Interrupt)

-----------------------------------------------------------------------------
(* What is checked.                                                        *)
Bytes == {Ack, Resend, MF2a, MF2b, OtherId} \cup {SetByte(s) : s \in 1..3}
           \cup {Key(i) : i \in 1..MaxTyped}

TypeOK ==
    /\ typed \in 0..MaxTyped /\ set \in 1..3
    /\ fired \in 0..2 /\ reg \in 0..1
    /\ obf \in BOOLEAN /\ irr \in BOOLEAN /\ open \in BOOLEAN
    /\ param \in BOOLEAN /\ intOn \in BOOLEAN
    /\ ob \in Bytes \cup {NoByte}
    /\ Len(fifo) <= 7 /\ Len(keys) <= MaxTyped /\ Len(inb) <= 1

\* The keyboard answers in time and nobody types before it is polled.
Orderly == ~slow /\ ~early

\* The counter holds how often the IRQ fired and was not yet answered by the
\* loop (irqs.c:75-76 and keyboard.c:124-127).
CountIsExact == at = "poll" => fired = delivered - handled

\* Each byte that reaches port 0x60 is read once, in order: no read finds the
\* buffer empty and takes an old byte for a new one.  And the count is exact where
\* the build decrements in one instruction (keyboard.c:127), whenever the interrupt
\* comes in.
NoByteReadTwice ==
    /\ TypeOK
    /\ read \o (IF obf THEN <<ob>> ELSE <<>>) = arrived
    /\ decrement = "one" => CountIsExact

\* When the driver starts to watch, the keyboard uses scancode set 2
\* (keyboard.c:72-73, 107), although no result is looked at.
UsesSet2 == Polling /\ Orderly => set = 2

\* Every key pressed is read in the end: the loop never waits for an
\* interrupt that has come already (keyboard.c:121-129), not even for a byte
\* that set-up left in the buffer.  A timeout may leave the keyboard waiting
\* for a parameter and silent, and a lost count (CountIsExact) the loop.
KeysAreRead ==
    \A i \in 1..MaxTyped :
        (Polling /\ typed >= i /\ ~slow /\ decrement = "one")
            ~> \E j \in 1..Len(read) : read[j] = Key(i)
=============================================================================
