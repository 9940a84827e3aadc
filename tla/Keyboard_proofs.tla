--------------------------- MODULE Keyboard_proofs --------------------------
(* The keyboard driver (keyboard.c): no byte is read twice and none is lost,
   the count of interrupts is exact where it can be, and the keyboard is in
   scancode set 2 when it is polled, for any number of keys, any of the
   keyboards and builds, and interrupts and timeouts at any moment.  The second
   driver (c_keyboard.c) knows the keys and prints what is typed, for any keys,
   movements and tries, and answers good or bad.                              *)
EXTENDS Keyboard, SecondKeyboard, SequenceTheorems, WellFoundedInduction, TLAPS
-----------------------------------------------------------------------------
(* The inductive invariant.                                                   *)
Sendable == Bytes \ {Key(i) : i \in 1..MaxTyped}
Writable == {<<<<"64", "60">>>>}
              \cup {<<<<"60", byte>>>> : byte \in {"F2", "F0", "set_0", "set_2", "07"}}

Types ==
    /\ attached \in {"MF2", "AT", "other", "none"}
    /\ granted \in BOOLEAN
    /\ typed \in 0..MaxTyped /\ set \in 1..3
    /\ obf \in BOOLEAN /\ irr \in BOOLEAN /\ open \in BOOLEAN /\ intOn \in BOOLEAN
    /\ param \in BOOLEAN /\ cfg \in BOOLEAN
    /\ fifo \in Seq(Sendable)
    /\ keys \in Seq({Key(i) : i \in 1..MaxTyped}) /\ Len(keys) <= typed
    /\ inb = <<>> \/ inb \in Writable
    /\ ob \in Bytes \cup {NoByte} /\ (obf => ob \in Bytes)
    /\ delivered \in Nat /\ handled \in Nat

History ==
    /\ arrived \in Seq(Bytes) /\ read \in Seq(Bytes)
    /\ arrived = IF obf THEN Append(read, ob) ELSE read

\* Where interrupts may be on before the keyboard is polled.
Unmasked == {"id", "id_ack", "id_1", "id_2", "cli", "halted", "returned"}

\* A counted interrupt stands for the byte in the buffer, and for one read
\* before only until the decrement.
Counted ==
    /\ irr => obf
    /\ open => Polling \/ at = "sti"
    /\ ~Polling => fired = 0 /\ delivered = 0 /\ handled = 0
    /\ at # "store" => reg = 0
    /\ at = "poll" => fired \in 0..1 /\ (fired = 1 => obf /\ ~irr)
    /\ at = "in" => fired = 1 /\ obf /\ ~irr
    /\ at \in {"dec", "store"} => fired \in 1..2 /\ (fired = 2 => obf /\ ~irr)
    /\ at = "store" => reg \in 0..1 /\ (reg = 1 => obf /\ ~irr)
    /\ intOn => Polling \/ at \in Unmasked
    /\ decrement = "one" => at # "store" /\ (Polling => fired = delivered - handled)

\* How many answers may wait in the keyboard, in the buffer, or be owed for the
\* byte the 8042 has not taken yet, when the driver is at p.
Owed(byte) == CASE byte = "F2" -> 3 [] byte = "set_0" -> 2 [] byte = "60" -> 0 [] OTHER -> 1
Due == IF inb = <<>> THEN 0 ELSE Owed(inb[1][2])
Waiting == Len(fifo) + (IF obf /\ ob \in Sendable THEN 1 ELSE 0)
Budget(p) ==
    CASE p \in {"id", "cli", "set", "set_to"} -> 0
      [] p \in {"id_2", "set_ack", "set_done", "curr"} -> 1
      [] p \in {"id_1", "curr_ack", "curr_of"} -> 2
      [] p \in {"id_ack", "halted"} -> 3
      [] p \in {"curr_done", "mode", "mode_byte"} -> 4
      [] OTHER -> 5
Answered == Waiting + Due <= Budget(at)

KInv == Types /\ History /\ Counted /\ Answered

(* The handshake up to the set, with a keyboard that answers in time and
   nobody typing.                                                             *)
Pipe == IF obf THEN <<ob>> \o fifo ELSE fifo
Begins == at \in {"id", "id_ack", "id_1", "id_2", "cli", "set", "set_ack", "set_to",
                  "set_done"}
Pending(byte) == inb = <<<<"60", byte>>>> /\ Pipe = <<>>
Sent(bytes) == inb = <<>> /\ Pipe = bytes

Identified ==
    /\ at = "id" => Sent(<<>>) /\ ~param
    /\ at = "id_ack" => (Pending("F2") \/ Sent(Identity)) /\ ~param
    /\ at = "id_1" => Sent(Tail(Identity)) /\ ~param /\ attached # "none"
    /\ at = "id_2" => Sent(<<MF2b>>) /\ ~param /\ attached = "MF2"

Commanded ==
    /\ at \in {"cli", "set", "set_ack", "set_to", "set_done"} => attached = "MF2"
    /\ at \in {"cli", "set"} => Sent(<<>>) /\ ~param
    /\ at = "set_ack" => (Pending("F0") /\ ~param) \/ (Sent(<<Ack>>) /\ param)
    /\ at = "set_to" => Sent(<<>>) /\ param
    /\ at = "set_done" => (Pending("set_2") /\ param) \/ (Sent(<<Ack>>) /\ set = 2)

Handshake ==
    Orderly => /\ ~Polling => keys = <<>>
               /\ Begins => ~cfg
               /\ Identified /\ Commanded
               /\ ~Begins /\ at # "halted" => set = 2
-----------------------------------------------------------------------------
(* The bytes.                                                                 *)
LEMMA TheBytes ==
    /\ Sendable \subseteq Bytes
    /\ {Ack, Resend, MF2a, MF2b, OtherId} \subseteq Sendable
    /\ \A s \in 1..3 : SetByte(s) \in Sendable
    /\ \A i \in 1..MaxTyped : Key(i) \in Bytes \ Sendable
    /\ Zero \notin {Ack, MF2a, MF2b}
BY DEF Sendable, Bytes, Ack, Resend, MF2a, MF2b, OtherId, SetByte, Key, Zero

LEMMA TheAnswers ==
    ASSUME attached \in {"MF2", "AT", "other", "none"}
    PROVE
    /\ Identity \in Seq(Sendable) /\ Len(Identity) <= 3
    /\ <<Ack>> \in Seq(Sendable) /\ <<Resend>> \in Seq(Sendable)
    /\ \A s \in 1..3 : <<Ack, SetByte(s)>> \in Seq(Sendable)
BY TheBytes DEF Identity

LEMMA TheWrites ==
    /\ <<>> \notin Writable
    /\ \A b \in {"F2", "F0", "set_0", "set_2", "07"} : <<<<"60", b>>>> \in Writable
    /\ <<<<"64", "60">>>> \in Writable
BY DEF Writable
-----------------------------------------------------------------------------
(* The steps.                                                                 *)
Untouched == UNCHANGED <<world, device, arrived, delivered, cfg, ob, open, intOn,
                         fired, reg, handled>>

LEMMA ReadIs ==
    ASSUME NEW here, NEW wanted, NEW yes, NEW no,
           Read(here, wanted, yes, no), wanted \subseteq {Ack, MF2a, MF2b}
    PROVE  /\ Untouched /\ inb' = inb /\ at = here
           /\ \/ /\ obf /\ In /\ at' = (IF ob \in wanted THEN yes ELSE no)
              \/ /\ ~obf /\ (slow \/ ~Coming) /\ at' = no
                 /\ UNCHANGED <<read, obf, irr>>
<1>1. PICK byte \in {ob, Zero} :
         /\ at' = IF byte \in wanted THEN yes ELSE no
         /\ \/ obf /\ byte = ob /\ In
            \/ /\ ~obf /\ (slow \/ ~Coming) /\ byte = Zero
               /\ UNCHANGED <<read, obf, irr>>
  BY DEF Read
<1>2. Zero \notin wanted BY TheBytes
<1>3. Untouched /\ inb' = inb /\ at = here BY DEF Read, Untouched, quiet
<1>4. QED BY <1>1, <1>2, <1>3

LEMMA WriteIs ==
    ASSUME NEW here, NEW there, NEW where, NEW byte, Write(here, there, where, byte)
    PROVE  /\ Untouched /\ at = here /\ at' = there /\ UNCHANGED <<read, obf, irr>>
           /\ \/ inb = <<>> /\ inb' = <<<<where, byte>>>>
              \/ inb # <<>> /\ slow /\ inb' = inb
BY DEF Write, Goto, Out, Untouched, quiet

\* Where the driver talks to the keyboard, and where it goes from there.
Talking == {"id", "id_ack", "id_1", "id_2", "set", "set_ack", "set_to", "set_done",
            "curr", "curr_ack", "curr_of", "curr_done", "mode", "mode_byte"}
Exchange == GetId \/ SetScancodeSet \/ CurrScancodeSet \/ CommandByte

LEMMA ExchangeIs ==
    ASSUME Exchange
    PROVE  /\ Untouched
           /\ at \in Talking /\ at' \in Talking \cup {"cli", "watch", "halted"}
           /\ at \in Unmasked => at' \in Unmasked
           /\ (obf /\ In) \/ UNCHANGED <<read, obf, irr>>
           /\ inb' = inb \/ inb' \in Writable
<1>1. CASE GetId
  <2>1. CASE at = "id"
    BY <1>1, <2>1, TheWrites
       DEF GetId, Read, Goto, Out, Untouched, quiet, Talking, Unmasked
  <2>2. CASE Read("id_ack", {Ack}, "id_1", "halted")
    BY <2>2, ReadIs DEF Talking, Unmasked
  <2>3. CASE Read("id_1", {MF2a}, "id_2", "halted")
    BY <2>3, ReadIs DEF Talking, Unmasked
  <2>4. CASE Read("id_2", {MF2b}, "cli", "halted")
    BY <2>4, ReadIs DEF Talking, Unmasked
  <2>5. QED BY <1>1, <2>1, <2>2, <2>3, <2>4 DEF GetId, Goto
<1>2. CASE SetScancodeSet
  <2>1. CASE Write("set", "set_ack", "60", "F0")
    BY <2>1, WriteIs, TheWrites DEF Talking, Unmasked
  <2>2. CASE Read("set_ack", {Ack}, "set_to", "curr")
    BY <2>2, ReadIs DEF Talking, Unmasked
  <2>3. CASE Write("set_to", "set_done", "60", "set_2")
    BY <2>3, WriteIs, TheWrites DEF Talking, Unmasked
  <2>4. CASE ReadAny("set_done", "curr")
    BY <2>4, ReadIs DEF ReadAny, Talking, Unmasked
  <2>5. QED BY <1>2, <2>1, <2>2, <2>3, <2>4 DEF SetScancodeSet
<1>3. CASE CurrScancodeSet
  <2>1. CASE Write("curr", "curr_ack", "60", "F0")
    BY <2>1, WriteIs, TheWrites DEF Talking, Unmasked
  <2>2. CASE ReadAny("curr_ack", "curr_of")
    BY <2>2, ReadIs DEF ReadAny, Talking, Unmasked
  <2>3. CASE Write("curr_of", "curr_done", "60", "set_0")
    BY <2>3, WriteIs, TheWrites DEF Talking, Unmasked
  <2>4. CASE ReadAny("curr_done", "mode")
    BY <2>4, ReadIs DEF ReadAny, Talking, Unmasked
  <2>5. QED BY <1>3, <2>1, <2>2, <2>3, <2>4 DEF CurrScancodeSet
<1>4. CASE CommandByte
  <2>1. CASE Write("mode", "mode_byte", "64", "60")
    BY <2>1, WriteIs, TheWrites DEF Talking, Unmasked
  <2>2. CASE Write("mode_byte", "watch", "60", "07")
    BY <2>2, WriteIs, TheWrites DEF Talking, Unmasked
  <2>3. QED BY <1>4, <2>1, <2>2 DEF CommandByte
<1>5. QED BY <1>1, <1>2, <1>3, <1>4 DEF Exchange

\* The rest of the driver's steps, by what they leave alone.
Control == \/ Flag("cli", "set", FALSE) \/ Watch
           \/ Flag("sti", "poll", TRUE) \/ Flag("fail", "returned", TRUE)
           \/ Poll \/ Decrement \/ StoreCount

LEMMA ControlIs ==
    ASSUME Control
    PROVE  UNCHANGED <<world, device, port, arrived, read, delivered>>
BY DEF Control, Flag, Watch, Poll, Decrement, StoreCount, quiet

LEMMA StepsAre ==
    [Next]_vars => \/ Exchange \/ Control \/ PrintByte
                   \/ Send \/ Take \/ Interrupt \/ Type \/ UNCHANGED vars
BY DEF Next, setup_keyboard, Hardware, Exchange, Control
-----------------------------------------------------------------------------
(* The parts of the invariant, step by step.                                  *)
LEMMA TypesStep ==
    ASSUME Types, [Next]_vars PROVE Types'
<1>1. CASE Exchange
  <2>1. UNCHANGED <<attached, granted, typed, set, param, fifo, keys, delivered,
                    handled, cfg, ob, open, intOn>>
    BY <1>1, ExchangeIs DEF Untouched, world, device
  <2>2. obf' \in BOOLEAN /\ irr' \in BOOLEAN /\ (obf' => obf)
    <3>1. (obf /\ In) \/ UNCHANGED <<read, obf, irr>> BY <1>1, ExchangeIs
    <3>2. obf \in BOOLEAN /\ irr \in BOOLEAN BY DEF Types
    <3>3. CASE In BY <3>3, <3>2 DEF In
    <3>4. CASE obf' = obf /\ irr' = irr BY <3>4, <3>2
    <3>5. QED BY <3>1, <3>3, <3>4
  <2>3. inb' = <<>> \/ inb' \in Writable BY <1>1, ExchangeIs DEF Types
  <2>4. QED BY <2>1, <2>2, <2>3 DEF Types
<1>2. CASE Control
  <2>1. UNCHANGED <<world, device, port, delivered>> BY <1>2, ControlIs
  <2>2. open' \in BOOLEAN /\ intOn' \in BOOLEAN /\ handled' \in Nat
    <3>1. granted \in BOOLEAN BY DEF Types
    <3>2. QED
      <4>1. CASE Watch \/ Poll
        BY <3>1, <4>1 DEF Watch, Poll, Types
      <4>2. CASE Flag("cli", "set", FALSE) \/ Flag("fail", "returned", TRUE)
                 \/ Flag("sti", "poll", TRUE)
        BY <4>2 DEF Flag, Types
      <4>3. CASE Decrement \/ StoreCount
        BY <4>3 DEF Decrement, StoreCount, Types
      <4>4. QED BY <1>2, <4>1, <4>2, <4>3 DEF Control
  <2>3. QED BY <2>1, <2>2 DEF Types, world, device, port
<1>3. CASE PrintByte
  BY <1>3 DEF PrintByte, In, quiet, world, device, Types
<1>4. CASE Send
  <2>1. UNCHANGED <<attached, granted, typed, set, param, inb, cfg, open, intOn,
                    delivered, handled>>
    BY <1>4 DEF Send, still, driver, world
  <2>2. obf' = TRUE /\ irr' = TRUE BY <1>4 DEF Send
  <2>3. CASE fifo # <<>> /\ ob' = Head(fifo) /\ fifo' = Tail(fifo) /\ UNCHANGED keys
    <3>1. ob' \in Sendable /\ fifo' \in Seq(Sendable)
      BY <2>3, HeadTailProperties DEF Types
    <3>2. QED BY <2>1, <2>2, <2>3, <3>1, TheBytes DEF Types
  <2>4. CASE keys # <<>> /\ ob' = Head(keys) /\ keys' = Tail(keys) /\ UNCHANGED fifo
    <3> DEFINE K == {Key(i) : i \in 1..MaxTyped}
    <3>1. keys \in Seq(K) BY DEF Types
    <3>2. K \subseteq Bytes BY DEF Bytes
    <3> HIDE DEF K
    <3>3. ob' \in K /\ keys' \in Seq(K) /\ Len(keys') <= Len(keys)
      BY <2>4, <3>1, HeadTailProperties
    <3>4. Len(keys') \in Nat /\ Len(keys) \in Nat
      BY <3>1, <3>3, LenProperties
    <3>5. Len(keys') <= typed BY <3>3, <3>4 DEF Types
    <3>6. QED BY <2>1, <2>2, <2>4, <3>2, <3>3, <3>5 DEF Types, K
  <2>5. QED BY <1>4, <2>3, <2>4 DEF Send
<1>5. CASE Take
  <2>1. UNCHANGED <<attached, granted, typed, keys, ob, obf, irr, open, intOn,
                    delivered, handled>> /\ inb' = <<>>
    BY <1>5 DEF Take, still, driver, world
  <2>2. fifo' \in Seq(Sendable)
    <3>1. \/ fifo' = fifo
          \/ \E a \in {Identity, <<Ack>>, <<Ack, SetByte(set)>>, <<Resend>>} :
                fifo' = fifo \o a
      BY <1>5 DEF Take, Answer
    <3>2. \A a \in {Identity, <<Ack>>, <<Ack, SetByte(set)>>, <<Resend>>} :
             a \in Seq(Sendable)
      BY TheAnswers DEF Types
    <3>3. \A a \in Seq(Sendable) : fifo \o a \in Seq(Sendable)
      BY ConcatProperties DEF Types
    <3>4. QED BY <3>1, <3>2, <3>3 DEF Types
  <2>3. param' \in BOOLEAN /\ cfg' \in BOOLEAN
    <3>1. param' = param \/ param' = (attached # "none") \/ param' = FALSE
      BY <1>5 DEF Take
    <3>2. cfg' = cfg \/ cfg' = TRUE \/ cfg' = FALSE BY <1>5 DEF Take
    <3>3. param \in BOOLEAN /\ cfg \in BOOLEAN BY DEF Types
    <3>4. QED BY <3>1, <3>2, <3>3, Zenon
  <2>6. set' \in 1..3
    BY <1>5 DEF Take, Types
  <2>4. QED BY <2>1, <2>2, <2>3, <2>6 DEF Types
<1>6. CASE Interrupt
  <2>1. UNCHANGED <<world, device, inb, cfg, ob, obf, open, intOn, handled>>
    BY <1>6 DEF Interrupt
  <2>2. irr' \in BOOLEAN BY <1>6 DEF Interrupt
  <2>3. delivered' \in Nat BY <1>6 DEF Interrupt, Types
  <2>4. QED BY <2>1, <2>2, <2>3 DEF world, device, Types
<1>7. CASE Type
  <2>1. UNCHANGED <<world, port, driver, fifo, set, param, delivered, handled>>
    BY <1>7 DEF Type, still
  <2>2. typed' \in 1..MaxTyped /\ typed' = typed + 1
    BY <1>7, KeyboardAssumption DEF Type, Types
  <2> DEFINE K == {Key(i) : i \in 1..MaxTyped}
  <2>3. Key(typed') \in K BY <2>2
  <2>4. keys \in Seq(K) BY DEF Types
  <2> HIDE DEF K
  <2>5. keys' \in Seq(K) /\ Len(keys') = Len(keys) + 1
    BY <1>7, <2>3, <2>4, AppendProperties DEF Type
  <2>6. Len(keys') <= typed'
    BY <2>2, <2>4, <2>5, LenProperties DEF Types
  <2>7. QED BY <2>1, <2>2, <2>5, <2>6 DEF Types, K, world, port, driver
<1>8. CASE UNCHANGED vars
  BY <1>8 DEF vars, world, device, port, log, Types
<1>9. QED BY <1>1, <1>2, <1>3, <1>4, <1>5, <1>6, <1>7, <1>8, StepsAre

\* Bytes are read when they are in the buffer and at no other time.
LEMMA HistoryStep ==
    ASSUME Types, History, Counted, [Next]_vars PROVE History'
<1>1. /\ arrived \in Seq(Bytes) /\ read \in Seq(Bytes)
      /\ obf => ob \in Bytes
  BY DEF History, Types
<1>2. ASSUME obf, In, UNCHANGED <<ob, arrived>> PROVE History'
  <2>1. read' = arrived /\ obf' = FALSE BY <1>2 DEF In, History
  <2>2. QED BY <1>1, <1>2, <2>1 DEF History
<1>3. ASSUME UNCHANGED <<obf, ob, arrived, read>> PROVE History'
  BY <1>3 DEF History
<1>4. CASE Exchange
  <2>1. UNCHANGED <<ob, arrived>> BY <1>4, ExchangeIs DEF Untouched
  <2>2. (obf /\ In) \/ UNCHANGED <<read, obf, irr>> BY <1>4, ExchangeIs
  <2>3. QED BY <1>2, <1>3, <2>1, <2>2
<1>5. CASE Control
  BY <1>3, <1>5, ControlIs DEF port
<1>6. CASE PrintByte
  BY <1>2, <1>6 DEF PrintByte, Goto, quiet, Counted
<1>7. CASE Send
  <2>1. ob' \in Bytes
    <3>1. Types' BY TypesStep
    <3>2. obf' BY <1>7 DEF Send
    <3>3. QED BY <3>1, <3>2 DEF Types
  <2>2. /\ ~obf /\ obf' /\ arrived' = Append(arrived, ob') /\ read' = read
    BY <1>7 DEF Send, still
  <2>3. arrived = read BY <2>2 DEF History
  <2>4. Append(arrived, ob') \in Seq(Bytes) BY <1>1, <2>1, AppendProperties
  <2>5. QED BY <1>1, <2>2, <2>3, <2>4 DEF History
<1>8. CASE Take
  BY <1>3, <1>8 DEF Take, still
<1>9. CASE Interrupt
  BY <1>3, <1>9 DEF Interrupt
<1>10. CASE Type
  BY <1>3, <1>10 DEF Type, still, port
<1>11. CASE UNCHANGED vars
  BY <1>3, <1>11 DEF vars, port, log
<1>12. QED
  BY <1>4, <1>5, <1>6, <1>7, <1>8, <1>9, <1>10, <1>11, StepsAre

\* Each step of the loop accounts for the interrupts that may come next to it.
LEMMA CountedStep ==
    ASSUME Types, Counted, [Next]_vars PROVE Counted'
<1> USE DEF Polling, Unmasked
<1>1. CASE Exchange
  <2>1. UNCHANGED <<open, intOn, fired, reg, delivered, handled, decrement>>
    BY <1>1, ExchangeIs DEF Untouched, world
  <2>2. at \in Talking /\ at' \in Talking \cup {"cli", "watch", "halted"}
    BY <1>1, ExchangeIs
  <2>3. ~Polling /\ ~Polling' /\ at # "sti" /\ at' # "sti" /\ at # "store" /\ at' # "store"
    BY <2>2 DEF Talking
  <2>4. intOn => at' \in Unmasked
    BY <1>1, <2>3, ExchangeIs DEF Counted
  <2>5. irr' => obf'
    <3>1. CASE obf /\ In BY <3>1 DEF In
    <3>2. CASE UNCHANGED <<read, obf, irr>> BY <3>2 DEF Counted
    <3>3. QED BY <1>1, <3>1, <3>2, ExchangeIs
  <2>6. QED BY <2>1, <2>3, <2>4, <2>5 DEF Counted
<1>2. CASE Flag("cli", "set", FALSE)
  BY <1>2 DEF Flag, Goto, quiet, port, world, Counted
<1>3. CASE Watch
  <2>1. /\ at = "watch" /\ at' = (IF granted THEN "sti" ELSE "fail")
        /\ open' = granted /\ fired' = 0
        /\ UNCHANGED <<decrement, obf, irr, delivered, handled, reg, intOn>>
    BY <1>3 DEF Watch, Goto, quiet, port, world
  <2>2. delivered = 0 /\ handled = 0 /\ reg = 0 /\ ~intOn BY <2>1 DEF Counted
  <2>3. QED BY <2>1, <2>2 DEF Counted
<1>4. CASE Flag("sti", "poll", TRUE)
  BY <1>4 DEF Flag, Goto, quiet, port, world, Counted
<1>5. CASE Flag("fail", "returned", TRUE)
  BY <1>5 DEF Flag, Goto, quiet, port, world, Counted
<1>6. CASE Poll
  BY <1>6 DEF Poll, Goto, quiet, port, world, Counted
<1>7. CASE PrintByte
  BY <1>7 DEF PrintByte, In, Goto, quiet, world, Counted
<1>8. CASE Decrement
  <2>1. /\ at = "dec"
        /\ UNCHANGED <<decrement, obf, irr, delivered, open, intOn>>
    BY <1>8 DEF Decrement, quiet, port, world
  <2>2. fired \in 1..2 /\ reg = 0 BY <2>1 DEF Counted
  <2>3. CASE /\ decrement = "one" /\ fired' = fired - 1 /\ handled' = handled + 1
             /\ at' = "poll" /\ UNCHANGED reg
    BY <2>1, <2>2, <2>3 DEF Counted, Types
  <2>4. CASE /\ decrement = "two" /\ reg' = fired - 1
             /\ at' = "store" /\ UNCHANGED <<fired, handled>>
    BY <2>1, <2>2, <2>4 DEF Counted
  <2>5. QED BY <1>8, <2>3, <2>4 DEF Decrement
<1>9. CASE StoreCount
  BY <1>9 DEF StoreCount, Goto, quiet, port, world, Counted
<1>10. CASE Send
  <2>1. /\ ~obf /\ obf' = TRUE
        /\ UNCHANGED <<decrement, open, intOn, fired, at, reg, delivered, handled>>
    BY <1>10 DEF Send, still, driver, world
  <2>2. QED BY <2>1 DEF Counted
<1>11. CASE Take
  BY <1>11 DEF Take, still, driver, world, Counted
<1>12. CASE Interrupt
  <2>1. /\ irr /\ open /\ intOn /\ irr' = FALSE
        /\ fired' = fired + 1 /\ delivered' = delivered + 1
        /\ UNCHANGED <<decrement, obf, open, intOn, at, reg, handled>>
    BY <1>12 DEF Interrupt, world
  <2>2. Polling /\ at # "in" /\ obf BY <2>1 DEF Counted
  <2>3. QED BY <2>1, <2>2 DEF Counted, Types
<1>13. CASE Type
  BY <1>13 DEF Type, still, driver, world, port, Counted
<1>14. CASE UNCHANGED vars
  BY <1>14 DEF vars, world, port, log, Counted
<1>15. QED
  BY <1>1, <1>2, <1>3, <1>4, <1>5, <1>6, <1>7, <1>8, <1>9, <1>10, <1>11, <1>12,
     <1>13, <1>14, StepsAre DEF Control

\* What waits and what is owed are numbers.
LEMMA Numbers ==
    ASSUME Types
    PROVE  /\ Len(fifo) \in Nat /\ Waiting \in Nat /\ Due \in Nat
           /\ Waiting = Len(fifo) \/ Waiting = Len(fifo) + 1
           /\ obf /\ ob \in Sendable => Waiting = Len(fifo) + 1
           /\ ~(obf /\ ob \in Sendable) => Waiting = Len(fifo)
           /\ inb = <<>> => Due = 0
<1>1. Len(fifo) \in Nat BY LenProperties DEF Types
<1>2. Due \in Nat BY DEF Due, Owed
<1>3. QED BY <1>1, <1>2 DEF Waiting, Due

LEMMA Budgets == \A p : Budget(p) \in 0..5
BY DEF Budget

\* A byte read that was waited for leaves one answer less.
LEMMA ReadCosts ==
    ASSUME Types, Answered, NEW here, NEW wanted, NEW yes, NEW no,
           Read(here, wanted, yes, no), wanted \subseteq {Ack, MF2a, MF2b},
           Budget(here) <= Budget(no), Budget(here) <= Budget(yes) + 1
    PROVE  Answered'
<1>1. /\ Len(fifo) \in Nat /\ Due \in Nat /\ Waiting + Due <= Budget(here)
      /\ Budget(here) \in Int /\ Budget(yes) \in Int /\ Budget(no) \in Int
  BY Numbers, Budgets, ReadIs DEF Answered
<1>2. fifo' = fifo /\ Due' = Due /\ ob' = ob
  BY ReadIs DEF Untouched, device, Due
<1>3. CASE obf /\ In /\ ob \in wanted /\ at' = yes
  <2>1. Waiting = Len(fifo) + 1 BY <1>3, TheBytes, Numbers
  <2>2. Waiting' = Len(fifo) BY <1>2, <1>3 DEF Waiting, In
  <2>3. QED BY <1>1, <1>2, <1>3, <2>1, <2>2 DEF Answered
<1>4. CASE obf /\ In /\ ob \notin wanted /\ at' = no
  <2>1. Len(fifo) <= Waiting BY Numbers
  <2>2. Waiting' = Len(fifo) BY <1>2, <1>4 DEF Waiting, In
  <2>3. Waiting \in Nat BY Numbers
  <2>4. QED BY <1>1, <1>2, <1>4, <2>1, <2>2, <2>3 DEF Answered
<1>5. CASE at' = no /\ UNCHANGED <<read, obf, irr>>
  <2>1. Waiting' = Waiting BY <1>2, <1>5 DEF Waiting
  <2>2. Waiting \in Nat BY Numbers
  <2>3. QED BY <1>1, <1>2, <1>5, <2>1, <2>2 DEF Answered
<1>6. QED BY <1>3, <1>4, <1>5, ReadIs

\* A byte written owes its answers.
LEMMA WriteCosts ==
    ASSUME Types, Answered, NEW here, NEW there, NEW where, NEW byte,
           Write(here, there, where, byte), Budget(here) + Owed(byte) <= Budget(there)
    PROVE  Answered'
<1>1. /\ Waiting \in Nat /\ Due \in Nat /\ Waiting + Due <= Budget(here)
      /\ Budget(here) \in Int /\ Budget(there) \in Int
      /\ Owed(byte) \in Nat /\ Budget(here) <= Budget(there)
  <2>1. at = here BY WriteIs
  <2>2. Waiting \in Nat /\ Due \in Nat BY Numbers
  <2>3. Budget(here) \in 0..5 /\ Budget(there) \in 0..5 BY Budgets
  <2>4. Owed(byte) \in Nat BY DEF Owed
  <2>5. Waiting + Due <= Budget(here) BY <2>1 DEF Answered
  <2>6. QED BY <2>2, <2>3, <2>4, <2>5
<1>2. Waiting' = Waiting /\ at' = there
  BY WriteIs DEF Untouched, device, Waiting
<1>3. Due' = Due \/ Due' = Owed(byte)
  BY WriteIs DEF Due
<1>4. QED BY <1>1, <1>2, <1>3 DEF Answered

LEMMA ExchangeCosts == ASSUME Types, Answered, Exchange PROVE Answered'
<1>1. CASE GetId
  <2>1. CASE Goto("id", "id_ack") /\ Out("60", "F2") /\ UNCHANGED <<quiet, ob, obf>>
    <3>1. Waiting' = Waiting /\ Waiting \in Nat
      BY <2>1, Numbers DEF quiet, device, Waiting
    <3>2. Due' = 3 BY <2>1 DEF Out, Due, Owed
    <3>3. Budget(at) = 0 /\ Budget(at') = 3 BY <2>1 DEF Goto, Budget
    <3>4. Waiting + Due <= 0 /\ Due \in Nat BY <3>3, Numbers DEF Answered
    <3>5. QED BY <3>1, <3>2, <3>3, <3>4 DEF Answered
  <2>2. CASE Read("id_ack", {Ack}, "id_1", "halted")
    BY <2>2, ReadCosts DEF Budget
  <2>3. CASE Read("id_1", {MF2a}, "id_2", "halted")
    BY <2>3, ReadCosts DEF Budget
  <2>4. CASE Read("id_2", {MF2b}, "cli", "halted")
    BY <2>4, ReadCosts DEF Budget
  <2>5. QED BY <1>1, <2>1, <2>2, <2>3, <2>4 DEF GetId
<1>2. CASE SetScancodeSet
  <2>1. CASE Write("set", "set_ack", "60", "F0")
    BY <2>1, WriteCosts DEF Budget, Owed
  <2>2. CASE Read("set_ack", {Ack}, "set_to", "curr")
    BY <2>2, ReadCosts DEF Budget
  <2>3. CASE Write("set_to", "set_done", "60", "set_2")
    BY <2>3, WriteCosts DEF Budget, Owed
  <2>4. CASE ReadAny("set_done", "curr")
    BY <2>4, ReadCosts DEF ReadAny, Budget
  <2>5. QED BY <1>2, <2>1, <2>2, <2>3, <2>4 DEF SetScancodeSet
<1>3. CASE CurrScancodeSet
  <2>1. CASE Write("curr", "curr_ack", "60", "F0")
    BY <2>1, WriteCosts DEF Budget, Owed
  <2>2. CASE ReadAny("curr_ack", "curr_of")
    BY <2>2, ReadCosts DEF ReadAny, Budget
  <2>3. CASE Write("curr_of", "curr_done", "60", "set_0")
    BY <2>3, WriteCosts DEF Budget, Owed
  <2>4. CASE ReadAny("curr_done", "mode")
    BY <2>4, ReadCosts DEF ReadAny, Budget
  <2>5. QED BY <1>3, <2>1, <2>2, <2>3, <2>4 DEF CurrScancodeSet
<1>4. CASE CommandByte
  <2>1. CASE Write("mode", "mode_byte", "64", "60")
    BY <2>1, WriteCosts DEF Budget, Owed
  <2>2. CASE Write("mode_byte", "watch", "60", "07")
    BY <2>2, WriteCosts DEF Budget, Owed
  <2>3. QED BY <1>4, <2>1, <2>2 DEF CommandByte
<1>5. QED BY <1>1, <1>2, <1>3, <1>4 DEF Exchange

\* The 8042 gives the keyboard a byte, and its answers are no more than owed.
LEMMA TakeCosts == ASSUME Types, Answered, Take PROVE Answered'
<1>1. /\ UNCHANGED <<ob, obf, at>> /\ inb' = <<>> /\ inb \in Writable
  BY DEF Take, Types, still, driver
<1>2. fifo' \in Seq(Sendable) /\ Len(fifo') <= Len(fifo) + Due
  <2> DEFINE answers == {Identity, <<Ack>>, <<Ack, SetByte(set)>>, <<Resend>>}
  <2>1. /\ Len(fifo) \in Nat /\ Due \in Nat /\ fifo \in Seq(Sendable)
    BY Numbers DEF Types
  <2>2. Due = Owed(inb[1][2]) BY <1>1, TheWrites DEF Due
  <2>3. ASSUME NEW a \in Seq(Sendable), Len(a) <= Due, Answer(a)
        PROVE  fifo' \in Seq(Sendable) /\ Len(fifo') <= Len(fifo) + Due
    <3>1. fifo \o a \in Seq(Sendable) /\ Len(fifo \o a) = Len(fifo) + Len(a)
      BY <2>1, ConcatProperties
    <3>2. Len(a) \in Nat BY LenProperties
    <3>3. QED BY <2>1, <2>3, <3>1, <3>2 DEF Answer
  <2>4. CASE fifo' = fifo BY <2>1, <2>4
  <2>5. CASE inb[1][2] = "F2" /\ Answer(Identity)
    BY <2>2, <2>3, <2>5, TheAnswers DEF Owed, Types
  <2>6. CASE inb[1][2] = "F0" /\ Answer(<<Ack>>)
    <3>1. Due = 1 BY <2>2, <2>6 DEF Owed
    <3>2. <<Ack>> \in Seq(Sendable) BY TheAnswers DEF Types
    <3>3. Len(<<Ack>>) <= Due BY <3>1
    <3>4. QED BY <2>3, <2>6, <3>2, <3>3, Zenon
  <2>7. CASE inb[1][2] = "set_0" /\ Answer(<<Ack, SetByte(set)>>)
    <3>1. Due = 2 BY <2>2, <2>7 DEF Owed
    <3>2. <<Ack, SetByte(set)>> \in Seq(Sendable) BY TheAnswers DEF Types
    <3>3. Len(<<Ack, SetByte(set)>>) <= Due BY <3>1
    <3>4. QED BY <2>3, <2>7, <3>2, <3>3, Zenon
  <2>8. CASE inb[1][2] = "set_2" /\ Answer(<<Ack>>)
    <3>1. Due = 1 BY <2>2, <2>8 DEF Owed
    <3>2. <<Ack>> \in Seq(Sendable) BY TheAnswers DEF Types
    <3>3. Len(<<Ack>>) <= Due BY <3>1
    <3>4. QED BY <2>3, <2>8, <3>2, <3>3, Zenon
  <2>9. CASE inb[1][2] = "07" /\ Answer(<<Resend>>)
    <3>1. Due = 1 BY <2>2, <2>9 DEF Owed
    <3>2. <<Resend>> \in Seq(Sendable) BY TheAnswers DEF Types
    <3>3. Len(<<Resend>>) <= Due BY <3>1
    <3>4. QED BY <2>3, <2>9, <3>2, <3>3, Zenon
  <2>10. QED BY <2>4, <2>5, <2>6, <2>7, <2>8, <2>9 DEF Take
<1>3. /\ Due' = 0
      /\ Waiting' <= Waiting + Due /\ Waiting' \in Int /\ Waiting \in Int /\ Due \in Int
  <2>1. Len(fifo) \in Nat /\ Len(fifo') \in Nat /\ Due \in Nat
    BY <1>2, Numbers, LenProperties
  <2>2. QED BY <1>1, <1>2, <2>1 DEF Waiting, Due
<1>4. Budget(at') = Budget(at) /\ Budget(at) \in Int BY <1>1, Budgets
<1>5. QED BY <1>3, <1>4 DEF Answered

LEMMA AnsweredStep ==
    ASSUME Types, Answered, [Next]_vars PROVE Answered'
<1>1. ASSUME UNCHANGED <<fifo, inb, obf, ob>>, Budget(at) <= Budget(at') PROVE Answered'
  <2>1. Waiting' = Waiting /\ Due' = Due BY <1>1 DEF Waiting, Due
  <2>2. Waiting \in Nat /\ Due \in Nat BY Numbers
  <2>3. Budget(at) \in Int /\ Budget(at') \in Int BY Budgets
  <2>4. QED BY <1>1, <2>1, <2>2, <2>3 DEF Answered
<1>2. Budget(at) \in 0..5 /\ Budget(at') \in 0..5 BY Budgets
<1>3. CASE Exchange BY <1>3, ExchangeCosts
<1>4. CASE Control
  <2>1. UNCHANGED <<fifo, inb, obf, ob>> BY <1>4, ControlIs DEF device, port
  <2>2. \/ at = "cli" \/ at' \in {"sti", "fail", "poll", "returned", "in", "store"}
    BY <1>4 DEF Control, Flag, Watch, Poll, Decrement, StoreCount, Goto
  <2>3. Budget(at) = 0 \/ Budget(at') = 5 BY <2>2 DEF Budget
  <2>4. QED BY <1>1, <1>2, <2>1, <2>3
<1>5. CASE PrintByte
  <2>1. /\ UNCHANGED <<fifo, inb, ob>> /\ obf' = FALSE /\ at' = "dec"
    BY <1>5 DEF PrintByte, In, Goto, quiet, device
  <2>2. Waiting' <= Waiting /\ Due' = Due /\ Waiting \in Nat /\ Due \in Nat
        /\ Waiting' \in Int
    <3>1. Len(fifo) \in Nat /\ Waiting \in Nat /\ Due \in Nat BY Numbers
    <3>2. Due' = Due BY <2>1 DEF Due
    <3>3. Waiting' = Len(fifo) BY <2>1 DEF Waiting
    <3>4. Len(fifo) <= Waiting BY Numbers
    <3>5. QED BY <3>1, <3>2, <3>3, <3>4
  <2>3. Budget(at') = 5 BY <2>1 DEF Budget
  <2>4. Waiting + Due <= 5 BY <1>2, <2>2 DEF Answered
  <2>5. Waiting' + Due' <= 5
    <3>1. \A w, d \in Nat, v \in Int : v <= w /\ w + d <= 5 => v + d <= 5 OBVIOUS
    <3>2. Waiting' + Due <= 5 BY <2>2, <2>4, <3>1
    <3>3. QED BY <2>2, <3>2
  <2>6. QED BY <2>3, <2>5 DEF Answered
<1>6. CASE Send
  <2>1. ~obf /\ obf' = TRUE /\ UNCHANGED <<inb, at>>
    BY <1>6 DEF Send, still, driver
  <2>2. Waiting = Len(fifo) /\ Len(fifo) \in Nat /\ Due' = Due /\ Due \in Nat
    BY <2>1, Numbers DEF Due
  <2>3. CASE fifo # <<>> /\ ob' = Head(fifo) /\ fifo' = Tail(fifo)
    <3>1. Len(fifo') = Len(fifo) - 1 BY <2>3, HeadTailProperties DEF Types
    <3>2. Waiting' <= Waiting /\ Waiting' \in Int BY <2>2, <3>1 DEF Waiting
    <3>3. QED BY <1>2, <2>1, <2>2, <3>2 DEF Answered
  <2>4. CASE fifo = <<>> /\ keys # <<>> /\ ob' = Head(keys) /\ UNCHANGED fifo
    <3> DEFINE K == {Key(i) : i \in 1..MaxTyped}
    <3>1. keys \in Seq(K) BY DEF Types
    <3>2. K \cap Sendable = {} BY DEF Sendable
    <3> HIDE DEF K
    <3>3. ob' \in K BY <2>4, <3>1, HeadTailProperties
    <3>4. Waiting' = Waiting BY <2>2, <2>4, <3>2, <3>3 DEF Waiting
    <3>5. QED BY <1>2, <2>1, <2>2, <3>4 DEF Answered
  <2>5. QED BY <1>6, <2>3, <2>4 DEF Send
<1>7. CASE Take BY <1>7, TakeCosts
<1>8. CASE Interrupt
  <2>1. UNCHANGED <<fifo, inb, obf, ob, at>> BY <1>8 DEF Interrupt, device
  <2>2. QED BY <1>1, <1>2, <2>1
<1>9. CASE Type
  <2>1. UNCHANGED <<fifo, inb, obf, ob, at>> BY <1>9 DEF Type, still, driver, port
  <2>2. QED BY <1>1, <1>2, <2>1
<1>10. CASE UNCHANGED vars
  <2>1. UNCHANGED <<fifo, inb, obf, ob, at>> BY <1>10 DEF vars, device, port
  <2>2. QED BY <1>1, <1>2, <2>1
<1>11. QED
  BY <1>3, <1>4, <1>5, <1>6, <1>7, <1>8, <1>9, <1>10, StepsAre
-----------------------------------------------------------------------------
\* Nothing is sent, asked or counted at the start.
LEMMA KInit == Init => KInv
<1> SUFFICES ASSUME Init PROVE KInv OBVIOUS
<1>1. Types
  <2>1. fifo = <<>> /\ keys = <<>> BY DEF Init
  <2>2. typed \in 0..MaxTyped /\ typed = 0 BY KeyboardAssumption DEF Init
  <2>3. Len(keys) <= typed BY <2>1, <2>2
  <2>4. fifo \in Seq(Sendable) /\ keys \in Seq({Key(i) : i \in 1..MaxTyped}) BY <2>1
  <2>5. set \in 1..3 /\ granted \in BOOLEAN /\ delivered \in Nat /\ handled \in Nat
    BY DEF Init
  <2>6. /\ obf = FALSE /\ irr = FALSE /\ open = FALSE /\ intOn = TRUE
        /\ param = FALSE /\ cfg = FALSE /\ inb = <<>> /\ ob = NoByte
        /\ attached \in {"MF2", "AT", "other", "none"}
    BY DEF Init
  <2>7. QED BY <2>2, <2>3, <2>4, <2>5, <2>6 DEF Types
<1>2. History BY DEF Init, History
<1>3. Counted BY DEF Init, Counted, Polling, Unmasked
<1>4. Answered
  <2>1. Waiting = 0 /\ Due = 0 BY DEF Init, Waiting, Due
  <2>2. Budget(at) \in Nat BY Budgets
  <2>3. QED BY <2>1, <2>2 DEF Answered
<1>5. QED BY <1>1, <1>2, <1>3, <1>4 DEF KInv

THEOREM KeyboardIsSound == Spec => []KInv
<1>1. KInv /\ [Next]_vars => KInv'
  BY TypesStep, HistoryStep, CountedStep, AnsweredStep DEF KInv
<1>2. QED BY <1>1, KInit, PTL DEF Spec

\* Each byte that reaches port 0x60 is read once and in order, at most two
\* interrupts are counted, and the count is exact where the build decrements in
\* one instruction (keyboard.c:121-129, irqs.c:114-118).
THEOREM EachByteOnce == Spec => []NoByteReadTwice
<1>1. KInv => NoByteReadTwice
  <2> SUFFICES ASSUME KInv PROVE NoByteReadTwice OBVIOUS
  <2>1. Types /\ History /\ Counted /\ Answered BY DEF KInv
  <2>2. TypeOK
    <3>1. fired \in 0..2 /\ reg \in 0..1
      BY <2>1 DEF Counted, Polling
    <3>2. Len(fifo) <= 7
      <4>1. Len(fifo) \in Nat /\ Due \in Nat /\ Waiting \in Nat
        BY <2>1, Numbers
      <4>2. Len(fifo) <= Waiting BY <2>1, Numbers
      <4>3. Waiting + Due <= 5
        <5>1. Budget(at) \in 0..5 /\ Waiting + Due <= Budget(at)
          BY <2>1, Budgets DEF Answered
        <5>2. QED BY <4>1, <5>1
      <4>4. QED BY <4>1, <4>2, <4>3
    <3>3. Len(keys) <= MaxTyped
      <4>1. typed \in 0..MaxTyped /\ Len(keys) <= typed /\ Len(keys) \in Nat
        BY <2>1, LenProperties DEF Types
      <4>2. QED BY <4>1, KeyboardAssumption
    <3>4. Len(inb) <= 1
      <4>1. \A s \in Writable : Len(s) = 1 BY DEF Writable
      <4>2. Len(<<>>) = 0 OBVIOUS
      <4>3. CASE inb = <<>> BY <4>2, <4>3
      <4>4. CASE inb \in Writable
        <5>1. Len(inb) = 1 BY <4>1, <4>4, Zenon
        <5>2. QED BY <5>1
      <4>5. QED BY <2>1, <4>3, <4>4 DEF Types
    <3>5. QED BY <2>1, <3>1, <3>2, <3>3, <3>4 DEF TypeOK, Types
  <2>3. read \o (IF obf THEN <<ob>> ELSE <<>>) = arrived
    <3>1. read \in Seq(Bytes) /\ (obf => ob \in Bytes) BY <2>1 DEF History, Types
    <3>2. CASE obf
      <4>1. arrived = Append(read, ob) BY <2>1, <3>2 DEF History
      <4>2. read \o <<ob>> = Append(read, ob) BY <3>1, <3>2, AppendIsConcat
      <4>3. QED BY <3>2, <4>1, <4>2
    <3>3. CASE ~obf
      <4>1. arrived = read BY <2>1, <3>3 DEF History
      <4>2. read \o <<>> = read BY <3>1, ConcatEmptySeq
      <4>3. QED BY <3>3, <4>1, <4>2
    <3>4. QED BY <3>2, <3>3
  <2>4. decrement = "one" => CountIsExact
    BY <2>1 DEF Counted, CountIsExact, Polling
  <2>5. QED BY <2>2, <2>3, <2>4 DEF NoByteReadTwice
<1>2. QED BY <1>1, KeyboardIsSound, PTL
-----------------------------------------------------------------------------
(* The handshake, step by step.                                               *)
LEMMA ThePipe ==
    ASSUME Types
    PROVE  /\ Pipe = <<>> <=> ~obf /\ fifo = <<>>
           /\ ~obf => Pipe = fifo
           /\ obf => Pipe # <<>> /\ Head(Pipe) = ob /\ Tail(Pipe) = fifo
<1>1. fifo \in Seq(Bytes)
  BY TheBytes DEF Types
<1>2. CASE obf
  <2>1. ob \in Bytes BY <1>2 DEF Types
  <2>2. Pipe = <<ob>> \o fifo BY <1>2 DEF Pipe
  <2>3. /\ <<ob>> \o fifo # <<>> /\ Head(<<ob>> \o fifo) = ob
        /\ Tail(<<ob>> \o fifo) = fifo
    BY <1>1, <2>1
  <2>4. QED BY <1>2, <2>2, <2>3
<1>3. CASE ~obf BY <1>3 DEF Pipe
<1>4. QED BY <1>2, <1>3

\* A byte is read off the pipe.
LEMMA PipeRead ==
    ASSUME Types, obf, In, UNCHANGED <<fifo, ob>>
    PROVE  Pipe # <<>> /\ ob = Head(Pipe) /\ Pipe' = Tail(Pipe)
<1>1. Pipe' = fifo BY DEF Pipe, In
<1>2. QED BY <1>1, ThePipe

\* A driver that waits for an answer does not give up on it.
LEMMA ReadAnswer ==
    ASSUME Types, Orderly, NEW here, NEW wanted, NEW yes, NEW no,
           Read(here, wanted, yes, no), wanted \subseteq {Ack, MF2a, MF2b}
    PROVE  /\ inb' = inb /\ UNCHANGED <<param, attached, set, cfg, keys>> /\ at = here
           /\ Pipe = <<>> => inb = <<>> /\ Pipe' = <<>> /\ at' = no
           /\ Pipe # <<>> => /\ Pipe' = Tail(Pipe)
                             /\ at' = IF Head(Pipe) \in wanted THEN yes ELSE no
<1>1. /\ inb' = inb /\ at = here /\ UNCHANGED <<fifo, ob, param, attached, set, cfg, keys>>
  BY ReadIs DEF Untouched, world, device
<1>2. CASE obf /\ In /\ at' = (IF ob \in wanted THEN yes ELSE no)
  BY <1>1, <1>2, PipeRead
<1>3. CASE ~obf /\ ~Coming /\ at' = no /\ UNCHANGED <<read, obf, irr>>
  <2>1. inb = <<>> /\ Pipe = <<>> BY <1>3, ThePipe DEF Coming
  <2>2. Pipe' = Pipe BY <1>1, <1>3 DEF Pipe
  <2>3. QED BY <1>1, <1>3, <2>1, <2>2
<1>4. QED BY <1>2, <1>3, ReadIs DEF Orderly

\* A byte is written into a free port, and the pipe is left alone.
LEMMA WritePipe ==
    ASSUME Types, Orderly, NEW here, NEW there, NEW where, NEW byte,
           Write(here, there, where, byte)
    PROVE  /\ at = here /\ at' = there /\ Pipe' = Pipe
           /\ UNCHANGED <<param, attached, set, cfg, keys>>
           /\ inb' = <<<<where, byte>>>>
<1>1. /\ Untouched /\ at = here /\ at' = there /\ UNCHANGED <<read, obf, irr>>
      /\ \/ inb = <<>> /\ inb' = <<<<where, byte>>>>
         \/ inb # <<>> /\ slow /\ inb' = inb
  BY WriteIs
<1>2. UNCHANGED <<fifo, ob, param, attached, set, cfg, keys>>
  BY <1>1 DEF Untouched, world, device
<1>3. Pipe' = Pipe BY <1>1, <1>2 DEF Pipe
<1>4. QED BY <1>1, <1>2, <1>3 DEF Orderly

LEMMA Identities ==
    /\ attached = "none" => Identity = <<>>
    /\ attached = "AT" => Identity # <<>> /\ Head(Identity) = Ack /\ Tail(Identity) = <<>>
    /\ attached = "MF2" => /\ Identity # <<>> /\ Head(Identity) = Ack
                           /\ Tail(Identity) # <<>> /\ Head(Tail(Identity)) = MF2a
                           /\ Tail(Tail(Identity)) = <<MF2b>>
    /\ attached = "other" => /\ Identity # <<>> /\ Head(Identity) = Ack
                             /\ Tail(Identity) # <<>> /\ Head(Tail(Identity)) = OtherId
BY DEF Identity

LEMMA Singles == \A b : <<b>> # <<>> /\ Head(<<b>>) = b /\ Tail(<<b>>) = <<>>
OBVIOUS

\* Identification reads the answers of an MF2 keyboard to the last, or halts.
LEMMA GetIdShakes ==
    ASSUME Types, Orderly, Handshake, GetId PROVE Handshake'
<1> USE DEF Begins, Polling
<1>1. Orderly' /\ UNCHANGED <<param, attached, set, cfg, keys>>
  <2>1. Exchange BY DEF Exchange
  <2>2. QED BY <2>1, ExchangeIs DEF Untouched, world, device, Orderly
<1>2. CASE Goto("id", "id_ack") /\ Out("60", "F2") /\ UNCHANGED <<quiet, ob, obf>>
  <2>1. at = "id" /\ at' = "id_ack" /\ inb' = <<<<"60", "F2">>>>
    BY <1>2 DEF Goto, Out
  <2>2. Pipe' = Pipe BY <1>2 DEF quiet, device, Pipe
  <2>3. Pipe = <<>> /\ ~param BY <2>1 DEF Handshake, Identified, Sent
  <2>4. Identified' BY <1>1, <2>1, <2>2, <2>3 DEF Identified, Pending
  <2>5. QED BY <1>1, <2>1, <2>4 DEF Handshake, Commanded
<1>3. CASE Read("id_ack", {Ack}, "id_1", "halted")
  <2>1. /\ inb' = inb /\ at = "id_ack"
        /\ Pipe = <<>> => inb = <<>> /\ at' = "halted"
        /\ Pipe # <<>> => /\ Pipe' = Tail(Pipe)
                          /\ at' = IF Head(Pipe) \in {Ack} THEN "id_1" ELSE "halted"
    BY <1>3, ReadAnswer
  <2>2. (Pending("F2") \/ Sent(Identity)) /\ ~param
    BY <2>1 DEF Handshake, Identified
  <2>3. CASE Pipe = <<>>
    BY <1>1, <2>1, <2>3 DEF Handshake, Identified, Commanded
  <2>4. CASE Pipe # <<>>
    <3>1. Pipe = Identity /\ inb = <<>>
      BY <2>2, <2>4 DEF Pending, Sent
    <3>2. attached # "none" BY <2>4, <3>1, Identities
    <3>3. CASE at' = "halted"
      BY <1>1, <2>1, <3>3 DEF Handshake, Identified, Commanded
    <3>4. CASE at' = "id_1"
      <4>1. Identity' = Identity BY <1>1 DEF Identity
      <4>2. Sent(Tail(Identity))' BY <2>1, <2>4, <3>1, <4>1 DEF Sent
      <4>3. Identified' BY <1>1, <2>2, <3>2, <3>4, <4>2 DEF Identified
      <4>4. QED BY <1>1, <2>1, <3>4, <4>3 DEF Handshake, Commanded
    <3>5. QED BY <2>1, <2>4, <3>3, <3>4
  <2>5. QED BY <2>3, <2>4
<1>4. CASE Read("id_1", {MF2a}, "id_2", "halted")
  <2>1. /\ inb' = inb /\ at = "id_1"
        /\ Pipe = <<>> => inb = <<>> /\ at' = "halted"
        /\ Pipe # <<>> => /\ Pipe' = Tail(Pipe)
                          /\ at' = IF Head(Pipe) \in {MF2a} THEN "id_2" ELSE "halted"
    BY <1>4, ReadAnswer
  <2>2. Sent(Tail(Identity)) /\ ~param /\ attached # "none"
    BY <2>1 DEF Handshake, Identified
  <2>3. CASE at' = "halted"
    BY <1>1, <2>1, <2>3 DEF Handshake, Identified, Commanded
  <2>4. CASE Pipe # <<>> /\ Head(Pipe) = MF2a /\ at' = "id_2"
    <3>1. attached = "MF2"
      <4>1. OtherId # MF2a BY DEF OtherId, MF2a
      <4>2. attached \in {"MF2", "AT", "other"} BY <2>2 DEF Types
      <4>3. QED BY <2>2, <2>4, <4>1, <4>2, Identities DEF Sent
    <3>2. Pipe' = <<MF2b>> BY <2>1, <2>2, <2>4, <3>1, Identities DEF Sent
    <3>3. Identified' BY <1>1, <2>1, <2>2, <2>4, <3>1, <3>2 DEF Identified, Sent
    <3>4. QED BY <1>1, <2>1, <2>4, <3>3 DEF Handshake, Commanded
  <2>5. QED BY <2>1, <2>3, <2>4
<1>5. CASE Read("id_2", {MF2b}, "cli", "halted")
  <2>1. /\ inb' = inb /\ at = "id_2"
        /\ Pipe # <<>> => /\ Pipe' = Tail(Pipe)
                          /\ at' = IF Head(Pipe) \in {MF2b} THEN "cli" ELSE "halted"
    BY <1>5, ReadAnswer
  <2>2. Sent(<<MF2b>>) /\ ~param /\ attached = "MF2"
    BY <2>1 DEF Handshake, Identified
  <2>3. at' = "cli" /\ Pipe' = <<>> BY <2>1, <2>2, Singles DEF Sent
  <2>4. Commanded' BY <1>1, <2>1, <2>2, <2>3 DEF Commanded, Sent
  <2>5. QED BY <1>1, <2>1, <2>3, <2>4 DEF Handshake, Identified
<1>6. QED BY <1>2, <1>3, <1>4, <1>5 DEF GetId

\* The command is acknowledged before its parameter goes out, and the parameter
\* before the driver goes on.
LEMMA SetShakes ==
    ASSUME Types, Orderly, Handshake, SetScancodeSet PROVE Handshake'
<1> USE DEF Begins, Polling
<1>1. Orderly' /\ UNCHANGED <<param, attached, set, cfg, keys>>
  <2>1. Exchange BY DEF Exchange
  <2>2. QED BY <2>1, ExchangeIs DEF Untouched, world, device, Orderly
<1>2. CASE Write("set", "set_ack", "60", "F0")
  <2>1. at = "set" /\ at' = "set_ack" /\ inb' = <<<<"60", "F0">>>> /\ Pipe' = Pipe
    BY <1>2, WritePipe
  <2>2. attached = "MF2" /\ Pipe = <<>> /\ ~param
    BY <2>1 DEF Handshake, Commanded, Sent
  <2>3. Commanded' BY <1>1, <2>1, <2>2 DEF Commanded, Pending
  <2>4. QED BY <1>1, <2>1, <2>3 DEF Handshake, Identified
<1>3. CASE Read("set_ack", {Ack}, "set_to", "curr")
  <2>1. /\ inb' = inb /\ at = "set_ack"
        /\ Pipe = <<>> => inb = <<>>
        /\ Pipe # <<>> => /\ Pipe' = Tail(Pipe)
                          /\ at' = IF Head(Pipe) \in {Ack} THEN "set_to" ELSE "curr"
    BY <1>3, ReadAnswer
  <2>2. attached = "MF2" /\ (Pending("F0") \/ (Sent(<<Ack>>) /\ param))
    BY <2>1 DEF Handshake, Commanded
  <2>3. Sent(<<Ack>>) /\ param BY <2>1, <2>2 DEF Pending
  <2>4. at' = "set_to" /\ Pipe' = <<>> BY <2>1, <2>3, Singles DEF Sent
  <2>5. Commanded' BY <1>1, <2>1, <2>2, <2>3, <2>4 DEF Commanded, Sent
  <2>6. QED BY <1>1, <2>1, <2>4, <2>5 DEF Handshake, Identified
<1>4. CASE Write("set_to", "set_done", "60", "set_2")
  <2>1. at = "set_to" /\ at' = "set_done" /\ inb' = <<<<"60", "set_2">>>> /\ Pipe' = Pipe
    BY <1>4, WritePipe
  <2>2. attached = "MF2" /\ Pipe = <<>> /\ param
    BY <2>1 DEF Handshake, Commanded, Sent
  <2>3. Commanded' BY <1>1, <2>1, <2>2 DEF Commanded, Pending
  <2>4. QED BY <1>1, <2>1, <2>3 DEF Handshake, Identified
<1>5. CASE ReadAny("set_done", "curr")
  <2>1. /\ at = "set_done" /\ at' = "curr"
        /\ Pipe = <<>> => inb = <<>>
    BY <1>5, ReadAnswer DEF ReadAny
  <2>2. Pending("set_2") \/ set = 2
    BY <2>1 DEF Handshake, Commanded
  <2>3. set = 2 BY <2>1, <2>2 DEF Pending
  <2>4. QED BY <1>1, <2>1, <2>3 DEF Handshake, Identified, Commanded
<1>6. QED BY <1>2, <1>3, <1>4, <1>5 DEF SetScancodeSet

\* The 8042 passes on what was asked, and the keyboard answers it.
LEMMA TakeShakes ==
    ASSUME Types, Orderly, Handshake, Take PROVE Handshake'
<1> USE DEF Begins, Polling
<1>1. /\ Orderly' /\ inb' = <<>> /\ inb \in Writable
      /\ UNCHANGED <<attached, keys, ob, obf, at>>
  BY DEF Take, Types, still, driver, world, Orderly
<1>2. CASE Begins
  <2>1. ~cfg /\ fifo \in Seq(Sendable) /\ inb # <<>>
    BY <1>1, <1>2, TheWrites DEF Handshake, Types
  <2>2. \E b \in {"F2", "F0", "set_2"} : Pending(b)
    BY <1>2, <2>1 DEF Handshake, Identified, Commanded, Sent
  <2>3. Pipe = <<>> /\ ~obf /\ fifo = <<>> BY <2>2, ThePipe DEF Pending
  <2>4. Pipe' = fifo' BY <1>1, <2>3 DEF Pipe
  <2>5. \A a \in Seq(Sendable) : fifo \o a = a
    BY <2>3, ConcatEmptySeq
  <2>6. CASE Pending("F2")
    <3>1. at = "id_ack" /\ ~param
      BY <1>2, <2>6 DEF Handshake, Identified, Commanded, Pending, Sent
    <3>2. Answer(Identity) /\ UNCHANGED <<set, param, cfg>>
      BY <2>1, <2>6 DEF Take, Pending
    <3>3. Identity = <<>> \/ attached # "none" BY Identities
    <3>4. fifo' = Identity
      BY <2>3, <2>5, <3>2, <3>3, TheAnswers DEF Answer, Types
    <3>5. Identity' = Identity BY <1>1 DEF Identity
    <3>6. Identified' BY <1>1, <2>4, <3>1, <3>2, <3>4, <3>5 DEF Identified, Sent
    <3>7. QED BY <1>1, <2>1, <3>1, <3>2, <3>6 DEF Handshake, Commanded
  <2>7. CASE Pending("F0")
    <3>1. at = "set_ack" /\ attached = "MF2"
      BY <1>2, <2>7 DEF Handshake, Identified, Commanded, Pending, Sent
    <3>2. Answer(<<Ack>>) /\ param' = (attached # "none") /\ UNCHANGED <<set, cfg>>
      BY <2>1, <2>7 DEF Take, Pending
    <3>3. fifo' = <<Ack>>
      BY <2>5, <3>1, <3>2, TheAnswers DEF Answer, Types
    <3>4. param' BY <3>1, <3>2
    <3>5. Commanded' BY <1>1, <2>4, <3>1, <3>3, <3>4 DEF Commanded, Sent
    <3>6. QED BY <1>1, <2>1, <3>1, <3>2, <3>5 DEF Handshake, Identified
  <2>8. CASE Pending("set_2")
    <3>1. at = "set_done" /\ attached = "MF2" /\ param
      BY <1>2, <2>8 DEF Handshake, Identified, Commanded, Pending, Sent
    <3>2. Answer(<<Ack>>) /\ set' = 2 /\ cfg' = cfg
      BY <2>1, <2>8, <3>1 DEF Take, Pending
    <3>3. fifo' = <<Ack>>
      BY <2>5, <3>1, <3>2, TheAnswers DEF Answer, Types
    <3>4. Commanded' BY <1>1, <2>4, <3>1, <3>2, <3>3 DEF Commanded, Sent
    <3>5. QED BY <1>1, <2>1, <3>1, <3>2, <3>4 DEF Handshake, Identified
  <2>9. QED BY <2>2, <2>6, <2>7, <2>8
<1>3. CASE ~Begins
  <2>1. set' = set \/ set' = 2 BY DEF Take
  <2>2. QED BY <1>1, <1>3, <2>1 DEF Handshake, Identified, Commanded
<1>4. QED BY <1>2, <1>3

LEMMA HandshakeStep ==
    ASSUME Types, Handshake, [Next]_vars PROVE Handshake'
<1> USE DEF Begins, Polling
<1>1. Orderly' <=> Orderly
  <2>1. UNCHANGED world
    <3>1. CASE Exchange BY <3>1, ExchangeIs DEF Untouched
    <3>2. CASE Control BY <3>2, ControlIs
    <3>3. CASE PrintByte BY <3>3 DEF PrintByte, quiet
    <3>4. CASE Send \/ Take \/ Type BY <3>4 DEF Send, Take, Type, still
    <3>5. CASE Interrupt BY <3>5 DEF Interrupt
    <3>6. CASE UNCHANGED vars BY <3>6 DEF vars
    <3>7. QED BY <3>1, <3>2, <3>3, <3>4, <3>5, <3>6, StepsAre
  <2>2. QED BY <2>1 DEF world, Orderly
<1> SUFFICES ASSUME Orderly PROVE Handshake'
  BY <1>1 DEF Handshake
<1>2. CASE GetId BY <1>2, GetIdShakes
<1>3. CASE SetScancodeSet BY <1>3, SetShakes
<1>4. ASSUME ~Begins, ~Begins', at # "halted", set' = set,
             ~Polling' => ~Polling /\ keys' = keys
      PROVE  Handshake'
  BY <1>4 DEF Handshake, Identified, Commanded
<1>5. CASE CurrScancodeSet \/ CommandByte
  <2>1. Exchange BY <1>5 DEF Exchange
  <2>2. set' = set /\ keys' = keys
    BY <2>1, ExchangeIs DEF Untouched, device
  <2>3. /\ at \in {"curr", "curr_ack", "curr_of", "curr_done", "mode", "mode_byte"}
        /\ at' \in {"curr_ack", "curr_of", "curr_done", "mode", "mode_byte", "watch"}
    BY <1>5, ReadIs, WriteIs DEF CurrScancodeSet, CommandByte, ReadAny
  <2>4. QED BY <1>4, <2>2, <2>3
<1>6. CASE Flag("cli", "set", FALSE)
  <2>1. at = "cli" /\ at' = "set" BY <1>6 DEF Flag, Goto
  <2>2. UNCHANGED <<inb, fifo, ob, obf, param, attached, set, cfg, keys>>
    BY <1>6 DEF Flag, quiet, world, device, port
  <2>3. Pipe' = Pipe BY <2>2 DEF Pipe
  <2>4. Commanded' BY <2>1, <2>2, <2>3 DEF Handshake, Commanded, Sent
  <2>5. QED BY <2>1, <2>2, <2>4 DEF Handshake, Identified
<1>7. CASE \/ Watch \/ Flag("sti", "poll", TRUE) \/ Flag("fail", "returned", TRUE)
           \/ Poll \/ Decrement \/ StoreCount \/ PrintByte
  <2>1. set' = set /\ keys' = keys
    BY <1>7 DEF Watch, Flag, Poll, Decrement, StoreCount, PrintByte, quiet, device
  <2>2. /\ at \in {"watch", "sti", "fail", "poll", "dec", "store", "in"}
        /\ at' \in {"sti", "fail", "poll", "returned", "in", "store", "dec"}
        /\ at \in {"poll", "dec", "store", "in"} => at' \in {"poll", "in", "store", "dec"}
    BY <1>7 DEF Watch, Flag, Poll, Decrement, StoreCount, PrintByte, Goto
  <2>3. QED BY <1>4, <2>1, <2>2
<1>8. CASE Send
  <2>1. UNCHANGED <<attached, set, param, inb, cfg, at>>
    BY <1>8 DEF Send, still, driver, world
  <2>2. CASE Polling BY <1>4, <2>1, <2>2 DEF Handshake, Identified, Commanded
  <2>3. CASE ~Polling
    <3>1. keys = <<>> BY <2>3 DEF Handshake
    <3>2. ~obf /\ obf' /\ fifo # <<>> /\ ob' = Head(fifo) /\ fifo' = Tail(fifo)
          /\ keys' = keys
      BY <1>8, <3>1 DEF Send
    <3>3. Pipe' = Pipe
      <4>1. fifo \in Seq(Sendable) BY DEF Types
      <4>2. fifo = <<Head(fifo)>> \o Tail(fifo) BY <3>2, <4>1
      <4>3. QED BY <3>2, <4>2 DEF Pipe
    <3>4. Identity' = Identity BY <2>1 DEF Identity
    <3>5. QED
      BY <2>1, <3>2, <3>3, <3>4 DEF Handshake, Identified, Commanded, Pending, Sent
  <2>4. QED BY <2>2, <2>3
<1>9. CASE Take BY <1>9, TakeShakes
<1>10. CASE Interrupt
  <2>1. UNCHANGED <<inb, fifo, ob, obf, param, attached, set, cfg, keys, at>>
    BY <1>10 DEF Interrupt, world, device
  <2>2. Pipe' = Pipe BY <2>1 DEF Pipe
  <2>3. Identity' = Identity BY <2>1 DEF Identity
  <2>4. QED BY <2>1, <2>2, <2>3 DEF Handshake, Identified, Commanded, Pending, Sent
<1>11. CASE Type
  <2>1. Polling /\ Polling' /\ set' = set
    BY <1>11 DEF Type, still, driver, Orderly
  <2>2. QED BY <1>4, <2>1
<1>12. CASE UNCHANGED vars
  <2>1. UNCHANGED <<inb, fifo, ob, obf, param, attached, set, cfg, keys, at>>
    BY <1>12 DEF vars, world, device, port
  <2>2. Pipe' = Pipe BY <2>1 DEF Pipe
  <2>3. Identity' = Identity BY <2>1 DEF Identity
  <2>4. QED BY <2>1, <2>2, <2>3 DEF Handshake, Identified, Commanded, Pending, Sent
<1>13. QED
  BY <1>2, <1>3, <1>5, <1>6, <1>7, <1>8, <1>9, <1>10, <1>11, <1>12, StepsAre
     DEF Exchange, Control

\* With a keyboard that answers in time and nobody typing yet, it is in scancode
\* set 2 when the loop begins (keyboard.c:72-73, 107).
THEOREM PolledInSet2 == Spec => []UsesSet2
<1>1. Init => Handshake
  <2> SUFFICES ASSUME Init PROVE Handshake OBVIOUS
  <2>1. Pipe = <<>> BY DEF Init, Pipe
  <2>2. QED
    BY <2>1 DEF Init, Handshake, Identified, Commanded, Sent, Begins, Polling
<1>2. KInv /\ Handshake /\ [Next]_vars => Handshake'
  BY HandshakeStep DEF KInv
<1>3. Handshake => UsesSet2
  BY DEF Handshake, UsesSet2, Begins, Polling
<1>4. QED BY <1>1, <1>2, <1>3, KeyboardIsSound, PTL DEF Spec
-----------------------------------------------------------------------------
(* The second keyboard driver.  What it knows is the truth, once it has    *)
(* read the bytes on the wire: so says the invariant, WillAgree, and what  *)
(* it knows and has shown when all is read follows.                        *)
Answers == {"FA", "FE", "00"}
Codes == {"1C", "12", "14", "11", "58", "77", "74", "7C", "E0", "E1", "F0"}
Byte == Codes \cup Answers
Chars == {"A", "a", "^A", "M-a", "right", "^right", "6", "*", "past", "0"}
Decodable == D!AllKeys \cup {"N_6", "N_MULT", "RCTRL", "none"}

\* What the driver knows and has shown, and what it will when it has read one byte more.
Knowledge == [buf : Seq(Byte), keys : SUBSET Decodable, leds : SUBSET D!Locks, text : Seq(Chars)]
Now == [buf |-> keyboard_inbuf, keys |-> keys_pressed, leds |-> keyboard_led_map,
        text |-> D!Shown(printed)]
KeysAfter(old, d) == IF d.what = "make" THEN old \cup {d.key}
                     ELSE IF d.what = "break" THEN old \ {d.key} ELSE old
Made(d) == d.what = "make" /\ d.key # "none"
Acts(s, d, buf) ==
    [buf |-> D!MoveUp(buf, d.adjust), keys |-> KeysAfter(s.keys, d),
     leds |-> IF Made(d) /\ d.key \in D!Locks /\ d.key \notin s.keys THEN D!SymDiff(s.leds, {d.key})
              ELSE s.leds,
     text |-> LET a == D!keyboard_get_ascii(d.key, KeysAfter(s.keys, d), s.leds)
              IN  IF Made(d) /\ d.key \notin D!Locks /\ D!Visible(a) THEN Append(s.text, a) ELSE s.text]
After(s, c) == Acts(s, D!Decode(Append(s.buf, c)), Append(s.buf, c))

\* The text t goes on where s ends.
Prolongs(s, t) == Len(s) <= Len(t) /\ \A i \in 1 .. Len(s) : s[i] = t[i]
\* Reading the bytes w leads from a to b.
Trace(w, a, b, f) ==
    /\ f \in [0 .. Len(w) -> Knowledge] /\ f[0] = a /\ f[Len(w)] = b
    /\ \A i \in 1 .. Len(w) : f[i] = After(f[i - 1], w[i])
    /\ \A i, j \in 0 .. Len(w) : i <= j => Prolongs(f[i].text, f[j].text)
Leads(w, a, b) == \E f : Trace(w, a, b, f)

\* The driver's knowledge is the truth, if Pause is left aside.
Agrees(b) == /\ b \in Knowledge /\ b.buf = <<>> /\ b.keys \ {"PAUSE"} = held \ {"PAUSE"}
             /\ b.leds = locks /\ b.text = meant

\* Bytes and characters are of the kinds that occur.
Sorts ==
    /\ keyboard_inbuf \in Seq(Byte) /\ wire \in Seq(Byte)
    /\ printed \in Seq(Chars) /\ meant \in Seq(Chars)
    /\ doing \in {"out", "in"} => command \in {"ED", "leds"}
\* A command that waits has one answer coming, and nobody else has any.
OneAnswer ==
    IF doing = "in" THEN \E i \in DOMAIN wire : /\ wire[i] \in Answers
                                                /\ \A j \in DOMAIN wire : j # i => wire[j] \notin Answers
    ELSE \A i \in DOMAIN wire : wire[i] \notin Answers
\* The lamps show the locks unless a command failed, or once its answer is read.
LampsLit ==
    /\ doing = "main" /\ ~failed => lamps = keyboard_led_map
    /\ doing = "in" /\ command = "leds" =>
         \A i \in DOMAIN wire : wire[i] = "FA" => lamps = keyboard_led_map
\* What is on the wire leads to the truth; before an answer it will be lost.
WillAgree ==
    D!Regular =>
      IF doing # "in" THEN \E b : Agrees(b) /\ Leads(wire, Now, b)
      ELSE IF wire[1] \in Answers THEN \E b : Agrees(b) /\ Leads(Tail(wire), Now, b)
      ELSE Prolongs(D!Shown(printed), meant)
DecInv == D!TypeOK /\ Sorts /\ OneAnswer /\ LampsLit /\ WillAgree
-----------------------------------------------------------------------------
\* What holds of 0, and of n if of n - 1, holds up to a bound.
LEMMA Climbing ==
    ASSUME NEW b \in Nat, NEW P, 0 \in P,
           \A n \in 1..b : n - 1 \in P => n \in P
    PROVE  \A n \in 0..b : n \in P
<1> DEFINE Bad == {n \in 0..b : n \notin P}
           less == {ss \in Nat \X Nat : ss[1] < ss[2]}
<1>1. IsWellFoundedOn(less, Nat) BY NatLessThanWellFounded, Zenon DEF OpToRel
<1>2. \A k, m \in Nat : k < m => <<k, m>> \in less OBVIOUS
<1>3. ASSUME NEW m \in Bad, \A k \in Bad : ~ (<<k, m>> \in less) PROVE FALSE
  <2>1. m \in 1..b /\ m \notin P /\ m - 1 \in 0..b /\ m - 1 < m /\ m \in Nat /\ m - 1 \in Nat
    OBVIOUS
  <2>2. <<m - 1, m>> \in less BY <2>1
  <2>3. m - 1 \notin Bad
    <3> HIDE DEF Bad, less
    <3>1. QED BY <1>3, <2>2
  <2>4. QED BY <2>1, <2>3
<1>4. Bad \subseteq Nat OBVIOUS
<1> HIDE DEF Bad, less
<1>5. Bad = {} BY <1>1, <1>3, <1>4, WFMin
<1>6. QED BY <1>5 DEF Bad

\* The characters that show, one by one.
SeenBody(f, q, n) == IF n = 0 THEN <<>> ELSE IF D!Visible(q[n]) THEN Append(f[n - 1], q[n]) ELSE f[n - 1]
\* The recursion of Shown has a solution, and so its equation holds.
LEMMA SeenExists ==
    ASSUME NEW q \in Seq(Chars)
    PROVE  \E f : f = [n \in 0 .. Len(q) |-> SeenBody(f, q, n)]
<1> DEFINE Upto(m) == \E f : f = [n \in 0 .. m |-> SeenBody(f, q, n)]
           P == {m \in 0 .. Len(q) : Upto(m)}
<1>1. Len(q) \in Nat OBVIOUS
<1>2. 0 \in P
  <2> DEFINE f == [n \in 0 .. 0 |-> <<>>]
  <2>1. \A n \in 0 .. 0 : n = 0 OBVIOUS
  <2>2. f = [n \in 0 .. 0 |-> SeenBody(f, q, n)] BY <2>1 DEF SeenBody
  <2> HIDE DEF f
  <2>3. QED BY <1>1, <2>2
<1>3. ASSUME NEW m \in 1 .. Len(q), m - 1 \in P PROVE m \in P
  <2>1. PICK f : f = [n \in 0 .. (m - 1) |-> SeenBody(f, q, n)] BY <1>3
  <2> DEFINE g == [n \in 0 .. m |-> IF n = m THEN SeenBody(f, q, m) ELSE f[n]]
  <2>2. \A n \in 0 .. (m - 1) : f[n] = SeenBody(f, q, n) BY <2>1, Zenon
  <2>3. \A n \in 0 .. m : n # 0 => n - 1 \in 0 .. (m - 1) /\ n - 1 \in 0 .. m /\ n - 1 # m OBVIOUS
  <2>4. \A n \in 0 .. m : n # 0 => g[n - 1] = f[n - 1] BY <2>3, Zenon
  <2>5. \A n \in 0 .. m : SeenBody(g, q, n) = SeenBody(f, q, n)
    <3> HIDE DEF g
    <3>1. QED BY <2>4 DEF SeenBody
  <2>6. \A n \in 0 .. m : n # m => n \in 0 .. (m - 1) OBVIOUS
  <2>7. \A n \in 0 .. m : (IF n = m THEN SeenBody(f, q, m) ELSE f[n]) = SeenBody(g, q, n)
    <3> HIDE DEF g
    <3>1. QED BY <2>2, <2>5, <2>6
  <2>8. g = [n \in 0 .. m |-> SeenBody(g, q, n)]
    <3>1. g = [n \in 0 .. m |-> IF n = m THEN SeenBody(f, q, m) ELSE f[n]] OBVIOUS
    <3> HIDE DEF g
    <3>2. QED BY <2>7, <3>1
  <2> HIDE DEF g
  <2>9. Upto(m) BY <2>8
  <2>10. m \in 0 .. Len(q) OBVIOUS
  <2>11. QED BY <2>9, <2>10
<1> HIDE DEF P
<1>4. \A n \in 0 .. Len(q) : n \in P BY <1>1, <1>2, <1>3, Climbing
<1>5. Len(q) \in P BY <1>1, <1>4
<1>6. QED BY <1>5 DEF P

\* Shown(q) is the last of its parts.
LEMMA SeenIs ==
    ASSUME NEW q \in Seq(Chars)
    PROVE  \E f : /\ D!Shown(q) = f[Len(q)]
                  /\ \A n \in 0 .. Len(q) : f[n] = SeenBody(f, q, n) /\ f[n] \in Seq(Chars)
<1> DEFINE f == CHOOSE f : f = [n \in 0 .. Len(q) |-> SeenBody(f, q, n)]
<1>1. f = [n \in 0 .. Len(q) |-> SeenBody(f, q, n)] BY SeenExists, Zenon
<1>2. D!Shown(q) = f[Len(q)] BY Zenon DEF D!Shown, SeenBody
<1> HIDE DEF f
<1>3. \A n \in 0 .. Len(q) : f[n] = SeenBody(f, q, n) BY <1>1, Zenon
<1> DEFINE P == {n \in 0 .. Len(q) : f[n] \in Seq(Chars)}
<1>4. Len(q) \in Nat OBVIOUS
<1>5. 0 \in P
  <2>1. 0 \in 0 .. Len(q) BY <1>4
  <2>2. f[0] = <<>> BY <1>3, <2>1 DEF SeenBody
  <2>3. <<>> \in Seq(Chars) BY EmptySeq
  <2>4. f[0] \in Seq(Chars) BY <2>2, <2>3
  <2>5. QED BY <2>1, <2>4
<1>6. ASSUME NEW n \in 1 .. Len(q), n - 1 \in P PROVE n \in P
  <2>1. n \in 0 .. Len(q) /\ n # 0 /\ q[n] \in Chars BY <1>4
  <2>2. f[n] = IF D!Visible(q[n]) THEN Append(f[n - 1], q[n]) ELSE f[n - 1]
    BY <1>3, <2>1 DEF SeenBody
  <2>3. f[n - 1] \in Seq(Chars) BY <1>6
  <2>4. Append(f[n - 1], q[n]) \in Seq(Chars) BY <2>1, <2>3
  <2>5. QED BY <2>1, <2>2, <2>3, <2>4
<1> HIDE DEF P
<1>7. \A n \in 0 .. Len(q) : n \in P BY <1>4, <1>5, <1>6, Climbing
<1>8. \A n \in 0 .. Len(q) : f[n] \in Seq(Chars) BY <1>7 DEF P
<1>9. QED BY <1>2, <1>3, <1>8

\* The text that shows, when a character is added.
LEMMA ShownIs ==
    /\ D!Shown(<<>>) = <<>>
    /\ \A p \in Seq(Chars) :
          /\ D!Shown(p) \in Seq(Chars)
          /\ \A c \in Chars : D!Shown(Append(p, c)) = IF D!Visible(c) THEN Append(D!Shown(p), c)
                                                      ELSE D!Shown(p)
<1>1. D!Shown(<<>>) = <<>>
  <2>1. <<>> \in Seq(Chars) /\ Len(<<>>) = 0 /\ 0 \in 0 .. 0 OBVIOUS
  <2>2. PICK f : /\ D!Shown(<<>>) = f[Len(<<>>)]
                 /\ \A n \in 0 .. Len(<<>>) : f[n] = SeenBody(f, <<>>, n)
    BY <2>1, SeenIs
  <2>3. QED BY <2>1, <2>2 DEF SeenBody
<1>2. ASSUME NEW p \in Seq(Chars) PROVE D!Shown(p) \in Seq(Chars)
  <2>1. PICK f : /\ D!Shown(p) = f[Len(p)] /\ \A n \in 0 .. Len(p) : f[n] \in Seq(Chars)
    BY SeenIs
  <2>2. Len(p) \in 0 .. Len(p) OBVIOUS
  <2>3. QED BY <2>1, <2>2
<1>3. ASSUME NEW p \in Seq(Chars), NEW c \in Chars
      PROVE  D!Shown(Append(p, c)) = IF D!Visible(c) THEN Append(D!Shown(p), c) ELSE D!Shown(p)
  <2>1. PICK q : q = Append(p, c) OBVIOUS
  <2>2. /\ q \in Seq(Chars) /\ Len(q) = Len(p) + 1 /\ q[Len(p) + 1] = c /\ Len(p) \in Nat
        /\ \A n \in 1 .. Len(p) : q[n] = p[n]
    BY <2>1, AppendProperties
  <2>3. PICK f : /\ D!Shown(p) = f[Len(p)] /\ \A n \in 0 .. Len(p) : f[n] = SeenBody(f, p, n)
    BY SeenIs
  <2>4. PICK g : /\ D!Shown(q) = g[Len(q)] /\ \A n \in 0 .. Len(q) : g[n] = SeenBody(g, q, n)
    BY <2>2, SeenIs
  <2> DEFINE P == {n \in 0 .. Len(p) : g[n] = f[n]}
  <2>5. 0 \in P
    <3>1. 0 \in 0 .. Len(p) /\ 0 \in 0 .. Len(q) BY <2>2
    <3>2. g[0] = <<>> /\ f[0] = <<>> BY <2>3, <2>4, <3>1 DEF SeenBody
    <3>3. QED BY <3>1, <3>2
  <2>6. ASSUME NEW n \in 1 .. Len(p), n - 1 \in P PROVE n \in P
    <3>1. n \in 0 .. Len(p) /\ n \in 0 .. Len(q) /\ n # 0 /\ q[n] = p[n] BY <2>2
    <3>2. g[n] = SeenBody(g, q, n) /\ f[n] = SeenBody(f, p, n) /\ g[n - 1] = f[n - 1]
      BY <2>3, <2>4, <2>6, <3>1
    <3>3. QED BY <3>1, <3>2 DEF SeenBody
  <2> HIDE DEF P
  <2>7. \A n \in 0 .. Len(p) : n \in P BY <2>2, <2>5, <2>6, Climbing
  <2>8. g[Len(p)] = f[Len(p)] BY <2>2, <2>7 DEF P
  <2>9. g[Len(q)] = SeenBody(g, q, Len(q)) /\ Len(q) # 0 /\ Len(q) - 1 = Len(p)
    BY <2>2, <2>4
  <2>10. QED BY <2>1, <2>2, <2>3, <2>4, <2>8, <2>9 DEF SeenBody
<1>4. QED BY <1>1, <1>2, <1>3
-----------------------------------------------------------------------------
\* The bytes begin with s when they agree with it one by one.
LEMMA BeginsIs ==
    ASSUME NEW b \in Seq(Byte), NEW s \in Seq(Byte)
    PROVE  D!Begins(b, s) <=> Len(s) <= Len(b) /\ \A i \in 1 .. Len(s) : b[i] = s[i]
<1>1. Len(b) \in Nat /\ Len(s) \in Nat OBVIOUS
<1>2. CASE Len(s) <= Len(b)
  <2>1. PICK t : t = SubSeq(b, 1, Len(s)) OBVIOUS
  <2>2. t \in Seq(Byte) /\ Len(t) = Len(s) /\ \A i \in 1 .. Len(s) : t[i] = b[i]
    BY <1>1, <1>2, <2>1
  <2>3. t = s <=> \A i \in 1 .. Len(s) : t[i] = s[i] BY <2>2, SeqEqual
  <2>4. QED BY <1>1, <1>2, <2>1, <2>2, <2>3 DEF D!Begins
<1>3. QED BY <1>1, <1>2 DEF D!Begins

\* All bytes or none are taken as they should be; otherwise their number is right.
LEMMA MoveUpIs ==
    ASSUME NEW b \in Seq(Byte), NEW n \in 0 .. Len(b)
    PROVE  /\ D!MoveUp(b, n) \in Seq(Byte) /\ Len(D!MoveUp(b, n)) = Len(b) - n
           /\ n = 0 => D!MoveUp(b, n) = b
           /\ n = Len(b) => D!MoveUp(b, n) = <<>>
<1>1. Len(b) \in Nat /\ n \in Nat /\ Len(b) - n \in Nat OBVIOUS
<1> DEFINE v(i) == IF i <= (Len(b) - n + 3) \div 4 THEN b[n + i] ELSE b[i]
<1>2. \A i \in 1 .. (Len(b) - n) : v(i) \in Byte
  <2>1. \A i \in 1 .. (Len(b) - n) : n + i \in 1 .. Len(b) /\ i \in 1 .. Len(b) BY <1>1
  <2>2. QED BY <2>1
<1>3. D!MoveUp(b, n) = [i \in 1 .. (Len(b) - n) |-> v(i)] BY DEF D!MoveUp
<1> HIDE DEF v
<1>4. D!MoveUp(b, n) \in Seq(Byte) /\ Len(D!MoveUp(b, n)) = Len(b) - n
  BY <1>1, <1>2, <1>3, IsASeq
<1>5. ASSUME n = 0 PROVE D!MoveUp(b, n) = b
  <2>1. \A i \in 1 .. Len(b) : v(i) = b[i] BY <1>1, <1>5 DEF v
  <2>2. \A i \in 1 .. Len(b) : D!MoveUp(b, n)[i] = b[i] BY <1>1, <1>3, <1>5, <2>1
  <2>3. QED BY <1>1, <1>4, <1>5, <2>2, SeqEqual
<1>6. n = Len(b) => D!MoveUp(b, n) = <<>> BY <1>1, <1>4, EmptySeq
<1>7. QED BY <1>4, <1>5, <1>6

\* Decoding takes no more bytes than there are, and some of eight.
LEMMA DecodeIs ==
    ASSUME NEW b \in Seq(Byte), b # <<>>
    PROVE  /\ D!Decode(b).what \in {"make", "break", "nothing"}
           /\ D!Decode(b).key \in Decodable
           /\ D!Decode(b).adjust \in 0 .. Len(b)
           /\ Len(b) >= 8 => D!Decode(b).adjust >= 1
<1> DEFINE d == D!Decode(b)
           n == Len(b)
           Good(e) == /\ e.what \in {"make", "break", "nothing"} /\ e.key \in Decodable
                      /\ e.adjust \in 0 .. n /\ (n >= 8 => e.adjust >= 1)
<1>1. n \in Nat /\ n >= 1 BY EmptySeq
<1>2. \A c : D!Normal(c) \in Decodable /\ D!Ext(c) \in Decodable
  BY DEF D!Normal, D!Ext, Decodable, D!AllKeys, D!Plain, D!Letter, D!Locks, D!Extended
<1>3. "none" \in Decodable /\ "PAUSE" \in Decodable BY DEF Decodable, D!AllKeys
<1>4. Len(D!PauseBytes) = 8 BY DEF D!PauseBytes
<1>5. D!Begins(b, D!PauseBytes) => n >= 8 BY <1>4, <1>1 DEF D!Begins
<1>6. \/ d = D!Decoded("make", D!Normal(b[1]), 1)
      \/ n >= 2 /\ d = D!Decoded("make", D!Ext(b[2]), 2)
      \/ n >= 4 /\ d = D!Decoded("make", D!Ext(b[4]), 4)
      \/ n >= 8 /\ d = D!Decoded("make", "PAUSE", 8)
      \/ n >= 2 /\ d = D!Decoded("break", D!Normal(b[2]), 2)
      \/ n >= 3 /\ d = D!Decoded("nothing", "none", 3)
      \/ n >= 3 /\ d = D!Decoded("break", D!Ext(b[3]), 3)
      \/ d = D!Decoded("nothing", "none", D!DropUnknown(n))
  BY <1>5 DEF D!Decode
<1>7. \A w, e, a : LET x == D!Decoded(w, e, a) IN x.what = w /\ x.key = e /\ x.adjust = a
  BY DEF D!Decoded
<1>8. D!DropUnknown(n) \in 0 .. n /\ (n >= 8 => D!DropUnknown(n) >= 1) BY <1>1 DEF D!DropUnknown
<1> HIDE DEF d, n
<1>9. Good(d)
  <2>1. CASE d = D!Decoded("make", D!Normal(b[1]), 1) BY <1>1, <1>2, <1>7, <2>1
  <2>2. CASE n >= 2 /\ d = D!Decoded("make", D!Ext(b[2]), 2) BY <1>1, <1>2, <1>7, <2>2
  <2>3. CASE n >= 4 /\ d = D!Decoded("make", D!Ext(b[4]), 4) BY <1>1, <1>2, <1>7, <2>3
  <2>4. CASE n >= 8 /\ d = D!Decoded("make", "PAUSE", 8) BY <1>1, <1>3, <1>7, <2>4
  <2>5. CASE n >= 2 /\ d = D!Decoded("break", D!Normal(b[2]), 2) BY <1>1, <1>2, <1>7, <2>5
  <2>6. CASE n >= 3 /\ d = D!Decoded("nothing", "none", 3) BY <1>1, <1>3, <1>7, <2>6
  <2>7. CASE n >= 3 /\ d = D!Decoded("break", D!Ext(b[3]), 3) BY <1>1, <1>2, <1>7, <2>7
  <2>8. CASE d = D!Decoded("nothing", "none", D!DropUnknown(n)) BY <1>1, <1>3, <1>7, <1>8, <2>8
  <2>9. QED BY <1>6, <2>1, <2>2, <2>3, <2>4, <2>5, <2>6, <2>7, <2>8
<1>10. QED BY <1>9 DEF d, n

\* The table answers a character.
LEMMA AsciiIs == \A k, p, l : D!keyboard_get_ascii(k, p, l) \in Chars
<1>1. \A k, x, y : D!InTable(k, x, y) \in Chars BY DEF D!InTable, Chars
<1>2. \A c \in Chars : D!WithCtrl(c) \in Chars /\ D!WithAlt(c) \in Chars /\ D!CapsSwap(c) \in Chars
  BY DEF D!WithCtrl, D!WithAlt, D!CapsSwap, Chars
<1>3. QED BY <1>1, <1>2 DEF D!keyboard_get_ascii

\* A byte read leaves knowledge, adds to the text and never fills the buffer.
LEMMA AfterIs ==
    ASSUME NEW s \in Knowledge, NEW c \in Byte
    PROVE  /\ After(s, c) \in Knowledge
           /\ Prolongs(s.text, After(s, c).text)
           /\ Len(s.buf) <= 7 => Len(After(s, c).buf) <= 7
<1> DEFINE buf == Append(s.buf, c)
           d == D!Decode(buf)
           a == D!keyboard_get_ascii(d.key, KeysAfter(s.keys, d), s.leds)
<1>1. /\ s.buf \in Seq(Byte) /\ s.keys \subseteq Decodable /\ s.leds \subseteq D!Locks
      /\ s.text \in Seq(Chars)
  BY DEF Knowledge
<1>2. buf \in Seq(Byte) /\ buf # <<>> /\ Len(buf) = Len(s.buf) + 1 BY <1>1, AppendProperties
<1>3. /\ d.what \in {"make", "break", "nothing"} /\ d.key \in Decodable
      /\ d.adjust \in 0 .. Len(buf) /\ (Len(buf) >= 8 => d.adjust >= 1)
  <2> HIDE DEF buf
  <2>1. QED BY <1>2, DecodeIs
<1>4. D!MoveUp(buf, d.adjust) \in Seq(Byte) /\ Len(D!MoveUp(buf, d.adjust)) = Len(buf) - d.adjust
  <2> HIDE DEF buf, d
  <2>1. QED BY <1>2, <1>3, MoveUpIs
<1> HIDE DEF buf, d
<1>5. KeysAfter(s.keys, d) \subseteq Decodable BY <1>1, <1>3 DEF KeysAfter
<1>6. a \in Chars BY AsciiIs
<1> HIDE DEF a
<1>7. Append(s.text, a) \in Seq(Chars) /\ Prolongs(s.text, Append(s.text, a))
      /\ Prolongs(s.text, s.text)
  <2>1. Len(s.text) \in Nat BY <1>1
  <2>2. QED BY <1>1, <1>6, <2>1, AppendProperties DEF Prolongs
<1> DEFINE text == IF Made(d) /\ d.key \notin D!Locks /\ D!Visible(a) THEN Append(s.text, a) ELSE s.text
           leds == IF Made(d) /\ d.key \in D!Locks /\ d.key \notin s.keys THEN D!SymDiff(s.leds, {d.key})
                   ELSE s.leds
<1>8. text \in Seq(Chars) /\ Prolongs(s.text, text) BY <1>1, <1>7
<1>9. leds \subseteq D!Locks BY <1>1 DEF D!SymDiff
<1> HIDE DEF text, leds
<1>10. After(s, c) = [buf |-> D!MoveUp(buf, d.adjust), keys |-> KeysAfter(s.keys, d),
                      leds |-> leds, text |-> text]
  BY DEF After, Acts, buf, d, leds, text, a
<1>11. Len(s.buf) \in Nat BY <1>1
<1>12. QED BY <1>2, <1>3, <1>4, <1>5, <1>8, <1>9, <1>10, <1>11 DEF Knowledge
-----------------------------------------------------------------------------
\* Prolonging twice.
LEMMA ProlongsTrans ==
    ASSUME NEW s \in Seq(Chars), NEW t \in Seq(Chars), NEW u \in Seq(Chars),
           Prolongs(s, t), Prolongs(t, u)
    PROVE  Prolongs(s, u)
<1>1. Len(s) \in Nat /\ Len(t) \in Nat /\ Len(u) \in Nat OBVIOUS
<1>2. QED BY <1>1 DEF Prolongs

\* What is prolonged is a prefix.
LEMMA ProlongsIsPrefix ==
    ASSUME NEW s \in Seq(Chars), NEW t \in Seq(Chars), Prolongs(s, t)
    PROVE  D!IsPrefix(s, t)
<1>1. Len(s) \in Nat /\ Len(t) \in Nat /\ Len(s) <= Len(t) BY DEF Prolongs
<1>2. PICK u : u = SubSeq(s, 1, Len(s)) OBVIOUS
<1>3. PICK v : v = SubSeq(t, 1, Len(s)) OBVIOUS
<1>4. u \in Seq(Chars) /\ Len(u) = Len(s) /\ \A i \in 1 .. Len(s) : u[i] = s[i] BY <1>1, <1>2
<1>5. v \in Seq(Chars) /\ Len(v) = Len(s) /\ \A i \in 1 .. Len(s) : v[i] = t[i] BY <1>1, <1>3
<1>6. u = v BY <1>4, <1>5, SeqEqual DEF Prolongs
<1>7. QED BY <1>1, <1>2, <1>3, <1>6 DEF D!IsPrefix

\* No bytes lead nowhere.
LEMMA LeadsNowhere == ASSUME NEW a \in Knowledge PROVE Leads(<<>>, a, a)
<1> DEFINE f == [i \in 0 .. 0 |-> a]
<1>1. Len(<<>>) = 0 /\ (\A i \in 0 .. 0 : i = 0) /\ ~(\E i \in 1 .. 0 : TRUE) OBVIOUS
<1>2. f \in [0 .. 0 -> Knowledge] /\ f[0] = a OBVIOUS
<1>3. Prolongs(a.text, a.text) BY DEF Prolongs, Knowledge
<1> HIDE DEF f
<1>4. Trace(<<>>, a, a, f) BY <1>1, <1>2, <1>3 DEF Trace
<1>5. QED BY <1>4 DEF Leads

\* One byte more at the end.
LEMMA LeadsOn ==
    ASSUME NEW w \in Seq(Byte), NEW c \in Byte, NEW a, NEW b, Leads(w, a, b)
    PROVE  Leads(Append(w, c), a, After(b, c)) /\ b \in Knowledge
<1>1. PICK f : Trace(w, a, b, f) BY DEF Leads
<1>2. PICK m \in Nat : m = Len(w) OBVIOUS
<1>3. PICK v : v = Append(w, c) OBVIOUS
<1>4. Len(v) = m + 1 /\ v[m + 1] = c /\ \A i \in 1 .. m : v[i] = w[i]
  BY <1>2, <1>3, AppendProperties
<1>5. PICK e : e = After(b, c) OBVIOUS
<1>6. /\ f \in [0 .. m -> Knowledge] /\ f[0] = a /\ f[m] = b
      /\ \A i \in 1 .. m : f[i] = After(f[i - 1], w[i])
      /\ \A i, j \in 0 .. m : i <= j => Prolongs(f[i].text, f[j].text)
  BY <1>1, <1>2 DEF Trace
<1>7. b \in Knowledge /\ m \in 0 .. m BY <1>2, <1>6
<1>8. e \in Knowledge /\ Prolongs(b.text, e.text) BY <1>5, <1>7, AfterIs
<1> DEFINE g == [i \in 0 .. (m + 1) |-> IF i = m + 1 THEN e ELSE f[i]]
<1>9. /\ \A i \in 0 .. (m + 1) : i = m + 1 \/ (i \in 0 .. m /\ i # m + 1)
      /\ \A i \in 0 .. m : i \in 0 .. (m + 1) /\ i # m + 1
      /\ m + 1 \in 0 .. (m + 1) /\ 0 \in 0 .. m
  OBVIOUS
<1>10. /\ \A i \in 0 .. m : g[i] = f[i]
       /\ g[m + 1] = e
       /\ g \in [0 .. (m + 1) -> Knowledge]
  BY <1>6, <1>8, <1>9
<1> HIDE DEF g
<1>11. \A i \in 1 .. (m + 1) : g[i] = After(g[i - 1], v[i])
  <2>1. \A i \in 1 .. (m + 1) : i - 1 \in 0 .. m /\ (i = m + 1 \/ i \in 1 .. m) BY <1>2
  <2>2. \A i \in 1 .. m : i \in 0 .. m BY <1>2
  <2>3. m + 1 - 1 = m BY <1>2
  <2>4. ASSUME NEW i \in 1 .. m PROVE g[i] = After(g[i - 1], v[i])
    <3>1. g[i] = f[i] /\ g[i - 1] = f[i - 1] /\ v[i] = w[i] BY <1>4, <1>10, <2>1, <2>2
    <3>2. f[i] = After(f[i - 1], w[i]) BY <1>6
    <3>3. QED BY <3>1, <3>2
  <2>5. g[m + 1] = After(g[m + 1 - 1], v[m + 1])
    <3>1. g[m + 1] = e /\ g[m + 1 - 1] = f[m] /\ v[m + 1] = c BY <1>4, <1>7, <1>10, <2>3
    <3>2. QED BY <1>5, <1>6, <3>1
  <2>6. QED BY <2>1, <2>4, <2>5
<1>12. \A i, j \in 0 .. (m + 1) : i <= j => Prolongs(g[i].text, g[j].text)
  <2>1. \A i \in 0 .. m : f[i].text \in Seq(Chars) BY <1>6 DEF Knowledge
  <2>2. b.text \in Seq(Chars) /\ e.text \in Seq(Chars) BY <1>7, <1>8 DEF Knowledge
  <2>3. \A i \in 0 .. m : Prolongs(f[i].text, b.text) BY <1>6, <1>7
  <2>4. \A i \in 0 .. m : Prolongs(f[i].text, e.text)
    BY <1>8, <2>1, <2>2, <2>3, ProlongsTrans
  <2>5. Prolongs(e.text, e.text) BY <2>2 DEF Prolongs
  <2>6. \A i, j \in 0 .. (m + 1) : i <= j => \/ i \in 0 .. m /\ j \in 0 .. m
                                             \/ i \in 0 .. m /\ j = m + 1
                                             \/ i = m + 1 /\ j = m + 1
    BY <1>2
  <2>7. QED BY <1>6, <1>10, <2>4, <2>5, <2>6
<1>13. Trace(v, a, e, g) BY <1>4, <1>6, <1>9, <1>10, <1>11, <1>12 DEF Trace
<1>14. QED BY <1>3, <1>5, <1>7, <1>13 DEF Leads

\* The first byte is read.
LEMMA LeadsFirst ==
    ASSUME NEW w \in Seq(Byte), w # <<>>, NEW a, NEW b, Leads(w, a, b)
    PROVE  Leads(Tail(w), After(a, Head(w)), b)
<1>1. PICK f : Trace(w, a, b, f) BY DEF Leads
<1>2. PICK m \in Nat : m + 1 = Len(w)
  <2>1. Len(w) \in Nat \ {0} BY EmptySeq
  <2>2. Len(w) - 1 \in Nat /\ Len(w) - 1 + 1 = Len(w) BY <2>1
  <2>3. \E m \in Nat : m + 1 = Len(w) BY <2>2
  <2>4. QED BY <2>3
<1>3. PICK v : v = Tail(w) OBVIOUS
<1>4. Len(v) = m /\ (\A i \in 1 .. m : v[i] = w[i + 1]) /\ Head(w) = w[1]
  BY <1>2, <1>3, HeadTailProperties
<1>5. /\ f \in [0 .. (m + 1) -> Knowledge] /\ f[0] = a /\ f[m + 1] = b
      /\ \A i \in 1 .. (m + 1) : f[i] = After(f[i - 1], w[i])
      /\ \A i, j \in 0 .. (m + 1) : i <= j => Prolongs(f[i].text, f[j].text)
  BY <1>1, <1>2 DEF Trace
<1> DEFINE g == [i \in 0 .. m |-> f[i + 1]]
<1>6. /\ \A i \in 0 .. m : i + 1 \in 0 .. (m + 1)
      /\ \A i \in 1 .. m : i + 1 \in 1 .. (m + 1) /\ i + 1 - 1 = i /\ i - 1 + 1 = i
                           /\ i - 1 \in 0 .. m /\ i \in 0 .. m
      /\ 0 \in 0 .. m /\ m \in 0 .. m /\ 0 + 1 = 1 /\ 1 - 1 = 0 /\ 1 \in 1 .. (m + 1)
  OBVIOUS
<1>7. g \in [0 .. m -> Knowledge] /\ (\A i \in 0 .. m : g[i] = f[i + 1]) BY <1>5, <1>6
<1> HIDE DEF g
<1>8. g[0] = After(a, Head(w)) /\ g[m] = b BY <1>4, <1>5, <1>6, <1>7
<1>9. \A i \in 1 .. m : g[i] = After(g[i - 1], v[i])
  <2>1. ASSUME NEW i \in 1 .. m PROVE g[i] = After(g[i - 1], v[i])
    <3>1. g[i] = f[i + 1] /\ g[i - 1] = f[i] /\ v[i] = w[i + 1] BY <1>4, <1>6, <1>7
    <3>2. f[i + 1] = After(f[i], w[i + 1]) BY <1>5, <1>6
    <3>3. QED BY <3>1, <3>2
  <2>2. QED BY <2>1
<1>10. \A i, j \in 0 .. m : i <= j => Prolongs(g[i].text, g[j].text)
  <2>1. \A i, j \in 0 .. m : i <= j => i + 1 <= j + 1 OBVIOUS
  <2>2. QED BY <1>5, <1>6, <1>7, <2>1
<1>11. Trace(v, After(a, Head(w)), b, g) BY <1>4, <1>7, <1>8, <1>9, <1>10 DEF Trace
<1>12. QED BY <1>3, <1>11 DEF Leads

\* Bytes read add to the text.
LEMMA LeadsExtends ==
    ASSUME NEW w \in Seq(Byte), NEW a, NEW b, Leads(w, a, b)
    PROVE  Prolongs(a.text, b.text)
<1>1. PICK f : Trace(w, a, b, f) BY DEF Leads
<1>2. Len(w) \in Nat /\ 0 \in 0 .. Len(w) /\ Len(w) \in 0 .. Len(w) /\ 0 <= Len(w) OBVIOUS
<1>3. QED BY <1>1, <1>2 DEF Trace
-----------------------------------------------------------------------------
\* What the bytes of a key do, one after the other.
With(s, q) == [s EXCEPT !.buf = q]
Done(s, w, k) == [Acts(s, D!Decoded(w, k, 0), <<>>) EXCEPT !.buf = <<>>]

\* Knowledge with another buffer.
LEMMA WithIs ==
    ASSUME NEW s \in Knowledge, NEW q \in Seq(Byte)
    PROVE  /\ With(s, q) \in Knowledge /\ With(s, q).buf = q /\ With(s, q).keys = s.keys
           /\ With(s, q).leds = s.leds /\ With(s, q).text = s.text
           /\ s.buf = q => With(s, q) = s
           /\ \A r : With(With(s, q), r) = With(s, r)
BY DEF With, Knowledge

\* A byte that completes nothing is kept; one that does leaves the buffer empty.
LEMMA ReadsOn ==
    ASSUME NEW w \in Seq(Byte), NEW p \in Seq(Byte), NEW q \in Seq(Byte), NEW c \in Byte, NEW a,
           NEW b \in Knowledge, Leads(w \o p, a, With(b, q))
    PROVE  /\ D!Decode(Append(q, c)) = D!Decoded("nothing", "none", 0) =>
                Leads(w \o Append(p, c), a, With(b, Append(q, c)))
           /\ \A what, key : D!Decode(Append(q, c)) = D!Decoded(what, key, Len(q) + 1) =>
                Leads(w \o Append(p, c), a, Done(b, what, key))
<1> DEFINE x == With(b, q)
           t == Append(q, c)
<1>1. x \in Knowledge /\ x.buf = q /\ x.keys = b.keys /\ x.leds = b.leds /\ x.text = b.text
      /\ \A r : With(x, r) = With(b, r)
  BY WithIs
<1>2. w \o p \in Seq(Byte) /\ Append(w \o p, c) = w \o Append(p, c)
  <2>1. w \o p \in Seq(Byte) BY ConcatProperties
  <2>2. Append(w \o p, c) = (w \o p) \o <<c>> /\ Append(p, c) = p \o <<c>>
    BY <2>1, AppendIsConcat
  <2>3. <<c>> \in Seq(Byte) OBVIOUS
  <2>4. (w \o p) \o <<c>> = w \o (p \o <<c>>) BY <2>3, ConcatAssociative
  <2>5. QED BY <2>1, <2>2, <2>4
<1>3. t \in Seq(Byte) /\ Len(t) = Len(q) + 1 BY AppendProperties
<1> HIDE DEF x, t
<1>4. Leads(Append(w \o p, c), a, After(x, c)) BY <1>2, LeadsOn DEF x
<1>5. After(x, c) = Acts(x, D!Decode(t), t) BY <1>1 DEF After, t
<1>6. ASSUME D!Decode(t) = D!Decoded("nothing", "none", 0) PROVE After(x, c) = With(b, t)
  <2>1. D!MoveUp(t, 0) = t BY <1>3, MoveUpIs
  <2>2. Acts(x, D!Decoded("nothing", "none", 0), t)
          = [buf |-> t, keys |-> x.keys, leds |-> x.leds, text |-> x.text]
    BY <2>1 DEF Acts, D!Decoded, Made, KeysAfter
  <2>3. With(x, t) = [buf |-> t, keys |-> x.keys, leds |-> x.leds, text |-> x.text]
    BY <1>1 DEF With, Knowledge
  <2>4. QED BY <1>1, <1>5, <1>6, <2>2, <2>3
<1>7. ASSUME NEW what, NEW key, D!Decode(t) = D!Decoded(what, key, Len(q) + 1)
      PROVE  After(x, c) = Done(b, what, key)
  <2>1. D!MoveUp(t, Len(q) + 1) = <<>> BY <1>3, MoveUpIs
  <2>2. PICK d : d = D!Decoded(what, key, Len(q) + 1) OBVIOUS
  <2>3. PICK e : e = D!Decoded(what, key, 0) OBVIOUS
  <2>4. /\ d.what = what /\ d.key = key /\ d.adjust = Len(q) + 1
        /\ e.what = what /\ e.key = key
    BY <2>2, <2>3 DEF D!Decoded
  <2>5. Made(d) = Made(e) /\ KeysAfter(b.keys, d) = KeysAfter(b.keys, e) BY <2>4 DEF Made, KeysAfter
  <2> DEFINE ks == KeysAfter(b.keys, e)
             asc == D!keyboard_get_ascii(key, ks, b.leds)
             ls == IF Made(e) /\ key \in D!Locks /\ key \notin b.keys THEN D!SymDiff(b.leds, {key})
                   ELSE b.leds
             txt == IF Made(e) /\ key \notin D!Locks /\ D!Visible(asc) THEN Append(b.text, asc)
                    ELSE b.text
  <2>6. Acts(x, d, t) = [buf |-> <<>>, keys |-> ks, leds |-> ls, text |-> txt]
    BY <1>1, <2>1, <2>4, <2>5, Zenon DEF Acts
  <2>7. Acts(b, e, <<>>) = [buf |-> D!MoveUp(<<>>, e.adjust), keys |-> ks, leds |-> ls, text |-> txt]
    BY <2>4, Zenon DEF Acts
  <2> HIDE DEF ks, ls, txt
  <2>8. Acts(x, d, t) = [Acts(b, e, <<>>) EXCEPT !.buf = <<>>]
    BY <2>6, <2>7
  <2>9. QED BY <1>5, <1>7, <2>2, <2>3, <2>8 DEF Done
<1>8. QED BY <1>2, <1>4, <1>6, <1>7 DEF t

\* The beginnings the decoder tells apart.
LEMMA BeginsAre ==
    ASSUME NEW b \in Seq(Byte)
    PROVE  /\ D!Begins(b, <<"E0", "12", "E0">>) <=>
                Len(b) >= 3 /\ b[1] = "E0" /\ b[2] = "12" /\ b[3] = "E0"
           /\ D!Begins(b, <<"E0", "F0">>) <=> Len(b) >= 2 /\ b[1] = "E0" /\ b[2] = "F0"
           /\ D!Begins(b, D!PauseBytes) => Len(b) >= 8 /\ b[1] = "E1"
           /\ b = D!PauseBytes => D!Begins(b, D!PauseBytes)
<1>1. \A i \in 1 .. 3 : i = 1 \/ i = 2 \/ i = 3 OBVIOUS
<1>2. <<"E0", "12", "E0">> \in Seq(Byte) /\ <<"E0", "F0">> \in Seq(Byte)
  BY DEF Byte, Codes, Answers
<1>3. D!PauseBytes \in Seq(Byte) /\ Len(D!PauseBytes) = 8 /\ D!PauseBytes[1] = "E1"
  <2>1. "E1" \in Byte /\ "14" \in Byte /\ "77" \in Byte /\ "F0" \in Byte BY DEF Byte, Codes
  <2>2. QED BY <2>1 DEF D!PauseBytes
<1>4. D!Begins(b, <<"E0", "12", "E0">>) <=> Len(b) >= 3 /\ b[1] = "E0" /\ b[2] = "12" /\ b[3] = "E0"
  <2>1. PICK s \in Seq(Byte) : s = <<"E0", "12", "E0">> BY <1>2
  <2>2. Len(s) = 3 /\ s[1] = "E0" /\ s[2] = "12" /\ s[3] = "E0" BY <2>1
  <2>3. D!Begins(b, s) <=> Len(s) <= Len(b) /\ \A i \in 1 .. Len(s) : b[i] = s[i] BY BeginsIs
  <2>4. QED BY <2>1, <2>2, <2>3
<1>5. D!Begins(b, <<"E0", "F0">>) <=> Len(b) >= 2 /\ b[1] = "E0" /\ b[2] = "F0"
  <2>1. PICK s \in Seq(Byte) : s = <<"E0", "F0">> BY <1>2
  <2>2. Len(s) = 2 /\ s[1] = "E0" /\ s[2] = "F0" BY <2>1
  <2>3. D!Begins(b, s) <=> Len(s) <= Len(b) /\ \A i \in 1 .. Len(s) : b[i] = s[i] BY BeginsIs
  <2>4. QED BY <2>1, <2>2, <2>3
<1>6. D!Begins(b, D!PauseBytes) => Len(b) >= 8 /\ b[1] = "E1"
  <2>1. D!Begins(b, D!PauseBytes) <=>
          Len(D!PauseBytes) <= Len(b) /\ \A i \in 1 .. Len(D!PauseBytes) : b[i] = D!PauseBytes[i]
    BY <1>3, BeginsIs
  <2>2. QED BY <1>3, <2>1
<1>7. ASSUME b = D!PauseBytes PROVE D!Begins(b, D!PauseBytes)
  <2>1. D!Begins(b, b) BY BeginsIs
  <2>2. QED BY <1>7, <2>1
<1>8. QED BY <1>4, <1>5, <1>6, <1>7

\* The bytes that open a longer code, and what the codes decode to.
Openers == {"E0", "E1", "F0"}
LEMMA DecodesTo ==
    /\ \A c \in Byte \ Openers : D!Decode(<<c>>) = D!Decoded("make", D!Normal(c), 1)
    /\ \A c \in Openers : D!Decode(<<c>>) = D!Decoded("nothing", "none", 0)
    /\ \A c \in Byte : D!Decode(<<"F0", c>>) = D!Decoded("break", D!Normal(c), 2)
    /\ \A c \in Byte \ {"12", "F0"} : D!Decode(<<"E0", c>>) = D!Decoded("make", D!Ext(c), 2)
    /\ \A c \in {"12", "F0"} : D!Decode(<<"E0", c>>) = D!Decoded("nothing", "none", 0)
    /\ D!Decode(<<"E0", "12", "E0">>) = D!Decoded("nothing", "none", 0)
    /\ D!Decode(<<"E0", "F0", "12">>) = D!Decoded("nothing", "none", 3)
    /\ \A c \in Byte \ {"12"} : D!Decode(<<"E0", "F0", c>>) = D!Decoded("break", D!Ext(c), 3)
    /\ \A c \in Byte : D!Decode(<<"E0", "12", "E0", c>>) = D!Decoded("make", D!Ext(c), 4)
    /\ D!Decode(D!PauseBytes) = D!Decoded("make", "PAUSE", 8)
    /\ \A b \in Seq(Byte) : Len(b) < 8 /\ Len(b) > 0 /\ b[1] = "E1" =>
         D!Decode(b) = D!Decoded("nothing", "none", 0)
<1>1. "E0" \in Byte /\ "E1" \in Byte /\ "F0" \in Byte /\ "12" \in Byte BY DEF Byte, Codes
<1>2. ASSUME NEW c \in Byte \ Openers PROVE D!Decode(<<c>>) = D!Decoded("make", D!Normal(c), 1)
  <2>1. <<c>> \in Seq(Byte) OBVIOUS
  <2>2. PICK b \in Seq(Byte) : b = <<c>> BY <2>1
  <2>3. Len(b) = 1 /\ b[1] = c BY <2>2
  <2>4. ~D!Begins(b, <<"E0", "12", "E0">>) /\ ~D!Begins(b, <<"E0", "F0">>) /\ ~D!Begins(b, D!PauseBytes)
    BY <2>3, BeginsAre
  <2>5. D!Decode(b) = D!Decoded("make", D!Normal(c), 1) BY <2>3, <2>4 DEF D!Decode, Openers
  <2>6. QED BY <2>2, <2>5
<1>3. ASSUME NEW c \in Openers PROVE D!Decode(<<c>>) = D!Decoded("nothing", "none", 0)
  <2>1. <<c>> \in Seq(Byte) BY <1>1 DEF Openers
  <2>2. PICK b \in Seq(Byte) : b = <<c>> BY <2>1
  <2>3. Len(b) = 1 /\ b[1] = c BY <2>2
  <2>4. D!Decode(b) = D!Decoded("nothing", "none", 0)
    BY <2>3, BeginsAre DEF D!Decode, Openers, D!DropUnknown
  <2>5. QED BY <2>2, <2>4
<1>4. ASSUME NEW c \in Byte PROVE D!Decode(<<"F0", c>>) = D!Decoded("break", D!Normal(c), 2)
  <2>1. <<"F0", c>> \in Seq(Byte) BY <1>1
  <2>2. PICK b \in Seq(Byte) : b = <<"F0", c>> BY <2>1
  <2>3. Len(b) = 2 /\ b[1] = "F0" /\ b[2] = c BY <2>2
  <2>4. ~D!Begins(b, <<"E0", "12", "E0">>) /\ ~D!Begins(b, D!PauseBytes) BY <2>3, BeginsAre
  <2>5. D!Decode(b) = D!Decoded("break", D!Normal(c), 2) BY <2>3, <2>4 DEF D!Decode
  <2>6. QED BY <2>2, <2>5
<1>5. ASSUME NEW c \in Byte \ {"12", "F0"}
      PROVE  D!Decode(<<"E0", c>>) = D!Decoded("make", D!Ext(c), 2)
  <2>1. <<"E0", c>> \in Seq(Byte) BY <1>1
  <2>2. PICK b \in Seq(Byte) : b = <<"E0", c>> BY <2>1
  <2>3. Len(b) = 2 /\ b[1] = "E0" /\ b[2] = c BY <2>2
  <2>4. ~D!Begins(b, <<"E0", "12", "E0">>) /\ ~D!Begins(b, <<"E0", "F0">>) /\ ~D!Begins(b, D!PauseBytes)
    BY <2>3, BeginsAre
  <2>5. D!Decode(b) = D!Decoded("make", D!Ext(c), 2) BY <2>3, <2>4 DEF D!Decode
  <2>6. QED BY <2>2, <2>5
<1>6. ASSUME NEW c \in {"12", "F0"} PROVE D!Decode(<<"E0", c>>) = D!Decoded("nothing", "none", 0)
  <2>1. <<"E0", c>> \in Seq(Byte) BY <1>1
  <2>2. PICK b \in Seq(Byte) : b = <<"E0", c>> BY <2>1
  <2>3. Len(b) = 2 /\ b[1] = "E0" /\ b[2] = c BY <2>2
  <2>4. ~D!Begins(b, <<"E0", "12", "E0">>) /\ ~D!Begins(b, D!PauseBytes) BY <2>3, BeginsAre
  <2>5. D!Decode(b) = D!Decoded("nothing", "none", 0) BY <2>3, <2>4 DEF D!Decode, D!DropUnknown
  <2>6. QED BY <2>2, <2>5
<1>7. D!Decode(<<"E0", "12", "E0">>) = D!Decoded("nothing", "none", 0)
  <2>1. <<"E0", "12", "E0">> \in Seq(Byte) BY <1>1
  <2>2. PICK b \in Seq(Byte) : b = <<"E0", "12", "E0">> BY <2>1
  <2>3. Len(b) = 3 /\ b[1] = "E0" /\ b[2] = "12" BY <2>2
  <2>4. ~D!Begins(b, <<"E0", "F0">>) /\ ~D!Begins(b, D!PauseBytes) BY <2>3, BeginsAre
  <2>5. D!Decode(b) = D!Decoded("nothing", "none", 0) BY <2>3, <2>4 DEF D!Decode, D!DropUnknown
  <2>6. QED BY <2>2, <2>5
<1>8. ASSUME NEW c \in Byte
      PROVE  D!Decode(<<"E0", "F0", c>>) = IF c = "12" THEN D!Decoded("nothing", "none", 3)
                                         ELSE D!Decoded("break", D!Ext(c), 3)
  <2>1. <<"E0", "F0", c>> \in Seq(Byte) BY <1>1
  <2>2. PICK b \in Seq(Byte) : b = <<"E0", "F0", c>> BY <2>1
  <2>3. Len(b) = 3 /\ b[1] = "E0" /\ b[2] = "F0" /\ b[3] = c BY <2>2
  <2>4. D!Begins(b, <<"E0", "F0">>) /\ ~D!Begins(b, D!PauseBytes) BY <2>3, BeginsAre
  <2>5. D!Decode(b) = IF c = "12" THEN D!Decoded("nothing", "none", 3)
                      ELSE D!Decoded("break", D!Ext(c), 3)
    BY <2>3, <2>4 DEF D!Decode
  <2>6. QED BY <2>2, <2>5
<1>9. ASSUME NEW c \in Byte PROVE D!Decode(<<"E0", "12", "E0", c>>) = D!Decoded("make", D!Ext(c), 4)
  <2>1. <<"E0", "12", "E0", c>> \in Seq(Byte) BY <1>1
  <2>2. PICK b \in Seq(Byte) : b = <<"E0", "12", "E0", c>> BY <2>1
  <2>3. Len(b) = 4 /\ b[1] = "E0" /\ b[2] = "12" /\ b[3] = "E0" /\ b[4] = c BY <2>2
  <2>4. D!Begins(b, <<"E0", "12", "E0">>) /\ ~D!Begins(b, <<"E0", "F0">>) /\ ~D!Begins(b, D!PauseBytes)
    BY <2>3, BeginsAre
  <2>5. D!Decode(b) = D!Decoded("make", D!Ext(c), 4) BY <2>3, <2>4 DEF D!Decode
  <2>6. QED BY <2>2, <2>5
<1>10. D!Decode(D!PauseBytes) = D!Decoded("make", "PAUSE", 8)
  <2>1. "14" \in Byte /\ "77" \in Byte BY DEF Byte, Codes
  <2>2. D!PauseBytes \in Seq(Byte) BY <1>1, <2>1 DEF D!PauseBytes
  <2>3. PICK b \in Seq(Byte) : b = D!PauseBytes BY <2>2
  <2>4. b[1] = "E1" BY <2>3 DEF D!PauseBytes
  <2>5. /\ D!Begins(b, D!PauseBytes) /\ ~D!Begins(b, <<"E0", "12", "E0">>)
        /\ ~D!Begins(b, <<"E0", "F0">>)
    BY <2>3, <2>4, BeginsAre
  <2>6. D!Decode(b) = D!Decoded("make", "PAUSE", 8) BY <2>4, <2>5 DEF D!Decode
  <2>7. QED BY <2>3, <2>6
<1>11. ASSUME NEW b \in Seq(Byte), Len(b) < 8, Len(b) > 0, b[1] = "E1"
       PROVE  D!Decode(b) = D!Decoded("nothing", "none", 0)
  <2>1. ~D!Begins(b, <<"E0", "12", "E0">>) /\ ~D!Begins(b, <<"E0", "F0">>) /\ ~D!Begins(b, D!PauseBytes)
    BY <1>11, BeginsAre
  <2>2. QED BY <1>11, <2>1 DEF D!Decode, D!DropUnknown
<1>12. "12" \in Byte /\ \A c \in Byte \ {"12"} : c \in Byte /\ c # "12" BY <1>1
<1>13. QED BY <1>2, <1>3, <1>4, <1>5, <1>6, <1>7, <1>8, <1>9, <1>10, <1>11, <1>12

\* A sequence with one element more.
LEMMA AppendsAre ==
    ASSUME NEW q \in Seq(Byte), NEW c \in Byte, NEW t \in Seq(Byte), Len(t) = Len(q) + 1,
           \A i \in 1 .. Len(q) : t[i] = q[i], t[Len(q) + 1] = c
    PROVE  Append(q, c) = t
<1>1. PICK s : s = Append(q, c) OBVIOUS
<1>2. /\ s \in Seq(Byte) /\ Len(s) = Len(q) + 1 /\ s[Len(q) + 1] = c
      /\ \A i \in 1 .. Len(q) : s[i] = q[i]
  BY <1>1, AppendProperties
<1>3. \A i \in 1 .. Len(s) : i = Len(q) + 1 \/ i \in 1 .. Len(q) BY <1>2
<1>4. \A i \in 1 .. Len(s) : s[i] = t[i] BY <1>2, <1>3
<1>5. s = t BY <1>2, <1>4, SeqEqual
<1>6. QED BY <1>1, <1>5

\* Short sequences, one byte at a time.
LEMMA Tuples ==
    /\ \A x \in Byte : <<x>> \in Seq(Byte) /\ Len(<<x>>) = 1 /\ Append(<<>>, x) = <<x>>
    /\ \A x, y \in Byte : /\ <<x, y>> \in Seq(Byte) /\ Len(<<x, y>>) = 2
                          /\ Append(<<x>>, y) = <<x, y>>
    /\ \A x, y, z \in Byte : /\ <<x, y, z>> \in Seq(Byte) /\ Len(<<x, y, z>>) = 3
                             /\ Append(<<x, y>>, z) = <<x, y, z>>
    /\ \A x, y, z, u \in Byte : /\ <<x, y, z, u>> \in Seq(Byte) /\ Len(<<x, y, z, u>>) = 4
                                /\ Append(<<x, y, z>>, u) = <<x, y, z, u>>
<1>1. ASSUME NEW x \in Byte
      PROVE  <<x>> \in Seq(Byte) /\ Len(<<x>>) = 1 /\ Append(<<>>, x) = <<x>>
  OBVIOUS
<1>2. ASSUME NEW x \in Byte, NEW y \in Byte
      PROVE  <<x, y>> \in Seq(Byte) /\ Len(<<x, y>>) = 2 /\ Append(<<x>>, y) = <<x, y>>
  <2>1. <<x>> \in Seq(Byte) /\ <<x, y>> \in Seq(Byte) OBVIOUS
  <2>2. PICK s \in Seq(Byte) : s = <<x>> BY <2>1
  <2>3. PICK t \in Seq(Byte) : t = <<x, y>> BY <2>1
  <2>4. Len(s) = 1 /\ s[1] = x BY <2>2
  <2>5. Len(t) = 2 /\ t[1] = x /\ t[2] = y BY <2>3
  <2>6. \A i \in 1 .. 1 : i = 1 OBVIOUS
  <2>7. \A i \in 1 .. Len(s) : t[i] = s[i] BY <2>4, <2>5, <2>6
  <2>8. t[Len(s) + 1] = y /\ Len(t) = Len(s) + 1 BY <2>4, <2>5
  <2>9. Append(s, y) = t BY <2>7, <2>8, AppendsAre
  <2>10. QED BY <2>2, <2>3, <2>5, <2>9
<1>3. ASSUME NEW x \in Byte, NEW y \in Byte, NEW z \in Byte
      PROVE  <<x, y, z>> \in Seq(Byte) /\ Len(<<x, y, z>>) = 3 /\ Append(<<x, y>>, z) = <<x, y, z>>
  <2>1. <<x, y>> \in Seq(Byte) /\ <<x, y, z>> \in Seq(Byte) OBVIOUS
  <2>2. PICK s \in Seq(Byte) : s = <<x, y>> BY <2>1
  <2>3. PICK t \in Seq(Byte) : t = <<x, y, z>> BY <2>1
  <2>4. Len(s) = 2 /\ s[1] = x /\ s[2] = y BY <2>2
  <2>5. Len(t) = 3 /\ t[1] = x /\ t[2] = y /\ t[3] = z BY <2>3
  <2>6. \A i \in 1 .. 2 : i = 1 \/ i = 2 OBVIOUS
  <2>7. \A i \in 1 .. Len(s) : t[i] = s[i] BY <2>4, <2>5, <2>6
  <2>8. t[Len(s) + 1] = z /\ Len(t) = Len(s) + 1 BY <2>4, <2>5
  <2>9. Append(s, z) = t BY <2>7, <2>8, AppendsAre
  <2>10. QED BY <2>2, <2>3, <2>5, <2>9
<1>4. ASSUME NEW x \in Byte, NEW y \in Byte, NEW z \in Byte, NEW u \in Byte
      PROVE  /\ <<x, y, z, u>> \in Seq(Byte) /\ Len(<<x, y, z, u>>) = 4
             /\ Append(<<x, y, z>>, u) = <<x, y, z, u>>
  <2>1. <<x, y, z>> \in Seq(Byte) /\ <<x, y, z, u>> \in Seq(Byte) OBVIOUS
  <2>2. PICK s \in Seq(Byte) : s = <<x, y, z>> BY <2>1
  <2>3. PICK t \in Seq(Byte) : t = <<x, y, z, u>> BY <2>1
  <2>4. Len(s) = 3 /\ s[1] = x /\ s[2] = y /\ s[3] = z BY <2>2
  <2>5. Len(t) = 4 /\ t[1] = x /\ t[2] = y /\ t[3] = z /\ t[4] = u BY <2>3
  <2>6. \A i \in 1 .. 3 : i = 1 \/ i = 2 \/ i = 3 OBVIOUS
  <2>7. \A i \in 1 .. Len(s) : t[i] = s[i] BY <2>4, <2>5, <2>6
  <2>8. t[Len(s) + 1] = u /\ Len(t) = Len(s) + 1 BY <2>4, <2>5
  <2>9. Append(s, u) = t BY <2>7, <2>8, AppendsAre
  <2>10. QED BY <2>2, <2>3, <2>5, <2>9
<1>5. QED BY <1>1, <1>2, <1>3, <1>4

\* Every byte of a frame but the last is kept, the last completes the key.
LEMMA FrameLeads ==
    ASSUME NEW w \in Seq(Byte), NEW a, NEW b \in Knowledge, b.buf = <<>>, Leads(w, a, b)
    PROVE  /\ \A c \in Byte \ Openers : Leads(w \o <<c>>, a, Done(b, "make", D!Normal(c)))
           /\ \A c \in Byte : Leads(w \o <<"F0", c>>, a, Done(b, "break", D!Normal(c)))
           /\ \A c \in Byte \ {"12", "F0"} : Leads(w \o <<"E0", c>>, a, Done(b, "make", D!Ext(c)))
           /\ \A c \in Byte : Leads(w \o <<"E0", "12", "E0", c>>, a, Done(b, "make", D!Ext(c)))
           /\ \A c \in Byte \ {"12"} : Leads(w \o <<"E0", "F0", c>>, a, Done(b, "break", D!Ext(c)))
           /\ Leads(w \o <<"E0", "F0", "12">>, a, Done(b, "nothing", "none"))
           /\ Leads(w \o D!PauseBytes, a, Done(b, "make", "PAUSE"))
<1>1. /\ "E0" \in Byte /\ "E1" \in Byte /\ "F0" \in Byte /\ "12" \in Byte
      /\ "14" \in Byte /\ "77" \in Byte /\ "E0" \in Openers /\ "E1" \in Openers /\ "F0" \in Openers
  BY DEF Byte, Codes, Openers
<1>2. <<>> \in Seq(Byte) /\ Len(<<>>) = 0 /\ w \o <<>> = w /\ With(b, <<>>) = b
  BY WithIs, ConcatEmptySeq, EmptySeq
<1>3. \A c \in Openers : c \in Byte BY <1>1 DEF Openers
<1>4. ASSUME NEW c \in Openers PROVE Leads(w \o <<c>>, a, With(b, <<c>>))
  <2>1. c \in Byte /\ Append(<<>>, c) = <<c>> BY <1>3, Tuples
  <2>2. D!Decode(<<c>>) = D!Decoded("nothing", "none", 0) BY DecodesTo
  <2>3. QED BY <1>2, <2>1, <2>2, ReadsOn
<1>5. ASSUME NEW c \in {"12", "F0"} PROVE Leads(w \o <<"E0", c>>, a, With(b, <<"E0", c>>))
  <2>1. c \in Byte /\ <<"E0">> \in Seq(Byte) /\ Append(<<"E0">>, c) = <<"E0", c>> BY <1>1, Tuples
  <2>2. D!Decode(<<"E0", c>>) = D!Decoded("nothing", "none", 0) BY DecodesTo
  <2>3. Leads(w \o <<"E0">>, a, With(b, <<"E0">>)) BY <1>1, <1>4
  <2>4. QED BY <2>1, <2>2, <2>3, ReadsOn
<1>6. ASSUME NEW c \in Byte \ Openers PROVE Leads(w \o <<c>>, a, Done(b, "make", D!Normal(c)))
  <2>1. Append(<<>>, c) = <<c>> /\ Len(<<>>) + 1 = 1 BY Tuples
  <2>2. D!Decode(<<c>>) = D!Decoded("make", D!Normal(c), 1) BY DecodesTo
  <2>3. D!Decode(Append(<<>>, c)) = D!Decoded("make", D!Normal(c), Len(<<>>) + 1) BY <2>1, <2>2
  <2>4. QED BY <1>2, <2>1, <2>3, ReadsOn
<1>7. ASSUME NEW c \in Byte PROVE Leads(w \o <<"F0", c>>, a, Done(b, "break", D!Normal(c)))
  <2>1. PICK q \in Seq(Byte) : q = <<"F0">> /\ Len(q) = 1 /\ Append(q, c) = <<"F0", c>>
    BY <1>1, Tuples
  <2>2. D!Decode(<<"F0", c>>) = D!Decoded("break", D!Normal(c), 2) BY DecodesTo
  <2>3. D!Decode(Append(q, c)) = D!Decoded("break", D!Normal(c), Len(q) + 1)
    <3>1. Len(q) + 1 = 2 BY <2>1
    <3>2. QED BY <2>1, <2>2, <3>1, Zenon
  <2>4. Leads(w \o q, a, With(b, q)) BY <1>1, <1>4, <2>1
  <2>5. QED BY <2>1, <2>3, <2>4, ReadsOn
<1>8. ASSUME NEW c \in Byte \ {"12", "F0"}
      PROVE  Leads(w \o <<"E0", c>>, a, Done(b, "make", D!Ext(c)))
  <2>1. PICK q \in Seq(Byte) : q = <<"E0">> /\ Len(q) = 1 /\ Append(q, c) = <<"E0", c>>
    BY <1>1, Tuples
  <2>2. D!Decode(<<"E0", c>>) = D!Decoded("make", D!Ext(c), 2) BY DecodesTo
  <2>3. D!Decode(Append(q, c)) = D!Decoded("make", D!Ext(c), Len(q) + 1)
    <3>1. Len(q) + 1 = 2 BY <2>1
    <3>2. QED BY <2>1, <2>2, <3>1, Zenon
  <2>4. Leads(w \o q, a, With(b, q)) BY <1>1, <1>4, <2>1
  <2>5. QED BY <2>1, <2>3, <2>4, ReadsOn
<1>9. ASSUME NEW c \in Byte PROVE Leads(w \o <<"E0", "12", "E0", c>>, a, Done(b, "make", D!Ext(c)))
  <2>1. <<"E0", "12">> \in Seq(Byte) /\ Append(<<"E0", "12">>, "E0") = <<"E0", "12", "E0">>
    BY <1>1, Tuples
  <2>2. PICK q \in Seq(Byte) : q = <<"E0", "12">> /\ Append(q, "E0") = <<"E0", "12", "E0">>
    BY <2>1
  <2>3. Leads(w \o q, a, With(b, q)) BY <1>5, <2>2
  <2>4. D!Decode(Append(q, "E0")) = D!Decoded("nothing", "none", 0) BY <2>2, DecodesTo
  <2>5. Leads(w \o Append(q, "E0"), a, With(b, Append(q, "E0"))) BY <1>1, <2>3, <2>4, ReadsOn
  <2>6. /\ <<"E0", "12", "E0">> \in Seq(Byte) /\ Len(<<"E0", "12", "E0">>) = 3
        /\ Append(<<"E0", "12", "E0">>, c) = <<"E0", "12", "E0", c>>
    BY <1>1, Tuples
  <2>7. PICK p \in Seq(Byte) : /\ p = Append(q, "E0") /\ Len(p) = 3
                               /\ Append(p, c) = <<"E0", "12", "E0", c>>
    BY <2>2, <2>6
  <2>8. D!Decode(Append(p, c)) = D!Decoded("make", D!Ext(c), Len(p) + 1)
    <3>1. D!Decode(<<"E0", "12", "E0", c>>) = D!Decoded("make", D!Ext(c), 4) BY DecodesTo
    <3>2. Len(p) + 1 = 4 BY <2>7
    <3>3. QED BY <2>7, <3>1, <3>2, Zenon
  <2>9. QED BY <2>5, <2>7, <2>8, ReadsOn
<1>10. ASSUME NEW c \in Byte
       PROVE  /\ c # "12" => Leads(w \o <<"E0", "F0", c>>, a, Done(b, "break", D!Ext(c)))
              /\ c = "12" => Leads(w \o <<"E0", "F0", c>>, a, Done(b, "nothing", "none"))
  <2>1. /\ <<"E0", "F0">> \in Seq(Byte) /\ Len(<<"E0", "F0">>) = 2
        /\ Append(<<"E0", "F0">>, c) = <<"E0", "F0", c>>
    BY <1>1, Tuples
  <2>2. PICK q \in Seq(Byte) : q = <<"E0", "F0">> /\ Len(q) = 2 /\ Append(q, c) = <<"E0", "F0", c>>
    BY <2>1
  <2>3. Leads(w \o q, a, With(b, q)) BY <1>5, <2>2
  <2>4. c # "12" => D!Decode(Append(q, c)) = D!Decoded("break", D!Ext(c), Len(q) + 1)
    <3>1. c # "12" => D!Decode(<<"E0", "F0", c>>) = D!Decoded("break", D!Ext(c), 3) BY DecodesTo
    <3>2. Len(q) + 1 = 3 BY <2>2
    <3>3. QED BY <2>2, <3>1, <3>2, Zenon
  <2>5. c = "12" => D!Decode(Append(q, c)) = D!Decoded("nothing", "none", Len(q) + 1)
    <3>1. c = "12" => D!Decode(<<"E0", "F0", c>>) = D!Decoded("nothing", "none", 3) BY DecodesTo
    <3>2. Len(q) + 1 = 3 BY <2>2
    <3>3. QED BY <2>2, <3>1, <3>2, Zenon
  <2>6. QED BY <2>2, <2>3, <2>4, <2>5, ReadsOn
<1>11. Leads(w \o D!PauseBytes, a, Done(b, "make", "PAUSE"))
  <2> DEFINE Early(q) == q \in Seq(Byte) /\ Len(q) > 0 /\ q[1] = "E1" /\ Leads(w \o q, a, With(b, q))
  <2>1. ASSUME NEW q, NEW c \in Byte, Early(q), Len(q) < 7
        PROVE  Early(Append(q, c)) /\ Len(Append(q, c)) = Len(q) + 1
    <3>1. Append(q, c) \in Seq(Byte) /\ Len(Append(q, c)) = Len(q) + 1 /\ Append(q, c)[1] = "E1"
      BY <2>1, AppendProperties
    <3>2. Len(q) \in Nat BY <2>1
    <3>3. \A q2 \in Seq(Byte) : Len(q2) < 8 /\ Len(q2) > 0 /\ q2[1] = "E1" =>
             D!Decode(q2) = D!Decoded("nothing", "none", 0)
      BY DecodesTo
    <3>4. Len(Append(q, c)) < 8 /\ Len(Append(q, c)) > 0 BY <2>1, <3>1, <3>2
    <3>5. D!Decode(Append(q, c)) = D!Decoded("nothing", "none", 0) BY <3>1, <3>3, <3>4
    <3>6. Leads(w \o Append(q, c), a, With(b, Append(q, c))) BY <2>1, <3>5, ReadsOn
    <3>7. QED BY <3>1, <3>2, <3>6
  <2>2. PICK f : f = [n \in 1 .. 8 |-> SubSeq(D!PauseBytes, 1, n)] OBVIOUS
  <2>3. D!PauseBytes \in Seq(Byte) BY <1>1 DEF D!PauseBytes
  <2>4. PICK s \in Seq(Byte) : s = D!PauseBytes BY <2>3
  <2>5. Len(s) = 8 /\ s[1] = "E1" BY <2>4 DEF D!PauseBytes
  <2>6. ASSUME NEW n \in 1 .. 8
        PROVE  /\ f[n] \in Seq(Byte) /\ Len(f[n]) = n /\ \A i \in 1 .. n : f[n][i] = s[i]
    <3>1. f[n] = SubSeq(s, 1, n) BY <2>2, <2>4
    <3>2. n \in Int /\ n - 1 + 1 = n /\ 1 <= n /\ \A i \in 1 .. n : 1 + i - 1 = i /\ i \in 1 .. Len(s)
      BY <2>5
    <3>3. PICK u : u = SubSeq(s, 1, n) OBVIOUS
    <3>4. u \in Seq(Byte) /\ Len(u) = n /\ \A i \in 1 .. n : u[i] = s[i]
      <4>1. \A i \in 1 .. n : s[i] \in Byte BY <3>2, ElementOfSeq
      <4>2. QED BY <3>2, <3>3, <4>1, SubSeqProperties
    <3>5. QED BY <3>1, <3>3, <3>4
  <2>7. ASSUME NEW n \in 1 .. 7 PROVE Append(f[n], s[n + 1]) = f[n + 1]
    <3>1. n \in 1 .. 8 /\ n + 1 \in 1 .. 8 /\ n + 1 \in 1 .. (n + 1)
          /\ (\A i \in 1 .. n : i \in 1 .. (n + 1))
      OBVIOUS
    <3>2. s[n + 1] \in Byte
      <4>1. n + 1 \in 1 .. Len(s) BY <2>5, <3>1
      <4>2. QED BY <4>1, ElementOfSeq
    <3>3. /\ Len(f[n + 1]) = Len(f[n]) + 1 /\ \A i \in 1 .. Len(f[n]) : f[n + 1][i] = f[n][i]
          /\ f[n + 1][Len(f[n]) + 1] = s[n + 1]
      <4>1. Len(f[n]) = n /\ Len(f[n + 1]) = n + 1 BY <2>6, <3>1
      <4>2. \A i \in 1 .. (n + 1) : f[n + 1][i] = s[i] BY <2>6, <3>1
      <4>3. \A i \in 1 .. n : f[n][i] = s[i] BY <2>6, <3>1
      <4>4. QED BY <3>1, <4>1, <4>2, <4>3
    <3>4. f[n] \in Seq(Byte) /\ f[n + 1] \in Seq(Byte) BY <2>6, <3>1
    <3>5. QED BY <3>2, <3>3, <3>4, AppendsAre
  <2>8. f[1] = <<"E1">>
    <3>1. 1 \in 1 .. 8 /\ 1 \in 1 .. 1 OBVIOUS
    <3>2. f[1] \in Seq(Byte) /\ Len(f[1]) = 1 /\ f[1][1] = "E1" BY <2>5, <2>6, <3>1
    <3>3. PICK q \in Seq(Byte) : q = <<"E1">> /\ Len(q) = 1 /\ q[1] = "E1" BY <1>1, Tuples
    <3>4. \A i \in 1 .. Len(f[1]) : f[1][i] = q[i] BY <3>2, <3>3
    <3>5. f[1] = q BY <3>2, <3>3, <3>4, SeqEqual
    <3>6. QED BY <3>3, <3>5
  <2>9. Early(f[1])
    <3>1. 1 \in 1 .. 8 /\ 1 \in 1 .. 1 /\ 1 > 0 OBVIOUS
    <3>2. f[1] \in Seq(Byte) /\ Len(f[1]) > 0 /\ f[1][1] = "E1" BY <2>5, <2>6, <3>1
    <3>3. Leads(w \o f[1], a, With(b, f[1])) BY <1>1, <1>4, <2>8
    <3>4. QED BY <3>2, <3>3
  <2> HIDE DEF Early
  <2>10. ASSUME NEW n \in 1 .. 6, Early(f[n]) PROVE Early(f[n + 1])
    <3>1. n \in 1 .. 7 /\ n \in 1 .. 8 /\ n + 1 \in 1 .. 8 /\ n < 7 OBVIOUS
    <3>2. s[n + 1] \in Byte /\ Len(f[n]) < 7
      <4>1. n + 1 \in 1 .. Len(s) BY <2>5, <3>1
      <4>2. Len(f[n]) = n BY <2>6, <3>1
      <4>3. QED BY <3>1, <4>1, <4>2, ElementOfSeq
    <3>3. QED BY <2>1, <2>7, <2>10, <3>1, <3>2
  <2>11. Early(f[2]) BY <2>9, <2>10
  <2>12. Early(f[3]) BY <2>10, <2>11
  <2>13. Early(f[4]) BY <2>10, <2>12
  <2>14. Early(f[5]) BY <2>10, <2>13
  <2>15. Early(f[6]) BY <2>10, <2>14
  <2>16. Early(f[7]) BY <2>10, <2>15
  <2>17. f[8] = s
    <3>1. f[8] = SubSeq(s, 1, 8) BY <2>2, <2>4
    <3>2. QED BY <2>5, <3>1, SubSeqFull
  <2>18. Append(f[7], s[8]) = s /\ s[8] \in Byte /\ Len(f[7]) + 1 = 8 /\ f[7] \in Seq(Byte)
    <3>1. 7 \in 1 .. 7 /\ 7 \in 1 .. 8 /\ 8 \in 1 .. Len(s) /\ 7 + 1 = 8 BY <2>5
    <3>2. f[7] \in Seq(Byte) /\ Len(f[7]) = 7 BY <2>6, <3>1
    <3>3. Append(f[7], s[8]) = f[8] BY <2>7, <3>1
    <3>4. s[8] \in Byte BY <3>1, ElementOfSeq
    <3>5. QED BY <2>17, <3>1, <3>2, <3>3, <3>4
  <2>19. D!Decode(Append(f[7], s[8])) = D!Decoded("make", "PAUSE", Len(f[7]) + 1)
    <3>1. D!Decode(s) = D!Decoded("make", "PAUSE", 8) BY <2>4, DecodesTo
    <3>2. QED BY <2>18, <3>1, Zenon
  <2>20. Leads(w \o f[7], a, With(b, f[7])) BY <2>16 DEF Early
  <2>21. Leads(w \o Append(f[7], s[8]), a, Done(b, "make", "PAUSE"))
    BY <2>18, <2>19, <2>20, ReadsOn
  <2>22. QED BY <2>4, <2>18, <2>21
<1>12. QED BY <1>1, <1>6, <1>7, <1>8, <1>9, <1>10, <1>11

\* What a key leaves is knowledge with nothing half decoded.
LEMMA DoneIs ==
    ASSUME NEW b \in Knowledge, NEW what \in {"make", "break", "nothing"}, NEW key \in Decodable
    PROVE  /\ Done(b, what, key) \in Knowledge /\ Done(b, what, key).buf = <<>>
           /\ b.buf = <<>> => Done(b, "nothing", "none") = b
<1> DEFINE d == D!Decoded(what, key, 0)
           asc == D!keyboard_get_ascii(key, KeysAfter(b.keys, d), b.leds)
           txt == IF Made(d) /\ key \notin D!Locks /\ D!Visible(asc) THEN Append(b.text, asc)
                  ELSE b.text
           ls == IF Made(d) /\ key \in D!Locks /\ key \notin b.keys THEN D!SymDiff(b.leds, {key})
                 ELSE b.leds
<1>1. /\ b.buf \in Seq(Byte) /\ b.keys \subseteq Decodable /\ b.leds \subseteq D!Locks
      /\ b.text \in Seq(Chars) /\ b = [buf |-> b.buf, keys |-> b.keys, leds |-> b.leds, text |-> b.text]
  BY DEF Knowledge
<1>2. d.what = what /\ d.key = key BY DEF D!Decoded
<1>3. asc \in Chars BY AsciiIs
<1>4. txt \in Seq(Chars)
  <2> HIDE DEF asc
  <2>1. QED BY <1>1, <1>3, AppendProperties
<1>5. ls \subseteq D!Locks BY <1>1 DEF D!SymDiff
<1>6. KeysAfter(b.keys, d) \subseteq Decodable BY <1>1, <1>2 DEF KeysAfter
<1>7. Done(b, what, key) = [buf |-> <<>>, keys |-> KeysAfter(b.keys, d), leds |-> ls, text |-> txt]
  <2>1. Acts(b, d, <<>>) = [buf |-> D!MoveUp(<<>>, d.adjust), keys |-> KeysAfter(b.keys, d), leds |-> ls,
                            text |-> txt]
    BY <1>2, Zenon DEF Acts
  <2> HIDE DEF ls, txt
  <2>2. QED BY <2>1 DEF Done
<1> HIDE DEF ls, txt
<1>8. Done(b, what, key) \in Knowledge /\ Done(b, what, key).buf = <<>>
  BY <1>4, <1>5, <1>6, <1>7, EmptySeq DEF Knowledge
<1>9. ASSUME b.buf = <<>> PROVE Done(b, "nothing", "none") = b
  <2>1. Acts(b, D!Decoded("nothing", "none", 0), <<>>)
          = [buf |-> D!MoveUp(<<>>, 0), keys |-> b.keys, leds |-> b.leds, text |-> b.text]
    BY DEF Acts, D!Decoded, Made, KeysAfter
  <2>2. QED BY <1>1, <1>9, <2>1 DEF Done
<1>10. QED BY <1>8, <1>9

\* Coding a key and decoding it gives the key.
LEMMA CodesAre ==
    /\ \A k \in D!Plain : D!Code(k) \in Codes \ Openers /\ D!Normal(D!Code(k)) = k
    /\ \A k \in D!Extended \cup {"PRTSCR"} :
          D!Code(k) \in Codes \ Openers /\ D!Code(k) \notin {"12", "F0"} /\ D!Ext(D!Code(k)) = k
    /\ Codes \subseteq Byte /\ Codes \cap Answers = {}
    /\ "E0" \in Codes /\ "E1" \in Codes /\ "F0" \in Codes /\ "12" \in Codes /\ "14" \in Codes
    /\ "77" \in Codes
BY DEF D!Code, Codes, Openers, D!Normal, D!Ext, D!Plain, D!Extended, D!Letter, D!Locks, Byte,
   Answers

\* The two parts of a padded code.
LEMMA ConcatsAre ==
    /\ \A x, y, z, u, v \in Byte : <<x, y, z>> \o <<u, v>> = <<x, y, z, u, v>>
    /\ \A x, y, z, u, v, c \in Byte : <<x, y, z>> \o <<u, v, c>> = <<x, y, z, u, v, c>>
<1>1. ASSUME NEW x \in Byte, NEW y \in Byte, NEW z \in Byte, NEW u \in Byte, NEW v \in Byte
      PROVE  <<x, y, z>> \o <<u, v>> = <<x, y, z, u, v>>
  <2>1. PICK p \in Seq(Byte) : p = <<x, y, z>>
    <3>1. <<x, y, z>> \in Seq(Byte) OBVIOUS
    <3>2. QED BY <3>1
  <2>2. PICK q \in Seq(Byte) : q = <<u, v>>
    <3>1. <<u, v>> \in Seq(Byte) OBVIOUS
    <3>2. QED BY <3>1
  <2>3. PICK t : t = <<x, y, z, u, v>> OBVIOUS
  <2>4. /\ t \in Seq(Byte) /\ Len(t) = 5 /\ t[1] = x /\ t[2] = y /\ t[3] = z /\ t[4] = u /\ t[5] = v
    BY <2>3
  <2>5. PICK s : s = p \o q OBVIOUS
  <2>6. Len(p) = 3 /\ p[1] = x /\ p[2] = y /\ p[3] = z BY <2>1
  <2>7. Len(q) = 2 /\ q[1] = u /\ q[2] = v BY <2>2
  <2>8. /\ s \in Seq(Byte) /\ Len(s) = 5
        /\ \A i \in 1 .. 5 : s[i] = IF i <= 3 THEN p[i] ELSE q[i - 3]
    <3>1. s \in Seq(Byte) /\ Len(s) = Len(p) + Len(q) BY <2>5, ConcatProperties
    <3>2. \A i \in 1 .. (Len(p) + Len(q)) : s[i] = IF i <= Len(p) THEN p[i] ELSE q[i - Len(p)]
      BY <2>5, ConcatProperties
    <3>3. Len(p) + Len(q) = 5 BY <2>6, <2>7
    <3>4. QED BY <2>6, <3>1, <3>2, <3>3
  <2>9. s[1] = x /\ s[2] = y /\ s[3] = z /\ s[4] = u /\ s[5] = v BY <2>8, <2>6, <2>7
  <2>10. \A i \in 1 .. 5 : i = 1 \/ i = 2 \/ i = 3 \/ i = 4 \/ i = 5 OBVIOUS
  <2>11. \A i \in 1 .. Len(s) : s[i] = t[i] BY <2>4, <2>8, <2>9, <2>10
  <2>12. s = t BY <2>4, <2>8, <2>11, SeqEqual
  <2>13. QED BY <2>1, <2>2, <2>3, <2>5, <2>12
<1>2. ASSUME NEW x \in Byte, NEW y \in Byte, NEW z \in Byte,
             NEW u \in Byte, NEW v \in Byte, NEW c \in Byte
      PROVE  <<x, y, z>> \o <<u, v, c>> = <<x, y, z, u, v, c>>
  <2>1. PICK p \in Seq(Byte) : p = <<x, y, z>>
    <3>1. <<x, y, z>> \in Seq(Byte) OBVIOUS
    <3>2. QED BY <3>1
  <2>2. PICK q \in Seq(Byte) : q = <<u, v, c>>
    <3>1. <<u, v, c>> \in Seq(Byte) OBVIOUS
    <3>2. QED BY <3>1
  <2>3. PICK t : t = <<x, y, z, u, v, c>> OBVIOUS
  <2>4. /\ t \in Seq(Byte) /\ Len(t) = 6
        /\ t[1] = x /\ t[2] = y /\ t[3] = z /\ t[4] = u /\ t[5] = v /\ t[6] = c
    BY <2>3
  <2>5. PICK s : s = p \o q OBVIOUS
  <2>6. Len(p) = 3 /\ p[1] = x /\ p[2] = y /\ p[3] = z BY <2>1
  <2>7. Len(q) = 3 /\ q[1] = u /\ q[2] = v /\ q[3] = c BY <2>2
  <2>8. /\ s \in Seq(Byte) /\ Len(s) = 6
        /\ \A i \in 1 .. 6 : s[i] = IF i <= 3 THEN p[i] ELSE q[i - 3]
    <3>1. s \in Seq(Byte) /\ Len(s) = Len(p) + Len(q) BY <2>5, ConcatProperties
    <3>2. \A i \in 1 .. (Len(p) + Len(q)) : s[i] = IF i <= Len(p) THEN p[i] ELSE q[i - Len(p)]
      BY <2>5, ConcatProperties
    <3>3. Len(p) + Len(q) = 6 BY <2>6, <2>7
    <3>4. QED BY <2>6, <3>1, <3>2, <3>3
  <2>9. s[1] = x /\ s[2] = y /\ s[3] = z /\ s[4] = u /\ s[5] = v /\ s[6] = c BY <2>8, <2>6, <2>7
  <2>10. \A i \in 1 .. 6 : i = 1 \/ i = 2 \/ i = 3 \/ i = 4 \/ i = 5 \/ i = 6 OBVIOUS
  <2>11. \A i \in 1 .. Len(s) : s[i] = t[i] BY <2>4, <2>8, <2>9, <2>10
  <2>12. s = t BY <2>4, <2>8, <2>11, SeqEqual
  <2>13. QED BY <2>1, <2>2, <2>3, <2>5, <2>12
<1>3. QED BY <1>1, <1>2

\* The bytes of a key pressed lead to the driver having pressed it.
LEMMA MakeLeads ==
    ASSUME NEW k \in D!AllKeys, NEW w \in Seq(Byte), NEW a, NEW b \in Knowledge, b.buf = <<>>,
           Leads(w, a, b)
    PROVE  Leads(w \o D!Make(k), a, Done(b, "make", k))
<1>1. \/ k \in D!Plain /\ D!Make(k) = <<D!Code(k)>>
      \/ k = "PAUSE" /\ D!Make(k) = D!PauseBytes
      \/ k \in D!Extended \cup {"PRTSCR"} /\ D!Make(k) = <<"E0", "12", "E0", D!Code(k)>>
      \/ k = "RIGHT" /\ D!Make(k) = <<"E0", "F0", "12", "E0", D!Code(k)>>
      \/ k \in D!Extended \cup {"PRTSCR"} /\ D!Make(k) = <<"E0", D!Code(k)>>
  <2>1. CASE k \in D!Plain BY <2>1 DEF D!Make, D!Plain, D!Letter, D!Locks, D!Padded
  <2>2. CASE k = "PAUSE" BY <2>2 DEF D!Make, D!Plain, D!Letter, D!Locks, D!Padded
  <2>3. CASE k = "RIGHT" BY <2>3 DEF D!Make, D!Plain, D!Letter, D!Locks, D!Extended
  <2>4. CASE k \in {"RALT", "PRTSCR"} BY <2>4 DEF D!Make, D!Plain, D!Letter, D!Locks, D!Extended
  <2>5. QED BY <2>1, <2>2, <2>3, <2>4 DEF D!AllKeys, D!Extended
<1>2. CASE k \in D!Plain /\ D!Make(k) = <<D!Code(k)>> BY <1>2, CodesAre, FrameLeads
<1>3. CASE k = "PAUSE" /\ D!Make(k) = D!PauseBytes BY <1>3, FrameLeads
<1>4. CASE k \in D!Extended \cup {"PRTSCR"} /\ D!Make(k) = <<"E0", "12", "E0", D!Code(k)>>
  BY <1>4, CodesAre, FrameLeads
<1>5. CASE k = "RIGHT" /\ D!Make(k) = <<"E0", "F0", "12", "E0", D!Code(k)>>
  <2>1. PICK v : v = w \o <<"E0", "F0", "12">> OBVIOUS
  <2>2. k \in D!Extended BY <1>5 DEF D!Extended
  <2>3. <<"E0", "F0", "12">> \in Seq(Byte) /\ <<"E0", D!Code(k)>> \in Seq(Byte) BY <2>2, CodesAre
  <2>4. v \in Seq(Byte) BY <2>1, <2>3, ConcatProperties
  <2>5. "nothing" \in {"make", "break", "nothing"} /\ "none" \in Decodable BY DEF Decodable
  <2>6. Leads(v, a, b)
    <3>1. Leads(v, a, Done(b, "nothing", "none")) BY <2>1, FrameLeads
    <3>2. Done(b, "nothing", "none") = b BY <2>5, DoneIs
    <3>3. QED BY <3>1, <3>2
  <2>7. Leads(v \o <<"E0", D!Code(k)>>, a, Done(b, "make", k))
    BY <2>2, <2>4, <2>6, CodesAre, FrameLeads
  <2>8. v \o <<"E0", D!Code(k)>> = w \o (<<"E0", "F0", "12">> \o <<"E0", D!Code(k)>>)
    BY <2>1, <2>3, ConcatAssociative
  <2>9. <<"E0", "F0", "12">> \o <<"E0", D!Code(k)>> = <<"E0", "F0", "12", "E0", D!Code(k)>>
    <3>1. D!Code(k) \in Byte BY <2>2, CodesAre
    <3>2. QED BY <3>1, CodesAre, ConcatsAre
  <2>10. QED BY <1>5, <2>7, <2>8, <2>9
<1>6. CASE k \in D!Extended \cup {"PRTSCR"} /\ D!Make(k) = <<"E0", D!Code(k)>>
  BY <1>6, CodesAre, FrameLeads
<1>7. QED BY <1>1, <1>2, <1>3, <1>4, <1>5, <1>6

\* The bytes of a key released lead to the driver having released it.
LEMMA BreakLeads ==
    ASSUME NEW k \in D!AllKeys, ~(k = "RIGHT" /\ D!Shifted), NEW w \in Seq(Byte), NEW a,
           NEW b \in Knowledge, b.buf = <<>>, Leads(w, a, b)
    PROVE  Leads(w \o D!Break(k), a, IF k = "PAUSE" THEN b ELSE Done(b, "break", k))
<1>1. \/ k \in D!Plain /\ D!Break(k) = <<"F0", D!Code(k)>>
      \/ k = "PAUSE" /\ D!Break(k) = <<>>
      \/ k \in D!Extended \cup {"PRTSCR"} /\ D!Break(k) = <<"E0", "F0", D!Code(k), "E0", "F0", "12">>
      \/ k \in D!Extended \cup {"PRTSCR"} /\ D!Break(k) = <<"E0", "F0", D!Code(k)>>
  <2>1. CASE k \in D!Plain BY <2>1 DEF D!Break, D!Plain, D!Letter, D!Locks, D!Padded
  <2>2. CASE k = "PAUSE" BY <2>2 DEF D!Break, D!Plain, D!Letter, D!Locks, D!Padded
  <2>3. CASE k = "RIGHT" BY <2>3 DEF D!Break, D!Plain, D!Letter, D!Locks, D!Extended
  <2>4. CASE k \in {"RALT", "PRTSCR"} BY <2>4 DEF D!Break, D!Plain, D!Letter, D!Locks, D!Extended
  <2>5. QED BY <2>1, <2>2, <2>3, <2>4 DEF D!AllKeys, D!Extended
<1>2. CASE k \in D!Plain /\ D!Break(k) = <<"F0", D!Code(k)>>
  <2>1. k # "PAUSE" BY <1>2 DEF D!Plain, D!Letter, D!Locks
  <2>2. QED BY <1>2, <2>1, CodesAre, FrameLeads
<1>3. CASE k = "PAUSE" /\ D!Break(k) = <<>> BY <1>3, ConcatEmptySeq
<1>4. CASE k \in D!Extended \cup {"PRTSCR"} /\ D!Break(k) = <<"E0", "F0", D!Code(k), "E0", "F0", "12">>
  <2>1. PICK v : v = w \o <<"E0", "F0", D!Code(k)>> OBVIOUS
  <2>2. PICK e : e = Done(b, "break", k) OBVIOUS
  <2>3. <<"E0", "F0", "12">> \in Seq(Byte) /\ <<"E0", "F0", D!Code(k)>> \in Seq(Byte)
    BY <1>4, CodesAre
  <2>4. v \in Seq(Byte) BY <2>1, <2>3, ConcatProperties
  <2>5. /\ "nothing" \in {"make", "break", "nothing"} /\ "none" \in Decodable /\ k \in Decodable
        /\ "break" \in {"make", "break", "nothing"} /\ k # "PAUSE"
    BY <1>4 DEF Decodable, D!Extended
  <2>6. e \in Knowledge /\ e.buf = <<>> BY <2>2, <2>5, DoneIs
  <2>7. Leads(v, a, e) BY <1>4, <2>1, <2>2, CodesAre, FrameLeads
  <2>8. Leads(v \o <<"E0", "F0", "12">>, a, e)
    <3>1. Leads(v \o <<"E0", "F0", "12">>, a, Done(e, "nothing", "none"))
      BY <2>4, <2>6, <2>7, FrameLeads
    <3>2. Done(e, "nothing", "none") = e BY <2>5, <2>6, DoneIs
    <3>3. QED BY <3>1, <3>2
  <2>9. v \o <<"E0", "F0", "12">> = w \o (<<"E0", "F0", D!Code(k)>> \o <<"E0", "F0", "12">>)
    BY <2>1, <2>3, ConcatAssociative
  <2>10. <<"E0", "F0", D!Code(k)>> \o <<"E0", "F0", "12">> = <<"E0", "F0", D!Code(k), "E0", "F0", "12">>
    <3>1. D!Code(k) \in Byte BY <1>4, CodesAre
    <3>2. QED BY <3>1, CodesAre, ConcatsAre
  <2>11. QED BY <1>4, <2>2, <2>5, <2>8, <2>9, <2>10
<1>5. CASE k \in D!Extended \cup {"PRTSCR"} /\ D!Break(k) = <<"E0", "F0", D!Code(k)>>
  <2>1. k # "PAUSE" BY <1>5 DEF D!Extended
  <2>2. QED BY <1>5, <2>1, CodesAre, FrameLeads
<1>6. QED BY <1>1, <1>2, <1>3, <1>4, <1>5
-----------------------------------------------------------------------------
\* No key sends an answer.
LEMMA FramesAre == \A k \in D!AllKeys : D!Make(k) \in Seq(Codes) /\ D!Break(k) \in Seq(Codes)
<1> SUFFICES ASSUME NEW k \in D!AllKeys PROVE D!Make(k) \in Seq(Codes) /\ D!Break(k) \in Seq(Codes)
  OBVIOUS
<1>1. D!PauseBytes \in Seq(Codes) /\ <<>> \in Seq(Codes)
  <2>1. D!PauseBytes \in Seq(Codes) BY CodesAre DEF D!PauseBytes
  <2>2. QED BY <2>1, EmptySeq
<1>2. CASE k \in D!Plain
  <2>1. D!Make(k) = <<D!Code(k)>> /\ D!Break(k) = <<"F0", D!Code(k)>>
    BY <1>2 DEF D!Make, D!Break, D!Plain, D!Letter, D!Locks, D!Padded
  <2>2. D!Code(k) \in Codes /\ "F0" \in Codes BY <1>2, CodesAre
  <2>3. QED BY <2>1, <2>2
<1>3. CASE k = "PAUSE"
  <2>1. D!Make(k) = D!PauseBytes /\ D!Break(k) = <<>>
    BY <1>3 DEF D!Make, D!Break, D!Plain, D!Letter, D!Locks, D!Padded
  <2>2. QED BY <1>1, <2>1
<1>4. CASE k \in D!Extended \cup {"PRTSCR"}
  <2>1. PICK c \in Codes : c = D!Code(k) BY <1>4, CodesAre
  <2>2. k \notin D!Plain /\ k # "PAUSE" BY <1>4 DEF D!Plain, D!Letter, D!Locks, D!Extended
  <2>3. \/ D!Make(k) = <<"E0", "12", "E0", c>> \/ D!Make(k) = <<"E0", "F0", "12", "E0", c>>
        \/ D!Make(k) = <<"E0", c>>
    BY <2>1, <2>2 DEF D!Make
  <2>4. \/ D!Break(k) = <<"E0", "F0", c, "E0", "F0", "12">> \/ D!Break(k) = <<"E0", "F0", c, "E0", "12">>
        \/ D!Break(k) = <<"E0", "F0", c>>
    BY <2>1, <2>2 DEF D!Break
  <2>5. /\ <<"E0", "12", "E0", c>> \in Seq(Codes) /\ <<"E0", "F0", "12", "E0", c>> \in Seq(Codes)
        /\ <<"E0", c>> \in Seq(Codes)
    BY CodesAre
  <2>6. /\ <<"E0", "F0", c, "E0", "F0", "12">> \in Seq(Codes)
        /\ <<"E0", "F0", c, "E0", "12">> \in Seq(Codes) /\ <<"E0", "F0", c>> \in Seq(Codes)
    BY CodesAre
  <2>7. QED BY <2>3, <2>4, <2>5, <2>6
<1>5. QED BY <1>2, <1>3, <1>4 DEF D!AllKeys

\* What is on the wire when a frame follows.
LEMMA MoreWire ==
    ASSUME NEW w \in Seq(Byte), NEW m \in Seq(Codes)
    PROVE  /\ w \o m \in Seq(Byte)
           /\ \A i \in 1 .. Len(w) : i \in 1 .. Len(w \o m) /\ (w \o m)[i] = w[i]
           /\ \A i \in 1 .. Len(w \o m) : i \in 1 .. Len(w) \/ (w \o m)[i] \in Codes
           /\ w # <<>> => 1 \in 1 .. Len(w) /\ Tail(w \o m) = Tail(w) \o m
<1>1. PICK mm \in Seq(Byte) : mm = m
  <2>1. Codes \subseteq Byte BY CodesAre
  <2>2. m \in Seq(Byte)
    <3>1. Len(m) \in Nat /\ \A i \in 1 .. Len(m) : m[i] \in Codes BY ElementOfSeq
    <3>2. QED BY <2>1, <3>1
  <2>3. QED BY <2>2
<1>2. PICK v : v = w \o m OBVIOUS
<1>3. /\ Len(w) \in Nat /\ Len(m) \in Nat /\ v \in Seq(Byte) /\ Len(v) = Len(w) + Len(m)
      /\ \A i \in 1 .. (Len(w) + Len(m)) : v[i] = IF i <= Len(w) THEN w[i] ELSE m[i - Len(w)]
  BY <1>1, <1>2, ConcatProperties
<1>4. \A i \in 1 .. Len(w) : i \in 1 .. Len(v) /\ v[i] = w[i] BY <1>3
<1>5. ASSUME NEW i \in 1 .. Len(v), i \notin 1 .. Len(w) PROVE v[i] \in Codes
  <2>1. i - Len(w) \in 1 .. Len(m) /\ v[i] = m[i - Len(w)] BY <1>3, <1>5
  <2>2. QED BY <2>1, ElementOfSeq
<1>6. ASSUME w # <<>> PROVE 1 \in 1 .. Len(w) /\ Tail(v) = Tail(w) \o m
  <2>1. Len(w) >= 1 BY <1>3, <1>6, EmptySeq
  <2>2. v # <<>> BY <1>3, <2>1, EmptySeq
  <2>3. PICK tw : tw = Tail(w) OBVIOUS
  <2>4. PICK tv : tv = Tail(v) OBVIOUS
  <2>5. /\ tw \in Seq(Byte) /\ Len(tw) = Len(w) - 1 /\ \A i \in 1 .. Len(tw) : tw[i] = w[i + 1]
    BY <1>6, <2>3, HeadTailProperties
  <2>6. /\ tv \in Seq(Byte) /\ Len(tv) = Len(v) - 1 /\ \A i \in 1 .. Len(tv) : tv[i] = v[i + 1]
    BY <1>3, <2>2, <2>4, HeadTailProperties
  <2>7. PICK u : u = tw \o mm OBVIOUS
  <2>8. /\ u \in Seq(Byte) /\ Len(u) = Len(tw) + Len(m)
        /\ \A i \in 1 .. (Len(tw) + Len(m)) : u[i] = IF i <= Len(tw) THEN tw[i] ELSE m[i - Len(tw)]
    BY <1>1, <2>5, <2>7, ConcatProperties
  <2>9. Len(u) = Len(tv) BY <1>3, <2>1, <2>5, <2>6, <2>8
  <2>10. ASSUME NEW i \in 1 .. Len(u) PROVE u[i] = tv[i]
    <3>1. i \in 1 .. Len(tv) /\ tv[i] = v[i + 1] /\ i + 1 \in 1 .. (Len(w) + Len(m))
      BY <1>3, <2>1, <2>5, <2>6, <2>8, <2>9
    <3>2. v[i + 1] = IF i + 1 <= Len(w) THEN w[i + 1] ELSE m[i + 1 - Len(w)] BY <1>3, <3>1
    <3>3. i \in 1 .. (Len(tw) + Len(m)) BY <2>8
    <3>4. CASE i <= Len(tw)
      <4>1. i \in 1 .. Len(tw) /\ i + 1 <= Len(w) BY <1>3, <2>1, <2>5, <3>3, <3>4
      <4>2. QED BY <2>5, <2>8, <3>1, <3>2, <3>3, <3>4, <4>1
    <3>5. CASE ~(i <= Len(tw))
      <4>1. ~(i + 1 <= Len(w)) /\ i + 1 - Len(w) = i - Len(tw) BY <1>3, <2>1, <2>5, <3>3, <3>5
      <4>2. QED BY <2>8, <3>1, <3>2, <3>3, <3>5, <4>1
    <3>6. QED BY <3>4, <3>5
  <2>11. u = tv BY <2>6, <2>8, <2>9, <2>10, SeqEqual
  <2>12. Tail(v) = Tail(w) \o m BY <1>1, <2>3, <2>4, <2>7, <2>11, Zenon
  <2>13. QED BY <1>3, <2>1, <2>12
<1>7. QED BY <1>2, <1>3, <1>4, <1>5, <1>6

\* The table gives the character that is meant, whatever was pressed of Pause.
LEMMA AsciiIsMeant ==
    ASSUME NEW k \in D!AllKeys \ D!Locks, NEW p, held \subseteq D!AllKeys,
           p \ {"PAUSE"} = (held \cup {k}) \ {"PAUSE"}
    PROVE  LET a == D!keyboard_get_ascii(k, p, locks)
           IN  D!Meant(k) = IF D!Visible(a) THEN <<a>> ELSE <<>>
<1> DEFINE shift == "LSHIFT" \in p
           ctrl == {"LCTRL", "RCTRL"} \cap p # {}
           alt == {"LALT", "RALT"} \cap p # {}
           caps == "CAPSLOCK" \in locks
<1>1. \A x : x # "PAUSE" => (x \in p <=> x \in held \/ x = k) BY Zenon
<1>2. "RCTRL" \notin D!AllKeys BY DEF D!AllKeys, D!Plain, D!Extended, D!Letter, D!Locks
<1>3. CASE k \in {D!Letter, "RIGHT"}
  <2>1. /\ shift <=> "LSHIFT" \in held
        /\ ctrl <=> "LCTRL" \in held
        /\ alt <=> {"LALT", "RALT"} \cap held # {}
    <3>1. /\ k # "LSHIFT" /\ k # "LCTRL" /\ k # "RCTRL" /\ k # "LALT" /\ k # "RALT"
      BY <1>3 DEF D!Letter
    <3>2. /\ "LSHIFT" \in p <=> "LSHIFT" \in held
          /\ "LCTRL" \in p <=> "LCTRL" \in held
          /\ "RCTRL" \notin p
          /\ "LALT" \in p <=> "LALT" \in held
          /\ "RALT" \in p <=> "RALT" \in held
      BY <1>1, <1>2, <3>1
    <3>3. QED BY <3>2
  <2> HIDE DEF shift, ctrl, alt, caps
  <2>2. CASE k = D!Letter
    <3>1. D!InTable(k, shift, "NUMLOCK" \in locks) = IF shift THEN "A" ELSE "a"
      BY <2>2 DEF D!InTable, D!Letter
    <3>2. D!keyboard_get_ascii(k, p, locks)
            = LET a == IF shift THEN "A" ELSE "a"
                  b == IF ctrl THEN D!WithCtrl(a) ELSE IF alt THEN D!WithAlt(a) ELSE a
              IN  IF caps THEN D!CapsSwap(b) ELSE b
      BY <3>1 DEF D!keyboard_get_ascii, shift, ctrl, alt, caps
    <3>3. D!keyboard_get_ascii(k, p, locks)
            = IF ctrl THEN "^A" ELSE IF alt THEN "M-a" ELSE IF shift # caps THEN "A" ELSE "a"
      BY <3>2 DEF D!WithCtrl, D!WithAlt, D!CapsSwap, shift, caps
    <3>4. D!Meant(k) = <<IF ctrl THEN "^A" ELSE IF alt THEN "M-a" ELSE IF shift # caps THEN "A" ELSE "a">>
      BY <2>1, <2>2 DEF D!Meant, D!Letter, shift, ctrl, alt, caps
    <3>5. QED BY <3>3, <3>4 DEF D!Visible
  <2>3. CASE k = "RIGHT"
    <3>1. D!InTable(k, shift, "NUMLOCK" \in locks) = "right" BY <2>3 DEF D!InTable, D!Letter
    <3>2. D!keyboard_get_ascii(k, p, locks)
            = LET b == IF ctrl THEN D!WithCtrl("right") ELSE IF alt THEN D!WithAlt("right") ELSE "right"
              IN  IF caps THEN D!CapsSwap(b) ELSE b
      BY <3>1 DEF D!keyboard_get_ascii, shift, ctrl, alt, caps
    <3>3. D!keyboard_get_ascii(k, p, locks) = IF ctrl THEN "^right" ELSE "right"
      BY <3>2 DEF D!WithCtrl, D!WithAlt, D!CapsSwap
    <3>4. D!Meant(k) = <<IF ctrl THEN "^right" ELSE "right">>
      BY <2>1, <2>3 DEF D!Meant, D!Letter, ctrl
    <3>5. QED BY <3>3, <3>4 DEF D!Visible
  <2>4. QED BY <1>3, <2>2, <2>3
<1>4. CASE k \notin {D!Letter, "RIGHT"}
  <2>1. D!Meant(k) = <<>> BY <1>4 DEF D!Meant
  <2>2. \A x, y : D!InTable(k, x, y) \in {"0", "past"}
    BY <1>4 DEF D!InTable, D!Letter, D!AllKeys, D!Plain, D!Extended, D!Locks
  <2>3. \A c \in {"0", "past"} : /\ D!WithCtrl(c) \in {"0", "past"} /\ D!WithAlt(c) \in {"0", "past"}
                                 /\ D!CapsSwap(c) \in {"0", "past"}
    BY DEF D!WithCtrl, D!WithAlt, D!CapsSwap
  <2>4. D!keyboard_get_ascii(k, p, locks) \in {"0", "past"} BY <2>2, <2>3 DEF D!keyboard_get_ascii
  <2>5. QED BY <2>1, <2>4 DEF D!Visible
<1>5. QED BY <1>3, <1>4
-----------------------------------------------------------------------------
\* A key means characters.
LEMMA MeantAre == \A k : D!Meant(k) \in Seq(Chars)
<1> SUFFICES ASSUME NEW k PROVE D!Meant(k) \in Seq(Chars) OBVIOUS
<1>1. \/ \E c \in Chars : D!Meant(k) = <<c>>
      \/ D!Meant(k) = <<>>
  BY DEF D!Meant, Chars
<1>2. \A c \in Chars : <<c>> \in Seq(Chars) OBVIOUS
<1>3. QED BY <1>1, <1>2, EmptySeq

\* What a movement means is what the driver makes of its bytes.
LEMMA MakeTells ==
    ASSUME NEW k \in D!AllKeys, NEW b, Agrees(b), held \subseteq D!AllKeys, meant \in Seq(Chars)
    PROVE  LET e == Done(b, "make", k)
           IN  /\ e \in Knowledge /\ e.buf = <<>>
               /\ e.keys \ {"PAUSE"} = (held \cup {k}) \ {"PAUSE"}
               /\ e.leds = (IF k \in D!Locks /\ k \notin held THEN D!SymDiff(locks, {k}) ELSE locks)
               /\ e.text = meant \o (IF k \in D!Locks THEN <<>> ELSE D!Meant(k))
<1> DEFINE d == D!Decoded("make", k, 0)
           ks == b.keys \cup {k}
           asc == D!keyboard_get_ascii(k, ks, locks)
           txt == IF k \notin D!Locks /\ D!Visible(asc) THEN Append(meant, asc) ELSE meant
           ls == IF k \in D!Locks /\ k \notin held THEN D!SymDiff(locks, {k}) ELSE locks
           e == Done(b, "make", k)
<1>1. /\ b \in Knowledge /\ b.buf = <<>> /\ b.keys \ {"PAUSE"} = held \ {"PAUSE"}
      /\ b.leds = locks /\ b.text = meant
  BY DEF Agrees
<1>2. "make" \in {"make", "break", "nothing"} /\ k \in Decodable /\ k # "none"
  BY DEF Decodable, D!AllKeys, D!Plain, D!Extended, D!Letter, D!Locks
<1>3. e \in Knowledge /\ e.buf = <<>> BY <1>1, <1>2, DoneIs
<1>4. d.what = "make" /\ d.key = k /\ Made(d) /\ KeysAfter(b.keys, d) = ks
  BY <1>2 DEF D!Decoded, Made, KeysAfter
<1>5. k \in D!Locks => (k \in b.keys <=> k \in held)
  <2>1. k \in D!Locks => k # "PAUSE" BY DEF D!Locks
  <2>2. QED BY <1>1, <2>1, Zenon
<1>6. Done(b, "make", k) = [buf |-> <<>>, keys |-> ks, leds |-> ls, text |-> txt]
  <2>1. Acts(b, d, <<>>) = [buf |-> D!MoveUp(<<>>, d.adjust), keys |-> ks,
                            leds |-> IF k \in D!Locks /\ k \notin b.keys THEN D!SymDiff(locks, {k})
                                     ELSE locks,
                            text |-> txt]
    BY <1>1, <1>4, Zenon DEF Acts
  <2>2. ls = IF k \in D!Locks /\ k \notin b.keys THEN D!SymDiff(locks, {k}) ELSE locks
    BY <1>5, Zenon
  <2> HIDE DEF ks, asc, txt, ls
  <2>3. Acts(b, d, <<>>) = [buf |-> D!MoveUp(<<>>, d.adjust), keys |-> ks, leds |-> ls, text |-> txt]
    BY <2>1, <2>2
  <2> HIDE DEF d
  <2>4. [Acts(b, d, <<>>) EXCEPT !.buf = <<>>] = [buf |-> <<>>, keys |-> ks, leds |-> ls, text |-> txt]
    BY <2>3
  <2>5. Done(b, "make", k) = [Acts(b, d, <<>>) EXCEPT !.buf = <<>>] BY DEF Done, d
  <2>6. QED BY <2>4, <2>5
<1>7. ks \ {"PAUSE"} = (held \cup {k}) \ {"PAUSE"} BY <1>1, Zenon
<1>8. txt = meant \o (IF k \in D!Locks THEN <<>> ELSE D!Meant(k))
  <2>1. meant \o <<>> = meant BY ConcatEmptySeq
  <2>2. CASE k \in D!Locks BY <2>1, <2>2
  <2>3. CASE k \notin D!Locks
    <3>1. D!Meant(k) = IF D!Visible(asc) THEN <<asc>> ELSE <<>>
      <4> HIDE DEF ks
      <4>1. QED BY <1>7, <2>3, AsciiIsMeant
    <3>2. asc \in Chars BY AsciiIs
    <3> HIDE DEF asc
    <3>3. Append(meant, asc) = meant \o <<asc>> BY <3>2, AppendIsConcat
    <3>4. QED BY <2>1, <2>3, <3>1, <3>3
  <2>4. QED BY <2>2, <2>3
<1> HIDE DEF ks, ls, txt
<1>9. e.keys = ks /\ e.leds = ls /\ e.text = txt BY <1>6
<1> HIDE DEF e
<1>10. /\ e.keys \ {"PAUSE"} = (held \cup {k}) \ {"PAUSE"} /\ e.leds = ls
       /\ e.text = meant \o (IF k \in D!Locks THEN <<>> ELSE D!Meant(k))
  BY <1>7, <1>8, <1>9
<1>11. QED BY <1>3, <1>10 DEF e, ls

\* A key released means nothing but that it is up.
LEMMA BreakTells ==
    ASSUME NEW k \in D!AllKeys, NEW b, Agrees(b)
    PROVE  LET e == IF k = "PAUSE" THEN b ELSE Done(b, "break", k)
           IN  /\ e \in Knowledge /\ e.buf = <<>>
               /\ e.keys \ {"PAUSE"} = (held \ {k}) \ {"PAUSE"}
               /\ e.leds = locks /\ e.text = meant
<1> DEFINE e == Done(b, "break", k)
           d == D!Decoded("break", k, 0)
           ks == b.keys \ {k}
<1>1. /\ b \in Knowledge /\ b.buf = <<>> /\ b.keys \ {"PAUSE"} = held \ {"PAUSE"}
      /\ b.leds = locks /\ b.text = meant
  BY DEF Agrees
<1>2. CASE k = "PAUSE"
  <2>1. (held \ {k}) \ {"PAUSE"} = held \ {"PAUSE"} BY <1>2
  <2>2. QED BY <1>1, <1>2, <2>1
<1>3. CASE k # "PAUSE"
  <2>1. "break" \in {"make", "break", "nothing"} /\ k \in Decodable BY DEF Decodable
  <2>2. e \in Knowledge /\ e.buf = <<>> BY <1>1, <2>1, DoneIs
  <2>3. ~Made(d) /\ KeysAfter(b.keys, d) = ks BY DEF D!Decoded, Made, KeysAfter
  <2>4. Acts(b, d, <<>>) = [buf |-> D!MoveUp(<<>>, d.adjust), keys |-> ks, leds |-> locks, text |-> meant]
    BY <1>1, <2>3, Zenon DEF Acts
  <2> HIDE DEF ks
  <2>5. e.keys = ks /\ e.leds = locks /\ e.text = meant BY <2>4 DEF Done
  <2>6. ks \ {"PAUSE"} = (held \ {k}) \ {"PAUSE"} BY <1>1 DEF ks
  <2> HIDE DEF e
  <2>7. QED BY <1>3, <2>2, <2>5, <2>6 DEF e
<1>4. QED BY <1>2, <1>3

\* A key movement puts one frame on the wire; unless it is the odd one, what
\* led to the truth leads to the new one.
LEMMA Movement ==
    ASSUME DecInv, D!KeyDecoderAssumption, NEW k \in Keys, D!Press(k) \/ D!Repeat(k) \/ D!Release(k)
    PROVE  \E m \in Seq(Codes) :
             /\ wire' = wire \o m
             /\ meant' \in Seq(Chars) /\ Prolongs(meant, meant')
             /\ held' \subseteq Keys /\ locks' \subseteq D!Locks
             /\ (~odd)' => ~odd
             /\ (~odd)' => \A w \in Seq(Byte) : \A a, b :
                  Agrees(b) /\ Leads(w, a, b) => \E e : Agrees(e)' /\ Leads(w \o m, a, e)
<1>1. /\ held \subseteq Keys /\ locks \subseteq D!Locks /\ held \subseteq D!AllKeys /\ k \in D!AllKeys
      /\ meant \in Seq(Chars)
  BY DEF DecInv, D!TypeOK, Sorts, D!KeyDecoderAssumption
<1>2. \A t \in Seq(Chars) : meant \o t \in Seq(Chars) /\ Prolongs(meant, meant \o t)
  <2>1. SUFFICES ASSUME NEW t \in Seq(Chars)
                 PROVE  meant \o t \in Seq(Chars) /\ Prolongs(meant, meant \o t)
    OBVIOUS
  <2>2. PICK u : u = meant \o t OBVIOUS
  <2>3. /\ Len(meant) \in Nat /\ Len(t) \in Nat /\ u \in Seq(Chars) /\ Len(u) = Len(meant) + Len(t)
        /\ \A i \in 1 .. (Len(meant) + Len(t)) : u[i] = IF i <= Len(meant) THEN meant[i]
                                                        ELSE t[i - Len(meant)]
    BY <1>1, <2>2, ConcatProperties
  <2>4. QED BY <2>2, <2>3 DEF Prolongs
<1>3. D!Make(k) \in Seq(Codes) /\ D!Break(k) \in Seq(Codes) BY <1>1, FramesAre
<1>4. Prolongs(meant, meant)
  <2>1. Len(meant) \in Nat BY <1>1
  <2>2. QED BY <2>1 DEF Prolongs
<1>5. CASE D!Press(k)
  <2>1. /\ k \notin held /\ held' = held \cup {k}
        /\ locks' = (IF k \in D!Locks THEN D!SymDiff(locks, {k}) ELSE locks)
        /\ wire' = wire \o D!Make(k) /\ meant' = meant \o (IF k \in D!Locks THEN <<>> ELSE D!Meant(k))
        /\ odd' = odd
    BY <1>5 DEF D!Press
  <2>2. /\ meant' \in Seq(Chars) /\ Prolongs(meant, meant')
        /\ held' \subseteq Keys /\ locks' \subseteq D!Locks
    <3>1. (IF k \in D!Locks THEN <<>> ELSE D!Meant(k)) \in Seq(Chars) BY MeantAre, EmptySeq
    <3>2. locks' \subseteq D!Locks BY <1>1, <2>1 DEF D!SymDiff
    <3>3. QED BY <1>1, <1>2, <2>1, <3>1, <3>2
  <2>3. ASSUME NEW w \in Seq(Byte), NEW a, NEW b, Agrees(b), Leads(w, a, b)
        PROVE  \E e : Agrees(e)' /\ Leads(w \o D!Make(k), a, e)
    <3>1. PICK e : e = Done(b, "make", k) OBVIOUS
    <3>2. b \in Knowledge /\ b.buf = <<>> BY <2>3 DEF Agrees
    <3>3. Leads(w \o D!Make(k), a, e) BY <1>1, <2>3, <3>1, <3>2, MakeLeads
    <3>4. /\ e \in Knowledge /\ e.buf = <<>>
          /\ e.keys \ {"PAUSE"} = (held \cup {k}) \ {"PAUSE"}
          /\ e.leds = (IF k \in D!Locks /\ k \notin held THEN D!SymDiff(locks, {k}) ELSE locks)
          /\ e.text = meant \o (IF k \in D!Locks THEN <<>> ELSE D!Meant(k))
      BY <1>1, <2>3, <3>1, MakeTells
    <3>5. Agrees(e)' BY <2>1, <3>4 DEF Agrees
    <3>6. QED BY <3>3, <3>5
  <2>4. QED BY <1>3, <2>1, <2>2, <2>3
<1>6. CASE D!Repeat(k)
  <2>1. /\ k \in held /\ held' = held /\ locks' = locks /\ odd' = odd
        /\ wire' = wire \o D!Make(k) /\ meant' = meant \o D!Meant(k)
    BY <1>6 DEF D!Repeat
  <2>2. k \in D!Locks => D!Meant(k) = <<>> BY DEF D!Meant, D!Locks, D!Letter
  <2>3. meant' = meant \o (IF k \in D!Locks THEN <<>> ELSE D!Meant(k)) BY <2>1, <2>2
  <2>4. meant' \in Seq(Chars) /\ Prolongs(meant, meant') BY <1>2, <2>1, MeantAre
  <2>5. ASSUME NEW w \in Seq(Byte), NEW a, NEW b, Agrees(b), Leads(w, a, b)
        PROVE  \E e : Agrees(e)' /\ Leads(w \o D!Make(k), a, e)
    <3>1. PICK e : e = Done(b, "make", k) OBVIOUS
    <3>2. b \in Knowledge /\ b.buf = <<>> BY <2>5 DEF Agrees
    <3>3. Leads(w \o D!Make(k), a, e) BY <1>1, <2>5, <3>1, <3>2, MakeLeads
    <3>4. /\ e \in Knowledge /\ e.buf = <<>>
          /\ e.keys \ {"PAUSE"} = (held \cup {k}) \ {"PAUSE"}
          /\ e.leds = (IF k \in D!Locks /\ k \notin held THEN D!SymDiff(locks, {k}) ELSE locks)
          /\ e.text = meant \o (IF k \in D!Locks THEN <<>> ELSE D!Meant(k))
      BY <1>1, <2>5, <3>1, MakeTells
    <3>5. held \cup {k} = held' BY <2>1
    <3>6. Agrees(e)' BY <2>1, <2>3, <3>4, <3>5 DEF Agrees
    <3>7. QED BY <3>3, <3>6
  <2>6. QED BY <1>1, <1>3, <2>1, <2>4, <2>5
<1>7. CASE D!Release(k)
  <2>1. /\ held' = held \ {k} /\ locks' = locks /\ meant' = meant
        /\ odd' = (odd \/ (k = "RIGHT" /\ D!Shifted)) /\ wire' = wire \o D!Break(k)
    BY <1>7 DEF D!Release
  <2>2. ASSUME ~(k = "RIGHT" /\ D!Shifted), NEW w \in Seq(Byte), NEW a, NEW b, Agrees(b), Leads(w, a, b)
        PROVE  \E e : Agrees(e)' /\ Leads(w \o D!Break(k), a, e)
    <3>1. PICK e : e = IF k = "PAUSE" THEN b ELSE Done(b, "break", k) OBVIOUS
    <3>2. b \in Knowledge /\ b.buf = <<>> BY <2>2 DEF Agrees
    <3>3. Leads(w \o D!Break(k), a, e) BY <1>1, <2>2, <3>1, <3>2, BreakLeads
    <3>4. /\ e \in Knowledge /\ e.buf = <<>>
          /\ e.keys \ {"PAUSE"} = (held \ {k}) \ {"PAUSE"}
          /\ e.leds = locks /\ e.text = meant
      BY <1>1, <2>2, <3>1, BreakTells
    <3>5. Agrees(e)' BY <2>1, <3>4 DEF Agrees
    <3>6. QED BY <3>3, <3>5
  <2>3. held' \subseteq Keys BY <1>1, <2>1
  <2>4. (~odd)' => ~odd /\ ~(k = "RIGHT" /\ D!Shifted) BY <2>1
  <2>5. QED BY <1>1, <1>3, <1>4, <2>1, <2>2, <2>3, <2>4
<1>8. QED BY <1>5, <1>6, <1>7
-----------------------------------------------------------------------------
\* The steps of the user.
LEMMA MovementKeeps ==
    ASSUME DecInv, D!KeyDecoderAssumption, NEW k \in Keys, D!Press(k) \/ D!Repeat(k) \/ D!Release(k)
    PROVE  DecInv'
<1>1. PICK m \in Seq(Codes) :
        /\ wire' = wire \o m
        /\ meant' \in Seq(Chars) /\ Prolongs(meant, meant')
        /\ held' \subseteq Keys /\ locks' \subseteq D!Locks
        /\ (~odd)' => ~odd
        /\ (~odd)' => \A w \in Seq(Byte) : \A a, b :
             Agrees(b) /\ Leads(w, a, b) => \E e : Agrees(e)' /\ Leads(w \o m, a, e)
  BY Movement
<1>2. UNCHANGED <<lamps, keyboard_inbuf, keys_pressed, keyboard_led_map, keyboard_mutex, doing,
                  command,
                  tries, printed, lost, failed>>
  BY DEF D!Press, D!Repeat, D!Release, D!Move, D!driver
<1>3. wire \in Seq(Byte) BY DEF DecInv, Sorts
<1>4. /\ wire' \in Seq(Byte)
      /\ \A i \in 1 .. Len(wire) : i \in 1 .. Len(wire') /\ wire'[i] = wire[i]
      /\ \A i \in 1 .. Len(wire') : i \in 1 .. Len(wire) \/ wire'[i] \in Codes
      /\ wire # <<>> => 1 \in 1 .. Len(wire) /\ Tail(wire') = Tail(wire) \o m
  BY <1>1, <1>3, MoreWire
<1>5. DOMAIN wire = 1 .. Len(wire) /\ DOMAIN wire' = 1 .. Len(wire') BY <1>3, <1>4
<1>6. \A c \in Codes : c \notin Answers BY CodesAre
<1>7. \A i \in DOMAIN wire' : wire'[i] \in Answers => i \in DOMAIN wire /\ wire[i] = wire'[i]
  BY <1>4, <1>5, <1>6
<1>8. D!TypeOK' BY <1>1, <1>2 DEF DecInv, D!TypeOK
<1>9. Sorts' BY <1>1, <1>2, <1>4 DEF DecInv, Sorts
<1>10. OneAnswer'
  <2>1. CASE doing = "in"
    <3>1. PICK i \in DOMAIN wire :
            wire[i] \in Answers /\ \A j \in DOMAIN wire : j # i => wire[j] \notin Answers
      BY <2>1 DEF DecInv, OneAnswer
    <3>2. i \in DOMAIN wire' /\ wire'[i] \in Answers BY <1>4, <1>5, <3>1
    <3>3. \A j \in DOMAIN wire' : j # i => wire'[j] \notin Answers BY <1>7, <3>1
    <3>4. QED BY <1>2, <2>1, <3>2, <3>3 DEF OneAnswer
  <2>2. CASE doing # "in"
    <3>1. \A i \in DOMAIN wire : wire[i] \notin Answers BY <2>2 DEF DecInv, OneAnswer
    <3>2. \A i \in DOMAIN wire' : wire'[i] \notin Answers BY <1>7, <3>1
    <3>3. QED BY <1>2, <2>2, <3>2 DEF OneAnswer
  <2>3. QED BY <2>1, <2>2
<1>11. LampsLit'
  <2>1. "FA" \in Answers BY DEF Answers
  <2>2. \A i \in DOMAIN wire' : wire'[i] = "FA" => i \in DOMAIN wire /\ wire[i] = "FA" BY <1>7, <2>1
  <2>3. QED BY <1>2, <2>2 DEF DecInv, LampsLit
<1>12. WillAgree'
  <2>1. Now' = Now BY <1>2 DEF Now
  <2>2. SUFFICES ASSUME D!Regular'
                 PROVE  IF doing' # "in" THEN \E b : Agrees(b)' /\ Leads(wire', Now, b)
                       
                             ELSE IF wire'[1] \in Answers THEN \E b : Agrees(b)' /\ Leads(Tail(wire'), Now, b)
                        ELSE Prolongs(D!Shown(printed'), meant')
    BY <2>1 DEF WillAgree
  <2>3. D!Regular /\ (~odd)' BY <1>1, <1>2, <2>2 DEF D!Regular
  <2>4. CASE doing # "in"
    <3>1. PICK b : Agrees(b) /\ Leads(wire, Now, b) BY <2>3, <2>4 DEF DecInv, WillAgree
    <3>2. \E e : Agrees(e)' /\ Leads(wire', Now, e) BY <1>1, <1>3, <2>3, <3>1
    <3>3. QED BY <1>2, <2>4, <3>2
  <2>5. CASE doing = "in"
    <3>1. PICK i \in DOMAIN wire : TRUE BY <2>5 DEF DecInv, OneAnswer
    <3>2. wire # <<>> /\ 1 \in 1 .. Len(wire)
      <4>1. wire # <<>> BY <1>5, <3>1, EmptySeq
      <4>2. QED BY <1>4, <4>1
    <3>3. wire'[1] = wire[1] BY <1>4, <3>2
    <3>4. CASE wire[1] \in Answers
      <4>1. PICK b : Agrees(b) /\ Leads(Tail(wire), Now, b)
        BY <2>3, <2>5, <3>4 DEF DecInv, WillAgree
      <4>2. Tail(wire) \in Seq(Byte) BY <1>3, <3>2, HeadTailProperties
      <4>3. \E e : Agrees(e)' /\ Leads(Tail(wire) \o m, Now, e) BY <1>1, <2>3, <4>1, <4>2
      <4>4. QED BY <1>2, <1>4, <2>5, <3>2, <3>3, <3>4, <4>3
    <3>5. CASE wire[1] \notin Answers
      <4>1. Prolongs(D!Shown(printed), meant) BY <2>3, <2>5, <3>5 DEF DecInv, WillAgree
      <4>2. D!Shown(printed) \in Seq(Chars) /\ meant \in Seq(Chars) BY ShownIs DEF DecInv, Sorts
      <4>3. Prolongs(D!Shown(printed), meant') BY <1>1, <4>1, <4>2, ProlongsTrans
      <4>4. QED BY <1>2, <2>5, <3>3, <3>5, <4>3
    <3>6. QED BY <3>4, <3>5
  <2>6. QED BY <2>4, <2>5
<1>13. QED BY <1>8, <1>9, <1>10, <1>11, <1>12 DEF DecInv

\* What is behind the first byte.
LEMMA TailIs ==
    ASSUME NEW w \in Seq(Byte), w # <<>>
    PROVE  /\ Tail(w) \in Seq(Byte) /\ Head(w) = w[1] /\ w[1] \in Byte /\ 1 \in DOMAIN w
           /\ \A i \in DOMAIN Tail(w) : Tail(w)[i] = w[i + 1] /\ i + 1 \in DOMAIN w /\ i + 1 # 1
           /\ \A i \in DOMAIN w : i # 1 => i - 1 \in DOMAIN Tail(w) /\ Tail(w)[i - 1] = w[i]
<1>1. Len(w) \in Nat /\ Len(w) >= 1 BY EmptySeq
<1>2. PICK v : v = Tail(w) OBVIOUS
<1>3. /\ v \in Seq(Byte) /\ Len(v) = Len(w) - 1 /\ Head(w) = w[1]
      /\ \A i \in 1 .. Len(v) : v[i] = w[i + 1]
  BY <1>2, HeadTailProperties
<1>4. DOMAIN w = 1 .. Len(w) /\ DOMAIN v = 1 .. Len(v) BY <1>3
<1>5. 1 \in DOMAIN w /\ w[1] \in Byte BY <1>1, <1>4, ElementOfSeq
<1>6. \A i \in DOMAIN v : v[i] = w[i + 1] /\ i + 1 \in DOMAIN w /\ i + 1 # 1 BY <1>1, <1>3, <1>4
<1>7. ASSUME NEW i \in DOMAIN w, i # 1 PROVE i - 1 \in DOMAIN v /\ v[i - 1] = w[i]
  <2>1. i - 1 \in 1 .. Len(v) /\ i - 1 + 1 = i BY <1>1, <1>3, <1>4, <1>7
  <2>2. QED BY <1>3, <1>4, <2>1
<1>8. QED BY <1>2, <1>3, <1>5, <1>6, <1>7

\* One byte read takes the driver's knowledge one step on.
LEMMA MainTells ==
    ASSUME DecInv, D!keyboard_main
    PROVE  /\ wire # <<>> /\ wire' = Tail(wire) /\ doing = "main" /\ doing' \in {"main", "lock"}
           /\ Now \in Knowledge /\ Now' = After(Now, Head(wire)) /\ printed' \in Seq(Chars)
           /\ doing' = "main" => keyboard_led_map' = keyboard_led_map
           /\ UNCHANGED <<held, locks, lamps, meant, odd, lost, failed, keyboard_mutex, command,
                          tries>>
<1> DEFINE buf == Append(keyboard_inbuf, Head(wire))
           d == D!Decode(buf)
           made == d.what = "make" /\ d.key # "none"
           ks == KeysAfter(keys_pressed, d)
           asc == D!keyboard_get_ascii(d.key, ks, keyboard_led_map)
<1>1. /\ wire # <<>> /\ wire' = Tail(wire) /\ doing = "main"
      /\ UNCHANGED <<held, locks, lamps, meant, odd, lost, failed, keyboard_mutex, command, tries>>
  BY DEF D!keyboard_main, D!keyboard
<1>2. /\ keyboard_inbuf \in Seq(Byte) /\ wire \in Seq(Byte) /\ printed \in Seq(Chars)
      /\ keys_pressed \subseteq Decodable /\ keyboard_led_map \subseteq D!Locks
  BY DEF DecInv, Sorts, D!TypeOK, Decodable
<1>3. Head(wire) \in Byte BY <1>1, <1>2, TailIs
<1>4. buf \in Seq(Byte) /\ buf # <<>> BY <1>2, <1>3, AppendProperties
<1>5. d.what \in {"make", "break", "nothing"}
  <2> HIDE DEF buf
  <2>1. QED BY <1>4, DecodeIs
<1>6. ks = CASE d.what = "make" -> keys_pressed \cup {d.key}
             [] d.what = "break" -> keys_pressed \ {d.key}
             [] d.what = "nothing" -> keys_pressed
  <2> HIDE DEF d
  <2>1. QED BY <1>5 DEF KeysAfter
<1>7. /\ keyboard_inbuf' = D!MoveUp(buf, d.adjust) /\ keys_pressed' = ks
      /\ printed' = IF made /\ d.key \notin D!Locks THEN Append(printed, asc) ELSE printed
      /\ IF made /\ D!IsToggle(d.key)
         THEN keyboard_led_map' = D!SymDiff(keyboard_led_map, {d.key}) /\ doing' = "lock"
         ELSE keyboard_led_map' = keyboard_led_map /\ doing' = doing
  <2>1. ks = CASE D!Decode(Append(keyboard_inbuf, Head(wire))).what = "make"
                    -> keys_pressed \cup {D!Decode(Append(keyboard_inbuf, Head(wire))).key}
               [] D!Decode(Append(keyboard_inbuf, Head(wire))).what = "break"
                    -> keys_pressed \ {D!Decode(Append(keyboard_inbuf, Head(wire))).key}
               [] D!Decode(Append(keyboard_inbuf, Head(wire))).what = "nothing" -> keys_pressed
    BY <1>6
  <2> HIDE DEF ks
  <2>2. QED BY <2>1 DEF D!keyboard_main
<1>8. asc \in Chars BY AsciiIs
<1>9. D!Shown(printed) \in Seq(Chars)
      /\ D!Shown(Append(printed, asc)) = IF D!Visible(asc) THEN Append(D!Shown(printed), asc)
                                         ELSE D!Shown(printed)
  <2> HIDE DEF asc
  <2>1. QED BY <1>2, <1>8, ShownIs
<1> DEFINE ls == IF Made(d) /\ d.key \in D!Locks /\ d.key \notin keys_pressed
                 THEN D!SymDiff(keyboard_led_map, {d.key}) ELSE keyboard_led_map
           txt == IF Made(d) /\ d.key \notin D!Locks /\ D!Visible(asc) THEN Append(D!Shown(printed), asc)
                  ELSE D!Shown(printed)
<1>10. D!Shown(printed') = txt
  <2> HIDE DEF asc, d
  <2>1. QED BY <1>7, <1>9 DEF Made
<1>11. keyboard_led_map' = ls
  <2> HIDE DEF asc, d
  <2>1. QED BY <1>7 DEF Made, D!IsToggle
<1>12. After(Now, Head(wire)) = [buf |-> D!MoveUp(buf, d.adjust), keys |-> ks, leds |-> ls, text |-> txt]
  BY Zenon DEF After, Acts, Now
<1>13. Now' = After(Now, Head(wire))
  <2> HIDE DEF ls, txt, ks, buf, d
  <2>1. QED BY <1>7, <1>10, <1>11, <1>12 DEF Now
<1>14. Now \in Knowledge BY <1>2, <1>9 DEF Now, Knowledge
<1>15. printed' \in Seq(Chars)
  <2> HIDE DEF asc, d
  <2>1. QED BY <1>2, <1>7, <1>8, AppendProperties
<1> HIDE DEF buf, d, made, ks, asc
<1>16. doing' \in {"main", "lock"} /\ (doing' = "main" => keyboard_led_map' = keyboard_led_map)
  BY <1>1, <1>7
<1>17. QED BY <1>1, <1>13, <1>14, <1>15, <1>16

\* The steps of the driver.
LEMMA MainKeeps == ASSUME DecInv, D!keyboard_main PROVE DecInv'
<1>1. /\ wire # <<>> /\ wire' = Tail(wire) /\ doing = "main" /\ doing' \in {"main", "lock"}
      /\ Now \in Knowledge /\ Now' = After(Now, Head(wire)) /\ printed' \in Seq(Chars)
      /\ doing' = "main" => keyboard_led_map' = keyboard_led_map
      /\ UNCHANGED <<held, locks, lamps, meant, odd, lost, failed, keyboard_mutex, command, tries>>
  BY MainTells
<1>2. wire \in Seq(Byte) BY DEF DecInv, Sorts
<1>3. /\ wire' \in Seq(Byte) /\ Head(wire) \in Byte
      /\ \A i \in DOMAIN wire' : wire'[i] = wire[i + 1] /\ i + 1 \in DOMAIN wire
  BY <1>1, <1>2, TailIs
<1>4. /\ Now' \in Knowledge
      /\ Len(keyboard_inbuf') <= 7
  <2>1. Len(keyboard_inbuf) <= 7 /\ Now.buf = keyboard_inbuf BY DEF DecInv, D!TypeOK, Now
  <2>2. Now'.buf = keyboard_inbuf' BY DEF Now
  <2>3. PICK s : s = After(Now, Head(wire)) OBVIOUS
  <2>4. s \in Knowledge /\ Len(s.buf) <= 7 BY <1>1, <1>3, <2>1, <2>3, AfterIs
  <2>5. QED BY <1>1, <2>2, <2>3, <2>4
<1>5. /\ keyboard_inbuf' \in Seq(Byte) /\ keys_pressed' \subseteq Decodable
      /\ keyboard_led_map' \subseteq D!Locks
  <2>1. /\ Now'.buf = keyboard_inbuf' /\ Now'.keys = keys_pressed' /\ Now'.leds = keyboard_led_map'
    BY DEF Now
  <2>2. PICK s : s = Now' OBVIOUS
  <2>3. s \in Knowledge BY <1>4, <2>2
  <2>4. QED BY <2>1, <2>2, <2>3 DEF Knowledge
<1>6. D!TypeOK' BY <1>1, <1>4, <1>5 DEF DecInv, D!TypeOK, Decodable
<1>7. Sorts' BY <1>1, <1>3, <1>5 DEF DecInv, Sorts
<1>8. OneAnswer'
  <2>1. \A i \in DOMAIN wire : wire[i] \notin Answers BY <1>1 DEF DecInv, OneAnswer
  <2>2. \A i \in DOMAIN wire' : wire'[i] \notin Answers BY <1>3, <2>1
  <2>3. QED BY <1>1, <2>2 DEF OneAnswer
<1>9. LampsLit' BY <1>1 DEF DecInv, LampsLit
<1>10. WillAgree'
  <2>1. SUFFICES ASSUME D!Regular' PROVE \E b : Agrees(b)' /\ Leads(wire', Now', b)
    BY <1>1 DEF WillAgree
  <2>2. D!Regular BY <1>1, <2>1 DEF D!Regular
  <2>3. PICK b : Agrees(b) /\ Leads(wire, Now, b) BY <1>1, <2>2 DEF DecInv, WillAgree
  <2>4. Leads(Tail(wire), After(Now, Head(wire)), b) BY <1>1, <1>2, <2>3, LeadsFirst
  <2>5. Agrees(b)' BY <1>1, <2>3 DEF Agrees
  <2>6. QED BY <1>1, <2>4, <2>5
<1>11. QED BY <1>6, <1>7, <1>8, <1>9, <1>10 DEF DecInv

LEMMA LockKeeps == ASSUME DecInv, D!set_keyboard_leds PROVE DecInv'
<1>1. /\ doing = "lock" /\ doing' = "out" /\ command' = "ED" /\ tries' = 0 /\ keyboard_mutex' = 1
      /\ UNCHANGED <<held, locks, lamps, meant, odd, wire, keyboard_inbuf, keys_pressed,
                     keyboard_led_map, printed, lost, failed>>
  BY DEF D!set_keyboard_leds, D!Command, D!keyboard
<1>2. D!TypeOK' BY <1>1, D!KeyDecoderAssumption DEF DecInv, D!TypeOK, D!KeyDecoderAssumption
<1>3. Sorts' BY <1>1 DEF DecInv, Sorts
<1>4. OneAnswer' BY <1>1 DEF DecInv, OneAnswer
<1>5. LampsLit' BY <1>1 DEF LampsLit
<1>6. WillAgree'
  <2>1. Now' = Now BY <1>1 DEF Now
  <2>2. SUFFICES ASSUME D!Regular' PROVE \E b : Agrees(b)' /\ Leads(wire', Now, b)
    BY <1>1, <2>1 DEF WillAgree
  <2>3. D!Regular BY <1>1, <2>2 DEF D!Regular
  <2>4. PICK b : Agrees(b) /\ Leads(wire, Now, b) BY <1>1, <2>3 DEF DecInv, WillAgree
  <2>5. Agrees(b)' BY <1>1, <2>4 DEF Agrees
  <2>6. QED BY <1>1, <2>4, <2>5
<1>7. QED BY <1>2, <1>3, <1>4, <1>5, <1>6 DEF DecInv

\* The answer goes behind the bytes of the keys that were moved before it.
LEMMA SendKeeps == ASSUME DecInv, D!SendByte PROVE DecInv'
<1>1. /\ doing = "out" /\ doing' = "in" /\ tries < Tries /\ tries' = tries + 1
      /\ UNCHANGED <<held, locks, meant, odd, keyboard_inbuf, keys_pressed, keyboard_led_map,
                     keyboard_mutex, command, printed, lost, failed>>
  BY DEF D!SendByte
<1>2. PICK a \in Answers : /\ wire' = Append(wire, a)
                           /\ \/ lamps' = lamps
                              \/ command # "ED" /\ lamps' = keyboard_led_map
                           /\ a = "FA" /\ command = "leds" => lamps' = keyboard_led_map
  <2>1. D!Answer(command) BY DEF D!SendByte
  <2>2. CASE /\ wire' = Append(wire, "FA")
             /\ lamps' = IF command = "ED" THEN lamps ELSE keyboard_led_map
    BY <2>2 DEF Answers
  <2>3. CASE (\E a \in {"FE", "00"} : wire' = Append(wire, a)) /\ UNCHANGED lamps
    <3>1. PICK a \in {"FE", "00"} : wire' = Append(wire, a) BY <2>3
    <3>2. a \in Answers /\ a # "FA" BY DEF Answers
    <3>3. QED BY <2>3, <3>1, <3>2
  <2>4. QED BY <2>1, <2>2, <2>3 DEF D!Answer
<1>3. wire \in Seq(Byte) /\ command \in {"ED", "leds"} BY <1>1 DEF DecInv, Sorts
<1>4. a \in Byte BY DEF Byte
<1>5. /\ wire' \in Seq(Byte) /\ Len(wire') = Len(wire) + 1 /\ wire'[Len(wire) + 1] = a
      /\ \A i \in 1 .. Len(wire) : wire'[i] = wire[i]
      /\ Len(wire) \in Nat
  BY <1>2, <1>3, <1>4, AppendProperties
<1>6. DOMAIN wire = 1 .. Len(wire) /\ DOMAIN wire' = 1 .. (Len(wire) + 1) BY <1>3, <1>5
<1>7. \A i \in DOMAIN wire : wire[i] \notin Answers BY <1>1 DEF DecInv, OneAnswer
<1>8. \A i \in DOMAIN wire' : i # Len(wire) + 1 => wire'[i] \notin Answers BY <1>5, <1>6, <1>7
<1>9. D!TypeOK'
  <2>1. tries' \in 0 .. Tries
    BY <1>1, D!KeyDecoderAssumption DEF DecInv, D!TypeOK, D!KeyDecoderAssumption
  <2>2. lamps' \subseteq D!Locks BY <1>2 DEF DecInv, D!TypeOK
  <2>3. QED BY <1>1, <2>1, <2>2 DEF DecInv, D!TypeOK
<1>10. Sorts' BY <1>1, <1>3, <1>5 DEF DecInv, Sorts
<1>11. OneAnswer'
  <2>1. Len(wire) + 1 \in DOMAIN wire' BY <1>5, <1>6
  <2>2. QED BY <1>1, <1>5, <1>8, <2>1 DEF OneAnswer
<1>12. LampsLit'
  <2>1. ASSUME command = "leds", NEW i \in DOMAIN wire', wire'[i] = "FA"
        PROVE  lamps' = keyboard_led_map
    <3>1. i = Len(wire) + 1 BY <1>8, <2>1 DEF Answers
    <3>2. QED BY <1>2, <1>5, <2>1, <3>1
  <2>2. QED BY <1>1, <2>1 DEF LampsLit
<1>13. WillAgree'
  <2>1. Now' = Now BY <1>1 DEF Now
  <2>2. SUFFICES ASSUME D!Regular'
                 PROVE  IF wire'[1] \in Answers THEN \E b : Agrees(b)' /\ Leads(Tail(wire'), Now, b)
                        ELSE Prolongs(D!Shown(printed'), meant')
    BY <1>1, <2>1 DEF WillAgree
  <2>3. D!Regular BY <1>1, <2>2 DEF D!Regular
  <2>4. PICK b : Agrees(b) /\ Leads(wire, Now, b) BY <1>1, <2>3 DEF DecInv, WillAgree
  <2>5. Agrees(b)' BY <1>1, <2>4 DEF Agrees
  <2>6. CASE wire = <<>>
    <3>1. Len(wire) = 0 BY <2>6
    <3>2. wire'[1] \in Answers BY <1>5, <3>1
    <3>3. PICK v : v = Tail(wire') OBVIOUS
    <3>4. wire' # <<>>
      <4>1. Len(wire') = 1 /\ Len(<<>>) = 0 BY <1>5, <3>1
      <4>2. QED BY <4>1
    <3>5. v \in Seq(Byte) /\ Len(v) = 0 BY <1>5, <3>1, <3>3, <3>4, HeadTailProperties
    <3>6. v = wire BY <2>6, <3>5, EmptySeq
    <3>7. QED BY <2>4, <2>5, <3>2, <3>3, <3>6
  <2>7. CASE wire # <<>>
    <3>1. 1 \in 1 .. Len(wire) BY <1>5, <2>7, <1>3, EmptySeq
    <3>2. wire'[1] \notin Answers BY <1>5, <1>6, <1>7, <3>1
    <3>3. Prolongs(Now.text, b.text) BY <1>3, <2>4, LeadsExtends
    <3>4. Now.text = D!Shown(printed) /\ b.text = meant BY <2>4 DEF Now, Agrees
    <3>5. QED BY <1>1, <3>2, <3>3, <3>4
  <2>8. QED BY <2>6, <2>7
<1>14. QED BY <1>9, <1>10, <1>11, <1>12, <1>13 DEF DecInv

LEMMA UnpluggedKeeps == ASSUME DecInv, D!Unplugged PROVE DecInv'
<1>1. /\ doing = "out" /\ doing' = "main" /\ command' = "none" /\ tries' = 0
      /\ keyboard_mutex' = 0 /\ failed' = TRUE
      /\ UNCHANGED <<held, locks, lamps, meant, odd, wire, keyboard_inbuf, keys_pressed,
                     keyboard_led_map, printed, lost>>
  BY DEF D!Unplugged, D!Return, D!keyboard
<1>2. D!TypeOK' BY <1>1, D!KeyDecoderAssumption DEF DecInv, D!TypeOK, D!KeyDecoderAssumption
<1>3. Sorts' BY <1>1 DEF DecInv, Sorts
<1>4. OneAnswer' BY <1>1 DEF DecInv, OneAnswer
<1>5. LampsLit' BY <1>1 DEF LampsLit
<1>6. WillAgree'
  <2>1. Now' = Now BY <1>1 DEF Now
  <2>2. SUFFICES ASSUME D!Regular' PROVE \E b : Agrees(b)' /\ Leads(wire', Now, b)
    BY <1>1, <2>1 DEF WillAgree
  <2>3. D!Regular BY <1>1, <2>2 DEF D!Regular
  <2>4. PICK b : Agrees(b) /\ Leads(wire, Now, b) BY <1>1, <2>3 DEF DecInv, WillAgree
  <2>5. Agrees(b)' BY <1>1, <2>4 DEF Agrees
  <2>6. QED BY <1>1, <2>4, <2>5
<1>7. QED BY <1>2, <1>3, <1>4, <1>5, <1>6 DEF DecInv

LEMMA ReadKeeps == ASSUME DecInv, D!ReadAnswer PROVE DecInv'
<1>1. /\ doing = "in" /\ wire # <<>> /\ wire' = Tail(wire)
      /\ UNCHANGED <<held, locks, lamps, meant, odd, keyboard_inbuf, keys_pressed,
                     keyboard_led_map, printed>>
  BY DEF D!ReadAnswer, D!keyboard
<1>2. wire \in Seq(Byte) /\ command \in {"ED", "leds"} BY <1>1 DEF DecInv, Sorts
<1>3. /\ wire' \in Seq(Byte) /\ Head(wire) = wire[1] /\ 1 \in DOMAIN wire
      /\ \A i \in DOMAIN wire' : wire'[i] = wire[i + 1] /\ i + 1 \in DOMAIN wire /\ i + 1 # 1
      /\ \A i \in DOMAIN wire : i # 1 => i - 1 \in DOMAIN wire' /\ wire'[i - 1] = wire[i]
  BY <1>1, <1>2, TailIs
<1>4. Now' = Now BY <1>1 DEF Now
<1>5. PICK i \in DOMAIN wire :
        wire[i] \in Answers /\ \A j \in DOMAIN wire : j # i => wire[j] \notin Answers
  BY <1>1 DEF DecInv, OneAnswer
<1>6. CASE /\ wire[1] \notin Answers /\ lost' = TRUE
           /\ UNCHANGED <<doing, command, tries, keyboard_mutex, failed>>
  <2>1. D!TypeOK' BY <1>1, <1>6 DEF DecInv, D!TypeOK
  <2>2. Sorts' BY <1>1, <1>3, <1>6 DEF DecInv, Sorts
  <2>3. OneAnswer'
    <3>1. i # 1 BY <1>5, <1>6
    <3>2. i - 1 \in DOMAIN wire' /\ wire'[i - 1] \in Answers BY <1>3, <1>5, <3>1
    <3>3. i \in Int BY <1>2
    <3>4. \A j \in DOMAIN wire' : j \in Int BY <1>3
    <3>5. \A j \in DOMAIN wire' : j # i - 1 => wire'[j] \notin Answers
      BY <1>3, <1>5, <3>3, <3>4
    <3>6. QED BY <1>1, <1>6, <3>2, <3>5 DEF OneAnswer
  <2>4. LampsLit'
    <3>1. command = "leds" => \A j \in DOMAIN wire : wire[j] = "FA" => lamps = keyboard_led_map
      BY <1>1 DEF DecInv, LampsLit
    <3>2. command = "leds" => \A j \in DOMAIN wire' : wire'[j] = "FA" => lamps = keyboard_led_map
      BY <1>3, <3>1
    <3>3. QED BY <1>1, <1>6, <3>2 DEF LampsLit
  <2>5. WillAgree' BY <1>6 DEF WillAgree, D!Regular
  <2>6. QED BY <2>1, <2>2, <2>3, <2>4, <2>5 DEF DecInv
<1>7. CASE /\ wire[1] \in Answers /\ lost' = lost
           /\ doing' \in {"main", "out"} /\ command' \in {"none", "ED", "leds"} /\ tries' \in {0, tries}
           /\ keyboard_mutex' \in {0, 1}
           /\ doing' = "out" => command' \in {"ED", "leds"}
           /\ doing' = "main" /\ ~failed' => wire[1] = "FA" /\ command = "leds"
  <2>1. i = 1 BY <1>3, <1>5, <1>7
  <2>2. D!TypeOK'
    <3>1. 0 \in 0 .. Tries BY D!KeyDecoderAssumption DEF D!KeyDecoderAssumption
    <3>2. QED BY <1>1, <1>7, <3>1 DEF DecInv, D!TypeOK
  <2>3. Sorts' BY <1>1, <1>3, <1>7 DEF DecInv, Sorts
  <2>4. OneAnswer'
    <3>1. \A j \in DOMAIN wire' : wire'[j] \notin Answers BY <1>3, <1>5, <2>1
    <3>2. QED BY <1>7, <3>1 DEF OneAnswer
  <2>5. LampsLit'
    <3>1. doing' = "main" /\ ~failed' => lamps = keyboard_led_map
      BY <1>1, <1>3, <1>7 DEF DecInv, LampsLit
    <3>2. QED BY <1>1, <1>7, <3>1 DEF LampsLit
  <2>6. WillAgree'
    <3>1. SUFFICES ASSUME D!Regular' PROVE \E b : Agrees(b)' /\ Leads(wire', Now, b)
      BY <1>4, <1>7 DEF WillAgree
    <3>2. D!Regular BY <1>1, <1>7, <3>1 DEF D!Regular
    <3>3. PICK b : Agrees(b) /\ Leads(Tail(wire), Now, b) BY <1>1, <1>7, <3>2 DEF DecInv, WillAgree
    <3>4. Agrees(b)' BY <1>1, <3>3 DEF Agrees
    <3>5. QED BY <1>1, <3>3, <3>4
  <2>7. QED BY <2>2, <2>3, <2>4, <2>5, <2>6 DEF DecInv
<1>8. QED
  <2>1. keyboard_mutex \in {0, 1} BY DEF DecInv, D!TypeOK
  <2>2. Head(wire) = wire[1] BY <1>3
  <2>3. CASE wire[1] \notin Answers BY <1>6, <2>2, <2>3 DEF D!ReadAnswer, Answers
  <2>4. CASE wire[1] \in Answers
    <3>1. CASE wire[1] = "FA" /\ command = "ED" /\ D!Command("leds")
               /\ UNCHANGED <<keyboard_mutex, lost, failed>>
      BY <1>7, <2>1, <2>4, <3>1 DEF D!Command
    <3>2. CASE wire[1] = "FA" /\ command = "leds" /\ D!Return(FALSE) /\ UNCHANGED lost
      BY <1>7, <2>4, <3>2 DEF D!Return
    <3>3. CASE wire[1] = "00" /\ D!Return(TRUE) /\ UNCHANGED lost BY <1>7, <2>4, <3>3 DEF D!Return
    <3>4. CASE wire[1] = "FE" /\ doing' = "out" /\ UNCHANGED <<command, tries, keyboard_mutex,
                                                               lost, failed>>
      BY <1>2, <1>7, <2>1, <2>4, <3>4
    <3>5. QED BY <2>2, <2>4, <3>1, <3>2, <3>3, <3>4 DEF D!ReadAnswer, Answers
  <2>5. QED BY <2>3, <2>4

\* The invariant holds at first, and every step keeps it.
LEMMA DecInit == D!Init => DecInv
<1> SUFFICES ASSUME D!Init PROVE DecInv OBVIOUS
<1>1. D!TypeOK BY D!KeyDecoderAssumption DEF D!Init, D!TypeOK, D!KeyDecoderAssumption
<1>2. /\ <<>> \in Seq(Byte) /\ <<>> \in Seq(Chars) /\ DOMAIN <<>> = {} /\ D!Shown(<<>>) = <<>>
  BY EmptySeq, ShownIs
<1>3. Sorts BY <1>2 DEF D!Init, Sorts
<1>4. OneAnswer BY <1>2 DEF D!Init, OneAnswer
<1>5. LampsLit BY DEF D!Init, LampsLit
<1>6. WillAgree
  <2>1. Now = [buf |-> <<>>, keys |-> {}, leds |-> {}, text |-> <<>>] BY <1>2 DEF D!Init, Now
  <2>2. PICK b : b = [buf |-> <<>>, keys |-> {}, leds |-> {}, text |-> <<>>] OBVIOUS
  <2>3. b \in Knowledge BY <1>2, <2>2 DEF Knowledge
  <2>4. Leads(<<>>, b, b) BY <2>3, LeadsNowhere
  <2>5. Agrees(b) BY <2>2, <2>3 DEF D!Init, Agrees
  <2>6. QED BY <2>1, <2>2, <2>4, <2>5 DEF D!Init, WillAgree
<1>7. QED BY <1>1, <1>3, <1>4, <1>5, <1>6 DEF DecInv

LEMMA DecStep == DecInv /\ [D!Next]_(D!vars) => DecInv'
<1>1. ASSUME DecInv, D!Next PROVE DecInv'
  <2>1. CASE D!keyboard_main BY <1>1, <2>1, MainKeeps
  <2>2. CASE D!set_keyboard_leds BY <1>1, <2>2, LockKeeps
  <2>3. CASE D!SendByte BY <1>1, <2>3, SendKeeps
  <2>4. CASE D!Unplugged BY <1>1, <2>4, UnpluggedKeeps
  <2>5. CASE D!ReadAnswer BY <1>1, <2>5, ReadKeeps
  <2>6. CASE \E k \in Keys : D!Press(k) \/ D!Repeat(k) \/ D!Release(k)
    BY <1>1, <2>6, MovementKeeps, D!KeyDecoderAssumption
  <2>7. QED BY <1>1, <2>1, <2>2, <2>3, <2>4, <2>5, <2>6 DEF D!Next, D!Driver
<1>2. ASSUME DecInv, UNCHANGED D!vars PROVE DecInv'
  <2>1. UNCHANGED <<held, locks, lamps, meant, odd, wire, keyboard_inbuf, keys_pressed,
                    keyboard_led_map,
                    keyboard_mutex, doing, command, tries, printed, lost, failed>>
    BY <1>2 DEF D!vars, D!keyboard, D!driver
  <2>2. D!TypeOK' BY <1>2, <2>1 DEF DecInv, D!TypeOK
  <2>3. Sorts' BY <1>2, <2>1 DEF DecInv, Sorts
  <2>4. OneAnswer' BY <1>2, <2>1 DEF DecInv, OneAnswer
  <2>5. LampsLit' BY <1>2, <2>1 DEF DecInv, LampsLit
  <2>6. Now' = Now /\ \A b : Agrees(b)' <=> Agrees(b) BY <2>1 DEF Now, Agrees
  <2>7. WillAgree' BY <1>2, <2>1, <2>6 DEF DecInv, WillAgree, D!Regular
  <2>8. QED BY <2>2, <2>3, <2>4, <2>5, <2>7 DEF DecInv
<1>3. QED BY <1>1, <1>2

\* The invariant says more than what is checked.
LEMMA DecKnows == DecInv => D!KnowsTheKeyboard
<1> SUFFICES ASSUME DecInv PROVE D!KnowsTheKeyboard OBVIOUS
<1>1. ASSUME D!Quiet, D!Regular
      PROVE  /\ keyboard_inbuf = <<>> /\ keys_pressed \ {"PAUSE"} = held \ {"PAUSE"}
             /\ keyboard_led_map = locks
  <2>1. doing = "main" /\ wire = <<>> BY <1>1 DEF D!Quiet
  <2>2. PICK b : Agrees(b) /\ Leads(<<>>, Now, b) BY <1>1, <2>1 DEF DecInv, WillAgree
  <2>3. PICK f : Trace(<<>>, Now, b, f) BY <2>2 DEF Leads
  <2>4. Len(<<>>) = 0 OBVIOUS
  <2>5. b = Now BY <2>3, <2>4 DEF Trace
  <2>6. QED BY <2>2, <2>5 DEF Agrees, Now
<1>2. D!Quiet /\ ~failed => lamps = keyboard_led_map BY DEF DecInv, LampsLit, D!Quiet
<1>3. QED BY <1>1, <1>2 DEF D!KnowsTheKeyboard, DecInv

LEMMA DecPrints == DecInv => D!PrintsWhatIsTyped
<1> SUFFICES ASSUME DecInv, D!Regular PROVE D!IsPrefix(D!Shown(printed), meant)
  BY DEF D!PrintsWhatIsTyped
<1>1. D!Shown(printed) \in Seq(Chars) /\ meant \in Seq(Chars) /\ wire \in Seq(Byte)
  BY ShownIs DEF DecInv, Sorts
<1>2. \A b : Agrees(b) => b.text = meant BY DEF Agrees
<1>3. Now.text = D!Shown(printed) BY DEF Now
<1>4. Prolongs(D!Shown(printed), meant)
  <2>1. CASE doing # "in"
    <3>1. PICK b : Agrees(b) /\ Leads(wire, Now, b) BY <2>1 DEF DecInv, WillAgree
    <3>2. Prolongs(Now.text, b.text) BY <1>1, <3>1, LeadsExtends
    <3>3. QED BY <1>2, <1>3, <3>1, <3>2
  <2>2. CASE doing = "in" /\ wire[1] \in Answers
    <3>1. PICK b : Agrees(b) /\ Leads(Tail(wire), Now, b) BY <2>2 DEF DecInv, WillAgree
    <3>2. PICK i \in DOMAIN wire : TRUE BY <2>2 DEF DecInv, OneAnswer
    <3>3. wire # <<>> BY <1>1, <3>2, EmptySeq
    <3>4. Tail(wire) \in Seq(Byte) BY <1>1, <3>3, TailIs
    <3>5. Prolongs(Now.text, b.text) BY <3>1, <3>4, LeadsExtends
    <3>6. QED BY <1>2, <1>3, <3>1, <3>5
  <2>3. CASE doing = "in" /\ wire[1] \notin Answers BY <2>3 DEF DecInv, WillAgree
  <2>4. QED BY <2>1, <2>2, <2>3
<1>5. QED BY <1>1, <1>4, ProlongsIsPrefix

LEMMA DecAlways == D!Spec => []DecInv
<1>1. D!Init => DecInv BY DecInit
<1>2. DecInv /\ [D!Next]_(D!vars) => DecInv' BY DecStep
<1>3. QED BY <1>1, <1>2, PTL DEF D!Spec

\* When all is read the second driver knows which keys are down and which locks are set, and
\* has lit their lamps unless the command failed, for any keys and any number of tries and of
\* movements (c_keyboard.c:69-99, 359-367).
THEOREM DecoderKnows == D!Spec => []KnowsTheKeyboard
<1>1. D!Spec => []DecInv BY DecAlways
<1>2. DecInv => D!KnowsTheKeyboard BY DecKnows
<1>3. QED BY <1>1, <1>2, PTL DEF KnowsTheKeyboard

\* What it prints is what was typed, in order, by the keys held and the locks set at the time
\* (c_keyboard.c:371-502).
THEOREM DecoderPrints == D!Spec => []PrintsWhatIsTyped
<1>1. D!Spec => []DecInv BY DecAlways
<1>2. DecInv => D!PrintsWhatIsTyped BY DecPrints
<1>3. QED BY <1>1, <1>2, PTL DEF PrintsWhatIsTyped
=============================================================================
