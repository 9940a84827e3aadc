----------------------------- MODULE KeyDecoder -----------------------------
(***************************************************************************)
(* The second keyboard driver (c_keyboard.c): keyboard_main collects bytes *)
(* until keyboard_decode_inbuf recognises a key of scancode set 2, prints  *)
(* its character, and on a lock key commands the lamps, ignoring whatever  *)
(* comes before the acknowledge.                                           *)
(*                                                                         *)
(* External: the keyboard, and the bytes keyboard_byte_in returns.  (The   *)
(* get_raw_scancode it is wired to at this commit is a stub, and returns   *)
(* 0; its read of the data port is commented out, c_keyboard.c:283-285.)   *)
(* Bytes are written as in the code, in hexadecimal; key 0 is "none".      *)
(***************************************************************************)
EXTENDS Integers, SequencesExt

CONSTANTS
    Keys,        \* the keys the user has: a subset of AllKeys
    Tries,       \* scaled: tries of a command byte, 500 in the code
    MaxTyped,    \* bound: key movements
    MaxTrouble   \* bound: command bytes the keyboard does not acknowledge

Letter == "A"
Locks == {"CAPSLOCK", "NUMLOCK"}
Plain == {Letter, "LSHIFT", "LCTRL", "LALT"} \cup Locks
Extended == {"RIGHT", "RALT"}
AllKeys == Plain \cup Extended \cup {"PRTSCR", "PAUSE"}

KeyDecoderAssumption ==
    /\ Keys \subseteq AllKeys /\ Tries \in Nat \ {0}
    /\ MaxTyped \in Nat /\ MaxTrouble \in Nat

VARIABLES
    held, locks, lamps, \* the keyboard: keys down, locks the user has set, lamps lit
    last,               \* the key that repeats
    wire,               \* bytes sent and not read
    awaits,             \* it waits for the parameter of a lamp command
    keyboard_inbuf,     \* the bytes not decoded yet
    keys_pressed,
    keyboard_led_map,
    keyboard_mutex,
    at, byte, tries,    \* "main", or where keyboard_command_byte is, with what
    meant, printed,     \* characters the user typed, characters printed
    typed, trouble,     \* counted for the bounds
    odd, lost, failed   \* a lone E0 12 was sent; bytes were ignored; a
                        \* command has failed and none has succeeded since

keyboard == <<held, locks, lamps, last, awaits, meant, typed, trouble, odd>>
driver == <<keyboard_inbuf, keys_pressed, keyboard_led_map, keyboard_mutex,
            at, byte, tries, printed, lost, failed>>
vars == <<keyboard, wire, driver>>

Init ==
    /\ held = {} /\ locks = {} /\ lamps = {} /\ last = "none"
    /\ wire = <<>> /\ awaits = FALSE
    /\ keyboard_inbuf = <<>> /\ keys_pressed = {} /\ keyboard_led_map = {}
    /\ keyboard_mutex = 0 /\ at = "main" /\ byte = "none" /\ tries = 0
    /\ meant = <<>> /\ printed = <<>> /\ typed = 0 /\ trouble = 0
    /\ odd = FALSE /\ lost = FALSE /\ failed = FALSE

-----------------------------------------------------------------------------
(* The keyboard, in scancode set 2.                                        *)
Code(k) ==
    CASE k = "A" -> "1C" [] k = "LSHIFT" -> "12" [] k = "LCTRL" -> "14"
      [] k \in {"LALT", "RALT"} -> "11" [] k = "CAPSLOCK" -> "58"
      [] k = "NUMLOCK" -> "77" [] k = "RIGHT" -> "74" [] k = "PRTSCR" -> "7C"

PauseBytes == <<"E1", "14", "77", "E1", "F0", "14", "F0", "77">>

\* A key of the middle block is framed so that an old keyboard's shift
\* state would come out right: by a false shift with num lock, by a false
\* release of the shift that is held without.
Shifted == "LSHIFT" \in held /\ "NUMLOCK" \notin lamps
Padded(k) == /\ "LSHIFT" \notin held
             /\ k = "PRTSCR" \/ (k = "RIGHT" /\ "NUMLOCK" \in lamps)

Make(k) ==
    CASE k \in Plain -> <<Code(k)>>
      [] k = "PAUSE" -> PauseBytes
      [] Padded(k) -> <<"E0", "12", "E0", Code(k)>>
      [] k = "RIGHT" /\ Shifted -> <<"E0", "F0", "12", "E0", Code(k)>>
      [] OTHER -> <<"E0", Code(k)>>

Break(k) ==
    CASE k \in Plain -> <<"F0", Code(k)>>
      [] k = "PAUSE" -> <<>>
      [] Padded(k) -> <<"E0", "F0", Code(k), "E0", "F0", "12">>
      [] k = "RIGHT" /\ Shifted -> <<"E0", "F0", Code(k), "E0", "12">>
      [] OTHER -> <<"E0", "F0", Code(k)>>

\* The character a key stands for, by what is held and locked.
Meant(k) ==
    LET ctrl == "LCTRL" \in held
        alt == {"LALT", "RALT"} \cap held # {}
        upper == ("LSHIFT" \in held) # ("CAPSLOCK" \in locks)
    IN CASE k = Letter -> <<IF ctrl THEN "^A" ELSE IF alt THEN "M-a"
                            ELSE IF upper THEN "A" ELSE "a">>
         [] k = "RIGHT" -> <<IF ctrl THEN "^right" ELSE "right">>
         [] OTHER -> <<>>

\* No keys are scanned between a command and its parameter.
Move == /\ typed < MaxTyped /\ ~awaits
        /\ typed' = typed + 1
        /\ UNCHANGED <<lamps, awaits, trouble, driver>>

Press(k) ==
    /\ Move /\ k \notin held
    /\ held' = held \cup {k} /\ last' = k
    /\ locks' = IF k \in Locks THEN SymDiff(locks, {k}) ELSE locks
    /\ wire' = wire \o Make(k)
    /\ meant' = meant \o (IF k \in Locks THEN <<>> ELSE Meant(k))
    /\ UNCHANGED odd

\* The key pressed last repeats while it is held.
Repeat(k) ==
    /\ Move /\ k \in held /\ k = last /\ k # "PAUSE"
    /\ wire' = wire \o Make(k)
    /\ meant' = meant \o Meant(k)
    /\ UNCHANGED <<held, locks, last, odd>>

Release(k) ==
    /\ Move /\ k \in held
    /\ held' = held \ {k} /\ last' = "none"
    /\ wire' = wire \o Break(k)
    /\ odd' = (odd \/ (k = "RIGHT" /\ Shifted))
    /\ UNCHANGED <<locks, meant>>

\* The keyboard takes a command byte b and answers; an answer other than the
\* acknowledge FA is "send again" (FE) or an error (00), and undoes it.
Answer(b) ==
    \/ /\ wire' = Append(wire, "FA")
       /\ awaits' = (b = "ED")
       /\ lamps' = IF b = "ED" THEN lamps ELSE keyboard_led_map
       /\ UNCHANGED trouble
    \/ /\ trouble < MaxTrouble /\ trouble' = trouble + 1
       /\ \E a \in {"FE", "00"} :
            /\ wire' = Append(wire, a)
            /\ awaits' = (a = "FE" /\ awaits)
       /\ UNCHANGED lamps

-----------------------------------------------------------------------------
(* keyboard_decode_inbuf.                                                  *)

\* set2_make_normal and set2_make_extended, for the codes that occur.
Normal(c) ==
    CASE c = "1C" -> "A" [] c = "12" -> "LSHIFT" [] c = "14" -> "LCTRL"
      [] c = "11" -> "LALT" [] c = "58" -> "CAPSLOCK" [] c = "77" -> "NUMLOCK"
      [] c = "74" -> "N_6" [] c = "7C" -> "N_MULT" [] OTHER -> "none"

Ext(c) ==
    CASE c = "74" -> "RIGHT" [] c = "7C" -> "PRTSCR" [] c = "11" -> "RALT"
      [] c = "14" -> "RCTRL" [] OTHER -> "none"

\* The bytes begin with the given ones.
Begins(b, s) == Len(b) >= Len(s) /\ SubSeq(b, 1, Len(s)) = s

Decoded(what, key, adjust) == [what |-> what, key |-> key, adjust |-> adjust]

\* Eight bytes that mean nothing are dumped.
DropUnknown(n) == IF n >= 8 THEN n ELSE 0

Decode(b) ==
    LET n == Len(b) IN
    CASE n >= 1 /\ b[1] \notin {"E0", "E1", "F0"} -> Decoded("make", Normal(b[1]), 1)
      [] n >= 2 /\ b[1] = "E0" /\ b[2] \notin {"12", "F0"} -> Decoded("make", Ext(b[2]), 2)
      [] n >= 4 /\ Begins(b, <<"E0", "12", "E0">>) -> Decoded("make", Ext(b[4]), 4)
      [] Begins(b, PauseBytes) -> Decoded("make", "PAUSE", 8)
      [] n >= 2 /\ b[1] = "F0" -> Decoded("break", Normal(b[2]), 2)
      [] n >= 3 /\ Begins(b, <<"E0", "F0">>) ->
            IF b[3] = "12" THEN Decoded("nothing", "none", 3)
                           ELSE Decoded("break", Ext(b[3]), 3)
      [] OTHER -> Decoded("nothing", "none", DropUnknown(n))

\* The bytes after the first n move to the front: _memcpy is given their
\* number and counts in bytes, where the buffer has words of four.
MoveUp(b, n) ==
    [i \in 1..(Len(b) - n) |-> IF i <= (Len(b) - n + 3) \div 4 THEN b[n + i] ELSE b[i]]

-----------------------------------------------------------------------------
(* keyboard_get_ascii, for the keys that occur: "0" where there is no      *)
(* character, "past" for the keys beyond the end of its tables.            *)
InTable(key, shift, num) ==
    CASE key = Letter -> IF shift THEN "A" ELSE "a"
      [] key = "RIGHT" -> "right"
      [] key = "N_6" -> IF num THEN "6" ELSE "right"
      [] key = "N_MULT" -> "*"
      [] key \in {"PRTSCR", "PAUSE"} -> "past"
      [] OTHER -> "0"

\* Slip: caps lock gives the upper case, whatever shift does.
CapsUp(c) == IF c = "a" THEN "A" ELSE c
\* Caps lock swaps the case of what is then a letter.
CapsSwap(c) == CASE c = "a" -> "A" [] c = "A" -> "a" [] OTHER -> c

WithCtrl(a) == CASE a \in {"a", "A"} -> "^A" [] a = "right" -> "^right" [] OTHER -> a
WithAlt(a) == IF a \in {"a", "A"} THEN "M-a" ELSE a

keyboard_get_ascii(key, pressed, leds) ==
    LET a == InTable(key, "LSHIFT" \in pressed, "NUMLOCK" \in leds)
        b == IF {"LCTRL", "RCTRL"} \cap pressed # {} THEN WithCtrl(a)
             ELSE IF {"LALT", "RALT"} \cap pressed # {} THEN WithAlt(a)
             ELSE a
    IN IF "CAPSLOCK" \in leds THEN CapsSwap(b) ELSE b

-----------------------------------------------------------------------------
(* keyboard_main and the lamp command.                                     *)

Command(b) == at' = "out" /\ byte' = b /\ tries' = 0

\* Slip: a lock key that repeats toggles again.
Toggles(key) == key \in Locks
\* A lock key that was not pressed before this byte.
IsToggle(key) == key \in Locks /\ key \notin keys_pressed

\* One byte is read and decoded, and what it completes is acted upon.
keyboard_main ==
    /\ at = "main" /\ wire # <<>>
    /\ wire' = Tail(wire)
    /\ LET buf == Append(keyboard_inbuf, Head(wire))
           d == Decode(buf)
           now == CASE d.what = "make" -> keys_pressed \cup {d.key}
                    [] d.what = "break" -> keys_pressed \ {d.key}
                    [] d.what = "nothing" -> keys_pressed
           made == d.what = "make" /\ d.key # "none"
       IN /\ keyboard_inbuf' = MoveUp(buf, d.adjust)
          /\ keys_pressed' = now
          /\ printed' = IF made /\ d.key \notin Locks
                        THEN Append(printed, keyboard_get_ascii(d.key, now, keyboard_led_map))
                        ELSE printed
          /\ IF made /\ IsToggle(d.key)
             THEN /\ keyboard_led_map' = SymDiff(keyboard_led_map, {d.key})
                  /\ at' = "lock"
             ELSE UNCHANGED <<keyboard_led_map, at>>
    /\ UNCHANGED <<keyboard, keyboard_mutex, byte, tries, lost, failed>>

\* set_keyboard_leds: lock_mutex_block, then 0xED and the map of lamps.
set_keyboard_leds ==
    /\ at = "lock" /\ keyboard_mutex = 0
    /\ keyboard_mutex' = 1
    /\ Command("ED")
    /\ UNCHANGED <<keyboard, wire, keyboard_inbuf, keys_pressed, keyboard_led_map,
                   printed, lost, failed>>

\* keyboard_command_byte: the byte goes out, at most Tries times.
SendByte ==
    /\ at = "out" /\ tries < Tries
    /\ Answer(byte)
    /\ at' = "in" /\ tries' = tries + 1
    /\ UNCHANGED <<held, locks, last, meant, typed, odd, keyboard_inbuf, keys_pressed,
                   keyboard_led_map, keyboard_mutex, byte, printed, lost, failed>>

\* Slip: the lock is kept when the command fails.
ReturnLocked(bad) ==
    /\ at' = "main" /\ byte' = "none" /\ tries' = 0
    /\ keyboard_mutex' = IF bad THEN 1 ELSE 0
    /\ failed' = bad

\* Both ways out of set_keyboard_leds unlock and return to keyboard_main,
\* after an error through keyboard_init, which does nothing.
Return(bad) ==
    /\ at' = "main" /\ byte' = "none" /\ tries' = 0
    /\ keyboard_mutex' = 0
    /\ failed' = bad

Unplugged ==
    /\ at = "out" /\ tries = Tries
    /\ Return(TRUE)
    /\ UNCHANGED <<keyboard, wire, keyboard_inbuf, keys_pressed, keyboard_led_map,
                   printed, lost>>

\* Bytes that are no answer are ignored, whatever key they belong to.
ReadAnswer ==
    /\ at = "in" /\ wire # <<>>
    /\ wire' = Tail(wire)
    /\ LET r == Head(wire) IN
       \/ /\ r \notin {"FA", "FE", "00"}
          /\ lost' = TRUE
          /\ UNCHANGED <<at, byte, tries, keyboard_mutex, failed>>
       \/ /\ r = "FA" /\ byte = "ED"
          /\ Command("leds")
          /\ UNCHANGED <<keyboard_mutex, lost, failed>>
       \/ r = "FA" /\ byte = "leds" /\ Return(FALSE) /\ UNCHANGED lost
       \/ r = "00" /\ Return(TRUE) /\ UNCHANGED lost
       \/ /\ r = "FE" /\ at' = "out"
          /\ UNCHANGED <<byte, tries, keyboard_mutex, lost, failed>>
    /\ UNCHANGED <<keyboard, keyboard_inbuf, keys_pressed, keyboard_led_map, printed>>

Driver == keyboard_main \/ set_keyboard_leds \/ SendByte \/ Unplugged \/ ReadAnswer

Next == Driver \/ \E k \in Keys : Press(k) \/ Repeat(k) \/ Release(k)

\* The driver's thread is scheduled (Scheduler); nobody has to type.
Spec == Init /\ [][Next]_vars
FairSpec == Spec /\ WF_vars(Driver)

-----------------------------------------------------------------------------
(* What is checked.                                                        *)
TypeOK ==
    /\ held \subseteq Keys /\ locks \subseteq Locks /\ lamps \subseteq Locks
    /\ keyboard_led_map \subseteq Locks
    /\ keys_pressed \subseteq AllKeys \cup {"N_6", "N_MULT", "RCTRL", "none"}
    /\ Len(keyboard_inbuf) <= 7
    /\ keyboard_mutex \in {0, 1} /\ tries \in 0..Tries
    /\ at \in {"main", "lock", "out", "in"} /\ byte \in {"none", "ED", "leds"}

\* No byte was ignored and no lone false shift was sent.
Regular == ~odd /\ ~lost

\* The driver has read all there is.
Quiet == at = "main" /\ wire = <<>>

\* When all is read, nothing is left half decoded, the driver knows which
\* keys are down (the Pause key sends no release, c_keyboard.c:320-325), which
\* locks are set, and has lit their lamps unless the command failed
\* (c_keyboard.c:69-99, 359-367).
KnowsTheKeyboard ==
    /\ TypeOK
    /\ (Quiet /\ Regular) =>
         /\ keyboard_inbuf = <<>>
         /\ keys_pressed \ {"PAUSE"} = held \ {"PAUSE"}
         /\ keyboard_led_map = locks
    /\ (Quiet /\ ~failed) => lamps = keyboard_led_map

\* The characters of a text that show.
Visible(c) == c \notin {"0", "past"}
Shown(p) ==
    LET seen[i \in 0 .. Len(p)] == IF i = 0 THEN <<>>
                                  ELSE IF Visible(p[i]) THEN Append(seen[i - 1], p[i])
                                  ELSE seen[i - 1]
    IN  seen[Len(p)]

\* The characters printed are those the user typed, in order, by the keys
\* that were held and the locks that were set at the time, however late the
\* driver comes to it (c_keyboard.c:371-502).
PrintsWhatIsTyped == Regular => IsPrefix(Shown(printed), meant)

\* The driver never waits for ever in a command, for a lock or an answer,
\* with whatever the keyboard answers: it comes back to reading keys
\* (c_keyboard.c:188-199, 238-260).
CommandsEnd == at # "main" ~> at = "main"
=============================================================================
