--------------------------- MODULE SecondKeyboard ---------------------------
(***************************************************************************)
(* The second keyboard driver, in variables of its own, for use beside the *)
(* first: no build of the kernel runs both.                                *)
(***************************************************************************)
CONSTANTS Keys, Tries, MaxMoves, MaxTrouble

VARIABLES held, locks, lamps, last, wire, awaits,
          keyboard_inbuf, keys_pressed, keyboard_led_map, keyboard_mutex,
          doing, command, tries, meant, printed, moves, trouble, odd, lost, failed

D == INSTANCE KeyDecoder WITH
       MaxTyped <- MaxMoves, at <- doing, byte <- command, typed <- moves

ASSUME DecoderFits == D!KeyDecoderAssumption

DecoderSpec == D!FairSpec

-----------------------------------------------------------------------------
(* When all is read, nothing is left half decoded, the driver knows which  *)
(* keys are down and which locks are set, and has lit their lamps unless   *)
(* the command failed (c_keyboard.c:69-99, 359-367).                       *)
KnowsTheKeyboard == D!KnowsTheKeyboard

(* The characters printed are those the user typed, in order, by the keys  *)
(* held and the locks set at the time (c_keyboard.c:371-502).              *)
PrintsWhatIsTyped == D!PrintsWhatIsTyped

(* The driver never waits for ever in a command (c_keyboard.c:188-260).    *)
CommandsEnd == D!CommandsEnd
=============================================================================
