\* A letter, the modifiers, two locks, and a key of each odd encoding; four
\* movements, two command bytes that go wrong.
SPECIFICATION DecoderSpec
CONSTANTS
    Keys = {"A", "LSHIFT", "LCTRL", "RALT", "CAPSLOCK", "NUMLOCK", "RIGHT", "PRTSCR", "PAUSE"}
    Tries = 2
    MaxMoves = 4
    MaxTrouble = 2
INVARIANTS KnowsTheKeyboard PrintsWhatIsTyped
PROPERTIES CommandsEnd
CHECK_DEADLOCK FALSE
