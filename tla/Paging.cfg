\* A page of the kernel, pages in the first and, up to its last entry, in the second
\* table of a group, and in another group, over clear or dirty memory; four pages are
\* left to pop, so they run out.  Beside it, any callers that push four pages before
\* the first pop, over a word that was clear, as in k_main.
SPECIFICATION PartSpec
CONSTANTS
  StackWords = 8
  Garbage = {0}
  Entries = 16
  BootPages = 7
  UserPages <- TwoGroups
  Fill <- Dirty
  Pages = {4, 8, 12, 16}
  BootOnly = TRUE
INVARIANTS OneUsePerFrame MappedAndNoMore NoPageTwice
PROPERTIES AccessEnds PopAnswersAFreePage
CHECK_DEADLOCK FALSE
