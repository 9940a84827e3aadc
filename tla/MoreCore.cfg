\* Superpages of 4 groups of 4 pages, twelve to a word, shorts of 6 bits; requests of a
\* page, of a superpage, which does not fit, of a page more than a superpage, and of
\* eight superpages and a page, which come to fill some of the last word.
SPECIFICATION Spec
CONSTANTS
  main = main
  Bits = 4
  Groups = 4
  WordSupers = 12
  KernelWords = 1
  Words = 3
  BootSupers = 4
  ShortTop = 32
  Callers = {main}
  KernelSizes = {1,16,17}
  UserSizes = {1,17,129}
  MaxCalls = 6
INVARIANTS RunsAreApart TablesAgree
CHECK_DEADLOCK FALSE
