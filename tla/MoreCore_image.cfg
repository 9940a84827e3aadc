\* The geometry of MoreCore.cfg, with requests that all fit.
SPECIFICATION Spec
CONSTANTS
  main = main
  Bits = 4
  Groups = 4
  WordSupers = 12
  KernelWords = 1
  Words = 3
  BootSupers = 4
  ShortTop = 32
  Callers = {main}
  KernelSizes = {1,4}
  UserSizes = {1,129}
  MaxCalls = 6
INVARIANT KernelImageIsKept
CHECK_DEADLOCK FALSE
