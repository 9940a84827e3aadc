---------------------------- MODULE ConsoleLock ----------------------------
(***************************************************************************)
(* The lock that putc would take (putchar.c:19 and 61, commented out), in  *)
(* variables of its own, for use beside the console's.                     *)
(***************************************************************************)
CONSTANTS Threads

VARIABLES mutex,     \* the byte
          state,     \* what each thread does
          result     \* what its last exchange read

Lock == INSTANCE Mutex WITH pc <- state

LockSpec == Lock!FairSpec

-----------------------------------------------------------------------------
(* Two threads are never between lock and unlock together (mutex.c:2-8).    *)
MutualExclusion == Lock!MutualExclusion

(* The byte is 1 exactly while some thread holds the lock (mutex.c:34-49).  *)
LockedByAHolder == Lock!LockedByAHolder

(* While threads wait for the lock, it keeps being taken (mutex.c:20-31).   *)
SomeoneGetsIn == Lock!SomeoneGetsIn
=============================================================================
