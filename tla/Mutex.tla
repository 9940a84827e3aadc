------------------------------- MODULE Mutex -------------------------------
(***************************************************************************)
(* The spin lock of mutex.c: one byte, exchanged with 1 by a single        *)
(* instruction.  Threads, which the scheduler may switch between any two   *)
(* instructions, bracket a section with lock_mutex_block or with a         *)
(* successful lock_mutex_noblock, and unlock_mutex.                        *)
(***************************************************************************)
EXTENDS Naturals

CONSTANTS Threads

VARIABLES mutex,     \* the byte: 1 is locked
          pc,        \* what each thread does
          result     \* what its last exchange read

vars == <<mutex, pc, result>>

TypeOK == /\ mutex \in {0, 1}
          /\ pc \in [Threads -> {"idle", "spin", "test", "try", "answer", "section", "unlock"}]
          /\ result \in [Threads -> {0, 1}]

Init == /\ mutex = 0
        /\ pc = [t \in Threads |-> "idle"]
        /\ result = [t \in Threads |-> 1]

Goto(t, from, to) == pc[t] = from /\ pc' = [pc EXCEPT ![t] = to]

(* xchgb: read the byte and lock it, whatever it was.                       *)
Exchange(t) == result' = [result EXCEPT ![t] = mutex] /\ mutex' = 1

\* lock_mutex_block: result starts at 1 and the loop runs until it is 0.
CallBlock(t)  == Goto(t, "idle", "spin") /\ result' = [result EXCEPT ![t] = 1] /\ UNCHANGED mutex
BlockXchg(t)  == Goto(t, "spin", "test") /\ Exchange(t)
BlockAgain(t) == result[t] # 0 /\ Goto(t, "test", "spin") /\ UNCHANGED <<mutex, result>>
BlockDone(t)  == result[t] = 0 /\ Goto(t, "test", "section") /\ UNCHANGED <<mutex, result>>

\* lock_mutex_noblock: one exchange, and its answer: 1 "all ready locked", 0 "we just locked it".
CallTry(t)   == Goto(t, "idle", "try") /\ UNCHANGED <<mutex, result>>
TryXchg(t)   == Goto(t, "try", "answer") /\ Exchange(t)
TryFailedFree(t) == result[t] = 1 /\ Goto(t, "answer", "idle")
                    /\ mutex' = 0 /\ UNCHANGED result         \* slip: unlocks on failure
TryFailed(t) == result[t] = 1 /\ Goto(t, "answer", "idle") /\ UNCHANGED <<mutex, result>>
TryAlways(t) == Goto(t, "answer", "section") /\ UNCHANGED <<mutex, result>>  \* slip: no test
TryGotIt(t)  == result[t] = 0 /\ Goto(t, "answer", "section") /\ UNCHANGED <<mutex, result>>

Leave(t)  == Goto(t, "section", "unlock") /\ UNCHANGED <<mutex, result>>
KeepLocked(t) == Goto(t, "unlock", "idle") /\ UNCHANGED <<mutex, result>>     \* slip: no store
Unlock(t) == Goto(t, "unlock", "idle") /\ mutex' = 0 /\ UNCHANGED result

Run(t) == \/ BlockXchg(t) \/ BlockAgain(t) \/ BlockDone(t)
          \/ TryXchg(t) \/ TryFailed(t) \/ TryGotIt(t)
          \/ Leave(t) \/ Unlock(t)

Next == \E t \in Threads : CallBlock(t) \/ CallTry(t) \/ Run(t)

Spec == Init /\ [][Next]_vars

(* The round-robin scheduler runs every thread again and again, and a       *)
(* thread that holds the lock goes on to release it.                        *)
FairSpec == Spec /\ \A t \in Threads : WF_vars(Run(t))

-----------------------------------------------------------------------------
\* A thread that holds the lock, whether or not it has seen so yet.
Holds(t) == \/ pc[t] \in {"section", "unlock"}
            \/ pc[t] \in {"test", "answer"} /\ result[t] = 0

(* Two threads are never between lock and unlock together (mutex.c:2-8).    *)
MutualExclusion == \A t, u \in Threads :
    (pc[t] \in {"section", "unlock"} /\ pc[u] \in {"section", "unlock"}) => t = u

(* The byte is 1 exactly while some thread holds the lock: a failed         *)
(* exchange, which writes 1 too, never leaves it locked for nobody          *)
(* (mutex.c:34-49).                                                        *)
LockedByAHolder == (mutex = 1) <=> \E t \in Threads : Holds(t)

(* While threads wait in lock_mutex_block, the lock keeps being taken       *)
(* (mutex.c:20-31; not that each waiter takes it: a spin lock has no queue).*)
SomeoneGetsIn == (\E t \in Threads : pc[t] = "spin") ~> (\E t \in Threads : pc[t] = "section")
=============================================================================
