------------------------------ MODULE IrqWatch ------------------------------
(***************************************************************************)
(* Interrupt-request ownership in RippleKernel: irqs.c (watch_irq,         *)
(* release_irq, the soft mask `irqs`, irq_watcher_helper), the present bit *)
(* of the IDT gates (idt.c) and the watcher stubs of irqs_utils.asm, over  *)
(* a model of the CPU's IF flag, the timer preemption and the two 8259s.   *)
(*                                                                         *)
(* A driver is a thread that calls watch_irq and release_irq.  A call is   *)
(* split where the build (gcc -O2) splits it: at every load and store of   *)
(* shared memory and at every port write.  `running` is the thread the     *)
(* CPU executes; Tick preempts it whenever IF is set.  A driver of         *)
(* UsesCli brackets its calls by cli/sti, as setup_keyboard does           *)
(* (keyboard.c:104-120); another one calls with interrupts enabled.        *)
(***************************************************************************)
EXTENDS Integers

CONSTANTS
    Drivers,     \* the threads that watch IRQs
    UsesCli,     \* the drivers that hold interrupts off around a call
    IRQs,        \* the IRQ numbers in use, IRQ 0 (timer) among them
    KeyOf,       \* the initial contents of irq_keys
    Offered,     \* the keys the drivers pass
    CountWidth   \* irq_watching counts modulo this (2^16 in the code)

Timer == 0
Cascade == 2     \* the input of PIC1 the second PIC hangs on

ASSUME IrqAssumption ==
    /\ Drivers # {}
    /\ UsesCli \subseteq Drivers
    /\ IRQs \subseteq 0..14 /\ Timer \in IRQs
    /\ (\E n \in IRQs : n >= 8) => Cascade \in IRQs
    /\ KeyOf \in [IRQs -> Nat]
    /\ Offered \subseteq Nat
    /\ CountWidth \in Nat \ {0, 1}

\* A key opens one watch: KeyOf[n] + 1 is not a key any driver holds.  The
\* table of irqs.c:11-14 and the all-zero one of line 9 both satisfy it.
ASSUME KeysApart == \A n \in IRQs, k \in Offered : k # KeyOf[n] + 1

VARIABLES
    irq_keys,      \* [IRQs -> Nat]: the key, or the key + 1 while watched
    irq_watching,  \* [IRQs -> count of the firings]
    irqs,          \* the software copy of the mask: the set of masked IRQs
    imr,           \* the mask the PICs hold
    gate,          \* the IRQs whose IDT gate has its present bit set
    irr,           \* the requests latched in the PICs
    intOn,         \* the interrupt flag IF of the CPU
    running,       \* the thread the CPU executes
    halted,        \* fault() ran: cli; hlt
    at,            \* [Drivers -> where the driver is in a call]
    arg,           \* [Drivers -> the irq_number of the call]
    reg,           \* [Drivers -> the register that holds `irqs`]
    holds          \* [Drivers -> the IRQs it was granted and not released]

kernelVars == <<irq_keys, irq_watching, irqs, gate>>
cpuVars == <<intOn, running, halted>>
picVars == <<imr, irr>>
driverVars == <<at, arg, reg, holds>>
vars == <<kernelVars, cpuVars, picVars, driverVars>>

Watched == IRQs \ {Timer}
WatchSteps == {"claim", "gate", "unload", "unstore", "unout"}
ReleaseSteps == {"load", "store", "out", "ungate", "drop"}
Steps == {"idle"} \cup WatchSteps \cup ReleaseSteps

\* What outportb writes: one byte, so the half of the mask of n's PIC.
Half(n) == IF n < 8 THEN 0..7 ELSE 8..15
Written(old, mask, n) == (old \ Half(n)) \cup (mask \cap Half(n))

-----------------------------------------------------------------------------
(* After setup_irqs: everything masked, the watcher stubs installed with   *)
(* their gates not present.  cool_down_thread runs first, with IF clear.   *)
Init ==
    /\ irq_keys = KeyOf
    /\ irq_watching = [n \in IRQs |-> 0]
    /\ irqs = IRQs /\ imr = IRQs
    /\ gate = {Timer}
    /\ irr = {}
    /\ intOn = FALSE /\ running \in Drivers /\ halted = FALSE
    /\ at = [d \in Drivers |-> "boot"]
    /\ arg = [d \in Drivers |-> Timer]
    /\ reg = [d \in Drivers |-> {}]
    /\ holds = [d \in Drivers |-> {}]

\* cool_down_thread: unmask_irq(0), sti; the other threads run from now on.
StartTimer ==
    /\ \A d \in Drivers : at[d] = "boot"
    /\ irqs' = irqs \ {Timer}
    /\ imr' = Written(imr, irqs \ {Timer}, Timer)
    /\ intOn' = TRUE
    /\ at' = [d \in Drivers |-> "idle"]
    /\ UNCHANGED <<irq_keys, irq_watching, gate, irr, running, halted,
                   arg, reg, holds>>

-----------------------------------------------------------------------------
(* A driver's step: it runs only while the CPU executes it.                *)
Run(d, here, next) ==
    /\ ~halted /\ running = d
    /\ at[d] = here
    /\ at' = [at EXCEPT ![d] = next]

Cli(d) ==
    /\ d \in UsesCli /\ intOn /\ Run(d, "idle", "idle")
    /\ intOn' = FALSE
    /\ UNCHANGED <<kernelVars, picVars, running, halted, arg, reg, holds>>

Sti(d) ==
    /\ ~intOn /\ Run(d, "idle", "idle")
    /\ intOn' = TRUE
    /\ UNCHANGED <<kernelVars, picVars, running, halted, arg, reg, holds>>

MayCall(d) == d \in UsesCli => ~intOn

\* watch_irq(n, k), the test of line 81 passing: irq_keys[n] is read here.
CallWatch(d, n, k) ==
    /\ MayCall(d)
    /\ irq_keys[n] = k /\ n # Timer
    /\ Run(d, "idle", "claim")
    /\ arg' = [arg EXCEPT ![d] = n]
    /\ UNCHANGED <<kernelVars, cpuVars, picVars, reg, holds>>

\* The test failing: 0 is returned and nothing is touched.
WatchRefused(d, n, k) ==
    /\ MayCall(d)
    /\ ~(irq_keys[n] = k /\ n # Timer)
    /\ Run(d, "idle", "idle")
    /\ UNCHANGED <<kernelVars, cpuVars, picVars, arg, reg, holds>>

\* Slip: the key is left as it is.
ClaimKeepsKey(d) ==
    /\ Run(d, "claim", "gate")
    /\ irq_watching' = [irq_watching EXCEPT ![arg[d]] = 0]
    /\ UNCHANGED <<irq_keys, irqs, gate, cpuVars, picVars, arg, reg, holds>>

\* Slip: the counter is not reset.
ClaimKeepsCount(d) ==
    /\ Run(d, "claim", "gate")
    /\ irq_keys' = [irq_keys EXCEPT ![arg[d]] = @ + 1]
    /\ UNCHANGED <<irq_watching, irqs, gate, cpuVars, picVars, arg, reg, holds>>

\* Lines 83-84.  The increment adds to the memory word or to the register
\* the test loaded (which then holds KeyOf), as the compiler likes.
Claim(d) ==
    LET n == arg[d] IN
    /\ Run(d, "claim", "gate")
    /\ irq_watching' = [irq_watching EXCEPT ![n] = 0]
    /\ \E read \in {irq_keys[n], KeyOf[n]} :
           irq_keys' = [irq_keys EXCEPT ![n] = read + 1]
    /\ UNCHANGED <<irqs, gate, cpuVars, picVars, arg, reg, holds>>

\* Slip: the gate is not enabled.
EnableNothing(d) ==
    /\ Run(d, "gate", "unload")
    /\ UNCHANGED <<kernelVars, cpuVars, picVars, arg, reg, holds>>

EnableGate(d) ==
    /\ Run(d, "gate", "unload")
    /\ gate' = gate \cup {arg[d]}
    /\ UNCHANGED <<irq_keys, irq_watching, irqs, cpuVars, picVars,
                   arg, reg, holds>>

\* unmask_irq: load `irqs` and clear the bit, store it, write the PIC.
UnmaskLoad(d) ==
    /\ Run(d, "unload", "unstore")
    /\ reg' = [reg EXCEPT ![d] = irqs \ {arg[d]}]
    /\ UNCHANGED <<kernelVars, cpuVars, picVars, arg, holds>>

UnmaskStore(d) ==
    /\ Run(d, "unstore", "unout")
    /\ irqs' = reg[d]
    /\ UNCHANGED <<irq_keys, irq_watching, gate, cpuVars, picVars,
                   arg, reg, holds>>

\* Slip: only the soft mask is changed.
UnmaskSoftly(d) ==
    /\ Run(d, "unout", "idle")
    /\ holds' = [holds EXCEPT ![d] = @ \cup {arg[d]}]
    /\ reg' = [reg EXCEPT ![d] = {}]
    /\ UNCHANGED <<kernelVars, cpuVars, picVars, arg>>

\* The port write, then watch_irq returns the address of the counter.
UnmaskOut(d) ==
    /\ Run(d, "unout", "idle")
    /\ imr' = Written(imr, reg[d], arg[d])
    /\ holds' = [holds EXCEPT ![d] = @ \cup {arg[d]}]
    /\ reg' = [reg EXCEPT ![d] = {}]
    /\ UNCHANGED <<kernelVars, cpuVars, irr, arg>>

\* release_irq(n, key) by a driver that was granted n.
CallRelease(d, n) ==
    /\ MayCall(d)
    /\ n \in holds[d]
    /\ irq_keys[n] - 1 = KeyOf[n] /\ n # Timer
    /\ Run(d, "idle", "load")
    /\ arg' = [arg EXCEPT ![d] = n]
    /\ holds' = [holds EXCEPT ![d] = @ \ {n}]
    /\ UNCHANGED <<kernelVars, cpuVars, picVars, reg>>

MaskLoad(d) ==
    /\ Run(d, "load", "store")
    /\ reg' = [reg EXCEPT ![d] = irqs \cup {arg[d]}]
    /\ UNCHANGED <<kernelVars, cpuVars, picVars, arg, holds>>

MaskStore(d) ==
    /\ Run(d, "store", "out")
    /\ irqs' = reg[d]
    /\ UNCHANGED <<irq_keys, irq_watching, gate, cpuVars, picVars,
                   arg, reg, holds>>

MaskOut(d) ==
    /\ Run(d, "out", "ungate")
    /\ imr' = Written(imr, reg[d], arg[d])
    /\ reg' = [reg EXCEPT ![d] = {}]
    /\ UNCHANGED <<kernelVars, cpuVars, irr, arg, holds>>

DisableGate(d) ==
    /\ Run(d, "ungate", "drop")
    /\ gate' = gate \ {arg[d]}
    /\ UNCHANGED <<irq_keys, irq_watching, irqs, cpuVars, picVars,
                   arg, reg, holds>>

\* Slip: the key is not put back.
KeepKey(d) ==
    /\ Run(d, "drop", "idle")
    /\ UNCHANGED <<kernelVars, cpuVars, picVars, arg, reg, holds>>

DropKey(d) ==
    /\ Run(d, "drop", "idle")
    /\ irq_keys' = [irq_keys EXCEPT ![arg[d]] = @ - 1]
    /\ UNCHANGED <<irq_watching, irqs, gate, cpuVars, picVars,
                   arg, reg, holds>>

WatchStep(d) ==
    \/ Claim(d) \/ EnableGate(d)
    \/ UnmaskLoad(d) \/ UnmaskStore(d) \/ UnmaskOut(d)

ReleaseStep(d) ==
    \/ MaskLoad(d) \/ MaskStore(d) \/ MaskOut(d)
    \/ DisableGate(d) \/ DropKey(d)

Call(d) ==
    \/ \E n \in IRQs, k \in Offered : CallWatch(d, n, k) \/ WatchRefused(d, n, k)
    \/ \E n \in IRQs : CallRelease(d, n)

-----------------------------------------------------------------------------
(* The hardware.  Requests are edges the PIC latches, masked or not.       *)
Raise(n) ==
    /\ n \notin irr \cup {Cascade, Timer}
    /\ irr' = irr \cup {n}
    /\ UNCHANGED <<kernelVars, cpuVars, imr, driverVars>>

\* The timer: irq0 saves the thread and resumes another (Scheduler.tla).
Tick ==
    /\ ~halted /\ intOn /\ Timer \notin imr
    /\ running' \in Drivers
    /\ UNCHANGED <<kernelVars, picVars, intOn, halted, driverVars>>

\* A request of the second PIC reaches the CPU through the cascade input.
Open(n) == n \notin imr /\ (n >= 8 => Cascade \notin imr)

\* Slip: a counter wider than u_short.
DeliverWide(n) ==
    /\ ~halted /\ intOn /\ n \in irr /\ Open(n)
    /\ irr' = irr \ {n}
    /\ halted' = (n \notin gate)
    /\ irq_watching' = [irq_watching EXCEPT ![n] = @ + 1]
    /\ UNCHANGED <<irq_keys, irqs, gate, imr, intOn, running, driverVars>>

\* IRQ_WATCHER_1/2: irq_watcher_helper and the EOIs, with IF clear, so in
\* one step.  A gate that is not present faults, and fault() halts.
Deliver(n) ==
    /\ ~halted /\ intOn /\ n \in irr /\ Open(n)
    /\ irr' = irr \ {n}
    /\ halted' = (n \notin gate)
    /\ irq_watching' = IF n \in gate
                       THEN [irq_watching EXCEPT ![n] = (@ + 1) % CountWidth]
                       ELSE irq_watching
    /\ UNCHANGED <<irq_keys, irqs, gate, imr, intOn, running, driverVars>>

Thread(d) == Cli(d) \/ Sti(d) \/ Call(d) \/ WatchStep(d) \/ ReleaseStep(d)

Next ==
    \/ StartTimer
    \/ \E d \in Drivers : Thread(d)
    \/ Tick
    \/ \E n \in IRQs : Raise(n) \/ Deliver(n)

Spec == Init /\ [][Next]_vars

\* A thread that is inside a call, or holds interrupts off, goes on when the
\* CPU executes it; every thread gets the CPU again (round robin); a pending
\* request is taken at the first instruction boundary with IF set, and the
\* devices do not storm, so one that is deliverable again and again is taken.
Fairness ==
    /\ WF_vars(StartTimer)
    /\ \A d \in Drivers :
         /\ SF_vars(WatchStep(d) \/ ReleaseStep(d)) /\ SF_vars(Sti(d))
         /\ SF_vars(Tick /\ running' = d)
    /\ \A n \in Watched : SF_vars(Deliver(n))

FairSpec == Spec /\ Fairness
-----------------------------------------------------------------------------
(* What is checked.                                                        *)

TypeOK ==
    /\ irq_keys \in [IRQs -> Nat]
    /\ irq_watching \in [IRQs -> 0..(CountWidth - 1)]
    /\ irqs \subseteq IRQs /\ imr \subseteq IRQs
    /\ gate \subseteq IRQs /\ irr \subseteq Watched
    /\ intOn \in BOOLEAN /\ running \in Drivers /\ halted \in BOOLEAN
    /\ at \in [Drivers -> Steps \cup {"boot"}]
    /\ arg \in [Drivers -> IRQs]
    /\ reg \in [Drivers -> SUBSET IRQs]
    /\ holds \in [Drivers -> SUBSET Watched]

InCall(d) == at[d] \in WatchSteps \cup ReleaseSteps

\* "Only one driver at a time is watching an IRQ" (irqs.c:72-74): no two
\* drivers hold a pointer to the counter of one IRQ.
ExclusiveWatch ==
    \A d, e \in Drivers : d # e => holds[d] \cap holds[e] = {}

\* An IRQ whose line is open at the PICs has a present gate, in the middle
\* of a call too: otherwise its next request is a #NP fault and a halt.
OpenLineHasGate == \A n \in IRQs : n \notin imr => n \in gate

\* Between calls the four places that say an IRQ is watched agree: the key,
\* the gate, the soft mask and the mask in the PIC; and the timer is on.
WatchStateAgrees ==
    (\A d \in Drivers : at[d] = "idle") =>
        /\ imr = irqs /\ Timer \notin imr
        /\ \A n \in Watched :
             LET held == \E d \in Drivers : n \in holds[d] IN
             /\ n \in gate <=> held
             /\ n \notin irqs <=> held
             /\ irq_keys[n] = KeyOf[n] + (IF held THEN 1 ELSE 0)

Awaited(n) == n \in irr /\ \E d \in Drivers : n \in holds[d]

\* watch_irq returns a counter that counts (irqs.c:75-76): a request for a
\* watched IRQ is delivered, unless its driver releases it.
RequestIsDelivered ==
    \A n \in Watched \ {Cascade} : Awaited(n) ~> ~Awaited(n)

\* The same for a line of the second PIC only while the cascade input of the
\* first is open, which no call for that line opens.
ReachableRequestIsDelivered ==
    \A n \in Watched \ {Cascade} :
        Awaited(n) ~> (~Awaited(n) \/ (n >= 8 /\ Cascade \in imr))
=============================================================================
