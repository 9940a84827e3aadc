--------------------------- MODULE IrqWatch_proofs ---------------------------
(***************************************************************************)
(* The safety of IrqWatch for every set of drivers, IRQs and keys, when    *)
(* the drivers are Disciplined: each holds interrupts off around its       *)
(* calls, or there is only one of them, and then IrqWatch implements       *)
(* IrqTable.                                                               *)
(***************************************************************************)
EXTENDS IrqWatchRefines, TLAPS

Disciplined == UsesCli = Drivers \/ \A d, e \in Drivers : d = e

\* Before cool_down_thread runs, nothing is watched and interrupts are off.
BootInv ==
    (\E d \in Drivers : at[d] = "boot") =>
        /\ ~intOn
        /\ \A d \in Drivers : at[d] = "boot" /\ holds[d] = {}
        /\ irqs = IRQs /\ imr = IRQs /\ gate = {Timer}

\* One driver at a time is inside a call.
SerialInv ==
    /\ \A d \in Drivers : InCall(d) /\ d \in UsesCli => ~intOn /\ running = d
    /\ \A d, e \in Drivers : InCall(d) /\ InCall(e) => d = e

\* A granted IRQ has its key taken and belongs to nobody else, nor to the
\* call in progress.
OwnerInv ==
    /\ ExclusiveWatch
    /\ \A n \in Watched : irq_keys[n] \in {KeyOf[n], KeyOf[n] + 1}
    /\ \A d \in Drivers : \A n \in holds[d] : irq_keys[n] = KeyOf[n] + 1
    /\ \A d \in Drivers : InCall(d) =>
         /\ arg[d] \in Watched
         /\ \A e \in Drivers : arg[d] \notin holds[e]
         /\ irq_keys[arg[d]] = KeyOf[arg[d]] + (IF at[d] = "claim" THEN 0 ELSE 1)

\* The PICs hold the soft mask, but for the bit a call is about to write.
MaskInv ==
    /\ \A d \in Drivers :
         /\ at[d] = "unstore" => reg[d] = irqs \ {arg[d]}
         /\ at[d] = "store" => reg[d] = irqs \cup {arg[d]}
         /\ at[d] \in {"unout", "out"} => reg[d] = irqs
         /\ at[d] = "unout" => arg[d] \notin irqs
         /\ at[d] = "out" => arg[d] \in irqs
    /\ \A n \in IRQs : ~(n \in imr <=> n \in irqs) =>
         \E d \in Drivers : at[d] \in {"unout", "out"} /\ arg[d] = n

\* A gate is opened before its line and closed after it.
GateInv ==
    /\ OpenLineHasGate
    /\ \A d \in Drivers :
         /\ at[d] \in {"unload", "unstore", "unout"} => arg[d] \in gate
         /\ at[d] \in {"ungate", "drop"} => arg[d] \in imr

SafeInv ==
    /\ TypeOK /\ BootInv /\ SerialInv /\ OwnerInv /\ MaskInv /\ GateInv
    /\ ~halted

Held(n) == \E d \in Drivers : n \in holds[d]
Busy(n, S) == \E d \in Drivers : arg[d] = n /\ at[d] \in S

\* A watched IRQ is fully set up, and whatever is still set up for an IRQ is
\* there for its watcher or for the call that is about to undo it.
AgreeInv ==
    /\ Timer \in gate
    /\ (\E d \in Drivers : at[d] = "boot") \/ Timer \notin irqs
    /\ \A n \in Watched :
         /\ Held(n) => n \in gate /\ n \notin irqs
         /\ irq_keys[n] = KeyOf[n] + 1 =>
              Held(n) \/ Busy(n, Steps \ {"idle", "claim"})
         /\ n \in gate =>
              Held(n) \/ Busy(n, Steps \ {"idle", "claim", "gate", "drop"})
         /\ n \notin irqs => Held(n) \/ Busy(n, {"unout", "load", "store"})

USE DEF Watched, Timer, Cascade

\* SafeInv is kept when cool_down_thread unmasks the timer and turns interrupts on.
LEMMA StartTimerKeeps ==
    ASSUME SafeInv, Disciplined, StartTimer
    PROVE  SafeInv'
<1> USE DEF SafeInv, TypeOK, StartTimer
<1>1. TypeOK'
  BY IrqAssumption DEF Steps, WatchSteps, ReleaseSteps, Written, Half
<1>2. BootInv' /\ SerialInv'
  BY DEF BootInv, SerialInv, InCall, Disciplined, WatchSteps, ReleaseSteps
<1>3. OwnerInv'
  BY DEF OwnerInv, InCall, ExclusiveWatch, BootInv, WatchSteps, ReleaseSteps
<1>4. MaskInv'
  BY IrqAssumption DEF MaskInv, Written, Half, BootInv
<1>5. GateInv' /\ ~halted'
  BY IrqAssumption DEF GateInv, OpenLineHasGate, Written, Half, BootInv
<1>6. QED  BY <1>1, <1>2, <1>3, <1>4, <1>5

\* SafeInv is kept when a driver turns interrupts off.
LEMMA CliKeeps ==
    ASSUME SafeInv, Disciplined, NEW d \in Drivers, Cli(d)
    PROVE  SafeInv'
<1> USE DEF SafeInv, TypeOK, Cli, Run, kernelVars, picVars
<1>1. TypeOK'
  BY IrqAssumption DEF Steps, WatchSteps, ReleaseSteps
<1>2. BootInv' /\ SerialInv'
  BY DEF BootInv, SerialInv, InCall, Disciplined, WatchSteps, ReleaseSteps
<1>3. OwnerInv'
  BY DEF OwnerInv, InCall, ExclusiveWatch, SerialInv, WatchSteps,
      ReleaseSteps
<1>4. MaskInv'
  BY DEF MaskInv, SerialInv, InCall, WatchSteps, ReleaseSteps
<1>5. GateInv' /\ ~halted'
  BY DEF GateInv, OpenLineHasGate, SerialInv, OwnerInv, InCall, WatchSteps,
      ReleaseSteps
<1>6. QED  BY <1>1, <1>2, <1>3, <1>4, <1>5

\* SafeInv is kept when a driver turns interrupts on again.
LEMMA StiKeeps ==
    ASSUME SafeInv, Disciplined, NEW d \in Drivers, Sti(d)
    PROVE  SafeInv'
<1> USE DEF SafeInv, TypeOK, Sti, Run, kernelVars, picVars
<1>1. TypeOK'
  BY IrqAssumption DEF Steps, WatchSteps, ReleaseSteps
<1>2. BootInv' /\ SerialInv'
  BY DEF BootInv, SerialInv, InCall, Disciplined, WatchSteps, ReleaseSteps
<1>3. OwnerInv'
  BY DEF OwnerInv, InCall, ExclusiveWatch, SerialInv, WatchSteps,
      ReleaseSteps
<1>4. MaskInv'
  BY DEF MaskInv, SerialInv, InCall, WatchSteps, ReleaseSteps
<1>5. GateInv' /\ ~halted'
  BY DEF GateInv, OpenLineHasGate, SerialInv, OwnerInv, InCall, WatchSteps,
      ReleaseSteps
<1>6. QED  BY <1>1, <1>2, <1>3, <1>4, <1>5

\* SafeInv is kept when watch_irq enters with a key that fits (irqs.c:81).
LEMMA CallWatchKeeps ==
    ASSUME SafeInv, Disciplined, NEW d \in Drivers,
           NEW n \in IRQs, NEW k \in Offered, CallWatch(d, n, k)
    PROVE  SafeInv'
<1> USE DEF SafeInv, TypeOK, CallWatch, Run, kernelVars, cpuVars, picVars
<1>1. TypeOK'
  BY IrqAssumption DEF Steps, WatchSteps, ReleaseSteps
<1>2. BootInv' /\ SerialInv'
  BY DEF BootInv, SerialInv, InCall, Disciplined, MayCall, WatchSteps,
      ReleaseSteps
<1>3. OwnerInv'
  BY KeysApart, IrqAssumption DEF OwnerInv, InCall, ExclusiveWatch,
      SerialInv, WatchSteps, ReleaseSteps
<1>4. MaskInv'
  BY DEF MaskInv, SerialInv, InCall, WatchSteps, ReleaseSteps
<1>5. GateInv' /\ ~halted'
  BY DEF GateInv, OpenLineHasGate, SerialInv, OwnerInv, InCall, WatchSteps,
      ReleaseSteps
<1>6. QED  BY <1>1, <1>2, <1>3, <1>4, <1>5

\* SafeInv is kept when watch_irq resets the counter and takes the key (irqs.c:83-84).
LEMMA ClaimKeeps ==
    ASSUME SafeInv, NEW d \in Drivers, Claim(d)
    PROVE  SafeInv'
<1> USE DEF SafeInv, TypeOK, Claim, Run, cpuVars, picVars
<1>a. at[d] = "claim" /\ arg[d] \in Watched
  BY DEF OwnerInv, InCall, WatchSteps
<1>b. irq_keys[arg[d]] = KeyOf[arg[d]] + 0
  BY <1>a DEF OwnerInv, InCall, WatchSteps
<1>c. irq_keys[arg[d]] = KeyOf[arg[d]] /\ KeyOf[arg[d]] \in Nat
  <2>1. KeyOf[arg[d]] \in Nat
    BY <1>a, IrqAssumption
  <2>2. QED  BY <1>b, <2>1
<1>d. irq_keys' = [irq_keys EXCEPT ![arg[d]] = KeyOf[arg[d]] + 1]
  BY <1>c
<1>e. irq_keys' \in [IRQs -> Nat]
  BY <1>a, <1>c, <1>d
<1>f. irq_watching' \in [IRQs -> 0..(CountWidth - 1)]
  BY <1>a, IrqAssumption
<1>1. TypeOK'
  BY <1>e, <1>f, IrqAssumption DEF Steps, WatchSteps, ReleaseSteps
<1>2. BootInv' /\ SerialInv'
  BY DEF BootInv, SerialInv, InCall, WatchSteps, ReleaseSteps
<1>3. OwnerInv'
  BY <1>a, <1>c, <1>d DEF OwnerInv, InCall, ExclusiveWatch, SerialInv,
      WatchSteps, ReleaseSteps
<1>4. MaskInv'
  BY DEF MaskInv, SerialInv, InCall, WatchSteps, ReleaseSteps
<1>5. GateInv' /\ ~halted'
  BY DEF GateInv, OpenLineHasGate, SerialInv, OwnerInv, InCall, WatchSteps,
      ReleaseSteps
<1>6. QED  BY <1>1, <1>2, <1>3, <1>4, <1>5

\* SafeInv is kept when watch_irq enables the gate (irqs.c:85).
LEMMA EnableGateKeeps ==
    ASSUME SafeInv, NEW d \in Drivers, EnableGate(d)
    PROVE  SafeInv'
<1> USE DEF SafeInv, TypeOK, EnableGate, Run, cpuVars, picVars
<1>1. TypeOK'
  BY IrqAssumption DEF Steps, WatchSteps, ReleaseSteps
<1>2. BootInv' /\ SerialInv'
  BY DEF BootInv, SerialInv, InCall, WatchSteps, ReleaseSteps
<1>3. OwnerInv'
  BY DEF OwnerInv, InCall, ExclusiveWatch, SerialInv, WatchSteps,
      ReleaseSteps
<1>4. MaskInv'
  BY DEF MaskInv, SerialInv, InCall, WatchSteps, ReleaseSteps
<1>5. GateInv' /\ ~halted'
  BY DEF GateInv, OpenLineHasGate, SerialInv, OwnerInv, InCall, WatchSteps,
      ReleaseSteps
<1>6. QED  BY <1>1, <1>2, <1>3, <1>4, <1>5

\* SafeInv is kept when unmask_irq loads the soft mask (irqs.c:144).
LEMMA UnmaskLoadKeeps ==
    ASSUME SafeInv, NEW d \in Drivers, UnmaskLoad(d)
    PROVE  SafeInv'
<1> USE DEF SafeInv, TypeOK, UnmaskLoad, Run, kernelVars, cpuVars, picVars
<1>1. TypeOK'
  BY IrqAssumption DEF Steps, WatchSteps, ReleaseSteps
<1>2. BootInv' /\ SerialInv'
  BY DEF BootInv, SerialInv, InCall, WatchSteps, ReleaseSteps
<1>3. OwnerInv'
  BY DEF OwnerInv, InCall, ExclusiveWatch, SerialInv, WatchSteps,
      ReleaseSteps
<1>4. MaskInv'
  BY DEF MaskInv, SerialInv, InCall, WatchSteps, ReleaseSteps
<1>5. GateInv' /\ ~halted'
  BY DEF GateInv, OpenLineHasGate, SerialInv, OwnerInv, InCall, WatchSteps,
      ReleaseSteps
<1>6. QED  BY <1>1, <1>2, <1>3, <1>4, <1>5

\* SafeInv is kept when unmask_irq stores the soft mask (irqs.c:144).
LEMMA UnmaskStoreKeeps ==
    ASSUME SafeInv, NEW d \in Drivers, UnmaskStore(d)
    PROVE  SafeInv'
<1> USE DEF SafeInv, TypeOK, UnmaskStore, Run, cpuVars, picVars
<1>1. TypeOK'
  BY IrqAssumption DEF Steps, WatchSteps, ReleaseSteps
<1>2. BootInv' /\ SerialInv'
  BY DEF BootInv, SerialInv, InCall, WatchSteps, ReleaseSteps
<1>3. OwnerInv'
  BY DEF OwnerInv, InCall, ExclusiveWatch, SerialInv, WatchSteps,
      ReleaseSteps
<1>4. MaskInv'
  BY DEF MaskInv, SerialInv, InCall, WatchSteps, ReleaseSteps
<1>5. GateInv' /\ ~halted'
  BY DEF GateInv, OpenLineHasGate, SerialInv, OwnerInv, InCall, WatchSteps,
      ReleaseSteps
<1>6. QED  BY <1>1, <1>2, <1>3, <1>4, <1>5

\* SafeInv is kept when unmask_irq writes the PIC, and watch_irq returns (irqs.c:145-151, 87).
LEMMA UnmaskOutKeeps ==
    ASSUME SafeInv, NEW d \in Drivers, UnmaskOut(d)
    PROVE  SafeInv'
<1> USE DEF SafeInv, TypeOK, UnmaskOut, Run, kernelVars, cpuVars
<1>a. arg[d] \in Watched /\ imr' \subseteq IRQs
  BY DEF OwnerInv, InCall, WatchSteps, Written
<1>1. TypeOK'
  BY <1>a, IrqAssumption DEF Steps, WatchSteps, ReleaseSteps
<1>2. BootInv' /\ SerialInv'
  BY DEF BootInv, SerialInv, InCall, WatchSteps, ReleaseSteps
<1>3. OwnerInv'
  BY DEF OwnerInv, InCall, ExclusiveWatch, SerialInv, WatchSteps,
      ReleaseSteps
<1>4. MaskInv'
  BY IrqAssumption DEF MaskInv, SerialInv, InCall, WatchSteps, ReleaseSteps,
      Written, Half
<1>5. GateInv' /\ ~halted'
  BY IrqAssumption DEF GateInv, OpenLineHasGate, SerialInv, OwnerInv, InCall,
      WatchSteps, ReleaseSteps, MaskInv, Written, Half
<1>6. QED  BY <1>1, <1>2, <1>3, <1>4, <1>5

\* SafeInv is kept when release_irq enters with the driver's own key (irqs.c:98).
LEMMA CallReleaseKeeps ==
    ASSUME SafeInv, Disciplined, NEW d \in Drivers, NEW n \in IRQs, CallRelease(d, n)
    PROVE  SafeInv'
<1> USE DEF SafeInv, TypeOK, CallRelease, Run, kernelVars, cpuVars, picVars
<1>1. TypeOK'
  BY IrqAssumption DEF Steps, WatchSteps, ReleaseSteps
<1>2. BootInv' /\ SerialInv'
  BY DEF BootInv, SerialInv, InCall, Disciplined, MayCall, WatchSteps,
      ReleaseSteps
<1>3. OwnerInv'
  BY DEF OwnerInv, InCall, ExclusiveWatch, SerialInv, WatchSteps,
      ReleaseSteps
<1>4. MaskInv'
  BY DEF MaskInv, SerialInv, InCall, WatchSteps, ReleaseSteps
<1>5. GateInv' /\ ~halted'
  BY DEF GateInv, OpenLineHasGate, SerialInv, OwnerInv, InCall, WatchSteps,
      ReleaseSteps
<1>6. QED  BY <1>1, <1>2, <1>3, <1>4, <1>5

\* SafeInv is kept when mask_irq loads the soft mask (irqs.c:156).
LEMMA MaskLoadKeeps ==
    ASSUME SafeInv, NEW d \in Drivers, MaskLoad(d)
    PROVE  SafeInv'
<1>1. TypeOK'
  <2>1. /\ at' = [at EXCEPT ![d] = "store"] /\ reg' = [reg EXCEPT ![d] = irqs \cup {arg[d]}]
        /\ UNCHANGED <<kernelVars, cpuVars, picVars, arg, holds>>
    BY DEF MaskLoad, Run
  <2>2. TypeOK BY DEF SafeInv
  <2>3. at' \in [Drivers -> Steps \cup {"boot"}]
    BY <2>1, <2>2 DEF TypeOK, Steps, ReleaseSteps
  <2>4. reg' \in [Drivers -> SUBSET IRQs] BY <2>1, <2>2 DEF TypeOK
  <2>5. QED BY <2>1, <2>2, <2>3, <2>4 DEF TypeOK, kernelVars, cpuVars, picVars
<1> USE DEF SafeInv, TypeOK, MaskLoad, Run, kernelVars, cpuVars, picVars
<1>2. BootInv' /\ SerialInv'
  BY DEF BootInv, SerialInv, InCall, WatchSteps, ReleaseSteps
<1>3. OwnerInv'
  BY DEF OwnerInv, InCall, ExclusiveWatch, SerialInv, WatchSteps,
      ReleaseSteps
<1>4. MaskInv'
  BY DEF MaskInv, SerialInv, InCall, WatchSteps, ReleaseSteps
<1>5. GateInv' /\ ~halted'
  BY DEF GateInv, OpenLineHasGate, SerialInv, OwnerInv, InCall, WatchSteps,
      ReleaseSteps
<1>6. QED  BY <1>1, <1>2, <1>3, <1>4, <1>5

\* SafeInv is kept when mask_irq stores the soft mask (irqs.c:156).
LEMMA MaskStoreKeeps ==
    ASSUME SafeInv, NEW d \in Drivers, MaskStore(d)
    PROVE  SafeInv'
<1> USE DEF SafeInv, TypeOK, MaskStore, Run, cpuVars, picVars
<1>1. TypeOK'
  BY IrqAssumption DEF Steps, WatchSteps, ReleaseSteps
<1>2. BootInv' /\ SerialInv'
  BY DEF BootInv, SerialInv, InCall, WatchSteps, ReleaseSteps
<1>3. OwnerInv'
  BY DEF OwnerInv, InCall, ExclusiveWatch, SerialInv, WatchSteps,
      ReleaseSteps
<1>4. MaskInv'
  BY DEF MaskInv, SerialInv, InCall, WatchSteps, ReleaseSteps
<1>5. GateInv' /\ ~halted'
  BY DEF GateInv, OpenLineHasGate, SerialInv, OwnerInv, InCall, WatchSteps,
      ReleaseSteps
<1>6. QED  BY <1>1, <1>2, <1>3, <1>4, <1>5

\* SafeInv is kept when mask_irq writes the PIC (irqs.c:157-163).
LEMMA MaskOutKeeps ==
    ASSUME SafeInv, NEW d \in Drivers, MaskOut(d)
    PROVE  SafeInv'
<1> USE DEF SafeInv, TypeOK, MaskOut, Run, kernelVars, cpuVars
<1>1. TypeOK'
  BY IrqAssumption DEF Steps, WatchSteps, ReleaseSteps, Written, Half
<1>2. BootInv' /\ SerialInv'
  BY DEF BootInv, SerialInv, InCall, WatchSteps, ReleaseSteps
<1>3. OwnerInv'
  BY DEF OwnerInv, InCall, ExclusiveWatch, SerialInv, WatchSteps,
      ReleaseSteps
<1>4. MaskInv'
  BY IrqAssumption DEF MaskInv, SerialInv, InCall, WatchSteps, ReleaseSteps,
      Written, Half
<1>a. arg[d] \in irqs /\ arg[d] \in 0..14 /\ reg[d] = irqs
  BY IrqAssumption DEF OwnerInv, InCall, MaskInv, ReleaseSteps
<1>b. arg[d] \in imr'
  BY <1>a DEF Written, Half
<1>c. ASSUME NEW n \in IRQs, n \notin imr' PROVE n \in gate
  <2>1. n \notin imr \/ n \notin irqs
    BY <1>a, <1>c DEF Written, Half
  <2>2. n # arg[d]
    BY <1>b, <1>c
  <2>3. n \notin imr
    BY <2>1, <2>2 DEF MaskInv, SerialInv, InCall, ReleaseSteps, WatchSteps
  <2>4. QED  BY <2>3 DEF GateInv, OpenLineHasGate
<1>5. GateInv' /\ ~halted'
  BY <1>b, <1>c DEF GateInv, SerialInv, InCall, OpenLineHasGate, WatchSteps,
      ReleaseSteps
<1>6. QED  BY <1>1, <1>2, <1>3, <1>4, <1>5

\* SafeInv is kept when release_irq disables the gate (irqs.c:101).
LEMMA DisableGateKeeps ==
    ASSUME SafeInv, NEW d \in Drivers, DisableGate(d)
    PROVE  SafeInv'
<1> USE DEF SafeInv, TypeOK, DisableGate, Run, cpuVars, picVars
<1>1. TypeOK'
  BY IrqAssumption DEF Steps, WatchSteps, ReleaseSteps
<1>2. BootInv' /\ SerialInv'
  BY DEF BootInv, SerialInv, InCall, WatchSteps, ReleaseSteps
<1>3. OwnerInv'
  BY DEF OwnerInv, InCall, ExclusiveWatch, SerialInv, WatchSteps,
      ReleaseSteps
<1>4. MaskInv'
  BY DEF MaskInv, SerialInv, InCall, WatchSteps, ReleaseSteps
<1>5. GateInv' /\ ~halted'
  BY DEF GateInv, OpenLineHasGate, SerialInv, OwnerInv, InCall, WatchSteps,
      ReleaseSteps
<1>6. QED  BY <1>1, <1>2, <1>3, <1>4, <1>5

\* SafeInv is kept when release_irq gives the key back (irqs.c:102).
LEMMA DropKeyKeeps ==
    ASSUME SafeInv, NEW d \in Drivers, DropKey(d)
    PROVE  SafeInv'
<1> USE DEF SafeInv, TypeOK, DropKey, Run, cpuVars, picVars
<1>a. irq_keys[arg[d]] = KeyOf[arg[d]] + 1 /\ KeyOf[arg[d]] \in Nat
  BY IrqAssumption DEF OwnerInv, InCall, ReleaseSteps
<1>b. irq_keys[arg[d]] - 1 = KeyOf[arg[d]]
  BY <1>a
<1>c. irq_keys' = [irq_keys EXCEPT ![arg[d]] = KeyOf[arg[d]]]
  BY <1>b
<1>1. TypeOK'
  BY <1>a, IrqAssumption DEF Steps, WatchSteps, ReleaseSteps
<1>2. BootInv' /\ SerialInv'
  BY DEF BootInv, SerialInv, InCall, WatchSteps, ReleaseSteps
<1>3. OwnerInv'
  BY <1>c DEF OwnerInv, InCall, ExclusiveWatch, SerialInv, WatchSteps,
      ReleaseSteps
<1>4. MaskInv'
  BY DEF MaskInv, SerialInv, InCall, WatchSteps, ReleaseSteps
<1>5. GateInv' /\ ~halted'
  BY DEF GateInv, OpenLineHasGate, SerialInv, OwnerInv, InCall, WatchSteps,
      ReleaseSteps
<1>6. QED  BY <1>1, <1>2, <1>3, <1>4, <1>5

\* SafeInv is kept when a device raises a request.
LEMMA RaiseKeeps ==
    ASSUME SafeInv, NEW n \in IRQs, Raise(n)
    PROVE  SafeInv'
<1> USE DEF SafeInv, TypeOK, Raise, kernelVars, cpuVars, driverVars
<1>1. TypeOK'
  BY IrqAssumption DEF Steps, WatchSteps, ReleaseSteps
<1>2. BootInv' /\ SerialInv'
  BY DEF BootInv, SerialInv, InCall, WatchSteps, ReleaseSteps
<1>3. OwnerInv'
  BY DEF OwnerInv, InCall, ExclusiveWatch, WatchSteps, ReleaseSteps
<1>4. MaskInv'
  BY DEF MaskInv
<1>5. GateInv' /\ ~halted'
  BY DEF GateInv, OpenLineHasGate
<1>6. QED  BY <1>1, <1>2, <1>3, <1>4, <1>5

\* SafeInv is kept when the timer preempts the running driver.
LEMMA TickKeeps ==
    ASSUME SafeInv, Tick
    PROVE  SafeInv'
<1> USE DEF SafeInv, TypeOK, Tick, kernelVars, picVars, driverVars
<1>1. TypeOK'
  BY IrqAssumption DEF Steps, WatchSteps, ReleaseSteps
<1>2. BootInv' /\ SerialInv'
  BY DEF BootInv, SerialInv, InCall, WatchSteps, ReleaseSteps
<1>3. OwnerInv'
  BY DEF OwnerInv, InCall, ExclusiveWatch, WatchSteps, ReleaseSteps
<1>4. MaskInv'
  BY DEF MaskInv
<1>5. GateInv' /\ ~halted'
  BY DEF GateInv, OpenLineHasGate
<1>6. QED  BY <1>1, <1>2, <1>3, <1>4, <1>5

\* SafeInv is kept when the watcher stub counts a request (irqs.c:114-118).
LEMMA DeliverKeeps ==
    ASSUME SafeInv, NEW n \in IRQs, Deliver(n)
    PROVE  SafeInv'
<1> USE DEF SafeInv, TypeOK, Deliver, driverVars
<1>1. TypeOK'
  BY IrqAssumption DEF Steps, WatchSteps, ReleaseSteps
<1>2. BootInv' /\ SerialInv'
  BY DEF BootInv, SerialInv, InCall, WatchSteps, ReleaseSteps
<1>3. OwnerInv'
  BY DEF OwnerInv, InCall, ExclusiveWatch, WatchSteps, ReleaseSteps
<1>4. MaskInv'
  BY DEF MaskInv
<1>5. GateInv' /\ ~halted'
  BY DEF GateInv, OpenLineHasGate, Open
<1>6. QED  BY <1>1, <1>2, <1>3, <1>4, <1>5

\* SafeInv is kept when nothing changes.
LEMMA StutterKeeps ==
    ASSUME SafeInv, UNCHANGED vars
    PROVE  SafeInv'
<1> USE DEF vars, kernelVars, cpuVars, picVars, driverVars
<1>1. TypeOK' /\ BootInv' /\ SerialInv'
  BY DEF SafeInv, TypeOK, BootInv, SerialInv, InCall
<1>2. OwnerInv' /\ MaskInv' /\ GateInv' /\ ~halted'
  BY DEF SafeInv, OwnerInv, MaskInv, GateInv, InCall, ExclusiveWatch, OpenLineHasGate
<1>3. QED  BY <1>1, <1>2 DEF SafeInv

\* The state setup_irqs leaves satisfies SafeInv.
LEMMA SafeInit == Init => SafeInv
<1> SUFFICES ASSUME Init PROVE SafeInv
  OBVIOUS
<1>1. TypeOK
  <2>1. 0 \in 0..(CountWidth - 1)
    BY IrqAssumption
  <2>2. QED  BY <2>1, IrqAssumption DEF Init, TypeOK
<1>2. BootInv /\ SerialInv /\ OwnerInv
  BY IrqAssumption DEF Init, BootInv, SerialInv, OwnerInv, InCall,
     ExclusiveWatch, WatchSteps, ReleaseSteps
<1>3. MaskInv /\ GateInv /\ ~halted
  BY DEF Init, MaskInv, GateInv, OpenLineHasGate
<1>4. QED  BY <1>1, <1>2, <1>3 DEF SafeInv

\* Every step of disciplined drivers keeps SafeInv.
LEMMA SafeStep ==
    ASSUME SafeInv, Disciplined, [Next]_vars
    PROVE  SafeInv'
<1>1. CASE StartTimer
  BY <1>1, StartTimerKeeps
<1>2. ASSUME NEW d \in Drivers, Thread(d) PROVE SafeInv'
  <2>1. CASE Cli(d) \/ Sti(d)
    BY <2>1, CliKeeps, StiKeeps
  <2>2. CASE Call(d)
    <3>1. ASSUME NEW n \in IRQs, NEW k \in Offered, WatchRefused(d, n, k)
          PROVE  SafeInv'
      <4>1. at' = at
        BY <3>1 DEF WatchRefused, Run, SafeInv, TypeOK
      <4>2. UNCHANGED vars
        BY <3>1, <4>1 DEF WatchRefused, vars, driverVars
      <4>3. QED  BY <4>2, StutterKeeps
    <3>2. QED  BY <2>2, <3>1, CallWatchKeeps, CallReleaseKeeps DEF Call
  <2>3. CASE WatchStep(d)
    BY <2>3, ClaimKeeps, EnableGateKeeps, UnmaskLoadKeeps, UnmaskStoreKeeps,
       UnmaskOutKeeps DEF WatchStep
  <2>4. CASE ReleaseStep(d)
    BY <2>4, MaskLoadKeeps, MaskStoreKeeps, MaskOutKeeps, DisableGateKeeps,
       DropKeyKeeps DEF ReleaseStep
  <2>5. QED  BY <1>2, <2>1, <2>2, <2>3, <2>4 DEF Thread
<1>3. CASE Tick
  BY <1>3, TickKeeps
<1>4. ASSUME NEW n \in IRQs, Raise(n) \/ Deliver(n) PROVE SafeInv'
  BY <1>4, RaiseKeeps, DeliverKeeps
<1>5. CASE UNCHANGED vars
  BY <1>5, StutterKeeps
<1>6. QED  BY <1>1, <1>2, <1>3, <1>4, <1>5 DEF Next

\* Disciplined drivers keep the whole invariant, types and exclusive
\* watching among it, through every interleaving.
THEOREM DisciplinedIsSafe == Disciplined /\ Spec => []SafeInv
<1> SUFFICES ASSUME Disciplined PROVE Spec => []SafeInv
  OBVIOUS
<1>1. Init => SafeInv
  BY SafeInit
<1>2. SafeInv /\ [Next]_vars => SafeInv'
  BY SafeStep
<1>3. QED  BY <1>1, <1>2, PTL DEF Spec

\* The variables keep their types: the counters their 16 bits, the masks and
\* gates within the IRQs in use (irqs.c:6-18).
THEOREM TypesHold == Disciplined /\ Spec => []TypeOK
<1>1. SafeInv => TypeOK
  BY DEF SafeInv
<1>2. QED  BY <1>1, DisciplinedIsSafe, PTL

\* Only one driver at a time watches an IRQ (irqs.c:72-74), for any number
\* of disciplined drivers.
THEOREM OneWatcher == Disciplined /\ Spec => []ExclusiveWatch
<1>1. SafeInv => ExclusiveWatch
  BY DEF SafeInv, OwnerInv
<1>2. QED  BY <1>1, DisciplinedIsSafe, PTL

\* An open line always has a present gate, in the middle of watch_irq and
\* release_irq too, so that no request faults (irqs.c:85-86, 100-101).
THEOREM OpenLinesHaveGates == Disciplined /\ Spec => []OpenLineHasGate
<1>1. SafeInv => OpenLineHasGate
  BY DEF SafeInv, GateInv
<1>2. QED  BY <1>1, DisciplinedIsSafe, PTL

\* AgreeInv is kept when cool_down_thread unmasks the timer and turns interrupts on.
LEMMA StartTimerAgrees ==
    ASSUME SafeInv, AgreeInv, StartTimer
    PROVE  AgreeInv'
  BY IrqAssumption DEF SafeInv, TypeOK, AgreeInv, Held, Busy, Steps,
      WatchSteps, ReleaseSteps, BootInv, StartTimer

\* AgreeInv is kept when a driver turns interrupts off.
LEMMA CliAgrees ==
    ASSUME SafeInv, AgreeInv, NEW d \in Drivers, Cli(d)
    PROVE  AgreeInv'
  BY IrqAssumption DEF SafeInv, TypeOK, OwnerInv, SerialInv, MaskInv, InCall,
      Run, AgreeInv, Held, Busy, Steps, WatchSteps, ReleaseSteps, Cli,
      kernelVars, picVars

\* AgreeInv is kept when a driver turns interrupts on again.
LEMMA StiAgrees ==
    ASSUME SafeInv, AgreeInv, NEW d \in Drivers, Sti(d)
    PROVE  AgreeInv'
  BY IrqAssumption DEF SafeInv, TypeOK, OwnerInv, SerialInv, MaskInv, InCall,
      Run, AgreeInv, Held, Busy, Steps, WatchSteps, ReleaseSteps, Sti,
      kernelVars, picVars

\* AgreeInv is kept when watch_irq enters with a key that fits (irqs.c:81).
LEMMA CallWatchAgrees ==
    ASSUME SafeInv, AgreeInv, NEW d \in Drivers,
           NEW n \in IRQs, NEW k \in Offered, CallWatch(d, n, k)
    PROVE  AgreeInv'
  BY IrqAssumption, SMTT(30) DEF SafeInv, TypeOK, OwnerInv, SerialInv, MaskInv, InCall,
      Run, AgreeInv, Held, Busy, Steps, WatchSteps, ReleaseSteps, CallWatch,
      kernelVars, cpuVars, picVars

\* AgreeInv is kept when watch_irq resets the counter and takes the key (irqs.c:83-84).
LEMMA ClaimAgrees ==
    ASSUME SafeInv, AgreeInv, NEW d \in Drivers, Claim(d)
    PROVE  AgreeInv'
  BY IrqAssumption DEF SafeInv, TypeOK, OwnerInv, SerialInv, MaskInv, InCall,
      Run, AgreeInv, Held, Busy, Steps, WatchSteps, ReleaseSteps, Claim,
      cpuVars, picVars

\* AgreeInv is kept when watch_irq enables the gate (irqs.c:85).
LEMMA EnableGateAgrees ==
    ASSUME SafeInv, AgreeInv, NEW d \in Drivers, EnableGate(d)
    PROVE  AgreeInv'
  BY IrqAssumption DEF SafeInv, TypeOK, OwnerInv, SerialInv, MaskInv, InCall,
      Run, AgreeInv, Held, Busy, Steps, WatchSteps, ReleaseSteps, EnableGate,
      cpuVars, picVars

\* AgreeInv is kept when unmask_irq loads the soft mask (irqs.c:144).
LEMMA UnmaskLoadAgrees ==
    ASSUME SafeInv, AgreeInv, NEW d \in Drivers, UnmaskLoad(d)
    PROVE  AgreeInv'
  BY IrqAssumption DEF SafeInv, TypeOK, OwnerInv, SerialInv, MaskInv, InCall,
      Run, AgreeInv, Held, Busy, Steps, WatchSteps, ReleaseSteps, UnmaskLoad,
      kernelVars, cpuVars, picVars

\* AgreeInv is kept when unmask_irq stores the soft mask (irqs.c:144).
LEMMA UnmaskStoreAgrees ==
    ASSUME SafeInv, AgreeInv, NEW d \in Drivers, UnmaskStore(d)
    PROVE  AgreeInv'
  BY IrqAssumption DEF SafeInv, TypeOK, OwnerInv, SerialInv, MaskInv, InCall,
      Run, AgreeInv, Held, Busy, Steps, WatchSteps, ReleaseSteps,
      UnmaskStore, cpuVars, picVars

\* AgreeInv is kept when unmask_irq writes the PIC, and watch_irq returns (irqs.c:145-151, 87).
LEMMA UnmaskOutAgrees ==
    ASSUME SafeInv, AgreeInv, NEW d \in Drivers, UnmaskOut(d)
    PROVE  AgreeInv'
<1> USE IrqAssumption DEF SafeInv, TypeOK, UnmaskOut, Run, kernelVars, cpuVars
<1>1. arg[d] \in Watched /\ arg[d] \in gate /\ arg[d] \notin irqs
  BY DEF OwnerInv, InCall, MaskInv, GateInv, WatchSteps
<1>2. QED
  BY <1>1 DEF AgreeInv, Held, Busy, Steps, WatchSteps, ReleaseSteps

\* AgreeInv is kept when release_irq enters with the driver's own key (irqs.c:98).
LEMMA CallReleaseAgrees ==
    ASSUME SafeInv, AgreeInv, NEW d \in Drivers, NEW n \in IRQs, CallRelease(d, n)
    PROVE  AgreeInv'
  BY IrqAssumption DEF SafeInv, TypeOK, OwnerInv, SerialInv, MaskInv, InCall,
      Run, AgreeInv, Held, Busy, Steps, WatchSteps, ReleaseSteps,
      CallRelease, kernelVars, cpuVars, picVars

\* AgreeInv is kept when mask_irq loads the soft mask (irqs.c:156).
LEMMA MaskLoadAgrees ==
    ASSUME SafeInv, AgreeInv, NEW d \in Drivers, MaskLoad(d)
    PROVE  AgreeInv'
  BY IrqAssumption DEF SafeInv, TypeOK, OwnerInv, SerialInv, MaskInv, InCall,
      Run, AgreeInv, Held, Busy, Steps, WatchSteps, ReleaseSteps, MaskLoad,
      kernelVars, cpuVars, picVars

\* AgreeInv is kept when mask_irq stores the soft mask (irqs.c:156).
LEMMA MaskStoreAgrees ==
    ASSUME SafeInv, AgreeInv, NEW d \in Drivers, MaskStore(d)
    PROVE  AgreeInv'
  BY IrqAssumption DEF SafeInv, TypeOK, OwnerInv, SerialInv, MaskInv, InCall,
      Run, AgreeInv, Held, Busy, Steps, WatchSteps, ReleaseSteps, MaskStore,
      cpuVars, picVars

\* AgreeInv is kept when mask_irq writes the PIC (irqs.c:157-163).
LEMMA MaskOutAgrees ==
    ASSUME SafeInv, AgreeInv, NEW d \in Drivers, MaskOut(d)
    PROVE  AgreeInv'
  BY IrqAssumption DEF SafeInv, TypeOK, OwnerInv, SerialInv, MaskInv, InCall,
      Run, AgreeInv, Held, Busy, Steps, WatchSteps, ReleaseSteps, MaskOut,
      kernelVars, cpuVars

\* AgreeInv is kept when release_irq disables the gate (irqs.c:101).
LEMMA DisableGateAgrees ==
    ASSUME SafeInv, AgreeInv, NEW d \in Drivers, DisableGate(d)
    PROVE  AgreeInv'
  BY IrqAssumption DEF SafeInv, TypeOK, OwnerInv, SerialInv, MaskInv, InCall,
      Run, AgreeInv, Held, Busy, Steps, WatchSteps, ReleaseSteps,
      DisableGate, cpuVars, picVars

\* AgreeInv is kept when release_irq gives the key back (irqs.c:102).
LEMMA DropKeyAgrees ==
    ASSUME SafeInv, AgreeInv, NEW d \in Drivers, DropKey(d)
    PROVE  AgreeInv'
  BY IrqAssumption DEF SafeInv, TypeOK, OwnerInv, SerialInv, MaskInv, InCall,
      Run, AgreeInv, Held, Busy, Steps, WatchSteps, ReleaseSteps, DropKey,
      cpuVars, picVars

\* AgreeInv is kept when a device raises a request.
LEMMA RaiseAgrees ==
    ASSUME SafeInv, AgreeInv, NEW n \in IRQs, Raise(n)
    PROVE  AgreeInv'
  BY IrqAssumption DEF SafeInv, TypeOK, AgreeInv, Held, Busy, Steps,
      WatchSteps, ReleaseSteps, Raise, kernelVars, cpuVars, driverVars

\* AgreeInv is kept when the timer preempts the running driver.
LEMMA TickAgrees ==
    ASSUME SafeInv, AgreeInv, Tick
    PROVE  AgreeInv'
  BY IrqAssumption DEF SafeInv, TypeOK, AgreeInv, Held, Busy, Steps,
      WatchSteps, ReleaseSteps, Tick, kernelVars, picVars, driverVars

\* AgreeInv is kept when the watcher stub counts a request (irqs.c:114-118).
LEMMA DeliverAgrees ==
    ASSUME SafeInv, AgreeInv, NEW n \in IRQs, Deliver(n)
    PROVE  AgreeInv'
  BY IrqAssumption DEF SafeInv, TypeOK, AgreeInv, Held, Busy, Steps,
      WatchSteps, ReleaseSteps, Deliver, driverVars

\* Every step of disciplined drivers keeps AgreeInv.
LEMMA AgreeStep ==
    ASSUME SafeInv, AgreeInv, [Next]_vars
    PROVE  AgreeInv'
<1>1. CASE StartTimer
  BY <1>1, StartTimerAgrees
<1>2. ASSUME NEW d \in Drivers, Thread(d) PROVE AgreeInv'
  <2>1. CASE Cli(d) \/ Sti(d)
    BY <2>1, CliAgrees, StiAgrees
  <2>2. CASE Call(d)
    <3>1. ASSUME NEW n \in IRQs, NEW k \in Offered, WatchRefused(d, n, k)
          PROVE  AgreeInv'
      <4>1. at' = at
        BY <3>1 DEF WatchRefused, Run, SafeInv, TypeOK
      <4>2. QED
        BY <3>1, <4>1 DEF WatchRefused, kernelVars, AgreeInv, Held, Busy
    <3>2. QED  BY <2>2, <3>1, CallWatchAgrees, CallReleaseAgrees DEF Call
  <2>3. CASE WatchStep(d)
    BY <2>3, ClaimAgrees, EnableGateAgrees, UnmaskLoadAgrees,
       UnmaskStoreAgrees, UnmaskOutAgrees DEF WatchStep
  <2>4. CASE ReleaseStep(d)
    BY <2>4, MaskLoadAgrees, MaskStoreAgrees, MaskOutAgrees,
       DisableGateAgrees, DropKeyAgrees DEF ReleaseStep
  <2>5. QED  BY <1>2, <2>1, <2>2, <2>3, <2>4 DEF Thread
<1>3. CASE Tick
  BY <1>3, TickAgrees
<1>4. ASSUME NEW n \in IRQs, Raise(n) \/ Deliver(n) PROVE AgreeInv'
  BY <1>4, RaiseAgrees, DeliverAgrees
<1>5. CASE UNCHANGED vars
  BY <1>5 DEF vars, kernelVars, driverVars, AgreeInv, Held, Busy
<1>6. QED  BY <1>1, <1>2, <1>3, <1>4, <1>5 DEF Next

\* Between calls the key, the gate and the two masks of every IRQ agree.
THEOREM StateAgrees == Disciplined /\ Spec => []WatchStateAgrees
<1> SUFFICES ASSUME Disciplined PROVE Spec => []WatchStateAgrees
  OBVIOUS
<1>1. Init => AgreeInv
  BY IrqAssumption DEF Init, AgreeInv, Held, Busy
<1>2. SafeInv /\ AgreeInv /\ [Next]_vars => AgreeInv'
  BY AgreeStep
<1>3. SafeInv /\ AgreeInv => WatchStateAgrees
  <2> SUFFICES ASSUME SafeInv, AgreeInv, \A d \in Drivers : at[d] = "idle"
               PROVE  /\ imr = irqs /\ Timer \notin imr
                      /\ \A n \in Watched :
                           /\ n \in gate <=> Held(n)
                           /\ n \notin irqs <=> Held(n)
                           /\ irq_keys[n] = KeyOf[n] + (IF Held(n) THEN 1 ELSE 0)
    BY DEF WatchStateAgrees, Held
  <2>1. imr = irqs
    <3>1. \A n \in IRQs : n \in imr <=> n \in irqs
      BY DEF SafeInv, MaskInv
    <3>2. QED  BY <3>1 DEF SafeInv, TypeOK
  <2>2. Timer \notin irqs
    BY IrqAssumption DEF AgreeInv
  <2>3. ASSUME NEW n \in Watched PROVE n \in gate <=> Held(n)
    BY DEF AgreeInv, Busy, Steps, WatchSteps, ReleaseSteps
  <2>4. ASSUME NEW n \in Watched PROVE n \notin irqs <=> Held(n)
    BY DEF AgreeInv, Busy
  <2>5. ASSUME NEW n \in Watched
        PROVE  irq_keys[n] = KeyOf[n] + (IF Held(n) THEN 1 ELSE 0)
    <3>1. Held(n) => irq_keys[n] = KeyOf[n] + 1
      BY DEF SafeInv, OwnerInv, Held
    <3>2. ~Held(n) => irq_keys[n] = KeyOf[n]
      BY DEF SafeInv, OwnerInv, AgreeInv, Busy, Steps
    <3>3. KeyOf[n] \in Nat
      BY IrqAssumption
    <3>4. QED  BY <3>1, <3>2, <3>3
  <2>6. QED  BY <2>1, <2>2, <2>3, <2>4, <2>5
<1>4. QED  BY <1>1, <1>2, <1>3, DisciplinedIsSafe, PTL DEF Spec
-----------------------------------------------------------------------------
(* Every step is a step of the table or leaves what it promises alone.      *)

\* No two drivers own one IRQ, calls in progress included.
LEMMA OwnerIsUnique ==
    ASSUME SafeInv, NEW d \in Drivers, NEW e \in Drivers, NEW n \in Watched,
           Owns(d, n), Owns(e, n)
    PROVE  d = e
  BY DEF SafeInv, OwnerInv, SerialInv, ExclusiveWatch, InCall, Owns

\* OwnerOf names the driver that owns an IRQ, or Nobody.
LEMMA OwnerIs ==
    ASSUME SafeInv, NEW n \in Watched
    PROVE  /\ \A d \in Drivers : Owns(d, n) => OwnerOf[n] = d
           /\ (\A d \in Drivers : ~Owns(d, n)) => OwnerOf[n] = Nobody
  BY OwnerIsUnique DEF OwnerOf

\* A step that leaves the owners, counters and requests alone stutters.
LEMMA SameTable ==
    ASSUME \A d \in Drivers, n \in Watched : Owns(d, n)' <=> Owns(d, n),
           UNCHANGED <<irq_watching, irr>>
    PROVE  UNCHANGED Table!vars
<1>1. OwnerOf' = OwnerOf
  BY DEF OwnerOf
<1>2. QED  BY <1>1 DEF Table!vars

\* Of a driver's steps only Claim and DropKey show in the table.
LEMMA CallsStutter ==
    ASSUME SafeInv, NEW d \in Drivers, Thread(d), ~Claim(d), ~DropKey(d)
    PROVE  UNCHANGED Table!vars
<1> USE DEF Owns, Run, SafeInv, TypeOK, WatchSteps, ReleaseSteps, Steps,
            kernelVars, picVars
<1>1. CASE Cli(d) \/ Sti(d)
  BY <1>1, SameTable DEF Cli, Sti
<1>2. CASE Call(d)
  BY <1>2, SameTable DEF Call, CallWatch, WatchRefused, CallRelease
<1>3. CASE EnableGate(d) \/ UnmaskLoad(d) \/ UnmaskStore(d)
  BY <1>3, SameTable DEF EnableGate, UnmaskLoad, UnmaskStore
<1>4. CASE UnmaskOut(d)
  BY <1>4, SameTable DEF UnmaskOut
<1>5. CASE MaskLoad(d) \/ MaskStore(d) \/ MaskOut(d) \/ DisableGate(d)
  BY <1>5, SameTable DEF MaskLoad, MaskStore, MaskOut, DisableGate
<1>6. QED
  BY <1>1, <1>2, <1>3, <1>4, <1>5 DEF Thread, WatchStep, ReleaseStep

\* Taking the key is the moment of Acquire.
LEMMA ClaimAcquires ==
    ASSUME SafeInv, SafeInv', NEW d \in Drivers, Claim(d)
    PROVE  \E n \in Watched : Table!Acquire(d, n)
<1> DEFINE n == arg[d]
<1>1. n \in Watched /\ at[d] = "claim" /\ arg' = arg
  BY DEF SafeInv, OwnerInv, InCall, Claim, Run, WatchSteps
<1>2. \A e \in Drivers : ~Owns(e, n)
  BY <1>1 DEF SafeInv, OwnerInv, SerialInv, InCall, Owns, WatchSteps, ReleaseSteps
<1>3. \A e \in Drivers, m \in Watched :
        Owns(e, m)' <=> Owns(e, m) \/ (e = d /\ m = n)
  BY <1>1 DEF Claim, Run, Owns, SafeInv, TypeOK, WatchSteps, ReleaseSteps
<1>4. OwnerOf[n] = Nobody
  BY <1>1, <1>2, OwnerIs
<1>5. OwnerOf' = [OwnerOf EXCEPT ![n] = d]
  <2>1. ASSUME NEW m \in Watched, m # n PROVE OwnerOf'[m] = OwnerOf[m]
    BY <1>3, <2>1 DEF OwnerOf
  <2>2. Owns(d, n)'
    BY <1>1, <1>3
  <2>3. \A e \in Drivers : Owns(e, n)' => e = d
    BY <1>1, <1>2, <1>3
  <2>4. OwnerOf'[n] = d
    BY <1>1, <2>2, <2>3 DEF OwnerOf
  <2>5. QED  BY <1>1, <2>1, <2>4 DEF OwnerOf
<1>6. [m \in Watched |-> irq_watching[m]]'
        = [[m \in Watched |-> irq_watching[m]] EXCEPT ![n] = 0]
  BY <1>1 DEF Claim, SafeInv, TypeOK
<1>7. irr' = irr
  BY DEF Claim, picVars
<1>8. QED  BY <1>1, <1>4, <1>5, <1>6, <1>7 DEF Table!Acquire

\* Giving the key back is the moment of Release.
LEMMA DropReleases ==
    ASSUME SafeInv, NEW d \in Drivers, DropKey(d)
    PROVE  \E n \in Watched : Table!Release(d, n)
<1> DEFINE n == arg[d]
<1>1. n \in Watched /\ at[d] = "drop" /\ arg' = arg
  BY DEF SafeInv, OwnerInv, InCall, DropKey, Run, ReleaseSteps
<1>2. Owns(d, n) /\ \A e \in Drivers : n \notin holds[e]
  BY <1>1 DEF SafeInv, OwnerInv, InCall, Owns, ReleaseSteps
<1>3. \A e \in Drivers, m \in Watched :
        Owns(e, m)' <=> Owns(e, m) /\ ~(e = d /\ m = n)
  BY <1>1, <1>2 DEF DropKey, Run, Owns, SafeInv, TypeOK, WatchSteps, ReleaseSteps
<1>4. OwnerOf[n] = d
  BY <1>1, <1>2, OwnerIs
<1>5. OwnerOf' = [OwnerOf EXCEPT ![n] = Nobody]
  <2>1. ASSUME NEW m \in Watched, m # n PROVE OwnerOf'[m] = OwnerOf[m]
    BY <1>3, <2>1 DEF OwnerOf
  <2>2. \A e \in Drivers : ~Owns(e, n)'
    BY <1>1, <1>2, <1>3, OwnerIsUnique
  <2>3. OwnerOf'[n] = Nobody
    BY <1>1, <2>2 DEF OwnerOf
  <2>4. QED  BY <1>1, <2>1, <2>3 DEF OwnerOf
<1>6. UNCHANGED <<irq_watching, irr>>
  BY DEF DropKey, picVars
<1>7. QED  BY <1>1, <1>4, <1>5, <1>6 DEF Table!Release

\* Counting a request is Fire: the line is open, so it has an owner.
LEMMA DeliverFires ==
    ASSUME SafeInv, AgreeInv, NEW n \in IRQs, Deliver(n)
    PROVE  n \in Watched /\ Table!Fire(n)
<1>1. n \in Watched /\ n \in gate /\ irr' = irr \ {n}
  BY DEF SafeInv, TypeOK, GateInv, OpenLineHasGate, Deliver, Open
<1>2. \E d \in Drivers : Owns(d, n)
  BY <1>1 DEF AgreeInv, Held, Busy, Owns, Steps, WatchSteps, ReleaseSteps
<1>3. OwnerOf[n] # Nobody
  BY <1>1, <1>2, OwnerIs, NobodyAssumption
<1>4. OwnerOf' = OwnerOf
  BY DEF Deliver, driverVars, OwnerOf, Owns
<1>5. [m \in Watched |-> irq_watching[m]]'
        = [[m \in Watched |-> irq_watching[m]] EXCEPT ![n] = (@ + 1) % CountWidth]
  BY <1>1 DEF Deliver, SafeInv, TypeOK
<1>6. QED  BY <1>1, <1>3, <1>4, <1>5 DEF Table!Fire, Deliver

\* Nobody owns an IRQ after setup_irqs.
LEMMA RefineInit == Init => Table!Init
<1> SUFFICES ASSUME Init PROVE Table!Init
  OBVIOUS
<1>1. OwnerOf = [n \in Watched |-> Nobody]
  BY DEF Init, OwnerOf, Owns, WatchSteps, ReleaseSteps
<1>2. QED  BY <1>1 DEF Init, Table!Init

\* Every step is a step of the table or a stutter.
LEMMA RefineStep ==
    ASSUME SafeInv, SafeInv', AgreeInv, [Next]_vars
    PROVE  [Table!Next]_(Table!vars)
<1>1. CASE StartTimer
  <2>1. \A d \in Drivers, n \in Watched : Owns(d, n)' <=> Owns(d, n)
    BY <1>1 DEF StartTimer, Owns, WatchSteps, ReleaseSteps
  <2>2. QED  BY <1>1, <2>1, SameTable DEF StartTimer
<1>2. ASSUME NEW d \in Drivers, Thread(d) PROVE [Table!Next]_(Table!vars)
  BY <1>2, CallsStutter, ClaimAcquires, DropReleases DEF Table!Next
<1>3. CASE Tick
  BY <1>3, SameTable DEF Tick, Owns, kernelVars, picVars, driverVars
<1>4. ASSUME NEW n \in IRQs, Raise(n) PROVE [Table!Next]_(Table!vars)
  <2>1. n \in Watched /\ OwnerOf' = OwnerOf
    BY <1>4 DEF Raise, OwnerOf, Owns, driverVars
  <2>2. Table!Ask(n)
    BY <1>4, <2>1 DEF Raise, kernelVars, Table!Ask
  <2>3. QED  BY <2>1, <2>2 DEF Table!Next
<1>5. ASSUME NEW n \in IRQs, Deliver(n) PROVE [Table!Next]_(Table!vars)
  BY <1>5, DeliverFires DEF Table!Next
<1>6. CASE UNCHANGED vars
  BY <1>6, SameTable DEF vars, kernelVars, picVars, driverVars, Owns
<1>7. QED  BY <1>1, <1>2, <1>3, <1>4, <1>5, <1>6 DEF Next

\* The drivers of irqs.c see the table of IrqTable: one watcher per IRQ, and
\* every request of a watched IRQ counted once, since the grant.
THEOREM Refinement == Disciplined /\ Spec => ImplementsTable
<1> SUFFICES ASSUME Disciplined PROVE Spec => Table!Spec
  BY DEF ImplementsTable
<1>1. Init => AgreeInv
  BY IrqAssumption DEF Init, AgreeInv, Held, Busy
<1>2. SafeInv /\ AgreeInv /\ [Next]_vars => AgreeInv'
  BY AgreeStep
<1>3. SafeInv /\ SafeInv' /\ AgreeInv /\ [Next]_vars => [Table!Next]_(Table!vars)
  BY RefineStep
<1>4. QED
  BY <1>1, <1>2, <1>3, RefineInit, DisciplinedIsSafe, PTL DEF Spec, Table!Spec
=============================================================================
