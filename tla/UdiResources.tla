----------------------------- MODULE UdiResources -----------------------------
(* What a region keeps for DMA, in variables of its own, for use beside the other
   services of the UDI environment.                                              *)
EXTENDS Integers, Sequences, FiniteSets

CONSTANTS DmaConstraint, DmaPath, DmaHandle, DmaBuf, DmaSpecs, DmaUnsupported,
          DmaTracker, NoObject, DmaCalls

VARIABLES cons, path, hand, dmaBufs, ring, tracked, dying, setting, dmaAsked, whole,
          dmaWild, dmaCalls

D == INSTANCE UdiDma WITH
       Constraint <- DmaConstraint, Path <- DmaPath, Handle <- DmaHandle, Buf <- DmaBuf,
       Specs <- DmaSpecs, Unsupported <- DmaUnsupported, Tracker <- DmaTracker,
       None <- NoObject, MaxCalls <- DmaCalls,
       bufs <- dmaBufs, asked <- dmaAsked, wild <- dmaWild, calls <- dmaCalls

\* Constraints, paths, handles, buffers and memory agree through any calls, their
\* completions and the end of the region (udi_dma.c, udi_constraints.c).
ResourcesAreSound == D!ResourcesAreSound
=============================================================================
