---------------------------- MODULE PageCallers ----------------------------
(***************************************************************************)
(* The stack of physical pages under callers of any kind, in variables of  *)
(* their own, for use beside paging, which pops from the same stack.       *)
(***************************************************************************)
EXTENDS PhysStack

CONSTANTS Pages, BootOnly

VARIABLES free, out, twice, popping

Frames == INSTANCE PageFrames

ASSUME PagesFit == Frames!PagesAssumption

FramesSpec == Frames!Spec

-----------------------------------------------------------------------------
(* No page is handed out while an earlier caller still has it               *)
(* (phys_mm.c:21-42).                                                       *)
NoPageTwice == Frames!NoPageTwice

(* A pop answers a page that was pushed and is free, or 0 (phys_mm.c:30).   *)
PopAnswersAFreePage == Frames!PopAnswersAFreePage
=============================================================================
