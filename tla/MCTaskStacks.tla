---------------------------- MODULE MCTaskStacks ----------------------------
(***************************************************************************)
(* Two situations in one run: operations that never overlap, and two that  *)
(* interleave at their awaits, with streams that fail and one instance     *)
(* less.  A behaviour is in one of them throughout.                        *)
(***************************************************************************)
EXTENDS TaskStacks

VARIABLE overlap

Overlap == INSTANCE TaskStacks WITH MaxInsts <- MaxInsts - 1, Failures <- TRUE

\* An operation is under way only while no other is.
OneAtATime == \E o \in Ops : /\ Click(o) \/ Agent(o) \/ Continue(o)
                            /\ \A p \in Ops \ {o} : op[p] = NoOp

MCInit == overlap \in BOOLEAN /\ Init

MCNext == \/ overlap /\ UNCHANGED overlap /\ Overlap!Next
          \/ ~overlap /\ UNCHANGED overlap /\ OneAtATime

MCSpec == MCInit /\ [][MCNext]_<<vars, overlap>>

\* TabsAreLive and OneCopy for operations that never overlap: two that do, or a
\* stream that fails, can lose an instance and make two copies.
AloneTabsAreLive == ~overlap => TabsAreLive
AloneOneCopy == ~overlap => OneCopy

\* The slots for operations are interchangeable.
OpSymmetry == Permutations(Ops)
=============================================================================
