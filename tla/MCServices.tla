----------------------------- MODULE MCServices -----------------------------
(***************************************************************************)
(* The services of one extension host, each on a small instance.  In these *)
(* models they share no state, so their interleavings add nothing: a       *)
(* behaviour picks one service and leaves the others as they start.        *)
(***************************************************************************)
EXTENDS McpHub, CodeIndex, Checkpoints

VARIABLE chosen

allVars == <<chosen, hubVars, indexVars, checkpointVars>>

\* The other services start in one way only.
Init == /\ chosen \in {"hub", "index", "saves"}
        /\ HubInit /\ IndexInit /\ SavesInit
        /\ chosen # "hub" => file = [s \in Servers |-> Absent]
        /\ chosen # "index" => sysState = "Error" /\ content = [f \in Files |-> NoFile]
        /\ chosen # "saves" => ~repo

HubMoves == chosen = "hub" /\ UNCHANGED <<chosen, indexVars, checkpointVars>>
IndexMoves == chosen = "index" /\ UNCHANGED <<chosen, hubVars, checkpointVars>>
SavesMoves == chosen = "saves" /\ UNCHANGED <<chosen, hubVars, indexVars>>

Next == \/ HubMoves /\ HubNext
        \/ IndexMoves /\ IndexNext
        \/ SavesMoves /\ SavesNext

Spec == Init /\ [][Next]_allVars
             /\ WF_allVars(HubMoves /\ Hub)
             /\ WF_allVars(IndexMoves /\ Indexer)
             /\ WF_allVars(SavesMoves /\ Checkpointing)

\* The types of all three.
TypesOK == HubTypeOK /\ IndexTypeOK /\ CheckpointsTypeOK
=============================================================================
