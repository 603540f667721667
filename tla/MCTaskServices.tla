-------------------------- MODULE MCTaskServices ---------------------------
(***************************************************************************)
(* What surrounds one task, each part on a small instance: the replacement *)
(* of its instances, its history file and its terminals.  These models     *)
(* share no state; a behaviour picks one of them, as in MCServices.        *)
(***************************************************************************)
EXTENDS TaskReplacement, Terminals, TaskPersistence

VARIABLE chosen

allVars == <<chosen, replaceVars, termVars, persistVars>>

Init == /\ chosen \in {"replacement", "terminals", "history"}
        /\ ReplaceInit /\ TermsInit /\ HistoryInit

ReplaceMoves == chosen = "replacement" /\ UNCHANGED <<chosen, termVars, persistVars>>
TermsMoves == chosen = "terminals" /\ UNCHANGED <<chosen, replaceVars, persistVars>>
HistoryMoves == chosen = "history" /\ UNCHANGED <<chosen, replaceVars, termVars>>

Next == \/ ReplaceMoves /\ ReplaceNext
        \/ TermsMoves /\ TermsNext
        \/ HistoryMoves /\ HistoryNext

Spec == Init /\ [][Next]_allVars
             /\ WF_allVars(ReplaceMoves /\ ReplaceHost)
             /\ WF_allVars(TermsMoves /\ Host)

\* The types of all three.
TypesOK == ReplacementTypeOK /\ TerminalsTypeOK /\ PersistenceTypeOK
=============================================================================
