---------------------------- MODULE JsonDocument ----------------------------
(***************************************************************************)
(* What safeWriteJson promises its callers: one JSON document that several *)
(* writers replace as a whole.  A call either installs its document in one *)
(* step or reports failure and leaves the document as it was.  A writer    *)
(* that dies in an open call may leave no document: that is the one hole.  *)
(***************************************************************************)
CONSTANTS Writers, Docs, NoFile

VARIABLES file,     \* the document, or NoFile when it was never written
          call      \* per writer: what its current call is doing

vars == <<file, call>>

Idle == [state |-> "idle"]
Dead == [state |-> "dead"]
Calls == {Idle, Dead} \union [state : {"open", "done"}, doc : Docs]
                \union [state : {"failed"}, doc : Docs]

Init == file \in Docs \union {NoFile} /\ call = [w \in Writers |-> Idle]

Begin(w, d) == /\ call[w].state \in {"idle", "done", "failed"}
               /\ call' = [call EXCEPT ![w] = [state |-> "open", doc |-> d]]
               /\ UNCHANGED file

Install(w) == /\ call[w].state = "open"
              /\ file' = call[w].doc
              /\ call' = [call EXCEPT ![w].state = "done"]

Refuse(w) == /\ call[w].state = "open"
             /\ call' = [call EXCEPT ![w].state = "failed"]
             /\ UNCHANGED file

Die(w) == /\ call[w].state \notin {"idle", "dead"}
          /\ call' = [call EXCEPT ![w] = Dead]
          /\ \/ UNCHANGED file
             \/ call[w].state = "open" /\ file' = NoFile

Next == \E w \in Writers : \/ \E d \in Docs : Begin(w, d)
                           \/ Install(w)
                           \/ Refuse(w)
                           \/ Die(w)

Spec == Init /\ [][Next]_vars
=============================================================================
