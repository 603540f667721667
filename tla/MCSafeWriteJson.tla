--------------------------- MODULE MCSafeWriteJson ---------------------------
(* Two windows write two documents to one path. *)
EXTENDS SafeWriteJson

\* Only the rename that restores the backup is assumed to succeed.
AllButRollback == Steps \ {"rollback"}
=============================================================================
