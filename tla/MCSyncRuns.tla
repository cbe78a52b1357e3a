----------------------------- MODULE MCSyncRuns -----------------------------
(***************************************************************************)
(* SyncRuns on small instances.                                            *)
(***************************************************************************)
EXTENDS SyncRuns, TLC

\* Requests are interchangeable, and so are workers and directories. Only for
\* the runs that check no liveness.
Symmetric ==
    Permutations(Request) \cup Permutations(Worker) \cup Permutations(Directory)
=============================================================================
