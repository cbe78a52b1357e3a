--------------------------- MODULE SyncRuns_proofs ---------------------------
(***************************************************************************)
(* Theorems about SyncRuns, for any directories, requests, workers and     *)
(* bounds.                                                                 *)
(***************************************************************************)
EXTENDS SyncRuns, FiniteSetTheorems, TLAPS

-----------------------------------------------------------------------------
(* Types.                                                                  *)

LEMMA TypeInit == Init => TypeOK
<1>. USE NoRunAssumption, AttemptsAssumption
<1>. QED
  BY DEF Init, TypeOK, RequestRecord, WorkerRecord, RequestAt, IdleWorker,
         ReqPc, WorkerPc, Executing, Statuses, Active, Terminal

\* The steps of a request keep the types: each writes one status, one row and
\* its own record.
LEMMA TypeRequestStep ==
  ASSUME TypeOK, NEW q \in Request,
         Begin(q) \/ RequestStep(q) \/ Abandon(q) \/ GoStale(q)
  PROVE  TypeOK'
<1>. USE NoRunAssumption, AttemptsAssumption
       DEF TypeOK, RequestRecord, ReqPc, RequestAt, runVars, Serve
<1>1. CASE Begin(q)
  BY <1>1 DEF Begin, ReadClock
<1>2. CASE InsertRun(q)
  BY <1>2 DEF InsertRun, Active
<1>3. CASE InsertRefused(q)
  BY <1>3 DEF InsertRefused
<1>4. CASE SetQueued(q)
  BY <1>4 DEF SetQueued, Statuses, Active
<1>5. CASE ReadBack(q)
  BY <1>5 DEF ReadBack, ActiveOrNone, ActiveRuns, Answer
<1>6. CASE HandedExisting(q)
  BY <1>6 DEF HandedExisting, ActiveRuns, Answer
<1>7. CASE Retry(q)
  <2>1. /\ req[q] \in RequestRecord
        /\ req[q].attempt + 1 \in 1..MaxAttempts
    BY <1>7 DEF Retry
  <2>2. [req[q] EXCEPT !.pc = "insert", !.attempt = @ + 1] \in RequestRecord
    BY <2>1
  <2>. HIDE DEF RequestRecord
  <2>. QED
    BY <1>7, <2>2 DEF Retry, ReadClock
<1>8. CASE GiveUp(q)
  BY <1>8 DEF GiveUp
<1>9. CASE Abandon(q)
  BY <1>9 DEF Abandon
<1>10. CASE GoStale(q)
  BY <1>10 DEF GoStale
<1>. QED
  BY <1>1, <1>2, <1>3, <1>4, <1>5, <1>6, <1>7, <1>8, <1>9, <1>10 DEF RequestStep

\* A worker that works on a run, or has just ended it, names a run that was
\* claimed.
WorkersHoldRuns ==
    \A w \in Worker :
        wk[w].pc \in Executing \cup {"setFinal"} =>
            /\ wk[w].run \in Request
            /\ runState[wk[w].run] \notin {"absent", "queued"}

\* The steps of a worker keep the types.
LEMMA TypeWorkerStep ==
  ASSUME TypeOK, WorkersHoldRuns, NEW w \in Worker,
         WorkerStep(w) \/ Crash(w) \/ Escape(w)
  PROVE  TypeOK'
<1>. USE NoRunAssumption, BoundsAssumption
       DEF TypeOK, WorkersHoldRuns, WorkerRecord, WorkerPc, Executing,
           IdleWorker, Terminal, runVars, Move
<1>0. wk[w] \in WorkerRecord
  OBVIOUS
<1>1. CASE Reclaim(w)
  <2>. DEFINE x == [wk[w] EXCEPT !.todo = StaleRuns,
                      !.pc = IF StaleRuns = {} THEN "claim" ELSE "setReclaimed"]
  <2>1. x \in WorkerRecord
    BY <1>0 DEF StaleRuns
  <2>. HIDE DEF x, WorkerRecord
  <2>2. Move(w, x)
    BY <1>1 DEF Reclaim, x
  <2>. QED
    BY <1>1, <2>1, <2>2 DEF Reclaim
<1>2. CASE SetReclaimed(w)
  <2>. PICK r \in wk[w].todo :
         /\ status' = [status EXCEPT ![dirOf[r]] = "failed"]
         /\ Move(w, [wk[w] EXCEPT !.todo = @ \ {r},
                       !.pc = IF wk[w].todo = {r} THEN "claim" ELSE @])
    BY <1>2 DEF SetReclaimed
  <2>1. r \in Request
    BY <1>0
  <2>2. [wk[w] EXCEPT !.todo = @ \ {r},
           !.pc = IF wk[w].todo = {r} THEN "claim" ELSE @] \in WorkerRecord
    BY <1>0
  <2>. HIDE DEF WorkerRecord
  <2>. QED
    BY <1>2, <2>1, <2>2 DEF SetReclaimed, Statuses
<1>3. CASE ClaimRun(w)
  <2>. PICK r \in Request :
         /\ runState' = [runState EXCEPT ![r] = "running"]
         /\ stale' = [stale EXCEPT ![r] = FALSE]
         /\ Move(w, [IdleWorker EXCEPT !.pc = "setRunning", !.run = r])
    BY <1>3 DEF ClaimRun
  <2>1. [IdleWorker EXCEPT !.pc = "setRunning", !.run = r] \in WorkerRecord
    OBVIOUS
  <2>. HIDE DEF WorkerRecord
  <2>. QED
    BY <1>3, <2>1 DEF ClaimRun, Active
<1>4. CASE ClaimNothing(w)
  BY <1>4 DEF ClaimNothing
<1>5. CASE SetRunning(w)
  BY <1>5 DEF SetRunning, Statuses, Active
<1>6. CASE List(w)
  <2>. PICK n \in 0..MaxFiles :
         Move(w, [wk[w] EXCEPT !.listed = n,
                    !.pc = IF n = 0 THEN "reap" ELSE "files"])
    BY <1>6 DEF List
  <2>1. n \in Nat
    OBVIOUS
  <2>2. [wk[w] EXCEPT !.listed = n,
           !.pc = IF n = 0 THEN "reap" ELSE "files"] \in WorkerRecord
    BY <1>0, <2>1
  <2>. HIDE DEF WorkerRecord
  <2>. QED
    BY <1>6, <2>2 DEF List
<1>7. CASE ListFails(w)
  <2>1. [wk[w] EXCEPT !.pc = "finish", !.outcome = "failed"] \in WorkerRecord
    BY <1>0
  <2>. HIDE DEF WorkerRecord
  <2>. QED
    BY <1>7, <2>1 DEF ListFails
<1>8. CASE ProcessFile(w)
  <2>. PICK o \in {wk[w].outcome, "partial"} :
         Move(w, [wk[w] EXCEPT !.index = @ + 1, !.outcome = o,
                    !.pc = IF wk[w].index + 1 = wk[w].listed THEN "reap" ELSE @])
    BY <1>8 DEF ProcessFile
  <2>1. /\ wk[w].index + 1 \in Nat
        /\ o \in Terminal
        /\ (IF wk[w].index + 1 = wk[w].listed THEN "reap" ELSE wk[w].pc) \in WorkerPc
    BY <1>0
  <2>2. [wk[w] EXCEPT !.index = @ + 1, !.outcome = o,
           !.pc = IF wk[w].index + 1 = wk[w].listed THEN "reap" ELSE @]
        \in WorkerRecord
    BY <1>0, <2>1
  <2>. HIDE DEF WorkerRecord
  <2>3. stale' \in [Request -> BOOLEAN]
    BY <1>8 DEF ProcessFile, Beat
  <2>. QED
    BY <1>8, <2>2, <2>3 DEF ProcessFile
<1>9. CASE Reap(w)
  BY <1>9 DEF Reap, Beat
<1>10. CASE FinishRow(w)
  BY <1>10 DEF FinishRow
<1>11. CASE SetFinal(w)
  BY <1>11 DEF SetFinal, Statuses
<1>12. CASE Restart(w)
  BY <1>12 DEF Restart
<1>13. CASE Crash(w)
  BY <1>13 DEF Crash
<1>14. CASE Escape(w)
  BY <1>14 DEF Escape
<1>. QED
  BY <1>1, <1>2, <1>3, <1>4, <1>5, <1>6, <1>7, <1>8, <1>9, <1>10, <1>11, <1>12,
     <1>13, <1>14 DEF WorkerStep

-----------------------------------------------------------------------------
(* The slot of a directory. These facts need no assumption on heartbeats.  *)

\* A request has a row exactly from its INSERT on.
RowsFollowRequests ==
    \A q \in Request :
        /\ req[q].pc \in {"idle", "insert", "lookup"} => runState[q] = "absent"
        /\ req[q].pc \in {"setQueued", "readBack"} => runState[q] # "absent"

QueueInv ==
    /\ TypeOK
    /\ WorkersHoldRuns
    /\ RowsFollowRequests
    /\ OneActiveRunPerDirectory

LEMMA QueueInit == Init => QueueInv
<1>. SUFFICES ASSUME Init PROVE QueueInv
  OBVIOUS
<1>. QED
  BY TypeInit DEF Init, QueueInv, WorkersHoldRuns, RowsFollowRequests,
     OneActiveRunPerDirectory, RequestAt, IdleWorker, Executing, Active

\* Only InsertRun makes an active row, and only where the directory is not held.
LEMMA QueueRequestStep ==
  ASSUME QueueInv, NEW q \in Request,
         Begin(q) \/ RequestStep(q) \/ Abandon(q) \/ GoStale(q)
  PROVE  QueueInv'
<1>0. TypeOK'
  BY TypeRequestStep DEF QueueInv
<1>. USE DEF QueueInv, TypeOK, RequestRecord, WorkersHoldRuns, RowsFollowRequests,
             OneActiveRunPerDirectory, runVars, Serve
<1>1. CASE Begin(q)
  BY <1>0, <1>1 DEF Begin
<1>2. CASE InsertRun(q)
  <2>1. WorkersHoldRuns'
    BY <1>2 DEF InsertRun
  <2>2. RowsFollowRequests'
    BY <1>2 DEF InsertRun
  <2>3. OneActiveRunPerDirectory'
    BY <1>2 DEF InsertRun, Held, ActiveRuns
  <2>. QED
    BY <1>0, <2>1, <2>2, <2>3
<1>3. CASE InsertRefused(q)
  BY <1>0, <1>3 DEF InsertRefused
<1>4. CASE SetQueued(q)
  BY <1>0, <1>4 DEF SetQueued
<1>5. CASE ReadBack(q)
  BY <1>0, <1>5 DEF ReadBack, Answer
<1>6. CASE HandedExisting(q)
  BY <1>0, <1>6 DEF HandedExisting, Answer
<1>7. CASE Retry(q)
  BY <1>0, <1>7 DEF Retry
<1>8. CASE GiveUp(q)
  BY <1>0, <1>8 DEF GiveUp, RequestAt
<1>9. CASE Abandon(q)
  BY <1>0, <1>9 DEF Abandon, RequestAt
<1>10. CASE GoStale(q)
  BY <1>0, <1>10 DEF GoStale
<1>. QED
  BY <1>1, <1>2, <1>3, <1>4, <1>5, <1>6, <1>7, <1>8, <1>9, <1>10 DEF RequestStep

\* A worker's step leaves a row out of the active ones or keeps it there.
LEMMA QueueWorkerStep ==
  ASSUME QueueInv, NEW w \in Worker,
         WorkerStep(w) \/ Crash(w) \/ Escape(w)
  PROVE  QueueInv'
<1>0. /\ TypeOK'
      /\ dirOf \in [Request -> Directory]
      /\ runState \in [Request -> {"absent"} \cup Active \cup Terminal]
      /\ wk \in [Worker -> WorkerRecord]
      /\ wk[w].run \in Request \cup {NoRun}
  BY TypeWorkerStep DEF QueueInv, TypeOK, WorkerRecord
<1>1. CASE Reclaim(w)
  <2>1. /\ \A r \in Request :
             \/ runState'[r] = runState[r]
             \/ (runState[r] = "running" /\ runState'[r] = "failed")
        /\ UNCHANGED <<dirOf, req>>
    <3>1. runState' = [r \in Request |->
                         IF r \in StaleRuns THEN "failed" ELSE runState[r]]
      BY <1>1 DEF Reclaim
    <3>2. UNCHANGED <<dirOf, req>>
      BY <1>1 DEF Reclaim
    <3>. QED
      BY <3>1, <3>2 DEF StaleRuns
  <2>2. \A v \in Worker : wk'[v].pc \in Executing \cup {"setFinal"} => wk'[v] = wk[v]
    <3>. DEFINE x == [wk[w] EXCEPT !.todo = StaleRuns,
                        !.pc = IF StaleRuns = {} THEN "claim" ELSE "setReclaimed"]
    <3>1. x.pc \in {"claim", "setReclaimed"}
      BY <1>0 DEF WorkerRecord
    <3>. HIDE DEF x
    <3>2. Move(w, x)
      BY <1>1 DEF Reclaim, x
    <3>3. wk'[w] = x /\ \A v \in Worker \ {w} : wk'[v] = wk[v]
      BY <1>0, <3>2 DEF Move
    <3>. QED
      BY <3>1, <3>3 DEF Executing
  <2>. QED
    BY <1>0, <2>1, <2>2 DEF QueueInv, WorkersHoldRuns, RowsFollowRequests,
       OneActiveRunPerDirectory, Active
<1>2. CASE ClaimRun(w)
  <2>. PICK r \in Request :
         /\ runState[r] = "queued"
         /\ runState' = [runState EXCEPT ![r] = "running"]
         /\ Move(w, [IdleWorker EXCEPT !.pc = "setRunning", !.run = r])
    BY <1>2 DEF ClaimRun, IsNext
  <2>1. \A v \in Worker :
          wk'[v].pc \in Executing \cup {"setFinal"} => wk'[v] = wk[v] \/ wk'[v].run = r
    BY <1>0 DEF Move, IdleWorker
  <2>2. UNCHANGED <<dirOf, req>>
    BY <1>2 DEF ClaimRun
  <2>. QED
    BY <1>0, <2>1, <2>2 DEF QueueInv, WorkersHoldRuns, RowsFollowRequests,
       OneActiveRunPerDirectory, Active
<1>3. CASE FinishRow(w)
  <2>1. /\ wk[w].run \in Request
        /\ runState[wk[w].run] \notin {"absent", "queued"}
        /\ wk[w].outcome \in Terminal
    BY <1>0, <1>3 DEF FinishRow, QueueInv, WorkersHoldRuns, Executing, WorkerRecord
  <2>2. \A v \in Worker :
          wk'[v].pc \in Executing \cup {"setFinal"} =>
              /\ wk'[v].run = wk[v].run
              /\ wk[v].pc \in Executing \cup {"setFinal"}
    BY <1>0, <1>3 DEF FinishRow, Move, Executing, WorkerRecord
  <2>3. /\ runState' = [runState EXCEPT ![wk[w].run] = wk[w].outcome]
        /\ UNCHANGED <<dirOf, req>>
    BY <1>3 DEF FinishRow
  <2>. QED
    BY <1>0, <2>1, <2>2, <2>3 DEF QueueInv, WorkersHoldRuns, RowsFollowRequests,
       OneActiveRunPerDirectory, Active, Terminal
\* Every other step leaves the rows alone, and its worker with the run it has,
\* if any.
<1>4. CASE ~(Reclaim(w) \/ ClaimRun(w) \/ FinishRow(w))
  <2>1. UNCHANGED <<dirOf, runState, req>>
    BY <1>4 DEF WorkerStep, SetReclaimed, ClaimNothing, SetRunning, List, ListFails,
       ProcessFile, Reap, SetFinal, Restart, Crash, Escape, runVars
  <2>2. \A v \in Worker :
          wk'[v].pc \in Executing \cup {"setFinal"} =>
              /\ wk'[v].run = wk[v].run
              /\ wk[v].pc \in Executing \cup {"setFinal"}
    <3>. USE <1>0 DEF Move, Executing, WorkerRecord, IdleWorker
    <3>1. CASE SetReclaimed(w)
      BY <3>1 DEF SetReclaimed
    <3>2. CASE ClaimNothing(w)
      BY <3>2 DEF ClaimNothing
    <3>3. CASE SetRunning(w)
      BY <3>3 DEF SetRunning
    <3>4. CASE List(w)
      BY <3>4 DEF List
    <3>5. CASE ListFails(w)
      BY <3>5 DEF ListFails
    <3>6. CASE ProcessFile(w)
      BY <3>6 DEF ProcessFile
    <3>7. CASE Reap(w)
      BY <3>7 DEF Reap
    <3>8. CASE SetFinal(w)
      BY <3>8 DEF SetFinal
    <3>9. CASE Restart(w)
      BY <3>9 DEF Restart
    <3>10. CASE Crash(w)
      BY <3>10 DEF Crash
    <3>11. CASE Escape(w)
      BY <3>11 DEF Escape
    <3>. QED
      BY <1>4, <3>1, <3>2, <3>3, <3>4, <3>5, <3>6, <3>7, <3>8, <3>9, <3>10, <3>11
         DEF WorkerStep
  <2>. QED
    BY <1>0, <2>1, <2>2 DEF QueueInv, WorkersHoldRuns, RowsFollowRequests,
       OneActiveRunPerDirectory
<1>. QED
  BY <1>1, <1>2, <1>3, <1>4

LEMMA QueueStep == QueueInv /\ [Next]_vars => QueueInv'
<1>. SUFFICES ASSUME QueueInv, [Next]_vars PROVE QueueInv'
  OBVIOUS
<1>1. CASE UNCHANGED vars
  BY <1>1 DEF vars, QueueInv, TypeOK, WorkersHoldRuns, RowsFollowRequests,
              OneActiveRunPerDirectory
<1>2. CASE Next
  BY <1>2, QueueRequestStep, QueueWorkerStep DEF Next
<1>. QED
  BY <1>1, <1>2

\* The types hold in every reachable state.
THEOREM TypesHold == Spec => []TypeOK
<1>1. QueueInv => TypeOK
  BY DEF QueueInv
<1>. QED
  BY <1>1, QueueInit, QueueStep, PTL DEF Spec

\* A directory never has two active runs, for any number of requests, workers,
\* crashes and slow files.
THEOREM DoubleClickProtection == Spec => []OneActiveRunPerDirectory
<1>1. QueueInv => OneActiveRunPerDirectory
  BY DEF QueueInv
<1>. QED
  BY <1>1, QueueInit, QueueStep, PTL DEF Spec

-----------------------------------------------------------------------------
(* Leases. Here the heartbeat matters: a file never outlasts the timeout,  *)
(* as config.py says of it, or there is one worker, as deployed.           *)

HeartbeatsHold == ~SlowFiles \/ \A v, w \in Worker : v = w

\* A worker inside run_sync has a run that is still running ...
HoldsRunning ==
    \A w \in Worker : wk[w].pc \in Executing => runState[wk[w].run] = "running"

\* ... that no other worker has ...
HoldsAlone ==
    \A v, w \in Worker :
        (wk[v].pc \in Executing /\ wk[w].pc \in Executing /\ v # w) =>
            wk[v].run # wk[w].run

\* ... and that goes stale only if files are slow.
StaleOnlyIfSlow ==
    \A w \in Worker : (wk[w].pc \in Executing /\ stale[wk[w].run]) => SlowFiles

\* A status about to be written is the state of a row that has ended.
PendingIsTrue ==
    \A w \in Worker :
        /\ wk[w].pc = "setFinal" => runState[wk[w].run] = wk[w].outcome
        /\ wk[w].pc = "setReclaimed" =>
             \A r \in wk[w].todo : runState[r] = "failed"

LeaseInv ==
    /\ QueueInv
    /\ HoldsRunning
    /\ HoldsAlone
    /\ StaleOnlyIfSlow
    /\ PendingIsTrue
    /\ StatusWasTrue
    /\ CreatedIsOwnUnlessEnded

\* What a step may do to the rows.
RowsAdvance ==
    /\ dirOf' = dirOf
    /\ \A r \in Request :
         /\ runState[r] # "absent" => runState'[r] # "absent"
         /\ runState[r] \notin {"absent", "queued"} =>
              runState'[r] \notin {"absent", "queued"}
         /\ runState[r] \in Terminal => runState'[r] = runState[r]

LEMMA LeaseInit == Init => LeaseInv
<1>. SUFFICES ASSUME Init PROVE LeaseInv
  OBVIOUS
<1>. QED
  BY QueueInit DEF Init, LeaseInv, HoldsRunning, HoldsAlone, StaleOnlyIfSlow,
     PendingIsTrue, StatusWasTrue, CreatedIsOwnUnlessEnded, RequestAt, IdleWorker,
     Executing, Terminal

\* The steps that leave every row as it is.
LEMMA QuietSteps ==
  ASSUME [Next]_vars,
         \A q \in Request : ~InsertRun(q),
         \A w \in Worker : ~Reclaim(w) /\ ~ClaimRun(w) /\ ~FinishRow(w)
  PROVE  UNCHANGED <<dirOf, runState>>
<1>1. CASE UNCHANGED vars
  BY <1>1 DEF vars
<1>2. ASSUME NEW q \in Request, Begin(q) \/ RequestStep(q) \/ Abandon(q) \/ GoStale(q)
      PROVE  UNCHANGED <<dirOf, runState>>
  BY <1>2 DEF Begin, RequestStep, InsertRefused, SetQueued, ReadBack, HandedExisting,
     Retry, GiveUp, Abandon, GoStale, runVars
<1>3. ASSUME NEW w \in Worker, WorkerStep(w) \/ Crash(w) \/ Escape(w)
      PROVE  UNCHANGED <<dirOf, runState>>
  BY <1>3 DEF WorkerStep, SetReclaimed, ClaimNothing, SetRunning, List, ListFails,
     ProcessFile, Reap, SetFinal, Restart, Crash, Escape, runVars
<1>. QED
  BY <1>1, <1>2, <1>3 DEF Next

\* Rows only advance: finish_run needs HoldsRunning for that, because its UPDATE
\* has no condition.
LEMMA AdvanceStep ==
  ASSUME LeaseInv, [Next]_vars
  PROVE  RowsAdvance
<1>. USE DEF LeaseInv, QueueInv, RowsAdvance
<1>0. runState \in [Request -> {"absent"} \cup Active \cup Terminal]
  BY DEF TypeOK
<1>1. ASSUME NEW q \in Request, InsertRun(q)
      PROVE  RowsAdvance
  BY <1>0, <1>1 DEF InsertRun, RowsFollowRequests, Terminal
<1>2. ASSUME NEW w \in Worker, Reclaim(w)
      PROVE  RowsAdvance
  <2>1. /\ dirOf' = dirOf
        /\ runState' = [r \in Request |->
                          IF r \in StaleRuns THEN "failed" ELSE runState[r]]
    BY <1>2 DEF Reclaim
  <2>. QED
    BY <2>1 DEF StaleRuns, Terminal
<1>3. ASSUME NEW w \in Worker, ClaimRun(w)
      PROVE  RowsAdvance
  <2>. PICK r \in Request : /\ runState[r] = "queued"
                            /\ runState' = [runState EXCEPT ![r] = "running"]
    BY <1>3 DEF ClaimRun, IsNext
  <2>. QED
    BY <1>0, <1>3 DEF ClaimRun, Terminal
<1>4. ASSUME NEW w \in Worker, FinishRow(w)
      PROVE  RowsAdvance
  <2>1. wk[w].outcome \in Terminal /\ runState[wk[w].run] = "running"
    BY <1>4 DEF FinishRow, TypeOK, WorkerRecord, HoldsRunning, Executing
  <2>2. /\ dirOf' = dirOf
        /\ runState' = [runState EXCEPT ![wk[w].run] = wk[w].outcome]
    BY <1>4 DEF FinishRow
  <2>. QED
    BY <1>0, <2>1, <2>2 DEF Terminal
<1>. QED
  BY <1>1, <1>2, <1>3, <1>4, QuietSteps

\* A status write reports a row that was, and still is, in that state: the
\* writer comes after its own row write, and the row has not moved since.
LEMMA StatusStep ==
  ASSUME LeaseInv, [Next]_vars
  PROVE  StatusWasTrue'
<1>0. RowsAdvance
  BY AdvanceStep
<1>. USE DEF LeaseInv, QueueInv
<1>1. CASE UNCHANGED status
  BY <1>0, <1>1 DEF RowsAdvance, StatusWasTrue, Terminal
\* One directory's status is written, with a state it may show.
<1>2. ASSUME NEW e \in Directory, NEW v,
             status' = [status EXCEPT ![e] = v],
             \E r \in Request :
                 /\ dirOf[r] = e
                 /\ \/ v = "queued" /\ runState[r] # "absent"
                    \/ v = "running" /\ runState[r] \notin {"absent", "queued"}
                    \/ v \in Terminal /\ runState[r] = v
      PROVE  StatusWasTrue'
  <2>. SUFFICES ASSUME NEW d \in Directory
                PROVE  (/\ status[d] = "queued" =>
                             \E r \in Request : dirOf[r] = d /\ runState[r] # "absent"
                        /\ status[d] = "running" =>
                             \E r \in Request :
                                 dirOf[r] = d /\ runState[r] \notin {"absent", "queued"}
                        /\ status[d] \in Terminal =>
                             \E r \in Request : dirOf[r] = d /\ runState[r] = status[d])'
    BY DEF StatusWasTrue
  <2>1. CASE d = e
    <3>1. status'[d] = v
      BY <1>2, <2>1 DEF TypeOK
    <3>. QED
      BY <1>0, <1>2, <2>1, <3>1 DEF RowsAdvance, Terminal
  <2>2. CASE d # e
    <3>1. status'[d] = status[d]
      BY <1>2, <2>2 DEF TypeOK
    <3>. QED
      BY <1>0, <3>1 DEF RowsAdvance, StatusWasTrue, Terminal
  <2>. QED
    BY <2>1, <2>2
<1>3. ASSUME NEW q \in Request, SetQueued(q)
      PROVE  StatusWasTrue'
  <2>1. runState[q] # "absent" /\ dirOf[q] \in Directory
    BY <1>3 DEF SetQueued, RowsFollowRequests, TypeOK
  <2>2. status' = [status EXCEPT ![dirOf[q]] = "queued"]
    BY <1>3 DEF SetQueued
  <2>. QED
    BY <1>2, <2>1, <2>2
<1>4. ASSUME NEW w \in Worker, SetReclaimed(w)
      PROVE  StatusWasTrue'
  <2>1. PICK r \in wk[w].todo : status' = [status EXCEPT ![dirOf[r]] = "failed"]
    BY <1>4 DEF SetReclaimed
  <2>2. r \in Request /\ dirOf[r] \in Directory /\ runState[r] = "failed"
    BY <1>4, <2>1 DEF SetReclaimed, PendingIsTrue, TypeOK, WorkerRecord
  <2>. QED
    BY <1>2, <2>1, <2>2 DEF Terminal
<1>5. ASSUME NEW w \in Worker, SetRunning(w)
      PROVE  StatusWasTrue'
  <2>1. /\ wk[w].run \in Request
        /\ dirOf[wk[w].run] \in Directory
        /\ runState[wk[w].run] \notin {"absent", "queued"}
    BY <1>5 DEF SetRunning, WorkersHoldRuns, Executing, TypeOK
  <2>2. status' = [status EXCEPT ![dirOf[wk[w].run]] = "running"]
    BY <1>5 DEF SetRunning
  <2>. QED
    BY <1>2, <2>1, <2>2
<1>6. ASSUME NEW w \in Worker, SetFinal(w)
      PROVE  StatusWasTrue'
  <2>1. /\ wk[w].run \in Request
        /\ dirOf[wk[w].run] \in Directory
        /\ wk[w].outcome \in Terminal
        /\ runState[wk[w].run] = wk[w].outcome
    BY <1>6 DEF SetFinal, WorkersHoldRuns, PendingIsTrue, TypeOK, WorkerRecord
  <2>2. status' = [status EXCEPT ![dirOf[wk[w].run]] = wk[w].outcome]
    BY <1>6 DEF SetFinal
  <2>. QED
    BY <1>2, <2>1, <2>2
<1>7. CASE /\ \A q \in Request : ~SetQueued(q)
           /\ \A w \in Worker : ~SetReclaimed(w) /\ ~SetRunning(w) /\ ~SetFinal(w)
  <2>1. CASE UNCHANGED vars
    BY <1>1, <2>1 DEF vars
  <2>2. ASSUME NEW q \in Request, Begin(q) \/ RequestStep(q) \/ Abandon(q) \/ GoStale(q)
        PROVE  UNCHANGED status
    BY <1>7, <2>2 DEF Begin, RequestStep, InsertRun, InsertRefused, ReadBack,
       HandedExisting, Retry, GiveUp, Abandon, GoStale
  <2>3. ASSUME NEW w \in Worker, WorkerStep(w) \/ Crash(w) \/ Escape(w)
        PROVE  UNCHANGED status
    BY <1>7, <2>3 DEF WorkerStep, Reclaim, ClaimRun, ClaimNothing, List, ListFails,
       ProcessFile, Reap, FinishRow, Restart, Crash, Escape
  <2>. QED
    BY <1>1, <2>1, <2>2, <2>3 DEF Next
<1>. QED
  BY <1>3, <1>4, <1>5, <1>6, <1>7

\* While a request's own run is active it is the only active one of its
\* directory, so get_active_run can return no other.
LEMMA AnswerStep ==
  ASSUME LeaseInv, [Next]_vars
  PROVE  CreatedIsOwnUnlessEnded'
<1>0. RowsAdvance
  BY AdvanceStep
<1>. USE DEF LeaseInv, QueueInv, CreatedIsOwnUnlessEnded
<1>1. CASE UNCHANGED req
  BY <1>0, <1>1 DEF RowsAdvance, TypeOK
<1>2. ASSUME NEW q \in Request, NEW x,
             req' = [req EXCEPT ![q] = x],
             (x.pc = "answered" /\ x.created) =>
                 (x.got = q \/ runState'[q] \in Terminal)
      PROVE  CreatedIsOwnUnlessEnded'
  <2>1. req'[q] = x /\ \A p \in Request \ {q} : req'[p] = req[p]
    BY <1>2 DEF TypeOK
  <2>. QED
    BY <1>0, <1>2, <2>1 DEF RowsAdvance
<1>3. ASSUME NEW q \in Request, ReadBack(q)
      PROVE  CreatedIsOwnUnlessEnded'
  <2>1. PICK r \in ActiveOrNone(dirOf[q]) : req' = [req EXCEPT ![q] = Answer(r, TRUE)]
    BY <1>3 DEF ReadBack, Serve
  <2>2. runState[q] \in Active \cup Terminal
    BY <1>3 DEF ReadBack, RowsFollowRequests, TypeOK
  <2>3. CASE runState[q] \in Active
    <3>1. ActiveRuns(dirOf[q]) = {q}
      BY <2>3 DEF OneActiveRunPerDirectory, ActiveRuns
    <3>. QED
      BY <1>2, <2>1, <3>1 DEF ActiveOrNone, Held, Answer
  <2>4. CASE runState[q] \in Terminal
    BY <1>0, <1>2, <2>1, <2>4 DEF RowsAdvance, Answer
  <2>. QED
    BY <2>2, <2>3, <2>4
<1>4. ASSUME NEW q \in Request, HandedExisting(q)
      PROVE  CreatedIsOwnUnlessEnded'
  <2>1. PICK r \in ActiveRuns(dirOf[q]) : req' = [req EXCEPT ![q] = Answer(r, FALSE)]
    BY <1>4 DEF HandedExisting, Serve
  <2>. QED
    BY <1>2, <2>1 DEF Answer
<1>5. ASSUME NEW q \in Request,
             \/ Begin(q) \/ InsertRun(q) \/ InsertRefused(q) \/ SetQueued(q)
             \/ Retry(q) \/ GiveUp(q) \/ Abandon(q) \/ GoStale(q)
      PROVE  CreatedIsOwnUnlessEnded'
  <2>1. CASE GoStale(q)
    BY <1>1, <2>1 DEF GoStale
  <2>2. ASSUME NEW pc, pc # "answered", Serve(q, [req[q] EXCEPT !.pc = pc])
        PROVE  CreatedIsOwnUnlessEnded'
    <3>1. [req[q] EXCEPT !.pc = pc].pc = pc
      BY DEF TypeOK, RequestRecord
    <3>. QED
      BY <1>2, <2>2, <3>1 DEF Serve
  <2>3. CASE Begin(q) \/ InsertRun(q) \/ InsertRefused(q) \/ SetQueued(q)
    BY <2>2, <2>3 DEF Begin, InsertRun, InsertRefused, SetQueued
  <2>4. CASE Retry(q)
    <3>1. [req[q] EXCEPT !.pc = "insert", !.attempt = @ + 1].pc = "insert"
      BY DEF TypeOK, RequestRecord
    <3>. QED
      BY <1>2, <2>4, <3>1 DEF Retry, Serve
  <2>5. CASE GiveUp(q) \/ Abandon(q)
    BY <1>2, <2>5 DEF GiveUp, Abandon, Serve, RequestAt
  <2>. QED
    BY <1>5, <2>1, <2>3, <2>4, <2>5
<1>6. ASSUME NEW w \in Worker, WorkerStep(w) \/ Crash(w) \/ Escape(w)
      PROVE  UNCHANGED req
  BY <1>6 DEF WorkerStep, Reclaim, SetReclaimed, ClaimRun, ClaimNothing, SetRunning,
     List, ListFails, ProcessFile, Reap, FinishRow, SetFinal, Restart, Crash, Escape
<1>7. CASE UNCHANGED vars
  BY <1>1, <1>7 DEF vars
<1>. QED
  BY <1>1, <1>3, <1>4, <1>5, <1>6, <1>7 DEF Next, RequestStep

\* What a step leaves of a worker's hold on its run: a worker that executes
\* afterwards executed the same run before, except the one that claims, which
\* takes a queued run.
LEMMA HoldStep ==
  ASSUME QueueInv, [Next]_vars, NEW v \in Worker, wk'[v].pc \in Executing
  PROVE  \/ /\ wk[v].pc \in Executing
            /\ wk'[v].run = wk[v].run
         \/ /\ ClaimRun(v)
            /\ wk'[v].run \in Request
            /\ runState[wk'[v].run] = "queued"
            /\ runState' = [runState EXCEPT ![wk'[v].run] = "running"]
            /\ stale' = [stale EXCEPT ![wk'[v].run] = FALSE]
<1>0. wk \in [Worker -> WorkerRecord]
  BY DEF QueueInv, TypeOK
<1>1. CASE wk' = wk
  BY <1>1
<1>2. ASSUME NEW q \in Request, Begin(q) \/ RequestStep(q) \/ Abandon(q) \/ GoStale(q)
      PROVE  wk' = wk
  BY <1>2 DEF Begin, RequestStep, InsertRun, InsertRefused, SetQueued, ReadBack,
     HandedExisting, Retry, GiveUp, Abandon, GoStale
<1>3. ASSUME NEW w \in Worker, WorkerStep(w) \/ Crash(w) \/ Escape(w), w # v
      PROVE  wk'[v] = wk[v]
  <2>1. PICK x : wk' = [wk EXCEPT ![w] = x]
    BY <1>3 DEF WorkerStep, Reclaim, SetReclaimed, ClaimRun, ClaimNothing, SetRunning,
       List, ListFails, ProcessFile, Reap, FinishRow, SetFinal, Restart, Crash, Escape,
       Move
  <2>. QED
    BY <1>0, <1>3, <2>1
<1>4. CASE ClaimRun(v)
  <2>1. PICK r \in Request :
          /\ runState[r] = "queued"
          /\ runState' = [runState EXCEPT ![r] = "running"]
          /\ stale' = [stale EXCEPT ![r] = FALSE]
          /\ wk' = [wk EXCEPT ![v] = [IdleWorker EXCEPT !.pc = "setRunning", !.run = r]]
    BY <1>4 DEF ClaimRun, IsNext, Move
  <2>2. wk'[v].run = r
    BY <1>0, <2>1 DEF IdleWorker
  <2>. QED
    BY <1>4, <2>1, <2>2
<1>5. CASE (WorkerStep(v) /\ ~ClaimRun(v)) \/ Crash(v) \/ Escape(v)
  <2>. USE <1>0 DEF Move, Executing, WorkerRecord, IdleWorker
  <2>1. CASE Reclaim(v)
    <3>. DEFINE x == [wk[v] EXCEPT !.todo = StaleRuns,
                        !.pc = IF StaleRuns = {} THEN "claim" ELSE "setReclaimed"]
    <3>1. x.pc \in {"claim", "setReclaimed"}
      OBVIOUS
    <3>. HIDE DEF x
    <3>2. wk'[v] = x
      BY <2>1 DEF Reclaim, x
    <3>. QED
      BY <3>1, <3>2
  <2>2. CASE SetReclaimed(v)
    BY <2>2 DEF SetReclaimed
  <2>3. CASE ClaimNothing(v)
    BY <2>3 DEF ClaimNothing
  <2>4. CASE SetRunning(v)
    BY <2>4 DEF SetRunning
  <2>5. CASE List(v)
    BY <2>5 DEF List
  <2>6. CASE ListFails(v)
    BY <2>6 DEF ListFails
  <2>7. CASE ProcessFile(v)
    BY <2>7 DEF ProcessFile
  <2>8. CASE Reap(v)
    BY <2>8 DEF Reap
  <2>9. CASE FinishRow(v)
    BY <2>9 DEF FinishRow
  <2>10. CASE SetFinal(v)
    BY <2>10 DEF SetFinal
  <2>11. CASE Restart(v)
    BY <2>11 DEF Restart
  <2>12. CASE Crash(v)
    BY <2>12 DEF Crash
  <2>13. CASE Escape(v)
    BY <2>13 DEF Escape
  <2>. QED
    BY <1>5, <2>1, <2>2, <2>3, <2>4, <2>5, <2>6, <2>7, <2>8, <2>9, <2>10, <2>11,
       <2>12, <2>13 DEF WorkerStep
<1>. QED
  BY <1>1, <1>2, <1>3, <1>4, <1>5 DEF Next, vars

LEMMA StaleStep ==
  ASSUME QueueInv, [Next]_vars, NEW r \in Request, stale'[r]
  PROVE  stale[r] \/ GoStale(r)
<1>0. stale \in [Request -> BOOLEAN]
  BY DEF QueueInv, TypeOK
<1>1. CASE UNCHANGED vars
  BY <1>1 DEF vars
<1>2. ASSUME NEW q \in Request, Begin(q) \/ RequestStep(q) \/ Abandon(q)
      PROVE  stale' = stale
  BY <1>2 DEF Begin, RequestStep, InsertRun, InsertRefused, SetQueued, ReadBack,
     HandedExisting, Retry, GiveUp, Abandon, runVars
<1>3. ASSUME NEW q \in Request, GoStale(q)
      PROVE  stale[r] \/ GoStale(r)
  BY <1>0, <1>3 DEF GoStale
<1>4. ASSUME NEW w \in Worker, WorkerStep(w) \/ Crash(w) \/ Escape(w)
      PROVE  stale[r]
  <2>1. CASE Reclaim(w)
    BY <2>1 DEF Reclaim
  <2>2. CASE ClaimRun(w) \/ ProcessFile(w) \/ Reap(w) \/ FinishRow(w)
    BY <1>0, <2>2 DEF ClaimRun, ProcessFile, Reap, FinishRow, Beat
  <2>3. CASE ~(Reclaim(w) \/ ClaimRun(w) \/ ProcessFile(w) \/ Reap(w) \/ FinishRow(w))
    BY <1>4, <2>3 DEF WorkerStep, SetReclaimed, ClaimNothing, SetRunning, List,
       ListFails, SetFinal, Restart, Crash, Escape, runVars
  <2>. QED
    BY <2>1, <2>2, <2>3
<1>. QED
  BY <1>1, <1>2, <1>3, <1>4 DEF Next

\* The reclaimer fails no run under a worker: a run that is stale while it is
\* executed means slow files, hence one worker, and that one is reclaiming.
LEMMA HoldsRunningStep ==
  ASSUME HeartbeatsHold, LeaseInv, [Next]_vars
  PROVE  HoldsRunning'
<1>. USE DEF LeaseInv, QueueInv
<1>. SUFFICES ASSUME NEW v \in Worker, wk'[v].pc \in Executing
              PROVE  runState'[wk'[v].run] = "running"
  BY DEF HoldsRunning
<1>0. runState \in [Request -> {"absent"} \cup Active \cup Terminal]
  BY DEF TypeOK
<1>1. CASE ClaimRun(v) /\ runState' = [runState EXCEPT ![wk'[v].run] = "running"]
           /\ wk'[v].run \in Request
  BY <1>0, <1>1
<1>2. CASE wk[v].pc \in Executing /\ wk'[v].run = wk[v].run
  <2>. DEFINE r == wk[v].run
  <2>0. r \in Request /\ runState[r] = "running"
    BY <1>2 DEF HoldsRunning, WorkersHoldRuns
  <2>1. ASSUME NEW q \in Request, InsertRun(q)
        PROVE  runState'[r] = "running"
    BY <1>0, <2>0, <2>1 DEF InsertRun, RowsFollowRequests
  <2>2. ASSUME NEW w \in Worker, Reclaim(w)
        PROVE  runState'[r] = "running"
    <3>1. ~stale[r]
      <4>. SUFFICES ASSUME stale[r] PROVE FALSE
        OBVIOUS
      <4>1. v = w
        BY <1>2 DEF StaleOnlyIfSlow, HeartbeatsHold
      <4>. QED
        BY <1>2, <2>2, <4>1 DEF Reclaim, Executing
    <3>2. runState' = [s \in Request |->
                         IF s \in StaleRuns THEN "failed" ELSE runState[s]]
      BY <2>2 DEF Reclaim
    <3>. QED
      BY <2>0, <3>1, <3>2 DEF StaleRuns
  <2>3. ASSUME NEW w \in Worker, ClaimRun(w)
        PROVE  runState'[r] = "running"
    <3>1. PICK s \in Request : /\ runState[s] = "queued"
                               /\ runState' = [runState EXCEPT ![s] = "running"]
      BY <2>3 DEF ClaimRun, IsNext
    <3>. QED
      BY <1>0, <2>0, <3>1
  <2>4. ASSUME NEW w \in Worker, FinishRow(w)
        PROVE  runState'[r] = "running"
    <3>1. wk[w].pc \in Executing /\ wk'[w].pc = "setFinal"
      BY <2>4 DEF FinishRow, Move, Executing, TypeOK, WorkerRecord
    <3>2. w # v
      BY <3>1 DEF Executing
    <3>3. wk[w].run # r
      BY <1>2, <3>1, <3>2 DEF HoldsAlone
    <3>. QED
      BY <1>0, <2>0, <2>4, <3>3 DEF FinishRow
  <2>5. runState'[r] = "running"
    BY <2>0, <2>1, <2>2, <2>3, <2>4, QuietSteps
  <2>. QED
    BY <1>2, <2>5
<1>. QED
  BY <1>1, <1>2, HoldStep

LEMMA HoldsAloneStep ==
  ASSUME LeaseInv, [Next]_vars
  PROVE  HoldsAlone'
<1>. USE DEF LeaseInv, QueueInv
<1>. SUFFICES ASSUME NEW v \in Worker, NEW w \in Worker, v # w,
                     wk'[v].pc \in Executing, wk'[w].pc \in Executing
              PROVE  wk'[v].run # wk'[w].run
  BY DEF HoldsAlone
<1>1. ASSUME NEW x \in Worker, NEW y \in Worker, x # y, ClaimRun(x),
             wk'[y].pc \in Executing
      PROVE  wk'[x].run # wk'[y].run
  <2>1. PICK z : wk' = [wk EXCEPT ![x] = z]
    BY <1>1 DEF ClaimRun, Move
  <2>2. wk'[y] = wk[y]
    BY <1>1, <2>1 DEF TypeOK
  <2>3. runState[wk'[y].run] = "running"
    BY <1>1, <2>2 DEF HoldsRunning
  <2>4. wk[x].pc \notin Executing
    BY <1>1 DEF ClaimRun, Executing
  <2>5. wk'[x].pc \in Executing
    BY <1>1 DEF ClaimRun, Move, IdleWorker, Executing, TypeOK
  <2>6. runState[wk'[x].run] = "queued"
    BY <2>4, <2>5, HoldStep
  <2>. QED
    BY <2>3, <2>6
<1>2. CASE ClaimRun(v)
  BY <1>1, <1>2
<1>3. CASE ClaimRun(w)
  BY <1>1, <1>3
<1>4. CASE ~ClaimRun(v) /\ ~ClaimRun(w)
  BY <1>4, HoldStep DEF HoldsAlone
<1>. QED
  BY <1>2, <1>3, <1>4

LEMMA StaleOnlyIfSlowStep ==
  ASSUME LeaseInv, [Next]_vars
  PROVE  StaleOnlyIfSlow'
<1>. USE DEF LeaseInv, QueueInv
<1>. SUFFICES ASSUME NEW v \in Worker, wk'[v].pc \in Executing, stale'[wk'[v].run]
              PROVE  SlowFiles
  BY DEF StaleOnlyIfSlow
<1>1. CASE stale' = [stale EXCEPT ![wk'[v].run] = FALSE] /\ wk'[v].run \in Request
  BY <1>1 DEF TypeOK
<1>2. CASE wk[v].pc \in Executing /\ wk'[v].run = wk[v].run
  <2>1. wk[v].run \in Request
    BY <1>2 DEF WorkersHoldRuns
  <2>2. stale[wk[v].run] \/ GoStale(wk[v].run)
    BY <1>2, <2>1, StaleStep
  <2>. QED
    BY <1>2, <2>2 DEF StaleOnlyIfSlow, GoStale, Executes
<1>. QED
  BY <1>1, <1>2, HoldStep

\* The state about to be reported is the one just written, and it stays.
LEMMA PendingStep ==
  ASSUME LeaseInv, [Next]_vars
  PROVE  PendingIsTrue'
<1>0. RowsAdvance
  BY AdvanceStep
<1>. USE DEF LeaseInv, QueueInv
<1>. SUFFICES ASSUME NEW v \in Worker
              PROVE  /\ wk'[v].pc = "setFinal" =>
                          runState'[wk'[v].run] = wk'[v].outcome
                     /\ wk'[v].pc = "setReclaimed" =>
                          \A r \in wk'[v].todo : runState'[r] = "failed"
  BY DEF PendingIsTrue
<1>1. /\ wk \in [Worker -> WorkerRecord]
      /\ runState \in [Request -> {"absent"} \cup Active \cup Terminal]
      /\ wk[v].todo \subseteq Request
      /\ wk[v].pc = "setFinal" => wk[v].run \in Request /\ wk[v].outcome \in Terminal
  BY DEF TypeOK, WorkerRecord, WorkersHoldRuns
<1>2. CASE wk'[v] = wk[v]
  <2>1. CASE wk[v].pc = "setFinal"
    BY <1>0, <1>1, <1>2, <2>1 DEF PendingIsTrue, RowsAdvance
  <2>2. CASE wk[v].pc = "setReclaimed"
    BY <1>0, <1>1, <1>2, <2>2 DEF PendingIsTrue, RowsAdvance, Terminal
  <2>. QED
    BY <1>2, <2>1, <2>2
<1>3. CASE UNCHANGED vars
  BY <1>2, <1>3 DEF vars
<1>4. ASSUME NEW q \in Request, Begin(q) \/ RequestStep(q) \/ Abandon(q) \/ GoStale(q)
      PROVE  wk' = wk
  BY <1>4 DEF Begin, RequestStep, InsertRun, InsertRefused, SetQueued, ReadBack,
     HandedExisting, Retry, GiveUp, Abandon, GoStale
<1>5. ASSUME NEW w \in Worker, WorkerStep(w) \/ Crash(w) \/ Escape(w), w # v
      PROVE  wk'[v] = wk[v]
  <2>1. PICK x : wk' = [wk EXCEPT ![w] = x]
    BY <1>5 DEF WorkerStep, Reclaim, SetReclaimed, ClaimRun, ClaimNothing, SetRunning,
       List, ListFails, ProcessFile, Reap, FinishRow, SetFinal, Restart, Crash, Escape,
       Move
  <2>. QED
    BY <1>1, <1>5, <2>1
<1>6. CASE FinishRow(v)
  <2>1. /\ wk'[v] = [wk[v] EXCEPT !.pc = "setFinal"]
        /\ wk[v].run \in Request
        /\ runState' = [runState EXCEPT ![wk[v].run] = wk[v].outcome]
    BY <1>1, <1>6 DEF FinishRow, Move, WorkersHoldRuns, Executing
  <2>2. /\ wk'[v].pc = "setFinal"
        /\ wk'[v].run = wk[v].run
        /\ wk'[v].outcome = wk[v].outcome
    BY <1>1, <2>1 DEF WorkerRecord
  <2>. QED
    BY <1>1, <2>1, <2>2
<1>7. CASE Reclaim(v)
  <2>. DEFINE x == [wk[v] EXCEPT !.todo = StaleRuns,
                      !.pc = IF StaleRuns = {} THEN "claim" ELSE "setReclaimed"]
  <2>1. x.todo = StaleRuns /\ x.pc # "setFinal"
    BY <1>1 DEF WorkerRecord
  <2>. HIDE DEF x
  <2>2. wk'[v] = x
    BY <1>1, <1>7 DEF Reclaim, Move, x
  <2>3. runState' = [r \in Request |->
                       IF r \in StaleRuns THEN "failed" ELSE runState[r]]
    BY <1>7 DEF Reclaim
  <2>. QED
    BY <2>1, <2>2, <2>3 DEF StaleRuns
<1>8. CASE SetReclaimed(v)
  <2>1. PICK r \in wk[v].todo :
          wk'[v] = [wk[v] EXCEPT !.todo = @ \ {r},
                      !.pc = IF wk[v].todo = {r} THEN "claim" ELSE @]
    BY <1>1, <1>8 DEF SetReclaimed, Move
  <2>2. wk[v].pc = "setReclaimed" /\ runState' = runState
    BY <1>8 DEF SetReclaimed, runVars
  <2>3. /\ wk'[v].todo \subseteq wk[v].todo
        /\ wk'[v].pc # "setFinal"
    BY <1>1, <2>1, <2>2 DEF WorkerRecord
  <2>. QED
    BY <2>2, <2>3 DEF PendingIsTrue
<1>9. ASSUME (WorkerStep(v) \/ Crash(v) \/ Escape(v)),
             ~FinishRow(v), ~Reclaim(v), ~SetReclaimed(v)
      PROVE  wk'[v].pc \notin {"setFinal", "setReclaimed"}
  <2>. USE <1>1 DEF Move, WorkerRecord, IdleWorker
  <2>1. CASE ClaimRun(v)
    BY <2>1 DEF ClaimRun
  <2>2. CASE List(v)
    BY <2>2 DEF List
  <2>3. CASE ListFails(v)
    BY <2>3 DEF ListFails
  <2>4. CASE ProcessFile(v)
    BY <2>4 DEF ProcessFile
  <2>5. CASE Reap(v)
    BY <2>5 DEF Reap
  <2>6. CASE SetRunning(v)
    BY <2>6 DEF SetRunning
  <2>7. CASE ClaimNothing(v) \/ SetFinal(v) \/ Restart(v) \/ Crash(v) \/ Escape(v)
    BY <2>7 DEF ClaimNothing, SetFinal, Restart, Crash, Escape
  <2>. QED
    BY <1>9, <2>1, <2>2, <2>3, <2>4, <2>5, <2>6, <2>7 DEF WorkerStep
<1>. QED
  BY <1>2, <1>3, <1>4, <1>5, <1>6, <1>7, <1>8, <1>9 DEF Next

LEMMA LeaseStep ==
  ASSUME HeartbeatsHold
  PROVE  LeaseInv /\ [Next]_vars => LeaseInv'
<1>. SUFFICES ASSUME LeaseInv, [Next]_vars PROVE LeaseInv'
  OBVIOUS
<1>1. QueueInv'
  BY QueueStep DEF LeaseInv
<1>. QED
  BY <1>1, HoldsRunningStep, HoldsAloneStep, StaleOnlyIfSlowStep, PendingStep,
     StatusStep, AnswerStep DEF LeaseInv

LEMMA LeaseHolds ==
  ASSUME HeartbeatsHold
  PROVE  Spec => []LeaseInv
BY LeaseInit, LeaseStep, PTL DEF Spec

\* If heartbeats hold, a worker inside run_sync has its run to itself and no
\* two workers sync one directory.
THEOREM SyncsExclude ==
  ASSUME HeartbeatsHold
  PROVE  Spec => []SyncsAreExclusive
<1>1. LeaseInv => SyncsAreExclusive
  BY DEF LeaseInv, QueueInv, HoldsRunning, HoldsAlone, WorkersHoldRuns,
     OneActiveRunPerDirectory, SyncsAreExclusive, Executes, Active
<1>. QED
  BY <1>1, LeaseHolds, PTL

\* If heartbeats hold, the status column only ever shows a state some run of
\* the directory has had.
THEOREM StatusIsHonest ==
  ASSUME HeartbeatsHold
  PROVE  Spec => []StatusWasTrue
<1>1. LeaseInv => StatusWasTrue
  BY DEF LeaseInv
<1>. QED
  BY <1>1, LeaseHolds, PTL

\* If heartbeats hold, a caller told that it created a run is handed its own
\* run unless that has ended.
THEOREM CreatorsGetTheirRun ==
  ASSUME HeartbeatsHold
  PROVE  Spec => []CreatedIsOwnUnlessEnded
<1>1. LeaseInv => CreatedIsOwnUnlessEnded
  BY DEF LeaseInv
<1>. QED
  BY <1>1, LeaseHolds, PTL

\* If heartbeats hold, a run that has ended never changes its state again.
THEOREM EndedRunsStay ==
  ASSUME HeartbeatsHold
  PROVE  Spec => TerminalIsFinal
<1>1. LeaseInv /\ [Next]_vars =>
        [\A r \in Request : runState[r] \in Terminal => runState'[r] = runState[r]]_vars
  BY AdvanceStep DEF RowsAdvance
<1>. QED
  BY <1>1, LeaseHolds, PTL DEF Spec, TerminalIsFinal

-----------------------------------------------------------------------------
(* Refinement.                                                             *)

\* What SlotOf says of a directory, in terms of its active run.
LEMMA SlotFacts ==
  ASSUME OneActiveRunPerDirectory, NEW d \in Directory
  PROVE  /\ SlotOf[d] = "free" <=> ~Held(d)
         /\ \A r \in Request :
              (dirOf[r] = d /\ runState[r] \in Active) => SlotOf[d] = runState[r]
BY DEF SlotOf, Held, ActiveRuns, Active, OneActiveRunPerDirectory

\* The slot of d afterwards follows from the rows of d.
LEMMA SlotFactsNext ==
  ASSUME QueueInv', NEW d \in Directory
  PROVE  /\ SlotOf'[d] = "free" <=> ~Held(d)'
         /\ \A r \in Request :
              (dirOf'[r] = d /\ runState'[r] \in Active) => SlotOf'[d] = runState'[r]
BY DEF QueueInv, SlotOf, Held, ActiveRuns, Active, OneActiveRunPerDirectory

\* A step that changes no row of d leaves its slot alone.
LEMMA SlotKept ==
  ASSUME NEW d \in Directory, UNCHANGED dirOf,
         \A r \in Request : dirOf[r] = d => \/ runState'[r] = runState[r]
                                            \/ /\ runState[r] \notin Active
                                               /\ runState'[r] \notin Active
  PROVE  SlotOf'[d] = SlotOf[d]
BY DEF SlotOf, Held, ActiveRuns, Active

LEMMA SlotStep ==
  ASSUME QueueInv, [Next]_vars
  PROVE  [Slot!SlotsNext]_SlotOf
<1>0. /\ QueueInv'
      /\ OneActiveRunPerDirectory
      /\ runState \in [Request -> {"absent"} \cup Active \cup Terminal]
      /\ dirOf \in [Request -> Directory]
      /\ SlotOf = [d \in Directory |-> SlotOf[d]]
      /\ SlotOf' = [d \in Directory |-> SlotOf'[d]]
  BY QueueStep DEF QueueInv, TypeOK, SlotOf
<1>1. ASSUME NEW q \in Request, InsertRun(q)
      PROVE  Slot!SlotsNext
  <2>. DEFINE d == dirOf[q]
  <2>1. /\ ~Held(d)
        /\ runState' = [runState EXCEPT ![q] = "queued"]
        /\ dirOf' = dirOf
        /\ runState[q] = "absent"
    BY <1>1 DEF InsertRun, QueueInv, RowsFollowRequests
  <2>2. d \in Directory /\ SlotOf[d] = "free"
    BY <1>0, <2>1, SlotFacts
  <2>3. SlotOf'[d] = "queued"
    BY <1>0, <2>1, <2>2, SlotFactsNext DEF Active
  <2>4. \A e \in Directory \ {d} : SlotOf'[e] = SlotOf[e]
    BY <1>0, <2>1, SlotKept
  <2>5. Slot!Enqueue(d)
    BY <1>0, <2>2, <2>3, <2>4 DEF Slot!Enqueue
  <2>. QED
    BY <2>2, <2>5 DEF Slot!SlotsNext
<1>2. ASSUME NEW w \in Worker, ClaimRun(w)
      PROVE  Slot!SlotsNext
  <2>. PICK r \in Request : /\ runState[r] = "queued"
                            /\ runState' = [runState EXCEPT ![r] = "running"]
    BY <1>2 DEF ClaimRun, IsNext
  <2>. DEFINE d == dirOf[r]
  <2>1. dirOf' = dirOf
    BY <1>2 DEF ClaimRun
  <2>2. d \in Directory /\ SlotOf[d] = "queued"
    BY <1>0, SlotFacts DEF Active
  <2>3. SlotOf'[d] = "running"
    BY <1>0, <2>1, <2>2, SlotFactsNext DEF Active
  <2>4. \A e \in Directory \ {d} : SlotOf'[e] = SlotOf[e]
    BY <1>0, <2>1, SlotKept
  <2>5. Slot!Claim(d)
    BY <1>0, <2>2, <2>3, <2>4 DEF Slot!Claim
  <2>. QED
    BY <2>2, <2>5 DEF Slot!SlotsNext
\* A set E of running runs ends, any other row stays in or out of the active
\* ones: their directories are released.
<1>3. ASSUME NEW E \in SUBSET Request,
             \A r \in E : runState[r] = "running" /\ runState'[r] \notin Active,
             \A r \in Request \ E : \/ runState'[r] = runState[r]
                                    \/ /\ runState[r] \notin Active
                                       /\ runState'[r] \notin Active,
             UNCHANGED dirOf
      PROVE  [Slot!SlotsNext]_SlotOf
  <2>. DEFINE D == {dirOf[r] : r \in E}
  <2>1. D \in SUBSET Directory /\ \A d \in D : SlotOf[d] = "running"
    BY <1>0, <1>3, SlotFacts DEF Active
  <2>2. \A d \in D : SlotOf'[d] = "free"
    <3>. SUFFICES ASSUME NEW e \in E PROVE SlotOf'[dirOf[e]] = "free"
      OBVIOUS
    <3>1. \A r \in Request : dirOf[r] = dirOf[e] => runState'[r] \notin Active
      BY <1>0, <1>3 DEF OneActiveRunPerDirectory, Active
    <3>2. ~Held(dirOf[e])'
      BY <1>3, <3>1 DEF Held, ActiveRuns
    <3>. QED
      BY <1>0, <1>3, <2>1, <3>2, SlotFactsNext
  <2>3. \A e \in Directory \ D : SlotOf'[e] = SlotOf[e]
    BY <1>3, SlotKept
  <2>4. CASE D = {}
    BY <1>0, <2>3, <2>4
  <2>5. CASE D # {}
    <3>1. Slot!Release(D)
      BY <1>0, <2>1, <2>2, <2>3, <2>5 DEF Slot!Release
    <3>. QED
      BY <2>1, <3>1 DEF Slot!SlotsNext
  <2>. QED
    BY <2>4, <2>5
<1>4. ASSUME NEW w \in Worker, Reclaim(w)
      PROVE  [Slot!SlotsNext]_SlotOf
  <2>1. /\ runState' = [r \in Request |->
                          IF r \in StaleRuns THEN "failed" ELSE runState[r]]
        /\ UNCHANGED dirOf
    BY <1>4 DEF Reclaim
  <2>2. StaleRuns \in SUBSET Request /\ \A r \in StaleRuns : runState[r] = "running"
    BY DEF StaleRuns
  <2>. QED
    BY <1>3, <2>1, <2>2 DEF Active
<1>5. ASSUME NEW w \in Worker, FinishRow(w)
      PROVE  [Slot!SlotsNext]_SlotOf
  <2>. DEFINE r == wk[w].run
  <2>1. /\ r \in Request
        /\ runState[r] \in {"running"} \cup Terminal
        /\ wk[w].outcome \notin Active
        /\ runState' = [runState EXCEPT ![r] = wk[w].outcome]
        /\ UNCHANGED dirOf
    BY <1>0, <1>5 DEF FinishRow, QueueInv, TypeOK, WorkerRecord, WorkersHoldRuns,
       Executing, Active, Terminal
  <2>2. CASE runState[r] = "running"
    <3>. DEFINE E == {r}
    <3>1. /\ E \in SUBSET Request
          /\ \A s \in E : runState[s] = "running" /\ runState'[s] \notin Active
          /\ \A s \in Request \ E : runState'[s] = runState[s]
      BY <1>0, <2>1, <2>2
    <3>. HIDE DEF E
    <3>. QED
      BY <1>3, <2>1, <3>1
  <2>3. CASE runState[r] \in Terminal
    <3>. DEFINE E == {}
    <3>1. /\ E \in SUBSET Request
          /\ \A s \in E : runState[s] = "running" /\ runState'[s] \notin Active
          /\ \A s \in Request \ E : \/ runState'[s] = runState[s]
                                     \/ /\ runState[s] \notin Active
                                        /\ runState'[s] \notin Active
      BY <1>0, <2>1, <2>3 DEF Active, Terminal
    <3>. HIDE DEF E
    <3>. QED
      BY <1>3, <2>1, <3>1
  <2>. QED
    BY <2>1, <2>2, <2>3
<1>6. CASE UNCHANGED <<dirOf, runState>>
  BY <1>6 DEF SlotOf, Held, ActiveRuns
<1>. QED
  BY <1>1, <1>2, <1>4, <1>5, <1>6, QuietSteps

\* Whatever the heartbeats do, every step of the queue is a step of the slots
\* of DirectorySlots or leaves them alone.
THEOREM QueueImplementsSlots == Spec => Slot!SlotsSafety
<1>1. Init => Slot!SlotsInit
  BY DEF Init, Slot!SlotsInit, SlotOf, Held, ActiveRuns, Active
<1>2. QueueInv /\ [Next]_vars => [Slot!SlotsNext]_SlotOf
  BY SlotStep
<1>. QED
  BY <1>1, <1>2, QueueInit, QueueStep, PTL DEF Spec, Slot!SlotsSafety
-----------------------------------------------------------------------------
(* Contention. Whoever loses the slot loses it to a run, and can try again *)
(* only when that run has ended: the attempts count ended runs. No fact    *)
(* about heartbeats is needed.                                             *)

\* The rows there are.
Started == {r \in Request : runState[r] # "absent"}

\* The other runs of q's directory, and those of them that have ended.
Rivals(q) == {r \in Request \ {q} : dirOf[r] = dirOf[q] /\ runState[r] # "absent"}
Beaten(q) ==
    {r \in Request \ {q} : dirOf[r] = dirOf[q] /\ runState[r] \in Terminal}

\* A request that inserts has outlived a run with every attempt before this
\* one, and one that was refused has met one more, which may still be active.
AttemptsAreLosses ==
    \A q \in Request :
        /\ req[q].pc = "idle" => req[q].attempt = 1
        /\ req[q].pc = "insert" => Cardinality(Beaten(q)) + 1 >= req[q].attempt
        /\ req[q].pc = "lookup" => Cardinality(Rivals(q)) >= req[q].attempt
        /\ req[q].pc = "gaveUp" => Cardinality(Beaten(q)) >= MaxAttempts

ContentionInv ==
    /\ QueueInv
    /\ IsFiniteSet(Started)
    /\ AttemptsAreLosses

LEMMA ContentionInit == Init => ContentionInv
<1>. SUFFICES ASSUME Init PROVE ContentionInv
  OBVIOUS
<1>1. Started = {}
  BY DEF Init, Started
<1>2. AttemptsAreLosses
  BY DEF Init, AttemptsAreLosses, RequestAt
<1>. QED
  BY <1>1, <1>2, QueueInit, FS_EmptySet DEF ContentionInv

\* No row disappears, none leaves its final states, and a step adds one row at
\* most. FinishRow may change which final state it is.
LEMMA RowsGrow ==
  ASSUME QueueInv, [Next]_vars
  PROVE  /\ dirOf' = dirOf
         /\ \A r \in Request :
              /\ runState[r] # "absent" => runState'[r] # "absent"
              /\ runState[r] \in Terminal => runState'[r] \in Terminal
         /\ \E q \in Request \cup {NoRun} : Started' \subseteq Started \cup {q}
<1>0. /\ runState \in [Request -> {"absent"} \cup Active \cup Terminal]
      /\ wk \in [Worker -> WorkerRecord]
  BY DEF QueueInv, TypeOK
<1>1. ASSUME NEW q \in Request, InsertRun(q)
      PROVE  /\ dirOf' = dirOf
             /\ runState' = [runState EXCEPT ![q] = "queued"]
             /\ runState[q] = "absent"
  BY <1>1 DEF InsertRun, QueueInv, RowsFollowRequests
<1>2. ASSUME NEW w \in Worker, Reclaim(w)
      PROVE  /\ dirOf' = dirOf
             /\ \A r \in Request :
                  \/ runState'[r] = runState[r]
                  \/ (runState[r] = "running" /\ runState'[r] = "failed")
  <2>1. /\ dirOf' = dirOf
        /\ runState' = [r \in Request |->
                          IF r \in StaleRuns THEN "failed" ELSE runState[r]]
    BY <1>2 DEF Reclaim
  <2>. QED
    BY <2>1 DEF StaleRuns
<1>3. ASSUME NEW w \in Worker, ClaimRun(w)
      PROVE  /\ dirOf' = dirOf
             /\ \A r \in Request :
                  \/ runState'[r] = runState[r]
                  \/ (runState[r] = "queued" /\ runState'[r] = "running")
  BY <1>0, <1>3 DEF ClaimRun, IsNext
<1>4. ASSUME NEW w \in Worker, FinishRow(w)
      PROVE  /\ dirOf' = dirOf
             /\ \A r \in Request :
                  \/ runState'[r] = runState[r]
                  \/ (runState[r] # "absent" /\ runState'[r] \in Terminal)
  <2>1. /\ wk[w].run \in Request
        /\ runState[wk[w].run] # "absent"
        /\ wk[w].outcome \in Terminal
    BY <1>0, <1>4 DEF FinishRow, QueueInv, WorkersHoldRuns, Executing, WorkerRecord
  <2>. QED
    BY <1>0, <1>4, <2>1 DEF FinishRow
<1>5. CASE \E q \in Request : InsertRun(q)
  BY <1>0, <1>1, <1>5 DEF Started, Terminal
<1>6. CASE \E w \in Worker : Reclaim(w) \/ ClaimRun(w) \/ FinishRow(w)
  <2>1. /\ dirOf' = dirOf
        /\ \A r \in Request :
             /\ runState[r] # "absent" <=> runState'[r] # "absent"
             /\ runState[r] \in Terminal => runState'[r] \in Terminal
    BY <1>2, <1>3, <1>4, <1>6 DEF Terminal
  <2>2. Started' = Started
    BY <2>1 DEF Started
  <2>. QED
    BY <2>1, <2>2
<1>7. CASE /\ \A q \in Request : ~InsertRun(q)
           /\ \A w \in Worker : ~Reclaim(w) /\ ~ClaimRun(w) /\ ~FinishRow(w)
  BY <1>7, QuietSteps DEF Started
<1>. QED
  BY <1>5, <1>6, <1>7

\* Sets of rivals are finite, and only grow.
LEMMA RivalsAreFinite ==
  ASSUME IsFiniteSet(Started), NEW q \in Request
  PROVE  /\ IsFiniteSet(Rivals(q)) /\ IsFiniteSet(Beaten(q))
         /\ Cardinality(Rivals(q)) \in Nat /\ Cardinality(Beaten(q)) \in Nat
<1>1. Rivals(q) \in SUBSET Started /\ Beaten(q) \in SUBSET Started
  BY DEF Rivals, Beaten, Started, Terminal
<1>. QED
  BY <1>1, FS_Subset, FS_CardinalityType

LEMMA RivalsStay ==
  ASSUME ContentionInv, [Next]_vars
  PROVE  /\ IsFiniteSet(Started')
         /\ \A q \in Request :
              /\ Cardinality(Rivals(q))' >= Cardinality(Rivals(q))
              /\ Cardinality(Beaten(q))' >= Cardinality(Beaten(q))
              /\ Cardinality(Rivals(q))' \in Nat
              /\ Cardinality(Beaten(q))' \in Nat
<1>1. IsFiniteSet(Started)'
  <2>. PICK q \in Request \cup {NoRun} : Started' \subseteq Started \cup {q}
    BY RowsGrow DEF ContentionInv
  <2>1. IsFiniteSet(Started \cup {q})
    BY FS_AddElement DEF ContentionInv
  <2>. QED
    BY <2>1, FS_Subset
<1>2. ASSUME NEW q \in Request
      PROVE  /\ Cardinality(Rivals(q))' >= Cardinality(Rivals(q))
             /\ Cardinality(Beaten(q))' >= Cardinality(Beaten(q))
             /\ Cardinality(Rivals(q))' \in Nat
             /\ Cardinality(Beaten(q))' \in Nat
  <2>1. Rivals(q) \subseteq Rivals(q)' /\ Beaten(q) \subseteq Beaten(q)'
    BY RowsGrow DEF ContentionInv, Rivals, Beaten
  <2>2. /\ Rivals(q)' \in SUBSET (Started') /\ Beaten(q)' \in SUBSET (Started')
    BY DEF Rivals, Beaten, Started, Terminal
  <2>3. IsFiniteSet(Rivals(q)') /\ IsFiniteSet(Beaten(q)')
    BY <1>1, <2>2, FS_Subset
  <2>. QED
    BY <2>1, <2>3, FS_Subset, FS_CardinalityType
<1>. QED
  BY <1>1, <1>2

\* Refused by an active run: that run is a rival, and not a beaten one.
LEMMA RefusedByARival ==
  ASSUME QueueInv, IsFiniteSet(Started), NEW q \in Request,
         req[q].pc = "insert", Held(dirOf[q])
  PROVE  Cardinality(Rivals(q)) >= Cardinality(Beaten(q)) + 1
<1>1. PICK r \in Request : dirOf[r] = dirOf[q] /\ runState[r] \in Active
  BY DEF Held, ActiveRuns
<1>2. r # q
  BY <1>1 DEF QueueInv, RowsFollowRequests, Active
<1>3. r \notin Beaten(q) /\ Beaten(q) \cup {r} \in SUBSET Rivals(q)
  BY <1>1, <1>2 DEF Beaten, Rivals, Active, Terminal
<1>4. Cardinality(Beaten(q) \cup {r}) = Cardinality(Beaten(q)) + 1
  BY <1>3, RivalsAreFinite, FS_AddElement
<1>5. Cardinality(Beaten(q) \cup {r}) <= Cardinality(Rivals(q))
  BY <1>3, RivalsAreFinite, FS_Subset
<1>. QED
  BY <1>4, <1>5, RivalsAreFinite

\* Where nothing holds the directory, every rival is beaten.
LEMMA FreeMeansBeaten ==
  ASSUME QueueInv, NEW q \in Request, ~Held(dirOf[q])
  PROVE  Rivals(q) = Beaten(q)
BY DEF QueueInv, TypeOK, Held, ActiveRuns, Rivals, Beaten, Active, Terminal

\* What a step may do to a request on its way to giving up.
LEMMA AttemptStep ==
  ASSUME QueueInv, [Next]_vars, NEW q \in Request
  PROVE  \/ req'[q].pc \notin {"idle", "insert", "lookup", "gaveUp"}
         \/ req'[q] = req[q]
         \/ /\ req[q].pc = "idle"
            /\ req'[q].pc = "insert"
            /\ req'[q].attempt = req[q].attempt
         \/ /\ req[q].pc = "insert"
            /\ Held(dirOf[q])
            /\ req'[q].pc = "lookup"
            /\ req'[q].attempt = req[q].attempt
         \/ /\ req[q].pc = "lookup"
            /\ ~Held(dirOf[q])
            /\ req'[q].pc = "insert"
            /\ req'[q].attempt = req[q].attempt + 1
         \/ /\ req[q].pc = "lookup"
            /\ ~Held(dirOf[q])
            /\ req'[q].pc = "gaveUp"
            /\ req[q].attempt = MaxAttempts
<1>0. req \in [Request -> RequestRecord]
  BY DEF QueueInv, TypeOK
<1>1. CASE UNCHANGED req
  BY <1>1
<1>2. ASSUME NEW p \in Request, Begin(p) \/ RequestStep(p) \/ Abandon(p)
      PROVE  \/ p = q
             \/ req'[q] = req[q]
  BY <1>0, <1>2 DEF Begin, RequestStep, InsertRun, InsertRefused, SetQueued, ReadBack,
     HandedExisting, Retry, GiveUp, Abandon, Serve
<1>3. CASE Begin(q) \/ RequestStep(q) \/ Abandon(q)
  <2>. USE <1>0 DEF Serve, RequestRecord
  <2>1. CASE Begin(q)
    BY <2>1 DEF Begin
  <2>2. CASE InsertRun(q) \/ SetQueued(q)
    BY <2>2 DEF InsertRun, SetQueued
  <2>3. CASE InsertRefused(q)
    BY <2>3 DEF InsertRefused
  <2>4. CASE ReadBack(q) \/ HandedExisting(q) \/ Abandon(q)
    BY <2>4 DEF ReadBack, HandedExisting, Abandon, Answer, RequestAt
  <2>5. CASE Retry(q)
    BY <2>5 DEF Retry
  <2>6. CASE GiveUp(q)
    BY <2>6 DEF GiveUp, RequestAt
  <2>. QED
    BY <1>3, <2>1, <2>2, <2>3, <2>4, <2>5, <2>6 DEF RequestStep
<1>4. CASE \E w \in Worker : WorkerStep(w) \/ Crash(w) \/ Escape(w)
  <2>1. UNCHANGED req
    BY <1>4 DEF WorkerStep, Reclaim, SetReclaimed, ClaimRun, ClaimNothing, SetRunning,
       List, ListFails, ProcessFile, Reap, FinishRow, SetFinal, Restart, Crash, Escape
  <2>. QED
    BY <2>1
<1>5. CASE \E r \in Request : GoStale(r)
  BY <1>5 DEF GoStale
<1>6. UNCHANGED vars => UNCHANGED req
  BY DEF vars
<1>. QED
  BY <1>1, <1>2, <1>3, <1>4, <1>5, <1>6 DEF Next

LEMMA ContentionStep == ContentionInv /\ [Next]_vars => ContentionInv'
<1>. SUFFICES ASSUME ContentionInv, [Next]_vars PROVE ContentionInv'
  OBVIOUS
<1>0. QueueInv /\ IsFiniteSet(Started) /\ AttemptsAreLosses
  BY DEF ContentionInv
<1>1. QueueInv' /\ IsFiniteSet(Started')
  BY <1>0, QueueStep, RivalsStay
<1>2. AttemptsAreLosses'
  <2>. SUFFICES ASSUME NEW q \in Request
                PROVE  (/\ req[q].pc = "idle" => req[q].attempt = 1
                        /\ req[q].pc = "insert" =>
                             Cardinality(Beaten(q)) + 1 >= req[q].attempt
                        /\ req[q].pc = "lookup" =>
                             Cardinality(Rivals(q)) >= req[q].attempt
                        /\ req[q].pc = "gaveUp" =>
                             Cardinality(Beaten(q)) >= MaxAttempts)'
    BY DEF AttemptsAreLosses
  <2>. DEFINE b == Cardinality(Beaten(q))
              l == Cardinality(Rivals(q))
  <2>1. /\ b \in Nat /\ l \in Nat /\ b' \in Nat /\ l' \in Nat
        /\ b' >= b /\ l' >= l
    BY <1>0, RivalsAreFinite, RivalsStay
  <2>2. req[q].attempt \in Nat /\ MaxAttempts \in Nat
    BY <1>0, AttemptsAssumption DEF QueueInv, TypeOK, RequestRecord
  <2>3. /\ req[q].pc = "idle" => req[q].attempt = 1
        /\ req[q].pc = "insert" => b + 1 >= req[q].attempt
        /\ req[q].pc = "lookup" => l >= req[q].attempt
        /\ req[q].pc = "gaveUp" => b >= MaxAttempts
    BY <1>0 DEF AttemptsAreLosses
  <2>4. req[q].pc = "insert" /\ Held(dirOf[q]) => l >= b + 1
    BY <1>0, RefusedByARival
  <2>5. ~Held(dirOf[q]) => l = b
    BY <1>0, FreeMeansBeaten
  <2>6. \/ req'[q].pc \notin {"idle", "insert", "lookup", "gaveUp"}
        \/ req'[q] = req[q]
        \/ /\ req[q].pc = "idle"
           /\ req'[q].pc = "insert"
           /\ req'[q].attempt = req[q].attempt
        \/ /\ req[q].pc = "insert"
           /\ Held(dirOf[q])
           /\ req'[q].pc = "lookup"
           /\ req'[q].attempt = req[q].attempt
        \/ /\ req[q].pc = "lookup"
           /\ ~Held(dirOf[q])
           /\ req'[q].pc = "insert"
           /\ req'[q].attempt = req[q].attempt + 1
        \/ /\ req[q].pc = "lookup"
           /\ ~Held(dirOf[q])
           /\ req'[q].pc = "gaveUp"
           /\ req[q].attempt = MaxAttempts
    BY <1>0, AttemptStep
  <2>. SUFFICES /\ req'[q].pc = "idle" => req'[q].attempt = 1
                /\ req'[q].pc = "insert" => b' + 1 >= req'[q].attempt
                /\ req'[q].pc = "lookup" => l' >= req'[q].attempt
                /\ req'[q].pc = "gaveUp" => b' >= MaxAttempts
    OBVIOUS
  <2>. HIDE DEF b, l
  <2>. QED
    BY <2>1, <2>2, <2>3, <2>4, <2>5, <2>6
<1>. QED
  BY <1>1, <1>2 DEF ContentionInv

\* enqueue_run's RuntimeError means that MaxAttempts different runs of the
\* directory came and went meanwhile, however slow files are and whatever
\* crashes. That the same run is not counted twice is why the cardinality, and
\* not the attempt counter, is in the invariant.
THEOREM GivingUpIsContention == Spec => []GivingUpMeansContention
<1>1. ContentionInv => GivingUpMeansContention
  BY DEF ContentionInv, AttemptsAreLosses, GivingUpMeansContention, Beaten
<1>. QED
  BY <1>1, ContentionInit, ContentionStep, PTL DEF Spec
=============================================================================
