------------------------------ MODULE SyncRuns ------------------------------
(***************************************************************************)
(* The queue of sync runs: the table sync_runs, the column                 *)
(* directories.status, the API's POST /directories/{id}/sync and the       *)
(* worker loop that reclaims, claims, executes and finishes runs.          *)
(*                                                                         *)
(* One action is one SQLite transaction, or one call to the provider, with *)
(* the local code around it.  Every other interleaving of API threads and  *)
(* workers is possible, and so is the death of either between two steps.   *)
(* What a run does to the files it meets is the subject of KnowledgeBase;  *)
(* here a file only takes its time and may fail.                           *)
(*                                                                         *)
(* A run's id is a fresh uuid and one request inserts at most one row, so  *)
(* a run is named after the request that inserts it.                       *)
(***************************************************************************)
EXTENDS Naturals, FiniteSets

CONSTANTS
    Directory,       \* registered directories
    Request,         \* POSTs to /directories/{id}/sync, and the runs they insert
    Worker,          \* worker processes (the deployment runs one)
    NoRun,           \* "None": no run
    MaxAttempts,     \* insert attempts of enqueue_run: 3 in the code
    HeartbeatEvery,  \* _HEARTBEAT_EVERY: 5 in the code
    MaxFiles,        \* bound: the longest listing
    MaxFaults,       \* bound: worker crashes and escaped exceptions
    SlowFiles        \* may a file outlast HEARTBEAT_TIMEOUT_SEC?

ASSUME NoRunAssumption == NoRun \notin Request
ASSUME AttemptsAssumption == MaxAttempts \in Nat \ {0}
ASSUME HeartbeatAssumption == HeartbeatEvery \in Nat \ {0}
ASSUME BoundsAssumption == MaxFiles \in Nat /\ MaxFaults \in Nat
ASSUME SlowFilesAssumption == SlowFiles \in BOOLEAN

VARIABLES
    dirOf,      \* dirOf[q]: the directory request q names (its input)
    runState,   \* runState[r]: sync_runs.state, "absent" before the INSERT
    before,     \* before[r]: the requests whose created_at is older than r's
    stale,      \* stale[r]: r is running and its heartbeat_at timed out
    status,     \* status[d]: directories.status
    req,        \* req[q]: where the API thread that serves q stands
    wk,         \* wk[w]: where worker w stands
    faults      \* worker faults so far

runVars == <<runState, before, stale>>
vars == <<dirOf, runState, before, stale, status, req, wk, faults>>

-----------------------------------------------------------------------------

Active == {"queued", "running"}
Terminal == {"succeeded", "partial", "failed"}
Statuses == {"idle"} \cup Active \cup Terminal

ReqPc == {"idle", "insert", "setQueued", "readBack", "lookup",
          "answered", "gaveUp", "dead"}
InFlight == {"insert", "setQueued", "readBack", "lookup"}

\* Where a worker stands inside run_sync, its run not yet finished.
Executing == {"setRunning", "list", "files", "reap", "finish"}
WorkerPc == {"down", "poll", "setReclaimed", "claim", "setFinal"} \cup Executing

RequestRecord ==
    [pc : ReqPc, attempt : 1..MaxAttempts, got : Request \cup {NoRun},
     created : BOOLEAN]

WorkerRecord ==
    [pc : WorkerPc, run : Request \cup {NoRun}, todo : SUBSET Request,
     index : Nat, listed : Nat, outcome : Terminal]

\* A request at pc with nothing to remember, and an answered one.
RequestAt(pc) == [pc |-> pc, attempt |-> 1, got |-> NoRun, created |-> FALSE]
Answer(r, isNew) == [pc |-> "answered", attempt |-> 1, got |-> r, created |-> isNew]

IdleWorker ==
    [pc |-> "poll", run |-> NoRun, todo |-> {}, index |-> 0, listed |-> 0,
     outcome |-> "succeeded"]

\* The rows the partial unique index ux_sync_runs_active covers.
ActiveRuns(d) == {r \in Request : dirOf[r] = d /\ runState[r] \in Active}

\* Mutant of Held: the index covers running rows only.
HeldByRunningOnly(d) == \E r \in Request : dirOf[r] = d /\ runState[r] = "running"

Held(d) == ActiveRuns(d) # {}

\* The record of a request, or of a worker, changes to x.
Serve(q, x) == req' = [req EXCEPT ![q] = x]
Move(w, x) == wk' = [wk EXCEPT ![w] = x]

Executes(w, r) == wk[w].pc \in Executing /\ wk[w].run = r

TypeOK ==
    /\ dirOf \in [Request -> Directory]
    /\ runState \in [Request -> {"absent"} \cup Active \cup Terminal]
    /\ before \in [Request -> SUBSET Request]
    /\ stale \in [Request -> BOOLEAN]
    /\ status \in [Directory -> Statuses]
    /\ req \in [Request -> RequestRecord]
    /\ wk \in [Worker -> WorkerRecord]
    /\ faults \in Nat

Init ==
    /\ dirOf \in [Request -> Directory]
    /\ runState = [r \in Request |-> "absent"]
    /\ before = [r \in Request |-> {}]
    /\ stale = [r \in Request |-> FALSE]
    /\ status = [d \in Directory |-> "idle"]
    /\ req = [q \in Request |-> RequestAt("idle")]
    /\ wk = [w \in Worker |-> IdleWorker]
    /\ faults = 0

-----------------------------------------------------------------------------
(* The API: trigger_sync and enqueue_run.                                  *)

\* created_at is read: later than every stamp of a row or of a request under way.
ReadClock(q) ==
    LET stamped == {r \in Request :
                      runState[r] # "absent" \/ req[r].pc \in InFlight}
    IN  before' = [r \in Request |-> IF r = q THEN stamped \ {q}
                                              ELSE before[r] \ {q}]

\* The request arrives, its directory exists and created_at is read: _now() is
\* evaluated before the INSERT gets the database's write lock.
Begin(q) ==
    /\ req[q].pc = "idle"
    /\ Serve(q, [req[q] EXCEPT !.pc = "insert"])
    /\ ReadClock(q)
    /\ UNCHANGED <<dirOf, runState, stale, status, wk, faults>>

\* INSERT ... 'queued'. The index admits it when the directory is not held.
InsertRun(q) ==
    /\ req[q].pc = "insert"
    /\ ~Held(dirOf[q])
    /\ runState' = [runState EXCEPT ![q] = "queued"]
    /\ Serve(q, [req[q] EXCEPT !.pc = "setQueued"])
    /\ UNCHANGED <<dirOf, before, stale, status, wk, faults>>

\* The index refuses the row: IntegrityError.
InsertRefused(q) ==
    /\ req[q].pc = "insert"
    /\ Held(dirOf[q])
    /\ Serve(q, [req[q] EXCEPT !.pc = "lookup"])
    /\ UNCHANGED <<dirOf, runVars, status, wk, faults>>

\* set_directory_status(..., "queued"), a transaction of its own.
SetQueued(q) ==
    /\ req[q].pc = "setQueued"
    /\ status' = [status EXCEPT ![dirOf[q]] = "queued"]
    /\ Serve(q, [req[q] EXCEPT !.pc = "readBack"])
    /\ UNCHANGED <<dirOf, runVars, wk, faults>>

\* Mutant of ActiveOrNone: the state filter is lost.
AnyRunOrNone(d) ==
    LET all == {r \in Request : dirOf[r] = d /\ runState[r] # "absent"}
    IN  IF all = {} THEN {NoRun} ELSE all

\* get_active_run: some active run of the directory, or None.
ActiveOrNone(d) == IF Held(d) THEN ActiveRuns(d) ELSE {NoRun}

\* return get_active_run(...), True: whatever is active by now.
ReadBack(q) ==
    /\ req[q].pc = "readBack"
    /\ \E r \in ActiveOrNone(dirOf[q]) :
         Serve(q, Answer(r, TRUE))
    /\ UNCHANGED <<dirOf, runVars, status, wk, faults>>

\* The loser is handed the run in flight ...
HandedExisting(q) ==
    /\ req[q].pc = "lookup"
    /\ \E r \in ActiveRuns(dirOf[q]) :
         Serve(q, Answer(r, FALSE))
    /\ UNCHANGED <<dirOf, runVars, status, wk, faults>>

\* Mutant of Retry: the cap is lost.
RetryUncapped(q) ==
    /\ req[q].pc = "lookup"
    /\ ~Held(dirOf[q])
    /\ Serve(q, [req[q] EXCEPT !.pc = "insert", !.attempt = @ + 1])
    /\ ReadClock(q)
    /\ UNCHANGED <<dirOf, runState, stale, status, wk, faults>>

\* ... or, when that run has ended meanwhile, tries again with a new stamp ...
Retry(q) ==
    /\ req[q].pc = "lookup"
    /\ ~Held(dirOf[q])
    /\ req[q].attempt < MaxAttempts
    /\ Serve(q, [req[q] EXCEPT !.pc = "insert", !.attempt = @ + 1])
    /\ ReadClock(q)
    /\ UNCHANGED <<dirOf, runState, stale, status, wk, faults>>

\* Mutant of GiveUp: no retry when the slot changed hands.
GiveUpAtOnce(q) ==
    /\ req[q].pc = "lookup"
    /\ ~Held(dirOf[q])
    /\ Serve(q, RequestAt("gaveUp"))
    /\ UNCHANGED <<dirOf, runVars, status, wk, faults>>

\* ... until its attempts are used up: RuntimeError.
GiveUp(q) ==
    /\ req[q].pc = "lookup"
    /\ ~Held(dirOf[q])
    /\ req[q].attempt = MaxAttempts
    /\ Serve(q, RequestAt("gaveUp"))
    /\ UNCHANGED <<dirOf, runVars, status, wk, faults>>

RequestStep(q) ==
    \/ InsertRun(q) \/ InsertRefused(q) \/ SetQueued(q) \/ ReadBack(q)
    \/ HandedExisting(q) \/ Retry(q) \/ GiveUp(q)

\* The API process dies, or the database refuses a statement.
Abandon(q) ==
    /\ req[q].pc \in InFlight
    /\ Serve(q, RequestAt("dead"))
    /\ UNCHANGED <<dirOf, runVars, status, wk, faults>>

-----------------------------------------------------------------------------
(* The worker: main, poll_once, run_sync.                                  *)

\* Mutants of StaleRuns: only runs that never had a heartbeat, which are none; or
\* the age of the heartbeat is not looked at.
NeverBeaten == {}
AnyRunning == {r \in Request : runState[r] = "running"}

StaleRuns == {r \in Request : runState[r] = "running" /\ stale[r]}

\* Mutant of Reclaim: dead runs are queued again.
ReclaimRequeues(w) ==
    /\ wk[w].pc = "poll"
    /\ runState' = [r \in Request |->
                      IF r \in StaleRuns THEN "queued" ELSE runState[r]]
    /\ stale' = [r \in Request |-> FALSE]
    /\ Move(w, [wk[w] EXCEPT !.pc = "claim"])
    /\ UNCHANGED <<dirOf, before, status, req, faults>>

\* reclaim_dead_runs, its transaction: every stale run fails at once.
Reclaim(w) ==
    /\ wk[w].pc = "poll"
    /\ runState' = [r \in Request |->
                      IF r \in StaleRuns THEN "failed" ELSE runState[r]]
    /\ stale' = [r \in Request |-> FALSE]
    /\ Move(w, [wk[w] EXCEPT !.todo = StaleRuns,
                  !.pc = IF StaleRuns = {} THEN "claim" ELSE "setReclaimed"])
    /\ UNCHANGED <<dirOf, before, status, req, faults>>

\* reclaim_dead_runs, afterwards: one status write per reclaimed run.
SetReclaimed(w) ==
    /\ wk[w].pc = "setReclaimed"
    /\ \E r \in wk[w].todo :
         /\ status' = [status EXCEPT ![dirOf[r]] = "failed"]
         /\ Move(w, [wk[w] EXCEPT !.todo = @ \ {r},
                       !.pc = IF wk[w].todo = {r} THEN "claim" ELSE @])
    /\ UNCHANGED <<dirOf, runVars, req, faults>>

\* Mutants of IsNext: the WHERE clause admits a failed run, or a running one.
QueuedOrFailed(r) == runState[r] \in {"queued", "failed"}
QueuedOrRunning(r) == runState[r] \in {"queued", "running"}

\* The oldest queued run.
IsNext(r) ==
    /\ runState[r] = "queued"
    /\ \A s \in Request : runState[s] = "queued" => s \notin before[r]

\* claim_next_run, its transaction: queued -> running with a fresh heartbeat.
ClaimRun(w) ==
    /\ wk[w].pc = "claim"
    /\ \E r \in Request :
         /\ IsNext(r)
         /\ runState' = [runState EXCEPT ![r] = "running"]
         /\ stale' = [stale EXCEPT ![r] = FALSE]
         /\ Move(w, [IdleWorker EXCEPT !.pc = "setRunning", !.run = r])
    /\ UNCHANGED <<dirOf, before, status, req, faults>>

\* Nothing queued: sleep, then poll again.
ClaimNothing(w) ==
    /\ wk[w].pc = "claim"
    /\ \A r \in Request : runState[r] # "queued"
    /\ Move(w, IdleWorker)
    /\ UNCHANGED <<dirOf, runVars, status, req, faults>>

\* claim_next_run, afterwards: the status write.
SetRunning(w) ==
    /\ wk[w].pc = "setRunning"
    /\ status' = [status EXCEPT ![dirOf[wk[w].run]] = "running"]
    /\ Move(w, [wk[w] EXCEPT !.pc = "list"])
    /\ UNCHANGED <<dirOf, runVars, req, faults>>

\* run_sync up to the listing, of any length ...
List(w) ==
    /\ wk[w].pc = "list"
    /\ \E n \in 0..MaxFiles :
         Move(w, [wk[w] EXCEPT !.listed = n,
                    !.pc = IF n = 0 THEN "reap" ELSE "files"])
    /\ UNCHANGED <<dirOf, runVars, status, req, faults>>

\* ... or a SyncError or ProviderError, which fails the run.
ListFails(w) ==
    /\ wk[w].pc = "list"
    /\ Move(w, [wk[w] EXCEPT !.pc = "finish", !.outcome = "failed"])
    /\ UNCHANGED <<dirOf, runVars, status, req, faults>>

\* heartbeat_run renews the heartbeat of a run that is still running; no other
\* run is stale.
Beat(r) == stale' = [stale EXCEPT ![r] = FALSE]

\* One object of the listing: a heartbeat when its index is a multiple of
\* HeartbeatEvery, then the file, which may fail without ending the run.
ProcessFile(w) ==
    /\ wk[w].pc = "files"
    /\ IF wk[w].index % HeartbeatEvery = 0 THEN Beat(wk[w].run)
                                           ELSE UNCHANGED stale
    /\ \E o \in {wk[w].outcome, "partial"} :
         Move(w, [wk[w] EXCEPT !.index = @ + 1, !.outcome = o,
                    !.pc = IF wk[w].index + 1 = wk[w].listed THEN "reap" ELSE @])
    /\ UNCHANGED <<dirOf, runState, before, status, req, faults>>

\* _reap_deleted and the last heartbeat.
Reap(w) ==
    /\ wk[w].pc = "reap"
    /\ Beat(wk[w].run)
    /\ Move(w, [wk[w] EXCEPT !.pc = "finish"])
    /\ UNCHANGED <<dirOf, runState, before, status, req, faults>>

\* Mutant of FinishRow: a partial run is recorded as succeeded.
FinishRowCollapsed(w) ==
    /\ wk[w].pc = "finish"
    /\ runState' = [runState EXCEPT ![wk[w].run] =
                      IF wk[w].outcome = "failed" THEN "failed" ELSE "succeeded"]
    /\ stale' = [stale EXCEPT ![wk[w].run] = FALSE]
    /\ Move(w, [wk[w] EXCEPT !.pc = "setFinal"])
    /\ UNCHANGED <<dirOf, before, status, req, faults>>

\* finish_run, its transaction. The UPDATE does not ask what the state was.
FinishRow(w) ==
    /\ wk[w].pc = "finish"
    /\ runState' = [runState EXCEPT ![wk[w].run] = wk[w].outcome]
    /\ stale' = [stale EXCEPT ![wk[w].run] = FALSE]
    /\ Move(w, [wk[w] EXCEPT !.pc = "setFinal"])
    /\ UNCHANGED <<dirOf, before, status, req, faults>>

\* finish_run, afterwards: the status write, and back to the loop.
SetFinal(w) ==
    /\ wk[w].pc = "setFinal"
    /\ status' = [status EXCEPT ![dirOf[wk[w].run]] = wk[w].outcome]
    /\ Move(w, IdleWorker)
    /\ UNCHANGED <<dirOf, runVars, req, faults>>

\* The container is started again ("restart: unless-stopped").
Restart(w) ==
    /\ wk[w].pc = "down"
    /\ Move(w, IdleWorker)
    /\ UNCHANGED <<dirOf, runVars, status, req, faults>>

WorkerStep(w) ==
    \/ Reclaim(w) \/ SetReclaimed(w) \/ ClaimRun(w) \/ ClaimNothing(w)
    \/ SetRunning(w) \/ List(w) \/ ListFails(w) \/ ProcessFile(w) \/ Reap(w)
    \/ FinishRow(w) \/ SetFinal(w) \/ Restart(w)

\* The process dies at any point: its local state is gone.
Crash(w) ==
    /\ faults < MaxFaults
    /\ wk[w].pc # "down"
    /\ Move(w, [IdleWorker EXCEPT !.pc = "down"])
    /\ faults' = faults + 1
    /\ UNCHANGED <<dirOf, runVars, status, req>>

\* An exception that only main's loop catches: the run stays as it is.
Escape(w) ==
    /\ faults < MaxFaults
    /\ wk[w].pc \notin {"down", "poll"}
    /\ Move(w, IdleWorker)
    /\ faults' = faults + 1
    /\ UNCHANGED <<dirOf, runVars, status, req>>

\* The heartbeat ages past the timeout: the executing worker is gone or, when
\* SlowFiles, only slow.
GoStale(r) ==
    /\ runState[r] = "running"
    /\ ~stale[r]
    /\ SlowFiles \/ \A w \in Worker : ~Executes(w, r)
    /\ stale' = [stale EXCEPT ![r] = TRUE]
    /\ UNCHANGED <<dirOf, runState, before, status, req, wk, faults>>

Next ==
    \/ \E q \in Request : Begin(q) \/ RequestStep(q) \/ Abandon(q) \/ GoStale(q)
    \/ \E w \in Worker : WorkerStep(w) \/ Crash(w) \/ Escape(w)

\* A thread that serves a request and a worker's loop keep going, a dead
\* worker is started again and time passes. Nothing forces a request to come,
\* and nothing forces a fault.
Fairness ==
    /\ \A q \in Request : WF_vars(RequestStep(q)) /\ WF_vars(GoStale(q))
    /\ \A w \in Worker : WF_vars(WorkerStep(w))

Spec == Init /\ [][Next]_vars
FairSpec == Spec /\ Fairness

-----------------------------------------------------------------------------
(* Safety.                                                                 *)

\* At most one run of a directory is queued or running, whatever the requests,
\* retries, reclaims and crashes in between: the double-click protection of
\* enqueue_run.
OneActiveRunPerDirectory ==
    \A r, s \in Request :
        (r # s /\ dirOf[r] = dirOf[s]) =>
            ~(runState[r] \in Active /\ runState[s] \in Active)

\* A worker inside run_sync still holds the run it claimed, so the reclaimer
\* never fails a run under a live worker, and no two workers sync the same
\* directory at the same time.
SyncsAreExclusive ==
    \A w \in Worker, r \in Request :
        Executes(w, r) =>
            /\ runState[r] = "running"
            /\ \A v \in Worker \ {w}, s \in Request :
                 Executes(v, s) => dirOf[s] # dirOf[r]

\* A run that has ended keeps the state it ended in: finish_run's UPDATE does not
\* look at the old state, and would overwrite a run that another worker has
\* reclaimed and perhaps handed to a later one; no worker gets to it, because an
\* executing worker's heartbeat keeps its run from being reclaimed.
TerminalIsFinal ==
    [][\A r \in Request :
          runState[r] \in Terminal => runState'[r] = runState[r]]_vars

\* directories.status never shows an outcome that no run of the directory has
\* had, nor "running" or "queued" before some run was claimed or inserted,
\* although each status write is a later transaction than the row it reports.
StatusWasTrue ==
    \A d \in Directory :
        /\ status[d] = "queued" =>
             \E r \in Request : dirOf[r] = d /\ runState[r] # "absent"
        /\ status[d] = "running" =>
             \E r \in Request :
                 dirOf[r] = d /\ runState[r] \notin {"absent", "queued"}
        /\ status[d] \in Terminal =>
             \E r \in Request : dirOf[r] = d /\ runState[r] = status[d]

\* A caller told that it created a run is handed that very run, unless the run
\* has ended by then.
CreatedIsOwnUnlessEnded ==
    \A q \in Request :
        (req[q].pc = "answered" /\ req[q].created) =>
            req[q].got = q \/ runState[q] \in Terminal

\* enqueue_run gives up only after losing to MaxAttempts different runs of the
\* directory, all of them ended: the RuntimeError means contention, never a
\* slot that is merely held. When each of them ended is not counted.
GivingUpMeansContention ==
    \A q \in Request :
        req[q].pc = "gaveUp" =>
            Cardinality({r \in Request \ {q} :
                dirOf[r] = dirOf[q] /\ runState[r] \in Terminal}) >= MaxAttempts

-----------------------------------------------------------------------------
(* Liveness, under Fairness.                                               *)

\* A queued run ends, whatever crashes and escaped exceptions happen (finitely
\* often): a killed worker does not hold the directory forever.
RunsEnd ==
    \A r \in Request : runState[r] = "queued" ~> runState[r] \in Terminal

-----------------------------------------------------------------------------
(* What the queue implements: one slot per directory.                      *)

SlotOf ==
    [d \in Directory |->
        IF \E r \in Request : dirOf[r] = d /\ runState[r] = "running"
          THEN "running"
        ELSE IF Held(d) THEN "queued" ELSE "free"]

Slot == INSTANCE DirectorySlots WITH slot <- SlotOf

\* Every step of the queue is a step of the slots or leaves them alone, and a
\* queued slot is claimed and a running one released.
ImplementsSlots == Slot!SlotsSpec

-----------------------------------------------------------------------------
(* What the source says of the queue and the code does not keep.           *)

\* enqueue_run "Returns (run, created)": a caller is handed a run.
EnqueueReturnsARun ==
    \A q \in Request : req[q].pc = "answered" => req[q].got # NoRun
=============================================================================
