# A TLA+ model of the document intelligence platform

The platform indexes the documents of several users and answers questions
about them. A user registers directories of an S3 bucket; an API queues sync
runs; one worker process executes them: it lists the directory, downloads what
changed, extracts and chunks text, embeds the chunks and fills a vector
collection per user. Identical bytes are processed once for all users. The API
answers questions over a user's collection with an agent, and streams the
answers to a web page.

All state is in one SQLite database (one writer at a time, short transactions),
a Chroma vector store and a text store on disk. The API runs its handlers in
threads, and the worker is another process, so every sequence of transactions
in a handler can be interleaved with any other and can be cut short.

## Inventory

| component | state | operations | hard part | correct when |
|---|---|---|---|---|
| sync run queue: `repositories.py` 503-662, `schema.sql` | `sync_runs`, `directories.status` | enqueue, claim, heartbeat, finish, reclaim | races of API threads and worker; status written apart from the run; retries; stale heartbeats | one active run per directory; a run that ended stays; every run ends |
| worker loop: `services/worker/main.py`, `sync.py` | its local variables | poll, run | crash, escaped exception, restart | it executes only runs it still holds |
| sync engine: `sync.py`, `repositories.py`, `vectors.py`, `extraction.py` | `files`, `user_blobs`, `blobs`, `chunks`, `embedding_cache`, collections, text store | per-object ladder (unchanged, extracted, possessed, new), reaping | listing older than the download; a fault between any two writes; overwritten rows | rows agree with the source; indexed rows are searchable; each content is paid for once |
| file removal: `datasource_routes.py` 237-261 | same | soft delete, reference check, drop, disown | runs beside syncs and other removals | the last reference, and only the last, drops the vectors |
| datasources and directories: `datasource_routes.py`, `policy.py` | `datasources`, `directories` | connect, browse, register | identity of a datasource; normalised and raw paths | registered paths stay inside the user's prefixes |
| database bootstrap: `db.py` | schema | init, dedupe, transactions | migrating a volume that violates the new index | a start never fails, and repeating it changes nothing |
| conversation memory, streaming: `rag/routes.py`, `rag/memory/store.py`, `graph_streaming.py` | `turns` | append, read window, clear, stream | concurrent turns; a stream that fails half way | turns alternate; only complete answers are kept |
| agent: `rag/agent/graph.py`, `coref.py`, `hyde.py` | graph state | classify, retrieve, grade, rewrite, answer | bounded rewriting | it always answers, after a bounded number of retrievals |
| retrieval: `user_scoped.py` | BM25 cache per user | search, fuse, resolve, attribute | cache invalidated by a count; two-stage read | results are the user's own and current |
| text processing, embeddings | none | split, hash, embed | none of its own | deterministic |
| identity: `auth.py`, middleware | none | mint, verify | cryptography | - |
| web client: `App.tsx`, `api.ts` | messages, poll timer | hydrate, ask, poll | hydration against streaming; event boundaries in chunks | the page shows the conversation |

API and worker never call each other: they meet in the database. The queue
hands a directory to the worker (`SyncRuns`), and what the worker then does to
the knowledge base is `KnowledgeBase`, where removals from the API interfere.
Searches see that knowledge base only as far as `SearchableContent` says
(`KnowledgeBase` implements it, `Retrieval` builds on it), the agent searches
(`AgentGraph`), and the chat puts a stream of frames and a web page around the
agent (`Conversations`). `Datasources` is what happens before any of this: a
process opens the volume. `Scope` decides which directories there are to sync.

## Modules

| module | what it is |
|---|---|
| `SyncRuns` | the queue, the API's `trigger_sync`, and the worker's control flow |
| `DirectorySlots` | abstract specification of the queue: a slot per directory, free, queued or running |
| `MCSyncRuns` | instances for TLC |
| `SyncRuns_proofs` | theorems about `SyncRuns`, for all values of the constants |
| `KnowledgeBase` | what a sync and a removal do to rows, possession, vectors and caches |
| `SearchableContent` | abstract specification of the knowledge bases, as searches see them |
| `MCKnowledgeBase` | instances for TLC: owners, directories, readable files |
| `KnowledgeBase_proofs` | theorems about `KnowledgeBase`: types, text, embedding, fingerprints, refinement |
| `KnowledgeBaseRaces_proofs` | theorems about what its syncs and removals keep while they race each other |
| `Conversations` | stored turns, the stream handler, and the Chat panels that read the stream |
| `Conversations_proofs` | theorems about `Conversations` |
| `RankFusion` | reciprocal-rank fusion as an operator, with exact scores |
| `Retrieval` | one search: vector hits, chunk rows, the shared BM25 cache, texts |
| `AgentGraph` | the agent's nodes and edges over `Retrieval`, in both its graphs |
| `AgentGraph_proofs` | theorems about `AgentGraph` and the searches under it |
| `MCAgentGraph` | the instance for TLC, with the fusion over bounded rankings |
| `Fusion_proofs` | the fusion's order for rankings of up to 61 chunks |
| `Scope` | policy, listings and browsing as operators |
| `Datasources` | opening an old volume: collapse duplicates, create the index, serve |
| `Datasources_proofs` | theorems about `Datasources` |
| `MCDatasources` | the instance for TLC, with the scopes over bounded paths |
| `Scope_proofs` | theorems about `Scope`, and about the directories of `Datasources` |

### SyncRuns

One action per transaction. An API thread goes through the program counter of
its request: `Begin` (reading the clock), `InsertRun` or `InsertRefused` (the
partial unique index decides), `SetQueued`, `ReadBack`, or, for the loser,
`HandedExisting`, `Retry`, `GiveUp`; `Abandon` ends it anywhere. A worker goes
through `Reclaim`, `SetReclaimed`, `ClaimRun` or `ClaimNothing`, `SetRunning`,
`List` or `ListFails`, `ProcessFile` per object with its heartbeat, `Reap`,
`FinishRow`, `SetFinal`. `Crash` and `Escape` may strike it at every step.

Time is abstracted to its two uses. `before` orders the `created_at` stamps,
which are read before the INSERT gets the write lock, so a later stamp may be
inserted first. `stale[r]` says that the heartbeat of `r` is past the timeout:
`GoStale` sets it when no worker executes the run, or at any time when
`SlowFiles`. The code bets that a file is never that slow (`config.py` 45); the
model checks both sides of the bet.

A run's id is a fresh uuid and a request inserts at most one row, so the run is
named after the request. The counters of a run are left out: only the page
reads them.

### KnowledgeBase

A body stands for its sha256 and everything computed from it. An object is a
body with a fingerprint (etag, size, mtime) that every upload renews. The
worker's actions follow `_process_object`: `SkipUnchanged` (rung 0), `Fetch`,
`ReuseText`, `Rechunk` or `Extract` and `ReplaceChunks` (rung 1; a known
content without chunks is chunked again from its stored text, or extracted again
when that is gone),
`CheckPossession` (rung 2), `Embed`, `PutCachedVectors`, `IndexBlob`,
`AddUserBlob` (rung 3), `Attribute`, `CountFile`. `FailFile` is the handler of
`run_sync`, entered by `FetchFails`, `ExtractFails` and, from every step,
`ProcessRaises`. Then `StartReap`, and per row `ReapRow`, `ReapCheck`,
`ReapDrop`, `ReapDisown`. A removal does the same four steps on its thread,
beside syncs and other removals; it reads the row once, in `BeginRemoval`, and
goes on with the content it named then. `Crash` and `RemovalFails` end either
anywhere.

Five variables are history, and no guard reads them: `paid`, how often a content
was embedded; `lost`, which held contents a row or a fault let go of; `halved`,
whose removal a fault stopped between the vectors and the possession row;
`raced`, which contents a sync recorded (`Recording`: it stands between its
vectors and its row) while a removal that had checked the last reference was
dropping them (`Dropping`); and `removed`, which files were removed by hand
during the present sync. `raced` ends when the content is disowned with no row
left that names it.

The fingerprint is unique per upload. S3 gives mtimes in seconds, so two
uploads of different bytes within a second differ by their etag; only A, B, A
within one second, with B downloaded for the first A, is outside the model.

`SearchableContent` keeps of all this `held` (`user_blobs`), `vecs` (the
collections) and `chunked` (`chunks`), under the names they have here, so the
refinement mapping is the identity on them and hides the rest:
`ImplementsContent == Content!Spec`.

### Conversations

A request goes `Accept` (the window is read, before the response begins),
`Begin` (the question is stored), `AgentFails` or `AgentAnswers`, `Token` by
token, `SynthesisEnds` well or with an error frame, `Save` (whatever was joined
is stored, then `done`). The frames in between are in `wire[r]`. A page mounts,
is hydrated (`Hydrate` is the server's read of the session `fetched` that the page
had when it mounted, `ShowHydrated` the arrival), asks,
and patches each frame into the last message of its list (`Handle`) until the
stream ends or breaks. "New chat" is `NewChat`, `Clear` on the server, and
`ResetDone`, which empties the list and draws a new session id.

Lost connections (`Lose`), restarts of the API (`Restart`), failed calls
(`ClearFails`) and reloads (`Reload`) may come between any two of these and are
bounded by `MaxFaults`; the server may also cancel a handler nobody reads
(`Cancel`). The handler runs on the event loop of the one API process and
`append_turn` does not await, so it is one step. A page whose rendering throws
has `alive` FALSE: nothing above the Chat panel catches it.

`forgotten` and `mixed` are history: a question whose session was cleared after
it was stored, and a hydrated message into which a stream put tokens.

### RankFusion, Retrieval and AgentGraph

`retrieve` asks the vector store (`Dense`), reads the user's chunk rows
(`ReadChunks`), takes the cached BM25 index or builds one (`UseIndex`,
`BuildIndex`), fuses, and looks texts up (`Resolve`). The rows are read outside
the lock, so two searches of one user may fill the cache in either order, and
`ContentChanges`, any step of `SearchableContent`, may come in between. Which
hits a search finds is a free choice among rankings of what is there: scores
are not modelled, positions are. `BuildIndex` raises when no chunk has a word,
as BM25Okapi does.

`AgentGraph` has one action per node with the edge behind it. The plain graph
begins at `ClassifyQuery`, the streaming one at `ResolveQuery`; classification
and grading turn exceptions into defaults, everything else raises (`Raises`).
The searches of `Call \ Agent` stand for other requests to the process. A
question is told apart by where its text comes from: asked, resolved, rewritten.

### Scope and Datasources

`Scope` writes keys as sequences of segments, so that a prefix with its slash
is a sequence, and paths as segments with a spelling of their slashes. A segment
is a name with or without blanks at either edge, in keys as in paths, so that
`normalise` of `policy.py`, which strips blanks, and `_normalise_prefix` of
`s3.py`, which does not, can be told apart: `list_objects` lists below the
segments as they are spelled. `Agree` says that what is listed for a path goes
on from what was checked, and `Padded` that it has blanks at its outer edges,
which is the only way not to agree.

`Datasources` starts from every volume the code before the unique index may
have left: several datasources for one place, directories and file rows on any
of them. A process opens it by `ReadDuplicates` (a SELECT in autocommit),
`Migrate` or `MigrateFails` (one transaction), `CreateIndex` (the script), and
tries again after an error, as the worker's container and every API request
do. Meanwhile another process does the same, or serves `Connect`, `Register`
and `UpsertFile`; `Crash` may strike at every step. A NULL endpoint and an
empty one differ in the rows and are one place.

## Runs

| run | question | result |
|---|---|---|
| `sync_contention` | three requests, one directory, one worker, two insert attempts, slow files, a fault | passes |
| `sync_two_workers` | two requests, two workers, heartbeats hold, a crash; finishes, liveness and refinement | passes |
| `enqueue_answer` | does `enqueue_run` always return a run? | no |
| `shared_library` | two users, one of them with nested directories, one object, two contents, two uploads, a removal beside syncs, a fault | passes |
| `removals_beside_syncs` | one user, two keys, two contents, two uploads, two removals beside syncs and each other, a fault | passes |
| `removal_race` | can a sync overtake the last-reference check of a removal? | yes |
| `edit_orphans` | does a user hold only what live rows name? | no |
| `conversations` | two tabs of one user, two questions, a "New chat", a fault | passes |
| `partial_answer` | is only a complete answer stored? | no |
| `grounded_answers` | an agent and another search, two changes of content; fusion of all rankings of up to 3 of 4 chunks | passes |
| `old_volumes` | two processes, up to three datasources of two users, two directories, a call, a crash; scopes over bounded paths | passes |
| `old_volume_conflict` | does every old volume open? | no |

What the passing runs check, beyond one type invariant per module:

* `OneActiveRunPerDirectory`, `TerminalIsFinal`, `SyncsAreExclusive`: the queue
  is a lock, the reclaimer never releases it under a worker, and no finish
  overwrites the state of a run that another worker reclaimed.
* `StatusWasTrue`: a late status write may be out of date, but it is never
  something no run of the directory was.
* `CreatedIsOwnUnlessEnded`, `GivingUpMeansContention`: what a caller is told.
* `RunsEnd`, `ImplementsSlots`: every run ends, and the queue implements
  `DirectorySlots`, liveness included.
* `FingerprintIsHonest`: rung 0 skips only files whose row is right.
* `HitsResolve`: held or indexed content has its chunks, in spite of faults.
* `PaidOnce`: a content is embedded once for all users, plus once per fault.
* `IndexedIsSearchable`: an indexed row is held, and has vectors and chunks,
  but for `halved` and `raced` contents.
* `CleanRunAgrees`: after a succeeded run, rows and source agree, but for files
  removed by hand meanwhile.
* `PossessionIsAccounted`: content without a live row is being handled, or its
  row was overwritten, or a fault cut its handling short.
* `ImplementsContent`: text comes before possession and vectors and stays,
  whichever step a sync or a removal died after.
* `QuestionSurvives`: a question is stored before the model runs and stays,
  its answer is stored at most once, and after it.
* `ShownIsSent`, `ShownIsKept`, `NothingStaysPending`: what a page shows of an
  answer is what was sent, what it shows as finished is what is stored, and
  when it waits for nothing it shows nothing as pending.
* `FollowUpSeesTheAnswer`: a question asked under an answer has that answer in
  its history, since `done` comes after the answer is stored.
* `AskedIsSettled`: the composer comes free again after every question, unless
  the page itself has crashed.
* `IndexIsExact`: the count is enough to validate the BM25 cache for a user who
  only gains content, in spite of searches that fill it with older rows.
* `PoorIsRetriedOnce`, `OneQuestionIsAnswered`, `InvocationEnds`: exactly one
  rewrite, after a poor grade; all nodes work on one question, which is the
  resolved one in the streaming graph and the asked one in the plain graph; an
  invocation ends with an answer or an exception.
* `FusionIsSound`: what both retrievers found comes first, in an order both
  agree with, and nothing is lost or repeated.
* `OneRowPerPlace`, `RowsFollow`, `NothingIsForgotten`: a volume that serves
  has one datasource per place, its rows hang together, and on the way no
  directory and no key of a place was lost.
* `FailsOnlyOnClash`, `VolumeOpens`: opening fails only over two directories
  that would become one, and otherwise succeeds in the end, in spite of crashes
  and of another process.
* `ServingIsQuiet`: a process that opens a volume others serve changes nothing.
* `RegisteredIsInScope`, `ScopeIsWalkable`: what a sync lists of a registered
  directory is in scope wherever policy and provider agree over its path, they
  agree over every path without blanks at its edges, and browsing reaches all
  that is in scope.

### Bounds

`MaxFiles`, `MaxFaults`, `MaxPuts` bound listings, faults and uploads. Three
requests are the least that let one request lose the slot twice, with
`MaxAttempts` 2 for the code's 3; listings have
at most one object, since `GoStale` already lets a heartbeat lapse or hold at
every step (the proofs cover longer listings and the code's interval of 5).
Two uploads give
an edit between listing and download, an edit between two syncs, and with two
keys a content under two names, of which two removals take both. The second key
stands for a suffix `extract` does not know, so that it is indexed only where the
first was read before. A directory inside another matters by the key that both
list, so that one key is enough for it (`shared_library`). One fault, at every
step of every actor, covers each window between two writes. Syncs are not
counted and repeat without limit. A removal is one request, served once: one
shows it beside syncs, two show it beside another as well.

`Conversations`: two tabs share the session through `localStorage`, so that one
may ask, or clear, what the other shows; two questions give a follow-up and two
concurrent streams; one token already separates an empty, a partial and a
complete answer; one fault strikes every step of both. Only the first tab is
loaded again. A window of 3 holds all that comes before the second question,
so that `FollowUpSeesTheAnswer` is not excused by a full window, and `Limit` is
smaller than the four turns of two questions.

`AgentGraph`: two bodies give content swapped for content at equal counts, one
of them wordless; `K` 1 makes fusion cut. Two changes of content reach a
removal between search and lookup. `FusionIsSound` is checked on the hits at hand in every
state and on all rankings of up to three of four chunks in one (`Fresh`); these
have every overlap, and the constant 60 is the code's.

`Datasources`: three datasources of which two or all three are one place, and
two processes that may hold different lists of duplicates. `created_at` has one
value: then ids decide alone, which stands for any total order, and
`Before_Age` shows what the tie would do without them. Ids are not reused. All
processes run the present code. Two directories clash, and do not with one
path each. `Scope` is checked over all pairs of nine keys of up to three
segments and over all nine at once, all paths of up to two segments and all
policies of up to two prefixes, in the one state `Fresh`, since that does not
depend on the state, and over the registered directories in every state. Keys and
paths have segments with blanks before, after, and of nothing but blanks.
Placeholders, and browse's cut after 200 files, are left out.

### Fairness

`FairSpec` has weak fairness of the steps of an API thread that serves a
request, of each worker's loop, and of the passing of time (`GoStale`). A
worker that died is started again (`restart: unless-stopped`). Nothing forces a
request to arrive, and faults are bounded: `RunsEnd` says that runs end once
faults stop.

`Conversations` has weak fairness of the handlers as a whole (one event loop)
and of each page's handling of frames. `AgentGraph` has it for each
invocation's nodes and each search: a call to a model returns or raises.
`Datasources` has it for each process opening the volume, which its container's
restart policy, or the next request, provides. Nobody is made to ask, to clear,
to reload, to sync, to connect or to register.

## What the code does not keep

* `enqueue_run` can return `(None, True)`: the read-back finds no active run.
* `remove_file` checks the last reference and drops in separate transactions.
  A sync that attributes the content in between leaves an indexed row without
  vectors, and rung 0 skips the file from then on. `db.transaction` names this
  very check as its use.
* The same lasting state comes from a fault between `drop_blob_for_user` and
  `remove_user_blob`: rung 2 trusts the possession row. `IndexedIsSearchable`
  names this exception as `halved`.
* Where a sync records content that a removal is dropping, an indexed row may end
  without possession or vectors, and possession without vectors.
  `IndexedIsSearchable` names this exception as `raced`, which lasts until the
  content is disowned with no row left that names it.
* `upsert_file` overwrites the content a row names and nothing drops it: after
  an edit, or a failed download, the old text is still found by searches.
* `agent_query_stream` stores a partial answer: the model's exception becomes a
  frame in `synthesize_streaming`, and the handler goes on as after a complete
  answer. The page shows the error, the next mount shows the fragment.
* A volume whose duplicates both have a directory of the same path never opens:
  the UPDATE violates `UNIQUE (user_id, datasource_id, path)` at every start.

Seen in the models, and in no run of their own:

* `directories.status` "mirrors the latest run's state" (`schema.sql` 59), but
  the `set_directory_status` of `enqueue_run` is a later transaction than its
  INSERT: the worker can claim and finish the run in between, and the directory
  then says `queued` until the next sync. `StatusWasTrue` is what holds.
* A path is checked in one form and listed in another. `library ` with a blank
  passes `may_register` as `library/` (`policy.py` 27), is stored as it came
  (`datasource_routes.py` 174-183), and a sync of it lists what is below
  `library /` (`s3.py` 132-141), which the policy never saw. `Scope` has this,
  and the properties and theorems about registered directories say `Agree`.
* A row that a sync rewrites between the `get_file` and the `soft_delete_file` of
  a removal is deleted all the same, and the new content stays held (`lost`).
* `_text_chunks` asks the cache before the suffix, so whether an unsupported
  file is indexed depends on what was synced before.
* Hydration replaces the list whatever is in it. If it arrives after a question
  was asked, the stream is patched into a stored message, whose text then
  appears twice (`mixed`); if it brings no turns, the first token is patched
  into no message, and the page crashes (`alive`). "New chat" that is confirmed
  after the next question was asked does the latter, too.
* `clearSession` takes a refusal for success: the turns stay, under an id the
  page has forgotten.
* After a removal, `IndexIsExact` holds no longer: content swapped for as much
  content is searched in the old index, until the count changes. Its hits are
  dropped by `get_chunk_texts`, and the new content is not found by words.
* A user whose chunks have no word at all gets an exception for every question
  classified as definitional: BM25Okapi divides by zero.
* The migration keeps the survivor's file row and deletes the duplicate's. When
  the first is a removed file and the second is live, the file is missing until
  the next sync.

## Proofs

`SyncRuns_proofs` proves, for all constants that satisfy the assumptions in
`SyncRuns`, and with a heartbeat interval, listings and faults of any size:

* `TypesHold`, `DoubleClickProtection`, `StatusIsHonest`, `CreatorsGetTheirRun`
  from `QueueInv`: types, at most one active run per directory, and what each
  program counter implies about the runs it names (a request past its INSERT
  has a run that is no longer absent, a worker's pending status write is one
  that some run justifies).
* `SyncsExclude` and `EndedRunsStay` from `LeaseInv`, under `HeartbeatsHold`:
  files are not slow, or there is a single worker. `LeaseInv` adds that an
  executed run is running and not stale, and that two workers never hold the
  same run. With slow files and two workers both properties fail, which is why
  the assumption is there; the deployment runs one worker.
* `QueueImplementsSlots`: every step of the queue is a step of the slots or a
  stutter, with no assumption on heartbeats. The witness of a release is the
  set of directories whose running run ended in the step.
* `GivingUpIsContention` (`GivingUpMeansContention`) from `ContentionInv`, with
  no assumption on heartbeats either. The attempt counter says nothing about
  runs, so the invariant counts them: at its n-th INSERT a request has outlived
  n - 1 runs of the directory (`Beaten`), and where it was refused there are n
  besides its own (`Rivals`), since the run that refused it is active and none
  of the n - 1. That run has ended when the request finds the directory free
  (`FreeMeansBeaten`). The sets are finite because rows come one at a time.

`KnowledgeBase_proofs` proves, from the assumptions in `KnowledgeBase` and for
any users, directories, contents, uploads and faults:

* `RecordsAreTyped` from `TypeInv`: types, and what each program counter says
  of its record. A worker inside `_process_object` has an object to process
  and its bytes; a worker or a thread inside a reap has the content to drop;
  who is not idle has a directory, or a user and a key. Without this the types
  are not inductive, since the next step indexes tables with these fields.
  Every other invariant is proved relative to `TypeInv`.
* `HitsHaveText` (`HitsResolve`) from `TextInv`: from `own` on, the body the
  worker carries has its chunks. It holds after `Rechunk` and `ReplaceChunks`,
  and nothing deletes chunks.
* `EmbeddingIsPaidOnce` (`PaidOnce`) from `PaidInv`: an uncached content was
  paid for at most once per fault, plus once if the worker stands between the
  call and the cache. `PaidOnce` alone does not say why the next `Embed` is the
  first.
* `RungZeroIsSound` (`FingerprintIsHonest`) from `RungInv`: no row and no
  listing has a fingerprint later than the last upload, so an upload between
  listing and row makes them differ for good; and if the object still has the
  fingerprint of the listing, the bytes at hand are its bytes.

* `KnowledgeBaseImplementsContent` (`ImplementsContent`) from `TextInv`: initial
  states map to initial states, and a step that adds vectors or possession has
  a body whose chunks are there, which is `BodyHasText`; every other step adds
  or takes away one body at a time, or stutters.

`KnowledgeBaseRaces_proofs` proves the three properties that depend on how syncs
and removals mix, with any number of removals beside the syncs and each other and
faults anywhere, and with no hypothesis about them. Each has an invariant:

* `IndexedFilesAreFound` (`IndexedIsSearchable`) from `SearchInv`: content that
  is about to be dropped or disowned has no live row and gets none
  (`DroppedIsUnreferenced`), held content has its vectors unless it stands
  between the drop and the disowning (`HeldHasVectors`), what a sync is about to
  record has its vectors and then is held (`BodyHasVectors`, `BodyIsHeld`), and
  an indexed row is held (`IndexedIsHeld`). Each of these says "unless `raced`",
  and the invariant shows that nothing else can break it: two removals of two
  last references, and a reap beside a removal, do not.
* `PossessionsAreAccountedFor` (`PossessionIsAccounted`) from `AccountInv`:
  what a reap has read of a row before it deletes it is what the row still
  names, since removals rewrite no row (`ReapsKnowTheirRows`), so that the
  content it then examines is the content that lost a row. A removal may find
  its row rewritten by a sync: then the content it hides is `lost`.
* `CleanRunsAgree` (`CleanRunAgrees`) from `AgreeInv` with `RungInv`: while no
  file has failed, what was listed and is no longer to do has the row that rung
  0 would skip, or was removed by hand since the run began (`Done`), and by
  `FingerprintIsHonest` such a row has the object's bytes, if the object is as
  it was listed; and the rows a reap has before it are those of this directory
  that were not listed, all of them and no other. Rows of neighbouring
  directories are rewritten by nobody else meanwhile, because there is one
  worker.

`Datasources_proofs` proves all but the liveness of `Datasources`, for any old
volume, processes, calls and crashes, from one invariant, `Inv`. A process
carries what it read of the duplicates through whatever the others do, so `Inv`
says of each pair it holds (`IsDue`) that the keeper is there and first of its
place, and that the duplicate, if it is still there, is at that place. This is
stable because no process deletes a first row (`FirstsSurvive`: a row deleted
gives way to one before it, and the order has no cycles) and because ids are
never used again. With it:

* a row moves only to a surviving datasource of its own place
  (`MovedToItsPlace`): `RowsFollowTheirSource` and `MigrationLosesNothing`; and
  an UPDATE can only be refused for directories (`RefusedOverDirectories`),
  which gives `OpeningFailsOnlyOnClash`;
* what was read resolves every duplicate (`Covers`), whatever has happened
  since: a process that has committed leaves one row per place, and rows once
  unique stay so: `PlacesAreUnique`;
* where places are unique, no duplicate a process holds is there any more:
  `ServingIsLeftAlone`.

`IdentityIsPlace` relates the expressions of the unique index to the places of
the properties, and `GroupsHaveAFirst` says that the query finds a keeper for
every group, whatever its size.

`Scope_proofs` proves, over any segments and for paths, policies and buckets of
any size, what the properties of `Scope` say of one of each:
`UnpaddedAgree` (policy and provider read a path without blanks at its edges
alike), `ListingsStayInScope` (where they agree over a path that may be
registered, whatever its listing returns is in scope) and `ScopeIsReached`
(whatever is in scope can be walked to). They rest on two facts of prefixes:
below something below a prefix is
below the prefix (`PrefixesChain`), and two prefixes of one key are comparable
(`PrefixesCompare`). Without `Agree` the second would be false, as the path
`library ` shows: it is a hypothesis about the path, not about the code. The
prefixes of a policy begin with no blank (`AllowedAssumption`), since
`allowed_prefixes` has normalised them. With `PathsAllowed`, that every row of `directories` has a
path its user may register, which the migration keeps because it moves rows
only between datasources and not between users, they give `SyncsStayInScope`
for any bucket, and `RegisteredStayInScope` and `RegisteredAreWalkable` for the
two properties of `MCDatasources`. The hypothesis `WrittenIn` says that paths
and prefixes are sequences of segments.

`Conversations_proofs` proves all but the liveness of `Conversations`, for any
tabs, sessions, questions, windows, tokens and faults, from one invariant whose
parts need each other:

* `ReadersInv`, `RequestInv`: a stream has one reader; a handler that has not
  begun has sent nothing, and `done` is the last frame and says that the handler
  is at its end, that is, that the answer is stored.
* `TurnsInv`, `StoredInv`: a turn is of a question of its session that was
  asked, the assistant's of one that has ended; what was answered is stored as
  it was sent, until it is forgotten. With `QuestionSurvives` itself these are
  the server's side.
* `PendingInv`: a pending message is the last of a page that is busy; its tokens
  and those on the wire make what was sent; and while its stream is open, the
  frame that settles it is on the wire or still to be sent. This is why a page
  that waits for nothing shows nothing as pending (`PagesSettle`), and what is
  shown is what was sent (`PagesShowWhatIsSent`).
* `LoadedInv`: what hydration carries is stored or forgotten, which gives
  `ShownAnswersAreKept` through a reload.
* `HistoryInv`: once a handler has read its window, the answer above the
  question is in it, or out of the window, or of another session. Before that,
  the answer is stored, since the page that asked had handled its `done`
  (`FollowUpsSeeTheAnswer`).

The step lemmas `RequestStep`, `TurnsStep`, `WireStep` and `PageStep` say what
any step may do to one of the four parts of the state, and the invariants are
proved from these rather than action by action.

`AgentGraph_proofs` proves all but the liveness of `AgentGraph` and
`Retrieval`, for any users, calls, contents and changes:

* `PoorGradesRewriteOnce` and `NodesShareTheQuestion` from `AgentInv`, which
  says for each node how often an invocation there has graded and rewritten
  (`Progress`), and which text each node before it was given (`Texted`).
* `CountDecidesSoundly` (`IndexIsExact`) from `IndexInv`: all that was ever read
  of the chunks of a user who has lost none, and is in a call or in the cache,
  is a chain of sets below what the user has now (`Versions`). Of two sets in a
  chain, equal counts make equal sets. This takes `BodyAssumption`: the contents
  are finitely many. For a user who has lost some, the chain breaks, and the
  property does not hold (see above).

`Fusion_proofs` proves `FusionKeepsOrder`: for all rankings of up to 61 chunks,
`_rrf` loses and repeats nothing, what both retrievers found comes before what
one found, and an order both agree on is kept. The core is an inequality,
`TwoOutweighOne`: 1/a + 1/b > 1/c for a, b, c from 61 to 121. It fails from 62
places on, where two last places tie with one first place. That the sorted
sequence exists and is unique needs no induction: scores, and then the order of
first meeting, are a strict total order (`FoundIsOrdered`), and in a finite set
with such an order the number of members before a member is its place
(`OrderedSequence`). `SearchesFuseSoundly` (`FusionIsSound`) applies it to what
searches have at hand, under the hypothesis 2K <= 61; the code asks for K = 4.

With these, every invariant and every action property that a passing run checks
is a theorem. Only model-checked: `RunsEnd`, `AskedIsSettled`,
`InvocationEnds`, `VolumeOpens` and the liveness part of `ImplementsSlots` (the
prover does not do fairness).

## Plan

Done, in this order: `SyncRuns` and its abstract specification, its proofs,
`KnowledgeBase` and its first proofs, `Conversations`, `SearchableContent` and
the proof that `KnowledgeBase` implements it, `Retrieval` and `AgentGraph`,
`Scope` and `Datasources` with its proofs; then the proofs of `AgentGraph`,
`Conversations`, the races of `KnowledgeBase`, the contention of `SyncRuns`,
`Scope` and the fusion. Next: a composition of `SyncRuns` and `KnowledgeBase`,
two workers on overlapping directories.

## Not modelled

Tokens and their verification, prompts, the quality of rankings, citations'
titles, the polling and the layout of the page, the seed script and the demo
corpus: no state, or no control of their own. `prune_expired` is never called,
and kind `sparse` is selected by no route. The S3, Chroma and language-model
services appear as what they return. Text processing (`hashing`, `chunking`,
`textstore`, `embeddings`) is a function of the bytes, for which a body stands
in `KnowledgeBase`.
