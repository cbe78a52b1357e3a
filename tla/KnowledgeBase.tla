---------------------------- MODULE KnowledgeBase ----------------------------
(***************************************************************************)
(* What a sync run, and DELETE /files/{id}, do to a user's knowledge base: *)
(* the tables files, user_blobs, blobs, chunks and embedding_cache and the *)
(* user's vector collection, kept in step with a source that others edit.  *)
(*                                                                         *)
(* One action is one database transaction, one call to the provider or to  *)
(* the vector store, with the local code around it; steps whose only       *)
(* effect is on the worker's own variables are merged with the next one.   *)
(* The worker is one process and runs one sync at a time; removals are     *)
(* API threads.  Which runs are started, and when, is SyncRuns.            *)
(*                                                                         *)
(* A body stands for its sha256.  All directories of a user belong to one  *)
(* datasource, so a row is named by its user and its key.  The counters of *)
(* sync_runs, which nothing but the UI reads, are left out.                *)
(***************************************************************************)
EXTENDS Naturals, FiniteSets

CONSTANTS
    User,
    Directory,     \* registered directories
    Owner,         \* Owner[d]: the user who registered d
    Under,         \* Under[d]: the keys under d's path; directories may overlap
    NumKeys,       \* object keys are numbered in listing order
    Body,          \* contents a file may have
    Readable,      \* pairs <<key, body>> that extract() turns into text
    None,
    Remover,       \* requests to DELETE /files/{id}, each of one file
    MaxPuts,       \* bound: uploads to the source
    MaxFaults      \* bound: crashes, and calls that fail

Key == 1..NumKeys

ASSUME NumKeysAssumption == NumKeys \in Nat
ASSUME OwnerAssumption == Owner \in [Directory -> User]
ASSUME UnderAssumption == Under \in [Directory -> SUBSET Key]
ASSUME ReadableAssumption == Readable \subseteq Key \X Body
ASSUME NoneAssumption == None \notin Body /\ None \notin Directory /\ None \notin User
ASSUME BoundsAssumption == MaxPuts \in Nat /\ MaxFaults \in Nat

VARIABLES
    source,     \* source[k]: the object at the provider, and its fingerprint
    puts,       \* uploads so far: every upload has a fingerprint of its own
    files,      \* files[u][k]: the row of the table files
    held,       \* held[u]: the bodies u has in user_blobs
    vecs,       \* vecs[u]: the bodies in u's vector collection
    extracted,  \* bodies whose extraction_version is current
    chunked,    \* bodies with rows in chunks
    cached,     \* bodies with vectors in embedding_cache
    paid,       \* paid[b]: how often b was sent to the embedding API (history)
    lost,       \* lost[u]: bodies held when a row or a step let go of them (history)
    halved,     \* halved[u]: bodies dropped from vecs, not from held, by a fault
    raced,      \* raced[u]: bodies dropped while a sync recorded them (history)
    removed,    \* removed[u]: keys removed by hand during this sync (history)
    wk,         \* the worker
    rm,         \* rm[r]: where the API thread that serves r stands
    faults      \* faults so far

world == <<source, puts>>
content == <<extracted, chunked, cached, paid>>
index == <<held, vecs>>
history == <<lost, halved, raced, removed>>
vars == <<source, puts, files, held, vecs, extracted, chunked, cached, paid,
          lost, halved, raced, removed, wk, rm, faults>>

-----------------------------------------------------------------------------

MaybeBody == Body \cup {None}

Object == [body : MaybeBody, ver : Nat]
Row == [state : {"absent", "indexed", "failed", "deleted"}, sha : MaybeBody,
        ver : Nat, dir : Directory \cup {None}]
NoRow == [state |-> "absent", sha |-> None, ver |-> 0, dir |-> None]

\* Where the worker stands: between files, in _process_object, in _reap_deleted.
FilePc == {"text", "chunk", "own", "embed", "cache", "index", "possess",
           "attribute", "count"}
ReapPc == {"check", "drop", "disown"}
WorkerRecord ==
    [pc : {"idle", "next", "reap"} \cup FilePc \cup ReapPc,
     dir : Directory \cup {None}, listing : [Key -> Nat], todo : SUBSET Key,
     body : MaybeBody, clean : BOOLEAN, gone : SUBSET [key : Key, sha : MaybeBody]]
IdleWorker ==
    [pc |-> "idle", dir |-> None, listing |-> [k \in Key |-> 0], todo |-> {},
     body |-> None, clean |-> TRUE, gone |-> {}]

RemovalPc == {"delete"} \cup ReapPc
RemoverRecord ==
    [pc : {"idle", "served"} \cup RemovalPc, user : User \cup {None},
     key : Key \cup {0}, sha : MaybeBody]
IdleRemover == [pc |-> "idle", user |-> None, key |-> 0, sha |-> None]
Served == [IdleRemover EXCEPT !.pc = "served"]

\* A row not soft deleted: deleted_at is NULL. state and deleted_at move together.
Live(row) == row.state \in {"indexed", "failed"}

\* user_still_references_blob
References(u, b) == \E k \in Key : Live(files[u][k]) /\ files[u][k].sha = b

\* The user whose directory is being synced, and the object being processed.
Tenant == Owner[wk.dir]
Current == CHOOSE k \in wk.todo : \A j \in wk.todo : k <= j

TypeOK ==
    /\ source \in [Key -> Object]
    /\ puts \in Nat
    /\ files \in [User -> [Key -> Row]]
    /\ held \in [User -> SUBSET Body]
    /\ vecs \in [User -> SUBSET Body]
    /\ extracted \subseteq Body
    /\ chunked \subseteq Body
    /\ cached \subseteq Body
    /\ paid \in [Body -> Nat]
    /\ lost \in [User -> SUBSET Body]
    /\ halved \in [User -> SUBSET Body]
    /\ raced \in [User -> SUBSET Body]
    /\ removed \in [User -> SUBSET Key]
    /\ wk \in WorkerRecord
    /\ rm \in [Remover -> RemoverRecord]
    /\ faults \in Nat

Init ==
    /\ source = [k \in Key |-> [body |-> None, ver |-> 0]]
    /\ puts = 0
    /\ files = [u \in User |-> [k \in Key |-> NoRow]]
    /\ held = [u \in User |-> {}]
    /\ vecs = [u \in User |-> {}]
    /\ extracted = {}
    /\ chunked = {}
    /\ cached = {}
    /\ paid = [b \in Body |-> 0]
    /\ lost = [u \in User |-> {}]
    /\ halved = [u \in User |-> {}]
    /\ raced = [u \in User |-> {}]
    /\ removed = [u \in User |-> {}]
    /\ wk = IdleWorker
    /\ rm = [r \in Remover |-> IdleRemover]
    /\ faults = 0

-----------------------------------------------------------------------------
(* The source, which others write.                                         *)

\* An object is created or replaced: its etag or its mtime is new.
Put(k, b) ==
    /\ puts < MaxPuts
    /\ puts' = puts + 1
    /\ source' = [source EXCEPT ![k] = [body |-> b, ver |-> puts + 1]]
    /\ UNCHANGED <<files, index, content, history, wk, rm, faults>>

Delete(k) ==
    /\ source[k].body # None
    /\ source' = [source EXCEPT ![k] = [body |-> None, ver |-> 0]]
    /\ UNCHANGED <<puts, files, index, content, history, wk, rm, faults>>

-----------------------------------------------------------------------------
(* The worker: run_sync from the listing on.                               *)

\* The bodies bs of u that are held now may lose their last reference unseen.
Forsake(u, bs) == lost' = [lost EXCEPT ![u] = @ \cup (bs \cap held[u])]

\* A listing: fingerprints as the provider has them now.
StartSync(d) ==
    /\ wk.pc = "idle"
    /\ wk' = [IdleWorker EXCEPT
                !.pc = "next", !.dir = d,
                !.listing = [k \in Key |-> IF k \in Under[d] THEN source[k].ver ELSE 0],
                !.todo = {k \in Under[d] : source[k].body # None}]
    /\ UNCHANGED <<world, files, index, content, history, rm, faults>>

\* Mutant of Unchanged: a deleted or failed row is skipped as well.
UnchangedWhateverState(row, ver) == row.sha # None /\ row.ver = ver

\* _unchanged: rung 0
Unchanged(row, ver) == row.state = "indexed" /\ row.sha # None /\ row.ver = ver

AtFile == wk.pc = "next" /\ wk.todo # {}
Skips == Unchanged(files[Tenant][Current], wk.listing[Current])

\* The next worker record once the current object is settled.
Settle(ok) ==
    wk' = [wk EXCEPT !.pc = "next", !.todo = @ \ {Current}, !.body = None,
                     !.clean = @ /\ ok]

\* The worker goes on with the current object.
Goto(pc) == wk' = [wk EXCEPT !.pc = pc]

\* upsert_file for the current object. The row it replaces may have been the
\* last reference to what it named.
Upsert(state, sha, ver) ==
    LET old == files[Tenant][Current]
    IN  /\ files' = [files EXCEPT ![Tenant][Current] =
                       [state |-> state, sha |-> sha, ver |-> ver, dir |-> wk.dir]]
        /\ Forsake(Tenant, {b \in {wk.body} : state = "failed"} \cup
                           {b \in {old.sha} : Live(old) /\ b # sha})

SkipUnchanged ==
    /\ AtFile
    /\ Skips
    /\ Settle(TRUE)
    /\ UNCHANGED <<world, files, index, content, history, rm, faults>>

\* provider.fetch: the bytes are those of now, not those of the listing.
Fetch ==
    /\ AtFile
    /\ ~Skips
    /\ source[Current].body # None
    /\ wk' = [wk EXCEPT !.pc = "text", !.body = source[Current].body]
    /\ UNCHANGED <<world, files, index, content, history, rm, faults>>

\* The handler of run_sync: the row says failed and names no content.
FailFile ==
    /\ Upsert("failed", None, wk.listing[Current])
    /\ Settle(FALSE)
    /\ UNCHANGED <<world, index, content, halved, raced, removed, rm>>

FetchFails ==
    /\ AtFile
    /\ ~Skips
    /\ source[Current].body = None
    /\ FailFile
    /\ UNCHANGED faults

\* Mutant of ReuseText: extraction being current is taken for chunks being there.
ReuseTextUnlooked ==
    /\ wk.pc = "text"
    /\ wk.body \in extracted
    /\ Goto("own")
    /\ UNCHANGED <<world, files, index, content, history, rm, faults>>

\* Rung 1: text and chunks are known.
ReuseText ==
    /\ wk.pc = "text"
    /\ wk.body \in extracted
    /\ wk.body \in chunked
    /\ Goto("own")
    /\ UNCHANGED <<world, files, index, content, history, rm, faults>>

\* The text is stored, its chunks are not: replace_chunks.
Rechunk ==
    /\ wk.pc = "text"
    /\ wk.body \in extracted
    /\ wk.body \notin chunked
    /\ chunked' = chunked \cup {wk.body}
    /\ Goto("own")
    /\ UNCHANGED <<world, files, index, extracted, cached, paid, history, rm, faults>>

\* extract, write_text, mark_blob_extracted: for new bytes, and for known ones that
\* have no chunks when their stored text is gone as well.
Extract ==
    /\ wk.pc = "text"
    /\ wk.body \notin extracted \cap chunked
    /\ <<Current, wk.body>> \in Readable
    /\ extracted' = extracted \cup {wk.body}
    /\ Goto("chunk")
    /\ UNCHANGED <<world, files, index, chunked, cached, paid, history, rm, faults>>

\* extract raises ExtractionError.
ExtractFails ==
    /\ wk.pc = "text"
    /\ wk.body \notin extracted \cap chunked
    /\ <<Current, wk.body>> \notin Readable
    /\ FailFile
    /\ UNCHANGED faults

ReplaceChunks ==
    /\ wk.pc = "chunk"
    /\ chunked' = chunked \cup {wk.body}
    /\ Goto("own")
    /\ UNCHANGED <<world, files, index, extracted, cached, paid, history, rm, faults>>

\* user_has_blob: rung 2 goes on to the row, rung 3 to the vectors.
CheckPossession ==
    /\ wk.pc = "own"
    /\ Goto(IF wk.body \in held[Tenant] THEN "attribute" ELSE "embed")
    /\ UNCHANGED <<world, files, index, content, history, rm, faults>>

\* Mutant of Embed: the embedding cache is not looked at.
EmbedAlways ==
    /\ wk.pc = "embed"
    /\ paid' = [paid EXCEPT ![wk.body] = @ + 1]
    /\ Goto("cache")
    /\ UNCHANGED <<world, files, index, extracted, chunked, cached, history, rm, faults>>

\* get_cached_vectors, then embed_texts for what is missing.
Embed ==
    /\ wk.pc = "embed"
    /\ IF wk.body \in cached
         THEN Goto("index") /\ UNCHANGED paid
         ELSE Goto("cache") /\ paid' = [paid EXCEPT ![wk.body] = @ + 1]
    /\ UNCHANGED <<world, files, index, extracted, chunked, cached, history, rm, faults>>

PutCachedVectors ==
    /\ wk.pc = "cache"
    /\ cached' = cached \cup {wk.body}
    /\ Goto("index")
    /\ UNCHANGED <<world, files, index, extracted, chunked, paid, history, rm, faults>>

\* The upsert into the user's collection.
IndexBlob ==
    /\ wk.pc = "index"
    /\ vecs' = [vecs EXCEPT ![Tenant] = @ \cup {wk.body}]
    /\ Goto("possess")
    /\ UNCHANGED <<world, files, held, content, history, rm, faults>>

AddUserBlob ==
    /\ wk.pc = "possess"
    /\ held' = [held EXCEPT ![Tenant] = @ \cup {wk.body}]
    /\ Goto("attribute")
    /\ UNCHANGED <<world, files, vecs, content, history, rm, faults>>

\* A sync is recording that u holds b; a removal is about to drop b, the reference
\* check behind it.
Recording(u, b) ==
    wk.pc \in {"possess", "attribute"} /\ Tenant = u /\ wk.body = b
Dropping(u, b) ==
    \E r \in Remover : rm[r].pc \in {"drop", "disown"} /\ rm[r].user = u /\ rm[r].sha = b

\* Of the bodies bs of u, a sync and a removal undo each other's work.
Race(u, bs) == raced' = [raced EXCEPT ![u] = @ \cup bs]

\* Mutant of Attribute: the fingerprint is asked for again, after the download.
AttributeLatest ==
    /\ wk.pc = "attribute"
    /\ Upsert("indexed", wk.body, source[Current].ver)
    /\ Race(Tenant, {b \in {wk.body} : Dropping(Tenant, b)})
    /\ Goto("count")
    /\ UNCHANGED <<world, index, content, halved, removed, rm, faults>>

\* upsert_file(state="indexed"), with the fingerprint of the listing.
Attribute ==
    /\ wk.pc = "attribute"
    /\ Upsert("indexed", wk.body, wk.listing[Current])
    /\ Race(Tenant, {b \in {wk.body} : Dropping(Tenant, b)})
    /\ Goto("count")
    /\ UNCHANGED <<world, index, content, halved, removed, rm, faults>>

\* bump_run_counters, which may still raise: then the row is overwritten.
CountFile ==
    /\ wk.pc = "count"
    /\ Settle(TRUE)
    /\ UNCHANGED <<world, files, index, content, history, rm, faults>>

\* Anything else that raises while an object is processed.
ProcessRaises ==
    /\ AtFile \/ wk.pc \in FilePc
    /\ faults < MaxFaults
    /\ FailFile
    /\ faults' = faults + 1

-----------------------------------------------------------------------------
(* The worker: _reap_deleted.                                              *)

\* list_live_provider_keys, less the keys of the listing.
StartReap ==
    /\ wk.pc = "next"
    /\ wk.todo = {}
    /\ LET rows == {k \in Key : Live(files[Tenant][k]) /\ files[Tenant][k].dir = wk.dir}
           absent == {k \in rows : wk.listing[k] = 0}
       IN  wk' = [wk EXCEPT !.pc = "reap",
                    !.gone = {[key |-> k, sha |-> files[Tenant][k].sha] : k \in absent}]
    /\ UNCHANGED <<world, files, index, content, history, rm, faults>>

\* Mutant of SoftDelete: writes a state the schema does not know.
SoftRemove(u, k) ==
    LET row == files[u][k]
        state == IF Live(row) THEN "removed" ELSE row.state
    IN  files' = [files EXCEPT ![u][k] = [row EXCEPT !.state = state]]

\* soft_delete_file: nothing to do for a row deleted in the meantime.
SoftDelete(u, k) ==
    LET row == files[u][k]
        state == IF Live(row) THEN "deleted" ELSE row.state
    IN  files' = [files EXCEPT ![u][k] = [row EXCEPT !.state = state]]

\* Mutant of ReapRow: the worker hides the row and leaves its content indexed.
ReapRowOnly(x) ==
    /\ wk.pc = "reap"
    /\ x \in wk.gone
    /\ SoftDelete(Tenant, x.key)
    /\ wk' = [wk EXCEPT !.gone = @ \ {x}]
    /\ UNCHANGED <<world, index, content, history, rm, faults>>

ReapRow(x) ==
    /\ wk.pc = "reap"
    /\ x \in wk.gone
    /\ SoftDelete(Tenant, x.key)
    /\ wk' = [wk EXCEPT !.gone = @ \ {x}, !.body = x.sha,
                        !.pc = IF x.sha = None THEN "reap" ELSE "check"]
    /\ UNCHANGED <<world, index, content, history, rm, faults>>

ReapCheck ==
    /\ wk.pc = "check"
    /\ wk' = IF References(Tenant, wk.body)
               THEN [wk EXCEPT !.pc = "reap", !.body = None]
               ELSE [wk EXCEPT !.pc = "drop"]
    /\ UNCHANGED <<world, files, index, content, history, rm, faults>>

\* drop_blob_for_user and remove_user_blob: the last of u's hold on b.
DropVectors(u, b) == vecs' = [vecs EXCEPT ![u] = @ \ {b}]
Disown(u, b) ==
    /\ held' = [held EXCEPT ![u] = @ \ {b}]
    /\ lost' = [lost EXCEPT ![u] = @ \ {b}]
    /\ halved' = [halved EXCEPT ![u] = @ \ {b}]
    /\ raced' = [raced EXCEPT ![u] =
                   IF Recording(u, b) THEN @ \cup {b}
                   ELSE IF References(u, b) THEN @ ELSE @ \ {b}]
    /\ UNCHANGED removed

ReapDrop ==
    /\ wk.pc = "drop"
    /\ DropVectors(Tenant, wk.body)
    /\ Goto("disown")
    /\ UNCHANGED <<world, files, held, content, history, rm, faults>>

ReapDisown ==
    /\ wk.pc = "disown"
    /\ Disown(Tenant, wk.body)
    /\ wk' = [wk EXCEPT !.pc = "reap", !.body = None]
    /\ UNCHANGED <<world, files, vecs, content, rm, faults>>

Reaped == wk.pc = "reap" /\ wk.gone = {}

Finish ==
    /\ Reaped
    /\ wk' = IdleWorker
    /\ removed' = [u \in User |-> {}]
    /\ UNCHANGED <<world, files, index, content, lost, halved, raced, rm, faults>>

\* A fault stops the work on u's hold on b, at pc.
CutShort(u, b, pc) ==
    /\ Forsake(u, {b} \cap Body)
    /\ halved' = [halved EXCEPT ![u] = @ \cup
                    (IF pc = "disown" THEN {b} \cap held[u] ELSE {})]
    /\ faults < MaxFaults
    /\ faults' = faults + 1
    /\ UNCHANGED raced

\* The worker dies, or an exception escapes run_sync. Another run starts afresh.
Crash ==
    /\ wk.pc # "idle"
    /\ CutShort(Tenant, wk.body, wk.pc)
    /\ wk' = IdleWorker
    /\ removed' = [u \in User |-> {}]
    /\ UNCHANGED <<world, files, index, content, rm>>

-----------------------------------------------------------------------------
(* The API: remove_file.                                                   *)

Serve(r, x) == rm' = [rm EXCEPT ![r] = x]

\* get_file: the row is live, and names this content now.
BeginRemoval(r, u, k) ==
    /\ rm[r].pc = "idle"
    /\ Live(files[u][k])
    /\ Serve(r, [pc |-> "delete", user |-> u, key |-> k, sha |-> files[u][k].sha])
    /\ UNCHANGED <<world, files, index, content, history, wk, faults>>

\* soft_delete_file, whatever the row has come to name since get_file.
RemoveRow(r) ==
    LET u == rm[r].user
        row == files[u][rm[r].key]
    IN  /\ rm[r].pc = "delete"
        /\ SoftDelete(u, rm[r].key)
        /\ Forsake(u, {b \in {row.sha} : Live(row) /\ b # rm[r].sha})
        /\ removed' = [removed EXCEPT ![u] = @ \cup {k \in {rm[r].key} : wk.pc # "idle"}]
        /\ Serve(r, IF rm[r].sha = None THEN Served ELSE [rm[r] EXCEPT !.pc = "check"])
        /\ UNCHANGED <<world, index, content, halved, raced, wk, faults>>

\* Mutant of RemovalCheck: vectors are dropped without asking who else needs them.
RemovalUnchecked(r) ==
    /\ rm[r].pc = "check"
    /\ Serve(r, [rm[r] EXCEPT !.pc = "drop"])
    /\ UNCHANGED <<world, files, index, content, history, wk, faults>>

RemovalCheck(r) ==
    /\ rm[r].pc = "check"
    /\ Serve(r, IF References(rm[r].user, rm[r].sha)
                  THEN Served ELSE [rm[r] EXCEPT !.pc = "drop"])
    /\ UNCHANGED <<world, files, index, content, history, wk, faults>>

RemovalDrop(r) ==
    /\ rm[r].pc = "drop"
    /\ DropVectors(rm[r].user, rm[r].sha)
    /\ Race(rm[r].user, {b \in {rm[r].sha} : Recording(rm[r].user, b)})
    /\ Serve(r, [rm[r] EXCEPT !.pc = "disown"])
    /\ UNCHANGED <<world, files, held, content, lost, halved, removed, wk, faults>>

RemovalDisown(r) ==
    /\ rm[r].pc = "disown"
    /\ Disown(rm[r].user, rm[r].sha)
    /\ Serve(r, Served)
    /\ UNCHANGED <<world, files, vecs, content, wk, faults>>

\* The thread dies with its process, or a call of the handler raises.
RemovalFails(r) ==
    /\ rm[r].pc \in RemovalPc
    /\ CutShort(rm[r].user, rm[r].sha, rm[r].pc)
    /\ Serve(r, Served)
    /\ UNCHANGED <<world, files, index, content, removed, wk>>

-----------------------------------------------------------------------------

SourceStep == \/ \E k \in Key, b \in Body : Put(k, b)
              \/ \E k \in Key : Delete(k)

WorkerStep ==
    \/ \E d \in Directory : StartSync(d)
    \/ SkipUnchanged \/ Fetch \/ FetchFails
    \/ ReuseText \/ Rechunk \/ Extract \/ ExtractFails \/ ReplaceChunks
    \/ CheckPossession \/ Embed \/ PutCachedVectors \/ IndexBlob \/ AddUserBlob
    \/ Attribute \/ CountFile \/ ProcessRaises
    \/ StartReap \/ (\E x \in wk.gone : ReapRow(x))
    \/ ReapCheck \/ ReapDrop \/ ReapDisown \/ Finish \/ Crash

RemoverStep(r) ==
    \/ \E u \in User, k \in Key : BeginRemoval(r, u, k)
    \/ RemoveRow(r) \/ RemovalCheck(r) \/ RemovalDrop(r) \/ RemovalDisown(r)
    \/ RemovalFails(r)

Next == SourceStep \/ WorkerStep \/ \E r \in Remover : RemoverStep(r)

Spec == Init /\ [][Next]_vars

-----------------------------------------------------------------------------
(* Properties                                                              *)

\* Rung 0 is sound: when a row carries the fingerprint the object has at the
\* provider, it names the object's bytes, whatever was uploaded between the
\* listing and the download, so skipping the file (_unchanged) loses nothing.
FingerprintIsHonest ==
    \A u \in User, k \in Key :
        LET row == files[u][k]
        IN  row.state = "indexed" /\ source[k].body # None /\ row.ver = source[k].ver
              => row.sha = source[k].body

\* What a search can return has text: content a user holds, or has vectors of,
\* has its chunks stored, also when the worker died between mark_blob_extracted
\* and replace_chunks.
HitsResolve ==
    \A u \in User : (held[u] \cup vecs[u]) \subseteq chunked

\* The embedding API is called once per content for all users together; only a
\* fault between the call and put_cached_vectors makes it be paid for again.
PaidOnce ==
    \A b \in Body : paid[b] <= 1 + faults

\* A file listed as indexed is there to be found: its content is held and has
\* vectors and chunks, although rows, possession and vectors are written in
\* separate steps, any of which may be the last. Two things alone break this: a
\* fault that stops a removal between the vectors and user_blobs, and a sync that
\* records content of which a removal has checked the last reference but which it
\* has not disowned yet. Two removals, or a reap and a removal, do not.
IndexedIsSearchable ==
    \A u \in User, k \in Key :
        files[u][k].state = "indexed" =>
            \/ files[u][k].sha \in held[u] \cap chunked \cap (vecs[u] \cup halved[u])
            \/ files[u][k].sha \in raced[u]

\* A sync that ends "succeeded" leaves the directory's rows as its source is,
\* for every object that did not change since the listing: present objects are
\* indexed with their bytes, unless they were removed by hand meanwhile, and rows
\* of absent ones are not live.
CleanRunAgrees ==
    Reaped /\ wk.clean =>
        \A k \in Under[wk.dir] :
            LET row == files[Tenant][k]
            IN  source[k].ver = wk.listing[k] =>
                  IF source[k].body # None
                    THEN \/ row.state = "indexed" /\ row.sha = source[k].body
                         \/ k \in removed[Tenant]
                    ELSE row.dir = wk.dir => ~Live(row)

\* u's hold on b is about to be recorded in a row, or to be examined or dropped.
Handled(u, b) ==
    \/ /\ wk.pc \in ReapPc \cup {"attribute"}
       /\ Tenant = u
       /\ wk.body = b
    \/ \E r \in Remover :
           /\ rm[r].pc \in ReapPc
           /\ rm[r].user = u
           /\ rm[r].sha = b

\* Content stays in a knowledge base only on behalf of a live row, also when syncs
\* and removals run beside each other. The three ways to leave some behind are a
\* row overwritten with other content (an edit, or a failed download), a row that a
\* sync rewrote between the get_file and the soft_delete_file of its removal, and a
\* step that a fault cut short.
PossessionIsAccounted ==
    \A u \in User : \A b \in held[u] :
        References(u, b) \/ Handled(u, b) \/ b \in lost[u]

\* Searches may count on what SearchableContent says: one body moves at a time,
\* and none is possessed or has vectors before its chunks are stored, whatever run
\* was cut short before. Retrieval is checked on top of it.
Content == INSTANCE SearchableContent
ImplementsContent == Content!Spec

\* Last-reference checks are not overtaken before vectors are dropped: with no
\* fault, a file listed as indexed is held and has vectors.
LastReferenceIsNotOvertaken ==
    faults = 0 =>
        \A u \in User, k \in Key :
            files[u][k].state = "indexed" => files[u][k].sha \in held[u] \cap vecs[u]

\* "Possession: these bytes are in this user's knowledge base": when nothing is
\* under way and nothing failed, a user holds what their live rows name.
HeldIsReferenced ==
    wk.pc = "idle" /\ (\A r \in Remover : rm[r].pc \notin RemovalPc) /\ faults = 0 =>
        \A u \in User : \A b \in held[u] : References(u, b)
=============================================================================
