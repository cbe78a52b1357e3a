---------------------- MODULE KnowledgeBaseRaces_proofs ----------------------
(***************************************************************************)
(* What syncs and removals keep while they run beside each other: indexed  *)
(* files are searchable, possessions are accounted for, and a run without  *)
(* failures leaves the rows as the source is.  Any number of removals may  *)
(* be between any two of their steps, any step may be the last of its run, *)
(* and what is exempt is what the properties name: content a sync recorded *)
(* while a removal was dropping it (raced), a removal cut in two (halved), *)
(* content let go of by an edit or a fault (lost), files removed by hand   *)
(* during the sync (removed).                                              *)
(***************************************************************************)
EXTENDS KnowledgeBase_proofs

-----------------------------------------------------------------------------
(* Who is at work, and what their steps do to their records.               *)

AnyStart == \E d \in Directory : StartSync(d)
AnyReapRow == \E x \in wk.gone : ReapRow(x)

FileStep ==
    \/ SkipUnchanged \/ Fetch \/ FetchFails
    \/ ReuseText \/ Rechunk \/ Extract \/ ExtractFails \/ ReplaceChunks
    \/ CheckPossession \/ Embed \/ PutCachedVectors \/ IndexBlob \/ AddUserBlob
    \/ Attribute \/ CountFile \/ ProcessRaises

ReapStep ==
    \/ StartReap \/ AnyReapRow \/ ReapCheck \/ ReapDrop \/ ReapDisown \/ Finish \/ Crash

LEMMA WorkerSteps == WorkerStep <=> AnyStart \/ FileStep \/ ReapStep
BY DEF WorkerStep, AnyStart, AnyReapRow, FileStep, ReapStep

\* A step of a run under way finds the worker busy, and leaves the threads alone.
LEMMA WorkerIsBusy ==
  ASSUME FileStep \/ ReapStep
  PROVE  wk.pc # "idle" /\ rm' = rm
<1>1. CASE FileStep
  BY <1>1
  DEF FileStep, SkipUnchanged, Fetch, FetchFails, ReuseText, Rechunk, Extract,
      ExtractFails, ReplaceChunks, CheckPossession, Embed, PutCachedVectors, IndexBlob,
      AddUserBlob, Attribute, CountFile, ProcessRaises, FailFile, AtFile, FilePc
<1>2. CASE ReapStep
  BY <1>2
  DEF ReapStep, StartReap, AnyReapRow, ReapRow, ReapCheck, ReapDrop, ReapDisown,
      Finish, Reaped, Crash
<1>. QED
  BY <1>1, <1>2

\* The fields of the worker's record after each kind of step.
LEMMA GotoFields ==
  ASSUME wk \in WorkerRecord, NEW pc \in WorkerPc, Goto(pc)
  PROVE  /\ wk'.pc = pc /\ wk'.dir = wk.dir /\ wk'.listing = wk.listing
         /\ wk'.todo = wk.todo /\ wk'.body = wk.body /\ wk'.clean = wk.clean
         /\ wk'.gone = wk.gone
BY DEF Goto, WorkerRecord

LEMMA SettleFields ==
  ASSUME wk \in WorkerRecord, NEW ok \in BOOLEAN, Settle(ok)
  PROVE  /\ wk'.pc = "next" /\ wk'.dir = wk.dir /\ wk'.listing = wk.listing
         /\ wk'.todo = wk.todo \ {Current} /\ wk'.body = None
         /\ wk'.clean => wk.clean /\ ok
<1>1. DOMAIN wk = {"pc", "dir", "listing", "todo", "body", "clean", "gone"}
  BY DEF WorkerRecord
<1>. DEFINE todo == wk.todo \ {Current}
            clean == wk.clean /\ ok
<1>2. wk' = [wk EXCEPT !.pc = "next", !.todo = todo, !.body = None, !.clean = clean]
  BY Zenon DEF Settle
<1>3. wk'.clean = clean
  <2>. HIDE DEF clean, todo
  <2>. QED  BY <1>1, <1>2
<1>4. /\ wk'.pc = "next" /\ wk'.dir = wk.dir /\ wk'.listing = wk.listing
      /\ wk'.todo = todo /\ wk'.body = None
  <2>. HIDE DEF clean, todo
  <2>. QED  BY <1>1, <1>2
<1>5. wk'.clean => wk.clean /\ ok
  BY <1>3, Zenon
<1>. QED
  BY <1>4, <1>5

-----------------------------------------------------------------------------
(* An indexed file is there to be found.                                   *)

\* Somebody is at pc with u's hold on b: the worker, or a removal.
IsAt(x, pc, u, b) == x.pc = pc /\ x.user = u /\ x.sha = b
WorkerAt(pc, u, b) == wk.pc = pc /\ Tenant = u /\ wk.body = b
RemoverAt(pc, u, b) == \E r \in Remover : IsAt(rm[r], pc, u, b)
At(pc, u, b) == WorkerAt(pc, u, b) \/ RemoverAt(pc, u, b)

\* A row gains a reference while its last one is being dropped only in a race.
DroppedIsUnreferenced ==
    \A u \in User, b \in Body :
        (At("drop", u, b) \/ At("disown", u, b)) /\ References(u, b) => b \in raced[u]

\* Vectors go before possession, and come before it.
HeldHasVectors ==
    \A u \in User : \A b \in held[u] :
        b \in vecs[u] \cup halved[u] \cup raced[u] \/ At("disown", u, b)
BodyHasVectors == wk.pc = "possess" => wk.body \in vecs[Tenant] \cup raced[Tenant]
BodyIsHeld == wk.pc = "attribute" => wk.body \in held[Tenant] \cup raced[Tenant]

IndexedIsHeld ==
    \A u \in User, k \in Key :
        files[u][k].state = "indexed" => files[u][k].sha \in held[u] \cup raced[u]

SearchInv ==
    /\ DroppedIsUnreferenced /\ HeldHasVectors
    /\ BodyHasVectors /\ BodyIsHeld /\ IndexedIsHeld

LEMMA SearchSuffices == TypeInv /\ TextInv /\ SearchInv => IndexedIsSearchable
<1>. SUFFICES ASSUME TypeInv, TextInv, SearchInv,
                     NEW u \in User, NEW k \in Key, files[u][k].state = "indexed",
                     files[u][k].sha \notin raced[u]
              PROVE  files[u][k].sha \in held[u] \cap chunked \cap (vecs[u] \cup halved[u])
  BY DEF IndexedIsSearchable
<1>1. files[u][k].sha \in held[u]
  BY DEF SearchInv, IndexedIsHeld
<1>2. files[u][k].sha \in Body /\ files[u][k].sha \in chunked
  BY <1>1 DEF TypeInv, TypeOK, TextInv, HitsResolve
<1>3. References(u, files[u][k].sha)
  BY DEF References, Live
<1>4. ~At("disown", u, files[u][k].sha)
  BY <1>2, <1>3 DEF SearchInv, DroppedIsUnreferenced
<1>. QED
  BY <1>1, <1>2, <1>4 DEF SearchInv, HeldHasVectors

LEMMA SearchInit == Init => SearchInv
<1>. SUFFICES ASSUME Init PROVE SearchInv
  OBVIOUS
<1>1. wk.pc = "idle" /\ \A r \in Remover : rm[r].pc = "idle"
  BY IdleTyped DEF Init
<1>2. \A u, b : ~At("drop", u, b) /\ ~At("disown", u, b)
  BY <1>1 DEF At, WorkerAt, RemoverAt, IsAt
<1>3. IndexedIsHeld
  BY DEF Init, IndexedIsHeld, NoRow
<1>4. HeldHasVectors
  BY DEF Init, HeldHasVectors
<1>. QED
  BY <1>1, <1>2, <1>3, <1>4
  DEF SearchInv, DroppedIsUnreferenced, BodyHasVectors, BodyIsHeld

\* Rows that change are soft deleted, or name no content.
RowsFade ==
    \A u \in User, k \in Key :
        \/ files'[u][k] = files[u][k]
        \/ /\ files'[u][k].state # "indexed"
           /\ Live(files'[u][k]) => files'[u][k].sha = None

LEMMA SoftDeleteFades ==
  ASSUME TypeInv, NEW u \in User, NEW k \in Key, SoftDelete(u, k)
  PROVE  RowsFade
<1>. DEFINE row == files[u][k]
            state == IF Live(row) THEN "deleted" ELSE row.state
            new == [row EXCEPT !.state = state]
<1>1. row \in Row /\ files \in [User -> [Key -> Row]]
  BY DEF TypeInv, TypeOK
<1>2. state \notin {"indexed", "failed"}
  BY DEF Live
<1>3. new.state = state
  <2>. HIDE DEF row, state
  <2>. QED  BY <1>1 DEF Row
<1>4. files' = [files EXCEPT ![u][k] = new]
  BY DEF SoftDelete
<1>. HIDE DEF row, state, new
<1>. QED
  BY <1>1, <1>2, <1>3, <1>4 DEF RowsFade, Live

LEMMA FailFileFades ==
  ASSUME TypeInv, FailFile, wk.dir \in Directory, wk.todo # {}
  PROVE  RowsFade
<1>1. Upsert("failed", None, wk.listing[Current])
  BY DEF FailFile
<1>. QED
  BY <1>1, UpsertKeeps DEF RowsFade

LEMMA FadingKeepsReferences ==
  ASSUME RowsFade, NEW u \in User, NEW b \in Body, References(u, b)'
  PROVE  References(u, b)
BY NoneAssumption DEF References, RowsFade

\* Nobody loses anything, and who gains possession has the vectors, or races.
ContentStays ==
    \A u \in User :
        /\ held[u] \subseteq held'[u]
        /\ held'[u] \subseteq held[u] \cup vecs[u] \cup raced[u]
        /\ vecs[u] \subseteq vecs'[u] /\ halved[u] \subseteq halved'[u]
        /\ raced[u] \subseteq raced'[u]

\* A step that lets go of no content, indexes no file and takes up no body to drop.
LEMMA SearchKept ==
  ASSUME TypeInv, SearchInv, RowsFade, ContentStays,
         \A u \in User, b \in Body :
             /\ At("drop", u, b)' => At("drop", u, b)
             /\ At("disown", u, b)' => At("drop", u, b) \/ At("disown", u, b)
             /\ At("disown", u, b) /\ b \in held[u] =>
                    At("disown", u, b)' \/ b \in halved'[u],
         BodyHasVectors', BodyIsHeld'
  PROVE  SearchInv'
<1>1. DroppedIsUnreferenced'
  <2>. SUFFICES ASSUME NEW u \in User, NEW b \in Body, References(u, b)',
                       At("drop", u, b)' \/ At("disown", u, b)'
                PROVE  b \in raced'[u]
    BY DEF DroppedIsUnreferenced
  <2>1. References(u, b)
    BY FadingKeepsReferences
  <2>2. b \in raced[u]
    BY <2>1 DEF SearchInv, DroppedIsUnreferenced
  <2>. QED
    BY <2>2 DEF ContentStays
<1>2. HeldHasVectors'
  <2>. SUFFICES ASSUME NEW u \in User, NEW b \in held'[u]
                PROVE  b \in vecs'[u] \cup halved'[u] \cup raced'[u] \/ At("disown", u, b)'
    BY DEF HeldHasVectors
  <2>1. CASE b \in vecs[u] \cup raced[u]
    BY <2>1 DEF ContentStays
  <2>2. CASE b \in held[u]
    <3>1. b \in Body
      BY <2>2 DEF TypeInv, TypeOK
    <3>2. b \in vecs[u] \cup halved[u] \cup raced[u] \/ At("disown", u, b)
      BY <2>2 DEF SearchInv, HeldHasVectors
    <3>. QED
      BY <2>2, <3>1, <3>2 DEF ContentStays
  <2>. QED
    BY <2>1, <2>2 DEF ContentStays
<1>3. IndexedIsHeld'
  BY DEF SearchInv, IndexedIsHeld, RowsFade, ContentStays
<1>. QED
  BY <1>1, <1>2, <1>3 DEF SearchInv

\* The worker moves, and every removal is where it was.
LEMMA AtWorker ==
  ASSUME rm' = rm
  PROVE  \A pc, u, b :
             /\ At(pc, u, b) <=> WorkerAt(pc, u, b) \/ RemoverAt(pc, u, b)
             /\ At(pc, u, b)' <=> WorkerAt(pc, u, b)' \/ RemoverAt(pc, u, b)
BY DEF At, RemoverAt, IsAt

\* A worker that is not about to drop anything at the end.
LEMMA SearchKeptByWorker ==
  ASSUME TypeInv, SearchInv, FileStep \/ ReapStep, RowsFade, ContentStays,
         wk.pc # "disown" \/ held[Tenant] \cap {wk.body} \subseteq halved'[Tenant],
         wk'.pc \notin {"drop", "disown"}, BodyHasVectors', BodyIsHeld'
  PROVE  SearchInv'
<1>1. \A pc, u, b :
             /\ At(pc, u, b) <=> WorkerAt(pc, u, b) \/ RemoverAt(pc, u, b)
             /\ At(pc, u, b)' <=> WorkerAt(pc, u, b)' \/ RemoverAt(pc, u, b)
  BY WorkerIsBusy, AtWorker
<1>2. \A u, b : ~WorkerAt("drop", u, b)' /\ ~WorkerAt("disown", u, b)'
  BY DEF WorkerAt
<1>3. \A u, b : WorkerAt("disown", u, b) /\ b \in held[u] => b \in halved'[u]
  BY DEF WorkerAt
<1>4. \A u \in User, b \in Body :
             /\ At("drop", u, b)' => At("drop", u, b)
             /\ At("disown", u, b)' => At("drop", u, b) \/ At("disown", u, b)
             /\ At("disown", u, b) /\ b \in held[u] =>
                    At("disown", u, b)' \/ b \in halved'[u]
  BY <1>1, <1>2, <1>3
<1>. QED
  BY <1>4, SearchKept

\* ... nor to record possession or a row, and moves no content.
LEMMA SearchKeptAtRest ==
  ASSUME TypeInv, SearchInv, FileStep \/ ReapStep, RowsFade,
         UNCHANGED <<held, vecs, raced>>,
         \A u \in User : halved[u] \subseteq halved'[u],
         wk.pc # "disown" \/ held[Tenant] \cap {wk.body} \subseteq halved'[Tenant],
         wk'.pc \notin {"drop", "disown", "possess", "attribute"}
  PROVE  SearchInv'
<1>1. BodyHasVectors' /\ BodyIsHeld'
  BY DEF BodyHasVectors, BodyIsHeld
<1>2. ContentStays
  BY DEF ContentStays
<1>. QED
  BY <1>1, <1>2, SearchKeptByWorker

LEMMA SearchFileStep ==
  ASSUME TypeInv, SearchInv, FileStep
  PROVE  SearchInv'
<1>w. wk \in WorkerRecord
  BY DEF TypeInv, TypeOK
<1>1. CASE SkipUnchanged \/ CountFile
  <2>1. \E ok \in BOOLEAN : Settle(ok)
    BY <1>1 DEF SkipUnchanged, CountFile
  <2>2. wk'.pc = "next"
    BY <1>w, <2>1, SettleFields
  <2>3. UNCHANGED <<files, held, vecs, halved, raced>> /\ wk.pc \in {"next", "count"}
    BY <1>1 DEF SkipUnchanged, CountFile, AtFile, index, history
  <2>. QED
    BY <2>2, <2>3, SearchKeptAtRest DEF RowsFade
<1>2. CASE FetchFails \/ ExtractFails \/ ProcessRaises
  <2>1. /\ FailFile /\ wk.dir \in Directory /\ wk.todo # {}
        /\ wk.pc \in {"next"} \cup FilePc
    BY <1>2 DEF FetchFails, ExtractFails, ProcessRaises, AtFile, TypeInv, WorkerPlaced, FilePc
  <2>2. wk'.pc = "next"
    BY <1>w, <2>1, SettleFields DEF FailFile
  <2>3. UNCHANGED <<held, vecs, halved, raced>> /\ RowsFade
    BY <2>1, FailFileFades DEF FailFile, index
  <2>. QED
    BY <2>1, <2>2, <2>3, SearchKeptAtRest DEF FilePc
<1>3. CASE Fetch
  <2>1. wk'.pc = "text" /\ UNCHANGED <<files, held, vecs, halved, raced>> /\ wk.pc = "next"
    BY <1>w, <1>3 DEF Fetch, WorkerRecord, AtFile, index, history
  <2>. QED
    BY <2>1, SearchKeptAtRest DEF RowsFade
<1>4. CASE \/ ReuseText \/ Rechunk \/ Extract \/ ReplaceChunks \/ Embed \/ PutCachedVectors
  <2>1. \E pc \in {"own", "chunk", "cache", "index"} : Goto(pc)
    BY <1>4 DEF ReuseText, Rechunk, Extract, ReplaceChunks, Embed, PutCachedVectors
  <2>2. wk'.pc \in {"own", "chunk", "cache", "index"}
    BY <1>w, <2>1, GotoFields DEF WorkerPc, FilePc
  <2>3. UNCHANGED <<files, held, vecs, halved, raced>> /\ wk.pc \in FilePc
    BY <1>4 DEF ReuseText, Rechunk, Extract, ReplaceChunks, Embed, PutCachedVectors,
                index, history, FilePc
  <2>. QED
    BY <2>2, <2>3, SearchKeptAtRest DEF RowsFade, FilePc
<1>5. CASE CheckPossession
  <2>1. Goto(IF wk.body \in held[Tenant] THEN "attribute" ELSE "embed")
    BY <1>5 DEF CheckPossession
  <2>2. /\ wk'.pc = IF wk.body \in held[Tenant] THEN "attribute" ELSE "embed"
        /\ wk'.body = wk.body /\ wk'.dir = wk.dir
    BY <1>w, <2>1, GotoFields DEF WorkerPc, FilePc
  <2>3. UNCHANGED <<files, held, vecs, halved, raced>> /\ wk.pc = "own"
    BY <1>5 DEF CheckPossession, index, history
  <2>4. RowsFade /\ ContentStays
    BY <2>3 DEF RowsFade, ContentStays
  <2>5. BodyHasVectors' /\ BodyIsHeld'
    BY <2>2, <2>3 DEF BodyHasVectors, BodyIsHeld, Tenant
  <2>. QED
    BY <2>2, <2>3, <2>4, <2>5, SearchKeptByWorker
<1>6. CASE IndexBlob
  <2>1. wk'.pc = "possess" /\ wk'.body = wk.body /\ wk'.dir = wk.dir /\ wk.pc = "index"
    BY <1>w, <1>6, GotoFields DEF IndexBlob, WorkerPc, FilePc
  <2>2. /\ UNCHANGED <<files, held, halved, raced>> /\ vecs \in [User -> SUBSET Body]
        /\ vecs' = [vecs EXCEPT ![Tenant] = vecs[Tenant] \cup {wk.body}]
    BY <1>6 DEF IndexBlob, history, TypeInv, TypeOK
  <2>3. Tenant \in User
    BY <2>1, TenantIsUser
  <2>4. RowsFade /\ ContentStays
    BY <2>2 DEF RowsFade, ContentStays
  <2>5. BodyHasVectors' /\ BodyIsHeld'
    BY <2>1, <2>2, <2>3 DEF BodyHasVectors, BodyIsHeld, Tenant
  <2>. QED
    BY <2>1, <2>4, <2>5, SearchKeptByWorker
<1>7. CASE AddUserBlob
  <2>1. wk'.pc = "attribute" /\ wk'.body = wk.body /\ wk'.dir = wk.dir /\ wk.pc = "possess"
    BY <1>w, <1>7, GotoFields DEF AddUserBlob, WorkerPc, FilePc
  <2>2. /\ UNCHANGED <<files, vecs, halved, raced>> /\ held \in [User -> SUBSET Body]
        /\ held' = [held EXCEPT ![Tenant] = held[Tenant] \cup {wk.body}]
    BY <1>7 DEF AddUserBlob, history, TypeInv, TypeOK
  <2>3. Tenant \in User /\ wk.body \in vecs[Tenant] \cup raced[Tenant]
    BY <2>1, TenantIsUser DEF SearchInv, BodyHasVectors
  <2>4. RowsFade /\ ContentStays
    BY <2>2, <2>3 DEF RowsFade, ContentStays
  <2>5. BodyHasVectors' /\ BodyIsHeld'
    BY <2>1, <2>2, <2>3 DEF BodyHasVectors, BodyIsHeld, Tenant
  <2>. QED
    BY <2>1, <2>4, <2>5, SearchKeptByWorker
<1>8. CASE Attribute
  <2>1. /\ Upsert("indexed", wk.body, wk.listing[Current]) /\ Goto("count")
        /\ UNCHANGED <<held, vecs, halved>> /\ wk.pc = "attribute"
    BY <1>8 DEF Attribute, index
  <2>2. wk'.pc = "count"
    BY <1>w, <2>1, GotoFields DEF WorkerPc, FilePc
  <2>3. \A u, b : /\ At("drop", u, b) <=> RemoverAt("drop", u, b)
                  /\ At("drop", u, b)' <=> RemoverAt("drop", u, b)
                  /\ At("disown", u, b) <=> RemoverAt("disown", u, b)
                  /\ At("disown", u, b)' <=> RemoverAt("disown", u, b)
    BY <1>8, <2>1, <2>2, WorkerIsBusy, AtWorker DEF FileStep, WorkerAt
  <2>4. /\ wk.dir \in Directory /\ wk.todo # {} /\ wk.body \in Body
        /\ wk.body \in held[Tenant] \cup raced[Tenant] /\ Tenant \in User
    BY <2>1, TenantIsUser DEF TypeInv, WorkerPlaced, FilePc, SearchInv, BodyIsHeld
  <2>5. /\ \A u \in User : raced[u] \subseteq raced'[u]
        /\ Dropping(Tenant, wk.body) => wk.body \in raced'[Tenant]
    <3>. DEFINE bs == {b \in {wk.body} : Dropping(Tenant, b)}
    <3>1. raced' = [raced EXCEPT ![Tenant] = raced[Tenant] \cup bs]
      BY <1>8 DEF Attribute, Race
    <3>2. Dropping(Tenant, wk.body) => wk.body \in bs
      OBVIOUS
    <3>. HIDE DEF bs
    <3>. QED
      BY <2>4, <3>1, <3>2 DEF TypeInv, TypeOK
  <2>. DEFINE new == [state |-> "indexed", sha |-> wk.body,
                      ver |-> wk.listing[Current], dir |-> wk.dir]
  <2>6. files' = [files EXCEPT ![Tenant][Current] = new]
    BY <2>1 DEF Upsert
  <2>7. new.sha = wk.body
    OBVIOUS
  <2>. HIDE DEF new
  <2>8. \A u \in User, k \in Key :
            files'[u][k] = files[u][k] \/ (u = Tenant /\ files'[u][k] = new)
    BY <2>6 DEF TypeInv, TypeOK
  <2>9. IndexedIsHeld'
    BY <2>1, <2>4, <2>5, <2>7, <2>8 DEF SearchInv, IndexedIsHeld
  <2>10. DroppedIsUnreferenced'
    <3>. SUFFICES ASSUME NEW u \in User, NEW b \in Body, References(u, b)',
                         RemoverAt("drop", u, b) \/ RemoverAt("disown", u, b)
                  PROVE  b \in raced'[u]
      BY <2>3 DEF DroppedIsUnreferenced
    <3>1. References(u, b) \/ (u = Tenant /\ b = wk.body)
      BY <2>7, <2>8 DEF References
    <3>2. CASE References(u, b)
      BY <2>3, <2>5, <3>2 DEF SearchInv, DroppedIsUnreferenced
    <3>3. CASE u = Tenant /\ b = wk.body
      <4>1. Dropping(Tenant, wk.body)
        BY <3>3 DEF RemoverAt, IsAt, Dropping
      <4>. QED
        BY <2>5, <3>3, <4>1
    <3>. QED
      BY <3>1, <3>2, <3>3
  <2>11. HeldHasVectors'
    BY <2>1, <2>3, <2>5 DEF SearchInv, HeldHasVectors
  <2>. QED
    BY <2>2, <2>9, <2>10, <2>11 DEF SearchInv, BodyHasVectors, BodyIsHeld
<1>. QED
  BY <1>1, <1>2, <1>3, <1>4, <1>5, <1>6, <1>7, <1>8 DEF FileStep

\* The three steps that take away u's hold on b, by whomever they are done: by a
\* removal, or by the worker, who then records nothing.
LEMMA SearchChecked ==
  ASSUME TypeInv, SearchInv, NEW u \in User, NEW b \in Body, ~References(u, b),
         UNCHANGED <<files, held, vecs, halved, raced>>,
         \A v \in User, c \in Body :
             /\ At("drop", v, c)' => At("drop", v, c) \/ (v = u /\ c = b)
             /\ At("disown", v, c)' <=> At("disown", v, c),
         wk' = wk \/ wk'.pc \notin {"possess", "attribute"}
  PROVE  SearchInv'
<1>1. DroppedIsUnreferenced'
  <2>1. \A v \in User, c \in Body : References(v, c)' <=> References(v, c)
    BY DEF References
  <2>. QED
    BY <2>1 DEF SearchInv, DroppedIsUnreferenced
<1>2. HeldHasVectors'
  BY DEF SearchInv, HeldHasVectors, TypeInv, TypeOK
<1>3. BodyHasVectors' /\ BodyIsHeld' /\ IndexedIsHeld'
  BY DEF SearchInv, BodyHasVectors, BodyIsHeld, IndexedIsHeld, Tenant
<1>. QED
  BY <1>1, <1>2, <1>3 DEF SearchInv

LEMMA SearchDropped ==
  ASSUME TypeInv, SearchInv, NEW u \in User, NEW b \in Body, At("drop", u, b),
         UNCHANGED <<files, held, halved>>, DropVectors(u, b),
         \A v \in User : raced[v] \subseteq raced'[v],
         Recording(u, b) => b \in raced'[u],
         \A v \in User, c \in Body :
             /\ At("drop", v, c)' => At("drop", v, c)
             /\ At("disown", v, c)' <=> At("disown", v, c) \/ (v = u /\ c = b),
         wk' = wk \/ wk'.pc \notin {"possess", "attribute"}
  PROVE  SearchInv'
<1>1. DroppedIsUnreferenced'
  <2>1. \A v \in User, c \in Body : References(v, c)' <=> References(v, c)
    BY DEF References
  <2>. QED
    BY <2>1 DEF SearchInv, DroppedIsUnreferenced
<1>d. \A v \in User : \A c \in vecs[v] : c \in vecs'[v] \/ (v = u /\ c = b)
  BY DEF DropVectors, TypeInv, TypeOK
<1>2. HeldHasVectors'
  <2>. SUFFICES ASSUME NEW v \in User, NEW c \in held[v]
                PROVE  c \in vecs'[v] \cup halved[v] \cup raced'[v] \/ At("disown", v, c)'
    BY DEF HeldHasVectors
  <2>1. c \in Body
    BY DEF TypeInv, TypeOK
  <2>2. c \in vecs[v] \cup halved[v] \cup raced[v] \/ At("disown", v, c)
    BY DEF SearchInv, HeldHasVectors
  <2>. QED
    BY <1>d, <2>1, <2>2
<1>3. BodyHasVectors'
  <2>. SUFFICES ASSUME wk' = wk, wk.pc = "possess"
                PROVE  wk.body \in vecs'[Tenant] \cup raced'[Tenant]
    BY DEF BodyHasVectors, Tenant
  <2>1. Tenant \in User /\ wk.body \in vecs[Tenant] \cup raced[Tenant]
    BY TenantIsUser DEF SearchInv, BodyHasVectors
  <2>2. Tenant = u /\ wk.body = b => wk.body \in raced'[Tenant]
    BY DEF Recording
  <2>. QED
    BY <1>d, <2>1, <2>2
<1>4. BodyIsHeld'
  <2>. SUFFICES ASSUME wk' = wk, wk.pc = "attribute"
                PROVE  wk.body \in held[Tenant] \cup raced'[Tenant]
    BY DEF BodyIsHeld, Tenant
  <2>. QED
    BY TenantIsUser DEF SearchInv, BodyIsHeld
<1>5. IndexedIsHeld'
  BY DEF SearchInv, IndexedIsHeld
<1>. QED
  BY <1>1, <1>2, <1>3, <1>4, <1>5 DEF SearchInv

LEMMA SearchDisowned ==
  ASSUME TypeInv, SearchInv, NEW u \in User, NEW b \in Body, At("disown", u, b),
         UNCHANGED <<files, vecs>>, Disown(u, b),
         \A v \in User, c \in Body :
             /\ At("drop", v, c)' => At("drop", v, c)
             /\ At("disown", v, c)' => At("disown", v, c)
             /\ At("disown", v, c) => At("disown", v, c)' \/ (v = u /\ c = b),
         wk' = wk \/ wk'.pc \notin {"possess", "attribute"}
  PROVE  SearchInv'
<1>r. \A v \in User, c \in Body : References(v, c)' <=> References(v, c)
  BY DEF References
<1>1. /\ b \notin held'[u]
      /\ \A v \in User : held'[v] \subseteq held[v]
      /\ \A v \in User, c \in Body :
            ~(v = u /\ c = b) => /\ c \in held[v] => c \in held'[v]
                                 /\ c \in halved[v] => c \in halved'[v]
  BY DEF Disown, TypeInv, TypeOK
<1>2. /\ \A v \in User, c \in Body :
            c \in raced[v] => c \in raced'[v] \/ (v = u /\ c = b /\ ~References(u, b))
      /\ Recording(u, b) => b \in raced'[u]
  <2>. DEFINE now == IF Recording(u, b) THEN raced[u] \cup {b}
                     ELSE IF References(u, b) THEN raced[u] ELSE raced[u] \ {b}
  <2>1. raced' = [raced EXCEPT ![u] = now]
    BY DEF Disown
  <2>2. /\ \A c \in raced[u] : c \in now \/ (c = b /\ ~References(u, b))
        /\ Recording(u, b) => b \in now
    OBVIOUS
  <2>. HIDE DEF now
  <2>. QED
    BY <2>1, <2>2 DEF TypeInv, TypeOK
<1>3. DroppedIsUnreferenced'
  <2>. SUFFICES ASSUME NEW v \in User, NEW c \in Body, References(v, c),
                       At("drop", v, c)' \/ At("disown", v, c)'
                PROVE  c \in raced'[v]
    BY <1>r DEF DroppedIsUnreferenced
  <2>1. c \in raced[v]
    BY DEF SearchInv, DroppedIsUnreferenced
  <2>. QED
    BY <1>2, <2>1
<1>4. HeldHasVectors'
  <2>. SUFFICES ASSUME NEW v \in User, NEW c \in held'[v]
                PROVE  c \in vecs[v] \cup halved'[v] \cup raced'[v] \/ At("disown", v, c)'
    BY DEF HeldHasVectors
  <2>1. c \in held[v] /\ c \in Body
    BY <1>1 DEF TypeInv, TypeOK
  <2>2. c \in vecs[v] \cup halved[v] \cup raced[v] \/ At("disown", v, c)
    BY <2>1 DEF SearchInv, HeldHasVectors
  <2>3. ~(v = u /\ c = b)
    BY <1>1
  <2>. QED
    BY <1>1, <1>2, <2>1, <2>2, <2>3
<1>5. IndexedIsHeld'
  <2>. SUFFICES ASSUME NEW v \in User, NEW k \in Key, files[v][k].state = "indexed"
                PROVE  files[v][k].sha \in held'[v] \cup raced'[v]
    BY DEF IndexedIsHeld
  <2>. DEFINE c == files[v][k].sha
  <2>1. c \in held[v] \cup raced[v] /\ References(v, c)
    BY DEF SearchInv, IndexedIsHeld, References, Live
  <2>2. c \in Body
    BY <2>1 DEF TypeInv, TypeOK
  <2>3. v = u /\ c = b => c \in raced[v]
    BY <2>1 DEF SearchInv, DroppedIsUnreferenced
  <2>. HIDE DEF c
  <2>4. c \in held'[v] \cup raced'[v]
    BY <1>1, <1>2, <2>1, <2>2, <2>3
  <2>. QED
    BY <2>4 DEF c
<1>6. BodyHasVectors'
  <2>. SUFFICES ASSUME wk' = wk, wk.pc = "possess"
                PROVE  wk.body \in vecs[Tenant] \cup raced'[Tenant]
    BY DEF BodyHasVectors, Tenant
  <2>1. /\ Tenant \in User /\ wk.body \in vecs[Tenant] \cup raced[Tenant]
        /\ wk.body \in Body
    BY TenantIsUser DEF SearchInv, BodyHasVectors, TypeInv, WorkerPlaced, FilePc
  <2>2. Tenant = u /\ wk.body = b => wk.body \in raced'[Tenant]
    BY <1>2 DEF Recording
  <2>. QED
    BY <1>2, <2>1, <2>2
<1>7. BodyIsHeld'
  <2>. SUFFICES ASSUME wk' = wk, wk.pc = "attribute"
                PROVE  wk.body \in held'[Tenant] \cup raced'[Tenant]
    BY DEF BodyIsHeld, Tenant
  <2>1. /\ Tenant \in User /\ wk.body \in held[Tenant] \cup raced[Tenant]
        /\ wk.body \in Body
    BY TenantIsUser DEF SearchInv, BodyIsHeld, TypeInv, WorkerPlaced, FilePc
  <2>2. Tenant = u /\ wk.body = b => wk.body \in raced'[Tenant]
    BY <1>2 DEF Recording
  <2>. QED
    BY <1>1, <1>2, <2>1, <2>2
<1>. QED
  BY <1>3, <1>4, <1>5, <1>6, <1>7 DEF SearchInv

LEMMA SearchReapStep ==
  ASSUME TypeInv, SearchInv, ReapStep
  PROVE  SearchInv'
<1>w. wk \in WorkerRecord /\ wk.pc # "idle"
  BY WorkerIsBusy DEF TypeInv, TypeOK
<1>u. Tenant \in User
  BY <1>w, TenantIsUser
<1>d. \A pc, u, b :
          /\ At(pc, u, b) <=>
               (wk.pc = pc /\ Tenant = u /\ wk.body = b) \/ RemoverAt(pc, u, b)
          /\ At(pc, u, b)' <=>
               (wk'.pc = pc /\ Tenant' = u /\ wk'.body = b) \/ RemoverAt(pc, u, b)
  BY WorkerIsBusy, AtWorker DEF WorkerAt
<1>1. CASE StartReap
  <2>1. wk.pc = "next" /\ wk'.pc = "reap" /\ UNCHANGED <<files, held, vecs, halved, raced>>
    BY <1>w, <1>1 DEF StartReap, WorkerRecord, index, history
  <2>. QED
    BY <2>1, SearchKeptAtRest DEF RowsFade
<1>2. CASE AnyReapRow
  <2>1. PICK x \in wk.gone : ReapRow(x)
    BY <1>2 DEF AnyReapRow
  <2>2. /\ wk.pc = "reap" /\ wk'.pc \in {"reap", "check"}
        /\ UNCHANGED <<held, vecs, halved, raced>> /\ SoftDelete(Tenant, x.key)
    BY <1>w, <2>1 DEF ReapRow, WorkerRecord, index, history
  <2>3. x.key \in Key
    BY <1>w DEF WorkerRecord
  <2>4. RowsFade
    BY <1>u, <2>2, <2>3, SoftDeleteFades
  <2>. QED
    BY <2>2, <2>4, SearchKeptAtRest
<1>3. CASE ReapCheck /\ References(Tenant, wk.body)
  <2>1. wk.pc = "check" /\ wk'.pc = "reap" /\ UNCHANGED <<files, held, vecs, halved, raced>>
    BY <1>w, <1>3 DEF ReapCheck, WorkerRecord, index, history
  <2>. QED
    BY <2>1, SearchKeptAtRest DEF RowsFade
<1>4. CASE ReapCheck /\ ~References(Tenant, wk.body)
  <2>1. /\ wk.pc = "check" /\ wk'.pc = "drop" /\ wk'.body = wk.body /\ wk'.dir = wk.dir
        /\ UNCHANGED <<files, held, vecs, halved, raced>>
    BY <1>w, <1>4 DEF ReapCheck, WorkerRecord, index, history
  <2>2. wk.body \in Body /\ Tenant' = Tenant
    BY <2>1 DEF TypeInv, WorkerPlaced, ReapPc, Tenant
  <2>. DEFINE u == Tenant  b == wk.body
  <2>3. \A v \in User, c \in Body :
             /\ At("drop", v, c)' => At("drop", v, c) \/ (v = u /\ c = b)
             /\ At("disown", v, c)' <=> At("disown", v, c)
    BY <1>d, <2>1, <2>2
  <2>. QED
    BY <1>u, <1>4, <2>1, <2>2, <2>3, SearchChecked
<1>5. CASE ReapDrop
  <2>1. /\ wk.pc = "drop" /\ wk'.pc = "disown" /\ wk'.body = wk.body /\ wk'.dir = wk.dir
        /\ UNCHANGED <<files, held, halved, raced>> /\ DropVectors(Tenant, wk.body)
    BY <1>w, <1>5, GotoFields DEF ReapDrop, WorkerPc, ReapPc, history
  <2>2. wk.body \in Body /\ Tenant' = Tenant
    BY <2>1 DEF TypeInv, WorkerPlaced, ReapPc, Tenant
  <2>. DEFINE u == Tenant  b == wk.body
  <2>3. \A v \in User, c \in Body :
             /\ At("drop", v, c)' => At("drop", v, c)
             /\ At("disown", v, c)' <=> At("disown", v, c) \/ (v = u /\ c = b)
    BY <1>d, <2>1, <2>2
  <2>4. At("drop", u, b) /\ ~Recording(u, b)
    BY <1>d, <2>1 DEF Recording
  <2>. QED
    BY <1>u, <2>1, <2>2, <2>3, <2>4, SearchDropped
<1>6. CASE ReapDisown
  <2>1. /\ wk.pc = "disown" /\ wk'.pc = "reap"
        /\ UNCHANGED <<files, vecs>> /\ Disown(Tenant, wk.body)
    BY <1>w, <1>6 DEF ReapDisown, WorkerRecord
  <2>2. wk.body \in Body
    BY <2>1 DEF TypeInv, WorkerPlaced, ReapPc
  <2>. DEFINE u == Tenant  b == wk.body
  <2>3. \A v \in User, c \in Body :
             /\ At("drop", v, c)' => At("drop", v, c)
             /\ At("disown", v, c)' => At("disown", v, c)
             /\ At("disown", v, c) => At("disown", v, c)' \/ (v = u /\ c = b)
    BY <1>d, <2>1, <2>2
  <2>4. At("disown", u, b)
    BY <1>d, <2>1
  <2>. QED
    BY <1>u, <2>1, <2>2, <2>3, <2>4, SearchDisowned
<1>7. CASE Finish
  <2>1. wk.pc = "reap" /\ wk'.pc = "idle" /\ UNCHANGED <<files, held, vecs, halved, raced>>
    BY <1>7, IdleTyped DEF Finish, Reaped, index
  <2>. QED
    BY <2>1, SearchKeptAtRest DEF RowsFade
<1>8. CASE Crash
  <2>1. wk'.pc = "idle" /\ UNCHANGED <<files, held, vecs, raced>>
    BY <1>8, IdleTyped DEF Crash, CutShort, index
  <2>2. halved' = [halved EXCEPT ![Tenant] = halved[Tenant] \cup
                    (IF wk.pc = "disown" THEN {wk.body} \cap held[Tenant] ELSE {})]
    BY <1>8 DEF Crash, CutShort
  <2>3. /\ \A u \in User : halved[u] \subseteq halved'[u]
        /\ wk.pc # "disown" \/ held[Tenant] \cap {wk.body} \subseteq halved'[Tenant]
    BY <1>u, <2>2 DEF TypeInv, TypeOK
  <2>. QED
    BY <2>1, <2>3, SearchKeptAtRest DEF RowsFade
<1>. QED
  BY <1>1, <1>2, <1>3, <1>4, <1>5, <1>6, <1>7, <1>8 DEF ReapStep

\* When a thread moves: it, and everyone else at pc.
OthersAt(r, pc, u, b) ==
    WorkerAt(pc, u, b) \/ \E q \in Remover \ {r} : IsAt(rm[q], pc, u, b)

LEMMA AtRemover ==
  ASSUME wk' = wk, rm \in [Remover -> RemoverRecord],
         NEW r \in Remover, NEW x \in RemoverRecord, Serve(r, x)
  PROVE  \A pc, u, b :
             /\ At(pc, u, b) <=> IsAt(rm[r], pc, u, b) \/ OthersAt(r, pc, u, b)
             /\ At(pc, u, b)' <=> IsAt(x, pc, u, b) \/ OthersAt(r, pc, u, b)
<1>1. /\ rm'[r] = x
      /\ \A q \in Remover \ {r} : rm'[q] = rm[q]
  BY ServeTyped
<1>. SUFFICES ASSUME NEW pc, NEW u, NEW b
              PROVE  /\ At(pc, u, b) <=> IsAt(rm[r], pc, u, b) \/ OthersAt(r, pc, u, b)
                     /\ At(pc, u, b)' <=> IsAt(x, pc, u, b) \/ OthersAt(r, pc, u, b)
  OBVIOUS
<1>2. At(pc, u, b) <=> WorkerAt(pc, u, b) \/ \E q \in Remover : IsAt(rm[q], pc, u, b)
  BY DEF At, RemoverAt
<1>3. At(pc, u, b)' <=> WorkerAt(pc, u, b) \/ \E q \in Remover : IsAt(rm'[q], pc, u, b)
  BY DEF At, RemoverAt, IsAt, WorkerAt, Tenant
<1>. QED
  BY <1>1, <1>2, <1>3 DEF OthersAt

\* A thread that stops handling what it handled, unless a fault marked it.
LEMMA SearchKeptByRemover ==
  ASSUME TypeInv, SearchInv, wk' = wk, RowsFade, UNCHANGED <<held, vecs, raced>>,
         \A u \in User : halved[u] \subseteq halved'[u],
         NEW r \in Remover, NEW x \in RemoverRecord, Serve(r, x),
         x.pc \notin {"drop", "disown"},
         rm[r].pc = "disown" => held[rm[r].user] \cap {rm[r].sha} \subseteq halved'[rm[r].user]
  PROVE  SearchInv'
<1>1. \A pc, u, b :
             /\ At(pc, u, b) <=> IsAt(rm[r], pc, u, b) \/ OthersAt(r, pc, u, b)
             /\ At(pc, u, b)' <=> IsAt(x, pc, u, b) \/ OthersAt(r, pc, u, b)
  BY AtRemover DEF TypeInv, TypeOK
<1>2. \A u, b : ~IsAt(x, "drop", u, b) /\ ~IsAt(x, "disown", u, b)
  BY DEF IsAt
<1>3. \A u, b : IsAt(rm[r], "disown", u, b) /\ b \in held[u] => b \in halved'[u]
  BY DEF IsAt
<1>4. \A u \in User, b \in Body :
             /\ At("drop", u, b)' => At("drop", u, b)
             /\ At("disown", u, b)' => At("drop", u, b) \/ At("disown", u, b)
             /\ At("disown", u, b) /\ b \in held[u] =>
                    At("disown", u, b)' \/ b \in halved'[u]
  BY <1>1, <1>2, <1>3
<1>5. BodyHasVectors' /\ BodyIsHeld'
  BY DEF SearchInv, BodyHasVectors, BodyIsHeld, Tenant
<1>6. ContentStays
  BY DEF ContentStays
<1>. QED
  BY <1>4, <1>5, <1>6, SearchKept

LEMMA SearchRemoverStep ==
  ASSUME TypeInv, SearchInv, NEW r \in Remover, RemoverStep(r)
  PROVE  SearchInv'
<1>a. wk' = wk
  BY RemoverLeavesContent
<1>b. rm \in [Remover -> RemoverRecord] /\ rm[r] \in RemoverRecord
  BY DEF TypeInv, TypeOK
<1>c. \A pc \in ReapPc :
          /\ [rm[r] EXCEPT !.pc = pc] \in RemoverRecord
          /\ [rm[r] EXCEPT !.pc = pc].pc = pc
          /\ [rm[r] EXCEPT !.pc = pc].user = rm[r].user
          /\ [rm[r] EXCEPT !.pc = pc].sha = rm[r].sha
  BY <1>b DEF RemoverRecord, RemovalPc
<1>1. CASE \E u \in User, k \in Key : BeginRemoval(r, u, k)
  <2>1. PICK u \in User, k \in Key : BeginRemoval(r, u, k)
    BY <1>1
  <2>. DEFINE x == [pc |-> "delete", user |-> u, key |-> k, sha |-> files[u][k].sha]
  <2>2. files[u][k].sha \in MaybeBody
    BY DEF TypeInv, TypeOK, Row
  <2>3. x \in RemoverRecord /\ x.pc = "delete"
    BY <2>2 DEF RemoverRecord, RemovalPc
  <2>4. Serve(r, x) /\ UNCHANGED <<files, held, vecs, halved, raced>> /\ rm[r].pc = "idle"
    BY <2>1 DEF BeginRemoval, index, history
  <2>. HIDE DEF x
  <2>. QED
    BY <1>a, <2>3, <2>4, SearchKeptByRemover DEF RowsFade
<1>2. CASE RemoveRow(r)
  <2>. DEFINE x == IF rm[r].sha = None THEN Served ELSE [rm[r] EXCEPT !.pc = "check"]
  <2>1. x \in RemoverRecord /\ x.pc \in {"served", "check"}
    BY <1>c, IdleTyped DEF ReapPc
  <2>2. /\ Serve(r, x) /\ UNCHANGED <<held, vecs, halved, raced>> /\ rm[r].pc = "delete"
        /\ SoftDelete(rm[r].user, rm[r].key)
    BY <1>2 DEF RemoveRow, index
  <2>3. RowsFade
    BY <2>2, SoftDeleteFades DEF TypeInv, RemoversPlaced, RemovalPc
  <2>. HIDE DEF x
  <2>. QED
    BY <1>a, <2>1, <2>2, <2>3, SearchKeptByRemover
<1>3. CASE RemovalCheck(r) /\ References(rm[r].user, rm[r].sha)
  <2>1. /\ Serve(r, Served) /\ UNCHANGED <<files, held, vecs, halved, raced>>
        /\ rm[r].pc = "check"
    BY <1>3 DEF RemovalCheck, index, history
  <2>. QED
    BY <1>a, <2>1, IdleTyped, SearchKeptByRemover DEF RowsFade
<1>4. CASE RemovalCheck(r) /\ ~References(rm[r].user, rm[r].sha)
  <2>. DEFINE x == [rm[r] EXCEPT !.pc = "drop"]
              u == rm[r].user  b == rm[r].sha
  <2>1. Serve(r, x) /\ UNCHANGED <<files, held, vecs, halved, raced>> /\ rm[r].pc = "check"
    BY <1>4 DEF RemovalCheck, index, history
  <2>2. x \in RemoverRecord /\ x.pc = "drop" /\ x.user = u /\ x.sha = b
    BY <1>c DEF ReapPc
  <2>3. u \in User /\ b \in Body
    BY <2>1 DEF TypeInv, RemoversPlaced, RemovalPc, ReapPc
  <2>. HIDE DEF x
  <2>4. \A pc, v, c :
             /\ At(pc, v, c) <=> IsAt(rm[r], pc, v, c) \/ OthersAt(r, pc, v, c)
             /\ At(pc, v, c)' <=> IsAt(x, pc, v, c) \/ OthersAt(r, pc, v, c)
    BY <1>a, <1>b, <2>1, <2>2, AtRemover
  <2>5. \A v \in User, c \in Body :
             /\ At("drop", v, c)' => At("drop", v, c) \/ (v = u /\ c = b)
             /\ At("disown", v, c)' <=> At("disown", v, c)
    BY <2>1, <2>2, <2>4 DEF IsAt
  <2>. HIDE DEF u, b
  <2>. QED
    BY <1>a, <1>4, <2>1, <2>3, <2>5, SearchChecked DEF u, b
<1>5. CASE RemovalDrop(r)
  <2>. DEFINE x == [rm[r] EXCEPT !.pc = "disown"]
              u == rm[r].user  b == rm[r].sha
              bs == {c \in {b} : Recording(u, c)}
  <2>1. /\ Serve(r, x) /\ UNCHANGED <<files, held, halved>> /\ rm[r].pc = "drop"
        /\ DropVectors(u, b) /\ raced' = [raced EXCEPT ![u] = raced[u] \cup bs]
    BY <1>5 DEF RemovalDrop, Race
  <2>2. x \in RemoverRecord /\ x.pc = "disown" /\ x.user = u /\ x.sha = b
    BY <1>c DEF ReapPc
  <2>3. u \in User /\ b \in Body
    BY <2>1 DEF TypeInv, RemoversPlaced, RemovalPc, ReapPc
  <2>. HIDE DEF x
  <2>4. \A pc, v, c :
             /\ At(pc, v, c) <=> IsAt(rm[r], pc, v, c) \/ OthersAt(r, pc, v, c)
             /\ At(pc, v, c)' <=> IsAt(x, pc, v, c) \/ OthersAt(r, pc, v, c)
    BY <1>a, <1>b, <2>1, <2>2, AtRemover
  <2>5. /\ At("drop", u, b)
        /\ \A v \in User, c \in Body :
             /\ At("drop", v, c)' => At("drop", v, c)
             /\ At("disown", v, c)' <=> At("disown", v, c) \/ (v = u /\ c = b)
    BY <2>1, <2>2, <2>4 DEF IsAt
  <2>6. Recording(u, b) => b \in bs
    OBVIOUS
  <2>. HIDE DEF bs
  <2>7. /\ \A v \in User : raced[v] \subseteq raced'[v]
        /\ Recording(u, b) => b \in raced'[u]
    BY <2>1, <2>3, <2>6 DEF TypeInv, TypeOK
  <2>. HIDE DEF u, b
  <2>. QED
    BY <1>a, <2>1, <2>3, <2>5, <2>7, SearchDropped
<1>6. CASE RemovalDisown(r)
  <2>. DEFINE u == rm[r].user  b == rm[r].sha
  <2>1. /\ Serve(r, Served) /\ UNCHANGED <<files, vecs>> /\ rm[r].pc = "disown"
        /\ Disown(u, b)
    BY <1>6 DEF RemovalDisown
  <2>2. u \in User /\ b \in Body
    BY <2>1 DEF TypeInv, RemoversPlaced, RemovalPc, ReapPc
  <2>3. \A pc, v, c :
             /\ At(pc, v, c) <=> IsAt(rm[r], pc, v, c) \/ OthersAt(r, pc, v, c)
             /\ At(pc, v, c)' <=> IsAt(Served, pc, v, c) \/ OthersAt(r, pc, v, c)
    BY <1>a, <1>b, <2>1, IdleTyped, AtRemover
  <2>4. /\ At("disown", u, b)
        /\ \A v \in User, c \in Body :
             /\ At("drop", v, c)' => At("drop", v, c)
             /\ At("disown", v, c)' => At("disown", v, c)
             /\ At("disown", v, c) => At("disown", v, c)' \/ (v = u /\ c = b)
    BY <2>1, <2>3, IdleTyped DEF IsAt
  <2>. HIDE DEF u, b
  <2>. QED
    BY <1>a, <2>1, <2>2, <2>4, SearchDisowned
<1>7. CASE RemovalFails(r)
  <2>1. Serve(r, Served) /\ UNCHANGED <<files, held, vecs, raced>> /\ rm[r].pc \in RemovalPc
    BY <1>7 DEF RemovalFails, CutShort, index
  <2>2. halved' = [halved EXCEPT ![rm[r].user] = halved[rm[r].user] \cup
                    (IF rm[r].pc = "disown" THEN {rm[r].sha} \cap held[rm[r].user] ELSE {})]
    BY <1>7 DEF RemovalFails, CutShort
  <2>3. rm[r].user \in User
    BY <2>1 DEF TypeInv, RemoversPlaced
  <2>4. /\ \A u \in User : halved[u] \subseteq halved'[u]
        /\ rm[r].pc = "disown" =>
             held[rm[r].user] \cap {rm[r].sha} \subseteq halved'[rm[r].user]
    BY <2>2, <2>3 DEF TypeInv, TypeOK
  <2>. QED
    BY <1>a, <2>1, <2>4, IdleTyped, SearchKeptByRemover DEF RowsFade
<1>. QED
  BY <1>1, <1>2, <1>3, <1>4, <1>5, <1>6, <1>7 DEF RemoverStep

LEMMA SearchStep == TypeInv /\ SearchInv /\ [Next]_vars => SearchInv'
<1>. SUFFICES ASSUME TypeInv, SearchInv, [Next]_vars PROVE SearchInv'
  OBVIOUS
<1>1. CASE UNCHANGED vars \/ SourceStep \/ AnyStart
  <2>1. UNCHANGED <<files, held, vecs, halved, raced, rm>>
    <3>1. CASE UNCHANGED vars
      BY <3>1 DEF vars
    <3>2. CASE SourceStep
      BY <3>2 DEF SourceStep, Put, Delete, index, history
    <3>3. CASE AnyStart
      BY <3>3 DEF AnyStart, StartSync, index, history
    <3>. QED
      BY <1>1, <3>1, <3>2, <3>3
  <2>2. wk' = wk \/ (wk.pc = "idle" /\ wk'.pc = "next")
    <3>1. CASE AnyStart
      BY <3>1 DEF AnyStart, StartSync, IdleWorker
    <3>. QED
      BY <1>1, <3>1 DEF vars, SourceStep, Put, Delete
  <2>3. \A u, b : /\ At("drop", u, b)' <=> At("drop", u, b)
                  /\ At("disown", u, b)' <=> At("disown", u, b)
    BY <2>1, <2>2 DEF At, WorkerAt, RemoverAt, IsAt, Tenant
  <2>4. BodyHasVectors' /\ BodyIsHeld'
    BY <2>1, <2>2 DEF SearchInv, BodyHasVectors, BodyIsHeld, Tenant
  <2>5. RowsFade /\ ContentStays
    BY <2>1 DEF RowsFade, ContentStays
  <2>6. \A u \in User, b \in Body :
             /\ At("drop", u, b)' => At("drop", u, b)
             /\ At("disown", u, b)' => At("drop", u, b) \/ At("disown", u, b)
             /\ At("disown", u, b) /\ b \in held[u] =>
                    At("disown", u, b)' \/ b \in halved'[u]
    BY <2>3
  <2>. QED
    BY <2>4, <2>5, <2>6, SearchKept
<1>2. CASE FileStep
  BY <1>2, SearchFileStep
<1>3. CASE ReapStep
  BY <1>3, SearchReapStep
<1>4. CASE \E r \in Remover : RemoverStep(r)
  BY <1>4, SearchRemoverStep
<1>. QED
  BY <1>1, <1>2, <1>3, <1>4, WorkerSteps DEF Next

LEMMA SearchHolds == Spec => [](TypeInv /\ TextInv /\ SearchInv)
<1>1. Spec => []TextInv
  BY TextInit, TextStep, Placed, PTL DEF Spec
<1>2. Spec => []SearchInv
  BY SearchInit, SearchStep, Placed, PTL DEF Spec
<1>. QED
  BY <1>1, <1>2, Placed, PTL

\* A file listed as indexed can be found: its content is held, with its vectors
\* and chunks, however syncs, removals, edits and faults are interleaved, except
\* where a sync recorded the content while a removal was dropping it (raced) or a
\* fault cut a removal in two (halved).
THEOREM IndexedFilesAreFound == Spec => []IndexedIsSearchable
BY SearchHolds, SearchSuffices, PTL

-----------------------------------------------------------------------------
(* Possession is accounted for.                                            *)

Reaping == wk.pc \in {"reap"} \cup ReapPc

\* What a reap remembers of a row is what the row still names: removals hide rows
\* and rewrite none. (What a removal remembers may have been rewritten: see lost.)
ReapsKnowTheirRows ==
    Reaping => \A x \in wk.gone : files[Tenant][x.key].sha = x.sha

AccountInv == ReapsKnowTheirRows /\ PossessionIsAccounted

LEMMA AccountInit == Init => AccountInv
<1>. SUFFICES ASSUME Init PROVE AccountInv
  OBVIOUS
<1>1. wk.pc = "idle"
  BY IdleTyped DEF Init
<1>2. PossessionIsAccounted
  BY DEF Init, PossessionIsAccounted
<1>. QED
  BY <1>1, <1>2 DEF AccountInv, ReapsKnowTheirRows, Reaping, ReapPc

\* A soft delete hides one row; what the row names is still written in it.
LEMMA SoftDeleteHides ==
  ASSUME TypeInv, NEW v \in User, NEW j \in Key, SoftDelete(v, j)
  PROVE  /\ \A u \in User, k \in Key :
                /\ files'[u][k].sha = files[u][k].sha
                /\ files'[u][k].dir = files[u][k].dir
                /\ files'[u][k].ver = files[u][k].ver
                /\ ~(u = v /\ k = j) => files'[u][k] = files[u][k]
                /\ Live(files'[u][k]) => Live(files[u][k])
         /\ ~Live(files'[v][j])
         /\ \A u \in User, b \in Body :
                References(u, b) =>
                    \/ References(u, b)'
                    \/ u = v /\ Live(files[v][j]) /\ files[v][j].sha = b
<1>. DEFINE row == files[v][j]
            state == IF Live(row) THEN "deleted" ELSE row.state
            new == [row EXCEPT !.state = state]
<1>1. row \in Row /\ files \in [User -> [Key -> Row]]
  BY DEF TypeInv, TypeOK
<1>2. state \notin {"indexed", "failed"}
  BY DEF Live
<1>3. new.state = state /\ new.sha = row.sha /\ new.dir = row.dir /\ new.ver = row.ver
  <2>. HIDE DEF row, state
  <2>. QED  BY <1>1 DEF Row
<1>4. files' = [files EXCEPT ![v][j] = new]
  BY DEF SoftDelete
<1>5. \A u \in User, k \in Key :
          files'[u][k] = IF u = v /\ k = j THEN new ELSE files[u][k]
  <2>. HIDE DEF new
  <2>. QED  BY <1>1, <1>4
<1>6. ~Live(new)
  BY <1>2, <1>3 DEF Live
<1>7. new.sha = files[v][j].sha /\ new.dir = files[v][j].dir /\ new.ver = files[v][j].ver
  BY <1>3
<1>. HIDE DEF row, state, new
<1>8. \A u \in User, k \in Key :
                /\ files'[u][k].sha = files[u][k].sha
                /\ files'[u][k].dir = files[u][k].dir
                /\ files'[u][k].ver = files[u][k].ver
                /\ ~(u = v /\ k = j) => files'[u][k] = files[u][k]
                /\ Live(files'[u][k]) => Live(files[u][k])
  BY <1>5, <1>6, <1>7
<1>9. ~Live(files'[v][j])
  BY <1>5, <1>6
<1>10. ASSUME NEW u \in User, NEW b \in Body, References(u, b)
       PROVE  References(u, b)' \/ (u = v /\ Live(files[v][j]) /\ files[v][j].sha = b)
  <2>1. PICK k \in Key : Live(files[u][k]) /\ files[u][k].sha = b
    BY <1>10 DEF References
  <2>2. CASE u = v /\ k = j
    BY <2>1, <2>2
  <2>3. CASE ~(u = v /\ k = j)
    BY <1>5, <2>1, <2>3 DEF References
  <2>. QED
    BY <2>2, <2>3
<1>. QED
  BY <1>8, <1>9, <1>10

\* A row that upsert_file replaces names what is lost, unless another row, or
\* the new one, names it as well.
LEMMA UpsertAccounts ==
  ASSUME TypeInv, wk.dir \in Directory, wk.todo # {},
         NEW state \in {"indexed", "failed"}, NEW sha, NEW ver, Upsert(state, sha, ver)
  PROVE  /\ \A u \in User : lost[u] \subseteq lost'[u]
         /\ \A u \in User, b \in Body :
                b \in held[u] /\ References(u, b) => References(u, b)' \/ b \in lost'[u]
         /\ \A u \in User, b \in Body : u = Tenant /\ b = sha => References(u, b)'
         /\ state = "failed" => held[Tenant] \cap {wk.body} \subseteq lost'[Tenant]
<1>. DEFINE old == files[Tenant][Current]
            new == [state |-> state, sha |-> sha, ver |-> ver, dir |-> wk.dir]
            let == {b \in {wk.body} : state = "failed"} \cup
                   {b \in {old.sha} : Live(old) /\ b # sha}
<1>1. Tenant \in User /\ Current \in Key
  BY OwnerAssumption, CurrentIsListed DEF Tenant, TypeInv, TypeOK, WorkerRecord
<1>2. files' = [files EXCEPT ![Tenant][Current] = new]
        /\ lost' = [lost EXCEPT ![Tenant] = lost[Tenant] \cup (let \cap held[Tenant])]
  BY DEF Upsert, Forsake
<1>3. new.sha = sha /\ Live(new)
  BY DEF Live
<1>4. wk.body \in let \/ state # "failed"
  OBVIOUS
<1>5. \A b : Live(files[Tenant][Current]) /\ files[Tenant][Current].sha = b /\ b # sha
               => b \in let
  OBVIOUS
<1>. HIDE DEF new, let, old
<1>6. \A u \in User, k \in Key :
          files'[u][k] = IF u = Tenant /\ k = Current THEN new ELSE files[u][k]
  BY <1>2 DEF TypeInv, TypeOK
<1>7. \A u \in User :
          lost'[u] = IF u = Tenant THEN lost[u] \cup (let \cap held[u]) ELSE lost[u]
  BY <1>2 DEF TypeInv, TypeOK
<1>8. ASSUME NEW u \in User, NEW b \in Body, b \in held[u], References(u, b)
      PROVE  References(u, b)' \/ b \in lost'[u]
  <2>1. PICK k \in Key : Live(files[u][k]) /\ files[u][k].sha = b
    BY <1>8 DEF References
  <2>2. CASE ~(u = Tenant /\ k = Current)
    BY <1>6, <2>1, <2>2 DEF References
  <2>3. CASE u = Tenant /\ k = Current /\ b = sha
    BY <1>1, <1>3, <1>6, <2>3 DEF References
  <2>4. CASE u = Tenant /\ k = Current /\ b # sha
    BY <1>5, <1>7, <1>8, <2>1, <2>4
  <2>. QED
    BY <2>2, <2>3, <2>4
<1>9. ASSUME NEW u \in User, NEW b \in Body, u = Tenant, b = sha
      PROVE  References(u, b)'
  <2>1. Live(files'[Tenant][Current]) /\ files'[Tenant][Current].sha = sha
    BY <1>1, <1>3, <1>6
  <2>. QED
    BY <1>1, <1>9, <2>1 DEF References
<1>. QED
  BY <1>1, <1>4, <1>7, <1>8, <1>9

\* The worker stays with its run, and is not reaping, while there are files.
LEMMA FileStepGoes ==
  ASSUME TypeInv, FileStep
  PROVE  ~Reaping' /\ wk'.dir = wk.dir /\ wk'.listing = wk.listing
<1>w. wk \in WorkerRecord
  BY DEF TypeInv, TypeOK
<1>1. CASE SkipUnchanged \/ CountFile \/ FetchFails \/ ExtractFails \/ ProcessRaises
  <2>1. \E ok \in BOOLEAN : Settle(ok)
    BY <1>1 DEF SkipUnchanged, CountFile, FetchFails, ExtractFails, ProcessRaises, FailFile
  <2>. QED
    BY <1>w, <2>1, SettleFields DEF Reaping, ReapPc
<1>2. CASE Fetch
  BY <1>w, <1>2 DEF Fetch, WorkerRecord, Reaping, ReapPc
<1>3. CASE \/ ReuseText \/ Rechunk \/ Extract \/ ReplaceChunks \/ CheckPossession
           \/ Embed \/ PutCachedVectors \/ IndexBlob \/ AddUserBlob \/ Attribute
  <2>1. \E pc \in FilePc : Goto(pc)
    <3>1. CASE CheckPossession
      BY <3>1 DEF CheckPossession, FilePc
    <3>2. CASE Embed
      BY <3>2 DEF Embed, FilePc
    <3>. QED
      BY <1>3, <3>1, <3>2
      DEF ReuseText, Rechunk, Extract, ReplaceChunks, PutCachedVectors, IndexBlob,
          AddUserBlob, Attribute, FilePc
  <2>2. wk'.pc \in FilePc /\ wk'.dir = wk.dir /\ wk'.listing = wk.listing
    BY <1>w, <2>1, GotoFields DEF WorkerPc
  <2>. QED
    BY <2>2 DEF Reaping, ReapPc, FilePc
<1>. QED
  BY <1>1, <1>2, <1>3 DEF FileStep

\* The worker moves, and the hands of the removals are where they were.
Handles(x, u, b) == x.pc \in ReapPc /\ x.user = u /\ x.sha = b
RemoversHandle(u, b) == \E r \in Remover : Handles(rm[r], u, b)
WorkerHandles(u, b) ==
    wk.pc \in ReapPc \cup {"attribute"} /\ Tenant = u /\ wk.body = b

LEMMA HandledByWorker ==
  ASSUME rm' = rm
  PROVE  \A u, b :
             /\ Handled(u, b) <=> WorkerHandles(u, b) \/ RemoversHandle(u, b)
             /\ Handled(u, b)' <=> WorkerHandles(u, b)' \/ RemoversHandle(u, b)
BY DEF Handled, WorkerHandles, RemoversHandle, Handles

LEMMA AccountFileStep ==
  ASSUME TypeInv, AccountInv, FileStep
  PROVE  PossessionIsAccounted'
<1>w. wk \in WorkerRecord /\ wk.pc # "idle"
  BY WorkerIsBusy DEF TypeInv, TypeOK
<1>u. Tenant \in User
  BY <1>w, TenantIsUser
<1>h. \A u, b :
             /\ Handled(u, b) <=> WorkerHandles(u, b) \/ RemoversHandle(u, b)
             /\ Handled(u, b)' <=> WorkerHandles(u, b)' \/ RemoversHandle(u, b)
  BY WorkerIsBusy, HandledByWorker
<1>0. ASSUME UNCHANGED <<files, held, lost>>, wk.pc \notin ReapPc \cup {"attribute"}
      PROVE  PossessionIsAccounted'
  <2>1. \A u, b : /\ Handled(u, b) => Handled(u, b)'
                  /\ References(u, b)' <=> References(u, b)
    BY <1>h, <1>0 DEF References, WorkerHandles
  <2>. QED
    BY <1>0, <2>1 DEF AccountInv, PossessionIsAccounted
<1>1. CASE SkipUnchanged \/ CountFile \/ Fetch
  BY <1>0, <1>1 DEF SkipUnchanged, CountFile, Fetch, AtFile, ReapPc, index, history
<1>2. CASE ReuseText \/ Rechunk \/ Extract \/ ReplaceChunks \/ CheckPossession
  BY <1>0, <1>2
  DEF ReuseText, Rechunk, Extract, ReplaceChunks, CheckPossession, ReapPc, index, history
<1>3. CASE Embed \/ PutCachedVectors \/ IndexBlob
  BY <1>0, <1>3 DEF Embed, PutCachedVectors, IndexBlob, ReapPc, index, history
<1>4. CASE AddUserBlob
  <2>1. /\ wk.pc = "possess" /\ wk'.pc = "attribute"
        /\ wk'.body = wk.body /\ wk'.dir = wk.dir
    BY <1>w, <1>4, GotoFields DEF AddUserBlob, WorkerPc, FilePc
  <2>2. /\ UNCHANGED <<files, lost>>
        /\ held' = [held EXCEPT ![Tenant] = held[Tenant] \cup {wk.body}]
    BY <1>4 DEF AddUserBlob, history
  <2>3. \A u \in User : \A b \in held'[u] : b \in held[u] \/ (u = Tenant /\ b = wk.body)
    BY <2>2 DEF TypeInv, TypeOK
  <2>4. \A u, b : /\ References(u, b)' <=> References(u, b)
                  /\ Handled(u, b) => Handled(u, b)'
                  /\ Tenant = u /\ wk.body = b => Handled(u, b)'
    BY <1>h, <2>1, <2>2 DEF References, Tenant, WorkerHandles, ReapPc
  <2>. QED
    BY <2>2, <2>3, <2>4 DEF AccountInv, PossessionIsAccounted
<1>5. CASE FetchFails \/ ExtractFails \/ ProcessRaises
  <2>1. /\ FailFile /\ wk.dir \in Directory /\ wk.todo # {}
        /\ wk.pc \in {"next"} \cup FilePc
    BY <1>5 DEF FetchFails, ExtractFails, ProcessRaises, AtFile, TypeInv, WorkerPlaced, FilePc
  <2>2. Upsert("failed", None, wk.listing[Current]) /\ held' = held
    BY <2>1 DEF FailFile, index
  <2>3. /\ \A u \in User : lost[u] \subseteq lost'[u]
        /\ \A u \in User, b \in Body :
                b \in held[u] /\ References(u, b) => References(u, b)' \/ b \in lost'[u]
        /\ held[Tenant] \cap {wk.body} \subseteq lost'[Tenant]
    BY <2>1, <2>2, UpsertAccounts
  <2>4. \A u \in User : held[u] \subseteq Body
    BY DEF TypeInv, TypeOK
  <2>5. \A u, b : Handled(u, b) => Handled(u, b)' \/ (Tenant = u /\ wk.body = b)
    BY <1>h DEF WorkerHandles
  <2>. QED
    BY <2>2, <2>3, <2>4, <2>5 DEF AccountInv, PossessionIsAccounted
<1>6. CASE Attribute
  <2>1. /\ wk.pc = "attribute" /\ wk.dir \in Directory /\ wk.todo # {} /\ wk.body \in Body
        /\ Upsert("indexed", wk.body, wk.listing[Current]) /\ held' = held
    BY <1>6 DEF Attribute, index, TypeInv, WorkerPlaced, FilePc
  <2>2. /\ \A u \in User : lost[u] \subseteq lost'[u]
        /\ \A u \in User, b \in Body :
                b \in held[u] /\ References(u, b) => References(u, b)' \/ b \in lost'[u]
        /\ \A u \in User, b \in Body : u = Tenant /\ b = wk.body => References(u, b)'
    BY <2>1, UpsertAccounts
  <2>4. \A u \in User : held[u] \subseteq Body
    BY DEF TypeInv, TypeOK
  <2>5. \A u, b : Handled(u, b) => Handled(u, b)' \/ (Tenant = u /\ wk.body = b)
    BY <1>h DEF WorkerHandles
  <2>. QED
    BY <2>1, <2>2, <2>4, <2>5 DEF AccountInv, PossessionIsAccounted
<1>. QED
  BY <1>1, <1>2, <1>3, <1>4, <1>5, <1>6 DEF FileStep

\* The steps of a run between files, as far as rows and reaps are concerned.
LEMMA ReapStepKnows ==
  ASSUME TypeInv, AccountInv, ReapStep
  PROVE  ReapsKnowTheirRows'
<1>w. wk \in WorkerRecord /\ wk.pc # "idle" /\ Tenant \in User
  BY WorkerIsBusy, TenantIsUser DEF TypeInv, TypeOK
<1>1. CASE StartReap
  <2>. DEFINE rows == {k \in Key : Live(files[Tenant][k]) /\ files[Tenant][k].dir = wk.dir}
              absent == {k \in rows : wk.listing[k] = 0}
              gone == {[key |-> k, sha |-> files[Tenant][k].sha] : k \in absent}
  <2>1. wk' = [wk EXCEPT !.pc = "reap", !.gone = gone] /\ files' = files
    BY <1>1 DEF StartReap
  <2>2. \A x \in gone : files[Tenant][x.key].sha = x.sha
    OBVIOUS
  <2>. HIDE DEF gone
  <2>3. wk'.gone = gone /\ wk'.dir = wk.dir
    BY <1>w, <2>1 DEF WorkerRecord
  <2>. QED
    BY <2>1, <2>2, <2>3 DEF ReapsKnowTheirRows, Tenant
<1>2. CASE AnyReapRow
  <2>1. PICK x \in wk.gone : ReapRow(x)
    BY <1>2 DEF AnyReapRow
  <2>2. /\ wk.pc = "reap" /\ wk'.gone = wk.gone \ {x} /\ wk'.dir = wk.dir
        /\ SoftDelete(Tenant, x.key)
    BY <1>w, <2>1 DEF ReapRow, WorkerRecord
  <2>3. \A y \in wk.gone : y.key \in Key
    BY <1>w DEF WorkerRecord
  <2>4. \A u \in User, k \in Key : files'[u][k].sha = files[u][k].sha
    BY <1>w, <2>2, <2>3, SoftDeleteHides
  <2>. QED
    BY <1>w, <2>2, <2>3, <2>4 DEF AccountInv, ReapsKnowTheirRows, Reaping, Tenant
<1>3. CASE ReapCheck \/ ReapDrop \/ ReapDisown
  <2>1. UNCHANGED files /\ wk'.gone = wk.gone /\ wk'.dir = wk.dir /\ Reaping
    <3>1. CASE ReapCheck
      BY <1>w, <3>1 DEF ReapCheck, WorkerRecord, Reaping, ReapPc
    <3>2. CASE ReapDrop
      BY <1>w, <3>2, GotoFields DEF ReapDrop, WorkerPc, Reaping, ReapPc
    <3>3. CASE ReapDisown
      BY <1>w, <3>3 DEF ReapDisown, WorkerRecord, Reaping, ReapPc
    <3>. QED
      BY <1>3, <3>1, <3>2, <3>3
  <2>. QED
    BY <2>1 DEF AccountInv, ReapsKnowTheirRows, Tenant
<1>4. CASE Finish \/ Crash
  BY <1>4, IdleTyped DEF Finish, Crash, ReapsKnowTheirRows, Reaping, ReapPc
<1>. QED
  BY <1>1, <1>2, <1>3, <1>4 DEF ReapStep

\* A hand lets go of content that is no longer held, by whomever it is disowned.
LEMMA DisownAccounts ==
  ASSUME TypeInv, PossessionIsAccounted, NEW u \in User, NEW b \in Body, Disown(u, b),
         UNCHANGED files,
         \A v, c : Handled(v, c) => Handled(v, c)' \/ (v = u /\ c = b)
  PROVE  PossessionIsAccounted'
<1>1. /\ b \notin held'[u]
      /\ \A v \in User : \A c \in held'[v] :
            c \in held[v] /\ (c \in lost[v] => c \in lost'[v] \/ (v = u /\ c = b))
  BY DEF Disown, TypeInv, TypeOK
<1>2. \A v, c : References(v, c)' <=> References(v, c)
  BY DEF References
<1>. QED
  BY <1>1, <1>2 DEF PossessionIsAccounted

\* A fault notes what it lets go of.
LEMMA CutShortAccounts ==
  ASSUME TypeInv, PossessionIsAccounted, NEW u \in User, NEW b, NEW pc, CutShort(u, b, pc),
         UNCHANGED <<files, held>>,
         \A v, c : Handled(v, c) => Handled(v, c)' \/ (v = u /\ c = b)
  PROVE  PossessionIsAccounted'
<1>1. \A v \in User : \A c \in held[v] :
          (c \in lost[v] \/ (v = u /\ c = b)) => c \in lost'[v]
  BY DEF CutShort, Forsake, TypeInv, TypeOK
<1>2. \A v, c : References(v, c)' <=> References(v, c)
  BY DEF References
<1>. QED
  BY <1>1, <1>2 DEF PossessionIsAccounted

LEMMA AccountReapStep ==
  ASSUME TypeInv, AccountInv, ReapStep
  PROVE  PossessionIsAccounted'
<1>w. wk \in WorkerRecord /\ wk.pc # "idle" /\ Tenant \in User
  BY WorkerIsBusy, TenantIsUser DEF TypeInv, TypeOK
<1>h. \A u, b :
             /\ Handled(u, b) <=> WorkerHandles(u, b) \/ RemoversHandle(u, b)
             /\ Handled(u, b)' <=> WorkerHandles(u, b)' \/ RemoversHandle(u, b)
  BY WorkerIsBusy, HandledByWorker
<1>b. \A u \in User : held[u] \subseteq Body
  BY DEF TypeInv, TypeOK
<1>p. PossessionIsAccounted
  BY DEF AccountInv
<1>1. CASE StartReap \/ Finish
  <2>1. UNCHANGED <<files, held, lost>> /\ wk.pc \in {"next", "reap"}
    BY <1>1 DEF StartReap, Finish, Reaped, index, history
  <2>2. \A u, b : /\ Handled(u, b) => Handled(u, b)'
                  /\ References(u, b)' <=> References(u, b)
    BY <1>h, <2>1 DEF References, WorkerHandles, ReapPc
  <2>. QED
    BY <1>p, <2>1, <2>2 DEF PossessionIsAccounted
<1>2. CASE AnyReapRow
  <2>1. PICK x \in wk.gone : ReapRow(x)
    BY <1>2 DEF AnyReapRow
  <2>2. /\ wk.pc = "reap" /\ wk'.body = x.sha /\ wk'.dir = wk.dir
        /\ x.sha # None => wk'.pc = "check"
        /\ SoftDelete(Tenant, x.key) /\ UNCHANGED <<held, lost>>
    BY <1>w, <2>1 DEF ReapRow, WorkerRecord, index, history
  <2>3. x.key \in Key /\ files[Tenant][x.key].sha = x.sha
    BY <1>w, <2>2 DEF WorkerRecord, AccountInv, ReapsKnowTheirRows, Reaping
  <2>4. \A u \in User, b \in Body :
            References(u, b) => References(u, b)' \/ (u = Tenant /\ x.sha = b)
    BY <1>w, <2>2, <2>3, SoftDeleteHides
  <2>5. \A u, b : /\ Handled(u, b) => Handled(u, b)'
                  /\ Tenant = u /\ x.sha = b /\ b # None => Handled(u, b)'
    BY <1>h, <2>2 DEF WorkerHandles, Tenant, ReapPc
  <2>. QED
    BY <1>b, <1>p, <2>2, <2>4, <2>5, NoneAssumption DEF PossessionIsAccounted
<1>3. CASE ReapCheck
  <2>1. UNCHANGED <<files, held, lost>> /\ wk.pc = "check" /\ wk'.dir = wk.dir
    BY <1>w, <1>3 DEF ReapCheck, WorkerRecord, index, history
  <2>2. References(Tenant, wk.body) \/ (wk'.pc = "drop" /\ wk'.body = wk.body)
    BY <1>w, <1>3 DEF ReapCheck, WorkerRecord
  <2>3. \A u, b : Handled(u, b) => References(u, b) \/ Handled(u, b)'
    BY <1>h, <2>1, <2>2 DEF WorkerHandles, Tenant, ReapPc
  <2>4. \A u, b : References(u, b)' <=> References(u, b)
    BY <2>1 DEF References
  <2>. QED
    BY <1>p, <2>1, <2>3, <2>4 DEF PossessionIsAccounted
<1>4. CASE ReapDrop
  <2>1. /\ UNCHANGED <<files, held, lost>> /\ wk'.pc = "disown"
        /\ wk'.dir = wk.dir /\ wk'.body = wk.body
    BY <1>w, <1>4, GotoFields DEF ReapDrop, WorkerPc, ReapPc, history
  <2>2. \A u, b : Handled(u, b) => Handled(u, b)'
    BY <1>h, <2>1 DEF WorkerHandles, Tenant, ReapPc
  <2>3. \A u, b : References(u, b)' <=> References(u, b)
    BY <2>1 DEF References
  <2>. QED
    BY <1>p, <2>1, <2>2, <2>3 DEF PossessionIsAccounted
<1>5. CASE ReapDisown
  <2>1. UNCHANGED files /\ Disown(Tenant, wk.body) /\ wk.body \in Body
    BY <1>5 DEF ReapDisown, TypeInv, WorkerPlaced, ReapPc
  <2>2. \A u, b : Handled(u, b) => Handled(u, b)' \/ (u = Tenant /\ b = wk.body)
    BY <1>h DEF WorkerHandles
  <2>. QED
    BY <1>p, <1>w, <2>1, <2>2, DisownAccounts
<1>6. CASE Crash
  <2>1. CutShort(Tenant, wk.body, wk.pc) /\ UNCHANGED <<files, held>>
    BY <1>6 DEF Crash, index
  <2>2. \A u, b : Handled(u, b) => Handled(u, b)' \/ (u = Tenant /\ b = wk.body)
    BY <1>h DEF WorkerHandles
  <2>. QED
    BY <1>p, <1>w, <2>1, <2>2, CutShortAccounts
<1>. QED
  BY <1>1, <1>2, <1>3, <1>4, <1>5, <1>6 DEF ReapStep

\* When a thread moves: it, and the hands of everyone else.
OthersHandle(r, u, b) ==
    WorkerHandles(u, b) \/ \E q \in Remover \ {r} : Handles(rm[q], u, b)

LEMMA HandledByRemovers ==
  ASSUME wk' = wk, rm \in [Remover -> RemoverRecord],
         NEW r \in Remover, NEW x \in RemoverRecord, Serve(r, x)
  PROVE  \A u, b :
             /\ Handled(u, b) <=> Handles(rm[r], u, b) \/ OthersHandle(r, u, b)
             /\ Handled(u, b)' <=> Handles(x, u, b) \/ OthersHandle(r, u, b)
<1>1. rm'[r] = x /\ \A q \in Remover \ {r} : rm'[q] = rm[q]
  BY ServeTyped
<1>. SUFFICES ASSUME NEW u, NEW b
              PROVE  /\ Handled(u, b) <=> Handles(rm[r], u, b) \/ OthersHandle(r, u, b)
                     /\ Handled(u, b)' <=> Handles(x, u, b) \/ OthersHandle(r, u, b)
  OBVIOUS
<1>2. Handled(u, b) <=> WorkerHandles(u, b) \/ \E q \in Remover : Handles(rm[q], u, b)
  BY DEF Handled, WorkerHandles, Handles
<1>3. Handled(u, b)' <=> WorkerHandles(u, b) \/ \E q \in Remover : Handles(rm'[q], u, b)
  BY DEF Handled, WorkerHandles, Handles, Tenant
<1>. QED
  BY <1>1, <1>2, <1>3 DEF OthersHandle

LEMMA AccountRemoverStep ==
  ASSUME TypeInv, AccountInv, NEW r \in Remover, RemoverStep(r)
  PROVE  AccountInv'
<1>a. wk' = wk
  BY RemoverLeavesContent
<1>b. rm \in [Remover -> RemoverRecord] /\ rm[r] \in RemoverRecord
  BY DEF TypeInv, TypeOK
<1>c. \A pc \in ReapPc :
          /\ [rm[r] EXCEPT !.pc = pc] \in RemoverRecord
          /\ [rm[r] EXCEPT !.pc = pc].pc = pc
          /\ [rm[r] EXCEPT !.pc = pc].user = rm[r].user
          /\ [rm[r] EXCEPT !.pc = pc].sha = rm[r].sha
  BY <1>b DEF RemoverRecord, RemovalPc
<1>d. \A u \in User : held[u] \subseteq Body
  BY DEF TypeInv, TypeOK
<1>p. PossessionIsAccounted
  BY DEF AccountInv
<1>h. ASSUME NEW x \in RemoverRecord, Serve(r, x)
      PROVE  \A u, b :
             /\ Handled(u, b) <=> Handles(rm[r], u, b) \/ OthersHandle(r, u, b)
             /\ Handled(u, b)' <=> Handles(x, u, b) \/ OthersHandle(r, u, b)
  BY <1>a, <1>b, <1>h, HandledByRemovers
<1>k. ASSUME \A u \in User, k \in Key : files'[u][k].sha = files[u][k].sha
      PROVE  ReapsKnowTheirRows'
  <2>1. Reaping => Tenant \in User /\ \A x \in wk.gone : x.key \in Key
    BY TenantIsUser DEF TypeInv, TypeOK, WorkerRecord, Reaping, ReapPc
  <2>. QED
    BY <1>a, <1>k, <2>1 DEF AccountInv, ReapsKnowTheirRows, Reaping, Tenant
<1>1. CASE \E u \in User, k \in Key : BeginRemoval(r, u, k)
  <2>1. PICK u \in User, k \in Key : BeginRemoval(r, u, k)
    BY <1>1
  <2>. DEFINE x == [pc |-> "delete", user |-> u, key |-> k, sha |-> files[u][k].sha]
  <2>2. files[u][k].sha \in MaybeBody
    BY DEF TypeInv, TypeOK, Row
  <2>3. x \in RemoverRecord /\ x.pc = "delete"
    BY <2>2 DEF RemoverRecord, RemovalPc
  <2>4. Serve(r, x) /\ UNCHANGED <<files, held, lost>> /\ rm[r].pc = "idle"
    BY <2>1 DEF BeginRemoval, index, history
  <2>. HIDE DEF x
  <2>5. \A v, c : /\ Handled(v, c)' <=> Handled(v, c)
                  /\ References(v, c)' <=> References(v, c)
    BY <1>h, <2>3, <2>4 DEF Handles, ReapPc, References
  <2>6. PossessionIsAccounted'
    BY <1>p, <2>4, <2>5 DEF PossessionIsAccounted
  <2>. QED
    BY <1>k, <2>3, <2>4, <2>6 DEF AccountInv
<1>2. CASE RemoveRow(r)
  <2>. DEFINE x == IF rm[r].sha = None THEN Served ELSE [rm[r] EXCEPT !.pc = "check"]
              u == rm[r].user  k == rm[r].key  b == rm[r].sha
              row == files[u][k]
              other == {c \in {row.sha} : Live(row) /\ c # b}
  <2>1. /\ Serve(r, x) /\ UNCHANGED held /\ rm[r].pc = "delete"
        /\ SoftDelete(u, k) /\ Forsake(u, other)
    BY <1>2 DEF RemoveRow, index
  <2>2. x \in RemoverRecord /\ x.pc \in {"served", "check"}
    BY <1>c, IdleTyped DEF ReapPc
  <2>3. b # None => x.pc = "check" /\ x.user = u /\ x.sha = b
    BY <1>c DEF ReapPc
  <2>4. u \in User /\ k \in Key
    BY <2>1 DEF TypeInv, RemoversPlaced, RemovalPc
  <2>5. \A c : Live(files[u][k]) /\ files[u][k].sha = c /\ c # b => c \in other
    OBVIOUS
  <2>. HIDE DEF x, row, other
  <2>6. /\ \A v \in User, j \in Key : files'[v][j].sha = files[v][j].sha
        /\ \A v \in User, c \in Body :
              References(v, c) => \/ References(v, c)'
                                  \/ v = u /\ Live(files[u][k]) /\ files[u][k].sha = c
    BY <2>1, <2>4, SoftDeleteHides
  <2>7. \A v, c : /\ Handled(v, c) => Handled(v, c)'
                  /\ v = u /\ b = c /\ c # None => Handled(v, c)'
    BY <1>h, <2>1, <2>2, <2>3 DEF Handles, ReapPc
  <2>8. \A v \in User, c \in Body :
            c \in lost[v] \/ (v = u /\ c \in other \cap held[u]) => c \in lost'[v]
    BY <2>1 DEF Forsake, TypeInv, TypeOK
  <2>. HIDE DEF u, k, b
  <2>9. PossessionIsAccounted'
    <3>. SUFFICES ASSUME NEW v \in User, NEW c \in held[v]
                  PROVE  References(v, c)' \/ Handled(v, c)' \/ c \in lost'[v]
      BY <2>1 DEF PossessionIsAccounted
    <3>1. c \in Body /\ c # None
      BY <1>d, NoneAssumption
    <3>2. References(v, c) \/ Handled(v, c) \/ c \in lost[v]
      BY <1>p DEF PossessionIsAccounted
    <3>. QED
      BY <2>5, <2>6, <2>7, <2>8, <3>1, <3>2
  <2>. QED
    BY <1>k, <2>6, <2>9 DEF AccountInv
<1>3. CASE RemovalCheck(r)
  <2>. DEFINE x == IF References(rm[r].user, rm[r].sha)
                     THEN Served ELSE [rm[r] EXCEPT !.pc = "drop"]
  <2>1. Serve(r, x) /\ UNCHANGED <<files, held, lost>> /\ rm[r].pc = "check"
    BY <1>3 DEF RemovalCheck, index, history
  <2>2. x \in RemoverRecord
    BY <1>c, IdleTyped DEF ReapPc
  <2>3. \/ References(rm[r].user, rm[r].sha)
        \/ x.pc = "drop" /\ x.user = rm[r].user /\ x.sha = rm[r].sha
    BY <1>c DEF ReapPc
  <2>. HIDE DEF x
  <2>4. \A v, c : /\ Handled(v, c) => Handled(v, c)' \/ References(v, c)
                  /\ References(v, c)' <=> References(v, c)
    <3>1. \A v, c : References(v, c)' <=> References(v, c)
      BY <2>1 DEF References
    <3>2. \A v, c : Handled(v, c) => Handled(v, c)' \/ References(v, c)
      BY <1>h, <2>1, <2>2, <2>3 DEF Handles, ReapPc
    <3>. QED
      BY <3>1, <3>2
  <2>5. PossessionIsAccounted'
    BY <1>p, <2>1, <2>4 DEF PossessionIsAccounted
  <2>. QED
    BY <1>k, <2>1, <2>2, <2>5 DEF AccountInv
<1>4. CASE RemovalDrop(r)
  <2>. DEFINE x == [rm[r] EXCEPT !.pc = "disown"]
  <2>1. Serve(r, x) /\ UNCHANGED <<files, held, lost>> /\ rm[r].pc = "drop"
    BY <1>4 DEF RemovalDrop, history
  <2>2. x \in RemoverRecord /\ x.pc = "disown" /\ x.user = rm[r].user /\ x.sha = rm[r].sha
    BY <1>c DEF ReapPc
  <2>. HIDE DEF x
  <2>3. \A v, c : References(v, c)' <=> References(v, c)
    BY <2>1 DEF References
  <2>4. \A v, c : Handled(v, c) => Handled(v, c)'
    BY <1>h, <2>1, <2>2 DEF Handles, ReapPc
  <2>5. PossessionIsAccounted'
    BY <1>p, <2>1, <2>3, <2>4 DEF PossessionIsAccounted
  <2>. QED
    BY <1>k, <2>1, <2>2, <2>5 DEF AccountInv
<1>5. CASE RemovalDisown(r) \/ RemovalFails(r)
  <2>. DEFINE u == rm[r].user  b == rm[r].sha
  <2>1. Serve(r, Served) /\ UNCHANGED files /\ rm[r].pc \in RemovalPc
    BY <1>5 DEF RemovalDisown, RemovalFails, RemovalPc, ReapPc
  <2>2. u \in User
    BY <2>1 DEF TypeInv, RemoversPlaced
  <2>3. \A v, c : Handled(v, c) => Handled(v, c)' \/ (v = u /\ c = b)
    BY <1>h, <2>1, IdleTyped DEF Handles, ReapPc
  <2>. HIDE DEF u, b
  <2>4. CASE RemovalDisown(r)
    <3>1. Disown(u, b) /\ b \in Body
      BY <2>4 DEF RemovalDisown, TypeInv, RemoversPlaced, ReapPc, u, b
    <3>. QED
      BY <1>k, <1>p, <2>1, <2>2, <2>3, <3>1, DisownAccounts DEF AccountInv
  <2>5. CASE RemovalFails(r)
    <3>1. CutShort(u, b, rm[r].pc) /\ UNCHANGED <<files, held>>
      BY <2>5 DEF RemovalFails, index, u, b
    <3>. QED
      BY <1>k, <1>p, <2>1, <2>2, <2>3, <3>1, CutShortAccounts DEF AccountInv
  <2>. QED
    BY <1>5, <2>4, <2>5
<1>. QED
  BY <1>1, <1>2, <1>3, <1>4, <1>5 DEF RemoverStep

LEMMA AccountStep == TypeInv /\ AccountInv /\ [Next]_vars => AccountInv'
<1>. SUFFICES ASSUME TypeInv, AccountInv, [Next]_vars PROVE AccountInv'
  OBVIOUS
<1>1. CASE UNCHANGED vars \/ SourceStep
  <2>1. UNCHANGED <<files, held, lost, wk, rm>>
    BY <1>1 DEF vars, SourceStep, Put, Delete, index, history
  <2>. QED
    BY <2>1
    DEF AccountInv, ReapsKnowTheirRows, Reaping, Tenant,
        PossessionIsAccounted, References, Handled
<1>2. CASE AnyStart
  <2>1. UNCHANGED <<files, held, lost, rm>> /\ wk.pc = "idle" /\ wk'.pc = "next"
    BY <1>2 DEF AnyStart, StartSync, IdleWorker, index, history
  <2>2. \A u, b : /\ Handled(u, b)' <=> Handled(u, b)
                  /\ References(u, b)' <=> References(u, b)
    BY <2>1 DEF Handled, References, ReapPc
  <2>3. PossessionIsAccounted'
    BY <2>1, <2>2 DEF AccountInv, PossessionIsAccounted
  <2>4. ReapsKnowTheirRows'
    BY <2>1 DEF ReapsKnowTheirRows, Reaping, ReapPc
  <2>. QED
    BY <2>3, <2>4 DEF AccountInv
<1>3. CASE FileStep
  <2>1. ReapsKnowTheirRows'
    BY <1>3, FileStepGoes DEF ReapsKnowTheirRows
  <2>. QED
    BY <1>3, <2>1, AccountFileStep DEF AccountInv
<1>4. CASE ReapStep
  BY <1>4, ReapStepKnows, AccountReapStep DEF AccountInv
<1>5. CASE \E r \in Remover : RemoverStep(r)
  BY <1>5, AccountRemoverStep
<1>. QED
  BY <1>1, <1>2, <1>3, <1>4, <1>5, WorkerSteps DEF Next

\* Content that no live row of its user names is about to be examined, dropped or
\* attributed, or a row let go of it when it was overwritten, or removed with other
\* content than the removal had read, or a fault did: reaps and removals, beside
\* each other and beside a sync, leave nothing else behind.
THEOREM PossessionsAreAccountedFor == Spec => []PossessionIsAccounted
<1>1. AccountInv => PossessionIsAccounted
  BY DEF AccountInv
<1>. QED
  BY <1>1, AccountInit, AccountStep, Placed, PTL DEF Spec

-----------------------------------------------------------------------------
(* A run without failures leaves the rows as the source is.                *)

\* An object that is not there has no fingerprint.
AbsentIsUnstamped == \A k \in Key : source[k].body = None => source[k].ver = 0

\* The row of k is what rung 0 would skip.
AsListed(k) ==
    files[Tenant][k].state = "indexed" /\ files[Tenant][k].ver = wk.listing[k]

\* Or it was removed by hand since the sync began.
Done(k) == AsListed(k) \/ k \in removed[Tenant]

\* What is no longer to do is done, and what is counted is indexed.
SettledAsListed ==
    wk.pc # "idle" /\ wk.clean =>
        \A k \in Under[wk.dir] \ wk.todo : wk.listing[k] > 0 => Done(k)
CountedAsListed == wk.pc = "count" => Done(Current)

\* A live row of this directory that was not listed is about to be reaped, and
\* no other row is.
ReapsTheAbsent ==
    Reaping =>
        /\ wk.todo = {}
        /\ \A k \in Key :
              wk.listing[k] = 0 /\ Live(files[Tenant][k]) /\ files[Tenant][k].dir = wk.dir
                => \E x \in wk.gone : x.key = k
        /\ \A x \in wk.gone : wk.listing[x.key] = 0

AgreeInv ==
    AbsentIsUnstamped /\ SettledAsListed /\ CountedAsListed /\ ReapsTheAbsent

LEMMA AgreeSuffices == TypeInv /\ RungInv /\ AgreeInv => CleanRunAgrees
<1>. SUFFICES ASSUME TypeInv, RungInv, AgreeInv, Reaped, wk.clean,
                     NEW k \in Under[wk.dir], source[k].ver = wk.listing[k]
              PROVE  IF source[k].body # None
                       THEN \/ /\ files[Tenant][k].state = "indexed"
                               /\ files[Tenant][k].sha = source[k].body
                            \/ k \in removed[Tenant]
                       ELSE files[Tenant][k].dir = wk.dir => ~Live(files[Tenant][k])
  BY DEF CleanRunAgrees
<1>1. wk.pc = "reap" /\ wk.gone = {} /\ Reaping
  BY DEF Reaped, Reaping
<1>2. wk.dir \in Directory /\ k \in Key /\ Tenant \in User
  BY <1>1, UnderAssumption, TenantIsUser DEF TypeInv, WorkerPlaced
<1>3. wk.todo = {}
  BY <1>1 DEF AgreeInv, ReapsTheAbsent
<1>4. CASE source[k].body # None
  <2>1. wk.listing[k] > 0
    BY <1>2, <1>4 DEF RungInv, Stamped, ObjectStamped
  <2>2. AsListed(k) \/ k \in removed[Tenant]
    BY <1>1, <1>3, <2>1 DEF AgreeInv, SettledAsListed, Done
  <2>. QED
    BY <1>2, <1>4, <2>2 DEF AsListed, RungInv, FingerprintIsHonest
<1>5. CASE source[k].body = None
  <2>1. wk.listing[k] = 0
    BY <1>2, <1>5 DEF AgreeInv, AbsentIsUnstamped
  <2>. QED
    BY <1>1, <1>2, <1>5, <2>1 DEF AgreeInv, ReapsTheAbsent
<1>. QED
  BY <1>4, <1>5

LEMMA AgreeInit == Init => AgreeInv
<1>. SUFFICES ASSUME Init PROVE AgreeInv
  OBVIOUS
<1>1. wk.pc = "idle"
  BY IdleTyped DEF Init
<1>2. AbsentIsUnstamped
  BY DEF Init, AbsentIsUnstamped
<1>. QED
  BY <1>1, <1>2
  DEF AgreeInv, SettledAsListed, CountedAsListed, ReapsTheAbsent, Reaping, ReapPc

\* Only uploads and deletions touch the source.
LEMMA AbsentStays ==
  ASSUME TypeInv, AbsentIsUnstamped, [Next]_vars
  PROVE  AbsentIsUnstamped'
<1>1. CASE SourceStep
  <2>1. PICK k \in Key :
          \/ \E b \in Body : source' = [source EXCEPT ![k] = [body |-> b, ver |-> puts + 1]]
          \/ source' = [source EXCEPT ![k] = [body |-> None, ver |-> 0]]
    BY <1>1 DEF SourceStep, Put, Delete
  <2>2. source \in [Key -> Object]
    BY DEF TypeInv, TypeOK
  <2>. QED
    BY <2>1, <2>2, NoneAssumption DEF AbsentIsUnstamped
<1>2. CASE source' = source
  BY <1>2 DEF AbsentIsUnstamped
<1>3. WorkerStep => source' = source
  BY DEF WorkerStep, StartSync, SkipUnchanged, Fetch, FetchFails, ReuseText, Rechunk,
         Extract, ExtractFails, ReplaceChunks, CheckPossession, Embed, PutCachedVectors,
         IndexBlob, AddUserBlob, Attribute, CountFile, ProcessRaises, FailFile,
         StartReap, ReapRow, ReapCheck, ReapDrop, ReapDisown, Finish, Crash, world
<1>. QED
  BY <1>1, <1>2, <1>3, RemoverLeavesContent DEF Next, vars

\* The listed objects are those that are there, and all of them are to be done.
LEMMA AgreeStart ==
  ASSUME TypeInv, AgreeInv, AnyStart
  PROVE  SettledAsListed' /\ CountedAsListed' /\ ReapsTheAbsent'
<1>1. PICK d \in Directory : StartSync(d)
  BY DEF AnyStart
<1>. DEFINE listing == [k \in Key |-> IF k \in Under[d] THEN source[k].ver ELSE 0]
            todo == {k \in Under[d] : source[k].body # None}
<1>2. wk' = [IdleWorker EXCEPT !.pc = "next", !.dir = d, !.listing = listing, !.todo = todo]
  BY <1>1 DEF StartSync
<1>3. \A k \in Under[d] \ todo : listing[k] = 0
  BY UnderAssumption DEF AgreeInv, AbsentIsUnstamped
<1>. HIDE DEF listing, todo
<1>4. wk'.pc = "next" /\ wk'.dir = d /\ wk'.listing = listing /\ wk'.todo = todo
  BY <1>2 DEF IdleWorker
<1>5. SettledAsListed'
  BY <1>3, <1>4 DEF SettledAsListed
<1>. QED
  BY <1>4, <1>5 DEF CountedAsListed, ReapsTheAbsent, Reaping, ReapPc

LEMMA AgreeFileStep ==
  ASSUME TypeInv, AgreeInv, FileStep
  PROVE  SettledAsListed' /\ CountedAsListed' /\ ReapsTheAbsent'
<1>w. wk \in WorkerRecord /\ wk.pc # "idle"
  BY WorkerIsBusy DEF TypeInv, TypeOK
<1>g. ~Reaping' /\ wk'.dir = wk.dir /\ wk'.listing = wk.listing
  BY FileStepGoes
<1>r. ReapsTheAbsent'
  BY <1>g DEF ReapsTheAbsent
<1>t. Tenant' = Tenant /\ Tenant \in User
  BY <1>w, <1>g, TenantIsUser DEF Tenant
<1>1. CASE SkipUnchanged \/ CountFile
  <2>1. Settle(TRUE) /\ UNCHANGED <<files, removed>>
    BY <1>1 DEF SkipUnchanged, CountFile, history
  <2>2. wk'.pc = "next" /\ wk'.todo = wk.todo \ {Current} /\ (wk'.clean => wk.clean)
    BY <1>w, <2>1, SettleFields
  <2>3. Done(Current)
    BY <1>1
    DEF SkipUnchanged, Skips, Unchanged, CountFile, Done, AsListed, AgreeInv, CountedAsListed
  <2>4. \A k : Done(k)' <=> Done(k)
    BY <1>g, <1>t, <2>1 DEF Done, AsListed
  <2>5. SettledAsListed'
    BY <1>g, <1>w, <2>2, <2>3, <2>4 DEF AgreeInv, SettledAsListed
  <2>. QED
    BY <1>r, <2>2, <2>5 DEF CountedAsListed
<1>2. CASE FetchFails \/ ExtractFails \/ ProcessRaises
  <2>1. Settle(FALSE)
    BY <1>2 DEF FetchFails, ExtractFails, ProcessRaises, FailFile
  <2>2. wk'.pc = "next" /\ ~wk'.clean
    BY <1>w, <2>1, SettleFields
  <2>. QED
    BY <1>r, <2>2 DEF SettledAsListed, CountedAsListed
<1>3. CASE \/ Fetch \/ ReuseText \/ Rechunk \/ Extract \/ ReplaceChunks \/ CheckPossession
           \/ Embed \/ PutCachedVectors \/ IndexBlob \/ AddUserBlob
  <2>1. UNCHANGED <<files, removed>>
    BY <1>3 DEF Fetch, ReuseText, Rechunk, Extract, ReplaceChunks, CheckPossession, Embed,
                PutCachedVectors, IndexBlob, AddUserBlob, history
  <2>2. wk'.pc # "count" /\ wk'.todo = wk.todo /\ wk'.clean = wk.clean
    <3>1. CASE Fetch
      BY <1>w, <3>1 DEF Fetch, WorkerRecord
    <3>2. CASE ~Fetch
      <4>1. \E pc \in FilePc \ {"count"} : Goto(pc)
        <5>1. CASE CheckPossession
          BY <5>1 DEF CheckPossession, FilePc
        <5>2. CASE Embed
          BY <5>2 DEF Embed, FilePc
        <5>. QED
          BY <1>3, <3>2, <5>1, <5>2
          DEF ReuseText, Rechunk, Extract, ReplaceChunks, PutCachedVectors, IndexBlob,
              AddUserBlob, FilePc
      <4>. QED
        BY <1>w, <4>1, GotoFields DEF WorkerPc
    <3>. QED
      BY <3>1, <3>2
  <2>3. \A k : Done(k)' <=> Done(k)
    BY <1>g, <1>t, <2>1 DEF Done, AsListed
  <2>4. SettledAsListed'
    BY <1>g, <1>w, <2>2, <2>3 DEF AgreeInv, SettledAsListed
  <2>. QED
    BY <1>r, <2>2, <2>4 DEF CountedAsListed
<1>4. CASE Attribute
  <2>1. /\ wk.pc = "attribute" /\ wk.dir \in Directory /\ wk.todo # {}
        /\ Upsert("indexed", wk.body, wk.listing[Current]) /\ Goto("count")
        /\ removed' = removed
    BY <1>4 DEF Attribute, TypeInv, WorkerPlaced, FilePc
  <2>2. wk'.pc = "count" /\ wk'.todo = wk.todo /\ wk'.clean = wk.clean
    BY <1>w, <2>1, GotoFields DEF WorkerPc, FilePc
  <2>3. Current \in wk.todo /\ Current \in Key /\ Current' = Current
    BY <1>w, <2>1, <2>2, CurrentIsListed DEF WorkerRecord, Current
  <2>. DEFINE new == [state |-> "indexed", sha |-> wk.body,
                      ver |-> wk.listing[Current], dir |-> wk.dir]
  <2>4. files' = [files EXCEPT ![Tenant][Current] = new]
    BY <2>1 DEF Upsert
  <2>5. new.state = "indexed" /\ new.ver = wk.listing[Current]
    OBVIOUS
  <2>. HIDE DEF new
  <2>6. \A k \in Key : files'[Tenant][k] = IF k = Current THEN new ELSE files[Tenant][k]
    BY <1>t, <2>4 DEF TypeInv, TypeOK
  <2>7. \A k \in Key : Done(k) \/ k = Current => Done(k)'
    BY <1>g, <1>t, <2>1, <2>5, <2>6 DEF Done, AsListed
  <2>8. Under[wk.dir] \subseteq Key
    BY <2>1, UnderAssumption
  <2>9. SettledAsListed'
    BY <1>g, <1>w, <2>2, <2>7, <2>8 DEF AgreeInv, SettledAsListed
  <2>10. CountedAsListed'
    BY <2>3, <2>7 DEF CountedAsListed
  <2>. QED
    BY <1>r, <2>9, <2>10
<1>. QED
  BY <1>1, <1>2, <1>3, <1>4 DEF FileStep

\* A reap deletes rows of the unlisted, and keeps to the list it began with.
LEMMA AgreeReapStep ==
  ASSUME TypeInv, AgreeInv, ReapStep
  PROVE  SettledAsListed' /\ CountedAsListed' /\ ReapsTheAbsent'
<1>w. wk \in WorkerRecord /\ wk.pc # "idle" /\ Tenant \in User /\ wk.dir \in Directory
  BY WorkerIsBusy, TenantIsUser DEF TypeInv, TypeOK, WorkerPlaced
<1>1. CASE Finish \/ Crash
  BY <1>1, IdleTyped
  DEF Finish, Crash, SettledAsListed, CountedAsListed, ReapsTheAbsent, Reaping, ReapPc
<1>2. CASE StartReap
  <2>. DEFINE rows == {k \in Key : Live(files[Tenant][k]) /\ files[Tenant][k].dir = wk.dir}
              absent == {k \in rows : wk.listing[k] = 0}
              gone == {[key |-> k, sha |-> files[Tenant][k].sha] : k \in absent}
  <2>1. wk' = [wk EXCEPT !.pc = "reap", !.gone = gone] /\ UNCHANGED <<files, removed>> /\ wk.todo = {}
    BY <1>2 DEF StartReap, history
  <2>2. \A x \in gone : wk.listing[x.key] = 0
    OBVIOUS
  <2>3. ASSUME NEW k \in Key, wk.listing[k] = 0, Live(files[Tenant][k]),
               files[Tenant][k].dir = wk.dir
        PROVE  \E x \in gone : x.key = k
    <3>1. [key |-> k, sha |-> files[Tenant][k].sha] \in gone
      BY <2>3
    <3>2. [key |-> k, sha |-> files[Tenant][k].sha].key = k
      OBVIOUS
    <3>. HIDE DEF gone
    <3>. QED
      BY <3>1, <3>2
  <2>. HIDE DEF gone
  <2>4. /\ wk'.pc = "reap" /\ wk'.gone = gone /\ wk'.dir = wk.dir
        /\ wk'.listing = wk.listing /\ wk'.todo = {} /\ wk'.clean = wk.clean
    BY <1>w, <2>1 DEF WorkerRecord
  <2>5. Tenant' = Tenant
    BY <2>4 DEF Tenant
  <2>6. SettledAsListed' /\ CountedAsListed'
    BY <1>w, <2>1, <2>4, <2>5
    DEF AgreeInv, SettledAsListed, CountedAsListed, Done, AsListed
  <2>7. ReapsTheAbsent'
    BY <2>1, <2>2, <2>3, <2>4, <2>5 DEF ReapsTheAbsent
  <2>. QED
    BY <2>6, <2>7
<1>3. CASE ReapCheck \/ ReapDrop \/ ReapDisown
  <2>1. /\ Reaping /\ wk'.pc # "count" /\ wk'.gone = wk.gone /\ wk'.dir = wk.dir
        /\ wk'.listing = wk.listing /\ wk'.todo = wk.todo /\ wk'.clean = wk.clean
    <3>1. CASE ReapCheck
      BY <1>w, <3>1 DEF ReapCheck, WorkerRecord, Reaping, ReapPc
    <3>2. CASE ReapDrop
      BY <1>w, <3>2, GotoFields DEF ReapDrop, WorkerPc, Reaping, ReapPc
    <3>3. CASE ReapDisown
      BY <1>w, <3>3 DEF ReapDisown, WorkerRecord, Reaping, ReapPc
    <3>. QED
      BY <1>3, <3>1, <3>2, <3>3
  <2>2. UNCHANGED <<files, removed>> /\ Tenant' = Tenant
    BY <1>3, <2>1 DEF ReapCheck, ReapDrop, ReapDisown, Disown, history, Tenant
  <2>3. SettledAsListed' /\ CountedAsListed'
    BY <1>w, <2>1, <2>2 DEF AgreeInv, SettledAsListed, CountedAsListed, Done, AsListed
  <2>4. ReapsTheAbsent'
    BY <2>1, <2>2 DEF AgreeInv, ReapsTheAbsent
  <2>. QED
    BY <2>3, <2>4
<1>4. CASE AnyReapRow
  <2>1. PICK x \in wk.gone : ReapRow(x)
    BY <1>4 DEF AnyReapRow
  <2>2. /\ wk.pc = "reap" /\ wk'.pc \in {"reap", "check"} /\ wk'.gone = wk.gone \ {x}
        /\ wk'.dir = wk.dir /\ wk'.listing = wk.listing /\ wk'.todo = wk.todo
        /\ wk'.clean = wk.clean /\ SoftDelete(Tenant, x.key) /\ removed' = removed
    BY <1>w, <2>1 DEF ReapRow, WorkerRecord, history
  <2>3. Tenant' = Tenant /\ x.key \in Key /\ Reaping /\ Under[wk.dir] \subseteq Key
    BY <1>w, <2>2, UnderAssumption DEF Tenant, WorkerRecord, Reaping
  <2>4. /\ \A k \in Key :
                /\ files'[Tenant][k].dir = files[Tenant][k].dir
                /\ k # x.key => files'[Tenant][k] = files[Tenant][k]
                /\ Live(files'[Tenant][k]) => Live(files[Tenant][k])
        /\ ~Live(files'[Tenant][x.key])
    BY <1>w, <2>2, <2>3, SoftDeleteHides
  <2>5. /\ wk.listing[x.key] = 0 /\ wk.todo = {}
        /\ \A y \in wk.gone : wk.listing[y.key] = 0
    BY <2>3 DEF AgreeInv, ReapsTheAbsent
  <2>6. \A k \in Key : wk.listing[k] > 0 /\ Done(k) => Done(k)'
    BY <2>2, <2>3, <2>4, <2>5 DEF Done, AsListed
  <2>7. SettledAsListed' /\ CountedAsListed'
    BY <1>w, <2>2, <2>3, <2>6 DEF AgreeInv, SettledAsListed, CountedAsListed
  <2>8. ASSUME NEW k \in Key, wk.listing[k] = 0, Live(files'[Tenant][k]),
               files'[Tenant][k].dir = wk.dir
        PROVE  \E y \in wk.gone \ {x} : y.key = k
    <3>1. PICK y \in wk.gone : y.key = k
      BY <2>3, <2>4, <2>8 DEF AgreeInv, ReapsTheAbsent
    <3>2. y # x
      BY <2>4, <2>8, <3>1
    <3>. QED
      BY <3>1, <3>2
  <2>9. ReapsTheAbsent'
    BY <2>2, <2>3, <2>5, <2>8 DEF ReapsTheAbsent
  <2>. QED
    BY <2>7, <2>9
<1>. QED
  BY <1>1, <1>2, <1>3, <1>4 DEF ReapStep

\* A removal hides a row, and is remembered while a sync runs.
LEMMA AgreeRemoverStep ==
  ASSUME TypeInv, AgreeInv, NEW r \in Remover, RemoverStep(r)
  PROVE  SettledAsListed' /\ CountedAsListed' /\ ReapsTheAbsent'
<1>1. wk' = wk /\ Tenant' = Tenant /\ Current' = Current
  BY RemoverLeavesContent DEF Tenant, Current
<1>2. wk.pc # "idle" =>
        /\ Tenant \in User /\ Under[wk.dir] \subseteq Key
        /\ wk.pc = "count" => Current \in Key
  BY TenantIsUser, UnderAssumption, CurrentIsListed
  DEF TypeInv, TypeOK, WorkerPlaced, WorkerRecord, FilePc
<1>3. ASSUME wk.pc # "idle", NEW k \in Key
      PROVE  /\ Done(k) => Done(k)'
             /\ Live(files'[Tenant][k]) => Live(files[Tenant][k])
             /\ files'[Tenant][k].dir = files[Tenant][k].dir
  <2>1. CASE RemoveRow(r)
    <3>1. rm[r].user \in User /\ rm[r].key \in Key
      BY <2>1 DEF RemoveRow, TypeInv, RemoversPlaced, RemovalPc
    <3>2. /\ Live(files'[Tenant][k]) => Live(files[Tenant][k])
          /\ files'[Tenant][k].dir = files[Tenant][k].dir
          /\ ~(Tenant = rm[r].user /\ k = rm[r].key) => files'[Tenant][k] = files[Tenant][k]
      BY <1>2, <1>3, <2>1, <3>1, SoftDeleteHides DEF RemoveRow
    <3>3. removed' = [removed EXCEPT ![rm[r].user] = removed[rm[r].user] \cup {rm[r].key}]
      BY <1>3, <2>1 DEF RemoveRow
    <3>4. /\ k \in removed[Tenant] => k \in removed'[Tenant]
          /\ Tenant = rm[r].user /\ k = rm[r].key => k \in removed'[Tenant]
      BY <1>2, <1>3, <3>1, <3>3 DEF TypeInv, TypeOK
    <3>. QED
      BY <1>1, <3>2, <3>4 DEF Done, AsListed
  <2>2. CASE UNCHANGED <<files, removed>>
    BY <1>1, <2>2 DEF Done, AsListed
  <2>. QED
    BY <2>1, <2>2
    DEF RemoverStep, BeginRemoval, RemovalCheck, RemovalDrop, RemovalDisown, Disown,
        RemovalFails, history
<1>4. SettledAsListed'
  BY <1>1, <1>2, <1>3 DEF AgreeInv, SettledAsListed
<1>5. CountedAsListed'
  BY <1>1, <1>2, <1>3 DEF AgreeInv, CountedAsListed
<1>6. ReapsTheAbsent'
  BY <1>1, <1>3 DEF AgreeInv, ReapsTheAbsent, Reaping, ReapPc
<1>. QED
  BY <1>4, <1>5, <1>6

LEMMA AgreeStep == TypeInv /\ AgreeInv /\ [Next]_vars => AgreeInv'
<1>. SUFFICES ASSUME TypeInv, AgreeInv, [Next]_vars PROVE AgreeInv'
  OBVIOUS
<1>1. AbsentIsUnstamped'
  BY AbsentStays DEF AgreeInv
<1>2. SettledAsListed' /\ CountedAsListed' /\ ReapsTheAbsent'
  <2>1. CASE UNCHANGED vars \/ SourceStep
    <3>1. UNCHANGED <<files, wk, removed>>
      BY <2>1 DEF vars, SourceStep, Put, Delete, history
    <3>. QED
      BY <3>1
      DEF AgreeInv, SettledAsListed, CountedAsListed, ReapsTheAbsent, Done, AsListed, Reaping,
          Tenant, Current
  <2>2. CASE AnyStart \/ FileStep \/ ReapStep
    BY <2>2, AgreeStart, AgreeFileStep, AgreeReapStep
  <2>3. CASE \E r \in Remover : RemoverStep(r)
    BY <2>3, AgreeRemoverStep
  <2>. QED
    BY <2>1, <2>2, <2>3, WorkerSteps DEF Next
<1>. QED
  BY <1>1, <1>2 DEF AgreeInv

\* When a run without a failed file has reaped, every object that is as it was
\* listed has a row that is indexed with its bytes, unless it was removed by hand
\* during the run, and no row of this directory is live whose object was not listed
\* and is not there: however many files there are, whatever other directories list
\* them, too, and however many removals run beside it.
THEOREM CleanRunsAgree == Spec => []CleanRunAgrees
<1>1. Spec => []RungInv
  BY RungInit, RungStep, Placed, PTL DEF Spec
<1>2. Spec => []AgreeInv
  BY AgreeInit, AgreeStep, Placed, PTL DEF Spec
<1>. QED
  BY <1>1, <1>2, AgreeSuffices, Placed, PTL
=============================================================================
