------------------------- MODULE KnowledgeBase_proofs -------------------------
(***************************************************************************)
(* What a search can return has text, rung 0 is sound, and contents are    *)
(* paid for once: for any users, directories, contents, uploads, faults    *)
(* and removals, beside syncs or between them.                             *)
(***************************************************************************)
EXTENDS KnowledgeBase, NaturalsInduction, WellFoundedInduction, TLAPS

\* What the program counters say of the records they belong to.
WorkerPlaced ==
    /\ wk.pc # "idle" => wk.dir \in Directory
    /\ wk.pc \in FilePc => wk.todo # {} /\ wk.body \in Body
    /\ wk.pc \in ReapPc => wk.body \in Body

RemoversPlaced ==
    \A r \in Remover :
        /\ rm[r].pc \in RemovalPc => rm[r].user \in User /\ rm[r].key \in Key
        /\ rm[r].pc \in ReapPc => rm[r].sha \in Body

TypeInv == TypeOK /\ WorkerPlaced /\ RemoversPlaced

-----------------------------------------------------------------------------
(* The operators the actions are built from.                               *)

LEMMA KeysAreNaturals == Key \subseteq Nat
BY DEF Key

\* There is a next object as long as there is any: objects are taken in order.
LEMMA CurrentIsListed ==
  ASSUME wk.todo \in SUBSET Key, wk.todo # {}
  PROVE  Current \in wk.todo
<1>. DEFINE Less == {p \in Nat \X Nat : p[1] < p[2]}
<1>1. wk.todo \subseteq Nat
  BY KeysAreNaturals
<1>2. IsWellFoundedOn(Less, Nat)
  BY NatLessThanWellFounded DEF OpToRel
<1>3. PICK k \in wk.todo : \A j \in wk.todo : <<j, k>> \notin Less
  <2>. HIDE DEF Less
  <2>. QED  BY <1>1, <1>2, WFMin
<1>4. ASSUME NEW j \in wk.todo PROVE k <= j
  <2>1. j \in Nat /\ k \in Nat
    BY <1>1
  <2>2. j < k => <<j, k>> \in Less
    BY <2>1
  <2>3. ~(j < k)
    <3>. HIDE DEF Less
    <3>. QED  BY <1>3, <2>2
  <2>. QED
    BY <2>1, <2>3
<1>. QED
  BY <1>4 DEF Current

WorkerPc == {"idle", "next", "reap"} \cup FilePc \cup ReapPc

LEMMA GotoTyped ==
  ASSUME wk \in WorkerRecord, NEW pc \in WorkerPc, Goto(pc)
  PROVE  /\ wk' \in WorkerRecord
         /\ wk'.pc = pc /\ wk'.dir = wk.dir /\ wk'.listing = wk.listing
         /\ wk'.todo = wk.todo /\ wk'.body = wk.body
BY DEF Goto, WorkerRecord, WorkerPc

LEMMA SettleTyped ==
  ASSUME wk \in WorkerRecord, NEW ok \in BOOLEAN, Settle(ok)
  PROVE  /\ wk' \in WorkerRecord
         /\ wk'.pc = "next" /\ wk'.dir = wk.dir /\ wk'.listing = wk.listing
         /\ wk'.body = None
BY DEF Settle, WorkerRecord, MaybeBody

LEMMA IdleTyped ==
  /\ IdleWorker \in WorkerRecord /\ IdleWorker.pc = "idle"
  /\ IdleWorker.listing = [k \in Key |-> 0]
  /\ IdleRemover \in RemoverRecord /\ IdleRemover.pc = "idle"
  /\ Served \in RemoverRecord /\ Served.pc = "served"
BY DEF IdleWorker, WorkerRecord, IdleRemover, Served, RemoverRecord, MaybeBody

\* What upsert_file writes is a row, and what it lets go of was held.
LEMMA UpsertTyped ==
  ASSUME TypeOK, wk.dir \in Directory, wk.todo # {},
         NEW state \in {"indexed", "failed"}, NEW sha \in MaybeBody,
         NEW ver \in Nat, Upsert(state, sha, ver)
  PROVE  /\ files' \in [User -> [Key -> Row]]
         /\ lost' \in [User -> SUBSET Body]
<1>1. Tenant \in User
  BY OwnerAssumption DEF Tenant
<1>2. Current \in Key
  <2>1. wk.todo \in SUBSET Key
    BY DEF TypeOK, WorkerRecord
  <2>. QED
    BY <2>1, CurrentIsListed
<1>3. [state |-> state, sha |-> sha, ver |-> ver, dir |-> wk.dir] \in Row
  BY DEF Row
<1>4. files' \in [User -> [Key -> Row]]
  BY <1>1, <1>2, <1>3 DEF Upsert, TypeOK
<1>5. lost' \in [User -> SUBSET Body]
  BY <1>1 DEF Upsert, Forsake, TypeOK
<1>. QED
  BY <1>4, <1>5

LEMMA SoftDeleteTyped ==
  ASSUME TypeOK, NEW u \in User, NEW k \in Key, SoftDelete(u, k)
  PROVE  files' \in [User -> [Key -> Row]]
<1>. DEFINE row == files[u][k]
            state == IF Live(row) THEN "deleted" ELSE row.state
<1>1. row \in Row
  BY DEF TypeOK
<1>2. [row EXCEPT !.state = state] \in Row
  <2>. HIDE DEF row
  <2>. QED  BY <1>1 DEF Row
<1>3. files' = [files EXCEPT ![u][k] = [row EXCEPT !.state = state]]
  BY DEF SoftDelete
<1>. HIDE DEF row, state
<1>. QED
  BY <1>2, <1>3 DEF TypeOK

LEMMA ServeTyped ==
  ASSUME rm \in [Remover -> RemoverRecord], NEW r \in Remover,
         NEW x \in RemoverRecord, Serve(r, x)
  PROVE  /\ rm' \in [Remover -> RemoverRecord]
         /\ rm'[r] = x
         /\ \A q \in Remover \ {r} : rm'[q] = rm[q]
BY DEF Serve

\* Races and the last of a user's hold on a body are remembered as sets of bodies.
LEMMA RaceTyped ==
  ASSUME TypeOK, NEW u \in User, NEW bs \in SUBSET Body, Race(u, bs)
  PROVE  raced' \in [User -> SUBSET Body]
BY DEF Race, TypeOK

LEMMA DisownTyped ==
  ASSUME TypeOK, NEW u \in User, NEW b \in Body, Disown(u, b)
  PROVE  /\ held' \in [User -> SUBSET Body]
         /\ lost' \in [User -> SUBSET Body]
         /\ halved' \in [User -> SUBSET Body]
         /\ raced' \in [User -> SUBSET Body]
         /\ removed' = removed
<1>1. /\ held' \in [User -> SUBSET Body]
      /\ lost' \in [User -> SUBSET Body]
      /\ halved' \in [User -> SUBSET Body]
  BY DEF Disown, TypeOK
<1>. DEFINE now == IF Recording(u, b) THEN raced[u] \cup {b}
                   ELSE IF References(u, b) THEN raced[u] ELSE raced[u] \ {b}
<1>2. raced' = [raced EXCEPT ![u] = now]
  BY DEF Disown
<1>3. now \in SUBSET Body
  BY DEF TypeOK
<1>. HIDE DEF now
<1>. QED
  BY <1>1, <1>2, <1>3 DEF Disown, TypeOK

-----------------------------------------------------------------------------
(* Types and placement are invariant.                                      *)

LEMMA TypeInit == Init => TypeInv
<1>1. NoRow \in Row /\ [body |-> None, ver |-> 0] \in Object
  BY DEF NoRow, Row, Object, MaybeBody
<1>2. Init => TypeOK
  BY <1>1, IdleTyped DEF Init, TypeOK
<1>3. Init => WorkerPlaced /\ RemoversPlaced
  BY IdleTyped DEF Init, WorkerPlaced, RemoversPlaced, FilePc, RemovalPc, ReapPc
<1>. QED
  BY <1>2, <1>3 DEF TypeInv

LEMMA TypeSourceStep == TypeInv /\ SourceStep => TypeInv'
<1>. SUFFICES ASSUME TypeInv, SourceStep PROVE TypeInv'
  OBVIOUS
<1>1. CASE \E k \in Key, b \in Body : Put(k, b)
  <2>. PICK k \in Key, b \in Body : Put(k, b)
    BY <1>1
  <2>1. [body |-> b, ver |-> puts + 1] \in Object
    BY DEF TypeInv, TypeOK, Object, MaybeBody
  <2>. QED
    BY <2>1 DEF Put, TypeInv, TypeOK, WorkerPlaced, RemoversPlaced, content, index, history
<1>2. CASE \E k \in Key : Delete(k)
  <2>. PICK k \in Key : Delete(k)
    BY <1>2
  <2>1. [body |-> None, ver |-> 0] \in Object
    BY DEF Object, MaybeBody
  <2>. QED
    BY <2>1 DEF Delete, TypeInv, TypeOK, WorkerPlaced, RemoversPlaced, content, index, history
<1>. QED
  BY <1>1, <1>2 DEF SourceStep

\* The worker's record is typed and its counter placed in every kind of step:
\* where it goes on with the current object, and where it settles it.
LEMMA GotoPlaced ==
  ASSUME TypeInv, NEW pc \in FilePc \cup ReapPc, Goto(pc),
         wk.pc \in FilePc \/ (wk.pc \in ReapPc /\ pc \in ReapPc)
  PROVE  wk' \in WorkerRecord /\ WorkerPlaced'
<1>1. pc \in WorkerPc
  BY DEF WorkerPc
<1>2. wk \in WorkerRecord
  BY DEF TypeInv, TypeOK
<1>. QED
  BY <1>1, <1>2, GotoTyped DEF TypeInv, WorkerPlaced, FilePc, ReapPc

LEMMA SettlePlaced ==
  ASSUME TypeInv, wk.dir \in Directory, NEW ok \in BOOLEAN, Settle(ok)
  PROVE  wk' \in WorkerRecord /\ WorkerPlaced'
<1>1. wk \in WorkerRecord
  BY DEF TypeInv, TypeOK
<1>. QED
  BY <1>1, SettleTyped DEF WorkerPlaced, FilePc, ReapPc

LEMMA IdlePlaced ==
  ASSUME wk' = IdleWorker
  PROVE  wk' \in WorkerRecord /\ WorkerPlaced'
BY IdleTyped DEF WorkerPlaced, FilePc, ReapPc

LEMMA FailFileTyped ==
  ASSUME TypeInv, FailFile, wk.dir \in Directory, wk.todo # {}
  PROVE  /\ files' \in [User -> [Key -> Row]]
         /\ lost' \in [User -> SUBSET Body]
         /\ wk' \in WorkerRecord
         /\ WorkerPlaced'
<1>1. wk.listing[Current] \in Nat
  <2>1. wk.todo \in SUBSET Key /\ wk.listing \in [Key -> Nat]
    BY DEF TypeInv, TypeOK, WorkerRecord
  <2>. QED
    BY <2>1, CurrentIsListed
<1>2. Upsert("failed", None, wk.listing[Current]) /\ Settle(FALSE)
  BY DEF FailFile
<1>. QED
  BY <1>1, <1>2, UpsertTyped, SettlePlaced DEF TypeInv, MaybeBody

LEMMA CutShortTyped ==
  ASSUME TypeOK, NEW u \in User, NEW b, NEW pc, CutShort(u, b, pc)
  PROVE  /\ lost' \in [User -> SUBSET Body]
         /\ halved' \in [User -> SUBSET Body]
         /\ faults' \in Nat
         /\ raced' = raced
<1>1. lost' \in [User -> SUBSET Body]
  BY DEF CutShort, Forsake, TypeOK
<1>2. halved' \in [User -> SUBSET Body]
  BY DEF CutShort, TypeOK
<1>. QED
  BY <1>1, <1>2 DEF CutShort, TypeOK

LEMMA TypeFileStep ==
  ASSUME TypeInv,
         \/ SkipUnchanged \/ Fetch \/ FetchFails
         \/ ReuseText \/ Rechunk \/ Extract \/ ExtractFails \/ ReplaceChunks
         \/ CheckPossession \/ Embed \/ PutCachedVectors \/ IndexBlob \/ AddUserBlob
         \/ Attribute \/ CountFile \/ ProcessRaises
  PROVE  TypeInv'
<1>. USE DEF TypeInv
<1>1. CASE SkipUnchanged
  <2>1. wk' \in WorkerRecord /\ WorkerPlaced'
    BY <1>1, SettlePlaced DEF SkipUnchanged, AtFile, WorkerPlaced
  <2>. QED
    BY <1>1, <2>1 DEF SkipUnchanged, TypeOK, RemoversPlaced, world, content, index, history
<1>2. CASE Fetch
  <2>1. wk.todo \in SUBSET Key /\ wk.dir \in Directory /\ wk.todo # {}
    BY <1>2 DEF Fetch, AtFile, TypeOK, WorkerRecord, WorkerPlaced
  <2>2. source[Current].body \in Body
    BY <1>2, <2>1, CurrentIsListed DEF Fetch, TypeOK, Object, MaybeBody
  <2>3. wk' \in WorkerRecord
    BY <1>2, <2>2 DEF Fetch, TypeOK, WorkerRecord, MaybeBody, FilePc
  <2>4. wk'.pc = "text" /\ wk'.body \in Body /\ wk'.todo = wk.todo /\ wk'.dir = wk.dir
    BY <1>2, <2>2 DEF Fetch, TypeOK, WorkerRecord
  <2>5. WorkerPlaced'
    BY <2>1, <2>4 DEF WorkerPlaced, FilePc, ReapPc
  <2>. QED
    BY <1>2, <2>3, <2>5 DEF Fetch, TypeOK, RemoversPlaced, world, content, index, history
<1>3. CASE FetchFails
  <2>1. FailFile /\ wk.dir \in Directory /\ wk.todo # {} /\ UNCHANGED faults
    BY <1>3 DEF FetchFails, AtFile, WorkerPlaced
  <2>. QED
    BY <2>1, FailFileTyped DEF FailFile, TypeOK, RemoversPlaced, world, content, index
<1>4. CASE ExtractFails
  <2>1. FailFile /\ wk.dir \in Directory /\ wk.todo # {} /\ UNCHANGED faults
    BY <1>4 DEF ExtractFails, WorkerPlaced, FilePc
  <2>. QED
    BY <2>1, FailFileTyped DEF FailFile, TypeOK, RemoversPlaced, world, content, index
<1>5. CASE ProcessRaises
  <2>1. FailFile /\ wk.dir \in Directory /\ wk.todo # {} /\ faults' = faults + 1
    BY <1>5 DEF ProcessRaises, AtFile, WorkerPlaced, FilePc
  <2>. QED
    BY <2>1, FailFileTyped DEF FailFile, TypeOK, RemoversPlaced, world, content, index
<1>6. CASE ReuseText
  <2>1. wk' \in WorkerRecord /\ WorkerPlaced'
    BY <1>6, GotoPlaced DEF ReuseText, FilePc
  <2>. QED
    BY <1>6, <2>1 DEF ReuseText, TypeOK, WorkerPlaced, RemoversPlaced, FilePc, world, content, index, history
<1>7. CASE Rechunk
  <2>1. wk' \in WorkerRecord /\ WorkerPlaced'
    BY <1>7, GotoPlaced DEF Rechunk, FilePc
  <2>. QED
    BY <1>7, <2>1 DEF Rechunk, TypeOK, WorkerPlaced, RemoversPlaced, FilePc, world, index, history
<1>8. CASE Extract
  <2>1. wk' \in WorkerRecord /\ WorkerPlaced'
    BY <1>8, GotoPlaced DEF Extract, FilePc
  <2>. QED
    BY <1>8, <2>1 DEF Extract, TypeOK, WorkerPlaced, RemoversPlaced, FilePc, world, index, history
<1>9. CASE ReplaceChunks
  <2>1. wk' \in WorkerRecord /\ WorkerPlaced'
    BY <1>9, GotoPlaced DEF ReplaceChunks, FilePc
  <2>. QED
    BY <1>9, <2>1 DEF ReplaceChunks, TypeOK, WorkerPlaced, RemoversPlaced, FilePc, world, index, history
<1>10. CASE CheckPossession
  <2>1. wk' \in WorkerRecord /\ WorkerPlaced'
    BY <1>10, GotoPlaced DEF CheckPossession, FilePc
  <2>. QED
    BY <1>10, <2>1 DEF CheckPossession, TypeOK, WorkerPlaced, RemoversPlaced, FilePc, world, content, index, history
<1>11. CASE Embed
  <2>1. wk' \in WorkerRecord /\ WorkerPlaced'
    BY <1>11, GotoPlaced DEF Embed, FilePc
  <2>. QED
    BY <1>11, <2>1 DEF Embed, TypeOK, WorkerPlaced, RemoversPlaced, FilePc, world, index, history
<1>12. CASE PutCachedVectors
  <2>1. wk' \in WorkerRecord /\ WorkerPlaced'
    BY <1>12, GotoPlaced DEF PutCachedVectors, FilePc
  <2>. QED
    BY <1>12, <2>1 DEF PutCachedVectors, TypeOK, WorkerPlaced, RemoversPlaced, FilePc, world, index, history
<1>13. CASE IndexBlob
  <2>1. wk' \in WorkerRecord /\ WorkerPlaced'
    BY <1>13, GotoPlaced DEF IndexBlob, FilePc
  <2>2. Tenant \in User /\ wk.body \in Body
    BY <1>13, OwnerAssumption DEF IndexBlob, WorkerPlaced, FilePc, Tenant
  <2>. QED
    BY <1>13, <2>1, <2>2 DEF IndexBlob, TypeOK, RemoversPlaced, world, content, history
<1>14. CASE AddUserBlob
  <2>1. wk' \in WorkerRecord /\ WorkerPlaced'
    BY <1>14, GotoPlaced DEF AddUserBlob, FilePc
  <2>2. Tenant \in User /\ wk.body \in Body
    BY <1>14, OwnerAssumption DEF AddUserBlob, WorkerPlaced, FilePc, Tenant
  <2>. QED
    BY <1>14, <2>1, <2>2 DEF AddUserBlob, TypeOK, RemoversPlaced, world, content, history
<1>15. CASE Attribute
  <2>1. wk.pc = "attribute" /\ wk.dir \in Directory /\ wk.todo # {} /\ wk.body \in MaybeBody
    BY <1>15 DEF Attribute, WorkerPlaced, FilePc, MaybeBody
  <2>2. wk.listing[Current] \in Nat
    <3>1. wk.todo \in SUBSET Key /\ wk.listing \in [Key -> Nat]
      BY DEF TypeOK, WorkerRecord
    <3>. QED
      BY <2>1, <3>1, CurrentIsListed
  <2>3. Upsert("indexed", wk.body, wk.listing[Current]) /\ Goto("count")
    BY <1>15 DEF Attribute
  <2>4. files' \in [User -> [Key -> Row]] /\ lost' \in [User -> SUBSET Body]
    BY <2>1, <2>2, <2>3, UpsertTyped
  <2>5. wk' \in WorkerRecord /\ WorkerPlaced'
    BY <2>1, <2>3, GotoPlaced DEF FilePc
  <2>6. Tenant \in User /\ wk.body \in Body
    BY <2>1, OwnerAssumption DEF WorkerPlaced, FilePc, Tenant
  <2>7. raced' \in [User -> SUBSET Body]
    <3>. DEFINE bs == {b \in {wk.body} : Dropping(Tenant, b)}
    <3>1. bs \in SUBSET Body /\ Race(Tenant, bs)
      BY <1>15, <2>6 DEF Attribute
    <3>. HIDE DEF bs
    <3>. QED
      BY <2>6, <3>1, RaceTyped
  <2>. QED
    BY <1>15, <2>4, <2>5, <2>7 DEF Attribute, TypeOK, RemoversPlaced, world, content, index
<1>16. CASE CountFile
  <2>1. wk' \in WorkerRecord /\ WorkerPlaced'
    BY <1>16, SettlePlaced DEF CountFile, WorkerPlaced, FilePc
  <2>. QED
    BY <1>16, <2>1 DEF CountFile, TypeOK, RemoversPlaced, world, content, index, history
<1>. QED
  BY <1>1, <1>2, <1>3, <1>4, <1>5, <1>6, <1>7, <1>8, <1>9, <1>10, <1>11, <1>12, <1>13, <1>14, <1>15, <1>16

LEMMA TypeRunStep ==
  ASSUME TypeInv,
         \/ \E d \in Directory : StartSync(d)
         \/ StartReap \/ (\E x \in wk.gone : ReapRow(x))
         \/ ReapCheck \/ ReapDrop \/ ReapDisown \/ Finish \/ Crash
  PROVE  TypeInv'
<1>. USE DEF TypeInv
<1>1. CASE \E d \in Directory : StartSync(d)
  <2>. PICK d \in Directory : StartSync(d)
    BY <1>1
  <2>. DEFINE listing == [k \in Key |-> IF k \in Under[d] THEN source[k].ver ELSE 0]
              todo == {k \in Under[d] : source[k].body # None}
  <2>1. listing \in [Key -> Nat]
    BY DEF TypeOK, Object
  <2>2. todo \in SUBSET Key
    BY UnderAssumption
  <2>3. wk' = [IdleWorker EXCEPT !.pc = "next", !.dir = d, !.listing = listing, !.todo = todo]
    BY DEF StartSync
  <2>. HIDE DEF listing, todo
  <2>4. wk' \in WorkerRecord /\ wk'.pc = "next" /\ wk'.dir = d
    BY <2>1, <2>2, <2>3 DEF IdleWorker, WorkerRecord, MaybeBody
  <2>5. WorkerPlaced'
    BY <2>4 DEF WorkerPlaced, FilePc, ReapPc
  <2>. QED
    BY <2>4, <2>5 DEF StartSync, TypeOK, RemoversPlaced, world, content, index, history
<1>2. CASE StartReap
  <2>. DEFINE rows == {k \in Key : Live(files[Tenant][k]) /\ files[Tenant][k].dir = wk.dir}
              absent == {k \in rows : wk.listing[k] = 0}
              gone == {[key |-> k, sha |-> files[Tenant][k].sha] : k \in absent}
  <2>1. Tenant \in User
    BY <1>2, OwnerAssumption DEF StartReap, WorkerPlaced, Tenant
  <2>2. \A k \in Key : files[Tenant][k].sha \in MaybeBody
    BY <2>1 DEF TypeOK, Row
  <2>3. gone \subseteq [key : Key, sha : MaybeBody]
    BY <2>2
  <2>4. wk' = [wk EXCEPT !.pc = "reap", !.gone = gone]
    BY <1>2 DEF StartReap
  <2>5. wk \in WorkerRecord /\ wk.dir \in Directory
    BY <1>2 DEF StartReap, TypeOK, WorkerPlaced
  <2>. HIDE DEF gone
  <2>6. wk' \in WorkerRecord /\ wk'.pc = "reap" /\ wk'.dir \in Directory
    BY <2>3, <2>4, <2>5 DEF WorkerRecord
  <2>7. WorkerPlaced'
    BY <2>6 DEF WorkerPlaced, FilePc, ReapPc
  <2>. QED
    BY <1>2, <2>6, <2>7 DEF StartReap, TypeOK, RemoversPlaced, world, content, index, history
<1>3. CASE \E x \in wk.gone : ReapRow(x)
  <2>. PICK x \in wk.gone : ReapRow(x)
    BY <1>3
  <2>1. wk \in WorkerRecord /\ wk.dir \in Directory
    BY DEF ReapRow, TypeOK, WorkerPlaced
  <2>2. x.key \in Key /\ x.sha \in MaybeBody /\ Tenant \in User
    BY <2>1, OwnerAssumption DEF WorkerRecord, Tenant
  <2>3. files' \in [User -> [Key -> Row]]
    BY <2>2, SoftDeleteTyped DEF ReapRow
  <2>4. wk' = [wk EXCEPT !.gone = @ \ {x}, !.body = x.sha,
                         !.pc = IF x.sha = None THEN "reap" ELSE "check"]
    BY DEF ReapRow
  <2>5. wk' \in WorkerRecord
    BY <2>1, <2>2, <2>4 DEF WorkerRecord, ReapPc
  <2>6. wk'.dir \in Directory /\ wk'.body = x.sha
          /\ wk'.pc = (IF x.sha = None THEN "reap" ELSE "check")
    BY <2>1, <2>4 DEF WorkerRecord
  <2>7. WorkerPlaced'
    BY <2>2, <2>6 DEF WorkerPlaced, FilePc, RemovalPc, ReapPc, MaybeBody
  <2>. QED
    BY <2>3, <2>5, <2>7 DEF ReapRow, TypeOK, RemoversPlaced, world, content, index, history
<1>4. CASE ReapCheck
  <2>1. wk \in WorkerRecord /\ wk.dir \in Directory /\ wk.body \in Body
    BY <1>4 DEF ReapCheck, TypeOK, WorkerPlaced, ReapPc
  <2>2. wk' = [wk EXCEPT !.pc = "reap", !.body = None] \/ wk' = [wk EXCEPT !.pc = "drop"]
    BY <1>4 DEF ReapCheck
  <2>3. wk' \in WorkerRecord /\ wk'.dir = wk.dir /\ wk'.pc \in {"reap", "drop"}
          /\ (wk'.pc = "drop" => wk'.body = wk.body)
    BY <2>1, <2>2 DEF WorkerRecord, MaybeBody, ReapPc
  <2>4. WorkerPlaced'
    BY <2>1, <2>3 DEF WorkerPlaced, FilePc, ReapPc
  <2>. QED
    BY <1>4, <2>3, <2>4 DEF ReapCheck, TypeOK, RemoversPlaced, world, content, index, history
<1>5. CASE ReapDrop
  <2>1. wk' \in WorkerRecord /\ WorkerPlaced'
    BY <1>5, GotoPlaced DEF ReapDrop, ReapPc
  <2>2. Tenant \in User
    BY <1>5, OwnerAssumption DEF ReapDrop, WorkerPlaced, Tenant
  <2>. QED
    BY <1>5, <2>1, <2>2 DEF ReapDrop, DropVectors, TypeOK, RemoversPlaced, world, content, history
<1>6. CASE ReapDisown
  <2>1. wk \in WorkerRecord /\ wk.dir \in Directory /\ Tenant \in User
    BY <1>6, OwnerAssumption DEF ReapDisown, TypeOK, WorkerPlaced, Tenant
  <2>2. wk' = [wk EXCEPT !.pc = "reap", !.body = None]
    BY <1>6 DEF ReapDisown
  <2>3. wk' \in WorkerRecord /\ wk'.pc = "reap" /\ wk'.dir = wk.dir
    BY <2>1, <2>2 DEF WorkerRecord, MaybeBody
  <2>4. WorkerPlaced'
    BY <2>1, <2>3 DEF WorkerPlaced, FilePc, ReapPc
  <2>5. wk.body \in Body
    BY <1>6 DEF ReapDisown, WorkerPlaced, ReapPc
  <2>6. /\ held' \in [User -> SUBSET Body] /\ lost' \in [User -> SUBSET Body]
        /\ halved' \in [User -> SUBSET Body] /\ raced' \in [User -> SUBSET Body]
        /\ removed' = removed
    BY <1>6, <2>1, <2>5, DisownTyped DEF ReapDisown
  <2>. QED
    BY <1>6, <2>3, <2>4, <2>6 DEF ReapDisown, TypeOK, RemoversPlaced, world, content
<1>7. CASE Finish
  <2>1. wk' \in WorkerRecord /\ WorkerPlaced'
    BY <1>7, IdlePlaced DEF Finish
  <2>. QED
    BY <1>7, <2>1 DEF Finish, TypeOK, RemoversPlaced, world, content, index, history
<1>8. CASE Crash
  <2>1. wk' \in WorkerRecord /\ WorkerPlaced'
    BY <1>8, IdlePlaced DEF Crash
  <2>2. Tenant \in User
    BY <1>8, OwnerAssumption DEF Crash, WorkerPlaced, Tenant
  <2>3. /\ lost' \in [User -> SUBSET Body]
        /\ halved' \in [User -> SUBSET Body]
        /\ faults' \in Nat
        /\ raced' = raced
    BY <1>8, <2>2, CutShortTyped DEF Crash
  <2>. QED
    BY <1>8, <2>1, <2>3 DEF Crash, TypeOK, RemoversPlaced, world, content, index
<1>. QED
  BY <1>1, <1>2, <1>3, <1>4, <1>5, <1>6, <1>7, <1>8

\* A thread that moves to a well-placed record leaves all of them well placed.
LEMMA ServePlaced ==
  ASSUME TypeInv, NEW r \in Remover, NEW x \in RemoverRecord, Serve(r, x),
         x.pc \in RemovalPc => x.user \in User /\ x.key \in Key,
         x.pc \in ReapPc => x.sha \in Body
  PROVE  rm' \in [Remover -> RemoverRecord] /\ RemoversPlaced'
<1>1. rm \in [Remover -> RemoverRecord]
  BY DEF TypeInv, TypeOK
<1>2. /\ rm' \in [Remover -> RemoverRecord]
      /\ rm'[r] = x
      /\ \A q \in Remover \ {r} : rm'[q] = rm[q]
  BY <1>1, ServeTyped
<1>. QED
  BY <1>2 DEF TypeInv, RemoversPlaced

\* Going on to pc, or back to idle, keeps what the thread remembers.
LEMMA RemoverGoes ==
  ASSUME TypeInv, NEW r \in Remover, NEW pc \in ReapPc, rm[r].pc \in RemovalPc,
         rm[r].sha \in Body,
         Serve(r, [rm[r] EXCEPT !.pc = pc]) \/ Serve(r, Served)
  PROVE  rm' \in [Remover -> RemoverRecord] /\ RemoversPlaced'
<1>1. CASE Serve(r, Served)
  BY <1>1, ServePlaced, IdleTyped DEF RemovalPc, ReapPc
<1>2. CASE Serve(r, [rm[r] EXCEPT !.pc = pc])
  <2>. DEFINE x == [rm[r] EXCEPT !.pc = pc]
  <2>1. rm[r] \in RemoverRecord
    BY DEF TypeInv, TypeOK
  <2>2. x \in RemoverRecord /\ x.user = rm[r].user /\ x.key = rm[r].key /\ x.sha = rm[r].sha
    BY <2>1 DEF RemoverRecord, RemovalPc
  <2>3. rm[r].user \in User /\ rm[r].key \in Key
    BY DEF TypeInv, RemoversPlaced
  <2>. HIDE DEF x
  <2>4. Serve(r, x)
    BY <1>2 DEF x
  <2>. QED
    BY <2>2, <2>3, <2>4, ServePlaced
<1>. QED
  BY <1>1, <1>2

LEMMA TypeRemoverStep ==
  ASSUME TypeInv, NEW r \in Remover, RemoverStep(r)
  PROVE  TypeInv'
<1>. USE DEF TypeInv
<1>1. CASE \E u \in User, k \in Key : BeginRemoval(r, u, k)
  <2>. PICK u \in User, k \in Key : BeginRemoval(r, u, k)
    BY <1>1
  <2>. DEFINE x == [pc |-> "delete", user |-> u, key |-> k, sha |-> files[u][k].sha]
  <2>1. files[u][k].sha \in MaybeBody
    BY DEF TypeOK, Row
  <2>2. x \in RemoverRecord /\ x.user \in User /\ x.key \in Key /\ x.pc \notin ReapPc
    BY <2>1 DEF RemoverRecord, RemovalPc, ReapPc
  <2>3. Serve(r, x)
    BY DEF BeginRemoval
  <2>. HIDE DEF x
  <2>4. rm' \in [Remover -> RemoverRecord] /\ RemoversPlaced'
    BY <2>2, <2>3, ServePlaced
  <2>. QED
    BY <2>4 DEF BeginRemoval, TypeOK, WorkerPlaced, world, content, index, history
<1>2. CASE RemoveRow(r)
  <2>1. rm[r].user \in User /\ rm[r].key \in Key
    BY <1>2 DEF RemoveRow, RemoversPlaced, RemovalPc
  <2>2. rm[r].sha \in MaybeBody
    BY DEF TypeOK, RemoverRecord
  <2>3. files' \in [User -> [Key -> Row]]
    BY <1>2, <2>1, SoftDeleteTyped DEF RemoveRow
  <2>4. rm' \in [Remover -> RemoverRecord] /\ RemoversPlaced'
    <3>1. CASE rm[r].sha = None
      BY <1>2, <3>1, ServePlaced, IdleTyped DEF RemoveRow, RemovalPc, ReapPc
    <3>2. CASE rm[r].sha # None
      BY <1>2, <2>2, <3>2, RemoverGoes DEF RemoveRow, RemovalPc, ReapPc, MaybeBody
    <3>. QED
      BY <3>1, <3>2
  <2>5. lost' \in [User -> SUBSET Body] /\ removed' \in [User -> SUBSET Key]
    BY <1>2, <2>1 DEF RemoveRow, Forsake, TypeOK
  <2>. QED
    BY <1>2, <2>3, <2>4, <2>5 DEF RemoveRow, TypeOK, WorkerPlaced, world, content, index
<1>3. CASE RemovalCheck(r)
  <2>1. rm' \in [Remover -> RemoverRecord] /\ RemoversPlaced'
    BY <1>3, RemoverGoes DEF RemovalCheck, RemoversPlaced, RemovalPc, ReapPc
  <2>. QED
    BY <1>3, <2>1 DEF RemovalCheck, TypeOK, WorkerPlaced, world, content, index, history
<1>4. CASE RemovalDrop(r)
  <2>1. rm' \in [Remover -> RemoverRecord] /\ RemoversPlaced'
    BY <1>4, RemoverGoes DEF RemovalDrop, RemoversPlaced, RemovalPc, ReapPc
  <2>2. rm[r].user \in User /\ rm[r].sha \in Body
    BY <1>4 DEF RemovalDrop, RemoversPlaced, RemovalPc, ReapPc
  <2>3. raced' \in [User -> SUBSET Body]
    <3>. DEFINE bs == {b \in {rm[r].sha} : Recording(rm[r].user, b)}
    <3>1. bs \in SUBSET Body /\ Race(rm[r].user, bs)
      BY <1>4, <2>2 DEF RemovalDrop
    <3>. HIDE DEF bs
    <3>. QED
      BY <2>2, <3>1, RaceTyped
  <2>. QED
    BY <1>4, <2>1, <2>2, <2>3 DEF RemovalDrop, DropVectors, TypeOK, WorkerPlaced, world, content
<1>5. CASE RemovalDisown(r)
  <2>1. rm' \in [Remover -> RemoverRecord] /\ RemoversPlaced'
    BY <1>5, ServePlaced, IdleTyped DEF RemovalDisown, RemovalPc, ReapPc
  <2>2. rm[r].user \in User /\ rm[r].sha \in Body
    BY <1>5 DEF RemovalDisown, RemoversPlaced, RemovalPc, ReapPc
  <2>3. /\ held' \in [User -> SUBSET Body] /\ lost' \in [User -> SUBSET Body]
        /\ halved' \in [User -> SUBSET Body] /\ raced' \in [User -> SUBSET Body]
        /\ removed' = removed
    BY <1>5, <2>2, DisownTyped DEF RemovalDisown
  <2>. QED
    BY <1>5, <2>1, <2>3 DEF RemovalDisown, TypeOK, WorkerPlaced, world, content
<1>6. CASE RemovalFails(r)
  <2>1. rm' \in [Remover -> RemoverRecord] /\ RemoversPlaced'
    BY <1>6, ServePlaced, IdleTyped DEF RemovalFails, RemovalPc, ReapPc
  <2>2. rm[r].user \in User
    BY <1>6 DEF RemovalFails, RemoversPlaced
  <2>3. /\ lost' \in [User -> SUBSET Body]
        /\ halved' \in [User -> SUBSET Body]
        /\ faults' \in Nat
        /\ raced' = raced
    BY <1>6, <2>2, CutShortTyped DEF RemovalFails
  <2>. QED
    BY <1>6, <2>1, <2>3 DEF RemovalFails, TypeOK, WorkerPlaced, world, content, index
<1>. QED
  BY <1>1, <1>2, <1>3, <1>4, <1>5, <1>6 DEF RemoverStep

LEMMA TypeStep == TypeInv /\ [Next]_vars => TypeInv'
<1>. SUFFICES ASSUME TypeInv, [Next]_vars PROVE TypeInv'
  OBVIOUS
<1>1. CASE UNCHANGED vars
  BY <1>1 DEF vars, TypeInv, TypeOK, WorkerPlaced, RemoversPlaced
<1>2. CASE SourceStep
  BY <1>2, TypeSourceStep
<1>3. CASE WorkerStep
  BY <1>3, TypeFileStep, TypeRunStep DEF WorkerStep
<1>4. CASE \E r \in Remover : RemoverStep(r)
  BY <1>4, TypeRemoverStep
<1>. QED
  BY <1>1, <1>2, <1>3, <1>4 DEF Next

\* The variables keep their types, and the program counters mean what they say.
THEOREM RecordsAreTyped == Spec => []TypeOK
<1>1. TypeInv => TypeOK
  BY DEF TypeInv
<1>. QED
  BY <1>1, TypeInit, TypeStep, PTL DEF Spec

-----------------------------------------------------------------------------
(* What the steps of the other kind leave alone.                           *)

\* Outside _process_object the worker is not at a point of it afterwards.
LEMMA WorkerLeavesFiles ==
  ASSUME TypeInv,
         \/ \E d \in Directory : StartSync(d)
         \/ StartReap \/ (\E x \in wk.gone : ReapRow(x))
         \/ ReapCheck \/ ReapDrop \/ ReapDisown \/ Finish \/ Crash
  PROVE  wk'.pc \notin FilePc
<1>w. wk \in WorkerRecord
  BY DEF TypeInv, TypeOK
<1>1. CASE \E d \in Directory : StartSync(d)
  BY <1>1 DEF StartSync, IdleWorker, FilePc
<1>2. CASE StartReap
  BY <1>w, <1>2 DEF StartReap, WorkerRecord, FilePc
<1>3. CASE \E x \in wk.gone : ReapRow(x)
  BY <1>w, <1>3 DEF ReapRow, WorkerRecord, FilePc
<1>4. CASE ReapCheck
  BY <1>w, <1>4 DEF ReapCheck, WorkerRecord, FilePc
<1>5. CASE ReapDrop
  BY <1>w, <1>5, GotoTyped DEF ReapDrop, WorkerPc, ReapPc, FilePc
<1>6. CASE ReapDisown
  BY <1>w, <1>6 DEF ReapDisown, WorkerRecord, FilePc
<1>7. CASE Finish \/ Crash
  BY <1>7, IdleTyped DEF Finish, Crash, FilePc
<1>. QED
  BY <1>1, <1>2, <1>3, <1>4, <1>5, <1>6, <1>7

\* A removal moves neither the source nor the worker, nor what users share.
LEMMA RemoverLeavesContent ==
  ASSUME NEW r \in Remover, RemoverStep(r)
  PROVE  /\ wk' = wk
         /\ source' = source /\ puts' = puts
         /\ chunked' = chunked /\ cached' = cached /\ paid' = paid
BY DEF RemoverStep, BeginRemoval, RemoveRow, RemovalCheck, RemovalDrop,
       RemovalDisown, RemovalFails, world, content

\* TypeInv holds before and after every step; cited by the invariants below.
LEMMA Placed == Spec => []TypeInv
BY TypeInit, TypeStep, PTL DEF Spec

-----------------------------------------------------------------------------
(* What a search can return has text.                                      *)

\* From these points on the body at hand has its chunks.
TextedPc == {"own", "embed", "cache", "index", "possess", "attribute", "count"}
BodyHasText == wk.pc \in TextedPc => wk.body \in chunked
TextInv == HitsResolve /\ BodyHasText

LEMMA TextInit == Init => TextInv
<1>1. "idle" \notin TextedPc
  BY DEF TextedPc
<1>. QED
  BY <1>1, IdleTyped DEF Init, TextInv, HitsResolve, BodyHasText

\* Chunks are never deleted: what users have may shrink, chunks may grow.
LEMMA TextKept ==
  ASSUME TextInv,
         \A u \in User : held'[u] \subseteq held[u] /\ vecs'[u] \subseteq vecs[u],
         chunked \subseteq chunked',
         wk'.pc \in TextedPc => wk'.body \in chunked'
  PROVE  TextInv'
BY DEF TextInv, HitsResolve, BodyHasText

\* A worker that leaves the object, or the sync, holds no body to index.
LEMMA TextLeft ==
  ASSUME TextInv,
         \A u \in User : held'[u] \subseteq held[u] /\ vecs'[u] \subseteq vecs[u],
         chunked' = chunked,
         wk'.pc \notin TextedPc
  PROVE  TextInv'
BY TextKept

LEMMA TextFileStep ==
  ASSUME TypeInv, TextInv,
         \/ SkipUnchanged \/ Fetch \/ FetchFails
         \/ ReuseText \/ Rechunk \/ Extract \/ ExtractFails \/ ReplaceChunks
         \/ CheckPossession \/ Embed \/ PutCachedVectors \/ IndexBlob \/ AddUserBlob
         \/ Attribute \/ CountFile \/ ProcessRaises
  PROVE  TextInv'
<1>w. wk \in WorkerRecord
  BY DEF TypeInv, TypeOK
<1>1. CASE SkipUnchanged \/ CountFile
  <2>1. wk'.pc \notin TextedPc
    BY <1>w, <1>1, SettleTyped DEF SkipUnchanged, CountFile, TextedPc
  <2>. QED
    BY <1>1, <2>1, TextLeft DEF SkipUnchanged, CountFile, content, index
<1>2. CASE FetchFails \/ ExtractFails \/ ProcessRaises
  <2>1. wk'.pc \notin TextedPc
    BY <1>w, <1>2, SettleTyped
    DEF FetchFails, ExtractFails, ProcessRaises, FailFile, TextedPc
  <2>. QED
    BY <1>2, <2>1, TextLeft
    DEF FetchFails, ExtractFails, ProcessRaises, FailFile, content, index
<1>3. CASE Fetch
  <2>1. wk'.pc \notin TextedPc
    BY <1>w, <1>3 DEF Fetch, WorkerRecord, TextedPc
  <2>. QED
    BY <1>3, <2>1, TextLeft DEF Fetch, content, index
<1>4. CASE Extract
  <2>1. wk'.pc \notin TextedPc
    BY <1>w, <1>4, GotoTyped DEF Extract, WorkerPc, FilePc, TextedPc
  <2>. QED
    BY <1>4, <2>1, TextLeft DEF Extract, index
<1>5. CASE ReuseText
  <2>1. wk'.body \in chunked
    BY <1>w, <1>5, GotoTyped DEF ReuseText, WorkerPc, FilePc
  <2>. QED
    BY <1>5, <2>1, TextKept DEF ReuseText, content, index
<1>6. CASE Rechunk
  <2>1. wk'.body \in chunked'
    BY <1>w, <1>6, GotoTyped DEF Rechunk, WorkerPc, FilePc
  <2>. QED
    BY <1>6, <2>1, TextKept DEF Rechunk, index
<1>7. CASE ReplaceChunks
  <2>1. wk'.body \in chunked'
    BY <1>w, <1>7, GotoTyped DEF ReplaceChunks, WorkerPc, FilePc
  <2>. QED
    BY <1>7, <2>1, TextKept DEF ReplaceChunks, index
<1>8. CASE CheckPossession
  <2>1. wk'.body = wk.body /\ wk.body \in chunked
    BY <1>w, <1>8, GotoTyped
    DEF CheckPossession, WorkerPc, FilePc, TextInv, BodyHasText, TextedPc
  <2>. QED
    BY <1>8, <2>1, TextKept DEF CheckPossession, content, index
<1>9. CASE Embed
  <2>1. wk'.body = wk.body /\ wk.body \in chunked
    BY <1>w, <1>9, GotoTyped
    DEF Embed, WorkerPc, FilePc, TextInv, BodyHasText, TextedPc
  <2>. QED
    BY <1>9, <2>1, TextKept DEF Embed, index
<1>10. CASE PutCachedVectors
  <2>1. wk'.body = wk.body /\ wk.body \in chunked
    BY <1>w, <1>10, GotoTyped
    DEF PutCachedVectors, WorkerPc, FilePc, TextInv, BodyHasText, TextedPc
  <2>. QED
    BY <1>10, <2>1, TextKept DEF PutCachedVectors, index
<1>11. CASE IndexBlob
  <2>1. wk'.body = wk.body /\ wk.body \in chunked
    BY <1>w, <1>11, GotoTyped
    DEF IndexBlob, WorkerPc, FilePc, TextInv, BodyHasText, TextedPc
  <2>2. \A u \in User : vecs'[u] \subseteq vecs[u] \cup {wk.body}
    BY <1>11 DEF IndexBlob, TypeInv, TypeOK
  <2>. QED
    BY <1>11, <2>1, <2>2 DEF IndexBlob, TextInv, HitsResolve, BodyHasText, content
<1>12. CASE AddUserBlob
  <2>1. wk'.body = wk.body /\ wk.body \in chunked
    BY <1>w, <1>12, GotoTyped
    DEF AddUserBlob, WorkerPc, FilePc, TextInv, BodyHasText, TextedPc
  <2>2. \A u \in User : held'[u] \subseteq held[u] \cup {wk.body}
    BY <1>12 DEF AddUserBlob, TypeInv, TypeOK
  <2>. QED
    BY <1>12, <2>1, <2>2 DEF AddUserBlob, TextInv, HitsResolve, BodyHasText, content
<1>13. CASE Attribute
  <2>1. wk'.body = wk.body /\ wk.body \in chunked
    BY <1>w, <1>13, GotoTyped
    DEF Attribute, WorkerPc, FilePc, TextInv, BodyHasText, TextedPc
  <2>. QED
    BY <1>13, <2>1, TextKept DEF Attribute, content, index
<1>. QED
  BY <1>1, <1>2, <1>3, <1>4, <1>5, <1>6, <1>7, <1>8, <1>9, <1>10, <1>11, <1>12, <1>13

LEMMA TextRunStep ==
  ASSUME TypeInv, TextInv,
         \/ \E d \in Directory : StartSync(d)
         \/ StartReap \/ (\E x \in wk.gone : ReapRow(x))
         \/ ReapCheck \/ ReapDrop \/ ReapDisown \/ Finish \/ Crash
  PROVE  TextInv'
<1>1. /\ chunked' = chunked
      /\ \A u \in User : held'[u] \subseteq held[u] /\ vecs'[u] \subseteq vecs[u]
  <2>1. CASE ReapDrop
    BY <2>1 DEF ReapDrop, DropVectors, content, TypeInv, TypeOK
  <2>2. CASE ReapDisown
    BY <2>2 DEF ReapDisown, Disown, content, TypeInv, TypeOK
  <2>3. CASE Crash
    BY <2>3 DEF Crash, content, index
  <2>. QED
    BY <2>1, <2>2, <2>3
    DEF StartSync, StartReap, ReapRow, ReapCheck, Finish, content, index
<1>2. wk'.pc \notin TextedPc
  BY WorkerLeavesFiles DEF FilePc, TextedPc
<1>. QED
  BY <1>1, <1>2, TextLeft

LEMMA TextStep == TypeInv /\ TextInv /\ [Next]_vars => TextInv'
<1>. SUFFICES ASSUME TypeInv, TextInv, [Next]_vars PROVE TextInv'
  OBVIOUS
<1>1. CASE UNCHANGED vars
  BY <1>1 DEF vars, TextInv, HitsResolve, BodyHasText
<1>2. CASE SourceStep
  BY <1>2 DEF SourceStep, Put, Delete, content, index, TextInv, HitsResolve, BodyHasText
<1>3. CASE WorkerStep
  BY <1>3, TextFileStep, TextRunStep DEF WorkerStep
<1>4. CASE \E r \in Remover : RemoverStep(r)
  <2>p. PICK r \in Remover : RemoverStep(r)
    BY <1>4
  <2>1. wk' = wk /\ chunked' = chunked
    BY <2>p, RemoverLeavesContent
  <2>2. \A u \in User : held'[u] \subseteq held[u] /\ vecs'[u] \subseteq vecs[u]
    <3>1. CASE RemovalDrop(r)
      BY <3>1 DEF RemovalDrop, DropVectors, TypeInv, TypeOK
    <3>2. CASE RemovalDisown(r)
      BY <3>2 DEF RemovalDisown, Disown, TypeInv, TypeOK
    <3>3. CASE UNCHANGED index
      BY <3>3 DEF index
    <3>. QED
      BY <2>p, <3>1, <3>2, <3>3
      DEF RemoverStep, BeginRemoval, RemoveRow, RemovalCheck, RemovalFails
  <2>. QED
    BY <2>1, <2>2, TextKept DEF TextInv, BodyHasText
<1>. QED
  BY <1>1, <1>2, <1>3, <1>4 DEF Next

\* Content a user holds, or has vectors of, has its chunks stored: a search hit
\* can be shown, whichever step the worker or a removal died after.
THEOREM HitsHaveText == Spec => []HitsResolve
<1>1. TextInv => HitsResolve
  BY DEF TextInv
<1>. QED
  BY <1>1, TextInit, TextStep, Placed, PTL DEF Spec

-----------------------------------------------------------------------------
(* A search sees what SearchableContent lets it see.                       *)

\* The owner of the directory at hand is a user.
LEMMA TenantIsUser ==
  ASSUME TypeInv, wk.pc # "idle"
  PROVE  Tenant \in User
BY OwnerAssumption DEF TypeInv, WorkerPlaced, Tenant

LEMMA ContentInit == Init => Content!Init
BY DEF Init, Content!Init

\* The steps of the worker that move a body are steps of the abstract content.
LEMMA ContentWorkerMoves ==
  ASSUME TypeInv, TextInv,
         Rechunk \/ ReplaceChunks \/ IndexBlob \/ AddUserBlob \/ ReapDrop \/ ReapDisown
  PROVE  Content!Next
<1>1. CASE Rechunk \/ ReplaceChunks
  <2>1. wk.body \in Body
    BY <1>1 DEF Rechunk, ReplaceChunks, TypeInv, WorkerPlaced, FilePc
  <2>2. Content!Chunk(wk.body)
    BY <1>1 DEF Rechunk, ReplaceChunks, index, Content!Chunk
  <2>. QED
    BY <2>1, <2>2 DEF Content!Next
<1>2. CASE IndexBlob \/ AddUserBlob
  <2>1. wk.body \in Body /\ Tenant \in User
    BY <1>2, TenantIsUser DEF IndexBlob, AddUserBlob, TypeInv, WorkerPlaced, FilePc
  <2>2. wk.body \in chunked
    BY <1>2 DEF IndexBlob, AddUserBlob, TextInv, BodyHasText, TextedPc
  <2>3. Content!AddVectors(Tenant, wk.body) \/ Content!Possess(Tenant, wk.body)
    BY <1>2, <2>2
    DEF IndexBlob, AddUserBlob, content, Content!AddVectors, Content!Possess
  <2>. QED
    BY <2>1, <2>3 DEF Content!Next
<1>3. CASE ReapDrop \/ ReapDisown
  <2>1. wk.body \in Body /\ Tenant \in User
    BY <1>3, TenantIsUser DEF ReapDrop, ReapDisown, TypeInv, WorkerPlaced, ReapPc
  <2>2. Content!DropVectors(Tenant, wk.body) \/ Content!Disown(Tenant, wk.body)
    BY <1>3
    DEF ReapDrop, ReapDisown, DropVectors, Disown, content,
        Content!DropVectors, Content!Disown
  <2>. QED
    BY <2>1, <2>2 DEF Content!Next
<1>. QED
  BY <1>1, <1>2, <1>3

\* Every other step of the worker leaves the content as it is.
LEMMA ContentWorkerStep ==
  ASSUME TypeInv, TextInv, WorkerStep
  PROVE  Content!Next \/ UNCHANGED Content!vars
<1>1. CASE Rechunk \/ ReplaceChunks \/ IndexBlob \/ AddUserBlob \/ ReapDrop \/ ReapDisown
  BY <1>1, ContentWorkerMoves
<1>2. CASE SkipUnchanged \/ Fetch \/ FetchFails \/ ReuseText \/ Extract \/ ExtractFails
  BY <1>2
  DEF SkipUnchanged, Fetch, FetchFails, ReuseText, Extract, ExtractFails, FailFile,
      content, index, Content!vars
<1>3. CASE \/ CheckPossession \/ Embed \/ PutCachedVectors
           \/ Attribute \/ CountFile \/ ProcessRaises
  BY <1>3
  DEF CheckPossession, Embed, PutCachedVectors, Attribute, CountFile, ProcessRaises,
      FailFile, content, index, Content!vars
<1>4. CASE \/ \E d \in Directory : StartSync(d)
           \/ StartReap \/ (\E x \in wk.gone : ReapRow(x))
           \/ ReapCheck \/ Finish \/ Crash
  BY <1>4
  DEF StartSync, StartReap, ReapRow, ReapCheck, Finish, Crash,
      content, index, Content!vars
<1>. QED
  BY <1>1, <1>2, <1>3, <1>4 DEF WorkerStep

LEMMA ContentRemoverStep ==
  ASSUME TypeInv, NEW r \in Remover, RemoverStep(r)
  PROVE  Content!Next \/ UNCHANGED Content!vars
<1>1. CASE RemovalDrop(r) \/ RemovalDisown(r)
  <2>1. rm[r].sha \in Body /\ rm[r].user \in User
    BY <1>1 DEF RemovalDrop, RemovalDisown, TypeInv, RemoversPlaced, RemovalPc, ReapPc
  <2>2. \/ Content!DropVectors(rm[r].user, rm[r].sha)
        \/ Content!Disown(rm[r].user, rm[r].sha)
    BY <1>1
    DEF RemovalDrop, RemovalDisown, DropVectors, Disown, content,
        Content!DropVectors, Content!Disown
  <2>. QED
    BY <2>1, <2>2 DEF Content!Next
<1>2. CASE UNCHANGED <<index, content>>
  BY <1>2 DEF index, content, Content!vars
<1>. QED
  BY <1>1, <1>2
  DEF RemoverStep, BeginRemoval, RemoveRow, RemovalCheck, RemovalFails

LEMMA ContentStep ==
  TypeInv /\ TextInv /\ [Next]_vars => [Content!Next]_(Content!vars)
<1>. SUFFICES ASSUME TypeInv, TextInv, [Next]_vars
              PROVE  Content!Next \/ UNCHANGED Content!vars
  OBVIOUS
<1>1. CASE UNCHANGED vars
  BY <1>1 DEF vars, Content!vars
<1>2. CASE SourceStep
  BY <1>2 DEF SourceStep, Put, Delete, content, index, Content!vars
<1>3. CASE WorkerStep
  BY <1>3, ContentWorkerStep
<1>4. CASE \E r \in Remover : RemoverStep(r)
  BY <1>4, ContentRemoverStep
<1>. QED
  BY <1>1, <1>2, <1>3, <1>4 DEF Next

\* The steps of syncs and removals, however they are interleaved or cut short,
\* are steps of SearchableContent or leave the content alone.
THEOREM KnowledgeBaseImplementsContent == Spec => ImplementsContent
<1>1. [](TypeInv /\ TextInv) /\ [][Next]_vars => [][Content!Next]_(Content!vars)
  BY ContentStep, PTL
<1>2. Spec => []TextInv
  BY TextInit, TextStep, Placed, PTL DEF Spec
<1>. QED
  BY <1>1, <1>2, ContentInit, Placed, PTL DEF Spec, ImplementsContent, Content!Spec

-----------------------------------------------------------------------------
(* Contents are embedded once.                                             *)

\* A content that is not cached was paid for only if a fault followed, or if
\* the worker is about to cache it.
PaidInv ==
    /\ PaidOnce
    /\ \A b \in Body \ cached :
           paid[b] <= faults + (IF wk.pc = "cache" /\ wk.body = b THEN 1 ELSE 0)

LEMMA PaidInit == Init => PaidInv
BY IdleTyped DEF Init, PaidInv, PaidOnce

\* A step that pays for nothing, caches no less and leaves nothing to be cached,
\* save after a fault, keeps the account.
LEMMA PaidKept ==
  ASSUME TypeInv, PaidInv, paid' = paid, cached \subseteq cached', faults' \in Nat,
         \/ wk' = wk /\ faults' >= faults
         \/ wk.pc # "cache" /\ faults' >= faults
         \/ wk.pc = "cache" /\ wk.body \in cached' /\ faults' >= faults
         \/ faults' = faults + 1
  PROVE  PaidInv'
<1>. USE DEF TypeInv, TypeOK
<1>1. PaidOnce'
  BY DEF PaidInv, PaidOnce
<1>2. ASSUME NEW b \in Body \ cached'
      PROVE  paid'[b] <= faults' + (IF wk'.pc = "cache" /\ wk'.body = b THEN 1 ELSE 0)
  <2>1. /\ b \in Body \ cached /\ paid[b] \in Nat /\ faults \in Nat
        /\ paid[b] <= faults + (IF wk.pc = "cache" /\ wk.body = b THEN 1 ELSE 0)
    BY <1>2 DEF PaidInv
  <2>. QED
    BY <1>2, <2>1
<1>. QED
  BY <1>1, <1>2 DEF PaidInv

LEMMA PaidStep == TypeInv /\ PaidInv /\ [Next]_vars => PaidInv'
<1>. SUFFICES ASSUME TypeInv, PaidInv, [Next]_vars PROVE PaidInv'
  OBVIOUS
<1>w. wk \in WorkerRecord /\ faults \in Nat
  BY DEF TypeInv, TypeOK
<1>1. CASE UNCHANGED vars
  BY <1>w, <1>1, PaidKept DEF vars
<1>2. CASE SourceStep
  BY <1>w, <1>2, PaidKept DEF SourceStep, Put, Delete, content
<1>3. CASE \E r \in Remover : RemoverStep(r)
  <2>. PICK r \in Remover : RemoverStep(r)
    BY <1>3
  <2>1. wk' = wk /\ paid' = paid /\ cached' = cached
    BY RemoverLeavesContent
  <2>2. faults' = faults \/ faults' = faults + 1
    BY DEF RemoverStep, BeginRemoval, RemoveRow, RemovalCheck, RemovalDrop,
           RemovalDisown, RemovalFails, CutShort
  <2>3. faults' \in Nat /\ faults' >= faults
    BY <1>w, <2>2
  <2>. QED
    BY <2>1, <2>3, PaidKept
<1>4. CASE Embed
  <2>1. wk'.body = wk.body /\ wk.body \in Body
    BY <1>w, <1>4, GotoTyped DEF Embed, WorkerPc, FilePc, TypeInv, WorkerPlaced
  <2>2. CASE wk.body \in cached
    BY <1>w, <1>4, <2>2, PaidKept DEF Embed
  <2>3. CASE wk.body \notin cached
    <3>1. wk'.pc = "cache"
      BY <1>w, <1>4, <2>3, GotoTyped DEF Embed, WorkerPc, FilePc
    <3>2. paid' = [paid EXCEPT ![wk.body] = paid[wk.body] + 1]
            /\ cached' = cached /\ faults' = faults /\ wk.pc = "embed"
      BY <1>4, <2>3 DEF Embed
    <3>3. paid \in [Body -> Nat] /\ paid[wk.body] <= faults
      BY <1>w, <2>1, <2>3, <3>2 DEF PaidInv, TypeInv, TypeOK
    <3>4. PaidOnce'
      BY <1>w, <2>1, <3>2, <3>3 DEF PaidInv, PaidOnce
    <3>5. ASSUME NEW b \in Body \ cached'
          PROVE  paid'[b] <= faults' + (IF wk'.pc = "cache" /\ wk'.body = b THEN 1 ELSE 0)
      <4>1. paid[b] <= faults /\ paid[b] \in Nat
        BY <1>w, <3>2, <3>3, <3>5 DEF PaidInv
      <4>. QED
        BY <1>w, <2>1, <3>1, <3>2, <3>3, <4>1
    <3>. QED
      BY <3>4, <3>5 DEF PaidInv
  <2>. QED
    BY <2>2, <2>3
<1>5. CASE PutCachedVectors
  BY <1>w, <1>5, PaidKept DEF PutCachedVectors
<1>6. CASE ProcessRaises \/ Crash
  <2>1. paid' = paid /\ cached' = cached /\ faults' = faults + 1
    <3>1. CASE ProcessRaises
      BY <3>1 DEF ProcessRaises, FailFile, content
    <3>2. CASE Crash
      BY <3>2 DEF Crash, CutShort, content
    <3>. QED
      BY <1>6, <3>1, <3>2
  <2>2. cached \subseteq cached' /\ faults' \in Nat
    BY <1>w, <2>1
  <2>. QED
    BY <2>1, <2>2, PaidKept
<1>7. CASE \/ SkipUnchanged \/ Fetch \/ FetchFails \/ ReuseText \/ Rechunk
           \/ Extract \/ ExtractFails \/ ReplaceChunks
  <2>1. wk.pc \in {"next", "text", "chunk"} /\ paid' = paid /\ cached' = cached
          /\ faults' = faults
    BY <1>7 DEF SkipUnchanged, AtFile, Fetch, FetchFails, ReuseText, Rechunk, Extract,
                ExtractFails, ReplaceChunks, FailFile, content
  <2>. QED
    BY <1>w, <2>1, PaidKept
<1>8. CASE CheckPossession \/ IndexBlob \/ AddUserBlob \/ Attribute \/ CountFile
  <2>1. wk.pc \in {"own", "index", "possess", "attribute", "count"} /\ paid' = paid
          /\ cached' = cached /\ faults' = faults
    BY <1>8 DEF CheckPossession, IndexBlob, AddUserBlob, Attribute, CountFile, content
  <2>. QED
    BY <1>w, <2>1, PaidKept
<1>9. CASE \/ \E d \in Directory : StartSync(d)
           \/ StartReap \/ (\E x \in wk.gone : ReapRow(x))
           \/ ReapCheck \/ ReapDrop \/ ReapDisown \/ Finish
  <2>1. wk.pc # "cache" /\ paid' = paid /\ cached' = cached /\ faults' = faults
    BY <1>9 DEF StartSync, StartReap, ReapRow, ReapCheck, ReapDrop, ReapDisown, Finish,
                Reaped, content
  <2>. QED
    BY <1>w, <2>1, PaidKept
<1>. QED
  BY <1>1, <1>2, <1>3, <1>4, <1>5, <1>6, <1>7, <1>8, <1>9 DEF Next, WorkerStep

\* A content is sent to the embedding API once for all users and directories,
\* and once more at most for every call or process that failed: the cache is
\* filled right after the call, and asked before every other.
THEOREM EmbeddingIsPaidOnce == Spec => []PaidOnce
<1>1. PaidInv => PaidOnce
  BY DEF PaidInv
<1>. QED
  BY <1>1, PaidInit, PaidStep, Placed, PTL DEF Spec

-----------------------------------------------------------------------------
(* Rung 0 is sound.                                                        *)

\* No fingerprint is from the future: none comes back after its object changed.
ObjectStamped(k) ==
    /\ source[k].ver <= puts
    /\ source[k].body # None => source[k].ver > 0
RowStamped(u, k) == files[u][k].ver <= puts
ListingStamped(k) == wk.listing[k] <= puts
Stamped == /\ \A k \in Key : ObjectStamped(k) /\ ListingStamped(k)
           /\ \A u \in User, k \in Key : RowStamped(u, k)

\* The bytes at hand are the object's, if it still is as it was listed.
FetchedWhatWasListed ==
    wk.pc \in FilePc /\ source[Current].body # None
      /\ wk.listing[Current] = source[Current].ver
    => wk.body = source[Current].body

RungInv == Stamped /\ FetchedWhatWasListed /\ FingerprintIsHonest

LEMMA RungInit == Init => RungInv
<1>. SUFFICES ASSUME Init PROVE RungInv
  OBVIOUS
<1>1. Stamped
  BY IdleTyped
  DEF Init, Stamped, ObjectStamped, RowStamped, ListingStamped, NoRow
<1>2. FetchedWhatWasListed
  BY IdleTyped DEF Init, FetchedWhatWasListed, FilePc
<1>3. FingerprintIsHonest
  BY DEF Init, FingerprintIsHonest
<1>. QED
  BY <1>1, <1>2, <1>3 DEF RungInv

\* An upload gives its object a fingerprint nobody has seen.
LEMMA RungSourceStep == TypeInv /\ RungInv /\ SourceStep => RungInv'
<1>. SUFFICES ASSUME TypeInv, RungInv, SourceStep PROVE RungInv'
  OBVIOUS
<1>1. /\ source \in [Key -> Object] /\ puts \in Nat
      /\ \A u \in User, k \in Key : files[u][k].ver \in Nat
      /\ \A k \in Key : wk.listing[k] \in Nat /\ source[k].ver \in Nat
  BY DEF TypeInv, TypeOK, Row, WorkerRecord, Object
<1>2. files' = files /\ wk' = wk
  BY DEF SourceStep, Put, Delete
<1>3. wk.pc \in FilePc => Current \in Key
  BY CurrentIsListed DEF TypeInv, TypeOK, WorkerPlaced, WorkerRecord
<1>4. Current' = Current
  BY <1>2 DEF Current
<1>5. PICK k \in Key :
        \/ \E b \in Body : /\ puts' = puts + 1
                           /\ source' = [source EXCEPT ![k] = [body |-> b, ver |-> puts + 1]]
        \/ puts' = puts /\ source' = [source EXCEPT ![k] = [body |-> None, ver |-> 0]]
  BY DEF SourceStep, Put, Delete
<1>6. /\ puts' \in Nat /\ puts' >= puts
      /\ \A j \in Key \ {k} : source'[j] = source[j]
      /\ \/ source'[k].body = None /\ source'[k].ver = 0
         \/ source'[k].body \in Body /\ source'[k].ver = puts + 1 /\ puts' = puts + 1
  BY <1>1, <1>5
<1>7. Stamped'
  BY <1>1, <1>2, <1>6
  DEF RungInv, Stamped, ObjectStamped, RowStamped, ListingStamped
<1>8. FetchedWhatWasListed'
  BY <1>1, <1>2, <1>3, <1>4, <1>6
  DEF RungInv, Stamped, ListingStamped, FetchedWhatWasListed
<1>9. FingerprintIsHonest'
  <2>. SUFFICES ASSUME NEW u \in User, NEW j \in Key,
                       files[u][j].state = "indexed", source'[j].body # None,
                       files[u][j].ver = source'[j].ver
                PROVE  files[u][j].sha = source'[j].body
    BY <1>2 DEF FingerprintIsHonest
  <2>1. j # k
    BY <1>1, <1>6 DEF RungInv, Stamped, RowStamped
  <2>. QED
    BY <1>6, <2>1 DEF RungInv, FingerprintIsHonest
<1>. QED
  BY <1>7, <1>8, <1>9 DEF RungInv

\* A step that neither uploads nor indexes keeps what rows say: their
\* fingerprints stay, and a row that says "indexed" said so before.
LEMMA RungRowsKept ==
  ASSUME TypeInv, RungInv, UNCHANGED <<source, puts>>,
         \A u \in User, k \in Key :
             \/ files'[u][k] = files[u][k]
             \/ files'[u][k].state # "indexed" /\ files'[u][k].ver <= puts,
         \A k \in Key : wk'.listing[k] <= puts,
         FetchedWhatWasListed'
  PROVE  RungInv'
<1>1. Stamped'
  BY DEF RungInv, Stamped, ObjectStamped, RowStamped, ListingStamped
<1>2. FingerprintIsHonest'
  BY DEF RungInv, FingerprintIsHonest
<1>. QED
  BY <1>1, <1>2 DEF RungInv

LEMMA SoftDeleteKeeps ==
  ASSUME TypeInv, RungInv, NEW u \in User, NEW k \in Key, SoftDelete(u, k)
  PROVE  \A v \in User, j \in Key :
             \/ files'[v][j] = files[v][j]
             \/ files'[v][j].state # "indexed" /\ files'[v][j].ver <= puts
<1>. DEFINE row == files[u][k]
            state == IF Live(row) THEN "deleted" ELSE row.state
            new == [row EXCEPT !.state = state]
<1>1. row \in Row /\ row.ver <= puts
  BY DEF TypeInv, TypeOK, RungInv, Stamped, RowStamped
<1>2. new.state # "indexed" /\ new.ver = row.ver
  <2>1. state # "indexed"
    BY DEF Live
  <2>. HIDE DEF row, state
  <2>. QED  BY <1>1, <2>1 DEF Row
<1>3. files' = [files EXCEPT ![u][k] = new]
  BY DEF SoftDelete
<1>4. files \in [User -> [Key -> Row]]
  BY DEF TypeInv, TypeOK
<1>. HIDE DEF new
<1>5. ASSUME NEW v \in User, NEW j \in Key
      PROVE  files'[v][j] = files[v][j] \/ files'[v][j] = new
  BY <1>3, <1>4
<1>. QED
  BY <1>1, <1>2, <1>5

\* What upsert_file leaves: the current row is new, the others are as before.
LEMMA UpsertKeeps ==
  ASSUME TypeInv, wk.dir \in Directory, wk.todo # {},
         NEW state, NEW sha, NEW ver, Upsert(state, sha, ver)
  PROVE  \A u \in User, k \in Key :
             \/ files'[u][k] = files[u][k]
             \/ k = Current /\ files'[u][k].state = state
                  /\ files'[u][k].sha = sha /\ files'[u][k].ver = ver
<1>1. files \in [User -> [Key -> Row]]
  BY DEF TypeInv, TypeOK
<1>. DEFINE new == [state |-> state, sha |-> sha, ver |-> ver, dir |-> wk.dir]
<1>2. files' = [files EXCEPT ![Tenant][Current] = new]
  BY DEF Upsert
<1>3. new.state = state /\ new.sha = sha /\ new.ver = ver
  OBVIOUS
<1>. HIDE DEF new
<1>. QED
  BY <1>1, <1>2, <1>3

\* Going on with the current object, from one point of it to another.
LEMMA GotoHonest ==
  ASSUME TypeInv, RungInv, UNCHANGED <<source, puts>>,
         NEW pc \in FilePc, Goto(pc), wk.pc \in FilePc
  PROVE  /\ FetchedWhatWasListed'
         /\ \A k \in Key : wk'.listing[k] <= puts
<1>1. /\ wk'.listing = wk.listing /\ wk'.todo = wk.todo /\ wk'.body = wk.body
      /\ wk'.pc \in FilePc
  BY GotoTyped DEF TypeInv, TypeOK, WorkerPc
<1>2. Current' = Current
  BY <1>1 DEF Current
<1>. QED
  BY <1>1, <1>2 DEF RungInv, FetchedWhatWasListed, Stamped, ListingStamped

LEMMA SettleHonest ==
  ASSUME TypeInv, RungInv, NEW ok \in BOOLEAN, Settle(ok)
  PROVE  /\ FetchedWhatWasListed'
         /\ \A k \in Key : wk'.listing[k] <= puts
<1>1. wk'.listing = wk.listing /\ wk'.pc \notin FilePc
  BY SettleTyped DEF TypeInv, TypeOK, FilePc
<1>. QED
  BY <1>1 DEF RungInv, FetchedWhatWasListed, Stamped, ListingStamped

\* A failed file: its row names no content, whatever its fingerprint.
LEMMA RungFailFile ==
  ASSUME TypeInv, RungInv, FailFile, wk.dir \in Directory, wk.todo # {}
  PROVE  RungInv'
<1>1. Current \in Key
  BY CurrentIsListed DEF TypeInv, TypeOK, WorkerRecord
<1>2. wk.listing[Current] <= puts
  BY <1>1 DEF RungInv, Stamped, ListingStamped
<1>3. FetchedWhatWasListed' /\ \A k \in Key : wk'.listing[k] <= puts
  BY SettleHonest DEF FailFile
<1>4. \A u \in User, k \in Key :
          \/ files'[u][k] = files[u][k]
          \/ files'[u][k].state # "indexed" /\ files'[u][k].ver <= puts
  <2>1. Upsert("failed", None, wk.listing[Current])
    BY DEF FailFile
  <2>. QED
    BY <1>2, <2>1, UpsertKeeps
<1>. QED
  BY <1>3, <1>4, RungRowsKept DEF FailFile, world

LEMMA RungFileStep ==
  ASSUME TypeInv, RungInv,
         \/ SkipUnchanged \/ Fetch \/ FetchFails
         \/ ReuseText \/ Rechunk \/ Extract \/ ExtractFails \/ ReplaceChunks
         \/ CheckPossession \/ Embed \/ PutCachedVectors \/ IndexBlob \/ AddUserBlob
         \/ Attribute \/ CountFile \/ ProcessRaises
  PROVE  RungInv'
<1>w. wk \in WorkerRecord
  BY DEF TypeInv, TypeOK
<1>1. CASE SkipUnchanged \/ CountFile
  <2>1. \E ok \in BOOLEAN : Settle(ok)
    BY <1>1 DEF SkipUnchanged, CountFile
  <2>2. UNCHANGED <<source, puts, files>>
    BY <1>1 DEF SkipUnchanged, CountFile, world
  <2>. QED
    BY <2>1, <2>2, SettleHonest, RungRowsKept
<1>2. CASE FetchFails \/ ExtractFails \/ ProcessRaises
  <2>1. FailFile /\ wk.dir \in Directory /\ wk.todo # {}
    BY <1>2 DEF FetchFails, ExtractFails, ProcessRaises, AtFile, TypeInv, WorkerPlaced, FilePc
  <2>. QED
    BY <2>1, RungFailFile
<1>3. CASE Fetch
  <2>1. wk' = [wk EXCEPT !.pc = "text", !.body = source[Current].body]
          /\ UNCHANGED <<source, puts, files>>
    BY <1>3 DEF Fetch, world
  <2>2. wk'.body = source[Current].body /\ wk'.todo = wk.todo /\ wk'.listing = wk.listing
    BY <1>w, <2>1 DEF WorkerRecord
  <2>3. Current' = Current
    BY <2>2 DEF Current
  <2>4. FetchedWhatWasListed' /\ \A k \in Key : wk'.listing[k] <= puts
    BY <2>1, <2>2, <2>3 DEF FetchedWhatWasListed, RungInv, Stamped, ListingStamped
  <2>. QED
    BY <2>1, <2>4, RungRowsKept
<1>4. CASE \/ ReuseText \/ Rechunk \/ Extract \/ ReplaceChunks \/ CheckPossession
           \/ Embed \/ PutCachedVectors \/ IndexBlob \/ AddUserBlob
  <2>1. UNCHANGED <<source, puts, files>>
    BY <1>4 DEF ReuseText, Rechunk, Extract, ReplaceChunks, CheckPossession, Embed,
                PutCachedVectors, IndexBlob, AddUserBlob, world
  <2>2. wk.pc \in FilePc
    BY <1>4 DEF ReuseText, Rechunk, Extract, ReplaceChunks, CheckPossession, Embed,
                PutCachedVectors, IndexBlob, AddUserBlob, FilePc
  <2>3. \E pc \in FilePc : Goto(pc)
    <3>1. CASE CheckPossession
      BY <3>1 DEF CheckPossession, FilePc
    <3>2. CASE Embed
      BY <3>2 DEF Embed, FilePc
    <3>. QED
      BY <1>4, <3>1, <3>2
      DEF ReuseText, Rechunk, Extract, ReplaceChunks, PutCachedVectors, IndexBlob,
          AddUserBlob, FilePc
  <2>. QED
    BY <2>1, <2>2, <2>3, GotoHonest, RungRowsKept
<1>5. CASE Attribute
  <2>1. /\ Upsert("indexed", wk.body, wk.listing[Current]) /\ Goto("count")
        /\ UNCHANGED <<source, puts>> /\ wk.pc = "attribute"
    BY <1>5 DEF Attribute, world
  <2>2. wk.dir \in Directory /\ wk.todo # {} /\ wk.pc \in FilePc
    BY <2>1 DEF TypeInv, WorkerPlaced, FilePc
  <2>3. Current \in Key
    BY <2>2, CurrentIsListed DEF TypeInv, TypeOK, WorkerRecord
  <2>4. \A u \in User, k \in Key :
            \/ files'[u][k] = files[u][k]
            \/ k = Current /\ files'[u][k].state = "indexed"
                 /\ files'[u][k].sha = wk.body /\ files'[u][k].ver = wk.listing[Current]
    BY <2>1, <2>2, UpsertKeeps
  <2>5. FetchedWhatWasListed' /\ \A k \in Key : wk'.listing[k] <= puts
    BY <2>1, <2>2, GotoHonest DEF FilePc
  <2>6. Stamped'
    BY <2>1, <2>3, <2>4, <2>5
    DEF RungInv, Stamped, ObjectStamped, RowStamped, ListingStamped
  <2>7. FingerprintIsHonest'
    BY <2>1, <2>2, <2>4 DEF RungInv, FingerprintIsHonest, FetchedWhatWasListed
  <2>. QED
    BY <2>5, <2>6, <2>7 DEF RungInv
<1>. QED
  BY <1>1, <1>2, <1>3, <1>4, <1>5

LEMMA RungRunStep ==
  ASSUME TypeInv, RungInv,
         \/ \E d \in Directory : StartSync(d)
         \/ StartReap \/ (\E x \in wk.gone : ReapRow(x))
         \/ ReapCheck \/ ReapDrop \/ ReapDisown \/ Finish \/ Crash
  PROVE  RungInv'
<1>w. wk \in WorkerRecord /\ puts \in Nat /\ source \in [Key -> Object]
  BY DEF TypeInv, TypeOK
<1>1. FetchedWhatWasListed'
  BY WorkerLeavesFiles DEF FetchedWhatWasListed
<1>2. UNCHANGED <<source, puts>>
  BY DEF StartSync, StartReap, ReapRow, ReapCheck, ReapDrop, ReapDisown, Finish, Crash, world
<1>3. \A k \in Key : wk'.listing[k] <= puts
  <2>1. CASE \E d \in Directory : StartSync(d)
    <3>1. PICK d \in Directory : StartSync(d)
      BY <2>1
    <3>. DEFINE listing == [k \in Key |-> IF k \in Under[d] THEN source[k].ver ELSE 0]
    <3>2. \A k \in Key : listing[k] <= puts
      BY <1>w DEF RungInv, Stamped, ObjectStamped
    <3>3. wk'.listing = listing
      BY <3>1 DEF StartSync, IdleWorker
    <3>. HIDE DEF listing
    <3>. QED
      BY <3>2, <3>3
  <2>2. CASE Finish \/ Crash
    BY <1>w, <2>2, IdleTyped DEF Finish, Crash
  <2>3. CASE StartReap \/ (\E x \in wk.gone : ReapRow(x)) \/ ReapCheck \/ ReapDrop \/ ReapDisown
    <3>1. wk'.listing = wk.listing
      <4>1. CASE StartReap
        BY <1>w, <4>1 DEF StartReap, WorkerRecord
      <4>2. CASE \E x \in wk.gone : ReapRow(x)
        BY <1>w, <4>2 DEF ReapRow, WorkerRecord
      <4>3. CASE ReapCheck
        BY <1>w, <4>3 DEF ReapCheck, WorkerRecord
      <4>4. CASE ReapDrop \/ ReapDisown
        BY <1>w, <4>4 DEF ReapDrop, ReapDisown, Goto, WorkerRecord
      <4>. QED
        BY <2>3, <4>1, <4>2, <4>3, <4>4
    <3>. QED
      BY <3>1 DEF RungInv, Stamped, ListingStamped
  <2>. QED
    BY <2>1, <2>2, <2>3
<1>4. \A u \in User, k \in Key :
          \/ files'[u][k] = files[u][k]
          \/ files'[u][k].state # "indexed" /\ files'[u][k].ver <= puts
  <2>1. CASE \E x \in wk.gone : ReapRow(x)
    <3>1. PICK x \in wk.gone : ReapRow(x)
      BY <2>1
    <3>2. Tenant \in User /\ x.key \in Key /\ SoftDelete(Tenant, x.key)
      BY <1>w, <3>1, OwnerAssumption
      DEF ReapRow, Tenant, WorkerRecord, TypeInv, WorkerPlaced
    <3>. QED
      BY <3>2, SoftDeleteKeeps
  <2>2. CASE UNCHANGED files
    BY <2>2
  <2>. QED
    BY <2>1, <2>2 DEF StartSync, StartReap, ReapCheck, ReapDrop, ReapDisown, Finish, Crash
<1>. QED
  BY <1>1, <1>2, <1>3, <1>4, RungRowsKept

LEMMA RungStep == TypeInv /\ RungInv /\ [Next]_vars => RungInv'
<1>. SUFFICES ASSUME TypeInv, RungInv, [Next]_vars PROVE RungInv'
  OBVIOUS
<1>1. CASE UNCHANGED vars
  BY <1>1
  DEF vars, RungInv, Stamped, ObjectStamped, RowStamped, ListingStamped,
      FetchedWhatWasListed, FingerprintIsHonest, Current
<1>2. CASE SourceStep
  BY <1>2, RungSourceStep
<1>3. CASE WorkerStep
  BY <1>3, RungFileStep, RungRunStep DEF WorkerStep
<1>4. CASE \E r \in Remover : RemoverStep(r)
  <2>0. PICK r \in Remover : RemoverStep(r)
    BY <1>4
  <2>1. UNCHANGED <<source, puts, wk>>
    BY <2>0, RemoverLeavesContent
  <2>2. FetchedWhatWasListed' /\ \A k \in Key : wk'.listing[k] <= puts
    BY <2>1
    DEF RungInv, Stamped, ListingStamped, FetchedWhatWasListed, Current
  <2>3. \A u \in User, k \in Key :
            \/ files'[u][k] = files[u][k]
            \/ files'[u][k].state # "indexed" /\ files'[u][k].ver <= puts
    <3>1. CASE RemoveRow(r)
      BY <3>1, SoftDeleteKeeps DEF RemoveRow, TypeInv, RemoversPlaced, RemovalPc
    <3>2. CASE UNCHANGED files
      BY <3>2
    <3>. QED
      BY <2>0, <3>1, <3>2
      DEF RemoverStep, BeginRemoval, RemovalCheck, RemovalDrop, RemovalDisown, RemovalFails
  <2>. QED
    BY <2>1, <2>2, <2>3, RungRowsKept
<1>. QED
  BY <1>1, <1>2, <1>3, <1>4 DEF Next

\* A row that carries the fingerprint its object has at the provider names the
\* object's bytes, however uploads and deletions fall between the listing, the
\* download and the row: a file that rung 0 skips is never stale.
THEOREM RungZeroIsSound == Spec => []FingerprintIsHonest
<1>1. RungInv => FingerprintIsHonest
  BY DEF RungInv
<1>. QED
  BY <1>1, RungInit, RungStep, Placed, PTL DEF Spec
=============================================================================
