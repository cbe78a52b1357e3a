-------------------------- MODULE Datasources_proofs --------------------------
(***************************************************************************)
(* Opening a volume loses nothing, ends in one datasource per place, and   *)
(* leaves alone what other processes serve: for any old volume, any number *)
(* of processes, of crashes and of calls.                                  *)
(***************************************************************************)
EXTENDS Datasources, WellFoundedInduction, TLAPS

\* The row a group of duplicates gives way to.
IsFirst(k) ==
    \A s \in datasources : s # k /\ Identity(s) = Identity(k) => Before(k, s)

\* A pair of the remap a process holds, however long ago it was read: the keeper is
\* there, and is what it was; the duplicate is as well, or is gone for good.
IsDue(q) ==
    /\ q[1] # q[2]
    /\ q[1] \in 1..(NumSources + calls)
    /\ \E k \in datasources :
          /\ k.id = q[2] /\ IsFirst(k)
          /\ \A s \in datasources : s.id = q[1] => Identity(s) = Identity(k)

\* Of two rows of one place, one is in the remap.
Covers(remap) ==
    \A s, t \in datasources :
        s # t /\ Identity(s) = Identity(t) => s.id \in Dead(remap) \/ t.id \in Dead(remap)

Unique == Distinct(datasources, Identity)

ProcInv(p) ==
    /\ proc[p].pc = "open" => indexed
    /\ proc[p].pc = "schema" => Unique
    /\ proc[p].pc = "migrate" => Covers(proc[p].remap)
    /\ \A q \in proc[p].remap : IsDue(q)

IdsInv == \A s \in datasources : s.id <= NumSources + calls

IndexInv == indexed => Unique

Inv == TypeOK /\ RowsFollow /\ IdsInv /\ IndexInv /\ \A p \in Process : ProcInv(p)

-----------------------------------------------------------------------------
(* Rows: their order, their identity, and the first of a group.            *)

LEMMA BeforeOrders ==
  ASSUME NEW s \in Datasource, NEW t \in Datasource
  PROVE  /\ s.id # t.id => Before(s, t) \/ Before(t, s)
         /\ ~(Before(s, t) /\ Before(t, s))
<1>1. s.id \in Int /\ t.id \in Int /\ s.created \in Int /\ t.created \in Int
  BY NumSourcesAssumption, BoundsAssumption DEF Datasource, SourceId
<1>. QED
  BY <1>1 DEF Before

\* The unique index tells places apart just as SamePlace does.
LEMMA IdentityIsPlace ==
  ASSUME NEW s, NEW t
  PROVE  Identity(s) = Identity(t) <=> SamePlace(s, t)
<1>1. Identity(s) = Identity(t) <=>
        /\ s.user = t.user
        /\ (IF s.endpoint = "null" THEN "" ELSE s.endpoint)
             = (IF t.endpoint = "null" THEN "" ELSE t.endpoint)
  BY DEF Identity
<1>2. (IF s.endpoint = "null" THEN "" ELSE s.endpoint)
             = (IF t.endpoint = "null" THEN "" ELSE t.endpoint)
        <=> s.endpoint = t.endpoint \/ {s.endpoint, t.endpoint} = {"null", ""}
  <2>1. {s.endpoint, t.endpoint} = {"null", ""} <=>
          \/ s.endpoint = "null" /\ t.endpoint = ""
          \/ s.endpoint = "" /\ t.endpoint = "null"
    OBVIOUS
  <2>. QED
    BY <2>1
<1>. QED
  BY <1>1, <1>2 DEF SamePlace

LEMMA IdsTell ==
  ASSUME TypeOK, NEW s \in datasources, NEW t \in datasources, s.id = t.id
  PROVE  s = t
BY DEF TypeOK, Keyed, Distinct, IdSlot

\* A nonempty set of naturals has a least member.
LEMMA LeastNatural ==
  ASSUME NEW T \in SUBSET Nat, T # {}
  PROVE  \E n \in T : \A m \in T : n <= m
<1>. DEFINE Less == {p \in Nat \X Nat : p[1] < p[2]}
<1>1. IsWellFoundedOn(Less, Nat)
  BY NatLessThanWellFounded DEF OpToRel
<1>2. PICK n \in T : \A m \in T : <<m, n>> \notin Less
  <2>. HIDE DEF Less
  <2>. QED  BY <1>1, WFMin
<1>3. ASSUME NEW m \in T PROVE n <= m
  <2>1. m < n => <<m, n>> \in Less
    OBVIOUS
  <2>. HIDE DEF Less
  <2>. QED
    BY <1>2, <2>1
<1>. QED
  BY <1>3

\* Every group of duplicates has a row that is first: the query finds a keeper.
LEMMA GroupsHaveAFirst ==
  ASSUME TypeOK, NEW s \in datasources
  PROVE  \E k \in Firsts : Identity(k) = Identity(s)
<1>. DEFINE Group == {t \in datasources : Identity(t) = Identity(s)}
            Ages == {t.created : t \in Group}
<1>1. \A t \in datasources : t.id \in Nat /\ t.created \in Nat
  BY NumSourcesAssumption, BoundsAssumption DEF TypeOK, Datasource, SourceId
<1>2. PICK c \in Ages : \A a \in Ages : c <= a
  <2>1. Ages \in SUBSET Nat /\ Ages # {}
    BY <1>1
  <2>. HIDE DEF Ages
  <2>. QED  BY <2>1, LeastNatural
<1>. DEFINE Oldest == {t.id : t \in {u \in Group : u.created = c}}
<1>3. PICK i \in Oldest : \A j \in Oldest : i <= j
  <2>1. Oldest \in SUBSET Nat /\ Oldest # {}
    BY <1>1, <1>2
  <2>. HIDE DEF Oldest
  <2>. QED  BY <2>1, LeastNatural
<1>4. PICK k \in Group : k.created = c /\ k.id = i
  BY <1>3
<1>5. ASSUME NEW t \in datasources, Identity(t) = Identity(k), Before(t, k) PROVE FALSE
  <2>1. t \in Group /\ t.created \in Ages
    BY <1>4, <1>5
  <2>2. c <= t.created
    BY <1>2, <2>1
  <2>3. t.created = c => i <= t.id
    BY <1>3, <2>1
  <2>. QED
    BY <1>1, <1>4, <1>5, <2>1, <2>2, <2>3 DEF Before
<1>. QED
  BY <1>4, <1>5 DEF Firsts

-----------------------------------------------------------------------------
(* What a remap does to rows.                                              *)

LEMMA RepointCases ==
  ASSUME NEW remap, NEW row
  PROVE  \/ Repoint(remap, row) = row /\ \A q \in remap : q[1] # row.source
         \/ \E q \in remap : /\ q[1] = row.source
                             /\ Repoint(remap, row) = [row EXCEPT !.source = q[2]]
<1>. DEFINE into == {q[2] : q \in {q \in remap : q[1] = row.source}}
<1>1. CASE into = {}
  BY <1>1 DEF Repoint
<1>2. CASE into # {}
  <2>1. (CHOOSE k \in into : TRUE) \in into
    BY <1>2
  <2>. QED
    BY <1>2, <2>1 DEF Repoint
<1>. QED
  BY <1>1, <1>2

\* A row keeps everything but its source.
LEMMA RepointTyped ==
  ASSUME NEW remap \in SUBSET (SourceId \X SourceId)
  PROVE  /\ \A d \in DirectoryRow :
              /\ Repoint(remap, d) \in DirectoryRow
              /\ Repoint(remap, d).id = d.id
              /\ Repoint(remap, d).user = d.user /\ Repoint(remap, d).path = d.path
         /\ \A f \in File :
              /\ Repoint(remap, f) \in File
              /\ Repoint(remap, f).key = f.key /\ Repoint(remap, f).dir = f.dir
<1>1. \A q \in remap : q[2] \in SourceId
  OBVIOUS
<1>2. ASSUME NEW d \in DirectoryRow
      PROVE  /\ Repoint(remap, d) \in DirectoryRow
             /\ Repoint(remap, d).id = d.id
             /\ Repoint(remap, d).user = d.user /\ Repoint(remap, d).path = d.path
  BY <1>1, RepointCases DEF DirectoryRow
<1>3. ASSUME NEW f \in File
      PROVE  /\ Repoint(remap, f) \in File
             /\ Repoint(remap, f).key = f.key /\ Repoint(remap, f).dir = f.dir
  BY <1>1, RepointCases DEF File
<1>. QED
  BY <1>2, <1>3

\* Rows of one source move together.
LEMMA RepointIsBySource ==
  ASSUME NEW remap, NEW d \in DirectoryRow, NEW f \in File, d.source = f.source
  PROVE  Repoint(remap, d).source = Repoint(remap, f).source
<1>. DEFINE into == {q[2] : q \in {q \in remap : q[1] = d.source}}
<1>1. Repoint(remap, d) = IF into = {} THEN d ELSE [d EXCEPT !.source = CHOOSE k \in into : TRUE]
  BY DEF Repoint
<1>2. Repoint(remap, f) = IF into = {} THEN f ELSE [f EXCEPT !.source = CHOOSE k \in into : TRUE]
  BY DEF Repoint
<1>. HIDE DEF into
<1>. QED
  BY <1>1, <1>2 DEF DirectoryRow, File

LEMMA RemapTyped ==
  ASSUME TypeOK, NEW p \in Process
  PROVE  proc[p].remap \in SUBSET (SourceId \X SourceId)
BY DEF TypeOK, ProcRecord

\* No process deletes the first row of a group, whatever it has read.
LEMMA FirstsSurvive ==
  ASSUME Inv, NEW p \in Process, NEW k \in datasources, IsFirst(k)
  PROVE  k \in Surviving(proc[p].remap)
<1>1. ASSUME NEW q \in proc[p].remap, q[1] = k.id PROVE FALSE
  <2>1. PICK j \in datasources :
          /\ j.id = q[2] /\ IsFirst(j)
          /\ \A s \in datasources : s.id = q[1] => Identity(s) = Identity(j)
    BY DEF Inv, ProcInv, IsDue
  <2>2. q[1] # q[2]
    BY DEF Inv, ProcInv, IsDue
  <2>3. j # k /\ Identity(k) = Identity(j)
    BY <1>1, <2>1, <2>2
  <2>4. Before(j, k) /\ Before(k, j)
    BY <2>1, <2>3 DEF IsFirst
  <2>. QED
    BY <2>4, BeforeOrders DEF Inv, TypeOK
<1>. QED
  BY <1>1 DEF Surviving, Dead

\* A row is moved to a surviving datasource of the place it points to.
LEMMA MovedToItsPlace ==
  ASSUME Inv, NEW p \in Process, NEW row \in DirectoryRow \cup File,
         NEW s \in datasources, s.id = row.source
  PROVE  \E k \in Surviving(proc[p].remap) :
            k.id = Repoint(proc[p].remap, row).source /\ Identity(k) = Identity(s)
<1>. DEFINE remap == proc[p].remap
<1>1. CASE Repoint(remap, row) = row /\ \A q \in remap : q[1] # row.source
  BY <1>1 DEF Surviving, Dead
<1>2. CASE \E q \in remap : /\ q[1] = row.source
                            /\ Repoint(remap, row) = [row EXCEPT !.source = q[2]]
  <2>1. PICK q \in remap : /\ q[1] = row.source
                           /\ Repoint(remap, row) = [row EXCEPT !.source = q[2]]
    BY <1>2
  <2>2. PICK k \in datasources :
          /\ k.id = q[2] /\ IsFirst(k)
          /\ \A t \in datasources : t.id = q[1] => Identity(t) = Identity(k)
    BY DEF Inv, ProcInv, IsDue
  <2>3. Repoint(remap, row).source = k.id
    BY <2>1, <2>2 DEF DirectoryRow, File
  <2>. QED
    BY <2>1, <2>2, <2>3, FirstsSurvive
<1>3. \/ Repoint(remap, row) = row /\ \A q \in remap : q[1] # row.source
      \/ \E q \in remap : /\ q[1] = row.source
                          /\ Repoint(remap, row) = [row EXCEPT !.source = q[2]]
  BY RepointCases
<1>. QED
  BY <1>1, <1>2, <1>3

\* So an UPDATE of the migration never breaks a foreign key: what it is refused for
\* is two directories that would be one.
LEMMA RefusedOverDirectories ==
  ASSUME Inv, NEW p \in Process, Refused(proc[p].remap)
  PROVE  \E d, e \in directories :
            /\ d # e
            /\ DirectorySlot(Repoint(proc[p].remap, d)) = DirectorySlot(Repoint(proc[p].remap, e))
<1>. DEFINE remap == proc[p].remap
            moved == {Repoint(remap, d) : d \in directories}
            gone == {q[2] : q \in remap} \ Ids(datasources)
<1>1. gone = {}
  BY DEF Inv, ProcInv, IsDue, Ids
<1>2. ~Distinct(moved, DirectorySlot)
  BY <1>1 DEF Refused
<1>. QED
  BY <1>2 DEF Distinct

-----------------------------------------------------------------------------
(* The types.                                                              *)

LEMMA AtTyped ==
  ASSUME NEW pc \in {"closed", "migrate", "schema", "open", "failed"}
  PROVE  At(pc) \in ProcRecord
BY DEF At, ProcRecord

LEMMA TypeInit == Init => TypeOK
<1>. SUFFICES ASSUME Init PROVE TypeOK
  OBVIOUS
<1>1. PICK n \in 0..NumSources :
        /\ \E s \in [1..n -> [user : User, endpoint : Endpoint, created : 1..MaxTime]] :
              datasources = {[id |-> i, user |-> s[i].user, endpoint |-> s[i].endpoint,
                              created |-> s[i].created] : i \in 1..n}
        /\ \E ids \in SUBSET Directory : \E at \in [ids -> datasources \X Path] :
              directories = {[id |-> i, user |-> at[i][1].user, source |-> at[i][1].id,
                              path |-> at[i][2]] : i \in ids}
        /\ files \in SUBSET {f \in File : \E d \in directories :
                                             f.dir = d.id /\ f.source = d.source}
        /\ Keyed
  BY DEF Init, OldVolume
<1>2. 1..n \subseteq SourceId
  BY NumSourcesAssumption, BoundsAssumption DEF SourceId
<1>3. datasources \subseteq Datasource
  BY <1>1, <1>2 DEF Datasource
<1>4. directories \subseteq DirectoryRow
  BY <1>1, <1>3 DEF Datasource, DirectoryRow
<1>5. proc \in [Process -> ProcRecord]
  BY AtTyped DEF Init, StartUp
<1>6. files \subseteq File /\ Keyed
  BY <1>1
<1>7. indexed \in BOOLEAN
  BY Zenon DEF Init, StartUp
<1>8. calls \in 0..MaxCalls /\ crashes \in 0..MaxCrashes
  BY BoundsAssumption DEF Init, StartUp
<1>. QED
  BY <1>3, <1>4, <1>5, <1>6, <1>7, <1>8 DEF TypeOK

\* What opening does to proc keeps its type.
LEMMA GotoTyped ==
  ASSUME TypeOK, NEW p \in Process, NEW pc \in {"closed", "migrate", "schema", "open", "failed"},
         Goto(p, pc)
  PROVE  /\ proc' \in [Process -> ProcRecord]
         /\ proc'[p] = At(pc)
         /\ \A r \in Process \ {p} : proc'[r] = proc[r]
BY AtTyped DEF TypeOK, Goto

LEMMA CollapsedIs ==
  ASSUME NEW remap, NEW F \in Collapsed(remap)
  PROVE  /\ F \subseteq {Repoint(remap, f) : f \in files}
         /\ Distinct(F, FileSlot)
         /\ \A f \in files : \E g \in F : FileSlot(Repoint(remap, f)) = FileSlot(g)
<1>. DEFINE moved == {Repoint(remap, f) : f \in files}
<1>1. F \subseteq moved /\ Distinct(F, FileSlot)
  BY DEF Collapsed
<1>2. \A f \in moved : \E g \in F : FileSlot(f) = FileSlot(g)
  BY DEF Collapsed
<1>. QED
  BY <1>1, <1>2

LEMMA TypeMigrate ==
  ASSUME Inv, NEW p \in Process, Migrate(p)
  PROVE  TypeOK'
<1>. DEFINE remap == proc[p].remap
<1>1. remap \in SUBSET (SourceId \X SourceId)
  BY RemapTyped DEF Inv
<1>2. directories' = {Repoint(remap, d) : d \in directories}
  BY DEF Migrate
<1>3. files' \subseteq {Repoint(remap, f) : f \in files} /\ Distinct(files', FileSlot)
  BY CollapsedIs DEF Migrate
<1>4. datasources' \subseteq datasources
  BY DEF Migrate, Surviving
<1>5. directories \subseteq DirectoryRow /\ files \subseteq File /\ datasources \subseteq Datasource
  BY DEF Inv, TypeOK
<1>6. directories' \subseteq DirectoryRow /\ files' \subseteq File
  <2>. HIDE DEF remap
  <2>. QED
    BY <1>1, <1>2, <1>3, <1>5, RepointTyped
<1>7. Distinct(directories', DirectorySlot)
  BY <1>2 DEF Migrate, Refused
<1>8. Distinct(directories', IdSlot)
  <2>. SUFFICES ASSUME NEW d \in directories, NEW e \in directories,
                       Repoint(remap, d).id = Repoint(remap, e).id
                PROVE  Repoint(remap, d) = Repoint(remap, e)
    BY <1>2 DEF Distinct, IdSlot
  <2>. HIDE DEF remap
  <2>1. d.id = e.id
    BY <1>1, <1>5, RepointTyped
  <2>. QED
    BY <2>1 DEF Inv, TypeOK, Keyed, Distinct, IdSlot
<1>9. Distinct(datasources', IdSlot)
  BY <1>4 DEF Inv, TypeOK, Keyed, Distinct
<1>10. proc' \in [Process -> ProcRecord]
  BY GotoTyped DEF Migrate, Inv
<1>11. indexed' = indexed /\ calls' = calls /\ crashes' = crashes
  BY DEF Migrate
<1>. QED
  BY <1>3, <1>4, <1>5, <1>6, <1>7, <1>8, <1>9, <1>10, <1>11 DEF Inv, TypeOK, Keyed

\* What the query answers: the pairs of some choice K of keepers.
LEMMA RemapIs ==
  ASSUME TypeOK, NEW remap \in Remaps
  PROVE  \E K \in SUBSET datasources :
            /\ \A k \in K : IsFirst(k)
            /\ Distinct(K, Identity)
            /\ \A s \in datasources : \E k \in K : Identity(k) = Identity(s)
            /\ remap = {<<q[1].id, q[2].id>> :
                          q \in {q \in (datasources \ K) \X K : Identity(q[1]) = Identity(q[2])}}
<1>1. PICK K \in SUBSET Firsts :
        /\ Distinct(K, Identity)
        /\ \A k \in Firsts : \E j \in K : Identity(j) = Identity(k)
        /\ remap = {<<q[1].id, q[2].id>> :
                      q \in {q \in (datasources \ K) \X K : Identity(q[1]) = Identity(q[2])}}
  BY DEF Remaps
<1>2. ASSUME NEW k \in K PROVE k \in datasources /\ IsFirst(k)
  <2>1. k \in datasources
    BY DEF Firsts
  <2>2. \A s \in datasources : Identity(s) = Identity(k) => ~Before(s, k)
    BY DEF Firsts
  <2>3. ASSUME NEW s \in datasources, s # k, Identity(s) = Identity(k) PROVE Before(k, s)
    <3>1. s.id # k.id
      BY <2>1, <2>3, IdsTell
    <3>2. s \in Datasource /\ k \in Datasource
      BY <2>1 DEF TypeOK
    <3>. QED
      BY <2>2, <2>3, <3>1, <3>2, BeforeOrders
  <2>. QED
    BY <2>1, <2>3 DEF IsFirst
<1>3. \A s \in datasources : \E k \in K : Identity(k) = Identity(s)
  BY <1>1, GroupsHaveAFirst
<1>4. K \in SUBSET datasources
  BY <1>2
<1>. QED
  BY <1>1, <1>2, <1>3, <1>4

\* A fresh answer tells the truth, and resolves every duplicate.
LEMMA ReadIsDue ==
  ASSUME TypeOK, IdsInv, NEW remap \in Remaps
  PROVE  /\ remap \in SUBSET (SourceId \X SourceId)
         /\ \A q \in remap : IsDue(q)
         /\ Covers(remap)
         /\ remap = {} => Unique
<1>1. PICK K \in SUBSET datasources :
        /\ \A k \in K : IsFirst(k)
        /\ Distinct(K, Identity)
        /\ \A s \in datasources : \E k \in K : Identity(k) = Identity(s)
        /\ remap = {<<q[1].id, q[2].id>> :
                      q \in {q \in (datasources \ K) \X K : Identity(q[1]) = Identity(q[2])}}
  BY RemapIs
<1>2. ASSUME NEW q \in remap
      PROVE  q \in SourceId \X SourceId /\ IsDue(q)
  <2>1. PICK s \in datasources \ K, k \in K : q = <<s.id, k.id>> /\ Identity(s) = Identity(k)
    BY <1>1
  <2>2. s.id \in SourceId /\ k.id \in SourceId
    BY DEF TypeOK, Datasource
  <2>3. s.id # k.id
    BY IdsTell
  <2>4. \A t \in datasources : t.id = s.id => Identity(t) = Identity(k)
    BY <2>1, IdsTell
  <2>5. s.id \in 1..(NumSources + calls)
    BY <2>2, NumSourcesAssumption, BoundsAssumption DEF IdsInv, SourceId, TypeOK
  <2>. QED
    BY <1>1, <2>1, <2>2, <2>3, <2>4, <2>5 DEF IsDue
<1>3. ASSUME NEW s \in datasources \ K PROVE s.id \in Dead(remap)
  <2>1. PICK k \in K : Identity(k) = Identity(s)
    BY <1>1
  <2>2. <<s, k>> \in {q \in (datasources \ K) \X K : Identity(q[1]) = Identity(q[2])}
    BY <2>1
  <2>3. <<s.id, k.id>> \in remap
    BY <1>1, <2>2
  <2>. QED
    BY <2>3 DEF Dead
<1>4. Covers(remap)
  BY <1>1, <1>3 DEF Covers, Distinct
<1>5. remap = {} => Unique
  BY <1>4 DEF Covers, Dead, Unique, Distinct
<1>. QED
  BY <1>2, <1>4, <1>5

LEMMA TypeRead ==
  ASSUME TypeOK, IdsInv, NEW p \in Process, ReadDuplicates(p)
  PROVE  TypeOK'
<1>1. PICK remap \in Remaps :
        proc' = [proc EXCEPT ![p] =
                   [pc |-> IF remap = {} THEN "schema" ELSE "migrate", remap |-> remap]]
  BY DEF ReadDuplicates
<1>2. remap \in SUBSET (SourceId \X SourceId)
  BY ReadIsDue
<1>3. proc' \in [Process -> ProcRecord]
  <2>1. [pc |-> IF remap = {} THEN "schema" ELSE "migrate", remap |-> remap] \in ProcRecord
    BY <1>2 DEF ProcRecord
  <2>. QED
    BY <1>1, <2>1 DEF TypeOK
<1>. QED
  BY <1>3 DEF ReadDuplicates, tables, TypeOK, Keyed

LEMMA TypeOpening ==
  ASSUME TypeOK, NEW p \in Process,
         MigrateFails(p) \/ CreateIndex(p) \/ TryAgain(p) \/ Crash(p)
  PROVE  TypeOK'
<1>1. UNCHANGED tables
  BY DEF MigrateFails, CreateIndex, TryAgain, Crash
<1>2. proc' \in [Process -> ProcRecord]
  BY GotoTyped DEF MigrateFails, CreateIndex, TryAgain, Crash
<1>3. indexed' \in BOOLEAN
  BY Zenon DEF MigrateFails, CreateIndex, TryAgain, Crash, TypeOK
<1>4. calls' \in 0..MaxCalls /\ crashes' \in 0..MaxCrashes
  BY BoundsAssumption DEF MigrateFails, CreateIndex, TryAgain, Crash, TypeOK
<1>. QED
  BY <1>1, <1>2, <1>3, <1>4 DEF tables, TypeOK, Keyed

LEMMA ServeTyped ==
  ASSUME TypeOK, Serve
  PROVE  calls' \in 0..MaxCalls /\ calls' = calls + 1 /\ calls \in Nat /\ NumSources + calls' \in SourceId
BY NumSourcesAssumption, BoundsAssumption DEF TypeOK, Serve, SourceId

LEMMA TypeCall ==
  ASSUME TypeOK, IdsInv, Call
  PROVE  TypeOK'
<1>1. ASSUME NEW u \in User, NEW e \in Endpoint, Connect(u, e) PROVE TypeOK'
  <2>. DEFINE new == [id |-> NumSources + calls', user |-> u, endpoint |-> e, created |-> MaxTime]
  <2>1. new \in Datasource
    BY <1>1, ServeTyped, BoundsAssumption DEF Connect, Datasource
  <2>2. datasources' = datasources \/ datasources' = datasources \cup {new}
    BY <1>1 DEF Connect
  <2>3. \A s \in datasources : s.id # new.id
    <3>1. \A s \in datasources : s.id \in Int /\ s.id <= NumSources + calls
      BY NumSourcesAssumption, BoundsAssumption DEF TypeOK, Datasource, SourceId, IdsInv
    <3>2. calls' = calls + 1 /\ calls \in Nat
      BY <1>1, ServeTyped DEF Connect
    <3>. QED
      BY <3>1, <3>2, NumSourcesAssumption
  <2>4. Distinct(datasources', IdSlot)
    BY <2>2, <2>3 DEF TypeOK, Keyed, Distinct, IdSlot
  <2>5. datasources' \subseteq Datasource /\ calls' \in 0..MaxCalls
    BY <1>1, <2>1, <2>2, ServeTyped DEF TypeOK, Connect
  <2>. QED
    BY <1>1, <2>4, <2>5 DEF TypeOK, Keyed, Connect
<1>2. ASSUME NEW s \in datasources, NEW path \in Path, Register(s, path) PROVE TypeOK'
  <2>1. PICK id \in Directory \ Ids(directories) :
          directories' = Insert([id |-> id, user |-> s.user, source |-> s.id, path |-> path])
    BY <1>2 DEF Register
  <2>. DEFINE new == [id |-> id, user |-> s.user, source |-> s.id, path |-> path]
  <2>2. new \in DirectoryRow
    BY DEF TypeOK, Datasource, DirectoryRow
  <2>3. CASE directories' = directories
    BY <1>2, <2>3, ServeTyped DEF TypeOK, Keyed, Register
  <2>4. CASE /\ directories' = directories \cup {new}
             /\ \A d \in directories : DirectorySlot(d) # DirectorySlot(new)
    <3>1. \A d \in directories : d.id # new.id
      BY DEF Ids
    <3>. HIDE DEF new
    <3>2. Distinct(directories', IdSlot) /\ Distinct(directories', DirectorySlot)
      BY <2>4, <3>1 DEF TypeOK, Keyed, Distinct, IdSlot
    <3>. QED
      BY <1>2, <2>2, <2>4, <3>2, ServeTyped DEF TypeOK, Keyed, Register
  <2>. QED
    BY <2>1, <2>3, <2>4 DEF Insert
<1>3. ASSUME NEW d \in directories, NEW k \in Key, UpsertFile(d, k) PROVE TypeOK'
  <2>. DEFINE new == [source |-> d.source, key |-> k, dir |-> d.id]
  <2>1. new \in File
    BY DEF TypeOK, DirectoryRow, File
  <2>2. files' = {f \in files : FileSlot(f) # FileSlot(new)} \cup {new}
    BY <1>3 DEF UpsertFile
  <2>. HIDE DEF new
  <2>3. Distinct(files', FileSlot)
    BY <2>2 DEF TypeOK, Keyed, Distinct
  <2>. QED
    BY <1>3, <2>1, <2>2, <2>3, ServeTyped DEF TypeOK, Keyed, UpsertFile
<1>. QED
  BY <1>1, <1>2, <1>3 DEF Call

LEMMA TypeStep == Inv /\ [Next]_vars => TypeOK'
<1>. SUFFICES ASSUME Inv, [Next]_vars PROVE TypeOK'
  OBVIOUS
<1>1. CASE UNCHANGED vars
  BY <1>1 DEF vars, tables, Inv, TypeOK, Keyed
<1>2. CASE Call
  BY <1>2, TypeCall DEF Inv
<1>3. ASSUME NEW p \in Process, Opening(p) \/ Crash(p) PROVE TypeOK'
  BY <1>3, TypeRead, TypeMigrate, TypeOpening DEF Opening, Inv
<1>. QED
  BY <1>1, <1>2, <1>3 DEF Next

-----------------------------------------------------------------------------
(* What is due stays due.                                                  *)

\* The three things a step may do to the datasources: nothing, delete what a process
\* has read to be duplicates, or add a row of a new id at a place that has none.
LEMMA DatasourcesStep ==
  ASSUME Inv, [Next]_vars
  PROVE  \/ datasources' = datasources /\ (calls' = calls \/ calls' = calls + 1)
         \/ \E p \in Process : datasources' = Surviving(proc[p].remap) /\ calls' = calls
         \/ /\ calls' = calls + 1
            /\ \E new \in Datasource :
                  /\ datasources' = datasources \cup {new}
                  /\ new.id = NumSources + calls'
                  /\ \A s \in datasources : Identity(s) # Identity(new)
<1>1. ASSUME NEW u \in User, NEW e \in Endpoint, Connect(u, e)
      PROVE  /\ calls' = calls + 1
             /\ \/ datasources' = datasources
                \/ \E new \in Datasource :
                      /\ datasources' = datasources \cup {new}
                      /\ new.id = NumSources + calls'
                      /\ \A s \in datasources : Identity(s) # Identity(new)
  <2>. DEFINE new == [id |-> NumSources + calls', user |-> u, endpoint |-> e, created |-> MaxTime]
  <2>1. new \in Datasource
    BY <1>1, ServeTyped, BoundsAssumption DEF Connect, Datasource, Inv
  <2>2. datasources' = IF \E s \in datasources : Identity(s) = Identity(new)
                         THEN datasources ELSE datasources \cup {new}
    BY <1>1 DEF Connect
  <2>3. new.id = NumSources + calls' /\ calls' = calls + 1
    BY <1>1 DEF Connect, Serve
  <2>. HIDE DEF new
  <2>. QED
    BY <2>1, <2>2, <2>3
<1>2. ASSUME NEW s \in datasources, NEW path \in Path, Register(s, path)
      PROVE  datasources' = datasources /\ calls' = calls + 1
  BY <1>2 DEF Register, Serve
<1>3. ASSUME NEW d \in directories, NEW k \in Key, UpsertFile(d, k)
      PROVE  datasources' = datasources /\ calls' = calls + 1
  BY <1>3 DEF UpsertFile, Serve
<1>4. ASSUME NEW p \in Process, Migrate(p)
      PROVE  datasources' = Surviving(proc[p].remap) /\ calls' = calls
  BY <1>4 DEF Migrate
<1>5. ASSUME NEW p \in Process,
             ReadDuplicates(p) \/ MigrateFails(p) \/ CreateIndex(p) \/ TryAgain(p) \/ Crash(p)
      PROVE  datasources' = datasources /\ calls' = calls
  BY <1>5 DEF ReadDuplicates, MigrateFails, CreateIndex, TryAgain, Crash, tables
<1>6. CASE UNCHANGED vars
  BY <1>6 DEF vars
<1>. QED
  BY <1>1, <1>2, <1>3, <1>4, <1>5, <1>6 DEF Next, Call, Opening

LEMMA NumbersTyped ==
  ASSUME TypeOK
  PROVE  calls \in Int /\ NumSources \in Int
BY NumSourcesAssumption, BoundsAssumption DEF TypeOK

LEMMA IdsStep ==
  ASSUME Inv, [Next]_vars
  PROVE  IdsInv'
<1>1. \A s \in datasources : s.id \in Int /\ s.id <= NumSources + calls
  BY NumSourcesAssumption, BoundsAssumption DEF Inv, TypeOK, Datasource, SourceId, IdsInv
<1>2. calls \in Int /\ NumSources \in Int
  BY NumbersTyped DEF Inv
<1>3. CASE datasources' \subseteq datasources /\ (calls' = calls \/ calls' = calls + 1)
  BY <1>1, <1>2, <1>3 DEF IdsInv
<1>4. CASE /\ calls' = calls + 1
           /\ \E new \in Datasource :
                 datasources' = datasources \cup {new} /\ new.id = NumSources + calls'
  BY <1>1, <1>2, <1>4 DEF IdsInv
<1>. QED
  BY <1>3, <1>4, DatasourcesStep DEF Surviving

LEMMA DueStep ==
  ASSUME Inv, [Next]_vars, NEW q, IsDue(q)
  PROVE  IsDue(q)'
<1>1. PICK k \in datasources :
        /\ k.id = q[2] /\ IsFirst(k)
        /\ \A s \in datasources : s.id = q[1] => Identity(s) = Identity(k)
  BY DEF IsDue
<1>2. calls \in Int /\ NumSources \in Int
  BY NumbersTyped DEF Inv
<1>3. q[1] # q[2] /\ q[1] \in 1..(NumSources + calls)
  BY DEF IsDue
<1>4. calls' = calls + 1 => q[1] \in 1..(NumSources + calls') /\ q[1] # NumSources + calls'
  BY <1>2, <1>3
<1>5. CASE datasources' = datasources /\ (calls' = calls \/ calls' = calls + 1)
  BY <1>1, <1>3, <1>4, <1>5 DEF IsDue, IsFirst
<1>6. CASE \E p \in Process : datasources' = Surviving(proc[p].remap) /\ calls' = calls
  <2>1. k \in datasources' /\ datasources' \subseteq datasources
    BY <1>1, <1>6, FirstsSurvive DEF Surviving
  <2>. QED
    BY <1>1, <1>3, <1>6, <2>1 DEF IsDue, IsFirst
<1>7. CASE /\ calls' = calls + 1
           /\ \E new \in Datasource :
                 /\ datasources' = datasources \cup {new}
                 /\ new.id = NumSources + calls'
                 /\ \A s \in datasources : Identity(s) # Identity(new)
  <2>1. PICK new \in Datasource :
          /\ datasources' = datasources \cup {new}
          /\ new.id = NumSources + calls'
          /\ \A s \in datasources : Identity(s) # Identity(new)
    BY <1>7
  <2>2. new.id # q[1] /\ q[1] \in 1..(NumSources + calls')
    BY <1>4, <1>7, <2>1
  <2>. QED
    BY <1>1, <1>3, <2>1, <2>2 DEF IsDue, IsFirst
<1>. QED
  BY <1>5, <1>6, <1>7, DatasourcesStep

LEMMA CoversStep ==
  ASSUME Inv, [Next]_vars, NEW remap, Covers(remap)
  PROVE  Covers(remap)'
BY DatasourcesStep DEF Covers, Surviving

LEMMA UniqueStep ==
  ASSUME Inv, [Next]_vars, Unique
  PROVE  Unique'
BY DatasourcesStep DEF Unique, Distinct, Surviving

-----------------------------------------------------------------------------
(* The invariant.                                                          *)

LEMMA InvInit == Init => Inv
<1>. SUFFICES ASSUME Init PROVE Inv
  OBVIOUS
<1>1. PICK n \in 0..NumSources :
        /\ \E s \in [1..n -> [user : User, endpoint : Endpoint, created : 1..MaxTime]] :
              datasources = {[id |-> i, user |-> s[i].user, endpoint |-> s[i].endpoint,
                              created |-> s[i].created] : i \in 1..n}
        /\ \E ids \in SUBSET Directory : \E at \in [ids -> datasources \X Path] :
              directories = {[id |-> i, user |-> at[i][1].user, source |-> at[i][1].id,
                              path |-> at[i][2]] : i \in ids}
        /\ files \in SUBSET {f \in File : \E d \in directories :
                                             f.dir = d.id /\ f.source = d.source}
  BY DEF Init, OldVolume
<1>2. RowsFollow
  <2>1. \A d \in directories : \E s \in datasources : s.id = d.source /\ s.user = d.user
    BY <1>1
  <2>2. \A f \in files : \E d \in directories : d.id = f.dir /\ d.source = f.source
    BY <1>1
  <2>. QED
    BY <2>1, <2>2 DEF RowsFollow
<1>3. IdsInv
  <2>1. \A s \in datasources : s.id \in 1..n
    BY <1>1
  <2>. QED
    BY <2>1, NumSourcesAssumption DEF IdsInv, Init, StartUp
<1>4. IndexInv
  BY DEF IndexInv, Init, StartUp
<1>5. \A p \in Process : ProcInv(p)
  BY DEF ProcInv, At, Init, StartUp
<1>. QED
  BY <1>2, <1>3, <1>4, <1>5, TypeInit DEF Inv

\* Once the process has committed, the place of each row is its own.
LEMMA MigrateUnique ==
  ASSUME Inv, NEW p \in Process, Migrate(p)
  PROVE  Unique'
<1>1. Covers(proc[p].remap)
  BY DEF Migrate, Inv, ProcInv
<1>2. datasources' = Surviving(proc[p].remap)
  BY DEF Migrate
<1>. QED
  BY <1>1, <1>2 DEF Unique, Distinct, Surviving, Covers

\* A process that does not move keeps what it holds.
LEMMA ProcKept ==
  ASSUME Inv, [Next]_vars, NEW r \in Process, proc'[r] = proc[r], indexed => indexed'
  PROVE  ProcInv(r)'
<1>1. ProcInv(r)
  BY DEF Inv
<1>2. \A q \in proc[r].remap : IsDue(q)'
  BY <1>1, DueStep DEF ProcInv
<1>3. Covers(proc[r].remap) => Covers(proc[r].remap)'
  BY CoversStep DEF Covers
<1>4. Unique => Unique'
  BY UniqueStep
<1>5. proc'[r].pc = "open" => indexed'
  BY <1>1 DEF ProcInv
<1>. QED
  BY <1>1, <1>2, <1>3, <1>4, <1>5 DEF ProcInv

\* Where a process goes without a remap.
LEMMA ProcAt ==
  ASSUME NEW r \in Process, NEW pc \in {"closed", "schema", "open", "failed"},
         proc'[r] = At(pc), pc = "open" => indexed', pc = "schema" => Unique'
  PROVE  ProcInv(r)'
BY DEF ProcInv, At

LEMMA ProcStep ==
  ASSUME Inv, [Next]_vars
  PROVE  IndexInv' /\ \A r \in Process : ProcInv(r)'
<1>1. CASE Call \/ UNCHANGED vars
  <2>1. proc' = proc /\ indexed' = indexed
    BY <1>1 DEF Call, Connect, Register, UpsertFile, vars
  <2>2. \A r \in Process : ProcInv(r)'
    BY <2>1, ProcKept
  <2>. QED
    BY <2>1, <2>2, UniqueStep DEF Inv, IndexInv
<1>2. ASSUME NEW p \in Process, ReadDuplicates(p)
      PROVE  IndexInv' /\ \A r \in Process : ProcInv(r)'
  <2>1. PICK remap \in Remaps :
          proc' = [proc EXCEPT ![p] =
                     [pc |-> IF remap = {} THEN "schema" ELSE "migrate", remap |-> remap]]
    BY <1>2 DEF ReadDuplicates
  <2>2. datasources' = datasources /\ indexed' = indexed /\ calls' = calls
    BY <1>2 DEF ReadDuplicates, tables
  <2>3. proc'[p] = [pc |-> IF remap = {} THEN "schema" ELSE "migrate", remap |-> remap]
    BY <2>1 DEF Inv, TypeOK
  <2>4. (\A q \in remap : IsDue(q)) /\ Covers(remap) /\ (remap = {} => Unique)
    BY ReadIsDue DEF Inv
  <2>5. (\A q \in remap : IsDue(q)') /\ (remap = {} => Unique') /\ Covers(remap)'
    BY <2>4, DueStep, UniqueStep, CoversStep
  <2>6. ProcInv(p)'
    BY <2>3, <2>5 DEF ProcInv
  <2>7. \A r \in Process \ {p} : ProcInv(r)'
    <3>1. \A r \in Process \ {p} : proc'[r] = proc[r]
      BY <2>1 DEF Inv, TypeOK
    <3>. QED
      BY <2>2, <3>1, ProcKept
  <2>. QED
    BY <2>2, <2>6, <2>7, UniqueStep DEF Inv, IndexInv
<1>3. ASSUME NEW p \in Process, NEW pc \in {"closed", "schema", "open", "failed"}, Goto(p, pc),
             indexed => indexed', indexed' => Unique',
             pc = "open" => indexed', pc = "schema" => Unique'
      PROVE  IndexInv' /\ \A r \in Process : ProcInv(r)'
  <2>1. proc'[p] = At(pc) /\ \A r \in Process \ {p} : proc'[r] = proc[r]
    BY <1>3, GotoTyped DEF Inv
  <2>2. ProcInv(p)'
    BY <1>3, <2>1, ProcAt
  <2>3. \A r \in Process \ {p} : ProcInv(r)'
    BY <1>3, <2>1, ProcKept
  <2>. QED
    BY <1>3, <2>2, <2>3 DEF IndexInv
<1>4. indexed => Unique
  BY DEF Inv, IndexInv
<1>5. ASSUME NEW p \in Process, Migrate(p)
      PROVE  IndexInv' /\ \A r \in Process : ProcInv(r)'
  <2>1. Goto(p, "schema") /\ indexed' = indexed
    BY <1>5 DEF Migrate
  <2>. QED
    BY <1>3, <1>5, <2>1, MigrateUnique
<1>6. ASSUME NEW p \in Process, MigrateFails(p) \/ TryAgain(p) \/ Crash(p)
      PROVE  IndexInv' /\ \A r \in Process : ProcInv(r)'
  <2>1. indexed' = indexed /\ (Goto(p, "failed") \/ Goto(p, "closed"))
    BY <1>6 DEF MigrateFails, TryAgain, Crash
  <2>. QED
    BY <1>3, <1>4, <2>1, UniqueStep
<1>7. ASSUME NEW p \in Process, CreateIndex(p)
      PROVE  IndexInv' /\ \A r \in Process : ProcInv(r)'
  <2>1. Unique /\ Unique'
    BY <1>7, UniqueStep DEF CreateIndex, Inv, ProcInv
  <2>2. Goto(p, "open") /\ indexed' = TRUE
    BY <1>7, <2>1 DEF CreateIndex, Unique
  <2>. QED
    BY <1>3, <2>1, <2>2
<1>. QED
  BY <1>1, <1>2, <1>5, <1>6, <1>7 DEF Next, Opening

\* Rows follow their datasource through a migration, together.
LEMMA RowsMigrate ==
  ASSUME Inv, NEW p \in Process, Migrate(p)
  PROVE  RowsFollow'
<1>. DEFINE remap == proc[p].remap
<1>1. /\ directories' = {Repoint(remap, d) : d \in directories}
      /\ datasources' = Surviving(remap)
      /\ files' \subseteq {Repoint(remap, f) : f \in files}
  BY CollapsedIs DEF Migrate
<1>2. remap \in SUBSET (SourceId \X SourceId)
  BY RemapTyped DEF Inv
<1>3. directories \subseteq DirectoryRow /\ files \subseteq File
  BY DEF Inv, TypeOK
<1>4. ASSUME NEW d \in directories
      PROVE  \E k \in datasources' : /\ k.id = Repoint(remap, d).source
                                     /\ k.user = Repoint(remap, d).user
  <2>1. PICK s \in datasources : s.id = d.source /\ s.user = d.user
    BY DEF Inv, RowsFollow
  <2>2. PICK k \in Surviving(remap) :
          k.id = Repoint(remap, d).source /\ Identity(k) = Identity(s)
    BY <1>3, <2>1, MovedToItsPlace
  <2>3. k.user = s.user
    BY <2>2, IdentityIsPlace DEF SamePlace
  <2>4. Repoint(remap, d).user = d.user
    <3>. HIDE DEF remap
    <3>. QED  BY <1>2, <1>3, RepointTyped
  <2>. QED
    BY <1>1, <2>1, <2>2, <2>3, <2>4
<1>5. ASSUME NEW f \in files
      PROVE  \E d \in directories' : /\ d.id = Repoint(remap, f).dir
                                     /\ d.source = Repoint(remap, f).source
  <2>1. PICK d \in directories : d.id = f.dir /\ d.source = f.source
    BY DEF Inv, RowsFollow
  <2>. HIDE DEF remap
  <2>2. Repoint(remap, d).source = Repoint(remap, f).source
    BY <1>3, <2>1, RepointIsBySource
  <2>3. Repoint(remap, d).id = d.id /\ Repoint(remap, f).dir = f.dir
    BY <1>2, <1>3, RepointTyped
  <2>. QED
    BY <1>1, <2>1, <2>2, <2>3
<1>6. \A d \in directories' : \E s \in datasources' : s.id = d.source /\ s.user = d.user
  BY <1>1, <1>4
<1>7. \A f \in files' : \E d \in directories' : d.id = f.dir /\ d.source = f.source
  BY <1>1, <1>5
<1>. QED
  BY <1>6, <1>7 DEF RowsFollow

LEMMA RowsStep ==
  ASSUME Inv, [Next]_vars
  PROVE  RowsFollow'
<1>. USE DEF RowsFollow
<1>1. RowsFollow
  BY DEF Inv
<1>2. ASSUME NEW u \in User, NEW e \in Endpoint, Connect(u, e) PROVE RowsFollow'
  <2>1. datasources \subseteq datasources' /\ directories' = directories /\ files' = files
    BY <1>2 DEF Connect
  <2>. QED
    BY <1>1, <2>1
<1>3. ASSUME NEW s \in datasources, NEW path \in Path, Register(s, path) PROVE RowsFollow'
  <2>1. PICK id \in Directory \ Ids(directories) :
          directories' = Insert([id |-> id, user |-> s.user, source |-> s.id, path |-> path])
    BY <1>3 DEF Register
  <2>2. datasources' = datasources /\ files' = files
    BY <1>3 DEF Register
  <2>3. /\ directories \subseteq directories'
        /\ directories' \subseteq directories \cup
              {[id |-> id, user |-> s.user, source |-> s.id, path |-> path]}
    BY <2>1 DEF Insert
  <2>4. \A d \in directories' : \E t \in datasources' : t.id = d.source /\ t.user = d.user
    BY <1>1, <2>2, <2>3
  <2>. QED
    BY <1>1, <2>2, <2>3, <2>4
<1>4. ASSUME NEW d \in directories, NEW k \in Key, UpsertFile(d, k) PROVE RowsFollow'
  <2>1. /\ files' \subseteq files \cup {[source |-> d.source, key |-> k, dir |-> d.id]}
        /\ datasources' = datasources /\ directories' = directories
    BY <1>4 DEF UpsertFile
  <2>. QED
    BY <1>1, <2>1
<1>5. ASSUME NEW p \in Process, Opening(p) \/ Crash(p), ~Migrate(p) PROVE RowsFollow'
  <2>1. UNCHANGED tables
    BY <1>5 DEF Opening, ReadDuplicates, MigrateFails, CreateIndex, TryAgain, Crash
  <2>. QED
    BY <1>1, <2>1 DEF tables
<1>6. CASE UNCHANGED vars
  BY <1>1, <1>6 DEF vars, tables
<1>. QED
  BY <1>2, <1>3, <1>4, <1>5, <1>6, RowsMigrate DEF Next, Call

LEMMA InvStep == Inv /\ [Next]_vars => Inv'
BY TypeStep, RowsStep, IdsStep, ProcStep DEF Inv

THEOREM Invariance == Spec => []Inv
BY InvInit, InvStep, PTL DEF Spec

-----------------------------------------------------------------------------
(* The theorems.                                                           *)

\* The tables keep their types and their keys, through migrations, crashes and calls.
THEOREM Types == Spec => []TypeOK
<1>1. Inv => TypeOK
  BY DEF Inv
<1>. QED
  BY <1>1, Invariance, PTL

\* No foreign key is ever broken, and no row ends up with another user's datasource,
\* whichever process read which duplicates when.
THEOREM RowsFollowTheirSource == Spec => []RowsFollow
<1>1. Inv => RowsFollow
  BY DEF Inv
<1>. QED
  BY <1>1, Invariance, PTL

\* Once any process serves, a user has one datasource per place.
THEOREM PlacesAreUnique == Spec => []OneRowPerPlace
<1>1. Inv => OneRowPerPlace
  BY IdentityIsPlace DEF Inv, ProcInv, IndexInv, Unique, Distinct, OneRowPerPlace
<1>. QED
  BY <1>1, Invariance, PTL

\* A volume another process serves has nothing to move: a remap read before is moot.
LEMMA QuietMigrate ==
  ASSUME Inv, indexed, NEW p \in Process, Migrate(p)
  PROVE  UNCHANGED tables
<1>. DEFINE remap == proc[p].remap
<1>1. ASSUME NEW q \in remap, NEW s \in datasources PROVE s.id # q[1]
  <2>1. PICK k \in datasources :
          /\ k.id = q[2] /\ q[1] # q[2]
          /\ \A t \in datasources : t.id = q[1] => Identity(t) = Identity(k)
    BY DEF Inv, ProcInv, IsDue
  <2>2. Identity(s) = Identity(k) => s = k
    BY DEF Inv, IndexInv, Unique, Distinct
  <2>. QED
    BY <2>1, <2>2
<1>2. \A d \in directories : \E s \in datasources : s.id = d.source
  BY DEF Inv, RowsFollow
<1>3. \A f \in files : \E s \in datasources : s.id = f.source
  <2>1. \A f \in files : \E d \in directories : d.source = f.source
    BY DEF Inv, RowsFollow
  <2>. QED
    BY <1>2, <2>1
<1>4. \A row \in directories \cup files : Repoint(remap, row) = row
  <2>1. \A row \in directories \cup files : \A q \in remap : q[1] # row.source
    BY <1>1, <1>2, <1>3
  <2>. HIDE DEF remap
  <2>. QED
    BY <2>1, RepointCases
<1>5. directories' = directories
  BY <1>4 DEF Migrate
<1>6. datasources' = datasources
  BY <1>1 DEF Migrate, Surviving, Dead
<1>7. files' = files
  <2>1. files' \in Collapsed(remap)
    BY DEF Migrate
  <2>2. files \subseteq files'
    <3>1. \A f \in files : f.source \notin Dead(remap)
      BY <1>1, <1>3 DEF Dead
    <3>. QED
      BY <2>1, <3>1 DEF Collapsed
  <2>3. files' \subseteq {Repoint(remap, f) : f \in files}
    BY <2>1, CollapsedIs
  <2>4. files' \subseteq files
    <3>. HIDE DEF remap
    <3>. QED  BY <1>4, <2>3
  <2>. QED
    BY <2>2, <2>4
<1>. QED
  BY <1>5, <1>6, <1>7 DEF tables

\* While some process serves, another that opens the volume, with duplicates it may
\* have read before, moves nothing and removes nothing.
THEOREM ServingIsLeftAlone == Spec => ServingIsQuiet
<1>1. Inv /\ [Next]_vars => [indexed => \A p \in Process : Opening(p) => UNCHANGED tables]_vars
  <2>. SUFFICES ASSUME Inv, indexed, NEW p \in Process, Opening(p) PROVE UNCHANGED tables
    OBVIOUS
  <2>1. CASE Migrate(p)
    BY <2>1, QuietMigrate
  <2>2. CASE ReadDuplicates(p) \/ MigrateFails(p) \/ CreateIndex(p) \/ TryAgain(p)
    BY <2>2 DEF ReadDuplicates, MigrateFails, CreateIndex, TryAgain
  <2>. QED
    BY <2>1, <2>2 DEF Opening
<1>. QED
  BY <1>1, Invariance, PTL DEF Spec, ServingIsQuiet

-----------------------------------------------------------------------------
(* Failing to open.                                                        *)

\* Where the migration is refused, two directories point to the same objects.
LEMMA RefusedIsClash ==
  ASSUME Inv, NEW p \in Process, Refused(proc[p].remap)
  PROVE  Clash
<1>. DEFINE remap == proc[p].remap
<1>1. PICK d \in directories, e \in directories :
        d # e /\ DirectorySlot(Repoint(remap, d)) = DirectorySlot(Repoint(remap, e))
  BY RefusedOverDirectories
<1>2. d \in DirectoryRow /\ e \in DirectoryRow
  BY DEF Inv, TypeOK
<1>3. PICK s \in datasources, t \in datasources : s.id = d.source /\ t.id = e.source
  BY DEF Inv, RowsFollow
<1>4. PICK k \in Surviving(remap) :
        k.id = Repoint(remap, d).source /\ Identity(k) = Identity(s)
  BY <1>2, <1>3, MovedToItsPlace
<1>5. PICK l \in Surviving(remap) :
        l.id = Repoint(remap, e).source /\ Identity(l) = Identity(t)
  BY <1>2, <1>3, MovedToItsPlace
<1>6. k = l
  <2>1. Repoint(remap, d).source = Repoint(remap, e).source
    BY <1>1 DEF DirectorySlot
  <2>. QED
    BY <1>4, <1>5, <2>1, IdsTell DEF Surviving, Inv
<1>7. SamePlace(s, t)
  BY <1>4, <1>5, <1>6, IdentityIsPlace
<1>8. d.path = e.path
  <2>1. remap \in SUBSET (SourceId \X SourceId)
    BY RemapTyped DEF Inv
  <2>2. Repoint(remap, d).path = Repoint(remap, e).path
    BY <1>1 DEF DirectorySlot
  <2>. HIDE DEF remap
  <2>. QED
    BY <1>2, <2>1, <2>2, RepointTyped
<1>. QED
  BY <1>1, <1>3, <1>7, <1>8 DEF Clash

\* What every step leaves of the tables: the directories, with their paths and their
\* places, and for each key of a place a row.
LEMMA NothingLost ==
  ASSUME Inv, [Next]_vars, NEW s \in datasources
  PROVE  /\ \A d \in directories : d.source = s.id =>
               \E e \in directories' : e.id = d.id /\ e.path = d.path /\ Placed(s, e.source)'
         /\ \A f \in files : f.source = s.id =>
               \E g \in files' : g.key = f.key /\ Placed(s, g.source)'
<1>1. SamePlace(s, s)
  BY DEF SamePlace
<1>2. ASSUME NEW p \in Process, Migrate(p),
             NEW row \in directories \cup files, row.source = s.id
      PROVE  \E k \in datasources' :
                k.id = Repoint(proc[p].remap, row).source /\ SamePlace(k, s)
  <2>1. row \in DirectoryRow \cup File
    BY DEF Inv, TypeOK
  <2>. QED
    BY <1>2, <2>1, MovedToItsPlace, IdentityIsPlace DEF Migrate
<1>3. ASSUME NEW p \in Process, Migrate(p)
      PROVE  /\ \A d \in directories : d.source = s.id =>
                   \E e \in directories' : e.id = d.id /\ e.path = d.path /\ Placed(s, e.source)'
             /\ \A f \in files : f.source = s.id =>
                   \E g \in files' : g.key = f.key /\ Placed(s, g.source)'
  <2>. DEFINE remap == proc[p].remap
  <2>1. remap \in SUBSET (SourceId \X SourceId)
    BY RemapTyped DEF Inv
  <2>2. directories \subseteq DirectoryRow /\ files \subseteq File
    BY DEF Inv, TypeOK
  <2>3. \A row \in directories \cup files : row.source = s.id =>
           \E k \in datasources' : k.id = Repoint(remap, row).source /\ SamePlace(k, s)
    BY <1>2, <1>3
  <2>4. directories' = {Repoint(remap, d) : d \in directories}
    BY <1>3 DEF Migrate
  <2>5. \A f \in files : \E g \in files' : FileSlot(Repoint(remap, f)) = FileSlot(g)
    BY <1>3, CollapsedIs DEF Migrate
  <2>. HIDE DEF remap
  <2>6. ASSUME NEW d \in directories, d.source = s.id
        PROVE  \E e \in directories' : e.id = d.id /\ e.path = d.path /\ Placed(s, e.source)'
    <3>1. Repoint(remap, d).id = d.id /\ Repoint(remap, d).path = d.path
      BY <2>1, <2>2, RepointTyped
    <3>2. PICK e \in directories' : e = Repoint(remap, d)
      BY <2>4
    <3>3. \E k \in datasources' : k.id = e.source /\ SamePlace(k, s)
      BY <2>3, <2>6, <3>2
    <3>. QED
      BY <3>1, <3>2, <3>3 DEF Placed
  <2>7. ASSUME NEW f \in files, f.source = s.id
        PROVE  \E g \in files' : g.key = f.key /\ Placed(s, g.source)'
    <3>1. PICK g \in files' : FileSlot(Repoint(remap, f)) = FileSlot(g)
      BY <2>5
    <3>2. Repoint(remap, f).key = f.key
      BY <2>1, <2>2, RepointTyped
    <3>3. g.key = f.key /\ g.source = Repoint(remap, f).source
      BY <3>1, <3>2 DEF FileSlot
    <3>. QED
      BY <2>3, <2>7, <3>3 DEF Placed
  <2>. QED
    BY <2>6, <2>7
<1>4. CASE /\ datasources \subseteq datasources' /\ directories \subseteq directories'
           /\ \A f \in files : \E g \in files' : FileSlot(f) = FileSlot(g)
  <2>1. ASSUME NEW f \in files, f.source = s.id
        PROVE  \E g \in files' : g.key = f.key /\ Placed(s, g.source)'
    <3>1. PICK g \in files' : g.key = f.key /\ g.source = s.id
      BY <1>4, <2>1 DEF FileSlot
    <3>. QED
      BY <1>1, <1>4, <3>1 DEF Placed
  <2>. QED
    BY <1>1, <1>4, <2>1 DEF Placed
<1>5. ASSUME Call
      PROVE  /\ datasources \subseteq datasources' /\ directories \subseteq directories'
             /\ \A f \in files : \E g \in files' : FileSlot(f) = FileSlot(g)
  <2>1. ASSUME NEW d \in directories, NEW k \in Key, UpsertFile(d, k)
        PROVE  \A f \in files : \E g \in files' : FileSlot(f) = FileSlot(g)
    <3>. DEFINE new == [source |-> d.source, key |-> k, dir |-> d.id]
    <3>1. files' = {f \in files : FileSlot(f) # FileSlot(new)} \cup {new}
      BY <2>1 DEF UpsertFile
    <3>. HIDE DEF new
    <3>. QED
      BY <3>1
  <2>2. CASE \E u \in User, e \in Endpoint : Connect(u, e)
    BY <2>2 DEF Connect
  <2>3. CASE \E t \in datasources, path \in Path : Register(t, path)
    BY <2>3 DEF Register, Insert
  <2>4. CASE \E d \in directories, k \in Key : UpsertFile(d, k)
    BY <2>1, <2>4 DEF UpsertFile
  <2>. QED
    BY <1>5, <2>2, <2>3, <2>4 DEF Call
<1>6. ASSUME NEW p \in Process, Opening(p) \/ Crash(p), ~Migrate(p) PROVE UNCHANGED tables
  BY <1>6 DEF Opening, ReadDuplicates, MigrateFails, CreateIndex, TryAgain, Crash
<1>7. CASE UNCHANGED tables
  BY <1>4, <1>7 DEF tables
<1>8. CASE UNCHANGED vars
  BY <1>7, <1>8 DEF vars, tables
<1>. QED
  BY <1>3, <1>4, <1>5, <1>6, <1>7, <1>8 DEF Next

\* No step of any process forgets a directory or changes where it points, or forgets
\* that a key of a place was ever indexed.
THEOREM MigrationLosesNothing == Spec => NothingIsForgotten
<1>1. Inv /\ [Next]_vars =>
        [\A s \in datasources :
           /\ \A d \in directories : d.source = s.id =>
                 \E e \in directories' : e.id = d.id /\ e.path = d.path /\ (Placed(s, e.source))'
           /\ \A f \in files : f.source = s.id =>
                 \E g \in files' : g.key = f.key /\ (Placed(s, g.source))']_vars
  BY NothingLost
<1>. QED
  BY <1>1, Invariance, PTL DEF Spec, NothingIsForgotten

\* Directories that clash clash for good: nothing removes a directory.
LEMMA ClashStep ==
  ASSUME Inv, [Next]_vars, Clash
  PROVE  Clash'
<1>1. PICK d \in directories, e \in directories, s \in datasources, t \in datasources :
        /\ d # e /\ d.path = e.path
        /\ d.source = s.id /\ e.source = t.id /\ SamePlace(s, t)
  BY DEF Clash
<1>2. d.id # e.id
  BY <1>1 DEF Inv, TypeOK, Keyed, Distinct, IdSlot
<1>3. PICK x \in directories', k \in datasources' :
        /\ x.id = d.id /\ x.path = d.path /\ k.id = x.source /\ SamePlace(k, s)
  BY <1>1, NothingLost DEF Placed
<1>4. PICK y \in directories', l \in datasources' :
        /\ y.id = e.id /\ y.path = e.path /\ l.id = y.source /\ SamePlace(l, t)
  BY <1>1, NothingLost DEF Placed
<1>5. SamePlace(k, l)
  <2>1. Identity(k) = Identity(s) /\ Identity(s) = Identity(t) /\ Identity(l) = Identity(t)
    BY <1>1, <1>3, <1>4, IdentityIsPlace
  <2>. QED
    BY <2>1, IdentityIsPlace
<1>. QED
  BY <1>1, <1>2, <1>3, <1>4, <1>5 DEF Clash

\* A process fails to open a volume only where two directories would become one: not
\* for what another process did to it meanwhile, or for a crash half way.
THEOREM OpeningFailsOnlyOnClash == Spec => []FailsOnlyOnClash
<1>1. Init => FailsOnlyOnClash
  BY DEF Init, StartUp, At, FailsOnlyOnClash
<1>2. Inv /\ FailsOnlyOnClash /\ [Next]_vars => FailsOnlyOnClash'
  <2>. SUFFICES ASSUME Inv, FailsOnlyOnClash, [Next]_vars, NEW r \in Process, proc'[r].pc = "failed"
                PROVE  Clash'
    BY DEF FailsOnlyOnClash
  <2>1. CASE proc[r].pc = "failed"
    BY <2>1, ClashStep DEF FailsOnlyOnClash
  <2>2. CASE MigrateFails(r)
    BY <2>2, RefusedIsClash, ClashStep DEF MigrateFails
  <2>3. CASE CreateIndex(r)
    <3>1. Unique
      BY <2>3 DEF CreateIndex, Inv, ProcInv
    <3>2. Goto(r, "open")
      BY <2>3, <3>1 DEF CreateIndex, Unique
    <3>3. proc'[r].pc = "open"
      BY <3>2, GotoTyped DEF Inv, At
    <3>. QED
      BY <3>3
  <2>4. ASSUME proc[r].pc # "failed" PROVE MigrateFails(r) \/ CreateIndex(r)
    <3>1. proc \in [Process -> ProcRecord]
      BY DEF Inv, TypeOK
    <3>2. CASE Call \/ UNCHANGED vars
      BY <2>4, <3>2 DEF Call, Connect, Register, UpsertFile, vars
    <3>3. ASSUME NEW p \in Process, ReadDuplicates(p) PROVE FALSE
      BY <2>4, <3>1, <3>3 DEF ReadDuplicates
    <3>4. ASSUME NEW p \in Process, Migrate(p) \/ TryAgain(p) \/ Crash(p) PROVE FALSE
      BY <2>4, <3>1, <3>4 DEF Migrate, TryAgain, Crash, Goto, At
    <3>5. ASSUME NEW p \in Process, MigrateFails(p) \/ CreateIndex(p) PROVE p = r
      BY <2>4, <3>1, <3>5 DEF MigrateFails, CreateIndex, Goto, At
    <3>. QED
      BY <3>2, <3>3, <3>4, <3>5 DEF Next, Opening
  <2>. QED
    BY <2>1, <2>2, <2>3, <2>4
<1>. QED
  BY <1>1, <1>2, Invariance, PTL DEF Spec
=============================================================================
