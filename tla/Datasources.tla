------------------------------ MODULE Datasources ------------------------------
(***************************************************************************)
(* The tables datasources, directories and files of one volume, written    *)
(* before datasources had an identity, as the processes that mount it open *)
(* it (db.init: collapse duplicates, then create the schema) and then      *)
(* serve connect, register, and the rows a sync writes.                    *)
(*                                                                         *)
(* A process opens the volume before its first use of it, and tries again  *)
(* after an error: the API at the next request, the worker when it has     *)
(* been restarted. All processes run the present code. A datasource has    *)
(* one bucket, so it is identified by its user and its endpoint.           *)
(***************************************************************************)
EXTENDS Scope, FiniteSets

CONSTANTS
    User,
    Process,      \* processes that mount the volume
    NumSources,   \* datasources of the old volume, numbered in the order of their ids
    Directory,    \* ids of directories
    Endpoint,     \* values of config.endpoint_url, with "null" for NULL
    Path,         \* paths a client asks for
    allowed,      \* allowed[u]: u's allowed_prefixes
    Key,          \* object keys; what a row says of its object is left out
    MaxTime,      \* bound: times of creation
    MaxCalls,     \* bound: calls that are served
    MaxCrashes    \* bound: crashes

ASSUME NumSourcesAssumption == NumSources \in Nat
\* allowed_prefixes normalises every prefix.
ASSUME AllowedAssumption == \A u \in User : \A a \in allowed[u] : StripLeft(a) = a
ASSUME BoundsAssumption == MaxTime \in Nat \ {0} /\ MaxCalls \in Nat /\ MaxCrashes \in Nat

VARIABLES
    datasources, directories, files,   \* the tables, as sets of rows
    indexed,                           \* does ux_datasources_identity exist?
    proc,                              \* proc[p]: how far p is with the volume
    calls, crashes                     \* calls and crashes so far

tables == <<datasources, directories, files>>
vars == <<datasources, directories, files, indexed, proc, calls, crashes>>

-----------------------------------------------------------------------------

SourceId == 1..(NumSources + MaxCalls)
Datasource == [id : SourceId, user : User, endpoint : Endpoint, created : 1..MaxTime]
DirectoryRow == [id : Directory, user : User, source : SourceId, path : Path]
File == [source : SourceId, key : Key, dir : Directory]

Ids(rows) == {row.id : row \in rows}

\* No two rows agree on what Slot says of them.
Distinct(rows, Slot(_)) == \A x, y \in rows : Slot(x) = Slot(y) => x = y

IdSlot(row) == row.id
DirectorySlot(d) == <<d.user, d.source, d.path>>
FileSlot(f) == <<f.source, f.key>>

Keyed ==
    /\ Distinct(datasources, IdSlot) /\ Distinct(directories, IdSlot)
    /\ Distinct(directories, DirectorySlot) /\ Distinct(files, FileSlot)

\* Mutant of Identity: a NULL endpoint differs from every other.
Identity_NullsDistinct(s) ==
    <<s.user, s.endpoint, IF s.endpoint = "null" THEN s.id ELSE 0>>

\* Mutant of Identity: whose datasource it is does not count.
Identity_AnyUser(s) == IF s.endpoint = "null" THEN "" ELSE s.endpoint

\* What ux_datasources_identity is over.
Identity(s) == <<s.user, IF s.endpoint = "null" THEN "" ELSE s.endpoint>>

\* Mutant of Before: age alone decides.
Before_Age(s, t) == s.created < t.created

\* ORDER BY created_at, id
Before(s, t) == s.created < t.created \/ (s.created = t.created /\ s.id < t.id)

\* The rows that are first of their identity, whichever the query may return.
Firsts == {k \in datasources :
             ~\E s \in datasources : Identity(s) = Identity(k) /\ Before(s, k)}

\* What the query may answer: the duplicates, and the row each gives way to.
Remaps ==
    LET Kept == {K \in SUBSET Firsts : /\ Distinct(K, Identity)
                                       /\ \A k \in Firsts : \E j \in K : Identity(j) = Identity(k)}
        Pairs(K) == {p \in (datasources \ K) \X K : Identity(p[1]) = Identity(p[2])}
    IN  {{<<p[1].id, p[2].id>> : p \in Pairs(K)} : K \in Kept}

Dead(remap) == {p[1] : p \in remap}
Repoint(remap, row) ==
    LET into == {p[2] : p \in {q \in remap : q[1] = row.source}}
    IN  IF into = {} THEN row ELSE [row EXCEPT !.source = CHOOSE k \in into : TRUE]

ProcRecord == [pc : {"closed", "migrate", "schema", "open", "failed"},
               remap : SUBSET (SourceId \X SourceId)]
At(pc) == [pc |-> pc, remap |-> {}]
Goto(p, pc) == proc' = [proc EXCEPT ![p] = At(pc)]

TypeOK ==
    /\ datasources \subseteq Datasource
    /\ directories \subseteq DirectoryRow
    /\ files \subseteq File
    /\ Keyed
    /\ indexed \in BOOLEAN
    /\ proc \in [Process -> ProcRecord]
    /\ calls \in 0..MaxCalls
    /\ crashes \in 0..MaxCrashes

\* A directory belongs to its datasource's user, a row of files to the datasource of
\* its directory, whose keys it names.
RowsFollow ==
    /\ \A d \in directories : \E s \in datasources : s.id = d.source /\ s.user = d.user
    /\ \A f \in files : \E d \in directories : d.id = f.dir /\ d.source = f.source

\* Whatever the old code may have left in a volume. Ids are taken in order.
OldVolume ==
    \E n \in 0..NumSources :
        /\ \E s \in [1..n -> [user : User, endpoint : Endpoint, created : 1..MaxTime]] :
              datasources = {[id |-> i, user |-> s[i].user, endpoint |-> s[i].endpoint,
                              created |-> s[i].created] : i \in 1..n}
        /\ \E ids \in SUBSET Directory : \E at \in [ids -> datasources \X Path] :
              directories = {[id |-> i, user |-> at[i][1].user, source |-> at[i][1].id,
                              path |-> at[i][2]] : i \in ids}
        /\ \A d \in directories : may_register(d.path, allowed[d.user])
        /\ files \in SUBSET {f \in File : \E d \in directories :
                                             f.dir = d.id /\ f.source = d.source}
        /\ Keyed

-----------------------------------------------------------------------------
(* Opening the volume.                                                     *)

\* The SELECT of _dedupe_datasources, outside any transaction. Where it finds
\* nothing, or another process has been here, nothing is left to collapse.
ReadDuplicates(p) ==
    /\ proc[p].pc = "closed"
    /\ \E remap \in Remaps :
          proc' = [proc EXCEPT ![p] =
                     [pc |-> IF remap = {} THEN "schema" ELSE "migrate", remap |-> remap]]
    /\ UNCHANGED <<tables, indexed, calls, crashes>>

\* Two directories would be one; or rows would point to a datasource that is gone.
Refused(remap) ==
    LET moved == {Repoint(remap, d) : d \in directories}
        gone == {p[2] : p \in remap} \ Ids(datasources)
    IN  \/ ~Distinct(moved, DirectorySlot)
        \/ \E row \in moved \cup {Repoint(remap, f) : f \in files} : row.source \in gone

\* Mutant of Collapsed: the rows of the duplicates are deleted at once.
Collapsed_Deleted(remap) == {{f \in files : f.source \notin Dead(remap)}}

\* UPDATE OR IGNORE, then DELETE: a slot keeps its survivor's row if there is one,
\* and otherwise the row of whichever duplicate comes first.
Collapsed(remap) ==
    LET stay == {f \in files : f.source \notin Dead(remap)}
        moved == {Repoint(remap, f) : f \in files}
    IN  {F \in SUBSET moved : /\ stay \subseteq F /\ Distinct(F, FileSlot)
                              /\ \A f \in moved : \E g \in F : FileSlot(f) = FileSlot(g)}

\* Mutant of Surviving: the duplicates are repointed and stay.
Surviving_All(remap) == datasources

Surviving(remap) == {s \in datasources : s.id \notin Dead(remap)}

\* The UPDATEs and DELETEs are one transaction, which executescript commits.
Migrate(p) ==
    LET remap == proc[p].remap
    IN  /\ proc[p].pc = "migrate"
        /\ ~Refused(remap)
        /\ directories' = {Repoint(remap, d) : d \in directories}
        /\ files' \in Collapsed(remap)
        /\ datasources' = Surviving(remap)
        /\ Goto(p, "schema")
        /\ UNCHANGED <<indexed, calls, crashes>>

\* An UPDATE violates a constraint: everything is rolled back, and init raises.
MigrateFails(p) ==
    /\ proc[p].pc = "migrate"
    /\ Refused(proc[p].remap)
    /\ Goto(p, "failed")
    /\ UNCHANGED <<tables, indexed, calls, crashes>>

\* CREATE UNIQUE INDEX IF NOT EXISTS fails over duplicates.
CreateIndex(p) ==
    /\ proc[p].pc = "schema"
    /\ IF indexed \/ Distinct(datasources, Identity)
         THEN Goto(p, "open") /\ indexed' = TRUE
         ELSE Goto(p, "failed") /\ UNCHANGED indexed
    /\ UNCHANGED <<tables, calls, crashes>>

TryAgain(p) ==
    /\ proc[p].pc = "failed"
    /\ Goto(p, "closed")
    /\ UNCHANGED <<tables, indexed, calls, crashes>>

Crash(p) ==
    /\ crashes < MaxCrashes
    /\ crashes' = crashes + 1
    /\ proc[p].pc # "closed"
    /\ Goto(p, "closed")
    /\ UNCHANGED <<tables, indexed, calls>>

-----------------------------------------------------------------------------
(* Calls that an open process serves. Each is one transaction.             *)

Serve == calls < MaxCalls /\ calls' = calls + 1

\* create_datasource: nothing is written where the identity is taken.
Connect(u, e) ==
    /\ Serve
    /\ LET new == [id |-> NumSources + calls', user |-> u, endpoint |-> e,
                   created |-> MaxTime]
       IN  datasources' = IF \E s \in datasources : Identity(s) = Identity(new)
                            THEN datasources ELSE datasources \cup {new}
    /\ UNCHANGED <<directories, files, indexed, proc, crashes>>

\* Mutant of Insert: directories has no UNIQUE constraint.
Insert_Unkeyed(new) == directories \cup {new}

\* INSERT ... ON CONFLICT DO NOTHING
Insert(new) ==
    directories \cup
        (IF \E d \in directories : DirectorySlot(d) = DirectorySlot(new) THEN {} ELSE {new})

\* register_directory: the datasource is the caller's, the path in scope.
Register(s, path) ==
    /\ Serve
    /\ s \in datasources
    /\ may_register(path, allowed[s.user])
    /\ \E id \in Directory \ Ids(directories) :
          directories' = Insert([id |-> id, user |-> s.user, source |-> s.id, path |-> path])
    /\ UNCHANGED <<datasources, files, indexed, proc, crashes>>

\* upsert_file: the row of the slot now belongs to the directory being synced.
UpsertFile(d, k) ==
    /\ Serve
    /\ d \in directories
    /\ LET new == [source |-> d.source, key |-> k, dir |-> d.id]
       IN  files' = {f \in files : FileSlot(f) # FileSlot(new)} \cup {new}
    /\ UNCHANGED <<datasources, directories, indexed, proc, crashes>>

Call ==
    /\ \E p \in Process : proc[p].pc = "open"
    /\ \/ \E u \in User, e \in Endpoint : Connect(u, e)
       \/ \E s \in datasources, path \in Path : Register(s, path)
       \/ \E d \in directories, k \in Key : UpsertFile(d, k)

Opening(p) ==
    ReadDuplicates(p) \/ Migrate(p) \/ MigrateFails(p) \/ CreateIndex(p) \/ TryAgain(p)

StartUp ==
    /\ indexed = FALSE
    /\ proc = [p \in Process |-> At("closed")]
    /\ calls = 0
    /\ crashes = 0

Init == OldVolume /\ StartUp

Next == Call \/ \E p \in Process : Opening(p) \/ Crash(p)

Spec == Init /\ [][Next]_vars

\* Containers are restarted unless stopped, and requests keep coming.
FairSpec == Spec /\ \A p \in Process : WF_vars(Opening(p))

-----------------------------------------------------------------------------
(* Properties.                                                             *)

\* Two rows point to the same place: NULL and '' both mean no endpoint.
SamePlace(s, t) ==
    s.user = t.user /\ (s.endpoint = t.endpoint \/ {s.endpoint, t.endpoint} = {"null", ""})

\* Once any process serves, a user has one datasource per place, however many the
\* volume had and whoever connects, from whichever process.
OneRowPerPlace ==
    (\E p \in Process : proc[p].pc = "open") =>
        \A s, t \in datasources : SamePlace(s, t) => s = t

\* Where a directory's objects are: its user, and the place of its datasource.
Placed(place, source) ==
    \E s \in datasources : s.id = source /\ SamePlace(s, place)

\* No step of any process forgets a directory or changes where it points, or forgets
\* that a key of a place was ever indexed: a duplicate's rows go to the survivor.
NothingIsForgotten ==
    [][\A s \in datasources :
          /\ \A d \in directories : d.source = s.id =>
                \E e \in directories' : e.id = d.id /\ e.path = d.path /\ (Placed(s, e.source))'
          /\ \A f \in files : f.source = s.id =>
                \E g \in files' : g.key = f.key /\ (Placed(s, g.source))']_vars

\* Where two directories would become one.
Clash ==
    \E d, e \in directories, s, t \in datasources :
        /\ d # e /\ d.path = e.path
        /\ d.source = s.id /\ e.source = t.id /\ SamePlace(s, t)

\* A process fails to open a volume only where two directories would become one: not
\* for what another process did to it meanwhile, or for a crash half way.
FailsOnlyOnClash == (\E p \in Process : proc[p].pc = "failed") => Clash

\* While some process serves, another that opens the volume, with duplicates it may
\* have read before, moves nothing and removes nothing.
ServingIsQuiet ==
    [][indexed => \A p \in Process : Opening(p) => UNCHANGED tables]_vars

\* Without such directories, every process opens the volume in the end.
VolumeOpens == ~Clash => <>[](\A p \in Process : proc[p].pc = "open")

\* "A database written before the constraint must still open."
OldVolumesOpen == \A p \in Process : proc[p].pc # "failed"
=============================================================================
