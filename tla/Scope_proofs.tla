----------------------------- MODULE Scope_proofs -----------------------------
(***************************************************************************)
(* What a user registers, syncs and browses stays in the user's prefixes,  *)
(* and all of it can be walked to: for keys and paths of any length over   *)
(* any segments, any policy, and any bucket.                               *)
(***************************************************************************)
EXTENDS MCDatasources, Datasources_proofs

-----------------------------------------------------------------------------
(* Prefixes of sequences.                                                  *)

LEMMA SubSeqIs ==
  ASSUME NEW S, NEW k \in Seq(S), NEW n \in 0..Len(k)
  PROVE  /\ SubSeq(k, 1, n) \in Seq(S)
         /\ Len(SubSeq(k, 1, n)) = n
         /\ \A i \in 1..n : SubSeq(k, 1, n)[i] = k[i]
OBVIOUS

\* A prefix is as long as it is, and agrees with the sequence so far.
LEMMA PrefixIs ==
  ASSUME NEW S, NEW a \in Seq(S), NEW k \in Seq(S)
  PROVE  IsPrefix(a, k) <=> Len(a) <= Len(k) /\ \A i \in 1..Len(a) : a[i] = k[i]
<1>. DEFINE l == Len(a)
<1>0. l \in Nat
  OBVIOUS
<1>1. SubSeq(a, 1, l) = a
  OBVIOUS
<1>2. CASE l <= Len(k)
  <2>1. l \in 0..Len(k)
    BY <1>0, <1>2
  <2>2. /\ SubSeq(k, 1, l) \in Seq(S)
        /\ Len(SubSeq(k, 1, l)) = l
        /\ \A i \in 1..l : SubSeq(k, 1, l)[i] = k[i]
    BY <2>1, SubSeqIs
  <2>3. SubSeq(k, 1, l) = a <=> \A i \in 1..l : a[i] = k[i]
    <3>1. ASSUME \A i \in 1..l : a[i] = k[i] PROVE SubSeq(k, 1, l) = a
      BY <2>2, <3>1
    <3>2. ASSUME SubSeq(k, 1, l) = a PROVE \A i \in 1..l : a[i] = k[i]
      BY <2>2, <3>2
    <3>. QED
      BY <3>1, <3>2
  <2>. HIDE DEF l
  <2>. QED
    BY <1>1, <1>2, <2>3 DEF IsPrefix, l
<1>3. CASE ~(l <= Len(k))
  BY <1>3 DEF IsPrefix
<1>. QED
  BY <1>2, <1>3

LEMMA StrictIsShorter ==
  ASSUME NEW S, NEW a \in Seq(S), NEW k \in Seq(S)
  PROVE  IsStrictPrefix(a, k) <=> IsPrefix(a, k) /\ Len(a) < Len(k)
<1>1. ASSUME IsPrefix(a, k), Len(a) = Len(k) PROVE a = k
  <2>1. \A i \in 1..Len(a) : a[i] = k[i]
    BY <1>1, PrefixIs
  <2>. QED
    BY <1>1, <2>1
<1>2. IsPrefix(a, k) => Len(a) <= Len(k)
  BY PrefixIs
<1>. QED
  BY <1>1, <1>2 DEF IsStrictPrefix

\* What is below something below a prefix is below the prefix.
LEMMA PrefixesChain ==
  ASSUME NEW S, NEW a \in Seq(S), NEW b \in Seq(S), NEW k \in Seq(S),
         IsPrefix(a, b), IsStrictPrefix(b, k)
  PROVE  IsStrictPrefix(a, k)
<1>1. /\ Len(a) <= Len(b) /\ \A i \in 1..Len(a) : a[i] = b[i]
      /\ Len(b) < Len(k) /\ \A i \in 1..Len(b) : b[i] = k[i]
  BY PrefixIs, StrictIsShorter
<1>2. Len(a) < Len(k) /\ \A i \in 1..Len(a) : a[i] = k[i]
  BY <1>1
<1>3. IsPrefix(a, k)
  BY <1>2, PrefixIs
<1>. QED
  BY <1>2, <1>3, StrictIsShorter

\* Two ways down to one key do not part before they reach it.
LEMMA PrefixesCompare ==
  ASSUME NEW S, NEW a \in Seq(S), NEW k \in Seq(S), IsPrefix(a, k),
         NEW n \in 0..Len(k)
  PROVE  /\ Len(a) <= n => IsPrefix(a, SubSeq(k, 1, n))
         /\ n <= Len(a) => IsPrefix(SubSeq(k, 1, n), a)
<1>. DEFINE b == SubSeq(k, 1, n)
<1>1. b \in Seq(S) /\ Len(b) = n /\ \A i \in 1..n : b[i] = k[i]
  BY SubSeqIs
<1>2. Len(a) <= Len(k) /\ \A i \in 1..Len(a) : a[i] = k[i]
  BY PrefixIs
<1>. HIDE DEF b
<1>3. Len(a) <= n => \A i \in 1..Len(a) : a[i] = b[i]
  BY <1>1, <1>2
<1>4. n <= Len(a) => \A i \in 1..n : b[i] = a[i]
  BY <1>1, <1>2
<1>5. (Len(a) <= n => IsPrefix(a, b)) /\ (n <= Len(a) => IsPrefix(b, a))
  BY <1>1, <1>3, <1>4, PrefixIs
<1>. QED
  BY <1>5 DEF b

-----------------------------------------------------------------------------
(* The policy and the listings.                                            *)

LEMMA FrontAndTail ==
  ASSUME NEW S, NEW q \in Seq(S), q # <<>>
  PROVE  /\ Head(q) \in S /\ Tail(q) \in Seq(S)
         /\ Last(q) \in S /\ Front(q) \in Seq(S)
<1>1. Len(q) \in Nat \ {0}
  OBVIOUS
<1>2. Head(q) \in S /\ Tail(q) \in Seq(S) /\ q[Len(q)] \in S
  BY <1>1
<1>3. SubSeq(q, 1, Len(q) - 1) \in Seq(S)
  BY <1>1
<1>. QED
  BY <1>2, <1>3 DEF Last, Front

\* Stripping leaves segments, and what has no blanks at its edges as it is.
LEMMA Stripped ==
  ASSUME NEW Name, NEW q \in Seq(Segment(Name))
  PROVE  /\ StripLeft(q) \in Seq(Segment(Name))
         /\ StripRight(q) \in Seq(Segment(Name))
<1>1. CASE q = <<>>
  BY <1>1 DEF StripLeft, StripRight
<1>2. CASE q # <<>>
  <2>1. /\ Len(q) \in Nat \ {0} /\ Tail(q) \in Seq(Segment(Name))
        /\ Front(q) \in Seq(Segment(Name))
    BY <1>2, FrontAndTail
  <2>2. ASSUME NEW i \in 1..Len(q)
        PROVE  /\ [q EXCEPT ![i].left = FALSE] \in Seq(Segment(Name))
               /\ [q EXCEPT ![i].right = FALSE] \in Seq(Segment(Name))
    <3>1. q[i] \in Segment(Name)
      BY <2>2
    <3>2. /\ [q[i] EXCEPT !.left = FALSE] \in Segment(Name)
          /\ [q[i] EXCEPT !.right = FALSE] \in Segment(Name)
      BY <3>1 DEF Segment
    <3>. QED
      BY <3>2
  <2>3. 1 \in 1..Len(q) /\ Len(q) \in 1..Len(q)
    BY <2>1
  <2>4. /\ [q EXCEPT ![1].left = FALSE] \in Seq(Segment(Name))
        /\ [q EXCEPT ![Len(q)].right = FALSE] \in Seq(Segment(Name))
    BY <2>2, <2>3
  <2>. QED
    BY <2>1, <2>4, Zenon DEF StripLeft, StripRight
<1>. QED
  BY <1>1, <1>2

LEMMA NormaliseTyped ==
  ASSUME NEW Name, NEW path \in PathOver(Seq(Segment(Name)))
  PROVE  normalise(path) \in Seq(Segment(Name))
<1>1. path.segs \in Seq(Segment(Name))
  BY DEF PathOver
<1>2. StripLeft(path.segs) \in Seq(Segment(Name))
  BY <1>1, Stripped
<1>. QED
  BY <1>1, <1>2, Stripped DEF normalise

\* Policy and provider differ over nothing but blanks at the edges: a path without
\* any is read as it was checked.
THEOREM UnpaddedAgree ==
  ASSUME NEW Name, NEW path \in PathOver(Seq(Segment(Name))), ~Padded(path)
  PROVE  normalise(path) = path.segs /\ Agree(path)
<1>1. path.segs \in Seq(Segment(Name))
  BY DEF PathOver
<1>2. path.lead \/ StripLeft(path.segs) = path.segs
  BY DEF Padded, StripLeft
<1>3. path.slash \/ StripRight(path.segs) = path.segs
  BY DEF Padded, StripRight
<1>4. normalise(path) = path.segs
  BY <1>2, <1>3 DEF normalise
<1>5. IsPrefix(path.segs, path.segs)
  BY <1>1 DEF IsPrefix
<1>. QED
  BY <1>4, <1>5 DEF Agree

\* The policy strips blanks and the provider does not. Where the prefix that is listed
\* goes on from the one that was checked, whatever a listing of a path that may be
\* registered returns, and whatever browse shows as a file, is in scope.
THEOREM ListingsStayInScope ==
  ASSUME NEW Name, NEW bucket \in SUBSET Seq(Segment(Name)),
         NEW path \in PathOver(Seq(Segment(Name))),
         NEW prefixes \in SUBSET Seq(Segment(Name))
  PROVE  ScopeIsKept(bucket, path, prefixes)
<1>. DEFINE S == Segment(Name)
<1>1. path.segs \in Seq(S) /\ normalise(path) \in Seq(S)
  BY NormaliseTyped DEF PathOver
<1>. HIDE DEF S
<1>2. ASSUME Agree(path), may_register(path, prefixes), NEW k \in list_objects(bucket, path)
      PROVE  InScope(k, prefixes)
  <2>1. k \in Seq(S) /\ IsStrictPrefix(path.segs, k)
    BY <1>2 DEF list_objects, S
  <2>2. CASE prefixes # {}
    <3>1. PICK a \in prefixes : IsPrefix(a, normalise(path))
      BY <1>2, <2>2 DEF may_register, Within
    <3>2. a \in Seq(S)
      BY DEF S
    <3>3. IsStrictPrefix(normalise(path), k)
      BY <1>1, <1>2, <2>1, PrefixesChain DEF Agree
    <3>4. IsStrictPrefix(a, k)
      BY <1>1, <2>1, <3>1, <3>2, <3>3, PrefixesChain
    <3>. QED
      BY <3>4 DEF InScope
  <2>3. CASE prefixes = {}
    BY <2>3 DEF InScope
  <2>. QED
    BY <2>2, <2>3
<1>3. ASSUME Agree(path)
      PROVE  \A k \in browse(bucket, path, prefixes).files : InScope(k, prefixes)
  <2>1. browse(bucket, path, prefixes).files =
          {k \in list_objects(bucket, path) :
              may_register(path, prefixes) /\ Child(path, k) = k}
    BY DEF browse
  <2>. QED
    BY <1>2, <1>3, <2>1
<1>4. ~Padded(path) => normalise(path) = path.segs
  BY UnpaddedAgree
<1>. QED
  BY <1>2, <1>3, <1>4 DEF ScopeIsKept

\* A prefix that normalise leaves as it is begins with no blank, and what is below it
\* is read as it is spelled on the way there.
LEMMA WayIsRead ==
  ASSUME NEW Name, NEW k \in Seq(Segment(Name)), NEW a \in Seq(Segment(Name)),
         IsPrefix(a, k), StripLeft(a) = a, a # <<>>, NEW m \in 0..Len(k)
  PROVE  normalise(Plain(SubSeq(k, 1, m))) = SubSeq(k, 1, m)
<1>. DEFINE q == SubSeq(k, 1, m)
<1>1. q \in Seq(Segment(Name)) /\ Len(q) = m /\ \A i \in 1..m : q[i] = k[i]
  BY SubSeqIs
<1>2. Len(a) \in Nat \ {0} /\ Len(a) <= Len(k) /\ a[1] = k[1]
  BY PrefixIs
<1>3. ~a[1].left
  <2>. SUFFICES ASSUME a[1].left PROVE FALSE
    OBVIOUS
  <2>1. Head(a) = a[1]
    BY <1>2
  <2>2. a[1].left \in BOOLEAN /\ a[1] \in Segment(Name)
    <3>1. 1 \in 1..Len(a)
      BY <1>2
    <3>2. a[1] \in Segment(Name)
      BY <3>1
    <3>. QED
      BY <3>2 DEF Segment
  <2>3. CASE Head(a) = Blank
    <3>1. Tail(a) = a
      BY <2>1, <2>3 DEF StripLeft
    <3>2. Len(Tail(a)) = Len(a) - 1
      BY <1>2
    <3>. QED
      BY <1>2, <3>1, <3>2
  <2>4. CASE Head(a) # Blank
    <3>1. a = [a EXCEPT ![1].left = FALSE]
      BY <2>1, <2>4 DEF StripLeft
    <3>2. a[1] = [a[1] EXCEPT !.left = FALSE]
      BY <1>2, <3>1
    <3>. QED
      BY <2>2, <3>2 DEF Segment
  <2>. QED
    BY <2>3, <2>4
<1>4. q = <<>> \/ ~Head(q).left
  <2>1. CASE m = 0
    BY <1>1, <2>1
  <2>2. CASE m > 0
    <3>1. Head(q) = k[1]
      BY <1>1, <2>2
    <3>. QED
      BY <1>2, <1>3, <3>1
  <2>. QED
    BY <2>1, <2>2
<1>5. StripLeft(q) = q
  BY <1>4 DEF StripLeft
<1>. HIDE DEF q
<1>6. normalise(Plain(q)) = StripLeft(q)
  BY DEF normalise, Plain
<1>. QED
  BY <1>5, <1>6 DEF q

LEMMA RootIsPrefix ==
  ASSUME NEW S, NEW q \in Seq(S)
  PROVE  IsPrefix(<<>>, q)
<1>. DEFINE e == <<>>
<1>1. e \in Seq(S) /\ Len(e) = 0 /\ Len(q) \in Nat
  OBVIOUS
<1>. HIDE DEF e
<1>2. Len(e) <= Len(q) /\ \A i \in 1..Len(e) : e[i] = q[i]
  BY <1>1
<1>3. IsPrefix(e, q)
  BY <1>1, <1>2, PrefixIs
<1>. QED
  BY <1>3 DEF e

\* From the root to a key in scope, no directory on the way is refused, and each
\* shows the next one. The policy's own prefixes are normalised.
THEOREM ScopeIsReached ==
  ASSUME NEW Name, NEW bucket \in SUBSET Seq(Segment(Name)),
         NEW prefixes \in SUBSET Seq(Segment(Name)),
         \A a \in prefixes : StripLeft(a) = a,
         NEW k \in bucket, InScope(k, prefixes)
  PROVE  IsWalkable(bucket, k, prefixes)
<1>. DEFINE S == Segment(Name)
<1>. SUFFICES ASSUME NEW n \in 0..(Len(k) - 1)
              PROVE  LET here == Plain(SubSeq(k, 1, n))
                         next == SubSeq(k, 1, n + 1)
                         shown == browse(bucket, here, prefixes)
                     IN  /\ may_browse(here, prefixes)
                         /\ next \in shown.directories \cup shown.files
  BY DEF IsWalkable
<1>. DEFINE up == SubSeq(k, 1, n)
            next == SubSeq(k, 1, n + 1)
            here == Plain(up)
<1>s. k \in Seq(S) /\ prefixes \in SUBSET Seq(S)
  OBVIOUS
<1>p. ASSUME NEW m \in 0..Len(k)
      PROVE  normalise(Plain(SubSeq(k, 1, m))) \in Seq(S)
  <2>1. SubSeq(k, 1, m) \in Seq(S)
    BY <1>s, SubSeqIs
  <2>2. Plain(SubSeq(k, 1, m)) \in PathOver(Seq(S))
    BY <2>1 DEF Plain, PathOver
  <2>. QED
    BY <2>2, NormaliseTyped
<1>w. ASSUME NEW a \in prefixes, IsPrefix(a, k), NEW m \in 0..Len(k)
      PROVE  a = <<>> \/ normalise(Plain(SubSeq(k, 1, m))) = SubSeq(k, 1, m)
  BY <1>w, WayIsRead
<1>. HIDE DEF S
<1>0. /\ k \in Seq(S) /\ Len(k) \in Nat
      /\ n \in 0..Len(k) /\ n + 1 \in 0..Len(k) /\ n < Len(k)
  BY <1>s
<1>1. /\ up \in Seq(S) /\ Len(up) = n /\ \A i \in 1..n : up[i] = k[i]
      /\ next \in Seq(S) /\ Len(next) = n + 1
  BY <1>0, SubSeqIs
\* On the way to a key in scope every directory may be browsed ...
<1>2. ASSUME NEW m \in 0..Len(k) PROVE may_browse(Plain(SubSeq(k, 1, m)), prefixes)
  <2>1. CASE prefixes = {}
    BY <2>1 DEF may_browse
  <2>2. CASE prefixes # {}
    <3>1. PICK a \in prefixes : IsStrictPrefix(a, k)
      BY <2>2 DEF InScope
    <3>2. IsPrefix(a, k) /\ Len(a) \in Nat
      BY <1>s, <3>1 DEF IsStrictPrefix
    <3>3. IsPrefix(a, SubSeq(k, 1, m)) \/ IsPrefix(SubSeq(k, 1, m), a)
      BY <1>s, <1>0, <3>2, PrefixesCompare
    <3>4. a = <<>> => IsPrefix(a, normalise(Plain(SubSeq(k, 1, m))))
      BY <1>p, RootIsPrefix
    <3>5. a = <<>> \/ normalise(Plain(SubSeq(k, 1, m))) = SubSeq(k, 1, m)
      BY <1>w, <3>2
    <3>. QED
      BY <3>3, <3>4, <3>5 DEF may_browse
  <2>. QED
    BY <2>1, <2>2
\* ... and one level above the key may be registered, too.
<1>3. ASSUME n + 1 = Len(k) PROVE may_register(here, prefixes)
  <2>1. CASE prefixes = {}
    BY <2>1 DEF may_register
  <2>2. CASE prefixes # {}
    <3>1. PICK a \in prefixes : IsStrictPrefix(a, k)
      BY <2>2 DEF InScope
    <3>2. IsPrefix(a, k) /\ Len(a) < Len(k) /\ Len(a) \in Nat
      BY <1>s, <1>0, <3>1, StrictIsShorter
    <3>3. Len(a) <= n
      BY <1>0, <1>3, <3>2
    <3>4. IsPrefix(a, up)
      BY <1>s, <1>0, <3>2, <3>3, PrefixesCompare
    <3>5. a = <<>> => IsPrefix(a, normalise(here))
      BY <1>0, <1>p, RootIsPrefix
    <3>6. a = <<>> \/ normalise(here) = up
      BY <1>0, <1>w, <3>2
    <3>. QED
      BY <3>4, <3>5, <3>6 DEF may_register, Within
  <2>. QED
    BY <2>1, <2>2
<1>4. k \in list_objects(bucket, here)
  <2>1. IsPrefix(k, k)
    BY DEF IsPrefix
  <2>2. IsPrefix(up, k)
    BY <1>0, <2>1, PrefixesCompare
  <2>3. IsStrictPrefix(up, k)
    BY <1>0, <1>1, <2>2, StrictIsShorter
  <2>. QED
    BY <2>3 DEF list_objects, Plain
<1>5. Child(here, k) = next
  BY <1>1 DEF Child, Plain
<1>6. CASE next = k
  <2>1. n + 1 = Len(k)
    BY <1>1, <1>6
  <2>2. may_register(here, prefixes)
    BY <1>3, <2>1
  <2>3. k \in browse(bucket, here, prefixes).files
    <3>1. browse(bucket, here, prefixes).files =
            {o \in list_objects(bucket, here) :
                may_register(here, prefixes) /\ Child(here, o) = o}
      BY DEF browse
    <3>. QED
      BY <1>4, <1>5, <1>6, <2>2, <3>1
  <2>. QED
    BY <1>0, <1>2, <1>6, <2>3
<1>7. CASE next # k
  <2>1. next \in list_directories(bucket, here)
    BY <1>4, <1>5, <1>7 DEF list_directories
  <2>2. may_browse(Plain(next), prefixes)
    BY <1>0, <1>2
  <2>3. next \in browse(bucket, here, prefixes).directories
    <3>1. browse(bucket, here, prefixes).directories =
            {d \in list_directories(bucket, here) : may_browse(Plain(d), prefixes)}
      BY DEF browse
    <3>. QED
      BY <2>1, <2>2, <3>1
  <2>. QED
    BY <1>0, <1>2, <2>3
<1>. QED
  BY <1>6, <1>7

-----------------------------------------------------------------------------
(* The rows of directories.                                                *)

\* The path of every row is one its user may register.
PathsAllowed == \A d \in directories : may_register(d.path, allowed[d.user])

\* Neither a migration, which moves rows to another datasource of their user, nor
\* any call makes a directory of a path that is out of its user's scope.
LEMMA PathsStep == Inv /\ PathsAllowed /\ [Next]_vars => PathsAllowed'
<1>. SUFFICES ASSUME Inv, PathsAllowed, [Next]_vars PROVE PathsAllowed'
  OBVIOUS
<1>1. CASE UNCHANGED directories
  BY <1>1 DEF PathsAllowed
<1>2. ASSUME NEW p \in Process, Migrate(p) PROVE PathsAllowed'
  <2>. DEFINE remap == proc[p].remap
  <2>1. remap \in SUBSET (SourceId \X SourceId)
    BY RemapTyped DEF Inv
  <2>2. directories' = {Repoint(remap, d) : d \in directories}
    BY <1>2 DEF Migrate
  <2>3. directories \subseteq DirectoryRow
    BY DEF Inv, TypeOK
  <2>. HIDE DEF remap
  <2>. QED
    BY <2>1, <2>2, <2>3, RepointTyped DEF PathsAllowed
<1>3. ASSUME NEW s \in datasources, NEW path \in Path, Register(s, path)
      PROVE  PathsAllowed'
  <2>1. PICK id \in Directory \ Ids(directories) :
          directories' = Insert([id |-> id, user |-> s.user, source |-> s.id, path |-> path])
    BY <1>3 DEF Register
  <2>2. may_register(path, allowed[s.user])
    BY <1>3 DEF Register
  <2>. QED
    BY <2>1, <2>2 DEF PathsAllowed, Insert
<1>4. CASE UNCHANGED vars
  BY <1>1, <1>4 DEF vars
<1>5. CASE Call
  BY <1>1, <1>3, <1>5 DEF Call, Connect, UpsertFile
<1>6. ASSUME NEW p \in Process, Opening(p) \/ Crash(p) PROVE PathsAllowed'
  BY <1>1, <1>2, <1>6 DEF Opening, ReadDuplicates, MigrateFails, CreateIndex, TryAgain,
     Crash, tables
<1>. QED
  BY <1>4, <1>5, <1>6 DEF Next

LEMMA PathsHold == Spec => [](Inv /\ PathsAllowed)
<1>1. Init => PathsAllowed
  BY DEF Init, OldVolume, PathsAllowed
<1>. QED
  BY <1>1, PathsStep, Invariance, InvInit, InvStep, PTL DEF Spec

\* The paths a client sends, and the prefixes of a policy, are of segments.
WrittenIn(Name) ==
    /\ Path \subseteq PathOver(Seq(Segment(Name)))
    /\ allowed \in [User -> SUBSET Seq(Segment(Name))]
    /\ {"", library, own} \subseteq Name

LEMMA SeqOfTyped ==
  ASSUME NEW S, NEW T \in SUBSET S, NEW n \in Nat
  PROVE  SeqOf(T, n) \subseteq Seq(S)
<1>. SUFFICES ASSUME NEW q \in SeqOf(T, n) PROVE q \in Seq(S)
  OBVIOUS
<1>1. PICK m \in 0..n : q \in [1..m -> T]
  BY DEF SeqOf
<1>2. m \in Nat /\ q \in [1..m -> S]
  BY <1>1
<1>. QED
  BY <1>2

LEMMA SegmentsAreWritten ==
  ASSUME NEW Name, WrittenIn(Name)
  PROVE  {Lib, Own, LibBlank, BlankLib, Blank} \subseteq Segment(Name)
<1>1. Lib \in Segment(Name) /\ Own \in Segment(Name) /\ Blank \in Segment(Name)
  BY DEF WrittenIn, Lib, Own, Bare, Blank, Segment
<1>2. LibBlank \in Segment(Name) /\ BlankLib \in Segment(Name)
  BY <1>1 DEF LibBlank, BlankLib, Segment
<1>. QED
  BY <1>1, <1>2

LEMMA KeysAreWritten ==
  ASSUME NEW Name, WrittenIn(Name)
  PROVE  /\ Keys \subseteq Seq(Segment(Name))
         /\ \A bucket \in Buckets : bucket \in SUBSET Seq(Segment(Name))
<1>. DEFINE S == Segment(Name)
<1>1. {Lib, Own, LibBlank, BlankLib, Blank} \subseteq S
  BY SegmentsAreWritten
<1>. HIDE DEF S
<1>2. Keys \subseteq Seq(S)
  BY <1>1 DEF Keys
<1>3. \A bucket \in Buckets : bucket \in SUBSET Seq(S)
  BY <1>2 DEF Buckets
<1>. QED
  BY <1>2, <1>3 DEF S

LEMMA SpelledAreWritten ==
  ASSUME NEW Name, WrittenIn(Name)
  PROVE  /\ Spelled \subseteq PathOver(Seq(Segment(Name)))
         /\ \A prefixes \in Policies :
               /\ prefixes \in SUBSET Seq(Segment(Name))
               /\ \A a \in prefixes : StripLeft(a) = a
<1>1. SeqOf({Lib, Own, LibBlank, BlankLib, Blank}, 2) \subseteq Seq(Segment(Name))
  BY SegmentsAreWritten, SeqOfTyped
<1>2. SeqOf({Lib, Own}, 2) \subseteq Seq({Lib, Own})
  BY SeqOfTyped
<1>3. Seq({Lib, Own}) \subseteq Seq(Segment(Name))
  <2>1. {Lib, Own} \subseteq Segment(Name)
    BY SegmentsAreWritten
  <2>. QED
    BY <2>1
<1>4. ASSUME NEW a \in Seq({Lib, Own}) PROVE StripLeft(a) = a
  <2>1. a = <<>> \/ Head(a) \in {Lib, Own}
    OBVIOUS
  <2>2. ~Lib.left /\ ~Own.left
    BY DEF Lib, Own, Bare
  <2>. QED
    BY <2>1, <2>2 DEF StripLeft
<1>5. Spelled \subseteq PathOver(Seq(Segment(Name)))
  BY <1>1 DEF Spelled, PathOver
<1>. QED
  BY <1>2, <1>3, <1>4, <1>5 DEF Policies

\* What the rows of directories say of a listing.
LEMMA RowsAreRead ==
  ASSUME NEW Name, WrittenIn(Name), NEW bucket \in SUBSET Seq(Segment(Name)),
         Inv, PathsAllowed, NEW d \in directories
  PROVE  /\ ScopeIsKept(bucket, d.path, allowed[d.user])
         /\ Agree(d.path) => \A k \in list_objects(bucket, d.path) :
               InScope(k, allowed[d.user]) /\ IsWalkable(bucket, k, allowed[d.user])
<1>1. /\ d.path \in PathOver(Seq(Segment(Name)))
      /\ d.user \in User
      /\ allowed[d.user] \in SUBSET Seq(Segment(Name))
  BY DEF WrittenIn, Inv, TypeOK, DirectoryRow
<1>2. ScopeIsKept(bucket, d.path, allowed[d.user])
  BY <1>1, ListingsStayInScope
<1>3. ASSUME Agree(d.path), NEW k \in list_objects(bucket, d.path)
      PROVE  InScope(k, allowed[d.user]) /\ IsWalkable(bucket, k, allowed[d.user])
  <2>1. InScope(k, allowed[d.user])
    BY <1>2, <1>3 DEF PathsAllowed, ScopeIsKept
  <2>2. k \in bucket
    BY <1>3 DEF list_objects
  <2>3. \A a \in allowed[d.user] : StripLeft(a) = a
    BY <1>1, AllowedAssumption
  <2>. QED
    BY <1>1, <2>1, <2>2, <2>3, ScopeIsReached
<1>. QED
  BY <1>2, <1>3

\* Whatever a sync of a registered directory lists of any bucket is in its user's
\* scope and can be walked to, through registrations, migrations of old rows and
\* crashes, unless blanks at the edges of its path make policy and provider disagree.
THEOREM SyncsStayInScope ==
  ASSUME NEW Name, WrittenIn(Name), NEW bucket \in SUBSET Seq(Segment(Name))
  PROVE  Spec => [](\A d \in directories : Agree(d.path) =>
                       \A k \in list_objects(bucket, d.path) :
                          InScope(k, allowed[d.user]) /\ IsWalkable(bucket, k, allowed[d.user]))
<1>1. Inv /\ PathsAllowed =>
        \A d \in directories : Agree(d.path) =>
            \A k \in list_objects(bucket, d.path) :
                InScope(k, allowed[d.user]) /\ IsWalkable(bucket, k, allowed[d.user])
  BY RowsAreRead
<1>. QED
  BY <1>1, PathsHold, PTL

\* Registration and the listing of a sync keep one scope, however the path of a
\* directory was spelled, where policy and provider agree over it.
THEOREM RegisteredStayInScope ==
  ASSUME NEW Name, WrittenIn(Name)
  PROVE  Spec => []RegisteredIsInScope
<1>1. ASSUME Inv, PathsAllowed PROVE RegisteredIsInScope
  <2>1. ASSUME NEW d \in directories
        PROVE  /\ ScopeIsKept(Keys, d.path, allowed[d.user])
               /\ Agree(d.path) =>
                     \A k \in list_objects(Keys, d.path) : InScope(k, allowed[d.user])
    BY <1>1, KeysAreWritten, RowsAreRead
  <2>2. ASSUME NEW bucket \in Buckets, NEW path \in Spelled, NEW prefixes \in Policies
        PROVE  ScopeIsKept(bucket, path, prefixes)
    BY KeysAreWritten, SpelledAreWritten, ListingsStayInScope
  <2>. QED
    BY <2>1, <2>2 DEF RegisteredIsInScope
<1>2. Inv /\ PathsAllowed => RegisteredIsInScope
  BY <1>1
<1>. QED
  BY <1>2, PathsHold, PTL

\* The user of a directory can browse from the root to what a sync of it lists, where
\* policy and provider agree over its path.
THEOREM RegisteredAreWalkable ==
  ASSUME NEW Name, WrittenIn(Name)
  PROVE  Spec => []ScopeIsWalkable
<1>1. ASSUME Inv, PathsAllowed PROVE ScopeIsWalkable
  <2>1. ASSUME NEW d \in directories, Agree(d.path), NEW k \in list_objects(Keys, d.path)
        PROVE  IsWalkable(Keys, k, allowed[d.user])
    BY <1>1, <2>1, KeysAreWritten, RowsAreRead
  <2>2. ASSUME NEW bucket \in Buckets, NEW prefixes \in Policies, NEW k \in bucket,
               InScope(k, prefixes)
        PROVE  IsWalkable(bucket, k, prefixes)
    BY <2>2, KeysAreWritten, SpelledAreWritten, ScopeIsReached
  <2>. QED
    BY <2>1, <2>2 DEF ScopeIsWalkable
<1>2. Inv /\ PathsAllowed => ScopeIsWalkable
  BY <1>1
<1>. QED
  BY <1>2, PathsHold, PTL
=============================================================================
