-------------------------------- MODULE Scope --------------------------------
(***************************************************************************)
(* Which parts of a datasource a tenant sees and may register: policy.py,  *)
(* the listings of the S3 provider, and the route browse.                  *)
(*                                                                         *)
(* A key is the sequence of its segments, the texts between its slashes,   *)
(* told apart by the blanks at their edges. A path is what a client sends. *)
(* Prefixes that end in a slash are compared as sequences of segments.     *)
(* Placeholders for directories are left out.                              *)
(***************************************************************************)
EXTENDS Naturals, Sequences, SequencesExt

\* A text, and whether it begins and ends with blanks. One that is nothing but
\* blanks has no name.
Segment(Name) == [name : Name, left : BOOLEAN, right : BOOLEAN]
Bare(name) == [name |-> name, left |-> FALSE, right |-> FALSE]
Blank == [name |-> "", left |-> TRUE, right |-> TRUE]

\* lead, slash: does it start, does it end with a slash?
PathOver(Segs) == [segs : Segs, lead : BOOLEAN, slash : BOOLEAN]

\* What the web client sends.
Plain(segs) == [segs |-> segs, lead |-> FALSE, slash |-> TRUE]

\* strip() at either end of what stands between the outer slashes: blanks with a
\* slash beyond them stay, and so a segment of nothing but blanks takes its slash
\* with it.
StripLeft(segs) ==
    IF segs = <<>> \/ ~Head(segs).left THEN segs
    ELSE IF Head(segs) = Blank THEN Tail(segs) ELSE [segs EXCEPT ![1].left = FALSE]
StripRight(segs) ==
    IF segs = <<>> \/ ~Last(segs).right THEN segs
    ELSE IF Last(segs) = Blank THEN Front(segs) ELSE [segs EXCEPT ![Len(segs)].right = FALSE]

\* The policy's normalise strips blanks, then a leading slash, and ends the path
\* with a slash.
normalise(path) ==
    LET segs == IF path.lead THEN path.segs ELSE StripLeft(path.segs)
    IN  IF path.slash THEN segs ELSE StripRight(segs)

Within(key, prefixes) == \E a \in prefixes : IsPrefix(a, key)

\* Mutant of may_register: to be on the way to an allowed prefix is enough.
may_register_Above(path, allowed) ==
    allowed # {} => \E a \in allowed :
        IsPrefix(a, normalise(path)) \/ IsPrefix(normalise(path), a)

\* No prefixes means no restriction.
may_register(path, allowed) == allowed # {} => Within(normalise(path), allowed)

\* Mutant of may_browse: as may_register.
may_browse_Inside(path, allowed) == allowed # {} => Within(normalise(path), allowed)

\* An ancestor of an allowed prefix is there to be walked through.
may_browse(path, allowed) ==
    allowed # {} => \E a \in allowed :
        IsPrefix(a, normalise(path)) \/ IsPrefix(normalise(path), a)

\* _normalise_prefix, and browse with it, strip no blanks: only a leading slash.
list_objects(bucket, path) == {k \in bucket : IsStrictPrefix(path.segs, k)}

Child(path, k) == SubSeq(k, 1, Len(path.segs) + 1)
list_directories(bucket, path) ==
    {Child(path, k) : k \in {o \in list_objects(bucket, path) : Child(path, o) # o}}

\* The answer of browse, where it is not 403.
browse(bucket, path, allowed) ==
    [directories |-> {d \in list_directories(bucket, path) : may_browse(Plain(d), allowed)},
     files |-> {k \in list_objects(bucket, path) :
                  may_register(path, allowed) /\ Child(path, k) = k}]

-----------------------------------------------------------------------------
(* Properties of one bucket, path or key, and policy.                      *)

InScope(k, allowed) == allowed = {} \/ \E a \in allowed : IsStrictPrefix(a, k)

\* The provider goes on where the policy stopped to read: it lists what is below
\* the prefix that was checked.
Agree(path) == IsPrefix(normalise(path), path.segs)

\* Blanks before the first segment or after the last that no slash keeps.
Padded(path) ==
    /\ path.segs # <<>>
    /\ (~path.lead /\ Head(path.segs).left) \/ (~path.slash /\ Last(path.segs).right)

\* The policy checks one form of a path and the provider lists another: whatever a
\* sync of a registered path fetches, and whatever browse shows as a file, is in
\* scope where the two agree; and they differ over nothing but the blanks at the
\* edges of a path. Where they do not agree, what is listed was never checked.
ScopeIsKept(bucket, path, allowed) ==
    /\ Agree(path) /\ may_register(path, allowed) =>
          \A k \in list_objects(bucket, path) : InScope(k, allowed)
    /\ Agree(path) => \A k \in browse(bucket, path, allowed).files : InScope(k, allowed)
    /\ ~Padded(path) => normalise(path) = path.segs

\* A key can be walked to from the root, one click at a time, with no directory
\* refused on the way down or, one level up, on the way back.
IsWalkable(bucket, k, allowed) ==
    \A n \in 0..(Len(k) - 1) :
        LET here == Plain(SubSeq(k, 1, n))
            next == SubSeq(k, 1, n + 1)
            shown == browse(bucket, here, allowed)
        IN  may_browse(here, allowed) /\ next \in shown.directories \cup shown.files
=============================================================================
