----------------------------- MODULE MCDatasources -----------------------------
(* An instance of Datasources for TLC, with the scopes over bounded paths. *)
EXTENDS Datasources, TLC

CONSTANTS alice, bob, library, own

Lib == Bare(library)
Own == Bare(own)
LibBlank == [Lib EXCEPT !.right = TRUE]
BlankLib == [Lib EXCEPT !.left = TRUE]

\* Paths to the shared library, as the page spells it and with a blank after it,
\* and to a prefix of alice's.
Paths ==
    {Plain(<<Lib>>), [segs |-> <<LibBlank>>, lead |-> FALSE, slash |-> FALSE],
     [segs |-> <<Own>>, lead |-> TRUE, slash |-> FALSE]}
Scopes == alice :> {<<Lib>>, <<Own>>} @@ bob :> {<<Lib>>}

\* Paths of up to two segments, keys of up to three, with and without blanks; all
\* policies of two prefixes; buckets of two keys, and one of all.
Spelled == PathOver(SeqOf({Lib, Own, LibBlank, BlankLib, Blank}, 2))
Keys ==
    {<<Lib>>, <<Own>>, <<Lib, Own>>, <<Own, Lib>>, <<Lib, Own, Own>>,
     <<LibBlank, Own>>, <<BlankLib, Own>>, <<Blank, Lib>>, <<Lib, Blank>>}
Buckets == {Keys} \cup {{k, j} : k, j \in Keys}
Policies == {P \in SUBSET SeqOf({Lib, Own}, 2) : Cardinality(P) <= 2}

\* The one state of a new volume that no process has opened.
Fresh == datasources = {} /\ calls = 0 /\ crashes = 0 /\ \A p \in Process : proc[p] = At("closed")

\* What a sync of a registered directory lists is in its user's scope where policy
\* and provider agree over its path; and, in one state, since this depends on none,
\* the same for all buckets, spellings and policies (policy.py against s3.py).
RegisteredIsInScope ==
    /\ \A d \in directories :
          /\ ScopeIsKept(Keys, d.path, allowed[d.user])
          /\ Agree(d.path) =>
                \A k \in list_objects(Keys, d.path) : InScope(k, allowed[d.user])
    /\ Fresh => \A bucket \in Buckets, path \in Spelled, prefixes \in Policies :
                    ScopeIsKept(bucket, path, prefixes)

\* The user of a directory can walk to what a sync of it lists, if that is in scope;
\* and, in one state, whatever is in scope can be walked to, in all buckets and
\* under all policies.
ScopeIsWalkable ==
    /\ \A d \in directories : Agree(d.path) =>
          \A k \in list_objects(Keys, d.path) : IsWalkable(Keys, k, allowed[d.user])
    /\ Fresh => \A bucket \in Buckets, prefixes \in Policies :
                    \A k \in bucket : InScope(k, prefixes) => IsWalkable(bucket, k, prefixes)
=============================================================================
