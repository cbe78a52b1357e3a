--------------------------- MODULE MCKnowledgeBase ---------------------------
(* Instances of KnowledgeBase for TLC. *)
EXTENDS KnowledgeBase, TLC

CONSTANTS alice, bob, d1, d2, d3, b1, b2

\* Alice registered a directory and one inside it, bob the same library.
SharedOwner == d1 :> alice @@ d2 :> alice @@ d3 :> bob

\* All directories are alice's.
AlicesOwner == [d \in Directory |-> alice]

\* The keys there are lie in every directory, or the second only in the outer one.
AllUnder == [d \in Directory |-> Key]
NestedUnder == [d \in Directory |-> IF d = d1 THEN Key ELSE {1}]

\* The second key stands for an unsupported suffix.
Supported == {1} \X Body

\* Renaming the contents, or the removals, or the users together with their
\* directories where every directory holds all keys.
Symmetric ==
    {p \in Permutations(User \cup Directory \cup Body \cup Remover) :
        /\ \A b \in Body : p[b] \in Body
        /\ \A r \in Remover : p[r] \in Remover
        /\ \A d \in Directory : /\ p[d] \in Directory /\ p[Owner[d]] = Owner[p[d]]
                                /\ Under[d] = Under[p[d]]}
=============================================================================
