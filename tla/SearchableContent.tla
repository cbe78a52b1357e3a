-------------------------- MODULE SearchableContent --------------------------
(***************************************************************************)
(* What the rest of the system may rely on of the knowledge bases: the     *)
(* bodies each user possesses, the bodies in each user's vector            *)
(* collection, and the bodies with text.  Syncs and removals change them   *)
(* one at a time and in any order, but text comes before possession and    *)
(* before vectors, and never goes away.                                    *)
(***************************************************************************)
CONSTANTS User, Body

VARIABLES
    held,     \* held[u]: the bodies u has in user_blobs
    vecs,     \* vecs[u]: the bodies in u's vector collection
    chunked   \* bodies with rows in chunks

vars == <<held, vecs, chunked>>

Init ==
    /\ held = [u \in User |-> {}]
    /\ vecs = [u \in User |-> {}]
    /\ chunked = {}

Chunk(b) ==
    /\ chunked' = chunked \cup {b}
    /\ UNCHANGED <<held, vecs>>

AddVectors(u, b) ==
    /\ b \in chunked
    /\ vecs' = [vecs EXCEPT ![u] = @ \cup {b}]
    /\ UNCHANGED <<held, chunked>>

Possess(u, b) ==
    /\ b \in chunked
    /\ held' = [held EXCEPT ![u] = @ \cup {b}]
    /\ UNCHANGED <<vecs, chunked>>

DropVectors(u, b) ==
    /\ vecs' = [vecs EXCEPT ![u] = @ \ {b}]
    /\ UNCHANGED <<held, chunked>>

Disown(u, b) ==
    /\ held' = [held EXCEPT ![u] = @ \ {b}]
    /\ UNCHANGED <<vecs, chunked>>

Next ==
    \/ \E b \in Body : Chunk(b)
    \/ \E u \in User, b \in Body :
          AddVectors(u, b) \/ Possess(u, b) \/ DropVectors(u, b) \/ Disown(u, b)

Spec == Init /\ [][Next]_vars
=============================================================================
