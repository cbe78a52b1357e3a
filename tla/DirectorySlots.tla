--------------------------- MODULE DirectorySlots ---------------------------
(***************************************************************************)
(* What the run queue promises, without its tables: every directory has    *)
(* one slot, which is free, holds a queued sync or holds a running one.    *)
(* SyncRuns implements this specification (see SlotOf there).              *)
(***************************************************************************)
CONSTANT Directory          \* the registered directories

VARIABLE slot               \* slot[d]: what holds directory d

Slots == {"free", "queued", "running"}

SlotsTypeOK == slot \in [Directory -> Slots]

SlotsInit == slot = [d \in Directory |-> "free"]

\* A sync is asked for. A directory that is already held is left alone.
Enqueue(d) ==
    /\ slot[d] = "free"
    /\ slot' = [slot EXCEPT ![d] = "queued"]

\* A worker takes the queued sync of d.
Claim(d) ==
    /\ slot[d] = "queued"
    /\ slot' = [slot EXCEPT ![d] = "running"]

\* The syncs of D end. One reclaiming transaction may end several at once.
Release(D) ==
    /\ D # {}
    /\ \A d \in D : slot[d] = "running"
    /\ slot' = [d \in Directory |-> IF d \in D THEN "free" ELSE slot[d]]

SlotsNext ==
    \/ \E d \in Directory : Enqueue(d) \/ Claim(d)
    \/ \E D \in SUBSET Directory : Release(D)

ReleaseOf(d) == \E D \in SUBSET Directory : d \in D /\ Release(D)

\* The safety part: no step but these.
SlotsSafety == SlotsInit /\ [][SlotsNext]_slot

\* Every queued sync is claimed and every running one ends.
SlotsSpec ==
    /\ SlotsSafety
    /\ \A d \in Directory : WF_slot(Claim(d)) /\ WF_slot(ReleaseOf(d))
=============================================================================
