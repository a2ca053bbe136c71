------------------------------ MODULE EpochLog ------------------------------
(***************************************************************************)
(* What every snapshot contract of the repository promises to a reader of  *)
(* the chain: an append-only log of epoch |-> hash, in which an epoch is   *)
(* published at most once and only after every smaller published epoch.    *)
(* Analytics, StellarInsights and SnapshotContract implement it.           *)
(***************************************************************************)
EXTENDS Naturals

CONSTANTS
    Epochs,     \* the epoch arguments callers use (u64, 0 included)
    Hash,       \* snapshot hashes (32-byte strings)
    NoHash      \* "no snapshot stored for this epoch"

VARIABLE log    \* epoch |-> published hash

Published == {e \in Epochs : log[e] # NoHash}

Init == log = [e \in Epochs |-> NoHash]

\* Publish hash h for an epoch later than everything published so far.
Publish(e, h) ==
    /\ e > 0
    /\ \A p \in Published : p < e
    /\ log' = [log EXCEPT ![e] = h]

Next == \E e \in Epochs, h \in Hash : Publish(e, h)

Spec == Init /\ [][Next]_log
=============================================================================
