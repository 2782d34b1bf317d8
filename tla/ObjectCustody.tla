---------------------------- MODULE ObjectCustody ----------------------------
(***************************************************************************)
(* What the object store owes to the rows that name its objects, without   *)
(* jobs, locks, schedules or transactions: bytes are kept while a row wants *)
(* them; an erasure turns what it takes away into a debt; the debt is only *)
(* written off once the bytes have gone, and then they never come back.    *)
(* ErasureRefinement shows that UserErasure implements this.               *)
(***************************************************************************)
CONSTANTS
    Paths,  \* the paths objects are kept under
    Late    \* those a row may come to want without the lock an erasure holds

VARIABLES
    bytes,   \* the paths the store holds
    wanted,  \* those whose bytes somebody may still ask for
    erased,  \* those an erasure has taken away
    owed     \* those whose bytes it still has to remove

vars == <<bytes, wanted, erased, owed>>

Init == bytes = {} /\ wanted = {} /\ erased = {} /\ owed = {}

\* Bytes come before the row that wants them; they never come back.
Store(p) ==
    /\ p \notin wanted \cup erased
    /\ bytes' = bytes \cup {p}
    /\ UNCHANGED <<wanted, erased, owed>>

Want(p) ==
    /\ p \in bytes /\ p \notin wanted \cup erased
    /\ wanted' = wanted \cup {p}
    /\ UNCHANGED <<bytes, erased, owed>>

\* A bundle expires, or is built again: nobody is promised its bytes any more.
Release(p) ==
    /\ p \in wanted /\ p \in Late
    /\ wanted' = wanted \ {p}
    /\ UNCHANGED <<bytes, erased, owed>>

\* An erasure takes away the paths P it answers for, and with the rows of its user
\* what came to be wanted after it had made its list: no lock keeps Missed away.
Erase(P, Missed) ==
    /\ P \cap erased = {} /\ Missed \subseteq Late
    /\ wanted' = wanted \ (P \cup Missed)
    /\ erased' = erased \cup P /\ owed' = owed \cup P
    /\ UNCHANGED bytes

Remove(p) ==
    /\ p \notin wanted
    /\ bytes' = bytes \ {p}
    /\ UNCHANGED <<wanted, erased, owed>>

\* A debt is written off when it has been paid.
WriteOff(p) ==
    /\ p \in owed /\ p \notin bytes
    /\ owed' = owed \ {p}
    /\ UNCHANGED <<bytes, wanted, erased>>

Next ==
    \/ \E p \in Paths : Store(p) \/ Want(p) \/ Release(p) \/ Remove(p) \/ WriteOff(p)
    \/ \E P, Missed \in SUBSET Paths : Erase(P, Missed)

Spec == Init /\ [][Next]_vars

=============================================================================
