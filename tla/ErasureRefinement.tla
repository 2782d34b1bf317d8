-------------------------- MODULE ErasureRefinement --------------------------
(***************************************************************************)
(* The jobs of UserErasure implement the promise of ObjectCustody.         *)
(***************************************************************************)
EXTENDS UserErasure

\* A file's row wants its bytes, soft-deleted or not; an export's while it is kept.
Wanted == {f \in Files : HasRow(f)} \cup {x \in Exports : Kept(x)}

Custody ==
    INSTANCE ObjectCustody WITH
        Late <- Exports, bytes <- objects, wanted <- Wanted, erased <- Erased,
        owed <- Owed

\* Wherever the nightly job, the export job, the collection of bundles and an
\* upload stop, and however often a job is run again, the store keeps the promise of
\* ObjectCustody: what an erasure has listed stays in storage_deletion_queue until
\* its bytes are gone for good.  A bundle that its job was about to store once more
\* is not among what the erasure answers for: it is one of those missed.
KeepsCustody == Custody!Spec

=============================================================================
