----------------------------- MODULE UserErasure -----------------------------
(***************************************************************************)
(* The erasure of accounts and what works on the same object store: the    *)
(* nightly job that deletes the users whose grace period has passed and    *)
(* drains the queue of objects to remove, the job that builds an export    *)
(* bundle, the one that removes expired bundles, and uploads.              *)
(*                                                                         *)
(* Rows and objects are two stores.  A transaction changes rows at once    *)
(* and undoes them when it fails; an object is put or removed by a call of *)
(* its own, before or after the transaction it belongs to, and a process   *)
(* may die between the two.  A user whose matters are shared cannot be     *)
(* erased: "shared" stands for every reason the preflight refuses for.     *)
(* A definition MutX is a plausible mistake in the code X models; no       *)
(* specification uses it.                                                  *)
(***************************************************************************)
EXTENDS Naturals, FiniteSets

CONSTANTS
    Users, Files, Exports,
    OwnerOf,     \* whose each file and each export is
    Sharers,     \* the users whose matters other people may come to work on
    QueueLimit,  \* objects one drain takes from the queue
    MaxTries,    \* how often arq starts a job that does not come to its end
    NoUser, NoPath

ASSUME ErasureAssumption ==
    /\ Files \cap Exports = {} /\ OwnerOf \in [Files \cup Exports -> Users]
    /\ IsFiniteSet(Users) /\ Sharers \subseteq Users /\ QueueLimit \in Nat \ {0} /\ MaxTries \in Nat
    /\ NoUser \notin Users /\ NoPath \notin Files \cup Exports

\* Each file and each export is kept in the object store under its own path.
Paths == Files \cup Exports

VARIABLES
    account,  \* each user's row and deletion_scheduled_at
    shared,   \* whether other people work on the user's matters
    erasure,  \* the number of the erasure that removed the user, its created_at
    file,     \* each file's row, or how its upload stands
    export,   \* the status of each export's row, or what became of the row
    key,      \* its storage_key, none or not, and whether expires_at has passed
    tries,    \* how often arq may still start its job: 0 if it is not in the queue
    worker,   \* how far the job that builds it is
    again,    \* whether the job found a key in its row when it last started
    gc,       \* how far the collection of expired bundles is with it
    objects,  \* the paths the object store holds
    queue,    \* the rows of storage_deletion_queue
    phase,    \* how far the nightly job is
    todo,     \* the users it still has to erase
    target,   \* the user whose rows it has locked
    listed,   \* the paths it has queued for that user, not yet committed
    drain,    \* the paths it still has to remove
    removed   \* the path whose object it removed and whose row it did not yet

accountVars == <<account, shared, erasure>>
keyVars == <<key, again>>
exportVars == <<export, tries, worker, keyVars>>
batchVars == <<phase, todo, target, listed, drain, removed>>
vars == <<accountVars, file, exportVars, gc, objects, queue, batchVars>>

FileStates == {"absent", "stored", "live", "deleted", "refused", "ended", "gone"}
\* The last three are rows an erasure took away: the key was listed; it was listed
\* while the job was about to store the bundle once more; it was not listed.
ExportStates == {"absent", "queued", "processing", "completed", "failed",
                 "gone", "overtaken", "dropped"}

TypeOK ==
    /\ account \in [Users -> {"active", "scheduled", "due", "gone"}]
    /\ shared \in [Users -> BOOLEAN] /\ erasure \in [Users -> Nat]
    /\ file \in [Files -> FileStates] /\ export \in [Exports -> ExportStates]
    /\ key \in [Exports -> {"none", "fresh", "stale"}]
    /\ tries \in [Exports -> 0 .. MaxTries] /\ again \in [Exports -> BOOLEAN]
    /\ worker \in [Exports -> {"idle", "building", "stored"}]
    /\ gc \in [Exports -> {"idle", "picked", "removed"}]
    /\ objects \subseteq Paths /\ queue \subseteq Paths
    /\ phase \in {"idle", "choosing", "locked", "listed", "draining"}
    /\ todo \subseteq Users /\ target \in Users \cup {NoUser}
    /\ listed \subseteq Paths /\ drain \subseteq Paths /\ removed \in Paths \cup {NoPath}
    /\ (phase \in {"locked", "listed"}) = (target # NoUser)

Init ==
    /\ account = [u \in Users |-> "active"]
    /\ shared \in [Users -> BOOLEAN] /\ \A u \in Users \ Sharers : ~shared[u]
    /\ erasure = [u \in Users |-> 0]
    /\ file = [f \in Files |-> "absent"] /\ export = [x \in Exports |-> "absent"]
    /\ key = [x \in Exports |-> "none"] /\ again = [x \in Exports |-> FALSE]
    /\ tries = [x \in Exports |-> 0] /\ worker = [x \in Exports |-> "idle"]
    /\ gc = [x \in Exports |-> "idle"]
    /\ objects = {} /\ queue = {}
    /\ phase = "idle" /\ todo = {} /\ target = NoUser
    /\ listed = {} /\ drain = {} /\ removed = NoPath

\* The nightly job holds the rows of the user, of the user's files and matters.
MutLocked(u) == FALSE
Locked(u) == target = u

HasRow(f) == file[f] \in {"live", "deleted"}
ExportRow(x) == export[x] \notin {"absent", "gone", "overtaken", "dropped"}
HasKey(x) == key[x] # "none"

-----------------------------------------------------------------------------
(* The account: delete_me, cancel_delete_me, and matters shared or not.    *)

Reschedule(u, from, to) ==
    /\ account[u] \in from
    /\ account' = [account EXCEPT ![u] = to]
    /\ UNCHANGED <<shared, erasure, file, exportVars, gc, objects, queue, batchVars>>

ScheduleDeletion(u) == ~Locked(u) /\ Reschedule(u, {"active"}, "scheduled")
GracePasses(u) == Reschedule(u, {"scheduled"}, "due")
CancelDeletion(u) == ~Locked(u) /\ Reschedule(u, {"scheduled", "due"}, "active")

ChangeSharing(u) ==
    /\ u \in Sharers /\ account[u] # "gone" /\ ~Locked(u)
    /\ shared' = [shared EXCEPT ![u] = ~@]
    /\ UNCHANGED <<account, erasure, file, exportVars, gc, objects, queue, batchVars>>

-----------------------------------------------------------------------------
(* upload_file and delete_file.                                            *)

FileStep(f, state) ==
    /\ file' = [file EXCEPT ![f] = state]
    /\ UNCHANGED <<accountVars, exportVars, gc, queue, batchVars>>

\* The bytes are streamed to the store before the row is inserted.
StoreUpload(f) ==
    /\ file[f] = "absent" /\ account[OwnerOf[f]] # "gone"
    /\ FileStep(f, "stored") /\ objects' = objects \cup {f}

\* The row's foreign key waits for the lock on the owner's row.
CommitUpload(f) ==
    /\ file[f] = "stored" /\ ~Locked(OwnerOf[f]) /\ account[OwnerOf[f]] # "gone"
    /\ FileStep(f, "live") /\ UNCHANGED objects

\* Without the owner the insert is refused, and the object is cleaned up.
RefuseUpload(f) ==
    /\ file[f] = "stored" /\ account[OwnerOf[f]] = "gone"
    /\ FileStep(f, "refused") /\ UNCHANGED objects

CleanUp(f) ==
    /\ file[f] = "refused" /\ FileStep(f, "ended")
    /\ objects' \in {objects, objects \ {f}}

\* The process dies, or the commit fails with another error: nothing is cleaned up.
LoseUpload(f) ==
    /\ file[f] \in {"stored", "refused"}
    /\ FileStep(f, "ended") /\ UNCHANGED objects

\* The row stays and the object with it.
DeleteFile(f) ==
    /\ file[f] = "live" /\ ~Locked(OwnerOf[f])
    /\ FileStep(f, "deleted") /\ UNCHANGED objects

UploadStep(f) ==
    \/ StoreUpload(f) \/ CommitUpload(f) \/ RefuseUpload(f)
    \/ CleanUp(f) \/ LoseUpload(f) \/ DeleteFile(f)

-----------------------------------------------------------------------------
(* export_me and export_user_data_job.                                     *)

\* The status of the row, if there is one, the tries that are left, and how far the
\* job is.
ExportStep(x, state, left, step) ==
    /\ export' = [export EXCEPT ![x] = IF ExportRow(x) THEN state ELSE @]
    /\ tries' = [tries EXCEPT ![x] = left]
    /\ worker' = [worker EXCEPT ![x] = step]
    /\ UNCHANGED <<accountVars, file, gc, queue, batchVars>>

\* The row is committed and then the job is enqueued, which may fail.
RequestExport(x) ==
    /\ export[x] = "absent" /\ account[OwnerOf[x]] # "gone" /\ ~Locked(OwnerOf[x])
    /\ export' = [export EXCEPT ![x] = "queued"]
    /\ \E left \in {0, MaxTries} : tries' = [tries EXCEPT ![x] = left]
    /\ UNCHANGED <<accountVars, file, worker, keyVars, gc, objects, queue, batchVars>>

\* The job does not look at the status: one that is run again after its last commit
\* starts over, on a row that may have a key.
StartExport(x) ==
    /\ tries[x] > 0 /\ worker[x] = "idle" /\ ExportRow(x)
    /\ ExportStep(x, "processing", tries[x] - 1, "building")
    /\ again' = [again EXCEPT ![x] = HasKey(x)]
    /\ UNCHANGED <<key, objects>>

MissExport(x) ==
    /\ tries[x] > 0 /\ worker[x] = "idle" /\ ~ExportRow(x)
    /\ ExportStep(x, export[x], 0, "idle") /\ UNCHANGED <<keyVars, objects>>

StoreBundle(x) ==
    /\ worker[x] = "building"
    /\ ExportStep(x, export[x], tries[x], "stored") /\ objects' = objects \cup {x}
    /\ UNCHANGED keyVars

\* The session writes only columns whose value it has changed, so a key the job has
\* read and the collection has cleared since stays cleared.
KeyRecorded(x) == IF again[x] /\ ~HasKey(x) THEN "none" ELSE "fresh"

\* The key is committed only now; a row the erasure took away is not updated, and
\* neither is its bundle removed.  arq takes the job out of its queue after the
\* commit: a worker killed in between leaves a completed export whose job waits.
RecordBundle(x) ==
    /\ worker[x] = "stored"
    /\ \E left \in {0, tries[x]} : ExportStep(x, "completed", left, "idle")
    /\ key' = [key EXCEPT ![x] = IF ExportRow(x) THEN KeyRecorded(x) ELSE @]
    /\ UNCHANGED <<again, objects>>

\* Building or storing raises, the latter perhaps after the bytes have arrived; the
\* row keeps the key it had.
FailExport(x) ==
    /\ worker[x] \in {"building", "stored"}
    /\ \E left \in {0, tries[x]} : ExportStep(x, "failed", left, "idle")
    /\ UNCHANGED <<keyVars, objects>>

\* The worker stops before its last commit, or that commit cannot be made: arq runs
\* the job again unless it had timed out or raised.
CrashExport(x) ==
    /\ worker[x] \in {"building", "stored"}
    /\ \E left \in {0, tries[x]} : ExportStep(x, export[x], left, "idle")
    /\ UNCHANGED <<keyVars, objects>>

Expire(x) ==
    /\ key[x] = "fresh" /\ key' = [key EXCEPT ![x] = "stale"]
    /\ UNCHANGED <<accountVars, file, export, tries, worker, again, gc, objects, queue,
                   batchVars>>

ExportJobStep(x) ==
    \/ RequestExport(x) \/ StartExport(x) \/ MissExport(x) \/ StoreBundle(x)
    \/ RecordBundle(x) \/ FailExport(x) \/ CrashExport(x) \/ Expire(x)

-----------------------------------------------------------------------------
(* export_gc_job: one selection, one removal per row, one commit.          *)

Collectable(x) == key[x] = "stale"

NoneCollected == [x \in Exports |-> "idle"]

GcPick ==
    /\ gc = NoneCollected /\ \E x \in Exports : Collectable(x)
    /\ gc' = [x \in Exports |-> IF Collectable(x) THEN "picked" ELSE "idle"]
    /\ UNCHANGED <<accountVars, file, exportVars, objects, queue, batchVars>>

GcRemove(x) ==
    /\ gc[x] = "picked"
    /\ \/ gc' = [gc EXCEPT ![x] = "removed"] /\ objects' = objects \ {x}
       \/ gc' = [gc EXCEPT ![x] = "idle"] /\ UNCHANGED objects
    /\ UNCHANGED <<accountVars, file, exportVars, queue, batchVars>>

\* One commit clears every key, or none when one of the rows has gone.
GcCommit ==
    LET done == {x \in Exports : gc[x] = "removed"} IN
    /\ done # {} /\ \A x \in Exports : gc[x] # "picked"
    /\ gc' = NoneCollected
    /\ key' = [x \in Exports |->
                    IF x \in done /\ \A y \in done : ExportRow(y) THEN "none" ELSE key[x]]
    /\ UNCHANGED <<accountVars, file, export, tries, worker, again, objects, queue, batchVars>>

GcStops ==
    /\ gc # NoneCollected /\ gc' = NoneCollected
    /\ UNCHANGED <<accountVars, file, exportVars, objects, queue, batchVars>>

-----------------------------------------------------------------------------
(* hard_delete_due_users_job.                                              *)

MutIsDue(u) == account[u] = "due" /\ \A x \in Exports : OwnerOf[x] = u => export[x] # "queued"
IsDue(u) == account[u] = "due"

\* The users are selected once; what becomes of their schedule is not read again.
BatchBegins ==
    /\ phase = "idle" /\ phase' = "choosing"
    /\ todo' = {u \in Users : IsDue(u)}
    /\ UNCHANGED <<accountVars, file, exportVars, gc, objects, queue,
                   target, listed, drain, removed>>

\* The transaction of one user: lock, examine, list, delete, commit.
EraseBegins(u) ==
    /\ phase = "choosing" /\ u \in todo /\ ~shared[u]
    /\ phase' = "locked" /\ target' = u /\ todo' = todo \ {u}
    /\ UNCHANGED <<accountVars, file, exportVars, gc, objects, queue, listed, drain, removed>>

\* A rollback, or the end of the session, gives up the locks and what was listed.
MutIdleBatch ==
    /\ phase' = "idle" /\ todo' = {} /\ target' = target
    /\ listed' = {} /\ drain' = {} /\ removed' = NoPath
IdleBatch ==
    /\ phase' = "idle" /\ todo' = {} /\ target' = NoUser
    /\ listed' = {} /\ drain' = {} /\ removed' = NoPath

\* The rollback expires every loaded row, so reading the user's address in the
\* handler of the exception raises another, which ends the job.
EraseRefused(u) ==
    /\ phase = "choosing" /\ u \in todo /\ shared[u]
    /\ IdleBatch
    /\ UNCHANGED <<accountVars, file, exportVars, gc, objects, queue>>

StorageOf(u) ==
    {f \in Files : OwnerOf[f] = u /\ HasRow(f)} \cup {x \in Exports : OwnerOf[x] = u /\ HasKey(x)}

MutListStorage(u) ==
    /\ phase = "locked" /\ target = u
    /\ phase' = "listed" /\ listed' = StorageOf(u) /\ objects' = objects \ StorageOf(u)
    /\ UNCHANGED <<accountVars, file, exportVars, gc, queue, todo, target, drain, removed>>
ListStorage(u) ==
    /\ phase = "locked" /\ target = u
    /\ phase' = "listed" /\ listed' = StorageOf(u)
    /\ UNCHANGED <<accountVars, file, exportVars, gc, objects, queue, todo, target, drain, removed>>

Taken(x) ==
    CASE x \notin listed -> "dropped"
      [] x \in listed /\ worker[x] = "building" -> "overtaken"
      [] OTHER -> "gone"

\* Export rows go with the user, those whose key was not yet to be seen as well, and
\* no job that is under way is stopped.
EraseCommits(u) ==
    /\ phase = "listed" /\ target = u
    /\ phase' = "choosing" /\ target' = NoUser /\ listed' = {}
    /\ queue' = queue \cup listed
    /\ account' = [account EXCEPT ![u] = "gone"]
    /\ erasure' = [erasure EXCEPT ![u] = 1 + Cardinality({v \in Users : account[v] = "gone"})]
    /\ file' = [f \in Files |-> IF OwnerOf[f] = u /\ HasRow(f) THEN "gone" ELSE file[f]]
    /\ export' = [x \in Exports |->
                    IF OwnerOf[x] = u /\ ExportRow(x) THEN Taken(x) ELSE export[x]]
    /\ key' = [x \in Exports |-> IF OwnerOf[x] = u THEN "none" ELSE key[x]]
    /\ UNCHANGED <<shared, tries, worker, again, gc, objects, todo, drain, removed>>

\* The worker dies, or any other error ends the job as a refusal does.
BatchStops ==
    /\ phase # "idle" /\ IdleBatch
    /\ UNCHANGED <<accountVars, file, exportVars, gc, objects, queue>>

-----------------------------------------------------------------------------
(* drain_storage_deletions.                                                *)

\* Up to QueueLimit rows, the oldest first.
IsOldest(part) ==
    /\ Cardinality(part) = (IF Cardinality(queue) < QueueLimit
                            THEN Cardinality(queue) ELSE QueueLimit)
    /\ \A p \in part, q \in queue \ part : erasure[OwnerOf[p]] <= erasure[OwnerOf[q]]

DrainBegins ==
    /\ phase = "choosing" /\ todo = {} /\ phase' = "draining"
    /\ \E part \in SUBSET queue : IsOldest(part) /\ drain' = part
    /\ UNCHANGED <<accountVars, file, exportVars, gc, objects, queue,
                   todo, target, listed, removed>>

RemoveObject(p) ==
    /\ p \in drain /\ removed = NoPath
    /\ objects' = objects \ {p} /\ removed' = p
    /\ UNCHANGED <<accountVars, file, exportVars, gc, queue, phase, todo, target, listed, drain>>

MutDropRow(p) ==
    /\ removed = NoPath /\ p \in drain
    /\ queue' = queue \ {p} /\ drain' = drain \ {p} /\ removed' = NoPath
    /\ UNCHANGED <<accountVars, file, exportVars, gc, objects, phase, todo, target, listed>>
DropRow(p) ==
    /\ removed = p /\ p \in drain
    /\ queue' = queue \ {p} /\ drain' = drain \ {p} /\ removed' = NoPath
    /\ UNCHANGED <<accountVars, file, exportVars, gc, objects, phase, todo, target, listed>>

\* The removal of the object, or of its row, fails: the row stays.
MutRemoveFails(p) ==
    /\ p \in drain /\ removed \in {p, NoPath}
    /\ queue' = queue \ {p} /\ drain' = drain \ {p} /\ removed' = NoPath
    /\ UNCHANGED <<accountVars, file, exportVars, gc, objects, phase, todo, target, listed>>
RemoveFails(p) ==
    /\ p \in drain /\ removed \in {p, NoPath}
    /\ drain' = drain \ {p} /\ removed' = NoPath
    /\ UNCHANGED <<accountVars, file, exportVars, gc, objects, queue, phase, todo, target, listed>>
DrainEnds ==
    /\ phase = "draining" /\ drain = {} /\ IdleBatch
    /\ UNCHANGED <<accountVars, file, exportVars, gc, objects, queue>>

-----------------------------------------------------------------------------
AccountStep(u) ==
    \/ ScheduleDeletion(u) \/ GracePasses(u) \/ CancelDeletion(u) \/ ChangeSharing(u)

GcStep == GcPick \/ GcCommit \/ GcStops \/ \E x \in Exports : GcRemove(x)

EraseStep(u) == EraseBegins(u) \/ EraseRefused(u) \/ ListStorage(u) \/ EraseCommits(u)

DrainStep ==
    \/ DrainBegins \/ DrainEnds
    \/ \E p \in Paths : RemoveObject(p) \/ DropRow(p) \/ RemoveFails(p)

Next ==
    \/ \E u \in Users : AccountStep(u) \/ EraseStep(u)
    \/ \E f \in Files : UploadStep(f)
    \/ \E x \in Exports : ExportJobStep(x)
    \/ GcStep \/ BatchBegins \/ BatchStops \/ DrainStep

Spec == Init /\ [][Next]_vars

\* The nightly cron starts the job; a fault does not hit the same step every night.
FairSpec ==
    /\ Spec /\ WF_vars(BatchBegins) /\ WF_vars(DrainEnds) /\ SF_vars(DrainBegins)
    /\ SF_vars(\E u \in Users : EraseBegins(u)) /\ SF_vars(\E u \in Users : ListStorage(u))
    /\ SF_vars(\E u \in Users : EraseCommits(u))
    /\ SF_vars(\E p \in Paths : RemoveObject(p)) /\ SF_vars(\E p \in Paths : DropRow(p))

-----------------------------------------------------------------------------
(* Properties.                                                             *)

\* A bundle somebody may ask for, unless the job that stored it last had been run
\* again after the key was committed.
Kept(x) == export[x] = "completed" /\ key[x] = "fresh" /\ ~again[x]

\* Bytes somebody may still ask for are there: those of a file that has a row,
\* soft-deleted or not, and those of a bundle that is kept.  Queued removals,
\* collected bundles and cleaned-up uploads never reach them, whatever rolls back.
RetainedBytesAreKept ==
    /\ \A f \in Files : HasRow(f) => f \in objects
    /\ \A x \in Exports : Kept(x) => x \in objects

\* What the erasures answer for: the rows they listed and took away, unless the bundle
\* was about to be stored once more.
Erased == {f \in Files : file[f] = "gone"} \cup {x \in Exports : export[x] = "gone"}

\* Once an erasure has committed, the bytes of each file and each bundle it listed
\* have gone or are queued, wherever the job that removes them stops and however
\* often the job that built a bundle runs again: unless that one was just about to
\* store the bundle when the erasure committed.  A file cannot arrive between the
\* list and the deletion of its owner's rows.  Nor does a completed export whose key
\* has been cleared leave bytes nothing would find, unless its job was run again.
ErasedAreQueued ==
    /\ objects \cap Erased \subseteq queue
    /\ \A x \in Exports \cap objects : export[x] = "completed" /\ ~again[x] => HasKey(x)

\* From some point on no user the job could meet has shared matters.
SharingSettles ==
    <>[](\A u \in Users : shared[u] => account[u] \in {"active", "gone"} /\ u \notin todo)

\* No user stays due: whoever's grace has passed is erased, or cancels, so that there
\* is always a later moment when nobody is due, however often the job stops half-way;
\* provided that no user with shared matters comes up for ever.
DueAreErased == SharingSettles => []<>(\A u \in Users : account[u] # "due")

\* Bytes the queue answers for: not those a job may store again behind the drain.
Owed == {p \in queue : p \in Exports => export[p] = "gone"}

\* What is owed is removed in the end, so that there is always a later moment when
\* nothing is and no bytes of the erased are left, however often removals fail and
\* however much longer the queue is than one drain: on the same condition, since a
\* refused user also ends the job before its drain.
QueuedAreErased == SharingSettles => []<>(Owed \cup (objects \cap Erased) = {})

=============================================================================
