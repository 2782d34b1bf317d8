--------------------------- MODULE StoreMigration ---------------------------
(***************************************************************************)
(* Deployment migration 0001: a MinIO volume is snapshotted, handed to     *)
(* RustFS, verified against Postgres, or rolled back from the snapshot.    *)
(* api/app/ops keeps a journal and a marker in a volume of their own; the  *)
(* gate reads them before RustFS starts.                                   *)
(*                                                                         *)
(* A command of the tool is one process whose durable writes are separate  *)
(* steps; it may crash, or fail and journal that, between any two of them. *)
(* The stack is not started while a command runs (the runbook's order);    *)
(* it may stop at any time.  A definition MutX is a plausible mistake in   *)
(* the code X models; no specification uses it.                            *)
(***************************************************************************)
EXTENDS Naturals, FiniteSets

CONSTANTS
    Docs,         \* the documents users may upload
    Original,     \* those in the deployment when migration 0001 is first seen
    Unattended,   \* LQ_AI_OPS_UNATTENDED=1
    MaxSnapshots  \* bound: snapshot files ever written

Snapshots == 1 .. MaxSnapshots

ASSUME MigrationAssumption ==
    /\ Original \subseteq Docs
    /\ Unattended \in BOOLEAN
    /\ MaxSnapshots \in Nat

VARIABLES
    volume,    \* which format files are on the volume, and its documents
    expected,  \* the documents Postgres lists (files, user_export_jobs)
    store,     \* the object store that serves the volume
    tar,       \* what each snapshot file holds
    files,     \* the snapshot files that exist
    taken,     \* how many were ever written
    receipt,   \* the snapshot of the journal's last "snapshot" entry, 0 for none
    last,      \* state of each deployment's latest journal entry
    marker,    \* each deployment's marker file
    tool,      \* the step the running command is about to take
    held,      \* the snapshot an apply works with
    seen,      \* the documents a verify read from Postgres
    late       \* history: the documents uploaded since the receipt's snapshot

witnessVars == <<receipt, last, marker>>
snapshotVars == <<tar, files, taken>>
toolVars == <<tool, held, seen>>
vars == <<volume, expected, store, snapshotVars, witnessVars, toolVars, late>>

\* RustFS keeps MinIO's deployment id; on an empty volume it makes a fresh one.
Deployments == {"old", "fresh"}
NoMarker == [state |-> "none", snapshot |-> 0]

Volumes == [minio : BOOLEAN, rustfs : {"none", "old", "fresh"}, docs : SUBSET Docs]
States == {"none", "pending", "applied", "verified", "failed", "rolled_back",
           "not_applicable"}

-----------------------------------------------------------------------------
(* Reading the volume and its witnesses *)

\* inspect_object_store: RustFS's format file wins over MinIO's.
Layout ==
    IF volume.rustfs # "none" THEN "rustfs"
    ELSE IF volume.minio THEN "minio"
    ELSE IF volume.docs = {} THEN "empty" ELSE "conflict"

Deployment == IF volume.rustfs # "none" THEN volume.rustfs ELSE "old"
Identified == Layout \in {"rustfs", "minio"}

\* reconcile: what plan reports.
Plan ==
    LET m == marker[Deployment]
        state == last[Deployment]
    IN  CASE Layout = "conflict" -> "conflict"
          [] Layout = "empty" -> "none"
          [] Layout = "minio" ->
               IF m.state = "applied" /\ state = "applied" THEN "verify"
               ELSE IF m.state = "none" /\ state = "verified" THEN "conflict"
               ELSE "apply"
          [] OTHER ->
               IF m.state = "verified" /\ state = "verified" THEN "none" ELSE "verify"

\* An entry about the volume as it is; one without a deployment id is never read.
Journal(state) ==
    last' = IF Identified THEN [last EXCEPT ![Deployment] = state] ELSE last

\* The first plan of a deployment records what it found.
Baseline ==
    IF Plan \in {"apply", "verify"} THEN "pending"
    ELSE IF Plan = "conflict" THEN "failed" ELSE "not_applicable"

\* _completed_snapshot: a journalled snapshot is used again, so that an
\* interrupted apply resumes.
MutCompleted == FALSE
Completed == receipt # 0

\* What run_gate asks before RustFS may start.
MutGateOpens ==
    /\ Layout # "conflict"
    /\ Layout = "minio" => Unattended \/ marker["old"].state # "none"
GateOpens ==
    /\ Layout # "conflict"
    /\ Layout = "minio" =>
          IF marker["old"].state = "none" THEN Unattended
          ELSE marker["old"].snapshot \in files

-----------------------------------------------------------------------------
(* Commands of the tool *)

Init ==
    /\ volume = [minio |-> TRUE, rustfs |-> "none", docs |-> Original]
    /\ expected = Original
    /\ store = "stopped"
    /\ tar = [n \in Snapshots |-> {}] /\ files = {} /\ taken = 0
    /\ receipt = 0
    /\ last = [d \in Deployments |-> "none"]
    /\ marker = [d \in Deployments |-> NoMarker]
    /\ tool = "idle" /\ held = 0 /\ seen = {}
    /\ late = {}

\* plan: only the first one of a deployment writes.
PlanOnly ==
    /\ tool = "idle" /\ last[Deployment] = "none"
    /\ Journal(Baseline)
    /\ UNCHANGED <<volume, expected, store, snapshotVars, receipt, marker,
                   toolVars, late>>

\* apply: planned, checked against a stopped store, then from the snapshot or,
\* when one is journalled, straight to the marker.
ApplyBegins ==
    /\ tool = "idle" /\ store = "stopped"
    /\ Plan = "apply"
    /\ IF last["old"] = "none" THEN Journal(Baseline) ELSE UNCHANGED last
    /\ \/ /\ Completed /\ receipt \in files
          /\ tool' = "mark" /\ held' = receipt
       \/ /\ ~ Completed
          /\ tool' = "snapshot" /\ UNCHANGED held
    /\ UNCHANGED <<volume, expected, store, snapshotVars, receipt, marker, seen, late>>

\* A complete snapshot is journalled before anything relies on it.
MutAfterSnapshot == "mark"
AfterSnapshot == "receipt"

\* _snapshot_volume: the tar appears under its name only when it is complete.
TakeSnapshot ==
    /\ tool = "snapshot" /\ taken < MaxSnapshots
    /\ taken' = taken + 1
    /\ tar' = [tar EXCEPT ![taken + 1] = volume.docs]
    /\ files' = files \cup {taken + 1}
    /\ held' = taken + 1 /\ tool' = AfterSnapshot
    /\ UNCHANGED <<volume, expected, store, witnessVars, seen, late>>

JournalSnapshot ==
    /\ tool = "receipt"
    /\ receipt' = held /\ late' = {}
    /\ last' = [last EXCEPT !["old"] = "applied"]
    /\ tool' = "mark"
    /\ UNCHANGED <<volume, expected, store, snapshotVars, marker, held, seen>>

MarkApplied ==
    /\ tool = "mark"
    /\ marker' = [marker EXCEPT !["old"] = [state |-> "applied", snapshot |-> held]]
    /\ tool' = "applied"
    /\ UNCHANGED <<volume, expected, store, snapshotVars, receipt, last, held,
                   seen, late>>

JournalApplied ==
    /\ tool = "applied"
    /\ last' = [last EXCEPT !["old"] = "applied"]
    /\ tool' = "idle"
    /\ UNCHANGED <<volume, expected, store, snapshotVars, receipt, marker, held,
                   seen, late>>

\* verify: RustFS is ready; Postgres is read before the store is listed.
VerifyBegins ==
    /\ tool = "idle" /\ store = "rustfs"
    /\ seen' = expected /\ tool' = "compare"
    /\ UNCHANGED <<volume, expected, store, snapshotVars, witnessVars, held, late>>

\* Every key and digest matched: the marker is promoted, its snapshot kept.
MarkVerified ==
    /\ tool = "compare" /\ store = "rustfs" /\ volume.docs = seen
    /\ marker' = [marker EXCEPT ![Deployment].state = "verified"]
    /\ tool' = "verified"
    /\ UNCHANGED <<volume, expected, store, snapshotVars, receipt, last, held,
                   seen, late>>

JournalVerified ==
    /\ tool = "verified"
    /\ Journal("verified")
    /\ tool' = "idle"
    /\ UNCHANGED <<volume, expected, store, snapshotVars, receipt, marker, held,
                   seen, late>>

\* rollback: the last receipt's snapshot exists and its digest still matches.
RollbackBegins ==
    /\ tool = "idle" /\ store = "stopped"
    /\ receipt # 0 /\ receipt \in files
    /\ tool' = "clear"
    /\ UNCHANGED <<volume, expected, store, snapshotVars, witnessVars, held, seen, late>>

\* The volume's children are removed one by one, in no particular order.
ClearPart ==
    /\ tool = "clear"
    /\ \/ volume.minio /\ volume' = [volume EXCEPT !.minio = FALSE]
       \/ volume.rustfs # "none" /\ volume' = [volume EXCEPT !.rustfs = "none"]
       \/ \E d \in volume.docs : volume' = [volume EXCEPT !.docs = @ \ {d}]
    /\ UNCHANGED <<expected, store, snapshotVars, witnessVars, toolVars, late>>

\* The tar holds its children in name order: MinIO's format comes first.
ExtractFormat ==
    /\ tool = "clear" /\ Layout = "empty"
    /\ volume' = [volume EXCEPT !.minio = TRUE]
    /\ tool' = "extract"
    /\ UNCHANGED <<expected, store, snapshotVars, witnessVars, held, seen, late>>

ExtractDoc ==
    /\ tool = "extract"
    /\ \E d \in tar[receipt] \ volume.docs : volume' = [volume EXCEPT !.docs = @ \cup {d}]
    /\ UNCHANGED <<expected, store, snapshotVars, witnessVars, toolVars, late>>

RemoveMarker ==
    /\ tool = "extract" /\ tar[receipt] \subseteq volume.docs
    /\ marker' = [marker EXCEPT !["old"] = NoMarker]
    /\ tool' = "restored"
    /\ UNCHANGED <<volume, expected, store, snapshotVars, receipt, last, held,
                   seen, late>>

JournalRollback ==
    /\ tool = "restored"
    /\ last' = [last EXCEPT !["old"] = "rolled_back"]
    /\ tool' = "idle"
    /\ UNCHANGED <<volume, expected, store, snapshotVars, receipt, marker, held,
                   seen, late>>

\* _fail: a command raised, at once or midway, and journals that it did.  Its
\* entry comes after any baseline its plan recorded, so it is the latest.
Fail ==
    /\ Journal("failed")
    /\ tool' = "idle"
    /\ UNCHANGED <<volume, expected, store, snapshotVars, receipt, marker, held,
                   seen, late>>

\* The process is killed.
Crash ==
    /\ tool # "idle" /\ tool' = "idle"
    /\ UNCHANGED <<volume, expected, store, snapshotVars, witnessVars, held, seen, late>>

-----------------------------------------------------------------------------
(* The stack and its operator *)

\* The gate lets RustFS start; it imports what it finds, or formats the volume.
StartRustfs ==
    /\ tool = "idle" /\ store = "stopped" /\ GateOpens
    /\ store' = "rustfs"
    /\ volume' = [volume EXCEPT !.rustfs =
                    IF @ # "none" THEN @ ELSE IF volume.minio THEN "old" ELSE "fresh"]
    /\ UNCHANGED <<expected, snapshotVars, witnessVars, toolVars, late>>

\* The previous release has no gate.
StartMinio ==
    /\ tool = "idle" /\ store = "stopped" /\ Layout = "minio"
    /\ store' = "minio"
    /\ UNCHANGED <<volume, expected, snapshotVars, witnessVars, toolVars, late>>

StopStore ==
    /\ store # "stopped" /\ store' = "stopped"
    /\ UNCHANGED <<volume, expected, snapshotVars, witnessVars, toolVars, late>>

Upload(d) ==
    /\ store # "stopped" /\ d \notin expected
    /\ volume' = [volume EXCEPT !.docs = @ \cup {d}]
    /\ expected' = expected \cup {d}
    /\ late' = IF receipt = 0 THEN late ELSE late \cup {d}
    /\ UNCHANGED <<store, snapshotVars, witnessVars, toolVars>>

\* The runbook's other half of a rollback: Postgres goes back to the dump.
RestoreDatabase ==
    /\ tool = "idle" /\ store = "stopped" /\ last["old"] = "rolled_back"
    /\ expected' = expected \ late /\ late' = {}
    /\ UNCHANGED <<volume, store, snapshotVars, witnessVars, toolVars>>

Prune ==
    /\ tool = "idle"
    /\ \E n \in files : files' = files \ {n}
    /\ UNCHANGED <<volume, expected, store, tar, taken, witnessVars, toolVars, late>>

Command ==
    \/ PlanOnly \/ Fail \/ Crash
    \/ ApplyBegins \/ TakeSnapshot \/ JournalSnapshot \/ MarkApplied \/ JournalApplied
    \/ VerifyBegins \/ MarkVerified \/ JournalVerified
    \/ RollbackBegins \/ ClearPart \/ ExtractFormat \/ ExtractDoc \/ RemoveMarker
    \/ JournalRollback

Stack ==
    \/ StartRustfs \/ StartMinio \/ StopStore \/ RestoreDatabase \/ Prune
    \/ \E d \in Docs : Upload(d)

Next == Command \/ Stack

Spec == Init /\ [][Next]_vars

-----------------------------------------------------------------------------
(* Properties *)

TypeOK ==
    /\ volume \in Volumes
    /\ expected \subseteq Docs /\ seen \subseteq Docs /\ late \subseteq Docs
    /\ store \in {"stopped", "minio", "rustfs"}
    /\ tar \in [Snapshots -> SUBSET Docs] /\ files \subseteq Snapshots
    /\ {taken, receipt, held} \subseteq 0 .. MaxSnapshots
    /\ last \in [Deployments -> States]
    /\ marker \in [Deployments -> [state : {"none", "applied", "verified"},
                                   snapshot : 0 .. MaxSnapshots]]
    /\ tool \in {"idle", "snapshot", "receipt", "mark", "applied", "compare",
                 "verified", "clear", "extract", "restored"}

\* The operator has deleted a snapshot file.
Pruned == \E n \in 1 .. taken : n \notin files

Kept == IF receipt \in files THEN tar[receipt] ELSE {}

\* Whatever crashes and is tried again, a document that was there when the
\* journalled snapshot was taken is on the volume or in that snapshot, unless
\* someone deleted one: no half-restored volume ever becomes the snapshot.
NoDocumentLost == Pruned \/ (expected \ late) \subseteq volume.docs \cup Kept

\* The marker of an applied migration means that the snapshot the journal names
\* exists (ADR 0037, decision 2), at every point a command can be cut short.
MarkerHasSnapshot ==
    marker["old"].state = "applied" =>
        /\ marker["old"].snapshot = receipt
        /\ receipt # 0 /\ (Pruned \/ receipt \in files)

\* RustFS takes over a MinIO volume only while everything that was there when
\* the snapshot was taken can still be restored from it, unless unattended.
ImportCanBeUndone ==
    [][ Layout = "minio" /\ volume'.rustfs # "none" /\ ~ Unattended =>
          receipt \in files /\ (expected \ late) \subseteq tar[receipt] ]_vars

\* ADR 0037, summary: where the volume and its witnesses disagree the tool
\* reports it; so a plan with nothing pending finds every document in place.
NothingPendingIsTrue ==
    tool = "idle" /\ store = "stopped" /\ last["old"] # "none" /\ Plan = "none"
        => expected \subseteq volume.docs

=============================================================================
