------------------------ MODULE StoreMigrationProofs ------------------------
(***************************************************************************)
(* Proofs about StoreMigration, for any documents and any bounds.  The     *)
(* safety of a migration rests on four facts that hold together at every   *)
(* point a command can be cut short (MigrationInv): what an apply holds    *)
(* agrees with the journal, the journalled snapshot never changes, every   *)
(* marker names it or nothing, and it contains whatever is not late.       *)
(***************************************************************************)
EXTENDS StoreMigration, TLAPS

Applying == {"snapshot", "receipt", "mark", "applied"}
Restoring == {"clear", "extract", "restored"}

\* No store runs under an apply or a rollback.
StoppedInv == tool \in Applying \cup Restoring => store = "stopped"

\* Before the first receipt nothing was removed from the volume; an apply that
\* has just taken a snapshot holds a copy of it.
UnjournalledInv ==
    receipt = 0 =>
        /\ late = {} /\ expected \subseteq volume.docs
        /\ tool \notin Restoring \cup {"mark", "applied"}
        /\ tool = "receipt" => held \in Snapshots /\ tar[held] = volume.docs
        /\ tool = "receipt" => Pruned \/ held \in files

\* From then on the receipt's snapshot holds all that is not late.
JournalledInv ==
    receipt # 0 =>
        /\ tool \notin {"snapshot", "receipt"}
        /\ tool \in {"mark", "applied"} => held = receipt
        /\ (expected \ late) \subseteq tar[receipt]
        /\ Pruned \/ receipt \in files

\* Every marker of the deployment names the receipt or nothing.
MarkerInv ==
    /\ marker["old"].snapshot \in {0, receipt}
    /\ marker["old"].state = "applied" => marker["old"].snapshot = receipt /\ receipt # 0

\* Only what was written is there.
FilesInv == files \subseteq 1 .. taken

MigrationInv == TypeOK /\ FilesInv /\ StoppedInv /\ UnjournalledInv /\ JournalledInv /\ MarkerInv

-----------------------------------------------------------------------------
(* Types *)

\* The constants, in the form the step proofs use.
LEMMA ConstantFacts ==
    /\ Original \subseteq Docs /\ MaxSnapshots \in Nat
    /\ Snapshots = 1 .. MaxSnapshots /\ Snapshots \subseteq 0 .. MaxSnapshots
    /\ 0 \notin Snapshots /\ 0 \in 0 .. MaxSnapshots
  BY MigrationAssumption DEF Snapshots

\* An entry about the volume keeps the journal's states in their domain.
LEMMA JournalType ==
    ASSUME TypeOK, NEW state \in States, Journal(state)
    PROVE  last' \in [Deployments -> States]
  BY DEF TypeOK, Journal, Deployments

\* The initial state satisfies the invariant.
LEMMA InitInv == Init => MigrationInv
  BY ConstantFacts
  DEF Init, MigrationInv, TypeOK, FilesInv, StoppedInv, UnjournalledInv, JournalledInv,
      MarkerInv, Volumes, States, Deployments, NoMarker, Applying, Restoring

\* Every command of the tool keeps every variable in its domain; what a
\* rollback unpacks is a snapshot because there is a receipt.
LEMMA CommandType == TypeOK /\ UnjournalledInv /\ Command => TypeOK'
<1> USE ConstantFacts
<1> SUFFICES ASSUME TypeOK, UnjournalledInv, Command PROVE TypeOK'
  OBVIOUS
<1>1. CASE PlanOnly
  <2>1. Baseline \in States
    BY DEF Baseline, States
  <2> QED
    BY <1>1, <2>1, JournalType DEF PlanOnly, TypeOK, snapshotVars, toolVars
<1>2. CASE Fail \/ Crash
  <2>1. "failed" \in States
    BY DEF States
  <2> QED
    BY <1>2, <2>1, JournalType
    DEF Fail, Crash, TypeOK, snapshotVars, witnessVars
<1>3. CASE ApplyBegins
  <2>1. Baseline \in States
    BY DEF Baseline, States
  <2>2. last' \in [Deployments -> States]
    BY <1>3, <2>1, JournalType DEF ApplyBegins, TypeOK
  <2> QED
    BY <1>3, <2>2 DEF ApplyBegins, TypeOK, snapshotVars
<1>4. CASE TakeSnapshot
  <2>1. taken + 1 \in Snapshots
    BY <1>4 DEF TakeSnapshot, TypeOK, Snapshots
  <2>2. taken' \in 0 .. MaxSnapshots /\ held' \in 0 .. MaxSnapshots
    BY <1>4, <2>1 DEF TakeSnapshot
  <2>3. tar' \in [Snapshots -> SUBSET Docs] /\ files' \subseteq Snapshots
    BY <1>4, <2>1 DEF TakeSnapshot, TypeOK, Volumes
  <2> QED
    BY <1>4, <2>2, <2>3 DEF TakeSnapshot, AfterSnapshot, TypeOK, witnessVars
<1>5. CASE JournalSnapshot \/ JournalApplied \/ JournalRollback
  BY <1>5
  DEF JournalSnapshot, JournalApplied, JournalRollback, TypeOK, States,
      Deployments, snapshotVars
<1>6. CASE MarkApplied \/ RemoveMarker
  <2> DEFINE Markers == [state : {"none", "applied", "verified"},
                         snapshot : 0 .. MaxSnapshots]
  <2>1. [state |-> "applied", snapshot |-> held] \in Markers /\ NoMarker \in Markers
    BY DEF NoMarker, TypeOK
  <2>2. marker' \in [Deployments -> Markers]
    <3> HIDE DEF Markers
    <3>1. marker \in [Deployments -> Markers]
      BY DEF TypeOK, Markers
    <3> QED
      BY <1>6, <2>1, <3>1 DEF MarkApplied, RemoveMarker
  <2> QED
    BY <1>6, <2>2 DEF MarkApplied, RemoveMarker, TypeOK, snapshotVars
<1>7. CASE VerifyBegins \/ RollbackBegins
  BY <1>7 DEF VerifyBegins, RollbackBegins, TypeOK, snapshotVars, witnessVars
<1>8. CASE MarkVerified
  BY <1>8 DEF MarkVerified, TypeOK, Deployments, snapshotVars
<1>9. CASE JournalVerified
  <2>1. "verified" \in States
    BY DEF States
  <2> QED
    BY <1>9, <2>1, JournalType DEF JournalVerified, TypeOK, snapshotVars
<1>10. CASE ClearPart \/ ExtractFormat
  BY <1>10
  DEF ClearPart, ExtractFormat, TypeOK, Volumes, snapshotVars, witnessVars, toolVars
<1>11. CASE ExtractDoc
  <2>1. receipt \in Snapshots
    BY <1>11 DEF ExtractDoc, UnjournalledInv, Restoring, TypeOK, Snapshots
  <2>2. tar[receipt] \subseteq Docs
    BY <2>1 DEF TypeOK
  <2>3. PICK d \in tar[receipt] : volume' = [volume EXCEPT !.docs = @ \cup {d}]
    BY <1>11 DEF ExtractDoc
  <2>4. volume.docs \cup {d} \in SUBSET Docs
    BY <2>2, <2>3 DEF TypeOK, Volumes
  <2>5. volume' \in Volumes
    BY <2>3, <2>4 DEF TypeOK, Volumes
  <2> QED
    BY <1>11, <2>5 DEF ExtractDoc, TypeOK, snapshotVars, witnessVars, toolVars
<1> QED
  BY <1>1, <1>2, <1>3, <1>4, <1>5, <1>6, <1>7, <1>8, <1>9, <1>10, <1>11 DEF Command

\* So does whatever the stack and the operator do.
LEMMA StackType == TypeOK /\ Stack => TypeOK'
<1> SUFFICES ASSUME TypeOK, Stack PROVE TypeOK'
  OBVIOUS
<1>1. CASE StartRustfs \/ StartMinio \/ StopStore \/ RestoreDatabase \/ Prune
  BY <1>1
  DEF StartRustfs, StartMinio, StopStore, RestoreDatabase, Prune, TypeOK, Volumes,
      snapshotVars, witnessVars, toolVars
<1>2. ASSUME NEW d \in Docs, Upload(d) PROVE TypeOK'
  BY <1>2 DEF Upload, TypeOK, Volumes, snapshotVars, witnessVars, toolVars
<1> QED
  BY <1>1, <1>2 DEF Stack

-----------------------------------------------------------------------------
(* The invariant *)

\* A snapshot file goes only by being deleted, and that is never undone.
LEMMA FilesKept ==
    ASSUME MigrationInv, Next
    PROVE  /\ FilesInv'
           /\ Pruned => Pruned'
           /\ \A n \in files : Pruned' \/ n \in files'
<1> USE ConstantFacts DEF FilesInv, Pruned, MigrationInv
<1>1. CASE TakeSnapshot
  <2>1. taken \in Nat /\ taken' = taken + 1 /\ files' = files \cup {taken + 1}
    BY <1>1 DEF TakeSnapshot, TypeOK
  <2>2. taken + 1 \in 1 .. taken'
    BY <2>1
  <2>3. 1 .. taken \subseteq 1 .. taken' /\ taken + 1 \notin 1 .. taken
    BY <2>1
  <2> QED
    BY <2>1, <2>2, <2>3
<1>2. CASE Prune
  BY <1>2 DEF Prune
<1>3. CASE files' = files /\ taken' = taken
  BY <1>3
<1> QED
  BY <1>1, <1>2, <1>3
  DEF Next, Command, Stack, PlanOnly, Fail, Crash, ApplyBegins, JournalSnapshot,
      MarkApplied, JournalApplied, VerifyBegins, MarkVerified, JournalVerified,
      RollbackBegins, ClearPart, ExtractFormat, ExtractDoc, RemoveMarker,
      JournalRollback, StartRustfs, StartMinio, StopStore, Upload, RestoreDatabase,
      snapshotVars

\* What the plans, failures and crashes leave alone.
LEMMA QuietKeeps ==
    MigrationInv /\ (PlanOnly \/ Fail \/ Crash)
      => (StoppedInv /\ UnjournalledInv /\ JournalledInv /\ MarkerInv)'
  BY FilesKept
  DEF PlanOnly, Fail, Crash, MigrationInv, StoppedInv, UnjournalledInv,
      JournalledInv, MarkerInv, Applying, Restoring, snapshotVars, toolVars,
      witnessVars, Next, Command

\* The steps of an apply keep the four facts: the snapshot it journals was
\* taken of a volume that no store has touched since.
LEMMA ApplyKeeps ==
    /\ MigrationInv
    /\ ApplyBegins \/ TakeSnapshot \/ JournalSnapshot \/ MarkApplied \/ JournalApplied
    => (StoppedInv /\ UnjournalledInv /\ JournalledInv /\ MarkerInv)'
<1> USE ConstantFacts DEF Applying, Restoring, snapshotVars, toolVars, witnessVars
<1> SUFFICES ASSUME MigrationInv,
                    ApplyBegins \/ TakeSnapshot \/ JournalSnapshot
                      \/ MarkApplied \/ JournalApplied
             PROVE  (StoppedInv /\ UnjournalledInv /\ JournalledInv /\ MarkerInv)'
  OBVIOUS
<1>0. (Pruned => Pruned') /\ \A n \in files : Pruned' \/ n \in files'
  BY FilesKept DEF Next, Command
<1> USE <1>0
<1>1. CASE ApplyBegins
  BY <1>1 DEF ApplyBegins, Completed, MigrationInv, StoppedInv, UnjournalledInv,
              JournalledInv, MarkerInv
<1>2. CASE TakeSnapshot
  <2>1. taken + 1 \in Snapshots
    BY <1>2 DEF TakeSnapshot, MigrationInv, TypeOK, Snapshots
  <2>2. tar'[taken + 1] = volume.docs
    BY <1>2, <2>1 DEF TakeSnapshot, MigrationInv, TypeOK
  <2>3. receipt = 0
    BY <1>2 DEF TakeSnapshot, MigrationInv, JournalledInv
  <2> QED
    BY <1>2, <2>1, <2>2, <2>3
    DEF TakeSnapshot, AfterSnapshot, MigrationInv, StoppedInv, UnjournalledInv,
        JournalledInv, MarkerInv
<1>3. CASE JournalSnapshot
  <2>1. receipt = 0
    BY <1>3 DEF JournalSnapshot, MigrationInv, JournalledInv
  <2>2. /\ held \in Snapshots /\ tar[held] = volume.docs
        /\ Pruned \/ held \in files
        /\ expected \subseteq volume.docs
    BY <1>3, <2>1 DEF JournalSnapshot, MigrationInv, UnjournalledInv
  <2> QED
    BY <1>3, <2>1, <2>2
    DEF JournalSnapshot, MigrationInv, StoppedInv, UnjournalledInv, JournalledInv,
        MarkerInv
<1>4. CASE MarkApplied
  <2>1. receipt # 0 /\ held = receipt
    BY <1>4 DEF MarkApplied, MigrationInv, UnjournalledInv, JournalledInv
  <2>2. marker'["old"] = [state |-> "applied", snapshot |-> receipt]
    BY <1>4, <2>1 DEF MarkApplied, MigrationInv, TypeOK, Deployments
  <2> QED
    BY <1>4, <2>1, <2>2
    DEF MarkApplied, MigrationInv, StoppedInv, UnjournalledInv, JournalledInv,
        MarkerInv
<1>5. CASE JournalApplied
  BY <1>5 DEF JournalApplied, MigrationInv, StoppedInv, UnjournalledInv,
              JournalledInv, MarkerInv
<1> QED
  BY <1>1, <1>2, <1>3, <1>4, <1>5

\* A verify only promotes the state of a marker.
LEMMA VerifyKeeps ==
    MigrationInv /\ (VerifyBegins \/ MarkVerified \/ JournalVerified)
      => (StoppedInv /\ UnjournalledInv /\ JournalledInv /\ MarkerInv)'
<1> USE DEF Applying, Restoring, snapshotVars, toolVars, witnessVars
<1> SUFFICES ASSUME MigrationInv, VerifyBegins \/ MarkVerified \/ JournalVerified
             PROVE  (StoppedInv /\ UnjournalledInv /\ JournalledInv /\ MarkerInv)'
  OBVIOUS
<1>0. (Pruned => Pruned') /\ \A n \in files : Pruned' \/ n \in files'
  BY FilesKept DEF Next, Command
<1> USE <1>0
<1>1. CASE VerifyBegins \/ JournalVerified
  BY <1>1 DEF VerifyBegins, JournalVerified, MigrationInv, StoppedInv,
              UnjournalledInv, JournalledInv, MarkerInv
<1>2. CASE MarkVerified
  <2>1. marker'["old"].snapshot = marker["old"].snapshot
    BY <1>2 DEF MarkVerified, MigrationInv, TypeOK, Deployments
  <2>2. marker'["old"].state = "applied" => marker["old"].state = "applied"
    BY <1>2 DEF MarkVerified, MigrationInv, TypeOK, Deployments
  <2>3. MarkerInv'
    BY <1>2, <2>1, <2>2 DEF MarkVerified, MigrationInv, MarkerInv
  <2> QED
    BY <1>2, <2>3 DEF MarkVerified, MigrationInv, StoppedInv, UnjournalledInv,
                      JournalledInv
<1> QED
  BY <1>1, <1>2

\* A rollback destroys the volume, never the snapshot it restores.
LEMMA RollbackKeeps ==
    /\ MigrationInv
    /\ RollbackBegins \/ ClearPart \/ ExtractFormat \/ ExtractDoc \/ RemoveMarker
         \/ JournalRollback
    => (StoppedInv /\ UnjournalledInv /\ JournalledInv /\ MarkerInv)'
<1> USE DEF Applying, Restoring, snapshotVars, toolVars, witnessVars
<1> SUFFICES ASSUME MigrationInv,
                    RollbackBegins \/ ClearPart \/ ExtractFormat \/ ExtractDoc
                      \/ RemoveMarker \/ JournalRollback
             PROVE  (StoppedInv /\ UnjournalledInv /\ JournalledInv /\ MarkerInv)'
  OBVIOUS
<1>0. (Pruned => Pruned') /\ \A n \in files : Pruned' \/ n \in files'
  BY FilesKept DEF Next, Command
<1> USE <1>0
<1>1. receipt # 0
  BY DEF RollbackBegins, ClearPart, ExtractFormat, ExtractDoc, RemoveMarker,
         JournalRollback, MigrationInv, UnjournalledInv
<1>2. CASE RemoveMarker
  <2>1. marker'["old"] = NoMarker
    BY <1>2 DEF RemoveMarker, MigrationInv, TypeOK, Deployments
  <2>2. MarkerInv'
    BY <2>1 DEF NoMarker, MarkerInv
  <2> QED
    BY <1>1, <1>2, <2>2 DEF RemoveMarker, MigrationInv, StoppedInv,
                            UnjournalledInv, JournalledInv
<1>3. CASE RollbackBegins \/ ClearPart \/ ExtractFormat \/ ExtractDoc \/ JournalRollback
  BY <1>1, <1>3
  DEF RollbackBegins, ClearPart, ExtractFormat, ExtractDoc, JournalRollback,
      MigrationInv, StoppedInv, UnjournalledInv, JournalledInv, MarkerInv
<1> QED
  BY <1>2, <1>3

\* The stack runs only between commands, and an upload after the receipt is late.
LEMMA StackKeeps ==
    MigrationInv /\ Stack => (StoppedInv /\ UnjournalledInv /\ JournalledInv /\ MarkerInv)'
<1> USE DEF Applying, Restoring, snapshotVars, toolVars, witnessVars
<1> SUFFICES ASSUME MigrationInv, Stack
             PROVE  (StoppedInv /\ UnjournalledInv /\ JournalledInv /\ MarkerInv)'
  OBVIOUS
<1>0. (Pruned => Pruned') /\ \A n \in files : Pruned' \/ n \in files'
  BY FilesKept DEF Next, Command
<1> USE <1>0
<1>1. CASE StartRustfs
  <2>1. volume'.docs = volume.docs
    BY <1>1 DEF StartRustfs, MigrationInv, TypeOK, Volumes
  <2> QED
    BY <1>1, <2>1 DEF StartRustfs, MigrationInv, StoppedInv, UnjournalledInv,
                      JournalledInv, MarkerInv
<1>2. CASE StartMinio \/ StopStore \/ RestoreDatabase \/ Prune
  BY <1>2 DEF StartMinio, StopStore, RestoreDatabase, Prune, MigrationInv,
              StoppedInv, UnjournalledInv, JournalledInv, MarkerInv
<1>3. ASSUME NEW d \in Docs, Upload(d)
      PROVE  (StoppedInv /\ UnjournalledInv /\ JournalledInv /\ MarkerInv)'
  <2>1. volume'.docs = volume.docs \cup {d}
    BY <1>3 DEF Upload, MigrationInv, TypeOK, Volumes
  <2> QED
    BY <1>3, <2>1 DEF Upload, MigrationInv, StoppedInv, UnjournalledInv,
                      JournalledInv, MarkerInv
<1> QED
  BY <1>1, <1>2, <1>3 DEF Stack

\* The invariant holds in every reachable state.
LEMMA InvariantHolds == Spec => []MigrationInv
<1>1. Init => MigrationInv
  BY InitInv
<1>2. MigrationInv /\ [Next]_vars => MigrationInv'
  <2> SUFFICES ASSUME MigrationInv, [Next]_vars PROVE MigrationInv'
    OBVIOUS
  <2>1. CASE Command
    <3>1. TypeOK' /\ FilesInv'
      BY <2>1, CommandType, FilesKept DEF Next, MigrationInv
    <3> QED
      BY <2>1, <3>1, QuietKeeps, ApplyKeeps, VerifyKeeps, RollbackKeeps
      DEF Command, MigrationInv
  <2>2. CASE Stack
    BY <2>2, StackType, StackKeeps, FilesKept DEF Next, MigrationInv
  <2>3. CASE UNCHANGED vars
    BY <2>3 DEF vars, snapshotVars, witnessVars, toolVars, MigrationInv, TypeOK,
                FilesInv, Pruned, StoppedInv, UnjournalledInv, JournalledInv, MarkerInv
  <2> QED
    BY <2>1, <2>2, <2>3 DEF Next
<1> QED
  BY <1>1, <1>2, PTL DEF Spec

-----------------------------------------------------------------------------
(* Theorems *)

\* Every variable of the migration stays in its domain.
THEOREM MigrationTypeCorrect == Spec => []TypeOK
<1>1. MigrationInv => TypeOK
  BY DEF MigrationInv
<1> QED
  BY <1>1, InvariantHolds, PTL

\* The marker written by apply names the journalled snapshot, and that snapshot
\* exists, whatever crash cut the command short (ADR 0037, decision 2).
THEOREM MarkersAreBacked == Spec => []MarkerHasSnapshot
<1>1. MigrationInv => MarkerHasSnapshot
  BY DEF MigrationInv, JournalledInv, MarkerInv, MarkerHasSnapshot
<1> QED
  BY <1>1, InvariantHolds, PTL

\* As long as every snapshot file is kept, no document uploaded before the
\* journalled snapshot is lost by an apply or a rollback, interrupted or not.
THEOREM DocumentsAreKept == Spec => []NoDocumentLost
<1>1. MigrationInv => NoDocumentLost
  BY DEF MigrationInv, UnjournalledInv, JournalledInv, NoDocumentLost, Kept
<1> QED
  BY <1>1, InvariantHolds, PTL

\* RustFS never takes over a MinIO volume whose snapshot could not bring it
\* back, even when snapshot files are deleted: the gate looks for the file.
THEOREM ImportsCanBeUndone == Spec => ImportCanBeUndone
<1> DEFINE Reversible ==
      Layout = "minio" /\ volume'.rustfs # "none" /\ ~ Unattended =>
          receipt \in files /\ (expected \ late) \subseteq tar[receipt]
<1>1. MigrationInv /\ [Next]_vars => [Reversible]_vars
  <2> SUFFICES ASSUME MigrationInv, Next, Layout = "minio",
                      volume'.rustfs # "none", ~ Unattended
               PROVE  receipt \in files /\ (expected \ late) \subseteq tar[receipt]
    OBVIOUS
  <2>1. volume.rustfs = "none"
    BY DEF Layout
  <2>2. StartRustfs
    <3>1. volume' # volume
      BY <2>1
    <3>2. CASE ClearPart \/ ExtractFormat \/ ExtractDoc
      BY <2>1, <3>2 DEF ClearPart, ExtractFormat, ExtractDoc, MigrationInv, TypeOK,
                        Volumes
    <3>3. ASSUME NEW d \in Docs, Upload(d) PROVE FALSE
      BY <2>1, <3>3 DEF Upload, MigrationInv, TypeOK, Volumes
    <3> QED
      BY <3>1, <3>2, <3>3
      DEF Next, Command, Stack, PlanOnly, Fail, Crash, ApplyBegins, TakeSnapshot,
          JournalSnapshot, MarkApplied, JournalApplied, VerifyBegins, MarkVerified,
          JournalVerified, RollbackBegins, RemoveMarker, JournalRollback, StartMinio,
          StopStore, RestoreDatabase, Prune
  <2>3. marker["old"].snapshot \in files
    BY <2>2 DEF StartRustfs, GateOpens
  <2>4. receipt # 0 /\ receipt \in files
    BY <2>3, ConstantFacts DEF MigrationInv, TypeOK, MarkerInv
  <2> QED
    BY <2>4 DEF MigrationInv, JournalledInv
<1> QED
  BY <1>1, InvariantHolds, PTL DEF Spec, ImportCanBeUndone

=============================================================================
