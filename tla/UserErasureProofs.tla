-------------------------- MODULE UserErasureProofs --------------------------
(***************************************************************************)
(* Proofs about UserErasure, for any users, files, exports and any length  *)
(* of a drain.  Rows lead and objects follow: an object is removed only    *)
(* for a row that is in the queue, for a bundle that has expired, or for   *)
(* an upload whose row was refused, and a row is in the queue only after   *)
(* the row that named the object has gone.                                 *)
(***************************************************************************)
EXTENDS ErasureRefinement, FiniteSetTheorems, TLAPS

\* The bytes of an upload are there until its row goes, and then are queued.
FileInv ==
    \A f \in Files :
        /\ file[f] \in {"stored", "live", "deleted"} => f \in objects
        /\ file[f] = "gone" /\ f \in objects => f \in queue

\* The same for a bundle: what the job has stored, and what a key names.
BundleInv ==
    \A x \in Exports :
        /\ Kept(x) => x \in objects
        /\ worker[x] = "stored" /\ ExportRow(x) /\ ~again[x] => x \in objects
        /\ export[x] = "gone" /\ x \in objects => x \in queue
        /\ export[x] = "completed" /\ ~HasKey(x) /\ ~again[x] => x \notin objects

\* A job that is under way works on a row that says so, or on one that an erasure
\* took; it has seen the key the row has, and where there is no row there is no key.
JobInv ==
    \A x \in Exports :
        /\ worker[x] = "building" => export[x] \in {"processing", "overtaken", "dropped"}
        /\ worker[x] = "stored" => export[x] \in {"processing", "gone", "overtaken", "dropped"}
        /\ worker[x] # "idle" /\ HasKey(x) => again[x]
        /\ ~ExportRow(x) => ~HasKey(x)

\* The collection only meets rows with a key, whatever becomes of the row then; unless
\* the job has been run again, the bundle has expired and nobody stores it.
GcInv ==
    \A x \in Exports : gc[x] # "idle" =>
        /\ export[x] # "absent" /\ (ExportRow(x) => HasKey(x))
        /\ ExportRow(x) /\ ~again[x] =>
              key[x] = "stale" /\ worker[x] = "idle" /\ (gc[x] = "removed" => x \notin objects)

\* What is queued has no row left, and what the drain removes is queued.
QueueInv ==
    /\ \A f \in Files : f \in queue => file[f] = "gone"
    /\ \A x \in Exports : x \in queue => export[x] \in {"gone", "overtaken"}
    /\ drain \subseteq queue
    /\ phase # "draining" => drain = {}
    /\ removed # NoPath =>
          /\ removed \in drain
          /\ removed \in objects => removed \in Exports /\ export[removed] = "overtaken"

\* What the nightly job has listed belongs to the user it has locked, has a row,
\* and holds each of the user's files.
ListInv ==
    /\ phase # "listed" => listed = {}
    /\ \A p \in listed : OwnerOf[p] = target
    /\ \A f \in Files : f \in listed => HasRow(f)
    /\ \A x \in Exports : x \in listed => ExportRow(x)
    /\ phase = "listed" => \A f \in Files : OwnerOf[f] = target /\ HasRow(f) => f \in listed

ErasureInv == TypeOK /\ FileInv /\ BundleInv /\ JobInv /\ GcInv /\ QueueInv /\ ListInv

-----------------------------------------------------------------------------
(* The invariant *)

\* The initial states satisfy it.
LEMMA InitInv == Init => ErasureInv
<1> SUFFICES ASSUME Init PROVE ErasureInv
  OBVIOUS
<1>1. TypeOK
  BY ErasureAssumption DEF Init, TypeOK, FileStates, ExportStates
<1>2. FileInv /\ QueueInv /\ ListInv
  BY DEF Init, FileInv, QueueInv, ListInv, HasRow
<1>3. BundleInv /\ JobInv /\ GcInv
  BY DEF Init, BundleInv, JobInv, GcInv, ExportRow, HasKey, Kept
<1> QED
  BY <1>1, <1>2, <1>3 DEF ErasureInv

\* What a user does with the account moves no file, bundle or object.
LEMMA AccountKeepsInv ==
  ASSUME ErasureInv, NEW u \in Users, AccountStep(u) PROVE ErasureInv'
<1> USE ErasureAssumption DEF accountVars, exportVars, batchVars, Paths, HasRow, ExportRow,
       HasKey, keyVars, Kept, Reschedule, Locked
<1>1. CASE ScheduleDeletion(u)
  <2>1. TypeOK'
    BY <1>1 DEF ErasureInv, ScheduleDeletion, TypeOK
  <2>2. FileInv' /\ BundleInv' /\ JobInv' /\ GcInv' /\ QueueInv' /\ ListInv'
    BY <1>1 DEF ErasureInv, ScheduleDeletion, FileInv, BundleInv, JobInv, GcInv, QueueInv, ListInv
  <2> QED
    BY <2>1, <2>2 DEF ErasureInv
<1>2. CASE GracePasses(u)
  <2>1. TypeOK'
    BY <1>2 DEF ErasureInv, GracePasses, TypeOK
  <2>2. FileInv' /\ BundleInv' /\ JobInv' /\ GcInv' /\ QueueInv' /\ ListInv'
    BY <1>2 DEF ErasureInv, GracePasses, FileInv, BundleInv, JobInv, GcInv, QueueInv, ListInv
  <2> QED
    BY <2>1, <2>2 DEF ErasureInv
<1>3. CASE CancelDeletion(u)
  <2>1. TypeOK'
    BY <1>3 DEF ErasureInv, CancelDeletion, TypeOK
  <2>2. FileInv' /\ BundleInv' /\ JobInv' /\ GcInv' /\ QueueInv' /\ ListInv'
    BY <1>3 DEF ErasureInv, CancelDeletion, FileInv, BundleInv, JobInv, GcInv, QueueInv, ListInv
  <2> QED
    BY <2>1, <2>2 DEF ErasureInv
<1>4. CASE ChangeSharing(u)
  <2>1. TypeOK'
    BY <1>4 DEF ErasureInv, ChangeSharing, TypeOK
  <2>2. FileInv' /\ BundleInv' /\ JobInv' /\ GcInv' /\ QueueInv' /\ ListInv'
    BY <1>4 DEF ErasureInv, ChangeSharing, FileInv, BundleInv, JobInv, GcInv, QueueInv, ListInv
  <2> QED
    BY <2>1, <2>2 DEF ErasureInv
<1> QED
  BY <1>1, <1>2, <1>3, <1>4 DEF AccountStep

\* An upload changes its own file only, and no file of a user the job has locked gets a row.
LEMMA UploadKeepsInv ==
  ASSUME ErasureInv, NEW f \in Files, UploadStep(f) PROVE ErasureInv'
<1> USE ErasureAssumption DEF accountVars, exportVars, batchVars, Paths, HasRow, ExportRow,
       HasKey, keyVars, Kept, FileStep, Locked
<1>1. CASE StoreUpload(f)
  <2>1. TypeOK'
    BY <1>1 DEF ErasureInv, StoreUpload, TypeOK, FileStates
  <2>2. FileInv'
    BY <1>1 DEF ErasureInv, StoreUpload, FileInv
  <2>3. BundleInv'
    BY <1>1 DEF ErasureInv, StoreUpload, BundleInv
  <2>4. GcInv'
    BY <1>1 DEF ErasureInv, StoreUpload, GcInv
  <2>5. QueueInv'
    BY <1>1 DEF ErasureInv, StoreUpload, QueueInv
  <2>6. ListInv'
    BY <1>1 DEF ErasureInv, StoreUpload, ListInv
  <2>7. JobInv'
    BY <1>1 DEF ErasureInv, StoreUpload, JobInv
  <2> QED
    BY <2>1, <2>2, <2>3, <2>4, <2>5, <2>6, <2>7 DEF ErasureInv
<1>2. CASE CommitUpload(f)
  <2>1. TypeOK'
    BY <1>2 DEF ErasureInv, CommitUpload, TypeOK, FileStates
  <2>2. FileInv'
    BY <1>2 DEF ErasureInv, CommitUpload, FileInv
  <2>3. QueueInv'
    BY <1>2 DEF ErasureInv, CommitUpload, QueueInv
  <2>4. ListInv'
    BY <1>2 DEF ErasureInv, CommitUpload, ListInv
  <2>5. BundleInv' /\ JobInv' /\ GcInv'
    BY <1>2 DEF ErasureInv, CommitUpload, BundleInv, JobInv, GcInv
  <2> QED
    BY <2>1, <2>2, <2>3, <2>4, <2>5 DEF ErasureInv
<1>3. CASE RefuseUpload(f)
  <2>1. TypeOK'
    BY <1>3 DEF ErasureInv, RefuseUpload, TypeOK, FileStates
  <2>2. FileInv'
    BY <1>3 DEF ErasureInv, RefuseUpload, FileInv
  <2>3. QueueInv'
    BY <1>3 DEF ErasureInv, RefuseUpload, QueueInv
  <2>4. ListInv'
    BY <1>3 DEF ErasureInv, RefuseUpload, ListInv
  <2>5. BundleInv' /\ JobInv' /\ GcInv'
    BY <1>3 DEF ErasureInv, RefuseUpload, BundleInv, JobInv, GcInv
  <2> QED
    BY <2>1, <2>2, <2>3, <2>4, <2>5 DEF ErasureInv
<1>4. CASE CleanUp(f)
  <2>1. TypeOK'
    BY <1>4 DEF ErasureInv, CleanUp, TypeOK, FileStates
  <2>2. FileInv'
    BY <1>4 DEF ErasureInv, CleanUp, FileInv
  <2>3. BundleInv'
    BY <1>4 DEF ErasureInv, CleanUp, BundleInv
  <2>4. GcInv'
    BY <1>4 DEF ErasureInv, CleanUp, GcInv
  <2>5. QueueInv'
    BY <1>4 DEF ErasureInv, CleanUp, QueueInv
  <2>6. ListInv'
    BY <1>4 DEF ErasureInv, CleanUp, ListInv
  <2>7. JobInv'
    BY <1>4 DEF ErasureInv, CleanUp, JobInv
  <2> QED
    BY <2>1, <2>2, <2>3, <2>4, <2>5, <2>6, <2>7 DEF ErasureInv
<1>5. CASE LoseUpload(f)
  <2>1. TypeOK'
    BY <1>5 DEF ErasureInv, LoseUpload, TypeOK, FileStates
  <2>2. FileInv'
    BY <1>5 DEF ErasureInv, LoseUpload, FileInv
  <2>3. QueueInv'
    BY <1>5 DEF ErasureInv, LoseUpload, QueueInv
  <2>4. ListInv'
    BY <1>5 DEF ErasureInv, LoseUpload, ListInv
  <2>5. BundleInv' /\ JobInv' /\ GcInv'
    BY <1>5 DEF ErasureInv, LoseUpload, BundleInv, JobInv, GcInv
  <2> QED
    BY <2>1, <2>2, <2>3, <2>4, <2>5 DEF ErasureInv
<1>6. CASE DeleteFile(f)
  <2>1. TypeOK'
    BY <1>6 DEF ErasureInv, DeleteFile, TypeOK, FileStates
  <2>2. FileInv'
    BY <1>6 DEF ErasureInv, DeleteFile, FileInv
  <2>3. QueueInv'
    BY <1>6 DEF ErasureInv, DeleteFile, QueueInv
  <2>4. ListInv'
    BY <1>6 DEF ErasureInv, DeleteFile, ListInv
  <2>5. BundleInv' /\ JobInv' /\ GcInv'
    BY <1>6 DEF ErasureInv, DeleteFile, BundleInv, JobInv, GcInv
  <2> QED
    BY <2>1, <2>2, <2>3, <2>4, <2>5 DEF ErasureInv
<1> QED
  BY <1>1, <1>2, <1>3, <1>4, <1>5, <1>6 DEF UploadStep

\* Nothing changes in the row and the job of an export.
SameExport(y) ==
    /\ export'[y] = export[y] /\ worker'[y] = worker[y]
    /\ key'[y] = key[y] /\ again'[y] = again[y]

\* An export job changes its own row and bundle only.
LEMMA ExportKeepsInv ==
  ASSUME ErasureInv, NEW x \in Exports, ExportJobStep(x) PROVE ErasureInv'
<1> USE ErasureAssumption DEF accountVars, exportVars, batchVars, Paths, HasRow, ExportRow,
       ExportStep,
       keyVars, HasKey, KeyRecorded, Kept
<1>1. CASE RequestExport(x)
  <2>1. TypeOK'
    BY <1>1 DEF ErasureInv, RequestExport, TypeOK, ExportStates
  <2>2. BundleInv'
    BY <1>1 DEF ErasureInv, RequestExport, BundleInv, JobInv, TypeOK
  <2>3. JobInv'
    BY <1>1 DEF ErasureInv, RequestExport, JobInv, TypeOK
  <2>4. GcInv'
    BY <1>1 DEF ErasureInv, RequestExport, GcInv
  <2>5. QueueInv'
    BY <1>1 DEF ErasureInv, RequestExport, QueueInv
  <2>6. ListInv'
    BY <1>1 DEF ErasureInv, RequestExport, ListInv
  <2>7. FileInv'
    BY <1>1 DEF ErasureInv, RequestExport, FileInv
  <2> QED
    BY <2>1, <2>2, <2>3, <2>4, <2>5, <2>6, <2>7 DEF ErasureInv
<1>2. CASE StartExport(x)
  <2>1. TypeOK'
    BY <1>2 DEF ErasureInv, StartExport, TypeOK, ExportStates
  <2>2. export'[x] = "processing" /\ worker'[x] = "building" /\ key'[x] = key[x]
    BY <1>2 DEF ErasureInv, StartExport, TypeOK
  <2>3. again'[x] = HasKey(x)
    BY <1>2, Zenon DEF ErasureInv, StartExport, TypeOK
  <2>4. \A y \in Exports \ {x} : SameExport(y)
    BY <1>2 DEF ErasureInv, StartExport, TypeOK, SameExport
  <2>5. UNCHANGED <<file, gc, objects, queue, batchVars>>
    BY <1>2 DEF StartExport
  <2>6. BundleInv' /\ JobInv'
    BY <2>2, <2>3, <2>4, <2>5 DEF ErasureInv, BundleInv, JobInv, SameExport
  <2>7. GcInv'
    <3>1. \A y \in Exports \ {x} : gc'[y] # "idle" =>
            /\ export'[y] # "absent" /\ (ExportRow(y) => HasKey(y))'
            /\ ExportRow(y)' /\ ~again'[y] =>
                 /\ key'[y] = "stale" /\ worker'[y] = "idle"
                 /\ gc'[y] = "removed" => y \notin objects'
      BY <2>4, <2>5 DEF ErasureInv, GcInv, SameExport
    <3>2. gc'[x] # "idle" => HasKey(x) /\ HasKey(x)' /\ again'[x]
      BY <1>2, <2>2, <2>3, <2>5 DEF ErasureInv, StartExport, GcInv
    <3> QED
      BY <2>2, <3>1, <3>2 DEF GcInv
  <2>8. QueueInv'
    BY <1>2 DEF ErasureInv, StartExport, QueueInv
  <2>9. ListInv'
    BY <1>2 DEF ErasureInv, StartExport, ListInv
  <2>10. FileInv'
    BY <1>2 DEF ErasureInv, StartExport, FileInv
  <2> QED
    BY <2>1, <2>6, <2>7, <2>8, <2>9, <2>10 DEF ErasureInv
<1>3. CASE MissExport(x)
  <2>1. TypeOK'
    BY <1>3 DEF ErasureInv, MissExport, TypeOK
  <2>2. BundleInv'
    BY <1>3 DEF ErasureInv, MissExport, BundleInv
  <2>3. JobInv'
    BY <1>3 DEF ErasureInv, MissExport, JobInv
  <2>4. GcInv'
    BY <1>3 DEF ErasureInv, MissExport, GcInv
  <2>5. QueueInv'
    BY <1>3 DEF ErasureInv, MissExport, QueueInv
  <2>6. ListInv'
    BY <1>3 DEF ErasureInv, MissExport, ListInv
  <2>7. FileInv'
    BY <1>3 DEF ErasureInv, MissExport, FileInv
  <2> QED
    BY <2>1, <2>2, <2>3, <2>4, <2>5, <2>6, <2>7 DEF ErasureInv
<1>4. CASE StoreBundle(x)
  <2>1. TypeOK'
    BY <1>4 DEF ErasureInv, StoreBundle, TypeOK
  <2>2. FileInv'
    BY <1>4 DEF ErasureInv, StoreBundle, FileInv
  <2>3. BundleInv'
    BY <1>4 DEF ErasureInv, StoreBundle, BundleInv, JobInv
  <2>4. JobInv'
    BY <1>4 DEF ErasureInv, StoreBundle, JobInv
  <2>5. GcInv'
    BY <1>4 DEF ErasureInv, StoreBundle, GcInv, JobInv
  <2>6. QueueInv'
    BY <1>4 DEF ErasureInv, StoreBundle, QueueInv, JobInv
  <2>7. ListInv'
    BY <1>4 DEF ErasureInv, StoreBundle, ListInv
  <2> QED
    BY <2>1, <2>2, <2>3, <2>4, <2>5, <2>6, <2>7 DEF ErasureInv
<1>5. CASE RecordBundle(x)
  <2>1. TypeOK'
    BY <1>5 DEF ErasureInv, RecordBundle, TypeOK, ExportStates
  <2>2. BundleInv'
    BY <1>5 DEF ErasureInv, RecordBundle, BundleInv, JobInv, TypeOK
  <2>3. JobInv'
    BY <1>5 DEF ErasureInv, RecordBundle, JobInv, TypeOK
  <2>4. GcInv'
    BY <1>5 DEF ErasureInv, RecordBundle, GcInv, JobInv
  <2>5. QueueInv'
    BY <1>5 DEF ErasureInv, RecordBundle, QueueInv
  <2>6. ListInv'
    BY <1>5 DEF ErasureInv, RecordBundle, ListInv
  <2>7. FileInv'
    BY <1>5 DEF ErasureInv, RecordBundle, FileInv
  <2> QED
    BY <2>1, <2>2, <2>3, <2>4, <2>5, <2>6, <2>7 DEF ErasureInv
<1>6. CASE FailExport(x)
  <2>1. TypeOK'
    BY <1>6 DEF ErasureInv, FailExport, TypeOK, ExportStates
  <2>2. BundleInv'
    BY <1>6 DEF ErasureInv, FailExport, BundleInv
  <2>3. JobInv'
    BY <1>6 DEF ErasureInv, FailExport, JobInv, TypeOK
  <2>4. GcInv'
    BY <1>6 DEF ErasureInv, FailExport, GcInv, JobInv
  <2>5. QueueInv'
    BY <1>6 DEF ErasureInv, FailExport, QueueInv
  <2>6. ListInv'
    BY <1>6 DEF ErasureInv, FailExport, ListInv, JobInv
  <2>7. FileInv'
    BY <1>6 DEF ErasureInv, FailExport, FileInv
  <2> QED
    BY <2>1, <2>2, <2>3, <2>4, <2>5, <2>6, <2>7 DEF ErasureInv
<1>7. CASE CrashExport(x)
  <2>1. TypeOK'
    BY <1>7 DEF ErasureInv, CrashExport, TypeOK
  <2>2. BundleInv'
    BY <1>7 DEF ErasureInv, CrashExport, BundleInv
  <2>3. JobInv'
    BY <1>7 DEF ErasureInv, CrashExport, JobInv
  <2>4. GcInv'
    BY <1>7 DEF ErasureInv, CrashExport, GcInv
  <2>5. QueueInv'
    BY <1>7 DEF ErasureInv, CrashExport, QueueInv
  <2>6. ListInv'
    BY <1>7 DEF ErasureInv, CrashExport, ListInv
  <2>7. FileInv'
    BY <1>7 DEF ErasureInv, CrashExport, FileInv
  <2> QED
    BY <2>1, <2>2, <2>3, <2>4, <2>5, <2>6, <2>7 DEF ErasureInv
<1>8. CASE Expire(x)
  <2>1. TypeOK'
    BY <1>8 DEF ErasureInv, Expire, TypeOK, ExportStates
  <2>2. BundleInv'
    BY <1>8 DEF ErasureInv, Expire, BundleInv
  <2>3. JobInv'
    BY <1>8 DEF ErasureInv, Expire, JobInv
  <2>4. GcInv'
    BY <1>8 DEF ErasureInv, Expire, GcInv
  <2>5. QueueInv'
    BY <1>8 DEF ErasureInv, Expire, QueueInv
  <2>6. ListInv'
    BY <1>8 DEF ErasureInv, Expire, ListInv
  <2>7. FileInv'
    BY <1>8 DEF ErasureInv, Expire, FileInv
  <2> QED
    BY <2>1, <2>2, <2>3, <2>4, <2>5, <2>6, <2>7 DEF ErasureInv
<1> QED
  BY <1>1, <1>2, <1>3, <1>4, <1>5, <1>6, <1>7, <1>8 DEF ExportJobStep

\* The collection removes only bundles that had expired when it selected them, and
\* clears a key only when the bundle has been removed.
LEMMA GcKeepsInv ==
  ASSUME ErasureInv, GcStep PROVE ErasureInv'
<1> USE ErasureAssumption DEF accountVars, exportVars, batchVars, Paths, HasRow, ExportRow,
       HasKey, keyVars, Kept, NoneCollected, Collectable
<1>1. CASE GcPick
  <2>1. TypeOK'
    BY <1>1 DEF ErasureInv, GcPick, TypeOK
  <2>2. GcInv'
    BY <1>1 DEF ErasureInv, GcPick, GcInv, BundleInv, JobInv, TypeOK
  <2>3. FileInv' /\ BundleInv' /\ JobInv' /\ QueueInv' /\ ListInv'
    BY <1>1 DEF ErasureInv, GcPick, FileInv, BundleInv, JobInv, QueueInv, ListInv
  <2> QED
    BY <2>1, <2>2, <2>3 DEF ErasureInv
<1>2. ASSUME NEW x \in Exports, GcRemove(x) PROVE ErasureInv'
  <2>1. TypeOK'
    BY <1>2 DEF ErasureInv, GcRemove, TypeOK
  <2>2. FileInv'
    BY <1>2 DEF ErasureInv, GcRemove, FileInv
  <2>3. BundleInv'
    BY <1>2 DEF ErasureInv, GcRemove, BundleInv, JobInv, GcInv
  <2>4. GcInv'
    BY <1>2 DEF ErasureInv, GcRemove, GcInv, TypeOK
  <2>5. QueueInv'
    BY <1>2 DEF ErasureInv, GcRemove, QueueInv
  <2>6. JobInv' /\ ListInv'
    BY <1>2 DEF ErasureInv, GcRemove, JobInv, ListInv
  <2> QED
    BY <2>1, <2>2, <2>3, <2>4, <2>5, <2>6 DEF ErasureInv
<1>3. CASE GcCommit
  <2>1. TypeOK'
    BY <1>3 DEF ErasureInv, GcCommit, TypeOK, ExportStates
  <2>2. BundleInv'
    BY <1>3 DEF ErasureInv, GcCommit, BundleInv, GcInv
  <2>3. JobInv'
    BY <1>3 DEF ErasureInv, GcCommit, JobInv, GcInv
  <2>4. GcInv'
    BY <1>3 DEF ErasureInv, GcCommit, GcInv
  <2>5. QueueInv'
    BY <1>3 DEF ErasureInv, GcCommit, QueueInv
  <2>6. ListInv'
    BY <1>3 DEF ErasureInv, GcCommit, ListInv
  <2>7. FileInv'
    BY <1>3 DEF ErasureInv, GcCommit, FileInv
  <2> QED
    BY <2>1, <2>2, <2>3, <2>4, <2>5, <2>6, <2>7 DEF ErasureInv
<1>4. CASE GcStops
  <2>1. TypeOK'
    BY <1>4 DEF ErasureInv, GcStops, TypeOK
  <2>2. GcInv'
    BY <1>4 DEF ErasureInv, GcStops, GcInv
  <2>3. FileInv' /\ BundleInv' /\ JobInv' /\ QueueInv' /\ ListInv'
    BY <1>4 DEF ErasureInv, GcStops, FileInv, BundleInv, JobInv, QueueInv, ListInv
  <2> QED
    BY <2>1, <2>2, <2>3 DEF ErasureInv
<1> QED
  BY <1>1, <1>2, <1>3, <1>4 DEF GcStep

\* An erasure takes away the rows and queues the bytes of the files in one step.
LEMMA EraseKeepsInv ==
  ASSUME ErasureInv, (\E u \in Users : EraseStep(u)) \/ BatchBegins \/ BatchStops PROVE ErasureInv'
<1> USE ErasureAssumption DEF accountVars, exportVars, batchVars, Paths, HasRow, ExportRow,
       IdleBatch, StorageOf, HasKey, keyVars, Kept, Taken
<1>1. ASSUME NEW u \in Users, EraseBegins(u) PROVE ErasureInv'
  <2>1. TypeOK'
    BY <1>1 DEF ErasureInv, EraseBegins, TypeOK
  <2>2. QueueInv'
    BY <1>1 DEF ErasureInv, EraseBegins, QueueInv
  <2>3. ListInv'
    BY <1>1 DEF ErasureInv, EraseBegins, ListInv
  <2>4. FileInv' /\ BundleInv' /\ JobInv' /\ GcInv'
    BY <1>1 DEF ErasureInv, EraseBegins, FileInv, BundleInv, JobInv, GcInv
  <2> QED
    BY <2>1, <2>2, <2>3, <2>4 DEF ErasureInv
<1>2. ASSUME NEW u \in Users, EraseRefused(u) PROVE ErasureInv'
  <2>1. TypeOK'
    BY <1>2 DEF ErasureInv, EraseRefused, TypeOK
  <2>2. QueueInv'
    BY <1>2 DEF ErasureInv, EraseRefused, QueueInv
  <2>3. ListInv'
    BY <1>2 DEF ErasureInv, EraseRefused, ListInv
  <2>4. FileInv' /\ BundleInv' /\ JobInv' /\ GcInv'
    BY <1>2 DEF ErasureInv, EraseRefused, FileInv, BundleInv, JobInv, GcInv
  <2> QED
    BY <2>1, <2>2, <2>3, <2>4 DEF ErasureInv
<1>3. ASSUME NEW u \in Users, ListStorage(u) PROVE ErasureInv'
  <2>1. TypeOK'
    BY <1>3 DEF ErasureInv, ListStorage, TypeOK
  <2>2. QueueInv'
    BY <1>3 DEF ErasureInv, ListStorage, QueueInv
  <2>3. ListInv'
    BY <1>3 DEF ErasureInv, ListStorage, ListInv, JobInv
  <2>4. FileInv' /\ BundleInv' /\ JobInv' /\ GcInv'
    BY <1>3 DEF ErasureInv, ListStorage, FileInv, BundleInv, JobInv, GcInv
  <2> QED
    BY <2>1, <2>2, <2>3, <2>4 DEF ErasureInv
<1>4. ASSUME NEW u \in Users, EraseCommits(u) PROVE ErasureInv'
  <2>1. TypeOK'
    <3>1. Cardinality({w \in Users : account[w] = "gone"}) \in Nat
      BY FS_Subset, FS_CardinalityType
    <3>2. erasure' \in [Users -> Nat]
      BY <1>4, <3>1 DEF ErasureInv, EraseCommits, TypeOK
    <3> QED
      BY <1>4, <3>2 DEF ErasureInv, EraseCommits, TypeOK, FileStates, ExportStates
  <2>2. FileInv'
    BY <1>4 DEF ErasureInv, EraseCommits, FileInv, ListInv
  <2>3. BundleInv'
    BY <1>4 DEF ErasureInv, EraseCommits, BundleInv
  <2>4. JobInv'
    BY <1>4 DEF ErasureInv, EraseCommits, JobInv, ListInv
  <2>5. GcInv'
    BY <1>4 DEF ErasureInv, EraseCommits, GcInv
  <2>6. QueueInv'
    BY <1>4 DEF ErasureInv, EraseCommits, QueueInv, ListInv
  <2>7. ListInv'
    BY <1>4 DEF ErasureInv, EraseCommits, ListInv
  <2> QED
    BY <2>1, <2>2, <2>3, <2>4, <2>5, <2>6, <2>7 DEF ErasureInv
<1>5. CASE BatchBegins
  <2>1. TypeOK'
    BY <1>5 DEF ErasureInv, BatchBegins, TypeOK
  <2>2. QueueInv'
    BY <1>5 DEF ErasureInv, BatchBegins, QueueInv
  <2>3. ListInv'
    BY <1>5 DEF ErasureInv, BatchBegins, ListInv
  <2>4. FileInv' /\ BundleInv' /\ JobInv' /\ GcInv'
    BY <1>5 DEF ErasureInv, BatchBegins, FileInv, BundleInv, JobInv, GcInv
  <2> QED
    BY <2>1, <2>2, <2>3, <2>4 DEF ErasureInv
<1>6. CASE BatchStops
  <2>1. TypeOK'
    BY <1>6 DEF ErasureInv, BatchStops, TypeOK
  <2>2. QueueInv'
    BY <1>6 DEF ErasureInv, BatchStops, QueueInv
  <2>3. ListInv'
    BY <1>6 DEF ErasureInv, BatchStops, ListInv
  <2>4. FileInv' /\ BundleInv' /\ JobInv' /\ GcInv'
    BY <1>6 DEF ErasureInv, BatchStops, FileInv, BundleInv, JobInv, GcInv
  <2> QED
    BY <2>1, <2>2, <2>3, <2>4 DEF ErasureInv
<1> QED
  BY <1>1, <1>2, <1>3, <1>4, <1>5, <1>6 DEF EraseStep

\* The drain drops a row only after its object.
LEMMA DrainKeepsInv ==
  ASSUME ErasureInv, DrainStep PROVE ErasureInv'
<1> USE ErasureAssumption DEF accountVars, exportVars, batchVars, Paths, HasRow, ExportRow,
       HasKey, keyVars, Kept, IdleBatch
<1>1. CASE DrainBegins
  <2>1. TypeOK'
    BY <1>1 DEF ErasureInv, DrainBegins, TypeOK
  <2>2. QueueInv'
    BY <1>1 DEF ErasureInv, DrainBegins, QueueInv
  <2>3. ListInv'
    BY <1>1 DEF ErasureInv, DrainBegins, ListInv
  <2>4. FileInv' /\ BundleInv' /\ JobInv' /\ GcInv'
    BY <1>1 DEF ErasureInv, DrainBegins, FileInv, BundleInv, JobInv, GcInv
  <2> QED
    BY <2>1, <2>2, <2>3, <2>4 DEF ErasureInv
<1>2. CASE DrainEnds
  <2>1. TypeOK'
    BY <1>2 DEF ErasureInv, DrainEnds, TypeOK
  <2>2. QueueInv'
    BY <1>2 DEF ErasureInv, DrainEnds, QueueInv
  <2>3. ListInv'
    BY <1>2 DEF ErasureInv, DrainEnds, ListInv
  <2>4. FileInv' /\ BundleInv' /\ JobInv' /\ GcInv'
    BY <1>2 DEF ErasureInv, DrainEnds, FileInv, BundleInv, JobInv, GcInv
  <2> QED
    BY <2>1, <2>2, <2>3, <2>4 DEF ErasureInv
<1>3. ASSUME NEW p \in Paths, RemoveObject(p) PROVE ErasureInv'
  <2>1. TypeOK'
    BY <1>3 DEF ErasureInv, RemoveObject, TypeOK
  <2>2. FileInv'
    BY <1>3 DEF ErasureInv, RemoveObject, FileInv, QueueInv
  <2>3. BundleInv'
    BY <1>3 DEF ErasureInv, RemoveObject, BundleInv, QueueInv
  <2>4. GcInv'
    BY <1>3 DEF ErasureInv, RemoveObject, GcInv
  <2>5. QueueInv'
    BY <1>3 DEF ErasureInv, RemoveObject, QueueInv
  <2>6. JobInv' /\ ListInv'
    BY <1>3 DEF ErasureInv, RemoveObject, JobInv, ListInv
  <2> QED
    BY <2>1, <2>2, <2>3, <2>4, <2>5, <2>6 DEF ErasureInv
<1>4. ASSUME NEW p \in Paths, DropRow(p) PROVE ErasureInv'
  <2>1. TypeOK'
    BY <1>4 DEF ErasureInv, DropRow, TypeOK
  <2>2. FileInv'
    BY <1>4 DEF ErasureInv, DropRow, FileInv, QueueInv
  <2>3. BundleInv'
    BY <1>4 DEF ErasureInv, DropRow, BundleInv, QueueInv
  <2>4. QueueInv'
    BY <1>4 DEF ErasureInv, DropRow, QueueInv
  <2>5. JobInv' /\ GcInv' /\ ListInv'
    BY <1>4 DEF ErasureInv, DropRow, JobInv, GcInv, ListInv
  <2> QED
    BY <2>1, <2>2, <2>3, <2>4, <2>5 DEF ErasureInv
<1>5. ASSUME NEW p \in Paths, RemoveFails(p) PROVE ErasureInv'
  <2>1. TypeOK'
    BY <1>5 DEF ErasureInv, RemoveFails, TypeOK
  <2>2. QueueInv'
    BY <1>5 DEF ErasureInv, RemoveFails, QueueInv
  <2>3. FileInv' /\ BundleInv' /\ JobInv' /\ GcInv' /\ ListInv'
    BY <1>5 DEF ErasureInv, RemoveFails, FileInv, BundleInv, JobInv, GcInv, ListInv
  <2> QED
    BY <2>1, <2>2, <2>3 DEF ErasureInv
<1> QED
  BY <1>1, <1>2, <1>3, <1>4, <1>5 DEF DrainStep

\* Every behaviour keeps it.
LEMMA InvariantHolds == Spec => []ErasureInv
<1>1. ErasureInv /\ [Next]_vars => ErasureInv'
  <2> SUFFICES ASSUME ErasureInv, [Next]_vars PROVE ErasureInv'
    OBVIOUS
  <2>1. CASE UNCHANGED vars
    BY <2>1 DEF vars, accountVars, exportVars, batchVars, ErasureInv, TypeOK, FileInv,
                BundleInv, JobInv, GcInv, QueueInv, ListInv, HasRow, ExportRow,
                HasKey, keyVars, Kept
  <2> QED
    BY <2>1, AccountKeepsInv, UploadKeepsInv, ExportKeepsInv, GcKeepsInv, EraseKeepsInv,
       DrainKeepsInv DEF Next
<1> QED
  BY <1>1, InitInv, PTL DEF Spec

-----------------------------------------------------------------------------
(* Theorems *)

\* Every variable keeps its domain, and rows are locked only while an erasure
\* is under way.
THEOREM ErasureTypeCorrect == Spec => []TypeOK
<1>1. ErasureInv => TypeOK
  BY DEF ErasureInv
<1> QED
  BY <1>1, InvariantHolds, PTL

\* No removal, whoever makes it and wherever it is cut short, reaches the bytes of
\* a file that has a row or of a bundle that is kept.
THEOREM RetainedBytesStay == Spec => []RetainedBytesAreKept
<1>1. ErasureInv => RetainedBytesAreKept
  BY DEF ErasureInv, FileInv, BundleInv, RetainedBytesAreKept, HasRow
<1> QED
  BY <1>1, InvariantHolds, PTL

\* After an erasure the bytes of every row it listed have gone or are queued, and
\* all files of the user are among them, however often jobs are run again; only a
\* bundle that was about to be stored once more when it committed is left out.
THEOREM ErasureLosesNoPath == Spec => []ErasedAreQueued
<1>1. ErasureInv => ErasedAreQueued
  BY ErasureAssumption DEF ErasureInv, FileInv, BundleInv, ErasedAreQueued, Erased
<1> QED
  BY <1>1, InvariantHolds, PTL

-----------------------------------------------------------------------------
(* The store keeps its promise: UserErasure implements ObjectCustody *)

\* What is wanted has bytes, and what was erased is wanted no more.
LEMMA CustodyFacts ==
    ASSUME ErasureInv
    PROVE  Wanted \subseteq objects /\ Wanted \cap Erased = {}
  BY ErasureAssumption
  DEF ErasureInv, FileInv, BundleInv, Wanted, Erased, HasRow, Kept

\* Neither changes unless the rows do.
LEMMA SameRows ==
    /\ UNCHANGED <<file, export, keyVars>> => UNCHANGED <<Wanted, Erased>>
    /\ UNCHANGED <<file, export, keyVars, objects, queue>> => UNCHANGED Custody!vars
  BY DEF Wanted, Erased, Owed, HasRow, Kept, keyVars, Custody!vars

\* The row of one file changes.
LEMMA FileMoves ==
    ASSUME ErasureInv, NEW f \in Files, NEW state, FileStep(f, state)
    PROVE  /\ state = "live" /\ ~ HasRow(f) => Wanted' = Wanted \cup {f}
           /\ state \notin {"live", "deleted"} /\ ~ HasRow(f) => Wanted' = Wanted
           /\ state = "deleted" /\ HasRow(f) => Wanted' = Wanted
           /\ state # "gone" /\ file[f] # "gone" => Erased' = Erased
           /\ UNCHANGED Owed
<1>1. /\ file'[f] = state /\ (\A g \in Files \ {f} : file'[g] = file[g])
      /\ UNCHANGED <<export, key, again, queue>>
  BY DEF FileStep, exportVars, keyVars, ErasureInv, TypeOK
<1> QED
  BY <1>1 DEF Wanted, Erased, Owed, HasRow, Kept

\* An upload stores bytes, has them wanted or cleans them up.
LEMMA UploadKeepsCustody ==
    ASSUME ErasureInv, NEW f \in Files, UploadStep(f)
    PROVE  [Custody!Next]_(Custody!vars)
<1>1. f \in Paths /\ f \notin Exports
  BY ErasureAssumption DEF Paths
<1>2. file[f] \notin {"live", "deleted", "gone"} => f \notin Wanted \cup Erased
  BY <1>1 DEF Wanted, Erased, HasRow
<1>3. CASE StoreUpload(f)
  <2>1. file[f] = "absent" /\ FileStep(f, "stored") /\ objects' = objects \cup {f}
    BY <1>3 DEF StoreUpload
  <2>2. Custody!Store(f)
    BY <1>2, <2>1, FileMoves DEF HasRow, Custody!Store
  <2> QED
    BY <1>1, <2>2 DEF Custody!Next
<1>4. CASE CommitUpload(f)
  <2>1. file[f] = "stored" /\ FileStep(f, "live") /\ UNCHANGED objects
    BY <1>4 DEF CommitUpload
  <2>2. f \in objects
    BY <2>1 DEF ErasureInv, FileInv
  <2>3. Custody!Want(f)
    BY <1>2, <2>1, <2>2, FileMoves DEF HasRow, Custody!Want
  <2> QED
    BY <1>1, <2>3 DEF Custody!Next
<1>5. CASE CleanUp(f)
  <2>1. file[f] = "refused" /\ FileStep(f, "ended") /\ objects' \in {objects, objects \ {f}}
    BY <1>5 DEF CleanUp
  <2>2. Custody!Remove(f) \/ UNCHANGED Custody!vars
    BY <1>2, <2>1, FileMoves DEF HasRow, Custody!Remove, Custody!vars
  <2> QED
    BY <1>1, <2>2 DEF Custody!Next
<1>6. CASE RefuseUpload(f) \/ LoseUpload(f) \/ DeleteFile(f)
  <2>1. /\ UNCHANGED objects
        /\ \/ file[f] \in {"stored", "refused"} /\ (FileStep(f, "refused") \/ FileStep(f, "ended"))
           \/ file[f] = "live" /\ FileStep(f, "deleted")
    BY <1>6 DEF RefuseUpload, LoseUpload, DeleteFile
  <2> QED
    BY <2>1, FileMoves DEF HasRow, Custody!vars
<1> QED
  BY <1>3, <1>4, <1>5, <1>6 DEF UploadStep

\* The row of one export changes; its job erases nothing.
LEMMA ExportMoves ==
    ASSUME ErasureInv, NEW x \in Exports, ExportJobStep(x)
    PROVE  /\ Kept(x)' => Wanted' = Wanted \cup {x}
           /\ ~ Kept(x)' => Wanted' = Wanted \ {x}
           /\ UNCHANGED <<Erased, Owed>>
<1>1. UNCHANGED <<file, queue>>
  BY DEF ExportJobStep, RequestExport, StartExport, MissExport, StoreBundle, RecordBundle,
         FailExport, CrashExport, Expire, ExportStep
<1>2. \A y \in Exports \ {x} : export'[y] = export[y] /\ key'[y] = key[y] /\ again'[y] = again[y]
  BY DEF ExportJobStep, RequestExport, StartExport, MissExport, StoreBundle, RecordBundle,
         FailExport, CrashExport, Expire, ExportStep, keyVars, ErasureInv, TypeOK
<1>3. export'[x] = "gone" <=> export[x] = "gone"
  BY DEF ExportJobStep, RequestExport, StartExport, MissExport, StoreBundle, RecordBundle,
         FailExport, CrashExport, Expire, ExportStep, ExportRow, ErasureInv, TypeOK
<1>4. x \notin Files
  BY ErasureAssumption
<1>5. \A y \in Exports \ {x} : Kept(y)' <=> Kept(y)
  BY <1>2 DEF Kept
<1>6. (Kept(x)' => Wanted' = Wanted \cup {x}) /\ (~ Kept(x)' => Wanted' = Wanted \ {x})
  BY <1>1, <1>4, <1>5 DEF Wanted, HasRow
<1>7. Erased' = Erased /\ Owed' = Owed
  BY <1>1, <1>2, <1>3 DEF Erased, Owed
<1> QED
  BY <1>6, <1>7

\* The export job stores a bundle, has it kept or changes nothing; in the end the
\* bundle expires, or the job is run again.
LEMMA ExportKeepsCustody ==
    ASSUME ErasureInv, NEW x \in Exports, ExportJobStep(x)
    PROVE  [Custody!Next]_(Custody!vars)
<1>1. x \in Paths /\ x \notin Files
  BY ErasureAssumption DEF Paths
<1>2. /\ x \in Wanted <=> Kept(x)
      /\ x \in Erased <=> export[x] = "gone"
  BY <1>1 DEF Wanted, Erased
<1>3. ASSUME UNCHANGED objects, Kept(x)' => Kept(x) \/ (x \in objects /\ export[x] # "gone")
      PROVE  [Custody!Next]_(Custody!vars)
  <2>1. CASE Kept(x) <=> Kept(x)'
    <3>1. Wanted' = Wanted
      BY <1>2, <2>1, ExportMoves
    <3> QED
      BY <1>3, <3>1, ExportMoves DEF Custody!vars
  <2>2. CASE Kept(x) /\ ~ Kept(x)'
    <3>1. Custody!Release(x)
      BY <1>2, <1>3, <2>2, ExportMoves DEF Custody!Release
    <3> QED
      BY <1>1, <3>1 DEF Custody!Next
  <2>3. CASE ~ Kept(x) /\ Kept(x)'
    <3>1. Custody!Want(x)
      BY <1>2, <1>3, <2>3, ExportMoves DEF Custody!Want
    <3> QED
      BY <1>1, <3>1 DEF Custody!Next
  <2> QED
    BY <2>1, <2>2, <2>3
<1>4. CASE RequestExport(x)
  <2>1. export'[x] = "queued" /\ UNCHANGED objects
    BY <1>4 DEF RequestExport, ErasureInv, TypeOK
  <2> QED
    BY <1>3, <2>1 DEF Kept
<1>5. CASE StartExport(x)
  <2>1. export'[x] = "processing" /\ UNCHANGED objects
    BY <1>5 DEF StartExport, ExportStep, ErasureInv, TypeOK
  <2> QED
    BY <1>3, <2>1 DEF Kept
<1>6. CASE MissExport(x) \/ CrashExport(x)
  <2>1. export'[x] = export[x] /\ UNCHANGED <<objects, key, again>>
    BY <1>6 DEF MissExport, CrashExport, ExportStep, keyVars, ErasureInv, TypeOK
  <2> QED
    BY <1>3, <2>1 DEF Kept
<1>7. CASE FailExport(x)
  <2>1. export'[x] \in {"failed", export[x]} /\ UNCHANGED <<objects, key, again>>
    BY <1>7 DEF FailExport, ExportStep, keyVars, ErasureInv, TypeOK
  <2> QED
    BY <1>3, <2>1 DEF Kept
<1>8. CASE StoreBundle(x)
  <2>1. worker[x] = "building" /\ objects' = objects \cup {x}
    BY <1>8 DEF StoreBundle
  <2>2. export'[x] = export[x]
    BY <1>8 DEF StoreBundle, ExportStep, ErasureInv, TypeOK
  <2>3. export[x] \in {"processing", "overtaken", "dropped"}
    BY <2>1 DEF ErasureInv, JobInv
  <2>4. ~ Kept(x) /\ ~ Kept(x)'
    BY <2>2, <2>3 DEF Kept
  <2>5. Custody!Store(x)
    BY <1>2, <2>1, <2>3, <2>4, ExportMoves DEF Custody!Store
  <2> QED
    BY <1>1, <2>5 DEF Custody!Next
<1>9. CASE RecordBundle(x)
  <2>1. worker[x] = "stored" /\ UNCHANGED <<objects, again>>
    BY <1>9 DEF RecordBundle
  <2>2. CASE ExportRow(x)
    <3>1. Kept(x)' => ~ again[x]
      BY <2>1 DEF Kept
    <3> QED
      BY <1>3, <2>1, <2>2, <3>1 DEF ErasureInv, BundleInv, ExportRow
  <2>3. CASE ~ ExportRow(x)
    <3>1. export'[x] = export[x] /\ key'[x] = key[x]
      BY <1>9, <2>3 DEF RecordBundle, ExportStep, ErasureInv, TypeOK
    <3> QED
      BY <1>3, <2>1, <3>1 DEF Kept
  <2> QED
    BY <2>2, <2>3
<1>10. CASE Expire(x)
  <2>1. key'[x] = "stale" /\ UNCHANGED objects
    BY <1>10 DEF Expire, ErasureInv, TypeOK
  <2> QED
    BY <1>3, <2>1 DEF Kept
<1> QED
  BY <1>4, <1>5, <1>6, <1>7, <1>8, <1>9, <1>10 DEF ExportJobStep

\* Only bundles nobody wants any more are collected.
LEMMA GcKeepsCustody ==
    ASSUME ErasureInv, GcStep
    PROVE  [Custody!Next]_(Custody!vars)
<1>1. CASE GcPick \/ GcStops
  BY <1>1, SameRows DEF GcPick, GcStops, exportVars
<1>2. ASSUME NEW x \in Exports, GcRemove(x)
      PROVE  [Custody!Next]_(Custody!vars)
  <2>1. gc[x] = "picked" /\ UNCHANGED <<file, export, keyVars, queue>>
        /\ objects' \in {objects, objects \ {x}}
    BY <1>2 DEF GcRemove, exportVars
  <2>2. x \notin Wanted
    BY <2>1, ErasureAssumption DEF ErasureInv, GcInv, Wanted, Kept, ExportRow
  <2>3. UNCHANGED Owed
    BY <2>1 DEF Owed
  <2>4. Custody!Remove(x) \/ UNCHANGED Custody!vars
    BY <2>1, <2>2, <2>3, SameRows DEF Custody!Remove, Custody!vars
  <2> QED
    BY <2>4 DEF Custody!Next, Paths
<1>3. CASE GcCommit
  <2>1. UNCHANGED <<file, export, again, objects, queue>>
    BY <1>3 DEF GcCommit
  <2>2. \A x \in Exports :
           \/ key'[x] = key[x]
           \/ key'[x] = "none" /\ gc[x] = "removed" /\ ExportRow(x)
    BY <1>3 DEF GcCommit
  <2>3. \A x \in Exports : Kept(x)' <=> Kept(x)
    BY <2>1, <2>2 DEF ErasureInv, GcInv, ExportRow, Kept
  <2> QED
    BY <2>1, <2>3 DEF Custody!vars, Wanted, Erased, Owed, HasRow
<1> QED
  BY <1>1, <1>2, <1>3 DEF GcStep

\* An erasure takes away what it has listed, and bundles that came too late.
LEMMA EraseKeepsCustody ==
    ASSUME ErasureInv, (\E u \in Users : EraseStep(u)) \/ BatchBegins \/ BatchStops
    PROVE  [Custody!Next]_(Custody!vars)
<1>1. CASE BatchBegins \/ BatchStops
           \/ (\E u \in Users : EraseBegins(u) \/ EraseRefused(u) \/ ListStorage(u))
  BY <1>1, SameRows DEF BatchBegins, BatchStops, EraseBegins, EraseRefused, ListStorage, exportVars
<1>2. ASSUME NEW u \in Users, EraseCommits(u)
      PROVE  Custody!Next
  <2> DEFINE Answered == {p \in listed : p \in Exports => worker[p] # "building"}
             Missed == {x \in Exports : OwnerOf[x] = u /\ Kept(x) /\ x \notin Answered}
  <2>1. /\ phase = "listed" /\ target = u /\ queue' = queue \cup listed
        /\ UNCHANGED <<objects, worker, again>>
        /\ file' = [f \in Files |-> IF OwnerOf[f] = u /\ HasRow(f) THEN "gone" ELSE file[f]]
        /\ export' = [x \in Exports |->
                        IF OwnerOf[x] = u /\ ExportRow(x) THEN Taken(x) ELSE export[x]]
        /\ key' = [x \in Exports |-> IF OwnerOf[x] = u THEN "none" ELSE key[x]]
    BY <1>2 DEF EraseCommits
  <2>2. /\ listed \subseteq Paths
        /\ \A p \in listed : OwnerOf[p] = u
        /\ \A f \in Files : f \in listed <=> OwnerOf[f] = u /\ HasRow(f)
        /\ \A x \in Exports : x \in listed => ExportRow(x)
    BY <2>1 DEF ErasureInv, TypeOK, ListInv
  <2>3. \A f \in Files : f \notin Exports
    BY ErasureAssumption
  <2>4. Answered \cap Erased = {}
    BY <2>2, <2>3 DEF Erased, HasRow, ExportRow
  <2>5. \A x \in Exports : export'[x] = "gone" <=> export[x] = "gone" \/ x \in Answered
    BY <2>1, <2>2 DEF ExportRow, Taken
  <2>6. Erased' = Erased \cup Answered
    <3>1. \A f \in Files : file'[f] = "gone" <=> file[f] = "gone" \/ f \in Answered
      BY <2>1, <2>2, <2>3 DEF HasRow
    <3> QED
      BY <2>2, <2>5, <3>1 DEF Erased, Paths
  <2>7. Owed' = Owed \cup Answered
    <3>1. \A x \in Exports : x \in queue => ~ ExportRow(x)
      BY DEF ErasureInv, QueueInv, ExportRow
    <3>2. \A x \in Exports : x \in Answered => x \in listed /\ ExportRow(x)
      BY <2>2
    <3>3. \A x \in Exports : x \in queue => (export'[x] = "gone" <=> export[x] = "gone")
      BY <2>5, <3>1, <3>2
    <3>4. \A x \in Exports : x \in listed => (export'[x] = "gone" <=> x \in Answered)
      BY <2>2, <2>5 DEF ExportRow
    <3> QED
      BY <2>1, <3>3, <3>4 DEF Owed
  <2>8. Wanted' = Wanted \ (Answered \cup Missed)
    <3>1. \A f \in Files : file'[f] \in {"live", "deleted"} <=> HasRow(f) /\ f \notin Answered
      BY <2>1, <2>2, <2>3 DEF HasRow
    <3>2. \A x \in Exports : Kept(x)' <=> Kept(x) /\ x \notin Answered \cup Missed
      BY <2>1, <2>2 DEF ExportRow, Taken, Kept
    <3>3. \A f \in Files : f \notin Missed
      BY <2>3
    <3> QED
      BY <2>3, <3>1, <3>2, <3>3 DEF Wanted, HasRow
  <2>9. Custody!Erase(Answered, Missed)
    BY <2>1, <2>4, <2>6, <2>7, <2>8 DEF Custody!Erase
  <2>10. Answered \in SUBSET Paths /\ Missed \in SUBSET Paths
    BY <2>2 DEF Paths
  <2> QED
    BY <2>9, <2>10 DEF Custody!Next
<1> QED
  BY <1>1, <1>2 DEF EraseStep

\* The drain removes what is owed, and writes it off after that.
LEMMA DrainKeepsCustody ==
    ASSUME ErasureInv, DrainStep
    PROVE  [Custody!Next]_(Custody!vars)
<1>1. CASE DrainBegins \/ DrainEnds \/ (\E p \in Paths : RemoveFails(p))
  BY <1>1, SameRows DEF DrainBegins, DrainEnds, RemoveFails, exportVars
<1>2. ASSUME NEW p \in Paths, RemoveObject(p)
      PROVE  Custody!Next
  <2>1. p \in drain /\ objects' = objects \ {p} /\ UNCHANGED <<file, export, keyVars, queue>>
    BY <1>2 DEF RemoveObject, exportVars
  <2>2. p \notin Wanted
    BY <2>1, ErasureAssumption DEF ErasureInv, QueueInv, Wanted, HasRow, Kept
  <2>3. UNCHANGED Owed
    BY <2>1 DEF Owed
  <2>4. Custody!Remove(p)
    BY <2>1, <2>2, <2>3, SameRows DEF Custody!Remove
  <2> QED
    BY <2>4 DEF Custody!Next
<1>3. ASSUME NEW p \in Paths, DropRow(p)
      PROVE  [Custody!Next]_(Custody!vars)
  <2>1. /\ removed = p /\ p \in drain /\ queue' = queue \ {p}
        /\ UNCHANGED <<file, export, keyVars, objects>>
    BY <1>3 DEF DropRow, exportVars
  <2>2. Owed' = Owed \ {p}
    BY <2>1 DEF Owed
  <2>3. CASE p \in Owed
    <3>1. p \notin objects
      BY <2>1, <2>3, ErasureAssumption DEF ErasureInv, QueueInv, Owed, Paths
    <3>2. Custody!WriteOff(p)
      BY <2>1, <2>2, <2>3, <3>1, SameRows DEF Custody!WriteOff
    <3> QED
      BY <3>2 DEF Custody!Next
  <2>4. CASE p \notin Owed
    BY <2>1, <2>2, <2>4, SameRows DEF Custody!vars
  <2> QED
    BY <2>3, <2>4
<1> QED
  BY <1>1, <1>2, <1>3 DEF DrainStep

\* For any users, files, exports and length of a drain: bytes outlive the rows that
\* want them, what an erasure answers for is owed until its bytes are gone, and then
\* they never come back, however often jobs are run again; only a bundle that nobody
\* listed, or that its job was about to store once more, may stay behind.
THEOREM ErasureImplementsCustody == Spec => KeepsCustody
<1>1. Init => Custody!Init
  BY DEF Init, Custody!Init, Wanted, Erased, Owed, HasRow, Kept
<1>2. ErasureInv /\ [Next]_vars => [Custody!Next]_(Custody!vars)
  <2> SUFFICES ASSUME ErasureInv, [Next]_vars PROVE [Custody!Next]_(Custody!vars)
    OBVIOUS
  <2>1. CASE UNCHANGED vars \/ (\E u \in Users : AccountStep(u))
    BY <2>1, SameRows DEF vars, exportVars, AccountStep, ScheduleDeletion, GracePasses,
                          CancelDeletion, ChangeSharing, Reschedule
  <2> QED
    BY <2>1, UploadKeepsCustody, ExportKeepsCustody, GcKeepsCustody, EraseKeepsCustody,
       DrainKeepsCustody DEF Next
<1>3. Spec => [][Custody!Next]_(Custody!vars)
  BY <1>2, InvariantHolds, PTL DEF Spec
<1> QED
  BY <1>1, <1>3, PTL DEF Spec, KeepsCustody, Custody!Spec

=============================================================================
