# Verification of LQ.AI's governed runs, sessions, chat turns, erasure and migrations

This directory holds TLA+ models of the parts of LQ.AI whose correctness
depends on the order in which several actors write durable state, TLC
configurations that check them on small instances, and TLAPS proofs of what
matters most for every instance. Paths below are relative to the repository,
`store.py` is `api/app/autonomous/orchestration/store.py`, and ADR numbers are
those of `docs/adr`.

The modules are read with `PROJECT.json`: it maps every definition to the lines
it stands for, and gives for each property a mistake in the code (`MutX` beside
`X`) that the property notices.

## 1. The system and its parts

LQ.AI is a FastAPI backend (`api/`) over Postgres, Redis (arq jobs) and an
object store, an inference gateway (`gateway/`), a script runner
(`script_runner/`), chat bridges and user interfaces. What follows is every
part, its state, its operations, whom it talks to, what is hard about it and
what makes it correct.

### Modelled

**Governed run ledger** (`store.py`, `models/orchestration.py`, migration 0067).
*State*: per run a root row (status, current and admitted revision), plan
revisions, the sessions of the tree (root and children), one budget account for
each (owner, generation, lease, attempt deadline, money spent and reserved) and
one receipt per external call. *Operations*: about twenty-five transactions,
called by the owner through the API (request, revise, approve, reject, halt,
close), by worker invocations (claim, renew, begin and settle an effect, admit
children, deliver, release) and by the watchdog. *Hard*: a worker holds only a
copy of its generation and can stop or be paused anywhere; calls cost money and
are not to be repeated; settling is allowed after a halt; several children
share a capacity counted from rows that lost workers leave behind; deadlines,
leases and attempts are three clocks. *Correct when*: a call is made at most
once and by the account's current owner, money reserved is explained by an
outstanding call, money spent by receipts, capacity and approval are respected,
an overdrawn run stops, an outcome is final and leaves nothing unsettled, and
everything abandoned is drained.

**Recovery watchdog** (`orchestration/watchdog.py`, run every minute by
`workers/orchestration_worker.py`). *State*: a page cursor. *Operations*: for
each selected root two independent transactions, `recover_expired_claims` and
`expire_root`. *Hard*: either stage may fail alone; discovery is a separate
read. *Correct when*: claims are drained and due runs end whatever else happens.

**The runs of one owner** (the partial unique index
`uq_orchestration_active_owner`, migration 0067). *State*: none of its own; it
relates the status of different roots. *Hard*: every transaction that gives a
root an indexed status can be refused, including recovery of a halted run.
*Correct when*: an owner's calls are not made by two runs at once, and recovery
waits for nothing but the index.

**Deployment migrations** (`api/app/ops`). *State*: the object-store volume, a
journal, a marker and snapshot files. *Operations*: plan, apply, verify,
rollback, and a gate in front of RustFS. *Hard*: each command makes several
durable writes and may be cut short between any two; an operator may start
either release or delete files in between. *Correct when*: no document is lost,
the marker always has its snapshot, and the gate opens only over what can be
restored.

**Autonomous sessions before governed runs** (`api/app/autonomous`,
`workers/autonomous_worker.py`). *State*: a session row (status, halt state,
phase, cost, last activity) and its arq job. *Operations*: creation by a
schedule, a watch or a request; a job of five phases with guarded tool calls;
the user's halt; the idle watchdog. *Hard*: the row and the job are created in
either order; a run is one transaction that holds the row's lock to its end;
the watchdog overwrites rows it selected earlier; jobs are cancelled and run
again. *Correct when*: no session is charged past its cap, the watchdog pauses
before it halts, a halt stops the next call, and every session ends.

**Chat and its tool loop** (`api/chats.py`, `chat/tool_loop.py`,
`tools/governance.py`). *State*: calls that wait for the user, audit rows, the
assistant's message. *Operations*: sending, the rounds of the loop, stopping at
a gate, answering, resuming, expiry. *Hard*: two answers race; the answer is
committed before the call is made; audit rows are flushed and committed by
someone else. *Correct when*: a turn has one continuation, a confirmed call is
made at most once, its row tells what happened, every call has a row, and every
request ends.

**User deletion and export** (`workers/user_deletion.py`,
`workers/user_export.py`, `api/users.py`, uploads in `api/files.py`). *State*:
the deletion schedule of an account, file and export rows, the object store and
a queue of objects to remove. *Operations*: schedule, cancel, the nightly
batch with a transaction per user, the drain of the queue, the export job, the
collection of expired bundles, upload and soft delete. *Hard*: rows and objects
are two stores and a process may die between them; uploads and exports run
beside the erasure; one user who cannot be erased meets the rest of the batch.
arq runs an export job again if its worker dies, even after the last commit.
*Correct when*: bytes that a row names are kept, bytes of erased rows are gone
or queued, and what is due is erased in the end; section 6 says for which
bundles this does not hold.

### Not modelled

| Part | State and operations | Why not |
| --- | --- | --- |
| Phases, checkpoints and workspace of governed runs | LangGraph checkpoints written under the claim's fence; text read back | the store is modelled for any order of calls a worker may make, which includes the graphs' order; what a resumed phase reads is text |
| Run intake, profiles, planning | validation of a plan against operator policy | data; its outcome, a plan that fits and authority that may lapse, is an input of the store |
| Evidence, views, prompts of runs | reads and text | no state of their own |
| Ingest and knowledge bases | file status, queue jobs, start-up sweep | document, chunks and the ready mark are one transaction; the rest hangs on parsers and the embedding service. Two facts met while reading: an ordinary exception leaves a file in `processing` until a worker starts again (arq retries only cancelled jobs, though the comment at `pipeline/ingest.py:193` counts on a retry), and the duplicate a start-up sweep enqueues may turn a ready file into a failed one |
| Gateway configuration | a snapshot behind a lock, admin writes to YAML, SIGHUP | one lock and one file; the two hazards are in `PROJECT.json` |
| Gateway routing, anonymization | fallback targets; substitution on a stream | stateless, or text |
| Script runner | two slots, containers, a reaper by age | the state that matters is the container engine's |
| Accounts, sessions, authorization | tokens, membership | row checks in one transaction; what others need of them (authority, sharing) is an input of the models |
| Tabular reviews, playbooks, treatments, citation, research, skills, tools, MCP, bridges | rows and text | little ordering of their own |
| Web, desktop, Word add-in, site, content, deployment | — | user interfaces and packaging; `web/backend/open_webui`, most of the repository's Python, is a fork of another project |

The models stand for a few thousand lines. Most of the repository is
the fork just named, request handlers over single rows, prompts and text, which
have no behaviour a state machine would tell apart: the share of all lines that
the models stand for is small and stays so.

`PROJECT.json` lists each part with its files and the hazards found in it, those
without a property included.

### How the parts interact

The API and the workers call `OrchestrationStore`; it is the only writer of the
orchestration tables. arq starts worker invocations and the watchdog. A worker
calls the gateway between two store transactions (`begin_effect`, then the call,
then `_settle_effect` or `mark_effect_uncertain`). Deployment migrations run
while the stack is down and meet the rest only through the volume, the gate and
the tables verify reads. Sessions before governed runs use the same table as
governed ones and are told apart by a column each query looks at, so the two
modules share no row. A chat turn meets the other parts only through the tools
it calls. Erasure takes a user's rows away in one transaction, sessions and runs
among them; `UserErasure` follows the rows that name objects.

## 2. Modules

| Module | What it is |
| --- | --- |
| `OrchestrationStore` | one governed run: every transaction, several worker invocations, owner, sweep and clock |
| `CallLedger` | abstract: what a run promises about its calls and money |
| `OrchestrationRefinement` | the mappings to `CallLedger` and `OwnerRuns`; `ImplementsLedger`, `ImplementsOneRun` |
| `MCOrchestrationStore` | constants and symmetry for TLC |
| `OrchestrationProofs` | types, reservations, receipts of `OrchestrationStore` |
| `OrchestrationControlProofs` | ownership, leases, approval, endings, capacity, overruns and charges |
| `OrchestrationRefinementProofs` | both refinements, step by step |
| `OwnerRuns`, `MCOwnerRuns`, `OwnerRunsProofs` | several runs of one owner under the unique index |
| `StoreMigration`, `MCStoreMigration`, `StoreMigrationProofs` | migration 0001, its journal, marker, snapshots and gate |
| `AutonomousSessions`, `MCAutonomousSessions`, `AutonomousSessionsProofs` | a session, its job, its halt and the idle watchdog |
| `ChatToolTurn`, `MCChatToolTurn`, `ChatToolTurnProofs` | one chat turn with tools |
| `TurnHandover`, `ChatTurnRefinement` | abstract: who has a turn and who may have it next; the mapping, and `HandsTurnOver` |
| `UserErasure`, `MCUserErasure`, `UserErasureProofs` | erasure of accounts, exports and uploads over one object store |
| `ObjectCustody`, `ErasureRefinement` | abstract: what the object store owes to rows; the mapping, and `KeepsCustody` |

### OrchestrationStore

Every method of the store runs in one transaction that first locks the owner,
the project and the root row (`FOR UPDATE`), so a method is one action. Columns
are variables, named in the declarations. A worker process keeps only its
`WorkerClaim`: `claimed` and `claimGen`.

| Code | Action |
| --- | --- |
| `start_planning`, `save_plan` (new, revised) | `StartPlanning`, `SavePlan`, `RevisePlan` |
| `finish_planning` (plan, failure, direct answer) | `PromotePlan`, `FailPlanning`, `DeliverDirect` |
| `approve`, `reject` | `Approve`, `Reject` |
| `claim` (free session, one with an unresolved call) | `Claim`, `ClaimUnresolved` |
| `renew_claim`, `release_claim` | `Renew`, `Release` |
| a worker process that dies, is cancelled, or is refused its release | `StopWorker` |
| `begin_effect`, `_settle_effect`, `record_refusal`, `mark_effect_uncertain` | `BeginEffect`, `SettleEffect`, `RecordRefusal`, `MarkUncertain` |
| `admit_children`, `phase`, `stage_topic`, `deliver_topic` | `AdmitChildren`, `SetPhase`, `StageTopic`, `DeliverTopic` |
| `wait_for_children`, `fail_synthesis`, `stage_synthesis`, `deliver_root` | `WaitForChildren`, `FailSynthesis`, `StageSynthesis`, `DeliverRoot` |
| `halt`, `close_uncertain` | `Halt`, `CloseUncertain` |
| `recover_expired_claims`, `expire_root`, and either failing | `SweepClaims`, `SweepClaimsFails`, `SweepDeadline`, `SweepDeadlineSkipped` |
| owner opt-in, project, data terms, operator policy | `Revoke`, `Restore` |

Workers are a most general client: an invocation may call any method its claim
lets through, in any order, and stop at any point. The executor calls them in
one particular order, so everything it can do is included. Abstractions:

- `halt_state` and `completed_at` are merged into `session`; audit rows, stop
  reasons, prompts, results and notes are left out. A result is absent, usable
  or failed, which is all the store's guards look at.
- The deadline is the same in each revision. Phases are numbers in order; the
  runs give analysis and drafting the same number, so that one step of
  `SetPhase` leads to delivery.
- Each `worker_id` is a fresh UUID. A worker name may come back here, and the
  generation tells its claims apart, which is weaker than the code assumes.
- The database allows one unresolved effect per session, so a session has at
  most one outstanding call.
- The root's calls for workspace reads cost nothing and are not given keys of
  their own; a child's keys stand for any call of a child.
- `recover_expired_effects` is called by nothing in the application;
  `renew_claim` only by tests, but it is kept as an action.
- Discovery of the sweep and its first stage are one step: a first stage that
  comes late finds nothing to drain, or drains what a later pass would.

`MaxGeneration` (claims per session), `MaxRevision`, `AuthorityMayLapse` and
`TopicOutcomes` are bounds of a run. Time runs to the deadline: the store
treats any later time like the deadline itself.

### CallLedger and the refinements

`CallLedger` has no workers, leases, phases or statuses: a call is made once,
one at a time in a session and only while the run is open; money is held before
and paid or closed after; a lost outcome stops the run, and only the owner's
close ends it then. The mapping takes `queued`, `running`, `waiting_children`,
`planning` and `awaiting_approval` to open, `halted` and `uncertain` to stopped,
reservations to money held and `spent_usd` to money paid.

`OrchestrationRefinement` also maps the store to `OwnerRuns` with one run in it,
so that what is shown there of the runs of an owner is said of runs that behave
as the store lets them. A lease that is over is a lapsed claim, whether or not
its worker knows; a tick of the clock is the lapse of the leases it ends; a
receipt in flight is an admitted call and one that has to be closed an
uncertain one. Takeovers, sweeps, expiry and endings map to the actions of the
same meaning; the many steps inside an open run are stutters.

### OwnerRuns

One owner's runs, each seen from outside: open (all its open statuses as one),
uncertain, halted or ended; each account free, live or lapsed; its one call
idle, admitted or uncertain. An action that would give a second run an indexed
status is refused whole, as the transaction is rolled back. There is no clock: a
lease lapses at any time, several of a run's in one step if they ended together,
and expiry waits until no owner is live, since no lease outlives the deadline. Amounts are left to `OrchestrationStore`.

### StoreMigration

A command of the tool is one process whose durable writes are separate steps
(`tool` is the step about to be taken); `Crash` ends it between any two and
`Fail` also journals. `PlanOnly`, `ApplyBegins` … `JournalApplied`,
`VerifyBegins` … `JournalVerified`, `RollbackBegins` … `JournalRollback` are the
four commands; `StartRustfs` (behind the gate), `StartMinio`, `StopStore`,
`Upload`, `RestoreDatabase` and `Prune` are the stack and its operator. The
volume is its two format files and a set of documents. A snapshot is written
under a temporary name and renamed, so it appears complete; clearing and
extraction are piecewise. Not modelled: starting the stack while a command
runs, deleting the marker or restoring the volume by hand, the chown of the
gate (done on every pass), digests (a file is present and intact, or gone).

### AutonomousSessions

The executor's transaction commits once, so `status`, `halt`, `atPhase`, `cost`
and `idle` are the committed row and `pc`, `phase`, `spent` and the like are the
run's own view. From its first UPDATE (`locked`) until it ends, whoever else
updates the row waits; reads do not.

| Code | Action |
| --- | --- |
| schedule or request: flush, enqueue, commit | `Insert`, `SpawnEnqueues`, `SpawnCommits` |
| watch: commit, then enqueue | `WatchFires`, `WatchEnqueues` |
| `autonomous_session_job`, the nodes | `JobStarts`, `EnterIntake`, `NextPhase` |
| `guarded_tool_call` (R4, R5 and the other brakes) | `BeginCall`, `RefuseCall`, `CallReturns`, `CallObservedFailing`, `CallRaises` |
| outcome of a run | `Deliver`, `Brake`, `Fail` |
| arq cancels, kills or reruns a job | `Cancel`, `CancelRecorded`, `CancelUnrecorded`, `JobEnds`, `WorkerDies`, `CreatorDies` |
| `halt_session` reads the row, then writes it | `PostHalt`, `AnswerHalt` |
| `_run_idle_sweep`, one transaction | `SweepBegins`, `SweepHalts`, `SweepSelectsIdle`, `SweepPauses`, `SweepCommits` |

A job that starts after its session was reaped runs as the code lets it. Prices
stand for estimates and charges; `MostCalls` bounds the calls of a phase and
ages beyond twice the idle limit are one.

### ChatToolTurn

Requests are processes: `Send` starts the turn and each of `Posts` answers a
call. `at` is how far a request is; `flushed` says that it holds audit rows it
has not committed, and `unlogged` that such rows were rolled back.

| Code | Action |
| --- | --- |
| `send_message`; `run_chat_tool_loop` | `SendMessage`; `AskGateway`, `ReadOnlyCall`, `EndRound` |
| `LoopConfirmation`, its row; `LoopMcpAuth`, errors | `MeetGate`, `StoreGate`; `StopWithoutMessage`, `LoopFails` |
| `resume_tool_call`: the conditional UPDATE, its loser | `Claim`, `Conflict`, `Undecryptable` |
| the approved call, the denial, the commit after either | `RunApproved`, `Deny`, `CommitAnswer` |
| `_persist_assistant_message`, or nothing to store | `StoreMessage`, `StoreNothing` |
| a process dies or a client hangs up; time; archival | `Crash`; `Expire`; `ArchiveChat` |

`calls_used` counts calls of completed rounds: neither an approved call nor
calls made in a round before it stopped at a gate are added (`tool_loop.py:935`),
so a turn may exceed the cap that `config.py:505` calls a bound per turn. The
model counts as the code does; `RequestsEnd` rests on the guard against rounds
of unknown tools, not on that bound.

`TurnHandover` has no rounds, counts, audit rows or transactions: the turn is in
the hands of one request or one waiting call, passes between them, and never
returns to one that had it. Whoever takes it from a waiting call may have
consent, which the call uses up; only the holder ends the turn and stores the
message. The mapping takes the requests that go on and the waiting calls to the
holder, requests that are over and answered calls to those that had it, and a
claimed and approved call to consent. A crash and a resumption that
cannot decrypt its call are an `End`, a late answer is turned away, expiry and
archival are stutters.

### UserErasure

Rows and objects are separate variables. `Locked(u)` is the `FOR UPDATE` lock
on a user's row, files and matters: an upload's foreign key, a soft delete, a
cancellation and a change of sharing wait for it; export rows are not locked.

| Code | Action |
| --- | --- |
| `delete_me`, the clock, `cancel_delete_me` | `ScheduleDeletion`, `GracePasses`, `CancelDeletion` |
| anything the preflight refuses for | `ChangeSharing` |
| `upload_file`: bytes, row, clean-up; `delete_file` | `StoreUpload`, `CommitUpload`, `RefuseUpload`, `CleanUp`, `LoseUpload`; `DeleteFile` |
| `export_me`, `export_user_data_job` | `RequestExport`, `StartExport`, `MissExport`, `StoreBundle`, `RecordBundle`, `FailExport`, `CrashExport`, `Expire` |
| `export_gc_job` | `GcPick`, `GcRemove`, `GcCommit`, `GcStops` |
| `hard_delete_due_users_job`, `_hard_delete_user` | `BatchBegins`, `EraseBegins`, `EraseRefused`, `ListStorage`, `EraseCommits`, `BatchStops` |
| `drain_storage_deletions` | `DrainBegins`, `RemoveObject`, `DropRow`, `RemoveFails`, `DrainEnds` |

`export` is the status of the row, `key` its `storage_key` with its expiry
(`stale` once it has passed). Three more values say what became of a row an
erasure took: `gone`, the key was listed; `overtaken`, it was listed while the
job was building the bundle once more; `dropped`, only the cascade took the row.
`tries` is how often arq may still start the job. `RecordBundle`, `FailExport`
and `CrashExport` may each leave the job in arq's queue: the worker may die after
the commit and before arq records the end of the job, and the next run does not
look at the status. `again` remembers that the job found a key when it started;
a session writes only columns whose value has changed, so a key that run has
read and the collection has cleared in the meantime stays cleared
(`KeyRecorded`). A bundle is `Kept` if it is completed, has not expired and its
job was not run again on it. Left out are the bytes of an upload cut short
half-way, which S3 does not keep. `erasure` numbers the erasures, which is what
`created_at` orders the queue by.

`ObjectCustody` has no jobs, locks or schedules: bytes are kept while a row wants
them, an erasure turns what it takes away into a debt, a debt is written off
only once its bytes have gone, and bytes under an erased path never come back.
Wanted are the paths of file rows and kept bundles, erased those an erasure
listed, owed those of the queue, in both cases without the overtaken ones. Only
exports may come to be wanted without the lock an erasure holds (`Late`): a
bundle whose key is committed after the list was made, or which its job was
about to store once more, is missed, and those are the only ones the abstraction
lets go.

## 3. Runs

The runs disable the deadlock check, since a run, an owner's runs, a migration, a
session and a turn really come to a rest; only `user_erasure` keeps it, since the
nightly job always starts again.

| Run | Instance | Shows |
| --- | --- | --- |
| `store_tree` | root and two children, capacity one, one worker at a time, two revisions, the second cheaper; 1.9 million states | `CapacityRespected`, `EndedIsSettled`, `NothingRunsUnapproved` |
| `store_contend` | root and one child, two workers at a time, deadline after two ticks, charges at and over the estimate; 0.8 million states | `ReservationsMatch`, `InFlightIsOwned`, `ClaimsAreExclusive`, `OverrunStops`, `ChargesAccounted`, `OutcomeFinal`, `EffectsOnce`, `StoppedAdmitsNothing` |
| `store_liveness` | one worker, one child whose topics fail, leases of one or two ticks, attempts of two, authority that lapses, fairness; 60 thousand states | `TypeOK`, `LeaseWithinAttempt`, `RunEnds`, `OwnershipDrains`, `CallsAccounted`, `ImplementsLedger`, `ImplementsOneRun` |
| `owner_runs` | two runs with two accounts each, fairness | `DoubtIsVisible`, `NoParallelCalls`, `DrainedOrHeld` |
| `migration_steps` | three documents, two of them original, two snapshots, files deleted at any time | `NoDocumentLost`, `MarkerHasSnapshot`, `ImportCanBeUndone` |
| `sessions_life` | one session, calls of two prices, a cap of three, up to two runs of its job, one halt request, the watchdog; 0.3 million states | `TypeOK`, `WithinCap`, `PausedFirst`, `Reaped` |
| `chat_turn` | the sending request, two answers, two gates, rounds of two calls, a cap of two, crashes; 0.4 million states | `TypeOK`, `OneContinuation`, `ConfirmedOnce`, `VerdictsAreTrue`, `RequestsEnd`, `HandsTurnOver` |
| `user_erasure` | two users, a file of one, an export of the other, the job of the export run up to twice, a drain of one object; 136 thousand states | `TypeOK`, `RetainedBytesAreKept`, `ErasedAreQueued`, `DueAreErased`, `QueuedAreErased`, `KeepsCustody` |
| `store_overrun_doubt`, `migration_torn`, `sessions_lost_halt`, `chat_unlogged` | | the disagreements of section 6 |

Why these sizes are enough to meet the interesting cases:

- Two claims of each session are needed for a takeover and three of the root
  where it plans, hands over and combines; two workers for a paused worker and
  its successor. Two children and capacity one make a second child wait for a
  lost first one.
- A lease or attempt of one tick and a deadline of two let a lease lapse with
  the run still live and let both end together. `store_liveness` has attempts
  of two ticks and leases of one or two, so a renewal has room.
- Charges of one more than the estimate overrun. In `store_contend` the prior
  cost exceeds the allowance, so `SavePlan` is not taken there; the other two
  take it, and `store_tree` revises the plan.
- Two runs of an owner are what the index tells apart. A third adds no status
  combination that matters; with three the same properties hold.
- One document more than the original set is an upload that a snapshot lacks;
  two snapshots are one before and one after a rollback.
- A session shares nothing with another but the watchdog's transaction. Two
  runs of a job are one cut short and one after it; prices of one and two under
  a cap of three let a call fit the first run and not the second.
- Two answers and two gates are a race for a gate and a resumed turn that meets
  another one. A cap and rounds of two let the cap bite within a round and
  between rounds.
- Two users are one that blocks, cancels or is erased while the batch works on
  the other. A drain of one object with two in the queue leaves one for the
  next night, the younger one. One of the two may have shared matters
  (`Sharers`). `MaxTries` is two, a first run and one after the last commit; arq
  allows more, but a third differs from the second in nothing the job reads.

## 4. Fairness

`OrchestrationStore!FairSpec` assumes that the clock moves and that the sweep
runs: arq's cron starts the watchdog every minute, each stage is attempted
again on each pass, and a stage that fails now and then does not fail every
time (strong fairness of the stage that succeeds). Nothing is assumed of
workers or of the owner. It concerns one run by itself; `OwnerRuns` shows the
one thing that can hold up the recovery of a run: another run of the same owner
in an indexed status. There `FairSpec` assumes the sweep and that leases end.

`AutonomousSessions!FairSpec` assumes weak fairness of the clock, of each step
of the watchdog, of a creation under way and of a job that runs or waits: arq
runs what it has, every call has a time-out, and the cron starts the watchdog.
Nothing is assumed of users, and nothing makes a lost job come back. `Reaped` is
about sessions nobody halts: neither tick of the watchdog selects one whose halt
was requested.

`ChatToolTurn!FairSpec` assumes that a request in progress goes on, since its
calls return or time out. Nobody has to answer a waiting call.

`UserErasure!FairSpec` assumes that the cron starts the nightly job (weak
fairness) and, since the job may stop at any step on any night, that a step
which is reached again and again succeeds at last (strong fairness of an
erasure's three steps, the start of the drain, a removal and its row; of some
user or object, not of each). Both liveness properties say that there is always
a later moment when nobody is due, or nothing is owed and no bytes of the erased
are left, and carry a condition of their own, `SharingSettles`: no user with
shared matters keeps coming up. Without it they fail, for the reason given in
section 6.

## 5. What is proved

| Theorem | Says |
| --- | --- |
| `TypeCorrect` | every column stays in its domain, so no amount becomes negative and no lease passes the deadline |
| `ReservationsExplained` | what is reserved on an account is the estimate of its one outstanding call |
| `EffectsHappenOnce` | no call is admitted twice; an uncertain one is only ever closed |
| `InFlightCallsAreOwned`, `ClaimsExclude` | a call in flight belongs to its session's present claim; no two workers hold the same one |
| `LeasesAreBounded` | a lease ends with its attempt, an attempt with the run's deadline |
| `ApprovalComesFirst` | whatever exists beyond the planning call was approved in its current revision |
| `EndingsAreSettled`, `OutcomesStand`, `StoppedRunsAdmitNothing` | an ended run has nothing outstanding, keeps its outcome and admits nothing |
| `ParallelismIsRespected` | no more children hold capacity than the plan allows |
| `OverrunsStopRuns` | while an account is overdrawn its run is stopped |
| `ChargesAddUp` | what an account has spent is one unit of money per unit charged by its receipts, plus what was paid before, whatever was settled late |
| `StoreImplementsLedger` | the store implements `CallLedger` |
| `StoreImplementsOneRun` | the store implements `OwnerRuns` with one run |
| `DoubtStaysVisible` | an outstanding call keeps its run from having ended, and a call given up keeps it from being open |
| `CallsAreSerial` | calls of two runs of one owner overlap only after a halt |
| `MigrationTypeCorrect` | types of the migration's state |
| `MarkersAreBacked` | the marker of an applied migration names the journalled snapshot, and it exists |
| `DocumentsAreKept` | while snapshot files are kept, no document from before the snapshot is lost |
| `ImportsCanBeUndone` | unless unattended, RustFS takes over only what can be restored |
| `SessionsTypeCorrect`, `EconomicBrake`, `PausedBeforeHalted` | types; no session is charged past its cap; a halt of the watchdog follows its committed pause |
| `TurnTypeCorrect`, `TurnsHaveOneContinuation`, `ConfirmedCallsRunOnce`, `GateRowsAreTrue` | types; one continuation of a turn; a confirmed call is made once at most; its row is true |
| `TurnImplementsHandover` | a turn implements `TurnHandover` |
| `ErasureTypeCorrect`, `RetainedBytesStay`, `ErasureLosesNoPath` | types; bytes of files with a row and of kept bundles stay; bytes of listed rows of the erased, without the overtaken ones, have gone or are queued |
| `ErasureImplementsCustody` | uploads, exports and erasures implement `ObjectCustody` |

They hold for any finite sets of children, of names of a child's calls and of
users, any workers, sessions, requests, amounts, deadlines, documents and tries
of a job. Assumptions are those the modules name (`TreeAssumption`, `KeyAssumption`, `TaskAssumption`, `TimeAssumption`,
`MoneyAssumption`, `MigrationAssumption`, `CapAssumption`, `BoundsAssumption`,
`SessionsAssumption`, `TurnAssumption`, `ErasureAssumption`); TLC evaluates them
in the runs. `OverrunsStopRuns` has one premise more: the planning allowance is
within the first revision's, which intake enforces (`intake.py:276-282`).

*Run ledger.* Neither `TypeOK` nor `ReservationsMatch` is inductive alone:
settling subtracts an estimate from the reservation, and the result is a natural
number only because the two agree; admitting keeps them in agreement only
because the types hold. `LedgerInv == TypeOK /\ ReservationsMatch` is. Each group
of actions has a lemma for each half; steps that leave the money and receipts
alone share `ReceiptsKept`. `EffectsHappenOnce` follows from the type invariant
and one lemma per group.

*Ownership and control.* `OwnerInv` adds to it that a call in flight has the
claim's generation, that leases nest, that claims exclude each other and that an
owned account was claimed (`OwnedWasClaimed`): most steps only fence accounts or
drop claims, and two lemmas about that serve all of them. `ControlInv` adds what
ties a run's status to its tree: nothing is claimed before a plan (`NotBegun`)
and nothing but the root before admission (`RootFirst`), a proposal waits for
the owner (`PlanProposed`), sessions make only calls of their kind (`KeysFit`),
the planning call is over once there is a plan (`PlanningOver`) and a delivered
topic has no call left (`DeliveredSettled`). An outcome is written only when
each session of the tree is settled, and that needs all of them.

*Charges.* `ChargesInv` adds to `ControlInv` the property itself and
`ChargedWhenOver`: a receipt carries a charge only once its call has completed
or was closed. Summing over receipts would need induction over a fold. The
property counts the set of units charged instead (`ChargedUnits`), one element
per unit of money and receipt, so a settlement adds a set disjoint from the
rest and cardinality does the sum. That is what `TaskAssumption`, that a child's
calls have finitely many names, is for.

*Refinement.* `RefinementInv` is `ControlInv` with `NothingSpentYet`. Each group
of actions has a lemma that names the step of `CallLedger` it maps to, or shows
that the mapped variables do not change. `ViewInv` is `ControlInv` with
`OwnedExists` (an owned account belongs to a session of the tree), and serves
the mapping to `OwnerRuns` in the same way. The lemma about the clock shows that
the claims a tick ends are exactly those that lapse; expiry needs that leases
nest in the deadline, and a claim of a session with an unresolved call that the
account has no live owner.

*Owner.* `OwnerInv` of `OwnerRunsProofs` adds `OneIndexed` (at most one indexed
run), which is what refusing `MayHold` buys, to the type and `DoubtIsVisible`.

*Migration.* `NoDocumentLost` needs to know where a command stands.
`MigrationInv` adds: the store is stopped while a command that writes the volume
runs (`StoppedInv`); before anything is journalled the volume still has every
expected document (`UnjournalledInv`); afterwards the volume, or the journalled
snapshot, has those from before it, and while clearing the snapshot is really
there (`JournalledInv`); and the marker names that snapshot (`MarkerInv`).

*Sessions.* `WithinCap` needs that a call in progress fits under the cap with
what was charged (`CallFits`), which is what R4 looks at before it. `PausedFirst`
needs that the rows the sweep halts were selected when paused
(`SelectedPaused`).

*Chat.* `TurnInv` is about the hand-over of the turn: one request goes on or one
call waits (`Alone`), a waiting call was not made (`WaitingInv`), and a request
between its claim and its commit knows what became of the call (`ClaimInv`).
The same invariant carries the mapping to `TurnHandover`: `Alone` makes the set
of those who go on a singleton or empty, `ClaimInv` makes the consent of a
request that of the call it took the turn from.

*Erasure.* `ErasureInv` follows an object from upload to removal: present while
its row is (`FileInv`, `BundleInv`), queued when the row has gone, without a row
when queued (`QueueInv`); the list of a user under erasure has every file
(`ListInv`). A job that builds a bundle works on a row that says so, or on one
the erasure did not answer for, and has seen the key its row has (`JobInv`);
unless its job was run again, a bundle the collection meets has expired and
nobody stores it (`GcInv`). So a run that begins after the erasure stores
nothing, and one that stores afterwards was overtaken. For the mapping to
`ObjectCustody` it yields that a listed path was not erased before and that
nothing stores bytes under a path that a row wants or an erasure answers for
(`CustodyFacts`).

*Only model-checked*: `DrainedOrHeld`, `RunEnds`, `OwnershipDrains`,
`CallsAccounted`, `Reaped`, `RequestsEnd`, `DueAreErased` and `QueuedAreErased`.
They say that something happens in the end, under the fairness of section 4, and
liveness of fair specifications and ENABLED are beyond the prover. Every
invariant, action property and refinement that a run checks is proved. The four
disagreements are counterexamples and have nothing to prove.

## 6. Disagreements between code and documents

1. **An overrun overwrites uncertainty** (`store_overrun_doubt`). One child's
   call is lost, so the run is uncertain and the owner could close it. Another
   child's call then settles above its allocation and `_settle_effect` writes
   `halted`. The lost call stays uncertain: `close_uncertain` refuses a halted
   run, the sweep looks at it only while an account is owned, its reservation is
   never charged and its child counts as occupied for good.
2. **A rollback killed while clearing is reported as nothing pending**
   (`migration_torn`). RustFS's format file, the verified marker and the
   verified entry are all still there while documents are gone. The snapshot
   has them (`NoDocumentLost`), and a second rollback restores them; only the
   report is wrong.
3. **The watchdog overwrites an answered halt** (`sessions_lost_halt`). It
   selects a row as running, the user's halt is committed, and the update by
   primary key writes `paused` over it; the next tool call is made.
4. **A call without an audit row** (`chat_unlogged`). The loop flushes the row
   and the request ends without a commit: at a server that needs authorization,
   at a gate that cannot be stored, or at a gateway error.

Met while modelling, modelled as the code does it, and not runs of their own:

- *Recovery of a halted run can be refused.* `recover_expired_claims` makes a
  halted run with a lost call uncertain, which the unique index allows one run
  of an owner; if another is active the transaction rolls back and fences
  nothing (`DrainedOrHeld` says that nothing else holds it up).
- *An interrupted apply resumes with its old snapshot.* If the previous release
  served the volume in between, the snapshot lacks what was uploaded then;
  `NoDocumentLost` promises what was there before the snapshot.
- *One user stops the batch* (`user_deletion.py:308-311`). The docstring says
  "One stuck user must not block the rest of the batch". After a refusal the
  rollback expires every loaded row and the handler reads `user.email`, which an
  async session cannot load there: the exception leaves the handler, the users
  not yet reached are not erased that night, and the queue is not drained.
- *A cancelled deletion may be carried out.* The batch selects its users once
  and the transaction of a user does not look at the schedule again; a
  cancellation accepted while the batch works on another user is followed by the
  erasure.
- *An export may outlive its account.* The bundle is stored before its key is
  committed and export rows are not locked; of an account erased in between the
  bundle stays in the store with no row or queue entry. So does the bundle of a
  job that was cut short after storing it and then failed.
- *An export job may be run again after its last commit* (`user_export.py:591-620`).
  The model's docstring says "Status progresses monotonically; ``failed`` is
  terminal" (`models/user_export.py:28-29`), but the job looks at no status: a
  worker killed between the commit at line 620 and arq's record of it leaves a
  completed, or failed, export whose job runs again, sets `processing` and
  uploads under the same key. Three things follow, all of them in the model. If
  the account is erased while that run builds the bundle, and the drain has
  removed the listed object before the upload, the bytes of an erased user are
  back and no row or queue entry names them (`overtaken`). If the old bundle had
  expired and the collection had selected it, the new one may be removed under a
  key that says it can be downloaded. And if the collection clears the key
  after the run has read it, the new bundle stays without a key that anything
  would collect it by. `ErasedAreQueued` and `KeepsCustody` leave out the first,
  `RetainedBytesAreKept` the second, `ErasedAreQueued` the third; stated for all
  bundles they fail.
