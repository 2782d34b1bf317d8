------------------------- MODULE AutonomousSessions -------------------------
(***************************************************************************)
(* Autonomous sessions that are not governed runs: a row created by a      *)
(* schedule, a watch or a request, a queued job that runs its five phases, *)
(* the brakes of guarded_tool_call, the user's halt and the idle watchdog. *)
(*                                                                         *)
(* The executor is one database transaction.  It flushes as it goes and    *)
(* commits once, with an outcome, so everyone else reads the row as it was *)
(* before the run, and from its first UPDATE to that commit it holds the   *)
(* row's lock: another transaction that updates the row waits.  The        *)
(* watchdog is one transaction over all the rows it found, so it reads,    *)
(* waits and overwrites.  Sessions of governed runs, which every one of    *)
(* these paths excludes, are OrchestrationStore's.  A definition MutX is a *)
(* plausible mistake in the code X models; no specification uses it.       *)
(***************************************************************************)
EXTENDS Naturals

CONSTANTS
    Sessions,  \* the autonomous sessions that may be created
    Halters,   \* those whose user may press halt, once each
    Prices,    \* what a tool call may be estimated, and charged, at
    Cap,       \* max_cost_usd
    IdleHalt,  \* idle_halt_minutes, in clock ticks
    MostCalls, \* bound: tool calls a phase may make
    MaxTries,  \* times the queue runs one job
    Watchdog   \* whether the idle watchdog is deployed

ASSUME CapAssumption == Cap \in Nat /\ Prices \subseteq Nat
ASSUME BoundsAssumption == {IdleHalt, MostCalls, MaxTries} \subseteq Nat \ {0}
ASSUME SessionsAssumption == Halters \subseteq Sessions /\ Watchdog \in BOOLEAN

VARIABLES
    status, halt, atPhase, cost, idle,  \* the committed row, with its age
    birth,     \* how far the transaction or loop that creates the session is
    jobAt,     \* where its arq job is
    tries,     \* how often that was started
    pc, phase, calls, spent, price, locked, end,  \* the executor of the job
    user,      \* the halt request: none, posted (it read the row) or answered
    sweep, todo, halting, pausing  \* the watchdog's transaction

rowVars == <<status, halt, atPhase, cost, idle>>
jobVars == <<jobAt, tries>>
runVars == <<pc, phase, calls, spent, price, locked, end>>
sweepVars == <<sweep, todo, halting, pausing>>
vars == <<rowVars, birth, jobVars, runVars, user, sweepVars>>

Phases == 1..5  \* intake, analysis, drafting, ethics_review, delivery
FewestCalls == <<0, 0, 1, 1, 1>>
Outcomes == {"completed", "halted", "failed"}
Halts == {"running", "halt_requested", "halted", "paused"}
MaxIdle == 2 * IdleHalt + 1  \* ages beyond it are not told apart

TypeOK ==
    /\ status \in [Sessions -> Outcomes \cup {"absent", "running"}]
    /\ halt \in [Sessions -> Halts]
    /\ atPhase \in [Sessions -> Phases] /\ phase \in [Sessions -> Phases]
    /\ cost \in [Sessions -> Nat] /\ idle \in [Sessions -> 0..MaxIdle]
    /\ birth \in [Sessions -> {"none", "flushed", "enqueued", "fired", "over"}]
    /\ jobAt \in [Sessions -> {"none", "queued", "running"}]
    /\ tries \in [Sessions -> 0..MaxTries]
    /\ pc \in [Sessions -> {"off", "start", "ready", "calling", "braking", "failing",
                            "cancelling", "ended"}]
    /\ calls \in [Sessions -> 0..MostCalls]
    /\ spent \in [Sessions -> Nat] /\ price \in [Sessions -> Nat]
    /\ locked \in [Sessions -> BOOLEAN]
    /\ end \in [Sessions -> {"none", "external", "cost", "revoked", "refused",
                             "timeout", "shutdown"}]
    /\ user \in [Sessions -> {"none", "posted", "answered"}]
    /\ sweep \in {"off", "halting", "pausing"}
    /\ todo \subseteq Sessions /\ halting \subseteq Sessions /\ pausing \subseteq Sessions

Init ==
    /\ status = [s \in Sessions |-> "absent"] /\ halt = [s \in Sessions |-> "running"]
    /\ atPhase = [s \in Sessions |-> 1] /\ cost = [s \in Sessions |-> 0]
    /\ idle = [s \in Sessions |-> 0] /\ birth = [s \in Sessions |-> "none"]
    /\ jobAt = [s \in Sessions |-> "none"] /\ tries = [s \in Sessions |-> 0]
    /\ pc = [s \in Sessions |-> "off"] /\ phase = [s \in Sessions |-> 1]
    /\ calls = [s \in Sessions |-> 0] /\ spent = [s \in Sessions |-> 0]
    /\ price = [s \in Sessions |-> 0] /\ locked = [s \in Sessions |-> FALSE]
    /\ end = [s \in Sessions |-> "none"] /\ user = [s \in Sessions |-> "none"]
    /\ sweep = "off" /\ todo = {} /\ halting = {} /\ pausing = {}

Exists(s) == status[s] # "absent"
\* The watchdog's transaction, or the run's, holds the lock of the row of s.
SweepHolds(s) == s \in halting \cup pausing
RunHolds(s) == locked[s]

----------------------------------------------------------------------------
(* Creation.  A schedule's sweep and POST /run-now flush the row, enqueue   *)
(* its job and only then commit; a watch commits and then enqueues.        *)

Spawn(s) ==
    /\ birth[s] = "none"
    /\ birth' = [birth EXCEPT ![s] = "flushed"]
    /\ UNCHANGED <<rowVars, jobVars, runVars, user, sweepVars>>

\* Put the job of s on the queue; the helper swallows a failure to do so.
Enqueue(s) ==
    /\ jobAt' = [jobAt EXCEPT ![s] = "queued"] \/ UNCHANGED jobAt
    /\ UNCHANGED tries

SpawnEnqueues(s) ==
    /\ birth[s] = "flushed"
    /\ Enqueue(s)
    /\ birth' = [birth EXCEPT ![s] = "enqueued"]
    /\ UNCHANGED <<rowVars, runVars, user, sweepVars>>

\* The row is committed: running, in its first phase.
Insert(s) ==
    /\ status' = [status EXCEPT ![s] = "running"]
    /\ UNCHANGED <<halt, atPhase, cost, idle>>

SpawnCommits(s) ==
    /\ birth[s] = "enqueued"
    /\ Insert(s)
    /\ birth' = [birth EXCEPT ![s] = "over"]
    /\ UNCHANGED <<jobVars, runVars, user, sweepVars>>

WatchFires(s) ==
    /\ birth[s] = "none"
    /\ Insert(s)
    /\ birth' = [birth EXCEPT ![s] = "fired"]
    /\ UNCHANGED <<jobVars, runVars, user, sweepVars>>

WatchEnqueues(s) ==
    /\ birth[s] = "fired"
    /\ Enqueue(s)
    /\ birth' = [birth EXCEPT ![s] = "over"]
    /\ UNCHANGED <<rowVars, runVars, user, sweepVars>>

\* The process that creates the session dies, or its commit fails.
CreatorDies(s) ==
    /\ birth[s] \in {"flushed", "enqueued", "fired"}
    /\ birth' = [birth EXCEPT ![s] = "over"]
    /\ UNCHANGED <<rowVars, jobVars, runVars, user, sweepVars>>

----------------------------------------------------------------------------
(* The job and its executor.  locked says that the run's transaction has   *)
(* updated the row; spent is the session object's cost_total_usd.          *)

\* The run of s is at step p, with a transaction that has written nothing.
FreshRun(s, p, money) ==
    /\ pc' = [pc EXCEPT ![s] = p]
    /\ phase' = [phase EXCEPT ![s] = 1] /\ calls' = [calls EXCEPT ![s] = 0]
    /\ spent' = [spent EXCEPT ![s] = money] /\ price' = [price EXCEPT ![s] = 0]
    /\ locked' = [locked EXCEPT ![s] = FALSE] /\ end' = [end EXCEPT ![s] = "none"]

\* The queue gives a job to a worker, MaxTries times at most.
MutTakenUp(s) == jobAt[s] = "queued" /\ tries[s] <= MaxTries
TakenUp(s) == jobAt[s] = "queued" /\ tries[s] < MaxTries

\* The job does not look at the row's status; without a row it returns.
JobStarts(s) ==
    /\ TakenUp(s)
    /\ IF Exists(s)
       THEN /\ FreshRun(s, "start", cost[s])
            /\ jobAt' = [jobAt EXCEPT ![s] = "running"]
            /\ tries' = [tries EXCEPT ![s] = @ + 1]
       ELSE /\ jobAt' = [jobAt EXCEPT ![s] = "none"]
            /\ UNCHANGED <<tries, runVars>>
    /\ UNCHANGED <<rowVars, birth, user, sweepVars>>

\* intake writes the row only when its current_phase is not intake already.
EnterIntake(s) ==
    /\ pc[s] = "start"
    /\ atPhase[s] # 1 => ~ SweepHolds(s)
    /\ pc' = [pc EXCEPT ![s] = "ready"]
    /\ locked' = [locked EXCEPT ![s] = atPhase[s] # 1]
    /\ UNCHANGED <<rowVars, birth, jobVars, phase, calls, spent, price, end, user, sweepVars>>

NextPhase(s) ==
    /\ pc[s] = "ready" /\ phase[s] < 5
    /\ calls[s] >= FewestCalls[phase[s]]
    /\ ~ SweepHolds(s)
    /\ phase' = [phase EXCEPT ![s] = @ + 1]
    /\ calls' = [calls EXCEPT ![s] = 0]
    /\ locked' = [locked EXCEPT ![s] = TRUE]
    /\ UNCHANGED <<rowVars, birth, jobVars, pc, spent, price, end, user, sweepVars>>

\* R4: a call at price p would take the session over its cap.
MutOverCap(s, p) == spent[s] > Cap
OverCap(s, p) == spent[s] + p > Cap

\* R5: what the refresh of halt_state before a call returns.
HaltRequested(s) == halt[s] = "halt_requested"

\* A call passes the chokepoint and is dispatched.
BeginCall(s) ==
    /\ pc[s] = "ready" /\ calls[s] < MostCalls
    /\ ~ HaltRequested(s)
    /\ \E p \in Prices :
         /\ ~ OverCap(s, p)
         /\ price' = [price EXCEPT ![s] = p]
    /\ pc' = [pc EXCEPT ![s] = "calling"]
    /\ UNCHANGED <<rowVars, birth, jobVars, phase, calls, spent, locked, end, user, sweepVars>>

\* The chokepoint refuses: the matter is revoked, R5, R6 and R4.
RefuseCall(s) ==
    /\ pc[s] = "ready" /\ calls[s] < MostCalls
    /\ \E why \in {"revoked", "external", "refused", "cost"} :
         /\ why = "external" => HaltRequested(s)
         /\ why \in {"refused", "cost"} => ~ HaltRequested(s)
         /\ why = "cost" => \E p \in Prices : OverCap(s, p)
         /\ end' = [end EXCEPT ![s] = why]
    /\ pc' = [pc EXCEPT ![s] = "braking"]
    /\ UNCHANGED <<rowVars, birth, jobVars, phase, calls, spent, price, locked, user, sweepVars>>

\* The call returns and its charge is flushed.
CallReturns(s) ==
    /\ pc[s] = "calling"
    /\ ~ SweepHolds(s)
    /\ pc' = [pc EXCEPT ![s] = "ready"]
    /\ calls' = [calls EXCEPT ![s] = @ + 1]
    /\ spent' = [spent EXCEPT ![s] = @ + price[s]]
    /\ price' = [price EXCEPT ![s] = 0]
    /\ locked' = [locked EXCEPT ![s] = TRUE]
    /\ UNCHANGED <<rowVars, birth, jobVars, phase, end, user, sweepVars>>

\* An exception that the analysis loop takes as an observation.
CallObservedFailing(s) ==
    /\ pc[s] = "calling" /\ phase[s] = 2
    /\ pc' = [pc EXCEPT ![s] = "ready"]
    /\ calls' = [calls EXCEPT ![s] = @ + 1]
    /\ price' = [price EXCEPT ![s] = 0]
    /\ UNCHANGED <<rowVars, birth, jobVars, phase, spent, locked, end, user, sweepVars>>

\* Any other exception: the executor's handler first rolls back.
CallRaises(s) ==
    /\ pc[s] = "calling"
    /\ FreshRun(s, "failing", 0)
    /\ UNCHANGED <<rowVars, birth, jobVars, user, sweepVars>>

\* The run's transaction commits, with the columns it changed: its outcome, the
\* phase it reached, what it was charged, and its halt when it was braked.
Commit(s, outcome, braked) ==
    /\ status' = [status EXCEPT ![s] = outcome]
    /\ halt' = IF braked THEN [halt EXCEPT ![s] = "halted"] ELSE halt
    /\ atPhase' = [atPhase EXCEPT ![s] = phase[s]]
    /\ cost' = [cost EXCEPT ![s] = spent[s]]
    /\ UNCHANGED idle

RunEnds(s) ==
    /\ pc' = [pc EXCEPT ![s] = "ended"]
    /\ locked' = [locked EXCEPT ![s] = FALSE]
    /\ UNCHANGED <<phase, calls, spent, price, end>>

\* The delivery node, once it has notified.
Deliver(s) ==
    /\ pc[s] = "ready" /\ phase[s] = 5
    /\ calls[s] >= FewestCalls[5]
    /\ ~ SweepHolds(s)
    /\ Commit(s, "completed", FALSE)
    /\ RunEnds(s)
    /\ UNCHANGED <<birth, jobVars, user, sweepVars>>

\* The executor's handler of a brake.
Brake(s) ==
    /\ pc[s] = "braking"
    /\ ~ SweepHolds(s)
    /\ IF end[s] = "refused" THEN Commit(s, "failed", FALSE) ELSE Commit(s, "halted", TRUE)
    /\ RunEnds(s)
    /\ UNCHANGED <<birth, jobVars, user, sweepVars>>

\* Its handler of any other exception, after the rollback.
Fail(s) ==
    /\ pc[s] = "failing"
    /\ ~ SweepHolds(s)
    /\ status' = [status EXCEPT ![s] = "failed"]
    /\ RunEnds(s)
    /\ UNCHANGED <<halt, atPhase, cost, idle, birth, jobVars, user, sweepVars>>

\* arq cancels the job: job_timeout, or the worker shuts down.
Cancel(s) ==
    /\ pc[s] \notin {"off", "failing", "cancelling", "ended"}
    /\ pc' = [pc EXCEPT ![s] = "cancelling"]
    /\ \E why \in {"timeout", "shutdown"} : end' = [end EXCEPT ![s] = why]
    /\ UNCHANGED <<rowVars, birth, jobVars, phase, calls, spent, price, locked, user, sweepVars>>

\* The job records the failure with what the run had flushed, or cannot,
\* because the cancellation broke its connection.
CancelRecorded(s) ==
    /\ pc[s] = "cancelling"
    /\ ~ SweepHolds(s)
    /\ Commit(s, "failed", FALSE)
    /\ RunEnds(s)
    /\ UNCHANGED <<birth, jobVars, user, sweepVars>>

CancelUnrecorded(s) ==
    /\ pc[s] = "cancelling"
    /\ RunEnds(s)
    /\ UNCHANGED <<rowVars, birth, jobVars, user, sweepVars>>

\* A job cut short by a shutdown is run again, as far as the queue allows.
JobEnds(s) ==
    /\ pc[s] = "ended"
    /\ jobAt' = [jobAt EXCEPT ![s] = IF end[s] = "shutdown" THEN "queued" ELSE "none"]
    /\ FreshRun(s, "off", 0)
    /\ UNCHANGED <<rowVars, birth, tries, user, sweepVars>>

\* The worker is killed, perhaps after the commit; the queue runs the job again.
WorkerDies(s) ==
    /\ pc[s] # "off"
    /\ jobAt' = [jobAt EXCEPT ![s] = "queued"]
    /\ FreshRun(s, "off", 0)
    /\ UNCHANGED <<rowVars, birth, tries, user, sweepVars>>

----------------------------------------------------------------------------
(* POST /sessions/{id}/halt: the row is read, then updated and committed.  *)

PostHalt(s) ==
    /\ s \in Halters /\ user[s] = "none"
    /\ Exists(s) /\ halt[s] \notin {"halt_requested", "halted"}
    /\ user' = [user EXCEPT ![s] = "posted"]
    /\ UNCHANGED <<rowVars, birth, jobVars, runVars, sweepVars>>

AnswerHalt(s) ==
    /\ user[s] = "posted"
    /\ ~ RunHolds(s) /\ ~ SweepHolds(s)
    /\ user' = [user EXCEPT ![s] = "answered"]
    /\ halt' = [halt EXCEPT ![s] = "halt_requested"]
    /\ UNCHANGED <<status, atPhase, cost, idle, birth, jobVars, runVars, sweepVars>>

----------------------------------------------------------------------------
(* The idle watchdog.  Its rows are selected as committed; each update     *)
(* waits for the row's lock, and all of them commit together.              *)

\* The sessions paused for so long that they are to be halted.
MutToHalt == {s \in Sessions : /\ status[s] = "running"
                               /\ halt[s] \in {"running", "paused"}
                               /\ idle[s] > 2 * IdleHalt}
ToHalt == {s \in Sessions : /\ status[s] = "running"
                            /\ halt[s] = "paused"
                            /\ idle[s] > 2 * IdleHalt}

\* Those to be paused, as a transaction that has halted others sees them.
MutToPause == {s \in Sessions \ halting : /\ status[s] = "running"
                                          /\ halt[s] = "running"
                                          /\ atPhase[s] > 1
                                          /\ idle[s] > IdleHalt}
ToPause == {s \in Sessions \ halting : /\ status[s] = "running"
                                       /\ halt[s] = "running"
                                       /\ idle[s] > IdleHalt}

SweepBegins ==
    /\ Watchdog /\ sweep = "off"
    /\ ToHalt # {} \/ ToPause # {}
    /\ sweep' = "halting" /\ todo' = ToHalt
    /\ UNCHANGED <<rowVars, birth, jobVars, runVars, user, halting, pausing>>

SweepHalts(s) ==
    /\ sweep = "halting" /\ s \in todo
    /\ ~ RunHolds(s)
    /\ todo' = todo \ {s} /\ halting' = halting \cup {s}
    /\ UNCHANGED <<rowVars, birth, jobVars, runVars, user, sweep, pausing>>

SweepSelectsIdle ==
    /\ sweep = "halting" /\ todo = {}
    /\ sweep' = "pausing" /\ todo' = ToPause
    /\ UNCHANGED <<rowVars, birth, jobVars, runVars, user, halting, pausing>>

SweepPauses(s) ==
    /\ sweep = "pausing" /\ s \in todo
    /\ ~ RunHolds(s)
    /\ todo' = todo \ {s} /\ pausing' = pausing \cup {s}
    /\ UNCHANGED <<rowVars, birth, jobVars, runVars, user, sweep, halting>>

SweepCommits ==
    /\ sweep = "pausing" /\ todo = {}
    /\ status' = [s \in Sessions |-> IF s \in halting THEN "halted" ELSE status[s]]
    /\ halt' = [s \in Sessions |-> IF s \in halting THEN "halted"
                                   ELSE IF s \in pausing THEN "paused" ELSE halt[s]]
    /\ sweep' = "off" /\ halting' = {} /\ pausing' = {}
    /\ UNCHANGED <<atPhase, cost, idle, birth, jobVars, runVars, user, todo>>

\* Time passes for the sessions that exist.  A run's last_activity_at is
\* committed with its outcome only, so idleness counts from the creation.
Tick ==
    /\ \E s \in Sessions : Exists(s) /\ idle[s] < MaxIdle
    /\ idle' = [s \in Sessions |->
                  IF Exists(s) /\ idle[s] < MaxIdle THEN idle[s] + 1 ELSE idle[s]]
    /\ UNCHANGED <<status, halt, atPhase, cost, birth, jobVars, runVars, user, sweepVars>>

----------------------------------------------------------------------------
CreationStep(s) == SpawnEnqueues(s) \/ SpawnCommits(s) \/ WatchEnqueues(s) \/ CreatorDies(s)
RunStep(s) ==
    \/ EnterIntake(s) \/ NextPhase(s) \/ BeginCall(s) \/ RefuseCall(s) \/ CallReturns(s)
    \/ CallObservedFailing(s) \/ CallRaises(s) \/ Deliver(s) \/ Brake(s) \/ Fail(s)
    \/ CancelRecorded(s) \/ CancelUnrecorded(s) \/ JobEnds(s)
SweepStep ==
    SweepBegins \/ SweepSelectsIdle \/ SweepCommits
    \/ \E s \in Sessions : SweepHalts(s) \/ SweepPauses(s)

Next ==
    \/ \E s \in Sessions :
         \/ Spawn(s) \/ WatchFires(s) \/ CreationStep(s) \/ JobStarts(s) \/ RunStep(s)
         \/ Cancel(s) \/ WorkerDies(s) \/ PostHalt(s) \/ AnswerHalt(s)
    \/ SweepStep \/ Tick

Spec == Init /\ [][Next]_vars

\* Minutes pass and the cron fires every minute; a queued job is taken up,
\* and a run's next step happens or the job is cancelled.
FairSpec ==
    /\ Spec
    /\ WF_vars(Tick) /\ WF_vars(SweepBegins) /\ WF_vars(SweepSelectsIdle) /\ WF_vars(SweepCommits)
    /\ \A s \in Sessions :
         /\ WF_vars(SweepHalts(s)) /\ WF_vars(SweepPauses(s))
         /\ WF_vars(CreationStep(s)) /\ WF_vars(JobStarts(s)) /\ WF_vars(RunStep(s))

----------------------------------------------------------------------------
(* What holds.                                                             *)

\* The economic brake: neither a committed total nor what a run has charged
\* so far exceeds the cap, also when the queue runs the job again on a row
\* that a cancelled run has charged (guard.py R4, autonomous_worker.py).
WithinCap == \A s \in Sessions : cost[s] <= Cap /\ spent[s] <= Cap

\* The watchdog halts a session only after an earlier sweep has committed its
\* pause: no step of anyone but its own run takes a row from running to halted
\* ("guarantees a session freshly paused in step (2) is NOT also halted in step
\* (1) within the same tick", _run_idle_sweep).
PausedFirst ==
    [][\A s \in Sessions : halt[s] = "running" /\ halt'[s] = "halted"
                           => pc[s] = "braking"]_vars

\* No session that nobody halts stays running for ever, whether its job was
\* never enqueued, found no row, or was lost ("An orphaned 'running' session ...
\* is reaped by the idle watchdog", fire_watches_for_kb, _run_schedule_sweep).
\* One whose user asked for a halt may: neither tick of the watchdog selects it.
Reaped ==
    \A s \in Sessions : (status[s] = "running" /\ user[s] = "none")
                         ~> (status[s] \in Outcomes \/ user[s] # "none")

----------------------------------------------------------------------------
(* What the register of boundaries says and the code does not do.          *)

\* A halt that was answered stops the session at its next tool call: "on the
\* next per-call pre-call refresh the chokepoint raises SessionHalted".  The
\* watchdog's update may overwrite the request (_run_idle_sweep).
HaltStopsNextCall ==
    [][\A s \in Sessions : user[s] = "answered" /\ status[s] = "running"
                           => ~ (pc[s] = "ready" /\ pc'[s] = "calling")]_vars

=============================================================================
