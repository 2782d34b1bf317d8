---------------------- MODULE AutonomousSessionsProofs ----------------------
(***************************************************************************)
(* Type correctness of AutonomousSessions and its economic brake, for      *)
(* every set of sessions, prices, cap and number of tries: what a session  *)
(* has been charged, committed or not, never exceeds its cap.  The         *)
(* strengthening says what a call that has passed R4 may still add.  And   *)
(* the watchdog halts no session that an earlier sweep has not paused.     *)
(***************************************************************************)
EXTENDS AutonomousSessions, TLAPS

\* The call a run is in fits under the cap together with what it has charged,
\* and under the bound on the calls of a phase.
CallFits == \A s \in Sessions : pc[s] = "calling" =>
              spent[s] + price[s] <= Cap /\ calls[s] < MostCalls

CapInv == TypeOK /\ WithinCap /\ CallFits

LEMMA InitCap == Init => CapInv
<1>1. 0 \in 0..MaxIdle /\ 0 \in 0..MaxTries /\ 0 \in 0..MostCalls
  BY BoundsAssumption DEF MaxIdle
<1>2. Init => TypeOK
  BY <1>1 DEF Init, TypeOK, Outcomes, Halts, Phases
<1>3. Init => WithinCap /\ CallFits
  BY CapAssumption DEF Init, WithinCap, CallFits
<1> QED BY <1>2, <1>3 DEF CapInv

\* A run that starts, ends or is rolled back holds at most the money it is given.
LEMMA FreshCap ==
  ASSUME CapInv, NEW s \in Sessions, NEW p \in {"off", "start", "failing"},
         NEW money \in Nat, money <= Cap, FreshRun(s, p, money),
         UNCHANGED <<rowVars, birth, user, sweepVars>>,
         jobAt' \in [Sessions -> {"none", "queued", "running"}],
         tries' \in [Sessions -> 0..MaxTries]
  PROVE  CapInv'
<1>1. 0 \in 0..MostCalls
  BY BoundsAssumption
<1>2. TypeOK'
  <2>1. /\ pc' \in [Sessions -> {"off", "start", "ready", "calling", "braking", "failing",
                                 "cancelling", "ended"}]
        /\ phase' \in [Sessions -> Phases] /\ calls' \in [Sessions -> 0..MostCalls]
        /\ spent' \in [Sessions -> Nat] /\ price' \in [Sessions -> Nat]
    BY <1>1 DEF CapInv, TypeOK, FreshRun, Phases
  <2>2. /\ locked' \in [Sessions -> BOOLEAN]
        /\ end' \in [Sessions -> {"none", "external", "cost", "revoked", "refused",
                                  "timeout", "shutdown"}]
    BY DEF CapInv, TypeOK, FreshRun
  <2> QED BY <2>1, <2>2 DEF CapInv, TypeOK, rowVars, sweepVars
<1>3. WithinCap' /\ CallFits'
  BY DEF CapInv, TypeOK, WithinCap, CallFits, FreshRun, rowVars
<1> QED BY <1>2, <1>3 DEF CapInv

\* The steps that create a session.
LEMMA CreationCap ==
  ASSUME CapInv, NEW s \in Sessions, Spawn(s) \/ WatchFires(s) \/ CreationStep(s)
  PROVE  CapInv'
<1>1. UNCHANGED <<halt, atPhase, cost, idle, tries, runVars, user, sweepVars>>
  BY DEF Spawn, WatchFires, CreationStep, SpawnEnqueues, SpawnCommits, WatchEnqueues,
         CreatorDies, Insert, Enqueue, rowVars, jobVars
<1>2. status' \in [Sessions -> Outcomes \cup {"absent", "running"}]
  BY DEF CapInv, TypeOK, Spawn, WatchFires, CreationStep, SpawnEnqueues, SpawnCommits,
         WatchEnqueues, CreatorDies, Insert, rowVars
<1>3. jobAt' \in [Sessions -> {"none", "queued", "running"}]
  BY DEF CapInv, TypeOK, Spawn, WatchFires, CreationStep, SpawnEnqueues, SpawnCommits,
         WatchEnqueues, CreatorDies, Enqueue, jobVars
<1>4. birth' \in [Sessions -> {"none", "flushed", "enqueued", "fired", "over"}]
  BY DEF CapInv, TypeOK, Spawn, WatchFires, CreationStep, SpawnEnqueues, SpawnCommits,
         WatchEnqueues, CreatorDies
<1> QED BY <1>1, <1>2, <1>3, <1>4
        DEF CapInv, TypeOK, WithinCap, CallFits, runVars, sweepVars

\* Before a call: the job starts, the phases and the chokepoint.
LEMMA AdvanceCap ==
  ASSUME CapInv, NEW s \in Sessions,
         JobStarts(s) \/ EnterIntake(s) \/ NextPhase(s) \/ BeginCall(s) \/ RefuseCall(s)
  PROVE  CapInv'
<1>1. CASE JobStarts(s)
  <2>1. CASE Exists(s)
    <3>1. cost[s] \in Nat /\ cost[s] <= Cap /\ FreshRun(s, "start", cost[s])
      BY <1>1, <2>1 DEF JobStarts, CapInv, TypeOK, WithinCap
    <3>2. jobAt' \in [Sessions -> {"none", "queued", "running"}]
          /\ tries' \in [Sessions -> 0..MaxTries]
      BY <1>1, <2>1, BoundsAssumption DEF JobStarts, TakenUp, CapInv, TypeOK
    <3> QED BY <1>1, <3>1, <3>2, FreshCap DEF JobStarts
  <2>2. CASE ~ Exists(s)
    BY <1>1, <2>2 DEF JobStarts, CapInv, TypeOK, WithinCap, CallFits, rowVars, runVars, sweepVars
  <2> QED BY <2>1, <2>2
<1>2. CASE EnterIntake(s)
  BY <1>2 DEF EnterIntake, CapInv, TypeOK, WithinCap, CallFits, rowVars, jobVars, sweepVars
<1>3. CASE NextPhase(s)
  BY <1>3, BoundsAssumption
     DEF NextPhase, Phases, CapInv, TypeOK, WithinCap, CallFits, rowVars, jobVars, sweepVars
<1>4. CASE BeginCall(s)
  <2>1. PICK p \in Prices : ~ OverCap(s, p) /\ price' = [price EXCEPT ![s] = p]
    BY <1>4 DEF BeginCall
  <2>2. p \in Nat /\ spent[s] + p <= Cap
    BY <2>1, CapAssumption DEF OverCap, CapInv, TypeOK
  <2> QED BY <1>4, <2>1, <2>2
          DEF BeginCall, CapInv, TypeOK, WithinCap, CallFits, rowVars, jobVars, sweepVars
<1>5. CASE RefuseCall(s)
  BY <1>5 DEF RefuseCall, CapInv, TypeOK, WithinCap, CallFits, rowVars, jobVars, sweepVars
<1> QED BY <1>1, <1>2, <1>3, <1>4, <1>5

\* What a call charges, and how the job ends without touching the row.
LEMMA SettleCap ==
  ASSUME CapInv, NEW s \in Sessions,
         \/ CallReturns(s) \/ CallObservedFailing(s) \/ CallRaises(s) \/ Cancel(s)
         \/ CancelUnrecorded(s) \/ JobEnds(s) \/ WorkerDies(s)
  PROVE  CapInv'
<1>1. CASE CallReturns(s)
  <2>1. spent[s] + price[s] \in Nat /\ spent[s] + price[s] <= Cap
        /\ calls[s] + 1 \in 0..MostCalls
    BY <1>1, BoundsAssumption DEF CallReturns, CapInv, TypeOK, CallFits
  <2> QED BY <1>1, <2>1
          DEF CallReturns, CapInv, TypeOK, WithinCap, CallFits, rowVars, jobVars, sweepVars
<1>2. CASE CallObservedFailing(s)
  <2>1. calls[s] + 1 \in 0..MostCalls
    BY <1>2, BoundsAssumption DEF CallObservedFailing, CapInv, TypeOK, CallFits
  <2> QED BY <1>2, <2>1
          DEF CallObservedFailing, CapInv, TypeOK, WithinCap, CallFits, rowVars, jobVars, sweepVars
<1>3. CASE CallRaises(s)
  BY <1>3, FreshCap, CapAssumption DEF CallRaises, jobVars, CapInv, TypeOK
<1>4. CASE Cancel(s) \/ CancelUnrecorded(s)
  <2>1. /\ pc' = [pc EXCEPT ![s] = "cancelling"] \/ pc' = [pc EXCEPT ![s] = "ended"]
        /\ UNCHANGED <<rowVars, birth, jobVars, phase, calls, spent, price, user, sweepVars>>
    BY <1>4 DEF Cancel, CancelUnrecorded, RunEnds
  <2>2. /\ locked' \in [Sessions -> BOOLEAN]
        /\ end' \in [Sessions -> {"none", "external", "cost", "revoked", "refused",
                                  "timeout", "shutdown"}]
    <3>1. CASE Cancel(s)
      BY <3>1 DEF Cancel, CapInv, TypeOK
    <3>2. CASE CancelUnrecorded(s)
      BY <3>2 DEF CancelUnrecorded, RunEnds, CapInv, TypeOK
    <3> QED BY <1>4, <3>1, <3>2
  <2>3. TypeOK'
    BY <2>1, <2>2 DEF CapInv, TypeOK, rowVars, jobVars, sweepVars
  <2>4. WithinCap' /\ CallFits'
    BY <2>1 DEF CapInv, TypeOK, WithinCap, CallFits, rowVars
  <2> QED BY <2>3, <2>4 DEF CapInv
<1>5. CASE JobEnds(s) \/ WorkerDies(s)
  <2>1. FreshRun(s, "off", 0) /\ UNCHANGED <<rowVars, birth, tries, user, sweepVars>>
        /\ jobAt' \in [Sessions -> {"none", "queued", "running"}]
        /\ tries' \in [Sessions -> 0..MaxTries]
    BY <1>5 DEF JobEnds, WorkerDies, CapInv, TypeOK
  <2>2. 0 \in Nat /\ 0 <= Cap /\ "off" \in {"off", "start", "failing"}
    BY CapAssumption
  <2> QED BY <2>1, <2>2, FreshCap
<1> QED BY <1>1, <1>2, <1>3, <1>4, <1>5

\* The commits of a run: what they write of the cost is what it has spent.
LEMMA CommitCap ==
  ASSUME CapInv, NEW s \in Sessions, Deliver(s) \/ Brake(s) \/ Fail(s) \/ CancelRecorded(s)
  PROVE  CapInv'
<1>1. RunEnds(s) /\ UNCHANGED <<birth, jobVars, user, sweepVars>>
  BY DEF Deliver, Brake, Fail, CancelRecorded
<1>2. \/ \E o \in Outcomes, b \in BOOLEAN : Commit(s, o, b)
      \/ status' = [status EXCEPT ![s] = "failed"] /\ UNCHANGED <<halt, atPhase, cost, idle>>
  BY DEF Deliver, Brake, Fail, CancelRecorded, Outcomes
<1>3. status' \in [Sessions -> Outcomes \cup {"absent", "running"}]
  BY <1>2 DEF Commit, CapInv, TypeOK, Outcomes
<1>4. halt' \in [Sessions -> Halts]
  BY <1>2 DEF Commit, CapInv, TypeOK, Halts
<1>5. atPhase' \in [Sessions -> Phases] /\ cost' \in [Sessions -> Nat] /\ idle' = idle
      /\ \A t \in Sessions : cost'[t] <= Cap
  BY <1>2 DEF Commit, CapInv, TypeOK, WithinCap
<1>6. /\ pc' = [pc EXCEPT ![s] = "ended"] /\ locked' = [locked EXCEPT ![s] = FALSE]
      /\ UNCHANGED <<phase, calls, spent, price, end, birth, jobAt, tries, user,
                     sweep, todo, halting, pausing>>
  BY <1>1 DEF RunEnds, jobVars, sweepVars
<1>7. TypeOK'
  BY <1>3, <1>4, <1>5, <1>6 DEF CapInv, TypeOK
<1>8. WithinCap' /\ CallFits'
  BY <1>5, <1>6 DEF CapInv, TypeOK, WithinCap, CallFits
<1> QED BY <1>7, <1>8 DEF CapInv

\* The user, the watchdog and the clock: they write no cost and start no call.
LEMMA OthersCap ==
  ASSUME CapInv, SweepStep \/ Tick \/ \E s \in Sessions : PostHalt(s) \/ AnswerHalt(s)
  PROVE  CapInv'
<1>1. UNCHANGED <<cost, atPhase, birth, jobVars, runVars>>
  BY DEF SweepStep, SweepBegins, SweepHalts, SweepSelectsIdle, SweepPauses, SweepCommits,
         PostHalt, AnswerHalt, Tick, rowVars
<1>2. status' \in [Sessions -> Outcomes \cup {"absent", "running"}]
      /\ halt' \in [Sessions -> Halts]
  BY DEF SweepStep, SweepBegins, SweepHalts, SweepSelectsIdle, SweepPauses, SweepCommits,
         PostHalt, AnswerHalt, Tick, rowVars, CapInv, TypeOK, Outcomes, Halts
<1>3. idle' \in [Sessions -> 0..MaxIdle]
  <2>1. MaxIdle \in Nat
    BY BoundsAssumption DEF MaxIdle
  <2> QED BY <2>1
          DEF SweepStep, SweepBegins, SweepHalts, SweepSelectsIdle, SweepPauses, SweepCommits,
              PostHalt, AnswerHalt, Tick, rowVars, CapInv, TypeOK
<1>4. user' \in [Sessions -> {"none", "posted", "answered"}]
  BY DEF SweepStep, SweepBegins, SweepHalts, SweepSelectsIdle, SweepPauses, SweepCommits,
         PostHalt, AnswerHalt, Tick, CapInv, TypeOK
<1>5. /\ sweep' \in {"off", "halting", "pausing"}
      /\ todo' \subseteq Sessions /\ halting' \subseteq Sessions /\ pausing' \subseteq Sessions
  <2>1. ToHalt \subseteq Sessions /\ ToPause \subseteq Sessions
    BY DEF ToHalt, ToPause
  <2> QED BY <2>1
          DEF SweepStep, SweepBegins, SweepHalts, SweepSelectsIdle, SweepPauses, SweepCommits,
              PostHalt, AnswerHalt, Tick, sweepVars, CapInv, TypeOK
<1> QED BY <1>1, <1>2, <1>3, <1>4, <1>5
        DEF CapInv, TypeOK, WithinCap, CallFits, jobVars, runVars

LEMMA CapInductive == CapInv /\ [Next]_vars => CapInv'
<1> SUFFICES ASSUME CapInv, [Next]_vars PROVE CapInv'
  OBVIOUS
<1>1. CASE \E s \in Sessions :
             \/ Spawn(s) \/ WatchFires(s) \/ CreationStep(s) \/ JobStarts(s) \/ RunStep(s)
             \/ Cancel(s) \/ WorkerDies(s)
  BY <1>1, CreationCap, AdvanceCap, SettleCap, CommitCap DEF RunStep
<1>2. CASE SweepStep \/ Tick \/ \E s \in Sessions : PostHalt(s) \/ AnswerHalt(s)
  BY <1>2, OthersCap
<1>3. CASE UNCHANGED vars
  BY <1>3 DEF vars, rowVars, jobVars, runVars, sweepVars, CapInv, TypeOK, WithinCap, CallFits
<1> QED BY <1>1, <1>2, <1>3 DEF Next

LEMMA CapInvariant == Spec => []CapInv
  BY InitCap, CapInductive, PTL DEF Spec

\* Every variable keeps its type.
THEOREM SessionsTypeCorrect == Spec => []TypeOK
<1>1. CapInv => TypeOK
  BY DEF CapInv
<1> QED BY <1>1, CapInvariant, PTL

\* No session is charged past its cap, in its row or in a run under way, for
\* whatever prices, number of calls and number of runs of its job (R4).
THEOREM EconomicBrake == Spec => []WithinCap
<1>1. CapInv => WithinCap
  BY DEF CapInv
<1> QED BY <1>1, CapInvariant, PTL

----------------------------------------------------------------------------
(* The watchdog.  A session it is about to halt was paused when it selected *)
(* it, and no step of anyone takes a session back to running.              *)

SelectedPaused == \A s \in Sessions :
    s \in halting \/ (sweep = "halting" /\ s \in todo) => halt[s] # "running"

PauseInv == TypeOK /\ SelectedPaused

LEMMA NeverRunsAgain ==
  ASSUME TypeOK, [Next]_vars, NEW s \in Sessions, halt[s] # "running"
  PROVE  halt'[s] # "running"
<1>1. CASE UNCHANGED halt
  BY <1>1
<1>2. ASSUME NEW t \in Sessions, Deliver(t) \/ Brake(t) \/ CancelRecorded(t) \/ AnswerHalt(t)
      PROVE  halt'[s] # "running"
  BY <1>2 DEF Deliver, Brake, CancelRecorded, AnswerHalt, Commit, TypeOK
<1>3. CASE SweepCommits
  BY <1>3 DEF SweepCommits
<1>4. ASSUME NEW t \in Sessions,
             \/ Spawn(t) \/ WatchFires(t) \/ CreationStep(t) \/ JobStarts(t) \/ Cancel(t)
             \/ WorkerDies(t) \/ PostHalt(t) \/ EnterIntake(t) \/ NextPhase(t) \/ BeginCall(t)
             \/ RefuseCall(t) \/ CallReturns(t) \/ CallObservedFailing(t) \/ CallRaises(t)
             \/ Fail(t) \/ CancelUnrecorded(t) \/ JobEnds(t) \/ SweepHalts(t) \/ SweepPauses(t)
      PROVE  UNCHANGED halt
  BY <1>4 DEF Spawn, WatchFires, CreationStep, SpawnEnqueues, SpawnCommits, WatchEnqueues,
              CreatorDies, Insert, JobStarts, Cancel, WorkerDies, PostHalt, EnterIntake, NextPhase,
              BeginCall, RefuseCall, CallReturns, CallObservedFailing, CallRaises, Fail,
              CancelUnrecorded, JobEnds, SweepHalts, SweepPauses, rowVars
<1>5. CASE SweepBegins \/ SweepSelectsIdle \/ Tick \/ UNCHANGED vars
  <2>1. UNCHANGED halt
    BY <1>5 DEF SweepBegins, SweepSelectsIdle, Tick, vars, rowVars
  <2> QED BY <1>1, <2>1
<1> QED BY <1>1, <1>2, <1>3, <1>4, <1>5 DEF Next, RunStep, SweepStep

LEMMA PauseInductive == PauseInv /\ [Next]_vars /\ TypeOK' => PauseInv'
<1> SUFFICES ASSUME PauseInv, [Next]_vars, TypeOK' PROVE SelectedPaused'
  BY DEF PauseInv
<1>1. SUFFICES ASSUME NEW s \in Sessions,
                      s \in halting' \/ (sweep' = "halting" /\ s \in todo')
               PROVE  halt[s] # "running"
  BY NeverRunsAgain DEF PauseInv, SelectedPaused
<1>2. CASE SweepStep
  BY <1>1, <1>2 DEF SweepStep, SweepBegins, SweepHalts, SweepSelectsIdle, SweepPauses,
                    SweepCommits, ToHalt, PauseInv, SelectedPaused
<1>3. CASE UNCHANGED sweepVars
  BY <1>1, <1>3 DEF sweepVars, PauseInv, SelectedPaused
<1>4. SweepStep \/ UNCHANGED sweepVars
  <2>1. ASSUME NEW t \in Sessions, CreationStep(t) \/ Spawn(t) \/ WatchFires(t) \/ JobStarts(t)
                                   \/ Cancel(t) \/ WorkerDies(t) \/ PostHalt(t) \/ AnswerHalt(t)
        PROVE  UNCHANGED sweepVars
    BY <2>1 DEF CreationStep, Spawn, WatchFires, SpawnEnqueues, SpawnCommits, WatchEnqueues,
                CreatorDies, JobStarts, Cancel, WorkerDies, PostHalt, AnswerHalt
  <2>2. ASSUME NEW t \in Sessions, RunStep(t)
        PROVE  UNCHANGED sweepVars
    BY <2>2 DEF RunStep, EnterIntake, NextPhase, BeginCall, RefuseCall, CallReturns,
                CallObservedFailing, CallRaises, Deliver, Brake, Fail, CancelRecorded,
                CancelUnrecorded, JobEnds
  <2>3. CASE Tick \/ UNCHANGED vars
    BY <2>3 DEF Tick, vars
  <2> QED BY <2>1, <2>2, <2>3 DEF Next
<1> QED BY <1>2, <1>3, <1>4

\* Only the step that commits a sweep, or a braked run, writes "halted".
LEMMA HaltedBy ==
  ASSUME PauseInv, [Next]_vars, NEW s \in Sessions, halt[s] = "running", halt'[s] = "halted"
  PROVE  pc[s] = "braking"
<1>1. halt' # halt
  OBVIOUS
<1>2. ASSUME NEW t \in Sessions, RunStep(t)
      PROVE  pc[s] = "braking"
  BY <1>1, <1>2 DEF RunStep, EnterIntake, NextPhase, BeginCall, RefuseCall, CallReturns,
                CallObservedFailing, CallRaises, Deliver, Brake, Fail, CancelRecorded,
                CancelUnrecorded, JobEnds, Commit, rowVars, PauseInv, TypeOK
<1>3. CASE SweepStep
  BY <1>1, <1>3 DEF SweepStep, SweepBegins, SweepHalts, SweepSelectsIdle, SweepPauses,
                    SweepCommits, rowVars, PauseInv, SelectedPaused
<1>4. ASSUME NEW t \in Sessions, AnswerHalt(t)
      PROVE  FALSE
  BY <1>4 DEF AnswerHalt, PauseInv, TypeOK
<1>5. ASSUME NEW t \in Sessions, CreationStep(t) \/ Spawn(t) \/ WatchFires(t) \/ JobStarts(t)
                                 \/ Cancel(t) \/ WorkerDies(t) \/ PostHalt(t)
      PROVE  FALSE
  BY <1>1, <1>5 DEF CreationStep, Spawn, WatchFires, SpawnEnqueues, SpawnCommits, WatchEnqueues,
                    CreatorDies, Insert, JobStarts, Cancel, WorkerDies, PostHalt, rowVars
<1>6. CASE Tick \/ UNCHANGED vars
  BY <1>1, <1>6 DEF Tick, vars, rowVars
<1> QED BY <1>2, <1>3, <1>4, <1>5, <1>6 DEF Next

\* The idle watchdog pauses before it halts, and never both in one sweep, for
\* any number of sessions, runs and requests (_run_idle_sweep).
THEOREM PausedBeforeHalted == Spec => PausedFirst
<1>1. Init => PauseInv
  BY InitCap DEF CapInv, PauseInv, SelectedPaused, Init
<1>2. PauseInv /\ [Next]_vars => [\A s \in Sessions : halt[s] = "running" /\ halt'[s] = "halted"
                                                      => pc[s] = "braking"]_vars
  BY HaltedBy
<1> QED BY <1>1, <1>2, SessionsTypeCorrect, PauseInductive, PTL DEF Spec, PausedFirst

=============================================================================
