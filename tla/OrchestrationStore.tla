------------------------- MODULE OrchestrationStore -------------------------
(***************************************************************************)
(* The durable ledger of one governed run: the root, its plan revisions,   *)
(* its child sessions, their budget accounts and their effect receipts, as *)
(* api/app/autonomous/orchestration/store.py keeps them in Postgres.       *)
(*                                                                         *)
(* Every method of OrchestrationStore runs in one transaction that locks   *)
(* the owner, the project and the root row, so each method is one action.  *)
(* A worker process holds nothing but its WorkerClaim (session and         *)
(* generation); it may stop at any point between two transactions.  The    *)
(* clock advances between transactions, never inside one.                  *)
(*                                                                         *)
(* A definition MutX is a plausible mistake in the code X models; it       *)
(* stands next to X, no specification uses it, and PROJECT.json names the  *)
(* property that notices it.                                               *)
(***************************************************************************)
EXTENDS Naturals, FiniteSets

CONSTANTS
    Root,               \* the root session of the run
    Children,           \* the child sessions of the approved batch
    Workers,            \* worker invocations that may be alive at once
    NoWorker,           \* worker_id IS NULL
    NoSession,          \* a worker that holds no claim
    PlanKey,            \* the effect key "chat:plan:v1"
    SynthesisKey,       \* the effect key "demo:synthesis:v1"
    TaskKeys,           \* the effect keys of a child's work
    AnalysisPhase,      \* position of Phase.analysis in the phase order
    DraftingPhase,      \* position of Phase.drafting
    DeliveryPhase,      \* position of Phase.delivery, the last one
    Deadline,           \* plan.deadline
    AttemptTimeout,     \* plan.attempt_timeout_seconds
    LeaseSeconds,       \* lease lengths a worker asks for
    MaxActiveChildren,  \* plan.max_active_children
    RootAllowance,      \* root_allowance_usd of each plan revision
    PlanningAllowance,  \* planning_allowance_usd
    ChildBudget,        \* budget_usd of each child
    PriorCost,          \* cost of the session before save_plan made it a root
    Reservations,       \* amounts a call may reserve
    Charges,            \* amounts a provider may report
    AuthorityMayLapse,  \* bound: whether opt-out or revocation happens in a run
    MaxRevision,        \* bound: plan revisions saved
    MaxGeneration,      \* bound: each session is claimed only below its generation
    TopicOutcomes       \* bound: the outcomes a child may stage

Sessions == {Root} \cup Children
EffectKeys == {PlanKey, SynthesisKey} \cup TaskKeys
Phases == 0 .. DeliveryPhase
Revisions == 1 .. MaxRevision

ASSUME TreeAssumption ==
    /\ Root \notin Children
    /\ IsFiniteSet(Children) /\ Children # {}
    /\ NoWorker \notin Workers
    /\ NoSession \notin Sessions

ASSUME KeyAssumption ==
    /\ PlanKey # SynthesisKey
    /\ {PlanKey, SynthesisKey} \cap TaskKeys = {}
    /\ {AnalysisPhase, DraftingPhase, DeliveryPhase} \subseteq Nat
    /\ AnalysisPhase <= DraftingPhase /\ DraftingPhase < DeliveryPhase

ASSUME TaskAssumption == IsFiniteSet(TaskKeys)

ASSUME TimeAssumption ==
    /\ Deadline \in Nat \ {0} /\ AttemptTimeout \in Nat \ {0}
    /\ LeaseSeconds \subseteq Nat \ {0}

ASSUME MoneyAssumption ==
    /\ RootAllowance \in [Revisions -> Nat] /\ ChildBudget \in [Children -> Nat]
    /\ {PlanningAllowance, PriorCost} \subseteq Nat
    /\ Reservations \subseteq Nat /\ Charges \subseteq Nat
    /\ MaxActiveChildren \in Nat \ {0}
    /\ MaxRevision \in Nat \ {0} /\ MaxGeneration \in [Sessions -> Nat]
    /\ TopicOutcomes \subseteq {"ok", "failed"}
    /\ AuthorityMayLapse \in BOOLEAN

VARIABLES
    now,          \* the database clock
    authorized,   \* owner opt-in, project, matter, data terms and operator policy all hold
    rootStatus,   \* orchestration_roots.status, "absent" before the run exists
    revision,     \* orchestration_roots.current_revision, 0 for NULL
    admitted,     \* orchestration_roots.admitted_revision, 0 for NULL
    plan,         \* orchestration_plans.status of each revision
    session,      \* autonomous_sessions.status
    phase,        \* autonomous_sessions.current_phase
    result,       \* autonomous_sessions.result: none, a usable outcome or a failed one
    costTotal,    \* autonomous_sessions.cost_total_usd
    owner,        \* orchestration_accounts.worker_id
    generation,   \* orchestration_accounts.generation
    lease,        \* orchestration_accounts.lease_until, 0 when unowned
    attempt,      \* orchestration_accounts.attempt_deadline, 0 when unowned
    spent,        \* orchestration_accounts.spent_usd
    reserved,     \* orchestration_accounts.reserved_usd
    effect,       \* orchestration_effects.status, "none" without a row
    effectGen,    \* orchestration_effects.generation
    effectCost,   \* orchestration_effects.reserved_usd
    charged,      \* orchestration_effects.charged_usd, 0 for NULL
    claimed,      \* the session of the WorkerClaim a worker process holds
    claimGen,     \* the generation of that claim
    sweep         \* the stage the recovery sweep has yet to run on this root

rootVars == <<rootStatus, revision, admitted, plan>>
sessionVars == <<session, phase, result>>
ownerVars == <<owner, generation, lease, attempt>>
moneyVars == <<spent, reserved, costTotal>>
effectVars == <<effect, effectGen, effectCost, charged>>
workerVars == <<claimed, claimGen>>
clockVars == <<now, authorized>>
vars == <<clockVars, rootVars, sessionVars, ownerVars, moneyVars, effectVars,
          workerVars, sweep>>

Active == {"queued", "running", "waiting_children"}
Terminal == {"halted", "completed", "failed", "rejected", "expired", "closed"}
Waiting == {"planning", "awaiting_approval"}
RootStatuses == {"absent", "uncertain"} \cup Active \cup Terminal \cup Waiting
PlanStatuses == {"none", "proposed", "approved", "rejected", "superseded"}
SessionStatuses == {"absent", "running", "completed", "failed", "halted"}
EffectStatuses == {"none", "admitted", "uncertain", "completed", "closed"}

-----------------------------------------------------------------------------
(* Reading the ledger *)

Smaller(a, b) == IF a <= b THEN a ELSE b

Accounts == {s \in Sessions : session[s] # "absent"}

\* Keys of the effects of s with no outcome yet: uq_orchestration_one_inflight.
Unresolved(s) == {k \in EffectKeys : effect[s][k] \in {"admitted", "uncertain"}}

\* A call of s is made and has no answer yet.
InFlight(s) == \E k \in EffectKeys : effect[s][k] = "admitted"

\* allocation_usd: the root's follows the current plan, a child's is fixed.
Allocation(s) ==
    IF s = Root THEN RootAllowance[IF revision = 0 THEN 1 ELSE revision]
    ELSE ChildBudget[s]

\* _live: the root session runs and the deadline is ahead.
Live == session[Root] = "running" /\ now < Deadline

\* Nothing of s is unresolved and nothing is set aside for it.
MutSettled(s) == reserved[s] = 0
Settled(s) == reserved[s] = 0 /\ Unresolved(s) = {}

\* _approved, with the owner, data-term and policy checks of _root.
MutApproved == authorized /\ Live /\ revision \in Revisions /\ plan[revision] = "approved"
Approved ==
    /\ authorized /\ Live
    /\ rootStatus \in Active
    /\ revision \in Revisions /\ plan[revision] = "approved"

\* _execution_authority: planning authorizes the root alone.
MayExecute(s) ==
    \/ Approved
    \/ authorized /\ Live /\ revision = 0 /\ rootStatus = "planning" /\ s = Root

\* _fence: the claim is the account's current ownership and its lease is live.
Owns(w) ==
    /\ claimed[w] \in Sessions
    /\ owner[claimed[w]] = w /\ generation[claimed[w]] = claimGen[w]
Fenced(w) == Owns(w) /\ lease[claimed[w]] > now

\* A child that holds capacity: owned, or with a call nobody has accounted for.
Occupied(c) == owner[c] # NoWorker \/ Unresolved(c) # {}

\* _topics: every approved child has delivered.
TopicsDelivered == \A c \in Children : session[c] \in {"completed", "failed"}

KeyPhase(k) == IF k = SynthesisKey THEN DraftingPhase ELSE AnalysisPhase

\* The keys a session's graph uses: planning makes one root call, the approved
\* root combines, a child works.
KeysOf(s) ==
    IF s # Root THEN TaskKeys ELSE IF revision = 0 THEN {PlanKey} ELSE {SynthesisKey}

-----------------------------------------------------------------------------
(* Updates several methods share *)

\* Bump the generation and clear the ownership of every account in S.
Fence(S) ==
    /\ owner' = [s \in Sessions |-> IF s \in S THEN NoWorker ELSE owner[s]]
    /\ generation' =
         [s \in Sessions |-> IF s \in S THEN generation[s] + 1 ELSE generation[s]]
    /\ lease' = [s \in Sessions |-> IF s \in S THEN 0 ELSE lease[s]]
    /\ attempt' = [s \in Sessions |-> IF s \in S THEN 0 ELSE attempt[s]]

\* The admitted effects of the sessions in S become uncertain.
MutDoubt(S) == UNCHANGED effect
Doubt(S) ==
    effect' = [s \in Sessions |-> [k \in EffectKeys |->
                 IF s \in S /\ effect[s][k] = "admitted" THEN "uncertain"
                 ELSE effect[s][k]]]

\* Every running session of the tree stops (the UPDATE of halt, close and expiry).
StopSessions ==
    session' = [s \in Sessions |-> IF session[s] = "running" THEN "halted" ELSE session[s]]

DropClaim(w) ==
    /\ claimed' = [claimed EXCEPT ![w] = NoSession]
    /\ claimGen' = [claimGen EXCEPT ![w] = 0]

-----------------------------------------------------------------------------
(* Requests, planning and approval *)

Init ==
    /\ now = 0 /\ authorized = TRUE
    /\ rootStatus = "absent" /\ revision = 0 /\ admitted = 0
    /\ plan = [r \in Revisions |-> "none"]
    /\ session = [s \in Sessions |-> "absent"]
    /\ phase = [s \in Sessions |-> 0]
    /\ result = [s \in Sessions |-> "none"]
    /\ costTotal = [s \in Sessions |-> 0]
    /\ owner = [s \in Sessions |-> NoWorker]
    /\ generation = [s \in Sessions |-> 0]
    /\ lease = [s \in Sessions |-> 0]
    /\ attempt = [s \in Sessions |-> 0]
    /\ spent = [s \in Sessions |-> 0]
    /\ reserved = [s \in Sessions |-> 0]
    /\ effect = [s \in Sessions |-> [k \in EffectKeys |-> "none"]]
    /\ effectGen = [s \in Sessions |-> [k \in EffectKeys |-> 0]]
    /\ effectCost = [s \in Sessions |-> [k \in EffectKeys |-> 0]]
    /\ charged = [s \in Sessions |-> [k \in EffectKeys |-> 0]]
    /\ claimed = [w \in Workers |-> NoSession]
    /\ claimGen = [w \in Workers |-> 0]
    /\ sweep = "idle"

\* start_planning: one transaction makes the session, the root and its account.
StartPlanning ==
    /\ rootStatus = "absent" /\ authorized /\ now < Deadline
    /\ rootStatus' = "planning"
    /\ session' = [session EXCEPT ![Root] = "running"]
    /\ phase' = [phase EXCEPT ![Root] = AnalysisPhase]
    /\ UNCHANGED <<revision, admitted, plan, result, clockVars, ownerVars,
                   moneyVars, effectVars, workerVars, sweep>>

\* save_plan without a root: a session that already cost PriorCost becomes one.
SavePlan ==
    /\ rootStatus = "absent" /\ authorized /\ now < Deadline
    /\ PriorCost <= RootAllowance[1]
    /\ rootStatus' = "awaiting_approval" /\ revision' = 1
    /\ plan' = [plan EXCEPT ![1] = "proposed"]
    /\ session' = [session EXCEPT ![Root] = "running"]
    /\ spent' = [spent EXCEPT ![Root] = PriorCost]
    /\ costTotal' = [costTotal EXCEPT ![Root] = PriorCost]
    /\ UNCHANGED <<admitted, phase, result, reserved, clockVars, ownerVars,
                   effectVars, workerVars, sweep>>

\* A plan may be replaced until a worker has claimed the root.
MutRevisable == rootStatus \in Active \cup {"awaiting_approval"}
Revisable ==
    /\ rootStatus \in {"awaiting_approval", "queued"}
    /\ admitted = 0 /\ generation[Root] = 0
    /\ reserved[Root] = 0 /\ owner[Root] = NoWorker

\* save_plan on an existing root: the owner revises the plan.
RevisePlan ==
    /\ Revisable
    /\ revision > 0 /\ revision + 1 \in Revisions
    /\ authorized /\ Live
    /\ spent[Root] <= RootAllowance[revision + 1]
    /\ plan' = [plan EXCEPT ![revision] = "superseded", ![revision + 1] = "proposed"]
    /\ revision' = revision + 1 /\ rootStatus' = "awaiting_approval"
    /\ UNCHANGED <<admitted, sessionVars, clockVars, ownerVars, moneyVars,
                   effectVars, workerVars, sweep>>

\* The part of finish_planning every outcome shares.
PlanningSettled(w) ==
    /\ claimed[w] = Root /\ revision = 0 /\ MayExecute(Root) /\ Fenced(w)
    /\ reserved[Root] = 0 /\ effect[Root][PlanKey] = "completed"

\* finish_planning with a plan: funded, so it is stored for the owner.
PromotePlan(w) ==
    /\ PlanningSettled(w) /\ spent[Root] <= PlanningAllowance
    /\ rootStatus' = "awaiting_approval" /\ revision' = 1
    /\ plan' = [plan EXCEPT ![1] = "proposed"]
    /\ UNCHANGED <<admitted, sessionVars, clockVars, ownerVars, moneyVars,
                   effectVars, workerVars, sweep>>

\* finish_planning without one: an unusable proposal, or one that overspent.
FailPlanning(w) ==
    /\ PlanningSettled(w)
    /\ rootStatus' = "failed"
    /\ session' = [session EXCEPT ![Root] = "failed"]
    /\ UNCHANGED <<revision, admitted, plan, phase, result, clockVars, ownerVars,
                   moneyVars, effectVars, workerVars, sweep>>

\* finish_planning with the orchestrator's own answer (_deliver_direct).
DeliverDirect(w) ==
    /\ PlanningSettled(w)
    /\ rootStatus' = "completed"
    /\ session' = [session EXCEPT ![Root] = "completed"]
    /\ phase' = [phase EXCEPT ![Root] = DeliveryPhase]
    /\ result' = [result EXCEPT ![Root] = "ok"]
    /\ UNCHANGED <<revision, admitted, plan, clockVars, ownerVars, moneyVars,
                   effectVars, workerVars, sweep>>

\* approve: the owner approves revision r as read; only the current one can be.
Approve(r) ==
    /\ authorized /\ Live
    /\ r = revision /\ rootStatus = "awaiting_approval" /\ plan[r] = "proposed"
    /\ plan' = [plan EXCEPT ![r] = "approved"]
    /\ rootStatus' = "queued"
    /\ UNCHANGED <<revision, admitted, sessionVars, clockVars, ownerVars,
                   moneyVars, effectVars, workerVars, sweep>>

\* reject: allowed after the deadline too.
Reject(r) ==
    /\ authorized
    /\ r = revision /\ rootStatus = "awaiting_approval"
    /\ plan' = [plan EXCEPT ![r] = "rejected"]
    /\ rootStatus' = "rejected"
    /\ session' = [session EXCEPT ![Root] = "halted"]
    /\ UNCHANGED <<revision, admitted, phase, result, clockVars, ownerVars,
                   moneyVars, effectVars, workerVars, sweep>>

-----------------------------------------------------------------------------
(* Worker ownership *)

\* A child runs only while fewer than the approved number of others hold capacity.
MutCapacityLeft(s) ==
    s # Root => Cardinality({c \in Children \ {s} : Occupied(c)}) <= MaxActiveChildren
CapacityLeft(s) ==
    s # Root => Cardinality({c \in Children \ {s} : Occupied(c)}) < MaxActiveChildren

\* What every branch of claim requires.
Claimable(s) ==
    /\ MayExecute(s) /\ session[s] = "running"
    /\ generation[s] < MaxGeneration[s]
    /\ CapacityLeft(s)
    /\ ~ (owner[s] # NoWorker /\ lease[s] > now)

\* A claim's generation, and where its attempt ends.
MutNextGeneration(s) == generation[s]
NextGeneration(s) == generation[s] + 1
MutAttemptEnd == now + AttemptTimeout
AttemptEnd == Smaller(Deadline, now + AttemptTimeout)

\* claim of a free session: a new generation owned by w.
Claim(w, s, seconds) ==
    /\ claimed[w] = NoSession
    /\ Claimable(s) /\ Unresolved(s) = {}
    /\ attempt' = [attempt EXCEPT ![s] = AttemptEnd]
    /\ lease' = [lease EXCEPT ![s] = Smaller(AttemptEnd, now + seconds)]
    /\ owner' = [owner EXCEPT ![s] = w]
    /\ generation' = [generation EXCEPT ![s] = NextGeneration(s)]
    /\ rootStatus' = IF revision = 0 THEN "planning" ELSE "running"
    /\ claimed' = [claimed EXCEPT ![w] = s]
    /\ claimGen' = [claimGen EXCEPT ![w] = NextGeneration(s)]
    /\ UNCHANGED <<revision, admitted, plan, sessionVars, clockVars, moneyVars,
                   effectVars, sweep>>

\* claim of a session whose last worker left a call unresolved: fence, no owner.
ClaimUnresolved(s) ==
    /\ Claimable(s) /\ Unresolved(s) # {}
    /\ Doubt({s}) /\ Fence({s})
    /\ rootStatus' = "uncertain"
    /\ UNCHANGED <<revision, admitted, plan, sessionVars, clockVars, moneyVars,
                   effectGen, effectCost, charged, workerVars, sweep>>

\* renew_claim: never past the attempt, never shorter than what was granted.
Renew(w, seconds) ==
    /\ Fenced(w) /\ MayExecute(claimed[w])
    /\ LET s == claimed[w]
           until == Smaller(attempt[s], now + seconds)
       IN  /\ now < attempt[s] /\ until > lease[s]
           /\ lease' = [lease EXCEPT ![s] = until]
    /\ UNCHANGED <<owner, generation, attempt, rootVars, sessionVars, clockVars,
                   moneyVars, effectVars, workerVars, sweep>>

\* release_claim: only a worker with nothing outstanding gives its session back.
Release(w) ==
    /\ Fenced(w) /\ Settled(claimed[w])
    /\ Fence({claimed[w]})
    /\ DropClaim(w)
    /\ UNCHANGED <<rootVars, sessionVars, clockVars, moneyVars, effectVars, sweep>>

\* The worker process ends without a release: a crash, a cancelled job, or a
\* release that was refused.  The ledger is not told.
StopWorker(w) ==
    /\ claimed[w] # NoSession
    /\ DropClaim(w)
    /\ UNCHANGED <<rootVars, sessionVars, clockVars, ownerVars, moneyVars,
                   effectVars, sweep>>

\* mark_effect_uncertain: the call was rolled back or cancelled.  No lease check.
MarkUncertain(w, k) ==
    /\ Owns(w)
    /\ LET s == claimed[w]
       IN  /\ effect[s][k] = "admitted" /\ effectGen[s][k] = claimGen[w]
           /\ effect' = [effect EXCEPT ![s][k] = "uncertain"]
           /\ Fence({s})
    /\ rootStatus' = "uncertain"
    /\ UNCHANGED <<revision, admitted, plan, sessionVars, clockVars, moneyVars,
                   effectGen, effectCost, charged, workerVars, sweep>>

-----------------------------------------------------------------------------
(* Effects and money *)

\* An effect identity that has no receipt; any other is returned, never repeated.
MutUnused(s, k) == TRUE
Unused(s, k) == effect[s][k] = "none"

\* begin_effect: reserve the money and admit one call, in the session's phase.
BeginEffect(w, k, amount) ==
    /\ Fenced(w) /\ MayExecute(claimed[w])
    /\ LET s == claimed[w]
           limit == IF revision = 0 THEN PlanningAllowance ELSE Allocation(s)
       IN  /\ k \in KeysOf(s) /\ Unused(s, k)
           /\ session[s] = "running" /\ phase[s] = KeyPhase(k)
           /\ Unresolved(s) = {}
           /\ spent[s] + reserved[s] + amount <= limit
           /\ reserved' = [reserved EXCEPT ![s] = @ + amount]
           /\ effect' = [effect EXCEPT ![s][k] = "admitted"]
           /\ effectGen' = [effectGen EXCEPT ![s][k] = claimGen[w]]
           /\ effectCost' = [effectCost EXCEPT ![s][k] = amount]
    /\ UNCHANGED <<spent, costTotal, charged, rootVars, sessionVars, clockVars,
                   ownerVars, workerVars, sweep>>

\* What stays reserved when k settles, and whether the account is then overdrawn.
MutStillReserved(s, k) == reserved[s]
StillReserved(s, k) == reserved[s] - effectCost[s][k]
MutOverdrawn(s, k, charge) == FALSE
Overdrawn(s, k, charge) == spent[s] + charge + StillReserved(s, k) > Allocation(s)

\* _settle_effect in the guard's transaction, which also adds the session's cost.
\* It stays possible after halt and revocation; an observed overrun stops the run.
SettleEffect(w, k, charge) ==
    /\ Fenced(w)
    /\ LET s == claimed[w]
       IN  /\ effect[s][k] = "admitted" /\ effectGen[s][k] = claimGen[w]
           /\ reserved' = [reserved EXCEPT ![s] = StillReserved(s, k)]
           /\ spent' = [spent EXCEPT ![s] = @ + charge]
           /\ costTotal' = [costTotal EXCEPT ![s] = @ + charge]
           /\ effect' = [effect EXCEPT ![s][k] = "completed"]
           /\ charged' = [charged EXCEPT ![s][k] = charge]
           /\ rootStatus' = IF Overdrawn(s, k, charge) THEN "halted" ELSE rootStatus
    /\ UNCHANGED <<revision, admitted, plan, effectGen, effectCost, sessionVars,
                   clockVars, ownerVars, workerVars, sweep>>

\* record_refusal: a call the application refused, completed at no cost.
RecordRefusal(w, k) ==
    /\ Fenced(w) /\ Approved
    /\ LET s == claimed[w]
       IN  /\ s # Root /\ k \in KeysOf(s) /\ Unused(s, k)
           /\ session[s] = "running" /\ phase[s] = KeyPhase(k)
           /\ effect' = [effect EXCEPT ![s][k] = "completed"]
           /\ effectGen' = [effectGen EXCEPT ![s][k] = claimGen[w]]
    /\ UNCHANGED <<effectCost, charged, rootVars, sessionVars, clockVars, ownerVars,
                   moneyVars, workerVars, sweep>>

-----------------------------------------------------------------------------
(* The approved batch and its delivery *)

\* The guard of every method the approved root's worker calls.
RootWorks(w) == claimed[w] = Root /\ Approved /\ Fenced(w)

\* admit_children: the whole batch of the approved revision, once.
AdmitChildren(w) ==
    /\ RootWorks(w) /\ admitted = 0
    /\ admitted' = revision /\ rootStatus' = "waiting_children"
    /\ session' = [s \in Sessions |-> IF s \in Children THEN "running" ELSE session[s]]
    /\ UNCHANGED <<revision, plan, phase, result, clockVars, ownerVars, moneyVars,
                   effectVars, workerVars, sweep>>

\* phase: visible progress only moves forward.
SetPhase(w, p) ==
    /\ Fenced(w) /\ Approved
    /\ session[claimed[w]] = "running" /\ p > phase[claimed[w]]
    /\ phase' = [phase EXCEPT ![claimed[w]] = p]
    /\ UNCHANGED <<session, result, rootVars, clockVars, ownerVars, moneyVars,
                   effectVars, workerVars, sweep>>

\* stage_topic: a staged outcome never changes.
StageTopic(w, outcome) ==
    /\ Fenced(w) /\ Approved /\ claimed[w] # Root
    /\ result[claimed[w]] = "none"
    /\ result' = [result EXCEPT ![claimed[w]] = outcome]
    /\ UNCHANGED <<session, phase, rootVars, clockVars, ownerVars, moneyVars,
                   effectVars, workerVars, sweep>>

\* deliver_topic: a failed outcome may be delivered from any phase.
DeliverTopic(w) ==
    /\ Fenced(w) /\ Approved /\ claimed[w] # Root
    /\ LET s == claimed[w]
       IN  /\ Settled(s)
           /\ result[s] # "none" /\ session[s] = "running"
           /\ result[s] = "failed" \/ phase[s] = DeliveryPhase
           /\ session' = [session EXCEPT ![s] =
                            IF result[s] = "failed" THEN "failed" ELSE "completed"]
    /\ UNCHANGED <<phase, result, rootVars, clockVars, ownerVars, moneyVars,
                   effectVars, workerVars, sweep>>

\* wait_for_children: not ready, so the root goes back to waiting.
WaitForChildren(w) ==
    /\ RootWorks(w) /\ ~ TopicsDelivered
    /\ rootStatus' = "waiting_children"
    /\ UNCHANGED <<revision, admitted, plan, sessionVars, clockVars, ownerVars,
                   moneyVars, effectVars, workerVars, sweep>>

\* fail_synthesis: the combining call settled but its text was unusable.
FailSynthesis(w) ==
    /\ RootWorks(w)
    /\ reserved[Root] = 0 /\ effect[Root][SynthesisKey] = "completed"
    /\ TopicsDelivered
    /\ rootStatus' = "failed"
    /\ session' = [session EXCEPT ![Root] = "failed"]
    /\ UNCHANGED <<revision, admitted, plan, phase, result, clockVars, ownerVars,
                   moneyVars, effectVars, workerVars, sweep>>

\* stage_synthesis: the coverage is "failed" when every topic failed.
StageSynthesis(w) ==
    /\ RootWorks(w) /\ TopicsDelivered /\ result[Root] = "none"
    /\ result' = [result EXCEPT ![Root] =
                    IF \A c \in Children : result[c] = "failed" THEN "failed" ELSE "ok"]
    /\ UNCHANGED <<session, phase, rootVars, clockVars, ownerVars, moneyVars,
                   effectVars, workerVars, sweep>>

\* deliver_root: nothing unresolved or reserved anywhere in the tree.
DeliverRoot(w) ==
    /\ RootWorks(w)
    /\ \A s \in Sessions : Settled(s)
    /\ result[Root] # "none" /\ phase[Root] = DeliveryPhase /\ TopicsDelivered
    /\ LET outcome == IF result[Root] = "failed" THEN "failed" ELSE "completed"
       IN  /\ rootStatus' = outcome
           /\ session' = [session EXCEPT ![Root] = outcome]
    /\ UNCHANGED <<revision, admitted, plan, phase, result, clockVars, ownerVars,
                   moneyVars, effectVars, workerVars, sweep>>

-----------------------------------------------------------------------------
(* The owner's ways to end a run *)

MutEnded == rootStatus = "absent"
Ended == rootStatus \in Terminal \cup {"absent"}

\* halt: reachable without authority; an uncertain run stays uncertain.
Halt ==
    /\ ~ Ended
    /\ rootStatus' = IF rootStatus = "uncertain" THEN "uncertain" ELSE "halted"
    /\ StopSessions
    /\ UNCHANGED <<revision, admitted, plan, phase, result, clockVars, ownerVars,
                   moneyVars, effectVars, workerVars, sweep>>

\* What close_uncertain charges s: its unresolved effects, or a reservation
\* left without one.
MutClosingCharge(s) == 0
ClosingCharge(s) ==
    LET amounts == {effectCost[s][k] : k \in Unresolved(s)} \cup {reserved[s]}
    IN  CHOOSE m \in amounts : \A n \in amounts : n <= m

\* close_uncertain: every unresolved call is closed without an outcome and its
\* reservation becomes a charge; every account of the tree is fenced.
CloseUncertain ==
    /\ rootStatus = "uncertain"
    /\ rootStatus' = "closed"
    /\ effect' = [s \in Sessions |-> [k \in EffectKeys |->
                    IF k \in Unresolved(s) THEN "closed" ELSE effect[s][k]]]
    /\ charged' = [s \in Sessions |-> [k \in EffectKeys |->
                    IF k \in Unresolved(s) THEN effectCost[s][k] ELSE charged[s][k]]]
    /\ spent' = [s \in Sessions |-> spent[s] + ClosingCharge(s)]
    /\ costTotal' = [s \in Sessions |-> costTotal[s] + ClosingCharge(s)]
    /\ reserved' = [s \in Sessions |-> 0]
    /\ Fence(Accounts)
    /\ StopSessions
    /\ UNCHANGED <<revision, admitted, plan, phase, result, effectGen, effectCost,
                   clockVars, workerVars, sweep>>

-----------------------------------------------------------------------------
(* The recovery sweep: two transactions for each root it discovered *)

ExpiredOwners == {s \in Sessions : owner[s] # NoWorker /\ lease[s] <= now}

\* _recover_accounts: fence every expired owner; its call is uncertain.
RecoverAccounts == Doubt(ExpiredOwners) /\ Fence(ExpiredOwners)
RecoveryDoubts == \E s \in ExpiredOwners : ~ Settled(s)

\* The roots a pass visits.  Discovery closes its transaction before the first
\* stage, but a claims stage that comes late to a root no longer selected finds
\* no owner to drain, so the two are one step; the deadline stage is not.
MutSelected == rootStatus \in Active \cup Waiting \cup {"uncertain"}
Selected ==
    \/ rootStatus \in Active \cup Waiting \cup {"uncertain"}
    \/ \E s \in Sessions : owner[s] # NoWorker

\* recover_expired_claims.
SweepClaims ==
    /\ sweep = "idle" /\ Selected
    /\ RecoverAccounts
    /\ rootStatus' = IF RecoveryDoubts THEN "uncertain" ELSE rootStatus
    /\ sweep' = "deadline"
    /\ UNCHANGED <<revision, admitted, plan, sessionVars, clockVars, moneyVars,
                   effectGen, effectCost, charged, workerVars>>

\* That stage failed or timed out; the pass reports it and goes on.
SweepClaimsFails ==
    /\ sweep = "idle" /\ Selected
    /\ sweep' = "deadline"
    /\ UNCHANGED <<clockVars, rootVars, sessionVars, ownerVars, moneyVars,
                   effectVars, workerVars>>

\* expire_root before the deadline, or one that failed or timed out.
SweepDeadlineSkipped ==
    /\ sweep = "deadline"
    /\ sweep' = "idle"
    /\ UNCHANGED <<clockVars, rootVars, sessionVars, ownerVars, moneyVars,
                   effectVars, workerVars>>

\* What keeps a due run uncertain, and the statuses the deadline ends.
MutTreeDoubt == FALSE
TreeDoubt == \E s \in Sessions : ~ Settled(s)
MutExpirable == rootStatus \in Active
Expirable == rootStatus \in Active \cup Waiting

\* expire_root: drain again, then keep the doubt, or expire an open run, or
\* preserve a clean ending.
SweepDeadline ==
    /\ sweep = "deadline" /\ now >= Deadline
    /\ RecoverAccounts
    /\ rootStatus' = IF TreeDoubt THEN "uncertain"
                     ELSE IF Expirable THEN "expired" ELSE rootStatus
    /\ IF ~ TreeDoubt /\ Expirable THEN StopSessions ELSE UNCHANGED session
    /\ sweep' = "idle"
    /\ UNCHANGED <<revision, admitted, plan, phase, result, clockVars, moneyVars,
                   effectGen, effectCost, charged, workerVars>>

-----------------------------------------------------------------------------
(* The environment *)

Tick ==
    /\ now < Deadline /\ now' = now + 1
    /\ UNCHANGED <<authorized, rootVars, sessionVars, ownerVars, moneyVars,
                   effectVars, workerVars, sweep>>

\* Opt-out, archival, a changed matter or policy: _root and check_policy refuse.
Revoke ==
    /\ AuthorityMayLapse
    /\ authorized /\ authorized' = FALSE
    /\ UNCHANGED <<now, rootVars, sessionVars, ownerVars, moneyVars, effectVars,
                   workerVars, sweep>>

Restore ==
    /\ ~ authorized /\ authorized' = TRUE
    /\ UNCHANGED <<now, rootVars, sessionVars, ownerVars, moneyVars, effectVars,
                   workerVars, sweep>>

OwnerStep ==
    \/ StartPlanning \/ SavePlan \/ RevisePlan \/ Halt \/ CloseUncertain
    \/ \E r \in Revisions : Approve(r) \/ Reject(r)

PlanningStep(w) == PromotePlan(w) \/ FailPlanning(w) \/ DeliverDirect(w)

OwnershipStep(w) ==
    \/ \E s \in Sessions, seconds \in LeaseSeconds : Claim(w, s, seconds)
    \/ \E seconds \in LeaseSeconds : Renew(w, seconds)
    \/ \E k \in EffectKeys : MarkUncertain(w, k)
    \/ Release(w) \/ StopWorker(w)

EffectStep(w) ==
    \E k \in EffectKeys :
        \/ \E amount \in Reservations : BeginEffect(w, k, amount)
        \/ \E charge \in Charges : SettleEffect(w, k, charge)
        \/ RecordRefusal(w, k)

DeliveryStep(w) ==
    \/ AdmitChildren(w) \/ WaitForChildren(w)
    \/ \E p \in Phases : SetPhase(w, p)
    \/ \E outcome \in TopicOutcomes : StageTopic(w, outcome)
    \/ DeliverTopic(w) \/ FailSynthesis(w) \/ StageSynthesis(w) \/ DeliverRoot(w)

SweepStep ==
    SweepClaims \/ SweepClaimsFails \/ SweepDeadline \/ SweepDeadlineSkipped

Next ==
    \/ OwnerStep
    \/ \E s \in Sessions : ClaimUnresolved(s)
    \/ \E w \in Workers :
          PlanningStep(w) \/ OwnershipStep(w) \/ EffectStep(w) \/ DeliveryStep(w)
    \/ SweepStep
    \/ Tick \/ Revoke \/ Restore

Spec == Init /\ [][Next]_vars

\* The clock moves, and arq runs the watchdog every minute.  A stage may fail
\* now and then, but not every time; nothing is assumed of workers or the owner.
FairSpec ==
    /\ Spec
    /\ WF_vars(Tick)
    /\ WF_vars(SweepClaims \/ SweepClaimsFails) /\ SF_vars(SweepClaims)
    /\ WF_vars(SweepDeadline \/ SweepDeadlineSkipped) /\ SF_vars(SweepDeadline)

-----------------------------------------------------------------------------
(* Safety *)

ClockType == now \in 0 .. Deadline /\ authorized \in BOOLEAN
RootType ==
    /\ rootStatus \in RootStatuses
    /\ revision \in 0 .. MaxRevision /\ admitted \in 0 .. MaxRevision
    /\ plan \in [Revisions -> PlanStatuses]
SessionType ==
    /\ session \in [Sessions -> SessionStatuses]
    /\ phase \in [Sessions -> Phases]
    /\ result \in [Sessions -> {"none", "ok", "failed"}]
OwnerType ==
    /\ owner \in [Sessions -> Workers \cup {NoWorker}]
    /\ generation \in [Sessions -> Nat]
    /\ lease \in [Sessions -> 0 .. Deadline]
    /\ attempt \in [Sessions -> 0 .. Deadline]
MoneyType ==
    /\ spent \in [Sessions -> Nat]
    /\ reserved \in [Sessions -> Nat]
    /\ costTotal \in [Sessions -> Nat]
EffectType ==
    /\ effect \in [Sessions -> [EffectKeys -> EffectStatuses]]
    /\ effectGen \in [Sessions -> [EffectKeys -> Nat]]
    /\ effectCost \in [Sessions -> [EffectKeys -> Nat]]
    /\ charged \in [Sessions -> [EffectKeys -> Nat]]
WorkerType ==
    /\ claimed \in [Workers -> Sessions \cup {NoSession}]
    /\ claimGen \in [Workers -> Nat]

\* Every column stays in its domain: amounts never go below zero (the CHECKs of
\* migration 0067) and no attempt or lease reaches past the plan's deadline.
TypeOK ==
    /\ ClockType /\ RootType /\ SessionType /\ OwnerType /\ MoneyType
    /\ EffectType /\ WorkerType /\ sweep \in {"idle", "deadline"}

\* An outstanding call explains its session's reservation exactly: the money
\* set aside is that one call's estimate, and nothing is set aside without one.
\* Settling, closing, recovery and refusal must all keep the two tables in step.
ReservationsMatch ==
    \A s \in Sessions :
        /\ \A j, k \in Unresolved(s) : j = k
        /\ \A k \in Unresolved(s) : reserved[s] = effectCost[s][k]
        /\ Unresolved(s) = {} => reserved[s] = 0

\* A call is in flight only under the ownership that admitted it: whoever takes
\* or clears the account first turns the call into an uncertain one, so a new
\* owner never finds a call it could believe its own.
InFlightIsOwned ==
    \A s \in Sessions, k \in EffectKeys :
        effect[s][k] = "admitted" =>
            owner[s] # NoWorker /\ effectGen[s][k] = generation[s]

\* No two worker processes hold the same claim, and none holds a generation the
\* account has not reached: a paused worker is always behind its successor.
ClaimsAreExclusive ==
    \A v, w \in Workers :
        claimed[w] # NoSession =>
            /\ claimGen[w] <= generation[claimed[w]]
            /\ claimed[v] = claimed[w] /\ claimGen[v] = claimGen[w] => v = w

\* The children that hold capacity never exceed the approved parallelism, even
\* when a lost worker's expired claim or uncertain call still counts.
CapacityRespected == Cardinality({c \in Children : Occupied(c)}) <= MaxActiveChildren

\* Nothing beyond the one planning call exists without the owner's approval of
\* the revision now current: no child, no child's call, no combining call.
NothingRunsUnapproved ==
    \/ admitted # 0
    \/ \E c \in Children : session[c] # "absent" \/ generation[c] > 0
    \/ \E s \in Sessions : \E k \in EffectKeys \ {PlanKey} : effect[s][k] # "none"
    => /\ revision \in Revisions /\ plan[revision] = "approved"
       /\ admitted \in {0, revision}

\* A run that ended other than by a halt left no call unaccounted and no money
\* set aside, in the whole tree; a delivered one has every topic delivered.
EndedIsSettled ==
    /\ rootStatus \in Terminal \ {"halted"} =>
          \A s \in Sessions : Unresolved(s) = {} /\ reserved[s] = 0
    /\ rootStatus \in {"completed", "failed"} /\ revision # 0 => TopicsDelivered

\* An account over its allocation belongs to a run that has stopped: whatever is
\* charged, no step leaves it able to admit another call or to deliver.
OverrunStops ==
    \A s \in Sessions :
        spent[s] + reserved[s] > Allocation(s) =>
            rootStatus \in {"halted", "uncertain", "closed"}

\* What the session had cost before save_plan made it a root: a run that was
\* planned in the ledger has its planning call's receipt instead.
PriorPaid(s) ==
    IF s = Root /\ revision # 0 /\ effect[Root][PlanKey] = "none" THEN PriorCost ELSE 0

\* The units of money that the receipts of s were charged.
ChargedUnits(s) == UNION {{k} \X (1 .. charged[s][k]) : k \in EffectKeys}

\* The money the account records as spent is the prior cost plus the charges of
\* its receipts, counted unit by unit, and the session's displayed cost is that
\* same amount: _settle_effect and close_uncertain keep three tables in step.
ChargesAccounted ==
    \A s \in Sessions :
        /\ spent[s] = PriorPaid(s) + Cardinality(ChargedUnits(s))
        /\ costTotal[s] = spent[s]

\* A lease never outlives its attempt, nor the attempt the plan's deadline: after
\* the deadline no worker can pass the fence.
LeaseWithinAttempt ==
    \A s \in Sessions :
        /\ lease[s] <= attempt[s] /\ attempt[s] <= Deadline
        /\ owner[s] = NoWorker => lease[s] = 0

\* Docstrings of expire_root and mark_effect_uncertain: an unresolved effect
\* retains uncertainty, so that the owner can close the run (close_uncertain).
UncertaintyRetained ==
    (\E s \in Sessions : \E k \in EffectKeys : effect[s][k] = "uncertain")
        => rootStatus = "uncertain"

-----------------------------------------------------------------------------
(* What a step may never do *)

\* An ended run keeps its outcome; only a halted one may still turn uncertain
\* (a late call nobody settled) and an uncertain one may be halted or closed.
OutcomeFinal ==
    [][ /\ rootStatus \in Terminal \ {"halted"} => rootStatus' = rootStatus
        /\ rootStatus = "halted" => rootStatus' \in {"halted", "uncertain"}
        /\ rootStatus = "uncertain" => rootStatus' \in {"uncertain", "halted", "closed"}
      ]_vars

Forward(s, k) ==
    /\ effect[s][k] \in {"completed", "closed"} => effect'[s][k] = effect[s][k]
    /\ effect[s][k] = "uncertain" => effect'[s][k] \in {"uncertain", "closed"}
    /\ effect[s][k] = "admitted" => effect'[s][k] # "none"
    /\ effect[s][k] # "none" => effectGen'[s][k] = effectGen[s][k]

\* A receipt only moves forward: a call that was admitted once is never admitted
\* again, whatever crashes, recoveries and replays come between, and an
\* uncertain one gets no outcome other than the owner's closing it.
EffectsOnce == [][\A s \in Sessions, k \in EffectKeys : Forward(s, k)]_vars

\* Once a run is halted, uncertain or ended, no call is admitted and no session
\* gets an owner; what is in flight may only settle, be fenced or be closed.
StoppedAdmitsNothing ==
    [][ (rootStatus \in Terminal \cup {"uncertain"}) =>
          /\ \A s \in Sessions : owner'[s] \in {owner[s], NoWorker}
          /\ \A s \in Sessions, k \in EffectKeys :
                effect[s][k] = "none" => effect'[s][k] = "none"
      ]_vars

-----------------------------------------------------------------------------
(* Liveness, under FairSpec *)

\* Every run leaves its open states: by an outcome, by uncertainty, or because
\* the sweep expires it at the deadline, whatever its workers do.
RunEnds ==
    (rootStatus \in Active \cup Waiting) ~> (rootStatus \in Terminal \cup {"uncertain"})

\* A claim whose worker vanished is fenced in the end, even after a halt or an
\* outcome: the sweep looks for owned accounts whatever the root's status.
OwnershipDrains == \A s \in Sessions : owner[s] # NoWorker ~> owner[s] = NoWorker

\* No call stays in flight for ever: it settles or is recorded as uncertain.
CallsAccounted == \A s \in Sessions : InFlight(s) ~> ~ InFlight(s)

=============================================================================
