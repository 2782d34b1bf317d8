---------------------- MODULE OrchestrationControlProofs ----------------------
(***************************************************************************)
(* Who may act for a run and when it has ended: theorems about the control *)
(* columns of OrchestrationStore, for every value of its constants.        *)
(***************************************************************************)
EXTENDS OrchestrationProofs, FiniteSetTheorems

-----------------------------------------------------------------------------
(* Ownership *)

\* An account with an owner has been claimed at least once.
OwnedWasClaimed == \A s \in Sessions : owner[s] # NoWorker => generation[s] > 0

\* The inductive invariant of the ownership columns.
OwnerInv ==
    LedgerInv /\ InFlightIsOwned /\ ClaimsAreExclusive /\ LeaseWithinAttempt
    /\ OwnedWasClaimed

\* What a step may do to the ownership of accounts without taking anything over:
\* leave it, or fence it, and then no call is in flight on it any more.
Fences ==
    \A s \in Sessions :
        \/ /\ UNCHANGED <<owner[s], generation[s], lease[s], attempt[s]>>
           /\ \A k \in EffectKeys :
                 effect'[s][k] = "admitted" => effect[s][k] = "admitted"
        \/ /\ owner'[s] = NoWorker /\ generation'[s] = generation[s] + 1
           /\ lease'[s] = 0 /\ attempt'[s] = 0
           /\ \A k \in EffectKeys : effect'[s][k] # "admitted"

\* A worker drops its claim or keeps it.
Drops ==
    \A w \in Workers :
        \/ claimed'[w] = claimed[w] /\ claimGen'[w] = claimGen[w]
        \/ claimed'[w] = NoSession

\* Such steps keep the ownership columns in order.
LEMMA FencesKeep ==
    ASSUME OwnerInv, LedgerInv', Fences, Drops, UNCHANGED effectGen
    PROVE  OwnerInv'
<1> USE DEF OwnerInv, LedgerInv, TypeOK, OwnerType, WorkerType
<1>1. InFlightIsOwned'
  BY DEF Fences, InFlightIsOwned
<1>2. \A s \in Sessions : generation[s] \in Nat /\ generation'[s] \in Nat /\ generation[s] <= generation'[s]
  BY DEF Fences
<1>3. ClaimsAreExclusive'
  <2> SUFFICES ASSUME NEW v \in Workers, NEW w \in Workers, claimed'[w] # NoSession
               PROVE  /\ claimGen'[w] <= generation'[claimed'[w]]
                      /\ claimed'[v] = claimed'[w] /\ claimGen'[v] = claimGen'[w] => v = w
    BY DEF ClaimsAreExclusive
  <2>1. claimed'[w] = claimed[w] /\ claimGen'[w] = claimGen[w] /\ claimed[w] \in Sessions
    BY DEF Drops
  <2>2. claimGen'[w] <= generation'[claimed'[w]]
    BY <1>2, <2>1 DEF ClaimsAreExclusive
  <2>3. claimed'[v] = claimed'[w] => claimed'[v] = claimed[v] /\ claimGen'[v] = claimGen[v]
    BY DEF Drops
  <2> QED
    BY <2>1, <2>2, <2>3 DEF ClaimsAreExclusive
<1>4. LeaseWithinAttempt'
  BY ConstantFacts DEF Fences, LeaseWithinAttempt
<1>5. OwnedWasClaimed'
  BY DEF Fences, OwnedWasClaimed
<1> QED
  BY <1>1, <1>3, <1>4, <1>5

\* Steps that leave ownership, claims and receipts alone are among them.
LEMMA NothingFenced ==
    ASSUME UNCHANGED <<ownerVars, workerVars, effect>>
    PROVE  Fences /\ Drops
  BY DEF Fences, Drops, ownerVars, workerVars

\* So are steps that fence accounts whose calls they have doubted.
LEMMA DoubtedFences ==
    ASSUME TypeOK, NEW S, Doubt(S), Fence(S), UNCHANGED workerVars
    PROVE  Fences /\ Drops
<1>1. Drops
  BY DEF Drops, workerVars
<1>2. ASSUME NEW s \in Sessions, s \in S
      PROVE  /\ owner'[s] = NoWorker /\ generation'[s] = generation[s] + 1
             /\ lease'[s] = 0 /\ attempt'[s] = 0
             /\ \A k \in EffectKeys : effect'[s][k] # "admitted"
  BY <1>2 DEF Fence, Doubt
<1>3. ASSUME NEW s \in Sessions, s \notin S
      PROVE  /\ UNCHANGED <<owner[s], generation[s], lease[s], attempt[s]>>
             /\ \A k \in EffectKeys : effect'[s][k] = "admitted" => effect[s][k] = "admitted"
  BY <1>3 DEF Fence, Doubt
<1> QED
  BY <1>1, <1>2, <1>3 DEF Fences

\* A claim takes an account over under a new generation, with no call in flight.
LEMMA ClaimKeepsOwner ==
    ASSUME OwnerInv, LedgerInv', NEW w \in Workers, NEW s \in Sessions,
           NEW seconds \in LeaseSeconds, Claim(w, s, seconds)
    PROVE  OwnerInv'
<1> USE TreeAssumption, TimeAssumption DEF OwnerInv, LedgerInv, TypeOK, OwnerType, WorkerType, ClockType
<1>1. /\ owner' = [owner EXCEPT ![s] = w]
      /\ generation' = [generation EXCEPT ![s] = generation[s] + 1]
      /\ claimed' = [claimed EXCEPT ![w] = s]
      /\ claimGen' = [claimGen EXCEPT ![w] = generation[s] + 1]
      /\ UNCHANGED <<effect, effectGen>>
      /\ \A k \in EffectKeys : effect[s][k] # "admitted"
  BY DEF Claim, NextGeneration, effectVars, Unresolved
<1>2. InFlightIsOwned'
  BY <1>1 DEF InFlightIsOwned
<1>3. ClaimsAreExclusive'
  BY <1>1 DEF ClaimsAreExclusive
<1>4. LeaseWithinAttempt'
  <2>1. AttemptEnd \in Nat /\ AttemptEnd <= Deadline /\ now + seconds \in Nat
    BY DEF AttemptEnd, Smaller
  <2>2. Smaller(AttemptEnd, now + seconds) <= AttemptEnd
    BY <2>1 DEF Smaller
  <2>3. /\ attempt' = [attempt EXCEPT ![s] = AttemptEnd]
        /\ lease' = [lease EXCEPT ![s] = Smaller(AttemptEnd, now + seconds)]
    BY DEF Claim
  <2>4. w # NoWorker
    OBVIOUS
  <2> HIDE DEF AttemptEnd, Smaller
  <2> QED
    BY <1>1, <2>1, <2>2, <2>3, <2>4 DEF LeaseWithinAttempt
<1>5. OwnedWasClaimed'
  BY <1>1 DEF OwnedWasClaimed
<1> QED
  BY <1>2, <1>3, <1>4, <1>5

\* A renewal moves a lease, never past the attempt.
LEMMA RenewKeepsOwner ==
    ASSUME OwnerInv, LedgerInv', NEW w \in Workers, NEW seconds \in LeaseSeconds,
           Renew(w, seconds)
    PROVE  OwnerInv'
<1> PICK s : s = claimed[w]
  OBVIOUS
<1> PICK until : until = Smaller(attempt[s], now + seconds)
  OBVIOUS
<1> USE TimeAssumption DEF OwnerInv, LedgerInv, TypeOK, OwnerType, ClockType
<1>1. /\ s \in Sessions /\ owner[s] = w
      /\ lease' = [lease EXCEPT ![s] = until]
      /\ UNCHANGED <<owner, generation, attempt, effect, effectGen, claimed, claimGen>>
  BY DEF Renew, Fenced, Owns, effectVars, workerVars
<1>2. until <= attempt[s]
  BY <1>1 DEF Smaller
<1>3. LeaseWithinAttempt'
  BY <1>1, <1>2, TreeAssumption DEF LeaseWithinAttempt
<1> QED
  BY <1>1, <1>3 DEF InFlightIsOwned, ClaimsAreExclusive, OwnedWasClaimed

\* A call is admitted, settled or refused under the ownership of its worker.
LEMMA EffectKeepsOwner ==
    ASSUME OwnerInv, LedgerInv', NEW w \in Workers, EffectStep(w)
    PROVE  OwnerInv'
<1> USE TreeAssumption DEF OwnerInv, LedgerInv, TypeOK, OwnerType, WorkerType, EffectType, ownerVars, workerVars
<1>1. UNCHANGED <<owner, generation, lease, attempt, claimed, claimGen>> /\ Owns(w)
  BY DEF EffectStep, BeginEffect, SettleEffect, RecordRefusal, Fenced
<1>2. InFlightIsOwned'
  <2>1. ASSUME NEW k \in EffectKeys, NEW amount \in Reservations, BeginEffect(w, k, amount)
        PROVE  InFlightIsOwned'
    BY <1>1, <2>1 DEF BeginEffect, Owns, InFlightIsOwned
  <2>2. ASSUME NEW k \in EffectKeys, NEW charge \in Charges, SettleEffect(w, k, charge)
        PROVE  InFlightIsOwned'
    BY <1>1, <2>2 DEF SettleEffect, Owns, InFlightIsOwned
  <2>3. ASSUME NEW k \in EffectKeys, RecordRefusal(w, k)
        PROVE  InFlightIsOwned'
    BY <1>1, <2>3 DEF RecordRefusal, Owns, InFlightIsOwned
  <2> QED
    BY <2>1, <2>2, <2>3 DEF EffectStep
<1>3. ClaimsAreExclusive' /\ LeaseWithinAttempt' /\ OwnedWasClaimed'
  BY <1>1 DEF ClaimsAreExclusive, LeaseWithinAttempt, OwnedWasClaimed
<1> QED
  BY <1>2, <1>3

\* A worker that gives up an account, or its own life, only fences.
LEMMA ReleaseFences ==
    ASSUME LedgerInv, NEW w \in Workers, Release(w) \/ StopWorker(w)
    PROVE  Fences /\ Drops /\ UNCHANGED effectGen
<1> USE DEF LedgerInv, TypeOK, OwnerType, WorkerType
<1>1. Drops /\ UNCHANGED <<effect, effectGen>>
  BY DEF Release, StopWorker, DropClaim, Drops, effectVars
<1>2. CASE Release(w)
  <2>1. claimed[w] \in Sessions /\ \A k \in EffectKeys : effect[claimed[w]][k] # "admitted"
    BY <1>2 DEF Release, Fenced, Owns, Settled, Unresolved
  <2> QED
    BY <1>1, <1>2, <2>1 DEF Release, Fence, Fences
<1>3. CASE StopWorker(w)
  BY <1>1, <1>3 DEF StopWorker, ownerVars, Fences
<1> QED
  BY <1>1, <1>2, <1>3

\* Giving up a call fences the account it was made from.
LEMMA MarkFences ==
    ASSUME LedgerInv, NEW w \in Workers, NEW k \in EffectKeys, MarkUncertain(w, k)
    PROVE  Fences /\ Drops /\ UNCHANGED effectGen
<1> PICK s \in Sessions : s = claimed[w]
  BY DEF MarkUncertain, Owns
<1>1. /\ effect[s][k] = "admitted"
      /\ effect' = [effect EXCEPT ![s][k] = "uncertain"]
      /\ Fence({s}) /\ UNCHANGED <<effectGen, claimed, claimGen>>
  BY DEF MarkUncertain, workerVars
<1>2. \A j \in EffectKeys : effect'[s][j] # "admitted"
  BY <1>1 DEF LedgerInv, ReservationsMatch, Unresolved, TypeOK, EffectType
<1>3. \A t \in Sessions \ {s} : effect'[t] = effect[t]
  BY <1>1 DEF LedgerInv, TypeOK, EffectType
<1> QED
  BY <1>1, <1>2, <1>3 DEF Fence, Fences, Drops

\* Closing a run fences all its accounts and leaves no call in flight.
LEMMA CloseFences ==
    ASSUME LedgerInv, CloseUncertain
    PROVE  Fences /\ Drops /\ UNCHANGED effectGen
<1>1. \A s \in Sessions, k \in EffectKeys : effect'[s][k] # "admitted"
  BY DEF CloseUncertain, Unresolved
<1>2. Fence(Accounts) /\ UNCHANGED <<effectGen, claimed, claimGen>>
  BY DEF CloseUncertain, workerVars
<1> QED
  BY <1>1, <1>2 DEF Fence, Fences, Drops

\* Every step keeps the ownership columns in order.
LEMMA StepOwner == OwnerInv /\ [Next]_vars => OwnerInv'
<1> SUFFICES ASSUME OwnerInv, [Next]_vars PROVE OwnerInv'
  OBVIOUS
<1>1. LedgerInv /\ LedgerInv' /\ TypeOK
  BY StepType, StepReservations DEF OwnerInv, LedgerInv
<1> USE <1>1
<1>2. CASE UNCHANGED <<ownerVars, workerVars, effectVars>>
  BY <1>2, NothingFenced, FencesKeep DEF effectVars
<1>3. CASE UNCHANGED vars
  BY <1>2, <1>3 DEF vars
<1>4. CASE OwnerStep
  <2>1. CASE CloseUncertain
    BY <2>1, CloseFences, FencesKeep
  <2>2. CASE StartPlanning \/ SavePlan \/ RevisePlan \/ Halt
    BY <1>2, <2>2 DEF StartPlanning, SavePlan, RevisePlan, Halt
  <2>3. ASSUME NEW r \in Revisions, Approve(r) \/ Reject(r) PROVE OwnerInv'
    BY <1>2, <2>3 DEF Approve, Reject
  <2> QED
    BY <1>4, <2>1, <2>2, <2>3 DEF OwnerStep
<1>5. ASSUME NEW s \in Sessions, ClaimUnresolved(s) PROVE OwnerInv'
  BY <1>5, DoubtedFences, FencesKeep DEF ClaimUnresolved
<1>6. ASSUME NEW w \in Workers, PlanningStep(w) \/ DeliveryStep(w) PROVE OwnerInv'
  <2>1. UNCHANGED <<ownerVars, workerVars, effectVars>>
    BY <1>6 DEF PlanningStep, PromotePlan, FailPlanning, DeliverDirect,
                DeliveryStep, AdmitChildren, WaitForChildren, SetPhase, StageTopic,
                DeliverTopic, FailSynthesis, StageSynthesis, DeliverRoot
  <2> QED
    BY <1>2, <2>1
<1>7. ASSUME NEW w \in Workers, OwnershipStep(w) PROVE OwnerInv'
  <2>1. ASSUME NEW k \in EffectKeys, MarkUncertain(w, k) PROVE OwnerInv'
    BY <2>1, MarkFences, FencesKeep
  <2>2. CASE Release(w) \/ StopWorker(w)
    BY <2>2, ReleaseFences, FencesKeep
  <2> QED
    BY <1>7, <2>1, <2>2, ClaimKeepsOwner, RenewKeepsOwner DEF OwnershipStep
<1>8. CASE SweepStep
  <2>1. CASE SweepClaims \/ SweepDeadline
    BY <2>1, DoubtedFences, FencesKeep DEF SweepClaims, SweepDeadline, RecoverAccounts
  <2>2. CASE SweepClaimsFails \/ SweepDeadlineSkipped
    BY <1>2, <2>2 DEF SweepClaimsFails, SweepDeadlineSkipped
  <2> QED
    BY <1>8, <2>1, <2>2 DEF SweepStep
<1>9. CASE Tick \/ Revoke \/ Restore
  BY <1>2, <1>9 DEF Tick, Revoke, Restore
<1> QED
  BY <1>3, <1>4, <1>5, <1>6, <1>7, <1>8, <1>9, EffectKeepsOwner DEF Next

\* The ownership columns are in order in every reachable state.
LEMMA OwnerInvariant == Spec => []OwnerInv
<1>1. Init => OwnerInv
  <2> SUFFICES ASSUME Init PROVE OwnerInv
    OBVIOUS
  <2>1. LedgerInv
    BY InitType, InitReservations DEF LedgerInv
  <2>2. InFlightIsOwned /\ ClaimsAreExclusive /\ OwnedWasClaimed
    BY DEF Init, InFlightIsOwned, ClaimsAreExclusive, OwnedWasClaimed
  <2>3. LeaseWithinAttempt
    BY ConstantFacts DEF Init, LeaseWithinAttempt
  <2> QED
    BY <2>1, <2>2, <2>3 DEF OwnerInv
<1> QED
  BY <1>1, StepOwner, PTL DEF Spec

\* For any number of workers: a call is in flight only under the ownership that
\* admitted it, so whoever takes the account over never finds a call it could
\* believe its own (claim, begin_effect, _recover_accounts).
THEOREM InFlightCallsAreOwned == Spec => []InFlightIsOwned
<1>1. OwnerInv => InFlightIsOwned
  BY DEF OwnerInv
<1> QED
  BY <1>1, OwnerInvariant, PTL

\* For any number of workers: no two hold the same claim, and none is ahead of
\* its account's generation (claim, _fence).
THEOREM ClaimsExclude == Spec => []ClaimsAreExclusive
<1>1. OwnerInv => ClaimsAreExclusive
  BY DEF OwnerInv
<1> QED
  BY <1>1, OwnerInvariant, PTL

\* For any lease lengths and timeouts: no lease outlives its attempt or the
\* deadline, through renewals and takeovers (claim, renew_claim).
THEOREM LeasesAreBounded == Spec => []LeaseWithinAttempt
<1>1. OwnerInv => LeaseWithinAttempt
  BY DEF OwnerInv
<1> QED
  BY <1>1, OwnerInvariant, PTL

-----------------------------------------------------------------------------
(* Approval and endings *)

\* Before anything has been planned nothing has been claimed.
NotBegun == rootStatus = "absent" => revision = 0 /\ generation[Root] = 0

\* The root is claimed before there is a child, a call or a batch.
RootFirst ==
    generation[Root] = 0 =>
        /\ admitted = 0
        /\ \A c \in Children : session[c] = "absent" /\ generation[c] = 0
        /\ \A s \in Sessions, k \in EffectKeys : effect[s][k] = "none"

\* What the owner is asked to approve is a proposal.
PlanProposed ==
    rootStatus = "awaiting_approval" =>
        revision \in Revisions /\ plan[revision] = "proposed"

\* A session makes only the calls of its kind.
KeysFit ==
    \A s \in Sessions, k \in EffectKeys : effect[s][k] # "none" =>
        IF s = Root THEN k \in {PlanKey, SynthesisKey} ELSE k \in TaskKeys

\* The planning call is over before there is a plan.
PlanningOver == revision # 0 => PlanKey \notin Unresolved(Root)

\* A topic that was delivered has no call left.
DeliveredSettled ==
    \A c \in Children : session[c] \in {"completed", "failed"} => Unresolved(c) = {}

\* Nothing is outstanding or set aside in the whole tree.
Quiet == \A s \in Sessions : Unresolved(s) = {} /\ reserved[s] = 0

\* The inductive invariant of the run's control columns.
ControlInv ==
    OwnerInv /\ NotBegun /\ RootFirst /\ PlanProposed /\ KeysFit /\ PlanningOver
    /\ DeliveredSettled /\ NothingRunsUnapproved /\ EndedIsSettled

\* Whoever owns an account belongs to a run whose root has been claimed.
LEMMA OwnedHasBegun ==
    ASSUME ControlInv, NEW s \in Sessions, owner[s] # NoWorker
    PROVE  generation[s] > 0 /\ generation[Root] > 0 /\ rootStatus # "absent"
<1> USE ConstantFacts DEF ControlInv, OwnerInv, LedgerInv, TypeOK, OwnerType
<1>1. generation[s] > 0
  BY DEF OwnedWasClaimed
<1>2. generation[Root] # 0
  BY <1>1 DEF RootFirst, Sessions
<1> QED
  BY <1>1, <1>2 DEF NotBegun

\* A plan that waits for approval, or a planning call that has settled, or the
\* combining call after every topic: then the tree is quiet.
LEMMA QuietTree ==
    ASSUME ControlInv,
           \/ rootStatus = "awaiting_approval"
           \/ revision = 0 /\ effect[Root][PlanKey] = "completed"
           \/ revision # 0 /\ TopicsDelivered /\ effect[Root][SynthesisKey] = "completed"
    PROVE  Quiet
<1> USE ConstantFacts, KeyAssumption, TreeAssumption
    DEF ControlInv, OwnerInv, LedgerInv, TypeOK, RootType, EffectType, Unresolved
<1>1. CASE rootStatus = "awaiting_approval"
  <2>1. \A s \in Sessions : \A k \in EffectKeys \ {PlanKey} : effect[s][k] = "none"
    BY <1>1 DEF PlanProposed, NothingRunsUnapproved
  <2>2. \A s \in Sessions \ {Root} : effect[s][PlanKey] = "none"
    BY DEF KeysFit
  <2>3. PlanKey \notin Unresolved(Root)
    BY <1>1 DEF PlanProposed, PlanningOver, Revisions
  <2>4. \A s \in Sessions : Unresolved(s) = {}
    BY <2>1, <2>2, <2>3
  <2> QED
    BY <2>4 DEF Quiet, ReservationsMatch
<1>2. CASE revision = 0 /\ effect[Root][PlanKey] = "completed"
  <2>1. \A s \in Sessions : \A k \in EffectKeys \ {PlanKey} : effect[s][k] = "none"
    BY <1>2 DEF NothingRunsUnapproved, Revisions
  <2>2. \A s \in Sessions \ {Root} : effect[s][PlanKey] = "none"
    BY DEF KeysFit
  <2>3. \A s \in Sessions : Unresolved(s) = {}
    BY <1>2, <2>1, <2>2
  <2> QED
    BY <2>3 DEF Quiet, ReservationsMatch
<1>3. CASE revision # 0 /\ TopicsDelivered /\ effect[Root][SynthesisKey] = "completed"
  <2>1. \A c \in Children : Unresolved(c) = {}
    BY <1>3 DEF TopicsDelivered, DeliveredSettled
  <2>2. \A k \in EffectKeys : k \notin Unresolved(Root)
    BY <1>3 DEF PlanningOver, KeysFit
  <2>3. \A s \in Sessions : Unresolved(s) = {}
    BY <2>1, <2>2 DEF Sessions
  <2> QED
    BY <2>3 DEF Quiet, ReservationsMatch
<1> QED
  BY <1>1, <1>2, <1>3

\* A step that changes none of the columns it speaks of keeps the invariant.
LEMMA ControlFrame ==
    ASSUME ControlInv, OwnerInv',
           UNCHANGED <<rootVars, session, generation, effect, reserved>>
    PROVE  ControlInv'
  BY DEF rootVars, ControlInv, NotBegun, RootFirst, PlanProposed, KeysFit, PlanningOver,
         DeliveredSettled, NothingRunsUnapproved, EndedIsSettled, Unresolved, TopicsDelivered

\* So does one that fences accounts, doubts their calls and stops the run.
LEMMA FencesKeepControl ==
    ASSUME ControlInv, OwnerInv', UNCHANGED <<revision, admitted, plan, reserved>>,
           \A s \in Sessions, k \in EffectKeys : effect'[s][k] = "none" <=> effect[s][k] = "none",
           \A s \in Sessions : Unresolved(s)' = Unresolved(s),
           \A s \in Sessions :
              \/ generation'[s] = generation[s]
              \/ /\ generation'[s] > 0 /\ generation[Root] > 0
                 /\ generation[s] > 0 \/ session[s] # "absent",
           \A s \in Sessions :
              session'[s] = session[s] \/ (session[s] = "running" /\ session'[s] = "halted"),
           \/ rootStatus' = rootStatus
           \/ rootStatus # "absent" /\ rootStatus' \in {"uncertain", "halted"}
           \/ rootStatus # "absent" /\ rootStatus' = "expired" /\ Quiet
    PROVE  ControlInv'
<1> USE ConstantFacts DEF ControlInv
<1>1. (NotBegun /\ RootFirst /\ PlanProposed)'
  BY DEF NotBegun, RootFirst, PlanProposed
<1>2. (KeysFit /\ PlanningOver /\ DeliveredSettled)'
  BY DEF KeysFit, PlanningOver, DeliveredSettled
<1>3. NothingRunsUnapproved'
  BY DEF NothingRunsUnapproved
<1>4. EndedIsSettled'
  <2>1. TopicsDelivered => TopicsDelivered'
    BY DEF TopicsDelivered
  <2>2. CASE rootStatus' = rootStatus
    BY <2>1, <2>2 DEF EndedIsSettled
  <2>3. CASE rootStatus' \in {"uncertain", "halted"}
    BY <2>3 DEF EndedIsSettled, Terminal
  <2>4. CASE rootStatus' = "expired" /\ Quiet
    BY <2>4 DEF EndedIsSettled, Quiet
  <2> QED
    BY <2>2, <2>3, <2>4
<1> QED
  BY <1>1, <1>2, <1>3, <1>4

\* Where nothing has been claimed, admitted or called, nothing runs unapproved.
LEMMA NothingRunsYet ==
    ASSUME admitted' = 0,
           \A c \in Children : session'[c] = "absent" /\ generation'[c] = 0,
           \A s \in Sessions, k \in EffectKeys : effect'[s][k] = "none"
    PROVE  NothingRunsUnapproved'
  BY DEF NothingRunsUnapproved

\* What the owner and the planner do to the plan keeps it.
LEMMA PlanStepKeepsControl ==
    ASSUME ControlInv, OwnerInv',
           StartPlanning \/ SavePlan \/ RevisePlan \/ (\E r \in Revisions : Approve(r) \/ Reject(r))
    PROVE  ControlInv'
<1> USE ConstantFacts, KeyAssumption, TreeAssumption
    DEF ControlInv, OwnerInv, LedgerInv, TypeOK, RootType, SessionType, OwnerType, EffectType,
        ownerVars, effectVars, moneyVars, sessionVars, rootVars, Active, Waiting, Terminal, Revisions
<1>1. CASE StartPlanning
  <2>1. (NotBegun /\ RootFirst /\ PlanProposed)'
    BY <1>1 DEF StartPlanning, NotBegun, RootFirst, PlanProposed
  <2>2. (KeysFit /\ PlanningOver /\ DeliveredSettled)'
    BY <1>1 DEF StartPlanning, KeysFit, PlanningOver, DeliveredSettled, Unresolved, NotBegun, RootFirst
  <2>3. NothingRunsUnapproved'
    BY <1>1 DEF StartPlanning, NothingRunsUnapproved, RootFirst, NotBegun, PlanProposed
  <2>4. EndedIsSettled'
    BY <1>1 DEF StartPlanning, EndedIsSettled, TopicsDelivered, Quiet, Unresolved
  <2> QED
    BY <2>1, <2>2, <2>3, <2>4
<1>2. CASE SavePlan
  <2>1. (NotBegun /\ RootFirst /\ PlanProposed)'
    BY <1>2 DEF SavePlan, NotBegun, RootFirst, PlanProposed
  <2>2. (KeysFit /\ PlanningOver /\ DeliveredSettled)'
    BY <1>2 DEF SavePlan, KeysFit, PlanningOver, DeliveredSettled, Unresolved, NotBegun, RootFirst
  <2>3. NothingRunsUnapproved'
    BY <1>2 DEF SavePlan, NothingRunsUnapproved, RootFirst, NotBegun, PlanProposed
  <2>4. EndedIsSettled'
    BY <1>2 DEF SavePlan, EndedIsSettled, TopicsDelivered, Quiet, Unresolved
  <2> QED
    BY <2>1, <2>2, <2>3, <2>4
<1>3. CASE RevisePlan
  <2>1. (NotBegun /\ RootFirst /\ PlanProposed)'
    BY <1>3 DEF RevisePlan, Revisable, NotBegun, RootFirst, PlanProposed
  <2>2. (KeysFit /\ PlanningOver /\ DeliveredSettled)'
    BY <1>3 DEF RevisePlan, Revisable, KeysFit, PlanningOver, DeliveredSettled, Unresolved, NotBegun, RootFirst
  <2>3. NothingRunsUnapproved'
    <3>1. /\ admitted' = 0 /\ UNCHANGED <<session, generation, effect>>
          /\ generation[Root] = 0
      BY <1>3 DEF RevisePlan, Revisable
    <3>2. /\ \A c \in Children : session'[c] = "absent" /\ generation'[c] = 0
          /\ \A s \in Sessions, k \in EffectKeys : effect'[s][k] = "none"
      BY <3>1 DEF RootFirst
    <3> QED
      BY <3>1, <3>2, NothingRunsYet
  <2>4. EndedIsSettled'
    BY <1>3 DEF RevisePlan, Revisable, EndedIsSettled, TopicsDelivered, Quiet, Unresolved
  <2> QED
    BY <2>1, <2>2, <2>3, <2>4
<1>4. CASE \E r \in Revisions : Approve(r)
  <2>1. (NotBegun /\ RootFirst /\ PlanProposed)'
    BY <1>4 DEF Approve, NotBegun, RootFirst, PlanProposed
  <2>2. (KeysFit /\ PlanningOver /\ DeliveredSettled)'
    BY <1>4 DEF Approve, KeysFit, PlanningOver, DeliveredSettled, Unresolved, NotBegun, RootFirst
  <2>3. NothingRunsUnapproved'
    BY <1>4 DEF Approve, NothingRunsUnapproved, RootFirst, NotBegun, PlanProposed
  <2>4. EndedIsSettled'
    BY <1>4 DEF Approve, EndedIsSettled, TopicsDelivered, Quiet, Unresolved
  <2> QED
    BY <2>1, <2>2, <2>3, <2>4
<1>5. CASE \E r \in Revisions : Reject(r)
  <2>q. Quiet
    BY <1>5, QuietTree DEF Reject
  <2>1. (NotBegun /\ RootFirst /\ PlanProposed)'
    BY <1>5 DEF Reject, NotBegun, RootFirst, PlanProposed
  <2>2. (KeysFit /\ PlanningOver /\ DeliveredSettled)'
    BY <1>5 DEF Reject, KeysFit, PlanningOver, DeliveredSettled, Unresolved, NotBegun, RootFirst
  <2>3. NothingRunsUnapproved'
    BY <1>5 DEF Reject, NothingRunsUnapproved, RootFirst, NotBegun, PlanProposed
  <2>4. EndedIsSettled'
    BY <1>5, <2>q DEF Reject, EndedIsSettled, TopicsDelivered, Quiet, Unresolved
  <2> QED
    BY <2>1, <2>2, <2>3, <2>4
<1> QED
  BY <1>1, <1>2, <1>3, <1>4, <1>5

\* So does the end of planning, which the settled planning call makes quiet.
LEMMA PlanningStepKeepsControl ==
    ASSUME ControlInv, OwnerInv', NEW w \in Workers, PlanningStep(w)
    PROVE  ControlInv'
<1> USE ConstantFacts, KeyAssumption, TreeAssumption
    DEF ControlInv, OwnerInv, LedgerInv, TypeOK, RootType, SessionType, OwnerType, EffectType,
        ownerVars, effectVars, moneyVars, sessionVars, rootVars, Active, Waiting, Terminal, Revisions
<1> USE DEF PlanningSettled, MayExecute, Approved
<1>q. Quiet
  BY QuietTree DEF PlanningStep, PromotePlan, FailPlanning, DeliverDirect
<1>1. CASE PromotePlan(w)
  <2>1. (NotBegun /\ RootFirst /\ PlanProposed)'
    BY <1>1 DEF PromotePlan, NotBegun, RootFirst, PlanProposed
  <2>2. (KeysFit /\ PlanningOver /\ DeliveredSettled)'
    BY <1>1 DEF PromotePlan, KeysFit, PlanningOver, DeliveredSettled, Unresolved, NotBegun, RootFirst
  <2>3. NothingRunsUnapproved'
    BY <1>1 DEF PromotePlan, NothingRunsUnapproved, RootFirst, NotBegun, PlanProposed
  <2>4. EndedIsSettled'
    BY <1>1, <1>q DEF PromotePlan, EndedIsSettled, TopicsDelivered, Quiet, Unresolved
  <2> QED
    BY <2>1, <2>2, <2>3, <2>4
<1>2. CASE FailPlanning(w)
  <2>1. (NotBegun /\ RootFirst /\ PlanProposed)'
    BY <1>2 DEF FailPlanning, NotBegun, RootFirst, PlanProposed
  <2>2. (KeysFit /\ PlanningOver /\ DeliveredSettled)'
    <3>1. /\ UNCHANGED <<effect, revision>>
          /\ \A c \in Children : session'[c] = session[c]
      BY <1>2 DEF FailPlanning
    <3> QED
      BY <3>1 DEF KeysFit, PlanningOver, DeliveredSettled, Unresolved
  <2>3. NothingRunsUnapproved'
    BY <1>2 DEF FailPlanning, NothingRunsUnapproved, RootFirst, NotBegun, PlanProposed
  <2>4. EndedIsSettled'
    BY <1>2, <1>q DEF FailPlanning, EndedIsSettled, TopicsDelivered, Quiet, Unresolved
  <2> QED
    BY <2>1, <2>2, <2>3, <2>4
<1>3. CASE DeliverDirect(w)
  <2>1. (NotBegun /\ RootFirst /\ PlanProposed)'
    BY <1>3 DEF DeliverDirect, NotBegun, RootFirst, PlanProposed
  <2>2. (KeysFit /\ PlanningOver /\ DeliveredSettled)'
    <3>1. /\ UNCHANGED <<effect, revision>>
          /\ \A c \in Children : session'[c] = session[c]
      BY <1>3 DEF DeliverDirect
    <3> QED
      BY <3>1 DEF KeysFit, PlanningOver, DeliveredSettled, Unresolved
  <2>3. NothingRunsUnapproved'
    BY <1>3 DEF DeliverDirect, NothingRunsUnapproved, RootFirst, NotBegun, PlanProposed
  <2>4. EndedIsSettled'
    BY <1>3, <1>q DEF DeliverDirect, EndedIsSettled, TopicsDelivered, Quiet, Unresolved
  <2> QED
    BY <2>1, <2>2, <2>3, <2>4
<1> QED
  BY <1>1, <1>2, <1>3 DEF PlanningStep

\* A claim keeps it: planning claims the root only, and an approved run is approved.
LEMMA ClaimKeepsControl ==
    ASSUME ControlInv, OwnerInv', NEW w \in Workers, NEW s \in Sessions,
           NEW seconds \in LeaseSeconds, Claim(w, s, seconds)
    PROVE  ControlInv'
<1> USE ConstantFacts, KeyAssumption, TreeAssumption
    DEF ControlInv, OwnerInv, LedgerInv, TypeOK, RootType, SessionType, OwnerType, EffectType,
        ownerVars, effectVars, moneyVars, sessionVars, rootVars, Active, Waiting, Terminal, Revisions
<1>1. /\ generation' = [generation EXCEPT ![s] = generation[s] + 1]
      /\ rootStatus' = (IF revision = 0 THEN "planning" ELSE "running")
      /\ UNCHANGED <<revision, admitted, plan, session, effect, reserved>>
  BY DEF Claim, NextGeneration
<1>2. session[s] = "running" /\ MayExecute(s)
  BY DEF Claim, Claimable
<1>3. s # Root => generation[Root] # 0
  BY <1>2 DEF RootFirst, Sessions
<1>4. (NotBegun /\ PlanProposed)'
  BY <1>1 DEF NotBegun, PlanProposed
<1>5. RootFirst'
  <2>1. generation'[Root] # 0
    <3>1. generation[Root] \in Nat
      OBVIOUS
    <3>2. CASE s = Root
      BY <1>1, <3>1, <3>2
    <3>3. CASE s # Root
      BY <1>1, <1>3, <3>3
    <3> QED
      BY <3>2, <3>3
  <2> QED
    BY <2>1 DEF RootFirst
<1>6. (KeysFit /\ PlanningOver /\ DeliveredSettled)'
  BY <1>1 DEF KeysFit, PlanningOver, DeliveredSettled, Unresolved
<1>7. NothingRunsUnapproved'
  <2>1. CASE s = Root
    BY <1>1, <2>1 DEF NothingRunsUnapproved
  <2>2. CASE s # Root
    BY <1>1, <1>2, <2>2 DEF NothingRunsUnapproved, MayExecute, Approved
  <2> QED
    BY <2>1, <2>2
<1>8. EndedIsSettled'
  BY <1>1 DEF EndedIsSettled
<1> QED
  BY <1>4, <1>5, <1>6, <1>7, <1>8

\* So does closing: it leaves the tree quiet.
LEMMA CloseKeepsControl ==
    ASSUME ControlInv, OwnerInv', CloseUncertain
    PROVE  ControlInv'
<1> USE ConstantFacts, KeyAssumption, TreeAssumption
    DEF ControlInv, OwnerInv, LedgerInv, TypeOK, RootType, SessionType, OwnerType, EffectType,
        ownerVars, effectVars, moneyVars, sessionVars, rootVars, Active, Waiting, Terminal, Revisions
<1>1. /\ rootStatus' = "closed" /\ UNCHANGED <<revision, admitted, plan>>
      /\ \A t \in Sessions, k \in EffectKeys :
            /\ effect'[t][k] = "none" <=> effect[t][k] = "none"
            /\ effect'[t][k] \notin {"admitted", "uncertain"}
      /\ \A t \in Sessions : reserved'[t] = 0
  BY DEF CloseUncertain, Unresolved
<1>2. \A t \in Sessions :
         /\ session'[t] = session[t] \/ (session[t] = "running" /\ session'[t] = "halted")
         /\ session[t] = "absent" => generation'[t] = generation[t]
         /\ generation'[t] \in {generation[t], generation[t] + 1}
  BY DEF CloseUncertain, StopSessions, Fence, Accounts
<1>3. \A t \in Sessions : Unresolved(t)' = {}
  BY <1>1 DEF Unresolved
<1>4. (NotBegun /\ PlanProposed /\ KeysFit)'
  BY <1>1 DEF NotBegun, PlanProposed, KeysFit
<1>5. RootFirst'
  <2> SUFFICES ASSUME generation'[Root] = 0
               PROVE  /\ admitted' = 0
                      /\ \A c \in Children : session'[c] = "absent" /\ generation'[c] = 0
                      /\ \A t \in Sessions, k \in EffectKeys : effect'[t][k] = "none"
    BY DEF RootFirst
  <2>1. generation[Root] = 0
    BY <1>2
  <2>2. /\ admitted = 0
        /\ \A c \in Children : session[c] = "absent" /\ generation[c] = 0
        /\ \A t \in Sessions, k \in EffectKeys : effect[t][k] = "none"
    BY <2>1 DEF RootFirst
  <2>3. \A c \in Children : session'[c] = "absent" /\ generation'[c] = 0
    BY <1>2, <2>2
  <2> QED
    BY <1>1, <2>2, <2>3
<1>6. (PlanningOver /\ DeliveredSettled /\ EndedIsSettled)'
  BY <1>1, <1>3 DEF PlanningOver, DeliveredSettled, EndedIsSettled
<1>7. NothingRunsUnapproved'
  <2>1. \A c \in Children : session'[c] # "absent" \/ generation'[c] > 0 =>
                             session[c] # "absent" \/ generation[c] > 0
    BY <1>2
  <2>2. \A t \in Sessions : \A k \in EffectKeys :
           effect'[t][k] # "none" => effect[t][k] # "none"
    BY <1>1
  <2> QED
    BY <1>1, <2>1, <2>2 DEF NothingRunsUnapproved
<1> QED
  BY <1>4, <1>5, <1>6, <1>7

\* A step that writes one receipt leaves the others alone.
LEMMA OneReceipt ==
    ASSUME TypeOK, NEW s \in Sessions, NEW k \in EffectKeys, NEW status,
           effect' = [effect EXCEPT ![s][k] = status]
    PROVE  /\ effect'[s][k] = status
           /\ \A t \in Sessions, j \in EffectKeys :
                 t # s \/ j # k => effect'[t][j] = effect[t][j]
  BY DEF TypeOK, EffectType

\* A receipt of the session's kind fits it.
LEMMA ReceiptFits ==
    ASSUME KeysFit, NEW s \in Sessions, NEW k \in KeysOf(s),
           \A t \in Sessions, j \in EffectKeys :
              t # s \/ j # k => effect'[t][j] = effect[t][j]
    PROVE  KeysFit'
<1>1. IF s = Root THEN k \in {PlanKey, SynthesisKey} ELSE k \in TaskKeys
  BY DEF KeysOf
<1>2. ASSUME NEW t \in Sessions, NEW j \in EffectKeys, effect'[t][j] # "none"
      PROVE  IF t = Root THEN j \in {PlanKey, SynthesisKey} ELSE j \in TaskKeys
  <2>1. CASE t = s /\ j = k
    BY <1>1, <2>1
  <2>2. CASE t # s \/ j # k
    BY <1>2, <2>2 DEF KeysFit
  <2> QED
    BY <2>1, <2>2
<1> QED
  BY <1>2 DEF KeysFit

\* A new receipt comes from a session that runs in a run that has begun: it
\* keeps the invariant.
LEMMA NewReceiptKeepsControl ==
    ASSUME ControlInv, OwnerInv', NEW s \in Sessions, NEW k \in KeysOf(s),
           generation[Root] > 0, rootStatus # "absent",
           session[s] = "running", MayExecute(s),
           UNCHANGED <<rootStatus, revision, admitted, plan, session, generation>>,
           \A t \in Sessions, j \in EffectKeys :
              t # s \/ j # k => effect'[t][j] = effect[t][j]
    PROVE  ControlInv'
<1>1. (NotBegun /\ RootFirst /\ PlanProposed)'
  BY DEF ControlInv, NotBegun, RootFirst, PlanProposed
<1>2. KeysFit'
  BY ReceiptFits DEF ControlInv
<1>3. PlanningOver'
  <2>1. revision # 0 => s # Root \/ k # PlanKey
    BY KeyAssumption DEF KeysOf
  <2>2. revision # 0 => effect'[Root][PlanKey] = effect[Root][PlanKey]
    BY <2>1, ConstantFacts
  <2> QED
    BY <2>2 DEF ControlInv, PlanningOver, Unresolved
<1>4. DeliveredSettled'
  BY ConstantFacts DEF ControlInv, DeliveredSettled, Unresolved
<1>5. NothingRunsUnapproved'
  <2>1. CASE Approved
    BY <2>1 DEF ControlInv, NothingRunsUnapproved, Approved
  <2>2. CASE revision = 0 /\ s = Root
    <3>1. k = PlanKey
      BY <2>2 DEF KeysOf
    <3>2. \A t \in Sessions : \A j \in EffectKeys \ {PlanKey} : effect'[t][j] = effect[t][j]
      BY <3>1
    <3> QED
      BY <3>2 DEF ControlInv, NothingRunsUnapproved
  <2> QED
    BY <2>1, <2>2 DEF MayExecute
<1>6. EndedIsSettled'
  BY DEF EndedIsSettled, MayExecute, Approved, Terminal, Active
<1> QED
  BY <1>1, <1>2, <1>3, <1>4, <1>5, <1>6 DEF ControlInv

\* So does settling the call, which may halt the run for an overrun.
LEMMA SettlingKeepsControl ==
    ASSUME ControlInv, OwnerInv', NEW s \in Sessions, NEW k \in EffectKeys,
           generation[Root] > 0, rootStatus # "absent",
           UNCHANGED <<revision, admitted, plan, session, generation>>,
           effect[s][k] = "admitted", effect'[s][k] = "completed",
           rootStatus' \in {rootStatus, "halted"},
           \A t \in Sessions, j \in EffectKeys :
              t # s \/ j # k => effect'[t][j] = effect[t][j]
    PROVE  ControlInv'
<1>1. \A t \in Sessions, j \in EffectKeys :
         /\ effect'[t][j] = "none" <=> effect[t][j] = "none"
         /\ effect'[t][j] \in {"admitted", "uncertain"} => effect[t][j] \in {"admitted", "uncertain"}
  <2> TAKE t \in Sessions, j \in EffectKeys
  <2>1. CASE t = s /\ j = k
    BY <2>1
  <2>2. CASE t # s \/ j # k
    BY <2>2
  <2> QED
    BY <2>1, <2>2
<1>2. (NotBegun /\ RootFirst /\ PlanProposed)'
  BY DEF ControlInv, NotBegun, RootFirst, PlanProposed
<1>3. KeysFit'
  BY <1>1 DEF ControlInv, KeysFit
<1>4. (PlanningOver /\ DeliveredSettled)'
  <2>1. \A t \in Sessions : Unresolved(t)' \subseteq Unresolved(t)
    BY <1>1 DEF Unresolved
  <2> QED
    BY <2>1, ConstantFacts DEF ControlInv, PlanningOver, DeliveredSettled
<1>5. NothingRunsUnapproved'
  BY <1>1 DEF ControlInv, NothingRunsUnapproved
<1>6. rootStatus \notin Terminal \ {"halted"}
  BY DEF ControlInv, EndedIsSettled, Unresolved
<1>7. EndedIsSettled'
  BY <1>6 DEF EndedIsSettled, Terminal
<1> QED
  BY <1>2, <1>3, <1>4, <1>5, <1>7 DEF ControlInv

\* A call is admitted or refused in a claimed session that runs, and settles in one
\* that need not: no such step ends a run.
LEMMA EffectKeepsControl ==
    ASSUME ControlInv, OwnerInv', NEW w \in Workers, EffectStep(w)
    PROVE  ControlInv'
<1> PICK s \in Sessions : s = claimed[w] /\ owner[s] = w
  BY DEF EffectStep, BeginEffect, SettleEffect, RecordRefusal, Fenced, Owns
<1>1. generation[Root] > 0 /\ rootStatus # "absent"
  BY OwnedHasBegun, TreeAssumption
<1>2. UNCHANGED <<revision, admitted, plan, session, generation>>
  BY DEF EffectStep, BeginEffect, SettleEffect, RecordRefusal, ownerVars, rootVars, sessionVars
<1>t. TypeOK
  BY DEF ControlInv, OwnerInv, LedgerInv
<1>3. ASSUME NEW k \in EffectKeys, NEW amount \in Reservations, BeginEffect(w, k, amount)
      PROVE  ControlInv'
  <2>1. /\ effect' = [effect EXCEPT ![s][k] = "admitted"]
        /\ k \in KeysOf(s) /\ session[s] = "running" /\ MayExecute(s) /\ UNCHANGED rootStatus
    BY <1>3 DEF BeginEffect, rootVars
  <2>2. \A t \in Sessions, j \in EffectKeys : t # s \/ j # k => effect'[t][j] = effect[t][j]
    BY <1>t, <2>1, OneReceipt
  <2> QED
    BY <1>1, <1>2, <2>1, <2>2, NewReceiptKeepsControl
<1>4. ASSUME NEW k \in EffectKeys, RecordRefusal(w, k)
      PROVE  ControlInv'
  <2>1. /\ effect' = [effect EXCEPT ![s][k] = "completed"]
        /\ k \in KeysOf(s) /\ session[s] = "running" /\ MayExecute(s) /\ UNCHANGED rootStatus
    BY <1>4 DEF RecordRefusal, MayExecute, rootVars
  <2>2. \A t \in Sessions, j \in EffectKeys : t # s \/ j # k => effect'[t][j] = effect[t][j]
    BY <1>t, <2>1, OneReceipt
  <2> QED
    BY <1>1, <1>2, <2>1, <2>2, NewReceiptKeepsControl
<1>5. ASSUME NEW k \in EffectKeys, NEW charge \in Charges, SettleEffect(w, k, charge)
      PROVE  ControlInv'
  <2>1. /\ effect[s][k] = "admitted" /\ effect' = [effect EXCEPT ![s][k] = "completed"]
        /\ rootStatus' \in {rootStatus, "halted"}
    BY <1>5 DEF SettleEffect
  <2>2. /\ effect'[s][k] = "completed"
        /\ \A t \in Sessions, j \in EffectKeys : t # s \/ j # k => effect'[t][j] = effect[t][j]
    BY <1>t, <2>1, OneReceipt
  <2> QED
    BY <1>1, <1>2, <2>1, <2>2, SettlingKeepsControl
<1> QED
  BY <1>3, <1>4, <1>5 DEF EffectStep

\* What is not taken over by the steps that fence, doubt or stop keeps its receipts.
LEMMA DoubtMoves ==
    ASSUME TypeOK, NEW S, Doubt(S)
    PROVE  /\ \A s \in Sessions, k \in EffectKeys : effect'[s][k] = "none" <=> effect[s][k] = "none"
           /\ \A s \in Sessions : Unresolved(s)' = Unresolved(s)
  BY DEF Doubt, Unresolved, TypeOK, EffectType

\* So do the steps that fence: a release, a call given up, a claim of unresolved
\* work, and both stages of the sweep.
LEMMA ReleaseKeepsControl ==
    ASSUME ControlInv, OwnerInv', NEW w \in Workers, Release(w)
    PROVE  ControlInv'
<1> PICK s \in Sessions : s = claimed[w] /\ owner[s] = w
  BY DEF Release, Fenced, Owns
<1>1. generation[s] > 0 /\ generation[Root] > 0
  BY OwnedHasBegun, TreeAssumption
<1>t. TypeOK
  BY DEF ControlInv, OwnerInv, LedgerInv
<1>2. UNCHANGED <<rootStatus, revision, admitted, plan, reserved, effect, session>>
  BY DEF Release, rootVars, moneyVars, effectVars, sessionVars
<1>3. generation' = [t \in Sessions |-> IF t \in {s} THEN generation[t] + 1 ELSE generation[t]]
  BY DEF Release, Fence
<1>4. \A t \in Sessions :
         \/ generation'[t] = generation[t]
         \/ /\ generation'[t] > 0 /\ generation[Root] > 0
            /\ generation[t] > 0 \/ session[t] # "absent"
  BY <1>1, <1>3, <1>t DEF TypeOK, OwnerType
<1>5. \A t \in Sessions : Unresolved(t)' = Unresolved(t)
  BY <1>2 DEF Unresolved
<1> QED
  BY <1>2, <1>4, <1>5, FencesKeepControl

\* A call given up.
LEMMA MarkKeepsControl ==
    ASSUME ControlInv, OwnerInv', NEW w \in Workers, NEW k \in EffectKeys, MarkUncertain(w, k)
    PROVE  ControlInv'
<1> PICK s \in Sessions : s = claimed[w] /\ owner[s] = w
  BY DEF MarkUncertain, Owns
<1>1. generation[s] > 0 /\ generation[Root] > 0 /\ rootStatus # "absent"
  BY OwnedHasBegun, TreeAssumption
<1>t. TypeOK
  BY DEF ControlInv, OwnerInv, LedgerInv
<1>2. /\ UNCHANGED <<revision, admitted, plan, reserved, session>> /\ rootStatus' = "uncertain"
      /\ effect[s][k] = "admitted" /\ effect' = [effect EXCEPT ![s][k] = "uncertain"]
  BY DEF MarkUncertain, moneyVars, sessionVars
<1>3. generation' = [t \in Sessions |-> IF t \in {s} THEN generation[t] + 1 ELSE generation[t]]
  BY DEF MarkUncertain, Fence
<1>4. \A t \in Sessions :
         \/ generation'[t] = generation[t]
         \/ /\ generation'[t] > 0 /\ generation[Root] > 0
            /\ generation[t] > 0 \/ session[t] # "absent"
  BY <1>1, <1>3, <1>t DEF TypeOK, OwnerType
<1>5. /\ \A t \in Sessions, j \in EffectKeys : effect'[t][j] = "none" <=> effect[t][j] = "none"
      /\ \A t \in Sessions : Unresolved(t)' = Unresolved(t)
  BY <1>2, <1>t DEF Unresolved, TypeOK, EffectType
<1> QED
  BY <1>1, <1>2, <1>4, <1>5, FencesKeepControl

\* A claim that finds a call left behind.
LEMMA ClaimUnresolvedKeepsControl ==
    ASSUME ControlInv, OwnerInv', NEW s \in Sessions, ClaimUnresolved(s)
    PROVE  ControlInv'
<1>t. TypeOK
  BY DEF ControlInv, OwnerInv, LedgerInv
<1>1. PICK k \in EffectKeys : effect[s][k] # "none"
  BY DEF ClaimUnresolved, Unresolved
<1>2. generation[Root] \in Nat /\ generation[Root] # 0 /\ rootStatus # "absent"
  BY <1>1, <1>t, ConstantFacts DEF ControlInv, RootFirst, NotBegun, TypeOK, OwnerType
<1>3. /\ UNCHANGED <<revision, admitted, plan, reserved, session>> /\ rootStatus' = "uncertain"
      /\ session[s] = "running"
      /\ generation' = [t \in Sessions |-> IF t \in {s} THEN generation[t] + 1 ELSE generation[t]]
  BY DEF ClaimUnresolved, Claimable, Fence, moneyVars, sessionVars
<1>4. \A t \in Sessions :
         \/ generation'[t] = generation[t]
         \/ /\ generation'[t] > 0 /\ generation[Root] > 0
            /\ generation[t] > 0 \/ session[t] # "absent"
  BY <1>2, <1>3, <1>t DEF TypeOK, OwnerType
<1>5. /\ \A t \in Sessions, j \in EffectKeys : effect'[t][j] = "none" <=> effect[t][j] = "none"
      /\ \A t \in Sessions : Unresolved(t)' = Unresolved(t)
  BY <1>t, DoubtMoves DEF ClaimUnresolved
<1> QED
  BY <1>2, <1>3, <1>4, <1>5, FencesKeepControl

\* What fencing the expired owners does to the generations.
LEMMA RecoveryFences ==
    ASSUME ControlInv, RecoverAccounts
    PROVE  /\ \A s \in Sessions :
                 \/ generation'[s] = generation[s]
                 \/ /\ generation'[s] > 0 /\ generation[Root] > 0
                    /\ generation[s] > 0 \/ session[s] # "absent"
           /\ \A s \in Sessions, k \in EffectKeys : effect'[s][k] = "none" <=> effect[s][k] = "none"
           /\ \A s \in Sessions : Unresolved(s)' = Unresolved(s)
<1>t. TypeOK
  BY DEF ControlInv, OwnerInv, LedgerInv
<1>1. \A s \in ExpiredOwners : generation[s] > 0 /\ generation[Root] > 0
  BY OwnedHasBegun DEF ExpiredOwners
<1>2. \A s \in Sessions :
         generation'[s] = IF s \in ExpiredOwners THEN generation[s] + 1 ELSE generation[s]
  BY DEF RecoverAccounts, Fence
<1>3. \A s \in Sessions :
         \/ generation'[s] = generation[s]
         \/ /\ generation'[s] > 0 /\ generation[Root] > 0
            /\ generation[s] > 0 \/ session[s] # "absent"
  BY <1>1, <1>2, <1>t DEF TypeOK, OwnerType
<1> QED
  BY <1>3, <1>t, DoubtMoves DEF RecoverAccounts

\* The two stages of the sweep.
LEMMA SweepKeepsControl ==
    ASSUME ControlInv, OwnerInv', SweepStep
    PROVE  ControlInv'
<1>t. TypeOK
  BY DEF ControlInv, OwnerInv, LedgerInv
<1>1. CASE SweepClaims
  <2>1. UNCHANGED <<revision, admitted, plan, reserved, session>>
    BY <1>1 DEF SweepClaims, moneyVars, sessionVars
  <2>2. \/ rootStatus' = rootStatus
        \/ rootStatus # "absent" /\ rootStatus' = "uncertain"
    <3>1. RecoveryDoubts => rootStatus # "absent"
      BY OwnedHasBegun DEF RecoveryDoubts, ExpiredOwners
    <3> QED
      BY <1>1, <3>1 DEF SweepClaims
  <2> QED
    BY <1>1, <2>1, <2>2, RecoveryFences, FencesKeepControl DEF SweepClaims
<1>2. CASE SweepDeadline
  <2>1. UNCHANGED <<revision, admitted, plan, reserved>>
    BY <1>2 DEF SweepDeadline, moneyVars
  <2>2. \A s \in Sessions :
           session'[s] = session[s] \/ (session[s] = "running" /\ session'[s] = "halted")
    BY <1>2 DEF SweepDeadline, StopSessions
  <2>3. ~ TreeDoubt => Quiet
    BY DEF TreeDoubt, Quiet, Settled
  <2>4. TreeDoubt => rootStatus # "absent"
    <3>1. rootStatus = "absent" => \A s \in Sessions : Unresolved(s) = {}
      BY DEF ControlInv, NotBegun, RootFirst, Unresolved
    <3> QED
      BY <3>1 DEF TreeDoubt, Settled, ControlInv, OwnerInv, LedgerInv, ReservationsMatch
  <2>5. \/ rootStatus' = rootStatus
        \/ rootStatus # "absent" /\ rootStatus' = "uncertain"
        \/ rootStatus # "absent" /\ rootStatus' = "expired" /\ Quiet
    BY <1>2, <2>3, <2>4 DEF SweepDeadline, Expirable, Active, Waiting
  <2> QED
    BY <1>2, <2>1, <2>2, <2>5, RecoveryFences, FencesKeepControl DEF SweepDeadline
<1>3. CASE SweepClaimsFails \/ SweepDeadlineSkipped
  BY <1>3, ControlFrame
  DEF SweepClaimsFails, SweepDeadlineSkipped, sessionVars, ownerVars, effectVars, moneyVars
<1> QED
  BY <1>1, <1>2, <1>3 DEF SweepStep

\* The owner's halt leaves the calls as they are.
LEMMA HaltKeepsControl ==
    ASSUME ControlInv, OwnerInv', Halt
    PROVE  ControlInv'
<1>1. UNCHANGED <<revision, admitted, plan, reserved, effect, generation>>
  BY DEF Halt, moneyVars, effectVars, ownerVars
<1>2. \A s \in Sessions :
         session'[s] = session[s] \/ (session[s] = "running" /\ session'[s] = "halted")
  BY DEF Halt, StopSessions
<1>3. rootStatus # "absent" /\ rootStatus' \in {"uncertain", "halted"}
  BY DEF Halt, Ended
<1>4. \A s \in Sessions : Unresolved(s)' = Unresolved(s)
  BY <1>1 DEF Unresolved
<1> QED
  BY <1>1, <1>2, <1>3, <1>4, FencesKeepControl

\* What an approved run's worker does to sessions and statuses keeps it, when it
\* delivers only what is settled and ends only a quiet tree.
LEMMA DeliveringKeepsControl ==
    ASSUME ControlInv, OwnerInv', Approved, generation[Root] > 0,
           UNCHANGED <<revision, plan, generation, effect, reserved>>,
           admitted' \in {admitted, revision},
           \A c \in Children :
              session'[c] \in {"completed", "failed"} => Unresolved(c) = {},
           \/ rootStatus' \in {"waiting_children", rootStatus}
           \/ rootStatus' \in {"completed", "failed"} /\ Quiet /\ TopicsDelivered'
    PROVE  ControlInv'
<1>1. (NotBegun /\ RootFirst /\ PlanProposed)'
  BY DEF Approved, Active, NotBegun, RootFirst, PlanProposed
<1>2. (KeysFit /\ PlanningOver)'
  BY DEF ControlInv, KeysFit, PlanningOver, Unresolved
<1>3. DeliveredSettled'
  BY DEF DeliveredSettled, Unresolved
<1>4. NothingRunsUnapproved'
  BY DEF ControlInv, NothingRunsUnapproved, Approved
<1>5. EndedIsSettled'
  <2>1. CASE rootStatus' \in {"waiting_children", rootStatus}
    BY <2>1 DEF EndedIsSettled, Approved, Active, Terminal
  <2>2. CASE rootStatus' \in {"completed", "failed"} /\ Quiet /\ TopicsDelivered'
    BY <2>2 DEF EndedIsSettled, Quiet, Unresolved
  <2> QED
    BY <2>1, <2>2
<1> QED
  BY <1>1, <1>2, <1>3, <1>4, <1>5 DEF ControlInv

\* So does every step of an approved run.
LEMMA DeliveryKeepsControl ==
    ASSUME ControlInv, OwnerInv', NEW w \in Workers, DeliveryStep(w)
    PROVE  ControlInv'
<1>t. TypeOK /\ DeliveredSettled
  BY DEF ControlInv, OwnerInv, LedgerInv
<1>1. ASSUME \/ \E p \in Phases : SetPhase(w, p)
             \/ \E outcome \in TopicOutcomes : StageTopic(w, outcome)
             \/ StageSynthesis(w)
      PROVE  ControlInv'
  BY <1>1, ControlFrame
  DEF SetPhase, StageTopic, StageSynthesis, ownerVars, effectVars, moneyVars
<1>2. ASSUME AdmitChildren(w) \/ WaitForChildren(w) \/ DeliverTopic(w)
             \/ FailSynthesis(w) \/ DeliverRoot(w)
      PROVE  ControlInv'
  <2>1. claimed[w] \in Sessions /\ owner[claimed[w]] = w /\ Approved
    BY <1>2 DEF AdmitChildren, WaitForChildren, DeliverTopic, FailSynthesis, DeliverRoot,
                RootWorks, Fenced, Owns
  <2>2. generation[Root] > 0
    BY <2>1, OwnedHasBegun, TreeAssumption
  <2>3. UNCHANGED <<revision, plan, generation, effect, reserved>>
    BY <1>2 DEF AdmitChildren, WaitForChildren, DeliverTopic, FailSynthesis, DeliverRoot,
                rootVars, ownerVars, effectVars, moneyVars
  <2>4. CASE AdmitChildren(w)
    <3>1. \A c \in Children : session'[c] = "running"
      BY <2>4, ConstantFacts DEF AdmitChildren
    <3>2. admitted' = revision /\ rootStatus' = "waiting_children"
      BY <2>4 DEF AdmitChildren
    <3> QED
      BY <2>1, <2>2, <2>3, <3>1, <3>2, DeliveringKeepsControl
  <2>5. CASE WaitForChildren(w)
    <3>1. UNCHANGED <<admitted, session>> /\ rootStatus' = "waiting_children"
      BY <2>5 DEF WaitForChildren, sessionVars
    <3> QED
      BY <1>t, <2>1, <2>2, <2>3, <3>1, DeliveringKeepsControl DEF DeliveredSettled
  <2>6. CASE DeliverTopic(w)
    <3>1. /\ UNCHANGED <<admitted, rootStatus>>
          /\ Unresolved(claimed[w]) = {}
          /\ \A c \in Children : c # claimed[w] => session'[c] = session[c]
      BY <2>6, <1>t, ConstantFacts DEF DeliverTopic, rootVars, Settled, TypeOK, SessionType
    <3> QED
      BY <1>t, <2>1, <2>2, <2>3, <3>1, DeliveringKeepsControl DEF DeliveredSettled
  <2>7. CASE FailSynthesis(w) \/ DeliverRoot(w)
    <3>1. /\ UNCHANGED admitted /\ rootStatus' \in {"completed", "failed"}
          /\ TopicsDelivered
          /\ \A c \in Children : session'[c] = session[c]
      BY <2>7, <1>t, ConstantFacts, TreeAssumption
      DEF FailSynthesis, DeliverRoot, TypeOK, SessionType
    <3>2. TopicsDelivered'
      BY <3>1 DEF TopicsDelivered
    <3>3. Quiet
      <4>1. CASE FailSynthesis(w)
        <5>1. revision # 0 /\ effect[Root][SynthesisKey] = "completed"
          BY <2>1, <4>1, MoneyAssumption DEF FailSynthesis, Approved, Revisions
        <5> QED
          BY <3>1, <5>1, QuietTree
      <4>2. CASE DeliverRoot(w)
        BY <4>2 DEF DeliverRoot, Quiet, Settled
      <4> QED
        BY <2>7, <4>1, <4>2
    <3> QED
      BY <1>t, <2>1, <2>2, <2>3, <3>1, <3>2, <3>3, DeliveringKeepsControl DEF DeliveredSettled
  <2> QED
    BY <1>2, <2>4, <2>5, <2>6, <2>7
<1> QED
  BY <1>1, <1>2 DEF DeliveryStep

\* Every step keeps the control columns in order.
LEMMA StepControl == ControlInv /\ [Next]_vars => ControlInv'
<1> SUFFICES ASSUME ControlInv, [Next]_vars PROVE ControlInv'
  OBVIOUS
<1>o. OwnerInv'
  BY StepOwner DEF ControlInv
<1> USE <1>o
<1>1. CASE UNCHANGED vars
  BY <1>1, ControlFrame DEF vars, sessionVars, ownerVars, effectVars, moneyVars
<1>2. CASE OwnerStep
  BY <1>2, PlanStepKeepsControl, HaltKeepsControl, CloseKeepsControl DEF OwnerStep
<1>3. ASSUME NEW w \in Workers, OwnershipStep(w) PROVE ControlInv'
  <2>1. ASSUME NEW seconds \in LeaseSeconds, Renew(w, seconds) PROVE ControlInv'
    BY <2>1, ControlFrame DEF Renew, sessionVars, effectVars, moneyVars
  <2>2. CASE StopWorker(w)
    BY <2>2, ControlFrame DEF StopWorker, sessionVars, ownerVars, effectVars, moneyVars
  <2> QED
    BY <1>3, <2>1, <2>2, ClaimKeepsControl, MarkKeepsControl, ReleaseKeepsControl
    DEF OwnershipStep
<1>4. CASE Tick \/ Revoke \/ Restore
  BY <1>4, ControlFrame DEF Tick, Revoke, Restore, sessionVars, ownerVars, effectVars, moneyVars
<1> QED
  BY <1>1, <1>2, <1>3, <1>4, ClaimUnresolvedKeepsControl, PlanningStepKeepsControl,
     EffectKeepsControl, DeliveryKeepsControl, SweepKeepsControl DEF Next

\* The control columns are in order in every reachable state.
LEMMA ControlInvariant == Spec => []ControlInv
<1>1. Init => ControlInv
  <2> SUFFICES ASSUME Init PROVE ControlInv
    OBVIOUS
  <2>1. LedgerInv
    BY InitType, InitReservations DEF LedgerInv
  <2>2. InFlightIsOwned /\ ClaimsAreExclusive /\ OwnedWasClaimed /\ LeaseWithinAttempt
    BY ConstantFacts
    DEF Init, InFlightIsOwned, ClaimsAreExclusive, OwnedWasClaimed, LeaseWithinAttempt
  <2>3. NotBegun /\ RootFirst /\ PlanProposed /\ KeysFit /\ PlanningOver /\ DeliveredSettled
    BY ConstantFacts
    DEF Init, NotBegun, RootFirst, PlanProposed, KeysFit, PlanningOver, DeliveredSettled
  <2>4. NothingRunsUnapproved /\ EndedIsSettled
    BY ConstantFacts DEF Init, NothingRunsUnapproved, EndedIsSettled, Terminal
  <2> QED
    BY <2>1, <2>2, <2>3, <2>4 DEF ControlInv, OwnerInv
<1> QED
  BY <1>1, StepControl, PTL DEF Spec

\* For any tree, revisions and workers: no child, no child's call and no combining
\* call exists unless the owner approved the revision that is current
\* (_approved, admit_children, begin_effect, claim).
THEOREM ApprovalComesFirst == Spec => []NothingRunsUnapproved
<1>1. ControlInv => NothingRunsUnapproved
  BY DEF ControlInv
<1> QED
  BY <1>1, ControlInvariant, PTL

\* For any tree, revisions and workers: a run that completed, failed, was
\* rejected, expired or was closed left no call unaccounted and no money set
\* aside (finish_planning, fail_synthesis, deliver_root, expire_root, reject).
THEOREM EndingsAreSettled == Spec => []EndedIsSettled
<1>1. ControlInv => EndedIsSettled
  BY DEF ControlInv
<1> QED
  BY <1>1, ControlInvariant, PTL

-----------------------------------------------------------------------------
(* What a step may never do *)

\* An ending stands: the statuses a step may lead to from an ended run.
OutcomeStands ==
    /\ rootStatus \in Terminal \ {"halted"} => rootStatus' = rootStatus
    /\ rootStatus = "halted" => rootStatus' \in {"halted", "uncertain"}
    /\ rootStatus = "uncertain" => rootStatus' \in {"uncertain", "halted", "closed"}

\* A run with a call unresolved has not ended, except by a halt.
LEMMA UnresolvedIsOpen ==
    ASSUME ControlInv, NEW s \in Sessions, ~ Settled(s)
    PROVE  rootStatus \notin Terminal \ {"halted"}
  BY DEF ControlInv, EndedIsSettled, Settled

\* No step of an owner, a worker or the sweep undoes an ending.
LEMMA StepOutcome == ControlInv /\ [Next]_vars => OutcomeStands
<1> SUFFICES ASSUME ControlInv, [Next]_vars PROVE OutcomeStands
  OBVIOUS
<1> USE DEF OutcomeStands, Terminal, Active, Waiting, rootVars
<1>1. CASE UNCHANGED rootStatus
  BY <1>1
<1>2. CASE OwnerStep
  BY <1>2 DEF OwnerStep, StartPlanning, SavePlan, RevisePlan, Revisable, Halt, Ended,
              CloseUncertain, Approve, Reject
<1>3. ASSUME NEW s \in Sessions, ClaimUnresolved(s) PROVE OutcomeStands
  BY <1>3 DEF ClaimUnresolved, Claimable, MayExecute, Approved
<1>4. ASSUME NEW w \in Workers, PlanningStep(w) \/ DeliveryStep(w) PROVE OutcomeStands
  <2>1. CASE MayExecute(Root)
    BY <1>4, <2>1 DEF PlanningStep, PromotePlan, FailPlanning, DeliverDirect, PlanningSettled,
                DeliveryStep, AdmitChildren, WaitForChildren, SetPhase, StageTopic,
                DeliverTopic, FailSynthesis, StageSynthesis, DeliverRoot, MayExecute, Approved
  <2>2. MayExecute(Root) \/ UNCHANGED rootStatus
    BY <1>4 DEF PlanningStep, PromotePlan, FailPlanning, DeliverDirect, PlanningSettled,
                DeliveryStep, AdmitChildren, WaitForChildren, SetPhase, StageTopic,
                DeliverTopic, FailSynthesis, StageSynthesis, DeliverRoot, MayExecute, RootWorks
  <2> QED
    BY <1>1, <2>1, <2>2
<1>5. ASSUME NEW w \in Workers, NEW s \in Sessions, NEW seconds \in LeaseSeconds,
             Claim(w, s, seconds)
      PROVE  OutcomeStands
  BY <1>5 DEF Claim, Claimable, MayExecute, Approved
<1>6. ASSUME NEW w \in Workers, NEW k \in EffectKeys,
             MarkUncertain(w, k) \/ (\E charge \in Charges : SettleEffect(w, k, charge))
      PROVE  OutcomeStands
  <2>1. claimed[w] \in Sessions /\ ~ Settled(claimed[w])
    BY <1>6 DEF MarkUncertain, SettleEffect, Fenced, Owns, Settled, Unresolved
  <2>2. rootStatus \notin Terminal \ {"halted"}
    BY <2>1, UnresolvedIsOpen
  <2> QED
    BY <1>6, <2>2 DEF MarkUncertain, SettleEffect
<1>7. CASE SweepStep
  <2>1. RecoveryDoubts \/ TreeDoubt => rootStatus \notin Terminal \ {"halted"}
    BY UnresolvedIsOpen DEF RecoveryDoubts, ExpiredOwners, TreeDoubt
  <2> QED
    BY <1>7, <2>1 DEF SweepStep, SweepClaims, SweepDeadline, Expirable, SweepClaimsFails,
                      SweepDeadlineSkipped
<1>8. ASSUME NEW w \in Workers, OwnershipStep(w) PROVE OutcomeStands
  BY <1>1, <1>5, <1>6, <1>8 DEF OwnershipStep, Renew, Release, StopWorker
<1>9. ASSUME NEW w \in Workers, EffectStep(w) PROVE OutcomeStands
  BY <1>1, <1>6, <1>9 DEF EffectStep, BeginEffect, RecordRefusal
<1> QED
  BY <1>1, <1>2, <1>3, <1>4, <1>7, <1>8, <1>9 DEF Next, vars, Tick, Revoke, Restore

\* For any tree, workers and timings: an ended run keeps its outcome whatever comes
\* late, and uncertainty ends only by a halt or the owner's closing
\* (halt, expire_root, mark_effect_uncertain, _settle_effect).
THEOREM OutcomesStand == Spec => OutcomeFinal
<1>1. ControlInv /\ [Next]_vars => [OutcomeStands]_vars
  BY StepOutcome
<1>2. Spec => [][OutcomeStands]_vars
  BY <1>1, ControlInvariant, PTL DEF Spec
<1>3. [OutcomeStands]_vars =>
        [ /\ rootStatus \in Terminal \ {"halted"} => rootStatus' = rootStatus
          /\ rootStatus = "halted" => rootStatus' \in {"halted", "uncertain"}
          /\ rootStatus = "uncertain" => rootStatus' \in {"uncertain", "halted", "closed"}
        ]_vars
  BY DEF OutcomeStands
<1> QED
  BY <1>2, <1>3, PTL DEF OutcomeFinal

\* Nothing is taken over and nothing is called.
GainsNothing ==
    /\ \A s \in Sessions : owner'[s] \in {owner[s], NoWorker}
    /\ \A s \in Sessions, k \in EffectKeys : effect[s][k] = "none" => effect'[s][k] = "none"

\* The steps that do otherwise: a claim, an admission and a refusal.
Gains ==
    \E w \in Workers :
        \/ \E s \in Sessions, seconds \in LeaseSeconds : Claim(w, s, seconds)
        \/ \E k \in EffectKeys, amount \in Reservations : BeginEffect(w, k, amount)
        \/ \E k \in EffectKeys : RecordRefusal(w, k)

\* Fencing and doubting gain nothing.
LEMMA FencingGainsNothing ==
    ASSUME NEW S, Fence(S), Doubt(S)
    PROVE  GainsNothing
  BY DEF Fence, Doubt, GainsNothing

\* Every other step gains nothing.
LEMMA OnlyGains == TypeOK /\ [Next]_vars => GainsNothing \/ Gains
<1> SUFFICES ASSUME TypeOK, [Next]_vars PROVE GainsNothing \/ Gains
  OBVIOUS
<1> USE DEF ownerVars, effectVars
<1>1. UNCHANGED <<owner, effect>> => GainsNothing
  BY DEF GainsNothing
<1>2. CASE OwnerStep
  <2>1. CASE CloseUncertain
    BY <2>1 DEF CloseUncertain, Fence, Unresolved, GainsNothing
  <2> QED
    BY <1>1, <1>2, <2>1 DEF OwnerStep, StartPlanning, SavePlan, RevisePlan, Halt, Approve, Reject
<1>3. ASSUME NEW s \in Sessions, ClaimUnresolved(s) PROVE GainsNothing
  BY <1>3, FencingGainsNothing DEF ClaimUnresolved
<1>4. ASSUME NEW w \in Workers, PlanningStep(w) \/ DeliveryStep(w) PROVE GainsNothing
  BY <1>1, <1>4 DEF PlanningStep, PromotePlan, FailPlanning, DeliverDirect,
              DeliveryStep, AdmitChildren, WaitForChildren, SetPhase, StageTopic,
              DeliverTopic, FailSynthesis, StageSynthesis, DeliverRoot
<1>5. ASSUME NEW w \in Workers, OwnershipStep(w) PROVE GainsNothing \/ Gains
  <2>1. ASSUME NEW k \in EffectKeys, MarkUncertain(w, k) PROVE GainsNothing
    BY <2>1 DEF MarkUncertain, Owns, Fence, GainsNothing, TypeOK, EffectType
  <2>2. CASE Release(w)
    BY <2>2 DEF Release, Fence, GainsNothing
  <2>3. ASSUME NEW seconds \in LeaseSeconds, Renew(w, seconds) PROVE GainsNothing
    BY <1>1, <2>3 DEF Renew
  <2>4. CASE StopWorker(w)
    BY <1>1, <2>4 DEF StopWorker
  <2>5. ASSUME NEW s \in Sessions, NEW seconds \in LeaseSeconds, Claim(w, s, seconds)
        PROVE  Gains
    BY <2>5 DEF Gains
  <2> QED
    BY <1>5, <2>1, <2>2, <2>3, <2>4, <2>5 DEF OwnershipStep
<1>6. ASSUME NEW w \in Workers, EffectStep(w) PROVE GainsNothing \/ Gains
  <2>1. ASSUME NEW k \in EffectKeys, NEW charge \in Charges, SettleEffect(w, k, charge)
        PROVE  GainsNothing
    BY <2>1 DEF SettleEffect, Fenced, Owns, GainsNothing, TypeOK, EffectType
  <2>2. ASSUME NEW k \in EffectKeys, NEW amount \in Reservations, BeginEffect(w, k, amount)
        PROVE  Gains
    BY <2>2 DEF Gains
  <2>3. ASSUME NEW k \in EffectKeys, RecordRefusal(w, k) PROVE Gains
    BY <2>3 DEF Gains
  <2> QED
    BY <1>6, <2>1, <2>2, <2>3 DEF EffectStep
<1>7. CASE SweepStep
  BY <1>1, <1>7, FencingGainsNothing
  DEF SweepStep, SweepClaims, SweepDeadline, RecoverAccounts, SweepClaimsFails, SweepDeadlineSkipped
<1>8. CASE Tick \/ Revoke \/ Restore
  BY <1>1, <1>8 DEF Tick, Revoke, Restore
<1> QED
  BY <1>1, <1>2, <1>3, <1>4, <1>5, <1>6, <1>7, <1>8 DEF Next, vars

\* For any tree and workers: once a run is halted, uncertain or ended nobody takes
\* an account over and no call is admitted (claim, begin_effect, record_refusal).
THEOREM StoppedRunsAdmitNothing == Spec => StoppedAdmitsNothing
<1> DEFINE Stops == rootStatus \in Terminal \cup {"uncertain"} => GainsNothing
<1>1. Gains => rootStatus \notin Terminal \cup {"uncertain"}
  <2>1. ASSUME NEW w \in Workers, NEW s \in Sessions, NEW seconds \in LeaseSeconds,
               Claim(w, s, seconds)
        PROVE  \E t : MayExecute(t)
    BY <2>1 DEF Claim, Claimable
  <2>3. ASSUME NEW w \in Workers, NEW k \in EffectKeys, NEW amount \in Reservations,
               BeginEffect(w, k, amount)
        PROVE  \E t : MayExecute(t)
    BY <2>3 DEF BeginEffect
  <2>4. ASSUME NEW w \in Workers, NEW k \in EffectKeys, RecordRefusal(w, k)
        PROVE  \E t : MayExecute(t)
    BY <2>4 DEF RecordRefusal, MayExecute
  <2>2. ASSUME NEW s, MayExecute(s) PROVE rootStatus \notin Terminal \cup {"uncertain"}
    BY <2>2 DEF MayExecute, Approved, Active, Terminal
  <2> QED
    BY <2>1, <2>2, <2>3, <2>4 DEF Gains
<1>2. TypeOK /\ [Next]_vars => [Stops]_vars
  BY <1>1, OnlyGains
<1>3. Spec => [][Stops]_vars
  BY <1>2, TypeCorrect, PTL DEF Spec
<1>4. [Stops]_vars =>
        [ (rootStatus \in Terminal \cup {"uncertain"}) =>
            /\ \A s \in Sessions : owner'[s] \in {owner[s], NoWorker}
            /\ \A s \in Sessions, k \in EffectKeys :
                  effect[s][k] = "none" => effect'[s][k] = "none"
        ]_vars
  BY DEF GainsNothing
<1> QED
  BY <1>3, <1>4, PTL DEF StoppedAdmitsNothing

-----------------------------------------------------------------------------
(* The approved parallelism *)

\* The children that hold capacity.
Holders == {c \in Children : Occupied(c)}

\* A step that gains nothing frees capacity or leaves it.
LEMMA GainsNoCapacity ==
    ASSUME TypeOK, TypeOK', Forwards, GainsNothing
    PROVE  Holders' \subseteq Holders
<1>1. ASSUME NEW s \in Sessions PROVE Unresolved(s)' \subseteq Unresolved(s)
  <2> SUFFICES ASSUME NEW k \in EffectKeys, effect'[s][k] \in {"admitted", "uncertain"}
               PROVE  effect[s][k] \in {"admitted", "uncertain"}
    BY DEF Unresolved
  <2>1. effect[s][k] # "none" /\ effect[s][k] \in EffectStatuses
    BY DEF GainsNothing, TypeOK, EffectType
  <2>2. Forward(s, k)
    BY DEF Forwards
  <2> QED
    BY <2>1, <2>2 DEF Forward, EffectStatuses
<1>2. ASSUME NEW c \in Children, Occupied(c)' PROVE Occupied(c)
  BY <1>1, <1>2, ConstantFacts DEF Occupied, GainsNothing
<1> QED
  BY <1>2 DEF Holders

\* A worker that makes or refuses a call holds the account already.
LEMMA CallsNeedNoCapacity ==
    ASSUME TypeOK, NEW w \in Workers, NEW k \in EffectKeys,
           RecordRefusal(w, k) \/ (\E amount \in Reservations : BeginEffect(w, k, amount))
    PROVE  Holders' \subseteq Holders
<1> PICK s \in Sessions : s = claimed[w] /\ owner[s] = w
  BY DEF BeginEffect, RecordRefusal, Fenced, Owns
<1>1. UNCHANGED owner
  BY DEF BeginEffect, RecordRefusal, ownerVars
<1>2. PICK status : effect' = [effect EXCEPT ![s][k] = status]
  BY DEF BeginEffect, RecordRefusal
<1>3. \A t \in Sessions \ {s} : Unresolved(t)' = Unresolved(t)
  BY <1>2 DEF Unresolved, TypeOK, EffectType
<1>4. ASSUME NEW c \in Children, Occupied(c)' PROVE Occupied(c)
  BY <1>1, <1>3, <1>4, ConstantFacts, TreeAssumption DEF Occupied
<1> QED
  BY <1>4 DEF Holders

\* A claim adds one holder, and only where the plan leaves room for it.
LEMMA ClaimTakesRoom ==
    ASSUME TypeOK, CapacityRespected, NEW w \in Workers, NEW s \in Sessions,
           NEW seconds \in LeaseSeconds, Claim(w, s, seconds)
    PROVE  CapacityRespected'
<1> DEFINE Others == {c \in Children \ {s} : Occupied(c)}
<1>1. owner' = [owner EXCEPT ![s] = w] /\ UNCHANGED effect
  BY DEF Claim, effectVars
<1>2. ASSUME NEW c \in Children, c # s, Occupied(c)' PROVE Occupied(c)
  BY <1>1, <1>2, ConstantFacts DEF Occupied, Unresolved, TypeOK, OwnerType
<1>3. IsFiniteSet(Others) /\ IsFiniteSet(Holders) /\ IsFiniteSet(Others \cup {s})
  <2>1. Others \subseteq Children /\ Holders \subseteq Children
    BY DEF Holders
  <2> HIDE DEF Others
  <2>2. IsFiniteSet(Others) /\ IsFiniteSet(Holders)
    BY <2>1, TreeAssumption, FS_Subset
  <2> QED
    BY <2>2, FS_AddElement
<1>4. CASE s = Root
  <2>1. Holders' \subseteq Holders
    BY <1>2, <1>4, TreeAssumption DEF Holders
  <2>2. Cardinality(Holders') <= Cardinality(Holders)
        /\ Cardinality(Holders') \in Nat /\ Cardinality(Holders) \in Nat
    BY <1>3, <2>1, FS_Subset, FS_CardinalityType
  <2> QED
    BY <2>2, MoneyAssumption DEF CapacityRespected, Holders
<1>5. CASE s # Root
  <2>1. Cardinality(Others) < MaxActiveChildren
    BY <1>5 DEF Claim, Claimable, CapacityLeft
  <2>2. Holders' \subseteq Others \cup {s}
    BY <1>2 DEF Holders
  <2> HIDE DEF Others
  <2>3. Cardinality(Others \cup {s}) <= Cardinality(Others) + 1
        /\ Cardinality(Others) \in Nat /\ Cardinality(Others \cup {s}) \in Nat
    BY <1>3, FS_AddElement, FS_CardinalityType
  <2>4. Cardinality(Holders') <= Cardinality(Others \cup {s}) /\ Cardinality(Holders') \in Nat
    BY <1>3, <2>2, FS_Subset, FS_CardinalityType
  <2> QED
    BY <2>1, <2>3, <2>4, MoneyAssumption DEF CapacityRespected, Holders
<1> QED
  BY <1>4, <1>5

\* The holders never outgrow the plan.
LEMMA StepCapacity ==
    LedgerInv /\ LedgerInv' /\ CapacityRespected /\ [Next]_vars => CapacityRespected'
<1> SUFFICES ASSUME LedgerInv, LedgerInv', CapacityRespected, [Next]_vars
             PROVE  CapacityRespected'
  OBVIOUS
<1>t. TypeOK /\ TypeOK' /\ Forwards
  BY StepForward DEF LedgerInv
<1>1. ASSUME Holders' \subseteq Holders PROVE CapacityRespected'
  <2>1. IsFiniteSet(Holders)
    <3>1. Holders \subseteq Children
      BY DEF Holders
    <3> QED
      BY <3>1, TreeAssumption, FS_Subset
  <2>2. Cardinality(Holders') <= Cardinality(Holders)
        /\ Cardinality(Holders') \in Nat /\ Cardinality(Holders) \in Nat
    BY <1>1, <2>1, FS_Subset, FS_CardinalityType
  <2> QED
    BY <2>2, MoneyAssumption DEF CapacityRespected, Holders
<1>2. CASE GainsNothing
  BY <1>t, <1>1, <1>2, GainsNoCapacity
<1>3. CASE Gains
  <2>1. PICK w \in Workers :
           \/ \E s \in Sessions, seconds \in LeaseSeconds : Claim(w, s, seconds)
           \/ \E k \in EffectKeys, amount \in Reservations : BeginEffect(w, k, amount)
           \/ \E k \in EffectKeys : RecordRefusal(w, k)
    BY <1>3 DEF Gains
  <2> QED
    BY <1>t, <1>1, <2>1, ClaimTakesRoom, CallsNeedNoCapacity
<1> QED
  BY <1>t, <1>2, <1>3, OnlyGains

\* For any batch and parallelism: the children that hold capacity never exceed the
\* approved number, lost workers and uncertain calls counted (claim).
THEOREM ParallelismIsRespected == Spec => []CapacityRespected
<1>1. Init => CapacityRespected
  <2> SUFFICES ASSUME Init PROVE CapacityRespected
    OBVIOUS
  <2>1. {c \in Children : Occupied(c)} = {}
    BY ConstantFacts DEF Init, Occupied, Unresolved
  <2>2. Cardinality({c \in Children : Occupied(c)}) = 0
    BY <2>1, FS_EmptySet
  <2>3. MaxActiveChildren \in Nat
    BY MoneyAssumption
  <2> QED
    BY <2>2, <2>3 DEF CapacityRespected
<1>2. LedgerInv /\ LedgerInv' /\ CapacityRespected /\ [Next]_vars => CapacityRespected'
  BY StepCapacity
<1> QED
  BY <1>1, <1>2, LedgerInvariant, PTL DEF Spec

-----------------------------------------------------------------------------
(* Overruns *)

\* What an account has used or set aside fits its allocation.
Within(s) == spent[s] + reserved[s] <= Allocation(s)

\* A step that neither spends nor reserves nor changes the plan overdraws nobody.
LEMMA SameMoney ==
    ASSUME OverrunStops, OutcomeStands, UNCHANGED <<spent, reserved>>,
           Allocation(Root)' = Allocation(Root)
    PROVE  OverrunStops'
<1>1. \A s \in Sessions : Allocation(s)' = Allocation(s)
  BY DEF Allocation
<1> QED
  BY <1>1 DEF OverrunStops, OutcomeStands, Terminal

\* An account that fits after the step belongs to no overrun.
LEMMA FittingStep ==
    ASSUME OverrunStops, OutcomeStands, TypeOK', NEW s \in Sessions,
           Within(s)' \/ rootStatus' = "halted",
           \A t \in Sessions \ {s} : spent'[t] = spent[t] /\ reserved'[t] = reserved[t],
           s = Root \/ UNCHANGED revision
    PROVE  OverrunStops'
<1>1. \A t \in Sessions \ {s} : Allocation(t)' = Allocation(t)
  BY DEF Allocation
<1>2. ASSUME NEW t \in Sessions, spent'[t] + reserved'[t] > Allocation(t)'
      PROVE  rootStatus' \in {"halted", "uncertain", "closed"}
  <2>1. CASE t # s
    BY <1>1, <1>2, <2>1 DEF OverrunStops, OutcomeStands, Terminal
  <2>2. CASE t = s
    <3>1. spent'[s] \in Nat /\ reserved'[s] \in Nat
      BY DEF TypeOK, MoneyType
    <3>2. Allocation(s)' \in Nat
      <4>1. RootAllowance \in [Revisions -> Nat] /\ ChildBudget \in [Children -> Nat] /\ MaxRevision \in Nat \ {0}
        BY MoneyAssumption
      <4> QED
        BY <4>1 DEF Allocation, TypeOK, RootType, Revisions, Sessions
    <3> QED
      BY <1>2, <2>2, <3>1, <3>2 DEF Within
  <2> QED
    BY <2>1, <2>2
<1> QED
  BY <1>2 DEF OverrunStops

\* Every step stops the run whose account it overdraws.
LEMMA StepOverrun ==
    ASSUME PlanningAllowance <= RootAllowance[1],
           ControlInv, LedgerInv', OverrunStops, [Next]_vars
    PROVE  OverrunStops'
<1>t. TypeOK /\ TypeOK' /\ ReservationsMatch
  BY DEF LedgerInv, ControlInv, OwnerInv
<1>o. OutcomeStands
  BY StepOutcome
<1>m. /\ RootAllowance \in [Revisions -> Nat] /\ 1 \in Revisions
      /\ ChildBudget \in [Children -> Nat]
      /\ PlanningAllowance \in Nat /\ PriorCost \in Nat
      /\ Charges \subseteq Nat /\ Reservations \subseteq Nat
  BY MoneyAssumption DEF Revisions
<1>1. UNCHANGED <<spent, reserved, revision>> => OverrunStops'
  <2> SUFFICES ASSUME UNCHANGED <<spent, reserved, revision>> PROVE OverrunStops'
    OBVIOUS
  <2>1. Allocation(Root)' = Allocation(Root)
    BY DEF Allocation
  <2> QED
    BY <1>o, <2>1, SameMoney
<1> USE DEF moneyVars, rootVars
<1>2. CASE OwnerStep
  <2>1. CASE SavePlan
    <3>1. /\ rootStatus = "absent" /\ revision' = 1 /\ reserved' = reserved
          /\ spent' = [spent EXCEPT ![Root] = PriorCost] /\ PriorCost <= RootAllowance[1]
      BY <2>1 DEF SavePlan
    <3>2. reserved[Root] = 0
      <4>1. Unresolved(Root) = {}
        BY <3>1, ConstantFacts DEF ControlInv, NotBegun, RootFirst, Unresolved
      <4> QED
        BY <1>t, <4>1, ConstantFacts DEF ReservationsMatch
    <3>3. Within(Root)'
      BY <1>m, <1>t, <3>1, <3>2, ConstantFacts DEF Within, Allocation, TypeOK, MoneyType
    <3>4. \A t \in Sessions \ {Root} : spent'[t] = spent[t] /\ reserved'[t] = reserved[t]
      BY <1>t, <3>1 DEF TypeOK, MoneyType
    <3> QED
      BY <1>t, <1>o, <3>3, <3>4, FittingStep, ConstantFacts
  <2>2. CASE RevisePlan
    <3>1. /\ revision' = revision + 1 /\ revision \in Nat /\ revision + 1 \in Revisions
          /\ UNCHANGED <<spent, reserved>> /\ reserved[Root] = 0
          /\ spent[Root] <= RootAllowance[revision + 1]
      BY <1>t, <2>2 DEF RevisePlan, Revisable, TypeOK, RootType
    <3>2. revision + 1 # 0
      BY <3>1
    <3>3. Within(Root)'
      BY <1>m, <1>t, <3>1, <3>2, ConstantFacts DEF Within, Allocation, TypeOK, MoneyType
    <3> QED
      BY <1>t, <1>o, <3>1, <3>3, FittingStep, ConstantFacts
  <2>3. CASE CloseUncertain
    BY <2>3 DEF CloseUncertain, OverrunStops
  <2> QED
    BY <1>1, <1>2, <2>1, <2>2, <2>3
    DEF OwnerStep, StartPlanning, Halt, Approve, Reject
<1>3. ASSUME NEW w \in Workers, PlanningStep(w) PROVE OverrunStops'
  <2>1. CASE PromotePlan(w)
    <3>1. UNCHANGED <<spent, reserved>> /\ revision = 0 /\ revision' = 1
      BY <2>1 DEF PromotePlan, PlanningSettled
    <3>2. Allocation(Root)' = Allocation(Root)
      BY <3>1 DEF Allocation
    <3> QED
      BY <1>o, <3>1, <3>2, SameMoney
  <2> QED
    BY <1>1, <1>3, <2>1 DEF PlanningStep, FailPlanning, DeliverDirect
<1>4. ASSUME NEW w \in Workers, EffectStep(w) PROVE OverrunStops'
  <2> PICK s \in Sessions : s = claimed[w] /\ owner[s] = w
    BY <1>4 DEF EffectStep, BeginEffect, SettleEffect, RecordRefusal, Fenced, Owns
  <2>1. ASSUME NEW k \in EffectKeys, NEW amount \in Reservations, BeginEffect(w, k, amount)
        PROVE  OverrunStops'
    <3>1. /\ MayExecute(s) /\ UNCHANGED <<spent, revision>>
          /\ reserved' = [reserved EXCEPT ![s] = @ + amount]
          /\ spent[s] + reserved[s] + amount <=
                (IF revision = 0 THEN PlanningAllowance ELSE Allocation(s))
      BY <2>1 DEF BeginEffect
    <3>2. revision = 0 => s = Root
      BY <3>1 DEF MayExecute, Approved, Revisions
    <3>3. revision # 0 => Allocation(s)' = Allocation(s)
      BY <3>1 DEF Allocation
    <3>4. spent[s] \in Nat /\ reserved[s] \in Nat /\ reserved'[s] = reserved[s] + amount /\ amount \in Nat
      BY <1>m, <1>t, <3>1 DEF TypeOK, MoneyType
    <3>5. Within(s)'
      <4>1. CASE revision = 0
        <5>1. Allocation(s)' = RootAllowance[1] /\ RootAllowance[1] \in Nat
          BY <1>m, <3>1, <3>2, <4>1 DEF Allocation
        <5> QED
          BY <1>m, <3>1, <3>4, <4>1, <5>1 DEF Within
      <4>2. CASE revision # 0
        BY <3>1, <3>3, <3>4, <4>2 DEF Within
      <4> QED
        BY <4>1, <4>2
    <3>6. \A t \in Sessions \ {s} : spent'[t] = spent[t] /\ reserved'[t] = reserved[t]
      BY <1>t, <3>1 DEF TypeOK, MoneyType
    <3> QED
      BY <1>t, <1>o, <3>1, <3>5, <3>6, FittingStep
  <2>2. ASSUME NEW k \in EffectKeys, NEW charge \in Charges, SettleEffect(w, k, charge)
        PROVE  OverrunStops'
    <3>1. /\ UNCHANGED revision /\ effect[s][k] = "admitted"
          /\ reserved' = [reserved EXCEPT ![s] = StillReserved(s, k)]
          /\ spent' = [spent EXCEPT ![s] = @ + charge]
          /\ rootStatus' = IF Overdrawn(s, k, charge) THEN "halted" ELSE rootStatus
      BY <2>2 DEF SettleEffect
    <3>2. Allocation(s)' = Allocation(s)
      BY <3>1 DEF Allocation
    <3>3. StillReserved(s, k) = 0 /\ spent[s] \in Nat /\ charge \in Nat
      BY <1>m, <1>t, <3>1, NothingStaysReserved DEF LedgerInv, TypeOK, MoneyType
    <3>4. Allocation(s) \in Nat
      <4>1. MaxRevision \in Nat \ {0}
        BY MoneyAssumption
      <4> QED
        BY <1>m, <1>t, <4>1 DEF Allocation, TypeOK, RootType, Revisions, Sessions
    <3>5. spent'[s] = spent[s] + charge /\ reserved'[s] = 0
      BY <1>t, <3>1, <3>3 DEF TypeOK, MoneyType
    <3>6. Within(s)' \/ rootStatus' = "halted"
      BY <3>1, <3>2, <3>3, <3>4, <3>5 DEF Within, Overdrawn
    <3>7. \A t \in Sessions \ {s} : spent'[t] = spent[t] /\ reserved'[t] = reserved[t]
      BY <1>t, <3>1 DEF TypeOK, MoneyType
    <3> QED
      BY <1>t, <1>o, <3>1, <3>6, <3>7, FittingStep
  <2>3. ASSUME NEW k \in EffectKeys, RecordRefusal(w, k) PROVE OverrunStops'
    BY <1>1, <2>3 DEF RecordRefusal
  <2> QED
    BY <1>4, <2>1, <2>2, <2>3 DEF EffectStep
<1>5. ASSUME NEW w \in Workers, OwnershipStep(w) \/ DeliveryStep(w) PROVE OverrunStops'
  <2>1. UNCHANGED <<spent, reserved, revision>>
    BY <1>5 DEF OwnershipStep, Claim, Renew, MarkUncertain, Release, StopWorker,
                DeliveryStep, AdmitChildren, WaitForChildren, SetPhase, StageTopic,
                DeliverTopic, FailSynthesis, StageSynthesis, DeliverRoot
  <2> QED
    BY <1>1, <2>1
<1>6. CASE SweepStep \/ Tick \/ Revoke \/ Restore \/ (\E s \in Sessions : ClaimUnresolved(s))
  BY <1>1, <1>6 DEF SweepStep, SweepClaims, SweepDeadline, SweepClaimsFails, SweepDeadlineSkipped,
              Tick, Revoke, Restore, ClaimUnresolved
<1> QED
  BY <1>1, <1>2, <1>3, <1>4, <1>5, <1>6 DEF Next, vars

\* For any tree and amounts a call may really cost, when planning gets no more than
\* the first plan's root allowance (intake.py, one unit of three against two): an
\* account over its allocation belongs to a run that has stopped (_settle_effect).
THEOREM OverrunsStopRuns ==
    ASSUME PlanningAllowance <= RootAllowance[1]
    PROVE  Spec => []OverrunStops
<1>1. Init => OverrunStops
  <2>1. RootAllowance \in [Revisions -> Nat] /\ ChildBudget \in [Children -> Nat] /\ 1 \in Revisions
    BY MoneyAssumption DEF Revisions
  <2>2. Init => \A s \in Sessions : Allocation(s) \in Nat
    BY <2>1 DEF Init, Allocation, Sessions
  <2> QED
    BY <2>2 DEF Init, OverrunStops
<1>2. ControlInv /\ LedgerInv' /\ OverrunStops /\ [Next]_vars => OverrunStops'
  BY StepOverrun
<1> QED
  BY <1>1, <1>2, ControlInvariant, LedgerInvariant, PTL DEF Spec

-----------------------------------------------------------------------------
(* Charges *)

\* A receipt is charged only when its call is over.
ChargedWhenOver ==
    \A s \in Sessions, k \in EffectKeys :
        effect[s][k] \notin {"completed", "closed"} => charged[s][k] = 0

\* The inductive invariant behind the accounts: a call that is still out has cost
\* nothing yet, so what it is charged when it ends is counted once.
ChargesInv == ControlInv /\ ChargedWhenOver /\ ChargesAccounted

\* The units charged to a session are finitely many.
LEMMA FiniteUnits ==
    ASSUME TypeOK, NEW s \in Sessions
    PROVE  IsFiniteSet(ChargedUnits(s)) /\ Cardinality(ChargedUnits(s)) \in Nat
<1> DEFINE UnitsOf == [k \in EffectKeys |-> {k} \X (1 .. charged[s][k])]
           Parts == {{k} \X (1 .. charged[s][k]) : k \in EffectKeys}
<1>1. IsFiniteSet(EffectKeys)
  <2>1. IsFiniteSet({PlanKey}) /\ IsFiniteSet({SynthesisKey}) /\ IsFiniteSet(TaskKeys)
    BY TaskAssumption, FS_Singleton
  <2>2. IsFiniteSet({PlanKey} \cup {SynthesisKey})
    BY <2>1, FS_Union
  <2>3. IsFiniteSet(({PlanKey} \cup {SynthesisKey}) \cup TaskKeys)
    BY <2>1, <2>2, FS_Union
  <2>4. EffectKeys = ({PlanKey} \cup {SynthesisKey}) \cup TaskKeys
    BY DEF EffectKeys
  <2> QED
    BY <2>3, <2>4
<1>2. UnitsOf \in Surjection(EffectKeys, Parts)
  BY DEF Surjection
<1>3. IsFiniteSet(Parts)
  BY <1>1, <1>2, FS_Surjection
<1>4. \A part \in Parts : IsFiniteSet(part)
  <2>1. ASSUME NEW k \in EffectKeys PROVE IsFiniteSet({k} \X (1 .. charged[s][k]))
    <3>1. charged[s][k] \in Int
      BY DEF TypeOK, EffectType
    <3>2. IsFiniteSet(1 .. charged[s][k])
      BY <3>1, FS_Interval
    <3>3. IsFiniteSet({k})
      BY FS_Singleton
    <3> QED
      BY <3>2, <3>3, FS_Product
  <2> QED
    BY <2>1
<1>5. IsFiniteSet(UNION Parts)
  BY <1>3, <1>4, FS_UNION
<1> QED
  BY <1>5, FS_CardinalityType DEF ChargedUnits

\* Charging a receipt that had cost nothing adds that many units.
LEMMA UnitsAdded ==
    ASSUME TypeOK, TypeOK', NEW s \in Sessions, NEW k \in EffectKeys, charged[s][k] = 0,
           \A j \in EffectKeys \ {k} : charged'[s][j] = charged[s][j]
    PROVE  Cardinality(ChargedUnits(s)') = Cardinality(ChargedUnits(s)) + charged'[s][k]
<1> DEFINE Added == {k} \X (1 .. charged'[s][k])
<1>1. charged'[s][k] \in Nat
  BY DEF TypeOK, EffectType
<1>2. IsFiniteSet(Added) /\ Cardinality(Added) = charged'[s][k]
  <2>1. IsFiniteSet({k}) /\ Cardinality({k}) = 1
    BY FS_Singleton
  <2>2. IsFiniteSet(1 .. charged'[s][k]) /\ Cardinality(1 .. charged'[s][k]) = charged'[s][k]
    <3>1. 1 \in Int /\ charged'[s][k] \in Int
      BY <1>1
    <3>2. /\ IsFiniteSet(1 .. charged'[s][k])
          /\ Cardinality(1 .. charged'[s][k])
               = IF 1 > charged'[s][k] THEN 0 ELSE charged'[s][k] - 1 + 1
      BY <3>1, FS_Interval
    <3>3. charged'[s][k] = IF 1 > charged'[s][k] THEN 0 ELSE charged'[s][k] - 1 + 1
      BY <1>1
    <3> QED
      BY <3>2, <3>3
  <2>3. /\ IsFiniteSet({k} \X (1 .. charged'[s][k]))
        /\ Cardinality({k} \X (1 .. charged'[s][k]))
             = Cardinality({k}) * Cardinality(1 .. charged'[s][k])
    BY <2>1, <2>2, FS_Product
  <2>4. Cardinality({k}) * Cardinality(1 .. charged'[s][k]) = charged'[s][k]
    BY <1>1, <2>1, <2>2
  <2> QED
    BY <2>3, <2>4
<1>3. 1 .. charged[s][k] = {}
  OBVIOUS
<1>4. ChargedUnits(s)' = ChargedUnits(s) \cup Added
  BY <1>3 DEF ChargedUnits
<1>5. ChargedUnits(s) \cap Added = {}
  BY <1>3 DEF ChargedUnits
<1>6. /\ IsFiniteSet(ChargedUnits(s)) /\ Cardinality(ChargedUnits(s)) \in Nat
      /\ Cardinality({}) = 0
  BY FiniteUnits, FS_EmptySet
<1>7. Cardinality(ChargedUnits(s) \cup Added)
        = Cardinality(ChargedUnits(s)) + Cardinality(Added) - Cardinality(ChargedUnits(s) \cap Added)
  BY <1>2, <1>6, FS_Union
<1>8. Cardinality(ChargedUnits(s) \cup Added) = Cardinality(ChargedUnits(s)) + charged'[s][k]
  <2>1. /\ Cardinality(ChargedUnits(s) \cap Added) = 0 /\ Cardinality(Added) = charged'[s][k]
        /\ Cardinality(ChargedUnits(s)) \in Nat /\ charged'[s][k] \in Nat
    BY <1>1, <1>2, <1>5, <1>6
  <2> HIDE DEF Added
  <2> QED
    BY <1>7, <2>1
<1> QED
  BY <1>4, <1>8

\* A session whose receipts do not change has the same units.
LEMMA UnitsKept ==
    ASSUME NEW s \in Sessions, \A k \in EffectKeys : charged'[s][k] = charged[s][k]
    PROVE  ChargedUnits(s)' = ChargedUnits(s)
  BY DEF ChargedUnits

\* The prior cost of a session stays what it was, except when save_plan sets it.
LEMMA PriorKept ==
    ASSUME ControlInv, [Next]_vars, ~ SavePlan, NEW s \in Sessions
    PROVE  PriorPaid(s)' = PriorPaid(s)
<1> USE ConstantFacts, KeyAssumption, TreeAssumption DEF PriorPaid, rootVars, effectVars
<1>t. TypeOK
  BY DEF ControlInv, OwnerInv, LedgerInv
<1>1. (UNCHANGED revision /\ (effect'[Root][PlanKey] = "none" <=> effect[Root][PlanKey] = "none"))
        => PriorPaid(s)' = PriorPaid(s)
  OBVIOUS
<1>2. CASE OwnerStep
  <2>1. CASE RevisePlan
    BY <1>t, <2>1 DEF RevisePlan, TypeOK, RootType
  <2>2. CASE CloseUncertain
    BY <1>1, <2>2 DEF CloseUncertain, Unresolved
  <2> QED
    BY <1>1, <1>2, <2>1, <2>2 DEF OwnerStep, StartPlanning, Halt, Approve, Reject
<1>3. ASSUME NEW w \in Workers, PlanningStep(w) PROVE PriorPaid(s)' = PriorPaid(s)
  <2>1. CASE PromotePlan(w)
    BY <2>1 DEF PromotePlan, PlanningSettled
  <2> QED
    BY <1>1, <1>3, <2>1 DEF PlanningStep, FailPlanning, DeliverDirect
<1>4. ASSUME NEW w \in Workers, EffectStep(w) PROVE PriorPaid(s)' = PriorPaid(s)
  <2> PICK t \in Sessions : t = claimed[w]
    BY <1>4 DEF EffectStep, BeginEffect, SettleEffect, RecordRefusal, Fenced, Owns
  <2>1. ASSUME NEW k \in EffectKeys, NEW amount \in Reservations, BeginEffect(w, k, amount)
        PROVE  PriorPaid(s)' = PriorPaid(s)
    <3>1. UNCHANGED revision /\ k \in KeysOf(t) /\ effect' = [effect EXCEPT ![t][k] = "admitted"]
      BY <2>1 DEF BeginEffect
    <3>2. revision = 0 \/ t # Root \/ k # PlanKey
      BY <3>1 DEF KeysOf
    <3>3. revision # 0 => effect'[Root][PlanKey] = effect[Root][PlanKey]
      BY <1>t, <3>1, <3>2 DEF TypeOK, EffectType
    <3> QED
      BY <3>1, <3>3
  <2>2. ASSUME NEW k \in EffectKeys, NEW charge \in Charges, SettleEffect(w, k, charge)
        PROVE  PriorPaid(s)' = PriorPaid(s)
    BY <1>1, <1>t, <2>2 DEF SettleEffect, TypeOK, EffectType
  <2>3. ASSUME NEW k \in EffectKeys, RecordRefusal(w, k) PROVE PriorPaid(s)' = PriorPaid(s)
    BY <1>1, <1>t, <2>3 DEF RecordRefusal, TypeOK, EffectType
  <2> QED
    BY <1>4, <2>1, <2>2, <2>3 DEF EffectStep
<1>5. ASSUME NEW w \in Workers, OwnershipStep(w) PROVE PriorPaid(s)' = PriorPaid(s)
  <2>1. ASSUME NEW k \in EffectKeys, MarkUncertain(w, k) PROVE PriorPaid(s)' = PriorPaid(s)
    BY <1>1, <1>t, <2>1 DEF MarkUncertain, Owns, TypeOK, EffectType
  <2> QED
    BY <1>1, <1>5, <2>1 DEF OwnershipStep, Claim, Renew, Release, StopWorker
<1>6. ASSUME NEW w \in Workers, DeliveryStep(w) PROVE PriorPaid(s)' = PriorPaid(s)
  BY <1>1, <1>6 DEF DeliveryStep, AdmitChildren, WaitForChildren, SetPhase, StageTopic,
              DeliverTopic, FailSynthesis, StageSynthesis, DeliverRoot
<1>7. CASE SweepStep \/ (\E t \in Sessions : ClaimUnresolved(t))
  <2>1. ASSUME NEW S, Doubt(S)
        PROVE  effect'[Root][PlanKey] = "none" <=> effect[Root][PlanKey] = "none"
    BY <2>1 DEF Doubt
  <2>2. UNCHANGED revision
    BY <1>7 DEF SweepStep, SweepClaims, SweepDeadline, SweepClaimsFails,
                SweepDeadlineSkipped, ClaimUnresolved
  <2>3. (\E S \in SUBSET Sessions : Doubt(S)) \/ UNCHANGED effect
    BY <1>7 DEF SweepStep, SweepClaims, SweepDeadline, SweepClaimsFails,
                SweepDeadlineSkipped, RecoverAccounts, ExpiredOwners, ClaimUnresolved
  <2> QED
    BY <1>1, <2>1, <2>2, <2>3
<1>8. CASE Tick \/ Revoke \/ Restore \/ UNCHANGED vars
  BY <1>1, <1>8 DEF Tick, Revoke, Restore, vars
<1> QED
  BY <1>2, <1>3, <1>4, <1>5, <1>6, <1>7, <1>8 DEF Next

\* A step that charges nobody, and gives no outcome back, keeps the accounts.
LEMMA NothingCharged ==
    ASSUME ChargesInv, Forwards, UNCHANGED <<spent, costTotal, charged>>,
           \A s \in Sessions : PriorPaid(s)' = PriorPaid(s)
    PROVE  (ChargedWhenOver /\ ChargesAccounted)'
<1>1. ChargedWhenOver'
  BY DEF ChargesInv, ChargedWhenOver, Forwards, Forward
<1>2. \A s \in Sessions : ChargedUnits(s)' = ChargedUnits(s)
  BY UnitsKept
<1> QED
  BY <1>1, <1>2 DEF ChargesInv, ChargesAccounted

\* Nor does a session whose one open call is charged what its account is.
LEMMA SessionCharged ==
    ASSUME ChargesInv, TypeOK', NEW s \in Sessions, NEW k \in EffectKeys,
           effect[s][k] \notin {"completed", "closed"},
           \A j \in EffectKeys \ {k} : charged'[s][j] = charged[s][j],
           spent'[s] = spent[s] + charged'[s][k],
           costTotal'[s] = costTotal[s] + charged'[s][k],
           PriorPaid(s)' = PriorPaid(s)
    PROVE  /\ spent'[s] = PriorPaid(s)' + Cardinality(ChargedUnits(s)')
           /\ costTotal'[s] = spent'[s]
<1>1. TypeOK
  BY DEF ChargesInv, ControlInv, OwnerInv, LedgerInv
<1>2. charged[s][k] = 0
  BY DEF ChargesInv, ChargedWhenOver
<1>3. Cardinality(ChargedUnits(s)') = Cardinality(ChargedUnits(s)) + charged'[s][k]
  BY <1>1, <1>2, UnitsAdded
<1>4. /\ spent[s] = PriorPaid(s) + Cardinality(ChargedUnits(s)) /\ costTotal[s] = spent[s]
      /\ Cardinality(ChargedUnits(s)) \in Nat /\ PriorPaid(s) \in Nat /\ charged'[s][k] \in Nat
  BY <1>1, FiniteUnits, ConstantFacts
  DEF ChargesInv, ChargesAccounted, PriorPaid, TypeOK, EffectType
<1> QED
  BY <1>3, <1>4

\* save_plan starts a session with what it had already cost.
LEMMA SavedPlanIsCharged ==
    ASSUME ChargesInv, TypeOK', SavePlan
    PROVE  (ChargedWhenOver /\ ChargesAccounted)'
<1> USE ConstantFacts
<1>t. TypeOK
  BY DEF ChargesInv, ControlInv, OwnerInv, LedgerInv
<1>1. /\ revision = 0 /\ revision' = 1 /\ UNCHANGED <<effect, charged>>
      /\ \A s \in Sessions, k \in EffectKeys : effect[s][k] = "none"
      /\ spent' = [spent EXCEPT ![Root] = PriorCost]
      /\ costTotal' = [costTotal EXCEPT ![Root] = PriorCost]
  BY DEF SavePlan, effectVars, ChargesInv, ControlInv, NotBegun, RootFirst
<1>2. ChargedWhenOver'
  BY <1>1 DEF ChargesInv, ChargedWhenOver
<1>3. ASSUME NEW s \in Sessions
      PROVE  /\ spent'[s] = PriorPaid(s)' + Cardinality(ChargedUnits(s)')
             /\ costTotal'[s] = spent'[s]
  <2>1. ChargedUnits(s)' = ChargedUnits(s)
    BY <1>1, UnitsKept
  <2>2. ChargedUnits(s) = {}
    BY <1>1 DEF ChargesInv, ChargedWhenOver, ChargedUnits
  <2>3. Cardinality(ChargedUnits(s)) = 0 /\ PriorPaid(s) = 0
    BY <1>1, <2>2, FS_EmptySet DEF PriorPaid
  <2>4. spent[s] = 0 /\ costTotal[s] = 0
    BY <2>3 DEF ChargesInv, ChargesAccounted
  <2>5. PriorPaid(s)' = IF s = Root THEN PriorCost ELSE 0
    BY <1>1 DEF PriorPaid
  <2> QED
    BY <1>1, <1>t, <2>1, <2>3, <2>4, <2>5 DEF TypeOK, MoneyType
<1> QED
  BY <1>2, <1>3 DEF ChargesAccounted

\* Closing a run turns each reservation into the charge of the call it was for.
LEMMA ClosedRunIsCharged ==
    ASSUME ChargesInv, TypeOK', Forwards, CloseUncertain,
           \A s \in Sessions : PriorPaid(s)' = PriorPaid(s)
    PROVE  (ChargedWhenOver /\ ChargesAccounted)'
<1>t. LedgerInv /\ TypeOK /\ ReservationsMatch
  BY DEF ChargesInv, ControlInv, OwnerInv, LedgerInv
<1>1. \A s \in Sessions, k \in EffectKeys :
         /\ charged'[s][k] = IF k \in Unresolved(s) THEN effectCost[s][k] ELSE charged[s][k]
         /\ effect'[s][k] = IF k \in Unresolved(s) THEN "closed" ELSE effect[s][k]
  BY DEF CloseUncertain
<1>2. \A s \in Sessions : spent'[s] = spent[s] + reserved[s]
                          /\ costTotal'[s] = costTotal[s] + reserved[s]
  BY <1>t, ClosingChargeIsReserved DEF CloseUncertain
<1>3. ChargedWhenOver'
  BY <1>1 DEF ChargesInv, ChargedWhenOver
<1>4. ASSUME NEW s \in Sessions
      PROVE  /\ spent'[s] = PriorPaid(s)' + Cardinality(ChargedUnits(s)')
             /\ costTotal'[s] = spent'[s]
  <2>1. CASE Unresolved(s) = {}
    <3>1. reserved[s] = 0 /\ spent[s] \in Nat /\ costTotal[s] \in Nat
      BY <1>t, <2>1 DEF ReservationsMatch, TypeOK, MoneyType
    <3>2. ChargedUnits(s)' = ChargedUnits(s)
      BY <1>1, <2>1, UnitsKept
    <3> QED
      BY <1>2, <3>1, <3>2 DEF ChargesInv, ChargesAccounted
  <2>2. ASSUME NEW k \in Unresolved(s)
        PROVE  /\ spent'[s] = PriorPaid(s)' + Cardinality(ChargedUnits(s)')
               /\ costTotal'[s] = spent'[s]
    <3>1. k \in EffectKeys /\ effect[s][k] \notin {"completed", "closed"}
      BY DEF Unresolved
    <3>2. \A j \in EffectKeys \ {k} : charged'[s][j] = charged[s][j]
      BY <1>1, <1>t DEF ReservationsMatch
    <3>3. charged'[s][k] = reserved[s]
      BY <1>1, <1>t, <3>1 DEF ReservationsMatch
    <3> QED
      BY <1>2, <3>1, <3>2, <3>3, SessionCharged
  <2> QED
    BY <2>1, <2>2
<1> QED
  BY <1>3, <1>4 DEF ChargesAccounted

\* A settled call is charged what the provider reported, a refused one nothing.
LEMMA SettledCallIsCharged ==
    ASSUME ChargesInv, TypeOK', Forwards, NEW w \in Workers, EffectStep(w),
           \A s \in Sessions : PriorPaid(s)' = PriorPaid(s)
    PROVE  (ChargedWhenOver /\ ChargesAccounted)'
<1>t. TypeOK
  BY DEF ChargesInv, ControlInv, OwnerInv, LedgerInv
<1>1. ASSUME NEW k \in EffectKeys, NEW charge \in Charges, SettleEffect(w, k, charge)
      PROVE  (ChargedWhenOver /\ ChargesAccounted)'
  <2> PICK s \in Sessions : s = claimed[w]
    BY <1>1 DEF SettleEffect, Fenced, Owns
  <2>1. /\ effect[s][k] = "admitted" /\ effect' = [effect EXCEPT ![s][k] = "completed"]
        /\ charged' = [charged EXCEPT ![s][k] = charge]
        /\ spent' = [spent EXCEPT ![s] = @ + charge]
        /\ costTotal' = [costTotal EXCEPT ![s] = @ + charge]
    BY <1>1 DEF SettleEffect
  <2>2. /\ charged'[s][k] = charge /\ effect'[s][k] = "completed"
        /\ \A t \in Sessions, j \in EffectKeys :
              t # s \/ j # k =>
                 effect'[t][j] = effect[t][j] /\ charged'[t][j] = charged[t][j]
    BY <1>t, <2>1 DEF TypeOK, EffectType
  <2>3. /\ spent'[s] = spent[s] + charge /\ costTotal'[s] = costTotal[s] + charge
        /\ \A t \in Sessions \ {s} : spent'[t] = spent[t] /\ costTotal'[t] = costTotal[t]
    BY <1>t, <2>1 DEF TypeOK, MoneyType
  <2>4. ChargedWhenOver'
    BY <2>2 DEF ChargesInv, ChargedWhenOver
  <2>5. spent'[s] = PriorPaid(s)' + Cardinality(ChargedUnits(s)') /\ costTotal'[s] = spent'[s]
    BY <2>1, <2>2, <2>3, SessionCharged
  <2>6. ASSUME NEW t \in Sessions \ {s}
        PROVE  spent'[t] = PriorPaid(t)' + Cardinality(ChargedUnits(t)') /\ costTotal'[t] = spent'[t]
    <3>1. ChargedUnits(t)' = ChargedUnits(t)
      BY <2>2, UnitsKept
    <3> QED
      BY <2>3, <3>1 DEF ChargesInv, ChargesAccounted
  <2> QED
    BY <2>4, <2>5, <2>6 DEF ChargesAccounted
<1>2. ASSUME NEW k \in EffectKeys,
             RecordRefusal(w, k) \/ (\E amount \in Reservations : BeginEffect(w, k, amount))
      PROVE  (ChargedWhenOver /\ ChargesAccounted)'
  BY <1>2, NothingCharged DEF RecordRefusal, BeginEffect, moneyVars
<1> QED
  BY <1>1, <1>2 DEF EffectStep

\* Every step charges the three tables alike.
LEMMA StepCharges == ChargesInv /\ ControlInv' /\ [Next]_vars => ChargesInv'
<1> SUFFICES ASSUME ChargesInv, ControlInv', [Next]_vars
             PROVE  (ChargedWhenOver /\ ChargesAccounted)'
  BY DEF ChargesInv
<1>t. TypeOK /\ TypeOK' /\ ControlInv
  BY DEF ChargesInv, ControlInv, OwnerInv, LedgerInv
<1>f. Forwards
  BY <1>t, StepForward
<1>1. CASE SavePlan
  BY <1>t, <1>1, SavedPlanIsCharged
<1>2. CASE ~ SavePlan
  <2>1. \A s \in Sessions : PriorPaid(s)' = PriorPaid(s)
    BY <1>t, <1>2, PriorKept
  <2>2. CASE CloseUncertain
    BY <1>t, <1>f, <2>1, <2>2, ClosedRunIsCharged
  <2>3. ASSUME NEW w \in Workers, EffectStep(w) PROVE (ChargedWhenOver /\ ChargesAccounted)'
    BY <1>t, <1>f, <2>1, <2>3, SettledCallIsCharged
  <2>4. UNCHANGED <<spent, costTotal, charged>> => (ChargedWhenOver /\ ChargesAccounted)'
    BY <1>f, <2>1, NothingCharged
  <2> USE DEF moneyVars, effectVars
  <2>5. CASE OwnerStep
    BY <1>2, <2>2, <2>4, <2>5 DEF OwnerStep, StartPlanning, RevisePlan, Halt, Approve, Reject
  <2>6. ASSUME NEW w \in Workers, PlanningStep(w) \/ OwnershipStep(w) \/ DeliveryStep(w)
        PROVE  UNCHANGED <<spent, costTotal, charged>>
    BY <2>6 DEF PlanningStep, PromotePlan, FailPlanning, DeliverDirect,
                OwnershipStep, Claim, Renew, MarkUncertain, Release, StopWorker,
                DeliveryStep, AdmitChildren, WaitForChildren, SetPhase, StageTopic,
                DeliverTopic, FailSynthesis, StageSynthesis, DeliverRoot
  <2>7. CASE SweepStep \/ Tick \/ Revoke \/ Restore \/ UNCHANGED vars
             \/ (\E s \in Sessions : ClaimUnresolved(s))
    BY <2>4, <2>7 DEF SweepStep, SweepClaims, SweepDeadline, SweepClaimsFails, SweepDeadlineSkipped,
                Tick, Revoke, Restore, ClaimUnresolved, vars
  <2> QED
    BY <2>3, <2>4, <2>5, <2>6, <2>7 DEF Next
<1> QED
  BY <1>1, <1>2

\* For any tree, keys and amounts: what an account records as spent is the prior
\* cost and the charges of its receipts, and the session shows the same amount
\* (_settle_effect, _add_cost, close_uncertain, save_plan).
THEOREM ChargesAddUp == Spec => []ChargesAccounted
<1>1. Init => ChargedWhenOver /\ ChargesAccounted
  <2> SUFFICES ASSUME Init PROVE ChargedWhenOver /\ ChargesAccounted
    OBVIOUS
  <2>1. ChargedWhenOver
    BY DEF Init, ChargedWhenOver
  <2>2. ASSUME NEW s \in Sessions
        PROVE  ChargedUnits(s) = {} /\ PriorPaid(s) = 0 /\ spent[s] = 0 /\ costTotal[s] = 0
    BY DEF Init, ChargedUnits, PriorPaid
  <2> QED
    BY <2>1, <2>2, FS_EmptySet DEF ChargesAccounted
<1>2. ChargedWhenOver /\ ChargesAccounted /\ ControlInv /\ ControlInv' /\ [Next]_vars
        => (ChargedWhenOver /\ ChargesAccounted)'
  BY StepCharges DEF ChargesInv
<1> QED
  BY <1>1, <1>2, ControlInvariant, PTL DEF Spec

=============================================================================
