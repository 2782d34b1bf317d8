------------------------- MODULE OrchestrationProofs -------------------------
(***************************************************************************)
(* Theorems about OrchestrationStore, for every value of its constants.    *)
(***************************************************************************)
EXTENDS OrchestrationStore, TLAPS

\* The inductive invariant of the money and receipt tables: a reservation is a
\* natural number because it is exactly the outstanding call's estimate.
LedgerInv == TypeOK /\ ReservationsMatch

-----------------------------------------------------------------------------
(* Each part of the type invariant survives a step that leaves it alone. *)

\* A group of columns that a step leaves alone stays typed.
LEMMA Untouched ==
    ASSUME TypeOK
    PROVE  /\ UNCHANGED clockVars => ClockType'
           /\ UNCHANGED rootVars => RootType'
           /\ UNCHANGED sessionVars => SessionType'
           /\ UNCHANGED ownerVars => OwnerType'
           /\ UNCHANGED moneyVars => MoneyType'
           /\ UNCHANGED effectVars => EffectType'
           /\ UNCHANGED workerVars => WorkerType'
<1>1. UNCHANGED clockVars => ClockType'
  BY DEF TypeOK, ClockType, clockVars
<1>2. UNCHANGED rootVars => RootType'
  BY DEF TypeOK, RootType, rootVars
<1>3. UNCHANGED sessionVars => SessionType'
  BY DEF TypeOK, SessionType, sessionVars
<1>4. UNCHANGED ownerVars => OwnerType'
  BY DEF TypeOK, OwnerType, ownerVars
<1>5. UNCHANGED moneyVars => MoneyType'
  BY DEF TypeOK, MoneyType, moneyVars
<1>6. UNCHANGED effectVars => EffectType'
  BY DEF TypeOK, EffectType, effectVars
<1>7. UNCHANGED workerVars => WorkerType'
  BY DEF TypeOK, WorkerType, workerVars
<1> QED
  BY <1>1, <1>2, <1>3, <1>4, <1>5, <1>6, <1>7

\* The constants, in the form the step proofs use.
LEMMA ConstantFacts ==
    /\ Root \in Sessions /\ Children \subseteq Sessions
    /\ {AnalysisPhase, DraftingPhase, DeliveryPhase} \subseteq Phases
    /\ 0 \in Phases
    /\ Deadline \in Nat /\ MaxRevision \in Nat /\ PriorCost \in Nat
    /\ PlanKey \in EffectKeys /\ SynthesisKey \in EffectKeys /\ TaskKeys \subseteq EffectKeys
  BY TreeAssumption, KeyAssumption, TimeAssumption, MoneyAssumption
  DEF Sessions, Phases, EffectKeys

\* Fencing any set of accounts keeps the ownership columns in their domains.
LEMMA FenceType ==
    ASSUME TypeOK, NEW S, Fence(S)
    PROVE  OwnerType'
  BY ConstantFacts DEF TypeOK, OwnerType, Fence

\* So does turning admitted calls into uncertain ones.
LEMMA DoubtType ==
    ASSUME TypeOK, NEW S, Doubt(S), UNCHANGED <<effectGen, effectCost, charged>>
    PROVE  EffectType'
  BY DEF TypeOK, EffectType, Doubt, EffectStatuses

\* The initial state is typed.
LEMMA InitType == Init => TypeOK
<1> SUFFICES ASSUME Init PROVE TypeOK
  OBVIOUS
<1>1. ClockType /\ RootType /\ sweep \in {"idle", "deadline"}
  BY ConstantFacts DEF Init, ClockType, RootType, RootStatuses, PlanStatuses, Revisions
<1>2. SessionType
  BY ConstantFacts DEF Init, SessionType, SessionStatuses
<1>3. OwnerType /\ MoneyType /\ WorkerType
  BY ConstantFacts DEF Init, OwnerType, MoneyType, WorkerType
<1>4. EffectType
  BY DEF Init, EffectType, EffectStatuses
<1> QED
  BY <1>1, <1>2, <1>3, <1>4 DEF TypeOK

\* Closing a run charges each session exactly what was reserved for it.
LEMMA ClosingChargeIsReserved ==
    ASSUME LedgerInv, NEW s \in Sessions
    PROVE  ClosingCharge(s) = reserved[s]
<1> DEFINE amounts == {effectCost[s][k] : k \in Unresolved(s)} \cup {reserved[s]}
<1>1. reserved[s] \in Nat
  BY DEF LedgerInv, TypeOK, MoneyType
<1>2. amounts = {reserved[s]}
  BY DEF LedgerInv, ReservationsMatch
<1>3. (CHOOSE m \in amounts : \A n \in amounts : n <= m) = reserved[s]
  BY <1>1, <1>2
<1> QED
  BY <1>3 DEF ClosingCharge

\* What stays reserved when an admitted call settles is nothing.
LEMMA NothingStaysReserved ==
    ASSUME LedgerInv, NEW s \in Sessions, NEW k \in EffectKeys, effect[s][k] = "admitted"
    PROVE  StillReserved(s, k) = 0 /\ Unresolved(s) = {k}
<1>1. k \in Unresolved(s)
  BY DEF Unresolved
<1>2. reserved[s] = effectCost[s][k] /\ reserved[s] \in Nat
  BY <1>1 DEF LedgerInv, ReservationsMatch, TypeOK, MoneyType
<1>3. Unresolved(s) = {k}
  BY <1>1 DEF LedgerInv, ReservationsMatch
<1> QED
  BY <1>2, <1>3 DEF StillReserved

-----------------------------------------------------------------------------
(* The owner's steps *)

\* What the owner and the planner do to the run keeps every column in its domain.
LEMMA OwnerStepType == LedgerInv /\ OwnerStep => TypeOK'
<1> SUFFICES ASSUME LedgerInv, OwnerStep PROVE TypeOK'
  OBVIOUS
<1> TypeOK
  BY DEF LedgerInv
<1> USE ConstantFacts
<1>1. CASE StartPlanning
  <2>1. RootType'
    BY <1>1 DEF StartPlanning, TypeOK, RootType, RootStatuses, Waiting
  <2>2. SessionType'
    BY <1>1 DEF StartPlanning, TypeOK, SessionType, SessionStatuses
  <2> QED
    BY <1>1, <2>1, <2>2, Untouched DEF StartPlanning, TypeOK
<1>2. CASE SavePlan
  <2>1. RootType'
    BY <1>2, MoneyAssumption
    DEF SavePlan, TypeOK, RootType, RootStatuses, Waiting, PlanStatuses, Revisions
  <2>2. SessionType'
    BY <1>2 DEF SavePlan, TypeOK, SessionType, SessionStatuses
  <2>3. MoneyType'
    BY <1>2 DEF SavePlan, TypeOK, MoneyType
  <2> QED
    BY <1>2, <2>1, <2>2, <2>3, Untouched DEF SavePlan, TypeOK
<1>3. CASE RevisePlan
  <2>1. RootType'
    BY <1>3 DEF RevisePlan, TypeOK, RootType, RootStatuses, Waiting, PlanStatuses, Revisions
  <2> QED
    BY <1>3, <2>1, Untouched DEF RevisePlan, TypeOK
<1>4. CASE Halt
  <2>1. RootType'
    BY <1>4 DEF Halt, TypeOK, RootType, RootStatuses, Terminal
  <2>2. SessionType'
    BY <1>4 DEF Halt, StopSessions, TypeOK, SessionType, SessionStatuses
  <2> QED
    BY <1>4, <2>1, <2>2, Untouched DEF Halt, TypeOK
<1>5. CASE CloseUncertain
  <2>1. RootType'
    BY <1>5 DEF CloseUncertain, TypeOK, RootType, RootStatuses, Terminal
  <2>2. SessionType'
    BY <1>5 DEF CloseUncertain, StopSessions, TypeOK, SessionType, SessionStatuses
  <2>3. \A s \in Sessions : ClosingCharge(s) \in Nat
    BY ClosingChargeIsReserved DEF TypeOK, MoneyType
  <2>4. MoneyType'
    BY <1>5, <2>3 DEF CloseUncertain, TypeOK, MoneyType
  <2>5. EffectType'
    BY <1>5 DEF CloseUncertain, TypeOK, EffectType, EffectStatuses
  <2>6. OwnerType'
    BY <1>5, FenceType DEF CloseUncertain
  <2> QED
    BY <1>5, <2>1, <2>2, <2>4, <2>5, <2>6, Untouched DEF CloseUncertain, TypeOK
<1>6. ASSUME NEW r \in Revisions, Approve(r) PROVE TypeOK'
  <2>1. RootType'
    BY <1>6 DEF Approve, TypeOK, RootType, RootStatuses, Active, PlanStatuses
  <2> QED
    BY <1>6, <2>1, Untouched DEF Approve, TypeOK
<1>7. ASSUME NEW r \in Revisions, Reject(r) PROVE TypeOK'
  <2>1. RootType'
    BY <1>7 DEF Reject, TypeOK, RootType, RootStatuses, Terminal, PlanStatuses
  <2>2. SessionType'
    BY <1>7 DEF Reject, TypeOK, SessionType, SessionStatuses
  <2> QED
    BY <1>7, <2>1, <2>2, Untouched DEF Reject, TypeOK
<1> QED
  BY <1>1, <1>2, <1>3, <1>4, <1>5, <1>6, <1>7 DEF OwnerStep

-----------------------------------------------------------------------------
(* The workers' steps *)

\* So does what settles planning.
LEMMA PlanningStepType ==
    ASSUME TypeOK, NEW w \in Workers, PlanningStep(w)
    PROVE  TypeOK'
<1> USE ConstantFacts
<1>1. CASE PromotePlan(w)
  <2>1. RootType'
    BY <1>1, MoneyAssumption
    DEF PromotePlan, TypeOK, RootType, RootStatuses, Waiting, PlanStatuses, Revisions
  <2> QED
    BY <1>1, <2>1, Untouched DEF PromotePlan, TypeOK
<1>2. CASE FailPlanning(w)
  <2>1. RootType'
    BY <1>2 DEF FailPlanning, TypeOK, RootType, RootStatuses, Terminal
  <2>2. SessionType'
    BY <1>2 DEF FailPlanning, TypeOK, SessionType, SessionStatuses
  <2> QED
    BY <1>2, <2>1, <2>2, Untouched DEF FailPlanning, TypeOK
<1>3. CASE DeliverDirect(w)
  <2>1. RootType'
    BY <1>3 DEF DeliverDirect, TypeOK, RootType, RootStatuses, Terminal
  <2>2. SessionType'
    BY <1>3 DEF DeliverDirect, TypeOK, SessionType, SessionStatuses
  <2> QED
    BY <1>3, <2>1, <2>2, Untouched DEF DeliverDirect, TypeOK
<1> QED
  BY <1>1, <1>2, <1>3 DEF PlanningStep

\* So does claiming, renewing, releasing and giving up an account.
LEMMA OwnershipStepType ==
    ASSUME TypeOK, NEW w \in Workers, OwnershipStep(w)
    PROVE  TypeOK'
<1> USE ConstantFacts
<1>1. ASSUME NEW s \in Sessions, NEW seconds \in LeaseSeconds, Claim(w, s, seconds)
      PROVE  TypeOK'
  <2>1. RootType'
    BY <1>1 DEF Claim, TypeOK, RootType, RootStatuses, Active, Waiting
  <2>2. now \in 0 .. Deadline /\ seconds \in Nat /\ AttemptTimeout \in Nat
    BY TimeAssumption DEF TypeOK, ClockType
  <2>3. /\ AttemptEnd \in 0 .. Deadline
        /\ Smaller(AttemptEnd, now + seconds) \in 0 .. Deadline
    BY <2>2 DEF AttemptEnd, Smaller
  <2>4. NextGeneration(s) \in Nat
    BY DEF TypeOK, OwnerType, NextGeneration
  <2>5. OwnerType'
    BY <1>1, <2>3, <2>4 DEF Claim, TypeOK, OwnerType
  <2>6. WorkerType'
    BY <1>1, <2>4 DEF Claim, TypeOK, WorkerType
  <2> QED
    BY <1>1, <2>1, <2>5, <2>6, Untouched DEF Claim, TypeOK
<1>2. ASSUME NEW seconds \in LeaseSeconds, Renew(w, seconds)
      PROVE  TypeOK'
  <2> DEFINE s == claimed[w]
  <2>1. s \in Sessions
    BY <1>2 DEF Renew, Fenced, Owns
  <2>2. now \in 0 .. Deadline /\ seconds \in Nat /\ attempt[s] \in 0 .. Deadline
    BY <2>1, TimeAssumption DEF TypeOK, ClockType, OwnerType
  <2>3. Smaller(attempt[s], now + seconds) \in 0 .. Deadline
    BY <2>2 DEF Smaller
  <2>4. OwnerType'
    BY <1>2, <2>1, <2>3 DEF Renew, TypeOK, OwnerType
  <2> QED
    BY <1>2, <2>4, Untouched DEF Renew, TypeOK
<1>3. ASSUME NEW k \in EffectKeys, MarkUncertain(w, k)
      PROVE  TypeOK'
  <2>1. RootType'
    BY <1>3 DEF MarkUncertain, TypeOK, RootType, RootStatuses
  <2>2. EffectType'
    BY <1>3 DEF MarkUncertain, TypeOK, EffectType, EffectStatuses
  <2>3. OwnerType'
    BY <1>3, FenceType DEF MarkUncertain
  <2> QED
    BY <1>3, <2>1, <2>2, <2>3, Untouched DEF MarkUncertain, TypeOK
<1>4. CASE Release(w)
  <2>1. OwnerType'
    BY <1>4, FenceType DEF Release
  <2>2. WorkerType'
    BY <1>4 DEF Release, DropClaim, TypeOK, WorkerType
  <2> QED
    BY <1>4, <2>1, <2>2, Untouched DEF Release, TypeOK
<1>5. CASE StopWorker(w)
  <2>1. WorkerType'
    BY <1>5 DEF StopWorker, DropClaim, TypeOK, WorkerType
  <2> QED
    BY <1>5, <2>1, Untouched DEF StopWorker, TypeOK
<1> QED
  BY <1>1, <1>2, <1>3, <1>4, <1>5 DEF OwnershipStep

\* So does admitting, settling and refusing a call: what settles was reserved.
LEMMA EffectStepType ==
    ASSUME LedgerInv, NEW w \in Workers, EffectStep(w)
    PROVE  TypeOK'
<1> TypeOK
  BY DEF LedgerInv
<1> USE ConstantFacts
<1> DEFINE s == claimed[w]
<1>1. ASSUME NEW k \in EffectKeys, NEW amount \in Reservations, BeginEffect(w, k, amount)
      PROVE  TypeOK'
  <2>1. s \in Sessions /\ amount \in Nat
    BY <1>1, MoneyAssumption DEF BeginEffect, Fenced, Owns
  <2>2. reserved' \in [Sessions -> Nat] /\ MoneyType'
    BY <1>1, <2>1 DEF BeginEffect, TypeOK, MoneyType
  <2>3. EffectType'
    BY <1>1, <2>1 DEF BeginEffect, TypeOK, EffectType, EffectStatuses, WorkerType
  <2> QED
    BY <1>1, <2>2, <2>3, Untouched DEF BeginEffect, TypeOK
<1>2. ASSUME NEW k \in EffectKeys, NEW charge \in Charges, SettleEffect(w, k, charge)
      PROVE  TypeOK'
  <2>1. s \in Sessions /\ charge \in Nat /\ effect[s][k] = "admitted"
    BY <1>2, MoneyAssumption DEF SettleEffect, Fenced, Owns
  <2>2. StillReserved(s, k) \in Nat
    BY <2>1, NothingStaysReserved
  <2>3. MoneyType'
    BY <1>2, <2>1, <2>2 DEF SettleEffect, TypeOK, MoneyType
  <2>4. EffectType'
    BY <1>2, <2>1 DEF SettleEffect, TypeOK, EffectType, EffectStatuses
  <2>5. RootType'
    BY <1>2 DEF SettleEffect, TypeOK, RootType, RootStatuses, Terminal
  <2> QED
    BY <1>2, <2>3, <2>4, <2>5, Untouched DEF SettleEffect, TypeOK
<1>3. ASSUME NEW k \in EffectKeys, RecordRefusal(w, k)
      PROVE  TypeOK'
  <2>1. s \in Sessions
    BY <1>3 DEF RecordRefusal, Fenced, Owns
  <2>2. EffectType'
    BY <1>3, <2>1 DEF RecordRefusal, TypeOK, EffectType, EffectStatuses, WorkerType
  <2> QED
    BY <1>3, <2>2, Untouched DEF RecordRefusal, TypeOK
<1> QED
  BY <1>1, <1>2, <1>3 DEF EffectStep

\* So does running and delivering the approved batch.
LEMMA DeliveryStepType ==
    ASSUME TypeOK, NEW w \in Workers, DeliveryStep(w)
    PROVE  TypeOK'
<1> USE ConstantFacts
<1>1. CASE AdmitChildren(w)
  <2>1. RootType'
    BY <1>1 DEF AdmitChildren, TypeOK, RootType, RootStatuses, Active
  <2>2. SessionType'
    BY <1>1 DEF AdmitChildren, TypeOK, SessionType, SessionStatuses
  <2> QED
    BY <1>1, <2>1, <2>2, Untouched DEF AdmitChildren, TypeOK
<1>2. CASE WaitForChildren(w)
  <2>1. RootType'
    BY <1>2 DEF WaitForChildren, TypeOK, RootType, RootStatuses, Active
  <2> QED
    BY <1>2, <2>1, Untouched DEF WaitForChildren, TypeOK
<1>3. ASSUME NEW p \in Phases, SetPhase(w, p) PROVE TypeOK'
  <2>1. SessionType'
    BY <1>3 DEF SetPhase, TypeOK, SessionType
  <2> QED
    BY <1>3, <2>1, Untouched DEF SetPhase, TypeOK
<1>4. ASSUME NEW outcome \in TopicOutcomes, StageTopic(w, outcome) PROVE TypeOK'
  <2>1. SessionType'
    BY <1>4, MoneyAssumption DEF StageTopic, TypeOK, SessionType
  <2> QED
    BY <1>4, <2>1, Untouched DEF StageTopic, TypeOK
<1>5. CASE DeliverTopic(w)
  <2>1. SessionType'
    BY <1>5 DEF DeliverTopic, TypeOK, SessionType, SessionStatuses
  <2> QED
    BY <1>5, <2>1, Untouched DEF DeliverTopic, TypeOK
<1>6. CASE FailSynthesis(w)
  <2>1. RootType'
    BY <1>6 DEF FailSynthesis, TypeOK, RootType, RootStatuses, Terminal
  <2>2. SessionType'
    BY <1>6 DEF FailSynthesis, TypeOK, SessionType, SessionStatuses
  <2> QED
    BY <1>6, <2>1, <2>2, Untouched DEF FailSynthesis, TypeOK
<1>7. CASE StageSynthesis(w)
  <2>1. SessionType'
    BY <1>7 DEF StageSynthesis, TypeOK, SessionType
  <2> QED
    BY <1>7, <2>1, Untouched DEF StageSynthesis, TypeOK
<1>8. CASE DeliverRoot(w)
  <2>1. RootType'
    BY <1>8 DEF DeliverRoot, TypeOK, RootType, RootStatuses, Terminal
  <2>2. SessionType'
    BY <1>8 DEF DeliverRoot, TypeOK, SessionType, SessionStatuses
  <2> QED
    BY <1>8, <2>1, <2>2, Untouched DEF DeliverRoot, TypeOK
<1> QED
  BY <1>1, <1>2, <1>3, <1>4, <1>5, <1>6, <1>7, <1>8 DEF DeliveryStep

-----------------------------------------------------------------------------
(* Claims on unresolved work, the sweep and the environment *)

\* So does a claim that finds a call left behind.
LEMMA ClaimUnresolvedType ==
    ASSUME TypeOK, NEW s \in Sessions, ClaimUnresolved(s)
    PROVE  TypeOK'
<1>1. RootType'
  BY DEF ClaimUnresolved, TypeOK, RootType, RootStatuses
<1>2. OwnerType' /\ EffectType'
  BY FenceType, DoubtType DEF ClaimUnresolved
<1> QED
  BY <1>1, <1>2, Untouched DEF ClaimUnresolved, TypeOK

\* So does either stage of the recovery sweep.
LEMMA SweepStepType ==
    ASSUME TypeOK, SweepStep
    PROVE  TypeOK'
<1>1. CASE SweepClaims
  <2>1. RootType'
    BY <1>1 DEF SweepClaims, TypeOK, RootType, RootStatuses
  <2>2. OwnerType' /\ EffectType'
    BY <1>1, FenceType, DoubtType DEF SweepClaims, RecoverAccounts
  <2> QED
    BY <1>1, <2>1, <2>2, Untouched DEF SweepClaims, TypeOK
<1>2. CASE SweepDeadline
  <2>1. RootType'
    BY <1>2 DEF SweepDeadline, TypeOK, RootType, RootStatuses, Terminal
  <2>2. SessionType'
    BY <1>2 DEF SweepDeadline, StopSessions, TypeOK, SessionType, SessionStatuses
  <2>3. OwnerType' /\ EffectType'
    BY <1>2, FenceType, DoubtType DEF SweepDeadline, RecoverAccounts
  <2> QED
    BY <1>2, <2>1, <2>2, <2>3, Untouched DEF SweepDeadline, TypeOK
<1>3. CASE SweepClaimsFails \/ SweepDeadlineSkipped
  BY <1>3, Untouched DEF SweepClaimsFails, SweepDeadlineSkipped, TypeOK
<1> QED
  BY <1>1, <1>2, <1>3 DEF SweepStep

\* So do the clock and changes of authority.
LEMMA EnvironmentType ==
    ASSUME TypeOK, Tick \/ Revoke \/ Restore
    PROVE  TypeOK'
<1>1. CASE Tick
  <2>1. now' \in 0 .. Deadline /\ authorized' \in BOOLEAN
    BY <1>1, ConstantFacts DEF Tick, TypeOK, ClockType
  <2> QED
    BY <1>1, <2>1, Untouched DEF Tick, TypeOK, ClockType
<1>2. CASE Revoke \/ Restore
  <2>1. ClockType'
    BY <1>2 DEF Revoke, Restore, TypeOK, ClockType
  <2> QED
    BY <1>2, <2>1, Untouched DEF Revoke, Restore, TypeOK
<1> QED
  BY <1>1, <1>2

\* Every step keeps every column in its domain.
LEMMA StepType == LedgerInv /\ [Next]_vars => TypeOK'
<1> SUFFICES ASSUME LedgerInv, [Next]_vars PROVE TypeOK'
  OBVIOUS
<1> TypeOK
  BY DEF LedgerInv
<1>1. CASE UNCHANGED vars
  BY <1>1, Untouched DEF vars, TypeOK
<1>2. ASSUME NEW w \in Workers,
             PlanningStep(w) \/ OwnershipStep(w) \/ EffectStep(w) \/ DeliveryStep(w)
      PROVE  TypeOK'
  BY <1>2, PlanningStepType, OwnershipStepType, EffectStepType, DeliveryStepType
<1> QED
  BY <1>1, <1>2, OwnerStepType, ClaimUnresolvedType, SweepStepType, EnvironmentType DEF Next

-----------------------------------------------------------------------------
(* The outstanding call explains the reservation *)

\* A step that touches neither receipts nor reservations keeps them matched.
LEMMA ReceiptsKept ==
    ASSUME ReservationsMatch, UNCHANGED <<reserved, effect, effectCost>>
    PROVE  ReservationsMatch'
  BY DEF ReservationsMatch, Unresolved

\* Doubt moves no call in or out of the unresolved ones.
LEMMA DoubtKeeps ==
    ASSUME LedgerInv, NEW S, Doubt(S), UNCHANGED <<reserved, effectCost>>
    PROVE  ReservationsMatch'
<1>1. \A s \in Sessions : Unresolved(s)' = Unresolved(s)
  BY DEF Doubt, Unresolved, LedgerInv, TypeOK, EffectType
<1> QED
  BY <1>1 DEF LedgerInv, ReservationsMatch

\* Closing leaves nothing reserved and no call unresolved.
LEMMA CloseKeeps ==
    ASSUME LedgerInv, CloseUncertain
    PROVE  ReservationsMatch'
<1>1. \A s \in Sessions : Unresolved(s)' = {} /\ reserved'[s] = 0
  BY DEF CloseUncertain, Unresolved
<1> QED
  BY <1>1 DEF ReservationsMatch

\* A call given up keeps its reservation.
LEMMA MarkKeeps ==
    ASSUME LedgerInv, NEW w \in Workers, NEW k \in EffectKeys, MarkUncertain(w, k)
    PROVE  ReservationsMatch'
<1>1. claimed[w] \in Sessions /\ effect[claimed[w]][k] = "admitted"
  BY DEF MarkUncertain, Owns
<1>2. \A s \in Sessions : Unresolved(s)' = Unresolved(s)
  BY <1>1 DEF MarkUncertain, Unresolved, LedgerInv, TypeOK, EffectType
<1>3. UNCHANGED <<reserved, effectCost>>
  BY DEF MarkUncertain, moneyVars
<1> QED
  BY <1>2, <1>3 DEF LedgerInv, ReservationsMatch

\* Admitting reserves the one call's estimate; settling frees exactly that.
LEMMA EffectStepKeeps ==
    ASSUME LedgerInv, NEW w \in Workers, EffectStep(w)
    PROVE  ReservationsMatch'
<1> PICK s : s = claimed[w]
  OBVIOUS
<1> USE DEF LedgerInv, TypeOK, EffectType, MoneyType
<1>1. ASSUME NEW k \in EffectKeys, NEW amount \in Reservations, BeginEffect(w, k, amount)
      PROVE  ReservationsMatch'
  <2>1. /\ s \in Sessions /\ amount \in Nat
        /\ Unresolved(s) = {} /\ reserved[s] = 0
    BY <1>1, MoneyAssumption DEF BeginEffect, Fenced, Owns, ReservationsMatch
  <2>2. Unresolved(s)' = {k} /\ reserved'[s] = amount /\ effectCost'[s][k] = amount
    BY <1>1, <2>1 DEF BeginEffect, Unresolved
  <2>3. \A t \in Sessions \ {s} :
           /\ Unresolved(t)' = Unresolved(t) /\ reserved'[t] = reserved[t]
           /\ \A j \in EffectKeys : effectCost'[t][j] = effectCost[t][j]
    BY <1>1, <2>1 DEF BeginEffect, Unresolved
  <2>4. \A t \in Sessions : Unresolved(t) \subseteq EffectKeys
    BY DEF Unresolved
  <2>5. ASSUME NEW t \in Sessions
        PROVE  /\ \A i, j \in Unresolved(t)' : i = j
               /\ \A j \in Unresolved(t)' : reserved'[t] = effectCost'[t][j]
               /\ Unresolved(t)' = {} => reserved'[t] = 0
    <3>1. CASE t = s
      BY <2>2, <3>1
    <3>2. CASE t # s
      BY <2>3, <2>4, <3>2 DEF ReservationsMatch
    <3> QED
      BY <3>1, <3>2
  <2> QED
    BY <2>5 DEF ReservationsMatch
<1>2. ASSUME NEW k \in EffectKeys, NEW charge \in Charges, SettleEffect(w, k, charge)
      PROVE  ReservationsMatch'
  <2>1. s \in Sessions /\ effect[s][k] = "admitted"
    BY <1>2 DEF SettleEffect, Fenced, Owns
  <2>2. StillReserved(s, k) = 0 /\ Unresolved(s) = {k}
    BY <2>1, NothingStaysReserved
  <2>3. Unresolved(s)' = {} /\ reserved'[s] = 0
    BY <1>2, <2>1, <2>2 DEF SettleEffect, Unresolved
  <2>4. \A t \in Sessions \ {s} :
           Unresolved(t)' = Unresolved(t) /\ reserved'[t] = reserved[t]
    BY <1>2, <2>1 DEF SettleEffect, Unresolved
  <2>5. effectCost' = effectCost
    BY <1>2 DEF SettleEffect
  <2> QED
    BY <2>1, <2>3, <2>4, <2>5 DEF ReservationsMatch
<1>3. ASSUME NEW k \in EffectKeys, RecordRefusal(w, k)
      PROVE  ReservationsMatch'
  <2>1. s \in Sessions /\ effect[s][k] = "none"
    BY <1>3 DEF RecordRefusal, Fenced, Owns, Unused
  <2>2. \A t \in Sessions : Unresolved(t)' = Unresolved(t)
    BY <1>3, <2>1 DEF RecordRefusal, Unresolved
  <2>3. UNCHANGED <<reserved, effectCost>>
    BY <1>3 DEF RecordRefusal, moneyVars
  <2> QED
    BY <2>2, <2>3 DEF ReservationsMatch
<1> QED
  BY <1>1, <1>2, <1>3 DEF EffectStep

\* Every step keeps the two tables in step: the steps above by their lemmas, all
\* others because they touch neither table.
LEMMA StepReservations == LedgerInv /\ [Next]_vars => ReservationsMatch'
<1> SUFFICES ASSUME LedgerInv, [Next]_vars PROVE ReservationsMatch'
  OBVIOUS
<1> USE DEF effectVars, moneyVars
<1> ReservationsMatch
  BY DEF LedgerInv
<1>1. CASE UNCHANGED vars
  BY <1>1, ReceiptsKept DEF vars
<1>2. CASE OwnerStep
  <2>1. CASE CloseUncertain
    BY <2>1, CloseKeeps
  <2>2. CASE StartPlanning \/ SavePlan \/ RevisePlan \/ Halt
    BY <2>2, ReceiptsKept DEF StartPlanning, SavePlan, RevisePlan, Halt
  <2>3. ASSUME NEW r \in Revisions, Approve(r) \/ Reject(r)
        PROVE  ReservationsMatch'
    BY <2>3, ReceiptsKept DEF Approve, Reject
  <2> QED
    BY <1>2, <2>1, <2>2, <2>3 DEF OwnerStep
<1>3. ASSUME NEW s \in Sessions, ClaimUnresolved(s)
      PROVE  ReservationsMatch'
  BY <1>3, DoubtKeeps DEF ClaimUnresolved
<1>4. ASSUME NEW w \in Workers, PlanningStep(w)
      PROVE  ReservationsMatch'
  BY <1>4, ReceiptsKept DEF PlanningStep, PromotePlan, FailPlanning, DeliverDirect
<1>5. ASSUME NEW w \in Workers, OwnershipStep(w)
      PROVE  ReservationsMatch'
  <2>1. ASSUME NEW s \in Sessions, NEW seconds \in LeaseSeconds,
               Claim(w, s, seconds) \/ Renew(w, seconds)
        PROVE  ReservationsMatch'
    BY <2>1, ReceiptsKept DEF Claim, Renew
  <2>2. ASSUME NEW seconds \in LeaseSeconds, Renew(w, seconds)
        PROVE  ReservationsMatch'
    BY <2>2, ReceiptsKept DEF Renew
  <2>3. CASE Release(w) \/ StopWorker(w)
    BY <2>3, ReceiptsKept DEF Release, StopWorker
  <2> QED
    BY <1>5, <2>1, <2>2, <2>3, MarkKeeps DEF OwnershipStep
<1>6. ASSUME NEW w \in Workers, DeliveryStep(w)
      PROVE  ReservationsMatch'
  <2>1. UNCHANGED <<moneyVars, effectVars>>
    BY <1>6 DEF DeliveryStep, AdmitChildren, WaitForChildren, SetPhase, StageTopic,
                DeliverTopic, FailSynthesis, StageSynthesis, DeliverRoot
  <2> QED
    BY <2>1, ReceiptsKept
<1>7. CASE SweepStep
  <2>1. CASE SweepClaims \/ SweepDeadline
    BY <2>1, DoubtKeeps DEF SweepClaims, SweepDeadline, RecoverAccounts
  <2>2. CASE SweepClaimsFails \/ SweepDeadlineSkipped
    BY <2>2, ReceiptsKept DEF SweepClaimsFails, SweepDeadlineSkipped
  <2> QED
    BY <1>7, <2>1, <2>2 DEF SweepStep
<1>8. CASE Tick \/ Revoke \/ Restore
  BY <1>8, ReceiptsKept DEF Tick, Revoke, Restore
<1> QED
  BY <1>1, <1>2, <1>3, <1>4, <1>5, <1>6, <1>7, <1>8, EffectStepKeeps DEF Next

\* At the start nothing is reserved and nothing is outstanding.
LEMMA InitReservations == Init => ReservationsMatch
  BY DEF Init, ReservationsMatch, Unresolved

\* The inductive invariant of the ledger holds in every reachable state.
LEMMA LedgerInvariant == Spec => []LedgerInv
<1>1. Init => LedgerInv
  BY InitType, InitReservations DEF LedgerInv
<1>2. LedgerInv /\ [Next]_vars => LedgerInv'
  BY StepType, StepReservations DEF LedgerInv
<1> QED
  BY <1>1, <1>2, PTL DEF Spec

\* For any tree, workers, amounts and bounds: no column of the ledger ever leaves
\* its domain; in particular no amount becomes negative (store.py, every method).
THEOREM TypeCorrect == Spec => []TypeOK
<1>1. LedgerInv => TypeOK
  BY DEF LedgerInv
<1> QED
  BY <1>1, LedgerInvariant, PTL

\* For any tree, workers, amounts and bounds: what an account has reserved is the
\* estimate of its one outstanding call, through crashes, recovery and closing
\* (begin_effect, _settle_effect, _recover_accounts, close_uncertain).
THEOREM ReservationsExplained == Spec => []ReservationsMatch
<1>1. LedgerInv => ReservationsMatch
  BY DEF LedgerInv
<1> QED
  BY <1>1, LedgerInvariant, PTL

-----------------------------------------------------------------------------
(* A receipt only moves forward *)

Forwards == \A s \in Sessions, k \in EffectKeys : Forward(s, k)

\* A step that leaves the receipts alone moves none of them backwards.
LEMMA UntouchedForward == ASSUME UNCHANGED <<effect, effectGen>> PROVE Forwards
  BY DEF Forwards, Forward

\* Doubt only moves an admitted call to an uncertain one.
LEMMA DoubtForward == ASSUME NEW S, Doubt(S), UNCHANGED effectGen PROVE Forwards
  BY DEF Forwards, Forward, Doubt

\* Closing only moves unresolved calls to closed ones.
LEMMA CloseForward == ASSUME CloseUncertain PROVE Forwards
  BY DEF CloseUncertain, Forwards, Forward, Unresolved

\* Giving up a call moves it from admitted to uncertain.
LEMMA MarkForward ==
    ASSUME TypeOK, NEW w \in Workers, NEW k \in EffectKeys, MarkUncertain(w, k)
    PROVE  Forwards
  BY DEF MarkUncertain, Owns, Forwards, Forward, TypeOK, EffectType

\* A call is admitted once, and settled only by the generation that admitted it.
LEMMA EffectStepForward ==
    ASSUME TypeOK, NEW w \in Workers, EffectStep(w)
    PROVE  Forwards
<1> USE DEF TypeOK, EffectType, Forwards, Forward, Fenced, Owns
<1>1. ASSUME NEW k \in EffectKeys, NEW amount \in Reservations, BeginEffect(w, k, amount)
      PROVE  Forwards
  BY <1>1 DEF BeginEffect, Unused
<1>2. ASSUME NEW k \in EffectKeys, NEW charge \in Charges, SettleEffect(w, k, charge)
      PROVE  Forwards
  BY <1>2 DEF SettleEffect
<1>3. ASSUME NEW k \in EffectKeys, RecordRefusal(w, k)
      PROVE  Forwards
  BY <1>3 DEF RecordRefusal, Unused
<1> QED
  BY <1>1, <1>2, <1>3 DEF EffectStep

\* Every step moves every receipt forward or leaves it alone.
LEMMA StepForward == TypeOK /\ [Next]_vars => Forwards
<1> SUFFICES ASSUME TypeOK, [Next]_vars PROVE Forwards
  OBVIOUS
<1> USE DEF effectVars
<1>1. CASE UNCHANGED vars
  BY <1>1, UntouchedForward DEF vars
<1>2. CASE OwnerStep
  <2>1. CASE StartPlanning \/ SavePlan \/ RevisePlan \/ Halt
    BY <2>1, UntouchedForward DEF StartPlanning, SavePlan, RevisePlan, Halt
  <2>2. ASSUME NEW r \in Revisions, Approve(r) \/ Reject(r)
        PROVE  Forwards
    BY <2>2, UntouchedForward DEF Approve, Reject
  <2> QED
    BY <1>2, <2>1, <2>2, CloseForward DEF OwnerStep
<1>3. ASSUME NEW s \in Sessions, ClaimUnresolved(s) PROVE Forwards
  BY <1>3, DoubtForward DEF ClaimUnresolved
<1>4. ASSUME NEW w \in Workers, PlanningStep(w) \/ DeliveryStep(w) PROVE Forwards
  <2>1. UNCHANGED effectVars
    BY <1>4 DEF PlanningStep, PromotePlan, FailPlanning, DeliverDirect,
                DeliveryStep, AdmitChildren, WaitForChildren, SetPhase, StageTopic,
                DeliverTopic, FailSynthesis, StageSynthesis, DeliverRoot
  <2> QED
    BY <2>1, UntouchedForward
<1>5. ASSUME NEW w \in Workers, OwnershipStep(w) PROVE Forwards
  <2>1. ASSUME NEW s \in Sessions, NEW seconds \in LeaseSeconds,
               Claim(w, s, seconds)
        PROVE  Forwards
    BY <2>1, UntouchedForward DEF Claim
  <2>2. ASSUME NEW seconds \in LeaseSeconds, Renew(w, seconds)
        PROVE  Forwards
    BY <2>2, UntouchedForward DEF Renew
  <2>3. CASE Release(w) \/ StopWorker(w)
    BY <2>3, UntouchedForward DEF Release, StopWorker
  <2> QED
    BY <1>5, <2>1, <2>2, <2>3, MarkForward DEF OwnershipStep
<1>6. CASE SweepStep
  <2>1. CASE SweepClaims \/ SweepDeadline
    BY <2>1, DoubtForward DEF SweepClaims, SweepDeadline, RecoverAccounts
  <2>2. CASE SweepClaimsFails \/ SweepDeadlineSkipped
    BY <2>2, UntouchedForward DEF SweepClaimsFails, SweepDeadlineSkipped
  <2> QED
    BY <1>6, <2>1, <2>2 DEF SweepStep
<1>7. CASE Tick \/ Revoke \/ Restore
  BY <1>7, UntouchedForward DEF Tick, Revoke, Restore
<1> QED
  BY <1>1, <1>2, <1>3, <1>4, <1>5, <1>6, <1>7, EffectStepForward DEF Next

\* For any tree, workers, amounts and bounds: no call is ever admitted twice, and
\* no uncertain call gets an outcome but the owner's closing (ADR 0035 D5).
THEOREM EffectsHappenOnce == Spec => EffectsOnce
<1>1. TypeOK /\ [Next]_vars => [Forwards]_vars
  BY StepForward
<1>2. Forwards <=> \A s \in Sessions, k \in EffectKeys : Forward(s, k)
  BY DEF Forwards
<1>3. Spec => [][Forwards]_vars
  BY <1>1, TypeCorrect, PTL DEF Spec
<1>4. [Forwards]_vars => [\A s \in Sessions, k \in EffectKeys : Forward(s, k)]_vars
  BY <1>2
<1> QED
  BY <1>3, <1>4, PTL DEF EffectsOnce

=============================================================================
