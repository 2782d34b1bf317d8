---------------------- MODULE OrchestrationRefinementProofs ----------------------
(***************************************************************************)
(* The store of a governed run implements CallLedger, for every value of   *)
(* its constants: the step-by-step argument behind OrchestrationRefinement. *)
(***************************************************************************)
EXTENDS OrchestrationRefinement, OrchestrationControlProofs

-----------------------------------------------------------------------------
(* What must hold before the mapped steps can be taken *)

\* Nothing has been charged to a run that does not exist.
NothingSpentYet == rootStatus = "absent" => \A s \in Sessions : spent[s] = 0

\* The invariant the step correspondence rests on.
RefinementInv == ControlInv /\ NothingSpentYet

\* Before a run exists no call is unresolved.
LEMMA AbsentIsQuiet ==
    ASSUME ControlInv, rootStatus = "absent"
    PROVE  Quiet
<1>1. \A s \in Sessions : Unresolved(s) = {}
  BY DEF ControlInv, NotBegun, RootFirst, Unresolved
<1> QED
  BY <1>1 DEF Quiet, ControlInv, OwnerInv, LedgerInv, ReservationsMatch

\* A run that exists does not vanish.
LEMMA RunStays == [Next]_vars /\ rootStatus' = "absent" => rootStatus = "absent"
<1> SUFFICES ASSUME [Next]_vars, rootStatus' = "absent" PROVE rootStatus = "absent"
  OBVIOUS
<1> USE DEF rootVars
<1>1. CASE OwnerStep
  BY <1>1 DEF OwnerStep, StartPlanning, SavePlan, RevisePlan, Halt, CloseUncertain, Approve, Reject
<1>2. ASSUME NEW w \in Workers, PlanningStep(w) PROVE rootStatus = "absent"
  BY <1>2 DEF PlanningStep, PromotePlan, FailPlanning, DeliverDirect
<1>3. ASSUME NEW w \in Workers, OwnershipStep(w) PROVE rootStatus = "absent"
  BY <1>3 DEF OwnershipStep, Claim, Renew, MarkUncertain, Release, StopWorker
<1>4. ASSUME NEW w \in Workers, EffectStep(w) PROVE rootStatus = "absent"
  BY <1>4 DEF EffectStep, BeginEffect, SettleEffect, RecordRefusal
<1>5. ASSUME NEW w \in Workers, DeliveryStep(w) PROVE rootStatus = "absent"
  BY <1>5 DEF DeliveryStep, AdmitChildren, WaitForChildren, SetPhase, StageTopic,
              DeliverTopic, FailSynthesis, StageSynthesis, DeliverRoot
<1>6. CASE SweepStep \/ Tick \/ Revoke \/ Restore \/ (\E s \in Sessions : ClaimUnresolved(s))
  BY <1>6 DEF SweepStep, SweepClaims, SweepDeadline, SweepClaimsFails, SweepDeadlineSkipped,
              Tick, Revoke, Restore, ClaimUnresolved
<1> QED
  BY <1>1, <1>2, <1>3, <1>4, <1>5, <1>6 DEF Next, vars

\* No step charges a run that does not exist.
LEMMA StepUnspent == RefinementInv /\ [Next]_vars => NothingSpentYet'
<1> SUFFICES ASSUME RefinementInv, [Next]_vars, rootStatus' = "absent"
             PROVE  UNCHANGED spent
  BY RunStays DEF RefinementInv, NothingSpentYet
<1> USE DEF moneyVars
<1>1. rootStatus = "absent"
  BY RunStays
<1>2. ASSUME NEW w \in Workers, EffectStep(w) PROVE FALSE
  <2>1. claimed[w] \in Sessions /\ owner[claimed[w]] = w
    BY <1>2 DEF EffectStep, BeginEffect, SettleEffect, RecordRefusal, Fenced, Owns
  <2> QED
    BY <1>1, <2>1, OwnedHasBegun, TreeAssumption DEF RefinementInv
<1>3. ASSUME NEW w \in Workers, PlanningStep(w) \/ OwnershipStep(w) \/ DeliveryStep(w)
      PROVE  UNCHANGED spent
  BY <1>3 DEF PlanningStep, PromotePlan, FailPlanning, DeliverDirect,
              OwnershipStep, Claim, Renew, MarkUncertain, Release, StopWorker,
              DeliveryStep, AdmitChildren, WaitForChildren, SetPhase, StageTopic,
              DeliverTopic, FailSynthesis, StageSynthesis, DeliverRoot
<1>4. OwnerStep => UNCHANGED spent
  BY <1>1 DEF OwnerStep, StartPlanning, SavePlan, RevisePlan, Halt, CloseUncertain, Approve, Reject
<1>5. SweepStep \/ Tick \/ Revoke \/ Restore \/ (\E s \in Sessions : ClaimUnresolved(s))
        => UNCHANGED spent
  BY DEF SweepStep, SweepClaims, SweepDeadline, SweepClaimsFails, SweepDeadlineSkipped,
         Tick, Revoke, Restore, ClaimUnresolved
<1> QED
  BY <1>2, <1>3, <1>4, <1>5 DEF Next, vars

\* What the mapping rests on holds in every reachable state.
LEMMA RefinementInvariant == Spec => []RefinementInv
<1>1. Init => NothingSpentYet
  BY DEF Init, NothingSpentYet
<1>2. NothingSpentYet /\ ControlInv /\ [Next]_vars => NothingSpentYet'
  BY StepUnspent DEF RefinementInv
<1> QED
  BY <1>1, <1>2, ControlInvariant, PTL DEF Spec, RefinementInv

-----------------------------------------------------------------------------
(* The mapping *)

\* Every receipt maps to a call in one of the promised states.
CallsMap ==
    /\ CallState \in [Sessions -> [EffectKeys -> Ledger!CallStates]]
    /\ \A s \in Sessions, k \in EffectKeys :
          /\ effect[s][k] = "none" <=> CallState[s][k] = "none"
          /\ effect[s][k] = "admitted" <=> CallState[s][k] = "out"
          /\ effect[s][k] = "uncertain" <=> CallState[s][k] = "doubt"
          /\ effect[s][k] = "completed" <=> CallState[s][k] = "settled"
          /\ effect[s][k] = "closed" <=> CallState[s][k] = "closed"

\* Every status of a run maps to one of the promised ones.
RunMaps ==
    /\ rootStatus = "absent" <=> Run = "none"
    /\ rootStatus \in Active \cup Waiting <=> Run = "open"
    /\ rootStatus \in {"halted", "uncertain"} <=> Run = "stopped"
    /\ rootStatus \in Terminal \ {"halted"} <=> Run = "ended"
    /\ Run \in {"none", "open", "stopped", "ended"}

\* In a typed state both do, before a step and after it.
LEMMA StatesMap ==
    /\ TypeOK => CallsMap /\ RunMaps
    /\ TypeOK' => CallsMap' /\ RunMaps'
<1>1. TypeOK => CallsMap
  <2> SUFFICES ASSUME \A s \in Sessions, k \in EffectKeys : effect[s][k] \in EffectStatuses
               PROVE  CallsMap
    BY DEF TypeOK, EffectType
  <2> QED
    BY DEF CallsMap, CallState, CallOf, EffectStatuses, Ledger!CallStates
<1>2. TypeOK' => CallsMap'
  <2> SUFFICES ASSUME \A s \in Sessions, k \in EffectKeys : effect'[s][k] \in EffectStatuses
               PROVE  CallsMap'
    BY DEF TypeOK, EffectType
  <2> QED
    BY DEF CallsMap, CallState, CallOf, EffectStatuses, Ledger!CallStates
<1>3. TypeOK => RunMaps
  BY DEF RunMaps, Run, TypeOK, RootType, RootStatuses, Active, Waiting, Terminal
<1>4. TypeOK' => RunMaps'
  BY DEF RunMaps, Run, TypeOK, RootType, RootStatuses, Active, Waiting, Terminal
<1> QED
  BY <1>1, <1>2, <1>3, <1>4

\* The outstanding calls of the promise are the unresolved effects.
LEMMA OutstandingCalls ==
    ASSUME TypeOK, NEW s \in Sessions
    PROVE  Ledger!Outstanding(s) = Unresolved(s)
  BY StatesMap DEF CallsMap, Ledger!Outstanding, Unresolved

\* A step that touches no receipt and no money, and neither opens, stops nor ends
\* the run, is a stutter.
LEMMA StutterStep ==
    ASSUME UNCHANGED <<effect, reserved, spent>>, Run' = Run
    PROVE  UNCHANGED Ledger!vars
  BY DEF Ledger!vars, CallState

\* An ending of an open run whose tree is quiet.
LEMMA EndStep ==
    ASSUME TypeOK, TypeOK', Quiet, rootStatus \in Active \cup Waiting,
           rootStatus' \in Terminal \ {"halted"}, UNCHANGED <<effect, reserved, spent>>
    PROVE  Ledger!End
<1>1. Run = "open" /\ Run' = "ended"
  BY StatesMap DEF RunMaps
<1>2. \A s \in Sessions : Ledger!Outstanding(s) = {} /\ reserved[s] = 0
  BY OutstandingCalls DEF Quiet
<1>3. CallState' = CallState
  BY DEF CallState
<1> QED
  BY <1>1, <1>2, <1>3 DEF Ledger!End

\* A run that stops, with the calls whose outcome is lost.
LEMMA LoseStep ==
    ASSUME TypeOK, TypeOK', rootStatus \notin {"absent"} \cup (Terminal \ {"halted"}),
           rootStatus' \in {"halted", "uncertain"}, UNCHANGED <<reserved, spent>>,
           \A s \in Sessions, k \in EffectKeys :
              \/ effect'[s][k] = effect[s][k]
              \/ effect[s][k] = "admitted" /\ effect'[s][k] = "uncertain"
    PROVE  Ledger!Lose
<1>1. Run \in {"open", "stopped"} /\ Run' = "stopped"
  BY StatesMap DEF RunMaps
<1>2. CallState' \in [Sessions -> [EffectKeys -> Ledger!CallStates]]
  BY StatesMap DEF CallsMap
<1>3. ASSUME NEW s \in Sessions, NEW k \in EffectKeys, CallState'[s][k] # CallState[s][k]
      PROVE  CallState[s][k] = "out" /\ CallState'[s][k] = "doubt"
  <2>1. effect'[s][k] # effect[s][k]
    BY <1>3 DEF CallState
  <2>2. effect[s][k] = "admitted" /\ effect'[s][k] = "uncertain"
    BY <2>1
  <2> QED
    BY <2>2 DEF CallState, CallOf
<1> QED
  BY <1>1, <1>2, <1>3 DEF Ledger!Lose

\* A session's call, admitted, refused or settled.
LEMMA CallStep ==
    ASSUME NEW s \in Sessions, NEW k \in EffectKeys,
           \A t \in Sessions, j \in EffectKeys :
              t # s \/ j # k => effect'[t][j] = effect[t][j]
    PROVE  CallState' = [CallState EXCEPT ![s][k] = CallOf(effect'[s][k])]
<1>1. CallState' = [t \in Sessions |-> [j \in EffectKeys |-> CallOf(effect'[t][j])]]
  BY DEF CallState
<1>2. [CallState EXCEPT ![s][k] = CallOf(effect'[s][k])]
        = [t \in Sessions |->
             IF t = s THEN [CallState[s] EXCEPT ![k] = CallOf(effect'[s][k])] ELSE CallState[t]]
  BY DEF CallState
<1>3. ASSUME NEW t \in Sessions
      PROVE  [j \in EffectKeys |-> CallOf(effect'[t][j])]
               = IF t = s THEN [CallState[s] EXCEPT ![k] = CallOf(effect'[s][k])]
                 ELSE CallState[t]
  BY DEF CallState
<1> QED
  BY <1>1, <1>2, <1>3

-----------------------------------------------------------------------------
(* Every step of the store is a step of the promise, or a stutter *)

\* A typed state before and after, and the quiet or unresolved trees that allow a
\* step to end or to stop a run.
LEMMA RefinementFacts ==
    ASSUME RefinementInv
    PROVE  TypeOK /\ LedgerInv /\ ControlInv /\ ReservationsMatch
  BY DEF RefinementInv, ControlInv, OwnerInv, LedgerInv

\* Opening, closing and ending by the owner.
LEMMA OwnerRefines ==
    ASSUME RefinementInv, TypeOK', OwnerStep
    PROVE  [Ledger!Next]_(Ledger!vars)
<1>t. TypeOK /\ LedgerInv /\ ControlInv /\ ReservationsMatch
  BY RefinementFacts
<1>m. CallsMap /\ RunMaps /\ CallsMap' /\ RunMaps'
  BY <1>t, StatesMap
<1>r. Root \in Sessions
  BY ConstantFacts
<1> USE DEF rootVars, moneyVars, effectVars
<1>1. CASE StartPlanning
  <2>1. Run = "none" /\ Run' = "open" /\ UNCHANGED <<CallState, reserved, spent>>
    BY <1>1, <1>m DEF StartPlanning, RunMaps, Waiting, CallState
  <2>2. spent' = [spent EXCEPT ![Root] = 0]
    BY <1>1, <1>t, <1>r, <2>1
    DEF StartPlanning, RefinementInv, NothingSpentYet, TypeOK, MoneyType
  <2> QED
    BY <1>r, <2>1, <2>2 DEF Ledger!Open, Ledger!Next
<1>2. CASE SavePlan
  <2>1. Run = "none" /\ Run' = "open" /\ UNCHANGED <<CallState, reserved>>
    BY <1>2, <1>m DEF SavePlan, RunMaps, Waiting, CallState
  <2>2. spent' = [spent EXCEPT ![Root] = PriorCost]
    BY <1>2 DEF SavePlan
  <2> QED
    BY <1>r, <2>1, <2>2 DEF Ledger!Open, Ledger!Next
<1>3. CASE RevisePlan \/ (\E r \in Revisions : Approve(r))
  <2>1. Run' = Run /\ UNCHANGED <<effect, reserved, spent>>
    BY <1>3, <1>m DEF RevisePlan, Revisable, Approve, RunMaps, Waiting, Active
  <2> QED
    BY <2>1, StutterStep
<1>4. CASE \E r \in Revisions : Reject(r)
  <2>1. rootStatus = "awaiting_approval" /\ rootStatus' = "rejected"
        /\ UNCHANGED <<effect, reserved, spent>>
    BY <1>4 DEF Reject
  <2>2. Quiet
    BY <1>t, <2>1, QuietTree
  <2>3. Ledger!End
    BY <1>t, <2>1, <2>2, EndStep DEF Waiting, Terminal
  <2> QED
    BY <2>3 DEF Ledger!Next
<1>5. CASE Halt
  <2>1. /\ rootStatus \notin {"absent"} \cup (Terminal \ {"halted"})
        /\ rootStatus' \in {"halted", "uncertain"} /\ UNCHANGED <<effect, reserved, spent>>
    BY <1>5 DEF Halt, Ended
  <2>2. Ledger!Lose
    BY <1>t, <2>1, LoseStep
  <2> QED
    BY <2>2 DEF Ledger!Next
<1>6. CASE CloseUncertain
  <2>1. Run = "stopped" /\ Run' = "ended"
    BY <1>6, <1>m DEF CloseUncertain, RunMaps, Terminal
  <2>2. reserved' = [s \in Sessions |-> 0]
    BY <1>6 DEF CloseUncertain
  <2>3. spent' = [s \in Sessions |-> spent[s] + reserved[s]]
    BY <1>6, <1>t, ClosingChargeIsReserved DEF CloseUncertain
  <2>4. CallState' = [s \in Sessions |-> [k \in EffectKeys |->
                         IF k \in Ledger!Outstanding(s) THEN "closed" ELSE CallState[s][k]]]
    <3>1. ASSUME NEW s \in Sessions, NEW k \in EffectKeys
          PROVE  CallOf(effect'[s][k]) =
                   IF k \in Unresolved(s) THEN "closed" ELSE CallState[s][k]
      BY <1>6 DEF CloseUncertain, CallState, CallOf
    <3>2. CallState' = [s \in Sessions |-> [k \in EffectKeys |-> CallOf(effect'[s][k])]]
      BY DEF CallState
    <3>3. \A s \in Sessions : Ledger!Outstanding(s) = Unresolved(s)
      BY <1>t, OutstandingCalls
    <3> QED
      BY <3>1, <3>2, <3>3
  <2>5. Ledger!Close
    BY <2>1, <2>2, <2>3, <2>4 DEF Ledger!Close
  <2> QED
    BY <2>5 DEF Ledger!Next
<1> QED
  BY <1>1, <1>2, <1>3, <1>4, <1>5, <1>6 DEF OwnerStep

\* Planning and delivery stutter until they end the run.
LEMMA PlanAndDeliveryRefine ==
    ASSUME RefinementInv, TypeOK', NEW w \in Workers, PlanningStep(w) \/ DeliveryStep(w)
    PROVE  [Ledger!Next]_(Ledger!vars)
<1>t. TypeOK /\ LedgerInv /\ ControlInv /\ ReservationsMatch
  BY RefinementFacts
<1>m. CallsMap /\ RunMaps /\ CallsMap' /\ RunMaps'
  BY <1>t, StatesMap
<1> USE DEF rootVars, moneyVars, effectVars
<1>1. ASSUME FailPlanning(w) \/ DeliverDirect(w) \/ FailSynthesis(w) \/ DeliverRoot(w)
      PROVE  [Ledger!Next]_(Ledger!vars)
  <2>1. MayExecute(Root) /\ rootStatus' \in {"failed", "completed"}
        /\ UNCHANGED <<effect, reserved, spent>>
    BY <1>1 DEF FailPlanning, DeliverDirect, FailSynthesis, DeliverRoot, PlanningSettled,
                RootWorks, MayExecute
  <2>2. Quiet
    <3>1. CASE FailPlanning(w) \/ DeliverDirect(w)
      BY <1>t, <3>1, QuietTree DEF FailPlanning, DeliverDirect, PlanningSettled
    <3>2. CASE FailSynthesis(w)
      BY <1>t, <3>2, QuietTree, MoneyAssumption DEF FailSynthesis, RootWorks, Approved, Revisions
    <3>3. CASE DeliverRoot(w)
      BY <3>3 DEF DeliverRoot, Quiet, Settled
    <3> QED
      BY <1>1, <3>1, <3>2, <3>3
  <2>3. rootStatus \in Active \cup Waiting
    BY <2>1 DEF MayExecute, Approved, Waiting
  <2>4. Ledger!End
    BY <1>t, <2>1, <2>2, <2>3, EndStep DEF Terminal
  <2> QED
    BY <2>4 DEF Ledger!Next
<1>2. ASSUME PromotePlan(w) \/ AdmitChildren(w) \/ WaitForChildren(w)
      PROVE  [Ledger!Next]_(Ledger!vars)
  <2>1. rootStatus \in Active \cup Waiting /\ rootStatus' \in Active \cup Waiting
        /\ UNCHANGED <<effect, reserved, spent>>
    BY <1>2 DEF PromotePlan, PlanningSettled, AdmitChildren, WaitForChildren, RootWorks,
                MayExecute, Approved, Active, Waiting
  <2>2. Run' = Run
    BY <1>m, <2>1 DEF RunMaps
  <2> QED
    BY <2>1, <2>2, StutterStep
<1>3. ASSUME \/ \E p \in Phases : SetPhase(w, p)
             \/ \E outcome \in TopicOutcomes : StageTopic(w, outcome)
             \/ DeliverTopic(w) \/ StageSynthesis(w)
      PROVE  [Ledger!Next]_(Ledger!vars)
  <2>1. UNCHANGED <<rootStatus, effect, reserved, spent>>
    BY <1>3 DEF SetPhase, StageTopic, DeliverTopic, StageSynthesis
  <2>2. Run' = Run
    BY <2>1 DEF Run
  <2> QED
    BY <2>1, <2>2, StutterStep
<1> QED
  BY <1>1, <1>2, <1>3 DEF PlanningStep, DeliveryStep

\* Ownership stutters; a call given up stops the run.
LEMMA OwnershipRefines ==
    ASSUME RefinementInv, TypeOK', NEW w \in Workers, OwnershipStep(w)
    PROVE  [Ledger!Next]_(Ledger!vars)
<1>t. TypeOK /\ LedgerInv /\ ControlInv /\ ReservationsMatch
  BY RefinementFacts
<1>m. CallsMap /\ RunMaps /\ CallsMap' /\ RunMaps'
  BY <1>t, StatesMap
<1> USE DEF rootVars, moneyVars, effectVars
<1>1. ASSUME NEW s \in Sessions, NEW seconds \in LeaseSeconds, Claim(w, s, seconds)
      PROVE  [Ledger!Next]_(Ledger!vars)
  <2>1. rootStatus \in Active \cup Waiting /\ rootStatus' \in Active \cup Waiting
        /\ UNCHANGED <<effect, reserved, spent>>
    BY <1>1 DEF Claim, Claimable, MayExecute, Approved, Active, Waiting
  <2>2. Run' = Run
    BY <1>m, <2>1 DEF RunMaps
  <2> QED
    BY <2>1, <2>2, StutterStep
<1>2. ASSUME (\E seconds \in LeaseSeconds : Renew(w, seconds)) \/ Release(w) \/ StopWorker(w)
      PROVE  [Ledger!Next]_(Ledger!vars)
  <2>1. UNCHANGED <<rootStatus, effect, reserved, spent>>
    BY <1>2 DEF Renew, Release, StopWorker
  <2>2. Run' = Run
    BY <2>1 DEF Run
  <2> QED
    BY <2>1, <2>2, StutterStep
<1>3. ASSUME NEW k \in EffectKeys, MarkUncertain(w, k)
      PROVE  [Ledger!Next]_(Ledger!vars)
  <2> PICK s \in Sessions : s = claimed[w] /\ owner[s] = w
    BY <1>3 DEF MarkUncertain, Owns
  <2>1. /\ effect[s][k] = "admitted" /\ effect' = [effect EXCEPT ![s][k] = "uncertain"]
        /\ rootStatus' = "uncertain" /\ UNCHANGED <<reserved, spent>>
    BY <1>3 DEF MarkUncertain
  <2>2. rootStatus \notin {"absent"} \cup (Terminal \ {"halted"})
    <3>1. ~ Settled(s)
      BY <2>1 DEF Settled, Unresolved
    <3> QED
      BY <1>t, <3>1, UnresolvedIsOpen, OwnedHasBegun, TreeAssumption
  <2>3. \A t \in Sessions, j \in EffectKeys :
           \/ effect'[t][j] = effect[t][j]
           \/ effect[t][j] = "admitted" /\ effect'[t][j] = "uncertain"
    BY <1>t, <2>1 DEF TypeOK, EffectType
  <2>4. Ledger!Lose
    BY <1>t, <2>1, <2>2, <2>3, LoseStep
  <2> QED
    BY <2>4 DEF Ledger!Next
<1> QED
  BY <1>1, <1>2, <1>3 DEF OwnershipStep

\* Admitting, refusing and settling a call are the promise's own steps.
LEMMA EffectRefines ==
    ASSUME RefinementInv, TypeOK', NEW w \in Workers, EffectStep(w)
    PROVE  Ledger!Next
<1>t. TypeOK /\ LedgerInv /\ ControlInv /\ ReservationsMatch
  BY RefinementFacts
<1>m. CallsMap /\ RunMaps /\ CallsMap' /\ RunMaps'
  BY <1>t, StatesMap
<1> PICK s \in Sessions : s = claimed[w] /\ owner[s] = w
  BY DEF EffectStep, BeginEffect, SettleEffect, RecordRefusal, Fenced, Owns
<1>1. ASSUME NEW k \in EffectKeys, NEW amount \in Reservations, BeginEffect(w, k, amount)
      PROVE  Ledger!Next
  <2>1. /\ effect[s][k] = "none" /\ effect' = [effect EXCEPT ![s][k] = "admitted"]
        /\ Unresolved(s) = {} /\ reserved' = [reserved EXCEPT ![s] = @ + amount]
        /\ MayExecute(s) /\ UNCHANGED <<rootStatus, spent>>
    BY <1>1 DEF BeginEffect, Unused, rootVars
  <2>2. Run = "open" /\ Run' = Run
    BY <1>m, <2>1 DEF RunMaps, MayExecute, Approved, Waiting
  <2>3. CallState[s][k] = "none" /\ CallState' = [CallState EXCEPT ![s][k] = "out"]
    <3>1. /\ effect'[s][k] = "admitted"
          /\ \A t \in Sessions, j \in EffectKeys :
                t # s \/ j # k => effect'[t][j] = effect[t][j]
      BY <1>t, <2>1, OneReceipt
    <3>2. CallState' = [CallState EXCEPT ![s][k] = CallOf(effect'[s][k])]
      BY <3>1, CallStep
    <3> QED
      BY <1>m, <2>1, <3>1, <3>2 DEF CallOf, CallsMap
  <2>4. reserved' = [reserved EXCEPT ![s] = amount]
    <3>1. reserved[s] = 0 /\ amount \in Nat
      BY <1>t, <2>1, MoneyAssumption DEF ReservationsMatch
    <3>2. reserved[s] + amount = amount
      BY <3>1
    <3>3. reserved' = [reserved EXCEPT ![s] = reserved[s] + amount]
      BY <2>1
    <3> QED
      BY <3>2, <3>3
  <2>5. Ledger!Outstanding(s) = {}
    BY <1>t, <2>1, OutstandingCalls
  <2>6. Ledger!Admit(s, k, amount)
    BY <2>1, <2>2, <2>3, <2>4, <2>5 DEF Ledger!Admit
  <2> QED
    BY <2>6 DEF Ledger!Next
<1>2. ASSUME NEW k \in EffectKeys, NEW charge \in Charges, SettleEffect(w, k, charge)
      PROVE  Ledger!Next
  <2>1. /\ effect[s][k] = "admitted" /\ effect' = [effect EXCEPT ![s][k] = "completed"]
        /\ reserved' = [reserved EXCEPT ![s] = StillReserved(s, k)]
        /\ spent' = [spent EXCEPT ![s] = @ + charge]
        /\ rootStatus' \in {rootStatus, "halted"}
    BY <1>2 DEF SettleEffect
  <2>2. Run \in {"open", "stopped"} /\ Run' \in {Run, "stopped"}
    <3>1. ~ Settled(s)
      BY <2>1 DEF Settled, Unresolved
    <3>2. rootStatus \notin {"absent"} \cup (Terminal \ {"halted"})
      BY <1>t, <3>1, UnresolvedIsOpen, OwnedHasBegun, TreeAssumption
    <3>3. rootStatus' = rootStatus => Run' = Run
      BY DEF Run
    <3> QED
      BY <1>m, <2>1, <3>2, <3>3 DEF RunMaps
  <2>3. CallState[s][k] = "out" /\ CallState' = [CallState EXCEPT ![s][k] = "settled"]
    <3>1. /\ effect'[s][k] = "completed"
          /\ \A t \in Sessions, j \in EffectKeys :
                t # s \/ j # k => effect'[t][j] = effect[t][j]
      BY <1>t, <2>1, OneReceipt
    <3>2. CallState' = [CallState EXCEPT ![s][k] = CallOf(effect'[s][k])]
      BY <3>1, CallStep
    <3> QED
      BY <1>m, <2>1, <3>1, <3>2 DEF CallOf, CallsMap
  <2>4. reserved' = [reserved EXCEPT ![s] = 0]
    BY <1>t, <2>1, NothingStaysReserved
  <2>5. Ledger!Settle(s, k, charge)
    BY <2>1, <2>2, <2>3, <2>4 DEF Ledger!Settle
  <2> QED
    BY <2>5 DEF Ledger!Next
<1>3. ASSUME NEW k \in EffectKeys, RecordRefusal(w, k)
      PROVE  Ledger!Next
  <2>1. /\ effect[s][k] = "none" /\ effect' = [effect EXCEPT ![s][k] = "completed"]
        /\ Approved /\ UNCHANGED <<rootStatus, spent, reserved>>
    BY <1>3 DEF RecordRefusal, Unused, rootVars, moneyVars
  <2>2. Run = "open" /\ Run' = Run
    BY <1>m, <2>1 DEF RunMaps, Approved
  <2>3. CallState[s][k] = "none" /\ CallState' = [CallState EXCEPT ![s][k] = "settled"]
    <3>1. /\ effect'[s][k] = "completed"
          /\ \A t \in Sessions, j \in EffectKeys :
                t # s \/ j # k => effect'[t][j] = effect[t][j]
      BY <1>t, <2>1, OneReceipt
    <3>2. CallState' = [CallState EXCEPT ![s][k] = CallOf(effect'[s][k])]
      BY <3>1, CallStep
    <3> QED
      BY <1>m, <2>1, <3>1, <3>2 DEF CallOf, CallsMap
  <2>4. Ledger!Refuse(s, k)
    BY <2>1, <2>2, <2>3 DEF Ledger!Refuse
  <2> QED
    BY <2>4 DEF Ledger!Next
<1> QED
  BY <1>1, <1>2, <1>3 DEF EffectStep

\* What doubting a set of sessions may do to a receipt.
LEMMA DoubtLoses ==
    ASSUME TypeOK, NEW S, Doubt(S)
    PROVE  /\ \A s \in Sessions, k \in EffectKeys :
                 \/ effect'[s][k] = effect[s][k]
                 \/ effect[s][k] = "admitted" /\ effect'[s][k] = "uncertain"
           /\ (\A s \in S \cap Sessions : Settled(s)) => effect' = effect
<1>1. \A s \in Sessions, k \in EffectKeys :
         \/ effect'[s][k] = effect[s][k]
         \/ effect[s][k] = "admitted" /\ effect'[s][k] = "uncertain"
  BY DEF Doubt
<1>2. ASSUME \A s \in S \cap Sessions : Settled(s)
      PROVE  effect' = effect
  <2>1. \A s \in Sessions, k \in EffectKeys : effect'[s][k] = effect[s][k]
    BY <1>2 DEF Doubt, Settled, Unresolved
  <2>2. effect' \in [Sessions -> [EffectKeys -> EffectStatuses]]
        /\ effect \in [Sessions -> [EffectKeys -> EffectStatuses]]
    <3>1. effect \in [Sessions -> [EffectKeys -> EffectStatuses]]
      BY DEF TypeOK, EffectType
    <3> QED
      BY <2>1, <3>1 DEF Doubt
  <2>3. \A s \in Sessions : effect'[s] = effect[s]
    BY <2>1, <2>2
  <2> QED
    BY <2>2, <2>3
<1> QED
  BY <1>1, <1>2

\* The sweep loses the calls of expired owners, expires quiet runs, or stutters.
LEMMA SweepRefines ==
    ASSUME RefinementInv, TypeOK', SweepStep
    PROVE  [Ledger!Next]_(Ledger!vars)
<1>t. TypeOK /\ LedgerInv /\ ControlInv /\ ReservationsMatch
  BY RefinementFacts
<1>m. CallsMap /\ RunMaps /\ CallsMap' /\ RunMaps'
  BY <1>t, StatesMap
<1>o. TreeDoubt => rootStatus \notin {"absent"} \cup (Terminal \ {"halted"})
  <2>1. TreeDoubt => rootStatus # "absent"
    BY <1>t, AbsentIsQuiet DEF TreeDoubt, Quiet, Settled
  <2>2. TreeDoubt => rootStatus \notin Terminal \ {"halted"}
    BY <1>t, UnresolvedIsOpen DEF TreeDoubt
  <2> QED
    BY <2>1, <2>2
<1>e. ExpiredOwners \subseteq Sessions
  BY DEF ExpiredOwners
<1>s. ASSUME UNCHANGED <<rootStatus, effect, reserved, spent>>
      PROVE  [Ledger!Next]_(Ledger!vars)
  BY <1>s, StutterStep DEF Run
<1> USE DEF moneyVars
<1>1. CASE SweepClaims
  <2>1. Doubt(ExpiredOwners) /\ UNCHANGED <<reserved, spent>>
        /\ rootStatus' = IF RecoveryDoubts THEN "uncertain" ELSE rootStatus
    BY <1>1 DEF SweepClaims, RecoverAccounts
  <2>2. CASE RecoveryDoubts
    <3>1. TreeDoubt
      BY <1>e, <2>2 DEF RecoveryDoubts, TreeDoubt
    <3>2. Ledger!Lose
      BY <1>t, <1>o, <2>1, <2>2, <3>1, DoubtLoses, LoseStep
    <3> QED
      BY <3>2 DEF Ledger!Next
  <2>3. CASE ~ RecoveryDoubts
    <3>1. effect' = effect
      BY <1>t, <2>1, <2>3, DoubtLoses DEF RecoveryDoubts
    <3> QED
      BY <1>s, <2>1, <2>3, <3>1
  <2> QED
    BY <2>2, <2>3
<1>2. CASE SweepDeadline
  <2>1. Doubt(ExpiredOwners) /\ UNCHANGED <<reserved, spent>>
        /\ rootStatus' = IF TreeDoubt THEN "uncertain"
                         ELSE IF Expirable THEN "expired" ELSE rootStatus
    BY <1>2 DEF SweepDeadline, RecoverAccounts
  <2>2. CASE TreeDoubt
    <3>1. Ledger!Lose
      BY <1>t, <1>o, <2>1, <2>2, DoubtLoses, LoseStep
    <3> QED
      BY <3>1 DEF Ledger!Next
  <2>3. CASE ~ TreeDoubt
    <3>1. effect' = effect
      BY <1>t, <2>1, <2>3, DoubtLoses DEF TreeDoubt
    <3>2. Quiet
      BY <2>3 DEF TreeDoubt, Quiet, Settled
    <3>3. CASE Expirable
      <4>1. Ledger!End
        BY <1>t, <2>1, <2>3, <3>1, <3>2, <3>3, EndStep DEF Expirable, Terminal
      <4> QED
        BY <4>1 DEF Ledger!Next
    <3>4. CASE ~ Expirable
      BY <1>s, <2>1, <2>3, <3>1, <3>4
    <3> QED
      BY <3>3, <3>4
  <2> QED
    BY <2>2, <2>3
<1>3. CASE SweepClaimsFails \/ SweepDeadlineSkipped
  BY <1>s, <1>3 DEF SweepClaimsFails, SweepDeadlineSkipped, rootVars, effectVars
<1> QED
  BY <1>1, <1>2, <1>3 DEF SweepStep

\* A claim that finds a call left behind stops the run.
LEMMA ClaimUnresolvedRefines ==
    ASSUME RefinementInv, TypeOK', NEW s \in Sessions, ClaimUnresolved(s)
    PROVE  Ledger!Next
<1>t. TypeOK
  BY RefinementFacts
<1>1. /\ Doubt({s}) /\ MayExecute(s) /\ rootStatus' = "uncertain"
      /\ UNCHANGED <<reserved, spent>>
  BY DEF ClaimUnresolved, Claimable, moneyVars
<1>2. rootStatus \notin {"absent"} \cup (Terminal \ {"halted"})
  BY <1>1 DEF MayExecute, Approved, Active, Terminal
<1>3. Ledger!Lose
  BY <1>t, <1>1, <1>2, DoubtLoses, LoseStep
<1> QED
  BY <1>3 DEF Ledger!Next

\* Every step of the store is a step of the promise or changes nothing of it.
LEMMA StepRefines ==
    RefinementInv /\ TypeOK' /\ [Next]_vars => [Ledger!Next]_(Ledger!vars)
<1> SUFFICES ASSUME RefinementInv, TypeOK', [Next]_vars PROVE [Ledger!Next]_(Ledger!vars)
  OBVIOUS
<1>1. ASSUME UNCHANGED <<rootStatus, effect, reserved, spent>>
      PROVE  [Ledger!Next]_(Ledger!vars)
  BY <1>1, StutterStep DEF Run
<1>2. CASE UNCHANGED vars \/ Tick \/ Revoke \/ Restore
  BY <1>1, <1>2 DEF vars, Tick, Revoke, Restore, rootVars, moneyVars, effectVars
<1> QED
  BY <1>2, OwnerRefines, PlanAndDeliveryRefine, OwnershipRefines, EffectRefines,
     SweepRefines, ClaimUnresolvedRefines DEF Next

\* For any tree, workers, amounts and bounds: the store implements CallLedger, so a
\* governed run makes each call at most once, one at a time in a session, pays or
\* closes what it set aside, and stops when an outcome is lost (ADR 0035 D5).
THEOREM StoreImplementsLedger == Spec => ImplementsLedger
<1>1. Init => Ledger!Init
  <2> SUFFICES ASSUME Init PROVE Ledger!Init
    OBVIOUS
  <2>1. Run = "none"
    BY DEF Init, Run, Active, Waiting
  <2>2. CallState = [s \in Sessions |-> [k \in EffectKeys |-> "none"]]
    BY DEF Init, CallState, CallOf
  <2> QED
    BY <2>1, <2>2 DEF Init, Ledger!Init
<1>2. RefinementInv => TypeOK
  BY RefinementFacts
<1>3. Spec => [][Ledger!Next]_(Ledger!vars)
  BY <1>2, StepRefines, RefinementInvariant, PTL DEF Spec
<1> QED
  BY <1>1, <1>3, PTL DEF Spec, ImplementsLedger, Ledger!Spec

-----------------------------------------------------------------------------
(* What must hold before the run's steps can be seen as OwnerRuns sees them *)

\* Whoever owns an account owns that of a session that exists.
OwnedExists == \A s \in Sessions : owner[s] # NoWorker => session[s] # "absent"

\* The invariant the second step correspondence rests on.
ViewInv == ControlInv /\ OwnedExists

\* A session that exists does not vanish.
LEMMA SessionsStay ==
    ASSUME TypeOK, [Next]_vars, NEW s \in Sessions, session'[s] = "absent"
    PROVE  session[s] = "absent"
<1> USE DEF sessionVars, TypeOK, SessionType
<1>1. CASE OwnerStep
  BY <1>1 DEF OwnerStep, StartPlanning, SavePlan, RevisePlan, Halt, CloseUncertain, StopSessions,
              Approve, Reject
<1>2. ASSUME NEW w \in Workers, PlanningStep(w) \/ OwnershipStep(w) PROVE session[s] = "absent"
  BY <1>2 DEF PlanningStep, PromotePlan, FailPlanning, DeliverDirect,
              OwnershipStep, Claim, Renew, MarkUncertain, Release, StopWorker
<1>3. ASSUME NEW w \in Workers, EffectStep(w) PROVE session[s] = "absent"
  BY <1>3 DEF EffectStep, BeginEffect, SettleEffect, RecordRefusal
<1>4. ASSUME NEW w \in Workers, DeliveryStep(w) PROVE session[s] = "absent"
  BY <1>4 DEF DeliveryStep, AdmitChildren, WaitForChildren, SetPhase, StageTopic,
              DeliverTopic, FailSynthesis, StageSynthesis, DeliverRoot
<1>5. CASE SweepStep \/ Tick \/ Revoke \/ Restore \/ (\E t \in Sessions : ClaimUnresolved(t))
  BY <1>5 DEF SweepStep, SweepClaims, SweepDeadline, SweepClaimsFails, SweepDeadlineSkipped,
              StopSessions, Tick, Revoke, Restore, ClaimUnresolved
<1> QED
  BY <1>1, <1>2, <1>3, <1>4, <1>5 DEF Next, vars

\* Only a session that runs is claimed.
LEMMA StepOwnedExists == TypeOK /\ OwnedExists /\ [Next]_vars => OwnedExists'
<1> SUFFICES ASSUME TypeOK, OwnedExists, [Next]_vars, NEW s \in Sessions, owner'[s] # NoWorker
             PROVE  session'[s] # "absent"
  BY DEF OwnedExists
<1>1. owner[s] # NoWorker \/ session[s] = "running"
  <2>1. ASSUME NEW w \in Workers, NEW t \in Sessions, NEW seconds \in LeaseSeconds,
               Claim(w, t, seconds)
        PROVE  owner[s] # NoWorker \/ session[s] = "running"
    BY <2>1 DEF Claim, Claimable, TypeOK, OwnerType
  <2>2. ASSUME NEW w \in Workers, NEW k \in EffectKeys,
               RecordRefusal(w, k) \/ (\E amount \in Reservations : BeginEffect(w, k, amount))
        PROVE  owner[s] # NoWorker
    BY <2>2 DEF RecordRefusal, BeginEffect, ownerVars
  <2> QED
    BY <2>1, <2>2, OnlyGains DEF Gains, GainsNothing
<1> QED
  BY <1>1, SessionsStay DEF OwnedExists

\* What the view rests on holds in every reachable state.
LEMMA ViewInvariant == Spec => []ViewInv
<1>1. Init => OwnedExists
  BY DEF Init, OwnedExists
<1>2. ControlInv => TypeOK
  BY DEF ControlInv, OwnerInv, LedgerInv
<1>3. OwnedExists /\ ControlInv /\ [Next]_vars => OwnedExists'
  BY <1>2, StepOwnedExists
<1> QED
  BY <1>1, <1>3, ControlInvariant, PTL DEF Spec, ViewInv

-----------------------------------------------------------------------------
(* The view *)

\* What each status, owner and call looks like from outside.
Views ==
    /\ StatusView = "absent" <=> rootStatus = "absent"
    /\ StatusView = "open" <=> rootStatus \in Active \cup Waiting
    /\ StatusView = "uncertain" <=> rootStatus = "uncertain"
    /\ StatusView = "halted" <=> rootStatus = "halted"
    /\ StatusView = "ended" <=> rootStatus \in Terminal \ {"halted"}
    /\ \A s \in Sessions :
          /\ OwnedView(s) = "free" <=> owner[s] = NoWorker
          /\ OwnedView(s) = "live" <=> owner[s] # NoWorker /\ lease[s] > now
          /\ OwnedView(s) = "lapsed" <=> s \in ExpiredOwners
          /\ CallView(s) = "admitted" <=> InFlight(s)
          /\ CallView(s) = "uncertain" <=> ~ InFlight(s) /\ Unresolved(s) # {}
          /\ CallView(s) = "idle" <=> Unresolved(s) = {}

\* In a typed state they look so, before a step and after it.
LEMMA ViewsHold == (TypeOK => Views) /\ (TypeOK' => Views')
<1>1. ASSUME rootStatus \in RootStatuses
      PROVE  /\ StatusView = "absent" <=> rootStatus = "absent"
             /\ StatusView = "open" <=> rootStatus \in Active \cup Waiting
             /\ StatusView = "uncertain" <=> rootStatus = "uncertain"
             /\ StatusView = "halted" <=> rootStatus = "halted"
             /\ StatusView = "ended" <=> rootStatus \in Terminal \ {"halted"}
  BY <1>1 DEF StatusView, RootStatuses, Active, Waiting, Terminal
<1>2. ASSUME rootStatus' \in RootStatuses
      PROVE  /\ StatusView' = "absent" <=> rootStatus' = "absent"
             /\ StatusView' = "open" <=> rootStatus' \in Active \cup Waiting
             /\ StatusView' = "uncertain" <=> rootStatus' = "uncertain"
             /\ StatusView' = "halted" <=> rootStatus' = "halted"
             /\ StatusView' = "ended" <=> rootStatus' \in Terminal \ {"halted"}
  BY <1>2 DEF StatusView, RootStatuses, Active, Waiting, Terminal
<1>3. ASSUME TypeOK, NEW s \in Sessions
      PROVE  /\ OwnedView(s) = "free" <=> owner[s] = NoWorker
             /\ OwnedView(s) = "live" <=> owner[s] # NoWorker /\ lease[s] > now
             /\ OwnedView(s) = "lapsed" <=> s \in ExpiredOwners
  BY <1>3, ConstantFacts DEF OwnedView, ExpiredOwners, TypeOK, OwnerType, ClockType
<1>4. ASSUME TypeOK', NEW s \in Sessions
      PROVE  /\ OwnedView(s)' = "free" <=> owner'[s] = NoWorker
             /\ OwnedView(s)' = "live" <=> owner'[s] # NoWorker /\ lease'[s] > now'
             /\ OwnedView(s)' = "lapsed" <=> s \in ExpiredOwners'
  BY <1>4, ConstantFacts DEF OwnedView, ExpiredOwners, TypeOK, OwnerType, ClockType
<1>5. \A s \in Sessions : /\ InFlight(s) => Unresolved(s) # {}
                          /\ InFlight(s)' => Unresolved(s)' # {}
  BY DEF InFlight, Unresolved
<1>6. ASSUME NEW s \in Sessions
      PROVE  /\ CallView(s) = "admitted" <=> InFlight(s)
             /\ CallView(s) = "uncertain" <=> ~ InFlight(s) /\ Unresolved(s) # {}
             /\ CallView(s) = "idle" <=> Unresolved(s) = {}
             /\ CallView(s)' = "admitted" <=> InFlight(s)'
             /\ CallView(s)' = "uncertain" <=> ~ InFlight(s)' /\ Unresolved(s)' # {}
             /\ CallView(s)' = "idle" <=> Unresolved(s)' = {}
  BY <1>5 DEF CallView
<1>7. (TypeOK => rootStatus \in RootStatuses) /\ (TypeOK' => rootStatus' \in RootStatuses)
  BY DEF TypeOK, RootType
<1>8. ASSUME TypeOK PROVE Views
  BY <1>1, <1>3, <1>6, <1>7, <1>8 DEF Views
<1>9. ASSUME TypeOK' PROVE Views'
  BY <1>2, <1>4, <1>6, <1>7, <1>9 DEF Views
<1> QED
  BY <1>8, <1>9

\* How the view is read.
LEMMA ViewReads ==
    ASSUME TypeOK
    PROVE  /\ OneStatus[Root] = StatusView
           /\ \A s \in Sessions : OneOwned[Root][s] = OwnedView(s) /\ OneCall[Root][s] = CallView(s)
           /\ OneRun!MayHold(Root)
           /\ OneRun!Outstanding(Root) = {s \in Sessions : Unresolved(s) # {}}
           /\ OneRun!Lapsed(Root) = ExpiredOwners
<1>1. /\ OneStatus[Root] = StatusView
      /\ \A s \in Sessions : OneOwned[Root][s] = OwnedView(s) /\ OneCall[Root][s] = CallView(s)
  BY DEF OneStatus, OneOwned, OneCall
<1>2. OneRun!MayHold(Root)
  BY DEF OneRun!MayHold
<1>3. OneRun!Outstanding(Root) = {s \in Sessions : Unresolved(s) # {}}
  BY <1>1, ViewsHold DEF OneRun!Outstanding, Views
<1>4. OneRun!Lapsed(Root) = ExpiredOwners
  BY <1>1, ViewsHold DEF OneRun!Lapsed, Views, ExpiredOwners
<1> QED
  BY <1>1, <1>2, <1>3, <1>4

\* How it changes: each column by itself, given the rows that change.
LEMMA ViewMoves ==
    /\ StatusView' = StatusView => OneStatus' = OneStatus
    /\ (\A s \in Sessions : OwnedView(s)' = OwnedView(s)) => OneOwned' = OneOwned
    /\ (\A s \in Sessions : CallView(s)' = CallView(s)) => OneCall' = OneCall
    /\ \A st : StatusView' = st => OneStatus' = [OneStatus EXCEPT ![Root] = st]
  BY DEF OneStatus, OneOwned, OneCall

\* Columns that a step leaves alone look the same.
LEMMA SameView ==
    /\ UNCHANGED rootStatus => StatusView' = StatusView
    /\ UNCHANGED <<now, owner, lease>> => \A s \in Sessions : OwnedView(s)' = OwnedView(s)
    /\ UNCHANGED effect => \A s \in Sessions : CallView(s)' = CallView(s)
  BY DEF StatusView, OwnedView, CallView, InFlight, Unresolved

\* Fencing accounts frees them.
LEMMA FenceView ==
    ASSUME NEW S \in SUBSET Sessions, Fence(S), UNCHANGED now
    PROVE  OneRun!Fence(Root, S)
<1>1. \A s \in Sessions : OwnedView(s)' = IF s \in S THEN "free" ELSE OwnedView(s)
  BY DEF Fence, OwnedView
<1>2. OneOwned' = [r \in {Root} |-> [s \in Sessions |-> OwnedView(s)']]
  BY DEF OneOwned
<1>3. [OneOwned EXCEPT ![Root] = [x \in Sessions |-> IF x \in S THEN "free" ELSE OneOwned[Root][x]]]
        = [r \in {Root} |-> [s \in Sessions |-> IF s \in S THEN "free" ELSE OwnedView(s)]]
  BY DEF OneOwned
<1> QED
  BY <1>1, <1>2, <1>3 DEF OneRun!Fence

\* The unresolved calls of the accounts given up are in doubt.
LEMMA GiveUpView ==
    ASSUME TypeOK, NEW S \in SUBSET Sessions, StatusView' = "uncertain",
           \A s \in Sessions :
              CallView(s)' = IF s \in S /\ Unresolved(s) # {} THEN "uncertain" ELSE CallView(s)
    PROVE  OneRun!GiveUp(Root, S)
<1>1. OneStatus' = [OneStatus EXCEPT ![Root] = "uncertain"]
  BY ViewMoves
<1>2. OneCall' = [r \in {Root} |-> [s \in Sessions |-> CallView(s)']]
  BY DEF OneCall
<1>3. [OneCall EXCEPT ![Root] = [x \in Sessions |->
          IF x \in S \cap OneRun!Outstanding(Root) THEN "uncertain" ELSE OneCall[Root][x]]]
        = [r \in {Root} |-> [s \in Sessions |->
             IF s \in S /\ Unresolved(s) # {} THEN "uncertain" ELSE CallView(s)]]
  BY ViewReads DEF OneCall
<1> QED
  BY <1>1, <1>2, <1>3, ViewReads DEF OneRun!GiveUp

\* So it is with those a sweep or a claim doubts.
LEMMA DoubtView ==
    ASSUME NEW S \in SUBSET Sessions, Doubt(S)
    PROVE  \A s \in Sessions :
              CallView(s)' = IF s \in S /\ Unresolved(s) # {} THEN "uncertain" ELSE CallView(s)
<1>1. ASSUME NEW s \in Sessions
      PROVE  Unresolved(s)' = Unresolved(s) /\ (InFlight(s)' <=> InFlight(s) /\ s \notin S)
  BY DEF Doubt, Unresolved, InFlight
<1> QED
  BY <1>1 DEF CallView, InFlight, Unresolved

\* The call of one session changes, no other session's does.
LEMMA CallMoves ==
    ASSUME NEW s \in Sessions, NEW c, CallView(s)' = c,
           \A t \in Sessions \ {s}, k \in EffectKeys : effect'[t][k] = effect[t][k]
    PROVE  OneCall' = [OneCall EXCEPT ![Root][s] = c]
<1>1. \A t \in Sessions \ {s} : CallView(t)' = CallView(t)
  BY DEF CallView, InFlight, Unresolved
<1>2. OneCall' = [r \in {Root} |-> [t \in Sessions |-> CallView(t)']]
  BY DEF OneCall
<1>3. [OneCall EXCEPT ![Root][s] = c]
        = [r \in {Root} |-> [t \in Sessions |-> IF t = s THEN c ELSE CallView(t)]]
  BY DEF OneCall
<1> QED
  BY <1>1, <1>2, <1>3

-----------------------------------------------------------------------------
(* Every step of the store is a step of that run, or a stutter *)

\* A step that leaves the view alone.
LEMMA UnseenStep ==
    ASSUME StatusView' = StatusView, \A s \in Sessions : OwnedView(s)' = OwnedView(s),
           \A s \in Sessions : CallView(s)' = CallView(s)
    PROVE  UNCHANGED OneRun!vars
  BY ViewMoves DEF OneRun!vars

\* The one run's steps are the steps of its owner's runs.
LEMMA OneRunSteps ==
    /\ OneRun!RunStep(Root) => OneRun!Next
    /\ \A x \in Sessions : OneRun!AccountStep(Root, x) => OneRun!Next
    /\ \A X \in SUBSET Sessions : OneRun!Lapse(Root, X) => OneRun!Next
  BY DEF OneRun!RunStep, OneRun!Next

\* Whoever passes the fence owns a live account.
LEMMA FencedIsLive ==
    ASSUME NEW w \in Workers, Fenced(w)
    PROVE  claimed[w] \in Sessions /\ owner[claimed[w]] # NoWorker /\ OwnedView(claimed[w]) = "live"
  BY TreeAssumption DEF Fenced, Owns, OwnedView

\* Whoever may execute works for an open run.
LEMMA ExecutedIsOpen ==
    ASSUME TypeOK, NEW s \in Sessions, MayExecute(s)
    PROVE  StatusView = "open"
<1>1. rootStatus \in Active \cup Waiting
  BY DEF MayExecute, Approved, Waiting
<1> QED
  BY <1>1, ViewsHold DEF Views

\* An ending of an open run whose tree is quiet.
LEMMA FinishView ==
    ASSUME TypeOK, TypeOK', Quiet, rootStatus \in Active \cup Waiting,
           rootStatus' \in Terminal \ {"halted"}, UNCHANGED <<now, owner, lease, effect>>
    PROVE  OneRun!Next
<1>1. OneStatus[Root] = "open" /\ OneRun!Outstanding(Root) = {}
  BY ViewsHold, ViewReads DEF Views, Quiet
<1>2. OneStatus' = [OneStatus EXCEPT ![Root] = "ended"]
  BY ViewsHold, ViewMoves DEF Views
<1>3. OneOwned' = OneOwned /\ OneCall' = OneCall
  BY SameView, ViewMoves
<1>4. OneRun!Finish(Root)
  BY <1>1, <1>2, <1>3 DEF OneRun!Finish, OneRun!TreeSettled
<1> QED
  BY <1>4, OneRunSteps DEF OneRun!RunStep

\* The owner starts, halts, closes and rejects the run.
LEMMA OwnerSeen ==
    ASSUME ViewInv, TypeOK', OwnerStep
    PROVE  [OneRun!Next]_(OneRun!vars)
<1>t. TypeOK /\ LedgerInv /\ ControlInv /\ ReservationsMatch
  BY DEF ViewInv, ControlInv, OwnerInv, LedgerInv
<1>v. Views /\ Views'
  BY <1>t, ViewsHold
<1> USE DEF clockVars, rootVars, ownerVars, effectVars
<1>1. CASE StartPlanning \/ SavePlan
  <2>1. rootStatus = "absent" /\ rootStatus' \in Waiting /\ UNCHANGED <<now, owner, lease, effect>>
    BY <1>1 DEF StartPlanning, SavePlan, Waiting
  <2>2. OneStatus[Root] = "absent" /\ OneRun!MayHold(Root)
    BY <1>t, <1>v, <2>1, ViewReads DEF Views
  <2>3. OneStatus' = [OneStatus EXCEPT ![Root] = "open"]
    BY <1>v, <2>1, ViewMoves DEF Views
  <2>4. OneOwned' = OneOwned /\ OneCall' = OneCall
    BY <2>1, SameView, ViewMoves
  <2>5. OneRun!Start(Root)
    BY <2>2, <2>3, <2>4 DEF OneRun!Start
  <2> QED
    BY <2>5, OneRunSteps DEF OneRun!RunStep
<1>2. CASE RevisePlan \/ (\E r \in Revisions : Approve(r))
  <2>1. rootStatus \in Active \cup Waiting /\ rootStatus' \in Active \cup Waiting
        /\ UNCHANGED <<now, owner, lease, effect>>
    BY <1>2 DEF RevisePlan, Revisable, Approve, Active, Waiting
  <2> QED
    BY <1>v, <2>1, SameView, UnseenStep DEF Views
<1>3. CASE \E r \in Revisions : Reject(r)
  <2>1. rootStatus = "awaiting_approval" /\ rootStatus' = "rejected"
        /\ UNCHANGED <<now, owner, lease, effect>>
    BY <1>3 DEF Reject
  <2>2. Quiet
    BY <1>t, <2>1, QuietTree
  <2> QED
    BY <1>t, <2>1, <2>2, FinishView DEF Waiting, Terminal
<1>4. CASE Halt
  <2>1. /\ rootStatus \in Active \cup Waiting \cup {"uncertain"}
        /\ rootStatus' = IF rootStatus = "uncertain" THEN "uncertain" ELSE "halted"
        /\ UNCHANGED <<now, owner, lease, effect>>
    BY <1>4, <1>t DEF Halt, Ended, TypeOK, RootType, RootStatuses
  <2>2. OneOwned' = OneOwned /\ OneCall' = OneCall
    BY <2>1, SameView, ViewMoves
  <2>3. CASE rootStatus = "uncertain"
    BY <2>1, <2>3, SameView, UnseenStep
  <2>4. CASE rootStatus # "uncertain"
    <3>1. OneStatus[Root] = "open" /\ OneStatus' = [OneStatus EXCEPT ![Root] = "halted"]
      BY <1>t, <1>v, <2>1, <2>4, ViewReads, ViewMoves DEF Views
    <3>2. OneRun!Halt(Root)
      BY <2>2, <3>1 DEF OneRun!Halt
    <3> QED
      BY <3>2, OneRunSteps DEF OneRun!RunStep
  <2> QED
    BY <2>3, <2>4
<1>5. CASE CloseUncertain
  <2>1. /\ rootStatus = "uncertain" /\ rootStatus' = "closed" /\ Fence(Accounts) /\ UNCHANGED now
        /\ effect' = [s \in Sessions |-> [k \in EffectKeys |->
                        IF k \in Unresolved(s) THEN "closed" ELSE effect[s][k]]]
    BY <1>5 DEF CloseUncertain
  <2>2. OneStatus[Root] = "uncertain" /\ OneStatus' = [OneStatus EXCEPT ![Root] = "ended"]
    BY <1>t, <1>v, <2>1, ViewReads, ViewMoves DEF Views, Terminal
  <2>3. \A s \in Sessions : Unresolved(s)' = {}
    BY <2>1 DEF Unresolved
  <2>4. \A s \in Sessions : CallView(s)' = "idle"
    BY <1>v, <2>3 DEF Views
  <2>5. OneCall' = [OneCall EXCEPT ![Root] =
           [x \in Sessions |-> IF x \in OneRun!Outstanding(Root) THEN "idle" ELSE OneCall[Root][x]]]
    <3>1. OneCall' = [r \in {Root} |-> [s \in Sessions |-> "idle"]]
      BY <2>4 DEF OneCall
    <3>2. \A x \in Sessions \ OneRun!Outstanding(Root) : OneCall[Root][x] = "idle"
      BY <1>t, <1>v, ViewReads DEF Views
    <3> QED
      BY <3>1, <3>2 DEF OneCall
  <2>6. OneRun!Fence(Root, Sessions)
    <3>1. \A s \in Sessions : owner'[s] = NoWorker
      BY <2>1 DEF Fence, Accounts, ViewInv, OwnedExists
    <3>2. \A s \in Sessions : OwnedView(s)' = "free"
      BY <1>v, <3>1 DEF Views
    <3>3. OneOwned' = [r \in {Root} |-> [s \in Sessions |-> "free"]]
      BY <3>2 DEF OneOwned
    <3> QED
      BY <3>3 DEF OneRun!Fence, OneOwned
  <2>7. OneRun!CloseUncertain(Root)
    BY <2>2, <2>5, <2>6 DEF OneRun!CloseUncertain
  <2> QED
    BY <2>7, OneRunSteps DEF OneRun!RunStep
<1> QED
  BY <1>1, <1>2, <1>3, <1>4, <1>5 DEF OwnerStep

\* Planning and delivery are not seen until they finish the run.
LEMMA PlanAndDeliverySeen ==
    ASSUME ViewInv, TypeOK', NEW w \in Workers, PlanningStep(w) \/ DeliveryStep(w)
    PROVE  [OneRun!Next]_(OneRun!vars)
<1>t. TypeOK /\ LedgerInv /\ ControlInv /\ ReservationsMatch
  BY DEF ViewInv, ControlInv, OwnerInv, LedgerInv
<1>v. Views /\ Views'
  BY <1>t, ViewsHold
<1> USE DEF clockVars, rootVars, ownerVars, effectVars
<1>1. ASSUME FailPlanning(w) \/ DeliverDirect(w) \/ FailSynthesis(w) \/ DeliverRoot(w)
      PROVE  OneRun!Next
  <2>1. MayExecute(Root) /\ rootStatus' \in {"failed", "completed"}
        /\ UNCHANGED <<now, owner, lease, effect>>
    BY <1>1 DEF FailPlanning, DeliverDirect, FailSynthesis, DeliverRoot, PlanningSettled,
                RootWorks, MayExecute
  <2>2. Quiet
    <3>1. CASE FailPlanning(w) \/ DeliverDirect(w)
      BY <1>t, <3>1, QuietTree DEF FailPlanning, DeliverDirect, PlanningSettled
    <3>2. CASE FailSynthesis(w)
      BY <1>t, <3>2, QuietTree, MoneyAssumption DEF FailSynthesis, RootWorks, Approved, Revisions
    <3>3. CASE DeliverRoot(w)
      BY <3>3 DEF DeliverRoot, Quiet, Settled
    <3> QED
      BY <1>1, <3>1, <3>2, <3>3
  <2>3. rootStatus \in Active \cup Waiting
    BY <2>1 DEF MayExecute, Approved, Waiting
  <2> QED
    BY <1>t, <2>1, <2>2, <2>3, FinishView DEF Terminal
<1>2. ASSUME PromotePlan(w) \/ AdmitChildren(w) \/ WaitForChildren(w)
      PROVE  UNCHANGED OneRun!vars
  <2>1. rootStatus \in Active \cup Waiting /\ rootStatus' \in Active \cup Waiting
        /\ UNCHANGED <<now, owner, lease, effect>>
    BY <1>2 DEF PromotePlan, PlanningSettled, AdmitChildren, WaitForChildren, RootWorks,
                MayExecute, Approved, Active, Waiting
  <2> QED
    BY <1>v, <2>1, SameView, UnseenStep DEF Views
<1>3. ASSUME \/ \E p \in Phases : SetPhase(w, p)
             \/ \E outcome \in TopicOutcomes : StageTopic(w, outcome)
             \/ DeliverTopic(w) \/ StageSynthesis(w)
      PROVE  UNCHANGED OneRun!vars
  <2>1. UNCHANGED <<rootStatus, now, owner, lease, effect>>
    BY <1>3 DEF SetPhase, StageTopic, DeliverTopic, StageSynthesis
  <2> QED
    BY <2>1, SameView, UnseenStep
<1> QED
  BY <1>1, <1>2, <1>3 DEF PlanningStep, DeliveryStep

\* Claims, releases and calls given up are seen; renewals and deaths are not.
LEMMA OwnershipSeen ==
    ASSUME ViewInv, TypeOK', NEW w \in Workers, OwnershipStep(w)
    PROVE  [OneRun!Next]_(OneRun!vars)
<1>t. TypeOK /\ LedgerInv /\ ControlInv /\ ReservationsMatch
  BY DEF ViewInv, ControlInv, OwnerInv, LedgerInv
<1>v. Views /\ Views'
  BY <1>t, ViewsHold
<1>w. w # NoWorker
  BY TreeAssumption
<1> USE DEF clockVars, rootVars, ownerVars, effectVars
<1>1. ASSUME NEW s \in Sessions, NEW seconds \in LeaseSeconds, Claim(w, s, seconds)
      PROVE  OneRun!Next
  <2>1. /\ MayExecute(s) /\ Unresolved(s) = {} /\ ~ (owner[s] # NoWorker /\ lease[s] > now)
        /\ owner' = [owner EXCEPT ![s] = w]
        /\ lease' = [lease EXCEPT ![s] = Smaller(AttemptEnd, now + seconds)]
        /\ rootStatus' \in {"planning", "running"} /\ UNCHANGED <<now, effect>>
    BY <1>1 DEF Claim, Claimable
  <2>2. StatusView = "open" /\ StatusView' = "open"
    BY <1>t, <1>v, <2>1, ExecutedIsOpen DEF Views, Active, Waiting
  <2>3. now < Deadline
    BY <2>1 DEF MayExecute, Approved, Live
  <2>4. lease'[s] > now'
    <3>1. now \in Nat /\ Deadline \in Nat /\ AttemptTimeout \in Nat \ {0} /\ seconds \in Nat \ {0}
      BY <1>t, TimeAssumption DEF TypeOK, ClockType
    <3>2. Smaller(AttemptEnd, now + seconds) > now
      BY <2>3, <3>1 DEF Smaller, AttemptEnd
    <3> QED
      BY <1>t, <2>1, <3>2 DEF TypeOK, OwnerType
  <2>5. OwnedView(s)' = "live" /\ OwnedView(s) # "live"
    BY <1>t, <1>v, <1>w, <2>1, <2>4 DEF Views, TypeOK, OwnerType
  <2>6. \A t \in Sessions \ {s} : OwnedView(t)' = OwnedView(t)
    BY <1>t, <2>1 DEF OwnedView, TypeOK, OwnerType
  <2>7. OneOwned' = [OneOwned EXCEPT ![Root][s] = "live"]
    <3>1. OneOwned' = [r \in {Root} |-> [t \in Sessions |-> OwnedView(t)']]
      BY DEF OneOwned
    <3>2. [OneOwned EXCEPT ![Root][s] = "live"]
            = [r \in {Root} |-> [t \in Sessions |-> IF t = s THEN "live" ELSE OwnedView(t)]]
      BY DEF OneOwned
    <3> QED
      BY <2>5, <2>6, <3>1, <3>2
  <2>8. OneStatus' = OneStatus /\ OneCall' = OneCall
    BY <2>1, <2>2, SameView, ViewMoves
  <2>9. OneRun!Claim(Root, s)
    BY <1>t, <2>1, <2>2, <2>5, <2>7, <2>8, ViewReads DEF OneRun!Claim
  <2> QED
    BY <2>9, OneRunSteps DEF OneRun!AccountStep
<1>2. ASSUME NEW seconds \in LeaseSeconds, Renew(w, seconds)
      PROVE  UNCHANGED OneRun!vars
  <2> PICK s \in Sessions : s = claimed[w] /\ owner[s] # NoWorker /\ OwnedView(s) = "live"
    BY <1>2, FencedIsLive DEF Renew
  <2>1. /\ UNCHANGED <<rootStatus, now, owner, effect>> /\ lease[s] > now
        /\ \E until : until > lease[s] /\ lease' = [lease EXCEPT ![s] = until]
    BY <1>2 DEF Renew, Fenced
  <2>2. lease'[s] > now' /\ \A t \in Sessions \ {s} : lease'[t] = lease[t]
    <3>1. lease'[s] > lease[s] /\ \A t \in Sessions \ {s} : lease'[t] = lease[t]
      BY <1>t, <2>1 DEF TypeOK, OwnerType
    <3>2. lease'[s] \in Nat /\ lease[s] \in Nat /\ now \in Nat
      BY <1>t, ConstantFacts DEF TypeOK, OwnerType, ClockType
    <3> QED
      BY <2>1, <3>1, <3>2
  <2>3. \A t \in Sessions : OwnedView(t)' = OwnedView(t)
    BY <2>1, <2>2 DEF OwnedView
  <2> QED
    BY <2>1, <2>3, SameView, UnseenStep
<1>3. ASSUME StopWorker(w)
      PROVE  UNCHANGED OneRun!vars
  BY <1>3, SameView, UnseenStep DEF StopWorker
<1>4. ASSUME Release(w)
      PROVE  OneRun!Next
  <2> PICK s \in Sessions : s = claimed[w] /\ OwnedView(s) = "live"
    BY <1>4, FencedIsLive DEF Release
  <2>1. Unresolved(s) = {} /\ Fence({s}) /\ UNCHANGED <<rootStatus, now, effect>>
    BY <1>4 DEF Release, Settled
  <2>2. OneStatus' = OneStatus /\ OneCall' = OneCall
    BY <2>1, SameView, ViewMoves
  <2>3. OneRun!Fence(Root, {s})
    BY <2>1, FenceView
  <2>4. OneRun!Release(Root, s)
    BY <1>t, <2>1, <2>2, <2>3, ViewReads DEF OneRun!Release
  <2> QED
    BY <2>4, OneRunSteps DEF OneRun!AccountStep
<1>5. ASSUME NEW k \in EffectKeys, MarkUncertain(w, k)
      PROVE  OneRun!Next
  <2> PICK s \in Sessions : s = claimed[w] /\ owner[s] = w
    BY <1>5 DEF MarkUncertain, Owns
  <2>1. /\ effect[s][k] = "admitted" /\ effect' = [effect EXCEPT ![s][k] = "uncertain"]
        /\ Fence({s}) /\ rootStatus' = "uncertain" /\ UNCHANGED now
    BY <1>5 DEF MarkUncertain
  <2>2. InFlight(s) /\ Unresolved(s) = {k}
    BY <1>t, <2>1, NothingStaysReserved DEF InFlight
  <2>3. /\ \A t \in Sessions \ {s} : CallView(t)' = CallView(t)
        /\ ~ InFlight(s)' /\ Unresolved(s)' # {}
    <3>1. /\ effect'[s][k] = "uncertain"
          /\ \A t \in Sessions, j \in EffectKeys :
                t # s \/ j # k => effect'[t][j] = effect[t][j]
      BY <1>t, <2>1, OneReceipt
    <3>2. \A t \in Sessions \ {s} : CallView(t)' = CallView(t)
      BY <3>1 DEF CallView, InFlight, Unresolved
    <3>3. ~ InFlight(s)' /\ Unresolved(s)' # {}
      BY <2>2, <3>1 DEF InFlight, Unresolved
    <3> QED
      BY <3>2, <3>3
  <2>4. CallView(s)' = "uncertain" /\ CallView(s) = "admitted" /\ OwnedView(s) # "free"
    BY <1>v, <1>w, <2>2, <2>3 DEF Views
  <2>5. StatusView' = "uncertain"
    BY <1>v, <2>1 DEF Views
  <2>6. \A t \in Sessions :
           CallView(t)' = IF t \in {s} /\ Unresolved(t) # {} THEN "uncertain" ELSE CallView(t)
    BY <2>2, <2>3, <2>4
  <2>7. OneRun!GiveUp(Root, {s}) /\ OneRun!Fence(Root, {s})
    BY <1>t, <2>1, <2>5, <2>6, GiveUpView, FenceView
  <2>8. OneRun!MarkUncertain(Root, s)
    BY <1>t, <2>4, <2>7, ViewReads DEF OneRun!MarkUncertain
  <2> QED
    BY <2>8, OneRunSteps DEF OneRun!AccountStep
<1> QED
  BY <1>1, <1>2, <1>3, <1>4, <1>5 DEF OwnershipStep

\* Calls are seen when they are admitted and when they settle; a refusal is not.
LEMMA EffectSeen ==
    ASSUME ViewInv, TypeOK', NEW w \in Workers, EffectStep(w)
    PROVE  [OneRun!Next]_(OneRun!vars)
<1>t. TypeOK /\ LedgerInv /\ ControlInv /\ ReservationsMatch
  BY DEF ViewInv, ControlInv, OwnerInv, LedgerInv
<1>v. Views /\ Views'
  BY <1>t, ViewsHold
<1> USE DEF clockVars, rootVars, ownerVars, effectVars
<1> PICK s \in Sessions : s = claimed[w] /\ owner[s] # NoWorker /\ OwnedView(s) = "live"
  BY FencedIsLive DEF EffectStep, BeginEffect, SettleEffect, RecordRefusal
<1>1. ASSUME NEW k \in EffectKeys, NEW amount \in Reservations, BeginEffect(w, k, amount)
      PROVE  OneRun!Next
  <2>1. /\ effect' = [effect EXCEPT ![s][k] = "admitted"] /\ Unresolved(s) = {}
        /\ MayExecute(s) /\ UNCHANGED <<rootStatus, now, owner, lease>>
    BY <1>1 DEF BeginEffect
  <2>2. /\ effect'[s][k] = "admitted"
        /\ \A t \in Sessions, j \in EffectKeys :
              t # s \/ j # k => effect'[t][j] = effect[t][j]
    <3>1. effect' = [effect EXCEPT ![s][k] = "admitted"]
      BY <2>1
    <3> QED
      BY <1>t, <3>1 DEF TypeOK, EffectType
  <2>3. CallView(s)' = "admitted"
    BY <2>2 DEF CallView, InFlight
  <2>4. OneCall' = [OneCall EXCEPT ![Root][s] = "admitted"]
    BY <2>2, <2>3, CallMoves
  <2>5. OneStatus' = OneStatus /\ OneOwned' = OneOwned
    BY <2>1, SameView, ViewMoves
  <2>6. OneRun!BeginCall(Root, s)
    BY <1>t, <2>1, <2>4, <2>5, ViewReads, ExecutedIsOpen DEF OneRun!BeginCall
  <2> QED
    BY <2>6, OneRunSteps DEF OneRun!AccountStep
<1>2. ASSUME NEW k \in EffectKeys, NEW charge \in Charges, SettleEffect(w, k, charge)
      PROVE  OneRun!Next
  <2>1. /\ effect[s][k] = "admitted" /\ effect' = [effect EXCEPT ![s][k] = "completed"]
        /\ rootStatus' \in {rootStatus, "halted"} /\ UNCHANGED <<now, owner, lease>>
    BY <1>2 DEF SettleEffect
  <2>2. /\ effect'[s][k] = "completed"
        /\ \A t \in Sessions, j \in EffectKeys :
              t # s \/ j # k => effect'[t][j] = effect[t][j]
    BY <1>t, <2>1, OneReceipt
  <2>3. InFlight(s) /\ Unresolved(s) = {k}
    BY <1>t, <2>1, NothingStaysReserved DEF InFlight
  <2>4. Unresolved(s)' = {}
    BY <2>2, <2>3 DEF Unresolved
  <2>5. CallView(s) = "admitted" /\ CallView(s)' = "idle"
    BY <1>v, <2>3, <2>4 DEF Views
  <2>6. OneCall' = [OneCall EXCEPT ![Root][s] = "idle"]
    BY <2>2, <2>5, CallMoves
  <2>7. OneOwned' = OneOwned
    BY <2>1, SameView, ViewMoves
  <2>8. OneStatus' = OneStatus \/ OneStatus' = [OneStatus EXCEPT ![Root] = "halted"]
    BY <1>v, <2>1, SameView, ViewMoves DEF Views
  <2>9. OneRun!Settle(Root, s)
    BY <1>t, <2>5, <2>6, <2>7, <2>8, ViewReads DEF OneRun!Settle
  <2> QED
    BY <2>9, OneRunSteps DEF OneRun!AccountStep
<1>3. ASSUME NEW k \in EffectKeys, RecordRefusal(w, k)
      PROVE  UNCHANGED OneRun!vars
  <2>1. /\ effect[s][k] = "none" /\ effect' = [effect EXCEPT ![s][k] = "completed"]
        /\ UNCHANGED <<rootStatus, now, owner, lease>>
    BY <1>3 DEF RecordRefusal, Unused
  <2>2. /\ effect'[s][k] = "completed"
        /\ \A t \in Sessions, j \in EffectKeys :
              t # s \/ j # k => effect'[t][j] = effect[t][j]
    <3>1. effect' = [effect EXCEPT ![s][k] = "completed"]
      BY <2>1
    <3> QED
      BY <1>t, <3>1 DEF TypeOK, EffectType
  <2>3. \A t \in Sessions : Unresolved(t)' = Unresolved(t) /\ (InFlight(t)' <=> InFlight(t))
    BY <2>1, <2>2 DEF Unresolved, InFlight
  <2>4. \A t \in Sessions : CallView(t)' = CallView(t)
    BY <2>3 DEF CallView
  <2> QED
    BY <2>1, <2>4, SameView, UnseenStep
<1> QED
  BY <1>1, <1>2, <1>3 DEF EffectStep

\* In a reachable state a session is settled when none of its calls is unresolved.
LEMMA SettledHasNoCall ==
    ASSUME ReservationsMatch, NEW s \in Sessions
    PROVE  Settled(s) <=> Unresolved(s) = {}
  BY DEF Settled, ReservationsMatch

\* Draining when nothing expired leaves the view alone.
LEMMA NothingExpired ==
    ASSUME ExpiredOwners = {}, RecoverAccounts, UNCHANGED <<now, rootStatus>>
    PROVE  UNCHANGED OneRun!vars
<1>1. \A s \in Sessions : owner'[s] = owner[s] /\ lease'[s] = lease[s]
  BY DEF RecoverAccounts, Fence
<1>2. \A s \in Sessions, k \in EffectKeys : effect'[s][k] = effect[s][k]
  BY DEF RecoverAccounts, Doubt
<1>3. \A s \in Sessions : OwnedView(s)' = OwnedView(s)
  BY <1>1 DEF OwnedView
<1>4. \A s \in Sessions : CallView(s)' = CallView(s)
  BY <1>2 DEF CallView, InFlight, Unresolved
<1> QED
  BY <1>3, <1>4, SameView, UnseenStep

\* A sweep recovers the run when a lease is over, and at the deadline expires it.
LEMMA SweepSeen ==
    ASSUME ViewInv, TypeOK', SweepStep
    PROVE  [OneRun!Next]_(OneRun!vars)
<1>t. TypeOK /\ LedgerInv /\ ControlInv /\ ReservationsMatch /\ LeaseWithinAttempt
  BY DEF ViewInv, ControlInv, OwnerInv, LedgerInv
<1>v. Views /\ Views'
  BY <1>t, ViewsHold
<1>x. ExpiredOwners \in SUBSET Sessions
  BY DEF ExpiredOwners
<1>o. OneRun!Outstanding(Root) = {s \in Sessions : ~ Settled(s)}
  BY <1>t, ViewReads, SettledHasNoCall
<1>r. ASSUME RecoverAccounts, UNCHANGED now
      PROVE  /\ OneRun!Fence(Root, OneRun!Lapsed(Root))
             /\ StatusView' = "uncertain" => OneRun!GiveUp(Root, OneRun!Lapsed(Root))
             /\ OneRun!Lapsed(Root) \cap OneRun!Outstanding(Root) = {} => OneCall' = OneCall
  <2>1. Doubt(ExpiredOwners) /\ Fence(ExpiredOwners)
    BY <1>r DEF RecoverAccounts
  <2>2. \A s \in Sessions :
           CallView(s)' = IF s \in ExpiredOwners /\ Unresolved(s) # {} THEN "uncertain" ELSE CallView(s)
    BY <1>x, <2>1, DoubtView
  <2>3. OneRun!Fence(Root, ExpiredOwners)
    BY <1>r, <1>x, <2>1, FenceView
  <2>4. StatusView' = "uncertain" => OneRun!GiveUp(Root, ExpiredOwners)
    BY <1>t, <1>x, <2>2, GiveUpView
  <2>5. ExpiredOwners \cap OneRun!Outstanding(Root) = {} => OneCall' = OneCall
    BY <1>t, <2>2, ViewReads, ViewMoves
  <2> QED
    BY <1>t, <2>3, <2>4, <2>5, ViewReads
<1>1. CASE SweepClaims
  <2>1. RecoverAccounts /\ rootStatus' = (IF RecoveryDoubts THEN "uncertain" ELSE rootStatus)
        /\ UNCHANGED now
    BY <1>1 DEF SweepClaims, clockVars
  <2>2. RecoveryDoubts <=> OneRun!Lapsed(Root) \cap OneRun!Outstanding(Root) # {}
    BY <1>t, <1>o, ViewReads DEF RecoveryDoubts, ExpiredOwners
  <2>3. CASE ExpiredOwners = {}
    BY <2>1, <2>3, NothingExpired DEF RecoveryDoubts
  <2>4. CASE ExpiredOwners # {}
    <3>1. RecoveryDoubts => StatusView' = "uncertain"
      BY <1>v, <2>1 DEF Views
    <3>2. ~ RecoveryDoubts => OneStatus' = OneStatus
      BY <2>1, SameView, ViewMoves
    <3>3. OneRun!Recover(Root)
      BY <1>t, <1>r, <2>1, <2>2, <2>4, <3>1, <3>2, ViewReads DEF OneRun!Recover
    <3> QED
      BY <3>3, OneRunSteps DEF OneRun!RunStep
  <2> QED
    BY <2>3, <2>4
<1>2. CASE SweepDeadline
  <2>1. RecoverAccounts /\ now >= Deadline /\ UNCHANGED now
        /\ rootStatus' = (IF TreeDoubt THEN "uncertain" ELSE IF Expirable THEN "expired"
                          ELSE rootStatus)
    BY <1>2 DEF SweepDeadline, clockVars
  <2>2. TreeDoubt <=> ~ OneRun!TreeSettled(Root)
    BY <1>o DEF TreeDoubt, OneRun!TreeSettled
  <2>3. CASE rootStatus = "absent"
    <3>1. ExpiredOwners = {} /\ ~ TreeDoubt
      BY <1>t, <2>3, OwnedHasBegun, AbsentIsQuiet DEF ExpiredOwners, TreeDoubt, Quiet, Settled
    <3>2. ~ Expirable
      BY <2>3 DEF Expirable, Active, Waiting
    <3> QED
      BY <2>1, <3>1, <3>2, NothingExpired
  <2>4. CASE rootStatus # "absent"
    <3>1. OneStatus[Root] # "absent"
      BY <1>t, <1>v, <2>4, ViewReads DEF Views
    <3>2. \A s \in Sessions : OneOwned[Root][s] # "live"
      <4>1. \A s \in Sessions : ~ (lease[s] > now)
        BY <1>t, <2>1, ConstantFacts DEF TypeOK, OwnerType, ClockType
      <4> QED
        BY <1>t, <1>v, <4>1, ViewReads DEF Views
    <3>3. TreeDoubt => StatusView' = "uncertain"
      BY <1>v, <2>1 DEF Views
    <3>4. ~ TreeDoubt =>
             OneStatus' = [OneStatus EXCEPT ![Root] = IF @ = "open" THEN "ended" ELSE @]
      <4>1. OneStatus[Root] = "open" <=> Expirable
        BY <1>t, <1>v, ViewReads DEF Views, Expirable
      <4>2. CASE ~ TreeDoubt /\ Expirable
        <5>1. rootStatus' = "expired"
          BY <2>1, <4>2
        <5>2. StatusView' = "ended"
          BY <1>v, <5>1 DEF Views, Terminal
        <5> QED
          BY <4>1, <4>2, <5>2 DEF OneStatus
      <4>3. CASE ~ TreeDoubt /\ ~ Expirable
        <5>1. StatusView' = StatusView
          BY <2>1, <4>3, SameView
        <5> QED
          BY <4>1, <4>3, <5>1 DEF OneStatus
      <4> QED
        BY <4>2, <4>3
    <3>5. OneRun!Expire(Root)
      <4>1. CASE TreeDoubt
        BY <1>r, <2>1, <2>2, <3>1, <3>2, <3>3, <4>1 DEF OneRun!Expire
      <4>2. CASE ~ TreeDoubt
        <5>1. OneCall' = OneCall
          BY <1>r, <2>1, <2>2, <4>2 DEF OneRun!TreeSettled
        <5> QED
          BY <1>r, <2>1, <2>2, <3>1, <3>2, <3>4, <4>2, <5>1 DEF OneRun!Expire
      <4> QED
        BY <4>1, <4>2
    <3> QED
      BY <3>5, OneRunSteps DEF OneRun!RunStep
  <2> QED
    BY <2>3, <2>4
<1>3. CASE SweepClaimsFails \/ SweepDeadlineSkipped
  <2>1. UNCHANGED <<rootStatus, now, owner, lease, effect>>
    BY <1>3 DEF SweepClaimsFails, SweepDeadlineSkipped, clockVars, rootVars, ownerVars, effectVars
  <2> QED
    BY <2>1, SameView, UnseenStep
<1> QED
  BY <1>1, <1>2, <1>3 DEF SweepStep

\* A claim that finds a call left behind gives it up.
LEMMA ClaimUnresolvedSeen ==
    ASSUME ViewInv, TypeOK', NEW s \in Sessions, ClaimUnresolved(s)
    PROVE  OneRun!Next
<1>t. TypeOK
  BY DEF ViewInv, ControlInv, OwnerInv, LedgerInv
<1>v. Views /\ Views'
  BY <1>t, ViewsHold
<1>1. /\ MayExecute(s) /\ ~ (owner[s] # NoWorker /\ lease[s] > now) /\ Unresolved(s) # {}
      /\ Doubt({s}) /\ Fence({s}) /\ rootStatus' = "uncertain" /\ UNCHANGED now
  BY DEF ClaimUnresolved, Claimable, clockVars
<1>2. StatusView = "open" /\ OwnedView(s) # "live"
  BY <1>t, <1>v, <1>1, ExecutedIsOpen DEF Views
<1>3. StatusView' = "uncertain"
  BY <1>v, <1>1 DEF Views
<1>4. OneRun!GiveUp(Root, {s})
  BY <1>t, <1>1, <1>3, DoubtView, GiveUpView
<1>5. OneRun!Fence(Root, {s})
  BY <1>1, FenceView
<1>6. OneRun!ClaimUnresolved(Root, s)
  BY <1>t, <1>1, <1>2, <1>4, <1>5, ViewReads DEF OneRun!ClaimUnresolved
<1> QED
  BY <1>6, OneRunSteps DEF OneRun!AccountStep

\* Time passes: leases run out, none or several at once.
LEMMA TickSeen ==
    ASSUME ViewInv, TypeOK', Tick
    PROVE  [OneRun!Next]_(OneRun!vars)
<1>t. TypeOK
  BY DEF ViewInv, ControlInv, OwnerInv, LedgerInv
<1>v. Views /\ Views'
  BY <1>t, ViewsHold
<1> DEFINE X == {s \in Sessions : OwnedView(s) = "live" /\ OwnedView(s)' # "live"}
<1>1. now' = now + 1 /\ UNCHANGED <<rootStatus, owner, lease, effect>>
  BY DEF Tick, rootVars, ownerVars, effectVars
<1>2. OneStatus' = OneStatus /\ OneCall' = OneCall
  BY <1>1, SameView, ViewMoves
<1>3. \A s \in Sessions : OwnedView(s)' = IF s \in X THEN "lapsed" ELSE OwnedView(s)
  <2>1. now \in Nat /\ \A s \in Sessions : lease[s] \in Nat
    BY <1>t, ConstantFacts DEF TypeOK, OwnerType, ClockType
  <2>2. \A s \in Sessions : lease'[s] > now' => lease[s] > now
    BY <1>1, <2>1
  <2> QED
    BY <1>1, <2>2 DEF OwnedView
<1>4. CASE X = {}
  BY <1>2, <1>3, <1>4, ViewMoves DEF OneRun!vars
<1>5. CASE X # {}
  <2>1. OneOwned' = [r \in {Root} |-> [s \in Sessions |-> OwnedView(s)']]
    BY DEF OneOwned
  <2>2. [OneOwned EXCEPT ![Root] = [x \in Sessions |-> IF x \in X THEN "lapsed" ELSE OneOwned[Root][x]]]
          = [r \in {Root} |-> [s \in Sessions |-> IF s \in X THEN "lapsed" ELSE OwnedView(s)]]
    BY DEF OneOwned
  <2>3. \A x \in X : OneOwned[Root][x] = "live"
    BY DEF OneOwned
  <2>4. OneRun!Lapse(Root, X)
    BY <1>2, <1>3, <1>5, <2>1, <2>2, <2>3 DEF OneRun!Lapse
  <2>5. X \in SUBSET Sessions
    OBVIOUS
  <2> QED
    BY <2>4, <2>5, OneRunSteps
<1> QED
  BY <1>4, <1>5

\* Every step of the store is a step of the run OwnerRuns speaks of, or unseen.
LEMMA StepSeen ==
    ViewInv /\ TypeOK' /\ [Next]_vars => [OneRun!Next]_(OneRun!vars)
<1> SUFFICES ASSUME ViewInv, TypeOK', [Next]_vars PROVE [OneRun!Next]_(OneRun!vars)
  OBVIOUS
<1>1. ASSUME UNCHANGED <<rootStatus, now, owner, lease, effect>>
      PROVE  [OneRun!Next]_(OneRun!vars)
  BY <1>1, SameView, UnseenStep
<1>2. CASE UNCHANGED vars \/ Revoke \/ Restore
  BY <1>1, <1>2 DEF vars, Revoke, Restore, clockVars, rootVars, ownerVars, effectVars
<1> QED
  BY <1>2, OwnerSeen, PlanAndDeliverySeen, OwnershipSeen, EffectSeen, SweepSeen,
     ClaimUnresolvedSeen, TickSeen DEF Next

\* For any tree, workers, amounts and bounds: the store implements a run of
\* OwnerRuns.  The statuses, leases and calls that module gives the runs of an
\* owner, which is where the single active run is decided, are those of store.py.
THEOREM StoreImplementsOneRun == Spec => ImplementsOneRun
<1>1. Init => OneRun!Init
  <2> SUFFICES ASSUME Init PROVE OneRun!Init
    OBVIOUS
  <2>1. StatusView = "absent"
    BY DEF Init, StatusView, Active, Waiting
  <2>2. \A s \in Sessions : OwnedView(s) = "free" /\ CallView(s) = "idle"
    BY DEF Init, OwnedView, CallView, InFlight, Unresolved
  <2> QED
    BY <2>1, <2>2 DEF OneRun!Init, OneStatus, OneOwned, OneCall
<1>2. ViewInv => TypeOK
  BY DEF ViewInv, ControlInv, OwnerInv, LedgerInv
<1>3. Spec => [][OneRun!Next]_(OneRun!vars)
  BY <1>2, StepSeen, ViewInvariant, PTL DEF Spec
<1> QED
  BY <1>1, <1>3, PTL DEF Spec, ImplementsOneRun, OneRun!Spec

=============================================================================
