--------------------------- MODULE OwnerRunsProofs ---------------------------
(***************************************************************************)
(* Proofs about OwnerRuns, for any number of runs and accounts.  What the  *)
(* unique index guarantees at any time (OneIndexed) and what every way of  *)
(* ending a run leaves behind (DoubtIsVisible) together bound the calls an *)
(* owner has outstanding.                                                  *)
(***************************************************************************)
EXTENDS OwnerRuns, TLAPS

\* The index: no two runs of the owner are open or uncertain.
OneIndexed == \A r, o \in Runs : Indexed(r) /\ Indexed(o) => r = o

OwnerInv == TypeOK /\ DoubtIsVisible /\ OneIndexed

\* A step of one run leaves every other run as it was.
LEMMA OthersUntouched ==
    ASSUME TypeOK, NEW r \in Runs, RunStep(r)
    PROVE  \A o \in Runs \ {r} :
             status'[o] = status[o] /\ owned'[o] = owned[o] /\ call'[o] = call[o]
<1>1. ASSUME NEW x \in Accounts, AccountStep(r, x)
      PROVE  \A o \in Runs \ {r} :
               status'[o] = status[o] /\ owned'[o] = owned[o] /\ call'[o] = call[o]
  BY <1>1 DEF AccountStep, TypeOK, Claim, ClaimUnresolved, BeginCall, Settle, Release,
              MarkUncertain, GiveUp, Fence
<1> QED
  BY <1>1 DEF RunStep, TypeOK, Lapse, Start, Recover, Expire, Finish, Halt, CloseUncertain,
              GiveUp, Fence

\* Every transaction keeps each run's columns in their domains.
LEMMA RunStepType ==
    ASSUME TypeOK, NEW r \in Runs, RunStep(r)
    PROVE  TypeOK'
<1> USE DEF TypeOK
<1>1. ASSUME NEW X, Fence(r, X)
      PROVE  owned' \in [Runs -> [Accounts -> {"free", "live", "lapsed"}]]
  BY <1>1 DEF Fence
<1>2. ASSUME NEW X, GiveUp(r, X)
      PROVE  /\ status' \in [Runs -> {"absent", "open", "uncertain", "halted", "ended"}]
             /\ call' \in [Runs -> [Accounts -> {"idle", "admitted", "uncertain"}]]
  BY <1>2 DEF GiveUp
<1>3. ASSUME NEW x \in Accounts, AccountStep(r, x) PROVE TypeOK'
  <2>1. CASE Claim(r, x)
    <3>1. [owned[r] EXCEPT ![x] = "live"] \in [Accounts -> {"free", "live", "lapsed"}]
      OBVIOUS
    <3>2. owned' \in [Runs -> [Accounts -> {"free", "live", "lapsed"}]]
      BY <2>1, <3>1 DEF Claim
    <3> QED
      BY <2>1, <3>2 DEF Claim
  <2>2. CASE ClaimUnresolved(r, x) \/ MarkUncertain(r, x)
    <3>1. Fence(r, {x}) /\ GiveUp(r, {x})
      BY <2>2 DEF ClaimUnresolved, MarkUncertain
    <3> QED
      BY <1>1, <1>2, <3>1
  <2>3. CASE BeginCall(r, x) \/ Settle(r, x)
    <3>1. PICK c \in {"admitted", "idle"} : call' = [call EXCEPT ![r][x] = c]
      BY <2>3 DEF BeginCall, Settle
    <3>2. [call[r] EXCEPT ![x] = c] \in [Accounts -> {"idle", "admitted", "uncertain"}]
      BY <3>1
    <3>3. call' \in [Runs -> [Accounts -> {"idle", "admitted", "uncertain"}]]
      BY <3>1, <3>2
    <3> QED
      BY <2>3, <3>3 DEF BeginCall, Settle
  <2>4. CASE Release(r, x)
    BY <1>1, <2>4 DEF Release
  <2> QED
    BY <1>3, <2>1, <2>2, <2>3, <2>4 DEF AccountStep
<1>8. ASSUME NEW X \in SUBSET Accounts, Lapse(r, X) PROVE TypeOK'
  BY <1>8 DEF Lapse
<1>4. CASE Start(r) \/ Finish(r) \/ Halt(r)
  BY <1>4 DEF Start, Finish, Halt
<1>5. CASE Recover(r)
  BY <1>1, <1>2, <1>5 DEF Recover
<1>6. CASE Expire(r)
  BY <1>1, <1>2, <1>6 DEF Expire
<1>7. CASE CloseUncertain(r)
  BY <1>1, <1>7 DEF CloseUncertain
<1> QED
  BY <1>3, <1>4, <1>5, <1>6, <1>7, <1>8 DEF RunStep

\* No run is ended with a call outstanding, nor opened again over a doubt.
LEMMA RunStepDoubt ==
    ASSUME TypeOK, DoubtIsVisible, NEW r \in Runs, RunStep(r)
    PROVE  DoubtIsVisible'
<1> DEFINE Visible ==
      /\ Outstanding(r)' # {} => status'[r] \notin {"absent", "ended"}
      /\ \A x \in Accounts : call'[r][x] = "uncertain" => status'[r] # "open"
<1>1. ASSUME NEW x \in Accounts, AccountStep(r, x) PROVE Visible
  <2>1. CASE Claim(r, x) \/ Release(r, x)
    BY <2>1 DEF TypeOK, DoubtIsVisible, Outstanding, Claim, Release
  <2>2. CASE ClaimUnresolved(r, x) \/ MarkUncertain(r, x)
    BY <2>2 DEF TypeOK, ClaimUnresolved, MarkUncertain, GiveUp
  <2>3. CASE BeginCall(r, x)
    BY <2>3 DEF TypeOK, DoubtIsVisible, Outstanding, BeginCall
  <2>4. CASE Settle(r, x)
    BY <2>4 DEF TypeOK, DoubtIsVisible, Outstanding, Settle
  <2> QED
    BY <1>1, <2>1, <2>2, <2>3, <2>4 DEF AccountStep
<1>2. ASSUME \/ Start(r) \/ Finish(r) \/ Halt(r)
             \/ \E X \in SUBSET Accounts : Lapse(r, X)
      PROVE  Visible
  BY <1>2 DEF TypeOK, DoubtIsVisible, Outstanding, TreeSettled, Start, Finish, Halt, Lapse
<1>3. ASSUME Recover(r) \/ Expire(r) PROVE Visible
  BY <1>3 DEF TypeOK, DoubtIsVisible, Outstanding, TreeSettled, Recover, Expire,
              GiveUp
<1>4. ASSUME CloseUncertain(r) PROVE Visible
  BY <1>4 DEF TypeOK, Outstanding, CloseUncertain
<1>5. Visible
  <2> HIDE DEF Visible
  <2> QED
    BY <1>1, <1>2, <1>3, <1>4 DEF RunStep
<1>6. ASSUME NEW o \in Runs \ {r}
      PROVE  /\ Outstanding(o)' # {} => status'[o] \notin {"absent", "ended"}
             /\ \A x \in Accounts : call'[o][x] = "uncertain" => status'[o] # "open"
  <2>1. status'[o] = status[o] /\ call'[o] = call[o]
    BY OthersUntouched
  <2>2. Outstanding(o)' = Outstanding(o)
    BY <2>1 DEF Outstanding
  <2> QED
    BY <2>1, <2>2 DEF DoubtIsVisible
<1> QED
  BY <1>5, <1>6 DEF DoubtIsVisible

\* A run takes an indexed status only when the index lets it.
LEMMA RunStepIndexed ==
    ASSUME TypeOK, OneIndexed, NEW r \in Runs, RunStep(r)
    PROVE  OneIndexed'
<1>1. ASSUME NEW x \in Accounts, AccountStep(r, x), Indexed(r)'
      PROVE  Indexed(r) \/ MayHold(r)
  BY <1>1 DEF AccountStep, TypeOK, Indexed, Claim, ClaimUnresolved, BeginCall, Settle,
              Release, MarkUncertain, GiveUp
<1>2. Indexed(r)' => Indexed(r) \/ MayHold(r)
  BY <1>1 DEF RunStep, TypeOK, Indexed, Lapse, Start, Recover, Expire, Finish, Halt,
              CloseUncertain, GiveUp
<1>3. \A o \in Runs \ {r} : Indexed(o)' = Indexed(o)
  BY OthersUntouched DEF Indexed
<1> QED
  BY <1>2, <1>3 DEF OneIndexed, MayHold

\* The invariant holds in every reachable state.
LEMMA OwnerInvariant == Spec => []OwnerInv
<1>1. Init => OwnerInv
  BY DEF Init, OwnerInv, TypeOK, DoubtIsVisible, OneIndexed, Indexed, Outstanding
<1>2. OwnerInv /\ [Next]_vars => OwnerInv'
  <2>1. ASSUME OwnerInv, NEW r \in Runs, RunStep(r) PROVE OwnerInv'
    BY <2>1, RunStepType, RunStepDoubt, RunStepIndexed DEF OwnerInv
  <2>2. OwnerInv /\ UNCHANGED vars => OwnerInv'
    BY DEF OwnerInv, vars, TypeOK, DoubtIsVisible, OneIndexed, Indexed, Outstanding
  <2> QED
    BY <2>1, <2>2 DEF Next
<1> QED
  BY <1>1, <1>2, PTL DEF Spec

\* For any number of runs and accounts: a run with a call outstanding has not
\* ended, and one given up keeps its run from being worked on (close_uncertain,
\* expire_root, _recover_accounts, _settle_effect).
THEOREM DoubtStaysVisible == Spec => []DoubtIsVisible
<1>1. OwnerInv => DoubtIsVisible
  BY DEF OwnerInv
<1> QED
  BY <1>1, OwnerInvariant, PTL

\* For any number of runs and accounts: two runs of one owner have calls
\* outstanding at once only if one was halted before the other's was admitted.
THEOREM CallsAreSerial == Spec => NoParallelCalls
<1> DEFINE Serial ==
      \A r, o \in Runs : \A x \in Accounts :
         r # o /\ call[r][x] = "idle" /\ call'[r][x] = "admitted" /\ Outstanding(o) # {}
            => status[o] = "halted"
<1>1. OwnerInv /\ [Next]_vars => [Serial]_vars
  <2> SUFFICES ASSUME OwnerInv, NEW s \in Runs, RunStep(s),
                      NEW r \in Runs, NEW o \in Runs, NEW x \in Accounts, r # o,
                      call[r][x] = "idle", call'[r][x] = "admitted",
                      Outstanding(o) # {}
               PROVE  status[o] = "halted"
    BY DEF Next
  <2>1. r = s
    BY OthersUntouched DEF OwnerInv
  <2>2. Indexed(r)
    <3>1. ASSUME NEW z \in Accounts, AccountStep(r, z) PROVE Indexed(r)
      BY <3>1 DEF AccountStep, OwnerInv, TypeOK, Indexed, Claim, ClaimUnresolved,
                  BeginCall, Settle, Release, MarkUncertain, GiveUp
    <3> QED
      BY <2>1, <3>1 DEF RunStep, OwnerInv, TypeOK, Indexed, Lapse, Start, Recover, Expire,
                        Finish, Halt, CloseUncertain, GiveUp
  <2>3. ~ Indexed(o)
    BY <2>2 DEF OwnerInv, OneIndexed
  <2>4. status[o] \notin {"absent", "ended"}
    BY DEF OwnerInv, DoubtIsVisible
  <2> QED
    BY <2>3, <2>4 DEF OwnerInv, TypeOK, Indexed
<1> QED
  BY <1>1, OwnerInvariant, PTL DEF Spec, NoParallelCalls

=============================================================================
