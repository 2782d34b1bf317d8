------------------------------ MODULE OwnerRuns ------------------------------
(***************************************************************************)
(* The runs of one owner, competing for the single active-run allowance    *)
(* that the unique index uq_orchestration_active_owner enforces.           *)
(*                                                                         *)
(* Each run is what OrchestrationStore details, seen from here: whether it *)
(* is open, uncertain, halted or ended, whether a worker owns each of its  *)
(* accounts (live, or lapsed once the lease is over) and the one call each *)
(* account may have without an outcome.  A transaction that would give a   *)
(* second run an indexed status violates the index and changes nothing.  A *)
(* definition MutX is a plausible mistake in the code X models; no         *)
(* specification uses it.                                                  *)
(***************************************************************************)
EXTENDS Naturals

CONSTANTS
    Runs,     \* the runs the owner may request
    Accounts  \* the accounts of a run: its root's and its children's

VARIABLES
    status,  \* orchestration_roots.status of each run, its open statuses as one
    owned,   \* each account: free, live (lease ahead) or lapsed (lease over)
    call     \* its outstanding effect: idle when none, admitted or uncertain

vars == <<status, owned, call>>

Indexed(r) == status[r] \in {"open", "uncertain"}

\* The accounts of r whose call has no outcome yet.
Outstanding(r) == {x \in Accounts : call[r][x] # "idle"}

\* The checks of deliver_root and expire_root: no call is left in the whole tree.
MutTreeSettled(r) == \E x \in Accounts : x \notin Outstanding(r)
TreeSettled(r) == Outstanding(r) = {}

\* The index lets r take an indexed status.
MutMayHold(r) == TRUE
MayHold(r) == \A o \in Runs \ {r} : ~ Indexed(o)

\* The expired owners the sweep finds, whatever the run's status.
MutLapsed(r) == {x \in Accounts : owned[r][x] = "lapsed" /\ Indexed(r)}
Lapsed(r) == {x \in Accounts : owned[r][x] = "lapsed"}

TypeOK ==
    /\ status \in [Runs -> {"absent", "open", "uncertain", "halted", "ended"}]
    /\ owned \in [Runs -> [Accounts -> {"free", "live", "lapsed"}]]
    /\ call \in [Runs -> [Accounts -> {"idle", "admitted", "uncertain"}]]

Init ==
    /\ status = [r \in Runs |-> "absent"]
    /\ owned = [r \in Runs |-> [x \in Accounts |-> "free"]]
    /\ call = [r \in Runs |-> [x \in Accounts |-> "idle"]]

\* Clear the ownership of the accounts X of r.
Fence(r, X) ==
    owned' = [owned EXCEPT ![r] =
                [x \in Accounts |-> IF x \in X THEN "free" ELSE owned[r][x]]]

\* The calls of the accounts X are given up: the run turns uncertain, whatever
\* its status was.  The whole transaction fails when the index refuses.
GiveUp(r, X) ==
    /\ MayHold(r)
    /\ status' = [status EXCEPT ![r] = "uncertain"]
    /\ call' = [call EXCEPT ![r] =
                  [x \in Accounts |-> IF x \in X \cap Outstanding(r) THEN "uncertain"
                                      ELSE call[r][x]]]

-----------------------------------------------------------------------------
(* One run's transactions *)

Start(r) ==
    /\ status[r] = "absent" /\ MayHold(r)
    /\ status' = [status EXCEPT ![r] = "open"]
    /\ UNCHANGED <<owned, call>>

Claim(r, x) ==
    /\ status[r] = "open" /\ owned[r][x] # "live" /\ x \notin Outstanding(r)
    /\ owned' = [owned EXCEPT ![r][x] = "live"]
    /\ UNCHANGED <<status, call>>

\* claim of an account whose last worker left a call behind.
ClaimUnresolved(r, x) ==
    /\ status[r] = "open" /\ owned[r][x] # "live" /\ x \in Outstanding(r)
    /\ GiveUp(r, {x}) /\ Fence(r, {x})

BeginCall(r, x) ==
    /\ status[r] = "open" /\ owned[r][x] = "live" /\ x \notin Outstanding(r)
    /\ call' = [call EXCEPT ![r][x] = "admitted"]
    /\ UNCHANGED <<status, owned>>

\* A live owner settles its call, after a halt too; an overrun halts the run.
Settle(r, x) ==
    /\ owned[r][x] = "live" /\ call[r][x] = "admitted"
    /\ call' = [call EXCEPT ![r][x] = "idle"]
    /\ \/ UNCHANGED status
       \/ status' = [status EXCEPT ![r] = "halted"]
    /\ UNCHANGED owned

Release(r, x) ==
    /\ owned[r][x] = "live" /\ x \notin Outstanding(r)
    /\ Fence(r, {x})
    /\ UNCHANGED <<status, call>>

\* Leases of r run out, several at one instant perhaps: their workers stopped
\* renewing them or are gone.
Lapse(r, X) ==
    /\ X # {} /\ \A x \in X : owned[r][x] = "live"
    /\ owned' = [owned EXCEPT ![r] =
                   [x \in Accounts |-> IF x \in X THEN "lapsed" ELSE owned[r][x]]]
    /\ UNCHANGED <<status, call>>

\* mark_effect_uncertain by the worker that made the call.
MarkUncertain(r, x) ==
    /\ owned[r][x] # "free" /\ call[r][x] = "admitted"
    /\ GiveUp(r, {x}) /\ Fence(r, {x})

\* recover_expired_claims: fence every expired owner of the run.
Recover(r) ==
    /\ Lapsed(r) # {} /\ Fence(r, Lapsed(r))
    /\ IF Lapsed(r) \cap Outstanding(r) # {} THEN GiveUp(r, Lapsed(r))
       ELSE UNCHANGED <<status, call>>

\* expire_root: no lease outlives the deadline, so every owner is drained; a run
\* with a call left is uncertain, an open one ends, any other stays.
Expire(r) ==
    /\ status[r] # "absent" /\ \A x \in Accounts : owned[r][x] # "live"
    /\ Fence(r, Lapsed(r))
    /\ IF ~ TreeSettled(r) THEN GiveUp(r, Lapsed(r))
       ELSE /\ status' = [status EXCEPT ![r] = IF @ = "open" THEN "ended" ELSE @]
            /\ UNCHANGED call

\* The root's outcome, a rejection or a failed plan.
Finish(r) ==
    /\ status[r] = "open" /\ TreeSettled(r)
    /\ status' = [status EXCEPT ![r] = "ended"]
    /\ UNCHANGED <<owned, call>>

Halt(r) ==
    /\ status[r] = "open"
    /\ status' = [status EXCEPT ![r] = "halted"]
    /\ UNCHANGED <<owned, call>>

\* close_uncertain: every outstanding call is charged without an outcome.
CloseUncertain(r) ==
    /\ status[r] = "uncertain"
    /\ status' = [status EXCEPT ![r] = "ended"]
    /\ call' = [call EXCEPT ![r] =
                  [x \in Accounts |-> IF x \in Outstanding(r) THEN "idle"
                                      ELSE call[r][x]]]
    /\ Fence(r, Accounts)

AccountStep(r, x) ==
    \/ Claim(r, x) \/ ClaimUnresolved(r, x) \/ BeginCall(r, x) \/ Settle(r, x)
    \/ Release(r, x) \/ MarkUncertain(r, x)

RunStep(r) ==
    \/ \E x \in Accounts : AccountStep(r, x)
    \/ \E X \in SUBSET Accounts : Lapse(r, X)
    \/ Start(r) \/ Recover(r) \/ Expire(r) \/ Finish(r) \/ Halt(r) \/ CloseUncertain(r)

Next == \E r \in Runs : RunStep(r)

Spec == Init /\ [][Next]_vars

\* Leases end and the watchdog sweeps every minute.  Nothing is assumed of the
\* owner, who may leave an uncertain run as it is.
FairSpec ==
    /\ Spec
    /\ \A r \in Runs :
          /\ WF_vars(Recover(r))
          /\ \A x \in Accounts :
                WF_vars(\E X \in SUBSET Accounts : x \in X /\ Lapse(r, X))

-----------------------------------------------------------------------------
(* Properties *)

\* A call without an outcome can always be seen in its run's status: the run has
\* not ended, and once the call was given up it is not open to further work.
\* Closing and expiry must leave nothing behind, and no overrun or halt that
\* meets an uncertain run may open it again.
DoubtIsVisible ==
    \A r \in Runs :
        /\ Outstanding(r) # {} => status[r] \notin {"absent", "ended"}
        /\ \A x \in Accounts : call[r][x] = "uncertain" => status[r] # "open"

\* A call is admitted only while no other run of the owner has one outstanding,
\* unless that run was halted: the allowance is also the owner's parallelism.
NoParallelCalls ==
    [][ \A r, o \in Runs : \A x \in Accounts :
          r # o /\ call[r][x] = "idle" /\ call'[r][x] = "admitted" /\ Outstanding(o) # {}
             => status[o] = "halted" ]_vars

\* A lapsed claim is drained in the end, or another run of the owner holds the
\* allowance its recovery needs: that is the only thing recovery can wait for.
DrainedOrHeld ==
    \A r \in Runs : \A x \in Accounts :
        owned[r][x] = "lapsed" ~> (owned[r][x] # "lapsed" \/ ~ MayHold(r))

=============================================================================
