----------------------- MODULE OrchestrationRefinement -----------------------
(***************************************************************************)
(* The store of a governed run implements two abstract specifications: the *)
(* promise of CallLedger about its calls, and the life of one run in       *)
(* OwnerRuns, so that what OwnerRuns says of the runs of an owner is said  *)
(* of runs that behave as the store lets them.                             *)
(***************************************************************************)
EXTENDS OrchestrationStore

Run ==
    CASE rootStatus = "absent" -> "none"
      [] rootStatus \in Active \cup Waiting -> "open"
      [] rootStatus \in {"halted", "uncertain"} -> "stopped"
      [] OTHER -> "ended"

\* The promised state of a call with that receipt.
CallOf(status) ==
    CASE status = "admitted" -> "out"
      [] status = "uncertain" -> "doubt"
      [] status = "completed" -> "settled"
      [] OTHER -> status

CallState == [s \in Sessions |-> [k \in EffectKeys |-> CallOf(effect[s][k])]]

Ledger ==
    INSTANCE CallLedger WITH
        Calls <- EffectKeys, Amounts <- {0, PriorCost} \cup Reservations \cup Charges,
        run <- Run, call <- CallState, held <- reserved, paid <- spent

\* Whatever its workers, its sweep and its owner do, a governed run keeps the
\* promise of CallLedger: docs/adr/0035 D5 as store.py realises it.
ImplementsLedger == Ledger!Spec

-----------------------------------------------------------------------------
(* The run as OwnerRuns sees it: its statuses, owners and calls *)

StatusView ==
    CASE rootStatus \in Active \cup Waiting -> "open"
      [] rootStatus \in {"absent", "uncertain", "halted"} -> rootStatus
      [] OTHER -> "ended"

\* A lease that is over is a claim that lapsed, whatever its worker believes.
OwnedView(s) ==
    CASE owner[s] = NoWorker -> "free"
      [] owner[s] # NoWorker /\ lease[s] > now -> "live"
      [] OTHER -> "lapsed"

CallView(s) ==
    CASE InFlight(s) -> "admitted"
      [] ~ InFlight(s) /\ Unresolved(s) # {} -> "uncertain"
      [] OTHER -> "idle"

OneStatus == [r \in {Root} |-> StatusView]
OneOwned == [r \in {Root} |-> [s \in Sessions |-> OwnedView(s)]]
OneCall == [r \in {Root} |-> [s \in Sessions |-> CallView(s)]]

OneRun ==
    INSTANCE OwnerRuns WITH
        Runs <- {Root}, Accounts <- Sessions,
        status <- OneStatus, owned <- OneOwned, call <- OneCall

\* What OwnerRuns takes a run of an owner to be is what the store makes of it:
\* every claim, call, sweep, expiry and ending of store.py is one of its steps.
ImplementsOneRun == OneRun!Spec

=============================================================================
