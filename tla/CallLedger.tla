----------------------------- MODULE CallLedger -----------------------------
(***************************************************************************)
(* What a governed run promises about its external calls, without workers, *)
(* leases, phases or statuses: a call is made at most once, one at a time  *)
(* in a session, only while the run is open; its money is set aside before *)
(* and paid or closed after; a call whose outcome is lost stops the run,   *)
(* and only the owner's close ends it then.  OrchestrationRefinement shows *)
(* that the store implements this.                                         *)
(***************************************************************************)
EXTENDS Naturals

CONSTANTS
    Sessions,  \* the sessions of one run
    Calls,     \* the identities a session's calls may have
    Amounts    \* what a call may set aside or cost

VARIABLES
    run,   \* none, open, stopped (no further call) or ended
    call,  \* none, out, doubt, settled or closed
    held,  \* money set aside in each session
    paid   \* money charged to each session

CallStates == {"none", "out", "doubt", "settled", "closed"}

vars == <<run, call, held, paid>>

Outstanding(s) == {c \in Calls : call[s][c] \in {"out", "doubt"}}

Init ==
    /\ run = "none"
    /\ call = [s \in Sessions |-> [c \in Calls |-> "none"]]
    /\ held = [s \in Sessions |-> 0]
    /\ paid = [s \in Sessions |-> 0]

\* A run may start on a session that has already cost something.
Open(s, amount) ==
    /\ run = "none" /\ run' = "open"
    /\ paid' = [paid EXCEPT ![s] = amount]
    /\ UNCHANGED <<call, held>>

Admit(s, c, amount) ==
    /\ run = "open" /\ call[s][c] = "none" /\ Outstanding(s) = {}
    /\ call' = [call EXCEPT ![s][c] = "out"]
    /\ held' = [held EXCEPT ![s] = amount]
    /\ UNCHANGED <<run, paid>>

\* A refused call is settled at once and costs nothing.
Refuse(s, c) ==
    /\ run = "open" /\ call[s][c] = "none"
    /\ call' = [call EXCEPT ![s][c] = "settled"]
    /\ UNCHANGED <<run, held, paid>>

\* A late answer is recorded even after the run stopped; one that cost too much
\* stops it.
Settle(s, c, amount) ==
    /\ run \in {"open", "stopped"} /\ call[s][c] = "out"
    /\ call' = [call EXCEPT ![s][c] = "settled"]
    /\ held' = [held EXCEPT ![s] = 0]
    /\ paid' = [paid EXCEPT ![s] = @ + amount]
    /\ run' \in {run, "stopped"}

\* Calls whose outcome is lost: the money stays held and the run stops.
Lose ==
    /\ run \in {"open", "stopped"}
    /\ call' \in [Sessions -> [Calls -> CallStates]]
    /\ \A s \in Sessions, c \in Calls :
          call'[s][c] # call[s][c] => call[s][c] = "out" /\ call'[s][c] = "doubt"
    /\ run' = "stopped"
    /\ UNCHANGED <<held, paid>>

\* An outcome, a rejection or an expiry: nothing is outstanding anywhere.
End ==
    /\ run = "open" /\ \A s \in Sessions : Outstanding(s) = {} /\ held[s] = 0
    /\ run' = "ended"
    /\ UNCHANGED <<call, held, paid>>

\* The owner ends a stopped run: what is outstanding is closed and paid for.
Close ==
    /\ run = "stopped" /\ run' = "ended"
    /\ call' = [s \in Sessions |-> [c \in Calls |->
                  IF c \in Outstanding(s) THEN "closed" ELSE call[s][c]]]
    /\ paid' = [s \in Sessions |-> paid[s] + held[s]]
    /\ held' = [s \in Sessions |-> 0]

Next ==
    \/ \E s \in Sessions, amount \in Amounts : Open(s, amount)
    \/ \E s \in Sessions, c \in Calls :
          \/ Refuse(s, c)
          \/ \E amount \in Amounts : Admit(s, c, amount) \/ Settle(s, c, amount)
    \/ Lose \/ End \/ Close

Spec == Init /\ [][Next]_vars

=============================================================================
