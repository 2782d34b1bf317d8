------------------------- MODULE ChatTurnRefinement -------------------------
(***************************************************************************)
(* The turn of ChatToolTurn implements the promise of TurnHandover.        *)
(***************************************************************************)
EXTENDS ChatToolTurn

\* Requests that are over and waiting calls that were answered.
Spent == {a \in Requests : at[a] = "over"} \cup {g \in Gates : gate[g] = "resolved"}

\* The approved call that the request which claimed it has not come to yet.
Consent ==
    {g \in Gates : \E p \in Requests :
        at[p] = "claimed" /\ target[p] = g /\ answer[g] = "approve"}

Handover ==
    INSTANCE TurnHandover WITH
        holder <- Continuations, spent <- Spent, consent <- Consent,
        made <- ran, message <- persisted

\* However answers race, processes die and rows expire, the turn is handed over as
\* TurnHandover has it: an answered call never waits again (resume_tool_call), its
\* request alone may make it, and no request that lost the turn comes back to it.
HandsTurnOver == Handover!Spec

=============================================================================
