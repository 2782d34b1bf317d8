----------------------------- MODULE ChatToolTurn -----------------------------
(***************************************************************************)
(* One turn of a chat with tools: the request that sends the message, the  *)
(* calls the tool loop makes, the calls that wait for the user's answer,   *)
(* and the requests that answer them, each of which resumes the turn.      *)
(*                                                                         *)
(* Every request has a database transaction of its own.  The loop flushes  *)
(* an audit row for each call and commits nothing: its rows become durable *)
(* with the answer to a waiting call, with the next waiting call or with   *)
(* the assistant's message, and are rolled back when the request ends in   *)
(* any other way.  A definition MutX is a plausible mistake in the code X  *)
(* models; no specification uses it.                                       *)
(***************************************************************************)
EXTENDS Naturals

CONSTANTS
    Send,       \* the request that starts the turn
    Posts,      \* requests that answer a waiting call
    Gates,      \* calls that may come to wait for the user
    NoGate,     \* no such call
    Cap,        \* chat_tool_call_cap
    RoundCalls, \* bound: calls the loop makes in one round
    MayCrash    \* whether a process may die, or a client hang up, half-way

ASSUME TurnAssumption ==
    /\ Send \notin Posts /\ (Posts \cup {Send}) \cap Gates = {} /\ NoGate \notin Gates
    /\ Cap \in Nat \ {0} /\ RoundCalls \in Nat \ {0} /\ MayCrash \in BOOLEAN

Requests == Posts \cup {Send}

VARIABLES
    at,       \* how far each request is
    used,     \* its calls_used
    governed, \* its calls in the round under way (governed_count)
    flushed,  \* whether it has made a call whose audit row it has only flushed
    target,   \* the waiting call it has claimed
    verdict,  \* the confirmation_state it has flushed for that call's gate row
    gate,     \* each waiting call's row
    carried,  \* the calls_used stored in it
    expired,  \* whether its time has passed
    answer,   \* the answer that claimed it
    ran,      \* how often it was dispatched
    gateLog,  \* confirmation_state of its gate row, as committed
    unlogged, \* whether the audit row of a call that was made was rolled back
    persisted,  \* whether the assistant's message exists
    archived,   \* whether the chat is archived
    streaming   \* whether the turn was sent with stream=true

loopVars == <<used, governed>>
gateVars == <<gate, carried, expired, answer>>
auditVars == <<gateLog, unlogged, persisted>>
vars == <<at, loopVars, flushed, target, verdict, gateVars, ran, auditVars,
          archived, streaming>>

\* A request that is going on with the turn, and those that loop.
Looping == {"asking", "round", "gating", "final", "failed"}
Going == Looping \cup {"claimed", "answered"}

TypeOK ==
    /\ at \in [Requests -> Going \cup {"idle", "over"}]
    /\ used \in [Requests -> 0 .. Cap + RoundCalls] /\ governed \in [Requests -> 0..RoundCalls]
    /\ flushed \in [Requests -> BOOLEAN]
    /\ target \in [Requests -> Gates \cup {NoGate}]
    /\ verdict \in [Requests -> {"pending", "approved", "denied"}]
    /\ gate \in [Gates -> {"absent", "pending", "resolved"}]
    /\ carried \in [Gates -> 0 .. Cap - 1] /\ expired \in [Gates -> BOOLEAN]
    /\ answer \in [Gates -> {"none", "approve", "deny"}]
    /\ ran \in [Gates -> Nat]
    /\ gateLog \in [Gates -> {"absent", "pending", "approved", "denied"}]
    /\ unlogged \in BOOLEAN /\ persisted \in BOOLEAN /\ archived \in BOOLEAN /\ streaming \in BOOLEAN

Init ==
    /\ at = [a \in Requests |-> "idle"]
    /\ used = [a \in Requests |-> 0] /\ governed = [a \in Requests |-> 0]
    /\ flushed = [a \in Requests |-> FALSE]
    /\ target = [a \in Requests |-> NoGate]
    /\ verdict = [a \in Requests |-> "pending"]
    /\ gate = [g \in Gates |-> "absent"] /\ carried = [g \in Gates |-> 0]
    /\ expired = [g \in Gates |-> FALSE] /\ answer = [g \in Gates |-> "none"]
    /\ ran = [g \in Gates |-> 0] /\ gateLog = [g \in Gates |-> "absent"]
    /\ unlogged = FALSE /\ persisted = FALSE /\ archived = FALSE /\ streaming \in BOOLEAN

Goto(a, step) == at' = [at EXCEPT ![a] = step]

\* The request's transaction commits what it flushed, or ends without.
Commit(a) == flushed' = [flushed EXCEPT ![a] = FALSE] /\ UNCHANGED unlogged
Rollback(a) ==
    /\ flushed' = [flushed EXCEPT ![a] = FALSE]
    /\ unlogged' = (unlogged \/ flushed[a])

----------------------------------------------------------------------------
(* run_chat_tool_loop, in the request a.                                   *)

SendMessage ==
    /\ at[Send] = "idle" /\ ~ archived
    /\ Goto(Send, "asking")
    /\ UNCHANGED <<loopVars, flushed, target, verdict, gateVars, ran, auditVars,
                   archived, streaming>>

\* The gateway is asked: with tools while the cap is not reached, and once more
\* without when it is.  It may answer with text or with calls.
AskGateway(a) ==
    /\ at[a] = "asking"
    /\ \/ Goto(a, "final")
       \/ used[a] < Cap /\ Goto(a, "round")
    /\ governed' = [governed EXCEPT ![a] = 0]
    /\ UNCHANGED <<used, flushed, target, verdict, gateVars, ran, auditVars,
                   archived, streaming>>

\* A read-only call: dispatched, or refused by the egress ceiling.
ReadOnlyCall(a) ==
    /\ at[a] = "round" /\ governed[a] < RoundCalls
    /\ governed' = [governed EXCEPT ![a] = @ + 1]
    /\ flushed' = [flushed EXCEPT ![a] = TRUE] \/ UNCHANGED flushed
    /\ UNCHANGED <<at, used, target, verdict, gateVars, ran, auditVars, archived, streaming>>

\* What the loop does after a round of n governed calls that leaves the count at
\* total: a round of nothing but unknown tools is the last one, too.  The answer
\* that the gateway is then asked for, without tools, may fail.
MutIsLastRound(n, total) == total >= Cap
IsLastRound(n, total) == n = 0 \/ total >= Cap

EndRound(a) ==
    /\ at[a] = "round"
    /\ used' = [used EXCEPT ![a] = @ + governed[a]]
    /\ \E step \in IF IsLastRound(governed[a], used'[a]) THEN {"final", "failed"} ELSE {"asking"} :
         Goto(a, step)
    /\ UNCHANGED <<governed, flushed, target, verdict, gateVars, ran, auditVars,
                   archived, streaming>>

\* The round proposes a call that needs the user's confirmation.
MeetGate(a) ==
    /\ at[a] = "round"
    /\ Goto(a, "gating")
    /\ UNCHANGED <<loopVars, flushed, target, verdict, gateVars, ran, auditVars,
                   archived, streaming>>

\* What the loop hands over with it is the count from before the round: of a
\* turn that is resumed the next round may use tools.
MutCountToCarry(a) == used[a] + governed[a]
CountToCarry(a) == used[a]

\* Its row is stored, with that count, and the request ends.
StoreGate(a) ==
    /\ at[a] = "gating"
    /\ \E g \in Gates :
         /\ gate[g] = "absent"
         /\ gate' = [gate EXCEPT ![g] = "pending"]
         /\ carried' = [carried EXCEPT ![g] = CountToCarry(a)]
         /\ gateLog' = [gateLog EXCEPT ![g] = "pending"]
    /\ Commit(a)
    /\ Goto(a, "over")
    /\ UNCHANGED <<loopVars, target, verdict, expired, answer, ran, persisted,
                   archived, streaming>>

\* The row cannot be stored, or a call needs the user to authorize its server:
\* the request ends with a frame that says so.
StopWithoutMessage(a) ==
    /\ at[a] \in {"gating", "round"}
    /\ Rollback(a)
    /\ Goto(a, "over")
    /\ UNCHANGED <<loopVars, target, verdict, gateVars, ran, gateLog, persisted,
                   archived, streaming>>

\* The gateway, or a call, raises an error of the application.
LoopFails(a) ==
    /\ at[a] \in {"asking", "round"}
    /\ Goto(a, "failed")
    /\ UNCHANGED <<loopVars, flushed, target, verdict, gateVars, ran, auditVars,
                   archived, streaming>>

\* The assistant's message is stored, with what the loop said or its error.  A
\* request that streams stores a failed turn, another one only raises; a request
\* that resumes stores nothing in an archived chat.
Stores(a) ==
    /\ at[a] = "failed" /\ a = Send => streaming
    /\ archived => a = Send

StoreMessage(a) ==
    /\ at[a] \in {"final", "failed"} /\ Stores(a) /\ ~ persisted
    /\ persisted' = TRUE
    /\ Commit(a)
    /\ Goto(a, "over")
    /\ UNCHANGED <<loopVars, target, verdict, gateVars, ran, gateLog, archived,
                   streaming>>

StoreNothing(a) ==
    /\ at[a] \in {"final", "failed"} /\ ~ (Stores(a) /\ ~ persisted)
    /\ Rollback(a)
    /\ Goto(a, "over")
    /\ UNCHANGED <<loopVars, target, verdict, gateVars, ran, gateLog, persisted,
                   archived, streaming>>

----------------------------------------------------------------------------
(* resume_tool_call, in the request p.                                     *)

\* The conditional UPDATE of the waiting call's row.
MutClaimable(g) == gate[g] # "absent" /\ ~ expired[g]
Claimable(g) == gate[g] = "pending" /\ ~ expired[g]

\* The claim is committed before anything is done about it.
Claim(p, g) ==
    /\ at[p] = "idle" /\ ~ archived
    /\ Claimable(g)
    /\ gate' = [gate EXCEPT ![g] = "resolved"]
    /\ \E d \in {"approve", "deny"} : answer' = [answer EXCEPT ![g] = d]
    /\ target' = [target EXCEPT ![p] = g]
    /\ used' = [used EXCEPT ![p] = carried[g]]
    /\ Goto(p, "claimed")
    /\ UNCHANGED <<governed, flushed, verdict, carried, expired, ran, auditVars,
                   archived, streaming>>

\* A 409: the row was answered or its time has passed.
Conflict(p, g) ==
    /\ at[p] = "idle" /\ ~ archived
    /\ gate[g] # "absent" /\ ~ Claimable(g)
    /\ Goto(p, "over")
    /\ UNCHANGED <<loopVars, flushed, target, verdict, gateVars, ran, auditVars,
                   archived, streaming>>

\* The stored payload cannot be decrypted: a 409 after the claim.
MutUndecryptable(p) ==
    /\ at[p] = "claimed"
    /\ Goto(p, "over")
    /\ gate' = [gate EXCEPT ![target[p]] = "pending"]
    /\ UNCHANGED <<loopVars, flushed, target, verdict, carried, expired, answer, ran,
                   auditVars, archived, streaming>>
Undecryptable(p) ==
    /\ at[p] = "claimed"
    /\ Goto(p, "over")
    /\ UNCHANGED <<loopVars, flushed, target, verdict, gateVars, ran, auditVars,
                   archived, streaming>>

\* What the gate row will say of an approved call that did, or did not, succeed.
MutVerdictOf(ok) == "approved"
VerdictOf(ok) == IF ok THEN "approved" ELSE "pending"

\* An approved call is dispatched and succeeds or raises, or it is not: the tool
\* is gone, or the egress ceiling refuses it.
RunApproved(p) ==
    LET g == target[p] IN
    /\ at[p] = "claimed" /\ answer[g] = "approve"
    /\ \E sent, ok \in BOOLEAN :
         /\ ok => sent
         /\ ran' = IF sent THEN [ran EXCEPT ![g] = @ + 1] ELSE ran
         /\ flushed' = [flushed EXCEPT ![p] = sent]
         /\ verdict' = [verdict EXCEPT ![p] = VerdictOf(ok)]
    /\ Goto(p, "answered")
    /\ UNCHANGED <<loopVars, target, gateVars, auditVars, archived, streaming>>

Deny(p) ==
    /\ at[p] = "claimed" /\ answer[target[p]] = "deny"
    /\ verdict' = [verdict EXCEPT ![p] = "denied"]
    /\ Goto(p, "answered")
    /\ UNCHANGED <<loopVars, flushed, target, gateVars, ran, auditVars, archived,
                   streaming>>

\* The answer is committed, and the loop resumed with the stored count.
CommitAnswer(p) ==
    /\ at[p] = "answered"
    /\ gateLog' = [gateLog EXCEPT ![target[p]] = verdict[p]]
    /\ Commit(p)
    /\ Goto(p, "asking")
    /\ UNCHANGED <<loopVars, target, verdict, gateVars, ran, persisted, archived,
                   streaming>>

----------------------------------------------------------------------------
(* The rest of the world.                                                  *)

\* The process dies, or the client of a stream hangs up.
Crash(a) ==
    /\ MayCrash /\ at[a] \in Going
    /\ Rollback(a)
    /\ Goto(a, "over")
    /\ UNCHANGED <<loopVars, target, verdict, gateVars, ran, gateLog, persisted,
                   archived, streaming>>

\* Fifteen minutes pass.
Expire(g) ==
    /\ gate[g] = "pending" /\ ~ expired[g]
    /\ expired' = [expired EXCEPT ![g] = TRUE]
    /\ UNCHANGED <<at, loopVars, flushed, target, verdict, gate, carried, answer,
                   ran, auditVars, archived, streaming>>

\* The chat is archived, or taken back from there.
ArchiveChat ==
    /\ archived' = ~ archived
    /\ UNCHANGED <<at, loopVars, flushed, target, verdict, gateVars, ran, auditVars,
                   streaming>>

LoopStep(a) ==
    \/ AskGateway(a) \/ ReadOnlyCall(a) \/ EndRound(a) \/ MeetGate(a) \/ StoreGate(a)
    \/ StopWithoutMessage(a) \/ LoopFails(a) \/ StoreMessage(a) \/ StoreNothing(a)
ResumeStep(p) == Undecryptable(p) \/ RunApproved(p) \/ Deny(p) \/ CommitAnswer(p)

Next ==
    \/ SendMessage \/ ArchiveChat
    \/ \E a \in Requests : LoopStep(a) \/ Crash(a)
    \/ \E p \in Posts : ResumeStep(p) \/ \E g \in Gates : Claim(p, g) \/ Conflict(p, g)
    \/ \E g \in Gates : Expire(g)

Spec == Init /\ [][Next]_vars

\* A request that runs goes on: its calls to the gateway, to tools and to the
\* database all return or time out.
FairSpec ==
    /\ Spec
    /\ \A a \in Requests : WF_vars(LoopStep(a))
    /\ \A p \in Posts : WF_vars(ResumeStep(p))

----------------------------------------------------------------------------
(* What holds.                                                             *)

\* A turn has one continuation: of the requests that go on with it and the calls
\* that wait for an answer there is at most one, and none once the assistant's
\* message is there ("single-use gate, concurrency-safe", resume_tool_call;
\* "Persist the assistant row exactly once", _stream_response).
Continuations == {a \in Requests : at[a] \in Going} \cup {g \in Gates : gate[g] = "pending"}
OneContinuation ==
    /\ \A x, y \in Continuations : x = y
    /\ persisted => Continuations = {}

\* A call that needs confirmation is made once at most, and only if the answer
\* that claimed it approves: not for the loser of two answers, nor again after a
\* crash (the docstring of ChatPendingToolCall: "once set to resolved the row
\* MUST NOT be used to replay a tool call").
ConfirmedOnce ==
    \A g \in Gates : ran[g] <= 1 /\ (ran[g] = 1 => answer[g] = "approve")

\* The gate row never says what did not happen: approved only of a call that was
\* made, denied only of one that was not and will not be (resume_tool_call).
VerdictsAreTrue ==
    \A g \in Gates :
        /\ gateLog[g] = "approved" => ran[g] = 1
        /\ gateLog[g] = "denied" => ran[g] = 0 /\ answer[g] = "deny"

\* Whatever the model proposes, round after round, a request that goes on with
\* the turn is over some time (the cap and the guard against rounds of unknown
\* tools in run_chat_tool_loop).
RequestsEnd == \A a \in Requests : at[a] \in Going ~> at[a] = "over"

----------------------------------------------------------------------------
(* What a document says and the code does not do.                          *)

\* "every tool call ... writes a tool_call_log row" (ADR 0015): no
\* call is made whose row does not become durable.
EveryCallLogged == ~ unlogged

=============================================================================
