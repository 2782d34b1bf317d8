-------------------------- MODULE ChatToolTurnProofs --------------------------
(***************************************************************************)
(* Proofs about ChatToolTurn, for any requests, waiting calls and cap.     *)
(* That a turn has one continuation is what everything else follows from:  *)
(* the conditional UPDATE hands the turn from the waiting call to the      *)
(* request that claims it, and the request hands it on or ends it.         *)
(***************************************************************************)
EXTENDS ChatTurnRefinement, TLAPS

\* A request has not reached the cap until its last round is over, nor has the
\* count that a waiting call carries.
CountInv == \A a \in Requests : at[a] \notin {"final", "failed", "over"} => used[a] < Cap

\* Before the message is sent there is no waiting call, and no one answers.
SendFirst ==
    at[Send] = "idle" => /\ \A g \in Gates : gate[g] = "absent"
                         /\ \A a \in Requests : at[a] \notin Going
                         /\ ~ persisted

\* One request goes on or one call waits, and then there is no message.
Alone ==
    /\ \A a, b \in Requests : at[a] \in Going /\ at[b] \in Going => a = b
    /\ \A g, h \in Gates : gate[g] = "pending" /\ gate[h] = "pending" => g = h
    /\ \A a \in Requests, g \in Gates : ~ (at[a] \in Going /\ gate[g] = "pending")
    /\ persisted => /\ \A a \in Requests : at[a] \notin Going
                    /\ \A g \in Gates : gate[g] # "pending"

\* A call nobody has answered was not made.
WaitingInv ==
    \A g \in Gates : gate[g] # "resolved" =>
        /\ ran[g] = 0 /\ answer[g] = "none"
        /\ gateLog[g] = gate[g]

\* A request that has claimed a call has not made it yet, and what it is about to
\* record of the call is what became of it.
ClaimInv ==
    \A p \in Requests : at[p] \in {"claimed", "answered"} =>
        /\ target[p] \in Gates /\ gate[target[p]] = "resolved"
        /\ gateLog[target[p]] = "pending"
        /\ at[p] = "claimed" => ran[target[p]] = 0
        /\ at[p] = "answered" =>
             /\ verdict[p] = "approved" => ran[target[p]] = 1
             /\ verdict[p] = "denied" => ran[target[p]] = 0 /\ answer[target[p]] = "deny"

TurnInv ==
    TypeOK /\ CountInv /\ SendFirst /\ Alone /\ WaitingInv /\ ClaimInv
    /\ ConfirmedOnce /\ VerdictsAreTrue

-----------------------------------------------------------------------------
(* The invariant *)

\* The initial states satisfy it.
LEMMA InitInv == Init => TurnInv
<1> SUFFICES ASSUME Init PROVE TurnInv
  OBVIOUS
<1> USE TurnAssumption DEF Init, Requests, Going, Looping
<1>1. TypeOK
  <2>1. 0 \in 0 .. Cap + RoundCalls /\ 0 \in 0 .. RoundCalls /\ 0 \in 0 .. Cap - 1
    OBVIOUS
  <2>2. /\ used \in [Requests -> 0 .. Cap + RoundCalls]
        /\ governed \in [Requests -> 0 .. RoundCalls]
        /\ carried \in [Gates -> 0 .. Cap - 1]
    BY <2>1
  <2> QED
    BY <2>2 DEF TypeOK
<1>2. CountInv /\ SendFirst /\ Alone
  BY DEF CountInv, SendFirst, Alone
<1>3. WaitingInv /\ ClaimInv /\ ConfirmedOnce /\ VerdictsAreTrue
  BY DEF WaitingInv, ClaimInv, ConfirmedOnce, VerdictsAreTrue
<1> QED
  BY <1>1, <1>2, <1>3 DEF TurnInv

\* The steps of the loop keep it: only the request that goes on acts, and it hands
\* the turn on to a waiting call, to the message or to no one.
LEMMA LoopKeeps ==
    ASSUME TurnInv, NEW a \in Requests, LoopStep(a)
    PROVE  TurnInv'
<1> USE TurnAssumption
    DEF Requests, Going, Looping, Goto, Commit, Rollback, loopVars, gateVars,
        auditVars
<1>1. at[a] \in Looping
  BY DEF LoopStep, AskGateway, ReadOnlyCall, EndRound, MeetGate, StoreGate,
         StopWithoutMessage, LoopFails, StoreMessage, StoreNothing
<1> USE <1>1
<1>2. CASE EndRound(a)
  <2>1. /\ at[a] = "round"
        /\ used' = [used EXCEPT ![a] = used[a] + governed[a]]
    BY <1>2 DEF EndRound
  <2>2. used[a] + governed[a] \in 0 .. Cap + RoundCalls
    <3>1. used[a] \in Nat /\ governed[a] \in 0 .. RoundCalls /\ used[a] < Cap
      BY <2>1 DEF TurnInv, TypeOK, CountInv
    <3> QED
      BY <3>1
  <2>3. PICK step \in {"final", "failed", "asking"} :
          /\ at' = [at EXCEPT ![a] = step]
          /\ step = "asking" => ~ IsLastRound(governed[a], used'[a])
    BY <1>2 DEF EndRound
  <2>4. TypeOK'
    BY <1>2, <2>1, <2>2, <2>3 DEF EndRound, TurnInv, TypeOK
  <2>5. CountInv'
    BY <2>1, <2>2, <2>3 DEF IsLastRound, TurnInv, TypeOK, CountInv
  <2>6. (SendFirst /\ Alone)'
    BY <1>2, <2>1, <2>3 DEF EndRound, TurnInv, TypeOK, SendFirst, Alone
  <2>7. (WaitingInv /\ ClaimInv /\ ConfirmedOnce /\ VerdictsAreTrue)'
    BY <1>2, <2>1, <2>3
    DEF EndRound, TurnInv, TypeOK, WaitingInv, ClaimInv, ConfirmedOnce, VerdictsAreTrue
  <2> QED
    BY <2>4, <2>5, <2>6, <2>7 DEF TurnInv
<1>3. CASE AskGateway(a)
  <2>1. TypeOK'
    BY <1>3 DEF AskGateway, TurnInv, TypeOK
  <2>2. (CountInv /\ SendFirst /\ Alone)'
    BY <1>3 DEF AskGateway, TurnInv, TypeOK, CountInv, SendFirst, Alone
  <2>3. (WaitingInv /\ ClaimInv /\ ConfirmedOnce /\ VerdictsAreTrue)'
    BY <1>3
    DEF AskGateway, TurnInv, TypeOK, WaitingInv, ClaimInv, ConfirmedOnce, VerdictsAreTrue
  <2> QED
    BY <2>1, <2>2, <2>3 DEF TurnInv
<1>4. CASE ReadOnlyCall(a)
  <2>1. TypeOK'
    <3>1. governed[a] + 1 \in 0 .. RoundCalls
      BY <1>4 DEF ReadOnlyCall, TurnInv, TypeOK
    <3>2. governed' \in [Requests -> 0 .. RoundCalls]
      BY <1>4, <3>1 DEF ReadOnlyCall, TurnInv, TypeOK
    <3>3. flushed' \in [Requests -> BOOLEAN]
      BY <1>4 DEF ReadOnlyCall, TurnInv, TypeOK
    <3> QED
      BY <1>4, <3>2, <3>3 DEF ReadOnlyCall, TurnInv, TypeOK
  <2>2. (CountInv /\ SendFirst /\ Alone)'
    BY <1>4 DEF ReadOnlyCall, TurnInv, TypeOK, CountInv, SendFirst, Alone
  <2>3. (WaitingInv /\ ClaimInv /\ ConfirmedOnce /\ VerdictsAreTrue)'
    BY <1>4
    DEF ReadOnlyCall, TurnInv, TypeOK, WaitingInv, ClaimInv, ConfirmedOnce, VerdictsAreTrue
  <2> QED
    BY <2>1, <2>2, <2>3 DEF TurnInv
<1>5. CASE MeetGate(a)
  <2>1. TypeOK'
    BY <1>5 DEF MeetGate, TurnInv, TypeOK
  <2>2. (CountInv /\ SendFirst /\ Alone)'
    BY <1>5 DEF MeetGate, TurnInv, TypeOK, CountInv, SendFirst, Alone
  <2>3. (WaitingInv /\ ClaimInv /\ ConfirmedOnce /\ VerdictsAreTrue)'
    BY <1>5
    DEF MeetGate, TurnInv, TypeOK, WaitingInv, ClaimInv, ConfirmedOnce, VerdictsAreTrue
  <2> QED
    BY <2>1, <2>2, <2>3 DEF TurnInv
<1>6. CASE LoopFails(a)
  <2>1. TypeOK'
    BY <1>6 DEF LoopFails, TurnInv, TypeOK
  <2>2. (CountInv /\ SendFirst /\ Alone)'
    BY <1>6 DEF LoopFails, TurnInv, TypeOK, CountInv, SendFirst, Alone
  <2>3. (WaitingInv /\ ClaimInv /\ ConfirmedOnce /\ VerdictsAreTrue)'
    BY <1>6
    DEF LoopFails, TurnInv, TypeOK, WaitingInv, ClaimInv, ConfirmedOnce, VerdictsAreTrue
  <2> QED
    BY <2>1, <2>2, <2>3 DEF TurnInv
<1>7. CASE StoreGate(a)
  <2>1. TypeOK'
    BY <1>7 DEF StoreGate, CountToCarry, TurnInv, TypeOK, CountInv
  <2>2. (CountInv /\ SendFirst /\ Alone)'
    BY <1>7 DEF StoreGate, TurnInv, TypeOK, CountInv, SendFirst, Alone
  <2> QED
    BY <1>7, <2>1, <2>2
    DEF StoreGate, TurnInv, TypeOK, WaitingInv, ClaimInv, ConfirmedOnce,
        VerdictsAreTrue, Alone
<1>8. CASE StopWithoutMessage(a)
  <2>1. TypeOK'
    BY <1>8 DEF StopWithoutMessage, TurnInv, TypeOK
  <2>2. (CountInv /\ SendFirst /\ Alone)'
    BY <1>8 DEF StopWithoutMessage, TurnInv, TypeOK, CountInv, SendFirst, Alone
  <2>3. (WaitingInv /\ ClaimInv /\ ConfirmedOnce /\ VerdictsAreTrue)'
    BY <1>8
    DEF StopWithoutMessage, TurnInv, TypeOK, WaitingInv, ClaimInv, ConfirmedOnce, VerdictsAreTrue
  <2> QED
    BY <2>1, <2>2, <2>3 DEF TurnInv
<1>9. CASE StoreMessage(a)
  <2>1. TypeOK'
    BY <1>9 DEF StoreMessage, TurnInv, TypeOK
  <2>2. (CountInv /\ SendFirst /\ Alone)'
    BY <1>9 DEF StoreMessage, TurnInv, TypeOK, CountInv, SendFirst, Alone
  <2>3. (WaitingInv /\ ClaimInv /\ ConfirmedOnce /\ VerdictsAreTrue)'
    BY <1>9
    DEF StoreMessage, TurnInv, TypeOK, WaitingInv, ClaimInv, ConfirmedOnce, VerdictsAreTrue
  <2> QED
    BY <2>1, <2>2, <2>3 DEF TurnInv
<1>10. CASE StoreNothing(a)
  <2>1. TypeOK'
    BY <1>10 DEF StoreNothing, TurnInv, TypeOK
  <2>2. (CountInv /\ SendFirst /\ Alone)'
    BY <1>10 DEF StoreNothing, TurnInv, TypeOK, CountInv, SendFirst, Alone
  <2>3. (WaitingInv /\ ClaimInv /\ ConfirmedOnce /\ VerdictsAreTrue)'
    BY <1>10
    DEF StoreNothing, TurnInv, TypeOK, WaitingInv, ClaimInv, ConfirmedOnce, VerdictsAreTrue
  <2> QED
    BY <2>1, <2>2, <2>3 DEF TurnInv
<1> QED
  BY <1>2, <1>3, <1>4, <1>5, <1>6, <1>7, <1>8, <1>9, <1>10 DEF LoopStep

\* A claim moves the turn from the waiting call to the request.
LEMMA ClaimKeeps ==
    ASSUME TurnInv, NEW p \in Posts, NEW g \in Gates, Claim(p, g)
    PROVE  TurnInv'
<1> USE TurnAssumption
    DEF Going, Looping, Goto, Claim, Claimable, auditVars, Requests
<1>1. TypeOK' /\ CountInv'
  BY DEF TurnInv, TypeOK, CountInv
<1>2. (SendFirst /\ Alone)'
  BY DEF TurnInv, TypeOK, SendFirst, Alone
<1>3. (WaitingInv /\ ClaimInv)'
  BY DEF TurnInv, TypeOK, WaitingInv, ClaimInv, Alone
<1>4. (ConfirmedOnce /\ VerdictsAreTrue)'
  BY DEF TurnInv, TypeOK, WaitingInv, ConfirmedOnce, VerdictsAreTrue
<1> QED
  BY <1>1, <1>2, <1>3, <1>4 DEF TurnInv

\* The request that claimed a call makes it once, or records that it was denied.
LEMMA ResumeKeeps ==
    ASSUME TurnInv, NEW p \in Posts, ResumeStep(p)
    PROVE  TurnInv'
<1> USE TurnAssumption
    DEF Going, Looping, Goto, Commit, loopVars, gateVars, auditVars, Requests
<1>1. at[p] \in {"claimed", "answered"}
  BY DEF ResumeStep, Undecryptable, RunApproved, Deny, CommitAnswer
<1> USE <1>1
<1>2. CASE Undecryptable(p) \/ Deny(p)
  BY <1>2
  DEF Undecryptable, Deny, TurnInv, TypeOK, CountInv, SendFirst, Alone, WaitingInv,
      ClaimInv, ConfirmedOnce, VerdictsAreTrue
<1>3. CASE RunApproved(p)
  <2>1. TypeOK'
    BY <1>3 DEF RunApproved, VerdictOf, TurnInv, TypeOK, ClaimInv
  <2>2. (CountInv /\ SendFirst /\ Alone)'
    BY <1>3 DEF RunApproved, TurnInv, TypeOK, CountInv, SendFirst, Alone
  <2>3. (WaitingInv /\ ClaimInv)'
    BY <1>3 DEF RunApproved, VerdictOf, TurnInv, TypeOK, Alone, WaitingInv, ClaimInv
  <2>4. (ConfirmedOnce /\ VerdictsAreTrue)'
    BY <1>3
    DEF RunApproved, TurnInv, TypeOK, ClaimInv, ConfirmedOnce, VerdictsAreTrue
  <2> QED
    BY <2>1, <2>2, <2>3, <2>4 DEF TurnInv
<1>4. CASE CommitAnswer(p)
  BY <1>4
  DEF CommitAnswer, TurnInv, TypeOK, CountInv, SendFirst, Alone, WaitingInv,
      ClaimInv, ConfirmedOnce, VerdictsAreTrue
<1> QED
  BY <1>2, <1>3, <1>4 DEF ResumeStep

\* So does everything else.
LEMMA WorldKeeps ==
    ASSUME TurnInv,
           \/ SendMessage \/ ArchiveChat
           \/ \E a \in Requests : Crash(a)
           \/ \E p \in Posts, g \in Gates : Conflict(p, g)
           \/ \E g \in Gates : Expire(g)
    PROVE  TurnInv'
<1> USE TurnAssumption
    DEF Going, Looping, Goto, Rollback, loopVars, gateVars, auditVars, Requests
<1>1. CASE SendMessage \/ ArchiveChat
  <2>1. TypeOK'
    <3>1. CASE SendMessage
      BY <3>1 DEF SendMessage, TurnInv, TypeOK
    <3>2. CASE ArchiveChat
      <4>1. archived' \in BOOLEAN
        BY <3>2 DEF ArchiveChat
      <4> QED
        BY <3>2, <4>1 DEF ArchiveChat, TurnInv, TypeOK
    <3> QED
      BY <1>1, <3>1, <3>2
  <2>2. (CountInv /\ SendFirst /\ Alone)'
    BY <1>1 DEF SendMessage, ArchiveChat, TurnInv, TypeOK, CountInv, SendFirst, Alone
  <2>3. (WaitingInv /\ ClaimInv /\ ConfirmedOnce /\ VerdictsAreTrue)'
    BY <1>1
    DEF SendMessage, ArchiveChat, TurnInv, TypeOK, WaitingInv, ClaimInv,
        ConfirmedOnce, VerdictsAreTrue
  <2> QED
    BY <2>1, <2>2, <2>3 DEF TurnInv
<1>2. CASE \E a \in Requests : Crash(a)
  BY <1>2
  DEF Crash, TurnInv, TypeOK, CountInv, SendFirst, Alone, WaitingInv, ClaimInv,
      ConfirmedOnce, VerdictsAreTrue
<1>3. CASE \E p \in Posts, g \in Gates : Conflict(p, g)
  BY <1>3
  DEF Conflict, TurnInv, TypeOK, CountInv, SendFirst, Alone, WaitingInv, ClaimInv,
      ConfirmedOnce, VerdictsAreTrue
<1>4. CASE \E g \in Gates : Expire(g)
  BY <1>4
  DEF Expire, TurnInv, TypeOK, CountInv, SendFirst, Alone, WaitingInv, ClaimInv,
      ConfirmedOnce, VerdictsAreTrue
<1> QED
  BY <1>1, <1>2, <1>3, <1>4

\* The invariant holds in every reachable state.
LEMMA InvariantHolds == Spec => []TurnInv
<1>1. TurnInv /\ [Next]_vars => TurnInv'
  <2> SUFFICES ASSUME TurnInv, [Next]_vars PROVE TurnInv'
    OBVIOUS
  <2>1. CASE UNCHANGED vars
    BY <2>1
    DEF vars, loopVars, gateVars, auditVars, TurnInv, TypeOK, CountInv, SendFirst,
        Alone, WaitingInv, ClaimInv, ConfirmedOnce, VerdictsAreTrue
  <2>2. CASE Next
    BY <2>2, LoopKeeps, ResumeKeeps, ClaimKeeps, WorldKeeps DEF Next
  <2> QED
    BY <2>1, <2>2
<1> QED
  BY <1>1, InitInv, PTL DEF Spec

-----------------------------------------------------------------------------
(* Theorems *)

\* Every variable keeps its domain: a count never passes the cap by more than a
\* round, and a resumed turn may use tools.
THEOREM TurnTypeCorrect == Spec => []TypeOK
<1>1. TurnInv => TypeOK
  BY DEF TurnInv
<1> QED
  BY <1>1, InvariantHolds, PTL

\* Of the requests and waiting calls of a turn at most one can continue it, and
\* none once its message is stored, for any number of answers that race.
THEOREM TurnsHaveOneContinuation == Spec => []OneContinuation
<1>1. TurnInv => OneContinuation
  BY DEF TurnInv, Alone, OneContinuation, Continuations
<1> QED
  BY <1>1, InvariantHolds, PTL

\* A call that needs the user's confirmation is made at most once, and only when
\* the answer that claimed it approves.
THEOREM ConfirmedCallsRunOnce == Spec => []ConfirmedOnce
<1>1. TurnInv => ConfirmedOnce
  BY DEF TurnInv
<1> QED
  BY <1>1, InvariantHolds, PTL

\* The committed gate row of a waiting call agrees with what became of the call,
\* wherever a request is cut short.
THEOREM GateRowsAreTrue == Spec => []VerdictsAreTrue
<1>1. TurnInv => VerdictsAreTrue
  BY DEF TurnInv
<1> QED
  BY <1>1, InvariantHolds, PTL

-----------------------------------------------------------------------------
(* The turn is handed over: ChatToolTurn implements TurnHandover *)

\* Whoever goes on with the turn, or waits for its answer, is all it has.
LEMMA OneHolder ==
    ASSUME TurnInv
    PROVE  /\ \A a \in Requests : at[a] \in Going =>
                 Continuations = {a} /\ a \notin Spent
           /\ \A g \in Gates : gate[g] = "pending" =>
                 Continuations = {g} /\ g \notin Spent /\ Consent = {}
           /\ (\A a \in Requests : at[a] # "claimed") => Consent = {}
<1> USE TurnAssumption DEF Requests, Going, Looping
<1>1. ASSUME NEW a \in Requests, at[a] \in Going
      PROVE  Continuations = {a} /\ a \notin Spent
  BY <1>1 DEF TurnInv, Alone, Continuations, Spent
<1>2. ASSUME NEW g \in Gates, gate[g] = "pending"
      PROVE  Continuations = {g} /\ g \notin Spent /\ Consent = {}
  BY <1>2 DEF TurnInv, Alone, Continuations, Spent, Consent
<1> QED
  BY <1>1, <1>2 DEF Consent

\* A request that goes on and still does keeps the turn.
LEMMA KeepsTurn ==
    ASSUME TypeOK, NEW a \in Requests, at[a] \in Going, NEW step \in Going, Goto(a, step),
           UNCHANGED gate
    PROVE  Continuations' = Continuations /\ Spent' = Spent
<1>1. /\ at'[a] = step /\ at[a] # "over" /\ step # "over"
      /\ \A b \in Requests \ {a} : at'[b] = at[b]
  BY DEF Goto, TypeOK, Going, Looping
<1> QED
  BY <1>1 DEF Continuations, Spent

\* One that is over gives it up.
LEMMA LeavesTurn ==
    ASSUME TurnInv, NEW a \in Requests, at[a] \in Going, Goto(a, "over"), UNCHANGED gate
    PROVE  Continuations' = {} /\ Spent' = Spent \cup {a} /\ Consent' = {}
<1>1. at'[a] = "over" /\ \A b \in Requests \ {a} : at'[b] = at[b]
  BY DEF Goto, TurnInv, TypeOK
<1>2. \A b \in Requests : at'[b] \notin Going /\ at'[b] # "claimed"
  BY <1>1 DEF TurnInv, Alone, Going, Looping
<1>3. \A g \in Gates : gate'[g] # "pending"
  BY DEF TurnInv, Alone
<1>4. Spent' = Spent \cup {a}
  BY <1>1 DEF Spent
<1> QED
  BY <1>2, <1>3, <1>4 DEF Continuations, Consent

\* So ends the turn, with the message or without.
LEMMA EndsTurn ==
    ASSUME TurnInv, NEW a \in Requests, at[a] \in Going, Goto(a, "over"),
           UNCHANGED <<gate, ran>>, persisted' \in {persisted, TRUE}
    PROVE  Handover!End(a)
  BY OneHolder, LeavesTurn DEF Handover!End

\* A step of the loop is not seen, or asks the user, or ends the turn.
LEMMA LoopHandsOver ==
    ASSUME TurnInv, NEW a \in Requests, LoopStep(a)
    PROVE  [Handover!Next]_(Handover!vars)
<1>t. TypeOK
  BY DEF TurnInv
<1>1. at[a] \in Looping
  BY DEF LoopStep, AskGateway, ReadOnlyCall, EndRound, MeetGate, StoreGate,
         StopWithoutMessage, LoopFails, StoreMessage, StoreNothing, Looping
<1>2. at[a] \in Going /\ Consent = {}
  BY <1>1 DEF Going, Looping, TurnInv, Alone, Consent
<1>3. ASSUME NEW step \in Looping, Goto(a, step), UNCHANGED <<gate, answer, target, ran, persisted>>
      PROVE  UNCHANGED Handover!vars
  <2>1. step \in Going /\ step # "claimed"
    BY DEF Going, Looping
  <2>2. Consent' = {}
    BY <1>2, <1>3, <2>1 DEF Goto, TurnInv, TypeOK, Alone, Consent, Going, Looping
  <2> QED
    BY <1>t, <1>2, <1>3, <2>1, <2>2, KeepsTurn DEF Handover!vars
<1>4. CASE AskGateway(a) \/ EndRound(a) \/ MeetGate(a) \/ LoopFails(a)
  <2>1. PICK step \in Looping : Goto(a, step)
    BY <1>4 DEF AskGateway, EndRound, MeetGate, LoopFails, Looping
  <2> QED
    BY <1>3, <1>4, <2>1 DEF AskGateway, EndRound, MeetGate, LoopFails, gateVars, auditVars
<1>5. CASE ReadOnlyCall(a)
  BY <1>5 DEF ReadOnlyCall, gateVars, auditVars, Handover!vars, Continuations, Spent, Consent
<1>6. CASE StoreGate(a)
  <2>1. PICK g \in Gates : gate[g] = "absent" /\ gate' = [gate EXCEPT ![g] = "pending"]
    BY <1>6 DEF StoreGate
  <2>2. Goto(a, "over") /\ UNCHANGED <<ran, persisted>>
    BY <1>6 DEF StoreGate
  <2>3. /\ at'[a] = "over" /\ \A b \in Requests \ {a} : at'[b] = at[b]
        /\ gate'[g] = "pending" /\ \A h \in Gates \ {g} : gate'[h] = gate[h]
    BY <1>t, <2>1, <2>2 DEF Goto, TypeOK
  <2>4. Continuations' = {g}
    BY <1>2, <2>3 DEF Continuations, TurnInv, Alone, Going, Looping
  <2>5. Spent' = Spent \cup {a} /\ g \notin Spent
    BY <2>1, <2>3, TurnAssumption DEF Spent, Requests
  <2>6. Consent' = {}
    BY <1>2, <2>3 DEF Consent, TurnInv, Alone, Going, Looping
  <2>7. Handover!Ask(a, g)
    BY <1>2, <2>2, <2>4, <2>5, <2>6, OneHolder DEF Handover!Ask, Handover!HandOver
  <2> QED
    BY <2>7 DEF Handover!Next, Handover!Requests, Requests
<1>7. CASE StopWithoutMessage(a) \/ StoreMessage(a) \/ StoreNothing(a)
  <2>1. Goto(a, "over") /\ UNCHANGED <<gate, ran>> /\ persisted' \in {persisted, TRUE}
    BY <1>7 DEF StopWithoutMessage, StoreMessage, StoreNothing, gateVars
  <2> QED
    BY <1>2, <2>1, EndsTurn DEF Handover!Next, Handover!Requests, Requests
<1> QED
  BY <1>4, <1>5, <1>6, <1>7 DEF LoopStep

\* The answer that claims a waiting call takes the turn over.
LEMMA ClaimHandsOver ==
    ASSUME TurnInv, NEW p \in Posts, NEW g \in Gates, Claim(p, g)
    PROVE  Handover!Next
<1>t. TypeOK /\ p \in Requests
  BY DEF TurnInv, Requests
<1>1. /\ at[p] = "idle" /\ Goto(p, "claimed") /\ UNCHANGED <<ran, persisted>>
      /\ gate[g] = "pending" /\ gate' = [gate EXCEPT ![g] = "resolved"]
      /\ target' = [target EXCEPT ![p] = g]
  BY DEF Claim, Claimable, auditVars
<1>2. /\ at'[p] = "claimed" /\ \A b \in Requests \ {p} : at'[b] = at[b]
      /\ gate'[g] = "resolved" /\ \A h \in Gates \ {g} : gate'[h] = gate[h]
      /\ target'[p] = g
  BY <1>t, <1>1 DEF Goto, TypeOK
<1>3. \A b \in Requests \ {p} : at'[b] \notin Going /\ at'[b] # "claimed"
  BY <1>1, <1>2 DEF TurnInv, Alone, Going, Looping
<1>4. Continuations' = {p}
  BY <1>t, <1>1, <1>2, <1>3 DEF Continuations, TurnInv, Alone, Going, Looping
<1>5. Spent' = Spent \cup {g} /\ p \notin Spent
  BY <1>t, <1>1, <1>2, TurnAssumption DEF Spent, Requests
<1>6. Consent' \in {{}, {g}}
  <2>1. \A h \in Consent' : h = g
    BY <1>2, <1>3 DEF Consent
  <2> QED
    BY <2>1
<1>7. Handover!Answer(g, p)
  BY <1>1, <1>4, <1>5, <1>6, OneHolder DEF Handover!Answer, Handover!HandOver
<1> QED
  BY <1>7 DEF Handover!Next

\* Its request makes the call, or forgoes it, or ends there.
LEMMA ResumeHandsOver ==
    ASSUME TurnInv, NEW p \in Posts, ResumeStep(p)
    PROVE  [Handover!Next]_(Handover!vars)
<1>t. TypeOK /\ p \in Requests
  BY DEF TurnInv, Requests
<1>1. at[p] \in Going
  BY DEF ResumeStep, Undecryptable, RunApproved, Deny, CommitAnswer, Going
<1>2. \A b \in Requests \ {p} : at[b] # "claimed"
  BY <1>t, <1>1 DEF TurnInv, Alone, Going
<1>3. CASE Undecryptable(p)
  <2>1. Goto(p, "over") /\ UNCHANGED <<gate, ran, persisted>>
    BY <1>3 DEF Undecryptable, gateVars, auditVars
  <2> QED
    BY <1>t, <1>1, <2>1, EndsTurn DEF Handover!Next, Handover!Requests
<1>4. ASSUME NEW step \in Going \ {"claimed"}, Goto(p, step), UNCHANGED gate
      PROVE  Continuations' = Continuations /\ Spent' = Spent /\ Consent' = {}
  <2>1. \A b \in Requests : at'[b] # "claimed"
    BY <1>t, <1>2, <1>4 DEF Goto, TypeOK
  <2> QED
    BY <1>t, <1>1, <1>4, <2>1, KeepsTurn DEF Consent
<1>5. CASE RunApproved(p)
  <2> DEFINE g == target[p]
  <2>1. /\ at[p] = "claimed" /\ answer[g] = "approve" /\ Goto(p, "answered")
        /\ UNCHANGED <<gate, persisted>>
        /\ ran' = [ran EXCEPT ![g] = @ + 1] \/ UNCHANGED ran
    BY <1>5 DEF RunApproved, gateVars, auditVars
  <2>2. Continuations' = Continuations /\ Spent' = Spent /\ Consent' = {}
    BY <1>4, <2>1 DEF Going
  <2>3. g \in Gates /\ Consent = {g}
    BY <1>t, <1>2, <2>1 DEF TurnInv, ClaimInv, Consent
  <2>4. CASE ran' = [ran EXCEPT ![g] = @ + 1]
    BY <2>1, <2>2, <2>3, <2>4 DEF Handover!Make, Handover!Next
  <2>5. CASE UNCHANGED ran
    BY <2>1, <2>2, <2>3, <2>5 DEF Handover!Forgo, Handover!Next
  <2> QED
    BY <2>1, <2>4, <2>5
<1>6. CASE Deny(p) \/ CommitAnswer(p)
  <2>1. /\ UNCHANGED <<gate, ran, persisted>>
        /\ Goto(p, "answered") \/ Goto(p, "asking")
        /\ at[p] = "answered" \/ answer[target[p]] = "deny"
    BY <1>6 DEF Deny, CommitAnswer, gateVars, auditVars
  <2>2. Continuations' = Continuations /\ Spent' = Spent /\ Consent' = {}
    BY <1>4, <2>1 DEF Going, Looping
  <2>3. Consent = {}
    BY <1>2, <2>1 DEF Consent
  <2> QED
    BY <2>1, <2>2, <2>3 DEF Handover!vars
<1> QED
  BY <1>3, <1>5, <1>6 DEF ResumeStep

\* The rest of the world starts the turn, ends it or turns an answer away.
LEMMA WorldHandsOver ==
    ASSUME TurnInv,
           \/ SendMessage \/ ArchiveChat
           \/ \E a \in Requests : Crash(a)
           \/ \E p \in Posts, g \in Gates : Conflict(p, g)
           \/ \E g \in Gates : Expire(g)
    PROVE  [Handover!Next]_(Handover!vars)
<1>t. TypeOK /\ Send \in Requests /\ Send \notin Posts /\ Send \notin Gates
  BY TurnAssumption DEF TurnInv, Requests
<1>1. CASE SendMessage
  <2>1. at[Send] = "idle" /\ Goto(Send, "asking") /\ UNCHANGED <<gate, answer, target, ran, persisted>>
    BY <1>1 DEF SendMessage, gateVars, auditVars
  <2>2. at'[Send] = "asking" /\ \A b \in Requests \ {Send} : at'[b] = at[b]
    BY <1>t, <2>1 DEF Goto, TypeOK
  <2>3. /\ \A g \in Gates : gate[g] = "absent"
        /\ \A a \in Requests : at[a] \notin Going /\ at[a] # "claimed"
    BY <2>1 DEF TurnInv, SendFirst, Going, Looping
  <2>4. Continuations = {} /\ Continuations' = {Send}
    BY <1>t, <2>1, <2>2, <2>3 DEF Continuations, Going, Looping
  <2>5. Spent' = Spent /\ Send \notin Spent
    BY <1>t, <2>1, <2>2 DEF Spent
  <2>6. Consent' = Consent
    BY <2>1, <2>2, <2>3 DEF Consent
  <2> QED
    BY <2>1, <2>4, <2>5, <2>6 DEF Handover!Begin, Handover!Next
<1>2. CASE ArchiveChat \/ (\E g \in Gates : Expire(g))
  <2>1. UNCHANGED <<at, gate, answer, target, ran, persisted>>
    BY <1>2 DEF ArchiveChat, Expire, gateVars, auditVars
  <2> QED
    BY <2>1 DEF Handover!vars, Continuations, Spent, Consent
<1>3. ASSUME NEW a \in Requests, Crash(a)
      PROVE  Handover!Next
  <2>1. at[a] \in Going /\ Goto(a, "over") /\ UNCHANGED <<gate, ran, persisted>>
    BY <1>3 DEF Crash, gateVars
  <2> QED
    BY <2>1, EndsTurn DEF Handover!Next, Handover!Requests, Requests
<1>4. ASSUME NEW p \in Posts, NEW g \in Gates, Conflict(p, g)
      PROVE  Handover!Next
  <2>1. /\ at[p] = "idle" /\ p \in Requests /\ Goto(p, "over")
        /\ UNCHANGED <<gate, answer, target, ran, persisted>>
    BY <1>4 DEF Conflict, gateVars, auditVars, Requests
  <2>2. at'[p] = "over" /\ \A b \in Requests \ {p} : at'[b] = at[b]
    BY <1>t, <2>1 DEF Goto, TypeOK
  <2>3. p \notin Continuations \cup Spent
    BY <2>1, TurnAssumption DEF Continuations, Spent, Going, Looping, Requests
  <2>4. Continuations' = Continuations /\ Spent' = Spent \cup {p} /\ Consent' = Consent
    BY <2>1, <2>2 DEF Continuations, Spent, Consent, Going, Looping
  <2> QED
    BY <2>1, <2>3, <2>4 DEF Handover!TurnAway, Handover!Next
<1> QED
  BY <1>1, <1>2, <1>3, <1>4

\* For any requests, waiting calls and cap: the turn is in one pair of hands at a
\* time, none of them has it twice, and an approved call is made by the request
\* whose answer claimed it or not at all.
THEOREM TurnImplementsHandover == Spec => HandsTurnOver
<1>1. Init => Handover!Init
  BY DEF Init, Handover!Init, Continuations, Spent, Consent, Going, Looping
<1>2. TurnInv /\ [Next]_vars => [Handover!Next]_(Handover!vars)
  <2> SUFFICES ASSUME TurnInv, [Next]_vars PROVE [Handover!Next]_(Handover!vars)
    OBVIOUS
  <2>1. CASE UNCHANGED vars
    BY <2>1 DEF vars, gateVars, auditVars, Handover!vars, Continuations, Spent, Consent
  <2>2. CASE Next
    BY <2>2, LoopHandsOver, ClaimHandsOver, ResumeHandsOver, WorldHandsOver DEF Next
  <2> QED
    BY <2>1, <2>2
<1>3. Spec => [][Handover!Next]_(Handover!vars)
  BY <1>2, InvariantHolds, PTL DEF Spec
<1> QED
  BY <1>1, <1>3, PTL DEF Spec, HandsTurnOver, Handover!Spec

=============================================================================
