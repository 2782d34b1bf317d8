---------------------------- MODULE TurnHandover ----------------------------
(***************************************************************************)
(* What a turn of a chat promises, without rounds, counts, audit rows or   *)
(* transactions: the turn is in one pair of hands at a time, and changes   *)
(* hands only between the request that goes on with it and a call that     *)
(* waits for the user.  Whoever had it never gets it again; only the       *)
(* holder may make the call its answer approved, once, and only it may     *)
(* store the message.  ChatTurnRefinement shows that ChatToolTurn          *)
(* implements this.                                                        *)
(***************************************************************************)
EXTENDS Naturals

CONSTANTS
    Send,   \* the request that starts the turn
    Posts,  \* requests that answer a waiting call
    Gates   \* calls that may come to wait for the user

VARIABLES
    holder,   \* who has the turn: no one, or one request or one waiting call
    spent,    \* the requests and waiting calls that cannot have it any more
    consent,  \* the approved call its holder has not made yet, if there is one
    made,     \* how often each waiting call was made in the end
    message   \* whether the assistant's message exists

vars == <<holder, spent, consent, made, message>>

Requests == Posts \cup {Send}

Init ==
    /\ holder = {} /\ spent = {} /\ consent = {}
    /\ made = [g \in Gates |-> 0] /\ message = FALSE

\* The turn passes from x to y, and x is done with it.
HandOver(x, y) ==
    /\ holder = {x} /\ y \notin spent
    /\ holder' = {y} /\ spent' = spent \cup {x}

Begin ==
    /\ holder = {} /\ Send \notin spent
    /\ holder' = {Send}
    /\ UNCHANGED <<spent, consent, made, message>>

\* A call that needs the user takes the turn from the request that met it.
Ask(r, g) ==
    /\ HandOver(r, g) /\ consent = {}
    /\ UNCHANGED <<consent, made, message>>

\* The request whose answer comes first takes it back, with consent or without.
Answer(g, p) ==
    /\ HandOver(g, p)
    /\ consent' \in {{}, {g}}
    /\ UNCHANGED <<made, message>>

\* The approved call is made, or it cannot be any more.
Make(g) ==
    /\ consent = {g} /\ consent' = {}
    /\ made' = [made EXCEPT ![g] = @ + 1]
    /\ UNCHANGED <<holder, spent, message>>

Forgo ==
    /\ consent # {} /\ consent' = {}
    /\ UNCHANGED <<holder, spent, made, message>>

\* The request that has the turn ends it, with the message or without.
End(r) ==
    /\ holder = {r} /\ holder' = {} /\ spent' = spent \cup {r}
    /\ consent' = {}
    /\ message' \in {message, TRUE}
    /\ UNCHANGED made

\* An answer that comes too late is turned away.
TurnAway(p) ==
    /\ p \notin holder \cup spent
    /\ spent' = spent \cup {p}
    /\ UNCHANGED <<holder, consent, made, message>>

Next ==
    \/ Begin \/ Forgo
    \/ \E r \in Requests : End(r) \/ \E g \in Gates : Ask(r, g)
    \/ \E p \in Posts : TurnAway(p) \/ \E g \in Gates : Answer(g, p)
    \/ \E g \in Gates : Make(g)

Spec == Init /\ [][Next]_vars

=============================================================================
