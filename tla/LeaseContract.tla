----------------------------- MODULE LeaseContract -----------------------------
(***************************************************************************)
(* What a node promises about a lease, with no requests, awaits, tables or *)
(* buckets: it is bought for a term, begins at most once, with row and     *)
(* ciphertext together, runs at least for the term and at most as long as  *)
(* was paid for, is extended only while it runs, and is over, for good,    *)
(* no earlier than the term unless its owner asks for the removal.  One    *)
(* exception the node makes: time bought beyond FarFuture ends the promise *)
(* that the lease runs for its term.                                       *)
(***************************************************************************)
EXTENDS Naturals

CONSTANTS Ids, Dids, Hours, FarFuture, NoDid

VARIABLES
    phase,    \* Ids -> "unsold", "live" or "over"
    owner,    \* Ids -> the owner of a live lease
    until,    \* Ids -> expiry of a live lease
    term,     \* Ids -> end of the time bought at first, 0 before
    bought,   \* Ids -> end of all the time bought
    wanted,   \* removals asked for
    now

vars == <<phase, owner, until, term, bought, wanted, now>>

Init ==
    /\ phase = [id \in Ids |-> "unsold"]
    /\ owner = [id \in Ids |-> NoDid]
    /\ until = [id \in Ids |-> 0]
    /\ term = [id \in Ids |-> 0]
    /\ bought = [id \in Ids |-> 0]
    /\ wanted = {}
    /\ now = 0

Sell(id, hours) ==
    /\ term[id] = 0
    /\ hours >= 1
    /\ term' = [term EXCEPT ![id] = now + hours]
    /\ bought' = [bought EXCEPT ![id] = now + hours]
    /\ UNCHANGED <<phase, owner, until, wanted, now>>

\* A store may also end here, sold and never begun.
Start(id, did, t) ==
    /\ phase[id] = "unsold" /\ term[id] # 0
    /\ phase' = [phase EXCEPT ![id] = "live"]
    /\ owner' = [owner EXCEPT ![id] = did]
    /\ until' = [until EXCEPT ![id] = t]
    /\ UNCHANGED <<term, bought, wanted, now>>

\* An extension may be paid for and, when the lease is over meanwhile, not made.
SellMore(id, hours) ==
    /\ phase[id] # "unsold" /\ hours >= 1
    /\ bought' = [bought EXCEPT ![id] = @ + hours]
    /\ UNCHANGED <<phase, owner, until, term, wanted, now>>

Extend(id, t) ==
    /\ phase[id] = "live"
    /\ until' = [until EXCEPT ![id] = t]
    /\ UNCHANGED <<phase, owner, term, bought, wanted, now>>

Ask(id, did) ==
    /\ phase[id] # "unsold"
    /\ phase[id] = "live" => owner[id] = did
    /\ wanted' = wanted \cup {<<id, did>>}
    /\ UNCHANGED <<phase, owner, until, term, bought, now>>

Withdraw(id, did) ==
    /\ wanted' = wanted \ {<<id, did>>}
    /\ UNCHANGED <<phase, owner, until, term, bought, now>>

End(id) ==
    /\ phase[id] = "live"
    /\ now > term[id] \/ bought[id] >= FarFuture \/ <<id, owner[id]>> \in wanted
    /\ phase' = [phase EXCEPT ![id] = "over"]
    /\ owner' = [owner EXCEPT ![id] = NoDid]
    /\ until' = [until EXCEPT ![id] = 0]
    /\ UNCHANGED <<term, bought, wanted, now>>

Tick == now' = now + 1 /\ UNCHANGED <<phase, owner, until, term, bought, wanted>>

Next ==
    \/ \E id \in Ids :
        \/ \E hours \in Hours : Sell(id, hours) \/ SellMore(id, hours)
        \/ \E t \in term[id]..bought[id] :
               Extend(id, t) \/ \E did \in Dids : Start(id, did, t)
        \/ \E did \in Dids : Ask(id, did) \/ Withdraw(id, did)
        \/ End(id)
    \/ Tick

Spec == Init /\ [][Next]_vars

=============================================================================
