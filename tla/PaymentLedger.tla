----------------------------- MODULE PaymentLedger -----------------------------
(***************************************************************************)
(* What the payment gate promises, with no requests, awaits or tables: a   *)
(* payment settles once for some amount; a payment_id that names a payment *)
(* is consumed only after that has settled, and for good; and an operation *)
(* is served only for a consumed payment_id whose proof backs it.  What    *)
(* backing means is as much as the node checks, and depends on the kind of *)
(* proof; nothing backs a token of the older format or a mock.  How often  *)
(* a consumed payment_id is served is left open: see GrantsBounded in      *)
(* PaymentGate.                                                            *)
(***************************************************************************)
EXTENDS Naturals

CONSTANTS Payments, PaymentIds, Names, Proofs, Prices

VARIABLES
    settled,   \* Payments -> the amount that reached the node, 0 before
    consumed,  \* payment_ids the node has taken into account
    served     \* proofs operations were served for, with their prices

vars == <<settled, consumed, served>>

Init ==
    /\ settled = [p \in Payments |-> 0]
    /\ consumed = {}
    /\ served = {}

Settle(p, amount) ==
    /\ settled[p] = 0
    /\ settled' = [settled EXCEPT ![p] = amount]
    /\ UNCHANGED <<consumed, served>>

Consume(i) ==
    /\ Names[i] \in Payments => settled[Names[i]] # 0
    /\ consumed' = consumed \cup {i}
    /\ UNCHANGED <<settled, served>>

\* A transfer is of exactly the price; a token's invoice is settled, and the
\* token states the price.
Backed(p, price) ==
    /\ p.kind = "x402" => settled[Names[p.id]] = price
    /\ p.kind = "token" => /\ Names[p.id] \in Payments /\ settled[Names[p.id]] # 0
                           /\ p.stated = price

Serve(p, price) ==
    /\ p.id \in consumed
    /\ Backed(p, price)
    /\ served' = served \cup {[proof |-> p, price |-> price]}
    /\ UNCHANGED <<settled, consumed>>

Next ==
    \/ \E p \in Payments, amount \in Prices : Settle(p, amount)
    \/ \E i \in PaymentIds : Consume(i)
    \/ \E p \in Proofs, price \in Prices : Serve(p, price)

Spec == Init /\ [][Next]_vars

=============================================================================
