----------------------------- MODULE MCPaymentGate -----------------------------
(* Finite instances of PaymentGate for TLC. *)
EXTENDS PaymentGate, TLC

CONSTANTS h1, t1   \* an invoice and a transaction

\* The transaction has two texts, the invoice has one, any other text names nothing.
TwoSpellings ==
    [i \in PaymentIds |-> IF i = "hash" THEN h1
                         ELSE IF i \in {"tx", "TX"} THEN t1 ELSE Nothing]

\* Slots are interchangeable.
Symmetry == Permutations(Requests)

=============================================================================
