-------------------------------- MODULE MCNode --------------------------------
(* Finite instances of Node for TLC. *)
EXTENDS Node, TLC

CONSTANTS s1, s2, x1, x2, h1, t1   \* signatures and texts, an invoice, a transaction

\* Two texts are of the first signature, any other is of the second.
TwoTexts == [x \in SigTexts |-> IF x \in {x1, x2} THEN s1 ELSE s2]

\* The invoice and the transaction have one text each; any other names nothing.
OneSpelling == [i \in PaymentIds |-> IF i = "hash" THEN h1 ELSE IF i = "tx" THEN t1 ELSE Nothing]

\* All operations cost the same, so that any proof would do for any of them.
UnitCost == [s \in Sigs |-> 1]

\* Slots are interchangeable, and so are the texts of the first signature.
Symmetry == Permutations(Requests) \cup Permutations({x1, x2})

=============================================================================
