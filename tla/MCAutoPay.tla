------------------------------- MODULE MCAutoPay -------------------------------
(* Finite instances of AutoPay for TLC. *)
EXTENDS AutoPay, TLC

Cheap == [mode |-> "micropayment", price |-> 1, dev |-> FALSE]
Entitled == [mode |-> "entitlement", price |-> 1, dev |-> FALSE]
DevCheap == [mode |-> "micropayment", price |-> 1, dev |-> TRUE]
DevDear == [mode |-> "micropayment", price |-> 2, dev |-> TRUE]

OneConfig == {Cheap}
AllConfigs == {Cheap, Entitled, DevCheap, DevDear}

\* Slots and invoices are interchangeable; sound for the safety run.
Symmetry == Permutations(Calls) \cup Permutations(Invoices)

=============================================================================
