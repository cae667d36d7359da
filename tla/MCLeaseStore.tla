----------------------------- MODULE MCLeaseStore -----------------------------
(* Finite instances of LeaseStore for TLC. *)
EXTENDS LeaseStore, TLC

\* Slots, callers and ids are interchangeable; sound for the safety runs only.
Symmetry == Permutations(Requests) \cup Permutations(Ids) \cup Permutations(Dids)

=============================================================================
