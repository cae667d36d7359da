------------------------------- MODULE MCMigrate -------------------------------
(* Finite instances of Migrate for TLC. *)
EXTENDS Migrate, TLC

\* Nodes, callers and ids are interchangeable.
Symmetry == Permutations(Nodes) \cup Permutations(Dids) \cup Permutations(Ids)

(* Creating inboxes, listing leases and moving them share no state: the first *)
(* has tables of its own, a listing is only read, and a copy is a lease like  *)
(* any other.  Their combinations add nothing, so each is explored without    *)
(* the others.                                                                *)
Creating == fees # <<>>
Listing == view # NoView
Moving == moved # {} \/ strayed # {} \/ \E c \in Calls : call[c] # NoCall
Storing == \E id \in Ids : sent[id] # {}
OnePart == ~(Creating /\ Storing) /\ ~(Listing /\ Moving)

=============================================================================
