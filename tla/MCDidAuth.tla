------------------------------- MODULE MCDidAuth -------------------------------
(* Finite instances of DidAuth for TLC. *)
EXTENDS DidAuth, TLC

CONSTANTS s1, s2   \* two signatures

\* The first signature has two texts, the second has one.
TwoTexts == [x \in SigTexts |-> IF x = "b" THEN s2 ELSE s1]

=============================================================================
