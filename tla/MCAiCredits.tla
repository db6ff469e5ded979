----------------------------- MODULE MCAiCredits -----------------------------
(* A small instance of AiCredits for TLC. *)
EXTENDS AiCredits, TLC

Symmetric == Permutations(Calls) \cup Permutations(References)
=============================================================================
