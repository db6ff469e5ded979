--------------------------- MODULE MCStockAdjust ---------------------------
(* Small instances of StockAdjust for TLC. *)
EXTENDS StockAdjust, TLC

\* Calls, keys and variants are interchangeable.
Symmetric ==
  Permutations(Calls) \cup Permutations(Keys) \cup Permutations(Variants)
=============================================================================
