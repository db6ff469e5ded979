---------------------------- MODULE MCPurchases ----------------------------
(* Small instances of Purchases for TLC. *)
EXTENDS Purchases, TLC

CONSTANTS goods, service   \* a tracked variant and an untracked one

Line(q, s) == [v \in Variants |-> IF v = goods THEN q ELSE s]

\* Two units for 3: the first portion rounds to 2, the last is 1.  The second
\* cart mixes tracked and untracked lines and carries a round-off.
MCCarts ==
  {[quantity |-> Line(2, 0), amount |-> Line(3, 0), roundOff |-> 0],
   [quantity |-> Line(1, 1), amount |-> Line(2, 1), roundOff |-> 1]}

MCTracked == {goods}
MCBaskets == {Line(q, s) : q \in 0..2, s \in 0..1} \ {Line(0, 0)}
Symmetric == Permutations(Keys) \cup Permutations(References)
               \cup Permutations(Suppliers)
=============================================================================
