----------------------------- MODULE MCTrading -----------------------------
(* A small instance of Trading for TLC: one tracked variant. *)
EXTENDS Trading, TLC

CONSTANT goods

Of(q) == [v \in Variants |-> q]
MCCreditLimit == [c \in Customers |-> 0]

\* Two units are bought and sold one at a time.
MCBillCarts == {[quantity |-> Of(2), amount |-> Of(2), roundOff |-> 0]}
MCSaleCarts ==
  {[quantity |-> Of(1), net |-> Of(1), tax |-> Of(0), roundOff |-> 0]}
MCPayments == {[m \in Methods |-> 1]}
MCBaskets == {Of(1)}
Symmetric == Permutations(Keys)
=============================================================================
