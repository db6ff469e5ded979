------------------------------ MODULE MCSales ------------------------------
(* Small instances of Sales for TLC. *)
EXTENDS Sales, TLC

CONSTANTS goods, service,   \* a tracked variant and an untracked one
          alice             \* a customer with a credit limit

Line(q, s) == [v \in Variants |-> IF v = goods THEN q ELSE s]

\* Three units for 3 and a tax of 1: portions round to 1, 1 and 2, the whole
\* to 4.  The second cart mixes tracked and untracked lines and carries a
\* round-off.
ThreeUnits(net, tax) ==
  [quantity |-> Line(3, 0), net |-> Line(net, 0), tax |-> Line(tax, 0),
   roundOff |-> 0]
MCCarts ==
  {ThreeUnits(3, 1),
   [quantity |-> Line(1, 1), net |-> Line(1, 1), tax |-> Line(1, 0),
    roundOff |-> 1]}

Tender(cash, upi) == [m \in Methods |-> IF m = CASH THEN cash ELSE upi]
\* On credit, or paid in two tenders; the portions are also paid in part.
MCPayments == {Tender(0, 0), Tender(2, 2)}
PortionPayments == {Tender(0, 0), Tender(4, 0), Tender(1, 2)}

MCBaskets == {Line(q, s) : q \in 0..2, s \in 0..1} \ {Line(0, 0)}
MCOpening == Line(3, 0)

\* One sale at a time, given back in up to three portions.
PortionCarts == {ThreeUnits(3, 1)}
\* A third of 2 rounds to 1, a third of 4 as well.
UnevenCarts == {ThreeUnits(2, 2)}
PortionOpening == Line(3, 0)
MCCreditLimit == [c \in Customers |-> 5]
MCTracked == {goods}
SymmetricKeys == Permutations(Keys)
Symmetric == SymmetricKeys \cup Permutations(Registers)
=============================================================================
