----------------------------- MODULE Purchases -----------------------------
(***************************************************************************)
(* PurchasesService: supplier bills from draft to posted to cancelled,     *)
(* returns to the supplier, and payments allocated to several bills.  As   *)
(* in module Sales every operation is one transaction and one action, its  *)
(* early returns are the guards, and a request that is refused or answered *)
(* from what is stored under its Idempotency-Key changes nothing.          *)
(*                                                                         *)
(* A cart stands for the lines of a bill with the value that calculateLine *)
(* gave each.  One branch and its warehouse are modelled.                  *)
(***************************************************************************)
EXTENDS Money, Sequences, FiniteSets, Functions

CONSTANTS Variants,     \* product variants
          Tracked,      \* those whose stock is tracked
          Suppliers,
          References,   \* supplier invoice references, normalized
          Keys,         \* Idempotency-Key values
          Carts,        \* item lists a bill may have
          Baskets,      \* quantities a client may ask to return
          Allotments,   \* amounts a payment may allocate to one bill
          Amounts,      \* amounts of payments
          MaxRoundOff,  \* largest round-off a CHECK allows
          MaxBills,     \* bound: bills ever drafted
          None

CartType == [quantity : [Variants -> Nat], amount : [Variants -> Nat],
             roundOff : Int]

\* A bill has at least one line of a positive quantity (the request DTO), and
\* what is not on it has no value.
ASSUME PurchasesAssumption ==
  /\ IsFiniteSet(Variants) /\ Tracked \subseteq Variants
  /\ Carts \subseteq CartType
  /\ \A cart \in Carts :
       /\ \E v \in Variants : cart.quantity[v] > 0
       /\ \A v \in Variants : cart.quantity[v] = 0 => cart.amount[v] = 0
  /\ Baskets \subseteq [Variants -> Nat]
  /\ Allotments \subseteq Nat \ {0}
  /\ Amounts \subseteq Nat \ {0}
  /\ None \notin Keys
  /\ MaxBills \in Nat

VARIABLES bills,      \* purchase_bills in the order of drafting
          returns,    \* purchase_returns with their items, in order
          payments,   \* supplier_payments with their allocations, in order
          movements,  \* stock_movements
          stock       \* stock_balances.quantity

vars == <<bills, returns, payments, movements, stock>>

Ledger == INSTANCE StockLedger

SumOver(S, F(_)) == SumFunction([x \in S |-> F(x)])

\* calculateTotals: the lines and the round-off.
CartTotal(cart) == SumOver(Variants, LAMBDA v : cart.amount[v]) + cart.roundOff

Goods(quantity) ==
  [v \in Variants |-> IF v \in Tracked THEN quantity[v] ELSE 0]
Minus(delta) == [v \in Variants |-> -delta[v]]

Init ==
  /\ bills = <<>>
  /\ returns = <<>>
  /\ payments = <<>>
  /\ movements = {}
  /\ stock = [v \in Variants |-> 0]

PostMovements(key, kind, delta) ==
  /\ movements' = movements \cup Ledger!Rows(key, kind, delta)
  /\ stock' = [v \in Variants |-> stock[v] + delta[v]]

\* No stock balance goes below zero: insufficientPurchaseStock.
\* Slip: the balance is not compared with the quantity.
StockUnchecked(quantity) == TRUE
StockSuffices(quantity) == \A v \in Tracked : quantity[v] <= stock[v]

----------------------------------------------------------------------------
\* createDraft.  The unique index over the reference knows no status, so a
\* cancelled bill keeps its reference.
\*
\* Slip: cancelled bills are not looked at.
ReferenceFreeNow(supplier, reference) ==
  \A n \in DOMAIN bills :
    bills[n].supplier = supplier /\ bills[n].status # "CANCELLED" =>
      bills[n].reference # reference
ReferenceFree(supplier, reference) ==
  \A n \in DOMAIN bills :
    bills[n].supplier = supplier => bills[n].reference # reference

CreateDraft(supplier, reference, cart) ==
  /\ Len(bills) < MaxBills
  /\ ReferenceFree(supplier, reference)
  /\ CartTotal(cart) \in Nat
  /\ bills' = Append(bills,
       [supplier |-> supplier, reference |-> reference, cart |-> cart,
        total |-> CartTotal(cart), status |-> "DRAFT", paid |-> 0,
        returned |-> 0, outstanding |-> CartTotal(cart),
        postingKey |-> None, cancelKey |-> None])
  /\ UNCHANGED <<returns, payments, movements, stock>>

PostingKeyUsed(key) == \E n \in DOMAIN bills : bills[n].postingKey = key

\* postBill.
PostBill(key, n) ==
  /\ bills[n].status = "DRAFT"
  /\ ~PostingKeyUsed(key)
  /\ PostMovements(key, "PURCHASE_RECEIPT", Goods(bills[n].cart.quantity))
  /\ bills' = [bills EXCEPT ![n].status = "POSTED", ![n].postingKey = key]
  /\ UNCHANGED <<returns, payments>>

CancelKeyUsed(key) == \E n \in DOMAIN bills : bills[n].cancelKey = key

\* Slip: only payments stand in the way.
HasPayments(n) == bills[n].paid # 0
\* What the bill was used for: payments and returns.
HasDependants(n) ==
  \/ bills[n].paid # 0
  \/ \E p \in DOMAIN payments : n \in DOMAIN payments[p].allocations
  \/ bills[n].returned # 0
  \/ \E i \in DOMAIN returns : returns[i].bill = n

\* Every tracked line finds the receipt it reverses.
ReceiptsFound(n) ==
  \A v \in Tracked : bills[n].cart.quantity[v] > 0 =>
    \E m \in movements : /\ m.kind = "PURCHASE_RECEIPT" /\ m.variant = v
                         /\ m.key = bills[n].postingKey

\* cancelBill.
CancelBill(key, n) ==
  /\ bills[n].status = "POSTED"
  /\ ~CancelKeyUsed(key)
  /\ ~HasDependants(n)
  /\ ReceiptsFound(n)
  /\ StockSuffices(bills[n].cart.quantity)
  /\ PostMovements(key, "REVERSAL", Minus(Goods(bills[n].cart.quantity)))
  /\ bills' = [bills EXCEPT ![n].status = "CANCELLED", ![n].outstanding = 0,
                            ![n].cancelKey = key]
  /\ UNCHANGED <<returns, payments>>

----------------------------------------------------------------------------
ReturnsOf(n) == {i \in DOMAIN returns : returns[i].bill = n}
ReturnedQuantity(n, v) == SumOver(ReturnsOf(n), LAMBDA i : returns[i].quantity[v])
ReturnedAmount(n, v) == SumOver(ReturnsOf(n), LAMBDA i : returns[i].amount[v])
PriorRoundOff(n) == SumOver(ReturnsOf(n), LAMBDA i : returns[i].roundOff)
Bought(n, v) == bills[n].cart.quantity[v]
Remaining(n, v) == Bought(n, v) - ReturnedQuantity(n, v)

\* What purchase_return_items and purchase_returns CHECK, and the refusal of
\* a return worth more than what is left of the bill.
RowsValid(bill, quantity, amount, lineTotal, roundOff, total) ==
  /\ \A v \in Variants : quantity[v] > 0 => amount[v] > 0
  /\ lineTotal \in Nat
  /\ roundOff \in -MaxRoundOff .. MaxRoundOff
  /\ total \in Nat \ {0}
  /\ bill.returned + total <= bill.total

\* Slip: only a return of everything at once counts as the last one.
CompletesAtOnce(n, quantity) == \A v \in Variants : quantity[v] = Bought(n, v)
\* Nothing of the bill is left with the buyer.
Completes(n, quantity) == \A v \in Variants : quantity[v] = Remaining(n, v)

ReturnKeyUsed(key) == \E i \in DOMAIN returns : returns[i].key = key

\* Slip: what was already paid is not taken off.
AppliedToUnreturned(bill, total) == Least(bill.total - bill.returned, total)
AppliedToPayable(bill, total) == Least(bill.outstanding, total)

\* createReturn: the return settles the payable first, the rest becomes a
\* credit with the supplier.
CreateReturn(key, n, quantity) ==
  LET bill == bills[n]
      amount == [v \in Variants |->
                   IF quantity[v] = 0 THEN 0
                   ELSE Share(bill.cart.amount[v], Bought(n, v), quantity[v],
                              ReturnedAmount(n, v), ReturnedQuantity(n, v))]
      lineTotal == SumOver(Variants, LAMBDA v : amount[v])
      roundOff == IF Completes(n, quantity)
                  THEN bill.cart.roundOff - PriorRoundOff(n) ELSE 0
      total == lineTotal + roundOff
      applied == AppliedToPayable(bill, total)
  IN  /\ ~ReturnKeyUsed(key)
      /\ bill.status = "POSTED"
      /\ \A v \in Variants : quantity[v] > 0 => Bought(n, v) > 0
      /\ \A v \in Variants : quantity[v] <= Remaining(n, v)
      /\ RowsValid(bill, quantity, amount, lineTotal, roundOff, total)
      /\ StockSuffices(quantity)
      /\ returns' = Append(returns,
           [key |-> key, bill |-> n, quantity |-> quantity, amount |-> amount,
            roundOff |-> roundOff, total |-> total, applied |-> applied,
            credit |-> total - applied])
      /\ PostMovements(key, "PURCHASE_RETURN", Minus(Goods(quantity)))
      /\ bills' = [bills EXCEPT ![n] =
           [bill EXCEPT !.returned = bill.returned + total,
                       !.outstanding = bill.outstanding - applied]]
      /\ UNCHANGED payments

----------------------------------------------------------------------------
PaymentKeyUsed(key) == \E p \in DOMAIN payments : payments[p].key = key

Allocated(allocations) ==
  SumOver(DOMAIN allocations, LAMBDA n : allocations[n])

\* Each bill is read again under its lock; a part of the payment may stay
\* unallocated, an allocation never exceeds what the bill is still owed.
\*
\* Slips: the supplier is not compared, or the part is compared with the
\* total of the bill.
AllocationAnySupplier(supplier, n, part) ==
  bills[n].status = "POSTED" /\ part <= bills[n].outstanding
AllocationWithinTotal(supplier, n, part) ==
  /\ bills[n].status = "POSTED"
  /\ bills[n].supplier = supplier
  /\ part <= bills[n].total
AllocationAllowed(supplier, n, part) ==
  /\ bills[n].status = "POSTED"
  /\ bills[n].supplier = supplier
  /\ part <= bills[n].outstanding

\* paySupplier.
PaySupplier(key, supplier, amount, allocations) ==
  /\ ~PaymentKeyUsed(key)
  /\ Allocated(allocations) <= amount
  /\ \A n \in DOMAIN allocations :
       AllocationAllowed(supplier, n, allocations[n])
  /\ payments' = Append(payments,
       [key |-> key, supplier |-> supplier, amount |-> amount,
        allocations |-> allocations])
  /\ bills' = [n \in DOMAIN bills |->
       IF n \in DOMAIN allocations
       THEN [bills[n] EXCEPT
               !.paid = bills[n].paid + allocations[n],
               !.outstanding = bills[n].outstanding - allocations[n]]
       ELSE bills[n]]
  /\ UNCHANGED <<returns, movements, stock>>

\* What other services do to the stock of this branch: a sale of one unit.
SellElsewhere(key, v) ==
  /\ stock[v] > 0
  /\ \A m \in movements : m.key = key => m.kind # "SALE_ISSUE"
  /\ PostMovements(key, "SALE_ISSUE", [w \in Variants |-> IF w = v THEN -1 ELSE 0])
  /\ UNCHANGED <<bills, returns, payments>>

Operations ==
  \/ \E supplier \in Suppliers, reference \in References, cart \in Carts :
       CreateDraft(supplier, reference, cart)
  \/ \E key \in Keys :
       \/ \E n \in DOMAIN bills :
            \/ PostBill(key, n)
            \/ CancelBill(key, n)
            \/ \E basket \in Baskets : CreateReturn(key, n, basket)
       \/ \E supplier \in Suppliers, amount \in Amounts,
             paid \in SUBSET DOMAIN bills \ {{}} :
            \E allocations \in [paid -> Allotments] :
              PaySupplier(key, supplier, amount, allocations)

Next == Operations \/ \E key \in Keys, v \in Tracked : SellElsewhere(key, v)

Spec == Init /\ [][Next]_vars

----------------------------------------------------------------------------
Bill ==
  [supplier : Suppliers, reference : References, cart : Carts, total : Nat,
   status : {"DRAFT", "POSTED", "CANCELLED"}, paid : Nat, returned : Nat,
   outstanding : Nat, postingKey : Keys \cup {None}, cancelKey : Keys \cup {None}]
Return ==
  [key : Keys, bill : Nat \ {0}, quantity : [Variants -> Nat],
   amount : [Variants -> Int], roundOff : Int, total : Nat, applied : Nat,
   credit : Nat]

TypeOK ==
  /\ bills \in Seq(Bill)
  /\ returns \in Seq(Return)
  /\ \A i \in DOMAIN returns : returns[i].bill \in DOMAIN bills
  /\ \A p \in DOMAIN payments :
       /\ payments[p].key \in Keys
       /\ payments[p].supplier \in Suppliers
       /\ payments[p].amount \in Amounts
       /\ DOMAIN payments[p].allocations \subseteq DOMAIN bills
  /\ movements \subseteq Ledger!Movements
  /\ stock \in [Variants -> Int]

\* Payments and returns of a bill arrive in any order: what is still owed is
\* always the total less both, never negative, a bill is never overpaid, and
\* a cancelled bill never had either.
PayableReconciles ==
  \A n \in DOMAIN bills :
    LET bill == bills[n]
    IN  /\ bill.paid <= bill.total /\ bill.returned <= bill.total
        /\ bill.outstanding =
             IF bill.status = "CANCELLED" THEN 0
             ELSE Positive(bill.total - bill.paid - bill.returned)
        /\ bill.status # "POSTED" => bill.paid = 0 /\ bill.returned = 0

\* The credit the supplier owes for a bill is what was paid and given back
\* beyond its total: no return hands out credit for goods not yet paid for.
CreditIsOverpayment ==
  \A n \in DOMAIN bills :
    SumOver(ReturnsOf(n), LAMBDA i : returns[i].credit) =
      Positive(bills[n].paid + bills[n].returned - bills[n].total)

\* paid_amount is the sum of the allocations, returned_amount that of the
\* returns, all of them with the supplier of the bill.
ProjectionsReconcile ==
  \A n \in DOMAIN bills :
    LET paying == {p \in DOMAIN payments : n \in DOMAIN payments[p].allocations}
    IN  /\ bills[n].paid = SumOver(paying, LAMBDA p : payments[p].allocations[n])
        /\ \A p \in paying : payments[p].supplier = bills[n].supplier
        /\ bills[n].returned = SumOver(ReturnsOf(n), LAMBDA i : returns[i].total)

\* Of no line does more go back than was bought, and once everything is back
\* the rounded portions add up to the bill.
FullReturnSettles ==
  \A n \in DOMAIN bills :
    /\ \A v \in Variants : ReturnedQuantity(n, v) <= Bought(n, v)
    /\ /\ bills[n].total > 0
       /\ \A v \in Variants : Remaining(n, v) = 0
       => bills[n].returned = bills[n].total /\ bills[n].outstanding = 0

\* A key posts, cancels, returns and pays at most once, and one supplier
\* invoice is entered at most once.
AppliedOnce ==
  /\ \A m, n \in DOMAIN bills : m # n =>
       /\ bills[m].supplier = bills[n].supplier =>
            bills[m].reference # bills[n].reference
       /\ bills[m].postingKey = bills[n].postingKey => bills[m].postingKey = None
       /\ bills[m].cancelKey = bills[n].cancelKey => bills[m].cancelKey = None
  /\ \A i, j \in DOMAIN returns : returns[i].key = returns[j].key => i = j
  /\ \A p, q \in DOMAIN payments : payments[p].key = payments[q].key => p = q

\* Receipts, reversals and returns implement the stock ledger.
ImplementsLedger == Ledger!LedgerSpec
=============================================================================
