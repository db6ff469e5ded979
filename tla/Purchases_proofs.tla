-------------------------- MODULE Purchases_proofs --------------------------
(***************************************************************************)
(* What Purchases promises for any number of variants, suppliers, keys and *)
(* bills, and for any payments.  Unlike a sale, a return to the supplier   *)
(* is worth the sum of its rounded lines; that the last one closes the     *)
(* bill rests on the rest of every line going back with its last unit.     *)
(***************************************************************************)
EXTENDS Purchases, FiniteSetTheorems, SequenceTheorems, SumTheorems, TLAPS

Payment ==
  [key : Keys, supplier : Suppliers, amount : Amounts,
   allocations : UNION {[paid -> Allotments] : paid \in SUBSET (Nat \ {0})}]

TypeInv ==
  /\ TypeOK
  /\ payments \in Seq(Payment)
  /\ stock \in [Variants -> Nat]

\* A bill has no key of an operation it has not been through.
Stamped ==
  \A n \in DOMAIN bills :
    /\ bills[n].status = "DRAFT" => bills[n].postingKey = None
    /\ bills[n].status # "CANCELLED" => bills[n].cancelKey = None

\* Every movement of this service belongs to a document, which keeps its slot
\* taken.
Documented ==
  \A m \in movements :
    /\ m.kind = "PURCHASE_RECEIPT" => PostingKeyUsed(m.key)
    /\ m.kind = "REVERSAL" => CancelKeyUsed(m.key)
    /\ m.kind = "PURCHASE_RETURN" => ReturnKeyUsed(m.key)

\* No more of a line goes back than was bought.
WithinBought ==
  \A n \in DOMAIN bills : \A v \in Variants : ReturnedQuantity(n, v) <= Bought(n, v)

\* What came back adds up by lines, a line that is back is back with all its
\* value, and so is the round-off with the last line.
Rounding ==
  \A n \in DOMAIN bills :
    /\ bills[n].total = CartTotal(bills[n].cart)
    /\ bills[n].returned =
         SumOver(Variants, LAMBDA v : ReturnedAmount(n, v)) + PriorRoundOff(n)
    /\ \A v \in Variants : Remaining(n, v) = 0 =>
         ReturnedAmount(n, v) = bills[n].cart.amount[v]
    /\ (\A v \in Variants : Remaining(n, v) = 0) =>
         PriorRoundOff(n) = bills[n].cart.roundOff

IInv ==
  /\ TypeInv
  /\ Stamped
  /\ Documented
  /\ WithinBought
  /\ Rounding
  /\ PayableReconciles
  /\ CreditIsOverpayment
  /\ ProjectionsReconcile
  /\ AppliedOnce

----------------------------------------------------------------------------
\* The rows of every table have their types.
LEMMA RowTypes ==
  ASSUME TypeInv
  PROVE  /\ IsFiniteSet(DOMAIN bills) /\ IsFiniteSet(DOMAIN returns)
         /\ IsFiniteSet(DOMAIN payments)
         /\ DOMAIN bills \subseteq Nat \ {0}
         /\ \A n \in DOMAIN bills :
              /\ bills[n] \in Bill
              /\ \A v \in Variants : Bought(n, v) \in Nat
         /\ \A i \in DOMAIN returns : returns[i] \in Return
         /\ \A p \in DOMAIN payments :
              /\ payments[p] \in Payment
              /\ IsFiniteSet(DOMAIN payments[p].allocations)
              /\ \A n \in DOMAIN payments[p].allocations :
                   payments[p].allocations[n] \in Nat
<1>1. /\ bills \in Seq(Bill) /\ returns \in Seq(Return) /\ payments \in Seq(Payment)
      /\ \A p \in DOMAIN payments :
           DOMAIN payments[p].allocations \subseteq DOMAIN bills
  BY DEF TypeInv, TypeOK
<1>2. /\ IsFiniteSet(DOMAIN bills) /\ IsFiniteSet(DOMAIN returns)
      /\ IsFiniteSet(DOMAIN payments)
      /\ DOMAIN bills \subseteq Nat \ {0}
      /\ \A n \in DOMAIN bills : bills[n] \in Bill
      /\ \A i \in DOMAIN returns : returns[i] \in Return
      /\ \A p \in DOMAIN payments : payments[p] \in Payment
  BY <1>1, RowsFinite
<1>3. ASSUME NEW n \in DOMAIN bills, NEW v \in Variants
      PROVE  Bought(n, v) \in Nat
  BY <1>2, PurchasesAssumption DEF Bill, CartType, Bought
<1>4. ASSUME NEW p \in DOMAIN payments
      PROVE  /\ IsFiniteSet(DOMAIN payments[p].allocations)
             /\ \A n \in DOMAIN payments[p].allocations :
                  payments[p].allocations[n] \in Nat
  <2>1. IsFiniteSet(DOMAIN payments[p].allocations)
    BY <1>1, <1>2, FS_Subset
  <2>2. PICK paid \in SUBSET (Nat \ {0}) :
          payments[p].allocations \in [paid -> Allotments]
    BY <1>2 DEF Payment
  <2> QED
    BY <2>1, <2>2, PurchasesAssumption
<1> QED
  BY <1>2, <1>3, <1>4

\* A sum of natural numbers is one.
LEMMA SumOfNat ==
  ASSUME NEW S, IsFiniteSet(S), NEW f \in [S -> Nat]
  PROVE  SumFunction(f) \in Nat
<1>1. f \in [S -> Int] /\ \A x \in S : f[x] >= 0
  OBVIOUS
<1>2. SumFunction(f) \in Int
  BY <1>1, SumType
<1>3. SumFunction(f) >= 0
  BY <1>1, SumNonNegative
<1> QED
  BY <1>2, <1>3

----------------------------------------------------------------------------
\* The columns of the returns, and what a column adds up to for a bill.
Quantities(v) == [i \in DOMAIN returns |-> returns[i].quantity[v]]
Values(v) == [i \in DOMAIN returns |-> returns[i].amount[v]]
RoundOffs == [i \in DOMAIN returns |-> returns[i].roundOff]
Totals == [i \in DOMAIN returns |-> returns[i].total]
Credits == [i \in DOMAIN returns |-> returns[i].credit]
SumAt(S, column) == SumFunction([i \in S |-> column[i]])
Of(n, column) == SumAt(ReturnsOf(n), column)
TotalOf(n) == SumOver(ReturnsOf(n), LAMBDA i : returns[i].total)
CreditOf(n) == SumOver(ReturnsOf(n), LAMBDA i : returns[i].credit)

ColumnsAddUp ==
  /\ \A n, v : ReturnedQuantity(n, v) = Of(n, Quantities(v))
  /\ \A n, v : ReturnedAmount(n, v) = Of(n, Values(v))
  /\ \A n : PriorRoundOff(n) = Of(n, RoundOffs)
  /\ \A n : TotalOf(n) = Of(n, Totals)
  /\ \A n : CreditOf(n) = Of(n, Credits)

\* The sums of the model are the sums of these columns.
LEMMA ColumnSums ==
  ColumnsAddUp
<1>1. \A n : ReturnsOf(n) \subseteq DOMAIN returns
  BY DEF ReturnsOf
<1>2. /\ \A n, v : [i \in ReturnsOf(n) |-> Quantities(v)[i]]
                     = [i \in ReturnsOf(n) |-> returns[i].quantity[v]]
      /\ \A n, v : [i \in ReturnsOf(n) |-> Values(v)[i]]
                     = [i \in ReturnsOf(n) |-> returns[i].amount[v]]
      /\ \A n : [i \in ReturnsOf(n) |-> RoundOffs[i]]
                  = [i \in ReturnsOf(n) |-> returns[i].roundOff]
      /\ \A n : [i \in ReturnsOf(n) |-> Totals[i]]
                  = [i \in ReturnsOf(n) |-> returns[i].total]
      /\ \A n : [i \in ReturnsOf(n) |-> Credits[i]]
                  = [i \in ReturnsOf(n) |-> returns[i].credit]
  BY <1>1 DEF Quantities, Values, RoundOffs, Totals, Credits
<1>3. ASSUME NEW n, NEW v
      PROVE  ReturnedQuantity(n, v) = Of(n, Quantities(v))
  <2>1. [i \in ReturnsOf(n) |-> Quantities(v)[i]]
          = [i \in ReturnsOf(n) |-> returns[i].quantity[v]]
    BY <1>2
  <2> QED
    BY <2>1 DEF ReturnedQuantity, Of, SumAt, SumOver
<1>4. ASSUME NEW n, NEW v
      PROVE  ReturnedAmount(n, v) = Of(n, Values(v))
  <2>1. [i \in ReturnsOf(n) |-> Values(v)[i]]
          = [i \in ReturnsOf(n) |-> returns[i].amount[v]]
    BY <1>2
  <2> QED
    BY <2>1 DEF ReturnedAmount, Of, SumAt, SumOver
<1>5. \A n : PriorRoundOff(n) = Of(n, RoundOffs)
  BY <1>2 DEF PriorRoundOff, Of, SumAt, SumOver
<1>6. \A n : TotalOf(n) = Of(n, Totals) /\ CreditOf(n) = Of(n, Credits)
  BY <1>2 DEF TotalOf, CreditOf, Of, SumAt, SumOver
<1> QED
  BY <1>3, <1>4, <1>5, <1>6 DEF ColumnsAddUp

\* The columns of the purchase returns are finite and hold integers.
LEMMA ColumnTypes ==
  ASSUME TypeInv
  PROVE  /\ \A n : IsFiniteSet(ReturnsOf(n)) /\ ReturnsOf(n) \subseteq DOMAIN returns
         /\ \A v \in Variants : Quantities(v) \in [DOMAIN returns -> Nat]
         /\ \A v \in Variants : Values(v) \in [DOMAIN returns -> Int]
         /\ RoundOffs \in [DOMAIN returns -> Int]
         /\ Totals \in [DOMAIN returns -> Int]
         /\ Credits \in [DOMAIN returns -> Int]
<1>1. IsFiniteSet(DOMAIN returns) /\ \A i \in DOMAIN returns : returns[i] \in Return
  BY RowTypes
<1>2. \A n : IsFiniteSet(ReturnsOf(n)) /\ ReturnsOf(n) \subseteq DOMAIN returns
  BY <1>1, FS_Subset DEF ReturnsOf
<1>3. \A v \in Variants : /\ Quantities(v) \in [DOMAIN returns -> Nat]
                          /\ Values(v) \in [DOMAIN returns -> Int]
  BY <1>1 DEF Return, Quantities, Values
<1>4. /\ RoundOffs \in [DOMAIN returns -> Int]
      /\ Totals \in [DOMAIN returns -> Int]
      /\ Credits \in [DOMAIN returns -> Int]
  BY <1>1 DEF Return, RoundOffs, Totals, Credits
<1> QED
  BY <1>2, <1>3, <1>4

\* What a column of numbers adds up to is a number.
LEMMA OfType ==
  ASSUME TypeInv, NEW n, NEW column \in [DOMAIN returns -> Int]
  PROVE  Of(n, column) \in Int
<1>1. IsFiniteSet(ReturnsOf(n)) /\ ReturnsOf(n) \subseteq DOMAIN returns
  BY ColumnTypes
<1>2. [i \in ReturnsOf(n) |-> column[i]] \in [ReturnsOf(n) -> Int]
  BY <1>1
<1> QED
  BY <1>1, <1>2, SumType DEF Of, SumAt

\* A column of naturals adds up to a natural.
LEMMA OfNat ==
  ASSUME TypeInv, NEW n, NEW column \in [DOMAIN returns -> Nat]
  PROVE  Of(n, column) \in Nat
<1>1. IsFiniteSet(ReturnsOf(n)) /\ ReturnsOf(n) \subseteq DOMAIN returns
  BY ColumnTypes
<1>2. [i \in ReturnsOf(n) |-> column[i]] \in [ReturnsOf(n) -> Nat]
  BY <1>1
<1> QED
  BY <1>1, <1>2, SumOfNat DEF Of, SumAt

\* A bill without returns has nothing in any column.
LEMMA OfNone ==
  ASSUME NEW n, ReturnsOf(n) = {}, NEW column
  PROVE  Of(n, column) = 0
<1>1. DOMAIN [i \in ReturnsOf(n) |-> column[i]] = {}
  OBVIOUS
<1> QED
  BY <1>1, SumEmpty DEF Of, SumAt

\* What came back of a bill so far, line by line.
LEMMA PriorType ==
  ASSUME TypeInv, NEW n
  PROVE  /\ \A v \in Variants : ReturnedQuantity(n, v) \in Nat
         /\ \A v \in Variants : ReturnedAmount(n, v) \in Int
         /\ PriorRoundOff(n) \in Int
         /\ TotalOf(n) \in Int
         /\ CreditOf(n) \in Int
<1>1. /\ \A v \in Variants : Of(n, Quantities(v)) \in Nat
      /\ \A v \in Variants : Of(n, Values(v)) \in Int
      /\ Of(n, RoundOffs) \in Int
      /\ Of(n, Totals) \in Int
      /\ Of(n, Credits) \in Int
  BY ColumnTypes, OfType, OfNat
<1> QED
  BY <1>1, ColumnSums DEF ColumnsAddUp

\* A row that is added to a column is added to the sum, and nothing else is.
LEMMA SumAtGrows ==
  ASSUME NEW D, NEW f \in [D -> Int], NEW E, NEW g \in [E -> Int],
         NEW S \in SUBSET D, IsFiniteSet(S), NEW N, N \notin S,
         NEW T \in SUBSET E, T = S \cup {N}, \A i \in S : g[i] = f[i]
  PROVE  SumAt(T, g) = SumAt(S, f) + g[N]
<1> DEFINE old == [i \in S |-> f[i]]
           new == [i \in T |-> g[i]]
<1>1. old \in [S -> Int] /\ new \in [T -> Int]
  OBVIOUS
<1>2. (\A i \in S : new[i] = old[i]) /\ new[N] = g[N]
  OBVIOUS
<1>3. SumAt(T, g) = SumFunction(new) /\ SumAt(S, f) = SumFunction(old)
  BY DEF SumAt
<1> HIDE DEF old, new
<1>4. SumFunction(new) = SumFunction(old) + new[N]
  BY <1>1, <1>2, SumGrows
<1> QED
  BY <1>2, <1>3, <1>4

\* A sum sees only the entries it is taken over.
LEMMA SumAtStays ==
  ASSUME NEW S, NEW f, NEW g, \A i \in S : g[i] = f[i]
  PROVE  SumAt(S, g) = SumAt(S, f)
BY DEF SumAt

----------------------------------------------------------------------------
\* What a draft leaves behind: one more bill, with number N.
Drafted(supplier, reference, cart, bill, N) ==
  /\ ReferenceFree(supplier, reference)
  /\ N \in Nat \ {0} /\ N \notin DOMAIN bills
  /\ bills' \in Seq(Bill) /\ bill \in Bill
  /\ DOMAIN bills' = DOMAIN bills \cup {N}
  /\ bills'[N] = bill
  /\ \A m \in DOMAIN bills : bills'[m] = bills[m]
  /\ bill.supplier = supplier /\ bill.reference = reference /\ bill.cart = cart
  /\ bill.total = CartTotal(cart) /\ bill.status = "DRAFT"
  /\ bill.paid = 0 /\ bill.returned = 0 /\ bill.outstanding = bill.total
  /\ bill.postingKey = None /\ bill.cancelKey = None
  /\ UNCHANGED <<returns, payments, movements, stock>>

\* What createDraft leaves behind: one more bill, and nothing else.
LEMMA DraftShape ==
  ASSUME TypeInv, NEW supplier \in Suppliers, NEW reference \in References,
         NEW cart \in Carts, CreateDraft(supplier, reference, cart)
  PROVE  \E bill, N : Drafted(supplier, reference, cart, bill, N)
<1> DEFINE total == CartTotal(cart)
           bill == [supplier |-> supplier, reference |-> reference, cart |-> cart,
                    total |-> total, status |-> "DRAFT", paid |-> 0,
                    returned |-> 0, outstanding |-> total,
                    postingKey |-> None, cancelKey |-> None]
<1>1. /\ bills \in Seq(Bill) /\ total \in Nat
      /\ bills' = Append(bills, bill)
      /\ ReferenceFree(supplier, reference)
      /\ UNCHANGED <<returns, payments, movements, stock>>
  BY DEF CreateDraft, TypeInv, TypeOK
<1>2. /\ bill.supplier = supplier /\ bill.reference = reference
      /\ bill.cart = cart /\ bill.total = total /\ bill.status = "DRAFT"
      /\ bill.paid = 0 /\ bill.returned = 0 /\ bill.outstanding = bill.total
      /\ bill.postingKey = None /\ bill.cancelKey = None
  OBVIOUS
<1>3. total = CartTotal(cart)
  OBVIOUS
<1> HIDE DEF total
<1>4. bill \in Bill
  BY <1>1 DEF Bill
<1> HIDE DEF bill
<1>5. PICK N \in Nat \ {0} :
        /\ N \notin DOMAIN bills
        /\ DOMAIN Append(bills, bill) = DOMAIN bills \cup {N}
        /\ Append(bills, bill)[N] = bill
        /\ \A m \in DOMAIN bills : Append(bills, bill)[m] = bills[m]
  BY <1>1, <1>4, RowAppended
<1>6. bills' \in Seq(Bill)
  BY <1>1, <1>4, RowAppended
<1> QED
  BY <1>1, <1>2, <1>3, <1>4, <1>5, <1>6 DEF Drafted

\* One bill is changed, but not what it is about.
BillChanged(n, bill) ==
  /\ bills' \in Seq(Bill) /\ bill \in Bill
  /\ DOMAIN bills' = DOMAIN bills
  /\ bills'[n] = bill
  /\ \A m \in DOMAIN bills \ {n} : bills'[m] = bills[m]
  /\ bill.supplier = bills[n].supplier /\ bill.reference = bills[n].reference
  /\ bill.cart = bills[n].cart /\ bill.total = bills[n].total

\* The frame of an update of one bill row.
LEMMA BillChange ==
  ASSUME TypeInv, NEW n \in DOMAIN bills, NEW bill \in Bill,
         bills' = [bills EXCEPT ![n] = bill],
         bill.supplier = bills[n].supplier, bill.reference = bills[n].reference,
         bill.cart = bills[n].cart, bill.total = bills[n].total
  PROVE  BillChanged(n, bill)
<1>1. bills \in Seq(Bill)
  BY DEF TypeInv, TypeOK
<1> QED
  BY <1>1, RowUpdated DEF BillChanged

\* What posting and cancelling leave behind.
Posted(key, n, bill) ==
  /\ PostBill(key, n)
  /\ BillChanged(n, bill)
  /\ bills[n].status = "DRAFT" /\ bill.status = "POSTED"
  /\ ~PostingKeyUsed(key) /\ bill.postingKey = key
  /\ bill.cancelKey = bills[n].cancelKey
  /\ bill.paid = bills[n].paid /\ bill.returned = bills[n].returned
  /\ bill.outstanding = bills[n].outstanding
  /\ UNCHANGED <<returns, payments>>

\* What postBill leaves behind.
LEMMA PostShape ==
  ASSUME TypeInv, NEW key \in Keys, NEW n \in DOMAIN bills, PostBill(key, n)
  PROVE  \E bill : Posted(key, n, bill)
<1> DEFINE old == bills[n]
           bill == [old EXCEPT !.status = "POSTED", !.postingKey = key]
<1>1. bills \in Seq(Bill) /\ old \in Bill
  BY RowTypes DEF TypeInv, TypeOK
<1>2. /\ old.status = "DRAFT" /\ ~PostingKeyUsed(key)
      /\ bills' = [bills EXCEPT ![n] = bill]
      /\ UNCHANGED <<returns, payments>>
  BY DEF PostBill
<1> HIDE DEF old
<1>3. bill \in Bill
  BY <1>1 DEF Bill
<1>4. /\ bill.supplier = old.supplier /\ bill.reference = old.reference
      /\ bill.cart = old.cart /\ bill.total = old.total
      /\ bill.status = "POSTED" /\ bill.postingKey = key
      /\ bill.cancelKey = old.cancelKey /\ bill.paid = old.paid
      /\ bill.returned = old.returned /\ bill.outstanding = old.outstanding
  BY <1>1 DEF Bill
<1> HIDE DEF bill
<1>5. BillChanged(n, bill)
  BY <1>2, <1>3, <1>4, BillChange DEF old
<1> QED
  BY <1>2, <1>4, <1>5 DEF Posted, old

Cancelled(key, n, bill) ==
  /\ CancelBill(key, n)
  /\ BillChanged(n, bill)
  /\ bills[n].status = "POSTED" /\ bill.status = "CANCELLED"
  /\ ~CancelKeyUsed(key) /\ bill.cancelKey = key
  /\ bill.postingKey = bills[n].postingKey
  /\ bills[n].paid = 0 /\ bills[n].returned = 0
  /\ bill.paid = 0 /\ bill.returned = 0 /\ bill.outstanding = 0
  /\ UNCHANGED <<returns, payments>>

\* What cancelBill leaves behind.
LEMMA CancelShape ==
  ASSUME TypeInv, NEW key \in Keys, NEW n \in DOMAIN bills, CancelBill(key, n)
  PROVE  \E bill : Cancelled(key, n, bill)
<1> DEFINE old == bills[n]
           bill == [old EXCEPT !.status = "CANCELLED", !.outstanding = 0,
                               !.cancelKey = key]
<1>1. bills \in Seq(Bill) /\ old \in Bill
  BY RowTypes DEF TypeInv, TypeOK
<1>2. /\ old.status = "POSTED" /\ ~CancelKeyUsed(key)
      /\ old.paid = 0 /\ old.returned = 0
      /\ bills' = [bills EXCEPT ![n] = bill]
      /\ UNCHANGED <<returns, payments>>
  BY DEF CancelBill, HasDependants
<1> HIDE DEF old
<1>3. bill \in Bill
  BY <1>1 DEF Bill
<1>4. /\ bill.supplier = old.supplier /\ bill.reference = old.reference
      /\ bill.cart = old.cart /\ bill.total = old.total
      /\ bill.status = "CANCELLED" /\ bill.cancelKey = key
      /\ bill.postingKey = old.postingKey /\ bill.paid = old.paid
      /\ bill.returned = old.returned /\ bill.outstanding = 0
  BY <1>1 DEF Bill
<1> HIDE DEF bill
<1>5. BillChanged(n, bill)
  BY <1>2, <1>3, <1>4, BillChange DEF old
<1> QED
  BY <1>2, <1>4, <1>5 DEF Cancelled, old

----------------------------------------------------------------------------
\* What a return leaves behind: one more row, with number N, and the bill with
\* less to pay.
GoodsBack(key, n, quantity, row, bill, N) ==
  LET old == bills[n]
  IN  /\ CreateReturn(key, n, quantity)
      /\ BillChanged(n, bill)
      /\ ~ReturnKeyUsed(key) /\ old.status = "POSTED"
      /\ \A v \in Variants : quantity[v] <= Remaining(n, v)
      /\ N \notin DOMAIN returns
      /\ returns' \in Seq(Return) /\ row \in Return
      /\ DOMAIN returns' = DOMAIN returns \cup {N}
      /\ returns'[N] = row
      /\ \A i \in DOMAIN returns : returns'[i] = returns[i]
      /\ row.key = key /\ row.bill = n /\ row.quantity = quantity
      /\ \A v \in Variants : row.amount[v] =
           IF quantity[v] = 0 THEN 0
           ELSE Share(old.cart.amount[v], Bought(n, v), quantity[v],
                      ReturnedAmount(n, v), ReturnedQuantity(n, v))
      /\ row.roundOff = IF Completes(n, quantity)
                        THEN old.cart.roundOff - PriorRoundOff(n) ELSE 0
      /\ row.total = SumFunction(row.amount) + row.roundOff
      /\ row.total > 0 /\ old.returned + row.total <= old.total
      /\ row.applied = Least(old.outstanding, row.total)
      /\ row.credit = row.total - row.applied
      /\ bill.status = "POSTED"
      /\ bill.postingKey = old.postingKey /\ bill.cancelKey = old.cancelKey
      /\ bill.paid = old.paid
      /\ bill.returned = old.returned + row.total
      /\ bill.outstanding = old.outstanding - row.applied
      /\ payments' = payments

\* A share of a value is an integer.
LEMMA ShareType ==
  ASSUME NEW value \in Int, NEW quantity \in Nat \ {0}, NEW q \in Nat,
         NEW priorValue \in Int, NEW priorQuantity
  PROVE  Share(value, quantity, q, priorValue, priorQuantity) \in Int
<1>1. value * q \in Int
  OBVIOUS
<1>2. \A a \in Int : HalfUp(a, quantity) \in Int
  BY DEF HalfUp
<1> QED
  BY <1>1, <1>2 DEF Share

\* What createReturn leaves behind: one more return, and the projections of its bill.
LEMMA ReturnShape ==
  ASSUME TypeInv, NEW key \in Keys, NEW n \in DOMAIN bills,
         NEW quantity \in [Variants -> Nat], CreateReturn(key, n, quantity)
  PROVE  \E row, bill, N : GoodsBack(key, n, quantity, row, bill, N)
<1> DEFINE old == bills[n]
           amount == [v \in Variants |->
                   IF quantity[v] = 0 THEN 0
                   ELSE Share(old.cart.amount[v], Bought(n, v), quantity[v],
                              ReturnedAmount(n, v), ReturnedQuantity(n, v))]
           lineTotal == SumOver(Variants, LAMBDA v : amount[v])
           roundOff == IF Completes(n, quantity)
                       THEN old.cart.roundOff - PriorRoundOff(n) ELSE 0
           total == lineTotal + roundOff
           applied == AppliedToPayable(old, total)
           credit == total - applied
           row == [key |-> key, bill |-> n, quantity |-> quantity,
                   amount |-> amount, roundOff |-> roundOff, total |-> total,
                   applied |-> applied, credit |-> credit]
           back == old.returned + total
           open == old.outstanding - applied
           bill == [old EXCEPT !.returned = back, !.outstanding = open]
<1>1. /\ ~ReturnKeyUsed(key) /\ old.status = "POSTED"
      /\ \A v \in Variants : quantity[v] > 0 => Bought(n, v) > 0
      /\ \A v \in Variants : quantity[v] <= Remaining(n, v)
      /\ RowsValid(old, quantity, amount, lineTotal, roundOff, total)
      /\ returns' = Append(returns, row)
      /\ bills' = [bills EXCEPT ![n] = bill]
      /\ payments' = payments
  BY DEF CreateReturn
<1>2. /\ bills \in Seq(Bill) /\ returns \in Seq(Return)
      /\ old \in Bill /\ n \in Nat \ {0}
      /\ \A v \in Variants : Bought(n, v) \in Nat
  BY RowTypes DEF TypeInv, TypeOK
<1>3. /\ old.total \in Nat /\ old.outstanding \in Nat /\ old.returned \in Nat
      /\ old.cart \in CartType
  BY <1>2, PurchasesAssumption DEF Bill
<1>4. amount \in [Variants -> Int]
  <2> SUFFICES ASSUME NEW v \in Variants, quantity[v] # 0
               PROVE  Share(old.cart.amount[v], Bought(n, v), quantity[v],
                            ReturnedAmount(n, v), ReturnedQuantity(n, v)) \in Int
    OBVIOUS
  <2>1. old.cart.amount[v] \in Int
    BY <1>3 DEF CartType
  <2>2. Bought(n, v) \in Nat \ {0}
    <3>1. quantity[v] > 0 => Bought(n, v) > 0
      BY <1>1, Zenon
    <3>2. quantity[v] > 0
      OBVIOUS
    <3>3. Bought(n, v) \in Nat
      BY <1>2
    <3> QED
      BY <3>1, <3>2, <3>3
  <2>3. ReturnedAmount(n, v) \in Int
    BY SMTT(60), PriorType
  <2> QED
    BY <2>1, <2>2, <2>3, ShareType
<1>5. /\ roundOff \in Int /\ total \in Nat /\ total > 0
      /\ old.returned + total <= old.total
  BY <1>1 DEF RowsValid
<1>6. /\ \A v \in Variants : amount[v] =
           IF quantity[v] = 0 THEN 0
           ELSE Share(old.cart.amount[v], Bought(n, v), quantity[v],
                      ReturnedAmount(n, v), ReturnedQuantity(n, v))
      /\ roundOff = IF Completes(n, quantity)
                    THEN old.cart.roundOff - PriorRoundOff(n) ELSE 0
  OBVIOUS
<1>7. total = SumFunction(amount) + roundOff
  <2>1. [v \in Variants |-> amount[v]] = amount
    BY <1>4
  <2>2. lineTotal = SumFunction([v \in Variants |-> amount[v]])
    BY DEF SumOver
  <2> HIDE DEF amount
  <2> QED
    BY <2>1, <2>2
<1> HIDE DEF amount, lineTotal, roundOff, total
<1>8. applied = Least(old.outstanding, total)
  BY DEF AppliedToPayable
<1>9. applied \in Nat /\ credit \in Nat /\ open \in Nat /\ back \in Nat
  BY <1>3, <1>5, <1>8 DEF Least
<1>10. credit = total - applied /\ back = old.returned + total
         /\ open = old.outstanding - applied
  OBVIOUS
<1> HIDE DEF applied, credit, back, open, old
<1>11. row \in Return
  BY <1>2, <1>4, <1>5, <1>9 DEF Return
<1>12. bill \in Bill
  BY <1>2, <1>9 DEF Bill
<1>13. /\ bill.supplier = old.supplier /\ bill.reference = old.reference
       /\ bill.cart = old.cart /\ bill.total = old.total
       /\ bill.status = old.status /\ bill.postingKey = old.postingKey
       /\ bill.cancelKey = old.cancelKey /\ bill.paid = old.paid
       /\ bill.returned = back /\ bill.outstanding = open
  BY <1>2 DEF Bill
<1>14. /\ row.key = key /\ row.bill = n /\ row.quantity = quantity
       /\ row.amount = amount /\ row.roundOff = roundOff /\ row.total = total
       /\ row.applied = applied /\ row.credit = credit
  OBVIOUS
<1> HIDE DEF row, bill
<1>15. BillChanged(n, bill)
  BY <1>1, <1>12, <1>13, BillChange DEF old
<1>16. PICK N \in Nat \ {0} :
         /\ N \notin DOMAIN returns
         /\ DOMAIN Append(returns, row) = DOMAIN returns \cup {N}
         /\ Append(returns, row)[N] = row
         /\ \A i \in DOMAIN returns : Append(returns, row)[i] = returns[i]
  BY <1>2, <1>11, RowAppended
<1>17. returns' \in Seq(Return)
  BY <1>1, <1>2, <1>11, RowAppended
<1>18. GoodsBack(key, n, quantity, row, bill, N)
  <2>1. /\ row.roundOff = IF Completes(n, quantity)
                          THEN bills[n].cart.roundOff - PriorRoundOff(n) ELSE 0
        /\ row.total = SumFunction(row.amount) + row.roundOff
        /\ row.total > 0 /\ bills[n].returned + row.total <= bills[n].total
        /\ row.applied = Least(bills[n].outstanding, row.total)
        /\ row.credit = row.total - row.applied
    BY <1>5, <1>6, <1>7, <1>8, <1>10, <1>14 DEF old
  <2>2. \A v \in Variants : row.amount[v] =
           IF quantity[v] = 0 THEN 0
           ELSE Share(bills[n].cart.amount[v], Bought(n, v), quantity[v],
                      ReturnedAmount(n, v), ReturnedQuantity(n, v))
    BY <1>6, <1>14 DEF old
  <2>3. /\ bill.status = "POSTED"
        /\ bill.postingKey = bills[n].postingKey
        /\ bill.cancelKey = bills[n].cancelKey
        /\ bill.paid = bills[n].paid
        /\ bill.returned = bills[n].returned + row.total
        /\ bill.outstanding = bills[n].outstanding - row.applied
    BY <1>1, <1>10, <1>13, <1>14 DEF old
  <2>4. /\ N \notin DOMAIN returns
        /\ DOMAIN returns' = DOMAIN returns \cup {N}
        /\ returns'[N] = row
        /\ \A i \in DOMAIN returns : returns'[i] = returns[i]
    BY <1>1, <1>16
  <2> QED
    BY <1>1, <1>11, <1>14, <1>15, <1>17, <2>1, <2>2, <2>3, <2>4 DEF GoodsBack, old
<1> QED
  BY <1>18

----------------------------------------------------------------------------
\* What a payment leaves behind: one more row, with number N, and every bill
\* that a part goes to with that part less to pay.
Paid(key, supplier, allocations, row, N) ==
  /\ ~PaymentKeyUsed(key)
  /\ \A m \in DOMAIN allocations :
       /\ m \in DOMAIN bills
       /\ allocations[m] \in Nat \ {0}
       /\ AllocationAllowed(supplier, m, allocations[m])
  /\ N \notin DOMAIN payments
  /\ payments' \in Seq(Payment) /\ row \in Payment
  /\ DOMAIN payments' = DOMAIN payments \cup {N}
  /\ payments'[N] = row
  /\ \A p \in DOMAIN payments : payments'[p] = payments[p]
  /\ row.key = key /\ row.supplier = supplier /\ row.allocations = allocations
  /\ bills' \in Seq(Bill)
  /\ DOMAIN bills' = DOMAIN bills
  /\ \A m \in DOMAIN bills :
       /\ bills'[m].supplier = bills[m].supplier
       /\ bills'[m].reference = bills[m].reference
       /\ bills'[m].cart = bills[m].cart
       /\ bills'[m].total = bills[m].total
       /\ bills'[m].status = bills[m].status
       /\ bills'[m].returned = bills[m].returned
       /\ bills'[m].postingKey = bills[m].postingKey
       /\ bills'[m].cancelKey = bills[m].cancelKey
       /\ bills'[m].paid =
            IF m \in DOMAIN allocations
            THEN bills[m].paid + allocations[m] ELSE bills[m].paid
       /\ bills'[m].outstanding =
            IF m \in DOMAIN allocations
            THEN bills[m].outstanding - allocations[m] ELSE bills[m].outstanding
  /\ UNCHANGED <<returns, movements, stock>>

\* What paySupplier leaves behind: one more payment, and its allocations on the bills.
LEMMA PaymentShape ==
  ASSUME TypeInv, NEW key \in Keys, NEW supplier \in Suppliers,
         NEW amount \in Amounts, NEW paid \in SUBSET DOMAIN bills,
         NEW allocations \in [paid -> Allotments],
         PaySupplier(key, supplier, amount, allocations)
  PROVE  \E row, N : Paid(key, supplier, allocations, row, N)
<1> DEFINE row == [key |-> key, supplier |-> supplier, amount |-> amount,
                   allocations |-> allocations]
           new(m) == IF m \in DOMAIN allocations
                     THEN [bills[m] EXCEPT
                             !.paid = bills[m].paid + allocations[m],
                             !.outstanding = bills[m].outstanding - allocations[m]]
                     ELSE bills[m]
<1>1. /\ ~PaymentKeyUsed(key)
      /\ \A m \in DOMAIN allocations :
           AllocationAllowed(supplier, m, allocations[m])
      /\ payments' = Append(payments, row)
      /\ bills' = [m \in DOMAIN bills |-> new(m)]
      /\ UNCHANGED <<returns, movements, stock>>
  BY DEF PaySupplier
<1>2. /\ bills \in Seq(Bill) /\ payments \in Seq(Payment)
      /\ \A m \in DOMAIN bills : bills[m] \in Bill
      /\ DOMAIN bills \subseteq Nat \ {0}
  BY RowTypes DEF TypeInv, TypeOK
<1>3. /\ DOMAIN allocations = paid
      /\ \A m \in paid : allocations[m] \in Nat \ {0}
  BY PurchasesAssumption
<1>4. row \in Payment
  <2>1. paid \in SUBSET (Nat \ {0})
    BY <1>2
  <2>2. allocations \in UNION {[s -> Allotments] : s \in SUBSET (Nat \ {0})}
    BY <2>1
  <2> QED
    BY <2>2 DEF Payment
<1>5. row.key = key /\ row.supplier = supplier /\ row.allocations = allocations
  OBVIOUS
<1>6. ASSUME NEW m \in DOMAIN bills
      PROVE  /\ new(m) \in Bill
             /\ new(m).supplier = bills[m].supplier
             /\ new(m).reference = bills[m].reference
             /\ new(m).cart = bills[m].cart
             /\ new(m).total = bills[m].total
             /\ new(m).status = bills[m].status
             /\ new(m).returned = bills[m].returned
             /\ new(m).postingKey = bills[m].postingKey
             /\ new(m).cancelKey = bills[m].cancelKey
             /\ new(m).paid =
                  IF m \in DOMAIN allocations
                  THEN bills[m].paid + allocations[m] ELSE bills[m].paid
             /\ new(m).outstanding =
                  IF m \in DOMAIN allocations
                  THEN bills[m].outstanding - allocations[m]
                  ELSE bills[m].outstanding
  <2> DEFINE old == bills[m]
             more == old.paid + allocations[m]
             open == old.outstanding - allocations[m]
             changed == [old EXCEPT !.paid = more, !.outstanding = open]
  <2>1. old \in Bill
    BY <1>2
  <2>2. CASE m \in DOMAIN allocations
    <3>1. more \in Nat /\ open \in Nat
      <4>1. allocations[m] <= old.outstanding /\ allocations[m] \in Nat
        BY <1>1, <1>3, <2>2 DEF AllocationAllowed
      <4>2. old.paid \in Nat /\ old.outstanding \in Nat
        BY <2>1 DEF Bill
      <4> QED
        BY <4>1, <4>2
    <3>2. new(m) = changed
      BY <2>2
    <3>3. more = bills[m].paid + allocations[m]
            /\ open = bills[m].outstanding - allocations[m]
      OBVIOUS
    <3> HIDE DEF new, old, more, open
    <3>4. changed \in Bill
      BY <2>1, <3>1 DEF Bill
    <3>5. /\ changed.supplier = old.supplier
          /\ changed.reference = old.reference
          /\ changed.cart = old.cart /\ changed.total = old.total
          /\ changed.status = old.status /\ changed.returned = old.returned
          /\ changed.postingKey = old.postingKey
          /\ changed.cancelKey = old.cancelKey
          /\ changed.paid = more /\ changed.outstanding = open
      BY <2>1 DEF Bill
    <3> HIDE DEF changed
    <3> QED
      BY <2>2, <3>2, <3>3, <3>4, <3>5 DEF old
  <2>3. CASE m \notin DOMAIN allocations
    <3>1. new(m) = bills[m]
      BY <2>3
    <3> HIDE DEF new
    <3> QED
      BY <2>1, <2>3, <3>1
  <2> QED
    BY <2>2, <2>3
<1>7. \A m \in DOMAIN bills : bills'[m] = new(m)
  BY <1>1
<1>8. bills' \in [DOMAIN bills -> Bill] /\ DOMAIN bills' = DOMAIN bills
  BY <1>1, <1>6
<1> HIDE DEF row, new
<1>9. bills' \in Seq(Bill)
  BY <1>2, <1>8, RowsRewritten
<1>10. PICK N \in Nat \ {0} :
         /\ N \notin DOMAIN payments
         /\ DOMAIN Append(payments, row) = DOMAIN payments \cup {N}
         /\ Append(payments, row)[N] = row
         /\ \A p \in DOMAIN payments : Append(payments, row)[p] = payments[p]
  BY <1>2, <1>4, RowAppended
<1>11. payments' \in Seq(Payment)
  BY <1>1, <1>2, <1>4, RowAppended
<1>12. /\ N \notin DOMAIN payments
       /\ DOMAIN payments' = DOMAIN payments \cup {N}
       /\ payments'[N] = row
       /\ \A p \in DOMAIN payments : payments'[p] = payments[p]
  BY <1>1, <1>10
<1>13. \A m \in DOMAIN allocations :
         /\ m \in DOMAIN bills
         /\ allocations[m] \in Nat \ {0}
         /\ AllocationAllowed(supplier, m, allocations[m])
  BY <1>1, <1>3
<1>14. Paid(key, supplier, allocations, row, N)
  BY <1>1, <1>4, <1>5, <1>6, <1>7, <1>8, <1>9, <1>11, <1>12, <1>13 DEF Paid
<1> QED
  BY <1>14

----------------------------------------------------------------------------
\* The operations with what they leave in the tables.
DraftStep ==
  \E supplier \in Suppliers, reference \in References, cart \in Carts : \E bill, N :
    Drafted(supplier, reference, cart, bill, N)
PostStep == \E key \in Keys, n \in DOMAIN bills : \E bill : Posted(key, n, bill)
CancelStep == \E key \in Keys, n \in DOMAIN bills : \E bill : Cancelled(key, n, bill)
ReturnStep ==
  \E key \in Keys, n \in DOMAIN bills, quantity \in [Variants -> Nat] : \E row, bill, N :
    GoodsBack(key, n, quantity, row, bill, N)
PayStep ==
  \E key \in Keys, supplier \in Suppliers : \E allocations, row, N :
    Paid(key, supplier, allocations, row, N)
SellStep == \E key \in Keys, v \in Tracked : SellElsewhere(key, v)

\* Every operation of the service is one of these shapes.
LEMMA OperationShapes ==
  ASSUME TypeInv, Operations
  PROVE  DraftStep \/ PostStep \/ CancelStep \/ ReturnStep \/ PayStep
<1>1. ASSUME NEW supplier \in Suppliers, NEW reference \in References,
             NEW cart \in Carts, CreateDraft(supplier, reference, cart)
      PROVE  DraftStep
  BY <1>1, DraftShape DEF DraftStep
<1>2. ASSUME NEW key \in Keys, NEW n \in DOMAIN bills, PostBill(key, n)
      PROVE  PostStep
  BY <1>2, PostShape DEF PostStep
<1>3. ASSUME NEW key \in Keys, NEW n \in DOMAIN bills, CancelBill(key, n)
      PROVE  CancelStep
  BY <1>3, CancelShape DEF CancelStep
<1>4. ASSUME NEW key \in Keys, NEW n \in DOMAIN bills, NEW basket \in Baskets,
             CreateReturn(key, n, basket)
      PROVE  ReturnStep
  <2>1. basket \in [Variants -> Nat]
    BY PurchasesAssumption
  <2>2. \E row, bill, N : GoodsBack(key, n, basket, row, bill, N)
    BY <1>4, <2>1, ReturnShape
  <2> QED
    BY <2>1, <2>2 DEF ReturnStep
<1>5. ASSUME NEW key \in Keys, NEW supplier \in Suppliers, NEW amount \in Amounts,
             NEW paid \in SUBSET DOMAIN bills \ {{}},
             NEW allocations \in [paid -> Allotments],
             PaySupplier(key, supplier, amount, allocations)
      PROVE  PayStep
  <2>1. paid \in SUBSET DOMAIN bills
    OBVIOUS
  <2>2. \E row, N : Paid(key, supplier, allocations, row, N)
    BY <1>5, <2>1, PaymentShape
  <2> QED
    BY <2>2 DEF PayStep
<1> QED
  BY <1>1, <1>2, <1>3, <1>4, <1>5 DEF Operations

\* Every step is one of these or a sale elsewhere.
LEMMA StepShapes ==
  ASSUME TypeInv, Next
  PROVE  \/ DraftStep \/ PostStep \/ CancelStep
         \/ ReturnStep \/ PayStep \/ SellStep
BY OperationShapes DEF Next, SellStep

----------------------------------------------------------------------------
\* The rows of a document are movements under its key.
LEMMA RowsType ==
  ASSUME NEW key \in Keys, NEW kind \in Ledger!Kinds,
         NEW delta \in [Variants -> Int]
  PROVE  /\ Ledger!Rows(key, kind, delta) \subseteq Ledger!Movements
         /\ \A m \in Ledger!Rows(key, kind, delta) : m.key = key /\ m.kind = kind
<1> SUFFICES ASSUME NEW v \in Variants, delta[v] # 0
             PROVE  [key |-> key, kind |-> kind, variant |-> v,
                     quantity |-> delta[v]] \in Ledger!Movements
  BY DEF Ledger!Rows
<1>1. delta[v] \in Int \ {0}
  OBVIOUS
<1> HIDE DEF Ledger!Kinds
<1> QED
  BY <1>1 DEF Ledger!Movements

\* A document posts movements that leave no balance below zero.
Moved(key, kind, delta) ==
  /\ kind \in Ledger!Kinds
  /\ delta \in [Variants -> Int]
  /\ \A v \in Variants : stock[v] + delta[v] \in Nat
  /\ PostMovements(key, kind, delta)

\* Receipts add to the stock, and what is taken is there.
LEMMA GoodsMoved ==
  ASSUME TypeInv, NEW quantity \in [Variants -> Nat]
  PROVE  /\ Goods(quantity) \in [Variants -> Int]
         /\ \A v \in Variants : stock[v] + Goods(quantity)[v] \in Nat
         /\ Minus(Goods(quantity)) \in [Variants -> Int]
         /\ StockSuffices(quantity) =>
              \A v \in Variants : stock[v] + Minus(Goods(quantity))[v] \in Nat
<1>1. stock \in [Variants -> Nat]
  BY DEF TypeInv
<1>2. /\ Goods(quantity) \in [Variants -> Int]
      /\ \A v \in Variants :
           Goods(quantity)[v] = IF v \in Tracked THEN quantity[v] ELSE 0
  BY DEF Goods
<1>3. /\ Minus(Goods(quantity)) \in [Variants -> Int]
      /\ \A v \in Variants : Minus(Goods(quantity))[v] = -Goods(quantity)[v]
  BY <1>2 DEF Minus
<1>4. ASSUME NEW v \in Variants
      PROVE  stock[v] + Goods(quantity)[v] \in Nat
  BY <1>1, <1>2
<1>5. ASSUME StockSuffices(quantity), NEW v \in Variants
      PROVE  stock[v] + Minus(Goods(quantity))[v] \in Nat
  <2>1. v \in Tracked => quantity[v] <= stock[v]
    BY <1>5 DEF StockSuffices
  <2>2. Minus(Goods(quantity))[v] = IF v \in Tracked THEN -quantity[v] ELSE 0
    BY <1>2, <1>3
  <2>3. stock[v] \in Nat /\ quantity[v] \in Nat
    BY <1>1
  <2> QED
    BY <2>1, <2>2, <2>3
<1> QED
  BY <1>2, <1>3, <1>4, <1>5

\* The quantities of a bill are naturals.
LEMMA CartQuantity ==
  ASSUME TypeInv, NEW n \in DOMAIN bills
  PROVE  bills[n].cart.quantity \in [Variants -> Nat]
<1>1. bills[n] \in Bill
  BY RowTypes
<1> QED
  BY <1>1, PurchasesAssumption DEF Bill, CartType

\* postBill moves in what the bill lists.
LEMMA PostMoves ==
  ASSUME TypeInv, NEW key \in Keys, NEW n \in DOMAIN bills, PostBill(key, n)
  PROVE  Moved(key, "PURCHASE_RECEIPT", Goods(bills[n].cart.quantity))
<1>1. PostMovements(key, "PURCHASE_RECEIPT", Goods(bills[n].cart.quantity))
  BY DEF PostBill
<1> QED
  BY <1>1, CartQuantity, GoodsMoved DEF Moved, Ledger!Kinds

\* cancelBill moves out what the bill listed.
LEMMA CancelMoves ==
  ASSUME TypeInv, NEW key \in Keys, NEW n \in DOMAIN bills, CancelBill(key, n)
  PROVE  Moved(key, "REVERSAL", Minus(Goods(bills[n].cart.quantity)))
<1>1. /\ PostMovements(key, "REVERSAL", Minus(Goods(bills[n].cart.quantity)))
      /\ StockSuffices(bills[n].cart.quantity)
  BY DEF CancelBill
<1> QED
  BY <1>1, CartQuantity, GoodsMoved DEF Moved, Ledger!Kinds

\* createReturn moves out what is returned.
LEMMA ReturnMoves ==
  ASSUME TypeInv, NEW key \in Keys, NEW n \in DOMAIN bills,
         NEW quantity \in [Variants -> Nat], CreateReturn(key, n, quantity)
  PROVE  Moved(key, "PURCHASE_RETURN", Minus(Goods(quantity)))
<1>1. /\ PostMovements(key, "PURCHASE_RETURN", Minus(Goods(quantity)))
      /\ StockSuffices(quantity)
  BY DEF CreateReturn
<1> QED
  BY <1>1, GoodsMoved DEF Moved, Ledger!Kinds

\* A sale elsewhere moves one unit out.
LEMMA SellMoves ==
  ASSUME TypeInv, NEW key \in Keys, NEW v \in Tracked, SellElsewhere(key, v)
  PROVE  Moved(key, "SALE_ISSUE", [w \in Variants |-> IF w = v THEN -1 ELSE 0])
<1> DEFINE one == [w \in Variants |-> IF w = v THEN -1 ELSE 0]
<1>1. PostMovements(key, "SALE_ISSUE", one) /\ stock[v] > 0
  BY DEF SellElsewhere
<1>2. stock \in [Variants -> Nat]
  BY DEF TypeInv
<1>3. \A w \in Variants : stock[w] + one[w] \in Nat
  BY <1>1, <1>2
<1>4. one \in [Variants -> Int]
  OBVIOUS
<1> HIDE DEF one
<1>5. Moved(key, "SALE_ISSUE", one)
  BY <1>1, <1>3, <1>4 DEF Moved, Ledger!Kinds
<1> QED
  BY <1>5 DEF one

\* A key that an operation has used stays used.
LEMMA KeysStay ==
  ASSUME TypeInv, Stamped, Next, NEW key \in Keys
  PROVE  /\ PostingKeyUsed(key) => PostingKeyUsed(key)'
         /\ CancelKeyUsed(key) => CancelKeyUsed(key)'
         /\ ReturnKeyUsed(key) => ReturnKeyUsed(key)'
<1>0. /\ \/ DraftStep \/ PostStep \/ CancelStep
         \/ ReturnStep \/ PayStep \/ SellStep
      /\ key # None
  BY StepShapes, PurchasesAssumption
<1>1. CASE DraftStep
  BY <1>1 DEF DraftStep, Drafted, PostingKeyUsed, CancelKeyUsed, ReturnKeyUsed
<1>2. CASE PostStep
  <2>1. PICK k, n, bill :
             /\ k \in Keys /\ n \in DOMAIN bills
             /\ Posted(k, n, bill)
    BY <1>2 DEF PostStep
  <2>2. bills[n].postingKey # key
    BY <1>0, <2>1 DEF Posted, Stamped
  <2>3. /\ DOMAIN bills' = DOMAIN bills /\ returns' = returns
        /\ \A m \in DOMAIN bills : bills'[m].cancelKey = bills[m].cancelKey
        /\ \A m \in DOMAIN bills \ {n} : bills'[m] = bills[m]
    BY <2>1 DEF Posted, BillChanged
  <2> QED
    BY <2>2, <2>3 DEF PostingKeyUsed, CancelKeyUsed, ReturnKeyUsed
<1>3. CASE CancelStep
  <2>1. PICK k, n, bill :
             /\ k \in Keys /\ n \in DOMAIN bills
             /\ Cancelled(k, n, bill)
    BY <1>3 DEF CancelStep
  <2>2. bills[n].cancelKey # key
    BY <1>0, <2>1 DEF Cancelled, Stamped
  <2>3. /\ DOMAIN bills' = DOMAIN bills /\ returns' = returns
        /\ \A m \in DOMAIN bills : bills'[m].postingKey = bills[m].postingKey
        /\ \A m \in DOMAIN bills \ {n} : bills'[m] = bills[m]
    BY <2>1 DEF Cancelled, BillChanged
  <2> QED
    BY <2>2, <2>3 DEF PostingKeyUsed, CancelKeyUsed, ReturnKeyUsed
<1>4. CASE ReturnStep
  <2>1. PICK k, n, quantity, row, bill, N :
             /\ k \in Keys /\ n \in DOMAIN bills /\ quantity \in [Variants -> Nat]
             /\ GoodsBack(k, n, quantity, row, bill, N)
    BY <1>4 DEF ReturnStep
  <2>2. /\ DOMAIN bills' = DOMAIN bills
        /\ \A m \in DOMAIN bills : /\ bills'[m].postingKey = bills[m].postingKey
                                   /\ bills'[m].cancelKey = bills[m].cancelKey
        /\ DOMAIN returns \subseteq DOMAIN returns'
        /\ \A i \in DOMAIN returns : returns'[i] = returns[i]
    BY <2>1 DEF GoodsBack, BillChanged
  <2> QED
    BY <2>2 DEF PostingKeyUsed, CancelKeyUsed, ReturnKeyUsed
<1>5. CASE PayStep
  BY <1>5 DEF PayStep, Paid, PostingKeyUsed, CancelKeyUsed, ReturnKeyUsed
<1>6. CASE SellStep
  BY <1>6 DEF SellStep, SellElsewhere, PostingKeyUsed, CancelKeyUsed, ReturnKeyUsed
<1> QED
  BY <1>0, <1>1, <1>2, <1>3, <1>4, <1>5, <1>6

\* A step that moves goods does so under a key that no movement of its kind
\* has, and leaves a document that has it.
FreshMove(key, kind, delta) ==
  /\ Moved(key, kind, delta)
  /\ \A m \in movements : ~(m.key = key /\ m.kind = kind)
  /\ kind = "PURCHASE_RECEIPT" => PostingKeyUsed(key)'
  /\ kind = "REVERSAL" => CancelKeyUsed(key)'
  /\ kind = "PURCHASE_RETURN" => ReturnKeyUsed(key)'

\* A posting is such a step.
LEMMA PostIsFresh ==
  ASSUME TypeInv, Documented, NEW key \in Keys, NEW n \in DOMAIN bills, NEW bill,
         Posted(key, n, bill)
  PROVE  FreshMove(key, "PURCHASE_RECEIPT", Goods(bills[n].cart.quantity))
<1>1. Moved(key, "PURCHASE_RECEIPT", Goods(bills[n].cart.quantity))
  BY PostMoves DEF Posted
<1>2. \A m \in movements : ~(m.key = key /\ m.kind = "PURCHASE_RECEIPT")
  BY DEF Posted, Documented
<1>3. PostingKeyUsed(key)'
  BY DEF Posted, BillChanged, PostingKeyUsed
<1> QED
  BY <1>1, <1>2, <1>3 DEF FreshMove

\* So is a cancellation.
LEMMA CancelIsFresh ==
  ASSUME TypeInv, Documented, NEW key \in Keys, NEW n \in DOMAIN bills, NEW bill,
         Cancelled(key, n, bill)
  PROVE  FreshMove(key, "REVERSAL", Minus(Goods(bills[n].cart.quantity)))
<1>1. Moved(key, "REVERSAL", Minus(Goods(bills[n].cart.quantity)))
  BY CancelMoves DEF Cancelled
<1>2. \A m \in movements : ~(m.key = key /\ m.kind = "REVERSAL")
  BY DEF Cancelled, Documented
<1>3. CancelKeyUsed(key)'
  BY DEF Cancelled, BillChanged, CancelKeyUsed
<1> QED
  BY <1>1, <1>2, <1>3 DEF FreshMove

\* And a return.
LEMMA ReturnIsFresh ==
  ASSUME TypeInv, Documented, NEW key \in Keys, NEW n \in DOMAIN bills,
         NEW quantity \in [Variants -> Nat], NEW row, NEW bill, NEW N,
         GoodsBack(key, n, quantity, row, bill, N)
  PROVE  FreshMove(key, "PURCHASE_RETURN", Minus(Goods(quantity)))
<1>1. Moved(key, "PURCHASE_RETURN", Minus(Goods(quantity)))
  BY ReturnMoves DEF GoodsBack
<1>2. \A m \in movements : ~(m.key = key /\ m.kind = "PURCHASE_RETURN")
  BY DEF GoodsBack, Documented
<1>3. ReturnKeyUsed(key)'
  BY DEF GoodsBack, ReturnKeyUsed
<1> QED
  BY <1>1, <1>2, <1>3 DEF FreshMove

\* A step leaves the stock alone or moves it by one document whose rows are new.
LEMMA StockSteps ==
  ASSUME TypeInv, Documented, Next
  PROVE  \/ UNCHANGED <<movements, stock>>
         \/ \E key \in Keys : \E kind, delta : FreshMove(key, kind, delta)
<1>0. \/ DraftStep \/ PostStep \/ CancelStep
      \/ ReturnStep \/ PayStep \/ SellStep
  BY StepShapes
<1>1. CASE DraftStep
  BY <1>1 DEF DraftStep, Drafted
<1>2. CASE PostStep
  BY <1>2, PostIsFresh DEF PostStep
<1>3. CASE CancelStep
  BY <1>3, CancelIsFresh DEF CancelStep
<1>4. CASE ReturnStep
  BY <1>4, ReturnIsFresh DEF ReturnStep
<1>5. CASE PayStep
  BY <1>5 DEF PayStep, Paid
<1>6. ASSUME NEW key \in Keys, NEW v \in Tracked, SellElsewhere(key, v)
      PROVE  FreshMove(key, "SALE_ISSUE", [w \in Variants |-> IF w = v THEN -1 ELSE 0])
  <2>1. \A m \in movements : ~(m.key = key /\ m.kind = "SALE_ISSUE")
    BY <1>6 DEF SellElsewhere
  <2> QED
    BY <1>6, <2>1, SellMoves DEF FreshMove
<1> QED
  BY <1>0, <1>1, <1>2, <1>3, <1>4, <1>5, <1>6 DEF SellStep

----------------------------------------------------------------------------
\* The tables keep their types, and no balance goes below zero.
LEMMA StockTypes ==
  ASSUME TypeInv, Documented, Next
  PROVE  movements' \subseteq Ledger!Movements /\ stock' \in [Variants -> Nat]
<1>0. movements \subseteq Ledger!Movements /\ stock \in [Variants -> Nat]
  BY DEF TypeInv, TypeOK
<1>1. CASE UNCHANGED <<movements, stock>>
  BY <1>0, <1>1
<1>2. ASSUME NEW key \in Keys, NEW kind, NEW delta, FreshMove(key, kind, delta)
      PROVE  movements' \subseteq Ledger!Movements /\ stock' \in [Variants -> Nat]
  <2>1. /\ kind \in Ledger!Kinds /\ delta \in [Variants -> Int]
        /\ \A v \in Variants : stock[v] + delta[v] \in Nat
        /\ movements' = movements \cup Ledger!Rows(key, kind, delta)
        /\ stock' = [v \in Variants |-> stock[v] + delta[v]]
    BY <1>2 DEF FreshMove, Moved, PostMovements
  <2>2. Ledger!Rows(key, kind, delta) \subseteq Ledger!Movements
    BY <2>1, RowsType
  <2> QED
    BY <1>0, <2>1, <2>2
<1> QED
  BY <1>1, <1>2, StockSteps

\* Each operation keeps the types.
LEMMA TypeStep ==
  ASSUME TypeInv, Documented, Next
  PROVE  TypeInv'
<1>0. /\ bills \in Seq(Bill) /\ returns \in Seq(Return) /\ payments \in Seq(Payment)
      /\ \A i \in DOMAIN returns : returns[i].bill \in DOMAIN bills
      /\ \A p \in DOMAIN payments :
           /\ payments[p] \in Payment
           /\ DOMAIN payments[p].allocations \subseteq DOMAIN bills
  BY RowTypes DEF TypeInv, TypeOK
<1> DEFINE Typed == /\ bills' \in Seq(Bill)
                    /\ returns' \in Seq(Return)
                    /\ payments' \in Seq(Payment)
                    /\ \A i \in DOMAIN returns' : returns'[i].bill \in DOMAIN bills'
                    /\ \A p \in DOMAIN payments' :
                         /\ payments'[p] \in Payment
                         /\ DOMAIN payments'[p].allocations \subseteq DOMAIN bills'
<1>1. DraftStep => Typed
  BY <1>0 DEF DraftStep, Drafted
<1>2. PostStep => Typed
  BY <1>0 DEF PostStep, Posted, BillChanged
<1>3. CancelStep => Typed
  BY <1>0 DEF CancelStep, Cancelled, BillChanged
<1>4. ASSUME ReturnStep
      PROVE  Typed
  <2>1. PICK key, n, quantity, row, bill, N :
             /\ key \in Keys /\ n \in DOMAIN bills /\ quantity \in [Variants -> Nat]
             /\ GoodsBack(key, n, quantity, row, bill, N)
    BY <1>4 DEF ReturnStep
  <2>2. /\ bills' \in Seq(Bill) /\ DOMAIN bills' = DOMAIN bills
        /\ returns' \in Seq(Return) /\ payments' = payments
        /\ DOMAIN returns' = DOMAIN returns \cup {N}
        /\ returns'[N].bill = n
        /\ \A i \in DOMAIN returns : returns'[i] = returns[i]
    BY <2>1 DEF GoodsBack, BillChanged
  <2> QED
    BY <1>0, <2>1, <2>2
<1>5. ASSUME PayStep
      PROVE  Typed
  <2>1. PICK key, supplier, allocations, row, N :
             /\ key \in Keys /\ supplier \in Suppliers
             /\ Paid(key, supplier, allocations, row, N)
    BY <1>5 DEF PayStep
  <2>2. /\ bills' \in Seq(Bill) /\ DOMAIN bills' = DOMAIN bills
        /\ returns' = returns /\ payments' \in Seq(Payment)
        /\ DOMAIN payments' = DOMAIN payments \cup {N}
        /\ payments'[N] \in Payment
        /\ DOMAIN payments'[N].allocations \subseteq DOMAIN bills
        /\ \A p \in DOMAIN payments : payments'[p] = payments[p]
    BY <2>1 DEF Paid
  <2> QED
    BY <1>0, <2>2
<1>6. SellStep => Typed
  BY <1>0 DEF SellStep, SellElsewhere
<1>7. Typed
  BY <1>1, <1>2, <1>3, <1>4, <1>5, <1>6, StepShapes
<1>8. \A p \in DOMAIN payments' : /\ payments'[p].key \in Keys
                                  /\ payments'[p].supplier \in Suppliers
                                  /\ payments'[p].amount \in Amounts
  BY <1>7 DEF Payment
<1>9. stock' \in [Variants -> Int]
  BY StockTypes
<1> QED
  BY <1>7, <1>8, <1>9, StockTypes DEF TypeInv, TypeOK

\* A key is stamped on a bill by the operation that it names.
LEMMA StampedStep ==
  ASSUME TypeInv, Stamped, Next
  PROVE  Stamped'
<1>1. CASE DraftStep
  BY <1>1 DEF DraftStep, Drafted, Stamped
<1>2. CASE PostStep
  <2>1. PICK k, n, bill :
             /\ k \in Keys /\ n \in DOMAIN bills
             /\ Posted(k, n, bill)
    BY <1>2 DEF PostStep
  <2>2. /\ DOMAIN bills' = DOMAIN bills /\ bills'[n] = bill
        /\ \A m \in DOMAIN bills \ {n} : bills'[m] = bills[m]
        /\ bill.status = "POSTED" /\ bill.cancelKey = None
    BY <2>1 DEF Posted, BillChanged, Stamped
  <2> QED
    BY <2>2 DEF Stamped
<1>3. CASE CancelStep
  <2>1. PICK k, n, bill :
             /\ k \in Keys /\ n \in DOMAIN bills
             /\ Cancelled(k, n, bill)
    BY <1>3 DEF CancelStep
  <2>2. /\ DOMAIN bills' = DOMAIN bills /\ bills'[n] = bill
        /\ \A m \in DOMAIN bills \ {n} : bills'[m] = bills[m]
        /\ bill.status = "CANCELLED"
    BY <2>1 DEF Cancelled, BillChanged
  <2> QED
    BY <2>2 DEF Stamped
<1>4. CASE ReturnStep
  <2>1. PICK key, n, quantity, row, bill, N :
             /\ key \in Keys /\ n \in DOMAIN bills /\ quantity \in [Variants -> Nat]
             /\ GoodsBack(key, n, quantity, row, bill, N)
    BY <1>4 DEF ReturnStep
  <2>2. /\ DOMAIN bills' = DOMAIN bills
        /\ \A m \in DOMAIN bills : /\ bills'[m].status = bills[m].status
                                   /\ bills'[m].postingKey = bills[m].postingKey
                                   /\ bills'[m].cancelKey = bills[m].cancelKey
    BY SMTT(60), <2>1 DEF GoodsBack, BillChanged
  <2> QED
    BY <2>2 DEF Stamped
<1>5. CASE PayStep
  BY <1>5 DEF PayStep, Paid, Stamped
<1>6. CASE SellStep
  BY <1>6 DEF SellStep, SellElsewhere, Stamped
<1> QED
  BY <1>1, <1>2, <1>3, <1>4, <1>5, <1>6, StepShapes

\* So every movement keeps its document.
LEMMA DocumentedStep ==
  ASSUME TypeInv, Stamped, Documented, Next
  PROVE  Documented'
<1>0. movements \subseteq Ledger!Movements
  BY DEF TypeInv, TypeOK
<1>1. ASSUME NEW m \in movements
      PROVE  /\ m.kind = "PURCHASE_RECEIPT" => PostingKeyUsed(m.key)'
             /\ m.kind = "REVERSAL" => CancelKeyUsed(m.key)'
             /\ m.kind = "PURCHASE_RETURN" => ReturnKeyUsed(m.key)'
  <2>1. m.key \in Keys
    BY <1>0 DEF Ledger!Movements
  <2> QED
    BY <2>1, KeysStay DEF Documented
<1>2. CASE UNCHANGED <<movements, stock>>
  BY <1>1, <1>2 DEF Documented, PostingKeyUsed, CancelKeyUsed, ReturnKeyUsed
<1>3. ASSUME NEW key \in Keys, NEW kind, NEW delta, FreshMove(key, kind, delta)
      PROVE  Documented'
  <2>1. /\ movements' = movements \cup Ledger!Rows(key, kind, delta)
        /\ \A m \in Ledger!Rows(key, kind, delta) : m.key = key /\ m.kind = kind
    BY <1>3, RowsType DEF FreshMove, Moved, PostMovements
  <2>2. /\ kind = "PURCHASE_RECEIPT" => PostingKeyUsed(key)'
        /\ kind = "REVERSAL" => CancelKeyUsed(key)'
        /\ kind = "PURCHASE_RETURN" => ReturnKeyUsed(key)'
    BY <1>3 DEF FreshMove
  <2>3. ASSUME NEW m \in movements'
        PROVE  /\ m.kind = "PURCHASE_RECEIPT" => PostingKeyUsed(m.key)'
               /\ m.kind = "REVERSAL" => CancelKeyUsed(m.key)'
               /\ m.kind = "PURCHASE_RETURN" => ReturnKeyUsed(m.key)'
    <3>1. CASE m \in movements
      BY <1>1, <3>1
    <3>2. CASE m \in Ledger!Rows(key, kind, delta)
      <4>1. m.key = key /\ m.kind = kind
        BY <2>1, <3>2
      <4> QED
        BY <2>2, <4>1
    <3> QED
      BY <2>1, <3>1, <3>2
  <2> QED
    BY <2>3 DEF Documented, PostingKeyUsed, CancelKeyUsed, ReturnKeyUsed
<1> QED
  BY <1>2, <1>3, StockSteps

\* No key and no supplier invoice is applied twice.
LEMMA AppliedStep ==
  ASSUME TypeInv, AppliedOnce, Next
  PROVE  AppliedOnce'
<1>0. None \notin Keys
  BY PurchasesAssumption
<1> DEFINE Bills == \A m, n \in DOMAIN bills : m # n =>
              /\ bills[m].supplier = bills[n].supplier =>
                   bills[m].reference # bills[n].reference
              /\ bills[m].postingKey = bills[n].postingKey => bills[m].postingKey = None
              /\ bills[m].cancelKey = bills[n].cancelKey => bills[m].cancelKey = None
           Returns == \A i, j \in DOMAIN returns : returns[i].key = returns[j].key => i = j
           Payments == \A p, q \in DOMAIN payments :
                         payments[p].key = payments[q].key => p = q
<1>a. AppliedOnce <=> Bills /\ Returns /\ Payments
  BY DEF AppliedOnce
<1>b. AppliedOnce' <=> Bills' /\ Returns' /\ Payments'
  BY DEF AppliedOnce
<1>1. CASE DraftStep
  <2>1. PICK supplier, reference, cart, bill, N :
             /\ supplier \in Suppliers /\ reference \in References /\ cart \in Carts
             /\ Drafted(supplier, reference, cart, bill, N)
    BY <1>1 DEF DraftStep
  <2>2. /\ N \notin DOMAIN bills /\ DOMAIN bills' = DOMAIN bills \cup {N}
        /\ bills'[N] = bill
        /\ \A m \in DOMAIN bills : bills'[m] = bills[m]
        /\ bill.postingKey = None /\ bill.cancelKey = None
        /\ \A m \in DOMAIN bills : bills[m].supplier = bill.supplier =>
             bills[m].reference # bill.reference
    BY <2>1 DEF Drafted, ReferenceFree
  <2>3. Bills'
    BY <1>a, <2>2
  <2>4. UNCHANGED <<returns, payments>>
    BY <2>1 DEF Drafted
  <2> HIDE DEF Bills
  <2> QED
    BY <1>a, <1>b, <2>3, <2>4
<1>2. CASE PostStep
  <2>1. PICK key, n, bill :
             /\ key \in Keys /\ n \in DOMAIN bills
             /\ Posted(key, n, bill)
    BY <1>2 DEF PostStep
  <2>2. /\ DOMAIN bills' = DOMAIN bills /\ bills'[n] = bill
        /\ \A m \in DOMAIN bills \ {n} : bills'[m] = bills[m]
        /\ bill.supplier = bills[n].supplier /\ bill.reference = bills[n].reference
        /\ bill.cancelKey = bills[n].cancelKey
        /\ \A m \in DOMAIN bills : bills[m].postingKey # bill.postingKey
    BY <2>1 DEF Posted, BillChanged, PostingKeyUsed
  <2>3. Bills'
    BY <1>a, <2>2
  <2>4. UNCHANGED <<returns, payments>>
    BY <2>1 DEF Posted
  <2> HIDE DEF Bills
  <2> QED
    BY <1>a, <1>b, <2>3, <2>4
<1>3. CASE CancelStep
  <2>1. PICK key, n, bill :
             /\ key \in Keys /\ n \in DOMAIN bills
             /\ Cancelled(key, n, bill)
    BY <1>3 DEF CancelStep
  <2>2. /\ DOMAIN bills' = DOMAIN bills /\ bills'[n] = bill
        /\ \A m \in DOMAIN bills \ {n} : bills'[m] = bills[m]
        /\ bill.supplier = bills[n].supplier /\ bill.reference = bills[n].reference
        /\ bill.postingKey = bills[n].postingKey
        /\ \A m \in DOMAIN bills : bills[m].cancelKey # bill.cancelKey
    BY <2>1 DEF Cancelled, BillChanged, CancelKeyUsed
  <2>3. Bills'
    BY <1>a, <2>2
  <2>4. UNCHANGED <<returns, payments>>
    BY <2>1 DEF Cancelled
  <2> HIDE DEF Bills
  <2> QED
    BY <1>a, <1>b, <2>3, <2>4
<1>4. CASE ReturnStep
  <2>1. PICK key, n, quantity, row, bill, N :
             /\ key \in Keys /\ n \in DOMAIN bills /\ quantity \in [Variants -> Nat]
             /\ GoodsBack(key, n, quantity, row, bill, N)
    BY <1>4 DEF ReturnStep
  <2>2. /\ DOMAIN bills' = DOMAIN bills
        /\ \A m \in DOMAIN bills : /\ bills'[m].supplier = bills[m].supplier
                                   /\ bills'[m].reference = bills[m].reference
                                   /\ bills'[m].postingKey = bills[m].postingKey
                                   /\ bills'[m].cancelKey = bills[m].cancelKey
    BY SMTT(60), <2>1 DEF GoodsBack, BillChanged
  <2>3. Bills'
    BY <1>a, <2>2
  <2>4. /\ N \notin DOMAIN returns /\ DOMAIN returns' = DOMAIN returns \cup {N}
        /\ \A i \in DOMAIN returns : returns'[i] = returns[i]
        /\ \A i \in DOMAIN returns : returns[i].key # returns'[N].key
    BY <2>1 DEF GoodsBack, ReturnKeyUsed
  <2>5. Returns'
    BY <1>a, <2>4
  <2>6. payments' = payments
    BY <2>1 DEF GoodsBack
  <2> HIDE DEF Bills, Returns
  <2> QED
    BY <1>a, <1>b, <2>3, <2>5, <2>6
<1>5. CASE PayStep
  <2>1. PICK key, supplier, allocations, row, N :
             /\ key \in Keys /\ supplier \in Suppliers
             /\ Paid(key, supplier, allocations, row, N)
    BY <1>5 DEF PayStep
  <2>2. /\ DOMAIN bills' = DOMAIN bills
        /\ \A m \in DOMAIN bills : /\ bills'[m].supplier = bills[m].supplier
                                   /\ bills'[m].reference = bills[m].reference
                                   /\ bills'[m].postingKey = bills[m].postingKey
                                   /\ bills'[m].cancelKey = bills[m].cancelKey
    BY <2>1 DEF Paid
  <2>3. Bills'
    BY <1>a, <2>2
  <2>4. /\ N \notin DOMAIN payments /\ DOMAIN payments' = DOMAIN payments \cup {N}
        /\ \A p \in DOMAIN payments : payments'[p] = payments[p]
        /\ \A p \in DOMAIN payments : payments[p].key # payments'[N].key
    BY <2>1 DEF Paid, PaymentKeyUsed
  <2>5. Payments'
    BY <1>a, <2>4
  <2>6. returns' = returns
    BY <2>1 DEF Paid
  <2> HIDE DEF Bills, Payments
  <2> QED
    BY <1>a, <1>b, <2>3, <2>5, <2>6
<1>6. CASE SellStep
  BY <1>6 DEF SellStep, SellElsewhere, AppliedOnce
<1> QED
  BY <1>1, <1>2, <1>3, <1>4, <1>5, <1>6, StepShapes

----------------------------------------------------------------------------
\* A step that adds no return leaves every column alone.
LEMMA ColumnsStay ==
  ASSUME returns' = returns
  PROVE  /\ \A n, v : ReturnedQuantity(n, v)' = ReturnedQuantity(n, v)
         /\ \A n, v : ReturnedAmount(n, v)' = ReturnedAmount(n, v)
         /\ \A n : PriorRoundOff(n)' = PriorRoundOff(n)
         /\ \A n : TotalOf(n)' = TotalOf(n)
         /\ \A n : CreditOf(n)' = CreditOf(n)
BY DEF ReturnedQuantity, ReturnedAmount, PriorRoundOff, TotalOf, CreditOf,
       SumOver, ReturnsOf

\* Nothing of a new bill has come back.
LEMMA ColumnsOfNew ==
  ASSUME TypeInv, NEW n, n \notin DOMAIN bills
  PROVE  /\ \A v : ReturnedQuantity(n, v) = 0
         /\ \A v : ReturnedAmount(n, v) = 0
         /\ PriorRoundOff(n) = 0
         /\ TotalOf(n) = 0
         /\ CreditOf(n) = 0
<1>1. ReturnsOf(n) = {}
  BY DEF TypeInv, TypeOK, ReturnsOf
<1>2. \A column : Of(n, column) = 0
  BY <1>1, OfNone
<1>3. \A v : ReturnedQuantity(n, v) = 0
  BY <1>2, ColumnSums DEF ColumnsAddUp
<1>4. \A v : ReturnedAmount(n, v) = 0
  BY <1>2, ColumnSums DEF ColumnsAddUp
<1>5. PriorRoundOff(n) = 0 /\ TotalOf(n) = 0 /\ CreditOf(n) = 0
  BY <1>2, ColumnSums DEF ColumnsAddUp
<1> QED
  BY <1>3, <1>4, <1>5

\* The columns as the arithmetic below wants them.
LEMMA TypedColumns ==
  TypeInv =>
    /\ \A v \in Variants : Quantities(v) \in [DOMAIN returns -> Int]
    /\ \A v \in Variants : Values(v) \in [DOMAIN returns -> Int]
    /\ RoundOffs \in [DOMAIN returns -> Int]
    /\ Totals \in [DOMAIN returns -> Int]
    /\ Credits \in [DOMAIN returns -> Int]
<1> SUFFICES ASSUME TypeInv
             PROVE  \A v \in Variants : Quantities(v) \in [DOMAIN returns -> Int]
  BY ColumnTypes
<1>1. \A v \in Variants : Quantities(v) \in [DOMAIN returns -> Nat]
  BY ColumnTypes
<1> QED
  BY <1>1

\* A return adds its row to the columns of its bill.
ColumnsGrow(m, n, quantity, row) ==
  /\ \A v \in Variants : ReturnedQuantity(m, v)'
       = ReturnedQuantity(m, v) + (IF m = n THEN quantity[v] ELSE 0)
  /\ \A v \in Variants : ReturnedAmount(m, v)'
       = ReturnedAmount(m, v) + (IF m = n THEN row.amount[v] ELSE 0)
  /\ PriorRoundOff(m)' = PriorRoundOff(m) + (IF m = n THEN row.roundOff ELSE 0)
  /\ TotalOf(m)' = TotalOf(m) + (IF m = n THEN row.total ELSE 0)
  /\ CreditOf(m)' = CreditOf(m) + (IF m = n THEN row.credit ELSE 0)

\* A return adds its own row to the columns of its bill and to no other.
LEMMA ColumnsAfterReturn ==
  ASSUME TypeInv, TypeInv', NEW key, NEW n, NEW quantity, NEW row, NEW bill, NEW N,
         GoodsBack(key, n, quantity, row, bill, N), NEW m
  PROVE  ColumnsGrow(m, n, quantity, row)
<1>1. /\ N \notin DOMAIN returns /\ DOMAIN returns' = DOMAIN returns \cup {N}
      /\ returns'[N] = row /\ row.bill = n /\ row.quantity = quantity
      /\ \A i \in DOMAIN returns : returns'[i] = returns[i]
  BY DEF GoodsBack
<1>2. /\ \A v \in Variants : Quantities(v) \in [DOMAIN returns -> Int]
      /\ \A v \in Variants : Values(v) \in [DOMAIN returns -> Int]
      /\ RoundOffs \in [DOMAIN returns -> Int]
      /\ Totals \in [DOMAIN returns -> Int]
      /\ Credits \in [DOMAIN returns -> Int]
  BY TypedColumns
<1>3. /\ \A v \in Variants : Quantities(v)' \in [DOMAIN returns' -> Int]
      /\ \A v \in Variants : Values(v)' \in [DOMAIN returns' -> Int]
      /\ RoundOffs' \in [DOMAIN returns' -> Int]
      /\ Totals' \in [DOMAIN returns' -> Int]
      /\ Credits' \in [DOMAIN returns' -> Int]
  <2>1. (TypeInv =>
    /\ \A v \in Variants : Quantities(v) \in [DOMAIN returns -> Int]
    /\ \A v \in Variants : Values(v) \in [DOMAIN returns -> Int]
    /\ RoundOffs \in [DOMAIN returns -> Int]
    /\ Totals \in [DOMAIN returns -> Int]
    /\ Credits \in [DOMAIN returns -> Int])'
    BY TypedColumns, PTL
  <2> QED
    BY <2>1
<1>4. /\ \A v \in Variants : \A i \in DOMAIN returns :
           Quantities(v)'[i] = Quantities(v)[i] /\ Values(v)'[i] = Values(v)[i]
      /\ \A i \in DOMAIN returns : /\ RoundOffs'[i] = RoundOffs[i]
                                   /\ Totals'[i] = Totals[i]
                                   /\ Credits'[i] = Credits[i]
      /\ \A v \in Variants : /\ Quantities(v)'[N] = quantity[v]
                             /\ Values(v)'[N] = row.amount[v]
      /\ RoundOffs'[N] = row.roundOff
      /\ Totals'[N] = row.total
      /\ Credits'[N] = row.credit
  BY <1>1 DEF Quantities, Values, RoundOffs, Totals, Credits
<1>a. /\ IsFiniteSet(ReturnsOf(m)) /\ ReturnsOf(m) \subseteq DOMAIN returns
      /\ N \notin ReturnsOf(m)
      /\ m = n => ReturnsOf(m)' = ReturnsOf(m) \cup {N}
      /\ m # n => ReturnsOf(m)' = ReturnsOf(m)
  <2>1. IsFiniteSet(ReturnsOf(m)) /\ ReturnsOf(m) \subseteq DOMAIN returns
    BY ColumnTypes
  <2> QED
    BY <1>1, <2>1 DEF ReturnsOf
<1>5. ASSUME NEW f \in [DOMAIN returns -> Int], NEW g \in [DOMAIN returns' -> Int],
             \A i \in DOMAIN returns : g[i] = f[i]
      PROVE  SumAt(ReturnsOf(m)', g) = Of(m, f) + (IF m = n THEN g[N] ELSE 0)
  <2> DEFINE S == ReturnsOf(m)
             T == ReturnsOf(m)'
  <2>1. /\ \A i \in S : f[i] \in Int /\ g[i] = f[i] /\ g[i] \in Int
        /\ g[N] \in Int
    BY <1>1, <1>5, <1>a
  <2>2. IsFiniteSet(S) /\ N \notin S /\ Of(m, f) = SumAt(S, f)
    BY <1>a DEF Of
  <2>3. /\ m = n => T = S \cup {N}
        /\ m # n => T = S
    BY <1>a
  <2> HIDE DEF S, T
  <2>4. ASSUME m = n
        PROVE  SumAt(T, g) = SumAt(S, f) + g[N]
    <3>1. T = S \cup {N}
      BY <2>3, <2>4
    <3>2. S \in SUBSET DOMAIN returns /\ T \in SUBSET DOMAIN returns'
      BY <1>1, <1>a, <2>2, <3>1 DEF S
    <3>3. IsFiniteSet(S) /\ N \notin S
      BY <2>2
    <3>4. \A i \in S : g[i] = f[i]
      BY <2>1
    <3> QED
      BY <3>1, <3>2, <3>3, <3>4, SumAtGrows
  <2>5. ASSUME m # n
        PROVE  SumAt(T, g) = SumAt(S, f)
    BY <2>1, <2>3, <2>5, SumAtStays
  <2>6. SumAt(S, f) \in Int
    <3>1. Of(m, f) \in Int
      BY OfType
    <3> QED
      BY <2>2, <3>1
  <2> QED
    BY <2>2, <2>4, <2>5, <2>6 DEF T
<1>6. ColumnsAddUp'
  BY ColumnSums, PTL
<1>7. ASSUME NEW v \in Variants
      PROVE  /\ ReturnedQuantity(m, v)'
                  = ReturnedQuantity(m, v) + (IF m = n THEN quantity[v] ELSE 0)
             /\ ReturnedAmount(m, v)'
                  = ReturnedAmount(m, v) + (IF m = n THEN row.amount[v] ELSE 0)
  <2>1. /\ ReturnedQuantity(m, v)'
             = SumAt(ReturnsOf(m)', Quantities(v)')
        /\ ReturnedAmount(m, v)'
             = SumAt(ReturnsOf(m)', Values(v)')
    BY <1>6 DEF ColumnsAddUp, Of
  <2>2. SumAt(ReturnsOf(m)', Quantities(v)')
          = Of(m, Quantities(v)) + (IF m = n THEN Quantities(v)'[N] ELSE 0)
    BY <1>2, <1>3, <1>4, <1>5
  <2>3. SumAt(ReturnsOf(m)', Values(v)')
          = Of(m, Values(v)) + (IF m = n THEN Values(v)'[N] ELSE 0)
    BY <1>2, <1>3, <1>4, <1>5
  <2>4. /\ ReturnedQuantity(m, v) = Of(m, Quantities(v))
        /\ ReturnedAmount(m, v) = Of(m, Values(v))
    BY ColumnSums DEF ColumnsAddUp
  <2> QED
    BY <1>4, <2>1, <2>2, <2>3, <2>4
<1>8. /\ PriorRoundOff(m)'
           = PriorRoundOff(m) + (IF m = n THEN row.roundOff ELSE 0)
      /\ TotalOf(m)' = TotalOf(m) + (IF m = n THEN row.total ELSE 0)
      /\ CreditOf(m)' = CreditOf(m) + (IF m = n THEN row.credit ELSE 0)
  <2>1. /\ PriorRoundOff(m)' = SumAt(ReturnsOf(m)', RoundOffs')
        /\ TotalOf(m)' = SumAt(ReturnsOf(m)', Totals')
        /\ CreditOf(m)' = SumAt(ReturnsOf(m)', Credits')
    BY <1>6 DEF ColumnsAddUp, Of
  <2>2. /\ SumAt(ReturnsOf(m)', RoundOffs')
             = Of(m, RoundOffs) + (IF m = n THEN RoundOffs'[N] ELSE 0)
        /\ SumAt(ReturnsOf(m)', Totals')
             = Of(m, Totals) + (IF m = n THEN Totals'[N] ELSE 0)
        /\ SumAt(ReturnsOf(m)', Credits')
             = Of(m, Credits) + (IF m = n THEN Credits'[N] ELSE 0)
    BY <1>2, <1>3, <1>4, <1>5
  <2>3. /\ PriorRoundOff(m) = Of(m, RoundOffs)
        /\ TotalOf(m) = Of(m, Totals)
        /\ CreditOf(m) = Of(m, Credits)
    BY ColumnSums DEF ColumnsAddUp
  <2> QED
    BY <1>4, <2>1, <2>2, <2>3
<1> QED
  BY <1>7, <1>8 DEF ColumnsGrow

----------------------------------------------------------------------------
\* Steps that give nothing back and draft nothing.
QuietStep == PostStep \/ CancelStep \/ PayStep \/ SellStep

\* The steps that neither add a return nor touch what the returns are compared with.
LEMMA QuietShape ==
  ASSUME QuietStep
  PROVE  /\ returns' = returns /\ DOMAIN bills' = DOMAIN bills
         /\ \A m \in DOMAIN bills : /\ bills'[m].cart = bills[m].cart
                                    /\ bills'[m].total = bills[m].total
                                    /\ bills'[m].returned = bills[m].returned
                                    /\ bills'[m].supplier = bills[m].supplier
<1>1. CASE PostStep
  BY <1>1 DEF PostStep, Posted, BillChanged
<1>2. CASE CancelStep
  BY <1>2 DEF CancelStep, Cancelled, BillChanged
<1>3. CASE PayStep
  BY <1>3 DEF PayStep, Paid
<1>4. CASE SellStep
  BY <1>4 DEF SellStep, SellElsewhere
<1> QED
  BY <1>1, <1>2, <1>3, <1>4 DEF QuietStep

\* What was bought of a line is a natural number.
Purchased == \A m \in DOMAIN bills : \A v \in Variants : Bought(m, v) \in Nat

\* What a bill lists is a natural per variant.
LEMMA BoughtType ==
  TypeInv => Purchased
BY RowTypes DEF Purchased

\* What is left of a line shrinks by what a return takes.
LEMMA RemainingAfterReturn ==
  ASSUME TypeInv, TypeInv', NEW key, NEW n \in DOMAIN bills,
         NEW quantity \in [Variants -> Nat], NEW row, NEW bill, NEW N,
         GoodsBack(key, n, quantity, row, bill, N), NEW m \in DOMAIN bills,
         NEW v \in Variants
  PROVE  /\ Remaining(m, v) \in Int /\ Bought(m, v)' = Bought(m, v)
         /\ Remaining(m, v)'
              = Remaining(m, v) - (IF m = n THEN quantity[v] ELSE 0)
<1>1. Bought(m, v)' = Bought(m, v)
  BY DEF GoodsBack, BillChanged, Bought
<1>2. ReturnedQuantity(m, v)'
        = ReturnedQuantity(m, v) + (IF m = n THEN quantity[v] ELSE 0)
  <2>1. ColumnsGrow(m, n, quantity, row)
    BY ColumnsAfterReturn
  <2> QED
    BY <2>1 DEF ColumnsGrow
<1>3. Bought(m, v) \in Nat /\ ReturnedQuantity(m, v) \in Nat /\ quantity[v] \in Nat
  BY RowTypes, PriorType
<1>4. /\ Remaining(m, v) = Bought(m, v) - ReturnedQuantity(m, v)
      /\ Remaining(m, v)' = Bought(m, v)' - ReturnedQuantity(m, v)'
  BY DEF Remaining
<1> QED
  BY <1>1, <1>2, <1>3, <1>4

\* No operation returns more of a line than the bill lists.
LEMMA WithinStep ==
  ASSUME TypeInv, TypeInv', WithinBought, Next
  PROVE  WithinBought'
<1>1. CASE DraftStep
  <2>1. PICK supplier, reference, cart, bill, N :
             /\ supplier \in Suppliers /\ reference \in References /\ cart \in Carts
             /\ Drafted(supplier, reference, cart, bill, N)
    BY <1>1 DEF DraftStep
  <2>2. SUFFICES ASSUME NEW m \in DOMAIN bills', NEW v \in Variants
                 PROVE  ReturnedQuantity(m, v)' <= Bought(m, v)'
    BY DEF WithinBought
  <2>3. /\ DOMAIN bills' = DOMAIN bills \cup {N} /\ N \notin DOMAIN bills
        /\ \A k \in DOMAIN bills : bills'[k] = bills[k]
        /\ returns' = returns
    BY <2>1 DEF Drafted
  <2>4. ReturnedQuantity(m, v)' = ReturnedQuantity(m, v)
    BY <2>3, ColumnsStay
  <2>5. CASE m = N
    <3>1. ReturnedQuantity(m, v) = 0
      BY <2>3, <2>5, ColumnsOfNew
    <3>2. Bought(m, v)' \in Nat
      <4>1. (TypeInv => Purchased)'
        BY BoughtType, PTL
      <4> QED
        BY <4>1 DEF Purchased
    <3> QED
      BY <2>4, <3>1, <3>2
  <2>6. CASE m # N
    <3>1. m \in DOMAIN bills /\ Bought(m, v)' = Bought(m, v)
      BY <2>3, <2>6 DEF Bought
    <3> QED
      BY <2>4, <3>1 DEF WithinBought
  <2> QED
    BY <2>5, <2>6
<1>2. CASE QuietStep
  <2>1. SUFFICES ASSUME NEW m \in DOMAIN bills', NEW v \in Variants
                 PROVE  ReturnedQuantity(m, v)' <= Bought(m, v)'
    BY DEF WithinBought
  <2>2. m \in DOMAIN bills /\ Bought(m, v)' = Bought(m, v)
    BY <1>2, QuietShape DEF Bought
  <2>3. ReturnedQuantity(m, v)' = ReturnedQuantity(m, v)
    BY <1>2, QuietShape, ColumnsStay
  <2> QED
    BY <2>2, <2>3 DEF WithinBought
<1>3. CASE ReturnStep
  <2>1. PICK key, n, quantity, row, bill, N :
             /\ key \in Keys /\ n \in DOMAIN bills /\ quantity \in [Variants -> Nat]
             /\ GoodsBack(key, n, quantity, row, bill, N)
    BY <1>3 DEF ReturnStep
  <2>2. SUFFICES ASSUME NEW m \in DOMAIN bills', NEW v \in Variants
                 PROVE  ReturnedQuantity(m, v)' <= Bought(m, v)'
    BY DEF WithinBought
  <2>3. m \in DOMAIN bills
    BY <2>1 DEF GoodsBack, BillChanged
  <2>4. /\ ReturnedQuantity(m, v)'
             = ReturnedQuantity(m, v) + (IF m = n THEN quantity[v] ELSE 0)
        /\ Bought(m, v)' = Bought(m, v)
    <3>1. ColumnsGrow(m, n, quantity, row)
      BY <2>1, ColumnsAfterReturn
    <3>2. Bought(m, v)' = Bought(m, v)
      BY ZenonT(60), <2>1, <2>3 DEF GoodsBack, BillChanged, Bought
    <3> QED
      BY <3>1, <3>2 DEF ColumnsGrow
  <2>5. ReturnedQuantity(m, v) \in Nat /\ Bought(m, v) \in Nat
    BY <2>3, PriorType, RowTypes
  <2>6. ReturnedQuantity(m, v) <= Bought(m, v)
    BY <2>3 DEF WithinBought
  <2>7. m = n => quantity[v] <= Bought(m, v) - ReturnedQuantity(m, v)
    BY <2>1 DEF GoodsBack, Remaining
  <2>8. m = n => quantity[v] \in Nat
    BY <2>1
  <2> QED
    BY <2>4, <2>5, <2>6, <2>7, <2>8
<1> QED
  BY <1>1, <1>2, <1>3, StepShapes DEF QuietStep

----------------------------------------------------------------------------
\* Rounding, bill by bill.
AmountsBack(n) == [v \in Variants |-> ReturnedAmount(n, v)]
AllBack(n) == \A v \in Variants : Remaining(n, v) = 0
LinesRounded(n) ==
  /\ bills[n].total = CartTotal(bills[n].cart)
  /\ bills[n].returned = SumFunction(AmountsBack(n)) + PriorRoundOff(n)
  /\ \A v \in Variants : Remaining(n, v) = 0 =>
       ReturnedAmount(n, v) = bills[n].cart.amount[v]
  /\ AllBack(n) => PriorRoundOff(n) = bills[n].cart.roundOff

\* Rounding, said bill by bill.
LEMMA RoundingByBill ==
  Rounding <=> \A n \in DOMAIN bills : LinesRounded(n)
BY DEF Rounding, LinesRounded, AmountsBack, AllBack, SumOver

\* A draft has nothing back yet, and a line to be returned.
LEMMA DraftRounded ==
  ASSUME TypeInv, NEW supplier, NEW reference, NEW cart \in Carts, NEW bill, NEW N,
         Drafted(supplier, reference, cart, bill, N)
  PROVE  LinesRounded(N)'
<1>1. /\ N \notin DOMAIN bills /\ bills'[N] = bill /\ returns' = returns
      /\ bill.cart = cart /\ bill.total = CartTotal(cart) /\ bill.returned = 0
  BY DEF Drafted
<1>2. /\ \A v \in Variants : ReturnedQuantity(N, v)' = 0
      /\ \A v \in Variants : ReturnedAmount(N, v)' = 0
      /\ PriorRoundOff(N)' = 0
  <2>1. /\ \A v : ReturnedQuantity(N, v) = 0
        /\ \A v : ReturnedAmount(N, v) = 0
        /\ PriorRoundOff(N) = 0
    BY <1>1, ColumnsOfNew
  <2> QED
    BY <1>1, <2>1, ColumnsStay
<1>3. /\ cart \in CartType
      /\ \E v \in Variants : cart.quantity[v] > 0
      /\ \A v \in Variants : cart.quantity[v] = 0 => cart.amount[v] = 0
  BY PurchasesAssumption
<1>4. \A v \in Variants : Remaining(N, v)' = cart.quantity[v]
  <2> SUFFICES ASSUME NEW v \in Variants
               PROVE  Remaining(N, v)' = cart.quantity[v]
    OBVIOUS
  <2>1. Bought(N, v)' = cart.quantity[v]
    BY <1>1 DEF Bought
  <2>2. cart.quantity[v] \in Nat
    BY <1>3 DEF CartType
  <2> QED
    BY <1>2, <2>1, <2>2 DEF Remaining
<1>5. SumFunction(AmountsBack(N)') = 0
  <2>1. /\ AmountsBack(N)' \in [Variants -> Int]
        /\ \A v \in Variants : AmountsBack(N)'[v] = 0
    BY <1>2 DEF AmountsBack
  <2>2. IsFiniteSet(Variants)
    BY PurchasesAssumption
  <2> QED
    BY <2>1, <2>2, SumZero
<1>6. (bills[N].total = CartTotal(bills[N].cart))'
  BY <1>1 DEF CartTotal, SumOver
<1>7. (bills[N].returned = SumFunction(AmountsBack(N)) + PriorRoundOff(N))'
  BY <1>1, <1>2, <1>5
<1>8. \A v \in Variants : Remaining(N, v)' = 0 =>
        ReturnedAmount(N, v)' = bills'[N].cart.amount[v]
  BY <1>1, <1>2, <1>3, <1>4
<1>9. ~AllBack(N)'
  BY <1>3, <1>4 DEF AllBack
<1> QED
  BY <1>6, <1>7, <1>8, <1>9 DEF LinesRounded

\* A bill that nothing comes back of in this step stays rounded.
LEMMA RoundedStays ==
  ASSUME NEW m, LinesRounded(m),
         bills'[m].cart = bills[m].cart, bills'[m].total = bills[m].total,
         bills'[m].returned = bills[m].returned,
         \A v \in Variants : ReturnedQuantity(m, v)' = ReturnedQuantity(m, v),
         \A v \in Variants : ReturnedAmount(m, v)' = ReturnedAmount(m, v),
         PriorRoundOff(m)' = PriorRoundOff(m)
  PROVE  LinesRounded(m)'
<1>1. \A v \in Variants : Remaining(m, v)' = Remaining(m, v)
  BY DEF Remaining, Bought
<1>2. AllBack(m)' = AllBack(m)
  BY <1>1 DEF AllBack
<1>3. AmountsBack(m)' = AmountsBack(m)
  BY DEF AmountsBack
<1>4. (bills[m].total = CartTotal(bills[m].cart))'
  BY DEF LinesRounded, CartTotal, SumOver
<1> QED
  BY <1>1, <1>2, <1>3, <1>4 DEF LinesRounded

\* A return rounds its lines so that the last one of a line takes the rest.
LEMMA ReturnRounded ==
  ASSUME TypeInv, TypeInv', NEW key, NEW n \in DOMAIN bills,
         NEW quantity \in [Variants -> Nat], NEW row, NEW bill, NEW N,
         GoodsBack(key, n, quantity, row, bill, N), LinesRounded(n)
  PROVE  LinesRounded(n)'
<1>0. /\ ColumnsGrow(n, n, quantity, row)
      /\ \A v \in Variants :
           /\ Remaining(n, v) \in Int /\ Bought(n, v)' = Bought(n, v)
           /\ Remaining(n, v)' = Remaining(n, v) - quantity[v]
  <2>1. ColumnsGrow(n, n, quantity, row)
    BY ColumnsAfterReturn
  <2>2. ASSUME NEW v \in Variants
        PROVE  /\ Remaining(n, v) \in Int /\ Bought(n, v)' = Bought(n, v)
               /\ Remaining(n, v)'
                    = Remaining(n, v) - (IF n = n THEN quantity[v] ELSE 0)
    BY RemainingAfterReturn
  <2> QED
    BY <2>1, <2>2
<1>1. /\ \A v \in Variants :
           ReturnedAmount(n, v)' = ReturnedAmount(n, v) + row.amount[v]
      /\ PriorRoundOff(n)' = PriorRoundOff(n) + row.roundOff
  BY <1>0 DEF ColumnsGrow
<1>2. /\ bills'[n] = bill /\ bill.cart = bills[n].cart
      /\ bill.total = bills[n].total
      /\ bill.returned = bills[n].returned + row.total
      /\ row.total = SumFunction(row.amount) + row.roundOff
      /\ row \in Return /\ bills[n] \in Bill
  BY RowTypes DEF GoodsBack, BillChanged
<1>3. /\ row.amount \in [Variants -> Int] /\ row.roundOff \in Int
      /\ bills[n].cart \in CartType
      /\ IsFiniteSet(Variants)
  BY <1>2, PurchasesAssumption DEF Return, Bill
<1>4. /\ \A v \in Variants : ReturnedAmount(n, v) \in Int
      /\ PriorRoundOff(n) \in Int
      /\ \A v \in Variants : ReturnedQuantity(n, v) \in Nat
  BY PriorType
<1>5. /\ SumFunction(AmountsBack(n)')
           = SumFunction(AmountsBack(n)) + SumFunction(row.amount)
      /\ SumFunction(AmountsBack(n)) \in Int
      /\ SumFunction(row.amount) \in Int
  <2>1. /\ AmountsBack(n) \in [Variants -> Int]
        /\ AmountsBack(n)' \in [Variants -> Int]
        /\ \A v \in Variants : AmountsBack(n)'[v] = AmountsBack(n)[v] + row.amount[v]
    BY <1>1, <1>3, <1>4 DEF AmountsBack
  <2> QED
    BY <1>3, <2>1, SumPlus, SumType
<1>6. (bills[n].total = CartTotal(bills[n].cart))'
  BY <1>2 DEF LinesRounded, CartTotal, SumOver
<1>7. (bills[n].returned = SumFunction(AmountsBack(n)) + PriorRoundOff(n))'
  <2>1. bills[n].returned = SumFunction(AmountsBack(n)) + PriorRoundOff(n)
    BY DEF LinesRounded
  <2> QED
    BY <1>1, <1>2, <1>3, <1>4, <1>5, <2>1
<1>8. ASSUME NEW v \in Variants, Remaining(n, v)' = 0
      PROVE  ReturnedAmount(n, v)' = bills'[n].cart.amount[v]
  <2>1. bills'[n].cart.amount[v] = bills[n].cart.amount[v]
          /\ bills[n].cart.amount[v] \in Int
    BY <1>2, <1>3 DEF CartType
  <2>2. Remaining(n, v) = quantity[v]
    BY <1>0, <1>8
  <2>3. row.amount[v] =
           IF quantity[v] = 0 THEN 0
           ELSE Share(bills[n].cart.amount[v], Bought(n, v), quantity[v],
                      ReturnedAmount(n, v), ReturnedQuantity(n, v))
    BY DEF GoodsBack
  <2>4. CASE quantity[v] = 0
    <3>1. ReturnedAmount(n, v) = bills[n].cart.amount[v]
      BY <2>2, <2>4 DEF LinesRounded
    <3>2. ReturnedAmount(n, v)' = ReturnedAmount(n, v) + 0
      BY <1>1, <2>3, <2>4
    <3> QED
      BY <2>1, <3>1, <3>2
  <2>5. CASE quantity[v] # 0
    <3>1. ReturnedQuantity(n, v) + quantity[v] = Bought(n, v)
      <4>1. Bought(n, v) \in Nat
        BY RowTypes
      <4>2. Remaining(n, v) = Bought(n, v) - ReturnedQuantity(n, v)
        BY DEF Remaining
      <4> QED
        BY <1>4, <2>2, <4>1, <4>2
    <3>2. row.amount[v] = bills[n].cart.amount[v] - ReturnedAmount(n, v)
      BY <2>3, <2>5, <3>1 DEF Share
    <3>3. /\ ReturnedAmount(n, v)' = ReturnedAmount(n, v) + row.amount[v]
          /\ ReturnedAmount(n, v) \in Int
      BY <1>1, <1>4
    <3> QED
      BY <2>1, <3>2, <3>3
  <2> QED
    BY <2>4, <2>5
<1>9. ASSUME AllBack(n)'
      PROVE  PriorRoundOff(n)' = bills'[n].cart.roundOff
  <2>1. Completes(n, quantity)
    <3> SUFFICES ASSUME NEW v \in Variants
                 PROVE  quantity[v] = Remaining(n, v)
      BY DEF Completes
    <3>1. Remaining(n, v)' = 0
      BY <1>9 DEF AllBack
    <3> QED
      BY <1>0, <3>1
  <2>2. row.roundOff = bills[n].cart.roundOff - PriorRoundOff(n)
    BY <2>1 DEF GoodsBack
  <2>3. bills[n].cart.roundOff \in Int
    BY <1>3 DEF CartType
  <2> QED
    BY <1>1, <1>2, <1>4, <2>2, <2>3
<1> QED
  BY <1>6, <1>7, <1>8, <1>9 DEF LinesRounded

\* Each operation keeps the amounts and round-offs returned of a bill in step with its returns.
LEMMA RoundingStep ==
  ASSUME TypeInv, TypeInv', Rounding, Next
  PROVE  Rounding'
<1>a. \A m \in DOMAIN bills : LinesRounded(m)
  BY RoundingByBill
<1>1. \A m \in DOMAIN bills' : LinesRounded(m)'
  <2>1. ASSUME NEW supplier \in Suppliers, NEW reference \in References,
               NEW cart \in Carts, NEW bill, NEW N,
               Drafted(supplier, reference, cart, bill, N), NEW m \in DOMAIN bills'
        PROVE  LinesRounded(m)'
    <3>1. /\ DOMAIN bills' = DOMAIN bills \cup {N}
          /\ \A k \in DOMAIN bills : bills'[k] = bills[k]
          /\ returns' = returns
      BY <2>1 DEF Drafted
    <3>2. CASE m = N
      BY <2>1, <3>2, DraftRounded
    <3>3. CASE m # N
      <4>1. m \in DOMAIN bills /\ LinesRounded(m) /\ bills'[m] = bills[m]
        BY <1>a, <3>1, <3>3
      <4>2. /\ \A v \in Variants : ReturnedQuantity(m, v)' = ReturnedQuantity(m, v)
            /\ \A v \in Variants : ReturnedAmount(m, v)' = ReturnedAmount(m, v)
            /\ PriorRoundOff(m)' = PriorRoundOff(m)
        BY <3>1, ColumnsStay
      <4> QED
        BY <4>1, <4>2, RoundedStays
    <3> QED
      BY <3>2, <3>3
  <2>2. ASSUME QuietStep, NEW m \in DOMAIN bills'
        PROVE  LinesRounded(m)'
    <3>1. /\ m \in DOMAIN bills /\ LinesRounded(m) /\ returns' = returns
          /\ bills'[m].cart = bills[m].cart /\ bills'[m].total = bills[m].total
          /\ bills'[m].returned = bills[m].returned
      BY <1>a, <2>2, QuietShape
    <3>2. /\ \A v \in Variants : ReturnedQuantity(m, v)' = ReturnedQuantity(m, v)
          /\ \A v \in Variants : ReturnedAmount(m, v)' = ReturnedAmount(m, v)
          /\ PriorRoundOff(m)' = PriorRoundOff(m)
      BY <3>1, ColumnsStay
    <3> QED
      BY <3>1, <3>2, RoundedStays
  <2>3. ASSUME NEW key \in Keys, NEW n \in DOMAIN bills,
               NEW quantity \in [Variants -> Nat], NEW row, NEW bill, NEW N,
               GoodsBack(key, n, quantity, row, bill, N), NEW m \in DOMAIN bills'
        PROVE  LinesRounded(m)'
    <3>1. /\ DOMAIN bills' = DOMAIN bills
          /\ \A k \in DOMAIN bills \ {n} : bills'[k] = bills[k]
      BY <2>3 DEF GoodsBack, BillChanged
    <3>2. CASE m = n
      <4>1. LinesRounded(n)
        BY <1>a
      <4>2. LinesRounded(n)'
        BY <2>3, <4>1, ReturnRounded
      <4> QED
        BY <3>2, <4>2
    <3>3. CASE m # n
      <4>1. m \in DOMAIN bills /\ LinesRounded(m) /\ bills'[m] = bills[m]
        BY <1>a, <3>1, <3>3
      <4>2. ColumnsGrow(m, n, quantity, row)
        BY <2>3, ColumnsAfterReturn
      <4>3. /\ \A v \in Variants : /\ ReturnedQuantity(m, v) \in Int
                                   /\ ReturnedAmount(m, v) \in Int
            /\ PriorRoundOff(m) \in Int
        BY PriorType
      <4>4. /\ \A v \in Variants : ReturnedQuantity(m, v)' = ReturnedQuantity(m, v)
            /\ \A v \in Variants : ReturnedAmount(m, v)' = ReturnedAmount(m, v)
            /\ PriorRoundOff(m)' = PriorRoundOff(m)
        BY <3>3, <4>2, <4>3 DEF ColumnsGrow
      <4> QED
        BY <4>1, <4>4, RoundedStays
    <3> QED
      BY <3>2, <3>3
  <2> QED
    BY <2>1, <2>2, <2>3, StepShapes DEF DraftStep, QuietStep, ReturnStep
<1>2. (Rounding <=> \A n \in DOMAIN bills : LinesRounded(n))'
  BY RoundingByBill, PTL
<1> QED
  BY <1>1, <1>2

----------------------------------------------------------------------------
\* What is owed for a bill, and what the supplier owes for it.
Payable(bill) ==
  /\ bill.paid <= bill.total /\ bill.returned <= bill.total
  /\ bill.outstanding =
       IF bill.status = "CANCELLED" THEN 0
       ELSE Positive(bill.total - bill.paid - bill.returned)
  /\ bill.status # "POSTED" => bill.paid = 0 /\ bill.returned = 0
Overpaid(bill) == Positive(bill.paid + bill.returned - bill.total)

\* PayableReconciles, said bill by bill.
LEMMA PayableByBill ==
  PayableReconciles <=> \A n \in DOMAIN bills : Payable(bills[n])
BY DEF PayableReconciles, Payable

\* A return settles what is still owed first and turns the rest into credit.
LEMMA ReturnSettles ==
  ASSUME TypeInv, NEW key, NEW n \in DOMAIN bills, NEW quantity, NEW row, NEW bill,
         NEW N, GoodsBack(key, n, quantity, row, bill, N), Payable(bills[n])
  PROVE  /\ Payable(bill)
         /\ row.credit = Overpaid(bill) - Overpaid(bills[n])
<1> DEFINE old == bills[n]
<1>1. old \in Bill /\ row \in Return
  BY RowTypes DEF GoodsBack
<1>2. /\ old.total \in Nat /\ old.paid \in Nat /\ old.returned \in Nat
      /\ old.outstanding \in Nat /\ row.total \in Nat
  BY <1>1 DEF Bill, Return
<1>3. /\ row.total > 0 /\ old.returned + row.total <= old.total
      /\ row.applied = Least(old.outstanding, row.total)
      /\ row.credit = row.total - row.applied
      /\ bill.total = old.total /\ bill.paid = old.paid
      /\ bill.returned = old.returned + row.total
      /\ bill.outstanding = old.outstanding - row.applied
      /\ bill.status = "POSTED" /\ old.status = "POSTED"
  BY DEF GoodsBack, BillChanged
<1>4. /\ old.paid <= old.total
      /\ old.outstanding = Positive(old.total - old.paid - old.returned)
  BY <1>3 DEF Payable
<1> HIDE DEF old
<1>5. /\ bill.outstanding = Positive(bill.total - bill.paid - bill.returned)
      /\ bill.paid <= bill.total /\ bill.returned <= bill.total
  BY <1>2, <1>3, <1>4 DEF Positive, Least
<1>6. row.credit = Positive(bill.paid + bill.returned - bill.total)
                     - Positive(old.paid + old.returned - old.total)
  BY <1>2, <1>3, <1>4 DEF Positive, Least
<1> QED
  BY <1>3, <1>5, <1>6 DEF Payable, Overpaid, old

\* A part of a payment never exceeds what is owed, so it makes no credit.
LEMMA PaymentSettles ==
  ASSUME NEW old \in Bill, NEW new \in Bill, NEW part \in Nat \ {0},
         old.status = "POSTED", part <= old.outstanding, Payable(old),
         new.total = old.total, new.status = old.status,
         new.returned = old.returned, new.paid = old.paid + part,
         new.outstanding = old.outstanding - part
  PROVE  Payable(new) /\ Overpaid(old) = 0 /\ Overpaid(new) = 0
<1>1. /\ old.total \in Nat /\ old.paid \in Nat /\ old.returned \in Nat
      /\ old.outstanding \in Nat
  BY DEF Bill
<1>2. /\ old.outstanding = Positive(old.total - old.paid - old.returned)
      /\ old.returned <= old.total
  BY DEF Payable
<1>3. part <= old.total - old.paid - old.returned
  BY <1>1, <1>2 DEF Positive
<1>4. /\ new.paid + new.returned <= new.total
      /\ new.outstanding = Positive(new.total - new.paid - new.returned)
      /\ new.paid <= new.total /\ new.returned <= new.total
  BY <1>1, <1>2, <1>3 DEF Positive
<1>5. Overpaid(new) = 0 /\ Overpaid(old) = 0
  BY <1>1, <1>3, <1>4 DEF Overpaid, Positive
<1> QED
  BY <1>4, <1>5 DEF Payable

\* The bills after a step: a new draft, bills with other amounts, and the rest.
LEMMA PayableStep ==
  ASSUME TypeInv, TypeInv', PayableReconciles, Next
  PROVE  /\ PayableReconciles'
         /\ ReturnStep \/ \A m \in DOMAIN bills : Overpaid(bills'[m]) = Overpaid(bills[m])
<1>a. \A m \in DOMAIN bills : Payable(bills[m]) /\ bills[m] \in Bill
  BY PayableByBill, RowTypes
<1>b. (PayableReconciles <=> \A n \in DOMAIN bills : Payable(bills[n]))'
  BY PayableByBill, PTL
<1>c. \A m \in DOMAIN bills' : bills'[m] \in Bill
  <2>1. bills' \in Seq(Bill)
    BY DEF TypeInv, TypeOK
  <2> QED
    BY <2>1, RowsFinite
<1> DEFINE Kept == \A m \in DOMAIN bills : Overpaid(bills'[m]) = Overpaid(bills[m])
           Owed == \A m \in DOMAIN bills' : Payable(bills'[m])
<1>1. ASSUME NEW supplier \in Suppliers, NEW reference \in References,
             NEW cart \in Carts, NEW bill, NEW N,
             Drafted(supplier, reference, cart, bill, N)
      PROVE  Owed /\ Kept
  <2>1. /\ DOMAIN bills' = DOMAIN bills \cup {N} /\ bills'[N] = bill
        /\ \A k \in DOMAIN bills : bills'[k] = bills[k]
        /\ bill \in Bill /\ bill.status = "DRAFT" /\ bill.outstanding = bill.total
        /\ bill.paid = 0 /\ bill.returned = 0
    BY <1>1 DEF Drafted
  <2>2. bill.total \in Nat
    BY <2>1 DEF Bill
  <2>3. Payable(bill)
    BY <2>1, <2>2 DEF Payable, Positive
  <2> QED
    BY <1>a, <2>1, <2>3
<1>2. ASSUME NEW key \in Keys, NEW n \in DOMAIN bills, NEW bill, Posted(key, n, bill)
      PROVE  Owed /\ Kept
  <2>1. /\ DOMAIN bills' = DOMAIN bills /\ bills'[n] = bill
        /\ \A k \in DOMAIN bills \ {n} : bills'[k] = bills[k]
        /\ bill.status = "POSTED" /\ bills[n].status = "DRAFT"
        /\ bill.total = bills[n].total /\ bill.paid = bills[n].paid
        /\ bill.returned = bills[n].returned
        /\ bill.outstanding = bills[n].outstanding
    BY <1>2 DEF Posted, BillChanged
  <2>2. Payable(bill) /\ Overpaid(bill) = Overpaid(bills[n])
    BY <1>a, <2>1 DEF Payable, Overpaid
  <2> QED
    BY <1>a, <2>1, <2>2
<1>3. ASSUME NEW key \in Keys, NEW n \in DOMAIN bills, NEW bill,
             Cancelled(key, n, bill)
      PROVE  Owed /\ Kept
  <2>1. /\ DOMAIN bills' = DOMAIN bills /\ bills'[n] = bill
        /\ \A k \in DOMAIN bills \ {n} : bills'[k] = bills[k]
        /\ bill.status = "CANCELLED" /\ bill.total = bills[n].total
        /\ bills[n].paid = 0 /\ bills[n].returned = 0
        /\ bill.paid = 0 /\ bill.returned = 0 /\ bill.outstanding = 0
    BY <1>3 DEF Cancelled, BillChanged
  <2>2. bills[n].total \in Nat
    BY <1>a DEF Bill
  <2>3. Payable(bill) /\ Overpaid(bill) = Overpaid(bills[n])
    BY <2>1, <2>2 DEF Payable, Overpaid
  <2> QED
    BY <1>a, <2>1, <2>3
<1>4. ASSUME NEW key \in Keys, NEW n \in DOMAIN bills,
             NEW quantity \in [Variants -> Nat], NEW row, NEW bill, NEW N,
             GoodsBack(key, n, quantity, row, bill, N)
      PROVE  Owed
  <2>1. /\ DOMAIN bills' = DOMAIN bills /\ bills'[n] = bill
        /\ \A k \in DOMAIN bills \ {n} : bills'[k] = bills[k]
    BY <1>4 DEF GoodsBack, BillChanged
  <2>2. Payable(bill)
    BY <1>a, <1>4, ReturnSettles
  <2> QED
    BY <1>a, <2>1, <2>2
<1>5. ASSUME NEW key \in Keys, NEW supplier \in Suppliers, NEW allocations,
             NEW row, NEW N, Paid(key, supplier, allocations, row, N)
      PROVE  Owed /\ Kept
  <2>1. DOMAIN bills' = DOMAIN bills
    BY <1>5 DEF Paid
  <2>2. ASSUME NEW m \in DOMAIN bills
        PROVE  Payable(bills'[m]) /\ Overpaid(bills'[m]) = Overpaid(bills[m])
    <3>1. /\ bills'[m].total = bills[m].total
          /\ bills'[m].status = bills[m].status
          /\ bills'[m].returned = bills[m].returned
      BY <1>5 DEF Paid
    <3>2. CASE m \in DOMAIN allocations
      <4>1. /\ allocations[m] \in Nat \ {0} /\ bills[m].status = "POSTED"
            /\ allocations[m] <= bills[m].outstanding
            /\ bills'[m].paid = bills[m].paid + allocations[m]
            /\ bills'[m].outstanding = bills[m].outstanding - allocations[m]
        BY <1>5, <3>2 DEF Paid, AllocationAllowed
      <4>2. bills[m] \in Bill /\ bills'[m] \in Bill /\ Payable(bills[m])
        BY <1>a, <1>c, <2>1
      <4>3. /\ Payable(bills'[m]) /\ Overpaid(bills[m]) = 0
            /\ Overpaid(bills'[m]) = 0
        BY <3>1, <4>1, <4>2, PaymentSettles
      <4> QED
        BY <4>3
    <3>3. CASE m \notin DOMAIN allocations
      <4>1. /\ bills'[m].paid = bills[m].paid
            /\ bills'[m].outstanding = bills[m].outstanding
        BY <1>5, <3>3 DEF Paid
      <4> QED
        BY <1>a, <3>1, <4>1 DEF Payable, Overpaid
    <3> QED
      BY <3>2, <3>3
  <2> QED
    BY <2>1, <2>2
<1>6. ASSUME NEW key \in Keys, NEW v \in Tracked, SellElsewhere(key, v)
      PROVE  Owed /\ Kept
  BY <1>a, <1>6 DEF SellElsewhere
<1>7. Owed /\ (ReturnStep \/ Kept)
  <2> HIDE DEF Owed, Kept
  <2> QED
    BY <1>1, <1>2, <1>3, <1>4, <1>5, <1>6, StepShapes
       DEF DraftStep, PostStep, CancelStep, ReturnStep, PayStep, SellStep
<1> QED
  BY <1>7, <1>b

----------------------------------------------------------------------------
\* CreditIsOverpayment, said bill by bill.
LEMMA CreditByBill ==
  CreditIsOverpayment <=> \A n \in DOMAIN bills : CreditOf(n) = Overpaid(bills[n])
BY DEF CreditIsOverpayment, CreditOf, Overpaid

\* Only a return changes what the supplier owes, by its credit.
LEMMA CreditStep ==
  ASSUME TypeInv, TypeInv', PayableReconciles, CreditIsOverpayment, Next
  PROVE  CreditIsOverpayment'
<1>a. \A m \in DOMAIN bills : /\ CreditOf(m) = Overpaid(bills[m])
                              /\ Payable(bills[m]) /\ bills[m] \in Bill
  BY CreditByBill, PayableByBill, RowTypes
<1>b. (CreditIsOverpayment <=> \A n \in DOMAIN bills : CreditOf(n) = Overpaid(bills[n]))'
  BY CreditByBill, PTL
<1>1. ASSUME NEW supplier \in Suppliers, NEW reference \in References,
             NEW cart \in Carts, NEW bill, NEW N,
             Drafted(supplier, reference, cart, bill, N), NEW m \in DOMAIN bills'
      PROVE  CreditOf(m)' = Overpaid(bills'[m])
  <2>1. /\ DOMAIN bills' = DOMAIN bills \cup {N} /\ bills'[N] = bill
        /\ N \notin DOMAIN bills
        /\ \A k \in DOMAIN bills : bills'[k] = bills[k]
        /\ returns' = returns
        /\ bill \in Bill /\ bill.paid = 0 /\ bill.returned = 0
    BY <1>1 DEF Drafted
  <2>2. CreditOf(m)' = CreditOf(m)
    BY <2>1, ColumnsStay
  <2>3. CASE m = N
    <3>1. CreditOf(N) = 0
      BY <2>1, ColumnsOfNew
    <3>2. bill.total \in Nat
      BY <2>1 DEF Bill
    <3>3. Overpaid(bill) = 0
      BY <2>1, <3>2 DEF Overpaid, Positive
    <3> QED
      BY <2>1, <2>2, <2>3, <3>1, <3>3
  <2>4. CASE m # N
    BY <1>a, <2>1, <2>2, <2>4
  <2> QED
    BY <2>3, <2>4
<1>2. ASSUME QuietStep, ~ReturnStep, NEW m \in DOMAIN bills'
      PROVE  CreditOf(m)' = Overpaid(bills'[m])
  <2>1. m \in DOMAIN bills /\ returns' = returns
    BY <1>2, QuietShape
  <2>2. CreditOf(m)' = CreditOf(m)
    BY <2>1, ColumnsStay
  <2>3. Overpaid(bills'[m]) = Overpaid(bills[m])
    BY <1>2, <2>1, PayableStep
  <2> QED
    BY <1>a, <2>1, <2>2, <2>3
<1>3. ASSUME NEW key \in Keys, NEW n \in DOMAIN bills,
             NEW quantity \in [Variants -> Nat], NEW row, NEW bill, NEW N,
             GoodsBack(key, n, quantity, row, bill, N), NEW m \in DOMAIN bills'
      PROVE  CreditOf(m)' = Overpaid(bills'[m])
  <2>1. /\ DOMAIN bills' = DOMAIN bills /\ bills'[n] = bill
        /\ \A k \in DOMAIN bills \ {n} : bills'[k] = bills[k]
        /\ bill \in Bill
    BY <1>3 DEF GoodsBack, BillChanged
  <2>2. ColumnsGrow(m, n, quantity, row)
    BY <1>3, ColumnsAfterReturn
  <2>3. CreditOf(m)' = CreditOf(m) + (IF m = n THEN row.credit ELSE 0)
    BY <2>2 DEF ColumnsGrow
  <2>4. CASE m = n
    <3>1. row.credit = Overpaid(bill) - Overpaid(bills[n])
      BY <1>a, <1>3, ReturnSettles
    <3>2. CreditOf(n) = Overpaid(bills[n])
      BY <1>a
    <3>3. Overpaid(bill) \in Int /\ Overpaid(bills[n]) \in Int
      <4>1. \A old \in Bill : Overpaid(old) \in Int
        BY DEF Bill, Overpaid, Positive
      <4> QED
        BY <1>a, <2>1, <4>1
    <3> QED
      BY <2>1, <2>3, <2>4, <3>1, <3>2, <3>3
  <2>5. CASE m # n
    <3>1. CreditOf(m) \in Int
      BY PriorType
    <3> QED
      BY <1>a, <2>1, <2>3, <2>5, <3>1
  <2> QED
    BY <2>4, <2>5
<1>4. \A m \in DOMAIN bills' : CreditOf(m)' = Overpaid(bills'[m])
  BY <1>1, <1>2, <1>3, StepShapes DEF DraftStep, QuietStep, ReturnStep
<1> QED
  BY <1>4, <1>b

----------------------------------------------------------------------------
\* The payments that a bill has a part of, and the parts.
PaymentsOf(n) == {p \in DOMAIN payments : n \in DOMAIN payments[p].allocations}
Parts(n) == [p \in PaymentsOf(n) |-> payments[p].allocations[n]]
Projected(n) ==
  /\ bills[n].paid = SumFunction(Parts(n))
  /\ \A p \in PaymentsOf(n) : payments[p].supplier = bills[n].supplier
  /\ bills[n].returned = TotalOf(n)

\* ProjectionsReconcile, said bill by bill.
LEMMA ProjectionsByBill ==
  ProjectionsReconcile <=> \A n \in DOMAIN bills : Projected(n)
BY DEF ProjectionsReconcile, Projected, PaymentsOf, Parts, TotalOf, SumOver

\* The parts of a bill are natural numbers.
PartsTyped(n) ==
  /\ IsFiniteSet(PaymentsOf(n))
  /\ Parts(n) \in [PaymentsOf(n) -> Int]

\* The parts of a payable are integers.
LEMMA PartsType ==
  TypeInv => \A m : PartsTyped(m)
<1> SUFFICES ASSUME TypeInv, NEW n
             PROVE  PartsTyped(n)
  OBVIOUS
<1>1. /\ IsFiniteSet(DOMAIN payments)
      /\ \A p \in DOMAIN payments : \A m \in DOMAIN payments[p].allocations :
           payments[p].allocations[m] \in Nat
  BY RowTypes
<1>2. IsFiniteSet(PaymentsOf(n))
  BY <1>1, FS_Subset DEF PaymentsOf
<1> QED
  BY <1>1, <1>2 DEF PartsTyped, PaymentsOf, Parts

\* A payment adds its part to the parts of a bill.
LEMMA PartsAfterPayment ==
  ASSUME TypeInv, TypeInv', NEW key, NEW supplier, NEW allocations, NEW row, NEW N,
         Paid(key, supplier, allocations, row, N), NEW n
  PROVE  SumFunction(Parts(n)') = SumFunction(Parts(n))
           + (IF n \in DOMAIN allocations THEN allocations[n] ELSE 0)
<1>1. /\ N \notin DOMAIN payments /\ DOMAIN payments' = DOMAIN payments \cup {N}
      /\ payments'[N] = row /\ row.allocations = allocations
      /\ \A p \in DOMAIN payments : payments'[p] = payments[p]
  BY DEF Paid
<1>2. /\ IsFiniteSet(PaymentsOf(n)) /\ Parts(n) \in [PaymentsOf(n) -> Int]
      /\ Parts(n)' \in [PaymentsOf(n)' -> Int]
  <2>1. (TypeInv => \A m : PartsTyped(m))'
    BY PartsType, PTL
  <2>2. PartsTyped(n) /\ PartsTyped(n)'
    BY <2>1, PartsType
  <2> QED
    BY <2>2 DEF PartsTyped
<1>3. CASE n \in DOMAIN allocations
  <2>1. PaymentsOf(n)' = PaymentsOf(n) \cup {N} /\ N \notin PaymentsOf(n)
    BY <1>1, <1>3 DEF PaymentsOf
  <2>2. /\ Parts(n)'[N] = allocations[n]
        /\ \A p \in PaymentsOf(n) : Parts(n)'[p] = Parts(n)[p]
    BY <1>1, <2>1 DEF Parts, PaymentsOf
  <2>3. SumFunction(Parts(n)') = SumFunction(Parts(n)) + Parts(n)'[N]
    BY <1>2, <2>1, <2>2, SumGrows
  <2> QED
    BY <1>3, <2>2, <2>3
<1>4. CASE n \notin DOMAIN allocations
  <2>1. PaymentsOf(n)' = PaymentsOf(n)
    BY <1>1, <1>4 DEF PaymentsOf
  <2>2. Parts(n)' = Parts(n)
    BY <1>1, <2>1 DEF Parts, PaymentsOf
  <2>3. SumFunction(Parts(n)) \in Int
    BY <1>2, SumType
  <2> QED
    BY <1>4, <2>2, <2>3
<1> QED
  BY <1>3, <1>4

\* Each operation keeps the projections of a bill equal to its documents.
LEMMA ProjectionsStep ==
  ASSUME TypeInv, TypeInv', PayableReconciles, ProjectionsReconcile, Next
  PROVE  ProjectionsReconcile'
<1>a. \A m \in DOMAIN bills : Projected(m)
  BY ProjectionsByBill
<1>b. (ProjectionsReconcile <=> \A n \in DOMAIN bills : Projected(n))'
  BY ProjectionsByBill, PTL
<1>c. payments' = payments =>
        \A m : PaymentsOf(m)' = PaymentsOf(m) /\ Parts(m)' = Parts(m)
  BY DEF PaymentsOf, Parts
<1>1. ASSUME NEW supplier \in Suppliers, NEW reference \in References,
             NEW cart \in Carts, NEW bill, NEW N,
             Drafted(supplier, reference, cart, bill, N), NEW m \in DOMAIN bills'
      PROVE  Projected(m)'
  <2>1. /\ DOMAIN bills' = DOMAIN bills \cup {N} /\ bills'[N] = bill
        /\ N \notin DOMAIN bills
        /\ \A k \in DOMAIN bills : bills'[k] = bills[k]
        /\ returns' = returns /\ payments' = payments
        /\ bill.paid = 0 /\ bill.returned = 0
    BY <1>1 DEF Drafted
  <2>2. /\ TotalOf(m)' = TotalOf(m)
        /\ PaymentsOf(m)' = PaymentsOf(m) /\ Parts(m)' = Parts(m)
    BY <1>c, <2>1, ColumnsStay
  <2>3. CASE m = N
    <3>1. TotalOf(N) = 0
      BY <2>1, ColumnsOfNew
    <3>2. PaymentsOf(N) = {}
      BY <2>1 DEF TypeInv, TypeOK, PaymentsOf
    <3>3. SumFunction(Parts(N)) = 0
      <4>1. DOMAIN Parts(N) = {}
        BY <3>2 DEF Parts
      <4> QED
        BY <4>1, SumEmpty
    <3> QED
      BY <2>1, <2>2, <2>3, <3>1, <3>2, <3>3 DEF Projected
  <2>4. CASE m # N
    <3>1. m \in DOMAIN bills /\ bills'[m] = bills[m] /\ Projected(m)
      BY <1>a, <2>1, <2>4
    <3> QED
      BY <2>1, <2>2, <3>1 DEF Projected
  <2> QED
    BY <2>3, <2>4
<1>2. ASSUME PostStep \/ CancelStep \/ SellStep, NEW m \in DOMAIN bills'
      PROVE  Projected(m)'
  <2>1. /\ m \in DOMAIN bills /\ returns' = returns /\ payments' = payments
        /\ bills'[m].returned = bills[m].returned
        /\ bills'[m].supplier = bills[m].supplier
        /\ bills'[m].paid = bills[m].paid
    <3>1. CASE PostStep
      BY <3>1 DEF PostStep, Posted, BillChanged
    <3>2. CASE CancelStep
      BY <3>2 DEF CancelStep, Cancelled, BillChanged
    <3>3. CASE SellStep
      BY <3>3 DEF SellStep, SellElsewhere
    <3> QED
      BY <1>2, <3>1, <3>2, <3>3
  <2>2. /\ TotalOf(m)' = TotalOf(m)
        /\ PaymentsOf(m)' = PaymentsOf(m) /\ Parts(m)' = Parts(m)
    BY <1>c, <2>1, ColumnsStay
  <2> QED
    BY <1>a, <2>1, <2>2 DEF Projected
<1>3. ASSUME NEW key \in Keys, NEW n \in DOMAIN bills,
             NEW quantity \in [Variants -> Nat], NEW row, NEW bill, NEW N,
             GoodsBack(key, n, quantity, row, bill, N), NEW m \in DOMAIN bills'
      PROVE  Projected(m)'
  <2>1. /\ m \in DOMAIN bills /\ payments' = payments
        /\ bills'[m].supplier = bills[m].supplier
        /\ bills'[m].paid = bills[m].paid
        /\ m = n => bills'[m].returned = bills[m].returned + row.total
        /\ m # n => bills'[m].returned = bills[m].returned
    BY <1>3 DEF GoodsBack, BillChanged
  <2>2. ColumnsGrow(m, n, quantity, row)
    BY <1>3, ColumnsAfterReturn
  <2>3. TotalOf(m)' = TotalOf(m) + (IF m = n THEN row.total ELSE 0)
    BY <2>2 DEF ColumnsGrow
  <2>4. TotalOf(m) \in Int
    BY PriorType
  <2>5. bills'[m].returned = TotalOf(m)'
    BY <1>a, <2>1, <2>3, <2>4 DEF Projected
  <2>6. PaymentsOf(m)' = PaymentsOf(m) /\ Parts(m)' = Parts(m)
    BY <1>c, <2>1
  <2> QED
    BY <1>a, <2>1, <2>5, <2>6 DEF Projected
<1>4. ASSUME NEW key \in Keys, NEW supplier \in Suppliers, NEW allocations,
             NEW row, NEW N, Paid(key, supplier, allocations, row, N),
             NEW m \in DOMAIN bills'
      PROVE  Projected(m)'
  <2>1. /\ m \in DOMAIN bills /\ returns' = returns
        /\ bills'[m].supplier = bills[m].supplier
        /\ bills'[m].returned = bills[m].returned
        /\ bills'[m].paid = IF m \in DOMAIN allocations
                            THEN bills[m].paid + allocations[m] ELSE bills[m].paid
    BY <1>4 DEF Paid
  <2>2. bills'[m].paid = SumFunction(Parts(m)')
    <3>1. SumFunction(Parts(m)') = SumFunction(Parts(m))
            + (IF m \in DOMAIN allocations THEN allocations[m] ELSE 0)
      BY <1>4, PartsAfterPayment
    <3>2. bills[m].paid = SumFunction(Parts(m)) /\ bills[m].paid \in Nat
      BY <1>a, <2>1, RowTypes DEF Projected, Bill
    <3> QED
      BY <2>1, <3>1, <3>2
  <2>3. \A p \in PaymentsOf(m)' : payments'[p].supplier = bills'[m].supplier
    <3>1. /\ DOMAIN payments' = DOMAIN payments \cup {N}
          /\ payments'[N].supplier = supplier
          /\ payments'[N].allocations = allocations
          /\ \A p \in DOMAIN payments : payments'[p] = payments[p]
          /\ m \in DOMAIN allocations => supplier = bills[m].supplier
      BY <1>4 DEF Paid, AllocationAllowed
    <3>2. \A p \in PaymentsOf(m) : payments[p].supplier = bills[m].supplier
      BY <1>a, <2>1 DEF Projected
    <3> QED
      BY <2>1, <3>1, <3>2 DEF PaymentsOf
  <2>4. TotalOf(m)' = TotalOf(m)
    BY <2>1, ColumnsStay
  <2>5. bills[m].returned = TotalOf(m)
    BY <1>a, <2>1 DEF Projected
  <2> QED
    BY <2>1, <2>2, <2>3, <2>4, <2>5 DEF Projected
<1>5. \A m \in DOMAIN bills' : Projected(m)'
  BY <1>1, <1>2, <1>3, <1>4, StepShapes DEF DraftStep, ReturnStep, PayStep
<1> QED
  BY <1>5, <1>b

----------------------------------------------------------------------------
\* Once every line is back its value is, and so is the round-off: the bill has
\* come back as a whole.
LEMMA BackSettles ==
  ASSUME TypeInv, WithinBought, Rounding, PayableReconciles
  PROVE  FullReturnSettles
<1>1. \A n \in DOMAIN bills : /\ LinesRounded(n) /\ Payable(bills[n])
                              /\ bills[n] \in Bill
  BY RoundingByBill, PayableByBill, RowTypes
<1>2. ASSUME NEW n \in DOMAIN bills, bills[n].total > 0, AllBack(n)
      PROVE  bills[n].returned = bills[n].total /\ bills[n].outstanding = 0
  <2> DEFINE bill == bills[n]
  <2>1. /\ bill.total = CartTotal(bill.cart)
        /\ bill.returned = SumFunction(AmountsBack(n)) + PriorRoundOff(n)
        /\ \A v \in Variants : ReturnedAmount(n, v) = bill.cart.amount[v]
        /\ PriorRoundOff(n) = bill.cart.roundOff
    BY <1>1, <1>2 DEF LinesRounded, AllBack
  <2>2. AmountsBack(n) = [v \in Variants |-> bill.cart.amount[v]]
    BY <2>1 DEF AmountsBack
  <2>3. CartTotal(bill.cart)
          = SumFunction([v \in Variants |-> bill.cart.amount[v]]) + bill.cart.roundOff
    BY DEF CartTotal, SumOver
  <2>4. bill.returned = bill.total
    BY <2>1, <2>2, <2>3
  <2>5. /\ bill.total \in Nat /\ bill.paid \in Nat
        /\ bill.outstanding =
             IF bill.status = "CANCELLED" THEN 0
             ELSE Positive(bill.total - bill.paid - bill.returned)
    BY <1>1 DEF Bill, Payable
  <2> HIDE DEF bill
  <2>6. bill.outstanding = 0
    BY <2>4, <2>5 DEF Positive
  <2> QED
    BY <2>4, <2>6 DEF bill
<1> QED
  BY <1>2 DEF FullReturnSettles, WithinBought, AllBack

\* While the documents stay, what came back of them does.
LEMMA DocumentsStay ==
  ASSUME WithinBought, Rounding, bills' = bills, returns' = returns
  PROVE  WithinBought' /\ Rounding'
<1>1. /\ \A n, v : ReturnedQuantity(n, v)' = ReturnedQuantity(n, v)
      /\ \A n, v : ReturnedAmount(n, v)' = ReturnedAmount(n, v)
      /\ \A n : PriorRoundOff(n)' = PriorRoundOff(n)
      /\ \A n, v : Bought(n, v)' = Bought(n, v)
  BY DEF ReturnedQuantity, ReturnedAmount, PriorRoundOff, SumOver, ReturnsOf, Bought
<1>2. WithinBought'
  BY <1>1 DEF WithinBought
<1>3. \A n \in DOMAIN bills : LinesRounded(n)'
  <2>1. \A n \in DOMAIN bills : LinesRounded(n)
    BY RoundingByBill
  <2>2. \A n : AllBack(n)' = AllBack(n) /\ AmountsBack(n)' = AmountsBack(n)
    BY <1>1 DEF AllBack, AmountsBack, Remaining
  <2> QED
    BY <1>1, <2>1, <2>2 DEF LinesRounded, Remaining
<1>4. (Rounding <=> \A n \in DOMAIN bills : LinesRounded(n))'
  BY RoundingByBill, PTL
<1> QED
  BY <1>2, <1>3, <1>4

\* The inductive invariant holds of the empty tables.
LEMMA InitInv ==
  ASSUME Init
  PROVE  IInv
<1>1. /\ bills = <<>> /\ returns = <<>> /\ payments = <<>>
      /\ movements = {} /\ stock = [v \in Variants |-> 0]
  BY DEF Init
<1>2. DOMAIN bills = {} /\ DOMAIN returns = {} /\ DOMAIN payments = {}
  BY <1>1
<1>3. TypeInv
  <2>1. bills \in Seq(Bill) /\ returns \in Seq(Return) /\ payments \in Seq(Payment)
    BY <1>1
  <2> QED
    BY <1>1, <1>2, <2>1 DEF TypeInv, TypeOK
<1>4. Stamped /\ Documented /\ WithinBought /\ Rounding
  BY <1>1, <1>2 DEF Stamped, Documented, WithinBought, Rounding
<1>5. PayableReconciles /\ CreditIsOverpayment /\ ProjectionsReconcile /\ AppliedOnce
  BY <1>2 DEF PayableReconciles, CreditIsOverpayment, ProjectionsReconcile,
              AppliedOnce
<1> QED
  BY <1>3, <1>4, <1>5 DEF IInv

\* Every operation keeps it.
LEMMA StepInv ==
  ASSUME IInv, [Next]_vars
  PROVE  IInv'
<1>0. /\ TypeInv /\ Stamped /\ Documented /\ WithinBought /\ Rounding
      /\ PayableReconciles /\ CreditIsOverpayment /\ ProjectionsReconcile
      /\ AppliedOnce
  BY DEF IInv
<1>1. CASE Next
  <2>1. TypeInv' /\ Stamped' /\ Documented'
    BY <1>0, <1>1, TypeStep, StampedStep, DocumentedStep
  <2>2. WithinBought' /\ Rounding' /\ AppliedOnce'
    BY <1>0, <1>1, <2>1, WithinStep, RoundingStep, AppliedStep
  <2>3. PayableReconciles' /\ CreditIsOverpayment' /\ ProjectionsReconcile'
    BY <1>0, <1>1, <2>1, PayableStep, CreditStep, ProjectionsStep
  <2> QED
    BY <2>1, <2>2, <2>3 DEF IInv
<1>2. CASE UNCHANGED vars
  <2>1. /\ bills' = bills /\ returns' = returns /\ payments' = payments
        /\ movements' = movements /\ stock' = stock
    BY <1>2 DEF vars
  <2>2. TypeInv' /\ Stamped' /\ Documented'
    BY <1>0, <2>1 DEF TypeInv, TypeOK, Stamped, Documented, PostingKeyUsed,
                      CancelKeyUsed, ReturnKeyUsed
  <2>3. WithinBought' /\ Rounding'
    BY <1>0, <2>1, DocumentsStay
  <2>4. PayableReconciles' /\ AppliedOnce'
    BY <1>0, <2>1 DEF PayableReconciles, AppliedOnce
  <2>5. CreditIsOverpayment' /\ ProjectionsReconcile'
    BY <1>0, <2>1 DEF CreditIsOverpayment, ProjectionsReconcile, SumOver, ReturnsOf
  <2> QED
    BY <2>2, <2>3, <2>4, <2>5 DEF IInv
<1> QED
  BY <1>1, <1>2

\* IInv holds throughout every behaviour.
THEOREM Invariant ==
  Spec => []IInv
<1>1. Init => IInv
  BY InitInv
<1>2. IInv /\ [Next]_vars => IInv'
  BY StepInv
<1> QED
  BY <1>1, <1>2, PTL DEF Spec

----------------------------------------------------------------------------
\* The rows keep their types: no amount of a bill or a return goes below zero.
THEOREM TypeCorrect ==
  Spec => []TypeOK
<1>1. IInv => TypeOK
  BY DEF IInv, TypeInv
<1> QED
  BY <1>1, Invariant, PTL

\* What is owed for a bill is its total less what was paid and given back, in
\* whatever order payments and returns arrive.
THEOREM PayablesReconcile ==
  Spec => []PayableReconciles
<1>1. IInv => PayableReconciles
  BY DEF IInv
<1> QED
  BY <1>1, Invariant, PTL

\* The supplier owes what was paid and given back beyond the total.
THEOREM CreditsCorrect ==
  Spec => []CreditIsOverpayment
<1>1. IInv => CreditIsOverpayment
  BY DEF IInv
<1> QED
  BY <1>1, Invariant, PTL

\* The paid and returned amounts of a bill are those of its payments and
\* returns.
THEOREM ProjectionsCorrect ==
  Spec => []ProjectionsReconcile
<1>1. IInv => ProjectionsReconcile
  BY DEF IInv
<1> QED
  BY <1>1, Invariant, PTL

\* Once everything is back, in whatever portions, the returns are worth the
\* bill to the smallest unit and nothing is owed.
THEOREM FullReturnsSettle ==
  Spec => []FullReturnSettles
<1>1. IInv => FullReturnSettles
  BY BackSettles DEF IInv
<1> QED
  BY <1>1, Invariant, PTL

\* No key posts, cancels, returns or pays twice, and no supplier invoice is
\* entered twice.
THEOREM OnceEach ==
  Spec => []AppliedOnce
<1>1. IInv => AppliedOnce
  BY DEF IInv
<1> QED
  BY <1>1, Invariant, PTL

----------------------------------------------------------------------------
\* A document that moves goods under a key that none of its kind has used is
\* one step of the ledger, and one that moves nothing is none.
LEMMA DocumentPosts ==
  ASSUME TypeInv, NEW key \in Keys, NEW kind, NEW delta,
         FreshMove(key, kind, delta)
  PROVE  [Ledger!LedgerNext]_(Ledger!ledgerVars)
<1>1. /\ stock \in [Variants -> Nat]
      /\ kind \in Ledger!Kinds /\ delta \in [Variants -> Int]
      /\ \A v \in Variants : stock[v] + delta[v] \in Nat
      /\ \A m \in movements : ~(m.key = key /\ m.kind = kind)
      /\ movements' = movements \cup Ledger!Rows(key, kind, delta)
      /\ stock' = [v \in Variants |-> stock[v] + delta[v]]
  BY DEF TypeInv, FreshMove, Moved, PostMovements
<1>2. CASE Ledger!Rows(key, kind, delta) = {}
  <2>1. \A v \in Variants : delta[v] = 0
    BY <1>2 DEF Ledger!Rows
  <2>2. stock' = stock
    BY <1>1, <2>1
  <2> QED
    BY <1>1, <1>2, <2>2 DEF Ledger!ledgerVars
<1>3. CASE Ledger!Rows(key, kind, delta) # {}
  <2>1. [v \in Variants |-> stock'[v] - stock[v]] = delta
    BY <1>1
  <2>2. \A m \in Ledger!Rows(key, kind, delta), n \in movements :
          ~Ledger!SameSlot(m, n)
    BY <1>1, RowsType DEF Ledger!SameSlot
  <2>3. Ledger!Post(key, kind, delta)
    BY <1>1, <1>3, <2>2 DEF Ledger!Post
  <2>4. Ledger!Post(key, kind, [v \in Variants |-> stock'[v] - stock[v]])
    BY <2>1, <2>3
  <2> QED
    BY <1>1, <2>4 DEF Ledger!LedgerNext
<1> QED
  BY <1>2, <1>3

\* Every step is one of the ledger or none.
LEMMA StepRefines ==
  ASSUME IInv, [Next]_vars
  PROVE  [Ledger!LedgerNext]_(Ledger!ledgerVars)
<1>1. CASE Next
  <2>1. TypeInv /\ Documented
    BY DEF IInv
  <2>2. CASE UNCHANGED <<movements, stock>>
    BY <2>2 DEF Ledger!ledgerVars
  <2>3. CASE \E key \in Keys : \E kind, delta : FreshMove(key, kind, delta)
    BY <2>1, <2>3, DocumentPosts
  <2> QED
    BY <1>1, <2>1, <2>2, <2>3, StockSteps
<1>2. CASE UNCHANGED vars
  BY <1>2 DEF vars, Ledger!ledgerVars
<1> QED
  BY <1>1, <1>2

\* Every behaviour of bills, returns and payments is one of the ledger.
THEOREM LedgerImplemented ==
  Spec => ImplementsLedger
<1>1. Init => Ledger!LedgerInit
  BY DEF Init, Ledger!LedgerInit
<1>2. IInv /\ [Next]_vars => [Ledger!LedgerNext]_(Ledger!ledgerVars)
  BY StepRefines
<1> QED
  BY <1>1, <1>2, Invariant, PTL DEF Spec, ImplementsLedger, Ledger!LedgerSpec

----------------------------------------------------------------------------
\* The share of this service in a stock that others move as well.
\*
\* What is returned was bought by a bill in force.
Backed == \A i \in DOMAIN returns : bills[returns[i].bill].status = "POSTED"

\* A bill with returns is not cancelled.
LEMMA BackedStep ==
  ASSUME TypeInv, Backed, Next
  PROVE  Backed'
<1>0. /\ \/ DraftStep \/ PostStep \/ CancelStep
         \/ ReturnStep \/ PayStep \/ SellStep
      /\ \A i \in DOMAIN returns : returns[i].bill \in DOMAIN bills
  BY StepShapes DEF TypeInv, TypeOK
<1>1. CASE DraftStep
  BY <1>0, <1>1 DEF DraftStep, Drafted, Backed
<1>2. CASE PostStep
  BY <1>0, <1>2 DEF PostStep, Posted, BillChanged, Backed
<1>3. CASE CancelStep
  <2>1. PICK key, n, bill : n \in DOMAIN bills /\ Cancelled(key, n, bill)
    BY <1>3 DEF CancelStep
  <2>2. \A i \in DOMAIN returns : returns[i].bill # n
    BY <2>1 DEF Cancelled, CancelBill, HasDependants
  <2> QED
    BY <1>0, <2>1, <2>2 DEF Cancelled, BillChanged, Backed
<1>4. CASE ReturnStep
  <2>1. PICK key, n, quantity, row, bill, N :
             n \in DOMAIN bills /\ GoodsBack(key, n, quantity, row, bill, N)
    BY <1>4 DEF ReturnStep
  <2>2. /\ DOMAIN returns' = DOMAIN returns \cup {N}
        /\ returns'[N].bill = n /\ bills'[n].status = "POSTED"
        /\ \A i \in DOMAIN returns : returns'[i] = returns[i]
        /\ \A m \in DOMAIN bills \ {n} : bills'[m] = bills[m]
    BY <2>1 DEF GoodsBack, BillChanged
  <2> QED
    BY <1>0, <2>2 DEF Backed
<1>5. CASE PayStep
  BY <1>0, <1>5 DEF PayStep, Paid, Backed
<1>6. CASE SellStep
  BY <1>0, <1>6 DEF SellStep, SellElsewhere, Backed
<1> QED
  BY <1>0, <1>1, <1>2, <1>3, <1>4, <1>5, <1>6

\* What the bills in force put on the shelf.
InForce == {n \in DOMAIN bills : bills[n].status = "POSTED"}
Here(v) == [n \in InForce |-> Remaining(n, v)]
OnHand(v) == SumFunction(Here(v))

\* It is a finite sum of integers.
HereTyped ==
  /\ IsFiniteSet(InForce)
  /\ \A v \in Variants : Here(v) \in [InForce -> Int] /\ OnHand(v) \in Int

\* The rows give it its type.
LEMMA HereType ==
  TypeInv => HereTyped
<1> SUFFICES ASSUME TypeInv
             PROVE  HereTyped
  OBVIOUS
<1>1. IsFiniteSet(InForce) /\ InForce \subseteq DOMAIN bills
  BY RowTypes, FS_Subset DEF InForce
<1>2. ASSUME NEW v \in Variants, NEW n \in InForce
      PROVE  Remaining(n, v) \in Int
  <2>1. Bought(n, v) \in Nat /\ ReturnedQuantity(n, v) \in Nat
    BY <1>1, RowTypes, PriorType
  <2> QED
    BY <2>1 DEF Remaining
<1>3. \A v \in Variants : Here(v) \in [InForce -> Int]
  BY <1>2 DEF Here
<1> QED
  BY <1>1, <1>3, SumType DEF HereTyped, OnHand

\* A bill without returns has everything left.
LEMMA NothingBack ==
  ASSUME TypeInv, NEW n \in DOMAIN bills, \A i \in DOMAIN returns : returns[i].bill # n,
         NEW v \in Variants
  PROVE  Remaining(n, v) = bills[n].cart.quantity[v]
<1>1. ReturnsOf(n) = {}
  BY DEF ReturnsOf
<1>2. ReturnedQuantity(n, v) = 0
  BY <1>1, OfNone, ColumnSums DEF ColumnsAddUp
<1>3. Bought(n, v) \in Nat
  BY RowTypes
<1> QED
  BY <1>2, <1>3 DEF Remaining, Bought

\* The kinds of movements that only this service posts.
PurchaseKinds == {"PURCHASE_RECEIPT", "REVERSAL", "PURCHASE_RETURN"}

\* One document of this service moves the stock of the tracked goods and what
\* its bills put on the shelf alike.
PurchaseMove(key, kind, delta) ==
  /\ FreshMove(key, kind, delta) /\ kind \in PurchaseKinds
  /\ \A v \in Tracked : OnHand(v)' = OnHand(v) + delta[v]
NoPurchaseMove ==
  /\ UNCHANGED <<movements, stock>>
  /\ \A v \in Tracked : OnHand(v)' = OnHand(v)

\* Without a return, as much is left as before.
LEMMA RemainingStays ==
  ASSUME returns' = returns, NEW m, bills'[m].cart = bills[m].cart, NEW v
  PROVE  Remaining(m, v)' = Remaining(m, v)
BY ColumnsStay DEF Remaining, Bought

\* A posted bill puts its goods on the shelf.
LEMMA PostPuts ==
  ASSUME TypeInv, TypeInv', Backed, NEW key, NEW n \in DOMAIN bills, NEW bill,
         Posted(key, n, bill), NEW v \in Tracked
  PROVE  OnHand(v)' = OnHand(v) + Goods(bills[n].cart.quantity)[v]
<1>0. v \in Variants /\ HereTyped /\ HereTyped'
  <2>1. (TypeInv => HereTyped)'
    BY HereType, PTL
  <2> QED
    BY <2>1, HereType, PurchasesAssumption
<1>1. /\ DOMAIN bills' = DOMAIN bills /\ returns' = returns
      /\ bills[n].status = "DRAFT" /\ bills'[n].status = "POSTED"
      /\ \A m \in DOMAIN bills \ {n} : bills'[m] = bills[m]
      /\ bills'[n].cart = bills[n].cart
  BY DEF Posted, BillChanged
<1>2. InForce' = InForce \cup {n} /\ n \notin InForce
  BY <1>1 DEF InForce
<1>3. \A m \in DOMAIN bills : Remaining(m, v)' = Remaining(m, v)
  BY <1>1, RemainingStays
<1>4. Here(v)'[n] = bills[n].cart.quantity[v]
  <2>1. \A i \in DOMAIN returns : returns[i].bill # n
    BY <1>1 DEF Backed
  <2>2. Remaining(n, v) = bills[n].cart.quantity[v]
    BY <1>0, <2>1, NothingBack
  <2> QED
    BY <1>2, <1>3, <2>2 DEF Here
<1>5. \A m \in InForce : Here(v)'[m] = Here(v)[m]
  BY <1>2, <1>3 DEF Here, InForce
<1>6. OnHand(v)' = OnHand(v) + Here(v)'[n]
  <2> DEFINE before == Here(v)
             now == Here(v)'
  <2>1. /\ IsFiniteSet(InForce) /\ before \in [InForce -> Int]
        /\ now \in [InForce' -> Int]
        /\ \A m \in InForce : now[m] = before[m]
    BY <1>0, <1>5 DEF HereTyped
  <2> HIDE DEF before, now
  <2>2. SumFunction(now) = SumFunction(before) + now[n]
    BY <1>2, <2>1, SumGrows
  <2> QED
    BY <2>2 DEF OnHand, before, now
<1> QED
  BY <1>0, <1>4, <1>6 DEF Goods

\* A cancelled bill takes them off again.
LEMMA CancelTakes ==
  ASSUME TypeInv, TypeInv', NEW key, NEW n \in DOMAIN bills, NEW bill,
         Cancelled(key, n, bill), NEW v \in Tracked
  PROVE  OnHand(v)' = OnHand(v) + Minus(Goods(bills[n].cart.quantity))[v]
<1>0. v \in Variants /\ HereTyped /\ HereTyped'
  <2>1. (TypeInv => HereTyped)'
    BY HereType, PTL
  <2> QED
    BY <2>1, HereType, PurchasesAssumption
<1>1. /\ DOMAIN bills' = DOMAIN bills /\ returns' = returns
      /\ bills[n].status = "POSTED" /\ bills'[n].status = "CANCELLED"
      /\ \A m \in DOMAIN bills \ {n} : bills'[m] = bills[m]
      /\ bills'[n].cart = bills[n].cart
      /\ \A i \in DOMAIN returns : returns[i].bill # n
  BY DEF Cancelled, BillChanged, CancelBill, HasDependants
<1>2. InForce = InForce' \cup {n} /\ n \notin InForce'
  BY <1>1 DEF InForce
<1>3. \A m \in DOMAIN bills : Remaining(m, v)' = Remaining(m, v)
  BY <1>1, RemainingStays
<1>4. Here(v)[n] = bills[n].cart.quantity[v]
  <2>1. Remaining(n, v) = bills[n].cart.quantity[v]
    BY <1>0, <1>1, NothingBack
  <2> QED
    BY <1>2, <2>1 DEF Here
<1>5. \A m \in InForce' : Here(v)[m] = Here(v)'[m]
  BY <1>1, <1>2, <1>3 DEF Here, InForce
<1>6. OnHand(v) = OnHand(v)' + Here(v)[n]
  <2>1. /\ IsFiniteSet(InForce') /\ Here(v) \in [InForce -> Int]
        /\ Here(v)' \in [InForce' -> Int]
    BY <1>0 DEF HereTyped
  <2>2. SumFunction(Here(v)) = SumFunction(Here(v)') + Here(v)[n]
    BY <1>2, <1>5, <2>1, SumGrows
  <2> QED
    BY <2>2 DEF OnHand
<1>7. OnHand(v) \in Int /\ OnHand(v)' \in Int /\ bills[n].cart.quantity[v] \in Nat
  BY <1>0, CartQuantity DEF HereTyped
<1>8. Minus(Goods(bills[n].cart.quantity))[v] = -bills[n].cart.quantity[v]
  BY <1>0 DEF Minus, Goods
<1> QED
  BY <1>4, <1>6, <1>7, <1>8

\* A return takes off what it gives back.
LEMMA ReturnTakes ==
  ASSUME TypeInv, TypeInv', NEW key, NEW n \in DOMAIN bills,
         NEW quantity \in [Variants -> Nat], NEW row, NEW bill, NEW N,
         GoodsBack(key, n, quantity, row, bill, N), NEW v \in Tracked
  PROVE  OnHand(v)' = OnHand(v) + Minus(Goods(quantity))[v]
<1>0. v \in Variants /\ HereTyped /\ HereTyped'
  <2>1. (TypeInv => HereTyped)'
    BY HereType, PTL
  <2> QED
    BY <2>1, HereType, PurchasesAssumption
<1>1. /\ DOMAIN bills' = DOMAIN bills
      /\ bills[n].status = "POSTED" /\ bills'[n].status = "POSTED"
      /\ \A m \in DOMAIN bills \ {n} : bills'[m] = bills[m]
  BY DEF GoodsBack, BillChanged
<1>2. InForce' = InForce /\ n \in InForce
  BY <1>1 DEF InForce
<1>3. /\ Remaining(n, v)' = Remaining(n, v) - quantity[v]
      /\ \A m \in DOMAIN bills \ {n} : Remaining(m, v)' = Remaining(m, v)
  <2>1. ASSUME NEW m \in DOMAIN bills
        PROVE  /\ Remaining(m, v) \in Int
               /\ Remaining(m, v)'
                    = Remaining(m, v) - (IF m = n THEN quantity[v] ELSE 0)
    BY ZenonT(60), <1>0, RemainingAfterReturn
  <2> QED
    BY <2>1
<1>4. /\ Here(v)'[n] = Here(v)[n] - quantity[v]
      /\ \A m \in InForce \ {n} : Here(v)'[m] = Here(v)[m]
  BY <1>2, <1>3 DEF Here, InForce
<1>5. OnHand(v)' = OnHand(v) + (Here(v)'[n] - Here(v)[n])
  <2> DEFINE before == Here(v)
             now == Here(v)'
  <2>1. /\ IsFiniteSet(InForce) /\ before \in [InForce -> Int]
        /\ now \in [InForce -> Int]
        /\ \A m \in InForce \ {n} : now[m] = before[m]
    BY <1>0, <1>2, <1>4 DEF HereTyped
  <2> HIDE DEF before, now
  <2>2. SumFunction(now) = SumFunction(before) + (now[n] - before[n])
    BY <1>2, <2>1, SumChange
  <2> QED
    BY <2>2 DEF OnHand, before, now
<1>6. Here(v)[n] \in Int /\ OnHand(v) \in Int /\ quantity[v] \in Nat
  BY <1>0, <1>2 DEF HereTyped
<1>7. Minus(Goods(quantity))[v] = -quantity[v]
  BY <1>0 DEF Minus, Goods
<1> QED
  BY <1>4, <1>5, <1>6, <1>7

\* Drafts and payments move nothing.
LEMMA NothingMoves ==
  ASSUME TypeInv, DraftStep \/ PayStep
  PROVE  NoPurchaseMove
<1>1. /\ UNCHANGED <<returns, movements, stock>>
      /\ DOMAIN bills \subseteq DOMAIN bills'
      /\ \A m \in DOMAIN bills : /\ bills'[m].status = bills[m].status
                                 /\ bills'[m].cart = bills[m].cart
      /\ \A m \in DOMAIN bills' \ DOMAIN bills : bills'[m].status = "DRAFT"
  <2>1. CASE DraftStep
    BY <2>1 DEF DraftStep, Drafted
  <2>2. CASE PayStep
    BY <2>2 DEF PayStep, Paid
  <2> QED
    BY <2>1, <2>2
<1>2. InForce' = InForce
  BY <1>1 DEF InForce
<1>3. \A v, m : m \in InForce => Remaining(m, v)' = Remaining(m, v)
  BY <1>1, RemainingStays DEF InForce
<1>4. \A v : Here(v)' = Here(v)
  BY <1>2, <1>3 DEF Here
<1> QED
  BY <1>1, <1>4 DEF NoPurchaseMove, OnHand

\* Every operation moves the stock as it moves what the bills put there.
LEMMA OperationMoves ==
  ASSUME IInv, Backed, Operations
  PROVE  \/ NoPurchaseMove
         \/ \E key \in Keys : \E kind, delta : PurchaseMove(key, kind, delta)
<1>0. /\ TypeInv /\ TypeInv' /\ Documented
      /\ DraftStep \/ PostStep \/ CancelStep \/ ReturnStep \/ PayStep
  <2>1. TypeInv /\ Documented
    BY DEF IInv
  <2>2. Next
    BY DEF Next
  <2> QED
    BY <2>1, <2>2, TypeStep, OperationShapes
<1>1. CASE DraftStep \/ PayStep
  BY <1>0, <1>1, NothingMoves
<1>2. ASSUME NEW key \in Keys, NEW n \in DOMAIN bills, NEW bill, Posted(key, n, bill)
      PROVE  \E kind, delta : PurchaseMove(key, kind, delta)
  <2>1. FreshMove(key, "PURCHASE_RECEIPT", Goods(bills[n].cart.quantity))
    BY <1>0, <1>2, PostIsFresh
  <2>2. \A v \in Tracked :
          OnHand(v)' = OnHand(v) + Goods(bills[n].cart.quantity)[v]
    BY <1>0, <1>2, PostPuts
  <2> QED
    BY <2>1, <2>2 DEF PurchaseMove, PurchaseKinds
<1>3. ASSUME NEW key \in Keys, NEW n \in DOMAIN bills, NEW bill,
             Cancelled(key, n, bill)
      PROVE  \E kind, delta : PurchaseMove(key, kind, delta)
  <2>1. FreshMove(key, "REVERSAL", Minus(Goods(bills[n].cart.quantity)))
    BY <1>0, <1>3, CancelIsFresh
  <2>2. \A v \in Tracked :
          OnHand(v)' = OnHand(v) + Minus(Goods(bills[n].cart.quantity))[v]
    BY <1>0, <1>3, CancelTakes
  <2> QED
    BY <2>1, <2>2 DEF PurchaseMove, PurchaseKinds
<1>4. ASSUME NEW key \in Keys, NEW n \in DOMAIN bills,
             NEW quantity \in [Variants -> Nat], NEW row, NEW bill, NEW N,
             GoodsBack(key, n, quantity, row, bill, N)
      PROVE  \E kind, delta : PurchaseMove(key, kind, delta)
  <2>1. FreshMove(key, "PURCHASE_RETURN", Minus(Goods(quantity)))
    BY <1>0, <1>4, ReturnIsFresh
  <2>2. \A v \in Tracked : OnHand(v)' = OnHand(v) + Minus(Goods(quantity))[v]
    BY <1>0, <1>4, ReturnTakes
  <2> QED
    BY <2>1, <2>2 DEF PurchaseMove, PurchaseKinds
<1> QED
  BY <1>0, <1>1, <1>2, <1>3, <1>4 DEF PostStep, CancelStep, ReturnStep

\* Another service moved goods, with movements of kinds that are not of this one.
MovedElsewhere ==
  /\ UNCHANGED <<bills, returns, payments>>
  /\ movements' \subseteq Ledger!Movements /\ stock' \in [Variants -> Nat]
  /\ \A m \in movements' \ movements : m.kind \notin PurchaseKinds

\* Whatever others do to the stock, the documents of this service stay right.
LEMMA ElsewhereKeeps ==
  ASSUME IInv, Backed, MovedElsewhere
  PROVE  IInv' /\ Backed' /\ \A v : OnHand(v)' = OnHand(v)
<1>0. /\ TypeInv /\ Stamped /\ Documented /\ WithinBought /\ Rounding
      /\ PayableReconciles /\ CreditIsOverpayment /\ ProjectionsReconcile
      /\ AppliedOnce
  BY DEF IInv
<1>1. bills' = bills /\ returns' = returns /\ payments' = payments
  BY DEF MovedElsewhere
<1>2. TypeInv' /\ Stamped'
  BY <1>0, <1>1 DEF MovedElsewhere, TypeInv, TypeOK, Stamped
<1>3. Documented'
  BY <1>0, <1>1 DEF MovedElsewhere, PurchaseKinds, Documented, PostingKeyUsed,
                    CancelKeyUsed, ReturnKeyUsed
<1>4. WithinBought' /\ Rounding'
  BY <1>0, <1>1, DocumentsStay
<1>5. PayableReconciles' /\ AppliedOnce'
  BY <1>0, <1>1 DEF PayableReconciles, AppliedOnce
<1>6. CreditIsOverpayment' /\ ProjectionsReconcile'
  BY <1>0, <1>1 DEF CreditIsOverpayment, ProjectionsReconcile, SumOver, ReturnsOf
<1>7. Backed'
  BY <1>1 DEF Backed
<1>8. \A v : OnHand(v)' = OnHand(v)
  BY <1>1 DEF OnHand, Here, InForce, Remaining, Bought, ReturnedQuantity, SumOver,
              ReturnsOf
<1> QED
  BY <1>2, <1>3, <1>4, <1>5, <1>6, <1>7, <1>8 DEF IInv
=============================================================================
