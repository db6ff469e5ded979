---------------------------- MODULE Sales_proofs ----------------------------
(***************************************************************************)
(* What Sales promises for any number of variants, registers, customers,   *)
(* keys and carts.  What a return is worth is decided by rounding, so the  *)
(* proofs use no more of it than the code does: the last return of an      *)
(* invoice gives back whatever the earlier ones have left of its total.    *)
(***************************************************************************)
EXTENDS Sales, FiniteSetTheorems, SequenceTheorems, SumTheorems, TLAPS

TypeInv == TypeOK /\ stock \in [Variants -> Nat]

\* Money moves only through sessions that were opened, and none is closed.
Drawers ==
  /\ \A n \in DOMAIN invoices : sessions[invoices[n].req.register] # None
  /\ \A i \in DOMAIN returns : returns[i].details # None =>
       sessions[returns[i].details.register] # None

\* Every movement of a sale or a return belongs to a document, which keeps its
\* slot taken.
Documented ==
  \A m \in movements :
    /\ m.kind = "SALE_ISSUE" => \E n \in DOMAIN invoices : invoices[n].key = m.key
    /\ m.kind = "SALES_RETURN" => \E i \in DOMAIN returns : returns[i].key = m.key

IInv ==
  /\ TypeInv
  /\ Drawers
  /\ Documented
  /\ InvoiceReconciles
  /\ ReceivableIsOutstanding
  /\ CreditLimitKept
  /\ DrawerReconciles
  /\ ReturnedWithinSold
  /\ FullReturnSettles
  /\ KeysAppliedOnce

----------------------------------------------------------------------------
\* A sum over a finite set of rows.
LEMMA SumOfNat ==
  ASSUME NEW S, IsFiniteSet(S), NEW f \in [S -> Nat]
  PROVE  SumFunction(f) \in Nat
<1>1. f \in [S -> Int] /\ \A x \in S : f[x] >= 0
  OBVIOUS
<1>2. SumFunction(f) \in Int
  BY <1>1, SumType
<1>3. SumFunction(f) >= 0
  BY <1>1, SumNonNegative
<1> QED
  BY <1>2, <1>3

\* What earlier returns of an invoice add up to is a natural number.
LEMMA PriorType ==
  ASSUME TypeOK, NEW n, NEW v \in Variants
  PROVE  /\ IsFiniteSet(ReturnsOf(n))
         /\ Prior(n, "quantity")[v] \in Nat
         /\ Prior(n, "net")[v] \in Nat
         /\ Prior(n, "tax")[v] \in Nat
         /\ Prior(n, "lineTotal")[v] \in Nat
<1>1. returns \in Seq(Return)
  BY DEF TypeOK
<1>2. IsFiniteSet(DOMAIN returns) /\ \A i \in DOMAIN returns : returns[i] \in Return
  BY <1>1, RowsFinite
<1>3. IsFiniteSet(ReturnsOf(n))
  BY <1>2, FS_Subset DEF ReturnsOf
<1>4. /\ [i \in ReturnsOf(n) |-> returns[i]["quantity"][v]] \in [ReturnsOf(n) -> Nat]
      /\ [i \in ReturnsOf(n) |-> returns[i]["net"][v]] \in [ReturnsOf(n) -> Nat]
      /\ [i \in ReturnsOf(n) |-> returns[i]["tax"][v]] \in [ReturnsOf(n) -> Nat]
      /\ [i \in ReturnsOf(n) |-> returns[i]["lineTotal"][v]] \in [ReturnsOf(n) -> Nat]
  BY <1>2 DEF ReturnsOf, Return
<1>5. /\ Prior(n, "quantity")[v]
           = SumFunction([i \in ReturnsOf(n) |-> returns[i]["quantity"][v]])
      /\ Prior(n, "net")[v]
           = SumFunction([i \in ReturnsOf(n) |-> returns[i]["net"][v]])
      /\ Prior(n, "tax")[v]
           = SumFunction([i \in ReturnsOf(n) |-> returns[i]["tax"][v]])
      /\ Prior(n, "lineTotal")[v]
           = SumFunction([i \in ReturnsOf(n) |-> returns[i]["lineTotal"][v]])
  BY DEF Prior, SumOver
<1> QED
  BY <1>3, <1>4, <1>5, SumOfNat

\* A share of a value is an integer.
LEMMA ShareType ==
  ASSUME NEW value \in Int, NEW quantity \in Nat \ {0}, NEW q \in Nat,
         NEW priorValue \in Int, NEW priorQuantity
  PROVE  Share(value, quantity, q, priorValue, priorQuantity) \in Int
<1>1. value * q \in Int
  OBVIOUS
<1>2. \A a \in Int : HalfUp(a, quantity) \in Int
  BY DEF HalfUp
<1> QED
  BY <1>1, <1>2 DEF Share

\* So are the portions of the lines of an invoice.
LEMMA PortionType ==
  ASSUME TypeOK, NEW n \in DOMAIN invoices, NEW quantity \in [Variants -> Nat],
         \A v \in Variants : quantity[v] <= Remaining(n, v),
         NEW value \in [Variants -> Nat],
         NEW field \in {"net", "tax", "lineTotal"}
  PROVE  Portion(n, quantity, value, field) \in [Variants -> Int]
<1> SUFFICES ASSUME NEW v \in Variants, quantity[v] # 0
             PROVE  Share(value[v], Sold(n, v), quantity[v],
                          Prior(n, field)[v], ReturnedQuantity(n, v)) \in Int
  BY DEF Portion
<1>1. ReturnedQuantity(n, v) \in Nat /\ Prior(n, field)[v] \in Nat
  BY PriorType DEF ReturnedQuantity
<1>2. Sold(n, v) \in Nat
  <2>1. invoices \in Seq(Invoice)
    BY DEF TypeOK
  <2>2. invoices[n] \in Invoice
    BY <2>1, RowsFinite
  <2> QED
    BY <2>2, SalesAssumption DEF Sold, Invoice, SaleRequests, CartType
<1>3. Sold(n, v) \in Nat \ {0}
  BY <1>1, <1>2 DEF Remaining
<1> QED
  BY <1>1, <1>3, ShareType

----------------------------------------------------------------------------
\* What posting leaves behind: one more invoice inv for the request.
InvoicePosted(key, req, inv) ==
  /\ inv \in Invoice
  /\ inv.key = key /\ inv.req = req /\ inv.status = "POSTED"
  /\ inv.total > 0 /\ inv.paid <= inv.total
  /\ inv.outstanding = inv.total - inv.paid
  /\ inv.returned = 0 /\ inv.refunded = 0
  /\ invoices' = Append(invoices, inv)

\* What postInvoice leaves behind: one more invoice, within the credit limit, and its debt.
LEMMA PostShape ==
  ASSUME TypeOK, NEW key \in Keys, NEW req \in SaleRequests,
         PostInvoice(key, req)
  PROVE  \E inv : /\ InvoicePosted(key, req, inv)
                  /\ CreditAllows(req.customer, inv.outstanding)
                  /\ receivable' =
                       [c \in Customers |-> receivable[c] +
                          (IF c = req.customer THEN inv.outstanding ELSE 0)]
<1> DEFINE total == CartTotal(req.cart)
           paid == Tendered(req.paid)
           inv == [key |-> key, number |-> nextNumber, req |-> req,
                   status |-> "POSTED", total |-> total, paid |-> paid,
                   outstanding |-> total - paid, returned |-> 0,
                   refunded |-> 0, cancelKey |-> None]
<1>1. /\ total \in Nat \ {0} /\ paid \in 0..total
      /\ invoices' = Append(invoices, inv)
      /\ CreditAllows(req.customer, total - paid)
      /\ receivable' = [c \in Customers |-> receivable[c] +
                          (IF c = req.customer THEN total - paid ELSE 0)]
  BY DEF PostInvoice
<1>2. /\ paid \in Nat /\ total - paid \in Nat /\ paid <= total /\ total > 0
  BY <1>1
<1>3. nextNumber \in Nat \ {0}
  BY DEF TypeOK
<1> HIDE DEF total, paid
<1>4. inv \in Invoice
  BY <1>1, <1>2, <1>3 DEF Invoice
<1>5. InvoicePosted(key, req, inv)
  BY <1>1, <1>2, <1>4 DEF InvoicePosted
<1>6. inv.outstanding = total - paid
  OBVIOUS
<1> QED
  BY <1>1, <1>5, <1>6

\* What a return or a cancellation leaves behind: one more return row, and the
\* invoice as inv.
GoodsReturned(key, n, quantity, details, cancel, row, inv) ==
  LET old == invoices[n]
  IN  /\ row \in Return
      /\ row.key = key /\ row.invoice = n /\ row.quantity = quantity
      /\ row.total > 0 /\ row.total = row.applied + row.refund
      /\ row.applied = Least(old.outstanding, row.total)
      /\ row.refund > 0 => details # None /\ sessions[details.register] # None
      /\ row.details = IF row.refund > 0 THEN details ELSE None
      /\ returns' = Append(returns, row)
      /\ inv \in Invoice
      /\ inv.key = old.key /\ inv.req = old.req
      /\ inv.total = old.total /\ inv.paid = old.paid
      /\ inv.status = IF cancel THEN "CANCELLED" ELSE old.status
      /\ inv.returned = old.returned + row.total
      /\ inv.returned <= inv.total
      /\ inv.refunded = old.refunded + row.refund
      /\ inv.outstanding = NextOutstanding(old, inv.returned, cancel)
      /\ Completes(n, quantity) => inv.returned = inv.total
      /\ invoices' = [invoices EXCEPT ![n] = inv]
      /\ sessions' =
           IF FromDrawer(details, row.refund)
           THEN [sessions EXCEPT ![details.register].refunds = @ + row.refund]
           ELSE sessions
      /\ receivable' =
           [c \in Customers |-> receivable[c] -
              (IF c = old.req.customer THEN row.applied ELSE 0)]

\* What recordReturn leaves behind: one more return, and the projections of its invoice.
LEMMA ReturnShape ==
  ASSUME TypeOK, NEW key \in Keys, NEW n \in DOMAIN invoices,
         NEW quantity \in [Variants -> Nat], NEW details \in RefundDetails,
         NEW cancel \in BOOLEAN,
         RecordReturn(key, n, quantity, details, cancel)
  PROVE  \E row, inv : GoodsReturned(key, n, quantity, details, cancel, row, inv)
<1> DEFINE old == invoices[n]
           items == ReturnItems(n, quantity)
           lineTotal == SumOver(Variants, LAMBDA v : items.lineTotal[v])
           roundOff == IF Completes(n, quantity)
                       THEN old.total - old.returned - lineTotal ELSE 0
           total == lineTotal + roundOff
           applied == Least(old.outstanding, total)
           refund == total - applied
           row == [key |-> key, invoice |-> n, quantity |-> quantity,
                   net |-> items.net, tax |-> items.tax,
                   lineTotal |-> items.lineTotal,
                   total |-> total, applied |-> applied, refund |-> refund,
                   details |-> IF refund > 0 THEN details ELSE None]
           inv == [old EXCEPT
                     !.returned = old.returned + total,
                     !.refunded = old.refunded + refund,
                     !.outstanding = NextOutstanding(old, old.returned + total, cancel),
                     !.status = IF cancel THEN "CANCELLED" ELSE old.status,
                     !.cancelKey = IF cancel THEN key ELSE old.cancelKey]
<1>1. /\ \A v \in Variants : quantity[v] <= Remaining(n, v)
      /\ ItemsValid(items)
      /\ ReturnValid(old, roundOff, total)
      /\ RefundPayable(details, refund)
      /\ returns' = Append(returns, row)
      /\ invoices' = [invoices EXCEPT ![n] = inv]
      /\ sessions' = IF FromDrawer(details, refund)
                     THEN [sessions EXCEPT ![details.register].refunds = @ + refund]
                     ELSE sessions
      /\ receivable' = [c \in Customers |-> receivable[c] -
                          (IF c = old.req.customer THEN applied ELSE 0)]
  BY DEF RecordReturn
<1>2. old \in Invoice
  <2>1. invoices \in Seq(Invoice)
    BY DEF TypeOK
  <2> QED
    BY <2>1, RowsFinite
<1>3. /\ old.total \in Nat /\ old.paid \in Nat /\ old.outstanding \in Nat
      /\ old.returned \in Nat /\ old.refunded \in Nat
  BY <1>2 DEF Invoice
<1>4. /\ items.quantity = quantity
      /\ items.net \in [Variants -> Int] /\ items.tax \in [Variants -> Int]
      /\ items.lineTotal \in [Variants -> Int]
  <2>1. /\ old.req.cart.net \in [Variants -> Nat]
        /\ old.req.cart.tax \in [Variants -> Nat]
    BY <1>2, SalesAssumption DEF Invoice, SaleRequests, CartType
  <2>2. LineTotals(old.req.cart) \in [Variants -> Nat]
    BY SMTT(60), <2>1 DEF LineTotals
  <2>3. /\ Portion(n, quantity, old.req.cart.net, "net") \in [Variants -> Int]
        /\ Portion(n, quantity, old.req.cart.tax, "tax") \in [Variants -> Int]
        /\ Portion(n, quantity, LineTotals(old.req.cart), "lineTotal") \in [Variants -> Int]
    BY <1>1, <2>1, <2>2, PortionType
  <2> QED
    BY <2>3 DEF ReturnItems
<1>5. /\ items.net \in [Variants -> Nat] /\ items.tax \in [Variants -> Nat]
      /\ items.lineTotal \in [Variants -> Nat]
  <2> SUFFICES ASSUME NEW v \in Variants
               PROVE  items.net[v] >= 0 /\ items.tax[v] >= 0 /\ items.lineTotal[v] >= 0
    BY <1>4
  <2>1. CASE quantity[v] = 0
    BY <2>1 DEF ReturnItems, Portion
  <2>2. CASE quantity[v] > 0
    BY <1>1, <1>4, <2>2 DEF ItemsValid
  <2> QED
    BY <2>1, <2>2
<1>6. lineTotal \in Nat
  <2>1. [v \in Variants |-> items.lineTotal[v]] \in [Variants -> Nat]
    BY <1>5
  <2>2. lineTotal = SumFunction([v \in Variants |-> items.lineTotal[v]])
    BY DEF SumOver
  <2> HIDE DEF lineTotal, items
  <2> QED
    BY <2>1, <2>2, SumOfNat, SalesAssumption
<1> HIDE DEF lineTotal, items
<1>7. Completes(n, quantity) => total = old.total - old.returned
  BY <1>3, <1>6
<1>8. total \in Nat /\ total > 0 /\ old.returned + total <= old.total
  BY <1>1 DEF ReturnValid
<1> HIDE DEF total, roundOff
<1>9. /\ applied \in Nat /\ refund \in Nat /\ total = applied + refund
  BY <1>3, <1>8 DEF Least
<1>10. refund > 0 => details # None /\ sessions[details.register] # None
  BY <1>1 DEF RefundPayable
<1> HIDE DEF refund
<1>11. row \in Return
  <2>1. invoices \in Seq(Invoice)
    BY DEF TypeOK
  <2>2. n \in Nat \ {0}
    BY <2>1, RowsFinite
  <2>3. (IF refund > 0 THEN details ELSE None) \in RefundDetails
    BY DEF RefundDetails
  <2> QED
    BY <1>5, <1>8, <1>9, <2>2, <2>3 DEF Return
<1>12. NextOutstanding(old, old.returned + total, cancel) \in Nat
  BY <1>3, <1>8 DEF NextOutstanding, Positive
<1>13. /\ inv \in Invoice
       /\ inv.key = old.key /\ inv.req = old.req
       /\ inv.total = old.total /\ inv.paid = old.paid
       /\ inv.status = IF cancel THEN "CANCELLED" ELSE old.status
       /\ inv.returned = old.returned + total
       /\ inv.refunded = old.refunded + refund
       /\ inv.outstanding = NextOutstanding(old, inv.returned, cancel)
  <2> DEFINE back == old.returned + total
             paidBack == old.refunded + refund
             open == NextOutstanding(old, back, cancel)
             status == IF cancel THEN "CANCELLED" ELSE old.status
             cancelKey == IF cancel THEN key ELSE old.cancelKey
  <2>1. /\ back \in Nat /\ paidBack \in Nat /\ open \in Nat
        /\ status \in {"POSTED", "CANCELLED"} /\ cancelKey \in Keys \cup {None}
    BY <1>2, <1>3, <1>8, <1>9, <1>12 DEF Invoice
  <2>2. inv = [old EXCEPT !.returned = back, !.refunded = paidBack,
                          !.outstanding = open, !.status = status,
                          !.cancelKey = cancelKey]
    OBVIOUS
  <2>3. open = NextOutstanding(old, back, cancel)
    OBVIOUS
  <2> HIDE DEF back, paidBack, open, status, cancelKey, inv
  <2>4. inv \in Invoice
    BY <1>2, <2>1, <2>2 DEF Invoice
  <2>5. /\ inv.key = old.key /\ inv.req = old.req
        /\ inv.total = old.total /\ inv.paid = old.paid
        /\ inv.status = status /\ inv.returned = back
        /\ inv.refunded = paidBack /\ inv.outstanding = open
    BY <1>2, <2>2 DEF Invoice
  <2> QED
    BY <2>3, <2>4, <2>5 DEF back, paidBack, status
<1>14. inv.returned <= inv.total /\ (Completes(n, quantity) => inv.returned = inv.total)
  BY <1>3, <1>7, <1>8, <1>13
<1>15. /\ row.key = key /\ row.invoice = n /\ row.quantity = quantity
       /\ row.total = total /\ row.applied = applied /\ row.refund = refund
       /\ row.details = IF refund > 0 THEN details ELSE None
  OBVIOUS
<1>16. applied = Least(old.outstanding, total)
  OBVIOUS
<1> HIDE DEF applied, row, inv
<1>17. /\ sessions' = IF FromDrawer(details, row.refund)
                     THEN [sessions EXCEPT ![details.register].refunds = @ + row.refund]
                     ELSE sessions
       /\ receivable' = [c \in Customers |-> receivable[c] -
                           (IF c = old.req.customer THEN row.applied ELSE 0)]
  BY <1>1, <1>15, Zenon
<1>18. GoodsReturned(key, n, quantity, details, cancel, row, inv)
  BY <1>1, <1>17, <1>8, <1>9, <1>10, <1>11, <1>13, <1>14, <1>15, <1>16 DEF GoodsReturned
<1> QED
  BY <1>18

\* A return or a cancellation, with what its handler asks before it records.
AnyReturn(key, n, quantity, details, cancel) ==
  /\ ~ReturnKeyUsed(key)
  /\ invoices[n].status = "POSTED"
  /\ cancel => Completes(n, quantity)
  /\ RecordReturn(key, n, quantity, details, cancel)

AnyReturnStep ==
  \E key \in Keys, n \in DOMAIN invoices, quantity \in [Variants -> Nat],
     details \in RefundDetails, cancel \in BOOLEAN :
    AnyReturn(key, n, quantity, details, cancel)

OpenStep == \E key \in Keys, r \in Registers : OpenSession(key, r)
PostStep == \E key \in Keys, req \in SaleRequests : PostInvoice(key, req)

\* The four operations are three kinds of steps.
LEMMA StepKinds ==
  ASSUME TypeOK, ReturnedWithinSold, Next
  PROVE  OpenStep \/ PostStep \/ AnyReturnStep
<1>1. ASSUME NEW key \in Keys, NEW n \in DOMAIN invoices,
             NEW details \in RefundDetails, NEW basket \in Baskets,
             CreateReturn(key, n, basket, details)
      PROVE  AnyReturnStep
  <2>1. basket \in [Variants -> Nat]
    BY SalesAssumption
  <2>2. AnyReturn(key, n, basket, details, FALSE)
    BY <1>1 DEF CreateReturn, AnyReturn
  <2> QED
    BY <2>1, <2>2 DEF AnyReturnStep
<1>2. ASSUME NEW key \in Keys, NEW n \in DOMAIN invoices,
             NEW details \in RefundDetails, CancelInvoice(key, n, details)
      PROVE  AnyReturnStep
  <2> DEFINE rest == [v \in Variants |-> Remaining(n, v)]
  <2>1. rest \in [Variants -> Nat]
    <3> SUFFICES ASSUME NEW v \in Variants
                 PROVE  Remaining(n, v) \in Nat
      OBVIOUS
    <3>1. invoices \in Seq(Invoice)
      BY DEF TypeOK
    <3>2. invoices[n] \in Invoice
      BY <3>1, RowsFinite
    <3>3. Sold(n, v) \in Nat
      BY <3>2, SalesAssumption DEF Sold, Invoice, SaleRequests, CartType
    <3>4. ReturnedQuantity(n, v) \in Nat /\ ReturnedQuantity(n, v) <= Sold(n, v)
      BY PriorType DEF ReturnedQuantity, ReturnedWithinSold
    <3> QED
      BY <3>3, <3>4 DEF Remaining
  <2>2. Completes(n, rest)
    BY DEF Completes
  <2>3. AnyReturn(key, n, rest, details, TRUE)
    BY <1>2, <2>2 DEF CancelInvoice, AnyReturn
  <2> HIDE DEF rest
  <2> QED
    BY <2>1, <2>3 DEF AnyReturnStep
<1> QED
  BY <1>1, <1>2 DEF Next, OpenStep, PostStep

\* The tables after a sale, whose invoice has number N.
SaleRows(N, inv) ==
  /\ N \in Nat \ {0}
  /\ invoices' \in Seq(Invoice)
  /\ N \notin DOMAIN invoices
  /\ DOMAIN invoices' = DOMAIN invoices \cup {N}
  /\ invoices'[N] = inv
  /\ \A n \in DOMAIN invoices : invoices'[n] = invoices[n]

\* A sale adds one row to each sum over invoices.
LEMMA RowsAfterSale ==
  ASSUME TypeOK, NEW key, NEW req, NEW inv, InvoicePosted(key, req, inv)
  PROVE  \E N : SaleRows(N, inv)
<1>1. invoices \in Seq(Invoice) /\ inv \in Invoice /\ invoices' = Append(invoices, inv)
  BY DEF TypeOK, InvoicePosted
<1> QED
  BY <1>1, RowAppended DEF SaleRows

\* The tables after a return, whose row has number N.
ReturnRows(N, n, row, inv) ==
  /\ N \in Nat \ {0}
  /\ invoices' \in Seq(Invoice)
  /\ DOMAIN invoices' = DOMAIN invoices
  /\ invoices'[n] = inv
  /\ \A m \in DOMAIN invoices \ {n} : invoices'[m] = invoices[m]
  /\ returns' \in Seq(Return)
  /\ N \notin DOMAIN returns
  /\ DOMAIN returns' = DOMAIN returns \cup {N}
  /\ returns'[N] = row
  /\ \A i \in DOMAIN returns : returns'[i] = returns[i]

\* A return adds one row to each sum over returns and rewrites one invoice.
LEMMA RowsAfterReturn ==
  ASSUME TypeOK, NEW key, NEW n \in DOMAIN invoices, NEW quantity, NEW details,
         NEW cancel \in BOOLEAN, NEW row, NEW inv,
         GoodsReturned(key, n, quantity, details, cancel, row, inv)
  PROVE  \E N : ReturnRows(N, n, row, inv)
<1>1. /\ invoices \in Seq(Invoice) /\ inv \in Invoice
      /\ invoices' = [invoices EXCEPT ![n] = inv]
      /\ returns \in Seq(Return) /\ row \in Return
      /\ returns' = Append(returns, row)
  BY DEF TypeOK, GoodsReturned
<1> QED
  BY <1>1, RowAppended, RowUpdated DEF ReturnRows

----------------------------------------------------------------------------
\* The rows of a document are movements under its key.
LEMMA RowsType ==
  ASSUME NEW key \in Keys, NEW kind \in Ledger!Kinds,
         NEW delta \in [Variants -> Int]
  PROVE  /\ Ledger!Rows(key, kind, delta) \subseteq Ledger!Movements
         /\ \A m \in Ledger!Rows(key, kind, delta) : m.key = key /\ m.kind = kind
<1> SUFFICES ASSUME NEW v \in Variants, delta[v] # 0
             PROVE  [key |-> key, kind |-> kind, variant |-> v,
                     quantity |-> delta[v]] \in Ledger!Movements
  BY DEF Ledger!Rows
<1>1. delta[v] \in Int \ {0}
  OBVIOUS
<1> HIDE DEF Ledger!Kinds
<1> QED
  BY <1>1 DEF Ledger!Movements

\* What a sale takes off the shelf, and a return puts back.
LEMMA GoodsMoved ==
  ASSUME TypeInv
  PROVE  /\ \A cart \in Carts : StockSuffices(cart) =>
              /\ Issued(cart) \in [Variants -> Int]
              /\ \A v \in Variants : stock[v] + Issued(cart)[v] \in Nat
         /\ \A quantity \in [Variants -> Nat] :
              /\ ReturnedGoods(quantity) \in [Variants -> Int]
              /\ \A v \in Variants : stock[v] + ReturnedGoods(quantity)[v] \in Nat
<1>1. stock \in [Variants -> Nat]
  BY DEF TypeInv
<1>2. ASSUME NEW cart \in Carts, StockSuffices(cart), NEW v \in Variants
      PROVE  Issued(cart)[v] \in Int /\ stock[v] + Issued(cart)[v] \in Nat
  <2>1. cart.quantity[v] \in Nat
    BY SalesAssumption DEF CartType
  <2>2. v \in Tracked => cart.quantity[v] <= stock[v]
    BY <1>2 DEF StockSuffices
  <2>3. Issued(cart)[v] = IF v \in Tracked THEN -cart.quantity[v] ELSE 0
    BY DEF Issued
  <2> QED
    BY <1>1, <2>1, <2>2, <2>3
<1>3. ASSUME NEW quantity \in [Variants -> Nat], NEW v \in Variants
      PROVE  /\ ReturnedGoods(quantity)[v] \in Int
             /\ stock[v] + ReturnedGoods(quantity)[v] \in Nat
  BY <1>1 DEF ReturnedGoods
<1>4. \A cart : Issued(cart) = [v \in Variants |-> Issued(cart)[v]]
  BY DEF Issued
<1>5. \A quantity : ReturnedGoods(quantity)
                      = [v \in Variants |-> ReturnedGoods(quantity)[v]]
  BY DEF ReturnedGoods
<1>6. \A cart \in Carts : StockSuffices(cart) => Issued(cart) \in [Variants -> Int]
  BY <1>2, <1>4
<1>7. \A quantity \in [Variants -> Nat] : ReturnedGoods(quantity) \in [Variants -> Int]
  BY <1>3, <1>5
<1> QED
  BY <1>2, <1>3, <1>6, <1>7

\* Each operation keeps the types.
LEMMA TypeStep ==
  ASSUME TypeInv, ReturnedWithinSold, Next
  PROVE  TypeInv'
<1>0. /\ TypeOK /\ (OpenStep \/ PostStep \/ AnyReturnStep)
      /\ sessions \in [Registers -> Session \cup {None}]
      /\ nextNumber \in Nat \ {0} /\ receivable \in [Customers -> Int]
      /\ movements \subseteq Ledger!Movements /\ stock \in [Variants -> Nat]
      /\ \A i \in DOMAIN returns : returns[i].invoice \in DOMAIN invoices
  BY StepKinds DEF TypeInv, TypeOK
<1>1. ASSUME NEW key \in Keys, NEW r \in Registers, OpenSession(key, r)
      PROVE  TypeInv'
  <2>1. [key |-> key, cashSales |-> 0, refunds |-> 0] \in Session
    BY DEF Session
  <2>2. sessions' \in [Registers -> Session \cup {None}]
    BY <1>0, <1>1, <2>1 DEF OpenSession
  <2> QED
    BY <1>0, <1>1, <2>2 DEF OpenSession, TypeInv, TypeOK
<1>2. ASSUME NEW key \in Keys, NEW req \in SaleRequests, PostInvoice(key, req)
      PROVE  TypeInv'
  <2>1. PICK inv : /\ InvoicePosted(key, req, inv)
                   /\ receivable' =
                        [c \in Customers |-> receivable[c] +
                           (IF c = req.customer THEN inv.outstanding ELSE 0)]
    BY <1>0, <1>2, PostShape
  <2>2. /\ invoices' \in Seq(Invoice)
        /\ DOMAIN invoices \subseteq DOMAIN invoices'
    BY <1>0, <2>1, RowsAfterSale DEF SaleRows
  <2>3. returns' = returns /\ nextNumber' = nextNumber + 1
    BY <1>2 DEF PostInvoice
  <2>4. inv.outstanding \in Int
    BY <2>1 DEF InvoicePosted, Invoice
  <2>5. receivable' \in [Customers -> Int]
    BY <1>0, <2>1, <2>4
  <2>6. req.register \in Registers /\ req.paid[CASH] \in Nat /\ req.cart \in Carts
    BY SalesAssumption DEF SaleRequests
  <2>7. sessions' \in [Registers -> Session \cup {None}]
    <3> DEFINE old == sessions[req.register]
    <3>1. /\ old \in Session
          /\ sessions' = [sessions EXCEPT ![req.register] =
                            [old EXCEPT !.cashSales = old.cashSales + req.paid[CASH]]]
      BY <1>0, <1>2, <2>6 DEF PostInvoice
    <3>2. [old EXCEPT !.cashSales = old.cashSales + req.paid[CASH]] \in Session
      BY <2>6, <3>1 DEF Session
    <3> HIDE DEF old
    <3> QED
      BY <1>0, <3>1, <3>2
  <2>8. /\ stock' = [v \in Variants |-> stock[v] + Issued(req.cart)[v]]
        /\ movements' = movements \cup Ledger!Rows(key, "SALE_ISSUE", Issued(req.cart))
        /\ StockSuffices(req.cart)
    BY <1>2 DEF PostInvoice
  <2>9. stock' \in [Variants -> Nat] /\ Issued(req.cart) \in [Variants -> Int]
    BY <2>6, <2>8, GoodsMoved
  <2>10. movements' \subseteq Ledger!Movements
    <3>1. "SALE_ISSUE" \in Ledger!Kinds
      BY DEF Ledger!Kinds
    <3> QED
      BY <1>0, <2>8, <2>9, <3>1, RowsType
  <2> QED
    BY <1>0, <2>2, <2>3, <2>5, <2>7, <2>9, <2>10 DEF TypeInv, TypeOK
<1>3. ASSUME NEW key \in Keys, NEW n \in DOMAIN invoices,
             NEW quantity \in [Variants -> Nat], NEW details \in RefundDetails,
             NEW cancel \in BOOLEAN, AnyReturn(key, n, quantity, details, cancel)
      PROVE  TypeInv'
  <2>0. RecordReturn(key, n, quantity, details, cancel)
    BY <1>3 DEF AnyReturn
  <2>1. PICK row, inv : GoodsReturned(key, n, quantity, details, cancel, row, inv)
    BY <1>0, <2>0, ReturnShape
  <2>2. /\ invoices' \in Seq(Invoice) /\ DOMAIN invoices' = DOMAIN invoices
        /\ returns' \in Seq(Return)
        /\ \A i \in DOMAIN returns' :
             \/ returns'[i] = row
             \/ i \in DOMAIN returns /\ returns'[i] = returns[i]
    <3>1. PICK N : ReturnRows(N, n, row, inv)
      BY <1>0, <2>1, RowsAfterReturn
    <3> QED
      BY <3>1 DEF ReturnRows
  <2>3. \A i \in DOMAIN returns' : returns'[i].invoice \in DOMAIN invoices'
    BY <1>0, <2>1, <2>2 DEF GoodsReturned
  <2>4. row.applied \in Nat /\ row.refund \in Nat
    BY <2>1 DEF GoodsReturned, Return
  <2>5. receivable' \in [Customers -> Int]
    BY <1>0, <2>1, <2>4 DEF GoodsReturned
  <2>6. sessions' \in [Registers -> Session \cup {None}]
    <3>1. CASE ~FromDrawer(details, row.refund)
      BY <1>0, <2>1, <3>1 DEF GoodsReturned
    <3>2. CASE FromDrawer(details, row.refund)
      <4> DEFINE old == sessions[details.register]
      <4>1. details # None /\ old # None /\ details.register \in Registers
        BY <2>1, <3>2 DEF FromDrawer, GoodsReturned, RefundDetails
      <4>2. /\ old \in Session
            /\ sessions' = [sessions EXCEPT ![details.register] =
                              [old EXCEPT !.refunds = old.refunds + row.refund]]
        BY <1>0, <2>1, <3>2, <4>1 DEF GoodsReturned
      <4>3. [old EXCEPT !.refunds = old.refunds + row.refund] \in Session
        BY <2>4, <4>2 DEF Session
      <4> HIDE DEF old
      <4> QED
        BY <1>0, <4>2, <4>3
    <3> QED
      BY <3>1, <3>2
  <2>7. /\ stock' = [v \in Variants |-> stock[v] + ReturnedGoods(quantity)[v]]
        /\ movements' = movements \cup
             Ledger!Rows(key, "SALES_RETURN", ReturnedGoods(quantity))
        /\ nextNumber' = nextNumber
    BY <2>0 DEF RecordReturn
  <2>8. stock' \in [Variants -> Nat] /\ ReturnedGoods(quantity) \in [Variants -> Int]
    BY <2>7, GoodsMoved
  <2>9. movements' \subseteq Ledger!Movements
    <3>1. "SALES_RETURN" \in Ledger!Kinds
      BY DEF Ledger!Kinds
    <3> QED
      BY <1>0, <2>7, <2>8, <3>1, RowsType
  <2> QED
    BY <1>0, <2>2, <2>3, <2>5, <2>6, <2>7, <2>8, <2>9 DEF TypeInv, TypeOK
<1> QED
  BY <1>0, <1>1, <1>2, <1>3 DEF OpenStep, PostStep, AnyReturnStep

----------------------------------------------------------------------------
\* A sale and a return with what they leave in the tables.
Sale(key, req, inv, N) ==
  /\ PostInvoice(key, req)
  /\ InvoicePosted(key, req, inv)
  /\ SaleRows(N, inv)
  /\ CreditAllows(req.customer, inv.outstanding)
  /\ receivable' = [c \in Customers |-> receivable[c] +
                      (IF c = req.customer THEN inv.outstanding ELSE 0)]

GoodsBack(key, n, quantity, details, cancel, row, inv, N) ==
  /\ AnyReturn(key, n, quantity, details, cancel)
  /\ GoodsReturned(key, n, quantity, details, cancel, row, inv)
  /\ ReturnRows(N, n, row, inv)

SaleStep ==
  \E key \in Keys, req \in SaleRequests : \E inv, N : Sale(key, req, inv, N)
GoodsBackStep ==
  \E key \in Keys, n \in DOMAIN invoices, quantity \in [Variants -> Nat],
     details \in RefundDetails, cancel \in BOOLEAN : \E row, inv, N :
    GoodsBack(key, n, quantity, details, cancel, row, inv, N)

\* Every step is one of these shapes.
LEMMA StepShapes ==
  ASSUME TypeInv, ReturnedWithinSold, Next
  PROVE  OpenStep \/ SaleStep \/ GoodsBackStep
<1>0. TypeOK /\ (OpenStep \/ PostStep \/ AnyReturnStep)
  BY StepKinds DEF TypeInv
<1>1. ASSUME NEW key \in Keys, NEW req \in SaleRequests, PostInvoice(key, req)
      PROVE  SaleStep
  <2>1. PICK inv : /\ InvoicePosted(key, req, inv)
                   /\ CreditAllows(req.customer, inv.outstanding)
                   /\ receivable' =
                        [c \in Customers |-> receivable[c] +
                           (IF c = req.customer THEN inv.outstanding ELSE 0)]
    BY <1>0, <1>1, PostShape
  <2>2. PICK N : SaleRows(N, inv)
    BY <1>0, <2>1, RowsAfterSale
  <2>3. Sale(key, req, inv, N)
    BY <1>1, <2>1, <2>2 DEF Sale
  <2> QED
    BY <2>3 DEF SaleStep
<1>2. ASSUME NEW key \in Keys, NEW n \in DOMAIN invoices,
             NEW quantity \in [Variants -> Nat], NEW details \in RefundDetails,
             NEW cancel \in BOOLEAN, AnyReturn(key, n, quantity, details, cancel)
      PROVE  GoodsBackStep
  <2>0. RecordReturn(key, n, quantity, details, cancel)
    BY <1>2 DEF AnyReturn
  <2>1. PICK row, inv : GoodsReturned(key, n, quantity, details, cancel, row, inv)
    BY <1>0, <2>0, ReturnShape
  <2>2. PICK N : ReturnRows(N, n, row, inv)
    BY <1>0, <2>1, RowsAfterReturn
  <2>3. GoodsBack(key, n, quantity, details, cancel, row, inv, N)
    BY <1>2, <2>1, <2>2 DEF GoodsBack
  <2> QED
    BY <2>3 DEF GoodsBackStep
<1> QED
  BY <1>0, <1>1, <1>2 DEF PostStep, AnyReturnStep

\* An opening adds nothing but an empty session.
LEMMA OpenShape ==
  ASSUME TypeOK, OpenStep
  PROVE  /\ UNCHANGED <<invoices, returns, receivable, movements, stock>>
         /\ \A r \in Registers : sessions[r] # None => sessions'[r] = sessions[r]
         /\ \A r \in Registers : sessions[r] = None /\ sessions'[r] # None =>
              sessions'[r].cashSales = 0 /\ sessions'[r].refunds = 0
<1>1. PICK key \in Keys, r \in Registers : OpenSession(key, r)
  BY DEF OpenStep
<1> QED
  BY <1>1 DEF TypeOK, OpenSession

\* The rows of every table have their types.
LEMMA RowTypes ==
  ASSUME TypeOK
  PROVE  /\ IsFiniteSet(DOMAIN invoices) /\ IsFiniteSet(DOMAIN returns)
         /\ \A n \in DOMAIN invoices :
              /\ invoices[n] \in Invoice
              /\ invoices[n].req.register \in Registers
              /\ invoices[n].req.paid[CASH] \in Nat
              /\ invoices[n].req.cart \in Carts
              /\ \A v \in Variants : Sold(n, v) \in Nat
         /\ \A i \in DOMAIN returns :
              returns[i] \in Return /\ returns[i].invoice \in DOMAIN invoices
<1>1. invoices \in Seq(Invoice) /\ returns \in Seq(Return)
  BY DEF TypeOK
<1>2. /\ IsFiniteSet(DOMAIN invoices) /\ IsFiniteSet(DOMAIN returns)
      /\ \A n \in DOMAIN invoices : invoices[n] \in Invoice
      /\ \A i \in DOMAIN returns : returns[i] \in Return
  BY <1>1, RowsFinite
<1>3. ASSUME NEW n \in DOMAIN invoices
      PROVE  /\ invoices[n].req.register \in Registers
             /\ invoices[n].req.paid[CASH] \in Nat
             /\ invoices[n].req.cart \in Carts
             /\ \A v \in Variants : Sold(n, v) \in Nat
  BY <1>2, SalesAssumption DEF Invoice, SaleRequests, CartType, Sold
<1> QED
  BY <1>2, <1>3 DEF TypeOK

----------------------------------------------------------------------------
\* No session is closed, so the money of every document has a drawer.
LEMMA DrawersStep ==
  ASSUME TypeInv, ReturnedWithinSold, Drawers, Next
  PROVE  Drawers'
<1>0. /\ TypeOK /\ (OpenStep \/ SaleStep \/ GoodsBackStep)
      /\ sessions \in [Registers -> Session \cup {None}]
  BY StepShapes DEF TypeInv, TypeOK
<1>1. CASE OpenStep
  <2>1. \A r \in Registers : sessions[r] # None => sessions'[r] # None
    BY <1>0, <1>1, OpenShape
  <2>2. /\ \A n \in DOMAIN invoices : invoices[n].req.register \in Registers
        /\ \A i \in DOMAIN returns : returns[i].details # None =>
             returns[i].details.register \in Registers
    BY <1>0, RowTypes DEF Return, RefundDetails
  <2>3. UNCHANGED <<invoices, returns>>
    BY <1>0, <1>1, OpenShape
  <2> QED
    BY <2>1, <2>2, <2>3 DEF Drawers
<1>2. ASSUME NEW key \in Keys, NEW req \in SaleRequests, NEW inv, NEW N,
             Sale(key, req, inv, N)
      PROVE  Drawers'
  <2>1. \A r \in Registers : sessions[r] # None => sessions'[r] # None
    <3>1. sessions' \in [Registers -> Session \cup {None}]
      BY TypeStep DEF TypeInv, TypeOK
    <3>2. sessions[req.register] \in Session
      BY <1>0, <1>2 DEF Sale, PostInvoice, SaleRequests
    <3>3. \A r \in Registers \ {req.register} : sessions'[r] = sessions[r]
      BY <1>0, <1>2 DEF Sale, PostInvoice
    <3>4. sessions'[req.register] \in Session
      <4>1. req.register \in Registers /\ req.paid[CASH] \in Nat
        BY SalesAssumption DEF SaleRequests
      <4>2. sessions'[req.register] =
              [sessions[req.register] EXCEPT
                 !.cashSales = sessions[req.register].cashSales + req.paid[CASH]]
        BY <1>0, <1>2, <4>1 DEF Sale, PostInvoice
      <4> QED
        BY <3>2, <4>1, <4>2 DEF Session
    <3>5. None \notin Session
      BY SalesAssumption DEF Session
    <3> QED
      BY <3>3, <3>4, <3>5
  <2>2. /\ sessions[req.register] # None /\ req.register \in Registers
        /\ returns' = returns
    BY <1>2 DEF Sale, PostInvoice, SaleRequests
  <2>3. /\ \A n \in DOMAIN invoices : invoices[n].req.register \in Registers
        /\ \A i \in DOMAIN returns : returns[i].details # None =>
             returns[i].details.register \in Registers
    BY <1>0, RowTypes DEF Return, RefundDetails
  <2>4. \A n \in DOMAIN invoices' :
          \/ invoices'[n].req = req
          \/ n \in DOMAIN invoices /\ invoices'[n] = invoices[n]
    BY <1>2 DEF Sale, SaleRows, InvoicePosted
  <2> QED
    BY <2>1, <2>2, <2>3, <2>4 DEF Drawers
<1>3. ASSUME NEW key \in Keys, NEW n \in DOMAIN invoices,
             NEW quantity \in [Variants -> Nat], NEW details \in RefundDetails,
             NEW cancel \in BOOLEAN, NEW row, NEW inv, NEW N,
             GoodsBack(key, n, quantity, details, cancel, row, inv, N)
      PROVE  Drawers'
  <2>1. \A r \in Registers : sessions[r] # None => sessions'[r] # None
    <3> SUFFICES ASSUME FromDrawer(details, row.refund),
                        details # None, sessions[details.register] # None
                 PROVE  \A r \in Registers : sessions[r] # None => sessions'[r] # None
      BY <1>3 DEF GoodsBack, GoodsReturned, FromDrawer
    <3> DEFINE old == sessions[details.register]
    <3>1. details.register \in Registers /\ old \in Session
      BY <1>0 DEF RefundDetails
    <3>2. row.refund \in Nat
      BY <1>3 DEF GoodsBack, GoodsReturned, Return
    <3>3. /\ sessions'[details.register] = [old EXCEPT !.refunds = old.refunds + row.refund]
          /\ \A r \in Registers \ {details.register} : sessions'[r] = sessions[r]
      BY <1>0, <1>3, <3>1 DEF GoodsBack, GoodsReturned
    <3>4. sessions'[details.register] \in Session
      BY <3>1, <3>2, <3>3 DEF Session
    <3>5. None \notin Session
      BY SalesAssumption DEF Session
    <3> QED
      BY <3>3, <3>4, <3>5
  <2>2. /\ \A m \in DOMAIN invoices : invoices[m].req.register \in Registers
        /\ \A i \in DOMAIN returns : returns[i].details # None =>
             returns[i].details.register \in Registers
    BY <1>0, RowTypes DEF Return, RefundDetails
  <2>3. /\ DOMAIN invoices' = DOMAIN invoices
        /\ \A m \in DOMAIN invoices : invoices'[m].req = invoices[m].req
    BY <1>3 DEF GoodsBack, GoodsReturned, ReturnRows
  <2>4. \A i \in DOMAIN returns' :
          \/ returns'[i] = row
          \/ i \in DOMAIN returns /\ returns'[i] = returns[i]
    BY <1>3 DEF GoodsBack, ReturnRows
  <2>5. row.details # None =>
          row.details.register \in Registers /\ sessions[row.details.register] # None
    BY <1>3 DEF GoodsBack, GoodsReturned, RefundDetails
  <2> QED
    BY <2>1, <2>2, <2>3, <2>4, <2>5 DEF Drawers
<1> QED
  BY <1>0, <1>1, <1>2, <1>3 DEF SaleStep, GoodsBackStep

\* Every posted row finds its document, and no document disappears.
LEMMA DocumentedStep ==
  ASSUME TypeInv, ReturnedWithinSold, Documented, Next
  PROVE  Documented'
<1>0. TypeOK /\ (OpenStep \/ SaleStep \/ GoodsBackStep)
  BY StepShapes DEF TypeInv
<1>1. CASE OpenStep
  <2>1. UNCHANGED <<invoices, returns, movements>>
    BY <1>0, <1>1, OpenShape
  <2> QED
    BY <2>1 DEF Documented
<1>2. ASSUME NEW key \in Keys, NEW req \in SaleRequests, NEW inv, NEW N,
             Sale(key, req, inv, N)
      PROVE  Documented'
  <2>1. /\ movements' = movements \cup Ledger!Rows(key, "SALE_ISSUE", Issued(req.cart))
        /\ returns' = returns
        /\ Issued(req.cart) \in [Variants -> Int]
    <3>1. req.cart \in Carts
      BY DEF SaleRequests
    <3> QED
      BY <1>2, <3>1, GoodsMoved DEF Sale, PostInvoice
  <2>2. \A m \in movements' :
          m \in movements \/ (m.key = key /\ m.kind = "SALE_ISSUE")
    <3>1. "SALE_ISSUE" \in Ledger!Kinds
      BY DEF Ledger!Kinds
    <3> QED
      BY <2>1, <3>1, RowsType
  <2>3. /\ N \in DOMAIN invoices' /\ invoices'[N].key = key
        /\ \A n \in DOMAIN invoices :
             n \in DOMAIN invoices' /\ invoices'[n] = invoices[n]
    BY <1>2 DEF Sale, SaleRows, InvoicePosted
  <2> QED
    BY <2>1, <2>2, <2>3 DEF Documented
<1>3. ASSUME NEW key \in Keys, NEW n \in DOMAIN invoices,
             NEW quantity \in [Variants -> Nat], NEW details \in RefundDetails,
             NEW cancel \in BOOLEAN, NEW row, NEW inv, NEW N,
             GoodsBack(key, n, quantity, details, cancel, row, inv, N)
      PROVE  Documented'
  <2>1. /\ movements' = movements \cup
             Ledger!Rows(key, "SALES_RETURN", ReturnedGoods(quantity))
        /\ ReturnedGoods(quantity) \in [Variants -> Int]
    BY <1>3, GoodsMoved DEF GoodsBack, AnyReturn, RecordReturn
  <2>2. \A m \in movements' :
          m \in movements \/ (m.key = key /\ m.kind = "SALES_RETURN")
    <3>1. "SALES_RETURN" \in Ledger!Kinds
      BY DEF Ledger!Kinds
    <3> QED
      BY <2>1, <3>1, RowsType
  <2>3. /\ N \in DOMAIN returns' /\ returns'[N].key = key
        /\ \A i \in DOMAIN returns :
             i \in DOMAIN returns' /\ returns'[i] = returns[i]
        /\ DOMAIN invoices' = DOMAIN invoices
        /\ \A m \in DOMAIN invoices : invoices'[m].key = invoices[m].key
    BY <1>3 DEF GoodsBack, GoodsReturned, ReturnRows
  <2> QED
    BY <2>2, <2>3 DEF Documented
<1> QED
  BY <1>0, <1>1, <1>2, <1>3 DEF SaleStep, GoodsBackStep

\* A key that was used is found.
LEMMA KeysStep ==
  ASSUME TypeInv, ReturnedWithinSold, KeysAppliedOnce, Next
  PROVE  KeysAppliedOnce'
<1>0. TypeOK /\ (OpenStep \/ SaleStep \/ GoodsBackStep)
  BY StepShapes DEF TypeInv
<1>1. CASE OpenStep
  <2>1. UNCHANGED <<invoices, returns>>
    BY <1>0, <1>1, OpenShape
  <2> QED
    BY <2>1 DEF KeysAppliedOnce
<1>2. ASSUME NEW key \in Keys, NEW req \in SaleRequests, NEW inv, NEW N,
             Sale(key, req, inv, N)
      PROVE  KeysAppliedOnce'
  <2>1. \A n \in DOMAIN invoices : invoices[n].key # key
    BY <1>2 DEF Sale, PostInvoice, InvoiceKeyUsed
  <2>2. returns' = returns /\ inv.key = key
    BY <1>2 DEF Sale, PostInvoice, InvoicePosted
  <2> QED
    BY <1>2, <2>1, <2>2 DEF KeysAppliedOnce, Sale, SaleRows
<1>3. ASSUME NEW key \in Keys, NEW n \in DOMAIN invoices,
             NEW quantity \in [Variants -> Nat], NEW details \in RefundDetails,
             NEW cancel \in BOOLEAN, NEW row, NEW inv, NEW N,
             GoodsBack(key, n, quantity, details, cancel, row, inv, N)
      PROVE  KeysAppliedOnce'
  <2>1. \A i \in DOMAIN returns : returns[i].key # key
    BY <1>3 DEF GoodsBack, AnyReturn, ReturnKeyUsed
  <2>2. /\ row.key = key /\ DOMAIN invoices' = DOMAIN invoices
        /\ \A m \in DOMAIN invoices : invoices'[m].key = invoices[m].key
    BY <1>3 DEF GoodsBack, GoodsReturned, ReturnRows
  <2> QED
    BY <1>3, <2>1, <2>2 DEF KeysAppliedOnce, GoodsBack, ReturnRows
<1> QED
  BY <1>0, <1>1, <1>2, <1>3 DEF SaleStep, GoodsBackStep

----------------------------------------------------------------------------
\* What a return takes off the unpaid part is what the invoice no longer asks
\* for; what it pays out is what it gives back beyond that.
LEMMA ReturnSettles ==
  ASSUME TypeInv, InvoiceReconciles, NEW key, NEW n \in DOMAIN invoices,
         NEW quantity, NEW details, NEW cancel \in BOOLEAN, NEW row, NEW inv,
         GoodsReturned(key, n, quantity, details, cancel, row, inv),
         cancel => Completes(n, quantity)
  PROVE  /\ inv.outstanding = invoices[n].outstanding - row.applied
         /\ inv.outstanding = Positive(inv.total - inv.paid - inv.returned)
         /\ inv.refunded = Positive(inv.returned - (inv.total - inv.paid))
         /\ inv.paid <= inv.total /\ inv.returned <= inv.total
<1> DEFINE old == invoices[n]
<1>1. /\ old.total \in Nat /\ old.paid \in Nat /\ old.outstanding \in Nat
      /\ old.returned \in Nat /\ old.refunded \in Nat
  BY RowTypes DEF TypeInv, Invoice
<1>2. /\ old.paid <= old.total
      /\ old.outstanding = Positive(old.total - old.paid - old.returned)
      /\ old.refunded = Positive(old.returned - (old.total - old.paid))
  BY DEF InvoiceReconciles
<1>3. /\ row.total \in Nat /\ row.applied \in Nat /\ row.refund \in Nat
      /\ row.total = row.applied + row.refund
      /\ row.applied = Least(old.outstanding, row.total)
      /\ inv.total = old.total /\ inv.paid = old.paid
      /\ inv.returned = old.returned + row.total
      /\ inv.returned <= inv.total
      /\ inv.refunded = old.refunded + row.refund
      /\ inv.outstanding = NextOutstanding(old, inv.returned, cancel)
      /\ cancel => inv.returned = inv.total
      /\ inv.total \in Nat /\ inv.paid \in Nat /\ inv.returned \in Nat
      /\ inv.refunded \in Nat /\ inv.outstanding \in Nat
  BY DEF GoodsReturned, Return, Invoice
<1>4. inv.outstanding = Positive(inv.total - inv.paid - inv.returned)
  BY <1>1, <1>3 DEF NextOutstanding, Positive
<1> HIDE DEF old
<1>5. inv.outstanding = old.outstanding - row.applied
  <2>1. /\ old.total \in Nat /\ old.paid \in Nat /\ old.returned \in Nat
        /\ old.outstanding \in Nat /\ row.total \in Nat /\ row.applied \in Nat
        /\ inv.outstanding \in Nat /\ inv.returned \in Nat
        /\ inv.returned = old.returned + row.total
        /\ inv.total = old.total /\ inv.paid = old.paid
        /\ old.outstanding = Positive(old.total - old.paid - old.returned)
        /\ inv.outstanding = Positive(inv.total - inv.paid - inv.returned)
        /\ row.applied = Least(old.outstanding, row.total)
    BY <1>1, <1>2, <1>3, <1>4
  <2> QED
    BY <2>1 DEF Positive, Least
<1>6. inv.refunded = Positive(inv.returned - (inv.total - inv.paid))
  <2>1. /\ old.total \in Nat /\ old.paid \in Nat /\ old.returned \in Nat
        /\ old.outstanding \in Nat /\ row.total \in Nat /\ row.applied \in Nat
        /\ row.refund \in Nat /\ old.refunded \in Nat /\ inv.returned \in Nat
        /\ inv.returned = old.returned + row.total
        /\ inv.total = old.total /\ inv.paid = old.paid
        /\ old.outstanding = Positive(old.total - old.paid - old.returned)
        /\ old.refunded = Positive(old.returned - (old.total - old.paid))
        /\ row.applied = Least(old.outstanding, row.total)
        /\ row.total = row.applied + row.refund
        /\ inv.refunded = old.refunded + row.refund
    BY <1>1, <1>2, <1>3
  <2> QED
    BY <2>1 DEF Positive, Least
<1> QED
  BY <1>1, <1>2, <1>3, <1>4, <1>5, <1>6 DEF old

\* The projections of an invoice stay what its payments and returns make them.
LEMMA ReconcileStep ==
  ASSUME TypeInv, ReturnedWithinSold, InvoiceReconciles, Next
  PROVE  InvoiceReconciles'
<1>0. TypeOK /\ (OpenStep \/ SaleStep \/ GoodsBackStep)
  BY StepShapes DEF TypeInv
<1>1. CASE OpenStep
  <2>1. invoices' = invoices
    BY <1>0, <1>1, OpenShape
  <2> QED
    BY <2>1 DEF InvoiceReconciles
<1>2. ASSUME NEW key \in Keys, NEW req \in SaleRequests, NEW inv, NEW N,
             Sale(key, req, inv, N)
      PROVE  InvoiceReconciles'
  <2>1. /\ inv.total \in Nat /\ inv.paid \in Nat /\ inv.paid <= inv.total
        /\ inv.outstanding = inv.total - inv.paid
        /\ inv.returned = 0 /\ inv.refunded = 0
    BY <1>2 DEF Sale, InvoicePosted, Invoice
  <2>2. /\ inv.paid <= inv.total /\ inv.returned <= inv.total
        /\ inv.outstanding = Positive(inv.total - inv.paid - inv.returned)
        /\ inv.refunded = Positive(inv.returned - (inv.total - inv.paid))
    BY <2>1 DEF Positive
  <2> QED
    BY <1>2, <2>2 DEF Sale, SaleRows, InvoiceReconciles
<1>3. ASSUME NEW key \in Keys, NEW n \in DOMAIN invoices,
             NEW quantity \in [Variants -> Nat], NEW details \in RefundDetails,
             NEW cancel \in BOOLEAN, NEW row, NEW inv, NEW N,
             GoodsBack(key, n, quantity, details, cancel, row, inv, N)
      PROVE  InvoiceReconciles'
  <2>1. /\ GoodsReturned(key, n, quantity, details, cancel, row, inv)
        /\ cancel => Completes(n, quantity)
    BY <1>3 DEF GoodsBack, AnyReturn
  <2>2. /\ inv.outstanding = Positive(inv.total - inv.paid - inv.returned)
        /\ inv.refunded = Positive(inv.returned - (inv.total - inv.paid))
        /\ inv.paid <= inv.total /\ inv.returned <= inv.total
    BY <2>1, ReturnSettles
  <2> QED
    BY <1>3, <2>2 DEF GoodsBack, ReturnRows, InvoiceReconciles
<1> QED
  BY <1>0, <1>1, <1>2, <1>3 DEF SaleStep, GoodsBackStep

----------------------------------------------------------------------------
\* The unpaid parts of the invoices of a customer.
InvoicesOf(c) == {n \in DOMAIN invoices : invoices[n].req.customer = c}
Unpaid(c) == [n \in InvoicesOf(c) |-> invoices[n].outstanding]

\* What a customer owes, as a finite sum of integers.
LEMMA UnpaidType ==
  ASSUME TypeOK, NEW c
  PROVE  IsFiniteSet(InvoicesOf(c)) /\ Unpaid(c) \in [InvoicesOf(c) -> Int]
<1>1. /\ IsFiniteSet(DOMAIN invoices)
      /\ \A n \in DOMAIN invoices : invoices[n].outstanding \in Int
  BY RowTypes DEF Invoice
<1>2. IsFiniteSet(InvoicesOf(c))
  BY <1>1, FS_Subset DEF InvoicesOf
<1> QED
  BY <1>1, <1>2 DEF InvoicesOf, Unpaid

\* Each operation keeps the receivable of a customer equal to the unpaid rest of the invoices.
LEMMA ReceivableStep ==
  ASSUME TypeInv, ReturnedWithinSold, InvoiceReconciles,
         ReceivableIsOutstanding, Next
  PROVE  ReceivableIsOutstanding'
<1>0. /\ TypeOK /\ TypeOK' /\ (OpenStep \/ SaleStep \/ GoodsBackStep)
      /\ receivable \in [Customers -> Int]
  BY StepShapes, TypeStep DEF TypeInv, TypeOK
<1>a. \A c \in Customers : receivable[c] = SumFunction(Unpaid(c))
  BY DEF ReceivableIsOutstanding, SumOver, Unpaid, InvoicesOf
<1> SUFFICES ASSUME NEW c \in Customers
             PROVE  receivable'[c] = SumFunction(Unpaid(c)')
  BY DEF ReceivableIsOutstanding, SumOver, Unpaid, InvoicesOf
<1>b. /\ IsFiniteSet(InvoicesOf(c)) /\ Unpaid(c) \in [InvoicesOf(c) -> Int]
      /\ IsFiniteSet(InvoicesOf(c)') /\ Unpaid(c)' \in [InvoicesOf(c)' -> Int]
  <2>1. ASSUME TypeOK
        PROVE  IsFiniteSet(InvoicesOf(c)) /\ Unpaid(c) \in [InvoicesOf(c) -> Int]
    BY <2>1, UnpaidType
  <2>2. (TypeOK => /\ IsFiniteSet(InvoicesOf(c))
                   /\ Unpaid(c) \in [InvoicesOf(c) -> Int])'
    BY UnpaidType, PTL
  <2> QED
    BY <1>0, <2>1, <2>2
<1>1. CASE OpenStep
  <2>1. UNCHANGED <<invoices, receivable>>
    BY <1>0, <1>1, OpenShape
  <2> QED
    BY <1>a, <2>1 DEF Unpaid, InvoicesOf
<1>2. ASSUME NEW key \in Keys, NEW req \in SaleRequests, NEW inv, NEW N,
             Sale(key, req, inv, N)
      PROVE  receivable'[c] = SumFunction(Unpaid(c)')
  <2>1. /\ N \notin DOMAIN invoices /\ DOMAIN invoices' = DOMAIN invoices \cup {N}
        /\ invoices'[N] = inv /\ inv.req = req
        /\ \A n \in DOMAIN invoices : invoices'[n] = invoices[n]
    BY <1>2 DEF Sale, SaleRows, InvoicePosted
  <2>2. receivable'[c] = receivable[c] +
          (IF c = req.customer THEN inv.outstanding ELSE 0)
    BY <1>2 DEF Sale
  <2>3. CASE c = req.customer
    <3>1. InvoicesOf(c)' = InvoicesOf(c) \cup {N} /\ N \notin InvoicesOf(c)
      BY <2>1, <2>3 DEF InvoicesOf
    <3>2. /\ Unpaid(c)'[N] = inv.outstanding
          /\ \A n \in InvoicesOf(c) : Unpaid(c)'[n] = Unpaid(c)[n]
      BY <2>1, <3>1 DEF Unpaid, InvoicesOf
    <3>3. SumFunction(Unpaid(c)') = SumFunction(Unpaid(c)) + Unpaid(c)'[N]
      BY <1>b, <3>1, <3>2, SumGrows
    <3> QED
      BY <1>a, <2>2, <2>3, <3>2, <3>3
  <2>4. CASE c # req.customer
    <3>1. InvoicesOf(c)' = InvoicesOf(c)
      BY <2>1, <2>4 DEF InvoicesOf
    <3>2. Unpaid(c)' = Unpaid(c)
      BY <2>1, <3>1 DEF Unpaid, InvoicesOf
    <3> QED
      BY <1>0, <1>a, <2>2, <2>4, <3>2
  <2> QED
    BY <2>3, <2>4
<1>3. ASSUME NEW key \in Keys, NEW n \in DOMAIN invoices,
             NEW quantity \in [Variants -> Nat], NEW details \in RefundDetails,
             NEW cancel \in BOOLEAN, NEW row, NEW inv, NEW N,
             GoodsBack(key, n, quantity, details, cancel, row, inv, N)
      PROVE  receivable'[c] = SumFunction(Unpaid(c)')
  <2>0. /\ GoodsReturned(key, n, quantity, details, cancel, row, inv)
        /\ cancel => Completes(n, quantity)
    BY <1>3 DEF GoodsBack, AnyReturn
  <2>1. /\ DOMAIN invoices' = DOMAIN invoices /\ invoices'[n] = inv
        /\ inv.req = invoices[n].req
        /\ \A m \in DOMAIN invoices \ {n} : invoices'[m] = invoices[m]
    BY <1>3, <2>0 DEF GoodsBack, GoodsReturned, ReturnRows
  <2>2. receivable'[c] = receivable[c] -
          (IF c = invoices[n].req.customer THEN row.applied ELSE 0)
    BY <2>0 DEF GoodsReturned
  <2>3. /\ inv.outstanding = invoices[n].outstanding - row.applied
        /\ invoices[n].outstanding \in Int /\ row.applied \in Int
    <3>1. inv.outstanding = invoices[n].outstanding - row.applied
      BY <2>0, ReturnSettles
    <3>2. invoices[n].outstanding \in Int
      BY <1>0, RowTypes DEF Invoice
    <3>3. row.applied \in Nat
      BY <2>0 DEF GoodsReturned, Return
    <3> QED
      BY <3>1, <3>2, <3>3
  <2>4. InvoicesOf(c)' = InvoicesOf(c)
    BY <2>1 DEF InvoicesOf
  <2>5. CASE c = invoices[n].req.customer
    <3>1. n \in InvoicesOf(c)
      BY <2>5 DEF InvoicesOf
    <3>2. /\ Unpaid(c)'[n] = inv.outstanding
          /\ Unpaid(c)[n] = invoices[n].outstanding
          /\ \A m \in InvoicesOf(c) \ {n} : Unpaid(c)'[m] = Unpaid(c)[m]
      BY <2>1, <2>4, <3>1 DEF Unpaid, InvoicesOf
    <3>3. SumFunction(Unpaid(c)')
            = SumFunction(Unpaid(c)) + (Unpaid(c)'[n] - Unpaid(c)[n])
      BY <1>b, <2>4, <3>1, <3>2, SumChange
    <3>4. SumFunction(Unpaid(c)) \in Int
      BY <1>b, SumType
    <3> QED
      BY <1>a, <2>2, <2>3, <2>5, <3>2, <3>3, <3>4
  <2>6. CASE c # invoices[n].req.customer
    <3>1. Unpaid(c)' = Unpaid(c)
      BY <2>1, <2>4, <2>6 DEF Unpaid, InvoicesOf
    <3> QED
      BY <1>0, <1>a, <2>2, <2>6, <3>1
  <2> QED
    BY <2>5, <2>6
<1> QED
  BY <1>0, <1>1, <1>2, <1>3 DEF SaleStep, GoodsBackStep

\* A return never adds to what a customer owes.
LEMMA LimitStep ==
  ASSUME TypeInv, ReturnedWithinSold, CreditLimitKept, Next
  PROVE  CreditLimitKept'
<1>0. /\ TypeOK /\ (OpenStep \/ SaleStep \/ GoodsBackStep)
      /\ receivable \in [Customers -> Int] /\ CreditLimit \in [Customers -> Nat]
  BY StepShapes, SalesAssumption DEF TypeInv, TypeOK
<1>1. CASE OpenStep
  <2>1. receivable' = receivable
    BY <1>0, <1>1, OpenShape
  <2> QED
    BY <2>1 DEF CreditLimitKept
<1>2. ASSUME NEW key \in Keys, NEW req \in SaleRequests, NEW inv, NEW N,
             Sale(key, req, inv, N), NEW c \in Customers, CreditLimit[c] > 0
      PROVE  receivable'[c] <= CreditLimit[c]
  <2>1. receivable'[c] = receivable[c] +
          (IF c = req.customer THEN inv.outstanding ELSE 0)
    BY <1>2 DEF Sale
  <2>2. CASE c = req.customer
    <3>1. c # None
      BY SalesAssumption
    <3>2. receivable[c] + inv.outstanding <= CreditLimit[c]
      BY <1>0, <1>2, <2>2, <3>1 DEF Sale, CreditAllows
    <3> QED
      BY <2>1, <2>2, <3>2
  <2>3. CASE c # req.customer
    BY <1>0, <1>2, <2>1, <2>3 DEF CreditLimitKept
  <2> QED
    BY <2>2, <2>3
<1>3. ASSUME NEW key \in Keys, NEW n \in DOMAIN invoices,
             NEW quantity \in [Variants -> Nat], NEW details \in RefundDetails,
             NEW cancel \in BOOLEAN, NEW row, NEW inv, NEW N,
             GoodsBack(key, n, quantity, details, cancel, row, inv, N),
             NEW c \in Customers, CreditLimit[c] > 0
      PROVE  receivable'[c] <= CreditLimit[c]
  <2>1. /\ receivable'[c] = receivable[c] -
             (IF c = invoices[n].req.customer THEN row.applied ELSE 0)
        /\ row.applied \in Nat
    BY <1>3 DEF GoodsBack, GoodsReturned, Return
  <2>2. receivable[c] <= CreditLimit[c] /\ receivable[c] \in Int /\ CreditLimit[c] \in Nat
    BY <1>0, <1>3 DEF CreditLimitKept
  <2> QED
    BY <2>1, <2>2
<1> QED
  BY <1>0, <1>1, <1>2, <1>3 DEF SaleStep, GoodsBackStep, CreditLimitKept

----------------------------------------------------------------------------
\* The cash that a register took and paid out.
SalesAt(r) == {n \in DOMAIN invoices : invoices[n].req.register = r}
CashTaken(r) == [n \in SalesAt(r) |-> invoices[n].req.paid[CASH]]
RefundsAt(r) ==
  {i \in DOMAIN returns : returns[i].details = [register |-> r, method |-> CASH]}
CashPaidOut(r) == [i \in RefundsAt(r) |-> returns[i].refund]

\* The cash of a register, as finite sums of integers.
LEMMA CashType ==
  ASSUME TypeOK, NEW r
  PROVE  /\ IsFiniteSet(SalesAt(r)) /\ CashTaken(r) \in [SalesAt(r) -> Int]
         /\ IsFiniteSet(RefundsAt(r)) /\ CashPaidOut(r) \in [RefundsAt(r) -> Int]
<1>1. /\ IsFiniteSet(DOMAIN invoices) /\ IsFiniteSet(DOMAIN returns)
      /\ \A n \in DOMAIN invoices : invoices[n].req.paid[CASH] \in Nat
      /\ \A i \in DOMAIN returns : returns[i] \in Return
  BY RowTypes
<1>2. IsFiniteSet(SalesAt(r)) /\ IsFiniteSet(RefundsAt(r))
  BY <1>1, FS_Subset DEF SalesAt, RefundsAt
<1>3. \A i \in DOMAIN returns : returns[i].refund \in Int
  BY <1>1 DEF Return
<1> QED
  BY <1>1, <1>2, <1>3 DEF SalesAt, RefundsAt, CashTaken, CashPaidOut

\* The sums of a drawer in terms of these functions.
DrawerIs(r) ==
  sessions[r] # None =>
    /\ sessions[r].cashSales = SumFunction(CashTaken(r))
    /\ sessions[r].refunds = SumFunction(CashPaidOut(r))

\* DrawerReconciles, said register by register.
LEMMA DrawerSums ==
  DrawerReconciles <=> \A r \in Registers : DrawerIs(r)
BY DEF DrawerReconciles, SumOver, DrawerIs, CashTaken, CashPaidOut, SalesAt, RefundsAt

\* Each operation keeps the drawer of a register equal to its documents.
LEMMA DrawerSumStep ==
  ASSUME TypeInv, ReturnedWithinSold, Drawers, DrawerReconciles, Next,
         NEW r \in Registers
  PROVE  DrawerIs(r)'
<1>0. /\ TypeOK /\ TypeOK' /\ (OpenStep \/ SaleStep \/ GoodsBackStep)
      /\ sessions \in [Registers -> Session \cup {None}]
      /\ DrawerIs(r)
  BY StepShapes, TypeStep, DrawerSums DEF TypeInv, TypeOK
<1>a. /\ IsFiniteSet(SalesAt(r)) /\ CashTaken(r) \in [SalesAt(r) -> Int]
      /\ IsFiniteSet(RefundsAt(r)) /\ CashPaidOut(r) \in [RefundsAt(r) -> Int]
  BY <1>0, CashType
<1>b. /\ CashTaken(r)' \in [SalesAt(r)' -> Int]
      /\ CashPaidOut(r)' \in [RefundsAt(r)' -> Int]
  <2>1. (TypeOK => /\ CashTaken(r) \in [SalesAt(r) -> Int]
                   /\ CashPaidOut(r) \in [RefundsAt(r) -> Int])'
    BY CashType, PTL
  <2> QED
    BY <1>0, <2>1
<1>1. CASE OpenStep
  <2>1. /\ UNCHANGED <<invoices, returns>>
        /\ sessions[r] # None => sessions'[r] = sessions[r]
        /\ sessions[r] = None /\ sessions'[r] # None =>
             sessions'[r].cashSales = 0 /\ sessions'[r].refunds = 0
    BY <1>0, <1>1, OpenShape
  <2>2. CashTaken(r)' = CashTaken(r) /\ CashPaidOut(r)' = CashPaidOut(r)
    BY <2>1 DEF CashTaken, CashPaidOut, SalesAt, RefundsAt
  <2>3. CASE sessions[r] # None
    BY <1>0, <2>1, <2>2, <2>3 DEF DrawerIs
  <2>4. CASE sessions[r] = None
    <3>1. SalesAt(r) = {}
      BY <2>4 DEF SalesAt, Drawers
    <3>2. RefundsAt(r) = {}
      <4> SUFFICES ASSUME NEW i \in DOMAIN returns,
                          returns[i].details = [register |-> r, method |-> CASH]
                   PROVE  FALSE
        BY DEF RefundsAt
      <4>1. [register |-> r, method |-> CASH] \in [register : Registers, method : Methods]
        BY SalesAssumption
      <4>2. returns[i].details # None /\ returns[i].details.register = r
        BY <4>1, SalesAssumption
      <4> QED
        BY <2>4, <4>2 DEF Drawers
    <3>3. SumFunction(CashTaken(r)) = 0 /\ SumFunction(CashPaidOut(r)) = 0
      <4>1. DOMAIN CashTaken(r) = {} /\ DOMAIN CashPaidOut(r) = {}
        BY <3>1, <3>2 DEF CashTaken, CashPaidOut
      <4> QED
        BY <4>1, SumEmpty
    <3> QED
      BY <2>1, <2>2, <2>4, <3>3 DEF DrawerIs
  <2> QED
    BY <2>3, <2>4
<1>2. ASSUME NEW key \in Keys, NEW req \in SaleRequests, NEW inv, NEW N,
             Sale(key, req, inv, N)
      PROVE  DrawerIs(r)'
  <2>1. /\ N \notin DOMAIN invoices /\ DOMAIN invoices' = DOMAIN invoices \cup {N}
        /\ invoices'[N] = inv /\ inv.req = req
        /\ \A n \in DOMAIN invoices : invoices'[n] = invoices[n]
        /\ returns' = returns /\ sessions[req.register] # None
    BY <1>2 DEF Sale, SaleRows, InvoicePosted, PostInvoice
  <2>2. CashPaidOut(r)' = CashPaidOut(r)
    BY <2>1 DEF CashPaidOut, RefundsAt
  <2>3. CASE r = req.register
    <3>1. SalesAt(r)' = SalesAt(r) \cup {N} /\ N \notin SalesAt(r)
      BY <2>1, <2>3 DEF SalesAt
    <3>2. /\ CashTaken(r)'[N] = req.paid[CASH]
          /\ \A n \in SalesAt(r) : CashTaken(r)'[n] = CashTaken(r)[n]
      BY <2>1, <3>1 DEF CashTaken, SalesAt
    <3>3. SumFunction(CashTaken(r)') = SumFunction(CashTaken(r)) + CashTaken(r)'[N]
      <4>1. /\ IsFiniteSet(SalesAt(r)) /\ CashTaken(r) \in [SalesAt(r) -> Int]
            /\ CashTaken(r)' \in [SalesAt(r)' -> Int]
        BY <1>a, <1>b
      <4>2. \A n \in SalesAt(r) : CashTaken(r)'[n] = CashTaken(r)[n]
        BY <3>2
      <4> QED
        BY <3>1, <4>1, <4>2, SumGrows
    <3>4. /\ sessions'[r].cashSales = sessions[r].cashSales + req.paid[CASH]
          /\ sessions'[r].refunds = sessions[r].refunds
      <4>1. sessions'[r] =
              [sessions[r] EXCEPT !.cashSales = sessions[r].cashSales + req.paid[CASH]]
        BY <1>0, <1>2, <2>3 DEF Sale, PostInvoice
      <4>2. sessions[r] \in Session
        BY <1>0, <2>1, <2>3
      <4> QED
        BY <4>1, <4>2 DEF Session
    <3> QED
      BY <1>0, <2>1, <2>2, <2>3, <3>2, <3>3, <3>4 DEF DrawerIs
  <2>4. CASE r # req.register
    <3>1. SalesAt(r)' = SalesAt(r)
      BY <2>1, <2>4 DEF SalesAt
    <3>2. CashTaken(r)' = CashTaken(r)
      BY <2>1, <3>1 DEF CashTaken, SalesAt
    <3>3. sessions'[r] = sessions[r]
      BY <1>0, <1>2, <2>4 DEF Sale, PostInvoice
    <3> QED
      BY <1>0, <2>2, <3>2, <3>3 DEF DrawerIs
  <2> QED
    BY <2>3, <2>4
<1>3. ASSUME NEW key \in Keys, NEW n \in DOMAIN invoices,
             NEW quantity \in [Variants -> Nat], NEW details \in RefundDetails,
             NEW cancel \in BOOLEAN, NEW row, NEW inv, NEW N,
             GoodsBack(key, n, quantity, details, cancel, row, inv, N)
      PROVE  DrawerIs(r)'
  <2> DEFINE cash == [register |-> r, method |-> CASH]
  <2>1. /\ DOMAIN invoices' = DOMAIN invoices
        /\ \A m \in DOMAIN invoices : invoices'[m].req = invoices[m].req
        /\ N \notin DOMAIN returns /\ DOMAIN returns' = DOMAIN returns \cup {N}
        /\ returns'[N] = row
        /\ \A i \in DOMAIN returns : returns'[i] = returns[i]
    BY <1>3 DEF GoodsBack, GoodsReturned, ReturnRows
  <2>2. /\ row.refund \in Nat
        /\ row.details = IF row.refund > 0 THEN details ELSE None
        /\ row.refund > 0 => details # None /\ sessions[details.register] # None
        /\ sessions' =
             IF FromDrawer(details, row.refund)
             THEN [sessions EXCEPT ![details.register].refunds = @ + row.refund]
             ELSE sessions
    BY <1>3 DEF GoodsBack, GoodsReturned, Return
  <2>3. CashTaken(r)' = CashTaken(r)
    <3>1. SalesAt(r)' = SalesAt(r)
      BY <2>1 DEF SalesAt
    <3> QED
      BY <2>1, <3>1 DEF CashTaken, SalesAt
  <2>4. cash \in [register : Registers, method : Methods] /\ cash # None
    BY SalesAssumption
  <2>5. row.details = cash <=>
          FromDrawer(details, row.refund) /\ details.register = r
    <3>1. CASE row.refund > 0
      <4>1. details \in [register : Registers, method : Methods]
        BY <2>2, <3>1 DEF RefundDetails
      <4>2. details = cash <=> details.method = CASH /\ details.register = r
        BY <4>1
      <4> QED
        BY <2>2, <3>1, <4>2 DEF FromDrawer
    <3>2. CASE ~(row.refund > 0)
      BY <2>2, <2>4, <3>2 DEF FromDrawer
    <3> QED
      BY <3>1, <3>2
  <2> HIDE DEF cash
  <2>6. CASE FromDrawer(details, row.refund) /\ details.register = r
    <3>1. RefundsAt(r)' = RefundsAt(r) \cup {N} /\ N \notin RefundsAt(r)
      BY <2>1, <2>5, <2>6 DEF RefundsAt, cash
    <3>2. /\ CashPaidOut(r)'[N] = row.refund
          /\ \A i \in RefundsAt(r) : CashPaidOut(r)'[i] = CashPaidOut(r)[i]
      BY <2>1, <3>1 DEF CashPaidOut, RefundsAt
    <3>3. SumFunction(CashPaidOut(r)')
            = SumFunction(CashPaidOut(r)) + CashPaidOut(r)'[N]
      BY <1>a, <1>b, <3>1, <3>2, SumGrows
    <3>4. sessions[r] # None
      BY <2>2, <2>6 DEF FromDrawer
    <3>5. /\ sessions'[r].refunds = sessions[r].refunds + row.refund
          /\ sessions'[r].cashSales = sessions[r].cashSales
      <4>1. sessions'[r] =
              [sessions[r] EXCEPT !.refunds = sessions[r].refunds + row.refund]
        <5>1. sessions'[details.register] =
                [sessions[details.register] EXCEPT
                   !.refunds = sessions[details.register].refunds + row.refund]
          <6>1. details.register \in Registers
            BY <2>6
          <6> QED
            BY <1>0, <2>2, <2>6, <6>1
        <5> QED
          BY <2>6, <5>1, Zenon
      <4>2. sessions[r] \in Session
        BY <1>0, <3>4
      <4> QED
        BY <4>1, <4>2 DEF Session
    <3> QED
      BY <1>0, <2>3, <3>2, <3>3, <3>4, <3>5 DEF DrawerIs
  <2>7. CASE ~(FromDrawer(details, row.refund) /\ details.register = r)
    <3>1. RefundsAt(r)' = RefundsAt(r)
      BY <2>1, <2>5, <2>7 DEF RefundsAt, cash
    <3>2. CashPaidOut(r)' = CashPaidOut(r)
      BY <2>1, <3>1 DEF CashPaidOut, RefundsAt
    <3>3. sessions'[r] = sessions[r]
      BY <1>0, <2>2, <2>7
    <3> QED
      BY <1>0, <2>3, <3>2, <3>3 DEF DrawerIs
  <2> QED
    BY <2>6, <2>7
<1> QED
  BY <1>0, <1>1, <1>2, <1>3 DEF SaleStep, GoodsBackStep

----------------------------------------------------------------------------
\* The quantities of a line that came back.
Back(n, v) == [i \in ReturnsOf(n) |-> returns[i].quantity[v]]

\* What came back of a line, as a finite sum of integers.
LEMMA BackType ==
  ASSUME TypeOK, NEW n, NEW v \in Variants
  PROVE  /\ IsFiniteSet(ReturnsOf(n)) /\ Back(n, v) \in [ReturnsOf(n) -> Int]
         /\ ReturnedQuantity(n, v) = SumFunction(Back(n, v))
         /\ ReturnedQuantity(n, v) \in Nat
<1>1. IsFiniteSet(ReturnsOf(n)) /\ ReturnedQuantity(n, v) \in Nat
  BY PriorType DEF ReturnedQuantity
<1>2. \A i \in DOMAIN returns : returns[i].quantity[v] \in Int
  BY RowTypes DEF Return
<1>3. ReturnedQuantity(n, v) = SumFunction(Back(n, v))
  BY DEF ReturnedQuantity, Prior, SumOver, Back
<1> QED
  BY <1>1, <1>2, <1>3 DEF Back, ReturnsOf

\* A sale starts with nothing given back and leaves the other lines alone.
LEMMA BackAfterSale ==
  ASSUME TypeOK, NEW key, NEW req, NEW inv, NEW N, Sale(key, req, inv, N),
         NEW v \in Variants
  PROVE  /\ ReturnedQuantity(N, v)' = 0
         /\ \A m \in DOMAIN invoices :
              ReturnedQuantity(m, v)' = ReturnedQuantity(m, v)
<1>1. returns' = returns /\ N \notin DOMAIN invoices
  BY DEF Sale, PostInvoice, SaleRows
<1>2. \A m : ReturnedQuantity(m, v)' = ReturnedQuantity(m, v)
  BY <1>1 DEF ReturnedQuantity, Prior, SumOver, ReturnsOf
<1>3. ReturnsOf(N) = {}
  BY <1>1, RowTypes DEF ReturnsOf
<1>4. ReturnedQuantity(N, v) = 0
  <2>1. DOMAIN Back(N, v) = {}
    BY <1>3 DEF Back
  <2> QED
    BY <2>1, BackType, SumEmpty
<1> QED
  BY <1>2, <1>4

\* A return adds its quantities to those of its invoice.
LEMMA BackAfterReturn ==
  ASSUME TypeOK, TypeOK', NEW key, NEW n \in DOMAIN invoices,
         NEW quantity \in [Variants -> Nat], NEW details,
         NEW cancel \in BOOLEAN, NEW row, NEW inv, NEW N,
         GoodsBack(key, n, quantity, details, cancel, row, inv, N),
         NEW v \in Variants
  PROVE  /\ ReturnedQuantity(n, v)' = ReturnedQuantity(n, v) + quantity[v]
         /\ \A m \in DOMAIN invoices \ {n} :
              ReturnedQuantity(m, v)' = ReturnedQuantity(m, v)
<1>1. /\ N \notin DOMAIN returns /\ DOMAIN returns' = DOMAIN returns \cup {N}
      /\ returns'[N] = row /\ row.invoice = n /\ row.quantity = quantity
      /\ \A i \in DOMAIN returns : returns'[i] = returns[i]
  BY DEF GoodsBack, GoodsReturned, ReturnRows
<1>2. ReturnsOf(n)' = ReturnsOf(n) \cup {N} /\ N \notin ReturnsOf(n)
  BY <1>1 DEF ReturnsOf
<1>3. ReturnedQuantity(n, v)' = ReturnedQuantity(n, v) + quantity[v]
  <2>1. /\ IsFiniteSet(ReturnsOf(n)) /\ Back(n, v) \in [ReturnsOf(n) -> Int]
        /\ ReturnedQuantity(n, v) = SumFunction(Back(n, v))
    BY BackType
  <2>2. /\ Back(n, v)' \in [ReturnsOf(n)' -> Int]
        /\ ReturnedQuantity(n, v)' = SumFunction(Back(n, v)')
    <3>1. (TypeOK => /\ Back(n, v) \in [ReturnsOf(n) -> Int]
                     /\ ReturnedQuantity(n, v) = SumFunction(Back(n, v)))'
      BY BackType, PTL
    <3> QED
      BY <3>1
  <2>3. /\ Back(n, v)'[N] = quantity[v]
        /\ \A i \in ReturnsOf(n) : Back(n, v)'[i] = Back(n, v)[i]
    BY <1>1, <1>2 DEF Back, ReturnsOf
  <2>4. SumFunction(Back(n, v)') = SumFunction(Back(n, v)) + Back(n, v)'[N]
    BY <1>2, <2>1, <2>2, <2>3, SumGrows
  <2> QED
    BY <2>1, <2>2, <2>3, <2>4
<1>4. ASSUME NEW m \in DOMAIN invoices \ {n}
      PROVE  ReturnedQuantity(m, v)' = ReturnedQuantity(m, v)
  <2>1. ReturnsOf(m)' = ReturnsOf(m)
    BY <1>1 DEF ReturnsOf
  <2>2. \A i \in ReturnsOf(m) : returns'[i] = returns[i]
    BY <1>1 DEF ReturnsOf
  <2> QED
    BY <2>1, <2>2 DEF ReturnedQuantity, Prior, SumOver
<1> QED
  BY <1>3, <1>4

\* What an invoice sold is a natural per variant.
LEMMA SoldType ==
  TypeOK => \A m \in DOMAIN invoices : \A w \in Variants : Sold(m, w) \in Nat
BY RowTypes

\* A return is refused when it asks for more than is left of a line.
LEMMA ReturnedStep ==
  ASSUME TypeInv, ReturnedWithinSold, Next
  PROVE  ReturnedWithinSold'
<1>0. TypeOK /\ TypeOK' /\ (OpenStep \/ SaleStep \/ GoodsBackStep)
  BY StepShapes, TypeStep DEF TypeInv
<1>1. CASE OpenStep
  <2>1. UNCHANGED <<invoices, returns>>
    BY <1>0, <1>1, OpenShape
  <2> QED
    BY <2>1 DEF ReturnedWithinSold, ReturnedQuantity, Prior, SumOver, ReturnsOf, Sold
<1>2. ASSUME NEW key \in Keys, NEW req \in SaleRequests, NEW inv, NEW N,
             Sale(key, req, inv, N), NEW n \in DOMAIN invoices',
             NEW v \in Variants
      PROVE  (ReturnedQuantity(n, v) <= Sold(n, v))'
  <2>1. /\ ReturnedQuantity(N, v)' = 0
        /\ \A m \in DOMAIN invoices :
             ReturnedQuantity(m, v)' = ReturnedQuantity(m, v)
    BY <1>0, <1>2, BackAfterSale
  <2>2. /\ n \in DOMAIN invoices \/ n = N
        /\ n \in DOMAIN invoices => Sold(n, v)' = Sold(n, v)
    BY <1>2 DEF Sale, SaleRows, Sold
  <2>3. Sold(n, v)' \in Nat
    <3>1. (TypeOK => \A m \in DOMAIN invoices : \A w \in Variants : Sold(m, w) \in Nat)'
      BY SoldType, PTL
    <3> QED
      BY <1>0, <3>1
  <2> QED
    BY <2>1, <2>2, <2>3 DEF ReturnedWithinSold
<1>3. ASSUME NEW key \in Keys, NEW n \in DOMAIN invoices,
             NEW quantity \in [Variants -> Nat], NEW details \in RefundDetails,
             NEW cancel \in BOOLEAN, NEW row, NEW inv, NEW N,
             GoodsBack(key, n, quantity, details, cancel, row, inv, N),
             NEW m \in DOMAIN invoices', NEW v \in Variants
      PROVE  (ReturnedQuantity(m, v) <= Sold(m, v))'
  <2>1. /\ ReturnedQuantity(n, v)' = ReturnedQuantity(n, v) + quantity[v]
        /\ \A k \in DOMAIN invoices \ {n} :
             ReturnedQuantity(k, v)' = ReturnedQuantity(k, v)
    BY <1>0, <1>3, BackAfterReturn
  <2>2. m \in DOMAIN invoices /\ Sold(m, v)' = Sold(m, v)
    BY <1>3 DEF GoodsBack, GoodsReturned, ReturnRows, Sold
  <2>3. quantity[v] <= Remaining(n, v)
    BY <1>3 DEF GoodsBack, AnyReturn, RecordReturn
  <2>4. ReturnedQuantity(n, v) \in Nat /\ Sold(n, v) \in Nat
    BY <1>0, BackType, RowTypes
  <2>5. ReturnedQuantity(n, v) + quantity[v] <= Sold(n, v)
    BY <2>3, <2>4 DEF Remaining
  <2> QED
    BY <2>1, <2>2, <2>5 DEF ReturnedWithinSold
<1> QED
  BY <1>0, <1>1, <1>2, <1>3 DEF SaleStep, GoodsBackStep, ReturnedWithinSold

\* The last return gives back what is left of the total, whatever the others
\* were rounded to.
LEMMA SettledStep ==
  ASSUME TypeInv, ReturnedWithinSold, InvoiceReconciles, FullReturnSettles, Next
  PROVE  FullReturnSettles'
<1>0. TypeOK /\ TypeOK' /\ (OpenStep \/ SaleStep \/ GoodsBackStep)
  BY StepShapes, TypeStep DEF TypeInv
<1>1. CASE OpenStep
  <2>1. UNCHANGED <<invoices, returns>>
    BY <1>0, <1>1, OpenShape
  <2> QED
    BY <2>1 DEF FullReturnSettles, Remaining, ReturnedQuantity, Prior, SumOver,
                ReturnsOf, Sold
<1> DEFINE AllBack(m) == \A v \in Variants : Remaining(m, v) = 0
           Settled(m) ==
             /\ AllBack(m) => /\ invoices[m].returned = invoices[m].total
                              /\ invoices[m].refunded = invoices[m].paid
                              /\ invoices[m].outstanding = 0
             /\ invoices[m].status = "CANCELLED" => AllBack(m)
<1>a. FullReturnSettles <=> \A m \in DOMAIN invoices : Settled(m)
  BY DEF FullReturnSettles
<1>b. (\A m \in DOMAIN invoices' : Settled(m)') => FullReturnSettles'
  BY DEF FullReturnSettles
<1>2. ASSUME NEW key \in Keys, NEW req \in SaleRequests, NEW inv, NEW N,
             Sale(key, req, inv, N), NEW m \in DOMAIN invoices'
      PROVE  Settled(m)'
  <2>1. /\ N \notin DOMAIN invoices /\ DOMAIN invoices' = DOMAIN invoices \cup {N}
        /\ invoices'[N] = inv /\ inv.req = req /\ inv.status = "POSTED"
        /\ \A n \in DOMAIN invoices : invoices'[n] = invoices[n]
    BY <1>2 DEF Sale, SaleRows, InvoicePosted
  <2>2. \A v \in Variants :
          /\ ReturnedQuantity(N, v)' = 0
          /\ \A n \in DOMAIN invoices :
               ReturnedQuantity(n, v)' = ReturnedQuantity(n, v)
    BY <1>0, <1>2, BackAfterSale
  <2>3. CASE m = N
    <3>1. PICK v \in Variants : req.cart.quantity[v] > 0
      BY SalesAssumption DEF SaleRequests
    <3>2. Remaining(N, v)' = req.cart.quantity[v]
      <4>1. req.cart.quantity[v] \in Nat
        BY SalesAssumption DEF SaleRequests, CartType
      <4>2. Sold(N, v)' = req.cart.quantity[v]
        BY <2>1 DEF Sold
      <4> QED
        BY <2>2, <4>1, <4>2 DEF Remaining
    <3>3. ~AllBack(N)'
      BY <3>1, <3>2
    <3> QED
      BY <2>1, <2>3, <3>3
  <2>4. CASE m # N
    <3>1. m \in DOMAIN invoices /\ invoices'[m] = invoices[m]
      BY <1>2, <2>1, <2>4
    <3>2. \A v \in Variants : Remaining(m, v)' = Remaining(m, v)
      BY <2>2, <3>1 DEF Remaining, Sold
    <3> QED
      BY <1>a, <3>1, <3>2
  <2> QED
    BY <2>3, <2>4
<1>3. ASSUME NEW key \in Keys, NEW n \in DOMAIN invoices,
             NEW quantity \in [Variants -> Nat], NEW details \in RefundDetails,
             NEW cancel \in BOOLEAN, NEW row, NEW inv, NEW N,
             GoodsBack(key, n, quantity, details, cancel, row, inv, N),
             NEW m \in DOMAIN invoices'
      PROVE  Settled(m)'
  <2>1. /\ GoodsReturned(key, n, quantity, details, cancel, row, inv)
        /\ cancel => Completes(n, quantity)
        /\ invoices[n].status = "POSTED"
        /\ inv.status = IF cancel THEN "CANCELLED" ELSE invoices[n].status
        /\ Completes(n, quantity) => inv.returned = inv.total
        /\ inv.req = invoices[n].req
    BY <1>3 DEF GoodsBack, AnyReturn, GoodsReturned
  <2>2. /\ DOMAIN invoices' = DOMAIN invoices /\ invoices'[n] = inv
        /\ \A k \in DOMAIN invoices \ {n} : invoices'[k] = invoices[k]
    BY <1>3 DEF GoodsBack, ReturnRows
  <2>3. \A v \in Variants :
          /\ ReturnedQuantity(n, v)' = ReturnedQuantity(n, v) + quantity[v]
          /\ \A k \in DOMAIN invoices \ {n} :
               ReturnedQuantity(k, v)' = ReturnedQuantity(k, v)
    BY <1>0, <1>3, BackAfterReturn
  <2>4. CASE m = n
    <3>1. \A v \in Variants : Remaining(n, v)' = Remaining(n, v) - quantity[v]
      <4> SUFFICES ASSUME NEW v \in Variants
                   PROVE  Remaining(n, v)' = Remaining(n, v) - quantity[v]
        OBVIOUS
      <4>1. Sold(n, v)' = Sold(n, v)
        BY <2>1, <2>2 DEF Sold
      <4>2. ReturnedQuantity(n, v) \in Nat /\ Sold(n, v) \in Nat
        BY <1>0, BackType, RowTypes
      <4> QED
        BY <2>3, <4>1, <4>2 DEF Remaining
    <3>2. \A v \in Variants : Remaining(n, v) \in Int
      BY <1>0, BackType, RowTypes DEF Remaining
    <3>3. AllBack(n)' <=> Completes(n, quantity)
      BY <3>1, <3>2 DEF Completes
    <3>4. Completes(n, quantity) =>
            inv.returned = inv.total /\ inv.refunded = inv.paid /\ inv.outstanding = 0
      <4>1. /\ inv.outstanding = Positive(inv.total - inv.paid - inv.returned)
            /\ inv.refunded = Positive(inv.returned - (inv.total - inv.paid))
        BY <2>1, ReturnSettles
      <4>2. inv.total \in Nat /\ inv.paid \in Nat
        BY <2>1 DEF GoodsReturned, Invoice
      <4> QED
        BY <2>1, <4>1, <4>2 DEF Positive
    <3> HIDE DEF AllBack
    <3> QED
      BY <2>1, <2>2, <2>4, <3>3, <3>4
  <2>5. CASE m # n
    <3>1. m \in DOMAIN invoices /\ invoices'[m] = invoices[m]
      BY <1>3, <2>2, <2>5
    <3>2. \A v \in Variants : Remaining(m, v)' = Remaining(m, v)
      BY <2>3, <2>5, <3>1 DEF Remaining, Sold
    <3> QED
      BY <1>a, <3>1, <3>2
  <2> QED
    BY <2>4, <2>5
<1> HIDE DEF Settled
<1> QED
  BY <1>0, <1>1, <1>2, <1>3, <1>b DEF SaleStep, GoodsBackStep

----------------------------------------------------------------------------
\* The invariant holds before the first request.
LEMMA InitInv ==
  ASSUME Init
  PROVE  IInv
<1>1. /\ sessions = [r \in Registers |-> None] /\ invoices = <<>> /\ returns = <<>>
      /\ nextNumber = 1 /\ receivable = [c \in Customers |-> 0]
      /\ movements = {} /\ stock = Opening
  BY DEF Init
<1>2. DOMAIN invoices = {} /\ DOMAIN returns = {}
  BY <1>1
<1>3. TypeInv
  <2>1. invoices \in Seq(Invoice) /\ returns \in Seq(Return)
    BY <1>1
  <2> QED
    BY <1>1, <1>2, <2>1, SalesAssumption DEF TypeInv, TypeOK
<1>4. Drawers /\ Documented /\ InvoiceReconciles /\ ReturnedWithinSold
        /\ FullReturnSettles /\ KeysAppliedOnce
  BY <1>1, <1>2 DEF Drawers, Documented, InvoiceReconciles, ReturnedWithinSold,
                    FullReturnSettles, KeysAppliedOnce
<1>5. ReceivableIsOutstanding
  <2> SUFFICES ASSUME NEW c \in Customers
               PROVE  receivable[c] = SumFunction(Unpaid(c))
    BY DEF ReceivableIsOutstanding, SumOver, Unpaid, InvoicesOf
  <2>1. DOMAIN Unpaid(c) = {}
    BY <1>2 DEF Unpaid, InvoicesOf
  <2> QED
    BY <1>1, <2>1, SumEmpty
<1>6. CreditLimitKept
  BY <1>1, SalesAssumption DEF CreditLimitKept
<1>7. DrawerReconciles
  BY <1>1 DEF DrawerReconciles
<1> QED
  BY <1>3, <1>4, <1>5, <1>6, <1>7 DEF IInv

\* The invariant is inductive.
LEMMA StepInv ==
  ASSUME IInv, [Next]_vars
  PROVE  IInv'
<1>0. /\ TypeInv /\ Drawers /\ Documented /\ InvoiceReconciles
      /\ ReceivableIsOutstanding /\ CreditLimitKept /\ DrawerReconciles
      /\ ReturnedWithinSold /\ FullReturnSettles /\ KeysAppliedOnce
  BY DEF IInv
<1>1. CASE Next
  <2>1. DrawerReconciles'
    <3>1. \A r \in Registers : DrawerIs(r)'
      BY <1>0, <1>1, DrawerSumStep
    <3>2. (DrawerReconciles <=> \A r \in Registers : DrawerIs(r))'
      BY DrawerSums, PTL
    <3> QED
      BY <3>1, <3>2
  <2>2. TypeInv' /\ Drawers' /\ Documented'
    BY <1>0, <1>1, TypeStep, DrawersStep, DocumentedStep
  <2>3. InvoiceReconciles' /\ ReceivableIsOutstanding' /\ CreditLimitKept'
    BY <1>0, <1>1, ReconcileStep, ReceivableStep, LimitStep
  <2>4. ReturnedWithinSold' /\ FullReturnSettles' /\ KeysAppliedOnce'
    BY <1>0, <1>1, ReturnedStep, SettledStep, KeysStep
  <2> QED
    BY <2>1, <2>2, <2>3, <2>4 DEF IInv
<1>2. CASE UNCHANGED vars
  <2>1. /\ sessions' = sessions /\ invoices' = invoices /\ returns' = returns
        /\ nextNumber' = nextNumber /\ receivable' = receivable
        /\ movements' = movements /\ stock' = stock
    BY <1>2 DEF vars
  <2>2. TypeInv' /\ Drawers' /\ Documented'
    BY <1>0, <2>1 DEF TypeInv, TypeOK, Drawers, Documented
  <2>3. InvoiceReconciles' /\ CreditLimitKept' /\ KeysAppliedOnce'
    BY <1>0, <2>1 DEF InvoiceReconciles, CreditLimitKept, KeysAppliedOnce
  <2>4. ReceivableIsOutstanding' /\ DrawerReconciles'
    BY <1>0, <2>1 DEF ReceivableIsOutstanding, DrawerReconciles, SumOver
  <2>5. ReturnedWithinSold' /\ FullReturnSettles'
    BY <1>0, <2>1 DEF ReturnedWithinSold, FullReturnSettles, Remaining,
                      ReturnedQuantity, Prior, SumOver, ReturnsOf, Sold
  <2> QED
    BY <2>2, <2>3, <2>4, <2>5 DEF IInv
<1> QED
  BY <1>1, <1>2

\* IInv holds throughout every behaviour.
THEOREM Invariant ==
  Spec => []IInv
<1>1. Init => IInv
  BY InitInv
<1>2. IInv /\ [Next]_vars => IInv'
  BY StepInv
<1> QED
  BY <1>1, <1>2, PTL DEF Spec

----------------------------------------------------------------------------
\* The rows keep their types: no amount of an invoice, a return or a drawer
\* goes below zero.
THEOREM TypeCorrect ==
  Spec => []TypeOK
<1>1. IInv => TypeOK
  BY DEF IInv, TypeInv
<1> QED
  BY <1>1, Invariant, PTL

\* The projections of every invoice agree with what was paid and given back.
THEOREM InvoicesReconcile ==
  Spec => []InvoiceReconciles
<1>1. IInv => InvoiceReconciles
  BY DEF IInv
<1> QED
  BY <1>1, Invariant, PTL

\* A customer owes exactly the unpaid parts of their invoices.
THEOREM ReceivableCorrect ==
  Spec => []ReceivableIsOutstanding
<1>1. IInv => ReceivableIsOutstanding
  BY DEF IInv
<1> QED
  BY <1>1, Invariant, PTL

\* No customer owes more than their limit.
THEOREM LimitKept ==
  Spec => []CreditLimitKept
<1>1. IInv => CreditLimitKept
  BY DEF IInv
<1> QED
  BY <1>1, Invariant, PTL

\* The cash columns of every session are the cash of its documents.
THEOREM DrawersReconcile ==
  Spec => []DrawerReconciles
<1>1. IInv => DrawerReconciles
  BY DEF IInv
<1> QED
  BY <1>1, Invariant, PTL

\* No more of a line comes back than was sold.
THEOREM ReturnsWithinSales ==
  Spec => []ReturnedWithinSold
<1>1. IInv => ReturnedWithinSold
  BY DEF IInv
<1> QED
  BY <1>1, Invariant, PTL

\* Once everything is back, in whatever portions, nothing is owed and all that
\* was paid has been refunded.
THEOREM FullReturnsSettle ==
  Spec => []FullReturnSettles
<1>1. IInv => FullReturnSettles
  BY DEF IInv
<1> QED
  BY <1>1, Invariant, PTL

\* No key posts two invoices or two returns.
THEOREM KeysOnce ==
  Spec => []KeysAppliedOnce
<1>1. IInv => KeysAppliedOnce
  BY DEF IInv
<1> QED
  BY <1>1, Invariant, PTL

----------------------------------------------------------------------------
\* A document that moves goods under a key that none of its kind has used is
\* one step of the ledger, and one that moves nothing is none.
LEMMA DocumentPosts ==
  ASSUME stock \in [Variants -> Nat], NEW key \in Keys,
         NEW kind \in Ledger!Kinds, NEW delta \in [Variants -> Int],
         \A v \in Variants : stock[v] + delta[v] \in Nat,
         \A m \in movements : ~(m.key = key /\ m.kind = kind),
         movements' = movements \cup Ledger!Rows(key, kind, delta),
         stock' = [v \in Variants |-> stock[v] + delta[v]]
  PROVE  [Ledger!LedgerNext]_(Ledger!ledgerVars)
<1>1. CASE Ledger!Rows(key, kind, delta) = {}
  <2>1. \A v \in Variants : delta[v] = 0
    BY <1>1 DEF Ledger!Rows
  <2>2. stock' = stock
    BY <2>1
  <2> QED
    BY <1>1, <2>2 DEF Ledger!ledgerVars
<1>2. CASE Ledger!Rows(key, kind, delta) # {}
  <2>1. [v \in Variants |-> stock'[v] - stock[v]] = delta
    OBVIOUS
  <2>2. \A m \in Ledger!Rows(key, kind, delta), n \in movements :
          ~Ledger!SameSlot(m, n)
    BY RowsType DEF Ledger!SameSlot
  <2>3. Ledger!Post(key, kind, delta)
    BY <1>2, <2>2 DEF Ledger!Post
  <2>4. Ledger!Post(key, kind, [v \in Variants |-> stock'[v] - stock[v]])
    BY <2>1, <2>3
  <2> QED
    BY <2>4 DEF Ledger!LedgerNext
<1> QED
  BY <1>1, <1>2

\* Every step is one posting of the stock ledger or leaves it alone.
LEMMA StepRefines ==
  ASSUME IInv, [Next]_vars
  PROVE  [Ledger!LedgerNext]_(Ledger!ledgerVars)
<1>0. /\ TypeInv /\ TypeOK /\ ReturnedWithinSold /\ Documented
      /\ stock \in [Variants -> Nat]
  BY DEF IInv, TypeInv
<1>1. CASE OpenStep
  <2>1. UNCHANGED <<movements, stock>>
    BY <1>0, <1>1, OpenShape
  <2> QED
    BY <2>1 DEF Ledger!ledgerVars
<1>2. ASSUME NEW key \in Keys, NEW req \in SaleRequests, PostInvoice(key, req)
      PROVE  [Ledger!LedgerNext]_(Ledger!ledgerVars)
  <2>1. /\ movements' = movements \cup Ledger!Rows(key, "SALE_ISSUE", Issued(req.cart))
        /\ stock' = [v \in Variants |-> stock[v] + Issued(req.cart)[v]]
        /\ ~InvoiceKeyUsed(key) /\ StockSuffices(req.cart)
    BY <1>2 DEF PostInvoice
  <2>2. /\ Issued(req.cart) \in [Variants -> Int]
        /\ \A v \in Variants : stock[v] + Issued(req.cart)[v] \in Nat
    <3>1. req.cart \in Carts
      BY DEF SaleRequests
    <3> QED
      BY <1>0, <2>1, <3>1, GoodsMoved
  <2>3. \A m \in movements : ~(m.key = key /\ m.kind = "SALE_ISSUE")
    BY <1>0, <2>1 DEF Documented, InvoiceKeyUsed
  <2>4. "SALE_ISSUE" \in Ledger!Kinds
    BY DEF Ledger!Kinds
  <2> QED
    BY <1>0, <2>1, <2>2, <2>3, <2>4, DocumentPosts
<1>3. ASSUME NEW key \in Keys, NEW n \in DOMAIN invoices,
             NEW quantity \in [Variants -> Nat], NEW details \in RefundDetails,
             NEW cancel \in BOOLEAN, AnyReturn(key, n, quantity, details, cancel)
      PROVE  [Ledger!LedgerNext]_(Ledger!ledgerVars)
  <2>1. /\ movements' = movements \cup
             Ledger!Rows(key, "SALES_RETURN", ReturnedGoods(quantity))
        /\ stock' = [v \in Variants |-> stock[v] + ReturnedGoods(quantity)[v]]
        /\ ~ReturnKeyUsed(key)
    BY <1>3 DEF AnyReturn, RecordReturn
  <2>2. /\ ReturnedGoods(quantity) \in [Variants -> Int]
        /\ \A v \in Variants : stock[v] + ReturnedGoods(quantity)[v] \in Nat
    BY <1>0, GoodsMoved
  <2>3. \A m \in movements : ~(m.key = key /\ m.kind = "SALES_RETURN")
    BY <1>0, <2>1 DEF Documented, ReturnKeyUsed
  <2>4. "SALES_RETURN" \in Ledger!Kinds
    BY DEF Ledger!Kinds
  <2> QED
    BY <1>0, <2>1, <2>2, <2>3, <2>4, DocumentPosts
<1>4. CASE UNCHANGED vars
  BY <1>4 DEF vars, Ledger!ledgerVars
<1>5. Next => OpenStep \/ PostStep \/ AnyReturnStep
  BY <1>0, StepKinds
<1> QED
  BY <1>1, <1>2, <1>3, <1>4, <1>5 DEF PostStep, AnyReturnStep

\* Every behaviour of sales, returns and cancellations is one of the ledger.
THEOREM LedgerImplemented ==
  Spec => ImplementsLedger
<1>1. Init => Ledger!LedgerInit
  BY SalesAssumption DEF Init, Ledger!LedgerInit
<1>2. IInv /\ [Next]_vars => [Ledger!LedgerNext]_(Ledger!ledgerVars)
  BY StepRefines
<1> QED
  BY <1>1, <1>2, Invariant, PTL DEF Spec, ImplementsLedger, Ledger!LedgerSpec

----------------------------------------------------------------------------
\* The share of this service in a stock that others move as well.
\*
\* What the invoices in force took off the shelf.
InForce == {n \in DOMAIN invoices : invoices[n].status = "POSTED"}
Kept(v) == [n \in InForce |-> Remaining(n, v)]
WithCustomers(v) == SumFunction(Kept(v))

\* It is a finite sum of integers.
KeptTyped ==
  /\ IsFiniteSet(InForce)
  /\ \A v \in Variants : Kept(v) \in [InForce -> Int] /\ WithCustomers(v) \in Int

\* The rows give it its type.
LEMMA KeptType ==
  TypeOK => KeptTyped
<1> SUFFICES ASSUME TypeOK
             PROVE  KeptTyped
  OBVIOUS
<1>1. IsFiniteSet(InForce) /\ InForce \subseteq DOMAIN invoices
  BY RowTypes, FS_Subset DEF InForce
<1>2. ASSUME NEW v \in Variants, NEW n \in InForce
      PROVE  Remaining(n, v) \in Int
  <2>1. Sold(n, v) \in Nat /\ ReturnedQuantity(n, v) \in Nat
    BY <1>1, SoldType, BackType
  <2> QED
    BY <2>1 DEF Remaining
<1>3. \A v \in Variants : Kept(v) \in [InForce -> Int]
  BY <1>2 DEF Kept
<1> QED
  BY <1>1, <1>3, SumType DEF KeptTyped, WithCustomers

\* A sale takes its goods off the shelf.
LEMMA SaleTakes ==
  ASSUME TypeOK, TypeOK', NEW key, NEW req, NEW inv, NEW N, Sale(key, req, inv, N),
         NEW v \in Tracked
  PROVE  WithCustomers(v)' = WithCustomers(v) + req.cart.quantity[v]
<1>0. v \in Variants /\ KeptTyped /\ KeptTyped'
  <2>1. (TypeOK => KeptTyped)'
    BY KeptType, PTL
  <2> QED
    BY <2>1, KeptType, SalesAssumption
<1>1. /\ N \notin DOMAIN invoices /\ DOMAIN invoices' = DOMAIN invoices \cup {N}
      /\ invoices'[N].req = req /\ invoices'[N].status = "POSTED"
      /\ \A m \in DOMAIN invoices : invoices'[m] = invoices[m]
  BY DEF Sale, SaleRows, InvoicePosted
<1>2. InForce' = InForce \cup {N} /\ N \notin InForce
  BY <1>1 DEF InForce
<1>3. /\ ReturnedQuantity(N, v)' = 0
      /\ \A m \in DOMAIN invoices : ReturnedQuantity(m, v)' = ReturnedQuantity(m, v)
  BY <1>0, BackAfterSale
<1>4. Kept(v)'[N] = req.cart.quantity[v]
  <2>1. Sold(N, v)' = req.cart.quantity[v]
    BY <1>1 DEF Sold
  <2>2. (TypeOK => \A m \in DOMAIN invoices : \A w \in Variants : Sold(m, w) \in Nat)'
    BY SoldType, PTL
  <2>3. Sold(N, v)' \in Nat
    BY <1>0, <1>1, <2>2
  <2>4. Remaining(N, v)' = Sold(N, v)' - ReturnedQuantity(N, v)'
    BY DEF Remaining
  <2> QED
    BY <1>2, <1>3, <2>1, <2>3, <2>4 DEF Kept
<1>5. \A m \in InForce : Kept(v)'[m] = Kept(v)[m]
  BY <1>1, <1>2, <1>3 DEF Kept, InForce, Remaining, Sold
<1>6. WithCustomers(v)' = WithCustomers(v) + Kept(v)'[N]
  <2> DEFINE before == Kept(v)
             now == Kept(v)'
  <2>1. /\ IsFiniteSet(InForce) /\ before \in [InForce -> Int]
        /\ now \in [InForce' -> Int]
        /\ \A m \in InForce : now[m] = before[m]
    BY <1>0, <1>5 DEF KeptTyped
  <2> HIDE DEF before, now
  <2>2. SumFunction(now) = SumFunction(before) + now[N]
    BY <1>2, <2>1, SumGrows
  <2> QED
    BY <2>2 DEF WithCustomers, before, now
<1> QED
  BY <1>4, <1>6

\* A return puts what comes back on the shelf, and a cancellation all that is
\* left, after which the invoice does not count any more.
LEMMA ReturnPuts ==
  ASSUME TypeOK, TypeOK', NEW key, NEW n \in DOMAIN invoices,
         NEW quantity \in [Variants -> Nat], NEW details,
         NEW cancel \in BOOLEAN, NEW row, NEW inv, NEW N,
         GoodsBack(key, n, quantity, details, cancel, row, inv, N),
         NEW v \in Tracked
  PROVE  WithCustomers(v)' = WithCustomers(v) - quantity[v]
<1>0. v \in Variants /\ KeptTyped /\ KeptTyped'
  <2>1. (TypeOK => KeptTyped)'
    BY KeptType, PTL
  <2> QED
    BY <2>1, KeptType, SalesAssumption
<1>1. /\ DOMAIN invoices' = DOMAIN invoices
      /\ invoices[n].status = "POSTED"
      /\ invoices'[n].status = IF cancel THEN "CANCELLED" ELSE "POSTED"
      /\ invoices'[n].req = invoices[n].req
      /\ \A m \in DOMAIN invoices \ {n} : invoices'[m] = invoices[m]
      /\ cancel => quantity[v] = Remaining(n, v)
  BY <1>0 DEF GoodsBack, GoodsReturned, ReturnRows, AnyReturn, Completes
<1>2. /\ ReturnedQuantity(n, v)' = ReturnedQuantity(n, v) + quantity[v]
      /\ \A m \in DOMAIN invoices \ {n} :
           ReturnedQuantity(m, v)' = ReturnedQuantity(m, v)
  BY <1>0, BackAfterReturn
<1>3. Sold(n, v) \in Nat /\ ReturnedQuantity(n, v) \in Nat /\ quantity[v] \in Nat
  BY <1>0, SoldType, BackType
<1>4. /\ Remaining(n, v) \in Int
      /\ Remaining(n, v)' = Remaining(n, v) - quantity[v]
      /\ \A m \in DOMAIN invoices \ {n} : Remaining(m, v)' = Remaining(m, v)
  <2>1. \A m \in DOMAIN invoices : Sold(m, v)' = Sold(m, v)
    BY <1>1 DEF Sold
  <2>2. \A m : Remaining(m, v)' = Sold(m, v)' - ReturnedQuantity(m, v)'
    BY DEF Remaining
  <2> QED
    BY <1>2, <1>3, <2>1, <2>2 DEF Remaining
<1>5. WithCustomers(v) \in Int /\ WithCustomers(v)' \in Int
  BY <1>0 DEF KeptTyped
<1> DEFINE before == Kept(v)
           now == Kept(v)'
<1>6. CASE ~cancel
  <2>1. InForce' = InForce /\ n \in InForce
    BY <1>1, <1>6 DEF InForce
  <2>2. /\ now[n] = before[n] - quantity[v] /\ before[n] \in Int
        /\ \A m \in InForce \ {n} : now[m] = before[m]
    BY <1>4, <2>1 DEF Kept, InForce
  <2>3. /\ IsFiniteSet(InForce) /\ before \in [InForce -> Int]
        /\ now \in [InForce -> Int]
    BY <1>0, <2>1 DEF KeptTyped
  <2> HIDE DEF before, now
  <2>4. SumFunction(now) = SumFunction(before) + (now[n] - before[n])
    BY <2>1, <2>2, <2>3, SumChange
  <2>5. WithCustomers(v)' = WithCustomers(v) + (now[n] - before[n])
    BY <2>4 DEF WithCustomers, before, now
  <2> QED
    BY <1>3, <1>5, <2>2, <2>5
<1>7. CASE cancel
  <2>1. InForce = InForce' \cup {n} /\ n \notin InForce'
    BY <1>1, <1>7 DEF InForce
  <2>2. /\ before[n] = quantity[v]
        /\ \A m \in InForce' : before[m] = now[m]
    BY <1>1, <1>4, <1>7, <2>1 DEF Kept, InForce
  <2>3. /\ IsFiniteSet(InForce') /\ before \in [InForce -> Int]
        /\ now \in [InForce' -> Int]
    BY <1>0 DEF KeptTyped
  <2> HIDE DEF before, now
  <2>4. SumFunction(before) = SumFunction(now) + before[n]
    BY <2>1, <2>2, <2>3, SumGrows
  <2>5. WithCustomers(v) = WithCustomers(v)' + before[n]
    BY <2>4 DEF WithCustomers, before, now
  <2> QED
    BY <1>3, <1>5, <2>2, <2>5
<1> QED
  BY <1>6, <1>7

\* The kinds of movements that only this service posts.
SaleKinds == {"SALE_ISSUE", "SALES_RETURN"}

\* One document of this service moves the stock of the tracked goods against
\* what its invoices took off the shelf.
SaleMove(key, kind, delta) ==
  /\ kind \in SaleKinds /\ delta \in [Variants -> Int]
  /\ \A v \in Variants : stock[v] + delta[v] \in Nat
  /\ \A m \in movements : ~(m.key = key /\ m.kind = kind)
  /\ movements' = movements \cup Ledger!Rows(key, kind, delta)
  /\ stock' = [v \in Variants |-> stock[v] + delta[v]]
  /\ \A v \in Tracked : WithCustomers(v)' = WithCustomers(v) - delta[v]
NoSaleMove ==
  /\ UNCHANGED <<movements, stock>>
  /\ \A v \in Tracked : WithCustomers(v)' = WithCustomers(v)

\* Every operation moves the stock against what the invoices took.
LEMMA OperationMoves ==
  ASSUME IInv, Next
  PROVE  \/ NoSaleMove
         \/ \E key \in Keys : \E kind, delta : SaleMove(key, kind, delta)
<1>0. /\ TypeInv /\ TypeOK /\ TypeOK' /\ Documented
      /\ OpenStep \/ SaleStep \/ GoodsBackStep
      /\ Tracked \subseteq Variants
  <2>1. TypeInv /\ ReturnedWithinSold /\ Documented
    BY DEF IInv
  <2> QED
    BY <2>1, TypeStep, StepShapes, SalesAssumption DEF TypeInv
<1>1. CASE OpenStep
  <2>1. UNCHANGED <<invoices, returns, movements, stock>>
    BY <1>0, <1>1, OpenShape
  <2> QED
    BY <2>1 DEF NoSaleMove, WithCustomers, Kept, InForce, Remaining, Sold,
                ReturnedQuantity, Prior, SumOver, ReturnsOf
<1>2. ASSUME NEW key \in Keys, NEW req \in SaleRequests, NEW inv, NEW N,
             Sale(key, req, inv, N)
      PROVE  \E kind, delta : SaleMove(key, kind, delta)
  <2> DEFINE delta == Issued(req.cart)
  <2>1. /\ movements' = movements \cup Ledger!Rows(key, "SALE_ISSUE", delta)
        /\ stock' = [v \in Variants |-> stock[v] + delta[v]]
        /\ ~InvoiceKeyUsed(key) /\ StockSuffices(req.cart)
    BY <1>2 DEF Sale, PostInvoice
  <2>2. req.cart \in Carts /\ req.cart.quantity \in [Variants -> Nat]
    BY SalesAssumption DEF SaleRequests, CartType
  <2>3. delta \in [Variants -> Int] /\ \A v \in Variants : stock[v] + delta[v] \in Nat
    BY <1>0, <2>1, <2>2, GoodsMoved
  <2>4. \A m \in movements : ~(m.key = key /\ m.kind = "SALE_ISSUE")
    BY <1>0, <2>1 DEF Documented, InvoiceKeyUsed
  <2>5. ASSUME NEW v \in Tracked
        PROVE  WithCustomers(v)' = WithCustomers(v) - delta[v]
    <3>1. WithCustomers(v)' = WithCustomers(v) + req.cart.quantity[v]
      BY <1>0, <1>2, SaleTakes
    <3>2. delta[v] = -req.cart.quantity[v] /\ req.cart.quantity[v] \in Nat
      BY <1>0, <2>2 DEF Issued
    <3>3. WithCustomers(v) \in Int
      BY <1>0, KeptType DEF KeptTyped
    <3> QED
      BY <3>1, <3>2, <3>3
  <2> HIDE DEF delta
  <2>6. SaleMove(key, "SALE_ISSUE", delta)
    BY <2>1, <2>3, <2>4, <2>5 DEF SaleMove, SaleKinds
  <2> QED
    BY <2>6
<1>3. ASSUME NEW key \in Keys, NEW n \in DOMAIN invoices,
             NEW quantity \in [Variants -> Nat], NEW details \in RefundDetails,
             NEW cancel \in BOOLEAN, NEW row, NEW inv, NEW N,
             GoodsBack(key, n, quantity, details, cancel, row, inv, N)
      PROVE  \E kind, delta : SaleMove(key, kind, delta)
  <2> DEFINE delta == ReturnedGoods(quantity)
  <2>1. /\ movements' = movements \cup Ledger!Rows(key, "SALES_RETURN", delta)
        /\ stock' = [v \in Variants |-> stock[v] + delta[v]]
        /\ ~ReturnKeyUsed(key)
    BY <1>3 DEF GoodsBack, AnyReturn, RecordReturn
  <2>2. delta \in [Variants -> Int] /\ \A v \in Variants : stock[v] + delta[v] \in Nat
    BY <1>0, GoodsMoved
  <2>3. \A m \in movements : ~(m.key = key /\ m.kind = "SALES_RETURN")
    BY <1>0, <2>1 DEF Documented, ReturnKeyUsed
  <2>4. ASSUME NEW v \in Tracked
        PROVE  WithCustomers(v)' = WithCustomers(v) - delta[v]
    <3>1. WithCustomers(v)' = WithCustomers(v) - quantity[v]
      BY <1>0, <1>3, ReturnPuts
    <3>2. delta[v] = quantity[v]
      BY <1>0 DEF ReturnedGoods
    <3> QED
      BY <3>1, <3>2
  <2> HIDE DEF delta
  <2>5. SaleMove(key, "SALES_RETURN", delta)
    BY <2>1, <2>2, <2>3, <2>4 DEF SaleMove, SaleKinds
  <2> QED
    BY <2>5
<1> QED
  BY <1>0, <1>1, <1>2, <1>3 DEF SaleStep, GoodsBackStep

\* Another service moved goods, with movements of kinds that are not of this one.
MovedElsewhere ==
  /\ UNCHANGED <<sessions, invoices, returns, nextNumber, receivable>>
  /\ movements' \subseteq Ledger!Movements /\ stock' \in [Variants -> Nat]
  /\ \A m \in movements' \ movements : m.kind \notin SaleKinds

\* Whatever others do to the stock, the documents of this service stay right.
LEMMA ElsewhereKeeps ==
  ASSUME IInv, MovedElsewhere
  PROVE  IInv' /\ \A v : WithCustomers(v)' = WithCustomers(v)
<1>0. /\ TypeInv /\ Drawers /\ Documented /\ InvoiceReconciles
      /\ ReceivableIsOutstanding /\ CreditLimitKept /\ DrawerReconciles
      /\ ReturnedWithinSold /\ FullReturnSettles /\ KeysAppliedOnce
  BY DEF IInv
<1>1. /\ sessions' = sessions /\ invoices' = invoices /\ returns' = returns
      /\ nextNumber' = nextNumber /\ receivable' = receivable
      /\ movements' \subseteq Ledger!Movements /\ stock' \in [Variants -> Nat]
  BY DEF MovedElsewhere
<1>2. TypeInv' /\ Drawers'
  BY <1>0, <1>1 DEF TypeInv, TypeOK, Drawers
<1>3. Documented'
  BY <1>0, <1>1 DEF MovedElsewhere, SaleKinds, Documented
<1>4. InvoiceReconciles' /\ CreditLimitKept' /\ KeysAppliedOnce'
  BY <1>0, <1>1 DEF InvoiceReconciles, CreditLimitKept, KeysAppliedOnce
<1>5. ReceivableIsOutstanding' /\ DrawerReconciles'
  BY <1>0, <1>1 DEF ReceivableIsOutstanding, DrawerReconciles, SumOver
<1>6. ReturnedWithinSold' /\ FullReturnSettles'
  BY <1>0, <1>1 DEF ReturnedWithinSold, FullReturnSettles, Remaining,
                    ReturnedQuantity, Prior, SumOver, ReturnsOf, Sold
<1>7. \A v : WithCustomers(v)' = WithCustomers(v)
  BY <1>1 DEF WithCustomers, Kept, InForce, Remaining, Sold, ReturnedQuantity,
              Prior, SumOver, ReturnsOf
<1> QED
  BY <1>2, <1>3, <1>4, <1>5, <1>6, <1>7 DEF IInv
=============================================================================
