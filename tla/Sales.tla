------------------------------- MODULE Sales -------------------------------
(***************************************************************************)
(* SalesService: POS sessions, posted invoices, returns, refunds and       *)
(* cancellations.  Every operation is one SERIALIZABLE transaction (module *)
(* StockAdjust opens one up), so an operation is one action here: its      *)
(* early returns are the guards, and a request it refuses, or answers from *)
(* what is stored under the same Idempotency-Key, changes nothing.         *)
(*                                                                         *)
(* The value of a line is what calculateSalesLine made of price, discount  *)
(* and tax; here a cart gives it, in two components: the taxable value and *)
(* one tax for CGST, SGST, IGST and cess.  A "method" stands for the payment *)
(* method with its reference, a cart for the request with its reason and   *)
(* dates: they only take part in comparisons for equality.                 *)
(***************************************************************************)
EXTENDS Money, Sequences, FiniteSets, Functions

CONSTANTS Variants,     \* product variants
          Tracked,      \* those whose stock is tracked
          Registers,    \* POS registers of the branch
          Keys,         \* Idempotency-Key values
          Customers,    \* customers of the organization
          CreditLimit,  \* customer -> limit, 0 for no limit
          Carts,        \* item lists a cashier may submit
          Methods,      \* payment methods, CASH among them
          Payments,     \* amounts tendered per method
          Baskets,      \* quantities a client may ask to return
          Opening,      \* stock on hand when the model starts
          MaxRoundOff,  \* largest round-off a CHECK allows
          None

CASH == "CASH"

CartType == [quantity : [Variants -> Nat], net : [Variants -> Nat],
             tax : [Variants -> Nat], roundOff : Int]

\* A cart has at least one line of a positive quantity (the request DTO), and
\* None is no row.
ASSUME SalesAssumption ==
  /\ IsFiniteSet(Variants) /\ Tracked \subseteq Variants
  /\ Carts \subseteq CartType
  /\ \A cart \in Carts : \E v \in Variants : cart.quantity[v] > 0
  /\ Payments \subseteq [Methods -> Nat]
  /\ Baskets \subseteq [Variants -> Nat]
  /\ CASH \in Methods
  /\ CreditLimit \in [Customers -> Nat]
  /\ Opening \in [Variants -> Nat]
  /\ None \notin Keys \cup Registers \cup Methods \cup Customers
  /\ None \notin [register : Registers, method : Methods]
  /\ None \notin [key : Keys, cashSales : Nat, refunds : Nat]

VARIABLES sessions,    \* register -> its pos_sessions row
          invoices,    \* sales_invoices in the order of posting
          returns,     \* sales_returns with items and refund, in order
          nextNumber,  \* invoice_series.next_number
          receivable,  \* customers.receivable_balance
          movements,   \* stock_movements
          stock        \* stock_balances.quantity

vars == <<sessions, invoices, returns, nextNumber, receivable, movements, stock>>

Ledger == INSTANCE StockLedger

SumOver(S, F(_)) == SumFunction([x \in S |-> F(x)])

\* salesTotals: the lines and the round-off.
LineTotals(cart) == [v \in Variants |-> cart.net[v] + cart.tax[v]]
CartTotal(cart) == SumOver(Variants, LAMBDA v : LineTotals(cart)[v]) + cart.roundOff
Tendered(paid) == SumOver(Methods, LAMBDA m : paid[m])

SaleRequests == [register : Registers, customer : Customers \cup {None},
                 cart : Carts, paid : Payments]
\* Where a refund comes from: a session and a method, or nothing stated.
RefundDetails == [register : Registers, method : Methods] \cup {None}

Init ==
  /\ sessions = [r \in Registers |-> None]
  /\ invoices = <<>>
  /\ returns = <<>>
  /\ nextNumber = 1
  /\ receivable = [c \in Customers |-> 0]
  /\ movements = {}
  /\ stock = Opening

----------------------------------------------------------------------------
\* openSession.  The unique index pos_sessions_one_open_register_key decides
\* between concurrent openings; no operation closes a session.
OpenSession(key, r) ==
  /\ \A s \in Registers : sessions[s] # None => sessions[s].key # key
  /\ sessions[r] = None
  /\ sessions' = [sessions EXCEPT ![r] = [key |-> key, cashSales |-> 0,
                                          refunds |-> 0]]
  /\ UNCHANGED <<invoices, returns, nextNumber, receivable, movements, stock>>

\* Slip: the stored invoice is never looked for.
InvoiceKeyForgotten(key) == FALSE
InvoiceKeyUsed(key) == \E n \in DOMAIN invoices : invoices[n].key = key

\* Slip: the balance is not compared with the quantity.
StockUnchecked(cart) == TRUE
StockSuffices(cart) ==
  \A v \in Tracked : cart.quantity[v] <= stock[v]

\* Slip: the limit is compared with this sale alone.
CreditPerSale(customer, unpaid) ==
  /\ unpaid > 0 => customer # None
  /\ customer # None =>
       CreditLimit[customer] = 0 \/ unpaid <= CreditLimit[customer]

\* What is left unpaid needs a customer, within that customer's limit.
CreditAllows(customer, unpaid) ==
  /\ unpaid > 0 => customer # None
  /\ customer # None =>
       \/ CreditLimit[customer] = 0
       \/ receivable[customer] + unpaid <= CreditLimit[customer]

\* sales_invoice_items_amounts_check: no line is free of charge.
LinesValid(cart) ==
  \A v \in Variants : cart.quantity[v] > 0 => LineTotals(cart)[v] > 0

Issued(cart) ==
  [v \in Variants |-> IF v \in Tracked THEN -cart.quantity[v] ELSE 0]

PostInvoice(key, req) ==
  LET total == CartTotal(req.cart)
      paid == Tendered(req.paid)
  IN  /\ ~InvoiceKeyUsed(key)
      /\ sessions[req.register] # None
      /\ StockSuffices(req.cart)
      /\ LinesValid(req.cart)
      /\ total \in Nat \ {0}
      /\ paid \in 0..total
      /\ CreditAllows(req.customer, total - paid)
      /\ invoices' = Append(invoices,
           [key |-> key, number |-> nextNumber, req |-> req,
            status |-> "POSTED", total |-> total, paid |-> paid,
            outstanding |-> total - paid, returned |-> 0, refunded |-> 0,
            cancelKey |-> None])
      /\ movements' = movements \cup
           Ledger!Rows(key, "SALE_ISSUE", Issued(req.cart))
      /\ stock' = [v \in Variants |-> stock[v] + Issued(req.cart)[v]]
      /\ receivable' =
           [c \in Customers |-> receivable[c] +
              (IF c = req.customer THEN total - paid ELSE 0)]
      /\ sessions' =
           [sessions EXCEPT ![req.register].cashSales = @ + req.paid[CASH]]
      /\ nextNumber' = nextNumber + 1
      /\ UNCHANGED returns

----------------------------------------------------------------------------
ReturnsOf(n) == {i \in DOMAIN returns : returns[i].invoice = n}
\* What earlier returns of an invoice add up to, per line.
Prior(n, field) ==
  [v \in Variants |-> SumOver(ReturnsOf(n), LAMBDA i : returns[i][field][v])]
ReturnedQuantity(n, v) == Prior(n, "quantity")[v]
Sold(n, v) == invoices[n].req.cart.quantity[v]
\* Slip: earlier returns are not counted.
RemainingOfSold(n, v) == Sold(n, v)
Remaining(n, v) == Sold(n, v) - ReturnedQuantity(n, v)

\* The part of each line's value that goes back with the quantities.
Portion(n, quantity, value, field) ==
  [v \in Variants |->
     IF quantity[v] = 0 THEN 0
     ELSE Share(value[v], Sold(n, v), quantity[v],
                Prior(n, field)[v], ReturnedQuantity(n, v))]

\* The rows of a return.  Each component and the line total are rounded on
\* their own.
ReturnItems(n, quantity) ==
  LET cart == invoices[n].req.cart
  IN  [quantity  |-> quantity,
       net       |-> Portion(n, quantity, cart.net, "net"),
       tax       |-> Portion(n, quantity, cart.tax, "tax"),
       lineTotal |-> Portion(n, quantity, LineTotals(cart), "lineTotal")]

\* What a return item must satisfy to be inserted:
\* sales_return_items_amounts_check.
ItemsValid(items) ==
  \A v \in Variants : items.quantity[v] > 0 =>
    /\ items.net[v] >= 0 /\ items.tax[v] >= 0
    /\ items.lineTotal[v] > 0
    /\ items.lineTotal[v] = items.net[v] + items.tax[v]

\* What a return must satisfy: the CHECK constraint of sales_returns and the
\* trigger validate_sales_return.
ReturnValid(inv, roundOff, total) ==
  /\ roundOff \in -MaxRoundOff .. MaxRoundOff
  /\ total \in Nat \ {0}
  /\ inv.returned + total <= inv.total

\* A refund is paid out of an open session by a stated method.
RefundPayable(details, refund) ==
  refund > 0 => details # None /\ sessions[details.register] # None

\* Slips: payments are forgotten, or refunds drive the amount below zero.
OutstandingUnpaid(inv, returned, cancel) ==
  IF cancel THEN 0 ELSE inv.total - returned
OutstandingSigned(inv, returned, cancel) ==
  IF cancel THEN 0 ELSE inv.total - inv.paid - returned
NextOutstanding(inv, returned, cancel) ==
  IF cancel THEN 0 ELSE Positive(inv.total - inv.paid - returned)

\* Slip: every refund is booked to the drawer.
AnyRefundFromDrawer(details, refund) == refund > 0
\* Only cash leaves the drawer.
FromDrawer(details, refund) == refund > 0 /\ details.method = CASH

\* Slip: only a return of everything at once counts as the last one.
CompletesAtOnce(n, quantity) == \A v \in Variants : quantity[v] = Sold(n, v)
\* Nothing of the invoice is left with the customer.
Completes(n, quantity) == \A v \in Variants : quantity[v] = Remaining(n, v)

ReturnedGoods(quantity) ==
  [v \in Variants |-> IF v \in Tracked THEN quantity[v] ELSE 0]

\* recordReturn, for returns and for cancellations.
RecordReturn(key, n, quantity, details, cancel) ==
  LET inv == invoices[n]
      items == ReturnItems(n, quantity)
      lineTotal == SumOver(Variants, LAMBDA v : items.lineTotal[v])
      roundOff == IF Completes(n, quantity)
                  THEN inv.total - inv.returned - lineTotal ELSE 0
      total == lineTotal + roundOff
      applied == Least(inv.outstanding, total)
      refund == total - applied
  IN  /\ \E v \in Variants : quantity[v] > 0
      /\ \A v \in Variants : quantity[v] <= Remaining(n, v)
      /\ ItemsValid(items)
      /\ ReturnValid(inv, roundOff, total)
      /\ RefundPayable(details, refund)
      /\ returns' = Append(returns,
           [key |-> key, invoice |-> n, quantity |-> quantity,
            net |-> items.net, tax |-> items.tax,
            lineTotal |-> items.lineTotal,
            total |-> total, applied |-> applied, refund |-> refund,
            details |-> IF refund > 0 THEN details ELSE None])
      /\ movements' = movements \cup
           Ledger!Rows(key, "SALES_RETURN", ReturnedGoods(quantity))
      /\ stock' = [v \in Variants |-> stock[v] + ReturnedGoods(quantity)[v]]
      /\ sessions' =
           IF FromDrawer(details, refund)
           THEN [sessions EXCEPT ![details.register].refunds = @ + refund]
           ELSE sessions
      /\ receivable' =
           [c \in Customers |-> receivable[c] -
              (IF c = inv.req.customer THEN applied ELSE 0)]
      /\ invoices' = [invoices EXCEPT ![n] =
           [inv EXCEPT
              !.returned = inv.returned + total,
              !.refunded = inv.refunded + refund,
              !.outstanding = NextOutstanding(inv, inv.returned + total, cancel),
              !.status = IF cancel THEN "CANCELLED" ELSE inv.status,
              !.cancelKey = IF cancel THEN key ELSE inv.cancelKey]]
      /\ UNCHANGED nextNumber

ReturnKeyUsed(key) == \E i \in DOMAIN returns : returns[i].key = key

\* createReturn.  The lines asked for must be lines of the invoice.
CreateReturn(key, n, quantity, details) ==
  /\ ~ReturnKeyUsed(key)
  /\ invoices[n].status = "POSTED"
  /\ \A v \in Variants : quantity[v] > 0 => Sold(n, v) > 0
  /\ RecordReturn(key, n, quantity, details, FALSE)

\* cancelInvoice: everything not returned yet comes back.  Its return row is
\* inserted under the same key, which the unique index of sales_returns
\* refuses if a return used it.
CancelInvoice(key, n, details) ==
  /\ invoices[n].status = "POSTED"
  /\ ~ReturnKeyUsed(key)
  /\ RecordReturn(key, n, [v \in Variants |-> Remaining(n, v)], details, TRUE)

Next ==
  \E key \in Keys :
    \/ \E r \in Registers : OpenSession(key, r)
    \/ \E req \in SaleRequests : PostInvoice(key, req)
    \/ \E n \in DOMAIN invoices, details \in RefundDetails :
         \/ \E basket \in Baskets : CreateReturn(key, n, basket, details)
         \/ CancelInvoice(key, n, details)

Spec == Init /\ [][Next]_vars

----------------------------------------------------------------------------
Session == [key : Keys, cashSales : Nat, refunds : Nat]
Invoice ==
  [key : Keys, number : Nat \ {0}, req : SaleRequests,
   status : {"POSTED", "CANCELLED"}, total : Nat, paid : Nat,
   outstanding : Nat, returned : Nat, refunded : Nat,
   cancelKey : Keys \cup {None}]
Return ==
  [key : Keys, invoice : Nat \ {0}, quantity : [Variants -> Nat],
   net : [Variants -> Nat], tax : [Variants -> Nat],
   lineTotal : [Variants -> Nat], total : Nat, applied : Nat, refund : Nat,
   details : RefundDetails]

TypeOK ==
  /\ sessions \in [Registers -> Session \cup {None}]
  /\ invoices \in Seq(Invoice)
  /\ returns \in Seq(Return)
  /\ \A i \in DOMAIN returns : returns[i].invoice \in DOMAIN invoices
  /\ nextNumber \in Nat \ {0}
  /\ receivable \in [Customers -> Int]
  /\ movements \subseteq Ledger!Movements
  /\ stock \in [Variants -> Int]

\* Whatever returns and cancellations follow, in whatever portions, an
\* invoice's projections agree with what was paid and given back: returns eat
\* up the unpaid part first and only the rest is refunded, never more than was
\* paid (recordReturn against sales_invoices_amounts_check).
InvoiceReconciles ==
  \A n \in DOMAIN invoices :
    LET inv == invoices[n]
        due == inv.total - inv.paid
    IN  /\ inv.paid <= inv.total /\ inv.returned <= inv.total
        /\ inv.outstanding = Positive(due - inv.returned)
        /\ inv.refunded = Positive(inv.returned - due)

\* A customer owes exactly the unpaid parts of their invoices.
ReceivableIsOutstanding ==
  \A c \in Customers :
    receivable[c] =
      SumOver({n \in DOMAIN invoices : invoices[n].req.customer = c},
              LAMBDA n : invoices[n].outstanding)

\* Sales at several registers together stay within a customer's limit.
CreditLimitKept ==
  \A c \in Customers : CreditLimit[c] > 0 => receivable[c] <= CreditLimit[c]

\* The cash columns of a session are the cash it took and the cash refunds it
\* paid, also for invoices of other registers.
DrawerReconciles ==
  \A r \in Registers : sessions[r] # None =>
    /\ sessions[r].cashSales =
         SumOver({n \in DOMAIN invoices : invoices[n].req.register = r},
                 LAMBDA n : invoices[n].req.paid[CASH])
    /\ sessions[r].refunds =
         SumOver({i \in DOMAIN returns :
                    returns[i].details = [register |-> r, method |-> CASH]},
                 LAMBDA i : returns[i].refund)

\* Of no line does more come back than was sold, in however many portions.
ReturnedWithinSold ==
  \A n \in DOMAIN invoices, v \in Variants :
    ReturnedQuantity(n, v) <= Sold(n, v)

\* Once every unit is back, by returns, cancellation or both, the rounded
\* portions add up to the invoice: nothing is owed and all that was paid has
\* been refunded.  A cancelled invoice is always in that state.
FullReturnSettles ==
  \A n \in DOMAIN invoices :
    LET inv == invoices[n]
        allBack == \A v \in Variants : Remaining(n, v) = 0
    IN  /\ allBack => /\ inv.returned = inv.total
                      /\ inv.refunded = inv.paid /\ inv.outstanding = 0
        /\ inv.status = "CANCELLED" => allBack

\* A repeated request is never posted twice.
KeysAppliedOnce ==
  /\ \A m, n \in DOMAIN invoices : invoices[m].key = invoices[n].key => m = n
  /\ \A i, j \in DOMAIN returns : returns[i].key = returns[j].key => i = j

\* Sales, returns and cancellations implement the stock ledger: each moves
\* every balance by what it posts, never below zero, under a fresh key.
ImplementsLedger == Ledger!LedgerSpec

\* The same cancellation, sent again under its key, is answered from what is
\* stored.  cancelInvoice compares the request with refunds[0], the first
\* refund of any return of the invoice, so all of them have to agree with the
\* one the cancellation itself paid.
CancelRetryReplays ==
  \A n \in DOMAIN invoices, i, j \in DOMAIN returns :
    /\ {i, j} \subseteq ReturnsOf(n)
    /\ returns[i].key = invoices[n].cancelKey
    /\ returns[j].refund > 0
    => returns[j].details = returns[i].details

\* Any part of what is left of a line can be given back.  The CHECK constraint
\* on the rows compares the rounded total with the rounded components.
PartialReturnAccepted ==
  \A n \in DOMAIN invoices, v \in Variants :
    Remaining(n, v) > 1 =>
      ItemsValid(ReturnItems(n, [w \in Variants |-> IF w = v THEN 1 ELSE 0]))
=============================================================================
