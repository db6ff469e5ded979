------------------------------ MODULE Trading ------------------------------
(***************************************************************************)
(* One branch that buys and sells: SalesService, PurchasesService and      *)
(* StockService work on the same stock_balances and append to the same     *)
(* stock_movements.  Each service is its own module; here they share the   *)
(* two tables, so that goods bought are sold, returned, given back to the  *)
(* supplier or adjusted in any order, under Idempotency-Key values that    *)
(* the services do not coordinate.                                         *)
(***************************************************************************)
EXTENDS Integers, Sequences, FiniteSets, Functions

CONSTANTS Variants, Tracked, Keys,
          Registers, Customers, CreditLimit, SaleCarts, Methods, Payments,
          SaleBaskets, Suppliers, References, BillCarts, BillBaskets,
          Allotments, Amounts, MaxRoundOff, MaxBills, Quantities, None

\* What Sales and Purchases assume of their constants, with the variants, keys
\* and round-offs they share.
ASSUME TradingAssumption ==
  /\ IsFiniteSet(Variants) /\ Tracked \subseteq Variants
  /\ SaleCarts \subseteq [quantity : [Variants -> Nat], net : [Variants -> Nat],
                          tax : [Variants -> Nat], roundOff : Int]
  /\ \A cart \in SaleCarts : \E v \in Variants : cart.quantity[v] > 0
  /\ Payments \subseteq [Methods -> Nat]
  /\ SaleBaskets \subseteq [Variants -> Nat]
  /\ "CASH" \in Methods
  /\ CreditLimit \in [Customers -> Nat]
  /\ BillCarts \subseteq [quantity : [Variants -> Nat],
                          amount : [Variants -> Nat], roundOff : Int]
  /\ \A cart \in BillCarts :
       /\ \E v \in Variants : cart.quantity[v] > 0
       /\ \A v \in Variants : cart.quantity[v] = 0 => cart.amount[v] = 0
  /\ BillBaskets \subseteq [Variants -> Nat]
  /\ Allotments \subseteq Nat \ {0}
  /\ Amounts \subseteq Nat \ {0}
  /\ MaxBills \in Nat
  /\ Quantities \subseteq Nat \ {0}
  /\ None \notin Keys \cup Registers \cup Methods \cup Customers
  /\ None \notin [register : Registers, method : Methods]
  /\ None \notin [key : Keys, cashSales : Nat, refunds : Nat]

VARIABLES movements, stock,
          sessions, invoices, returns, nextNumber, receivable,
          bills, billReturns, supplierPayments

salesVars == <<sessions, invoices, returns, nextNumber, receivable>>
purchaseVars == <<bills, billReturns, supplierPayments>>
vars == <<movements, stock, salesVars, purchaseVars>>

S == INSTANCE Sales WITH Carts <- SaleCarts, Baskets <- SaleBaskets,
       Opening <- [v \in Variants |-> 0]
P == INSTANCE Purchases WITH Carts <- BillCarts, Baskets <- BillBaskets,
       returns <- billReturns, payments <- supplierPayments
Ledger == INSTANCE StockLedger

Init == S!Init /\ P!Init

\* StockService.adjust, as module StockAdjust shows it: one movement and the
\* sum, unless any movement has the key already.
AdjustedKinds == {"ADJUSTMENT_IN", "ADJUSTMENT_OUT"}
\* Slip: the stored movement is never looked for.
AdjustKeyForgotten(key) == TRUE
AdjustKeyFree(key) == \A m \in movements : m.key # key

Adjust(key, v, kind, q) ==
  LET delta == IF kind = "ADJUSTMENT_IN" THEN q ELSE -q
  IN  /\ AdjustKeyFree(key)
      /\ stock[v] + delta >= 0
      /\ movements' = movements \cup
           {[key |-> key, kind |-> kind, variant |-> v, quantity |-> delta]}
      /\ stock' = [stock EXCEPT ![v] = @ + delta]
      /\ UNCHANGED <<salesVars, purchaseVars>>

Next ==
  \/ S!Next /\ UNCHANGED purchaseVars
  \/ P!Operations /\ UNCHANGED salesVars
  \/ \E key \in Keys, v \in Tracked, kind \in AdjustedKinds, q \in Quantities :
       Adjust(key, v, kind, q)

Spec == Init /\ [][Next]_vars

----------------------------------------------------------------------------
SumOver(T, F(_)) == SumFunction([x \in T |-> F(x)])

\* What the documents say should be on the shelf: of every posted bill what did
\* not go back to the supplier, less of every posted invoice what the customer
\* kept, plus the adjustments.  Cancelled documents do not count.
OnShelf(v) ==
    SumOver({n \in DOMAIN bills : bills[n].status = "POSTED"},
            LAMBDA n : P!Remaining(n, v))
  - SumOver({n \in DOMAIN invoices : invoices[n].status = "POSTED"},
            LAMBDA n : S!Remaining(n, v))
  + SumOver({m \in movements : m.kind \in AdjustedKinds /\ m.variant = v},
            LAMBDA m : m.quantity)

\* Whatever the services do to the same goods, the balance is what the
\* documents in force add up to (a cancelled bill or invoice leaves no trace in
\* it), and it is the sum of the posted movements.
StockMatchesDocuments ==
  \A v \in Tracked :
    /\ stock[v] = OnShelf(v)
    /\ stock[v] = SumOver({m \in movements : m.variant = v},
                          LAMBDA m : m.quantity)

\* Together the services implement the stock ledger: none takes what another
\* has already given away, and no two write to one slot of the ledger.
ImplementsLedger == Ledger!LedgerSpec
=============================================================================
